------------------------------ MODULE Accounts ------------------------------
(***************************************************************************)
(* Accounts, passwords, sessions and the links sent by mail (internal/auth *)
(* and its handlers in internal/api).  Every operation of internal/auth is *)
(* one transaction; signing in is two (the password is checked, then the   *)
(* session is created), and sending a link is three: the token is stored,  *)
(* the mail is sent, and the token is withdrawn when that fails.           *)
(*                                                                         *)
(* A password is a number that is never chosen twice.  User names, which   *)
(* only decide whose account a sign-in is about, are left out.             *)
(***************************************************************************)
EXTENDS Naturals, FiniteSets

CONSTANTS
    Holders, Admin,   \* accounts; the administrator's is made by the first visit
    Addresses,        \* mail addresses
    Requests,         \* sign-ins that can be under way at a time
    Invitations,
    MaxPasswords,     \* bound: passwords ever chosen
    MaxLinks,         \* bound: links ever made
    Nothing, Deleted

\* A row of users: its password, its verified address, how the password was set.
AccountRow == [pw : 1..MaxPasswords, email : Addresses \cup {Nothing},
            how : {"first", "changed", "approved", "reset"}]

ASSUME AccountsAssumption ==
    /\ Admin \in Holders /\ MaxPasswords \in Nat /\ MaxLinks \in Nat
    /\ Nothing \notin AccountRow /\ Deleted \notin AccountRow

VARIABLES
    account,     \* Nothing, Deleted, or: pw, email, how the password was set
    invitation,  \* "none", "open" or "spent"
    session,     \* open sessions: holder, pw; crossed: the password changed while it was opened
    opening,     \* sign-ins whose password has been checked
    link,        \* unused tokens: id, holder, kind, target, whether they have expired,
                 \* and their mail: "sending", "arrived" or "lost"
    recent,      \* holders and kinds for which a link was made in the last minute
    pending,     \* requests for a new password that await a review: pw, and the one it was made under
    chosen,      \* passwords chosen so far
    made         \* links made so far

accountVars == <<account, invitation, session, opening, link, recent, pending, chosen, made>>

Exists(h) == account[h] \notin {Nothing, Deleted}
NewAccount(p) == [pw |-> p, email |-> Nothing, how |-> "first"]
LinksOf(h, kind) == {l \in link : l.holder = h /\ l.kind = kind}

AccountsInit ==
    /\ account = [h \in Holders |-> Nothing]
    /\ invitation = [i \in Invitations |-> "none"]
    /\ session = {} /\ opening = [r \in Requests |-> Nothing]
    /\ link = {} /\ recent = {}
    /\ pending = [h \in Holders |-> Nothing]
    /\ chosen = 0 /\ made = 0

(***************************************************************************)
(* Accounts and sessions.                                                  *)
(***************************************************************************)
Choose(p) == chosen < MaxPasswords /\ p = chosen + 1 /\ chosen' = p

\* Initialize or RegisterWithInvitation, and the first half of startSession.
Create(h, r) ==
    \E p \in 1 .. MaxPasswords :
        /\ Choose(p) /\ opening[r] = Nothing
        /\ account' = [account EXCEPT ![h] = NewAccount(p)]
        /\ opening' = [opening EXCEPT ![r] = [holder |-> h, pw |-> p]]
        /\ UNCHANGED <<session, link, recent, pending, made>>

Initialize(r) ==
    /\ \A h \in Holders : account[h] = Nothing
    /\ Create(Admin, r)
    /\ UNCHANGED invitation

CreateInvitation(i) ==
    /\ invitation[i] = "none" /\ Exists(Admin)
    /\ invitation' = [invitation EXCEPT ![i] = "open"]
    /\ UNCHANGED <<account, session, opening, link, recent, pending, chosen, made>>

\* RevokeInvitation, or its 24 hours are over.
CloseInvitation(i) ==
    /\ invitation[i] = "open"
    /\ invitation' = [invitation EXCEPT ![i] = "spent"]
    /\ UNCHANGED <<account, session, opening, link, recent, pending, chosen, made>>

RegisterWithInvitation(i, h, r) ==
    /\ invitation[i] = "open" /\ account[h] = Nothing /\ h # Admin
    /\ Create(h, r)
    /\ invitation' = [invitation EXCEPT ![i] = "spent"]

Login(h, r) ==
    /\ Exists(h) /\ opening[r] = Nothing
    /\ opening' = [opening EXCEPT ![r] = [holder |-> h, pw |-> account[h].pw]]
    /\ UNCHANGED <<account, invitation, session, link, recent, pending, chosen, made>>

\* Without the account, the foreign key makes the insertion fail.
CreateSession(r) ==
    /\ opening[r] # Nothing
    /\ LET o == opening[r] IN
       session' = session \cup (IF Exists(o.holder)
           THEN {[holder |-> o.holder, pw |-> o.pw, crossed |-> o.pw # account[o.holder].pw]} ELSE {})
    /\ opening' = [opening EXCEPT ![r] = Nothing]
    /\ UNCHANGED <<account, invitation, link, recent, pending, chosen, made>>

\* Logout, or thirty days have passed.
EndSession(s) ==
    /\ s \in session
    /\ session' = session \ {s}
    /\ UNCHANGED <<account, invitation, opening, link, recent, pending, chosen, made>>

SessionsOf(h) == {s \in session : s.holder = h}

\* Everything that refers to the account goes with it.
DeleteUser(h) ==
    /\ Exists(h) /\ h # Admin
    /\ account' = [account EXCEPT ![h] = Deleted]
    /\ session' = session \ SessionsOf(h)
    /\ link' = {l \in link : l.holder # h}
    /\ recent' = {x \in recent : x[1] # h}
    /\ pending' = [pending EXCEPT ![h] = Nothing]
    /\ UNCHANGED <<invitation, opening, chosen, made>>

(***************************************************************************)
(* Passwords.                                                              *)
(***************************************************************************)
SetPassword(h, p, how) == account' = [account EXCEPT ![h].pw = p, ![h].how = how]

\* By someone who has signed in and knows the password.
ChangePassword(h) ==
    /\ Exists(h) /\ SessionsOf(h) # {}
    /\ \E p \in 1 .. MaxPasswords : Choose(p) /\ SetPassword(h, p, "changed")
    /\ session' = session \ SessionsOf(h)
    /\ link' = link \ LinksOf(h, "reset")
    /\ UNCHANGED <<invitation, opening, recent, pending, made>>

\* RequestPasswordResetByUsername or RequestPasswordResetForUser.
RequestPasswordReset(h) ==
    /\ Exists(h) /\ pending[h] = Nothing
    /\ \E p \in 1 .. MaxPasswords :
          Choose(p) /\ pending' = [pending EXCEPT ![h] = [pw |-> p, under |-> account[h].pw]]
    /\ UNCHANGED <<account, invitation, session, opening, link, recent, made>>

\* ReviewPasswordChangeRequest: an administrator does not review the own request.
ApprovePassword(h) ==
    /\ pending[h] # Nothing /\ h # Admin
    /\ SetPassword(h, pending[h].pw, "approved")
    /\ session' = session \ SessionsOf(h)
    /\ link' = link \ LinksOf(h, "reset")
    /\ pending' = [pending EXCEPT ![h] = Nothing]
    /\ UNCHANGED <<invitation, opening, recent, chosen, made>>

RejectPassword(h) ==
    /\ pending[h] # Nothing /\ h # Admin
    /\ pending' = [pending EXCEPT ![h] = Nothing]
    /\ UNCHANGED <<account, invitation, session, opening, link, recent, chosen, made>>

(***************************************************************************)
(* Links by mail.                                                          *)
(***************************************************************************)
\* A new link makes those of its kind useless.
Prepare(h, kind, target) ==
    /\ <<h, kind>> \notin recent /\ made < MaxLinks
    /\ made' = made + 1
    /\ link' = (link \ LinksOf(h, kind)) \cup
                  {[id |-> made', holder |-> h, kind |-> kind, target |-> target,
                    expired |-> FALSE, mail |-> "sending"]}
    /\ recent' = recent \cup {<<h, kind>>}
    /\ UNCHANGED <<account, invitation, session, opening, pending, chosen>>

Taken(a, h) == \E g \in Holders \ {h} : Exists(g) /\ account[g].email = a

PrepareEmailVerification(h, a) ==
    /\ Exists(h) /\ SessionsOf(h) # {}
    /\ account[h].email # a /\ ~Taken(a, h)
    /\ Prepare(h, "verify", a)

PreparePasswordResetEmail(h) ==
    /\ Exists(h) /\ account[h].email # Nothing
    /\ Prepare(h, "reset", account[h].email)

\* The mail arrives; or sending it is reported to have failed, and
\* CancelEmailVerification or CancelPasswordResetEmail withdraws the token.
Sent(l) ==
    /\ l.mail = "sending"
    /\ link' = (link \ {l}) \cup {[l EXCEPT !.mail = "arrived"]}
    /\ UNCHANGED <<account, invitation, session, opening, recent, pending, chosen, made>>

SendFailed(l) ==
    /\ l.mail = "sending"
    /\ link' = link \ {l}
    /\ UNCHANGED <<account, invitation, session, opening, recent, pending, chosen, made>>

\* Mistake: a change of address that leaves the link to the old one valid.
VerifyKeepingResets(l) ==
    /\ l.kind = "verify" /\ ~l.expired /\ l.mail = "arrived" /\ ~Taken(l.target, l.holder)
    /\ account' = [account EXCEPT ![l.holder].email = l.target]
    /\ link' = link \ LinksOf(l.holder, "verify")
    /\ UNCHANGED <<invitation, session, opening, recent, pending, chosen, made>>

VerifyEmail(l) ==
    LET h == l.holder
        changed == account[h].email \notin {Nothing, l.target}
    IN  /\ l.kind = "verify" /\ ~l.expired /\ l.mail = "arrived" /\ ~Taken(l.target, h)
        /\ account' = [account EXCEPT ![h].email = l.target]
        /\ link' = link \ (LinksOf(h, "verify") \cup IF changed THEN LinksOf(h, "reset") ELSE {})
        /\ UNCHANGED <<invitation, session, opening, recent, pending, chosen, made>>

\* Mistake: a reset that leaves the request for another password pending.
ResetKeepingRequest(l) ==
    /\ l.kind = "reset" /\ ~l.expired /\ l.mail = "arrived" /\ account[l.holder].email = l.target
    /\ \E p \in 1 .. MaxPasswords : Choose(p) /\ SetPassword(l.holder, p, "reset")
    /\ link' = link \ LinksOf(l.holder, "reset")
    /\ session' = session \ SessionsOf(l.holder)
    /\ UNCHANGED <<invitation, opening, recent, pending, made>>

ResetPasswordByEmail(l) ==
    /\ l.kind = "reset" /\ ~l.expired /\ l.mail = "arrived" /\ account[l.holder].email = l.target
    /\ \E p \in 1 .. MaxPasswords : Choose(p) /\ SetPassword(l.holder, p, "reset")
    /\ link' = link \ LinksOf(l.holder, "reset")
    /\ session' = session \ SessionsOf(l.holder)
    /\ pending' = [pending EXCEPT ![l.holder] = Nothing]
    /\ UNCHANGED <<invitation, opening, recent, made>>

\* A minute has passed, or half an hour.
MinutePasses ==
    /\ recent # {} /\ recent' = {}
    /\ UNCHANGED <<account, invitation, session, opening, link, pending, chosen, made>>

LinksExpire ==
    /\ \E l \in link : ~l.expired
    /\ link' = {[l EXCEPT !.expired = TRUE] : l \in link}
    /\ recent' = {}
    /\ UNCHANGED <<account, invitation, session, opening, pending, chosen, made>>

\* The Panel stops: sign-ins and mails under way are forgotten.
PanelStops ==
    /\ opening' = [r \in Requests |-> Nothing]
    /\ \E outcome \in {"arrived", "lost"} :
          link' = {IF l.mail = "sending" THEN [l EXCEPT !.mail = outcome] ELSE l : l \in link}
    /\ UNCHANGED <<account, invitation, session, recent, pending, chosen, made>>

AccountsNext ==
    \/ \E r \in Requests : Initialize(r) \/ CreateSession(r)
    \/ \E i \in Invitations : CreateInvitation(i) \/ CloseInvitation(i)
    \/ \E i \in Invitations, h \in Holders, r \in Requests : RegisterWithInvitation(i, h, r)
    \/ \E h \in Holders, r \in Requests : Login(h, r)
    \/ \E s \in session : EndSession(s)
    \/ \E h \in Holders :
          \/ DeleteUser(h) \/ ChangePassword(h) \/ RequestPasswordReset(h)
          \/ ApprovePassword(h) \/ RejectPassword(h)
    \/ \E h \in Holders : PreparePasswordResetEmail(h) \/ \E a \in Addresses : PrepareEmailVerification(h, a)
    \/ \E l \in link : Sent(l) \/ SendFailed(l) \/ VerifyEmail(l) \/ ResetPasswordByEmail(l)
    \/ MinutePasses \/ LinksExpire \/ PanelStops

AccountsSpec == AccountsInit /\ [][AccountsNext]_accountVars

(***************************************************************************)
(* Properties.                                                             *)
(***************************************************************************)
\* However a password is replaced, no session outlives the password it was opened
\* with, unless the password was replaced between the check of a sign-in
\* (auth.go:79) and the creation of its session.
SessionsMatchPassword ==
    \A s \in session : Exists(s.holder) /\ (s.pw = account[s.holder].pw \/ s.crossed)

\* A link to choose a new password only ever works for the address that the
\* account has now, through changes of address in any order.
ResetLinksFollowAddress ==
    \A l \in link : l.kind = "reset" => Exists(l.holder) /\ account[l.holder].email = l.target

\* A request that still awaits its review was made under the present password:
\* approving it cannot undo a reset by mail or another approval.  It can undo a
\* change by the holder, which leaves the request pending.
ApprovalIsNotStale ==
    \A h \in Holders : pending[h] # Nothing =>
        Exists(h) /\ (pending[h].under = account[h].pw \/ account[h].how = "changed")

\* The three together: no session, link or request outlives what it was made under.
OldCredentialsAreDead == SessionsMatchPassword /\ ResetLinksFollowAddress /\ ApprovalIsNotStale
=============================================================================
