---------------------------- MODULE PanelProofs -----------------------------
(* Theorems about the parts of the Panel that serve its users: accounts,   *)
(* the limiter of sign-ins and personal subscriptions.                     *)
EXTENDS Accounts, LoginLimiter, PersonalSubscription, FiniteSetTheorems, SequenceTheorems, TLAPS

(***************************************************************************)
(* Accounts.                                                               *)
(***************************************************************************)
Links == [id : Nat, holder : Holders, kind : {"verify", "reset"},
          target : Addresses \cup {Nothing}, expired : BOOLEAN,
          mail : {"sending", "arrived", "lost"}]

AccountsType ==
  /\ account \in [Holders -> AccountRow \cup {Nothing, Deleted}]
  /\ opening \in [Requests -> [holder : Holders, pw : 1..MaxPasswords] \cup {Nothing}]
  /\ session \subseteq [holder : Holders, pw : 1..MaxPasswords, crossed : BOOLEAN]
  /\ link \subseteq Links
  /\ pending \in [Holders -> [pw : 1..MaxPasswords, under : 1..MaxPasswords] \cup {Nothing}]
  /\ chosen \in Nat /\ made \in Nat

(***************************************************************************)
(* What the property needs to be inductive: a link goes with its account,  *)
(* and a link to choose a password was made for an address.                *)
(***************************************************************************)
LinksInv ==
  \A l \in link : Exists(l.holder) /\ (l.kind = "reset" => l.target # Nothing)

AccountsInv == AccountsType /\ LinksInv /\ OldCredentialsAreDead

\* Nobody has an account yet.
LEMMA InitAccounts == AccountsInit => AccountsInv
<1> SUFFICES ASSUME AccountsInit PROVE AccountsInv
  OBVIOUS
<1> USE DEF AccountsInit
<1>1. AccountsType
  BY DEF AccountsType
<1>2. LinksInv /\ OldCredentialsAreDead
  BY DEF LinksInv, OldCredentialsAreDead, SessionsMatchPassword, ResetLinksFollowAddress,
     ApprovalIsNotStale
<1> QED
  BY <1>1, <1>2 DEF AccountsInv

\* An account that exists is a row.
LEMMA RowOf ==
  ASSUME AccountsType, NEW h \in Holders, Exists(h)
  PROVE  account[h] \in AccountRow
  BY DEF AccountsType, Exists

\* What setting a password changes, and what it leaves.
LEMMA PasswordSet ==
  ASSUME AccountsType, NEW h \in Holders, Exists(h), NEW p \in 1..MaxPasswords,
         NEW how \in {"changed", "approved", "reset"}, SetPassword(h, p, how)
  PROVE  /\ account' \in [Holders -> AccountRow \cup {Nothing, Deleted}]
         /\ \A g \in Holders : g # h => account'[g] = account[g]
         /\ Exists(h)' /\ account'[h].pw = p /\ account'[h].how = how
         /\ account'[h].email = account[h].email
<1>1. account[h] \in AccountRow
  BY RowOf
<1>2. account'[h] = [[account[h] EXCEPT !.pw = p] EXCEPT !.how = how]
  BY DEF SetPassword, AccountsType
<1>3. /\ account'[h] \in AccountRow /\ account'[h].pw = p /\ account'[h].how = how
      /\ account'[h].email = account[h].email
  BY <1>1, <1>2 DEF AccountRow
<1>4. \A g \in Holders : g # h => account'[g] = account[g]
  BY DEF SetPassword, AccountsType
<1>5. DOMAIN account' = Holders /\ account' = [g \in Holders |-> account'[g]]
  BY DEF SetPassword, AccountsType
<1>6. \A g \in Holders : account'[g] \in AccountRow \cup {Nothing, Deleted}
  BY <1>3, <1>4 DEF AccountsType
<1>7. account' \in [Holders -> AccountRow \cup {Nothing, Deleted}]
  BY <1>5, <1>6
<1> QED
  BY <1>3, <1>4, <1>7, AccountsAssumption DEF Exists

\* What a new account changes.
LEMMA AccountCreated ==
  ASSUME AccountsType, NEW h \in Holders, NEW r \in Requests, Create(h, r)
  PROVE  /\ account' \in [Holders -> AccountRow \cup {Nothing, Deleted}]
         /\ opening' \in [Requests -> [holder : Holders, pw : 1..MaxPasswords] \cup {Nothing}]
         /\ \A g \in Holders : g # h => account'[g] = account[g]
         /\ Exists(h)' /\ chosen' \in Nat
         /\ UNCHANGED <<session, link, pending, made>>
<1>1. PICK p \in 1..MaxPasswords :
        /\ Choose(p) /\ account' = [account EXCEPT ![h] = NewAccount(p)]
        /\ opening' = [opening EXCEPT ![r] = [holder |-> h, pw |-> p]]
        /\ UNCHANGED <<session, link, pending, made>>
  BY DEF Create
<1>2. NewAccount(p) \in AccountRow
  BY DEF NewAccount, AccountRow
<1>3. [holder |-> h, pw |-> p] \in [holder : Holders, pw : 1..MaxPasswords]
  OBVIOUS
<1>4. chosen' \in Nat
  BY <1>1, AccountsAssumption DEF Choose
<1> QED
  BY <1>1, <1>2, <1>3, <1>4, AccountsAssumption DEF AccountsType, Exists

\* Every step keeps the types.
LEMMA NextAccountsType == AccountsInv /\ [AccountsNext]_accountVars => AccountsType'
<1> SUFFICES ASSUME AccountsInv, [AccountsNext]_accountVars PROVE AccountsType'
  OBVIOUS
<1>0. AccountsType
  BY DEF AccountsInv
<1>1. CASE UNCHANGED <<account, opening, pending, chosen, made>>
           /\ session' \subseteq session /\ link' \subseteq Links
  BY <1>0, <1>1 DEF AccountsType
<1>2. ASSUME NEW h \in Holders, NEW r \in Requests, Create(h, r) PROVE AccountsType'
  BY <1>0, <1>2, AccountCreated DEF AccountsType
<1>3. ASSUME NEW r \in Requests, CreateSession(r) PROVE AccountsType'
  <2>1. opening[r] \in [holder : Holders, pw : 1..MaxPasswords]
    BY <1>0, <1>3 DEF CreateSession, AccountsType
  <2> DEFINE new == [holder |-> opening[r].holder, pw |-> opening[r].pw,
                     crossed |-> opening[r].pw # account[opening[r].holder].pw]
  <2>a. new \in [holder : Holders, pw : 1..MaxPasswords, crossed : BOOLEAN]
    BY <2>1
  <2>b. session' \subseteq session \cup {new}
    BY <1>3 DEF CreateSession
  <2>2. session' \subseteq [holder : Holders, pw : 1..MaxPasswords, crossed : BOOLEAN]
    BY <1>0, <2>a, <2>b DEF AccountsType
  <2> QED
    BY <1>0, <1>3, <2>2 DEF CreateSession, AccountsType
<1>4. ASSUME NEW i \in Invitations, CreateInvitation(i) \/ CloseInvitation(i) PROVE AccountsType'
  BY <1>0, <1>4 DEF CreateInvitation, CloseInvitation, AccountsType
<1>5. ASSUME NEW h \in Holders, NEW r \in Requests, Login(h, r) PROVE AccountsType'
  <2>1. account[h] \in AccountRow
    BY <1>0, <1>5, RowOf DEF Login
  <2>2. [holder |-> h, pw |-> account[h].pw] \in [holder : Holders, pw : 1..MaxPasswords]
    BY <2>1 DEF AccountRow
  <2> QED
    BY <1>0, <1>5, <2>2 DEF Login, AccountsType
<1>6. ASSUME NEW u \in session, EndSession(u) PROVE AccountsType'
  BY <1>0, <1>6 DEF EndSession, AccountsType
<1>7. ASSUME NEW h \in Holders, DeleteUser(h) PROVE AccountsType'
  BY <1>0, <1>7 DEF DeleteUser, AccountsType
<1>8. ASSUME NEW h \in Holders, ChangePassword(h) PROVE AccountsType'
  <2>1. PICK p \in 1..MaxPasswords : Choose(p) /\ SetPassword(h, p, "changed")
    BY <1>8 DEF ChangePassword
  <2>2. account' \in [Holders -> AccountRow \cup {Nothing, Deleted}]
    BY <1>0, <1>8, <2>1, PasswordSet DEF ChangePassword
  <2>3. chosen' \in Nat
    BY <2>1, AccountsAssumption DEF Choose
  <2> QED
    BY <1>0, <1>8, <2>2, <2>3 DEF ChangePassword, AccountsType
<1>9. ASSUME NEW h \in Holders, RequestPasswordReset(h) PROVE AccountsType'
  <2>1. PICK p \in 1..MaxPasswords :
          Choose(p) /\ pending' = [pending EXCEPT ![h] = [pw |-> p, under |-> account[h].pw]]
    BY <1>9 DEF RequestPasswordReset
  <2>2. account[h] \in AccountRow
    BY <1>0, <1>9, RowOf DEF RequestPasswordReset
  <2>3. [pw |-> p, under |-> account[h].pw] \in [pw : 1..MaxPasswords, under : 1..MaxPasswords]
    BY <2>2 DEF AccountRow
  <2>4. chosen' \in Nat
    BY <2>1, AccountsAssumption DEF Choose
  <2> QED
    BY <1>0, <1>9, <2>1, <2>3, <2>4 DEF RequestPasswordReset, AccountsType
<1>10. ASSUME NEW h \in Holders, ApprovePassword(h) PROVE AccountsType'
  <2>1. Exists(h) /\ pending[h] \in [pw : 1..MaxPasswords, under : 1..MaxPasswords]
    BY <1>0, <1>10 DEF ApprovePassword, AccountsInv, OldCredentialsAreDead, ApprovalIsNotStale,
       AccountsType
  <2>2. account' \in [Holders -> AccountRow \cup {Nothing, Deleted}]
    BY <1>0, <1>10, <2>1, PasswordSet DEF ApprovePassword
  <2> QED
    BY <1>0, <1>10, <2>2 DEF ApprovePassword, AccountsType
<1>11. ASSUME NEW h \in Holders, RejectPassword(h) PROVE AccountsType'
  BY <1>0, <1>11 DEF RejectPassword, AccountsType
<1>12. ASSUME NEW h \in Holders, NEW kind \in {"verify", "reset"},
              NEW target \in Addresses \cup {Nothing}, Prepare(h, kind, target)
       PROVE  AccountsType'
  <2>1. made' \in Nat
    BY <1>0, <1>12 DEF Prepare, AccountsType
  <2>2. [id |-> made', holder |-> h, kind |-> kind, target |-> target, expired |-> FALSE,
         mail |-> "sending"] \in Links
    BY <2>1 DEF Links
  <2>3. link' \subseteq Links
    BY <1>0, <1>12, <2>2 DEF Prepare, AccountsType
  <2> QED
    BY <1>0, <1>12, <2>1, <2>3 DEF Prepare, AccountsType
<1>13. ASSUME NEW h \in Holders, PreparePasswordResetEmail(h) PROVE AccountsType'
  <2>1. account[h] \in AccountRow
    BY <1>0, <1>13, RowOf DEF PreparePasswordResetEmail
  <2>2. account[h].email \in Addresses \cup {Nothing}
    BY <2>1 DEF AccountRow
  <2> QED
    BY <1>12, <1>13, <2>2 DEF PreparePasswordResetEmail
<1>14. ASSUME NEW h \in Holders, NEW a \in Addresses, PrepareEmailVerification(h, a)
       PROVE  AccountsType'
  BY <1>12, <1>14 DEF PrepareEmailVerification
<1>15. ASSUME NEW l \in link, Sent(l) \/ SendFailed(l) PROVE AccountsType'
  <2>1. [l EXCEPT !.mail = "arrived"] \in Links
    BY <1>0 DEF AccountsType, Links
  <2> QED
    BY <1>0, <1>1, <1>15, <2>1 DEF Sent, SendFailed, AccountsType
<1>16. ASSUME NEW l \in link, VerifyEmail(l) PROVE AccountsType'
  <2>1. l \in Links /\ account[l.holder] \in AccountRow
    BY <1>0, RowOf DEF AccountsType, Links, AccountsInv, LinksInv
  <2>2. [account[l.holder] EXCEPT !.email = l.target] \in AccountRow
    BY <2>1 DEF AccountRow, Links
  <2>3. account' \in [Holders -> AccountRow \cup {Nothing, Deleted}]
    BY <1>0, <1>16, <2>1, <2>2 DEF VerifyEmail, AccountsType, Links
  <2> QED
    BY <1>0, <1>16, <2>3 DEF VerifyEmail, AccountsType
<1>17. ASSUME NEW l \in link, ResetPasswordByEmail(l) PROVE AccountsType'
  <2>1. l.holder \in Holders /\ Exists(l.holder)
    BY <1>0 DEF AccountsType, Links, AccountsInv, LinksInv
  <2>2. PICK p \in 1..MaxPasswords : Choose(p) /\ SetPassword(l.holder, p, "reset")
    BY <1>17 DEF ResetPasswordByEmail
  <2>3. account' \in [Holders -> AccountRow \cup {Nothing, Deleted}]
    BY <1>0, <2>1, <2>2, PasswordSet
  <2>4. chosen' \in Nat
    BY <2>2, AccountsAssumption DEF Choose
  <2> QED
    BY <1>0, <1>17, <2>3, <2>4 DEF ResetPasswordByEmail, AccountsType
<1>18. CASE MinutePasses \/ UNCHANGED accountVars
  BY <1>0, <1>18 DEF MinutePasses, accountVars, AccountsType
<1>19. CASE LinksExpire
  <2>1. \A l \in link : [l EXCEPT !.expired = TRUE] \in Links
    BY <1>0 DEF AccountsType, Links
  <2> QED
    BY <1>0, <1>1, <1>19, <2>1 DEF LinksExpire, AccountsType
<1>20. CASE PanelStops
  <2>1. PICK outcome \in {"arrived", "lost"} :
          link' = {IF l.mail = "sending" THEN [l EXCEPT !.mail = outcome] ELSE l : l \in link}
    BY <1>20 DEF PanelStops
  <2>2. \A l \in link : [l EXCEPT !.mail = outcome] \in Links /\ l \in Links
    BY <1>0 DEF AccountsType, Links
  <2>3. link' \subseteq Links
    BY <2>1, <2>2
  <2> QED
    BY <1>0, <1>20, <2>3 DEF PanelStops, AccountsType
<1> QED
  BY <1>2, <1>3, <1>4, <1>5, <1>6, <1>7, <1>8, <1>9, <1>10, <1>11, <1>13, <1>14, <1>15,
     <1>16, <1>17, <1>18, <1>19, <1>20, AccountsAssumption
  DEF AccountsNext, Initialize, RegisterWithInvitation

-----------------------------------------------------------------------------
\* Steps that change no account and make no session, link or request.
LEMMA KeepCredentials ==
  ASSUME AccountsInv, account' = account, session' \subseteq session,
         \A l \in link' : \E k \in link :
           l.holder = k.holder /\ l.kind = k.kind /\ l.target = k.target,
         \A h \in Holders : pending'[h] \in {pending[h], Nothing}
  PROVE  LinksInv' /\ OldCredentialsAreDead'
<1>1. LinksInv'
  BY DEF AccountsInv, LinksInv, Exists
<1>2. SessionsMatchPassword'
  BY DEF AccountsInv, OldCredentialsAreDead, SessionsMatchPassword, Exists
<1>3. ResetLinksFollowAddress'
  BY DEF AccountsInv, OldCredentialsAreDead, ResetLinksFollowAddress, Exists
<1>4. ApprovalIsNotStale'
  BY DEF AccountsInv, OldCredentialsAreDead, ApprovalIsNotStale, Exists
<1> QED
  BY <1>1, <1>2, <1>3, <1>4 DEF OldCredentialsAreDead

\* A new account has no sessions, links or requests yet.
LEMMA CreateCredentials ==
  ASSUME AccountsInv, NEW h \in Holders, NEW r \in Requests, account[h] = Nothing, Create(h, r)
  PROVE  LinksInv' /\ OldCredentialsAreDead'
<1>0. AccountsType
  BY DEF AccountsInv
<1>1. /\ \A g \in Holders : g # h => account'[g] = account[g]
      /\ UNCHANGED <<session, link, pending>> /\ Exists(h)'
  BY <1>0, AccountCreated
<1>2. ~Exists(h)
  BY DEF Exists
<1>3. \A g \in Holders : Exists(g) => Exists(g)' /\ account'[g] = account[g]
  BY <1>1, <1>2 DEF Exists
<1>4. \A l \in link : l.holder \in Holders
  BY <1>0 DEF AccountsType, Links
<1>5. \A u \in session : u.holder \in Holders
  BY <1>0 DEF AccountsType
<1>6. LinksInv' /\ ResetLinksFollowAddress'
  BY <1>1, <1>3, <1>4 DEF AccountsInv, LinksInv, OldCredentialsAreDead, ResetLinksFollowAddress
<1>7. SessionsMatchPassword'
  BY <1>1, <1>3, <1>5 DEF AccountsInv, OldCredentialsAreDead, SessionsMatchPassword
<1>8. ApprovalIsNotStale'
  BY <1>1, <1>3 DEF AccountsInv, OldCredentialsAreDead, ApprovalIsNotStale
<1> QED
  BY <1>6, <1>7, <1>8 DEF OldCredentialsAreDead

\* A new password ends the sessions and the links made under the old one; the
\* request that awaits a review goes too, unless the holder made the change.
LEMMA PasswordCredentials ==
  ASSUME AccountsInv, NEW h \in Holders, Exists(h), NEW p \in 1..MaxPasswords,
         NEW how \in {"changed", "approved", "reset"}, SetPassword(h, p, how),
         session' = session \ SessionsOf(h), link' = link \ LinksOf(h, "reset"),
         \A g \in Holders : g # h => pending'[g] = pending[g],
         pending'[h] = Nothing \/ (how = "changed" /\ pending'[h] = pending[h])
  PROVE  LinksInv' /\ OldCredentialsAreDead'
<1>0. AccountsType
  BY DEF AccountsInv
<1>1. /\ \A g \in Holders : g # h => account'[g] = account[g]
      /\ Exists(h)' /\ account'[h].how = how /\ account'[h].email = account[h].email
  BY <1>0, PasswordSet
<1>2. \A g \in Holders : Exists(g) => Exists(g)' /\ account'[g].email = account[g].email
  BY <1>1 DEF Exists
<1>3. \A l \in link' : l \in link /\ l.holder \in Holders
  BY <1>0 DEF AccountsType, Links
<1>4. \A u \in session' : u \in session /\ u.holder \in Holders /\ u.holder # h
  BY <1>0 DEF AccountsType, SessionsOf
<1>5. LinksInv' /\ ResetLinksFollowAddress'
  BY <1>2, <1>3 DEF AccountsInv, LinksInv, OldCredentialsAreDead, ResetLinksFollowAddress
<1>6. SessionsMatchPassword'
  BY <1>1, <1>4 DEF AccountsInv, OldCredentialsAreDead, SessionsMatchPassword, Exists
<1>7. ApprovalIsNotStale'
  <2> SUFFICES ASSUME NEW g \in Holders, pending'[g] # Nothing
               PROVE  Exists(g)' /\ (pending'[g].under = account'[g].pw \/ account'[g].how = "changed")
    BY DEF ApprovalIsNotStale
  <2>1. CASE g = h
    BY <1>1, <2>1
  <2>2. CASE g # h
    BY <1>1, <2>2 DEF AccountsInv, OldCredentialsAreDead, ApprovalIsNotStale, Exists
  <2> QED
    BY <2>1, <2>2
<1> QED
  BY <1>5, <1>6, <1>7 DEF OldCredentialsAreDead

\* A new link is for the address the account has.
LEMMA PrepareCredentials ==
  ASSUME AccountsInv, NEW h \in Holders, Exists(h), NEW kind, NEW target, Prepare(h, kind, target),
         kind = "reset" => target = account[h].email /\ target # Nothing
  PROVE  LinksInv' /\ OldCredentialsAreDead'
<1>0. UNCHANGED <<account, session, pending>>
  BY DEF Prepare
<1>1. ASSUME NEW l \in link'
      PROVE  l \in link \/ (l.holder = h /\ l.kind = kind /\ l.target = target)
  BY DEF Prepare
<1>2. LinksInv' /\ ResetLinksFollowAddress'
  BY <1>0, <1>1 DEF AccountsInv, LinksInv, OldCredentialsAreDead, ResetLinksFollowAddress, Exists
<1>3. SessionsMatchPassword' /\ ApprovalIsNotStale'
  BY <1>0 DEF AccountsInv, OldCredentialsAreDead, SessionsMatchPassword, ApprovalIsNotStale, Exists
<1> QED
  BY <1>2, <1>3 DEF OldCredentialsAreDead

\* Every step of every operation.
LEMMA NextCredentials ==
  AccountsInv /\ [AccountsNext]_accountVars => LinksInv' /\ OldCredentialsAreDead'
<1> SUFFICES ASSUME AccountsInv, [AccountsNext]_accountVars
             PROVE  LinksInv' /\ OldCredentialsAreDead'
  OBVIOUS
<1>0. AccountsType /\ LinksInv /\ OldCredentialsAreDead
  BY DEF AccountsInv
<1>1. CASE UNCHANGED <<account, session, link, pending>>
  BY <1>1, KeepCredentials
<1>2. ASSUME NEW r \in Requests, Initialize(r) PROVE LinksInv' /\ OldCredentialsAreDead'
  BY <1>2, CreateCredentials, AccountsAssumption DEF Initialize
<1>3. ASSUME NEW r \in Requests, CreateSession(r) PROVE LinksInv' /\ OldCredentialsAreDead'
  <2>0. UNCHANGED <<account, link, pending>>
    BY <1>3 DEF CreateSession
  <2>1. ASSUME NEW u \in session'
        PROVE  Exists(u.holder) /\ (u.pw = account[u.holder].pw \/ u.crossed)
    <3>1. CASE u \in session
      BY <1>0, <3>1 DEF OldCredentialsAreDead, SessionsMatchPassword
    <3>2. CASE u \notin session
      <4> DEFINE o == opening[r]
      <4>1. Exists(o.holder)
            /\ u = [holder |-> o.holder, pw |-> o.pw, crossed |-> o.pw # account[o.holder].pw]
        BY <1>3, <2>1, <3>2 DEF CreateSession
      <4>2. u.holder = o.holder /\ u.pw = o.pw /\ u.crossed = (o.pw # account[o.holder].pw)
        BY <4>1
      <4> QED
        BY <4>1, <4>2
    <3> QED
      BY <3>1, <3>2
  <2>2. SessionsMatchPassword'
    BY <2>0, <2>1 DEF SessionsMatchPassword, Exists
  <2>3. LinksInv' /\ ResetLinksFollowAddress' /\ ApprovalIsNotStale'
    BY <1>0, <2>0 DEF LinksInv, OldCredentialsAreDead, ResetLinksFollowAddress,
       ApprovalIsNotStale, Exists
  <2> QED
    BY <2>2, <2>3 DEF OldCredentialsAreDead
<1>4. ASSUME NEW i \in Invitations, CreateInvitation(i) \/ CloseInvitation(i)
      PROVE  LinksInv' /\ OldCredentialsAreDead'
  BY <1>1, <1>4 DEF CreateInvitation, CloseInvitation
<1>5. ASSUME NEW i \in Invitations, NEW h \in Holders, NEW r \in Requests,
             RegisterWithInvitation(i, h, r)
      PROVE  LinksInv' /\ OldCredentialsAreDead'
  BY <1>5, CreateCredentials DEF RegisterWithInvitation
<1>6. ASSUME NEW h \in Holders, NEW r \in Requests, Login(h, r)
      PROVE  LinksInv' /\ OldCredentialsAreDead'
  BY <1>1, <1>6 DEF Login
<1>7. ASSUME NEW u \in session, EndSession(u) PROVE LinksInv' /\ OldCredentialsAreDead'
  BY <1>7, KeepCredentials DEF EndSession
<1>8. ASSUME NEW h \in Holders, DeleteUser(h) PROVE LinksInv' /\ OldCredentialsAreDead'
  <2>1. \A g \in Holders : g # h => account'[g] = account[g] /\ pending'[g] = pending[g]
    BY <1>0, <1>8 DEF DeleteUser, AccountsType
  <2>2. \A l \in link' : l \in link /\ l.holder \in Holders /\ l.holder # h
    BY <1>0, <1>8 DEF DeleteUser, AccountsType, Links
  <2>3. \A u \in session' : u \in session /\ u.holder \in Holders /\ u.holder # h
    BY <1>0, <1>8 DEF DeleteUser, AccountsType, SessionsOf
  <2>4. pending'[h] = Nothing
    BY <1>0, <1>8 DEF DeleteUser, AccountsType
  <2>5. LinksInv' /\ ResetLinksFollowAddress'
    BY <1>0, <2>1, <2>2 DEF LinksInv, OldCredentialsAreDead, ResetLinksFollowAddress, Exists
  <2>6. SessionsMatchPassword'
    BY <1>0, <2>1, <2>3 DEF OldCredentialsAreDead, SessionsMatchPassword, Exists
  <2>7. ApprovalIsNotStale'
    BY <1>0, <2>1, <2>4 DEF OldCredentialsAreDead, ApprovalIsNotStale, Exists
  <2> QED
    BY <2>5, <2>6, <2>7 DEF OldCredentialsAreDead
<1>9. ASSUME NEW h \in Holders, ChangePassword(h) PROVE LinksInv' /\ OldCredentialsAreDead'
  <2>1. PICK p \in 1..MaxPasswords : SetPassword(h, p, "changed")
    BY <1>9 DEF ChangePassword
  <2>2. /\ Exists(h) /\ session' = session \ SessionsOf(h)
        /\ link' = link \ LinksOf(h, "reset") /\ pending' = pending
    BY <1>9 DEF ChangePassword
  <2> QED
    BY <2>1, <2>2, PasswordCredentials
<1>10. ASSUME NEW h \in Holders, RequestPasswordReset(h) PROVE LinksInv' /\ OldCredentialsAreDead'
  <2>0. UNCHANGED <<account, session, link>> /\ Exists(h)
    BY <1>10 DEF RequestPasswordReset
  <2>1. /\ \A g \in Holders : g # h => pending'[g] = pending[g]
        /\ pending'[h].under = account[h].pw
    BY <1>0, <1>10 DEF RequestPasswordReset, AccountsType
  <2>2. ApprovalIsNotStale'
    BY <1>0, <2>0, <2>1 DEF OldCredentialsAreDead, ApprovalIsNotStale, Exists
  <2>3. LinksInv' /\ ResetLinksFollowAddress' /\ SessionsMatchPassword'
    BY <1>0, <2>0 DEF LinksInv, OldCredentialsAreDead, ResetLinksFollowAddress,
       SessionsMatchPassword, Exists
  <2> QED
    BY <2>2, <2>3 DEF OldCredentialsAreDead
<1>11. ASSUME NEW h \in Holders, ApprovePassword(h) PROVE LinksInv' /\ OldCredentialsAreDead'
  <2>1. Exists(h) /\ pending[h].pw \in 1..MaxPasswords
    BY <1>0, <1>11 DEF ApprovePassword, OldCredentialsAreDead, ApprovalIsNotStale, AccountsType
  <2>2. /\ \A g \in Holders : g # h => pending'[g] = pending[g]
        /\ pending'[h] = Nothing
    BY <1>0, <1>11 DEF ApprovePassword, AccountsType
  <2> QED
    BY <1>11, <2>1, <2>2, PasswordCredentials DEF ApprovePassword
<1>12. ASSUME NEW h \in Holders, RejectPassword(h) PROVE LinksInv' /\ OldCredentialsAreDead'
  <2>1. \A g \in Holders : pending'[g] \in {pending[g], Nothing}
    BY <1>0, <1>12 DEF RejectPassword, AccountsType
  <2> QED
    BY <1>12, <2>1, KeepCredentials DEF RejectPassword
<1>13. ASSUME NEW h \in Holders, PreparePasswordResetEmail(h)
       PROVE  LinksInv' /\ OldCredentialsAreDead'
  BY <1>13, PrepareCredentials DEF PreparePasswordResetEmail
<1>14. ASSUME NEW h \in Holders, NEW a \in Addresses, PrepareEmailVerification(h, a)
       PROVE  LinksInv' /\ OldCredentialsAreDead'
  BY <1>14, PrepareCredentials DEF PrepareEmailVerification
<1>15. ASSUME NEW l \in link, Sent(l) \/ SendFailed(l) PROVE LinksInv' /\ OldCredentialsAreDead'
  <2>1. l \in Links
    BY <1>0 DEF AccountsType
  <2>2. \A m \in link' : \E k \in link :
          m.holder = k.holder /\ m.kind = k.kind /\ m.target = k.target
    BY <1>15, <2>1 DEF Sent, SendFailed, Links
  <2> QED
    BY <1>15, <2>2, KeepCredentials DEF Sent, SendFailed
<1>16. ASSUME NEW l \in link, VerifyEmail(l) PROVE LinksInv' /\ OldCredentialsAreDead'
  <2> DEFINE h == l.holder
  <2>0. l \in Links /\ h \in Holders /\ Exists(h) /\ account[h] \in AccountRow
    BY <1>0, RowOf DEF AccountsType, LinksInv, Links
  <2>1. /\ \A g \in Holders : g # h => account'[g] = account[g]
        /\ account'[h] = [account[h] EXCEPT !.email = l.target]
        /\ UNCHANGED <<session, pending>>
    BY <1>0, <1>16, <2>0 DEF VerifyEmail, AccountsType
  <2>2. /\ account'[h] \in AccountRow /\ account'[h].pw = account[h].pw
        /\ account'[h].how = account[h].how /\ account'[h].email = l.target
    BY <2>0, <2>1 DEF AccountRow, Links
  <2>3. \A g \in Holders : Exists(g) => /\ Exists(g)' /\ account'[g].pw = account[g].pw
                                        /\ account'[g].how = account[g].how
    BY <2>1, <2>2, AccountsAssumption DEF Exists
  <2>4. \A m \in link' : m \in link /\ m.holder \in Holders
    BY <1>0, <1>16 DEF VerifyEmail, AccountsType, Links
  <2>5. ASSUME NEW m \in link', m.kind = "reset"
        PROVE  Exists(m.holder)' /\ account'[m.holder].email = m.target
    <3>1. m \in link /\ m.holder \in Holders /\ account[m.holder].email = m.target
          /\ m.target # Nothing /\ Exists(m.holder)
      BY <1>0, <2>4, <2>5 DEF OldCredentialsAreDead, ResetLinksFollowAddress, LinksInv
    <3>2. CASE m.holder = h
      <4>1. account[h].email \in {Nothing, l.target}
        BY <1>16, <2>5, <3>1, <3>2 DEF VerifyEmail, LinksOf
      <4> QED
        BY <2>2, <2>3, <3>1, <3>2, <4>1
    <3>3. CASE m.holder # h
      BY <2>1, <2>3, <3>1, <3>3
    <3> QED
      BY <3>2, <3>3
  <2>6. ResetLinksFollowAddress'
    BY <2>5 DEF ResetLinksFollowAddress
  <2>7. LinksInv'
    BY <1>0, <2>3, <2>4 DEF LinksInv
  <2>8. SessionsMatchPassword'
    <3>1. \A u \in session : u.holder \in Holders
      BY <1>0 DEF AccountsType
    <3> QED
      BY <1>0, <2>1, <2>3, <3>1 DEF OldCredentialsAreDead, SessionsMatchPassword
  <2>9. ApprovalIsNotStale'
    BY <1>0, <2>1, <2>3 DEF OldCredentialsAreDead, ApprovalIsNotStale
  <2> QED
    BY <2>6, <2>7, <2>8, <2>9 DEF OldCredentialsAreDead
<1>17. ASSUME NEW l \in link, ResetPasswordByEmail(l) PROVE LinksInv' /\ OldCredentialsAreDead'
  <2> DEFINE h == l.holder
  <2>0. h \in Holders /\ Exists(h)
    BY <1>0 DEF AccountsType, LinksInv, Links
  <2>1. PICK p \in 1..MaxPasswords : SetPassword(h, p, "reset")
    BY <1>17 DEF ResetPasswordByEmail
  <2>2. /\ \A g \in Holders : g # h => pending'[g] = pending[g]
        /\ pending'[h] = Nothing
    BY <1>0, <1>17, <2>0 DEF ResetPasswordByEmail, AccountsType
  <2>3. session' = session \ SessionsOf(h) /\ link' = link \ LinksOf(h, "reset")
    BY <1>17 DEF ResetPasswordByEmail
  <2> QED
    BY <2>0, <2>1, <2>2, <2>3, PasswordCredentials
<1>18. CASE MinutePasses \/ UNCHANGED accountVars
  BY <1>1, <1>18 DEF MinutePasses, accountVars
<1>19. CASE LinksExpire
  <2>1. \A k \in link : LET m == [k EXCEPT !.expired = TRUE] IN
          m.holder = k.holder /\ m.kind = k.kind /\ m.target = k.target
    BY <1>0 DEF AccountsType, Links
  <2>2. \A m \in link' : \E k \in link :
          m.holder = k.holder /\ m.kind = k.kind /\ m.target = k.target
    BY <1>19, <2>1 DEF LinksExpire
  <2> QED
    BY <1>19, <2>2, KeepCredentials DEF LinksExpire
<1>20. CASE PanelStops
  <2>1. PICK outcome \in {"arrived", "lost"} :
          link' = {IF l.mail = "sending" THEN [l EXCEPT !.mail = outcome] ELSE l : l \in link}
    BY <1>20 DEF PanelStops
  <2>2. \A k \in link : LET m == [k EXCEPT !.mail = outcome] IN
          m.holder = k.holder /\ m.kind = k.kind /\ m.target = k.target
    BY <1>0 DEF AccountsType, Links
  <2>3. \A m \in link' : \E k \in link :
          m.holder = k.holder /\ m.kind = k.kind /\ m.target = k.target
    BY <2>1, <2>2
  <2> QED
    BY <1>20, <2>3, KeepCredentials DEF PanelStops
<1> QED
  BY <1>2, <1>3, <1>4, <1>5, <1>6, <1>7, <1>8, <1>9, <1>10, <1>11, <1>12, <1>13, <1>14,
     <1>15, <1>16, <1>17, <1>18, <1>19, <1>20
  DEF AccountsNext

(***************************************************************************)
(* No session, link or pending request outlives the password or the        *)
(* address it was made under, in whatever order passwords are changed,     *)
(* reset by mail and approved, addresses verified and accounts deleted;    *)
(* the exceptions that internal/auth leaves are named in the property.     *)
(***************************************************************************)
THEOREM CredentialsDie == AccountsSpec => []OldCredentialsAreDead
<1>1. AccountsInv /\ [AccountsNext]_accountVars => AccountsInv'
  BY NextAccountsType, NextCredentials DEF AccountsInv
<1>2. AccountsInv => OldCredentialsAreDead
  BY DEF AccountsInv
<1> QED
  BY <1>1, <1>2, InitAccounts, PTL DEF AccountsSpec
(***************************************************************************)
(* The limiter.                                                            *)
(*                                                                         *)
(* The bound on a count is not inductive: a sign-in that was let through   *)
(* adds to it later.  What never grows is the count together with the      *)
(* sign-ins that may still add to it.                                      *)
(***************************************************************************)
TryingKey(k) == {a \in Attempts : trying[a] # Unused /\ trying[a] = k}
TryingIP(i) == {a \in Attempts : trying[a] # Unused /\ trying[a][1] = i}

LimiterType ==
  /\ use \in {"login", "mail"}
  /\ failures \in [Keys -> Nat] /\ byIP \in [IPs -> Nat]
  /\ trying \in [Attempts -> Keys \cup {Unused}]

TablesInv ==
  /\ IsFiniteSet(Entries(failures)) /\ Cardinality(Entries(failures)) <= MaxPairs
  /\ IsFiniteSet(Entries(byIP)) /\ Cardinality(Entries(byIP)) <= MaxIPs

LoginInv ==
  use = "login" =>
    /\ \A k \in Keys :
          failures[k] + Cardinality(TryingKey(k)) <= PairLimit + Cardinality(Attempts) - 1
    /\ \A i \in IPs :
          byIP[i] + Cardinality(TryingIP(i)) <= IPLimit + Cardinality(Attempts) - 1

MailInv ==
  use = "mail" =>
    /\ \A a \in Attempts : trying[a] = Unused
    /\ \A k \in Keys : failures[k] <= PairLimit
    /\ \A i \in IPs : byIP[i] <= IPLimit

LimiterInv == LimiterType /\ TablesInv /\ LoginInv /\ MailInv

\* The size of a set of sign-ins.
LEMMA SignInsCount ==
  ASSUME NEW S \in SUBSET Attempts
  PROVE  /\ IsFiniteSet(S) /\ Cardinality(S) \in Nat
         /\ Cardinality(S) <= Cardinality(Attempts)
         /\ Cardinality(Attempts) \in Nat \ {0}
  BY FS_Subset, FS_CardinalityType, FS_EmptySet, LimiterAssumption

\* A failure enters a table that has room, or adds to its entry.
LEMMA CountTable ==
  ASSUME NEW K, NEW table \in [K -> Nat], NEW k \in K, NEW size \in Nat,
         IsFiniteSet(Entries(table)), Cardinality(Entries(table)) <= size
  PROVE  LET new == CountFailure(table, k, size) IN
         /\ new \in [K -> Nat]
         /\ IsFiniteSet(Entries(new)) /\ Cardinality(Entries(new)) <= size
         /\ \A x \in K : new[x] <= table[x] + (IF x = k THEN 1 ELSE 0)
<1> DEFINE new == CountFailure(table, k, size)
<1>1. CASE new = table
  BY <1>1
<1>2. CASE new # table
  <2>1. new = [table EXCEPT ![k] = @ + 1]
        /\ (table[k] > 0 \/ Cardinality(Entries(table)) < size)
    BY <1>2 DEF CountFailure
  <2>2. new \in [K -> Nat] /\ \A x \in K : new[x] = table[x] + (IF x = k THEN 1 ELSE 0)
    BY <2>1
  <2> HIDE DEF new
  <2>3. Entries(new) = Entries(table) \cup {k}
    BY <2>2 DEF Entries
  <2>4. CASE table[k] > 0
    <3>1. Entries(new) = Entries(table)
      BY <2>3, <2>4 DEF Entries
    <3> QED
      BY <2>2, <3>1 DEF new
  <2>5. CASE Cardinality(Entries(table)) < size
    <3>0. Cardinality(Entries(table)) \in Nat
      BY FS_CardinalityType
    <3>a. /\ IsFiniteSet(Entries(table) \cup {k})
          /\ \/ Cardinality(Entries(table) \cup {k}) = Cardinality(Entries(table))
             \/ Cardinality(Entries(table) \cup {k}) = Cardinality(Entries(table)) + 1
      BY FS_AddElement
    <3>1. /\ IsFiniteSet(Entries(new)) /\ Cardinality(Entries(table)) \in Nat
          /\ Cardinality(Entries(new)) <= Cardinality(Entries(table)) + 1
      BY <2>3, <3>0, <3>a
    <3> QED
      BY <2>2, <2>5, <3>1, FS_CardinalityType DEF new
  <2> QED
    BY <2>1, <2>4, <2>5
<1> QED
  BY <1>1, <1>2

\* An entry that is removed leaves the others.
LEMMA ClearTable ==
  ASSUME NEW K, NEW table \in [K -> Nat], NEW k \in K, NEW size \in Nat,
         IsFiniteSet(Entries(table)), Cardinality(Entries(table)) <= size
  PROVE  LET new == [table EXCEPT ![k] = 0] IN
         /\ new \in [K -> Nat]
         /\ IsFiniteSet(Entries(new)) /\ Cardinality(Entries(new)) <= size
         /\ \A x \in K : new[x] <= table[x]
<1> DEFINE new == [table EXCEPT ![k] = 0]
<1>1. new \in [K -> Nat] /\ \A x \in K : new[x] <= table[x]
  OBVIOUS
<1> HIDE DEF new
<1>2. Entries(new) \subseteq Entries(table)
  BY <1>1 DEF Entries
<1>3. /\ IsFiniteSet(Entries(new)) /\ Cardinality(Entries(new)) <= Cardinality(Entries(table))
      /\ Cardinality(Entries(new)) \in Nat /\ Cardinality(Entries(table)) \in Nat
  BY <1>2, FS_Subset, FS_CardinalityType
<1> QED
  BY <1>1, <1>3 DEF new

\* A sign-in that ends is no longer among those of its key and address.
LEMMA SignInEnds ==
  ASSUME LimiterType, NEW b \in Attempts, trying[b] # Unused,
         trying' = [trying EXCEPT ![b] = Unused]
  PROVE  /\ \A k \in Keys : Cardinality(TryingKey(k)')
               = Cardinality(TryingKey(k)) - (IF k = trying[b] THEN 1 ELSE 0)
         /\ \A i \in IPs : Cardinality(TryingIP(i)')
               = Cardinality(TryingIP(i)) - (IF i = trying[b][1] THEN 1 ELSE 0)
<1>0. \A a \in Attempts : trying'[a] = IF a = b THEN Unused ELSE trying[a]
  BY DEF LimiterType
<1>1. ASSUME NEW k \in Keys
      PROVE  Cardinality(TryingKey(k)') = Cardinality(TryingKey(k)) - (IF k = trying[b] THEN 1 ELSE 0)
  <2>1. TryingKey(k)' = TryingKey(k) \ {b}
    BY <1>0 DEF TryingKey
  <2>2. b \in TryingKey(k) <=> k = trying[b]
    BY DEF TryingKey
  <2>3. IsFiniteSet(TryingKey(k)) /\ Cardinality(TryingKey(k)) \in Nat
    BY SignInsCount DEF TryingKey
  <2>4. Cardinality(TryingKey(k) \ {b}) = IF b \in TryingKey(k) THEN Cardinality(TryingKey(k)) - 1
                                                        ELSE Cardinality(TryingKey(k))
    BY <2>3, FS_RemoveElement
  <2> QED
    BY <2>1, <2>2, <2>3, <2>4
<1>2. ASSUME NEW i \in IPs
      PROVE  Cardinality(TryingIP(i)') = Cardinality(TryingIP(i)) - (IF i = trying[b][1] THEN 1 ELSE 0)
  <2>1. TryingIP(i)' = TryingIP(i) \ {b}
    BY <1>0 DEF TryingIP
  <2>2. b \in TryingIP(i) <=> i = trying[b][1]
    BY DEF TryingIP
  <2>3. IsFiniteSet(TryingIP(i)) /\ Cardinality(TryingIP(i)) \in Nat
    BY SignInsCount DEF TryingIP
  <2>4. Cardinality(TryingIP(i) \ {b}) = IF b \in TryingIP(i) THEN Cardinality(TryingIP(i)) - 1
                                                        ELSE Cardinality(TryingIP(i))
    BY <2>3, FS_RemoveElement
  <2> QED
    BY <2>1, <2>2, <2>3, <2>4
<1> QED
  BY <1>1, <1>2

\* A sign-in that is let through adds to its own key and address only.
LEMMA SignInStarts ==
  ASSUME LimiterType, NEW b \in Attempts, NEW key \in Keys,
         trying' = [trying EXCEPT ![b] = key], trying[b] = Unused
  PROVE  /\ \A k \in Keys \ {key} : TryingKey(k)' = TryingKey(k)
         /\ \A i \in IPs \ {key[1]} : TryingIP(i)' = TryingIP(i)
<1>0. \A a \in Attempts : trying'[a] = IF a = b THEN key ELSE trying[a]
  BY DEF LimiterType
<1> QED
  BY <1>0 DEF TryingKey, TryingIP

\* What a failure does to the two tables.
LEMMA RecordedFailure ==
  ASSUME LimiterInv, NEW key \in Keys, RecordFailure(key)
  PROVE  /\ failures' \in [Keys -> Nat] /\ byIP' \in [IPs -> Nat] /\ TablesInv'
         /\ \A k \in Keys : failures'[k] <= failures[k] + (IF k = key THEN 1 ELSE 0)
         /\ \A i \in IPs : byIP'[i] <= byIP[i] + (IF i = key[1] THEN 1 ELSE 0)
<1>0. key[1] \in IPs
  BY DEF Keys
<1>1. /\ failures' \in [Keys -> Nat]
      /\ IsFiniteSet(Entries(failures')) /\ Cardinality(Entries(failures')) <= MaxPairs
      /\ \A k \in Keys : failures'[k] <= failures[k] + (IF k = key THEN 1 ELSE 0)
  BY CountTable, LimiterAssumption DEF RecordFailure, LimiterInv, LimiterType, TablesInv
<1>2. /\ byIP' \in [IPs -> Nat]
      /\ IsFiniteSet(Entries(byIP')) /\ Cardinality(Entries(byIP')) <= MaxIPs
      /\ \A i \in IPs : byIP'[i] <= byIP[i] + (IF i = key[1] THEN 1 ELSE 0)
  BY <1>0, CountTable, LimiterAssumption DEF RecordFailure, LimiterInv, LimiterType, TablesInv
<1>3. TablesInv'
  BY <1>1, <1>2 DEF TablesInv, Entries
<1> QED
  BY <1>1, <1>2, <1>3

\* No sign-in has failed yet.
LEMMA InitLimiter == LimiterInit => LimiterInv
<1> SUFFICES ASSUME LimiterInit PROVE LimiterInv
  OBVIOUS
<1> USE DEF LimiterInit
<1>1. LimiterType
  BY DEF LimiterType
<1>2. Entries(failures) = {} /\ Entries(byIP) = {}
  BY DEF Entries
<1>3. TablesInv
  BY <1>2, FS_EmptySet, LimiterAssumption DEF TablesInv
<1>4. \A k : TryingKey(k) = {} /\ TryingIP(k) = {}
  BY DEF TryingKey, TryingIP
<1>5. Cardinality({}) = 0 /\ Cardinality(Attempts) \in Nat \ {0}
  BY FS_EmptySet, SignInsCount
<1>a. \A k : Cardinality(TryingKey(k)) = 0 /\ Cardinality(TryingIP(k)) = 0
  BY <1>4, <1>5
<1>b. (\A k \in Keys : failures[k] = 0) /\ (\A i \in IPs : byIP[i] = 0)
  OBVIOUS
<1>6. LoginInv
  BY <1>5, <1>a, <1>b, LimiterAssumption DEF LoginInv
<1>7. MailInv
  BY LimiterAssumption DEF MailInv
<1> QED
  BY <1>1, <1>3, <1>6, <1>7 DEF LimiterInv

\* Counts that do not grow, with no new sign-in, stay within the bounds.
LEMMA CountsShrink ==
  ASSUME LimiterInv, LimiterType', use' = use, UNCHANGED trying,
         \A k \in Keys : failures'[k] <= failures[k], \A i \in IPs : byIP'[i] <= byIP[i]
  PROVE  LoginInv' /\ MailInv'
<1>1. \A k : TryingKey(k)' = TryingKey(k) /\ TryingIP(k)' = TryingIP(k)
  BY DEF TryingKey, TryingIP
<1>2. \A k : Cardinality(TryingKey(k)) \in Nat /\ Cardinality(TryingIP(k)) \in Nat
  BY SignInsCount DEF TryingKey, TryingIP
<1>3. Cardinality(Attempts) \in Nat
  BY SignInsCount
<1>4. LoginInv'
  <2> SUFFICES ASSUME use = "login" PROVE LoginInv'
    BY DEF LoginInv
  <2>1. ASSUME NEW k \in Keys
        PROVE  failures'[k] + Cardinality(TryingKey(k)') <= PairLimit + Cardinality(Attempts) - 1
    <3>1. failures[k] + Cardinality(TryingKey(k)) <= PairLimit + Cardinality(Attempts) - 1
      BY DEF LimiterInv, LoginInv
    <3> QED
      BY <1>1, <1>2, <1>3, <3>1, LimiterAssumption DEF LimiterInv, LimiterType
  <2>2. ASSUME NEW i \in IPs
        PROVE  byIP'[i] + Cardinality(TryingIP(i)') <= IPLimit + Cardinality(Attempts) - 1
    <3>1. byIP[i] + Cardinality(TryingIP(i)) <= IPLimit + Cardinality(Attempts) - 1
      BY DEF LimiterInv, LoginInv
    <3> QED
      BY <1>1, <1>2, <1>3, <3>1, LimiterAssumption DEF LimiterInv, LimiterType
  <2> QED
    BY <2>1, <2>2 DEF LoginInv
<1>5. MailInv'
  <2> SUFFICES ASSUME use = "mail" PROVE MailInv'
    BY DEF MailInv
  <2>1. \A k \in Keys : failures'[k] <= PairLimit
    BY LimiterAssumption DEF LimiterInv, MailInv, LimiterType
  <2>2. \A i \in IPs : byIP'[i] <= IPLimit
    BY LimiterAssumption DEF LimiterInv, MailInv, LimiterType
  <2> QED
    BY <2>1, <2>2 DEF LimiterInv, MailInv
<1> QED
  BY <1>4, <1>5

\* A sign-in that ends may add what it was counted for already.
LEMMA EndedSignIn ==
  ASSUME LimiterInv, LimiterType', use' = use, NEW b \in Attempts, trying[b] # Unused,
         trying' = [trying EXCEPT ![b] = Unused],
         \A k \in Keys : failures'[k] <= failures[k] + (IF k = trying[b] THEN 1 ELSE 0),
         \A i \in IPs : byIP'[i] <= byIP[i] + (IF i = trying[b][1] THEN 1 ELSE 0)
  PROVE  LoginInv' /\ MailInv'
<1>0. use = "login"
  BY DEF LimiterInv, LimiterType, MailInv
<1>1. \A k : Cardinality(TryingKey(k)) \in Nat /\ Cardinality(TryingIP(k)) \in Nat
  BY SignInsCount DEF TryingKey, TryingIP
<1>2. Cardinality(Attempts) \in Nat
  BY SignInsCount
<1>3. ASSUME NEW k \in Keys
      PROVE  failures'[k] + Cardinality(TryingKey(k)') <= PairLimit + Cardinality(Attempts) - 1
  <2>1. failures[k] + Cardinality(TryingKey(k)) <= PairLimit + Cardinality(Attempts) - 1
    BY <1>0 DEF LimiterInv, LoginInv
  <2>2. Cardinality(TryingKey(k)') = Cardinality(TryingKey(k)) - (IF k = trying[b] THEN 1 ELSE 0)
    BY SignInEnds DEF LimiterInv
  <2>3. failures[k] \in Nat /\ failures'[k] \in Nat
    BY DEF LimiterInv, LimiterType
  <2> QED
    BY <1>1, <1>2, <2>1, <2>2, <2>3, LimiterAssumption
<1>4. ASSUME NEW i \in IPs
      PROVE  byIP'[i] + Cardinality(TryingIP(i)') <= IPLimit + Cardinality(Attempts) - 1
  <2>1. byIP[i] + Cardinality(TryingIP(i)) <= IPLimit + Cardinality(Attempts) - 1
    BY <1>0 DEF LimiterInv, LoginInv
  <2>2. Cardinality(TryingIP(i)') = Cardinality(TryingIP(i)) - (IF i = trying[b][1] THEN 1 ELSE 0)
    BY SignInEnds DEF LimiterInv
  <2>3. byIP[i] \in Nat /\ byIP'[i] \in Nat
    BY DEF LimiterInv, LimiterType
  <2> QED
    BY <1>1, <1>2, <2>1, <2>2, <2>3, LimiterAssumption
<1> QED
  BY <1>0, <1>3, <1>4 DEF LoginInv, MailInv

\* Every step.
LEMMA NextLimiter == LimiterInv /\ [LimiterNext]_limiterVars => LimiterInv'
<1> SUFFICES ASSUME LimiterInv, [LimiterNext]_limiterVars PROVE LimiterInv'
  OBVIOUS
<1>0. LimiterType /\ TablesInv /\ LoginInv /\ MailInv
  BY DEF LimiterInv
<1>n. Cardinality(Attempts) \in Nat
  BY SignInsCount
<1>1. ASSUME NEW a \in Attempts, WrongPassword(a) PROVE LimiterInv'
  <2>1. trying[a] \in Keys
    BY <1>0, <1>1 DEF WrongPassword, LimiterType
  <2>2. /\ failures' \in [Keys -> Nat] /\ byIP' \in [IPs -> Nat] /\ TablesInv'
        /\ \A k \in Keys : failures'[k] <= failures[k] + (IF k = trying[a] THEN 1 ELSE 0)
        /\ \A i \in IPs : byIP'[i] <= byIP[i] + (IF i = trying[a][1] THEN 1 ELSE 0)
    BY <1>1, <2>1, RecordedFailure DEF WrongPassword
  <2>3. LimiterType'
    BY <1>0, <1>1, <2>2 DEF WrongPassword, LimiterType
  <2>4. LoginInv' /\ MailInv'
    BY <1>1, <2>2, <2>3, EndedSignIn DEF WrongPassword
  <2> QED
    BY <2>2, <2>3, <2>4 DEF LimiterInv
<1>2. ASSUME NEW a \in Attempts, SignedIn(a) PROVE LimiterInv'
  <2>1. trying[a] \in Keys
    BY <1>0, <1>2 DEF SignedIn, LimiterType
  <2>2. /\ failures' \in [Keys -> Nat] /\ IsFiniteSet(Entries(failures'))
        /\ Cardinality(Entries(failures')) <= MaxPairs
        /\ \A k \in Keys : failures'[k] <= failures[k]
    BY <1>0, <1>2, <2>1, ClearTable, LimiterAssumption DEF SignedIn, LimiterType, TablesInv
  <2>3. LimiterType'
    BY <1>0, <1>2, <2>2 DEF SignedIn, LimiterType
  <2>4. TablesInv'
    BY <1>0, <1>2, <2>2 DEF SignedIn, TablesInv, Entries
  <2>5. /\ \A k \in Keys : failures'[k] <= failures[k] + (IF k = trying[a] THEN 1 ELSE 0)
        /\ \A i \in IPs : byIP'[i] <= byIP[i] + (IF i = trying[a][1] THEN 1 ELSE 0)
    BY <1>0, <1>2, <2>2 DEF SignedIn, LimiterType
  <2>6. LoginInv' /\ MailInv'
    BY <1>2, <2>3, <2>5, EndedSignIn DEF SignedIn
  <2> QED
    BY <2>3, <2>4, <2>6 DEF LimiterInv
<1>3. ASSUME NEW a \in Attempts, NEW key \in Keys, Try(a, key) PROVE LimiterInv'
  <2>0. /\ use = "login" /\ trying[a] = Unused /\ trying' = [trying EXCEPT ![a] = key]
        /\ UNCHANGED <<use, failures, byIP>> /\ key[1] \in IPs
        /\ failures[key] < PairLimit /\ byIP[key[1]] < IPLimit
    BY <1>3 DEF Try, Allow, Keys
  <2>1. LimiterType'
    BY <1>0, <2>0 DEF LimiterType
  <2>2. TablesInv'
    BY <1>0, <2>0 DEF TablesInv, Entries
  <2>3. ASSUME NEW k \in Keys
        PROVE  failures'[k] + Cardinality(TryingKey(k)') <= PairLimit + Cardinality(Attempts) - 1
    <3>1. CASE k = key
      <4>1. TryingKey(k)' \subseteq Attempts
        BY DEF TryingKey
      <4>2. Cardinality(TryingKey(k)') \in Nat /\ Cardinality(TryingKey(k)') <= Cardinality(Attempts)
        BY <4>1, SignInsCount
      <4> QED
        BY <1>0, <1>n, <2>0, <3>1, <4>2, LimiterAssumption DEF LimiterType
    <3>2. CASE k # key
      BY <1>0, <2>0, <3>2, SignInStarts DEF LoginInv
    <3> QED
      BY <3>1, <3>2
  <2>4. ASSUME NEW i \in IPs
        PROVE  byIP'[i] + Cardinality(TryingIP(i)') <= IPLimit + Cardinality(Attempts) - 1
    <3>1. CASE i = key[1]
      <4>1. TryingIP(i)' \subseteq Attempts
        BY DEF TryingIP
      <4>2. Cardinality(TryingIP(i)') \in Nat /\ Cardinality(TryingIP(i)') <= Cardinality(Attempts)
        BY <4>1, SignInsCount
      <4> QED
        BY <1>0, <1>n, <2>0, <3>1, <4>2, LimiterAssumption DEF LimiterType
    <3>2. CASE i # key[1]
      BY <1>0, <2>0, <3>2, SignInStarts DEF LoginInv
    <3> QED
      BY <3>1, <3>2
  <2>5. LoginInv' /\ MailInv'
    BY <2>0, <2>3, <2>4 DEF LoginInv, MailInv
  <2> QED
    BY <2>1, <2>2, <2>5 DEF LimiterInv
<1>4. ASSUME NEW key \in Keys, Take(key) PROVE LimiterInv'
  <2>0. /\ use = "mail" /\ UNCHANGED <<use, trying>> /\ key[1] \in IPs
        /\ failures[key] < PairLimit /\ byIP[key[1]] < IPLimit
    BY <1>4 DEF Take, Allow, Keys
  <2>1. /\ failures' \in [Keys -> Nat] /\ byIP' \in [IPs -> Nat] /\ TablesInv'
        /\ \A k \in Keys : failures'[k] <= failures[k] + (IF k = key THEN 1 ELSE 0)
        /\ \A i \in IPs : byIP'[i] <= byIP[i] + (IF i = key[1] THEN 1 ELSE 0)
    BY <1>4, RecordedFailure DEF Take
  <2>2. LimiterType'
    BY <1>0, <2>0, <2>1 DEF LimiterType
  <2>3. \A k \in Keys : failures'[k] <= PairLimit
    BY <1>0, <2>0, <2>1, LimiterAssumption DEF MailInv, LimiterType
  <2>4. \A i \in IPs : byIP'[i] <= IPLimit
    BY <1>0, <2>0, <2>1, LimiterAssumption DEF MailInv, LimiterType
  <2>5. LoginInv' /\ MailInv'
    BY <1>0, <2>0, <2>3, <2>4 DEF LoginInv, MailInv
  <2> QED
    BY <2>1, <2>2, <2>5 DEF LimiterInv
<1>5. CASE WindowEnds
  <2>1. ASSUME NEW k \in Entries(failures), failures' = [failures EXCEPT ![k] = 0],
               UNCHANGED <<use, byIP, trying>>
        PROVE  LimiterInv'
    <3>0. k \in Keys
      BY <1>0 DEF Entries, LimiterType
    <3>1. /\ failures' \in [Keys -> Nat] /\ IsFiniteSet(Entries(failures'))
          /\ Cardinality(Entries(failures')) <= MaxPairs
          /\ \A x \in Keys : failures'[x] <= failures[x]
      BY <1>0, <2>1, <3>0, ClearTable, LimiterAssumption DEF LimiterType, TablesInv
    <3>2. LimiterType' /\ TablesInv'
      BY <1>0, <2>1, <3>1 DEF LimiterType, TablesInv, Entries
    <3>3. \A i \in IPs : byIP'[i] <= byIP[i]
      BY <1>0, <2>1 DEF LimiterType
    <3>4. LoginInv' /\ MailInv'
      BY <2>1, <3>1, <3>2, <3>3, CountsShrink
    <3> QED
      BY <3>2, <3>4 DEF LimiterInv
  <2>2. ASSUME NEW i \in Entries(byIP), byIP' = [byIP EXCEPT ![i] = 0],
               UNCHANGED <<use, failures, trying>>
        PROVE  LimiterInv'
    <3>0. i \in IPs
      BY <1>0 DEF Entries, LimiterType
    <3>1. /\ byIP' \in [IPs -> Nat] /\ IsFiniteSet(Entries(byIP'))
          /\ Cardinality(Entries(byIP')) <= MaxIPs
          /\ \A x \in IPs : byIP'[x] <= byIP[x]
      BY <1>0, <2>2, <3>0, ClearTable, LimiterAssumption DEF LimiterType, TablesInv
    <3>2. LimiterType' /\ TablesInv'
      BY <1>0, <2>2, <3>1 DEF LimiterType, TablesInv, Entries
    <3>3. \A k \in Keys : failures'[k] <= failures[k]
      BY <1>0, <2>2 DEF LimiterType
    <3>4. LoginInv' /\ MailInv'
      BY <2>2, <3>1, <3>2, <3>3, CountsShrink
    <3> QED
      BY <3>2, <3>4 DEF LimiterInv
  <2> QED
    BY <1>5, <2>1, <2>2 DEF WindowEnds
<1>6. CASE UNCHANGED limiterVars
  BY <1>0, <1>6 DEF limiterVars, LimiterInv, LimiterType, TablesInv, LoginInv, MailInv,
     TryingKey, TryingIP, Entries
<1> QED
  BY <1>1, <1>2, <1>3, <1>4, <1>5, <1>6 DEF LimiterNext

(***************************************************************************)
(* For any limits, tables and number of concurrent requests, the limiter   *)
(* of login_limiter.go keeps its tables within their sizes, and lets no    *)
(* count pass its limit by more than the sign-ins that ran together.       *)
(***************************************************************************)
THEOREM LimiterIsSound == LimiterSpec => []LimiterHolds
<1>1. LimiterInv => LimiterHolds
  <2> SUFFICES ASSUME LimiterInv PROVE LimiterHolds
    OBVIOUS
  <2>1. \A k : Cardinality(TryingKey(k)) \in Nat /\ Cardinality(TryingIP(k)) \in Nat
    BY SignInsCount DEF TryingKey, TryingIP
  <2>2. Cardinality(Attempts) \in Nat
    BY SignInsCount
  <2>3. CASE use = "login"
    <3>1. ASSUME NEW k \in Keys PROVE failures[k] <= PairLimit + (Cardinality(Attempts) - 1)
      <4>1. failures[k] + Cardinality(TryingKey(k)) <= PairLimit + Cardinality(Attempts) - 1
        BY <2>3 DEF LimiterInv, LoginInv
      <4> QED
        BY <2>1, <2>2, <4>1, LimiterAssumption DEF LimiterInv, LimiterType
    <3>2. ASSUME NEW i \in IPs PROVE byIP[i] <= IPLimit + (Cardinality(Attempts) - 1)
      <4>1. byIP[i] + Cardinality(TryingIP(i)) <= IPLimit + Cardinality(Attempts) - 1
        BY <2>3 DEF LimiterInv, LoginInv
      <4> QED
        BY <2>1, <2>2, <4>1, LimiterAssumption DEF LimiterInv, LimiterType
    <3> QED
      BY <2>3, <3>1, <3>2 DEF LimiterHolds, LimiterInv, TablesInv
  <2>4. CASE use = "mail"
    BY <2>4, LimiterAssumption DEF LimiterHolds, LimiterInv, TablesInv, MailInv, LimiterType
  <2> QED
    BY <2>3, <2>4 DEF LimiterInv, LimiterType
<1> QED
  BY <1>1, InitLimiter, NextLimiter, PTL DEF LimiterSpec

(***************************************************************************)
(* Personal subscriptions.                                                 *)
(***************************************************************************)
Bindings == SUBSET ((UNION {KeysOf[p] : p \in Presets}) \X NodeIds)
NodesEdit == [op : {"nodes"}, group : Groups, rows : SUBSET NodeIds, bindings : Bindings,
              keep : UNION {[K -> Sources] : K \in SUBSET NodeIds}, new : Seq(Sources)]
BindingsEdit == [op : {"bindings"}, group : Groups, rows : SUBSET NodeIds, bindings : Bindings]

PersonalType ==
  /\ source \in [Sources -> {"ready", "blocked", "gone"}]
  /\ group \in [Groups -> GroupRow \cup {Nobody, Removed}]
  /\ node \in [NodeIds -> NodeRow \cup {Nobody}]
  /\ nodes \in Nat
  /\ edit \in [Edits -> NodesEdit \cup BindingsEdit \cup {Nobody}]

\* A node has an id that was given out, and a group.
NodeRowsInv == \A n \in Rows : n <= nodes /\ Open(node[n].group)

\* What a running handler is to write refers to the nodes it has read, and those
\* are nodes of its group, or gone.
EditsInv ==
  \A k \in Edits :
    /\ edit[k] # Nobody => \A n \in edit[k].rows :
          n <= nodes /\ (node[n] = Nobody \/ node[n].group = edit[k].group)
    /\ Running(k, "nodes") => DOMAIN edit[k].keep \subseteq edit[k].rows
    /\ Running(k, "bindings") => \A b \in edit[k].bindings : b[2] \in edit[k].rows

PersonalInv == PersonalType /\ NodeRowsInv /\ EditsInv /\ SubscriptionsAreWhole

\* Nobody has a subscription yet.
LEMMA InitPersonal == PersonalInit => PersonalInv
<1> SUFFICES ASSUME PersonalInit PROVE PersonalInv
  OBVIOUS
<1> USE DEF PersonalInit
<1>1. PersonalType
  BY DEF PersonalType
<1>2. Rows = {} /\ \A g \in Groups : ~Open(g)
  BY DEF Rows, Open
<1>3. NodeRowsInv /\ EditsInv
  BY <1>2 DEF NodeRowsInv, EditsInv, Running
<1>4. SubscriptionsAreWhole
  BY <1>2 DEF SubscriptionsAreWhole, ReferencesAreLive, GroupsAreWhole
<1> QED
  BY <1>1, <1>3, <1>4 DEF PersonalInv

\* Steps that write no node and no bindings.
LEMMA KeepPersonal ==
  ASSUME PersonalInv, UNCHANGED <<node, nodes, overtaken, crossed>>, Absent' \subseteq Absent,
         \A g \in Groups : /\ Open(g) => Open(g)'
                           /\ Open(g)' => (Open(g) /\ group'[g].bindings = group[g].bindings)
                                          \/ group'[g].bindings = {}
  PROVE  NodeRowsInv' /\ SubscriptionsAreWhole'
<1>0. Rows' = Rows /\ \A g : NodesOf(g)' = NodesOf(g)
  BY DEF Rows, NodesOf
<1>1. \A n \in Rows : node[n] \in NodeRow /\ node[n].group \in Groups
  BY DEF PersonalInv, PersonalType, Rows, NodeRow
<1>2. NodeRowsInv'
  BY <1>0, <1>1 DEF PersonalInv, NodeRowsInv
<1>3. ReferencesAreLive'
  BY <1>0 DEF PersonalInv, SubscriptionsAreWhole, ReferencesAreLive
<1>4. GroupsAreWhole'
  <2> SUFFICES ASSUME NEW g \in Groups \ crossed, Open(g)'
               PROVE  /\ \A b \in group'[g].bindings : b[2] \in NodesOf(g)
                      /\ \A n \in NodesOf(g) : node[n].named
    BY <1>0 DEF GroupsAreWhole
  <2>1. CASE Open(g)
    BY <2>1 DEF PersonalInv, SubscriptionsAreWhole, GroupsAreWhole
  <2>2. CASE ~Open(g)
    <3>1. NodesOf(g) = {}
      BY <2>2 DEF PersonalInv, NodeRowsInv, NodesOf
    <3> QED
      BY <2>2, <3>1
  <2> QED
    BY <2>1, <2>2
<1> QED
  BY <1>2, <1>3, <1>4 DEF SubscriptionsAreWhole

\* A node id that was given out is not given out again, nor to another group.
NodesKeepGroup ==
  /\ nodes' \in Nat /\ nodes' >= nodes
  /\ \A n \in NodeIds : n <= nodes =>
        node'[n] = Nobody \/ (node[n] # Nobody /\ node'[n].group = node[n].group)

\* Steps that begin no handler.
LEMMA KeepEdits ==
  ASSUME PersonalInv, \A k \in Edits : edit'[k] \in {edit[k], Nobody}, NodesKeepGroup
  PROVE  EditsInv'
<1>1. \A k \in Edits : edit[k] # Nobody => edit[k].rows \subseteq NodeIds
  BY DEF PersonalInv, PersonalType, NodesEdit, BindingsEdit
<1>2. \A k \in Edits : edit[k] # Nobody => \A n \in edit[k].rows :
        n <= nodes' /\ (node'[n] = Nobody \/ node'[n].group = edit[k].group)
  BY <1>1, PersonalAssumption DEF PersonalInv, PersonalType, EditsInv, NodeIds, NodesKeepGroup
<1> QED
  BY <1>2 DEF PersonalInv, EditsInv, Running

\* The end of a handler.
LEMMA EndEdit ==
  ASSUME PersonalInv, NEW k \in Edits, End(k), NodesKeepGroup
  PROVE  /\ edit' \in [Edits -> NodesEdit \cup BindingsEdit \cup {Nobody}]
         /\ EditsInv'
<1>1. \A j \in Edits : edit'[j] \in {edit[j], Nobody}
  BY DEF End, PersonalInv, PersonalType
<1>2. edit' \in [Edits -> NodesEdit \cup BindingsEdit \cup {Nobody}]
  BY DEF End, PersonalInv, PersonalType
<1> QED
  BY <1>1, <1>2, KeepEdits

\* Where a handler saves nodes, a group deletes them or a source goes, the other
\* groups keep theirs.
LEMMA OtherGroups ==
  ASSUME PersonalInv, NEW g \in Groups,
         \A n \in NodeIds \ NodesOf(g) :
            node'[n] = node[n] \/ (node[n] = Nobody /\ node'[n] # Nobody /\ node'[n].group = g),
         \A n \in NodesOf(g) : node'[n] = Nobody \/ node'[n].group = g,
         \A h \in Groups : h # g => group'[h] = group[h] /\ (h \in crossed => h \in crossed')
  PROVE  \A h \in Groups : h # g =>
            /\ NodesOf(h)' = NodesOf(h) /\ Open(h)' = Open(h)
            /\ \A n \in NodesOf(h) : node'[n] = node[n]
            /\ (h \notin crossed' /\ Open(h)') =>
                 /\ \A b \in group'[h].bindings : b[2] \in NodesOf(h)'
                 /\ \A n \in NodesOf(h)' : node'[n].named
<1> SUFFICES ASSUME NEW h \in Groups, h # g
             PROVE  /\ NodesOf(h)' = NodesOf(h) /\ Open(h)' = Open(h)
                    /\ \A n \in NodesOf(h) : node'[n] = node[n]
                    /\ (h \notin crossed' /\ Open(h)') =>
                         /\ \A b \in group'[h].bindings : b[2] \in NodesOf(h)'
                         /\ \A n \in NodesOf(h)' : node'[n].named
  OBVIOUS
<1>1. \A n \in NodesOf(h) : n \notin NodesOf(g) /\ node'[n] = node[n]
  BY DEF NodesOf, Rows
<1>2. \A n \in NodeIds : n \in NodesOf(h)' => n \in NodesOf(h)
  BY DEF NodesOf, Rows
<1>3. NodesOf(h)' = NodesOf(h)
  BY <1>1, <1>2 DEF NodesOf, Rows
<1>4. Open(h)' = Open(h)
  BY DEF Open
<1> QED
  BY <1>1, <1>3, <1>4 DEF PersonalInv, SubscriptionsAreWhole, GroupsAreWhole

\* Handlers begin with what they have read.
LEMMA NextBegin ==
  ASSUME PersonalInv, NEW k \in Edits, NEW g \in Groups, BeginSetNodes(k, g) \/ BeginSetBindings(k, g)
  PROVE  PersonalInv'
<1>0. PersonalType /\ EditsInv
  BY DEF PersonalInv
<1>r. NodesOf(g) \subseteq NodeIds
  BY DEF NodesOf, Rows
<1>n. \A n \in NodesOf(g) : n <= nodes /\ node[n].group = g
  BY DEF PersonalInv, NodeRowsInv, NodesOf
<1>b. UNCHANGED <<source, group, node, nodes, overtaken, crossed>> /\ Open(g)
  BY DEF BeginSetNodes, BeginSetBindings
<1>c. group[g] \in GroupRow
  BY <1>0, <1>b DEF PersonalType, Open
<1>1. PICK q : /\ q \in NodesEdit \cup BindingsEdit
               /\ \A n \in q.rows : n <= nodes /\ node[n].group = q.group
               /\ q.op = "nodes" => DOMAIN q.keep \subseteq q.rows
               /\ q.op = "bindings" => \A b \in q.bindings : b[2] \in q.rows
               /\ edit' = [edit EXCEPT ![k] = q]
  <2>1. CASE BeginSetNodes(k, g)
    <3>1. PICK keep \in SUBSET NodesOf(g), new \in Seq(Sources) : \E to \in [keep -> Sources] :
            Begin(k, [op |-> "nodes", group |-> g, rows |-> NodesOf(g),
                      bindings |-> group[g].bindings, keep |-> to, new |-> new])
      <4>1. BoundedSeq(Sources, MaxNew) \subseteq Seq(Sources)
        BY SeqDef, PersonalAssumption DEF BoundedSeq, SeqOf
      <4> QED
        BY <2>1, <4>1 DEF BeginSetNodes
    <3>2. PICK to \in [keep -> Sources] :
            Begin(k, [op |-> "nodes", group |-> g, rows |-> NodesOf(g),
                      bindings |-> group[g].bindings, keep |-> to, new |-> new])
      BY <3>1
    <3> DEFINE q == [op |-> "nodes", group |-> g, rows |-> NodesOf(g),
                     bindings |-> group[g].bindings, keep |-> to, new |-> new]
    <3>3. group[g].bindings \in Bindings
      BY <1>c DEF GroupRow, Bindings
    <3>4. to \in UNION {[K -> Sources] : K \in SUBSET NodeIds}
      BY <1>r
    <3>5. q \in NodesEdit
      BY <1>r, <3>3, <3>4 DEF NodesEdit
    <3>6. /\ q.op = "nodes" /\ DOMAIN q.keep \subseteq q.rows
          /\ \A n \in q.rows : n <= nodes /\ node[n].group = q.group
      BY <1>n
    <3>7. edit' = [edit EXCEPT ![k] = q]
      BY <3>2 DEF Begin
    <3> QED
      BY <3>5, <3>6, <3>7
  <2>2. CASE BeginSetBindings(k, g)
    <3>1. PICK b \in NormalizeRoutingBindings(g) :
            Begin(k, [op |-> "bindings", group |-> g, rows |-> NodesOf(g), bindings |-> b])
      BY <2>2 DEF BeginSetBindings
    <3> DEFINE q == [op |-> "bindings", group |-> g, rows |-> NodesOf(g), bindings |-> b]
    <3>2. b \in Bindings /\ \A x \in b : x[2] \in NodesOf(g)
      BY <1>c, <1>r DEF NormalizeRoutingBindings, GroupRow, Bindings
    <3>3. q \in BindingsEdit
      BY <1>r, <3>2 DEF BindingsEdit
    <3>4. /\ q.op = "bindings" /\ \A x \in q.bindings : x[2] \in q.rows
          /\ \A n \in q.rows : n <= nodes /\ node[n].group = q.group
      BY <1>n, <3>2
    <3>5. edit' = [edit EXCEPT ![k] = q]
      BY <3>1 DEF Begin
    <3> QED
      BY <3>3, <3>4, <3>5
  <2> QED
    BY <2>1, <2>2
<1>2. PersonalType'
  BY <1>0, <1>1, <1>b DEF PersonalType
<1>3. EditsInv'
  <2>1. edit'[k] = q /\ \A j \in Edits : j # k => edit'[j] = edit[j]
    BY <1>0, <1>1 DEF PersonalType
  <2> QED
    BY <1>0, <1>1, <1>b, <2>1 DEF EditsInv, Running
<1>4. NodeRowsInv' /\ SubscriptionsAreWhole'
  BY <1>b, KeepPersonal DEF Absent, Open
<1> QED
  BY <1>2, <1>3, <1>4 DEF PersonalInv

\* A handler that has read other nodes than it finds marks its group; any other
\* leaves a group whose nodes all have their names and whose bindings name them.
LEMMA NextSetNodes ==
  ASSUME PersonalInv, NEW k \in Edits, SetPersonalSubscriptionNodes(k)
  PROVE  PersonalInv'
<1>q. PICK q, g, added : /\ q = edit[k] /\ g = edit[k].group
                         /\ added = (nodes + 1)..(nodes + Len(edit[k].new))
  OBVIOUS
<1> DEFINE kept == DOMAIN q.keep
           size == Len(q.new)
           order(n) == q.new[n - nodes]
<1>0. PersonalType /\ NodeRowsInv /\ EditsInv /\ SubscriptionsAreWhole
  BY DEF PersonalInv
<1>1. /\ Running(k, "nodes") /\ Open(g) /\ kept \subseteq NodesOf(g)
      /\ nodes + size <= MaxNodes /\ nodes' = nodes + size
      /\ group' = [group EXCEPT ![g].bindings = PruneRoutingBindings(q.bindings, kept \cup added)]
      /\ overtaken' = overtaken \cup {n \in kept \cup added : node'[n].source \in Absent}
      /\ crossed' = IF Stale(q) THEN crossed \cup {g} ELSE crossed \ {g}
      /\ End(k) /\ UNCHANGED source
  BY <1>q DEF SetPersonalSubscriptionNodes
<1>2. node' = [n \in NodeIds |->
             CASE n \in kept -> [group |-> g, source |-> q.keep[n], named |-> TRUE]
               [] n \in added -> [group |-> g, source |-> order(n), named |-> TRUE]
               [] n \in q.rows \ kept -> Nobody
               [] n \in NodesOf(g) \ q.rows -> [node[n] EXCEPT !.named = FALSE]
               [] OTHER -> node[n]]
  BY <1>q DEF SetPersonalSubscriptionNodes
<1>3. q \in NodesEdit /\ kept \subseteq q.rows
  BY <1>0, <1>1, <1>q DEF PersonalType, EditsInv, Running, BindingsEdit
<1>4. /\ g \in Groups /\ q.bindings \in Bindings /\ q.new \in Seq(Sources)
      /\ q.keep \in [kept -> Sources] /\ kept \subseteq NodeIds /\ q.rows \subseteq NodeIds
  BY <1>3, <1>q DEF NodesEdit
<1>5. size \in Nat
  BY <1>4, LenProperties
<1>6. added \subseteq NodeIds /\ \A n \in added : n > nodes /\ n <= nodes'
  BY <1>0, <1>1, <1>5, <1>q, PersonalAssumption DEF PersonalType, NodeIds
<1>7. \A n \in NodeIds : node[n] # Nobody => n \notin added /\ node[n] \in NodeRow
  BY <1>0, <1>6 DEF NodeRowsInv, PersonalType, Rows, NodeIds
<1>a. \A n \in added : n \notin q.rows
  BY <1>0, <1>1, <1>4, <1>6, <1>q, PersonalAssumption DEF EditsInv, Running, PersonalType, NodeIds
<1>b. \A n \in added : order(n) \in Sources
  <2>1. \A n \in added : n - nodes \in 1..Len(q.new)
    BY <1>0, <1>5, <1>q DEF PersonalType
  <2> QED
    BY <1>4, <2>1, ElementOfSeq
<1> HIDE DEF size, order
<1>8. ASSUME NEW n \in kept PROVE node'[n] = [group |-> g, source |-> q.keep[n], named |-> TRUE]
  <2>1. n \in NodeIds /\ n \notin added /\ n \in NodesOf(g) /\ n \in q.rows
    BY <1>1, <1>3, <1>4, <1>7 DEF NodesOf, Rows
  <2> QED
    BY <1>2, <2>1
<1>9. ASSUME NEW n \in added PROVE node'[n] = [group |-> g, source |-> order(n), named |-> TRUE]
  <2>1. /\ n \in NodeIds /\ n \notin kept /\ n \notin NodesOf(g) /\ node[n] = Nobody
        /\ n \notin q.rows
    BY <1>1, <1>6, <1>7, <1>a DEF NodesOf, Rows
  <2> QED
    BY <1>2, <2>1
<1>s. ASSUME NEW n \in kept \cup added
      PROVE  /\ n \in NodeIds /\ node'[n] \in NodeRow
             /\ node'[n].group = g /\ node'[n].named = TRUE
  <2>1. PICK s \in Sources : node'[n] = [group |-> g, source |-> s, named |-> TRUE]
    <3>1. CASE n \in kept
      BY <1>4, <1>8, <3>1
    <3>2. CASE n \in added
      BY <1>b, <1>9, <3>2
    <3> QED
      BY <3>1, <3>2
  <2> QED
    BY <1>4, <1>6, <2>1 DEF NodeRow
<1>10. ASSUME NEW n \in NodesOf(g), n \notin kept
       PROVE  node'[n] = IF n \in q.rows THEN Nobody ELSE [node[n] EXCEPT !.named = FALSE]
  <2>1. n \in NodeIds /\ n \notin added
    BY <1>7 DEF NodesOf, Rows
  <2> QED
    BY <1>2, <1>10, <2>1
<1>11. ASSUME NEW n \in NodeIds, n \notin kept, n \notin added, n \notin NodesOf(g)
       PROVE  node'[n] = node[n]
  <2>1. n \in q.rows => node[n] = Nobody
    BY <1>0, <1>1, <1>11, <1>q DEF EditsInv, Running, NodesOf, Rows
  <2> QED
    BY <1>2, <1>11, <2>1
<1>12. DOMAIN node' = NodeIds /\ \A n \in NodeIds : node'[n] \in NodeRow \cup {Nobody}
  <2>1. \A n \in kept : node'[n] \in NodeRow
    BY <1>s
  <2>2. \A n \in added : node'[n] \in NodeRow
    BY <1>s
  <2>3. \A n \in NodesOf(g) : node[n] \in NodeRow /\ [node[n] EXCEPT !.named = FALSE] \in NodeRow
    BY <1>7 DEF NodesOf, Rows, NodeRow
  <2>4. \A n \in NodeIds : node[n] \in NodeRow \cup {Nobody}
    BY <1>0 DEF PersonalType
  <2>5. DOMAIN node' = NodeIds
    BY <1>2
  <2> QED
    BY <1>10, <1>11, <2>1, <2>2, <2>3, <2>4, <2>5
<1>13. node' \in [NodeIds -> NodeRow \cup {Nobody}]
  <2>1. node' = [n \in NodeIds |-> node'[n]]
    BY <1>2
  <2> QED
    BY <1>12, <2>1
<1>14. \A n \in NodesOf(g) : node'[n] = Nobody \/ node'[n].group = g
  <2>1. \A n \in NodesOf(g) : node[n].group = g /\ node[n] \in NodeRow
    BY <1>7 DEF NodesOf, Rows
  <2>2. \A n \in NodesOf(g) : [node[n] EXCEPT !.named = FALSE].group = g
    BY <2>1 DEF NodeRow
  <2> QED
    BY <1>s, <1>10, <2>2
<1>15. NodesKeepGroup
  <2>1. nodes' \in Nat /\ nodes' >= nodes
    BY <1>0, <1>1, <1>5 DEF PersonalType
  <2>2. ASSUME NEW n \in NodeIds, n <= nodes
        PROVE  node'[n] = Nobody \/ (node[n] # Nobody /\ node'[n].group = node[n].group)
    <3>1. n \notin added
      BY <1>0, <1>6, <2>2, PersonalAssumption DEF PersonalType, NodeIds
    <3>2. CASE n \in NodesOf(g)
      BY <1>14, <3>2 DEF NodesOf, Rows
    <3>3. CASE n \notin NodesOf(g)
      BY <1>1, <1>11, <3>1, <3>3
    <3> QED
      BY <3>2, <3>3
  <2> QED
    BY <2>1, <2>2 DEF NodesKeepGroup
<1>16. group[g] \in GroupRow
  BY <1>0, <1>1, <1>4 DEF PersonalType, Open
<1>17. /\ \A h \in Groups : h # g => group'[h] = group[h]
       /\ group'[g] = [group[g] EXCEPT !.bindings = PruneRoutingBindings(q.bindings, kept \cup added)]
  BY <1>0, <1>1, <1>4 DEF PersonalType
<1>18. /\ group'[g] \in GroupRow
       /\ group'[g].bindings = PruneRoutingBindings(q.bindings, kept \cup added)
  <2>1. PruneRoutingBindings(q.bindings, kept \cup added) \in Bindings
    BY <1>4 DEF PruneRoutingBindings, Bindings
  <2> QED
    BY <1>16, <1>17, <2>1 DEF GroupRow, Bindings
<1>19. group' \in [Groups -> GroupRow \cup {Nobody, Removed}] /\ Open(g)'
  <2>1. group' = [h \in Groups |-> group'[h]]
    BY <1>0, <1>1 DEF PersonalType
  <2>2. \A h \in Groups : group'[h] \in GroupRow \cup {Nobody, Removed}
    BY <1>0, <1>17, <1>18 DEF PersonalType
  <2>3. Open(g)'
    BY <1>18, PersonalAssumption DEF Open
  <2> QED
    BY <2>1, <2>2, <2>3
<1>20. PersonalType' /\ EditsInv'
  BY <1>0, <1>1, <1>13, <1>15, <1>19, EndEdit DEF PersonalType, NodesKeepGroup
<1>21. \A h \in Groups : h # g =>
          /\ NodesOf(h)' = NodesOf(h) /\ Open(h)' = Open(h)
          /\ \A n \in NodesOf(h) : node'[n] = node[n]
          /\ (h \notin crossed' /\ Open(h)') =>
               /\ \A b \in group'[h].bindings : b[2] \in NodesOf(h)'
               /\ \A n \in NodesOf(h)' : node'[n].named
  <2>1. ASSUME NEW n \in NodeIds \ NodesOf(g)
        PROVE  node'[n] = node[n] \/ (node[n] = Nobody /\ node'[n] # Nobody /\ node'[n].group = g)
    <3>1. CASE n \in added
      <4>1. node'[n] \in NodeRow /\ node'[n].group = g
        BY <1>s, <3>1
      <4> QED
        BY <1>7, <3>1, <4>1, PersonalAssumption
    <3>2. CASE n \notin added
      BY <1>1, <1>11, <3>2
    <3> QED
      BY <3>1, <3>2
  <2>2. \A h \in Groups : h # g => group'[h] = group[h] /\ (h \in crossed => h \in crossed')
    BY <1>1, <1>17
  <2> QED
    BY <1>4, <1>14, <2>1, <2>2, OtherGroups
<1>22. ASSUME NEW n \in NodesOf(g)'
       PROVE  n \in kept \/ n \in added \/ (n \in NodesOf(g) \ q.rows)
  <2>1. n \in NodeIds /\ node'[n] # Nobody /\ node'[n].group = g
    BY DEF NodesOf, Rows
  <2>2. n \in NodesOf(g) \/ n \in added
    BY <1>1, <1>11, <2>1 DEF NodesOf, Rows
  <2> QED
    BY <1>10, <2>1, <2>2
<1>23. \A n \in kept \cup added : n \in NodesOf(g)' /\ node'[n].named
  <2>1. \A n \in kept \cup added : /\ n \in NodeIds /\ node'[n] \in NodeRow
                                   /\ node'[n].group = g /\ node'[n].named
    BY <1>s
  <2> QED
    BY <2>1, PersonalAssumption DEF NodesOf, Rows
<1>24. GroupsAreWhole'
  <2> SUFFICES ASSUME NEW h \in Groups, h \notin crossed', Open(h)'
               PROVE  /\ \A b \in group'[h].bindings : b[2] \in NodesOf(h)'
                      /\ \A n \in NodesOf(h)' : node'[n].named
    BY DEF GroupsAreWhole
  <2>1. CASE h # g
    BY <1>21, <2>1
  <2>2. CASE h = g
    <3>1. NodesOf(g) = q.rows
      BY <1>1, <1>q, <2>2 DEF Stale
    <3>2. \A n \in NodesOf(g)' : n \in kept \cup added
      BY <1>22, <3>1
    <3>3. \A b \in group'[g].bindings : b[2] \in kept \cup added
      BY <1>18 DEF PruneRoutingBindings
    <3> QED
      BY <1>23, <2>2, <3>2, <3>3
  <2> QED
    BY <2>1, <2>2
<1>25. NodeRowsInv'
  <2> SUFFICES ASSUME NEW n \in Rows'
               PROVE  n <= nodes' /\ \E h \in Groups : node'[n].group = h /\ Open(h)'
    BY DEF NodeRowsInv
  <2>0. n \in NodeIds /\ node'[n] # Nobody
    BY DEF Rows
  <2>1. CASE n \in added
    BY <1>4, <1>6, <1>s, <1>19, <2>1
  <2>2. CASE n \in NodesOf(g)
    <3>1. n <= nodes /\ nodes <= nodes' /\ nodes \in Nat /\ nodes' \in Nat /\ n \in Nat
      BY <1>0, <1>15, <2>0, <2>2, PersonalAssumption
      DEF NodeRowsInv, NodesOf, NodesKeepGroup, PersonalType, NodeIds
    <3> QED
      BY <1>4, <1>14, <1>19, <2>0, <2>2, <3>1
  <2>3. CASE n \notin added /\ n \notin NodesOf(g)
    <3>1. node'[n] = node[n] /\ n \in Rows /\ node[n].group \in Groups /\ node[n].group # g
      BY <1>1, <1>7, <1>11, <2>0, <2>3 DEF NodesOf, Rows, NodeRow
    <3>2. n <= nodes /\ nodes <= nodes' /\ nodes \in Nat /\ nodes' \in Nat /\ n \in Nat
      BY <1>0, <1>15, <2>0, <3>1, PersonalAssumption
      DEF NodeRowsInv, NodesKeepGroup, PersonalType, NodeIds
    <3>3. Open(node[n].group)
      BY <1>0, <3>1 DEF NodeRowsInv
    <3> QED
      BY <1>21, <3>1, <3>2, <3>3
  <2> QED
    BY <2>1, <2>2, <2>3
<1>26. ReferencesAreLive'
  <2> SUFFICES ASSUME NEW n \in Rows', node'[n].source \in Absent PROVE n \in overtaken'
    BY <1>1 DEF ReferencesAreLive, Absent
  <2>0. n \in NodeIds /\ node'[n] # Nobody
    BY DEF Rows
  <2>1. CASE n \in kept \cup added
    BY <1>1, <2>1
  <2>2. CASE n \notin kept \cup added
    <3>1. n \in Rows /\ node'[n].source = node[n].source
      <4>1. CASE n \in NodesOf(g)
        <5>1. node[n] \in NodeRow /\ n \in Rows /\ node'[n] = [node[n] EXCEPT !.named = FALSE]
          BY <1>7, <1>10, <2>0, <2>2, <4>1 DEF NodesOf, Rows
        <5> QED
          BY <5>1 DEF NodeRow
      <4>2. CASE n \notin NodesOf(g)
        BY <1>11, <2>0, <2>2, <4>2 DEF Rows
      <4> QED
        BY <4>1, <4>2
    <3> QED
      BY <1>0, <1>1, <3>1 DEF SubscriptionsAreWhole, ReferencesAreLive
  <2> QED
    BY <2>1, <2>2
<1> QED
  BY <1>20, <1>24, <1>25, <1>26 DEF PersonalInv, SubscriptionsAreWhole
\* New bindings name nodes that the group had when they were read.
LEMMA NextSetBindings ==
  ASSUME PersonalInv, NEW k \in Edits, SetPersonalSubscriptionRoutingBindings(k)
  PROVE  PersonalInv'
<1>0. PersonalType /\ NodeRowsInv /\ EditsInv /\ SubscriptionsAreWhole
  BY DEF PersonalInv
<1>q. PICK q, g : q = edit[k] /\ g = edit[k].group
  OBVIOUS
<1>1. /\ Running(k, "bindings") /\ Open(g)
      /\ group' = [group EXCEPT ![g].bindings = q.bindings]
      /\ crossed' = crossed \cup {h \in {g} : Stale(q)}
      /\ End(k) /\ UNCHANGED <<source, node, nodes, overtaken>>
  BY <1>q DEF SetPersonalSubscriptionRoutingBindings
<1>2. /\ g \in Groups /\ q.bindings \in Bindings /\ \A b \in q.bindings : b[2] \in q.rows
  BY <1>0, <1>1, <1>q DEF PersonalType, EditsInv, Running, NodesEdit, BindingsEdit
<1>3. group[g] \in GroupRow
  BY <1>0, <1>1, <1>2 DEF PersonalType, Open
<1>4. /\ \A h \in Groups : h # g => group'[h] = group[h]
      /\ group'[g] = [group[g] EXCEPT !.bindings = q.bindings]
  BY <1>0, <1>1, <1>2 DEF PersonalType
<1>5. group'[g] \in GroupRow /\ group'[g].bindings = q.bindings
  BY <1>2, <1>3, <1>4 DEF GroupRow, Bindings
<1>6. group' \in [Groups -> GroupRow \cup {Nobody, Removed}] /\ \A h \in Groups : Open(h)' = Open(h)
  <2>1. group' = [h \in Groups |-> group'[h]]
    BY <1>0, <1>1 DEF PersonalType
  <2>2. \A h \in Groups : group'[h] \in GroupRow \cup {Nobody, Removed}
    BY <1>0, <1>4, <1>5 DEF PersonalType
  <2>3. Open(g)'
    BY <1>5, PersonalAssumption DEF Open
  <2>4. \A h \in Groups : h # g => Open(h)' = Open(h)
    BY <1>4 DEF Open
  <2> QED
    BY <1>1, <2>1, <2>2, <2>3, <2>4 DEF Open
<1>7. NodesKeepGroup
  BY <1>0, <1>1 DEF NodesKeepGroup, PersonalType
<1>8. PersonalType' /\ EditsInv'
  BY <1>0, <1>1, <1>6, <1>7, EndEdit DEF PersonalType
<1>9. Rows' = Rows /\ \A h : NodesOf(h)' = NodesOf(h)
  BY <1>1 DEF Rows, NodesOf
<1>10. NodeRowsInv'
  <2>1. \A n \in Rows : node[n].group \in Groups
    BY <1>0 DEF PersonalType, Rows, NodeRow
  <2> QED
    BY <1>0, <1>1, <1>6, <1>9, <2>1 DEF NodeRowsInv
<1>11. ReferencesAreLive'
  BY <1>0, <1>1, <1>9 DEF SubscriptionsAreWhole, ReferencesAreLive, Absent
<1>12. GroupsAreWhole'
  <2> SUFFICES ASSUME NEW h \in Groups, h \notin crossed', Open(h)'
               PROVE  /\ \A b \in group'[h].bindings : b[2] \in NodesOf(h)
                      /\ \A n \in NodesOf(h) : node[n].named
    BY <1>1, <1>9 DEF GroupsAreWhole
  <2>0. h \notin crossed /\ Open(h)
    BY <1>1, <1>6
  <2>1. CASE h # g
    BY <1>0, <1>4, <2>0, <2>1 DEF SubscriptionsAreWhole, GroupsAreWhole
  <2>2. CASE h = g
    <3>1. NodesOf(g) = q.rows
      BY <1>1, <1>q, <2>2 DEF Stale
    <3> QED
      BY <1>0, <1>2, <1>5, <2>0, <2>2, <3>1 DEF SubscriptionsAreWhole, GroupsAreWhole
  <2> QED
    BY <2>1, <2>2
<1> QED
  BY <1>8, <1>10, <1>11, <1>12 DEF PersonalInv, SubscriptionsAreWhole

\* The nodes go with their group.
LEMMA NextDeleteGroup ==
  ASSUME PersonalInv, NEW g \in Groups, DeletePersonalSubscription(g)
  PROVE  PersonalInv'
<1>0. PersonalType /\ NodeRowsInv /\ EditsInv /\ SubscriptionsAreWhole
  BY DEF PersonalInv
<1>1. /\ group' = [group EXCEPT ![g] = Removed] /\ crossed' = crossed \ {g}
      /\ node' = [n \in NodeIds |-> IF n \in NodesOf(g) THEN Nobody ELSE node[n]]
      /\ UNCHANGED <<source, nodes, edit, overtaken>>
  BY DEF DeletePersonalSubscription
<1>2. /\ \A h \in Groups : h # g => group'[h] = group[h]
      /\ group'[g] = Removed
  BY <1>0, <1>1 DEF PersonalType
<1>3. \A n \in NodeIds : node'[n] = IF n \in NodesOf(g) THEN Nobody ELSE node[n]
  BY <1>1
<1>4. PersonalType'
  BY <1>0, <1>1 DEF PersonalType
<1>5. NodesKeepGroup
  BY <1>0, <1>1, <1>3 DEF NodesKeepGroup, PersonalType
<1>6. EditsInv'
  BY <1>0, <1>1, <1>5, KeepEdits
<1>7. \A h \in Groups : h # g =>
         /\ NodesOf(h)' = NodesOf(h) /\ Open(h)' = Open(h)
         /\ \A n \in NodesOf(h) : node'[n] = node[n]
         /\ (h \notin crossed' /\ Open(h)') =>
              /\ \A b \in group'[h].bindings : b[2] \in NodesOf(h)'
              /\ \A n \in NodesOf(h)' : node'[n].named
  <2>1. \A n \in NodesOf(g) : n \in NodeIds
    BY DEF NodesOf, Rows
  <2> QED
    BY <1>1, <1>2, <1>3, <2>1, OtherGroups
<1>8. \A n \in Rows' : /\ n \in Rows /\ node'[n] = node[n]
                       /\ node[n].group \in Groups /\ node[n].group # g
  BY <1>0, <1>3 DEF Rows, NodesOf, PersonalType, NodeRow
<1>9. NodeRowsInv'
  <2> SUFFICES ASSUME NEW n \in Rows'
               PROVE  n <= nodes' /\ \E h \in Groups : node'[n].group = h /\ Open(h)'
    BY DEF NodeRowsInv
  <2> QED
    BY <1>0, <1>1, <1>7, <1>8 DEF NodeRowsInv
<1>10. ReferencesAreLive'
  BY <1>0, <1>1, <1>8 DEF SubscriptionsAreWhole, ReferencesAreLive, Absent
<1>11. GroupsAreWhole'
  <2> SUFFICES ASSUME NEW h \in Groups, h \notin crossed', Open(h)'
               PROVE  /\ \A b \in group'[h].bindings : b[2] \in NodesOf(h)'
                      /\ \A n \in NodesOf(h)' : node'[n].named
    BY DEF GroupsAreWhole
  <2>1. h # g
    BY <1>2 DEF Open
  <2> QED
    BY <1>7, <2>1
<1> QED
  BY <1>4, <1>6, <1>9, <1>10, <1>11 DEF PersonalInv, SubscriptionsAreWhole

\* The deletion of a source takes every reference along, to it, to what cascades
\* from it and to what had gone before, and prunes the bindings it breaks.
LEMMA NextDeleteSource ==
  ASSUME PersonalInv, NEW s \in Sources, DeletePersonalSubscriptionSource(s)
  PROVE  PersonalInv'
<1>0. PersonalType /\ NodeRowsInv /\ EditsInv /\ SubscriptionsAreWhole
  BY DEF PersonalInv
<1>l. PICK lost : lost = PruneDeletedSources(s, Absent \cup Cascade[s])
  OBVIOUS
<1>t. PICK touched : touched = {node[n].group : n \in lost}
  OBVIOUS
<1>1. /\ source' = [r \in Sources |-> IF r \in Cascade[s] THEN "gone" ELSE source[r]]
      /\ node' = [n \in NodeIds |-> IF n \in lost THEN Nobody ELSE node[n]]
      /\ group' = [g \in Groups |->
            IF g \notin touched THEN group[g]
            ELSE [group[g] EXCEPT !.bindings = PruneRoutingBindings(@, NodesOf(g) \ lost)]]
      /\ UNCHANGED <<nodes, edit, crossed>>
  BY <1>l, <1>t DEF DeletePersonalSubscriptionSource
<1>2. lost \subseteq Rows /\ \A n \in Rows : n \in lost <=> node[n].source \in Absent \cup Cascade[s]
  BY <1>l DEF PruneDeletedSources
<1>3. \A n \in Rows : n \in NodeIds /\ node[n] \in NodeRow /\ node[n].group \in Groups
                      /\ Open(node[n].group)
  BY <1>0 DEF PersonalType, NodeRowsInv, Rows, NodeRow
<1>4. \A g \in touched : g \in Groups /\ Open(g) /\ group[g] \in GroupRow
  BY <1>0, <1>2, <1>3, <1>t DEF PersonalType, Open
<1>5. ASSUME NEW g \in touched
      PROVE  /\ group'[g] \in GroupRow
             /\ group'[g].bindings = PruneRoutingBindings(group[g].bindings, NodesOf(g) \ lost)
  <2>1. group'[g] = [group[g] EXCEPT
                       !.bindings = PruneRoutingBindings(group[g].bindings, NodesOf(g) \ lost)]
    BY <1>1, <1>4 DEF GroupRow
  <2>2. PruneRoutingBindings(group[g].bindings, NodesOf(g) \ lost) \in Bindings
    BY <1>4 DEF GroupRow, Bindings, PruneRoutingBindings
  <2> QED
    BY <1>4, <2>1, <2>2 DEF GroupRow, Bindings
<1>6. \A g \in Groups : g \notin touched => group'[g] = group[g]
  BY <1>1
<1>7. \A g \in Groups : Open(g)' = Open(g)
  BY <1>4, <1>5, <1>6, PersonalAssumption DEF Open
<1>8. \A n \in NodeIds : node'[n] = IF n \in lost THEN Nobody ELSE node[n]
  BY <1>1
<1>9. PersonalType'
  <2>1. \A g \in Groups : group'[g] \in GroupRow \cup {Nobody, Removed}
    BY <1>0, <1>5, <1>6 DEF PersonalType
  <2>2. group' = [g \in Groups |-> group'[g]]
    BY <1>1
  <2>3. group' \in [Groups -> GroupRow \cup {Nobody, Removed}]
    BY <2>1, <2>2
  <2> QED
    BY <1>0, <1>1, <2>3 DEF PersonalType
<1>10. NodesKeepGroup
  BY <1>0, <1>1, <1>8 DEF NodesKeepGroup, PersonalType
<1>11. EditsInv'
  BY <1>0, <1>1, <1>10, KeepEdits
<1>12. Rows' = Rows \ lost /\ \A n \in Rows' : node'[n] = node[n]
  BY <1>2, <1>8 DEF Rows
<1>13. \A g \in Groups : NodesOf(g)' = NodesOf(g) \ lost
  BY <1>12 DEF NodesOf
<1>14. NodeRowsInv'
  <2> SUFFICES ASSUME NEW n \in Rows'
               PROVE  n <= nodes' /\ \E h \in Groups : node'[n].group = h /\ Open(h)'
    BY DEF NodeRowsInv
  <2> QED
    BY <1>0, <1>1, <1>3, <1>7, <1>12 DEF NodeRowsInv
<1>15. ReferencesAreLive'
  <2>1. Absent' \subseteq Absent \cup Cascade[s]
    BY <1>1 DEF Absent
  <2> QED
    BY <1>2, <1>12, <2>1 DEF ReferencesAreLive
<1>16. GroupsAreWhole'
  <2> SUFFICES ASSUME NEW g \in Groups, g \notin crossed, Open(g)
               PROVE  /\ \A b \in group'[g].bindings : b[2] \in NodesOf(g)'
                      /\ \A n \in NodesOf(g)' : node'[n].named
    BY <1>1, <1>7 DEF GroupsAreWhole
  <2>0. /\ \A b \in group[g].bindings : b[2] \in NodesOf(g)
        /\ \A n \in NodesOf(g) : node[n].named
    BY <1>0 DEF SubscriptionsAreWhole, GroupsAreWhole
  <2>1. \A n \in NodesOf(g)' : node'[n].named
    BY <1>12, <1>13, <2>0 DEF NodesOf
  <2>2. CASE g \in touched
    BY <1>5, <1>13, <2>1, <2>2 DEF PruneRoutingBindings
  <2>3. CASE g \notin touched
    <3>1. NodesOf(g)' = NodesOf(g)
      BY <1>13, <1>t, <2>3 DEF NodesOf
    <3> QED
      BY <1>6, <2>0, <2>1, <2>3, <3>1
  <2> QED
    BY <2>2, <2>3
<1> QED
  BY <1>9, <1>11, <1>14, <1>15, <1>16 DEF PersonalInv, SubscriptionsAreWhole

\* Every step of every handler.
LEMMA NextPersonal == PersonalInv /\ [PersonalNext]_personalVars => PersonalInv'
<1> SUFFICES ASSUME PersonalInv, [PersonalNext]_personalVars PROVE PersonalInv'
  OBVIOUS
<1>0. PersonalType
  BY DEF PersonalInv
<1>s. UNCHANGED <<node, nodes>> => NodesKeepGroup
  BY <1>0 DEF NodesKeepGroup, PersonalType
<1>1. ASSUME NEW g \in Groups, NEW p \in Presets, CreatePersonalSubscription(g, p) PROVE PersonalInv'
  <2> DEFINE row == [preset |-> p, bindings |-> {}]
  <2>0. group[g] = Nobody /\ group' = [group EXCEPT ![g] = row]
        /\ UNCHANGED <<source, node, nodes, edit, overtaken, crossed>>
    BY <1>1 DEF CreatePersonalSubscription
  <2>1. row \in GroupRow /\ row.bindings = {}
    BY DEF GroupRow
  <2> HIDE DEF row
  <2>2. group'[g] = row /\ \A h \in Groups : h # g => group'[h] = group[h]
    BY <1>0, <2>0 DEF PersonalType
  <2>3. PersonalType'
    BY <1>0, <2>0, <2>1 DEF PersonalType
  <2>4. EditsInv'
    BY <1>s, <2>0, KeepEdits
  <2>5. Absent' = Absent
    BY <2>0 DEF Absent
  <2>6. \A h \in Groups : /\ Open(h) => Open(h)'
                          /\ Open(h)' => (Open(h) /\ group'[h].bindings = group[h].bindings)
                                         \/ group'[h].bindings = {}
    BY <2>0, <2>1, <2>2 DEF Open
  <2> QED
    BY <2>0, <2>3, <2>4, <2>5, <2>6, KeepPersonal DEF PersonalInv
<1>2. ASSUME NEW g \in Groups, NEW p \in Presets, UpdatePersonalSubscription(g, p) PROVE PersonalInv'
  <2>0. Open(g) /\ group' = [group EXCEPT ![g].preset = p]
        /\ UNCHANGED <<source, node, nodes, edit, overtaken, crossed>>
    BY <1>2 DEF UpdatePersonalSubscription
  <2>1. group[g] \in GroupRow
    BY <1>0, <2>0 DEF PersonalType, Open
  <2>2. /\ group'[g] = [group[g] EXCEPT !.preset = p]
        /\ \A h \in Groups : h # g => group'[h] = group[h]
    BY <1>0, <2>0 DEF PersonalType
  <2>3. group'[g] \in GroupRow /\ group'[g].bindings = group[g].bindings
    BY <2>1, <2>2 DEF GroupRow
  <2>4. PersonalType'
    <3>1. group' = [h \in Groups |-> group'[h]]
      BY <1>0, <2>0 DEF PersonalType
    <3>2. \A h \in Groups : group'[h] \in GroupRow \cup {Nobody, Removed}
      BY <1>0, <2>2, <2>3 DEF PersonalType
    <3>3. group' \in [Groups -> GroupRow \cup {Nobody, Removed}]
      BY <3>1, <3>2
    <3> QED
      BY <1>0, <2>0, <3>3 DEF PersonalType
  <2>5. EditsInv'
    BY <1>s, <2>0, KeepEdits
  <2>6. Absent' = Absent
    BY <2>0 DEF Absent
  <2>7. \A h \in Groups : /\ Open(h) => Open(h)'
                          /\ Open(h)' => (Open(h) /\ group'[h].bindings = group[h].bindings)
                                         \/ group'[h].bindings = {}
    BY <2>0, <2>2, <2>3, PersonalAssumption DEF Open
  <2> QED
    BY <2>0, <2>4, <2>5, <2>6, <2>7, KeepPersonal DEF PersonalInv
<1>3. ASSUME NEW k \in Edits, GiveUp(k) PROVE PersonalInv'
  <2>0. End(k) /\ UNCHANGED <<source, group, node, nodes, overtaken, crossed>>
    BY <1>3 DEF GiveUp
  <2>1. PersonalType' /\ EditsInv'
    BY <1>0, <1>s, <2>0, EndEdit DEF PersonalType
  <2>2. Absent' = Absent /\ \A g \in Groups : Open(g)' = Open(g)
    BY <2>0 DEF Absent, Open
  <2> QED
    BY <2>0, <2>1, <2>2, KeepPersonal DEF PersonalInv
<1>4. ASSUME NEW s \in Sources, SourceChanges(s) PROVE PersonalInv'
  <2>0. /\ source[s] # "gone"
        /\ source' = [source EXCEPT ![s] = IF @ = "ready" THEN "blocked" ELSE "ready"]
        /\ UNCHANGED <<group, node, nodes, edit, overtaken, crossed>>
    BY <1>4 DEF SourceChanges
  <2>1. PersonalType'
    BY <1>0, <2>0 DEF PersonalType
  <2>2. EditsInv'
    BY <1>s, <2>0, KeepEdits
  <2>3. Absent' \subseteq Absent /\ \A g \in Groups : Open(g)' = Open(g)
    BY <1>0, <2>0 DEF Absent, Open, PersonalType
  <2> QED
    BY <2>0, <2>1, <2>2, <2>3, KeepPersonal DEF PersonalInv
<1>5. CASE UNCHANGED personalVars
  <2>1. PersonalType' /\ UNCHANGED <<source, group, node, nodes, edit, overtaken, crossed>>
    BY <1>0, <1>5 DEF personalVars, PersonalType
  <2>2. EditsInv'
    BY <1>s, <2>1, KeepEdits
  <2>3. Absent' = Absent /\ \A g \in Groups : Open(g)' = Open(g)
    BY <2>1 DEF Absent, Open
  <2> QED
    BY <2>1, <2>2, <2>3, KeepPersonal DEF PersonalInv
<1> QED
  BY <1>1, <1>2, <1>3, <1>4, <1>5, NextBegin, NextSetNodes, NextSetBindings, NextDeleteGroup,
     NextDeleteSource
  DEF PersonalNext

(***************************************************************************)
(* Whatever edits of groups and deletions of sources cross (personal.go    *)
(* checks the sources before the transaction that writes them), a node     *)
(* refers to a source that exists and the bindings of a group to nodes it  *)
(* has, but for the groups and nodes that a stale writer has saved.        *)
(***************************************************************************)
THEOREM SubscriptionsStayWhole == PersonalSpec => []SubscriptionsAreWhole
<1>1. PersonalInv => SubscriptionsAreWhole
  BY DEF PersonalInv
<1> QED
  BY <1>1, InitPersonal, NextPersonal, PTL DEF PersonalSpec

=============================================================================
