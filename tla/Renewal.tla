------------------------------- MODULE Renewal -------------------------------
(***************************************************************************)
(* Expiration and automatic renewal of one Server (server/renewal.go,      *)
(* server/server.go, api/server.go).  An expiration is the last second of  *)
(* a day, so a day stands for it: it has passed from the next day on.  The *)
(* anchor is the day of the month to return to after shorter months.       *)
(***************************************************************************)
EXTENDS Calendar

CONSTANTS
  Dates,        \* days the administrator may enter
  Periods,      \* renewal periods in months
  MaxUpdates    \* bound on changes of the settings

ASSUME RenewalAssumption ==
  /\ Dates \subseteq 1..(MonthStart[12] - 1)
  /\ Periods \subseteq {1, 3, 6, 12, 24, 36}
  /\ \A p \in Periods : p + 2 <= 12 * Years    \* the calendar has room to renew
  /\ MaxUpdates \in Nat

VARIABLES
  today,
  renewal,  \* expires_at, renewal_period_months, auto_renew, renewal_anchor_day; 0 is NULL
  updates

renewalVars == <<today, renewal, updates>>

Null == 0
Keep == -1    \* a field that a PATCH leaves out

-----------------------------------------------------------------------------
\* Without an expiration there is no period, without a period no renewal.
Normalized(r) ==
  CASE r.expires = Null -> [r EXCEPT !.period = Null, !.auto = FALSE, !.anchor = Null]
    [] r.expires # Null /\ r.period = Null -> [r EXCEPT !.auto = FALSE, !.anchor = Null]
    [] OTHER -> r

MayRenew(r) == r.expires # Null /\ r.period # Null

\* CreateWithSettings, which refuses a renewal without its terms.
Created ==
  {Normalized([expires |-> e, period |-> p, auto |-> a /\ e # Null /\ p # Null,
               anchor |-> IF e = Null THEN Null ELSE DayOf(e)]) :
     e \in {Null} \cup Dates, p \in {Null} \cup Periods, a \in BOOLEAN}

RenewalInit == today = MonthStart[1] /\ renewal \in Created /\ updates = 0

\* Mistake: the anchor of the former expiration stays.
AnchorKept(r, e, p) ==
  IF MayRenew(r) /\ r.anchor = Null THEN DayOf(r.expires) ELSE r.anchor

\* The anchor follows a new expiration, or the present one when there is none.
Anchor(r, e, p) ==
  IF MayRenew(r) /\ (e # Keep \/ (p # Keep /\ r.anchor = Null)) THEN DayOf(r.expires)
  ELSE r.anchor

\* UpdateRenewalSettings: e, p and a are what the PATCH holds, Keep for what it leaves out.
UpdateRenewalSettings(e, p, a) ==
  LET changed == [renewal EXCEPT !.expires = IF e = Keep THEN @ ELSE e,
                             !.period = IF p = Keep THEN @ ELSE p,
                             !.auto = IF a = Keep THEN @ ELSE a = 1]
  IN  /\ updates < MaxUpdates
      /\ a = 1 => MayRenew(changed)
      /\ renewal' = Normalized([changed EXCEPT !.anchor = Anchor(changed, e, p)])
      /\ updates' = updates + 1
      /\ UNCHANGED today

nextRenewalExpiration(e, period, anchor) ==
  LET m == MonthOf(e) + period IN Date(m, Min({anchor, MonthLength(m)}))

\* Mistake: one period, however long the Panel was down.
RenewedOnce(r) == nextRenewalExpiration(r.expires, r.period, r.anchor)

\* The loop of ApplyAutomaticRenewals.
Renewed(r) ==
  LET renew[e \in 1..(MonthStart[LastMonth + 1] - 1)] ==
        IF e >= today THEN e ELSE renew[nextRenewalExpiration(e, r.period, r.anchor)]
  IN  renew[r.expires]

Due(r) == r.auto /\ MayRenew(r) /\ r.expires < today

\* At the start of the Panel and every hour.
ApplyAutomaticRenewals ==
  /\ Due(renewal)
  /\ LET anchor == IF renewal.anchor = Null THEN DayOf(renewal.expires) ELSE renewal.anchor
     IN  renewal' = [renewal EXCEPT !.anchor = anchor,
                            !.expires = Renewed([renewal EXCEPT !.anchor = anchor])]
  /\ UNCHANGED <<today, updates>>

\* The last months of the calendar are kept to renew into.
LastToday == MonthStart[LastMonth + 1 - Max({2} \cup Periods)] - 1

\* A day passes, whether or not the Panel runs.
NextDay ==
  /\ today < LastToday
  /\ today' = today + 1
  /\ UNCHANGED <<renewal, updates>>

RenewalNext ==
  \/ NextDay
  \/ ApplyAutomaticRenewals
  \/ \E e \in {Keep, Null} \cup Dates, p \in {Keep, Null} \cup Periods, a \in {Keep, 0, 1} :
       UpdateRenewalSettings(e, p, a)

RenewalSpec == RenewalInit /\ [][RenewalNext]_renewalVars

-----------------------------------------------------------------------------
(* Properties.                                                             *)

(***************************************************************************)
(* Whatever fields the PATCHes held and in whatever order, a Server that   *)
(* renews automatically has an expiration, a period and an anchor, and the *)
(* expiration is on the anchor day or, in a shorter month, on the last     *)
(* day: renewals do not drift.                                             *)
(***************************************************************************)
ExpiresOnAnchor ==
  /\ renewal.auto => renewal.period # Null /\ renewal.anchor # Null
  /\ renewal.anchor # Null =>
       /\ renewal.expires # Null
       /\ DayOf(renewal.expires) = Min({renewal.anchor, MonthLength(MonthOf(renewal.expires))})

(***************************************************************************)
(* A renewal goes to the first expiration of the schedule that has not     *)
(* passed: after a long stop of the Panel it catches up at once, and never *)
(* by a period too many.                                                   *)
(***************************************************************************)
RenewsJustEnough ==
  [][renewal'.expires # renewal.expires /\ updates' = updates =>
       /\ renewal'.expires >= today
       /\ \A e \in today..(renewal'.expires - 1) :
            ~ /\ (MonthOf(e) - MonthOf(renewal.expires)) % renewal.period = 0
              /\ DayOf(e) = Min({renewal.anchor, MonthLength(MonthOf(e))})
       /\ (MonthOf(renewal'.expires) - MonthOf(renewal.expires)) % renewal.period = 0]_renewalVars
=============================================================================
