------------------------------- MODULE MCPlans -------------------------------
(***************************************************************************)
(* What subscribers and clients may use, for TLC: plans and entitlements,  *)
(* traffic and quotas, cycles and renewals.  The modules share no state,   *)
(* so each behaviour explores one of them and the others stay in their     *)
(* first state.                                                            *)
(***************************************************************************)
EXTENDS Entitlements, ClientTraffic, RenewalCycles

VARIABLE explored
allVars == <<explored, entVars, trafficVars, renewalVars>>

\* A proxy on each Server; two nodes lead to them, a third relays to p2 through s1.
MCAt == [p \in Proxies |-> IF p = "p1" THEN "s1" ELSE "s2"]
MCTarget == [n \in Nodes |-> IF n = "n1" THEN "p1" ELSE "p2"]
MCVia == [n \in Nodes |-> IF n = "n3" THEN "s1" ELSE None]

\* The first state of what is not explored.
TrafficRests == desired = Managed /\ rate = Min(Rates)
RenewalRests == renewal.expires = Null

PlansInit ==
    /\ EntInit /\ TrafficInit /\ RenewalInit
    /\ \/ explored = "entitlements" /\ TrafficRests /\ RenewalRests
       \/ explored = "traffic" /\ RenewalRests
       \/ explored = "schedules" /\ TrafficRests

Entitling(A) == explored = "entitlements" /\ A /\ UNCHANGED <<explored, trafficVars, renewalVars>>
Counting(A) == explored = "traffic" /\ A /\ UNCHANGED <<explored, entVars, renewalVars>>
Scheduling(A) == explored = "schedules" /\ A /\ UNCHANGED <<explored, entVars, trafficVars>>

PlansNext == Entitling(EntNext) \/ Counting(TrafficNext) \/ Scheduling(RenewalNext)

PlansSpec == PlansInit /\ [][PlansNext]_allVars

\* The entitlements alone; every Agent fetches its configuration again and again.
LapseInit ==
    /\ EntInit /\ TrafficInit /\ RenewalInit
    /\ explored = "entitlements" /\ TrafficRests /\ RenewalRests
LapseSpec ==
    /\ LapseInit /\ [][Entitling(EntNext)]_allVars
    /\ \A s \in Servers : WF_allVars(Entitling(FetchConfig(s)))
=============================================================================
