---------------------------- MODULE LoginLimiter ----------------------------
(***************************************************************************)
(* The limits on sign-ins and on requests for a new password               *)
(* (internal/api/login_limiter.go).  A limiter counts failures for an      *)
(* address with a name, and for an address, and starts again a minute      *)
(* after the first.  A sign-in asks the limiter, checks the password       *)
(* without holding its lock, and then records the failure; a request for a *)
(* mail asks and records in one step.  Each use has a limiter of its own.  *)
(***************************************************************************)
EXTENDS Naturals, FiniteSets

CONSTANTS
    IPs, Names, Attempts,
    PairLimit, IPLimit,   \* 5 and 20 in the code
    MaxPairs, MaxIPs,     \* 4096 and 1024 in the code: entries of the tables
    Unused

ASSUME LimiterAssumption ==
    /\ PairLimit \in Nat \ {0} /\ IPLimit \in Nat \ {0}
    /\ MaxPairs \in Nat /\ MaxIPs \in Nat
    /\ IsFiniteSet(Attempts) /\ Attempts # {}

VARIABLES
    use,       \* "login" or "mail": what the limiter is for
    failures,  \* counts by address and name; no entry is 0
    byIP,      \* counts by address
    trying     \* sign-ins whose password is being checked

limiterVars == <<use, failures, byIP, trying>>

Keys == IPs \X Names
Entries(table) == {k \in DOMAIN table : table[k] > 0}

LimiterInit ==
    /\ use \in {"login", "mail"}
    /\ failures = [k \in Keys |-> 0]
    /\ byIP = [i \in IPs |-> 0]
    /\ trying = [a \in Attempts |-> Unused]

Allow(k) ==
    /\ failures[k] < PairLimit /\ byIP[k[1]] < IPLimit
    /\ failures[k] > 0 \/ Cardinality(Entries(failures)) < MaxPairs
    /\ byIP[k[1]] > 0 \/ Cardinality(Entries(byIP)) < MaxIPs

\* Mistake: a failure that finds a table full is entered all the same.
CountAlways(table, k, size) == [table EXCEPT ![k] = @ + 1]

CountFailure(table, k, size) ==
    IF table[k] > 0 \/ Cardinality(Entries(table)) < size THEN [table EXCEPT ![k] = @ + 1] ELSE table

RecordFailure(k) ==
    /\ failures' = CountFailure(failures, k, MaxPairs)
    /\ byIP' = CountFailure(byIP, k[1], MaxIPs)

Try(a, k) ==
    /\ use = "login" /\ trying[a] = Unused /\ Allow(k)
    /\ trying' = [trying EXCEPT ![a] = k]
    /\ UNCHANGED <<use, failures, byIP>>

WrongPassword(a) ==
    /\ trying[a] # Unused
    /\ RecordFailure(trying[a])
    /\ trying' = [trying EXCEPT ![a] = Unused]
    /\ UNCHANGED use

\* Reset: the count of the address stays.
SignedIn(a) ==
    /\ trying[a] # Unused
    /\ failures' = [failures EXCEPT ![trying[a]] = 0]
    /\ trying' = [trying EXCEPT ![a] = Unused]
    /\ UNCHANGED <<use, byIP>>

Take(k) ==
    /\ use = "mail" /\ Allow(k)
    /\ RecordFailure(k)
    /\ UNCHANGED <<use, trying>>

\* pruneExpired, a minute after the first failure of an entry.
WindowEnds ==
    /\ \/ \E k \in Entries(failures) : failures' = [failures EXCEPT ![k] = 0] /\ UNCHANGED byIP
       \/ \E i \in Entries(byIP) : byIP' = [byIP EXCEPT ![i] = 0] /\ UNCHANGED failures
    /\ UNCHANGED <<use, trying>>

LimiterNext ==
    \/ \E a \in Attempts : WrongPassword(a) \/ SignedIn(a) \/ \E k \in Keys : Try(a, k)
    \/ \E k \in Keys : Take(k)
    \/ WindowEnds

LimiterSpec == LimiterInit /\ [][LimiterNext]_limiterVars

\* The tables never outgrow their limits, and in a window no count passes its
\* limit by more than the sign-ins that were under way together; requests for
\* mail, which are counted when they are let through, never pass it.
LimiterHolds ==
    LET slack == IF use = "login" THEN Cardinality(Attempts) - 1 ELSE 0 IN
    /\ Cardinality(Entries(failures)) <= MaxPairs /\ Cardinality(Entries(byIP)) <= MaxIPs
    /\ \A k \in Keys : failures[k] <= PairLimit + slack
    /\ \A i \in IPs : byIP[i] <= IPLimit + slack
=============================================================================
