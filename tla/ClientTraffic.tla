---------------------------- MODULE ClientTraffic ----------------------------
(***************************************************************************)
(* How traffic becomes usage (internal/proxy/traffic.go,                   *)
(* internal/subscription/usage.go, cmd/agent/client_traffic.go): Xray      *)
(* counts the traffic of every client since its last start, the Agent      *)
(* reports the counters every 15 seconds, and the Panel adds what they     *)
(* have grown by since the last report to the usage of the client.  For a  *)
(* client of a subscriber the growth is multiplied by the rate of the      *)
(* published node, in hundredths (here: parts of Scale).                   *)
(***************************************************************************)
EXTENDS Integers, FiniteSets, FiniteSetsExt

CONSTANTS
    Ordinary, Managed,  \* clients of the administrator, clients of subscribers
    Scale,              \* the denominator of rates (100 in the code)
    Rates,              \* rates of a published node, in parts of Scale
    Quotas,             \* traffic limits; Unlimited is none
    MaxTraffic,         \* bound: traffic carried in all
    MaxReported,        \* bound: counters reported, all reports together
    MaxLate,            \* bound: reports on their way at a time
    Absent, Unlimited

Clients == Ordinary \cup Managed

\* What the Panel keeps of a client.
TrafficRow == [on : BOOLEAN, quota : Quotas, expired : BOOLEAN, due : BOOLEAN,
               base : Nat \cup {Absent}, used : Nat, rem : Nat, snap : BOOLEAN]

\* A limit of 0 is none (LifecycleAt, traffic.go:64).
ASSUME TrafficAssumption ==
    /\ Scale \in Nat \ {0} /\ Rates \subseteq Nat \ {0}
    /\ MaxTraffic \in Nat /\ MaxReported \in Nat
    /\ Quotas \subseteq (Nat \ {0}) \cup {Unlimited}
    /\ Ordinary \cap Managed = {} /\ IsFiniteSet(Clients)
    /\ Absent \notin Nat /\ Absent \notin TrafficRow

VARIABLES
    row,        \* clients: on, quota, expired, due (a new cycle has begun), base (the last
                \* reported counter or Absent), used, rem (of the last division), snap
    counter,    \* Xray's counter of a client, Absent if it is not in the running config
    desired,    \* the clients in the desired state at its last version
    rate,       \* the rate of the published node of the managed clients
    wire,       \* reports on their way: number, counters
    sent, last, \* the number of the last report sent, of the last one handled; a report
                \* is numbered by the counters reported so far
    carried,    \* history: traffic carried in all
    uncounted,  \* history: traffic of a client that has been carried and not counted
    owed,       \* history: what a managed client is to be charged, in parts of Scale
    overtaken,  \* history: clients one of whose reports was handled after a later one
    unnoticed   \* history: clients for whom time has passed since the Panel looked

trafficVars == <<row, counter, desired, rate, wire, sent, last, carried, uncounted, owed, overtaken, unnoticed>>

(***************************************************************************)
(* Counting.                                                               *)
(***************************************************************************)
CounterDelta(previous, current) == IF current < previous THEN 0 ELSE current - previous

\* Mistake: every report is rounded on its own.
RoundedCharge(delta, remainder) == <<(delta * rate) \div Scale, 0>>

ApplyTrafficMultiplierDelta(delta, remainder) ==
    LET part == (delta % Scale) * rate + remainder
    IN  <<(delta \div Scale) * rate + part \div Scale, part % Scale>>

\* LifecycleAt, and for a managed client the state of its subscription.
EffectiveEnabled(r) == r.on /\ ~r.expired /\ (r.quota = Unlimited \/ r.used < r.quota)

Settle(r) == [r EXCEPT !.snap = EffectiveEnabled(r)]
NewCycle(r) == [r EXCEPT !.used = 0, !.rem = 0, !.due = FALSE]
Enabled(rows) == {c \in Clients : rows[c] # Absent /\ rows[c].snap}

\* recordClientTraffic: the first report of a client only sets its baseline, and
\* so does the first one of an ordinary client in a new cycle.
RecordOrdinary(r, value) ==
    Settle(IF r.base = Absent \/ r.due
           THEN [NewCycle(r) EXCEPT !.base = value, !.due = IF r.base = Absent THEN r.due ELSE FALSE]
           ELSE [r EXCEPT !.base = value, !.used = @ + CounterDelta(r.base, value)])

\* resetSubscriberCycleIfDueTx, then recordSubscriberChargeTx.
RecordManaged(r, value) ==
    LET q == IF r.due THEN NewCycle(r) ELSE r
        charge == ApplyTrafficMultiplierDelta(CounterDelta(q.base, value), q.rem)
    IN  Settle(IF q.base = Absent THEN [q EXCEPT !.base = value]
               ELSE [q EXCEPT !.base = value, !.used = @ + charge[1], !.rem = charge[2]])

Counted(c, value) ==
    LET r == row[c] IN
    IF r.base = Absent \/ (r.due /\ c \in Ordinary) THEN 0 ELSE CounterDelta(r.base, value)

(***************************************************************************)
(* The VPS.                                                                *)
(***************************************************************************)
ClientRow(quota) ==
    [on |-> TRUE, quota |-> quota, expired |-> FALSE, due |-> FALSE,
     base |-> Absent, used |-> 0, rem |-> 0, snap |-> TRUE]

TrafficInit ==
    /\ \E C \in SUBSET Clients \ {{}}, quota \in Quotas :
          /\ row = [c \in Clients |-> IF c \in C THEN ClientRow(quota) ELSE Absent]
          /\ counter = [c \in Clients |-> IF c \in C THEN 0 ELSE Absent]
          /\ desired = C
    /\ rate \in Rates
    /\ wire = {} /\ sent = 0 /\ last = 0
    /\ carried = 0
    /\ uncounted = [c \in Clients |-> 0]
    /\ owed = [c \in Clients |-> 0]
    /\ overtaken = {} /\ unnoticed = {}

Carry(c) ==
    /\ counter[c] # Absent /\ carried < MaxTraffic
    /\ counter' = [counter EXCEPT ![c] = @ + 1]
    /\ carried' = carried + 1
    /\ uncounted' = [uncounted EXCEPT ![c] = @ + 1]
    /\ UNCHANGED <<row, desired, rate, wire, sent, last, owed, overtaken, unnoticed>>

\* Xray restarts, on its own or with a new config: counting begins anew.
RestartXray ==
    /\ counter' = [c \in Clients |-> IF c \in desired THEN 0 ELSE Absent]
    /\ UNCHANGED <<row, desired, rate, wire, sent, last, carried, uncounted, owed, overtaken, unnoticed>>

\* collect, parseXrayClientStats and report: nothing is sent without a counter.
Report ==
    LET running == {c \in Clients : counter[c] # Absent} IN
    /\ running # {} /\ sent + Cardinality(running) <= MaxReported /\ Cardinality(wire) < MaxLate
    /\ sent' = sent + Cardinality(running)
    /\ wire' = wire \cup {[no |-> sent', counters |-> [c \in running |-> counter[c]]]}
    /\ UNCHANGED <<row, counter, desired, rate, last, carried, uncounted, owed, overtaken, unnoticed>>

(***************************************************************************)
(* The Panel.                                                              *)
(***************************************************************************)
\* The end of a transaction that leaves the rows `rows`: the version is bumped,
\* and the desired state read anew, if it must be or a switch has changed.
Commit(rows, bump) ==
    /\ row' = rows
    /\ desired' = IF bump \/ Enabled(rows) # Enabled(row) THEN Enabled(rows) ELSE desired

\* A report with a client that is gone is rejected as a whole.  A report of a
\* managed client that is switched off flips its switch twice and bumps the version.
RecordAgentClientTraffic(m) ==
    LET C == DOMAIN m.counters
        known == \A c \in C : row[c] # Absent
    IN  /\ m \in wire
        /\ wire' = wire \ {m}
        /\ last' = IF known THEN Max({last, m.no}) ELSE last
        /\ overtaken' = IF known /\ m.no < last THEN overtaken \cup C ELSE overtaken
        /\ unnoticed' = IF known THEN unnoticed \ C ELSE unnoticed
        /\ uncounted' = IF known THEN [c \in Clients |->
                                        IF c \in C THEN uncounted[c] - Counted(c, m.counters[c]) ELSE uncounted[c]]
                        ELSE uncounted
        /\ owed' = IF known THEN [c \in Clients |-> IF c \in C \cap Managed
                                      THEN (IF row[c].due THEN 0 ELSE owed[c]) + rate * Counted(c, m.counters[c]) ELSE owed[c]]
                   ELSE owed
        /\ Commit([c \in Clients |->
              IF ~known \/ c \notin C THEN row[c]
              ELSE IF c \in Managed THEN RecordManaged(row[c], m.counters[c])
              ELSE RecordOrdinary(row[c], m.counters[c])],
              known /\ \E c \in C \cap Managed : ~row[c].snap)
        /\ UNCHANGED <<counter, rate, sent, carried>>

\* Rejected by authentication, lost, or given up after ten seconds.
LoseReport(m) ==
    /\ m \in wire
    /\ wire' = wire \ {m}
    /\ UNCHANGED <<row, counter, desired, rate, sent, last, carried, uncounted, owed, overtaken, unnoticed>>

\* A fetch of the desired state: ReconcileServerSubscribersTx and
\* ReconcileClientLifecycleStateTx.  Without a baseline no cycle has begun.
FetchDesiredState ==
    /\ Commit([c \in Clients |->
          IF row[c] = Absent THEN Absent
          ELSE Settle(IF row[c].due /\ (c \in Managed \/ row[c].base # Absent) THEN NewCycle(row[c]) ELSE row[c])], FALSE)
    /\ owed' = [c \in Clients |-> IF row[c] # Absent /\ row[c].due THEN 0 ELSE owed[c]]
    /\ unnoticed' = {}
    /\ UNCHANGED <<counter, rate, wire, sent, last, carried, uncounted, overtaken>>

UpdateClient(c, on, quota) ==
    /\ c \in Ordinary /\ row[c] # Absent
    /\ \E expired \in {FALSE, row[c].expired} :
          Commit([row EXCEPT ![c] = Settle([@ EXCEPT !.on = on, !.quota = quota, !.expired = expired])], TRUE)
    /\ unnoticed' = unnoticed \ {c}
    /\ UNCHANGED <<counter, rate, wire, sent, last, carried, uncounted, owed, overtaken>>

DeleteClient(c) ==
    /\ c \in Ordinary /\ row[c] # Absent
    /\ Commit([row EXCEPT ![c] = Absent], TRUE)
    /\ unnoticed' = unnoticed \ {c}
    /\ UNCHANGED <<counter, rate, wire, sent, last, carried, uncounted, owed, overtaken>>

\* Mistake: a reset that leaves the client switched off until the Agent asks again.
ResetOnly(c) ==
    /\ row[c] # Absent
    /\ Commit([row EXCEPT ![c] = NewCycle(@)], FALSE)
    /\ owed' = [owed EXCEPT ![c] = 0]
    /\ unnoticed' = unnoticed \ {c}
    /\ UNCHANGED <<counter, rate, wire, sent, last, carried, uncounted, overtaken>>

\* ResetClientTraffic or ResetSubscriberTraffic.  The baseline stays: what has
\* been carried since the last report is counted in the new cycle.
ResetTraffic(c) ==
    /\ row[c] # Absent
    /\ Commit([row EXCEPT ![c] = Settle(NewCycle(@))], FALSE)
    /\ owed' = [owed EXCEPT ![c] = 0]
    /\ unnoticed' = unnoticed \ {c}
    /\ UNCHANGED <<counter, rate, wire, sent, last, carried, uncounted, overtaken>>

\* UpdatePublishedNode with a new traffic multiplier.
SetRate(r) ==
    /\ rate' = r
    /\ UNCHANGED <<row, counter, desired, wire, sent, last, carried, uncounted, owed, overtaken, unnoticed>>

\* The expiry date or the reset time of a client passes (bound: the Panel looks
\* before it does for another).
Elapse(c) ==
    /\ row[c] # Absent /\ unnoticed = {}
    /\ \/ ~row[c].expired /\ row' = [row EXCEPT ![c].expired = TRUE]
       \/ ~row[c].due /\ row' = [row EXCEPT ![c].due = TRUE]
    /\ unnoticed' = unnoticed \cup {c}
    /\ UNCHANGED <<counter, desired, rate, wire, sent, last, carried, uncounted, owed, overtaken>>

TrafficNext ==
    \/ RestartXray \/ Report \/ FetchDesiredState
    \/ \E m \in wire : RecordAgentClientTraffic(m) \/ LoseReport(m)
    \/ \E c \in Clients : Carry(c) \/ DeleteClient(c) \/ ResetTraffic(c) \/ Elapse(c)
    \/ \E c \in Clients, on \in BOOLEAN, quota \in Quotas : UpdateClient(c, on, quota)
    \/ \E r \in Rates : SetRate(r)

TrafficSpec == TrafficInit /\ [][TrafficNext]_trafficVars

(***************************************************************************)
(* Properties.                                                             *)
(***************************************************************************)
\* A client is never charged for traffic it has not had, however Xray restarts,
\* reports are lost or rejected and cycles begin, as long as the Panel handles
\* the reports about it in the order they were sent in.  A subscriber is charged
\* exactly the rate of each piece of traffic counted in this cycle: no report
\* loses a fraction, whatever the rate becomes.
TrafficIsChargedOnce ==
    /\ \A c \in Clients \ overtaken : uncounted[c] >= 0
    /\ \A c \in Managed : row[c] # Absent => Scale * row[c].used + row[c].rem = owed[c]

\* A client that has used up its quota, is disabled or expired is out of the
\* desired state, one that may be used is in it, as soon as the Panel has looked.
ToldFollowsUsage ==
    \A c \in Clients \ unnoticed :
        (c \in desired) <=> (row[c] # Absent /\ EffectiveEnabled(row[c]))
=============================================================================
