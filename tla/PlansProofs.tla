---------------------------- MODULE PlansProofs ----------------------------
(***************************************************************************)
(* Theorems about what subscribers and clients are charged and served, and *)
(* about the calendar that cycles and renewals follow.                     *)
(***************************************************************************)
EXTENDS ClientTraffic, Entitlements, RenewalCycles, FiniteSetTheorems, WellFoundedInduction, TLAPS

(***************************************************************************)
(* Arithmetic of the counters and of the rates.                            *)
(***************************************************************************)
LEMMA LargerOfTwo ==
  ASSUME NEW a \in Nat, NEW b \in Nat
  PROVE  Max({a, b}) \in {a, b} /\ Max({a, b}) >= a /\ Max({a, b}) >= b
BY DEF Max

\* The growth of a counter.
LEMMA DeltaFacts ==
  ASSUME NEW a \in Nat, NEW b \in Nat
  PROVE  /\ CounterDelta(a, b) \in Nat
         /\ CounterDelta(a, b + 1) <= CounterDelta(a, b) + 1
         /\ CounterDelta(a, 0) = 0 /\ CounterDelta(a, a) = 0
  BY DEF CounterDelta

\* A number is what it holds of a scale, and the rest.
LEMMA DivMod ==
  ASSUME NEW n \in Nat, NEW s \in Nat \ {0}
  PROVE  /\ n \div s \in Nat /\ n % s \in Nat
         /\ n = s * (n \div s) + (n % s)
  OBVIOUS

\* The remainder carries what the division leaves: nothing is lost.
LEMMA ChargeIsExact ==
  ASSUME NEW delta \in Nat, NEW remainder \in Nat, rate \in Nat
  PROVE  LET charge == ApplyTrafficMultiplierDelta(delta, remainder) IN
         /\ charge[1] \in Nat /\ charge[2] \in Nat
         /\ Scale * charge[1] + charge[2] = rate * delta + remainder
<1> DEFINE part == (delta % Scale) * rate + remainder
           whole == delta \div Scale
           rest == delta % Scale
<1>1. whole \in Nat /\ rest \in Nat /\ delta = Scale * whole + rest
  BY DivMod, TrafficAssumption
<1>2. part \in Nat
  BY <1>1
<1>3. part \div Scale \in Nat /\ part % Scale \in Nat
      /\ part = Scale * (part \div Scale) + (part % Scale)
  BY <1>2, DivMod, TrafficAssumption
<1>4. /\ ApplyTrafficMultiplierDelta(delta, remainder)[1] = whole * rate + part \div Scale
      /\ ApplyTrafficMultiplierDelta(delta, remainder)[2] = part % Scale
  BY DEF ApplyTrafficMultiplierDelta
<1>5. rate * delta = rate * (Scale * whole) + rate * rest
  BY <1>1, TrafficAssumption
<1>6. rate * (Scale * whole) = Scale * (whole * rate) /\ rate * rest = rest * rate
  BY <1>1, TrafficAssumption
<1>7. whole * rate \in Nat /\ rest * rate \in Nat
  BY <1>1
<1>9. part = rest * rate + remainder
  OBVIOUS
<1> HIDE DEF whole, rest, part
<1>8. Scale * (whole * rate + part \div Scale) = Scale * (whole * rate) + Scale * (part \div Scale)
  BY <1>3, <1>7, TrafficAssumption
<1>10. /\ whole * rate + part \div Scale \in Nat
       /\ Scale * (whole * rate) \in Nat /\ Scale * (part \div Scale) \in Nat
  BY <1>3, <1>7, TrafficAssumption
<1>11. Scale * (whole * rate + part \div Scale) + (part % Scale) = rate * delta + remainder
  BY <1>3, <1>5, <1>6, <1>7, <1>8, <1>9, <1>10
<1> QED
  BY <1>3, <1>4, <1>10, <1>11

(***************************************************************************)
(* Client traffic.                                                         *)
(***************************************************************************)
Reports == [no : Nat, counters : UNION {[C -> Nat] : C \in SUBSET Clients}]

TrafficType ==
  /\ row \in [Clients -> TrafficRow \cup {Absent}]
  /\ counter \in [Clients -> Nat \cup {Absent}]
  /\ rate \in Rates /\ wire \subseteq Reports
  /\ sent \in Nat /\ last \in Nat
  /\ uncounted \in [Clients -> Int] /\ owed \in [Clients -> Nat]

\* Reports have numbers of their own, and the last one handled is not on its way.
NumbersInv ==
  /\ last <= sent
  /\ \A m \in wire : m.no <= sent /\ m.no # last
  /\ \A m, n \in wire : m.no = n.no => m = n

\* The Server was told of the switches as they are, and they follow the rows that
\* the Panel has looked at.
SwitchInv ==
  /\ desired = Enabled(row)
  /\ \A c \in Clients \ unnoticed : row[c] # Absent => (row[c].snap <=> EffectiveEnabled(row[c]))

OwedInv ==
  \A c \in Managed : row[c] # Absent => Scale * row[c].used + row[c].rem = owed[c]

\* The counter that the Panel compares the next report of a client with.
LastSeen(c) == IF row[c] = Absent THEN Absent ELSE row[c].base
Growth(b, value) == IF b = Absent THEN 0 ELSE CounterDelta(b, value)

\* The reports on their way about c that nothing has overtaken.
Pending(c) == {m \in wire : m.no > last /\ c \in DOMAIN m.counters}

(***************************************************************************)
(* due[<<m, c>>] is a part of the uncounted traffic of c that c had had when m *)
(* was sent.  It covers what handling m will count, what the reports sent  *)
(* later cover grows by at least as much as their counters, and what was   *)
(* carried since covers the counter that Xray has now.                     *)
(***************************************************************************)
Covered(due, c) ==
  /\ uncounted[c] >= 0
  /\ counter[c] # Absent => uncounted[c] >= Growth(LastSeen(c), counter[c])
  /\ \A m \in Pending(c) :
        /\ due[<<m, c>>] >= Growth(LastSeen(c), m.counters[c]) /\ due[<<m, c>>] >= 0
        /\ uncounted[c] >= due[<<m, c>>]
        /\ counter[c] # Absent => uncounted[c] >= due[<<m, c>>] + CounterDelta(m.counters[c], counter[c])
  /\ \A m, n \in Pending(c) :
        m.no < n.no => due[<<n, c>>] >= due[<<m, c>>] + CounterDelta(m.counters[c], n.counters[c])

CoverInv == \E due \in [wire \X Clients -> Int] : \A c \in Clients \ overtaken : Covered(due, c)

TrafficInv == TrafficType /\ NumbersInv /\ SwitchInv /\ OwedInv /\ CoverInv

\* Rows as the operations leave them.
LEMMA SettledRow ==
  ASSUME NEW r \in TrafficRow
  PROVE  /\ Settle(r) \in TrafficRow
         /\ Settle(r).snap <=> EffectiveEnabled(Settle(r))
         /\ Settle(r).base = r.base /\ Settle(r).used = r.used /\ Settle(r).rem = r.rem
<1>1. EffectiveEnabled(r) \in BOOLEAN
  BY DEF EffectiveEnabled
<1>2. /\ Settle(r) \in TrafficRow /\ Settle(r).snap = EffectiveEnabled(r)
      /\ Settle(r).on = r.on /\ Settle(r).expired = r.expired /\ Settle(r).quota = r.quota
      /\ Settle(r).base = r.base /\ Settle(r).used = r.used /\ Settle(r).rem = r.rem
  BY <1>1 DEF Settle, TrafficRow
<1>3. EffectiveEnabled(Settle(r)) <=> EffectiveEnabled(r)
  BY <1>2 DEF EffectiveEnabled
<1> QED
  BY <1>2, <1>3

LEMMA CycleRow ==
  ASSUME NEW r \in TrafficRow
  PROVE  /\ NewCycle(r) \in TrafficRow /\ NewCycle(r).base = r.base
         /\ NewCycle(r).used = 0 /\ NewCycle(r).rem = 0
  BY DEF NewCycle, TrafficRow

LEMMA OrdinaryRow ==
  ASSUME NEW r \in TrafficRow, NEW value \in Nat
  PROVE  LET new == RecordOrdinary(r, value) IN
         new \in TrafficRow /\ (new.snap <=> EffectiveEnabled(new)) /\ new.base = value
<1> DEFINE first == [NewCycle(r) EXCEPT !.base = value, !.due = IF r.base = Absent THEN r.due ELSE FALSE]
           next == [r EXCEPT !.base = value, !.used = @ + CounterDelta(r.base, value)]
<1>1. first \in TrafficRow /\ first.base = value
  BY CycleRow DEF TrafficRow
<1>2. ASSUME r.base # Absent PROVE next \in TrafficRow /\ next.base = value
  <2>1. r.base \in Nat /\ r.used \in Nat
    BY <1>2 DEF TrafficRow
  <2>2. CounterDelta(r.base, value) \in Nat
    BY <2>1, DeltaFacts
  <2>3. r.used + CounterDelta(r.base, value) \in Nat
    BY <2>1, <2>2
  <2> QED
    BY <2>3 DEF TrafficRow
<1>3. RecordOrdinary(r, value) = Settle(IF r.base = Absent \/ r.due THEN first ELSE next)
  BY DEF RecordOrdinary
<1> HIDE DEF first, next
<1> QED
  BY <1>1, <1>2, <1>3, SettledRow

\* A row is charged the rate for what was counted, on top of its cycle.
ChargedExactly(r, value, new) ==
  Scale * new.used + new.rem
    = (IF r.due THEN 0 ELSE Scale * r.used + r.rem)
      + rate * (IF r.base = Absent THEN 0 ELSE CounterDelta(r.base, value))

LEMMA ManagedRow ==
  ASSUME NEW r \in TrafficRow, NEW value \in Nat, rate \in Nat
  PROVE  LET new == RecordManaged(r, value) IN
         /\ new \in TrafficRow /\ (new.snap <=> EffectiveEnabled(new)) /\ new.base = value
         /\ ChargedExactly(r, value, new)
<1> DEFINE q == IF r.due THEN NewCycle(r) ELSE r
           charge == ApplyTrafficMultiplierDelta(CounterDelta(q.base, value), q.rem)
           next == IF q.base = Absent THEN [q EXCEPT !.base = value]
                   ELSE [q EXCEPT !.base = value, !.used = @ + charge[1], !.rem = charge[2]]
<1>1. /\ q \in TrafficRow /\ q.base = r.base
      /\ q.used = (IF r.due THEN 0 ELSE r.used) /\ q.rem = (IF r.due THEN 0 ELSE r.rem)
  BY CycleRow
<1>2. q.used \in Nat /\ q.rem \in Nat
  BY <1>1 DEF TrafficRow
<1>3. RecordManaged(r, value) = Settle(next)
  BY DEF RecordManaged
<1>4. Scale * q.used + q.rem = IF r.due THEN 0 ELSE Scale * r.used + r.rem
  BY <1>1, TrafficAssumption
<1> HIDE DEF q
<1>5. CASE r.base = Absent
  <2>1. next = [q EXCEPT !.base = value]
    BY <1>1, <1>5
  <2>2. next \in TrafficRow /\ next.base = value /\ next.used = q.used /\ next.rem = q.rem
    BY <1>1, <2>1 DEF TrafficRow
  <2>3. rate * 0 = 0 /\ Scale * q.used + q.rem \in Nat
    BY <1>2, TrafficAssumption
  <2> HIDE DEF next
  <2> QED
    BY <1>3, <1>4, <1>5, <2>2, <2>3, SettledRow DEF ChargedExactly
<1>6. CASE r.base # Absent
  <2>0. q.base \in Nat
    BY <1>1, <1>6 DEF TrafficRow
  <2>a. PICK delta \in Nat : delta = CounterDelta(q.base, value)
    BY <2>0, DeltaFacts
  <2>1. /\ charge[1] \in Nat /\ charge[2] \in Nat
        /\ Scale * charge[1] + charge[2] = rate * delta + q.rem
    BY <1>2, <2>a, ChargeIsExact
  <2>2. next = [q EXCEPT !.base = value, !.used = q.used + charge[1], !.rem = charge[2]]
    BY <1>1, <1>6 DEF TrafficRow
  <2> HIDE DEF charge
  <2>b. PICK sum \in Nat : sum = q.used + charge[1]
    BY <1>2, <2>1
  <2>3. /\ next \in TrafficRow /\ next.base = value
        /\ next.used = q.used + charge[1] /\ next.rem = charge[2]
    <3>1. next = [q EXCEPT !.base = value, !.used = sum, !.rem = charge[2]]
      BY <2>2, <2>b
    <3> HIDE DEF next
    <3>2. next \in TrafficRow /\ next.base = value /\ next.used = sum /\ next.rem = charge[2]
      BY <1>1, <2>1, <3>1 DEF TrafficRow
    <3> QED
      BY <2>b, <3>2
  <2>4. Scale * (q.used + charge[1]) = Scale * q.used + Scale * charge[1]
    BY <1>2, <2>1, TrafficAssumption
  <2>5. Scale * q.used \in Nat /\ Scale * charge[1] \in Nat /\ rate * delta \in Nat
    BY <1>2, <2>1, TrafficAssumption
  <2> HIDE DEF next
  <2>6. Scale * next.used + next.rem = (Scale * q.used + q.rem) + rate * delta
    BY <1>2, <2>1, <2>3, <2>4, <2>5
  <2>7. delta = CounterDelta(r.base, value)
    BY <1>1, <2>a
  <2> QED
    BY <1>3, <1>4, <1>6, <2>3, <2>6, <2>7, SettledRow DEF ChargedExactly
<1> QED
  BY <1>5, <1>6

\* A transaction leaves the Server told of the switches.
LEMMA CommitTells ==
  ASSUME desired = Enabled(row), NEW rows, NEW bump, Commit(rows, bump)
  PROVE  desired' = Enabled(row)' /\ row' = rows
  BY DEF Commit, Enabled

\* Steps that carry, report and count nothing.
LEMMA KeepCover ==
  ASSUME TrafficInv, wire' \subseteq wire, last' = last, overtaken' = overtaken,
         UNCHANGED <<counter, uncounted>>,
         \A c \in Clients : LastSeen(c)' \in {LastSeen(c), Absent}
  PROVE  CoverInv'
<1>1. PICK due \in [wire \X Clients -> Int] : \A c \in Clients \ overtaken : Covered(due, c)
  BY DEF TrafficInv, CoverInv
<1>l. PICK left : left = [x \in wire' \X Clients |-> due[x]]
  OBVIOUS
<1>2. left \in [wire' \X Clients -> Int]
  BY <1>l
<1>3. ASSUME NEW c \in Clients \ overtaken PROVE Covered(left, c)'
  <2>1. Covered(due, c)
    BY <1>1, <1>3
  <2>2. \A m \in Pending(c)' : m \in Pending(c) /\ left[<<m, c>>] = due[<<m, c>>]
    BY <1>l DEF Pending
  <2>3. \A m \in Pending(c)' : due[<<m, c>>] \in Int
    BY <2>2 DEF Pending
  <2>4. \A v : Growth(LastSeen(c)', v) = Growth(LastSeen(c), v) \/ Growth(LastSeen(c)', v) = 0
    BY DEF Growth
  <2> QED
    BY <2>1, <2>2, <2>3, <2>4 DEF Covered
<1> QED
  BY <1>2, <1>3 DEF CoverInv

\* The same reports, with the same reasons, when only the counters of Xray move.
LEMMA MoveCounters ==
  ASSUME TrafficInv, UNCHANGED <<row, wire, last, overtaken>>,
         counter' \in [Clients -> Nat \cup {Absent}], uncounted' \in [Clients -> Int],
         \A c \in Clients :
            \/ counter'[c] \in {0, Absent} /\ uncounted'[c] = uncounted[c]
            \/ counter'[c] = counter[c] /\ uncounted'[c] = uncounted[c]
            \/ /\ counter[c] # Absent /\ counter'[c] = counter[c] + 1
               /\ uncounted'[c] = uncounted[c] + 1
  PROVE  CoverInv'
<1>0. TrafficType
  BY DEF TrafficInv
<1>1. PICK due \in [wire \X Clients -> Int] : \A c \in Clients \ overtaken : Covered(due, c)
  BY DEF TrafficInv, CoverInv
<1>2. ASSUME NEW c \in Clients \ overtaken PROVE Covered(due, c)'
  <2>1. Covered(due, c)
    BY <1>1
  <2>2. Pending(c)' = Pending(c) /\ LastSeen(c)' = LastSeen(c)
    BY DEF Pending, LastSeen
  <2>3. LastSeen(c) \in Nat \cup {Absent} /\ uncounted[c] \in Int /\ uncounted'[c] \in Int
    BY <1>0 DEF LastSeen, TrafficType, TrafficRow
  <2>4. \A m \in Pending(c) : due[<<m, c>>] \in Int /\ m.counters[c] \in Nat
    BY <1>0 DEF Pending, TrafficType, Reports
  <2>5. /\ \A v \in Nat : Growth(LastSeen(c), v) \in Nat
        /\ \A v \in Nat : Growth(LastSeen(c), v + 1) <= Growth(LastSeen(c), v) + 1
        /\ Growth(LastSeen(c), 0) = 0
    <3>1. CASE LastSeen(c) = Absent
      BY <3>1 DEF Growth
    <3>2. CASE LastSeen(c) # Absent
      <4>1. LastSeen(c) \in Nat /\ \A v : Growth(LastSeen(c), v) = CounterDelta(LastSeen(c), v)
        BY <2>3, <3>2 DEF Growth
      <4> QED
        BY <4>1, DeltaFacts
    <3> QED
      BY <3>1, <3>2
  <2>6. \A a \in Nat : /\ CounterDelta(a, 0) = 0
                       /\ \A v \in Nat : /\ CounterDelta(a, v) \in Nat
                                         /\ CounterDelta(a, v + 1) <= CounterDelta(a, v) + 1
    BY DeltaFacts
  <2>7. uncounted'[c] >= uncounted[c]
    BY <2>3
  <2>8. uncounted'[c] >= 0 /\ \A m \in Pending(c) : uncounted'[c] >= due[<<m, c>>]
    BY <2>1, <2>3, <2>4, <2>7 DEF Covered
  <2>9. ASSUME counter'[c] # Absent
        PROVE  /\ uncounted'[c] >= Growth(LastSeen(c), counter'[c])
               /\ \A m \in Pending(c) :
                    uncounted'[c] >= due[<<m, c>>] + CounterDelta(m.counters[c], counter'[c])
    <3>1. CASE counter'[c] = 0
      <4>1. uncounted'[c] >= Growth(LastSeen(c), counter'[c])
        BY <2>5, <2>8, <3>1
      <4>2. ASSUME NEW m \in Pending(c)
            PROVE  uncounted'[c] >= due[<<m, c>>] + CounterDelta(m.counters[c], counter'[c])
        <5>1. CounterDelta(m.counters[c], 0) = 0 /\ due[<<m, c>>] \in Int
          BY <2>4, <2>6
        <5> QED
          BY <2>8, <3>1, <5>1
      <4> QED
        BY <4>1, <4>2
    <3>2. CASE counter'[c] = counter[c] /\ uncounted'[c] = uncounted[c]
      BY <2>1, <2>9, <3>2 DEF Covered
    <3>3. CASE /\ counter[c] # Absent /\ counter'[c] = counter[c] + 1
               /\ uncounted'[c] = uncounted[c] + 1
      <4>1. counter[c] \in Nat
        BY <1>0, <3>3 DEF TrafficType
      <4>2. uncounted[c] >= Growth(LastSeen(c), counter[c])
        BY <2>1, <3>3 DEF Covered
      <4>3. \A m \in Pending(c) :
              uncounted[c] >= due[<<m, c>>] + CounterDelta(m.counters[c], counter[c])
        BY <2>1, <3>3 DEF Covered
      <4>4. uncounted'[c] >= Growth(LastSeen(c), counter'[c])
        BY <2>3, <2>5, <3>3, <4>1, <4>2
      <4>5. ASSUME NEW m \in Pending(c)
            PROVE  uncounted'[c] >= due[<<m, c>>] + CounterDelta(m.counters[c], counter'[c])
        <5>1. /\ CounterDelta(m.counters[c], counter[c]) \in Nat
              /\ CounterDelta(m.counters[c], counter[c] + 1)
                   <= CounterDelta(m.counters[c], counter[c]) + 1
          BY <2>4, <4>1, DeltaFacts
        <5>a. counter[c] + 1 \in Nat
          BY <4>1
        <5>2. CounterDelta(m.counters[c], counter[c] + 1) \in Nat
          BY <2>4, <5>a, DeltaFacts
        <5> QED
          BY <2>3, <2>4, <3>3, <4>3, <5>1, <5>2
      <4> QED
        BY <4>4, <4>5
    <3> QED
      BY <2>9, <3>1, <3>2, <3>3
  <2> QED
    BY <2>1, <2>2, <2>8, <2>9 DEF Covered
<1> QED
  BY <1>1, <1>2 DEF CoverInv

LEMMA NextCarry == ASSUME TrafficInv, NEW c \in Clients, Carry(c) PROVE TrafficInv'
<1>0. TrafficType /\ NumbersInv /\ SwitchInv /\ OwedInv
  BY DEF TrafficInv
<1>1. /\ counter[c] # Absent /\ counter' = [counter EXCEPT ![c] = @ + 1]
      /\ uncounted' = [uncounted EXCEPT ![c] = @ + 1]
      /\ UNCHANGED <<row, desired, rate, wire, sent, last, owed, overtaken, unnoticed>>
  BY DEF Carry
<1>2. TrafficType'
  BY <1>0, <1>1 DEF TrafficType
<1>3. CoverInv'
  <2>1. \A d \in Clients :
            \/ counter'[d] = counter[d] /\ uncounted'[d] = uncounted[d]
            \/ /\ counter[d] # Absent /\ counter'[d] = counter[d] + 1
               /\ uncounted'[d] = uncounted[d] + 1
    BY <1>0, <1>1 DEF TrafficType
  <2> QED
    BY <1>1, <1>2, <2>1, MoveCounters DEF TrafficType
<1> QED
  BY <1>0, <1>1, <1>2, <1>3 DEF TrafficInv, NumbersInv, SwitchInv, OwedInv, Enabled

LEMMA NextRestartXray == ASSUME TrafficInv, RestartXray PROVE TrafficInv'
<1>0. TrafficType /\ NumbersInv /\ SwitchInv /\ OwedInv
  BY DEF TrafficInv
<1>1. /\ counter' = [c \in Clients |-> IF c \in desired THEN 0 ELSE Absent]
      /\ UNCHANGED <<row, desired, rate, wire, sent, last, uncounted, owed, overtaken, unnoticed>>
  BY DEF RestartXray
<1>2. TrafficType'
  BY <1>0, <1>1 DEF TrafficType
<1>3. CoverInv'
  <2>1. \A d \in Clients : counter'[d] \in {0, Absent} /\ uncounted'[d] = uncounted[d]
    BY <1>1
  <2> QED
    BY <1>1, <1>2, <2>1, MoveCounters DEF TrafficType
<1> QED
  BY <1>0, <1>1, <1>2, <1>3 DEF TrafficInv, NumbersInv, SwitchInv, OwedInv, Enabled

\* A new report covers all the traffic there has been.
LEMMA NextReport == ASSUME TrafficInv, Report PROVE TrafficInv'
<1>0. TrafficType /\ NumbersInv /\ SwitchInv /\ OwedInv
  BY DEF TrafficInv
<1>r. PICK running : running = {c \in Clients : counter[c] # Absent}
  OBVIOUS
<1>m. PICK new : new = [no |-> sent', counters |-> [c \in running |-> counter[c]]]
  OBVIOUS
<1>1. /\ running # {} /\ sent' = sent + Cardinality(running) /\ wire' = wire \cup {new}
      /\ UNCHANGED <<row, counter, desired, rate, last, uncounted, owed, overtaken, unnoticed>>
  BY <1>r, <1>m DEF Report
<1>2. Cardinality(running) \in Nat \ {0}
  BY <1>1, <1>r, FS_Subset, FS_EmptySet, FS_CardinalityType, TrafficAssumption
<1>3. sent' \in Nat /\ sent' > sent
  BY <1>0, <1>1, <1>2 DEF TrafficType
<1>4. /\ new.no = sent' /\ DOMAIN new.counters = running
      /\ \A c \in running : new.counters[c] = counter[c] /\ counter[c] \in Nat
  BY <1>0, <1>m, <1>r DEF TrafficType
<1>5. new \in Reports
  <2>1. [c \in running |-> counter[c]] \in [running -> Nat] /\ running \subseteq Clients
    BY <1>4, <1>r
  <2> QED
    BY <1>3, <1>m, <2>1 DEF Reports
<1>6. TrafficType'
  BY <1>0, <1>1, <1>3, <1>5 DEF TrafficType
<1>w. \A m \in wire : m.no \in Nat /\ m.no < new.no
  BY <1>0, <1>3, <1>4 DEF TrafficType, NumbersInv, Reports
<1>7. NumbersInv'
  <2>1. last' <= sent'
    BY <1>0, <1>1, <1>3 DEF TrafficType, NumbersInv
  <2>2. \A m \in wire' : m.no <= sent' /\ m.no # last'
    BY <1>0, <1>1, <1>3, <1>4, <1>w DEF TrafficType, NumbersInv
  <2>3. \A m, n \in wire' : m.no = n.no => m = n
    BY <1>0, <1>1, <1>3, <1>4, <1>w DEF TrafficType, NumbersInv
  <2> QED
    BY <2>1, <2>2, <2>3 DEF NumbersInv
<1>8. CoverInv'
  <2>1. PICK due \in [wire \X Clients -> Int] : \A c \in Clients \ overtaken : Covered(due, c)
    BY DEF TrafficInv, CoverInv
  <2>l. PICK more : more = [x \in wire' \X Clients |-> IF x[1] = new THEN uncounted[x[2]] ELSE due[x]]
    OBVIOUS
  <2>2. more \in [wire' \X Clients -> Int]
    <3>1. \A x \in wire' \X Clients : x[1] # new => x \in wire \X Clients
      BY <1>1
    <3> QED
      BY <1>0, <2>l, <3>1 DEF TrafficType
  <2>3. ASSUME NEW c \in Clients \ overtaken PROVE Covered(more, c)'
    <3>1. Covered(due, c) /\ uncounted[c] \in Int
      BY <1>0, <2>1 DEF TrafficType
    <3>2. LastSeen(c)' = LastSeen(c)
      BY <1>1 DEF LastSeen
    <3>3. \A m \in Pending(c)' : m \in Pending(c) \/ (m = new /\ c \in running)
      BY <1>1, <1>4 DEF Pending
    <3>4. \A m \in Pending(c) : /\ more[<<m, c>>] = due[<<m, c>>] /\ m \in wire /\ m # new
                                /\ due[<<m, c>>] \in Int
      BY <1>1, <1>w, <2>l DEF Pending
    <3>5. c \in running => more[<<new, c>>] = uncounted[c]
      BY <1>1, <2>l
    <3>6. c \in running => /\ new.counters[c] = counter[c] /\ counter[c] # Absent
                           /\ counter[c] \in Nat /\ CounterDelta(counter[c], counter[c]) = 0
      BY <1>4, <1>r, DeltaFacts
    <3>7. ASSUME NEW m \in Pending(c)'
          PROVE  /\ more[<<m, c>>] >= Growth(LastSeen(c), m.counters[c]) /\ more[<<m, c>>] >= 0
                 /\ uncounted[c] >= more[<<m, c>>]
                 /\ counter[c] # Absent =>
                      uncounted[c] >= more[<<m, c>>] + CounterDelta(m.counters[c], counter[c])
      <4>1. CASE m \in Pending(c)
        BY <3>1, <3>4, <4>1 DEF Covered
      <4>2. CASE m = new /\ c \in running
        BY <3>1, <3>5, <3>6, <4>2 DEF Covered
      <4> QED
        BY <3>3, <4>1, <4>2
    <3>8. ASSUME NEW m \in Pending(c)', NEW n \in Pending(c)', m.no < n.no
          PROVE  more[<<n, c>>] >= more[<<m, c>>] + CounterDelta(m.counters[c], n.counters[c])
      <4>1. m \in Pending(c)
        <5>1. n.no <= new.no /\ new.no \in Nat /\ n.no \in Nat
          BY <1>3, <1>4, <1>w, <3>3 DEF Pending
        <5> QED
          BY <3>3, <3>8, <5>1
      <4>2. CASE n \in Pending(c)
        BY <3>1, <3>4, <3>8, <4>1, <4>2 DEF Covered
      <4>3. CASE n = new /\ c \in running
        BY <3>1, <3>4, <3>5, <3>6, <4>1, <4>3 DEF Covered
      <4> QED
        BY <3>3, <4>2, <4>3
    <3> QED
      BY <1>1, <3>1, <3>2, <3>7, <3>8 DEF Covered
  <2> QED
    BY <1>1, <2>2, <2>3 DEF CoverInv
<1> QED
  BY <1>0, <1>1, <1>6, <1>7, <1>8 DEF TrafficInv, SwitchInv, OwedInv, Enabled

\* The rows after a report.
LEMMA RecordedRows ==
  ASSUME TrafficInv, NEW m \in wire, RecordAgentClientTraffic(m),
         \A c \in DOMAIN m.counters : row[c] # Absent
  PROVE  /\ \A c \in DOMAIN m.counters :
              /\ c \in Clients /\ m.counters[c] \in Nat /\ row[c] \in TrafficRow
              /\ row'[c] \in TrafficRow /\ (row'[c].snap <=> EffectiveEnabled(row'[c]))
              /\ row'[c].base = m.counters[c]
              /\ c \in Managed => row'[c] = RecordManaged(row[c], m.counters[c])
         /\ \A c \in Clients \ DOMAIN m.counters : row'[c] = row[c]
         /\ row' \in [Clients -> TrafficRow \cup {Absent}]
         /\ desired' = Enabled(row)'
<1>0. TrafficType /\ SwitchInv /\ rate \in Nat
  BY TrafficAssumption DEF TrafficInv, TrafficType
<1>1. m.counters \in UNION {[C -> Nat] : C \in SUBSET Clients}
  BY <1>0 DEF TrafficType, Reports
<1>c. PICK C : C = DOMAIN m.counters
  OBVIOUS
<1>2. C \subseteq Clients /\ \A c \in C : m.counters[c] \in Nat
  BY <1>1, <1>c
<1>3. \A c \in C : row[c] \in TrafficRow
  BY <1>0, <1>2, <1>c DEF TrafficType
<1>4. /\ row' = [c \in Clients |->
              IF c \notin C THEN row[c]
              ELSE IF c \in Managed THEN RecordManaged(row[c], m.counters[c])
              ELSE RecordOrdinary(row[c], m.counters[c])]
      /\ desired' = Enabled(row)'
  BY <1>0, <1>c, CommitTells DEF RecordAgentClientTraffic, SwitchInv
<1>5. ASSUME NEW c \in C
      PROVE  /\ row'[c] \in TrafficRow /\ (row'[c].snap <=> EffectiveEnabled(row'[c]))
             /\ row'[c].base = m.counters[c]
             /\ c \in Managed => row'[c] = RecordManaged(row[c], m.counters[c])
  <2>1. row[c] \in TrafficRow /\ m.counters[c] \in Nat /\ c \in Clients
    BY <1>2, <1>3
  <2>2. CASE c \in Managed
    <3>1. row'[c] = RecordManaged(row[c], m.counters[c])
      BY <1>4, <2>1, <2>2
    <3> QED
      BY <1>0, <2>1, <3>1, ManagedRow
  <2>3. CASE c \notin Managed
    <3>1. row'[c] = RecordOrdinary(row[c], m.counters[c])
      BY <1>4, <2>1, <2>3
    <3> QED
      BY <2>1, <2>3, <3>1, OrdinaryRow
  <2> QED
    BY <2>2, <2>3
<1>6. \A c \in Clients \ C : row'[c] = row[c]
  BY <1>4
<1>7. row' \in [Clients -> TrafficRow \cup {Absent}]
  <2>1. row' = [c \in Clients |-> row'[c]]
    BY <1>4
  <2>2. \A c \in Clients : row'[c] \in TrafficRow \cup {Absent}
    BY <1>0, <1>5, <1>6 DEF TrafficType
  <2> QED
    BY <2>1, <2>2
<1> QED
  BY <1>2, <1>3, <1>4, <1>5, <1>6, <1>7, <1>c

\* A report that is handled counts what it covers, and no more.
LEMMA NextRecord == ASSUME TrafficInv, NEW m \in wire, RecordAgentClientTraffic(m) PROVE TrafficInv'
<1>0. TrafficType /\ NumbersInv /\ SwitchInv /\ OwedInv /\ rate \in Nat
  BY TrafficAssumption DEF TrafficInv, TrafficType
<1>c. PICK C : C = DOMAIN m.counters
  OBVIOUS
<1>a. wire' = wire \ {m} /\ UNCHANGED <<counter, rate, sent, carried>>
  BY DEF RecordAgentClientTraffic
<1>1. CASE \E c \in C : row[c] = Absent
  <2>0. UNCHANGED <<last, overtaken, unnoticed, uncounted, owed>>
    BY <1>1, <1>c DEF RecordAgentClientTraffic
  <2>1. row' = [c \in Clients |-> row[c]] /\ desired' = Enabled(row)'
    BY <1>0, <1>1, <1>c, CommitTells DEF RecordAgentClientTraffic, SwitchInv
  <2>2. row' = row
    BY <1>0, <2>1 DEF TrafficType
  <2>3. CoverInv'
    BY <1>a, <2>0, <2>2, KeepCover DEF LastSeen
  <2>4. TrafficType' /\ NumbersInv'
    BY <1>0, <1>a, <2>0, <2>2 DEF TrafficType, NumbersInv
  <2>5. SwitchInv' /\ OwedInv'
    BY <1>0, <2>0, <2>1, <2>2 DEF SwitchInv, OwedInv
  <2> QED
    BY <2>3, <2>4, <2>5 DEF TrafficInv
<1>2. CASE \A c \in C : row[c] # Absent
  <2>0. /\ \A c \in C :
              /\ c \in Clients /\ m.counters[c] \in Nat /\ row[c] \in TrafficRow
              /\ row'[c] \in TrafficRow /\ (row'[c].snap <=> EffectiveEnabled(row'[c]))
              /\ row'[c].base = m.counters[c]
              /\ c \in Managed => row'[c] = RecordManaged(row[c], m.counters[c])
        /\ \A c \in Clients \ C : row'[c] = row[c]
        /\ row' \in [Clients -> TrafficRow \cup {Absent}]
        /\ desired' = Enabled(row)'
    BY <1>2, <1>c, RecordedRows
  <2>1. /\ last' = Max({last, m.no})
        /\ overtaken' = IF m.no < last THEN overtaken \cup C ELSE overtaken
        /\ unnoticed' = unnoticed \ C
        /\ uncounted' = [c \in Clients |->
              IF c \in C THEN uncounted[c] - Counted(c, m.counters[c]) ELSE uncounted[c]]
        /\ owed' = [c \in Clients |-> IF c \in C \cap Managed
              THEN (IF row[c].due THEN 0 ELSE owed[c]) + rate * Counted(c, m.counters[c]) ELSE owed[c]]
    BY <1>2, <1>c DEF RecordAgentClientTraffic
  <2>2. last \in Nat /\ m.no \in Nat /\ m.no <= sent /\ last <= sent /\ m.no # last
    BY <1>0 DEF TrafficType, NumbersInv, Reports
  <2>3. /\ last' \in {last, m.no} /\ last' >= last /\ last' >= m.no
    <3>1. last' = Max({last, m.no})
      BY <2>1
    <3> QED
      BY <2>2, <3>1, LargerOfTwo
  <2>4. \A c \in C : Counted(c, m.counters[c]) \in Nat
    <3>1. \A c \in C : row[c].base # Absent => row[c].base \in Nat
      BY <2>0 DEF TrafficRow
    <3> QED
      BY <2>0, <3>1, DeltaFacts DEF Counted
  <2>5. TrafficType'
    <3>1. uncounted' \in [Clients -> Int]
      BY <1>0, <2>1, <2>4 DEF TrafficType
    <3>2. \A c \in C : rate * Counted(c, m.counters[c]) \in Nat
      BY <1>0, <2>4
    <3>3. owed' \in [Clients -> Nat]
      <4>1. \A c \in Clients : owed[c] \in Nat
        BY <1>0 DEF TrafficType
      <4> QED
        BY <2>1, <3>2, <4>1
    <3> QED
      BY <1>0, <1>a, <2>0, <2>2, <2>3, <3>1, <3>3 DEF TrafficType
  <2>6. NumbersInv'
    BY <1>0, <1>a, <2>2, <2>3 DEF NumbersInv
  <2>7. SwitchInv'
    BY <1>0, <2>0, <2>1 DEF SwitchInv
  <2>8. OwedInv'
    <3> SUFFICES ASSUME NEW c \in Managed, row'[c] # Absent
                 PROVE  Scale * row'[c].used + row'[c].rem = owed'[c]
      BY DEF OwedInv
    <3>0. c \in Clients /\ c \notin Ordinary
      BY TrafficAssumption DEF Clients
    <3>1. CASE c \in C
      <4>1. owed'[c] = (IF row[c].due THEN 0 ELSE owed[c]) + rate * Counted(c, m.counters[c])
        BY <2>1, <3>0, <3>1
      <4>2. Counted(c, m.counters[c])
              = IF row[c].base = Absent THEN 0 ELSE CounterDelta(row[c].base, m.counters[c])
        BY <3>0 DEF Counted
      <4>3. Scale * row[c].used + row[c].rem = owed[c]
        BY <1>0, <1>2, <3>1 DEF OwedInv
      <4>4. Scale * row'[c].used + row'[c].rem
              = (IF row[c].due THEN 0 ELSE Scale * row[c].used + row[c].rem)
                + rate * (IF row[c].base = Absent THEN 0 ELSE CounterDelta(row[c].base, m.counters[c]))
        <5>1. /\ row[c] \in TrafficRow /\ m.counters[c] \in Nat /\ rate \in Nat
              /\ row'[c] = RecordManaged(row[c], m.counters[c])
          BY <1>0, <2>0, <3>1
        <5>2. ChargedExactly(row[c], m.counters[c], row'[c])
          BY <5>1, ManagedRow
        <5> QED
          BY <5>2 DEF ChargedExactly
      <4> QED
        BY <4>1, <4>2, <4>3, <4>4
    <3>2. CASE c \notin C
      <4>1. row'[c] = row[c] /\ owed'[c] = owed[c]
        BY <2>0, <2>1, <3>0, <3>2
      <4> QED
        BY <1>0, <4>1 DEF OwedInv
    <3> QED
      BY <3>1, <3>2
  <2>9. CoverInv'
    <3>1. PICK due \in [wire \X Clients -> Int] : \A c \in Clients \ overtaken : Covered(due, c)
      BY DEF TrafficInv, CoverInv
    <3>l. PICK left : left = [x \in wire' \X Clients |->
                               due[x] - (IF x[2] \in C THEN Counted(x[2], m.counters[x[2]]) ELSE 0)]
      OBVIOUS
    <3>2. left \in [wire' \X Clients -> Int]
      <4>1. \A x \in wire' \X Clients : x \in wire \X Clients /\ due[x] \in Int
        BY <1>a
      <4>2. \A x \in wire' \X Clients :
              (IF x[2] \in C THEN Counted(x[2], m.counters[x[2]]) ELSE 0) \in Int
        BY <2>4
      <4> QED
        BY <3>l, <4>1, <4>2
    <3>3. ASSUME NEW c \in Clients \ overtaken' PROVE Covered(left, c)'
      <4>0. Covered(due, c) /\ uncounted[c] \in Int
        BY <1>0, <2>1, <3>1 DEF TrafficType
      <4>p. \A n \in Pending(c)' : n \in Pending(c) /\ n # m /\ n \in wire'
                                   /\ due[<<n, c>>] \in Int /\ n.no \in Nat
        BY <1>0, <1>a, <2>2, <2>3 DEF Pending, TrafficType, Reports
      <4>q. \A n \in Pending(c) : n.counters[c] \in Nat
        BY <1>0 DEF Pending, TrafficType, Reports
      <4>1. CASE c \notin C
        <5>1. LastSeen(c)' = LastSeen(c) /\ uncounted'[c] = uncounted[c]
          BY <2>0, <2>1, <4>1 DEF LastSeen
        <5>2. \A n \in Pending(c)' : left[<<n, c>>] = due[<<n, c>>]
          BY <3>l, <4>1, <4>p
        <5> QED
          BY <1>a, <4>0, <4>p, <5>1, <5>2 DEF Covered
      <4>2. CASE c \in C
        <5>0. m.no > last /\ last' = m.no /\ m \in Pending(c)
          BY <1>c, <2>1, <2>2, <2>3, <3>3, <4>2 DEF Pending
        <5>k. PICK counted \in Nat : counted = Counted(c, m.counters[c])
          BY <2>4, <4>2
        <5>1. /\ uncounted'[c] = uncounted[c] - counted
              /\ \A n \in Pending(c)' : left[<<n, c>>] = due[<<n, c>>] - counted
          BY <2>1, <3>l, <4>2, <4>p, <5>k
        <5>2. LastSeen(c)' = m.counters[c] /\ LastSeen(c)' # Absent /\ m.counters[c] \in Nat
          <6>1. row'[c] # Absent /\ row'[c].base = m.counters[c] /\ m.counters[c] \in Nat
            BY <2>0, <4>2, TrafficAssumption
          <6> QED
            BY <6>1, TrafficAssumption DEF LastSeen
        <5>g. \A v : Growth(LastSeen(c)', v) = CounterDelta(m.counters[c], v)
          BY <5>2 DEF Growth
        <5>3. due[<<m, c>>] \in Int /\ due[<<m, c>>] >= counted
          <6>1. Counted(c, m.counters[c]) \in {0, Growth(LastSeen(c), m.counters[c])}
            BY <1>2, <4>2 DEF Counted, Growth, LastSeen
          <6> QED
            BY <4>0, <5>0, <5>k, <6>1 DEF Covered, Pending
        <5>d. \A n \in Pending(c)' : CounterDelta(m.counters[c], n.counters[c]) \in Nat
          <6>1. \A n \in Pending(c)' : n.counters[c] \in Nat
            BY <4>p, <4>q
          <6> QED
            BY <5>2, <6>1, DeltaFacts
        <5>e. counter[c] # Absent => CounterDelta(m.counters[c], counter[c]) \in Nat
          BY <1>0, <5>2, DeltaFacts DEF TrafficType
        <5>4. \A n \in Pending(c)' :
                due[<<n, c>>] >= due[<<m, c>>] + CounterDelta(m.counters[c], n.counters[c])
          <6>1. \A n \in Pending(c)' : m.no < n.no
            BY <5>0, <2>2, <4>p DEF Pending
          <6> QED
            BY <4>0, <4>p, <5>0, <6>1 DEF Covered
        <5>5. uncounted'[c] >= 0
          BY <4>0, <5>0, <5>1, <5>3 DEF Covered
        <5>6. counter[c] # Absent => uncounted'[c] >= CounterDelta(m.counters[c], counter[c])
          <6>1. counter[c] # Absent =>
                  uncounted[c] >= due[<<m, c>>] + CounterDelta(m.counters[c], counter[c])
            BY <4>0, <5>0 DEF Covered
          <6> QED
            BY <4>0, <5>1, <5>3, <5>e, <6>1
        <5>7. ASSUME NEW n \in Pending(c)'
              PROVE  /\ left[<<n, c>>] >= CounterDelta(m.counters[c], n.counters[c])
                     /\ left[<<n, c>>] >= 0 /\ uncounted'[c] >= left[<<n, c>>]
                     /\ counter[c] # Absent =>
                          uncounted'[c] >= left[<<n, c>>] + CounterDelta(n.counters[c], counter[c])
          <6>1. /\ uncounted[c] >= due[<<n, c>>]
                /\ counter[c] # Absent =>
                      uncounted[c] >= due[<<n, c>>] + CounterDelta(n.counters[c], counter[c])
            BY <4>0, <4>p DEF Covered
          <6>2. left[<<n, c>>] = due[<<n, c>>] - counted /\ due[<<n, c>>] \in Int
            BY <4>p, <5>1
          <6>3. due[<<n, c>>] >= due[<<m, c>>] + CounterDelta(m.counters[c], n.counters[c])
                /\ CounterDelta(m.counters[c], n.counters[c]) \in Nat
            BY <5>4, <5>d
          <6>4. counter[c] # Absent => CounterDelta(n.counters[c], counter[c]) \in Nat
            <7>1. n.counters[c] \in Nat
              BY <4>p, <4>q
            <7> QED
              BY <1>0, <7>1, DeltaFacts DEF TrafficType
          <6> QED
            BY <4>0, <5>1, <5>3, <6>1, <6>2, <6>3, <6>4
        <5>8. ASSUME NEW n \in Pending(c)', NEW o \in Pending(c)', n.no < o.no
              PROVE  left[<<o, c>>] >= left[<<n, c>>] + CounterDelta(n.counters[c], o.counters[c])
          <6>1. due[<<o, c>>] >= due[<<n, c>>] + CounterDelta(n.counters[c], o.counters[c])
            BY <4>0, <4>p, <5>8 DEF Covered
          <6>2. n.counters[c] \in Nat /\ o.counters[c] \in Nat
            BY <4>p, <4>q
          <6>3. CounterDelta(n.counters[c], o.counters[c]) \in Nat
            BY <6>2, DeltaFacts
          <6> QED
            BY <4>p, <5>1, <6>1, <6>3
        <5> QED
          BY <1>a, <5>5, <5>6, <5>7, <5>8, <5>g DEF Covered
      <4> QED
        BY <4>1, <4>2
    <3> QED
      BY <3>2, <3>3 DEF CoverInv
  <2> QED
    BY <2>5, <2>6, <2>7, <2>8, <2>9 DEF TrafficInv
<1> QED
  BY <1>1, <1>2

\* The other operations of the Panel keep the last counter of a client that stays.
LEMMA PanelKeeps ==
  ASSUME TrafficInv, row' \in [Clients -> TrafficRow \cup {Absent}], SwitchInv', OwedInv',
         owed' \in [Clients -> Nat],
         \A c \in Clients : row'[c] = Absent \/ (row[c] # Absent /\ row'[c].base = row[c].base),
         UNCHANGED <<counter, wire, sent, last, uncounted, overtaken>>, rate' \in Rates
  PROVE  TrafficInv'
<1>0. TrafficType /\ NumbersInv
  BY DEF TrafficInv
<1>1. \A c \in Clients : LastSeen(c)' \in {LastSeen(c), Absent}
  BY DEF LastSeen
<1>2. CoverInv'
  BY <1>1, KeepCover
<1> QED
  BY <1>0, <1>2 DEF TrafficInv, TrafficType, NumbersInv

\* A fetch settles every client.
LEMMA NextFetch == ASSUME TrafficInv, FetchDesiredState PROVE TrafficInv'
<1>0. TrafficType /\ SwitchInv /\ OwedInv
  BY DEF TrafficInv
<1>1. /\ row' = [c \in Clients |->
          IF row[c] = Absent THEN Absent
          ELSE Settle(IF row[c].due /\ (c \in Managed \/ row[c].base # Absent)
                      THEN NewCycle(row[c]) ELSE row[c])]
      /\ desired' = Enabled(row)'
      /\ owed' = [c \in Clients |-> IF row[c] # Absent /\ row[c].due THEN 0 ELSE owed[c]]
      /\ unnoticed' = {}
      /\ UNCHANGED <<counter, rate, wire, sent, last, uncounted, overtaken>>
  BY <1>0, CommitTells DEF FetchDesiredState, SwitchInv
<1>2. ASSUME NEW c \in Clients, row[c] # Absent
      PROVE  /\ row'[c] \in TrafficRow /\ (row'[c].snap <=> EffectiveEnabled(row'[c]))
             /\ row'[c].base = row[c].base
             /\ c \in Managed => /\ row'[c].used = (IF row[c].due THEN 0 ELSE row[c].used)
                                 /\ row'[c].rem = (IF row[c].due THEN 0 ELSE row[c].rem)
  <2>1. row[c] \in TrafficRow
    BY <1>0, <1>2 DEF TrafficType
  <2>2. PICK r \in TrafficRow :
          /\ r = IF row[c].due /\ (c \in Managed \/ row[c].base # Absent)
                 THEN NewCycle(row[c]) ELSE row[c]
          /\ row'[c] = Settle(r)
    BY <1>1, <1>2, <2>1, CycleRow
  <2> QED
    BY <2>1, <2>2, SettledRow, CycleRow
<1>3. row' \in [Clients -> TrafficRow \cup {Absent}]
  <2>1. row' = [c \in Clients |-> row'[c]] /\ \A c \in Clients : row[c] = Absent => row'[c] = Absent
    BY <1>1
  <2>2. \A c \in Clients : row'[c] \in TrafficRow \cup {Absent}
    BY <1>2, <2>1
  <2> QED
    BY <2>1, <2>2
<1>4. SwitchInv'
  BY <1>1, <1>2 DEF SwitchInv
<1>5. OwedInv'
  <2> SUFFICES ASSUME NEW c \in Managed, row'[c] # Absent
               PROVE  Scale * row'[c].used + row'[c].rem = owed'[c]
    BY DEF OwedInv
  <2>1. c \in Clients /\ row[c] # Absent
    BY <1>1 DEF Clients
  <2>2. Scale * row[c].used + row[c].rem = owed[c]
    BY <1>0, <2>1 DEF OwedInv
  <2>3. CASE row[c].due
    <3>1. row'[c].used = 0 /\ row'[c].rem = 0 /\ owed'[c] = 0
      BY <1>1, <1>2, <2>1, <2>3
    <3> QED
      BY <3>1, TrafficAssumption
  <2>4. CASE ~row[c].due
    <3>1. row'[c].used = row[c].used /\ row'[c].rem = row[c].rem /\ owed'[c] = owed[c]
      BY <1>1, <1>2, <2>1, <2>4
    <3> QED
      BY <2>2, <3>1
  <2> QED
    BY <2>3, <2>4
<1>6. owed' \in [Clients -> Nat]
  BY <1>0, <1>1 DEF TrafficType
<1>7. \A c \in Clients : row'[c] = Absent \/ (row[c] # Absent /\ row'[c].base = row[c].base)
  BY <1>1, <1>2
<1> QED
  BY <1>0, <1>1, <1>3, <1>4, <1>5, <1>6, <1>7, PanelKeeps DEF TrafficType

\* A change of one client.
LEMMA OneClient ==
  ASSUME TrafficInv, NEW c \in Clients, row[c] # Absent, NEW new, NEW bump,
         Commit([row EXCEPT ![c] = new], bump),
         \/ new = Absent
         \/ new \in TrafficRow /\ (new.snap <=> EffectiveEnabled(new)) /\ new.base = row[c].base,
         UNCHANGED <<counter, rate, wire, sent, last, uncounted, overtaken>>,
         unnoticed' = unnoticed \ {c}, owed' \in [Clients -> Nat],
         \A d \in Clients : d # c => owed'[d] = owed[d],
         c \in Managed /\ new # Absent => Scale * new.used + new.rem = owed'[c]
  PROVE  TrafficInv'
<1>0. TrafficType /\ SwitchInv /\ OwedInv
  BY DEF TrafficInv
<1>1. row' = [row EXCEPT ![c] = new] /\ desired' = Enabled(row)'
  BY <1>0, CommitTells DEF SwitchInv
<1>2. row'[c] = new /\ \A d \in Clients : d # c => row'[d] = row[d]
  BY <1>0, <1>1 DEF TrafficType
<1>3. row' \in [Clients -> TrafficRow \cup {Absent}]
  BY <1>0, <1>1 DEF TrafficType
<1>4. SwitchInv'
  BY <1>0, <1>1, <1>2 DEF SwitchInv
<1>5. OwedInv'
  <2> SUFFICES ASSUME NEW d \in Managed, row'[d] # Absent
               PROVE  Scale * row'[d].used + row'[d].rem = owed'[d]
    BY DEF OwedInv
  <2>0. d \in Clients
    BY DEF Clients
  <2>1. CASE d = c
    BY <1>2, <2>1
  <2>2. CASE d # c
    <3>1. row'[d] = row[d] /\ owed'[d] = owed[d]
      BY <1>2, <2>0, <2>2
    <3> QED
      BY <1>0, <3>1 DEF OwedInv
  <2> QED
    BY <2>1, <2>2
<1>6. \A d \in Clients : row'[d] = Absent \/ (row[d] # Absent /\ row'[d].base = row[d].base)
  BY <1>2
<1> QED
  BY <1>0, <1>3, <1>4, <1>5, <1>6, PanelKeeps DEF TrafficType

LEMMA NextUpdateClient ==
  ASSUME TrafficInv, NEW c \in Clients, NEW on \in BOOLEAN, NEW quota \in Quotas,
         UpdateClient(c, on, quota)
  PROVE  TrafficInv'
<1>0. TrafficType
  BY DEF TrafficInv
<1>1. /\ c \in Ordinary /\ row[c] # Absent /\ unnoticed' = unnoticed \ {c}
      /\ UNCHANGED <<counter, rate, wire, sent, last, uncounted, owed, overtaken>>
  BY DEF UpdateClient
<1>2. PICK expired \in {FALSE, row[c].expired} :
        Commit([row EXCEPT ![c] =
                  Settle([@ EXCEPT !.on = on, !.quota = quota, !.expired = expired])], TRUE)
  BY DEF UpdateClient
<1>3. row[c] \in TrafficRow
  BY <1>0, <1>1 DEF TrafficType
<1> DEFINE edited == [row[c] EXCEPT !.on = on, !.quota = quota, !.expired = expired]
<1>4. edited \in TrafficRow /\ edited.base = row[c].base
  BY <1>3 DEF TrafficRow
<1>5. Commit([row EXCEPT ![c] = Settle(edited)], TRUE)
  BY <1>0, <1>2 DEF TrafficType
<1> HIDE DEF edited
<1>6. c \notin Managed
  BY <1>1, TrafficAssumption
<1>7. owed' \in [Clients -> Nat]
  BY <1>0, <1>1 DEF TrafficType
<1> QED
  BY <1>1, <1>4, <1>5, <1>6, <1>7, SettledRow, OneClient

LEMMA NextResetTraffic == ASSUME TrafficInv, NEW c \in Clients, ResetTraffic(c) PROVE TrafficInv'
<1>0. TrafficType
  BY DEF TrafficInv
<1>1. /\ row[c] # Absent /\ unnoticed' = unnoticed \ {c} /\ owed' = [owed EXCEPT ![c] = 0]
      /\ UNCHANGED <<counter, rate, wire, sent, last, uncounted, overtaken>>
      /\ Commit([row EXCEPT ![c] = Settle(NewCycle(row[c]))], FALSE)
  BY <1>0 DEF ResetTraffic, TrafficType
<1>2. row[c] \in TrafficRow
  BY <1>0, <1>1 DEF TrafficType
<1>3. PICK new \in TrafficRow : /\ new = Settle(NewCycle(row[c])) /\ new.base = row[c].base
                                /\ new.snap <=> EffectiveEnabled(new)
                                /\ new.used = 0 /\ new.rem = 0
  BY <1>2, CycleRow, SettledRow
<1>4. owed' \in [Clients -> Nat] /\ owed'[c] = 0 /\ \A d \in Clients : d # c => owed'[d] = owed[d]
  BY <1>0, <1>1 DEF TrafficType
<1>5. Scale * new.used + new.rem = owed'[c]
  BY <1>3, <1>4, TrafficAssumption
<1> QED
  BY <1>1, <1>3, <1>4, <1>5, OneClient

LEMMA NextDeleteClient == ASSUME TrafficInv, NEW c \in Clients, DeleteClient(c) PROVE TrafficInv'
<1>0. TrafficType
  BY DEF TrafficInv
<1>1. /\ row[c] # Absent /\ unnoticed' = unnoticed \ {c}
      /\ UNCHANGED <<counter, rate, wire, sent, last, uncounted, owed, overtaken>>
      /\ Commit([row EXCEPT ![c] = Absent], TRUE)
  BY DEF DeleteClient
<1>2. owed' \in [Clients -> Nat]
  BY <1>0, <1>1 DEF TrafficType
<1> QED
  BY <1>1, <1>2, OneClient

\* Time passes for a client that the Panel has not looked at since.
LEMMA NextElapse == ASSUME TrafficInv, NEW c \in Clients, Elapse(c) PROVE TrafficInv'
<1>0. TrafficType /\ SwitchInv /\ OwedInv
  BY DEF TrafficInv
<1>1. /\ row[c] # Absent /\ unnoticed' = unnoticed \cup {c}
      /\ \/ row' = [row EXCEPT ![c].expired = TRUE] \/ row' = [row EXCEPT ![c].due = TRUE]
      /\ UNCHANGED <<counter, desired, rate, wire, sent, last, uncounted, owed, overtaken>>
  BY DEF Elapse
<1>2. row[c] \in TrafficRow
  BY <1>0, <1>1 DEF TrafficType
<1>3. PICK new : /\ new = [row[c] EXCEPT !.expired = TRUE] \/ new = [row[c] EXCEPT !.due = TRUE]
                 /\ row' = [row EXCEPT ![c] = new]
  BY <1>0, <1>1 DEF TrafficType
<1>4. /\ new \in TrafficRow /\ new.snap = row[c].snap /\ new.base = row[c].base
      /\ new.used = row[c].used /\ new.rem = row[c].rem
  BY <1>2, <1>3 DEF TrafficRow
<1>5. row'[c] = new /\ \A d \in Clients : d # c => row'[d] = row[d]
  BY <1>0, <1>3 DEF TrafficType
<1>6. row' \in [Clients -> TrafficRow \cup {Absent}]
  BY <1>0, <1>3, <1>4 DEF TrafficType
<1>7. SwitchInv'
  <2>1. Enabled(row)' = Enabled(row)
    BY <1>1, <1>4, <1>5, TrafficAssumption DEF Enabled
  <2> QED
    BY <1>0, <1>1, <1>5, <2>1 DEF SwitchInv
<1>8. OwedInv'
  <2>1. \A d \in Managed : d \in Clients
    BY DEF Clients
  <2> QED
    BY <1>0, <1>1, <1>4, <1>5, <2>1 DEF OwedInv
<1>9. \A d \in Clients : row'[d] = Absent \/ (row[d] # Absent /\ row'[d].base = row[d].base)
  BY <1>1, <1>4, <1>5
<1> QED
  BY <1>0, <1>1, <1>6, <1>7, <1>8, <1>9, PanelKeeps DEF TrafficType

LEMMA NextLoseReport == ASSUME TrafficInv, NEW m \in wire, LoseReport(m) PROVE TrafficInv'
<1>0. TrafficType /\ NumbersInv /\ SwitchInv /\ OwedInv
  BY DEF TrafficInv
<1>1. /\ wire' = wire \ {m}
      /\ UNCHANGED <<row, counter, desired, rate, sent, last, uncounted, owed, overtaken, unnoticed>>
  BY DEF LoseReport
<1>2. CoverInv'
  BY <1>1, KeepCover DEF LastSeen
<1> QED
  BY <1>0, <1>1, <1>2 DEF TrafficInv, TrafficType, NumbersInv, SwitchInv, OwedInv, Enabled

LEMMA NextSetRate == ASSUME TrafficInv, NEW r \in Rates, SetRate(r) PROVE TrafficInv'
<1>0. TrafficType /\ SwitchInv /\ OwedInv
  BY DEF TrafficInv
<1>1. /\ rate' = r
      /\ UNCHANGED <<row, counter, desired, wire, sent, last, uncounted, owed, overtaken, unnoticed>>
  BY DEF SetRate
<1>2. SwitchInv' /\ OwedInv'
  BY <1>0, <1>1 DEF SwitchInv, OwedInv, Enabled
<1> QED
  BY <1>0, <1>1, <1>2, PanelKeeps DEF TrafficType

\* Nothing has been carried yet, and every client may be used.
LEMMA InitTraffic == TrafficInit => TrafficInv
<1> SUFFICES ASSUME TrafficInit PROVE TrafficInv
  OBVIOUS
<1>1. PICK C \in SUBSET Clients, quota \in Quotas :
          /\ row = [c \in Clients |-> IF c \in C THEN ClientRow(quota) ELSE Absent]
          /\ counter = [c \in Clients |-> IF c \in C THEN 0 ELSE Absent]
          /\ desired = C
  BY DEF TrafficInit
<1>2. /\ rate \in Rates /\ wire = {} /\ sent = 0 /\ last = 0
      /\ uncounted = [c \in Clients |-> 0] /\ owed = [c \in Clients |-> 0]
  BY DEF TrafficInit
<1>3. /\ ClientRow(quota) \in TrafficRow /\ ClientRow(quota).snap = TRUE
      /\ ClientRow(quota).used = 0 /\ ClientRow(quota).rem = 0 /\ ClientRow(quota).base = Absent
  BY DEF ClientRow, TrafficRow
<1>4. EffectiveEnabled(ClientRow(quota))
  BY TrafficAssumption DEF ClientRow, EffectiveEnabled
<1>5. TrafficType
  BY <1>1, <1>2, <1>3 DEF TrafficType
<1>6. NumbersInv
  BY <1>2 DEF NumbersInv
<1>7. SwitchInv
  BY <1>1, <1>3, <1>4, TrafficAssumption DEF SwitchInv, Enabled
<1>8. OwedInv
  <2>1. \A c \in Managed : c \in Clients
    BY DEF Clients
  <2> QED
    BY <1>1, <1>2, <1>3, <2>1, TrafficAssumption DEF OwedInv
<1>9. CoverInv
  <2>1. PICK due : due \in [wire \X Clients -> Int]
    <3>1. [x \in wire \X Clients |-> 0] \in [wire \X Clients -> Int]
      OBVIOUS
    <3> QED
      BY <3>1
  <2>2. \A c \in Clients : Pending(c) = {} /\ uncounted[c] = 0
    BY <1>2 DEF Pending
  <2>3. \A c \in Clients : Growth(LastSeen(c), counter[c]) = 0
    BY <1>1, <1>3 DEF LastSeen, Growth
  <2>4. \A c \in Clients : Covered(due, c)
    BY <2>2, <2>3 DEF Covered
  <2> QED
    BY <2>1, <2>4 DEF CoverInv
<1> QED
  BY <1>5, <1>6, <1>7, <1>8, <1>9 DEF TrafficInv

LEMMA NextTraffic == TrafficInv /\ [TrafficNext]_trafficVars => TrafficInv'
<1> SUFFICES ASSUME TrafficInv, [TrafficNext]_trafficVars PROVE TrafficInv'
  OBVIOUS
<1>1. CASE UNCHANGED trafficVars
  <2>1. UNCHANGED <<row, counter, desired, rate, wire, sent, last, uncounted, owed, overtaken, unnoticed>>
    BY <1>1 DEF trafficVars
  <2>2. CoverInv'
    BY <2>1, KeepCover DEF LastSeen
  <2> QED
    BY <2>1, <2>2 DEF TrafficInv, TrafficType, NumbersInv, SwitchInv, OwedInv, Enabled
<1> QED
  BY <1>1, NextCarry, NextRestartXray, NextReport, NextRecord, NextLoseReport, NextFetch,
     NextUpdateClient, NextDeleteClient, NextResetTraffic, NextElapse, NextSetRate
  DEF TrafficNext

(***************************************************************************)
(* A client is charged for no traffic it has not had, through restarts of  *)
(* Xray, lost and rejected reports and new cycles, as long as its reports  *)
(* are handled in order; and a subscriber is charged every part of it at   *)
(* the rate of the time, whatever the rates and the scale.                 *)
(***************************************************************************)
THEOREM ChargedOnce == TrafficSpec => []TrafficIsChargedOnce
<1>1. TrafficInv => TrafficIsChargedOnce
  BY DEF TrafficInv, CoverInv, Covered, OwedInv, TrafficIsChargedOnce
<1> QED
  BY <1>1, InitTraffic, NextTraffic, PTL DEF TrafficSpec

(***************************************************************************)
(* As soon as the Panel has looked at a client, its desired state has it   *)
(* exactly if the client may be used: the version is bumped in the same    *)
(* transaction that finds a quota used up, a date passed or a cycle begun. *)
(***************************************************************************)
THEOREM ToldOfUsage == TrafficSpec => []ToldFollowsUsage
<1>1. TrafficInv => ToldFollowsUsage
  BY DEF TrafficInv, SwitchInv, Enabled, ToldFollowsUsage
<1> QED
  BY <1>1, InitTraffic, NextTraffic, PTL DEF TrafficSpec

(***************************************************************************)
(* Sums over a finite set: SumFunction of the library is the recursive     *)
(* function it is defined by, and sums are added place by place.           *)
(***************************************************************************)
\* The member that the library's folds take next.
Pick(T) == CHOOSE x \in T : TRUE

\* F gives the sum of f over every subset of S.
SumsUp(F, f, S) ==
  F = [T \in SUBSET S |-> IF T = {} THEN 0 ELSE f[Pick(T)] + F[T \ {Pick(T)}]]

\* A set of numbers that is not empty has a least one.
LEMMA Least ==
  ASSUME NEW N \in SUBSET Nat, N # {}
  PROVE  \E n \in N : \A m \in N : n <= m
<1>1. PICK n \in N : \A m \in N : ~(<<m, n>> \in OpToRel(<, Nat))
  BY NatLessThanWellFounded, WFMin
<1>2. \A m \in N : n \in Nat /\ m \in Nat /\ ~(m < n)
  BY <1>1 DEF OpToRel
<1> QED BY <1>2

\* An element of a finite set leaves a smaller one.
LEMMA PickFacts ==
  ASSUME NEW S, IsFiniteSet(S), NEW T \in SUBSET S, T # {}
  PROVE  /\ Pick(T) \in T /\ T \ {Pick(T)} \in SUBSET S
         /\ Cardinality(T) \in Nat /\ Cardinality(T \ {Pick(T)}) = Cardinality(T) - 1
<1>1. Pick(T) \in T
  BY DEF Pick
<1>2. IsFiniteSet(T) /\ Cardinality(T) \in Nat
  BY FS_Subset, FS_CardinalityType
<1> QED BY <1>1, <1>2, FS_RemoveElement

\* There is such a function: sums over larger sets are built from those over smaller.
LEMMA SumExists ==
  ASSUME NEW S, IsFiniteSet(S), NEW f
  PROVE  \E F : SumsUp(F, f, S)
<1> DEFINE Sets(n) == {T \in SUBSET S : Cardinality(T) <= n}
           Good(n, F) == F = [T \in Sets(n) |-> IF T = {} THEN 0 ELSE f[Pick(T)] + F[T \ {Pick(T)}]]
           Bad == {n \in Nat : ~(\E F : Good(n, F))}
<1>1. \A T \in SUBSET S : IsFiniteSet(T) /\ Cardinality(T) \in Nat /\ Cardinality(T) <= Cardinality(S)
  BY FS_Subset, FS_CardinalityType
<1>2. 0 \notin Bad
  <2>1. \A T \in Sets(0) : T = {}
    BY <1>1, FS_EmptySet
  <2>2. Good(0, [T \in Sets(0) |-> 0])
    BY <2>1
  <2> QED BY <2>2
<1>3. ASSUME NEW n \in Nat, n \notin Bad
      PROVE  n + 1 \notin Bad
  <2>1. PICK F : Good(n, F)
    BY <1>3
  <2> DEFINE G == [T \in Sets(n + 1) |->
                     IF T \in Sets(n) THEN F[T] ELSE f[Pick(T)] + F[T \ {Pick(T)}]]
  <2>2. ASSUME NEW T \in Sets(n + 1)
        PROVE  G[T] = IF T = {} THEN 0 ELSE f[Pick(T)] + G[T \ {Pick(T)}]
    <3>1. CASE T = {}
      <4>1. T \in Sets(n)
        BY <3>1, FS_EmptySet
      <4>2. F[T] = 0
        BY <2>1, <3>1, <4>1
      <4> QED BY <3>1, <4>1, <4>2
    <3>2. CASE T # {}
      <4>1. /\ T \ {Pick(T)} \in Sets(n) /\ T \ {Pick(T)} \in Sets(n + 1)
        BY <3>2, <1>1, PickFacts
      <4>2. G[T \ {Pick(T)}] = F[T \ {Pick(T)}]
        BY <4>1
      <4>3. G[T] = f[Pick(T)] + F[T \ {Pick(T)}]
        BY <2>1, <3>2
      <4> QED BY <3>2, <4>2, <4>3
    <3> QED BY <3>1, <3>2
  <2>3. Good(n + 1, G)
    BY <2>2
  <2> QED BY <2>3
<1>4. Bad = {}
  <2> SUFFICES ASSUME Bad # {} PROVE FALSE
    OBVIOUS
  <2> Bad \in SUBSET Nat
    OBVIOUS
  <2>1. PICK n \in Bad : \A m \in Bad : n <= m
    <3> HIDE DEF Bad
    <3> QED BY Least
  <2>2. n \in Nat /\ n # 0
    BY <1>2
  <2>3. n - 1 \in Nat /\ n - 1 \notin Bad
    <3> HIDE DEF Bad
    <3> QED BY <2>1, <2>2
  <2>4. (n - 1) + 1 \notin Bad
    <3> HIDE DEF Bad
    <3> QED BY <1>3, <2>3
  <2>5. (n - 1) + 1 = n
    BY <2>2
  <2> HIDE DEF Bad
  <2> QED BY <2>1, <2>4, <2>5
<1>5. Cardinality(S) \in Nat /\ Sets(Cardinality(S)) = SUBSET S
  BY <1>1, FS_CardinalityType
<1>6. PICK F : Good(Cardinality(S), F)
  BY <1>4, <1>5
<1> QED BY <1>5, <1>6 DEF SumsUp

\* What the library's sum of a function is.
LEMMA SumIs ==
  ASSUME NEW S, IsFiniteSet(S), NEW f, DOMAIN f = S
  PROVE  \E F : SumsUp(F, f, S) /\ SumFunction(f) = F[S]
<1> DEFINE F == CHOOSE F : SumsUp(F, f, S)
<1>1. SumsUp(F, f, S)
  BY SumExists
<1>2. SumFunction(f) = F[S]
  BY DEF SumFunction, SumFunctionOnSet, FoldFunctionOnSet, MapThenFoldSet, SumsUp, Pick
<1> QED BY <1>1, <1>2

\* What is true of the sums that are smaller is true of all.
LEMMA SumsInduct ==
  ASSUME NEW S, IsFiniteSet(S), NEW B \in SUBSET (SUBSET S), {} \notin B,
         \A T \in B : T \ {Pick(T)} \in B
  PROVE  B = {}
<1> DEFINE N == {Cardinality(T) : T \in B}
<1> SUFFICES ASSUME B # {} PROVE FALSE
  OBVIOUS
<1>1. \A T \in B : T \in SUBSET S /\ T # {}
  OBVIOUS
<1>2. \A T \in B : Cardinality(T) \in Nat
  BY <1>1, PickFacts
<1>3. N \in SUBSET Nat /\ N # {}
  BY <1>2
<1>4. PICK n \in N : \A m \in N : n <= m
  <2> HIDE DEF N
  <2> QED BY <1>3, Least
<1>5. PICK T \in B : n = Cardinality(T)
  OBVIOUS
<1>6. Cardinality(T \ {Pick(T)}) \in N
  OBVIOUS
<1>7. n <= Cardinality(T \ {Pick(T)})
  <2> HIDE DEF N
  <2> QED BY <1>4, <1>6
<1>8. Cardinality(T) \in Nat /\ Cardinality(T \ {Pick(T)}) = Cardinality(T) - 1
  BY <1>1, PickFacts
<1> QED BY <1>5, <1>7, <1>8

\* A sum of numbers is a number.
LEMMA SumType ==
  ASSUME NEW S, IsFiniteSet(S), NEW f \in [S -> Nat]
  PROVE  SumFunction(f) \in Nat
<1>1. PICK F : SumsUp(F, f, S) /\ SumFunction(f) = F[S]
  BY SumIs
<1> DEFINE B == {T \in SUBSET S : F[T] \notin Nat}
<1>2. F[{}] = 0
  BY <1>1 DEF SumsUp
<1>3. ASSUME NEW T \in B
      PROVE  T \ {Pick(T)} \in B
  <2>1. T # {}
    BY <1>2
  <2>2. Pick(T) \in S /\ T \ {Pick(T)} \in SUBSET S
    BY <2>1, PickFacts
  <2>3. F[T] = f[Pick(T)] + F[T \ {Pick(T)}]
    BY <1>1, <2>1 DEF SumsUp
  <2> QED BY <2>2, <2>3
<1>4. B = {}
  <2>1. B \in SUBSET (SUBSET S) /\ {} \notin B
    BY <1>2
  <2> HIDE DEF B
  <2> QED BY <1>3, <2>1, SumsInduct
<1> QED BY <1>1, <1>4

\* The sum of what is added at every place is added to the sum.
LEMMA SumAdds ==
  ASSUME NEW S, IsFiniteSet(S), NEW f \in [S -> Nat], NEW g \in [S -> Nat], NEW h \in [S -> Nat],
         \A x \in S : f[x] = g[x] + h[x]
  PROVE  SumFunction(f) = SumFunction(g) + SumFunction(h)
<1>1. PICK F : SumsUp(F, f, S) /\ SumFunction(f) = F[S]
  BY SumIs
<1>2. PICK G : SumsUp(G, g, S) /\ SumFunction(g) = G[S]
  BY SumIs
<1>3. PICK H : SumsUp(H, h, S) /\ SumFunction(h) = H[S]
  BY SumIs
<1> DEFINE B == {T \in SUBSET S : ~(G[T] \in Nat /\ H[T] \in Nat /\ F[T] = G[T] + H[T])}
<1>4. {} \notin B
  BY <1>1, <1>2, <1>3 DEF SumsUp
<1>5. ASSUME NEW T \in B
      PROVE  T \ {Pick(T)} \in B
  <2>1. T # {}
    BY <1>4
  <2>2. Pick(T) \in S /\ T \ {Pick(T)} \in SUBSET S
    BY <2>1, PickFacts
  <2>3. /\ F[T] = f[Pick(T)] + F[T \ {Pick(T)}]
        /\ G[T] = g[Pick(T)] + G[T \ {Pick(T)}]
        /\ H[T] = h[Pick(T)] + H[T \ {Pick(T)}]
    BY <1>1, <1>2, <1>3, <2>1 DEF SumsUp
  <2>4. f[Pick(T)] = g[Pick(T)] + h[Pick(T)] /\ g[Pick(T)] \in Nat /\ h[Pick(T)] \in Nat
    BY <2>2
  <2> QED BY <2>2, <2>3, <2>4
<1>6. B = {}
  <2>1. B \in SUBSET (SUBSET S)
    OBVIOUS
  <2> HIDE DEF B
  <2> QED BY <1>4, <1>5, <2>1, SumsInduct
<1> QED BY <1>1, <1>2, <1>3, <1>6

(***************************************************************************)
(* Plans and entitlements.                                                 *)
(***************************************************************************)
SubscriberRow ==
  [plan : Plans \cup {None}, on : BOOLEAN, expired : BOOLEAN, due : BOOLEAN, archived : Nat,
   clients : [Proxies -> ManagedClient \cup {None}]]
PlanTable == [Plans -> PlanRow \cup {None}]
NodeTable == [Nodes -> BOOLEAN \cup {None}]
ServerTable == [Servers -> {"active", "leaving", "archived", "deleted"}]

EntType ==
  /\ plan \in PlanTable /\ enabled \in NodeTable /\ server \in ServerTable
  /\ sub \in [Users -> SubscriberRow]
  /\ told \in [Servers -> SUBSET (Users \X Proxies)] /\ waiting \subseteq Users

\* A plan lists nodes that have a row, each leading to a proxy of its own.
PlanNodesInv ==
  \A k \in Plans : plan[k] # None => /\ \A n \in plan[k].nodes : enabled[n] # None
                                     /\ DistinctTargets(plan[k].nodes)

\* The plan of a subscriber exists.
PlanOfInv == \A u \in Users : sub[u].plan # None => plan[sub[u].plan] # None

\* Everyone has the clients of the plan, whether time has passed or not.
HeldInv == \A u \in Users : Held(sub[u]) = Required(sub[u], plan, enabled, server)

\* They are switched as of the last time the Panel looked.
SnapInv ==
  \A u \in Users \ waiting : \A p \in Held(sub[u]) : sub[u].clients[p].snap = Active(sub[u], plan)

EntInv == EntType /\ PlanNodesInv /\ PlanOfInv /\ HeldInv /\ SnapInv /\ ServersAreTold

\* Two rows with the same clients in the same state, whatever they are charged.
SameClients(r, q) ==
  \A p \in Proxies : /\ r.clients[p] = None <=> q.clients[p] = None
                     /\ r.clients[p] # None => r.clients[p].snap = q.clients[p].snap

\* Two states of the tables that entitle a row to the same.
SameNodes(r, pl, en, sv, pl2, en2, sv2) ==
  /\ PlanOf(r, pl) = None <=> PlanOf(r, pl2) = None
  /\ PlanOf(r, pl) # None =>
       /\ \A m \in Nodes : (m \in PlanOf(r, pl).nodes /\ en[m] = TRUE) <=> (m \in PlanOf(r, pl2).nodes /\ en2[m] = TRUE)
       /\ \A m \in Nodes : m \in PlanOf(r, pl).nodes /\ en[m] = TRUE =>
             (sv[At[Target[m]]] \in {"active", "leaving"} <=> sv2[At[Target[m]]] \in {"active", "leaving"})

SameTerms(r, pl, pl2) ==
  /\ PlanOf(r, pl) = None <=> PlanOf(r, pl2) = None
  /\ PlanOf(r, pl) # None => /\ PlanOf(r, pl).on = PlanOf(r, pl2).on
                             /\ PlanOf(r, pl).limit = PlanOf(r, pl2).limit

LEMMA NoneIsNoRow ==
  /\ None \notin Plans /\ None # TRUE /\ None # FALSE
  /\ \A k \in PlanRow : k # None
  /\ \A c \in ManagedClient : c # None
  BY EntitlementAssumption

\* What a row is charged is a number.
LEMMA UsedType ==
  ASSUME NEW r \in SubscriberRow
  PROVE  Charged(r) \in [Proxies -> Nat] /\ Used(r) \in Nat /\ r.archived \in Nat
<1>1. Charged(r) \in [Proxies -> Nat]
  BY DEF Charged, SubscriberRow, ManagedClient
<1>2. SumFunction(Charged(r)) \in Nat
  BY <1>1, EntitlementAssumption, SumType
<1> QED BY <1>1, <1>2 DEF Used, SubscriberRow

LEMMA PlanOfType ==
  ASSUME NEW r \in SubscriberRow, NEW pl \in PlanTable
  PROVE  PlanOf(r, pl) \in PlanRow \cup {None}
  BY DEF PlanOf, SubscriberRow, PlanTable

\* A row with other usage and other clients.
WithUsage(r, a, cl) == [r EXCEPT !.archived = a, !.clients = cl]

LEMMA RowUpdate ==
  ASSUME NEW r \in SubscriberRow, NEW a \in Nat, NEW cl \in [Proxies -> ManagedClient \cup {None}]
  PROVE  LET q == WithUsage(r, a, cl) IN
         /\ q \in SubscriberRow /\ q.archived = a /\ q.clients = cl
         /\ q.plan = r.plan /\ q.on = r.on /\ q.expired = r.expired /\ q.due = r.due
<1> DEFINE C == [Proxies -> ManagedClient \cup {None}]
           P == Plans \cup {None}
<1>1. SubscriberRow = [plan : P, on : BOOLEAN, expired : BOOLEAN, due : BOOLEAN, archived : Nat, clients : C]
  BY DEF SubscriberRow
<1>2. cl \in C
  OBVIOUS
<1> HIDE DEF C, P
<1> QED BY <1>1, <1>2 DEF WithUsage

\* The usage is set to zero, the clients stay as they are.
LEMMA ZeroUsageFacts ==
  ASSUME NEW r \in SubscriberRow
  PROVE  /\ ZeroUsage(r) \in SubscriberRow
         /\ ZeroUsage(r).plan = r.plan /\ ZeroUsage(r).on = r.on /\ ZeroUsage(r).expired = r.expired
         /\ SameClients(r, ZeroUsage(r))
<1> DEFINE cl == [p \in Proxies |-> IF r.clients[p] = None THEN None ELSE [r.clients[p] EXCEPT !.charged = 0]]
<1>1. ASSUME NEW p \in Proxies, r.clients[p] # None
      PROVE  /\ [r.clients[p] EXCEPT !.charged = 0] \in ManagedClient
             /\ [r.clients[p] EXCEPT !.charged = 0].snap = r.clients[p].snap
  <2>1. r.clients[p] \in ManagedClient
    BY <1>1 DEF SubscriberRow
  <2> QED BY <2>1 DEF ManagedClient
<1>2. cl \in [Proxies -> ManagedClient \cup {None}]
  BY <1>1
<1>3. ZeroUsage(r) = WithUsage(r, 0, cl)
  BY DEF ZeroUsage, WithUsage
<1>4. /\ ZeroUsage(r) \in SubscriberRow /\ ZeroUsage(r).clients = cl
      /\ ZeroUsage(r).plan = r.plan /\ ZeroUsage(r).on = r.on /\ ZeroUsage(r).expired = r.expired
  <2> HIDE DEF cl
  <2> QED BY <1>2, <1>3, RowUpdate
<1>5. SameClients(r, ZeroUsage(r))
  BY <1>1, <1>4, NoneIsNoRow DEF SameClients
<1> QED BY <1>4, <1>5

LEMMA ResetFacts ==
  ASSUME NEW r \in SubscriberRow
  PROVE  /\ ResetCycleIfDue(r) \in SubscriberRow
         /\ ResetCycleIfDue(r).plan = r.plan
         /\ SameClients(r, ResetCycleIfDue(r))
         /\ ~r.due => ResetCycleIfDue(r) = r
<1>1. CASE r.due
  <2> DEFINE z == ZeroUsage(r)
  <2>1. z \in SubscriberRow /\ z.plan = r.plan /\ SameClients(r, z)
    BY ZeroUsageFacts
  <2> HIDE DEF z
  <2>2. [z EXCEPT !.due = FALSE] \in SubscriberRow /\ [z EXCEPT !.due = FALSE].plan = z.plan
        /\ [z EXCEPT !.due = FALSE].clients = z.clients
    BY <2>1 DEF SubscriberRow
  <2>3. ResetCycleIfDue(r) = [z EXCEPT !.due = FALSE]
    BY <1>1 DEF ResetCycleIfDue, z
  <2> QED BY <1>1, <2>1, <2>2, <2>3 DEF SameClients
<1>2. CASE ~r.due
  BY <1>2 DEF ResetCycleIfDue, SameClients
<1> QED BY <1>1, <1>2

\* What reconciling leaves of a row: the required clients and no other, switched on
\* while the subscription is valid, and the usage as it was.
LEMMA ReconcileFacts ==
  ASSUME NEW s \in SubscriberRow, NEW pl \in PlanTable, NEW en \in NodeTable, NEW sv \in ServerTable
  PROVE  LET q == Reconcile(s, pl, en, sv) IN
         /\ q \in SubscriberRow /\ q.plan = s.plan
         /\ Held(q) = Required(q, pl, en, sv)
         /\ \A p \in Held(q) : q.clients[p].snap = Active(q, pl)
         /\ Used(q) = Used(ResetCycleIfDue(s))
<1> DEFINE r == ResetCycleIfDue(s)
           need == Required(r, pl, en, sv)
           gone == [p \in Proxies |-> IF p \in Held(r) \ need THEN ArchiveUsage(r, p) ELSE 0]
           active == Active(r, pl)
           cl == [p \in Proxies |->
                    IF p \notin need THEN None
                    ELSE IF r.clients[p] = None THEN NewClient(active) ELSE [r.clients[p] EXCEPT !.snap = active]]
           q == WithUsage(r, r.archived + SumFunction(gone), cl)
<1>1. r \in SubscriberRow /\ r.plan = s.plan
  BY ResetFacts
<1>2. need \subseteq Proxies
  BY EntitlementAssumption, <1>1, PlanOfType DEF Required, PlanRow
<1>3. active \in BOOLEAN
  BY DEF Active
<1>4. Reconcile(s, pl, en, sv) = q
  BY DEF Reconcile, WithUsage
<1> HIDE DEF r, need, active
<1>5. gone \in [Proxies -> Nat]
  BY <1>1 DEF Held, ArchiveUsage, SubscriberRow, ManagedClient
<1>6. SumFunction(gone) \in Nat
  <2> HIDE DEF gone
  <2> QED BY <1>5, SumType, EntitlementAssumption
<1>7. ASSUME NEW p \in need
      PROVE  cl[p] \in ManagedClient /\ cl[p].snap = active
             /\ cl[p].charged = IF r.clients[p] = None THEN 0 ELSE r.clients[p].charged
  <2>1. CASE r.clients[p] = None
    BY <1>2, <1>3, <2>1 DEF NewClient, ManagedClient
  <2>2. CASE r.clients[p] # None
    <3>1. r.clients[p] \in ManagedClient
      BY <1>1, <1>2, <2>2 DEF SubscriberRow
    <3>2. cl[p] = [r.clients[p] EXCEPT !.snap = active]
      BY <1>2, <2>2
    <3> QED BY <1>3, <2>2, <3>1, <3>2 DEF ManagedClient
  <2> QED BY <2>1, <2>2
<1>8. cl \in [Proxies -> ManagedClient \cup {None}]
  BY <1>7
<1>9. /\ q \in SubscriberRow /\ q.clients = cl /\ q.archived = r.archived + SumFunction(gone)
      /\ q.plan = r.plan /\ q.on = r.on /\ q.expired = r.expired
  <2> HIDE DEF cl, gone
  <2>1. r.archived + SumFunction(gone) \in Nat
    BY <1>1, <1>6 DEF SubscriberRow
  <2> QED BY <1>1, <1>8, <2>1, RowUpdate
<1>10. Held(q) = need
  <2>1. \A p \in Proxies : cl[p] # None <=> p \in need
    BY <1>7, NoneIsNoRow
  <2> QED BY <1>2, <1>9, <2>1 DEF Held
<1>11. Required(q, pl, en, sv) = need
  BY <1>9 DEF Required, PlanOf, need
<1>12. Used(q) = Used(r)
  <2>1. \A p \in Proxies : Charged(r)[p] = Charged(q)[p] + gone[p]
    <3> SUFFICES ASSUME NEW p \in Proxies PROVE Charged(r)[p] = Charged(q)[p] + gone[p]
      OBVIOUS
    <3>1. CASE p \in need
      <4>1. Charged(q)[p] = cl[p].charged /\ gone[p] = 0
        BY <1>7, <1>9, <3>1, NoneIsNoRow DEF Charged
      <4>2. cl[p].charged = Charged(r)[p]
        BY <1>7, <3>1 DEF Charged
      <4>3. Charged(r)[p] \in Nat
        BY <1>1, UsedType
      <4> QED BY <4>1, <4>2, <4>3
    <3>2. CASE p \notin need
      <4>1. Charged(q)[p] = 0
        <5>1. q.clients[p] = None
          BY <1>9, <3>2
        <5> HIDE DEF q
        <5> QED BY <5>1 DEF Charged
      <4>2. gone[p] = Charged(r)[p]
        BY <3>2 DEF Charged, Held, ArchiveUsage
      <4>3. Charged(r)[p] \in Nat
        BY <1>1, UsedType
      <4> QED BY <4>1, <4>2, <4>3
    <3> QED BY <3>1, <3>2
  <2>2. Charged(r) \in [Proxies -> Nat] /\ Charged(q) \in [Proxies -> Nat]
    <3> HIDE DEF q
    <3> QED BY <1>1, <1>9, UsedType
  <2> HIDE DEF gone, q
  <2>3. SumFunction(Charged(r)) = SumFunction(Charged(q)) + SumFunction(gone)
    BY <1>5, <2>1, <2>2, SumAdds, EntitlementAssumption
  <2>4. SumFunction(Charged(q)) \in Nat /\ r.archived \in Nat
    BY <1>1, <2>2, SumType, EntitlementAssumption DEF SubscriberRow
  <2> QED BY <1>6, <1>9, <2>3, <2>4 DEF Used
<1>13. Active(q, pl) = active
  BY <1>9, <1>12 DEF Active, PlanOf, active
<1>14. \A p \in Held(q) : q.clients[p].snap = Active(q, pl)
  BY <1>7, <1>9, <1>10, <1>13
<1> QED BY <1>1, <1>4, <1>9, <1>10, <1>11, <1>12, <1>14 DEF r

\* The tables entitle to the same clients, or on the same terms.
LEMMA SameNodesFacts ==
  ASSUME NEW r \in SubscriberRow, NEW pl \in PlanTable, NEW en, NEW sv, NEW pl2 \in PlanTable, NEW en2, NEW sv2,
         SameNodes(r, pl, en, sv, pl2, en2, sv2)
  PROVE  Required(r, pl, en, sv) = Required(r, pl2, en2, sv2)
<1>1. CASE PlanOf(r, pl) = None
  BY <1>1 DEF SameNodes, Required
<1>2. CASE PlanOf(r, pl) # None
  <2> DEFINE N1 == PlanOf(r, pl).nodes
             N2 == PlanOf(r, pl2).nodes
  <2>1. N1 \subseteq Nodes /\ N2 \subseteq Nodes
    BY <1>2, PlanOfType DEF SameNodes, PlanRow
  <2>2. PlanOf(r, pl2) # None
    BY <1>2 DEF SameNodes
  <2>3. {m \in N1 : en[m] = TRUE} = {m \in N2 : en2[m] = TRUE}
    BY <1>2, <2>1 DEF SameNodes
  <2>4. \A p \in {Target[n] : n \in {m \in N1 : en[m] = TRUE}} :
           sv[At[p]] \in {"active", "leaving"} <=> sv2[At[p]] \in {"active", "leaving"}
    BY <1>2, <2>1 DEF SameNodes
  <2>5. Required(r, pl, en, sv) = {p \in {Target[n] : n \in {m \in N1 : en[m] = TRUE}} : sv[At[p]] \in {"active", "leaving"}}
    BY <1>2 DEF Required
  <2>6. Required(r, pl2, en2, sv2) = {p \in {Target[n] : n \in {m \in N2 : en2[m] = TRUE}} : sv2[At[p]] \in {"active", "leaving"}}
    BY <2>2 DEF Required
  <2> HIDE DEF N1, N2
  <2> QED BY <2>3, <2>4, <2>5, <2>6
<1> QED BY <1>1, <1>2

LEMMA SameTermsFacts ==
  ASSUME NEW r, NEW pl, NEW pl2, SameTerms(r, pl, pl2)
  PROVE  Active(r, pl) = Active(r, pl2)
  BY DEF SameTerms, Active

\* A row with the same plan is entitled to the same.
LEMMA SamePlan ==
  ASSUME NEW r, NEW q, r.plan = q.plan, NEW pl, NEW en, NEW sv
  PROVE  Required(r, pl, en, sv) = Required(q, pl, en, sv)
  BY DEF Required, PlanOf

\* What a Server is to serve is told by the clients and their state.
LEMMA SameContent ==
  ASSUME NEW a, NEW b, \A u \in Users : SameClients(a[u], b[u]), NEW s
  PROVE  Content(s, a) = Content(s, b)
<1>1. ASSUME NEW x \in Users \X Proxies
      PROVE  /\ a[x[1]].clients[x[2]] = None <=> b[x[1]].clients[x[2]] = None
             /\ a[x[1]].clients[x[2]] # None => a[x[1]].clients[x[2]].snap = b[x[1]].clients[x[2]].snap
  <2>1. x[1] \in Users /\ x[2] \in Proxies
    OBVIOUS
  <2> QED BY <2>1 DEF SameClients
<1> QED BY <1>1 DEF Content

\* A Server that is not affected is to serve what it served.
Untouched(s, b, c, U) ==
  /\ \A u \in Users \ U : c[u] = b[u]
  /\ \A u \in U : s \notin Affected(b[u], c[u])

LEMMA UntouchedContent ==
  ASSUME NEW b, NEW c, NEW U \in SUBSET Users, NEW s, Untouched(s, b, c, U)
  PROVE  Content(s, c) = Content(s, b)
<1>1. ASSUME NEW x \in Users \X Proxies, At[x[2]] = s
      PROVE  /\ b[x[1]].clients[x[2]] = None <=> c[x[1]].clients[x[2]] = None
             /\ b[x[1]].clients[x[2]] # None => b[x[1]].clients[x[2]].snap = c[x[1]].clients[x[2]].snap
  <2>1. x[1] \in Users /\ x[2] \in Proxies
    OBVIOUS
  <2>2. CASE x[1] \notin U
    BY <2>1, <2>2 DEF Untouched
  <2>3. CASE x[1] \in U
    <3>1. s \notin Affected(b[x[1]], c[x[1]])
      BY <2>3 DEF Untouched
    <3> QED BY <1>1, <2>1, <3>1 DEF Affected, Held
  <2> QED BY <2>2, <2>3
<1> QED BY <1>1 DEF Content

\* The rows after some of them have been reconciled.
Reconciled(b, U, pl, en, sv) == [u \in Users |-> IF u \in U THEN Reconcile(b[u], pl, en, sv) ELSE b[u]]

RowsAgree(c, b, U, pl, en, sv) ==
  /\ c \in [Users -> SubscriberRow]
  /\ \A u \in Users : c[u].plan = b[u].plan
  /\ \A u \in Users \ U : c[u] = b[u]
  /\ \A u \in U : /\ Held(c[u]) = Required(c[u], pl, en, sv)
                  /\ \A p \in Held(c[u]) : c[u].clients[p].snap = Active(c[u], pl)
                  /\ Used(c[u]) = Used(ResetCycleIfDue(b[u]))

LEMMA ReconciledRows ==
  ASSUME NEW b \in [Users -> SubscriberRow], NEW U \in SUBSET Users,
         NEW pl \in PlanTable, NEW en \in NodeTable, NEW sv \in ServerTable
  PROVE  RowsAgree(Reconciled(b, U, pl, en, sv), b, U, pl, en, sv)
<1> DEFINE c == Reconciled(b, U, pl, en, sv)
<1>1. \A u \in U : c[u] = Reconcile(b[u], pl, en, sv) /\ u \in Users /\ b[u] \in SubscriberRow
  BY DEF Reconciled
<1>2. \A u \in Users \ U : c[u] = b[u]
  BY DEF Reconciled
<1>5. DOMAIN c = Users /\ c = [u \in Users |-> c[u]]
  BY DEF Reconciled
<1> HIDE DEF c
<1>3. \A u \in U : /\ c[u] \in SubscriberRow /\ c[u].plan = b[u].plan
                   /\ Held(c[u]) = Required(c[u], pl, en, sv)
                   /\ \A p \in Held(c[u]) : c[u].clients[p].snap = Active(c[u], pl)
                   /\ Used(c[u]) = Used(ResetCycleIfDue(b[u]))
  BY <1>1, ReconcileFacts
<1>4. c \in [Users -> SubscriberRow]
  BY <1>2, <1>3, <1>5
<1> QED BY <1>2, <1>3, <1>4 DEF c, RowsAgree

\* The end of a transaction, when those who are not reconciled are entitled to
\* what they were.
LEMMA ReconcileAllInv ==
  ASSUME EntInv, plan' \in PlanTable, enabled' \in NodeTable, server' \in ServerTable,
         NEW b \in [Users -> SubscriberRow], NEW U \in SUBSET Users, ReconcileAll(b, U),
         \A u \in Users : SameClients(sub[u], b[u]),
         \A u \in Users \ U : /\ b[u] = sub[u]
                              /\ SameNodes(sub[u], plan, enabled, server, plan', enabled', server')
                              /\ SameTerms(sub[u], plan, plan'),
         \A u \in Users : b[u].plan # None => plan'[b[u].plan] # None,
         \A s \in Servers : server'[s] = "active" => server[s] = "active"
  PROVE  /\ sub' \in [Users -> SubscriberRow] /\ told' \in [Servers -> SUBSET (Users \X Proxies)] /\ waiting' \subseteq Users
         /\ PlanOfInv' /\ HeldInv' /\ SnapInv' /\ ServersAreTold'
         /\ \A u \in Users : ~b[u].due => Used(sub'[u]) = Used(b[u])
<1> DEFINE c == Reconciled(b, U, plan', enabled', server')
           T == UNION {Affected(b[u], c[u]) : u \in U}
<1>1. /\ sub' = c /\ waiting' = waiting \ U
      /\ told' = [s \in Servers |-> IF s \in T THEN Content(s, c) ELSE told[s]]
  BY DEF ReconcileAll, BumpServerVersions, Reconciled
<1>2. /\ c \in [Users -> SubscriberRow]
      /\ \A u \in Users : c[u].plan = b[u].plan
      /\ \A u \in Users \ U : c[u] = b[u]
      /\ \A u \in U : /\ Held(c[u]) = Required(c[u], plan', enabled', server')
                      /\ \A p \in Held(c[u]) : c[u].clients[p].snap = Active(c[u], plan')
                      /\ Used(c[u]) = Used(ResetCycleIfDue(b[u]))
  <2>1. RowsAgree(c, b, U, plan', enabled', server')
    BY ReconciledRows
  <2> HIDE DEF c
  <2> QED BY <2>1 DEF RowsAgree
<1> HIDE DEF c
<1>3. told' \in [Servers -> SUBSET (Users \X Proxies)] /\ waiting' \subseteq Users
  <2>1. \A s \in Servers : Content(s, c) \in SUBSET (Users \X Proxies)
    BY DEF Content
  <2> HIDE DEF T
  <2> QED BY <1>1, <2>1 DEF EntInv, EntType
<1>4. PlanOfInv'
  BY <1>1, <1>2 DEF PlanOfInv
<1>5. \A u \in Users \ U : /\ Required(sub[u], plan, enabled, server) = Required(sub[u], plan', enabled', server')
                           /\ Active(sub[u], plan) = Active(sub[u], plan')
  BY SameNodesFacts, SameTermsFacts DEF EntInv, EntType
<1>6. HeldInv'
  <2>1. \A u \in Users : Held(c[u]) = Required(c[u], plan', enabled', server')
    BY <1>2, <1>5 DEF EntInv, HeldInv
  <2> QED BY <1>1, <2>1 DEF HeldInv
<1>7. SnapInv'
  <2>1. ASSUME NEW u \in Users, u \notin waiting'
        PROVE  \A p \in Held(c[u]) : c[u].clients[p].snap = Active(c[u], plan')
    <3>1. u \in U \/ (u \notin U /\ u \notin waiting)
      BY <1>1, <2>1
    <3> QED BY <1>2, <1>5, <2>1, <3>1 DEF EntInv, SnapInv
  <2> QED BY <1>1, <2>1 DEF SnapInv
<1>8. ServersAreTold'
  <2>1. ASSUME NEW s \in Servers, server'[s] = "active"
        PROVE  told'[s] = Content(s, c)
    <3>1. CASE s \in T
      BY <1>1, <3>1
    <3>2. CASE s \notin T
      <4>1. told'[s] = told[s]
        <5> HIDE DEF T
        <5> QED BY <1>1, <3>2
      <4>2. told[s] = Content(s, sub)
        BY <2>1 DEF EntInv, ServersAreTold
      <4>3. Content(s, sub) = Content(s, b)
        BY SameContent
      <4>4. Content(s, c) = Content(s, b)
        <5>1. Untouched(s, b, c, U)
          BY <1>2, <3>2 DEF Untouched
        <5> QED BY <5>1, UntouchedContent
      <4> QED BY <4>1, <4>2, <4>3, <4>4
    <3> QED BY <3>1, <3>2
  <2> QED BY <1>1, <2>1 DEF ServersAreTold
<1>9. \A u \in Users : ~b[u].due => Used(c[u]) = Used(b[u])
  BY <1>2 DEF ResetCycleIfDue
<1> QED BY <1>1, <1>2, <1>3, <1>4, <1>6, <1>7, <1>8, <1>9

\* A transaction that touches no row of a subscriber.
LEMMA RowsRestInv ==
  ASSUME EntInv, plan' \in PlanTable, enabled' \in NodeTable, server' \in ServerTable,
         UNCHANGED <<sub, told, waiting>>,
         \A u \in Users : /\ SameNodes(sub[u], plan, enabled, server, plan', enabled', server')
                          /\ SameTerms(sub[u], plan, plan'),
         \A s \in Servers : server'[s] = "active" => server[s] = "active"
  PROVE  EntType' /\ PlanOfInv' /\ HeldInv' /\ SnapInv' /\ ServersAreTold'
<1>1. \A u \in Users : /\ Required(sub[u], plan, enabled, server) = Required(sub[u], plan', enabled', server')
                       /\ Active(sub[u], plan) = Active(sub[u], plan')
  BY SameNodesFacts, SameTermsFacts DEF EntInv, EntType
<1>2. EntType'
  BY DEF EntInv, EntType
<1>3. PlanOfInv'
  BY DEF EntInv, PlanOfInv, SameTerms, PlanOf
<1>4. HeldInv'
  BY <1>1 DEF EntInv, HeldInv
<1>5. SnapInv'
  BY <1>1 DEF EntInv, SnapInv
<1>6. ServersAreTold'
  BY DEF EntInv, ServersAreTold
<1> QED BY <1>2, <1>3, <1>4, <1>5, <1>6

\* The plan of a row is as it was.
LEMMA SamePlanOf ==
  ASSUME NEW r, NEW pl, NEW pl2, PlanOf(r, pl) = PlanOf(r, pl2)
  PROVE  /\ SameTerms(r, pl, pl2)
         /\ \A en, sv : SameNodes(r, pl, en, sv, pl2, en, sv)
  BY DEF SameTerms, SameNodes

LEMMA SameClientsRefl ==
  ASSUME NEW r
  PROVE  SameClients(r, r)
  BY DEF SameClients

LEMMA CreatePlanInv ==
  ASSUME EntInv, NEW k \in Plans, NEW limit \in Limits, CreatePlan(k, limit)
  PROVE  EntInv'
<1> DEFINE terms == [on |-> TRUE, limit |-> limit, nodes |-> {}]
<1>1. terms \in PlanRow /\ terms.nodes = {}
  BY DEF PlanRow
<1>2. plan' = [plan EXCEPT ![k] = terms] /\ UNCHANGED <<enabled, sub, server, told, waiting>> /\ plan[k] = None
  BY DEF CreatePlan
<1> HIDE DEF terms
<1>3. plan' \in PlanTable
  BY <1>1, <1>2 DEF EntInv, EntType, PlanTable
<1>4. \A u \in Users : PlanOf(sub[u], plan) = PlanOf(sub[u], plan')
  BY <1>2 DEF EntInv, EntType, PlanTable, PlanOfInv, PlanOf, SubscriberRow
<1>5. EntType' /\ PlanOfInv' /\ HeldInv' /\ SnapInv' /\ ServersAreTold'
  <2>1. \A u \in Users : /\ SameNodes(sub[u], plan, enabled, server, plan', enabled, server)
                         /\ SameTerms(sub[u], plan, plan')
    BY <1>4, SamePlanOf
  <2> QED BY <1>2, <1>3, <2>1, RowsRestInv DEF EntInv, EntType
<1>6. PlanNodesInv'
  BY <1>1, <1>2 DEF EntInv, EntType, PlanTable, PlanNodesInv, DistinctTargets
<1> QED BY <1>5, <1>6 DEF EntInv

LEMMA DeletePlanInv ==
  ASSUME EntInv, NEW k \in Plans, DeletePlan(k)
  PROVE  EntInv'
<1>2. /\ plan' = [plan EXCEPT ![k] = None] /\ UNCHANGED <<enabled, sub, server, told, waiting>>
      /\ \A u \in Users : sub[u].plan # k
  BY DEF DeletePlan, SubscribersOf
<1>3. plan' \in PlanTable
  BY <1>2 DEF EntInv, EntType, PlanTable
<1>4. \A u \in Users : PlanOf(sub[u], plan) = PlanOf(sub[u], plan')
  BY <1>2 DEF EntInv, EntType, PlanTable, PlanOf, SubscriberRow
<1>5. EntType' /\ PlanOfInv' /\ HeldInv' /\ SnapInv' /\ ServersAreTold'
  <2>1. \A u \in Users : /\ SameNodes(sub[u], plan, enabled, server, plan', enabled, server)
                         /\ SameTerms(sub[u], plan, plan')
    BY <1>4, SamePlanOf
  <2> QED BY <1>2, <1>3, <2>1, RowsRestInv DEF EntInv, EntType
<1>6. PlanNodesInv'
  BY <1>2 DEF EntInv, EntType, PlanTable, PlanNodesInv
<1> QED BY <1>5, <1>6 DEF EntInv

\* Another row for a plan: its subscribers are reconciled.
LEMMA PlanChangeInv ==
  ASSUME EntInv, NEW k \in Plans, NEW terms \in PlanRow, plan[k] # None,
         \A n \in terms.nodes : enabled[n] # None, DistinctTargets(terms.nodes),
         plan' = [plan EXCEPT ![k] = terms], UNCHANGED <<enabled, server>>, ReconcileAll(sub, SubscribersOf({k}))
  PROVE  EntInv' /\ \A u \in Users : ~sub[u].due => Used(sub'[u]) = Used(sub[u])
<1>1. plan' \in PlanTable
  BY DEF EntInv, EntType, PlanTable
<1>2. SubscribersOf({k}) \in SUBSET Users /\ \A u \in Users \ SubscribersOf({k}) : sub[u].plan # k
  BY DEF SubscribersOf
<1>3. \A u \in Users \ SubscribersOf({k}) : PlanOf(sub[u], plan) = PlanOf(sub[u], plan')
  BY <1>2 DEF EntInv, EntType, PlanTable, PlanOf, SubscriberRow
<1>4. \A u \in Users \ SubscribersOf({k}) :
         /\ SameNodes(sub[u], plan, enabled, server, plan', enabled', server')
         /\ SameTerms(sub[u], plan, plan')
  BY <1>3, SamePlanOf
<1>5. \A u \in Users : sub[u].plan # None => plan'[sub[u].plan] # None
  BY NoneIsNoRow DEF EntInv, EntType, PlanTable, PlanOfInv, SubscriberRow
<1>6. \A u \in Users : SameClients(sub[u], sub[u])
  BY SameClientsRefl
<1>7. /\ sub' \in [Users -> SubscriberRow] /\ told' \in [Servers -> SUBSET (Users \X Proxies)] /\ waiting' \subseteq Users
      /\ PlanOfInv' /\ HeldInv' /\ SnapInv' /\ ServersAreTold'
      /\ \A u \in Users : ~sub[u].due => Used(sub'[u]) = Used(sub[u])
  BY <1>1, <1>2, <1>4, <1>5, <1>6, ReconcileAllInv DEF EntInv, EntType
<1>8. PlanNodesInv'
  BY DEF EntInv, EntType, PlanTable, PlanNodesInv
<1> QED BY <1>1, <1>7, <1>8 DEF EntInv, EntType

LEMMA UpdatePlanInv ==
  ASSUME EntInv, NEW k \in Plans, NEW on \in BOOLEAN, NEW limit \in Limits, UpdatePlan(k, on, limit)
  PROVE  EntInv' /\ \A u \in Users : ~sub[u].due => Used(sub'[u]) = Used(sub[u])
<1> DEFINE terms == [plan[k] EXCEPT !.on = on, !.limit = limit]
<1>1. plan[k] \in PlanRow
  BY DEF UpdatePlan, EntInv, EntType, PlanTable
<1>2. terms \in PlanRow /\ terms.nodes = plan[k].nodes
  BY <1>1 DEF PlanRow
<1>3. plan' = [plan EXCEPT ![k] = terms]
  BY <1>1 DEF UpdatePlan, EntInv, EntType, PlanTable
<1> HIDE DEF terms
<1>4. (\A n \in terms.nodes : enabled[n] # None) /\ DistinctTargets(terms.nodes)
  BY <1>2 DEF EntInv, PlanNodesInv, UpdatePlan
<1> QED BY <1>2, <1>3, <1>4, PlanChangeInv DEF UpdatePlan

LEMMA SetPlanNodesInv ==
  ASSUME EntInv, NEW k \in Plans, NEW N \in SUBSET Nodes, SetPlanNodes(k, N)
  PROVE  EntInv' /\ \A u \in Users : ~sub[u].due => Used(sub'[u]) = Used(sub[u])
<1> DEFINE terms == [plan[k] EXCEPT !.nodes = N]
<1>1. plan[k] \in PlanRow
  BY DEF SetPlanNodes, EntInv, EntType, PlanTable
<1>2. terms \in PlanRow /\ terms.nodes = N
  BY <1>1 DEF PlanRow
<1>3. plan' = [plan EXCEPT ![k] = terms]
  BY <1>1 DEF SetPlanNodes, EntInv, EntType, PlanTable
<1> HIDE DEF terms
<1>4. (\A n \in terms.nodes : enabled[n] # None) /\ DistinctTargets(terms.nodes)
  BY <1>2 DEF SetPlanNodes
<1> QED BY <1>2, <1>3, <1>4, PlanChangeInv DEF SetPlanNodes

\* Listing a node in the plans K and in no other keeps what else the plans say.
LEMMA InPlansFacts ==
  ASSUME EntInv, NEW n \in Nodes, NEW K \in SUBSET Plans, SyncPublishedNodePlans(n, K)
  PROVE  /\ plan' \in PlanTable
         /\ \A k \in Plans : plan[k] = None => plan'[k] = None
         /\ \A k \in Plans : plan[k] # None =>
              /\ plan'[k] # None /\ plan'[k].on = plan[k].on /\ plan'[k].limit = plan[k].limit
              /\ plan'[k].nodes = IF k \in K THEN plan[k].nodes \cup {n} ELSE plan[k].nodes \ {n}
<1>1. \A k \in Plans : plan'[k] = IF plan[k] = None THEN None
                                  ELSE [plan[k] EXCEPT !.nodes = IF k \in K THEN plan[k].nodes \cup {n} ELSE plan[k].nodes \ {n}]
  BY DEF SyncPublishedNodePlans, InPlans
<1>2. DOMAIN plan' = Plans /\ plan' = [k \in Plans |-> plan'[k]]
  BY DEF SyncPublishedNodePlans, InPlans
<1>3. ASSUME NEW k \in Plans, plan[k] # None
      PROVE  /\ plan'[k] \in PlanRow /\ plan'[k].on = plan[k].on /\ plan'[k].limit = plan[k].limit
             /\ plan'[k].nodes = IF k \in K THEN plan[k].nodes \cup {n} ELSE plan[k].nodes \ {n}
  <2> DEFINE N == IF k \in K THEN plan[k].nodes \cup {n} ELSE plan[k].nodes \ {n}
  <2>1. plan[k] \in PlanRow
    BY <1>3 DEF EntInv, EntType, PlanTable
  <2>2. N \in SUBSET Nodes
    BY <2>1 DEF PlanRow
  <2>3. plan'[k] = [plan[k] EXCEPT !.nodes = N]
    BY <1>1, <1>3
  <2> HIDE DEF N
  <2>4. plan'[k] \in PlanRow /\ plan'[k].on = plan[k].on /\ plan'[k].limit = plan[k].limit /\ plan'[k].nodes = N
    BY <2>1, <2>2, <2>3 DEF PlanRow
  <2> QED BY <2>4 DEF N
<1>4. \A k \in Plans : plan[k] = None => plan'[k] = None
  BY <1>1
<1>5. plan' \in PlanTable
  BY <1>2, <1>3, <1>4 DEF PlanTable
<1> QED BY <1>3, <1>4, <1>5, NoneIsNoRow

LEMMA NodePlansKept ==
  ASSUME EntInv, NEW n \in Nodes, NEW on \in BOOLEAN, NEW K \in SUBSET Plans, SyncPublishedNodePlans(n, K),
         enabled' = [enabled EXCEPT ![n] = on]
  PROVE  enabled' \in NodeTable /\ PlanNodesInv'
<1>1. enabled' \in NodeTable
  BY DEF EntInv, EntType, NodeTable
<1>2. \A m \in Nodes : enabled'[m] = IF m = n THEN on ELSE enabled[m]
  BY DEF EntInv, EntType, NodeTable
<1>3. ASSUME NEW k \in Plans, plan'[k] # None
      PROVE  (\A m \in plan'[k].nodes : enabled'[m] # None) /\ DistinctTargets(plan'[k].nodes)
  <2>1. /\ plan[k] # None
        /\ plan'[k].nodes = IF k \in K THEN plan[k].nodes \cup {n} ELSE plan[k].nodes \ {n}
    BY <1>3, InPlansFacts
  <2>2. plan[k].nodes \subseteq Nodes
    BY <2>1 DEF EntInv, EntType, PlanTable, PlanRow
  <2>3. /\ \A m \in plan[k].nodes : enabled[m] # None
        /\ \A m1, m2 \in plan[k].nodes : Target[m1] = Target[m2] => m1 = m2
    BY <2>1 DEF EntInv, PlanNodesInv, DistinctTargets
  <2>4. k \in K => \A m \in plan[k].nodes : Target[m] = Target[n] => m = n
    BY DEF SyncPublishedNodePlans, PlanConflict
  <2>5. \A m \in plan'[k].nodes : enabled'[m] # None
    BY <1>2, <2>1, <2>2, <2>3, NoneIsNoRow
  <2>6. DistinctTargets(plan'[k].nodes)
    BY <2>1, <2>3, <2>4 DEF DistinctTargets
  <2> QED BY <2>5, <2>6
<1>4. PlanNodesInv'
  BY <1>3 DEF PlanNodesInv
<1> QED BY <1>1, <1>4

\* A node and its places in plans change; whoever has one of those plans is reconciled.
LEMMA NodeChangeInv ==
  ASSUME EntInv, NEW n \in Nodes, NEW on \in BOOLEAN, NEW K \in SUBSET Plans, NEW C \in SUBSET Plans,
         SyncPublishedNodePlans(n, K), enabled' = [enabled EXCEPT ![n] = on], UNCHANGED server,
         \A k \in Plans \ C : plan[k] # None => (n \in plan[k].nodes <=> k \in K) /\ (k \in K => enabled[n] = on),
         ReconcileAll(sub, SubscribersOf(C))
  PROVE  EntInv' /\ \A u \in Users : ~sub[u].due => Used(sub'[u]) = Used(sub[u])
<1> DEFINE U == SubscribersOf(C)
<1>1. /\ plan' \in PlanTable /\ enabled' \in NodeTable /\ PlanNodesInv'
  BY InPlansFacts, NodePlansKept
<1>2. U \in SUBSET Users /\ \A u \in Users \ U : sub[u].plan \notin C
  BY DEF SubscribersOf
<1>3. \A m \in Nodes : enabled'[m] = IF m = n THEN on ELSE enabled[m]
  BY DEF EntInv, EntType, NodeTable
<1>4. ASSUME NEW u \in Users \ U
      PROVE  /\ SameNodes(sub[u], plan, enabled, server, plan', enabled', server')
             /\ SameTerms(sub[u], plan, plan')
  <2>1. CASE sub[u].plan = None
    BY <2>1 DEF SameNodes, SameTerms, PlanOf
  <2>2. CASE sub[u].plan # None
    <3> DEFINE k == sub[u].plan
    <3>1. k \in Plans \ C /\ plan[k] # None
      BY <1>2, <2>2 DEF EntInv, EntType, SubscriberRow, PlanOfInv
    <3>2. PlanOf(sub[u], plan) = plan[k] /\ PlanOf(sub[u], plan') = plan'[k]
      BY <2>2 DEF PlanOf
    <3> HIDE DEF k
    <3>3. /\ plan'[k] # None /\ plan'[k].on = plan[k].on /\ plan'[k].limit = plan[k].limit
          /\ plan'[k].nodes = IF k \in K THEN plan[k].nodes \cup {n} ELSE plan[k].nodes \ {n}
      BY <3>1, InPlansFacts
    <3>4. (n \in plan[k].nodes <=> k \in K) /\ (k \in K => enabled[n] = on)
      BY <3>1
    <3>5. plan'[k].nodes = plan[k].nodes
      BY <3>3, <3>4
    <3>6. \A m \in Nodes : m \in plan[k].nodes => enabled'[m] = enabled[m]
      BY <1>3, <3>4
    <3> QED BY <3>1, <3>2, <3>3, <3>5, <3>6 DEF SameNodes, SameTerms
  <2> QED BY <2>1, <2>2
<1>5. \A u \in Users : sub[u].plan # None => plan'[sub[u].plan] # None
  <2>1. \A k \in Plans : plan[k] # None => plan'[k] # None
    BY InPlansFacts
  <2>2. \A u \in Users : sub[u].plan # None => sub[u].plan \in Plans /\ plan[sub[u].plan] # None
    BY DEF EntInv, EntType, PlanOfInv, SubscriberRow
  <2> QED BY <2>1, <2>2
<1>6. \A u \in Users : SameClients(sub[u], sub[u])
  BY SameClientsRefl
<1>7. /\ sub' \in [Users -> SubscriberRow] /\ told' \in [Servers -> SUBSET (Users \X Proxies)] /\ waiting' \subseteq Users
      /\ PlanOfInv' /\ HeldInv' /\ SnapInv' /\ ServersAreTold'
      /\ \A u \in Users : ~sub[u].due => Used(sub'[u]) = Used(sub[u])
  <2> HIDE DEF U
  <2>1. ReconcileAll(sub, U)
    BY DEF U
  <2> QED BY <1>1, <1>2, <1>4, <1>5, <1>6, <2>1, ReconcileAllInv DEF EntInv, EntType
<1> QED BY <1>1, <1>7 DEF EntInv, EntType

LEMMA CreatePublishedNodeInv ==
  ASSUME EntInv, NEW n \in Nodes, NEW on \in BOOLEAN, NEW K \in SUBSET Plans, CreatePublishedNode(n, on, K)
  PROVE  EntInv' /\ \A u \in Users : ~sub[u].due => Used(sub'[u]) = Used(sub[u])
<1>1. \A k \in Plans \ K : plan[k] # None => n \notin plan[k].nodes
  BY DEF CreatePublishedNode, EntInv, PlanNodesInv
<1> QED BY <1>1, NodeChangeInv DEF CreatePublishedNode

LEMMA UpdatePublishedNodeInv ==
  ASSUME EntInv, NEW n \in Nodes, NEW on \in BOOLEAN, NEW K \in SUBSET Plans, UpdatePublishedNode(n, on, K)
  PROVE  EntInv' /\ \A u \in Users : ~sub[u].due => Used(sub'[u]) = Used(sub[u])
<1> DEFINE C == IF on # enabled[n] THEN K \cup Changed(n, K) ELSE Changed(n, K)
<1>1. C \in SUBSET Plans
  BY DEF Changed, PlansWith
<1>2. \A k \in Plans \ C : plan[k] # None => (n \in plan[k].nodes <=> k \in K) /\ (k \in K => enabled[n] = on)
  BY DEF Changed, PlansWith
<1>3. /\ SyncPublishedNodePlans(n, K) /\ enabled' = [enabled EXCEPT ![n] = on] /\ UNCHANGED server
      /\ ReconcileAll(sub, SubscribersOf(C))
  BY DEF UpdatePublishedNode
<1> HIDE DEF C
<1> QED BY <1>1, <1>2, <1>3, NodeChangeInv

LEMMA DeletePublishedNodeInv ==
  ASSUME EntInv, NEW n \in Nodes, DeletePublishedNode(n)
  PROVE  EntInv'
<1>1. /\ enabled' = [enabled EXCEPT ![n] = None] /\ UNCHANGED <<plan, sub, server, told, waiting>>
      /\ \A k \in Plans : plan[k] # None => n \notin plan[k].nodes
  BY DEF DeletePublishedNode, PlansWith
<1>2. enabled' \in NodeTable /\ \A m \in Nodes : m # n => enabled'[m] = enabled[m]
  BY <1>1 DEF EntInv, EntType, NodeTable
<1>3. PlanNodesInv'
  BY <1>1, <1>2 DEF EntInv, EntType, PlanTable, PlanRow, PlanNodesInv
<1>4. \A u \in Users : PlanOf(sub[u], plan) # None => n \notin PlanOf(sub[u], plan).nodes
  BY <1>1 DEF EntInv, EntType, SubscriberRow, PlanOf
<1>5. \A u \in Users : /\ SameNodes(sub[u], plan, enabled, server, plan', enabled', server')
                       /\ SameTerms(sub[u], plan, plan')
  BY <1>1, <1>2, <1>4 DEF SameNodes, SameTerms
<1>6. EntType' /\ PlanOfInv' /\ HeldInv' /\ SnapInv' /\ ServersAreTold'
  BY <1>1, <1>2, <1>5, RowsRestInv DEF EntInv, EntType
<1> QED BY <1>3, <1>6 DEF EntInv

\* Nothing but rows of subscribers changes, and those whose row does are reconciled.
LEMMA RowChangeInv ==
  ASSUME EntInv, NEW b \in [Users -> SubscriberRow], NEW U \in SUBSET Users,
         UNCHANGED <<plan, enabled, server>>, ReconcileAll(b, U),
         \A u \in Users : SameClients(sub[u], b[u]),
         \A u \in Users \ U : b[u] = sub[u],
         \A u \in Users : b[u].plan # None => plan[b[u].plan] # None
  PROVE  EntInv' /\ \A u \in Users : ~b[u].due => Used(sub'[u]) = Used(b[u])
<1>1. \A u \in Users \ U : /\ SameNodes(sub[u], plan, enabled, server, plan', enabled', server')
                           /\ SameTerms(sub[u], plan, plan')
  BY DEF SameNodes, SameTerms
<1>2. plan' \in PlanTable /\ enabled' \in NodeTable /\ server' \in ServerTable
  BY DEF EntInv, EntType
<1>3. /\ \A u \in Users : b[u].plan # None => plan'[b[u].plan] # None
      /\ \A s \in Servers : server'[s] = "active" => server[s] = "active"
  OBVIOUS
<1>4. /\ sub' \in [Users -> SubscriberRow] /\ told' \in [Servers -> SUBSET (Users \X Proxies)] /\ waiting' \subseteq Users
      /\ PlanOfInv' /\ HeldInv' /\ SnapInv' /\ ServersAreTold'
      /\ \A u \in Users : ~b[u].due => Used(sub'[u]) = Used(b[u])
  BY <1>1, <1>2, <1>3, ReconcileAllInv
<1>5. PlanNodesInv'
  BY DEF EntInv, PlanNodesInv
<1> QED BY <1>2, <1>4, <1>5 DEF EntInv, EntType

\* The rows as they are.
LEMMA LookInv ==
  ASSUME EntInv, NEW U \in SUBSET Users, UNCHANGED <<plan, enabled, server>>, ReconcileAll(sub, U)
  PROVE  EntInv' /\ \A u \in Users : ~sub[u].due => Used(sub'[u]) = Used(sub[u])
<1>1. \A u \in Users : SameClients(sub[u], sub[u])
  BY SameClientsRefl
<1>2. sub \in [Users -> SubscriberRow] /\ \A u \in Users : sub[u].plan # None => plan[sub[u].plan] # None
  BY DEF EntInv, EntType, PlanOfInv
<1> QED BY <1>1, <1>2, RowChangeInv

\* One row.
LEMMA OneRowInv ==
  ASSUME EntInv, NEW u \in Users, NEW r \in SubscriberRow, UNCHANGED <<plan, enabled, server>>,
         ReconcileAll([sub EXCEPT ![u] = r], {u}), SameClients(sub[u], r),
         r.plan # None => plan[r.plan] # None
  PROVE  /\ EntInv' /\ (~r.due => Used(sub'[u]) = Used(r))
         /\ \A v \in Users \ {u} : ~sub[v].due => Used(sub'[v]) = Used(sub[v])
<1> DEFINE b == [sub EXCEPT ![u] = r]
<1>1. /\ b \in [Users -> SubscriberRow] /\ b[u] = r
      /\ \A v \in Users \ {u} : b[v] = sub[v]
  BY DEF EntInv, EntType
<1>2. ReconcileAll(b, {u})
  OBVIOUS
<1> HIDE DEF b
<1>3. \A v \in Users : SameClients(sub[v], b[v])
  BY <1>1, SameClientsRefl
<1>4. \A v \in Users : b[v].plan # None => plan[b[v].plan] # None
  BY <1>1 DEF EntInv, PlanOfInv
<1>5. EntInv' /\ \A v \in Users : ~b[v].due => Used(sub'[v]) = Used(b[v])
  BY <1>1, <1>2, <1>3, <1>4, RowChangeInv
<1> QED BY <1>1, <1>5

LEMMA UpdateSubscriberInv ==
  ASSUME EntInv, NEW u \in Users, NEW k \in Plans \cup {None}, NEW on \in BOOLEAN, UpdateSubscriber(u, k, on)
  PROVE  EntInv' /\ \A v \in Users : ~sub[v].due => Used(sub'[v]) = Used(sub[v])
<1>1. PICK expired \in {FALSE, sub[u].expired} :
         ReconcileAll([sub EXCEPT ![u] = [sub[u] EXCEPT !.plan = k, !.on = on, !.expired = expired]], {u})
  BY DEF UpdateSubscriber, EntInv, EntType
<1> DEFINE r == [sub[u] EXCEPT !.plan = k, !.on = on, !.expired = expired]
<1>2. sub[u] \in SubscriberRow /\ expired \in BOOLEAN
  BY DEF EntInv, EntType, SubscriberRow
<1>3. /\ r \in SubscriberRow /\ r.plan = k /\ r.due = sub[u].due
      /\ r.archived = sub[u].archived /\ r.clients = sub[u].clients
  <2> DEFINE C == [Proxies -> ManagedClient \cup {None}]
             P == Plans \cup {None}
  <2>1. SubscriberRow = [plan : P, on : BOOLEAN, expired : BOOLEAN, due : BOOLEAN, archived : Nat, clients : C]
    BY DEF SubscriberRow
  <2>2. k \in P
    OBVIOUS
  <2> HIDE DEF C, P
  <2> QED BY <1>2, <2>1, <2>2
<1>4. ReconcileAll([sub EXCEPT ![u] = r], {u})
  BY <1>1
<1> HIDE DEF r
<1>5. SameClients(sub[u], r)
  BY <1>3 DEF SameClients
<1>6. r.plan # None => plan[r.plan] # None
  BY <1>3 DEF UpdateSubscriber
<1>7. Used(r) = Used(sub[u])
  BY <1>3 DEF Used, Charged
<1>8. /\ EntInv' /\ (~r.due => Used(sub'[u]) = Used(r))
      /\ \A v \in Users \ {u} : ~sub[v].due => Used(sub'[v]) = Used(sub[v])
  BY <1>3, <1>4, <1>5, <1>6, OneRowInv DEF UpdateSubscriber
<1> QED BY <1>3, <1>7, <1>8

LEMMA ResetSubscriberTrafficInv ==
  ASSUME EntInv, NEW u \in Users, ResetSubscriberTraffic(u)
  PROVE  EntInv' /\ \A v \in Users \ {u} : ~sub[v].due => Used(sub'[v]) = Used(sub[v])
<1> DEFINE z == ZeroUsage(sub[u])
           r == [z EXCEPT !.due = FALSE]
<1>1. sub[u] \in SubscriberRow /\ u \in DOMAIN sub
  BY DEF EntInv, EntType
<1>2. z \in SubscriberRow /\ z.plan = sub[u].plan /\ SameClients(sub[u], z)
  BY <1>1, ZeroUsageFacts
<1>3. ReconcileAll([sub EXCEPT ![u] = r], {u})
  BY <1>1 DEF ResetSubscriberTraffic
<1> HIDE DEF z
<1>4. r \in SubscriberRow /\ r.plan = z.plan /\ r.clients = z.clients
  BY <1>2 DEF SubscriberRow
<1> HIDE DEF r
<1>5. SameClients(sub[u], r)
  BY <1>2, <1>4 DEF SameClients
<1>6. r.plan # None => plan[r.plan] # None
  BY <1>2, <1>4 DEF EntInv, PlanOfInv
<1> QED BY <1>3, <1>4, <1>5, <1>6, OneRowInv DEF ResetSubscriberTraffic

LEMMA TimePassesInv ==
  ASSUME EntInv, NEW u \in Users, TimePasses(u)
  PROVE  EntInv' /\ \A v \in Users : Used(sub'[v]) = Used(sub[v])
<1>1. PICK r \in SubscriberRow :
        /\ sub' = [sub EXCEPT ![u] = r] /\ r.plan = sub[u].plan
        /\ r.archived = sub[u].archived /\ r.clients = sub[u].clients
  <2>1. sub[u] \in SubscriberRow
    BY DEF EntInv, EntType
  <2>2. CASE sub' = [sub EXCEPT ![u].expired = TRUE]
    <3>1. sub' = [sub EXCEPT ![u] = [sub[u] EXCEPT !.expired = TRUE]]
      BY <2>2 DEF EntInv, EntType
    <3>2. LET r == [sub[u] EXCEPT !.expired = TRUE] IN
            r \in SubscriberRow /\ r.plan = sub[u].plan /\ r.archived = sub[u].archived /\ r.clients = sub[u].clients
      BY <2>1 DEF SubscriberRow
    <3> QED BY <3>1, <3>2
  <2>3. CASE sub' = [sub EXCEPT ![u].due = TRUE]
    <3>1. sub' = [sub EXCEPT ![u] = [sub[u] EXCEPT !.due = TRUE]]
      BY <2>3 DEF EntInv, EntType
    <3>2. LET r == [sub[u] EXCEPT !.due = TRUE] IN
            r \in SubscriberRow /\ r.plan = sub[u].plan /\ r.archived = sub[u].archived /\ r.clients = sub[u].clients
      BY <2>1 DEF SubscriberRow
    <3> QED BY <3>1, <3>2
  <2> QED BY <2>2, <2>3 DEF TimePasses
<1>2. /\ sub' \in [Users -> SubscriberRow] /\ sub'[u] = r
      /\ \A v \in Users \ {u} : sub'[v] = sub[v]
  BY <1>1 DEF EntInv, EntType
<1>3. waiting' = waiting \cup {u} /\ UNCHANGED <<plan, enabled, server, told>>
  BY DEF TimePasses
<1>4. \A v \in Users : sub'[v].plan = sub[v].plan /\ sub'[v].clients = sub[v].clients /\ sub'[v].archived = sub[v].archived
  BY <1>1, <1>2
<1>5. EntType' /\ PlanNodesInv'
  BY <1>2, <1>3 DEF EntInv, EntType, PlanNodesInv
<1>6. PlanOfInv'
  BY <1>3, <1>4 DEF EntInv, PlanOfInv
<1>7. HeldInv'
  <2>1. \A v \in Users : Held(sub'[v]) = Held(sub[v])
    BY <1>4 DEF Held
  <2>2. \A v \in Users : Required(sub'[v], plan, enabled, server) = Required(sub[v], plan, enabled, server)
    BY <1>4 DEF Required, PlanOf
  <2> QED BY <1>3, <2>1, <2>2 DEF EntInv, HeldInv
<1>8. SnapInv'
  BY <1>2, <1>3 DEF EntInv, SnapInv
<1>9. ServersAreTold'
  <2>1. \A v \in Users : SameClients(sub[v], sub'[v])
    BY <1>4 DEF SameClients
  <2>2. \A s \in Servers : Content(s, sub) = Content(s, sub')
    BY <2>1, SameContent
  <2> QED BY <1>3, <2>2 DEF EntInv, ServersAreTold
<1>10. \A v \in Users : Used(sub'[v]) = Used(sub[v])
  BY <1>4 DEF Used, Charged
<1> QED BY <1>5, <1>6, <1>7, <1>8, <1>9, <1>10 DEF EntInv

\* A report charges the clients it names and no other.
LEMMA ChargeFacts ==
  ASSUME NEW r \in SubscriberRow, NEW u, NEW R, \A p \in Proxies : <<u, p>> \in R => r.clients[p] # None
  PROVE  LET q == Charge(r, u, R) IN
         /\ q \in SubscriberRow /\ q.plan = r.plan /\ q.due = r.due /\ SameClients(r, q)
         /\ Used(r) <= Used(q)
<1> DEFINE cl == [p \in Proxies |-> IF <<u, p>> \in R THEN [r.clients[p] EXCEPT !.charged = @ + 1] ELSE r.clients[p]]
           q == Charge(r, u, R)
           more == [p \in Proxies |-> IF <<u, p>> \in R THEN 1 ELSE 0]
<1>1. ASSUME NEW p \in Proxies, <<u, p>> \in R
      PROVE  /\ cl[p] \in ManagedClient /\ cl[p].snap = r.clients[p].snap
             /\ cl[p].charged = r.clients[p].charged + 1
  <2>1. r.clients[p] \in ManagedClient
    BY <1>1 DEF SubscriberRow
  <2>2. cl[p] = [r.clients[p] EXCEPT !.charged = @ + 1]
    BY <1>1
  <2> QED BY <2>1, <2>2 DEF ManagedClient
<1>2. \A p \in Proxies : <<u, p>> \notin R => cl[p] = r.clients[p]
  OBVIOUS
<1>3. cl \in [Proxies -> ManagedClient \cup {None}]
  BY <1>1, <1>2 DEF SubscriberRow
<1>4. q = [r EXCEPT !.clients = cl]
  BY DEF Charge
<1> HIDE DEF cl, q
<1>5. /\ q \in SubscriberRow /\ q.archived = r.archived /\ q.clients = cl
      /\ q.plan = r.plan /\ q.due = r.due
  <2> DEFINE C == [Proxies -> ManagedClient \cup {None}]
             P == Plans \cup {None}
  <2>1. SubscriberRow = [plan : P, on : BOOLEAN, expired : BOOLEAN, due : BOOLEAN, archived : Nat, clients : C]
    BY DEF SubscriberRow
  <2>2. cl \in C
    BY <1>3
  <2> HIDE DEF C, P
  <2> QED BY <1>4, <2>1, <2>2
<1>6. SameClients(r, q)
  BY <1>1, <1>2, <1>5, NoneIsNoRow DEF SameClients
<1>7. \A p \in Proxies : Charged(q)[p] = Charged(r)[p] + more[p]
  <2> SUFFICES ASSUME NEW p \in Proxies PROVE Charged(q)[p] = Charged(r)[p] + more[p]
    OBVIOUS
  <2>1. CASE <<u, p>> \in R
    <3>1. q.clients[p] # None /\ q.clients[p].charged = r.clients[p].charged + 1 /\ r.clients[p] # None
      BY <1>1, <1>5, <2>1, NoneIsNoRow
    <3> QED BY <2>1, <3>1 DEF Charged
  <2>2. CASE <<u, p>> \notin R
    <3>1. q.clients[p] = r.clients[p] /\ more[p] = 0
      BY <1>2, <1>5, <2>2
    <3>2. Charged(q)[p] = Charged(r)[p] /\ Charged(r)[p] \in Nat
      BY <3>1, UsedType DEF Charged
    <3> QED BY <3>1, <3>2
  <2> QED BY <2>1, <2>2
<1>8. Charged(r) \in [Proxies -> Nat] /\ Charged(q) \in [Proxies -> Nat] /\ more \in [Proxies -> Nat]
  BY <1>5, UsedType
<1> HIDE DEF more
<1>9. SumFunction(Charged(q)) = SumFunction(Charged(r)) + SumFunction(more)
  BY <1>7, <1>8, SumAdds, EntitlementAssumption
<1>10. SumFunction(Charged(r)) \in Nat /\ SumFunction(more) \in Nat /\ r.archived \in Nat
  BY <1>8, SumType, EntitlementAssumption DEF SubscriberRow
<1>11. Used(r) <= Used(q)
  BY <1>5, <1>9, <1>10 DEF Used
<1> QED BY <1>5, <1>6, <1>11 DEF q

LEMMA RecordClientTrafficInv ==
  ASSUME EntInv, NEW s \in Servers, NEW R \in SUBSET ClientsOn(s), RecordClientTraffic(s, R)
  PROVE  EntInv' /\ \A u \in Users : ~sub[u].due => Used(sub[u]) <= Used(sub'[u])
<1> DEFINE U == {x[1] : x \in R}
           b == [u \in Users |-> IF u \in U THEN Charge(ResetCycleIfDue(sub[u]), u, R) ELSE sub[u]]
<1>1. UNCHANGED <<plan, enabled, server>> /\ ReconcileAll(b, U)
  BY DEF RecordClientTraffic
<1>2. /\ U \in SUBSET Users
      /\ \A u \in Users, p \in Proxies : <<u, p>> \in R => sub[u].clients[p] # None
  BY DEF ClientsOn
<1>3. ASSUME NEW u \in U
      PROVE  /\ b[u] \in SubscriberRow /\ SameClients(sub[u], b[u]) /\ b[u].plan = sub[u].plan
             /\ ~sub[u].due => Used(sub[u]) <= Used(b[u]) /\ ~b[u].due
  <2> DEFINE r == ResetCycleIfDue(sub[u])
  <2>1. u \in Users /\ sub[u] \in SubscriberRow
    BY <1>2 DEF EntInv, EntType
  <2>2. r \in SubscriberRow /\ r.plan = sub[u].plan /\ SameClients(sub[u], r) /\ (~sub[u].due => r = sub[u])
    BY <2>1, ResetFacts
  <2>3. b[u] = Charge(r, u, R)
    BY <2>1
  <2> HIDE DEF r
  <2>4. \A p \in Proxies : <<u, p>> \in R => r.clients[p] # None
    BY <1>2, <2>1, <2>2 DEF SameClients
  <2>5. /\ b[u] \in SubscriberRow /\ b[u].plan = r.plan /\ b[u].due = r.due /\ SameClients(r, b[u])
        /\ Used(r) <= Used(b[u])
    <3> HIDE DEF b, U
    <3> QED BY <2>2, <2>3, <2>4, ChargeFacts
  <2>6. SameClients(sub[u], b[u])
    <3> HIDE DEF b, U
    <3> QED BY <2>2, <2>5 DEF SameClients
  <2> HIDE DEF b, U
  <2> QED BY <2>2, <2>5, <2>6
<1>4. \A u \in Users \ U : b[u] = sub[u]
  OBVIOUS
<1>5. DOMAIN b = Users /\ b = [u \in Users |-> b[u]]
  OBVIOUS
<1> HIDE DEF b, U
<1>6. b \in [Users -> SubscriberRow]
  BY <1>3, <1>4, <1>5 DEF EntInv, EntType
<1>7. \A u \in Users : SameClients(sub[u], b[u])
  BY <1>3, <1>4, SameClientsRefl
<1>8. \A u \in Users : b[u].plan # None => plan[b[u].plan] # None
  BY <1>3, <1>4 DEF EntInv, PlanOfInv
<1>9. EntInv' /\ \A u \in Users : ~b[u].due => Used(sub'[u]) = Used(b[u])
  BY <1>1, <1>2, <1>4, <1>6, <1>7, <1>8, RowChangeInv
<1>10. \A u \in Users : Used(sub[u]) \in Nat
  BY UsedType DEF EntInv, EntType
<1>11. \A u \in Users : ~sub[u].due => ~b[u].due /\ Used(sub[u]) <= Used(b[u])
  BY <1>3, <1>4, <1>10
<1> QED BY <1>9, <1>11

\* The nodes of a Server that is going are disabled; whoever had them is reconciled.
LEMMA CleanupInv ==
  ASSUME EntInv, NEW s \in Servers, NEW sv \in ServerTable, CleanupDependencies(s, sv),
         plan' \in PlanTable, enabled' \in NodeTable, server' \in ServerTable,
         \A r \in SubscriberRow : /\ SameNodes(r, plan, Disabled(s), sv, plan', enabled', server')
                                  /\ SameTerms(r, plan, plan'),
         \A t \in Servers : server'[t] = "active" => server[t] = "active" /\ t # s,
         sv[s] \notin {"active", "leaving"}, \A t \in Servers \ {s} : sv[t] = server[t]
  PROVE  /\ sub' \in [Users -> SubscriberRow] /\ told' \in [Servers -> SUBSET (Users \X Proxies)] /\ waiting' \subseteq Users
         /\ PlanOfInv' /\ HeldInv' /\ SnapInv' /\ ServersAreTold'
         /\ \A u \in Users : ~sub[u].due => Used(sub'[u]) = Used(sub[u])
<1> DEFINE U == SubscribersOf(UNION {PlansWith(n) : n \in {m \in NodesOn(s) : enabled[m]}})
                  \cup {x[1] : x \in ClientsOn(s)}
           c == Reconciled(sub, U, plan, Disabled(s), sv)
           T == {t \in (UNION {Affected(sub[u], c[u]) : u \in U}) \ {s} : server[t] = "active"}
<1>1. /\ sub' = c /\ waiting' = waiting \ U
      /\ told' = [t \in Servers |-> IF t \in T THEN Content(t, c) ELSE told[t]]
  BY DEF CleanupDependencies, Reconciled
<1>2. U \in SUBSET Users
  BY DEF SubscribersOf, ClientsOn
<1>3. Disabled(s) \in NodeTable
  BY DEF Disabled, NodeTable, EntInv, EntType
<1>4. RowsAgree(c, sub, U, plan, Disabled(s), sv)
  <2> HIDE DEF U
  <2> QED BY <1>2, <1>3, ReconciledRows DEF EntInv, EntType
<1>5. ASSUME NEW u \in Users \ U
      PROVE  SameNodes(sub[u], plan, enabled, server, plan, Disabled(s), sv)
  <2>1. SUFFICES ASSUME PlanOf(sub[u], plan) # None
                 PROVE  \A m \in Nodes : m \in PlanOf(sub[u], plan).nodes =>
                          /\ enabled[m] = TRUE <=> Disabled(s)[m] = TRUE
                          /\ enabled[m] = TRUE => (server[At[Target[m]]] \in {"active", "leaving"} <=> sv[At[Target[m]]] \in {"active", "leaving"})
    BY DEF SameNodes
  <2> DEFINE k == sub[u].plan
  <2>2. k \in Plans /\ PlanOf(sub[u], plan) = plan[k] /\ plan[k] # None
    BY <2>1 DEF EntInv, EntType, SubscriberRow, PlanOf
  <2>3. \A m \in NodesOn(s) : m \in plan[k].nodes => enabled[m] # TRUE
    <3> SUFFICES ASSUME NEW m \in NodesOn(s), m \in plan[k].nodes, enabled[m] = TRUE PROVE FALSE
      OBVIOUS
    <3>1. k \in PlansWith(m)
      BY <2>2 DEF PlansWith
    <3>2. k \in UNION {PlansWith(n) : n \in {n \in NodesOn(s) : enabled[n]}}
      BY <3>1
    <3> QED BY <3>2 DEF SubscribersOf
  <2>4. \A m \in Nodes : Disabled(s)[m] = IF m \in NodesOn(s) THEN FALSE ELSE enabled[m]
    BY DEF Disabled
  <2>5. \A m \in Nodes : enabled[m] = TRUE /\ m \notin NodesOn(s) => At[Target[m]] # s
    BY NoneIsNoRow DEF NodesOn
  <2>6. \A m \in Nodes : At[Target[m]] \in Servers
    BY EntitlementAssumption
  <2> HIDE DEF U, k
  <2> QED BY <2>2, <2>3, <2>4, <2>5, <2>6
<1> HIDE DEF U, c
<1>6. /\ c \in [Users -> SubscriberRow] /\ sub \in [Users -> SubscriberRow]
      /\ \A u \in Users : c[u].plan = sub[u].plan
      /\ \A u \in Users \ U : c[u] = sub[u]
      /\ \A u \in U : /\ Held(c[u]) = Required(c[u], plan, Disabled(s), sv)
                      /\ \A p \in Held(c[u]) : c[u].clients[p].snap = Active(c[u], plan)
                      /\ Used(c[u]) = Used(ResetCycleIfDue(sub[u]))
  BY <1>4 DEF RowsAgree, EntInv, EntType
<1>7. \A u \in Users : Held(c[u]) = Required(c[u], plan, Disabled(s), sv)
  <2>1. \A u \in Users \ U : Required(sub[u], plan, enabled, server) = Required(sub[u], plan, Disabled(s), sv)
    BY <1>5, <1>6, SameNodesFacts DEF EntInv, EntType
  <2> QED BY <1>6, <2>1 DEF EntInv, HeldInv
<1>8. \A u \in Users : /\ Required(c[u], plan, Disabled(s), sv) = Required(c[u], plan', enabled', server')
                       /\ Active(c[u], plan) = Active(c[u], plan')
  BY <1>6, SameNodesFacts, SameTermsFacts DEF EntInv, EntType
<1>9. told' \in [Servers -> SUBSET (Users \X Proxies)] /\ waiting' \subseteq Users
  <2>1. \A t \in Servers : Content(t, c) \in SUBSET (Users \X Proxies)
    BY DEF Content
  <2> HIDE DEF T
  <2> QED BY <1>1, <2>1 DEF EntInv, EntType
<1>10. PlanOfInv'
  <2>1. \A u \in Users : SameTerms(sub[u], plan, plan')
    BY <1>6
  <2>2. \A u \in Users : sub[u].plan # None => plan'[sub[u].plan] # None
    BY <2>1 DEF SameTerms, PlanOf, EntInv, PlanOfInv
  <2> QED BY <1>1, <1>6, <2>2 DEF PlanOfInv
<1>11. HeldInv'
  BY <1>1, <1>7, <1>8 DEF HeldInv
<1>12. SnapInv'
  <2>1. ASSUME NEW u \in Users, u \notin waiting'
        PROVE  \A p \in Held(c[u]) : c[u].clients[p].snap = Active(c[u], plan')
    <3>1. u \in U \/ (u \notin U /\ u \notin waiting)
      BY <1>1, <2>1
    <3> QED BY <1>6, <1>8, <2>1, <3>1 DEF EntInv, SnapInv
  <2> QED BY <1>1, <2>1 DEF SnapInv
<1>13. ServersAreTold'
  <2>1. ASSUME NEW t \in Servers, server'[t] = "active"
        PROVE  told'[t] = Content(t, c)
    <3>1. CASE t \in T
      BY <1>1, <3>1
    <3>2. CASE t \notin T
      <4>1. told'[t] = told[t]
        <5> HIDE DEF T
        <5> QED BY <1>1, <3>2
      <4>2. told[t] = Content(t, sub)
        BY <2>1 DEF EntInv, ServersAreTold
      <4>3. Untouched(t, sub, c, U)
        <5>1. server[t] = "active" /\ t # s
          BY <2>1
        <5>2. \A u \in U : t \notin Affected(sub[u], c[u])
          BY <3>2, <5>1
        <5> HIDE DEF T
        <5> QED BY <1>6, <5>2 DEF Untouched
      <4>4. Content(t, c) = Content(t, sub)
        BY <1>2, <4>3, UntouchedContent
      <4> QED BY <4>1, <4>2, <4>4
    <3> QED BY <3>1, <3>2
  <2> QED BY <1>1, <2>1 DEF ServersAreTold
<1>14. \A u \in Users : ~sub[u].due => Used(c[u]) = Used(sub[u])
  BY <1>6 DEF ResetCycleIfDue
<1> QED BY <1>1, <1>6, <1>9, <1>10, <1>11, <1>12, <1>13, <1>14

LEMMA ArchiveServerInv ==
  ASSUME EntInv, NEW s \in Servers, ArchiveServer(s)
  PROVE  EntInv' /\ \A u \in Users : ~sub[u].due => Used(sub'[u]) = Used(sub[u])
<1>1. /\ server' = [server EXCEPT ![s] = "archived"] /\ enabled' = Disabled(s)
      /\ CleanupDependencies(s, server') /\ plan' = plan
  BY DEF ArchiveServer
<1>2. /\ server' \in ServerTable /\ server'[s] = "archived"
      /\ \A t \in Servers \ {s} : server'[t] = server[t]
  BY <1>1 DEF EntInv, EntType, ServerTable
<1>3. plan' \in PlanTable /\ enabled' \in NodeTable
  BY <1>1 DEF EntInv, EntType, NodeTable, Disabled
<1>4. \A r \in SubscriberRow : /\ SameNodes(r, plan, Disabled(s), server', plan', enabled', server')
                               /\ SameTerms(r, plan, plan')
  BY <1>1 DEF SameNodes, SameTerms
<1>5. /\ sub' \in [Users -> SubscriberRow] /\ told' \in [Servers -> SUBSET (Users \X Proxies)] /\ waiting' \subseteq Users
      /\ PlanOfInv' /\ HeldInv' /\ SnapInv' /\ ServersAreTold'
      /\ \A u \in Users : ~sub[u].due => Used(sub'[u]) = Used(sub[u])
  <2>1. /\ \A t \in Servers : server'[t] = "active" => server[t] = "active" /\ t # s
        /\ server'[s] \notin {"active", "leaving"}
    BY <1>2
  <2> QED BY <1>1, <1>2, <1>3, <1>4, <2>1, CleanupInv
<1>6. PlanNodesInv'
  <2>1. \A n \in Nodes : enabled[n] # None => enabled'[n] # None
    BY <1>1, NoneIsNoRow DEF Disabled
  <2> QED BY <1>1, <2>1 DEF EntInv, EntType, PlanTable, PlanRow, PlanNodesInv
<1> QED BY <1>2, <1>3, <1>5, <1>6 DEF EntInv, EntType

LEMMA PermanentlyDeleteInv ==
  ASSUME EntInv, NEW s \in Servers, PermanentlyDelete(s)
  PROVE  EntInv' /\ \A u \in Users : ~sub[u].due => Used(sub'[u]) = Used(sub[u])
<1>1. /\ server[s] = "archived" /\ server' = [server EXCEPT ![s] = "deleted"]
      /\ enabled' = [n \in Nodes |-> IF n \in NodesOn(s) THEN None ELSE enabled[n]]
      /\ plan' = [k \in Plans |-> IF plan[k] = None THEN None ELSE [plan[k] EXCEPT !.nodes = @ \ NodesOn(s)]]
      /\ CleanupDependencies(s, server)
  BY DEF PermanentlyDelete, DeleteDependencies
<1>2. /\ server' \in ServerTable /\ server'[s] = "deleted"
      /\ \A t \in Servers \ {s} : server'[t] = server[t]
  BY <1>1 DEF EntInv, EntType, ServerTable
<1>3. enabled' \in NodeTable
  BY <1>1 DEF EntInv, EntType, NodeTable
<1>4. ASSUME NEW k \in Plans, plan[k] # None
      PROVE  /\ plan'[k] \in PlanRow /\ plan'[k].nodes = plan[k].nodes \ NodesOn(s)
             /\ plan'[k].on = plan[k].on /\ plan'[k].limit = plan[k].limit
  <2> DEFINE N == plan[k].nodes \ NodesOn(s)
  <2>1. plan[k] \in PlanRow
    BY <1>4 DEF EntInv, EntType, PlanTable
  <2>2. N \in SUBSET Nodes
    BY <2>1 DEF PlanRow
  <2>3. plan'[k] = [plan[k] EXCEPT !.nodes = N]
    BY <1>1, <1>4, <2>1 DEF PlanRow
  <2> HIDE DEF N
  <2>4. plan'[k] \in PlanRow /\ plan'[k].on = plan[k].on /\ plan'[k].limit = plan[k].limit /\ plan'[k].nodes = N
    BY <2>1, <2>2, <2>3 DEF PlanRow
  <2> QED BY <2>4 DEF N
<1>5. \A k \in Plans : plan[k] = None => plan'[k] = None
  BY <1>1
<1>6. plan' \in PlanTable
  <2>1. DOMAIN plan' = Plans /\ plan' = [k \in Plans |-> plan'[k]]
    BY <1>1
  <2> QED BY <1>4, <1>5, <2>1 DEF PlanTable
<1>7. ASSUME NEW r \in SubscriberRow
      PROVE  /\ SameNodes(r, plan, Disabled(s), server, plan', enabled', server')
             /\ SameTerms(r, plan, plan')
  <2>1. CASE PlanOf(r, plan) = None
    <3>1. PlanOf(r, plan') = None
      BY <1>5, <2>1 DEF PlanOf, SubscriberRow
    <3> QED BY <2>1, <3>1 DEF SameNodes, SameTerms
  <2>2. CASE PlanOf(r, plan) # None
    <3> DEFINE k == r.plan
    <3>1. k \in Plans /\ PlanOf(r, plan) = plan[k] /\ PlanOf(r, plan') = plan'[k] /\ plan[k] # None
      BY <2>2 DEF PlanOf, SubscriberRow
    <3> HIDE DEF k
    <3>2. /\ plan'[k] # None /\ plan'[k].nodes = plan[k].nodes \ NodesOn(s)
          /\ plan'[k].on = plan[k].on /\ plan'[k].limit = plan[k].limit
      BY <1>4, <3>1, NoneIsNoRow
    <3>3. \A m \in Nodes : /\ Disabled(s)[m] = IF m \in NodesOn(s) THEN FALSE ELSE enabled[m]
                           /\ enabled'[m] = IF m \in NodesOn(s) THEN None ELSE enabled[m]
      BY <1>1 DEF Disabled
    <3>4. \A m \in Nodes : server[At[Target[m]]] \in {"active", "leaving"} <=> server'[At[Target[m]]] \in {"active", "leaving"}
      <4>1. \A m \in Nodes : At[Target[m]] \in Servers
        BY EntitlementAssumption
      <4> QED BY <1>1, <1>2, <4>1
    <3>5. \A m \in Nodes : (m \in plan[k].nodes /\ Disabled(s)[m] = TRUE) <=> (m \in plan'[k].nodes /\ enabled'[m] = TRUE)
      BY <3>2, <3>3, NoneIsNoRow
    <3>6. SameNodes(r, plan, Disabled(s), server, plan', enabled', server')
      BY <3>1, <3>2, <3>4, <3>5 DEF SameNodes
    <3>7. SameTerms(r, plan, plan')
      BY <3>1, <3>2 DEF SameTerms
    <3> QED BY <3>6, <3>7
  <2> QED BY <2>1, <2>2
<1>8. /\ sub' \in [Users -> SubscriberRow] /\ told' \in [Servers -> SUBSET (Users \X Proxies)] /\ waiting' \subseteq Users
      /\ PlanOfInv' /\ HeldInv' /\ SnapInv' /\ ServersAreTold'
      /\ \A u \in Users : ~sub[u].due => Used(sub'[u]) = Used(sub[u])
  <2>1. /\ \A t \in Servers : server'[t] = "active" => server[t] = "active" /\ t # s
        /\ server[s] \notin {"active", "leaving"} /\ server \in ServerTable
    BY <1>1, <1>2 DEF EntInv, EntType
  <2> QED BY <1>1, <1>2, <1>3, <1>6, <1>7, <2>1, CleanupInv
<1>9. PlanNodesInv'
  <2>1. ASSUME NEW k \in Plans, plan'[k] # None
        PROVE  (\A n \in plan'[k].nodes : enabled'[n] # None) /\ DistinctTargets(plan'[k].nodes)
    <3>1. plan[k] # None /\ plan'[k].nodes = plan[k].nodes \ NodesOn(s) /\ plan[k].nodes \subseteq Nodes
      BY <1>4, <1>5, <2>1 DEF EntInv, EntType, PlanTable, PlanRow
    <3>2. \A n \in plan'[k].nodes : enabled'[n] # None
      BY <1>1, <3>1 DEF EntInv, PlanNodesInv
    <3>3. DistinctTargets(plan'[k].nodes)
      BY <3>1 DEF EntInv, PlanNodesInv, DistinctTargets
    <3> QED BY <3>2, <3>3
  <2> QED BY <2>1 DEF PlanNodesInv
<1> QED BY <1>2, <1>3, <1>6, <1>8, <1>9 DEF EntInv, EntType

LEMMA RequestDecommissionInv ==
  ASSUME EntInv, NEW s \in Servers, RequestDecommission(s)
  PROVE  EntInv'
<1>1. /\ server[s] = "active" /\ server' = [server EXCEPT ![s] = "leaving"]
      /\ UNCHANGED <<plan, enabled, sub, told, waiting>>
  BY DEF RequestDecommission
<1>2. /\ server' \in ServerTable /\ server'[s] = "leaving"
      /\ \A t \in Servers \ {s} : server'[t] = server[t]
  BY <1>1 DEF EntInv, EntType, ServerTable
<1>3. \A m \in Nodes : server[At[Target[m]]] \in {"active", "leaving"} <=> server'[At[Target[m]]] \in {"active", "leaving"}
  <2>1. \A m \in Nodes : At[Target[m]] \in Servers
    BY EntitlementAssumption
  <2> QED BY <1>1, <1>2, <2>1
<1>4. \A u \in Users : /\ SameNodes(sub[u], plan, enabled, server, plan', enabled', server')
                       /\ SameTerms(sub[u], plan, plan')
  BY <1>1, <1>3 DEF SameNodes, SameTerms
<1>5. \A t \in Servers : server'[t] = "active" => server[t] = "active"
  BY <1>2
<1>6. EntType' /\ PlanOfInv' /\ HeldInv' /\ SnapInv' /\ ServersAreTold'
  <2>1. plan' \in PlanTable /\ enabled' \in NodeTable
    BY <1>1 DEF EntInv, EntType
  <2> QED BY <1>1, <1>2, <1>4, <1>5, <2>1, RowsRestInv
<1>7. PlanNodesInv'
  BY <1>1 DEF EntInv, PlanNodesInv
<1> QED BY <1>6, <1>7 DEF EntInv

LEMMA EntInitInv == EntInit => EntInv
<1> SUFFICES ASSUME EntInit PROVE EntInv
  OBVIOUS
<1> DEFINE r == [plan |-> None, on |-> TRUE, expired |-> FALSE, due |-> FALSE, archived |-> 0,
                 clients |-> [p \in Proxies |-> None]]
<1>1. r \in SubscriberRow /\ r.plan = None /\ r.clients = [p \in Proxies |-> None]
  BY DEF SubscriberRow
<1>2. sub = [u \in Users |-> r]
  BY DEF EntInit
<1> HIDE DEF r
<1>3. EntType
  BY <1>1, <1>2 DEF EntInit, EntType, PlanTable, NodeTable, ServerTable
<1>4. PlanNodesInv /\ PlanOfInv
  BY <1>1, <1>2 DEF EntInit, PlanNodesInv, PlanOfInv
<1>5. Held(r) = {} /\ Required(r, plan, enabled, server) = {}
  BY <1>1 DEF Held, Required, PlanOf
<1>6. HeldInv /\ SnapInv
  BY <1>2, <1>5 DEF HeldInv, SnapInv
<1>7. ServersAreTold
  <2>1. \A s \in Servers : Content(s, sub) = {}
    BY <1>1, <1>2 DEF Content
  <2> QED BY <2>1 DEF ServersAreTold, EntInit
<1> QED BY <1>3, <1>4, <1>6, <1>7 DEF EntInv

\* A step keeps the invariant, and nobody's usage shrinks but in a new cycle or by a
\* reset of that subscriber.
LEMMA EntStep ==
  ASSUME EntInv, EntNext
  PROVE  /\ EntInv'
         /\ \A u \in Users : Used(sub'[u]) < Used(sub[u]) => sub[u].due \/ ResetSubscriberTraffic(u)
<1> DEFINE Kept(u) == ~sub[u].due => Used(sub'[u]) = Used(sub[u])
<1>1. \A u \in Users : Used(sub[u]) \in Nat
  BY UsedType DEF EntInv, EntType
<1>2. CASE EntInv' /\ \A u \in Users : Kept(u)
  BY <1>1, <1>2 DEF EntInv, EntType, SubscriberRow
<1>3. CASE EntInv' /\ UNCHANGED sub
  BY <1>1, <1>3
<1>4. ASSUME NEW k \in Plans, DeletePlan(k)
      PROVE  EntInv' /\ UNCHANGED sub
  BY <1>4, DeletePlanInv DEF DeletePlan
<1>5. ASSUME NEW k \in Plans, NEW limit \in Limits, CreatePlan(k, limit)
      PROVE  EntInv' /\ UNCHANGED sub
  BY <1>5, CreatePlanInv DEF CreatePlan
<1>6. ASSUME NEW k \in Plans, NEW limit \in Limits, NEW on \in BOOLEAN, UpdatePlan(k, on, limit)
      PROVE  EntInv' /\ \A u \in Users : Kept(u)
  BY <1>6, UpdatePlanInv
<1>7. ASSUME NEW k \in Plans, NEW N \in SUBSET Nodes, SetPlanNodes(k, N)
      PROVE  EntInv' /\ \A u \in Users : Kept(u)
  BY <1>7, SetPlanNodesInv
<1>8. ASSUME NEW n \in Nodes, DeletePublishedNode(n)
      PROVE  EntInv' /\ UNCHANGED sub
  BY <1>8, DeletePublishedNodeInv DEF DeletePublishedNode
<1>9. ASSUME NEW n \in Nodes, NEW on \in BOOLEAN, NEW K \in SUBSET Plans,
             CreatePublishedNode(n, on, K) \/ UpdatePublishedNode(n, on, K)
      PROVE  EntInv' /\ \A u \in Users : Kept(u)
  BY <1>9, CreatePublishedNodeInv, UpdatePublishedNodeInv
<1>10. ASSUME NEW u \in Users, NEW k \in Plans \cup {None}, NEW on \in BOOLEAN, UpdateSubscriber(u, k, on)
       PROVE  EntInv' /\ \A v \in Users : Kept(v)
  BY <1>10, UpdateSubscriberInv
<1>11. ASSUME NEW u \in Users, ResetSubscriberTraffic(u)
       PROVE  EntInv' /\ \A v \in Users \ {u} : Kept(v)
  BY <1>11, ResetSubscriberTrafficInv
<1>12. ASSUME NEW u \in Users, ReconcileSubscriber(u)
       PROVE  EntInv' /\ \A v \in Users : Kept(v)
  BY <1>12, LookInv DEF ReconcileSubscriber
<1>13. ASSUME NEW u \in Users, TimePasses(u)
       PROVE  EntInv' /\ \A v \in Users : Kept(v)
  BY <1>13, TimePassesInv
<1>14. ASSUME NEW s \in Servers, FetchConfig(s)
       PROVE  EntInv' /\ \A v \in Users : Kept(v)
  <2> DEFINE U == {x[1] : x \in ClientsOn(s)}
  <2>1. U \in SUBSET Users
    BY DEF ClientsOn
  <2>2. UNCHANGED <<plan, enabled, server>> /\ ReconcileAll(sub, U)
    BY <1>14 DEF FetchConfig
  <2> HIDE DEF U
  <2> QED BY <2>1, <2>2, LookInv
<1>15. ASSUME NEW s \in Servers, NEW R \in SUBSET ClientsOn(s), RecordClientTraffic(s, R)
       PROVE  EntInv' /\ \A v \in Users : ~sub[v].due => Used(sub[v]) <= Used(sub'[v])
  BY <1>15, RecordClientTrafficInv
<1>16. ASSUME NEW s \in Leaving, RequestDecommission(s)
       PROVE  EntInv' /\ UNCHANGED sub
  BY <1>16, RequestDecommissionInv, EntitlementAssumption DEF RequestDecommission
<1>17. ASSUME NEW s \in Leaving, ArchiveServer(s) \/ PermanentlyDelete(s)
       PROVE  EntInv' /\ \A v \in Users : Kept(v)
  BY <1>17, ArchiveServerInv, PermanentlyDeleteInv, EntitlementAssumption
<1>18. ASSUME NEW u \in Users, ResetSubscriberTraffic(u)
       PROVE  /\ EntInv'
              /\ \A v \in Users : Used(sub'[v]) < Used(sub[v]) => sub[v].due \/ ResetSubscriberTraffic(v)
  BY <1>1, <1>11, <1>18
<1>19. ASSUME NEW s \in Servers, NEW R \in SUBSET ClientsOn(s), RecordClientTraffic(s, R)
       PROVE  /\ EntInv'
              /\ \A v \in Users : Used(sub'[v]) < Used(sub[v]) => sub[v].due \/ ResetSubscriberTraffic(v)
  <2>1. EntInv' /\ \A v \in Users : ~sub[v].due => Used(sub[v]) <= Used(sub'[v])
    BY <1>15, <1>19
  <2>2. \A v \in Users : Used(sub'[v]) \in Nat
    BY <2>1, UsedType DEF EntInv, EntType
  <2> QED BY <1>1, <2>1, <2>2
<1> HIDE DEF Kept
<1> QED BY <1>2, <1>3, <1>4, <1>5, <1>6, <1>7, <1>8, <1>9, <1>10, <1>12, <1>13, <1>14, <1>16, <1>17, <1>18, <1>19
        DEF EntNext

\* The required proxies of a plan are each charged by the one node that leads there.
LEMMA OneMultiplier ==
  ASSUME EntInv, NEW u \in Users, NEW p \in Held(sub[u])
  PROVE  sub[u].plan # None /\ Cardinality(Multipliers(u, p)) = 1
<1>1. p \in Required(sub[u], plan, enabled, server)
  BY DEF EntInv, HeldInv
<1>2. PlanOf(sub[u], plan) # None
  BY <1>1 DEF Required
<1> DEFINE k == sub[u].plan
<1>3. k # None /\ k \in Plans /\ PlanOf(sub[u], plan) = plan[k] /\ plan[k] # None
  BY <1>2 DEF PlanOf, EntInv, EntType, SubscriberRow
<1>4. PICK n \in plan[k].nodes : Target[n] = p
  BY <1>1, <1>2, <1>3 DEF Required
<1>5. \A m \in plan[k].nodes : Target[m] = p => m = n
  BY <1>3, <1>4 DEF EntInv, PlanNodesInv, DistinctTargets
<1>6. Multipliers(u, p) = {n}
  BY <1>3, <1>4, <1>5 DEF Multipliers
<1>7. Cardinality({n}) = 1
  BY FS_Singleton
<1> QED BY <1>3, <1>6, <1>7

LEMMA EntInvInvariant == EntSpec => []EntInv
<1>1. EntInv /\ [EntNext]_entVars => EntInv'
  <2> SUFFICES ASSUME EntInv, [EntNext]_entVars PROVE EntInv'
    OBVIOUS
  <2>1. CASE EntNext
    BY <2>1, EntStep
  <2>2. CASE UNCHANGED entVars
    BY <2>2 DEF entVars, EntInv, EntType, PlanNodesInv, PlanOfInv, HeldInv, SnapInv, ServersAreTold
  <2> QED BY <2>1, <2>2
<1> QED BY <1>1, EntInitInv, PTL DEF EntSpec

\* What the plans say reaches every subscriber and every active Server: whatever
\* plans, nodes, profiles and Servers go through, a subscriber has the clients of the
\* enabled nodes of the plan (reconcileSubscriberTx), each charged by exactly one of
\* them (recordSubscriberChargeTx), and an active Server was told of them.
THEOREM PlansAreServed == EntSpec => []PlansReachServers
<1>1. EntInv => PlansReachServers
  <2> SUFFICES ASSUME EntInv PROVE PlansReachServers
    OBVIOUS
  <2>1. ChargesResolve
    BY OneMultiplier DEF ChargesResolve
  <2>2. ClientsFollowPlan
    BY DEF EntInv, HeldInv, SnapInv, ClientsFollowPlan
  <2>3. ServersAreTold
    BY DEF EntInv
  <2> QED BY <2>1, <2>2, <2>3 DEF PlansReachServers
<1> QED BY <1>1, EntInvInvariant, PTL

\* Usage is never lost: the archived usage takes over what a removed client was
\* charged (reconcileSubscriberTx), so that only a new cycle or a reset lowers it.
THEOREM NoUsageIsLost == EntSpec => UsageIsKept
<1> DEFINE Keeps == \A u \in Users : Used(sub[u])' < Used(sub[u]) => sub[u].due \/ ResetSubscriberTraffic(u)
<1>1. EntInv /\ [EntNext]_entVars => [Keeps]_entVars
  <2> SUFFICES ASSUME EntInv, EntNext PROVE Keeps
    OBVIOUS
  <2>1. \A u \in Users : Used(sub'[u]) < Used(sub[u]) => sub[u].due \/ ResetSubscriberTraffic(u)
    BY EntStep
  <2> QED BY <2>1
<1> QED BY <1>1, EntInvInvariant, PTL DEF EntSpec, UsageIsKept

(***************************************************************************)
(* The calendar.                                                           *)
(***************************************************************************)
Months == 12 * Years
CalendarEnd == MonthStart[Months]
Days == 0 .. CalendarEnd - 1

LEMMA MonthsFacts == Months \in Nat /\ Months >= 12 /\ LastMonth = Months - 1
BY CalendarAssumption DEF Months, LastMonth

LEMMA MonthLengths == \A m \in Nat : MonthLength(m) \in 28 .. 31
<1> SUFFICES ASSUME NEW m \in Nat
             PROVE  MonthLength(m) \in 28 .. 31
  OBVIOUS
<1>1. (m % 12) + 1 \in 1 .. 12
  OBVIOUS
<1> QED
  BY <1>1 DEF MonthLength

\* What holds of zero and is passed on holds of every number.
LEMMA Induct ==
  ASSUME NEW T, 0 \in T, \A n \in Nat : n \in T => n + 1 \in T
  PROVE  \A n \in Nat : n \in T
<1> SUFFICES ASSUME NEW k \in Nat, k \notin T
             PROVE  FALSE
  OBVIOUS
<1> DEFINE N == {n \in Nat : n \notin T}
<1>1. PICK n \in N : \A m \in N : n <= m
  <2>1. N \in SUBSET Nat /\ N # {}
    OBVIOUS
  <2> QED
    BY <2>1, Least
<1>2. n # 0 /\ n - 1 \in Nat
  OBVIOUS
<1>3. n - 1 \in T
  BY <1>1, <1>2
<1> QED
  BY <1>2, <1>3

\* f counts the days of the first n months.
Counts(f, n) == f = [m \in 0 .. n |-> IF m = 0 THEN 0 ELSE f[m - 1] + MonthLength(m - 1)]

LEMMA CountsExist == \A n \in Nat : \E f : Counts(f, n)
<1> DEFINE T == {n \in Nat : \E f : Counts(f, n)}
<1>1. 0 \in T
  <2>1. Counts([m \in 0 .. 0 |-> 0], 0)
    BY DEF Counts
  <2> QED
    BY <2>1
<1>2. ASSUME NEW n \in Nat, n \in T
      PROVE  n + 1 \in T
  <2>1. PICK f : Counts(f, n)
    BY <1>2
  <2> DEFINE g == [m \in 0 .. n + 1 |-> IF m = n + 1 THEN f[n] + MonthLength(n) ELSE f[m]]
  <2>2. \A m \in 0 .. n : g[m] = f[m]
    OBVIOUS
  <2>3. \A m \in 0 .. n : f[m] = IF m = 0 THEN 0 ELSE f[m - 1] + MonthLength(m - 1)
    BY <2>1 DEF Counts
  <2>4. ASSUME NEW m \in 0 .. n + 1
        PROVE  g[m] = IF m = 0 THEN 0 ELSE g[m - 1] + MonthLength(m - 1)
    <3>1. CASE m = n + 1
      <4>1. g[m] = f[n] + MonthLength(n) /\ g[n] = f[n] /\ m # 0 /\ m - 1 = n
        BY <3>1
      <4> QED
        BY <4>1
    <3>2. CASE m \in 0 .. n
      <4>1. m # 0 => m - 1 \in 0 .. n
        BY <3>2
      <4> QED
        BY <2>2, <2>3, <3>2, <4>1
    <3> QED
      BY <3>1, <3>2
  <2>5. Counts(g, n + 1)
    <3>1. g = [m \in 0 .. n + 1 |-> g[m]]
      OBVIOUS
    <3> HIDE DEF g
    <3> QED
      BY <2>4, <3>1 DEF Counts
  <2> QED
    BY <2>5
<1> HIDE DEF T
<1>3. \A n \in Nat : n \in T
  BY <1>1, <1>2, Induct
<1> QED
  BY <1>3 DEF T

LEMMA MonthStartDef ==
  /\ MonthStart[0] = 0
  /\ \A m \in 0 .. Months - 1 : MonthStart[m + 1] = MonthStart[m] + MonthLength(m)
<1>1. MonthStart = CHOOSE f : Counts(f, Months)
  BY MonthsFacts DEF MonthStart, Counts
<1>2. Counts(MonthStart, Months)
  BY <1>1, CountsExist, MonthsFacts
<1>3. \A m \in 0 .. Months :
        MonthStart[m] = IF m = 0 THEN 0 ELSE MonthStart[m - 1] + MonthLength(m - 1)
  BY <1>2 DEF Counts
<1>4. MonthStart[0] = 0
  BY <1>3, MonthsFacts
<1>5. ASSUME NEW m \in 0 .. Months - 1
      PROVE  MonthStart[m + 1] = MonthStart[m] + MonthLength(m)
  <2>1. m + 1 \in 0 .. Months /\ m + 1 # 0 /\ (m + 1) - 1 = m
    BY MonthsFacts
  <2> QED
    BY <1>3, <2>1
<1> QED
  BY <1>4, <1>5

LEMMA MonthStartType == \A m \in 0 .. Months : MonthStart[m] \in Nat
<1> DEFINE T == {m \in Nat : m <= Months => MonthStart[m] \in Nat}
<1>1. 0 \in T
  BY MonthStartDef
<1>2. \A m \in Nat : m \in T => m + 1 \in T
  <2> SUFFICES ASSUME NEW m \in Nat, m \in T, m + 1 <= Months
               PROVE  MonthStart[m + 1] \in Nat
    OBVIOUS
  <2>1. MonthStart[m] \in Nat /\ m \in 0 .. Months - 1
    BY MonthsFacts
  <2>2. MonthStart[m + 1] = MonthStart[m] + MonthLength(m) /\ MonthLength(m) \in 28 .. 31
    BY <2>1, MonthStartDef, MonthLengths
  <2> QED
    BY <2>1, <2>2
<1> HIDE DEF T
<1>3. \A m \in Nat : m \in T
  BY <1>1, <1>2, Induct
<1> QED
  BY <1>3, MonthsFacts DEF T

\* A later month starts after the end of an earlier one.
LEMMA MonthOrder ==
  \A m, n \in 0 .. Months : m < n => MonthStart[m] + MonthLength(m) <= MonthStart[n]
<1> SUFFICES ASSUME NEW m \in 0 .. Months
             PROVE  \A n \in 0 .. Months : m < n => MonthStart[m] + MonthLength(m) <= MonthStart[n]
  OBVIOUS
<1> DEFINE T == {k \in Nat : m + 1 + k <= Months =>
                   MonthStart[m] + MonthLength(m) <= MonthStart[m + 1 + k]}
<1>0. m \in Nat
  OBVIOUS
<1>1. 0 \in T
  <2> SUFFICES ASSUME m + 1 + 0 <= Months
               PROVE  MonthStart[m] + MonthLength(m) <= MonthStart[m + 1 + 0]
    OBVIOUS
  <2>1. m \in 0 .. Months - 1 /\ m + 1 + 0 = m + 1 /\ m + 1 \in 0 .. Months
    BY MonthsFacts
  <2>2. MonthStart[m + 1] \in Nat
    BY <2>1, MonthStartType
  <2> QED
    BY <2>1, <2>2, MonthStartDef
<1>2. \A k \in Nat : k \in T => k + 1 \in T
  <2> SUFFICES ASSUME NEW k \in Nat, k \in T, m + 1 + (k + 1) <= Months
               PROVE  MonthStart[m] + MonthLength(m) <= MonthStart[m + 1 + (k + 1)]
    OBVIOUS
  <2> DEFINE n == m + 1 + k
  <2>1. n \in 0 .. Months - 1 /\ m + 1 + (k + 1) = n + 1 /\ n \in Nat /\ n \in 0 .. Months
    BY MonthsFacts
  <2>2. MonthStart[m] + MonthLength(m) <= MonthStart[n]
    BY <2>1
  <2> HIDE DEF n
  <2>3. MonthStart[n + 1] = MonthStart[n] + MonthLength(n) /\ MonthLength(n) \in 28 .. 31
    BY <2>1, MonthStartDef, MonthLengths
  <2>4. MonthStart[m] \in Nat /\ MonthStart[n] \in Nat /\ MonthLength(m) \in 28 .. 31
    BY <2>1, <1>0, MonthStartType, MonthLengths
  <2> QED
    BY <2>1, <2>2, <2>3, <2>4
<1> HIDE DEF T
<1>3. \A k \in Nat : k \in T
  BY <1>1, <1>2, Induct
<1>4. ASSUME NEW n \in 0 .. Months, m < n
      PROVE  MonthStart[m] + MonthLength(m) <= MonthStart[n]
  <2>1. n - m - 1 \in Nat /\ m + 1 + (n - m - 1) = n
    BY <1>4, MonthsFacts
  <2> QED
    BY <1>3, <2>1 DEF T
<1> QED
  BY <1>4

\* Every day is in one month.
LEMMA MonthExists ==
  ASSUME NEW d \in Days
  PROVE  \E m \in 0 .. Months - 1 : MonthStart[m] <= d /\ d < MonthStart[m + 1]
<1> DEFINE N == {m \in Nat : m <= Months /\ d < MonthStart[m]}
<1>1. d \in Nat /\ d < MonthStart[Months]
  BY MonthsFacts, MonthStartType DEF Days, CalendarEnd
<1>2. PICK n \in N : \A m \in N : n <= m
  <2>1. Months \in N
    BY <1>1, MonthsFacts
  <2>2. N \in SUBSET Nat /\ N # {}
    BY <2>1
  <2> HIDE DEF N
  <2> QED
    BY <2>2, Least
<1>3. n \in Nat /\ n <= Months /\ d < MonthStart[n] /\ n # 0
  BY <1>1, <1>2, MonthStartDef
<1>4. n - 1 \in Nat /\ n - 1 <= Months /\ n - 1 \notin N
  BY <1>2, <1>3, MonthsFacts
<1>5. MonthStart[n - 1] \in Nat
  BY <1>4, MonthsFacts, MonthStartType
<1>6. MonthStart[n - 1] <= d
  BY <1>1, <1>4, <1>5
<1>7. n - 1 \in 0 .. Months - 1 /\ (n - 1) + 1 = n
  BY <1>3, MonthsFacts
<1> QED
  BY <1>3, <1>6, <1>7

LEMMA MonthOfFacts ==
  ASSUME NEW d \in Days
  PROVE  /\ MonthOf(d) \in 0 .. Months - 1
         /\ MonthStart[MonthOf(d)] <= d
         /\ d < MonthStart[MonthOf(d)] + MonthLength(MonthOf(d))
         /\ DayOf(d) \in 1 .. MonthLength(MonthOf(d))
         /\ Date(MonthOf(d), DayOf(d)) = d
<1>1. MonthOf(d) = CHOOSE m \in 0 .. Months - 1 : MonthStart[m] <= d /\ d < MonthStart[m + 1]
  BY MonthsFacts DEF MonthOf, CivilMonth, Days, CalendarEnd
<1>2. /\ MonthOf(d) \in 0 .. Months - 1
      /\ MonthStart[MonthOf(d)] <= d /\ d < MonthStart[MonthOf(d) + 1]
  BY <1>1, MonthExists
<1> DEFINE m == MonthOf(d)
<1>3. m \in 0 .. Months - 1 /\ MonthStart[m] <= d /\ d < MonthStart[m + 1]
  BY <1>2
<1>4. DayOf(d) = d - MonthStart[m] + 1
  BY DEF DayOf
<1> HIDE DEF m
<1>5. MonthStart[m + 1] = MonthStart[m] + MonthLength(m) /\ m \in 0 .. Months
  BY <1>3, MonthStartDef, MonthsFacts
<1>6. MonthLength(m) \in 28 .. 31 /\ MonthStart[m] \in Nat /\ d \in Int
  BY <1>5, MonthLengths, MonthStartType, MonthsFacts DEF Days
<1>7. DayOf(d) \in 1 .. MonthLength(m)
  BY <1>3, <1>4, <1>5, <1>6
<1>8. Date(m, DayOf(d)) = d
  BY <1>4, <1>6 DEF Date
<1> QED
  BY <1>3, <1>5, <1>7, <1>8 DEF m

LEMMA DateFacts ==
  ASSUME NEW m \in 0 .. Months - 1, NEW k \in 1 .. MonthLength(m)
  PROVE  Date(m, k) \in Days /\ MonthOf(Date(m, k)) = m /\ DayOf(Date(m, k)) = k
<1> DEFINE d == Date(m, k)
           n == MonthOf(d)
<1>1. m \in 0 .. Months /\ m + 1 \in 0 .. Months /\ m \in Nat
  BY MonthsFacts
<1>2. MonthLength(m) \in 28 .. 31 /\ MonthStart[m] \in Nat /\ MonthStart[m + 1] \in Nat
  BY <1>1, MonthLengths, MonthStartType
<1>3. d = MonthStart[m] + k - 1
  BY DEF Date
<1>4. MonthStart[m] + MonthLength(m) <= CalendarEnd
  <2>1. Months \in 0 .. Months /\ m < Months
    BY <1>1, MonthsFacts
  <2> QED
    BY <1>1, <2>1, MonthOrder DEF CalendarEnd
<1>5. d \in Days
  <2>1. CalendarEnd \in Nat
    BY MonthsFacts, MonthStartType DEF CalendarEnd
  <2> QED
    BY <1>2, <1>3, <1>4, <2>1 DEF Days
<1>6. n \in 0 .. Months - 1 /\ MonthStart[n] <= d /\ d < MonthStart[n] + MonthLength(n)
  <2> HIDE DEF d
  <2> QED
    BY <1>5, MonthOfFacts
<1>7. DayOf(d) = d - MonthStart[n] + 1
  BY DEF DayOf
<1> HIDE DEF n
<1>8. n \in 0 .. Months /\ n \in Nat
  BY <1>6, MonthsFacts
<1>9. MonthLength(n) \in 28 .. 31 /\ MonthStart[n] \in Nat
  BY <1>8, MonthLengths, MonthStartType
<1> HIDE DEF d
<1>10. ~(m < n)
  <2> SUFFICES ASSUME m < n PROVE FALSE
    OBVIOUS
  <2>1. MonthStart[m] + MonthLength(m) <= MonthStart[n]
    BY <1>1, <1>8, MonthOrder
  <2> QED
    BY <2>1, <1>2, <1>3, <1>6, <1>9
<1>11. ~(n < m)
  <2> SUFFICES ASSUME n < m PROVE FALSE
    OBVIOUS
  <2>1. MonthStart[n] + MonthLength(n) <= MonthStart[m]
    BY <1>1, <1>8, MonthOrder
  <2> QED
    BY <2>1, <1>2, <1>3, <1>6, <1>9
<1>12. n = m
  BY <1>8, <1>1, <1>10, <1>11
<1>13. DayOf(d) = k
  BY <1>2, <1>3, <1>7, <1>12
<1> QED
  BY <1>5, <1>12, <1>13 DEF d, n

\* Days of a later month are later.
LEMMA DateOrder ==
  ASSUME NEW d \in Days, NEW e \in Days, MonthOf(d) < MonthOf(e)
  PROVE  d < e
<1>1. /\ MonthOf(d) \in 0 .. Months - 1 /\ MonthOf(e) \in 0 .. Months - 1
      /\ d < MonthStart[MonthOf(d)] + MonthLength(MonthOf(d)) /\ MonthStart[MonthOf(e)] <= e
  BY MonthOfFacts
<1>2. MonthOf(d) \in 0 .. Months /\ MonthOf(e) \in 0 .. Months /\ MonthOf(d) \in Nat
  BY <1>1, MonthsFacts
<1>3. MonthStart[MonthOf(d)] + MonthLength(MonthOf(d)) <= MonthStart[MonthOf(e)]
  BY <1>2, MonthOrder
<1>4. MonthStart[MonthOf(d)] \in Nat /\ MonthLength(MonthOf(d)) \in 28 .. 31
      /\ MonthStart[MonthOf(e)] \in Nat /\ d \in Int /\ e \in Int
  BY <1>2, MonthStartType, MonthLengths, MonthsFacts DEF Days
<1> QED
  BY <1>1, <1>3, <1>4

\* The day of a schedule in a month: the last one, when the month is shorter.
LEMMA ShortMonth ==
  ASSUME NEW m \in Nat, NEW a \in 1 .. 31
  PROVE  /\ Min({a, MonthLength(m)}) \in 1 .. MonthLength(m)
         /\ Min({a, MonthLength(m)}) = IF a > MonthLength(m) THEN MonthLength(m) ELSE a
         /\ a <= 28 => Min({a, MonthLength(m)}) = a
<1>1. MonthLength(m) \in 28 .. 31
  BY MonthLengths
<1> QED
  BY <1>1 DEF Min

\* What holds of a day once it holds of all later ones holds of every day.
LEMMA Backwards ==
  ASSUME NEW T, \A d \in Days : (\A e \in Days : d < e => e \in T) => d \in T
  PROVE  Days \subseteq T
<1> SUFFICES ASSUME NEW x \in Days, x \notin T
             PROVE  FALSE
  OBVIOUS
<1> DEFINE N == {k \in Nat : CalendarEnd - k \in Days /\ CalendarEnd - k \notin T}
<1>1. CalendarEnd \in Nat
  BY MonthsFacts, MonthStartType DEF CalendarEnd
<1>2. x \in Nat /\ x < CalendarEnd
  BY <1>1 DEF Days
<1>3. PICK n \in N : \A k \in N : n <= k
  <2>1. CalendarEnd - x \in Nat /\ CalendarEnd - (CalendarEnd - x) = x
    BY <1>1, <1>2
  <2>2. N \in SUBSET Nat /\ N # {}
    BY <2>1
  <2> HIDE DEF N
  <2> QED
    BY <2>2, Least
<1> DEFINE d == CalendarEnd - n
<1>4. d \in Days /\ d \notin T /\ n \in Nat
  BY <1>3
<1>5. ASSUME NEW e \in Days, d < e
      PROVE  e \in T
  <2>1. e \in Nat /\ e < CalendarEnd
    BY <1>1 DEF Days
  <2>2. CalendarEnd - e \in Nat /\ CalendarEnd - (CalendarEnd - e) = e /\ CalendarEnd - e < n
    BY <1>1, <1>4, <1>5, <2>1
  <2>3. CalendarEnd - e \notin N
    BY <1>3, <1>4, <2>2
  <2> QED
    BY <2>2, <2>3
<1> HIDE DEF d
<1> QED
  BY <1>4, <1>5

LEMMA MaxIs ==
  ASSUME NEW S \in SUBSET Int, NEW c \in S, \A x \in S : x <= c
  PROVE  Max(S) = c
<1>1. Max(S) \in S /\ \A y \in S : Max(S) >= y
  <2>1. \A y \in S : c >= y
    OBVIOUS
  <2> QED
    BY <2>1 DEF Max
<1> DEFINE m == Max(S)
<1>2. m \in Int /\ c \in Int /\ m <= c /\ m >= c
  BY <1>1
<1> HIDE DEF m
<1>3. m = c
  BY <1>2
<1> QED
  BY <1>3 DEF m

LEMMA MinIs ==
  ASSUME NEW S \in SUBSET Int, NEW c \in S, \A x \in S : c <= x
  PROVE  Min(S) = c
<1>1. Min(S) \in S /\ \A y \in S : Min(S) <= y
  BY DEF Min
<1> DEFINE m == Min(S)
<1>2. m \in Int /\ c \in Int /\ m <= c /\ m >= c
  BY <1>1
<1> HIDE DEF m
<1>3. m = c
  BY <1>2
<1> QED
  BY <1>3 DEF m

\* Months apart by whole periods.
LEMMA WholePeriods ==
  ASSUME NEW p \in {1, 3, 6, 12, 24, 36}, NEW n \in Int
  PROVE  /\ 0 % p = 0
         /\ p % p = 0
         /\ n % p = 0 => (n - p) % p = 0
         /\ n % p = 0 => (n + p) % p = 0
         /\ n % p = 0 /\ n > 0 => n >= p
         /\ n % p = 0 /\ n < 0 => n + p <= 0
<1>1. CASE p = 1
  BY <1>1
<1>2. CASE p = 3
  BY <1>2
<1>3. CASE p = 6
  BY <1>3
<1>4. CASE p = 12
  BY <1>4
<1>5. CASE p = 24
  BY <1>5
<1>6. CASE p = 36
  BY <1>6
<1> QED
  BY <1>1, <1>2, <1>3, <1>4, <1>5, <1>6

(***************************************************************************)
(* Renewals.                                                               *)
(***************************************************************************)
LastPeriod == Max({2} \cup Periods)

LEMMA LastPeriodFacts ==
  /\ LastPeriod \in Nat /\ LastPeriod >= 2 /\ LastPeriod + 2 <= Months
  /\ \A p \in Periods : p <= LastPeriod
<1> DEFINE S == {2} \cup Periods
           N == {k \in Nat : \E p \in S : k = 36 - p}
<1>1. S \subseteq {1, 2, 3, 6, 12, 24, 36} /\ 2 \in S
  BY RenewalAssumption
<1>2. PICK k \in N : \A j \in N : k <= j
  <2>1. 34 \in N
    BY <1>1
  <2>2. N \in SUBSET Nat /\ N # {}
    BY <2>1
  <2> HIDE DEF N
  <2> QED
    BY <2>2, Least
<1>3. PICK p \in S : k = 36 - p
  BY <1>2
<1>4. \A q \in S : q <= p
  <2> TAKE q \in S
  <2>1. q \in 1 .. 36 /\ p \in 1 .. 36
    BY <1>1
  <2>2. 36 - q \in N
    BY <2>1
  <2>3. k <= 36 - q
    BY <1>2, <2>2
  <2> QED
    BY <1>3, <2>1, <2>3
<1>5. S \in SUBSET Int
  BY <1>1
<1>6. LastPeriod = p
  <2> HIDE DEF S
  <2>1. Max(S) = p
    BY <1>3, <1>4, <1>5, MaxIs
  <2> QED
    BY <2>1 DEF LastPeriod, S
<1>7. p + 2 <= 12 * Years
  <2>1. p = 2 \/ p \in Periods
    OBVIOUS
  <2> QED
    BY <2>1, RenewalAssumption, CalendarAssumption
<1>8. p \in Nat /\ p >= 2
  BY <1>1, <1>4
<1> QED
  BY <1>4, <1>6, <1>7, <1>8 DEF Months

\* The days an expiration may be.
Expirations == 1 .. CalendarEnd - 1

LEMMA CalendarFacts ==
  /\ CalendarEnd \in Nat /\ Expirations \subseteq Days
  /\ Expirations = 1 .. (MonthStart[LastMonth + 1] - 1)
<1>1. CalendarEnd \in Nat
  BY MonthsFacts, MonthStartType DEF CalendarEnd
<1>2. LastMonth + 1 = Months
  BY MonthsFacts
<1> QED
  BY <1>1, <1>2 DEF Expirations, Days, CalendarEnd

LEMMA DayNumbers == \A d \in Days : d \in Nat
BY CalendarFacts DEF Days

\* Today is a day after which there is room to renew.
Room == today \in Days /\ today <= LastToday

LEMMA RoomFacts ==
  ASSUME Room, NEW e \in Days, e <= today
  PROVE  MonthOf(e) + LastPeriod <= Months - 1
<1> DEFINE n == Months - LastPeriod
           m == MonthOf(e)
<1>1. n \in 0 .. Months /\ n \in Nat /\ n = LastMonth + 1 - LastPeriod
  BY LastPeriodFacts, MonthsFacts
<1>2. MonthStart[n] \in Nat /\ e < MonthStart[n]
  <2>1. MonthStart[n] \in Nat
    BY <1>1, MonthStartType
  <2>2. LastToday = MonthStart[n] - 1
    BY <1>1 DEF LastToday, LastPeriod
  <2> HIDE DEF n
  <2> QED
    BY <2>1, <2>2, CalendarFacts DEF Room, Days
<1>3. m \in 0 .. Months - 1 /\ MonthStart[m] <= e
  BY MonthOfFacts
<1> HIDE DEF m
<1>4. ~(n < m)
  <2> SUFFICES ASSUME n < m PROVE FALSE
    OBVIOUS
  <2>1. m \in 0 .. Months /\ MonthStart[n] + MonthLength(n) <= MonthStart[m]
    BY <1>1, <1>3, MonthsFacts, MonthOrder
  <2>2. MonthLength(n) \in 28 .. 31 /\ MonthStart[m] \in Nat
    BY <2>1, <1>1, MonthLengths, MonthStartType
  <2> HIDE DEF n
  <2> QED
    BY <1>2, <1>3, <2>1, <2>2 DEF Days
<1>5. n # m
  <2> HIDE DEF n
  <2> QED
    BY <1>2, <1>3 DEF Days
<1>6. m \in Nat
  BY <1>3, MonthsFacts
<1>7. m < n
  <2> HIDE DEF n
  <2> QED
    BY <1>1, <1>4, <1>5, <1>6
<1>8. m + LastPeriod <= Months - 1
  BY <1>6, <1>7, LastPeriodFacts, MonthsFacts
<1> QED
  BY <1>8 DEF m

LEMMA NextFacts ==
  ASSUME Room, NEW e \in Days, e <= today, NEW p \in Periods, NEW a \in 1 .. 31
  PROVE  LET n == nextRenewalExpiration(e, p, a)
         IN  /\ n \in Days /\ e < n
             /\ MonthOf(n) = MonthOf(e) + p
             /\ DayOf(n) = Min({a, MonthLength(MonthOf(n))})
<1> DEFINE m == MonthOf(e)
           k == Min({a, MonthLength(m + p)})
           n == Date(m + p, k)
<1>1. p \in Nat /\ p > 0 /\ p <= LastPeriod
  BY RenewalAssumption, LastPeriodFacts
<1>2. m \in 0 .. Months - 1 /\ m + LastPeriod <= Months - 1
  BY MonthOfFacts, RoomFacts
<1> HIDE DEF m
<1>3. m + p \in 0 .. Months - 1 /\ m + p \in Nat /\ m < m + p
  BY <1>1, <1>2, LastPeriodFacts, MonthsFacts
<1>4. k \in 1 .. MonthLength(m + p)
  BY <1>3, ShortMonth
<1> HIDE DEF k
<1>5. n \in Days /\ MonthOf(n) = m + p /\ DayOf(n) = k
  BY <1>3, <1>4, DateFacts
<1>6. nextRenewalExpiration(e, p, a) = n
  BY DEF nextRenewalExpiration, m, k
<1> HIDE DEF n
<1>7. e < n
  BY <1>3, <1>5, DateOrder DEF m
<1> QED
  BY <1>5, <1>6, <1>7 DEF m, k

(***************************************************************************)
(* The expirations of a schedule that have not passed: in a later month, by*)
(* whole periods, on the anchor day.                                       *)
(***************************************************************************)
Later(e, p, a) ==
  {x \in Days : /\ today <= x /\ MonthOf(e) < MonthOf(x)
                /\ (MonthOf(x) - MonthOf(e)) % p = 0
                /\ DayOf(x) = Min({a, MonthLength(MonthOf(x))})}

Earliest(x, S) == x \in S /\ \A y \in S : x <= y

\* A renewal either reaches one of them, the first, or leaves them all to come.
LEMMA OneRenewal ==
  ASSUME Room, NEW e \in Days, e < today, NEW p \in Periods, NEW a \in 1 .. 31,
         NEW n, n = nextRenewalExpiration(e, p, a)
  PROVE  /\ n \in Expirations /\ e < n
         /\ today <= n => Earliest(n, Later(e, p, a))
         /\ n < today => Later(n, p, a) = Later(e, p, a)
<1>1. e <= today /\ e \in Nat /\ today \in Nat
  BY CalendarFacts DEF Room, Days
<1>2. /\ n \in Days /\ e < n
      /\ MonthOf(n) = MonthOf(e) + p
      /\ DayOf(n) = Min({a, MonthLength(MonthOf(n))})
  BY <1>1, NextFacts
<1>3. p \in {1, 3, 6, 12, 24, 36}
  BY RenewalAssumption
<1> DEFINE m == MonthOf(e)
<1>4. m \in Int /\ MonthOf(n) = m + p
  BY <1>2, MonthOfFacts, MonthsFacts
<1> HIDE DEF m
<1>5. n \in Expirations
  BY <1>1, <1>2, CalendarFacts DEF Expirations, Days
\* A day of the schedule in the month of n is n.
<1>6. ASSUME NEW x \in Days, MonthOf(x) = MonthOf(n), DayOf(x) = Min({a, MonthLength(MonthOf(x))})
      PROVE  x = n
  <2>1. DayOf(x) = DayOf(n)
    BY <1>2, <1>6
  <2>2. Date(MonthOf(x), DayOf(x)) = x /\ Date(MonthOf(n), DayOf(n)) = n
    BY <1>2, MonthOfFacts
  <2> QED
    BY <1>6, <2>1, <2>2
<1>7. ASSUME NEW x \in Later(e, p, a)
      PROVE  /\ x \in Days /\ MonthOf(x) \in Int /\ today <= x
             /\ x = n \/ (n < x /\ MonthOf(n) < MonthOf(x))
             /\ (MonthOf(x) - MonthOf(n)) % p = 0
             /\ DayOf(x) = Min({a, MonthLength(MonthOf(x))})
  <2>1. /\ x \in Days /\ today <= x /\ m < MonthOf(x) /\ (MonthOf(x) - m) % p = 0
        /\ DayOf(x) = Min({a, MonthLength(MonthOf(x))})
    BY <1>7 DEF Later, m
  <2>2. MonthOf(x) \in Int
    BY <2>1, MonthOfFacts, MonthsFacts
  <2> DEFINE k == MonthOf(x) - m
  <2>3. k \in Int /\ k > 0 /\ k % p = 0
    BY <1>4, <2>1, <2>2
  <2>4. k >= p /\ (k - p) % p = 0
    <3> HIDE DEF k
    <3> QED
      BY <1>3, <2>3, WholePeriods
  <2>5. p \in Int
    BY <1>3
  <2>6. MonthOf(x) >= MonthOf(n) /\ k - p = MonthOf(x) - MonthOf(n)
    BY <1>4, <2>2, <2>4, <2>5
  <2>7. (MonthOf(x) - MonthOf(n)) % p = 0
    BY <2>4, <2>6
  <2>8. CASE MonthOf(x) = MonthOf(n)
    BY <1>6, <2>1, <2>2, <2>7, <2>8
  <2>9. CASE MonthOf(n) < MonthOf(x)
    <3>1. n < x
      BY <1>2, <2>1, <2>9, DateOrder
    <3> QED
      BY <2>1, <2>2, <2>7, <2>9, <3>1
  <2>10. MonthOf(x) = MonthOf(n) \/ MonthOf(n) < MonthOf(x)
    BY <1>4, <2>2, <2>5, <2>6
  <2> QED
    BY <2>8, <2>9, <2>10
<1>8. p \in Int /\ p > 0
  BY <1>3
<1>9. ASSUME today <= n
      PROVE  Earliest(n, Later(e, p, a))
  <2>1. m < MonthOf(n) /\ MonthOf(n) - m = p
    BY <1>4, <1>8
  <2>2. (MonthOf(n) - m) % p = 0
    BY <1>3, <2>1, WholePeriods
  <2>3. n \in Later(e, p, a)
    BY <1>2, <1>9, <2>1, <2>2 DEF Later, m
  <2>4. ASSUME NEW y \in Later(e, p, a) PROVE n <= y
    <3>1. y \in Nat /\ n \in Nat /\ (y = n \/ n < y)
      BY <1>2, <1>7, DayNumbers
    <3> QED
      BY <3>1
  <2> QED
    BY <2>3, <2>4 DEF Earliest
<1>10. ASSUME n < today
       PROVE  Later(n, p, a) = Later(e, p, a)
  <2>1. ASSUME NEW x \in Later(e, p, a) PROVE x \in Later(n, p, a)
    <3>1. x # n
      <4>1. n \in Nat /\ x \in Days /\ today <= x
        BY <1>2, <1>7, DayNumbers
      <4> QED
        BY <1>1, <1>10, <4>1
    <3> QED
      BY <1>7, <3>1 DEF Later
  <2>2. ASSUME NEW x \in Later(n, p, a) PROVE x \in Later(e, p, a)
    <3>1. /\ x \in Days /\ today <= x /\ MonthOf(n) < MonthOf(x)
          /\ (MonthOf(x) - MonthOf(n)) % p = 0
          /\ DayOf(x) = Min({a, MonthLength(MonthOf(x))})
      BY <2>2 DEF Later
    <3>2. MonthOf(x) \in Int
      BY <3>1, MonthOfFacts, MonthsFacts
    <3> DEFINE k == MonthOf(x) - MonthOf(n)
    <3>3. k \in Int /\ k % p = 0 /\ k + p = MonthOf(x) - m
      BY <1>4, <1>8, <3>1, <3>2
    <3>4. (k + p) % p = 0
      <4> HIDE DEF k
      <4> QED
        BY <1>3, <3>3, WholePeriods
    <3>5. (MonthOf(x) - m) % p = 0
      BY <3>3, <3>4
    <3>6. m < MonthOf(x)
      BY <1>4, <1>8, <3>1, <3>2
    <3> QED
      BY <3>1, <3>5, <3>6 DEF Later, m
  <2> QED
    BY <2>1, <2>2
<1> QED
  BY <1>2, <1>5, <1>9, <1>10

LEMMA LaterComes ==
  ASSUME Room, NEW p \in Periods, NEW a \in 1 .. 31
  PROVE  \A e \in Days : e < today => Later(e, p, a) # {}
<1> DEFINE T == {e \in Days : e < today => Later(e, p, a) # {}}
<1>1. ASSUME NEW e \in Days, \A x \in Days : e < x => x \in T
      PROVE  e \in T
  <2> SUFFICES ASSUME e < today PROVE Later(e, p, a) # {}
    OBVIOUS
  <2>1. PICK n : n = nextRenewalExpiration(e, p, a)
    OBVIOUS
  <2>2. /\ n \in Expirations /\ e < n
        /\ today <= n => Earliest(n, Later(e, p, a))
        /\ n < today => Later(n, p, a) = Later(e, p, a)
    BY <2>1, OneRenewal
  <2>3. CASE today <= n
    BY <2>2, <2>3 DEF Earliest
  <2>4. CASE n < today
    <3>1. n \in T
      BY <1>1, <2>2, CalendarFacts
    <3> QED
      BY <2>2, <2>4, <3>1
  <2>5. today \in Nat /\ n \in Nat
    BY <2>2, CalendarFacts, DayNumbers DEF Room
  <2> QED
    BY <2>3, <2>4, <2>5
<1>2. Days \subseteq T
  <2> HIDE DEF T
  <2> QED
    BY <1>1, Backwards
<1> QED
  BY <1>2

LEMMA EarliestExists ==
  ASSUME NEW e, NEW p, NEW a, Later(e, p, a) # {}
  PROVE  \E x : Earliest(x, Later(e, p, a))
<1>1. Later(e, p, a) \in SUBSET Nat
  BY DayNumbers DEF Later
<1>2. PICK x \in Later(e, p, a) : \A y \in Later(e, p, a) : x <= y
  BY <1>1, Least
<1> QED
  BY <1>2 DEF Earliest

LEMMA EarliestUnique ==
  ASSUME NEW e, NEW p, NEW a, NEW x, NEW y,
         Earliest(x, Later(e, p, a)), Earliest(y, Later(e, p, a))
  PROVE  x = y
<1>1. x \in Nat /\ y \in Nat /\ x <= y /\ y <= x
  BY DayNumbers DEF Earliest, Later
<1> QED
  BY <1>1

\* f does what the loop does.
Loops(f, p, a) ==
  f = [e \in Expirations |-> IF e >= today THEN e ELSE f[nextRenewalExpiration(e, p, a)]]

LEMMA LoopExists ==
  ASSUME Room, NEW p \in Periods, NEW a \in 1 .. 31
  PROVE  \E f : Loops(f, p, a)
<1> DEFINE First(e) == CHOOSE x : Earliest(x, Later(e, p, a))
           f == [e \in Expirations |-> IF e >= today THEN e ELSE First(e)]
<1>1. ASSUME NEW e \in Expirations
      PROVE  f[e] = IF e >= today THEN e ELSE f[nextRenewalExpiration(e, p, a)]
  <2>1. CASE e >= today
    BY <2>1
  <2>2. CASE ~(e >= today)
    <3>1. e \in Days /\ e < today /\ f[e] = First(e)
      BY <2>2, CalendarFacts, DayNumbers DEF Room
    <3>2. PICK n : n = nextRenewalExpiration(e, p, a)
      OBVIOUS
    <3>3. /\ n \in Expirations /\ e < n
          /\ today <= n => Earliest(n, Later(e, p, a))
          /\ n < today => Later(n, p, a) = Later(e, p, a)
      BY <3>1, <3>2, OneRenewal
    <3>4. Earliest(First(e), Later(e, p, a))
      BY <3>1, LaterComes, EarliestExists
    <3>5. CASE today <= n
      <4>1. First(e) = n
        BY <3>3, <3>4, <3>5, EarliestUnique
      <4>2. f[n] = n
        <5>1. n >= today
          BY <3>3, <3>5, CalendarFacts, DayNumbers DEF Room
        <5> QED
          BY <3>3, <5>1
      <4> HIDE DEF f
      <4> QED
        BY <2>2, <3>1, <3>2, <4>1, <4>2
    <3>6. CASE n < today
      <4>1. f[n] = First(n)
        <5>1. ~(n >= today)
          BY <3>3, <3>6, CalendarFacts, DayNumbers DEF Room
        <5> QED
          BY <3>3, <5>1
      <4>2. First(n) = First(e)
        BY <3>3, <3>6
      <4> HIDE DEF f
      <4> QED
        BY <2>2, <3>1, <3>2, <4>1, <4>2
    <3>7. today \in Nat /\ n \in Nat
      BY <3>3, CalendarFacts, DayNumbers DEF Room
    <3> QED
      BY <3>5, <3>6, <3>7
  <2> QED
    BY <2>1, <2>2
<1>2. f = [e \in Expirations |-> f[e]]
  OBVIOUS
<1> HIDE DEF f
<1>3. Loops(f, p, a)
  BY <1>1, <1>2 DEF Loops
<1> QED
  BY <1>3

LEMMA LoopFacts ==
  ASSUME Room, NEW p \in Periods, NEW a \in 1 .. 31, NEW f, Loops(f, p, a)
  PROVE  \A e \in Expirations : e < today => Earliest(f[e], Later(e, p, a))
<1> DEFINE T == {e \in Days : e \in Expirations /\ e < today => Earliest(f[e], Later(e, p, a))}
<1>1. \A e \in Expirations : f[e] = IF e >= today THEN e ELSE f[nextRenewalExpiration(e, p, a)]
  BY DEF Loops
<1>2. ASSUME NEW e \in Days, \A x \in Days : e < x => x \in T
      PROVE  e \in T
  <2> SUFFICES ASSUME e \in Expirations, e < today PROVE Earliest(f[e], Later(e, p, a))
    OBVIOUS
  <2>1. PICK n : n = nextRenewalExpiration(e, p, a)
    OBVIOUS
  <2>2. /\ n \in Expirations /\ e < n
        /\ today <= n => Earliest(n, Later(e, p, a))
        /\ n < today => Later(n, p, a) = Later(e, p, a)
    BY <2>1, OneRenewal
  <2>3. today \in Nat /\ n \in Nat /\ e \in Nat
    BY <2>2, CalendarFacts, DayNumbers DEF Room
  <2>4. f[e] = f[n]
    <3>1. ~(e >= today)
      BY <2>3
    <3> QED
      BY <1>1, <2>1, <3>1
  <2>5. CASE today <= n
    <3>1. n >= today
      BY <2>3, <2>5
    <3>2. f[n] = n
      BY <1>1, <2>2, <3>1
    <3> QED
      BY <2>2, <2>4, <2>5, <3>2
  <2>6. CASE n < today
    <3>1. n \in T
      BY <1>2, <2>2, CalendarFacts
    <3> QED
      BY <2>2, <2>4, <2>6, <3>1
  <2> QED
    BY <2>3, <2>5, <2>6
<1>3. Days \subseteq T
  <2> HIDE DEF T
  <2> QED
    BY <1>2, Backwards
<1> QED
  BY <1>3, CalendarFacts

\* The loop of ApplyAutomaticRenewals ends at the first expiration to come.
LEMMA RenewedFacts ==
  ASSUME Room, NEW r, r.expires \in Expirations, r.expires < today,
         r.period \in Periods, r.anchor \in 1 .. 31
  PROVE  Earliest(Renewed(r), Later(r.expires, r.period, r.anchor))
<1> DEFINE f == CHOOSE f : Loops(f, r.period, r.anchor)
<1>1. Renewed(r) = f[r.expires]
  BY CalendarFacts DEF Renewed, Loops
<1>2. Loops(f, r.period, r.anchor)
  BY LoopExists
<1> HIDE DEF f
<1> QED
  BY <1>1, <1>2, LoopFacts

(***************************************************************************)
(* The settings of a Server.                                               *)
(***************************************************************************)
Settings ==
  [expires : Expirations \cup {Null}, period : Periods \cup {Null}, auto : BOOLEAN,
   anchor : 0 .. 31]

\* The expiration is on the anchor day of its month.
OnAnchor(r) == DayOf(r.expires) = Min({r.anchor, MonthLength(MonthOf(r.expires))})

\* A row has an anchor exactly when it has the terms of a renewal.
Anchored(r) ==
  /\ r \in Settings
  /\ MayRenew(r) <=> r.anchor # Null
  /\ r.auto => MayRenew(r)
  /\ r.anchor # Null => OnAnchor(r)

RenewalInv ==
  /\ today \in Days /\ MonthStart[1] <= today /\ today <= LastToday
  /\ updates \in Nat
  /\ Anchored(renewal)

LEMMA DatesFacts == Dates \subseteq Expirations
<1>1. MonthStart[12] <= CalendarEnd /\ MonthStart[12] \in Nat
  <2>1. 12 \in 0 .. Months /\ Months \in 0 .. Months
    BY MonthsFacts
  <2>2. MonthStart[12] \in Nat /\ MonthLength(12) \in 28 .. 31
    BY <2>1, MonthStartType, MonthLengths
  <2>3. CASE 12 < Months
    <3>1. MonthStart[12] + MonthLength(12) <= MonthStart[Months]
      BY <2>1, <2>3, MonthOrder
    <3> QED
      BY <2>2, <3>1, CalendarFacts DEF CalendarEnd
  <2>4. CASE Months = 12
    BY <2>2, <2>4, CalendarFacts DEF CalendarEnd
  <2> QED
    BY <2>3, <2>4, MonthsFacts
<1> QED
  BY <1>1, RenewalAssumption, CalendarFacts DEF Expirations

LEMMA NullFacts == Null \notin Expirations /\ Null \notin Periods
BY RenewalAssumption DEF Null, Expirations

\* An expiration is on the day it falls on.
LEMMA OwnDay ==
  ASSUME NEW e \in Expirations
  PROVE  DayOf(e) \in 1 .. 31 /\ DayOf(e) = Min({DayOf(e), MonthLength(MonthOf(e))})
<1>1. /\ e \in Days /\ MonthOf(e) \in 0 .. Months - 1 /\ DayOf(e) \in 1 .. MonthLength(MonthOf(e))
  BY CalendarFacts, MonthOfFacts
<1>2. MonthOf(e) \in Nat
  BY <1>1, MonthsFacts
<1>3. MonthLength(MonthOf(e)) \in 28 .. 31
  BY <1>2, MonthLengths
<1>4. DayOf(e) \in 1 .. 31
  BY <1>1, <1>3
<1>5. Min({DayOf(e), MonthLength(MonthOf(e))}) =
        IF DayOf(e) > MonthLength(MonthOf(e)) THEN MonthLength(MonthOf(e)) ELSE DayOf(e)
  <2> DEFINE a == DayOf(e)
  <2>1. a \in 1 .. 31
    BY <1>4
  <2> HIDE DEF a
  <2>2. Min({a, MonthLength(MonthOf(e))}) =
          IF a > MonthLength(MonthOf(e)) THEN MonthLength(MonthOf(e)) ELSE a
    BY <1>2, <2>1, ShortMonth
  <2> QED
    BY <2>2 DEF a
<1> QED
  BY <1>1, <1>3, <1>4, <1>5

\* What Normalized makes of settings whose anchor is right if they may renew.
LEMMA NormalizedFacts ==
  ASSUME NEW r \in Settings, MayRenew(r) => r.anchor # Null /\ OnAnchor(r)
  PROVE  Anchored(Normalized(r))
<1>1. CASE r.expires = Null
  <2>1. Normalized(r) = [r EXCEPT !.period = Null, !.auto = FALSE, !.anchor = Null]
    BY <1>1 DEF Normalized
  <2> DEFINE q == [expires |-> r.expires, period |-> Null, auto |-> FALSE, anchor |-> Null]
  <2>2. r.expires \in Expirations \cup {Null} /\ r.period \in Periods \cup {Null}
    BY DEF Settings
  <2>3. q \in Settings
    BY <2>2 DEF Settings, Null
  <2>4. Normalized(r) = q
    BY <2>1 DEF Settings
  <2>5. q.period = Null /\ ~q.auto /\ q.anchor = Null
    OBVIOUS
  <2> HIDE DEF q
  <2>6. Anchored(q)
    BY <2>3, <2>5 DEF Anchored, MayRenew
  <2> QED
    BY <2>4, <2>6
<1>2. CASE r.expires # Null /\ r.period = Null
  <2>1. Normalized(r) = [r EXCEPT !.auto = FALSE, !.anchor = Null]
    BY <1>2 DEF Normalized
  <2> DEFINE q == [expires |-> r.expires, period |-> r.period, auto |-> FALSE, anchor |-> Null]
  <2>2. r.expires \in Expirations \cup {Null} /\ r.period \in Periods \cup {Null}
    BY DEF Settings
  <2>3. q \in Settings
    BY <2>2 DEF Settings, Null
  <2>4. Normalized(r) = q
    BY <2>1, <1>2 DEF Settings
  <2>5. q.period = Null /\ ~q.auto /\ q.anchor = Null
    BY <1>2
  <2> HIDE DEF q
  <2>6. Anchored(q)
    BY <2>3, <2>5 DEF Anchored, MayRenew
  <2> QED
    BY <2>4, <2>6
<1>3. CASE MayRenew(r)
  <2>1. Normalized(r) = r
    BY <1>3 DEF Normalized, MayRenew
  <2> QED
    BY <1>3, <2>1 DEF Anchored
<1> QED
  BY <1>1, <1>2, <1>3 DEF MayRenew

LEMMA LastTodayFacts == LastToday \in Days /\ MonthStart[1] \in Days /\ MonthStart[1] <= LastToday
<1> DEFINE n == Months - LastPeriod
<1>1. n \in 0 .. Months /\ 1 \in 0 .. Months /\ 1 < n /\ n < Months /\ Months \in 0 .. Months
      /\ n = LastMonth + 1 - LastPeriod
  BY LastPeriodFacts, MonthsFacts
<1>2. LastToday = MonthStart[n] - 1
  BY <1>1 DEF LastToday, LastPeriod
<1> HIDE DEF n
<1>3. /\ MonthStart[1] + MonthLength(1) <= MonthStart[n]
      /\ MonthStart[n] + MonthLength(n) <= CalendarEnd
  BY <1>1, MonthOrder DEF CalendarEnd
<1>4. /\ MonthLength(1) \in 28 .. 31 /\ MonthLength(n) \in 28 .. 31
      /\ MonthStart[1] \in Nat /\ MonthStart[n] \in Nat
  BY <1>1, MonthLengths, MonthStartType
<1> QED
  BY <1>2, <1>3, <1>4, CalendarFacts DEF Days

LEMMA RenewalInitInv == ASSUME RenewalInit PROVE RenewalInv
<1>1. today = MonthStart[1] /\ updates = 0 /\ renewal \in Created
  BY DEF RenewalInit
<1>2. Anchored(renewal)
  <2>1. PICK e \in {Null} \cup Dates, p \in {Null} \cup Periods, a \in BOOLEAN :
          renewal = Normalized([expires |-> e, period |-> p, auto |-> a /\ e # Null /\ p # Null,
                                anchor |-> IF e = Null THEN Null ELSE DayOf(e)])
    BY <1>1 DEF Created
  <2> DEFINE r == [expires |-> e, period |-> p, auto |-> a /\ e # Null /\ p # Null,
                   anchor |-> IF e = Null THEN Null ELSE DayOf(e)]
  <2>2. e # Null => e \in Expirations /\ DayOf(e) \in 1 .. 31
                    /\ DayOf(e) = Min({DayOf(e), MonthLength(MonthOf(e))})
    BY DatesFacts, OwnDay
  <2>3. r \in Settings
    <3>1. r.anchor \in 0 .. 31
      BY <2>2 DEF Null
    <3> QED
      BY <2>2, <3>1 DEF Settings
  <2>5. MayRenew(r) => r.anchor # Null /\ OnAnchor(r)
    BY <2>2 DEF MayRenew, OnAnchor, Null
  <2>6. renewal = Normalized(r)
    BY <2>1
  <2> HIDE DEF r
  <2> QED
    BY <2>3, <2>5, <2>6, NormalizedFacts
<1>3. today \in Days /\ today <= LastToday
  BY <1>1, LastTodayFacts
<1>4. MonthStart[1] <= today
  BY <1>1, <1>3, DayNumbers
<1> QED
  BY <1>1, <1>2, <1>3, <1>4 DEF RenewalInv

LEMMA UpdateInv ==
  ASSUME RenewalInv, NEW e \in {Keep, Null} \cup Dates, NEW p \in {Keep, Null} \cup Periods,
         NEW a \in {Keep, 0, 1}, UpdateRenewalSettings(e, p, a)
  PROVE  RenewalInv' /\ updates' # updates
<1> DEFINE c == [renewal EXCEPT !.expires = IF e = Keep THEN @ ELSE e,
                                !.period = IF p = Keep THEN @ ELSE p,
                                !.auto = IF a = Keep THEN @ ELSE a = 1]
           r == [c EXCEPT !.anchor = Anchor(c, e, p)]
<1>1. /\ today \in Days /\ MonthStart[1] <= today /\ today <= LastToday
      /\ updates \in Nat /\ Anchored(renewal) /\ renewal \in Settings
  BY DEF RenewalInv, Anchored
<1>2. /\ a = 1 => MayRenew(c)
      /\ renewal' = Normalized(r) /\ updates' = updates + 1 /\ today' = today
  BY DEF UpdateRenewalSettings
<1>3. /\ c \in Settings
      /\ c.expires = IF e = Keep THEN renewal.expires ELSE e
      /\ c.period = IF p = Keep THEN renewal.period ELSE p
      /\ c.auto = IF a = Keep THEN renewal.auto ELSE a = 1
      /\ c.anchor = renewal.anchor
  <2>1. c.expires \in Expirations \cup {Null} /\ c.period \in Periods \cup {Null} /\ c.auto \in BOOLEAN
    BY <1>1, DatesFacts DEF Settings
  <2> QED
    BY <1>1, <2>1 DEF Settings
<1> DEFINE k == Anchor(c, e, p)
<1>4. k = IF MayRenew(c) /\ (e # Keep \/ (p # Keep /\ c.anchor = Null)) THEN DayOf(c.expires)
          ELSE c.anchor
  BY DEF Anchor
<1>5. r = [c EXCEPT !.anchor = k]
  OBVIOUS
<1> HIDE DEF c, k
<1>6. c.expires # Null => DayOf(c.expires) \in 1 .. 31
                          /\ DayOf(c.expires) = Min({DayOf(c.expires), MonthLength(MonthOf(c.expires))})
  <2>1. c.expires # Null => c.expires \in Expirations
    BY <1>3 DEF Settings
  <2> QED
    BY <2>1, OwnDay
<1>7. k \in 0 .. 31
  <2>1. c.anchor \in 0 .. 31
    BY <1>3 DEF Settings
  <2> QED
    BY <1>4, <1>6, <2>1 DEF MayRenew
<1>8. r \in Settings /\ r.expires = c.expires /\ r.period = c.period /\ r.auto = c.auto
      /\ r.anchor = k
  <2> HIDE DEF r
  <2> QED
    BY <1>3, <1>5, <1>7 DEF Settings
<1> HIDE DEF r
\* The anchor is that of the expiration: a new one, or the one that was there.
<1>9. MayRenew(r) => r.anchor # Null /\ OnAnchor(r)
  <2> SUFFICES ASSUME MayRenew(r) PROVE r.anchor # Null /\ OnAnchor(r)
    OBVIOUS
  <2>1. MayRenew(c)
    BY <1>8 DEF MayRenew
  <2>2. CASE e # Keep \/ (p # Keep /\ c.anchor = Null)
    <3>1. r.anchor = DayOf(c.expires)
      BY <1>4, <1>8, <2>1, <2>2
    <3> QED
      BY <1>6, <1>8, <2>1, <3>1 DEF OnAnchor, MayRenew, Null
  <2>3. CASE e = Keep /\ ~(p # Keep /\ c.anchor = Null)
    <3>1. r.anchor = renewal.anchor /\ r.expires = renewal.expires
      BY <1>3, <1>4, <1>8, <2>3
    <3>2. renewal.anchor # Null
      <4> SUFFICES ASSUME renewal.anchor = Null PROVE FALSE
        OBVIOUS
      <4>1. p = Keep /\ MayRenew(renewal)
        BY <1>3, <2>1, <2>3 DEF MayRenew
      <4> QED
        BY <1>1, <4>1 DEF Anchored
    <3> QED
      BY <1>1, <3>1, <3>2 DEF Anchored, OnAnchor
  <2> QED
    BY <2>2, <2>3
<1>10. Anchored(renewal')
  BY <1>2, <1>8, <1>9, NormalizedFacts
<1>11. updates' \in Nat /\ updates' # updates
  BY <1>1, <1>2
<1> QED
  BY <1>1, <1>2, <1>10, <1>11 DEF RenewalInv, LastToday

LEMMA RenewInv ==
  ASSUME RenewalInv, ApplyAutomaticRenewals
  PROVE  /\ RenewalInv'
         /\ Earliest(renewal'.expires, Later(renewal.expires, renewal.period, renewal.anchor))
         /\ renewal.period \in Periods /\ renewal.expires \in Days
         /\ renewal.expires < today /\ OnAnchor(renewal)
<1>1. /\ today \in Days /\ MonthStart[1] <= today /\ today <= LastToday
      /\ updates \in Nat /\ Anchored(renewal) /\ renewal \in Settings
  BY DEF RenewalInv, Anchored
<1>2. /\ renewal.auto /\ MayRenew(renewal) /\ renewal.expires < today
      /\ today' = today /\ updates' = updates
  BY DEF ApplyAutomaticRenewals, Due
<1>3. renewal.anchor # Null /\ OnAnchor(renewal)
  BY <1>1, <1>2 DEF Anchored
<1>4. /\ renewal.expires \in Expirations /\ renewal.period \in Periods
      /\ renewal.anchor \in 1 .. 31 /\ renewal.expires \in Days
  BY <1>1, <1>2, <1>3, CalendarFacts DEF Settings, MayRenew, Null
<1>5. [renewal EXCEPT !.anchor = renewal.anchor] = renewal
  BY <1>1 DEF Settings
<1> DEFINE x == Renewed(renewal)
<1>6. renewal' = [renewal EXCEPT !.expires = x]
  <2>1. renewal' = [renewal EXCEPT !.anchor = renewal.anchor,
                       !.expires = Renewed([renewal EXCEPT !.anchor = renewal.anchor])]
    BY <1>3 DEF ApplyAutomaticRenewals
  <2> HIDE DEF x
  <2>2. Renewed([renewal EXCEPT !.anchor = renewal.anchor]) = x
    BY <1>5 DEF x
  <2>3. renewal' = [renewal EXCEPT !.anchor = renewal.anchor, !.expires = x]
    BY <2>1, <2>2
  <2> QED
    BY <1>1, <2>3 DEF Settings
<1>7. Earliest(x, Later(renewal.expires, renewal.period, renewal.anchor))
  BY <1>1, <1>2, <1>4, RenewedFacts DEF Room
<1> HIDE DEF x
<1>8. /\ x \in Days /\ today <= x
      /\ DayOf(x) = Min({renewal.anchor, MonthLength(MonthOf(x))})
  BY <1>7 DEF Earliest, Later
<1>9. x \in Expirations
  <2>1. x \in Nat /\ renewal.expires \in Nat /\ today \in Nat
    BY <1>1, <1>4, <1>8, DayNumbers
  <2>2. x # 0
    BY <1>2, <1>8, <2>1
  <2> QED
    BY <1>8, <2>1, <2>2, CalendarFacts DEF Days, Expirations
<1>10. /\ renewal' \in Settings /\ renewal'.expires = x
       /\ renewal'.period = renewal.period /\ renewal'.auto = renewal.auto
       /\ renewal'.anchor = renewal.anchor
  BY <1>1, <1>6, <1>9 DEF Settings
<1>11. MayRenew(renewal') /\ OnAnchor(renewal')
  BY <1>2, <1>4, <1>8, <1>9, <1>10, NullFacts DEF MayRenew, OnAnchor
<1>12. Anchored(renewal')
  BY <1>3, <1>10, <1>11 DEF Anchored
<1> QED
  BY <1>1, <1>2, <1>3, <1>4, <1>7, <1>10, <1>12 DEF RenewalInv, LastToday

LEMMA NextDayInv ==
  ASSUME RenewalInv, NextDay
  PROVE  RenewalInv' /\ renewal' = renewal
<1>1. /\ today \in Nat /\ today' = today + 1 /\ today < LastToday /\ LastToday \in Nat
      /\ renewal' = renewal /\ updates' = updates /\ MonthStart[1] \in Nat
  BY LastTodayFacts, DayNumbers DEF RenewalInv, NextDay
<1>2. today' \in Days /\ MonthStart[1] <= today' /\ today' <= LastToday
  <2>1. today' <= LastToday
    BY <1>1
  <2>2. LastToday <= CalendarEnd - 1 /\ CalendarEnd \in Nat
    BY LastTodayFacts, CalendarFacts DEF Days
  <2> QED
    BY <1>1, <2>1, <2>2 DEF RenewalInv, Days
<1> QED
  BY <1>1, <1>2 DEF RenewalInv, LastToday

(***************************************************************************)
(* What RenewsJustEnough says of a step.                                   *)
(***************************************************************************)
JustEnough ==
  renewal'.expires # renewal.expires /\ updates' = updates =>
       /\ renewal'.expires >= today
       /\ \A e \in today..(renewal'.expires - 1) :
            ~ /\ (MonthOf(e) - MonthOf(renewal.expires)) % renewal.period = 0
              /\ DayOf(e) = Min({renewal.anchor, MonthLength(MonthOf(e))})
       /\ (MonthOf(renewal'.expires) - MonthOf(renewal.expires)) % renewal.period = 0

LEMMA RenewJustEnough ==
  ASSUME RenewalInv, ApplyAutomaticRenewals
  PROVE  JustEnough
<1> DEFINE x == renewal'.expires
           b == renewal.expires
           L == Later(b, renewal.period, renewal.anchor)
<1>1. /\ Earliest(x, L) /\ renewal.period \in Periods /\ b \in Days
      /\ b < today /\ OnAnchor(renewal) /\ today \in Days
  BY RenewInv DEF RenewalInv
<1>2. /\ x \in Days /\ today <= x
      /\ (MonthOf(x) - MonthOf(b)) % renewal.period = 0
  BY <1>1 DEF Earliest, Later
<1>3. today \in Nat /\ x \in Nat /\ b \in Nat /\ x < CalendarEnd
  BY <1>1, <1>2, DayNumbers, CalendarFacts DEF Days
<1>4. ASSUME NEW e \in today .. (x - 1),
             (MonthOf(e) - MonthOf(b)) % renewal.period = 0,
             DayOf(e) = Min({renewal.anchor, MonthLength(MonthOf(e))})
      PROVE  FALSE
  <2>1. e \in Days /\ today <= e /\ e < x /\ b < e /\ e \in Nat
    <3> HIDE DEF x, b
    <3> QED
      BY <1>1, <1>3, CalendarFacts DEF Days
  <2>2. ~(MonthOf(e) < MonthOf(b))
    <3>1. e < b => FALSE
      BY <1>3, <2>1
    <3> QED
      BY <1>1, <2>1, <3>1, DateOrder
  <2>3. MonthOf(e) # MonthOf(b)
    <3> SUFFICES ASSUME MonthOf(e) = MonthOf(b) PROVE FALSE
      OBVIOUS
    <3>1. DayOf(e) = DayOf(b)
      BY <1>1, <1>4 DEF OnAnchor
    <3>2. Date(MonthOf(e), DayOf(e)) = e /\ Date(MonthOf(b), DayOf(b)) = b
      BY <1>1, <2>1, MonthOfFacts
    <3>3. e = b
      BY <3>1, <3>2
    <3> QED
      BY <1>3, <2>1, <3>3
  <2>4. MonthOf(e) \in Int /\ MonthOf(b) \in Int
    <3>1. MonthOf(e) \in 0 .. Months - 1 /\ MonthOf(b) \in 0 .. Months - 1
      BY <1>1, <2>1, MonthOfFacts
    <3> QED
      BY <3>1, MonthsFacts
  <2>5. MonthOf(b) < MonthOf(e)
    BY <2>2, <2>3, <2>4
  <2>6. e \in L
    BY <1>4, <2>1, <2>5 DEF Later
  <2>7. x <= e
    BY <1>1, <2>6 DEF Earliest
  <2> HIDE DEF x
  <2> QED
    BY <1>3, <2>1, <2>7
<1>5. renewal'.expires >= today
  BY <1>2, <1>3
<1> QED
  BY <1>2, <1>4, <1>5 DEF JustEnough

LEMMA RenewalStep ==
  ASSUME RenewalInv, [RenewalNext]_renewalVars
  PROVE  RenewalInv' /\ JustEnough
<1>1. CASE NextDay
  BY <1>1, NextDayInv DEF JustEnough
<1>2. CASE ApplyAutomaticRenewals
  BY <1>2, RenewInv, RenewJustEnough
<1>3. ASSUME NEW e \in {Keep, Null} \cup Dates, NEW p \in {Keep, Null} \cup Periods,
             NEW a \in {Keep, 0, 1}, UpdateRenewalSettings(e, p, a)
      PROVE  RenewalInv' /\ JustEnough
  BY <1>3, UpdateInv DEF JustEnough
<1>4. CASE UNCHANGED renewalVars
  BY <1>4 DEF renewalVars, RenewalInv, Anchored, Settings, OnAnchor, MayRenew, LastToday, JustEnough
<1> QED
  BY <1>1, <1>2, <1>3, <1>4 DEF RenewalNext

LEMMA RenewalInvariant == RenewalSpec => []RenewalInv
<1>1. RenewalInit => RenewalInv
  BY RenewalInitInv
<1>2. RenewalInv /\ [RenewalNext]_renewalVars => RenewalInv'
  BY RenewalStep
<1> QED
  BY <1>1, <1>2, PTL DEF RenewalSpec

\* Renewals do not drift: whatever the PATCHes hold (UpdateRenewalSettings) and
\* however long the Panel is down (ApplyAutomaticRenewals), an expiration stays on
\* the day the administrator chose, in shorter months on the last one.
THEOREM RenewalsDoNotDrift == RenewalSpec => []ExpiresOnAnchor
<1>1. RenewalInv => ExpiresOnAnchor
  <2> SUFFICES ASSUME RenewalInv PROVE ExpiresOnAnchor
    OBVIOUS
  <2>1. Anchored(renewal)
    BY DEF RenewalInv
  <2>2. renewal.auto => renewal.period # Null /\ renewal.anchor # Null
    BY <2>1 DEF Anchored, MayRenew
  <2>3. ASSUME renewal.anchor # Null
        PROVE  renewal.expires # Null /\ OnAnchor(renewal)
    BY <2>1, <2>3 DEF Anchored, MayRenew
  <2> QED
    BY <2>2, <2>3 DEF ExpiresOnAnchor, OnAnchor
<1> QED
  BY <1>1, RenewalInvariant, PTL

\* A renewal catches up at once and by no period too many: ApplyAutomaticRenewals
\* ends at the first expiration of the schedule that has not passed.
THEOREM RenewalsCatchUp == RenewalSpec => RenewsJustEnough
<1>1. RenewalInv /\ [RenewalNext]_renewalVars => [JustEnough]_renewalVars
  BY RenewalStep
<1> QED
  BY <1>1, RenewalInvariant, PTL DEF RenewalSpec, RenewsJustEnough, JustEnough

(***************************************************************************)
(* The cycles of usage.                                                    *)
(***************************************************************************)
LEMMA BoundaryFacts ==
  ASSUME NEW k \in 0 .. Months - 1, NEW day \in 1 .. 31, NEW half \in Halves
  PROVE  LET b == MonthlyBoundary(k, day, half)
         IN  /\ b \in Nat /\ 2 * MonthStart[k] <= b
             /\ b < 2 * (MonthStart[k] + MonthLength(k))
             /\ DayAt(b) \in Days /\ MonthOf(DayAt(b)) = k
             /\ DayOf(DayAt(b)) = Min({day, MonthLength(k)})
             /\ b = 2 * (MonthStart[k] + Min({day, MonthLength(k)}) - 1) + half
             /\ IsMonthlyReset(b, day, half)
<1> DEFINE i == Min({day, MonthLength(k)})
           d == Date(k, i)
           b == 2 * d + half
<1>1. k \in 0 .. Months /\ k \in Nat
  BY MonthsFacts
<1>2. MonthLength(k) \in 28 .. 31 /\ MonthStart[k] \in Nat
  BY <1>1, MonthLengths, MonthStartType
<1>3. i \in 1 .. MonthLength(k) /\ i = IF day > MonthLength(k) THEN MonthLength(k) ELSE day
  BY <1>1, ShortMonth
<1>4. half \in 0 .. 1
  BY DEF Halves
<1> HIDE DEF i
<1>5. d \in Days /\ MonthOf(d) = k /\ DayOf(d) = i
  BY <1>3, DateFacts
<1>6. d = MonthStart[k] + i - 1
  BY DEF Date
<1>7. MonthlyBoundary(k, day, half) = b
  BY DEF MonthlyBoundary, i
<1>8. d \in Nat
  BY <1>5, DayNumbers
<1> HIDE DEF d
<1>9. b \in Nat /\ b \div 2 = d /\ b % 2 = half
  BY <1>4, <1>8
<1>10. b = 2 * (MonthStart[k] + i - 1) + half
  BY <1>6
<1>11. 2 * MonthStart[k] <= b /\ b < 2 * (MonthStart[k] + MonthLength(k))
  BY <1>2, <1>3, <1>4, <1>10
<1> HIDE DEF b
<1>12. DayAt(b) = d
  BY <1>9 DEF DayAt
<1>13. IsMonthlyReset(b, day, half)
  BY <1>3, <1>5, <1>9, <1>12 DEF IsMonthlyReset
<1> QED
  BY <1>5, <1>7, <1>9, <1>10, <1>11, <1>12, <1>13 DEF i

\* An instant, its day and its month.
LEMMA InstantFacts ==
  ASSUME NEW u \in 0 .. 2 * CalendarEnd - 1
  PROVE  /\ DayAt(u) \in Days /\ DayAt(u) \in Nat
         /\ u = 2 * DayAt(u) + (u % 2) /\ u % 2 \in {0, 1}
         /\ MonthOf(DayAt(u)) \in 0 .. Months - 1
         /\ 2 * MonthStart[MonthOf(DayAt(u))] <= u
         /\ u < 2 * (MonthStart[MonthOf(DayAt(u))] + MonthLength(MonthOf(DayAt(u))))
<1> DEFINE d == u \div 2
<1>1. u \in Nat /\ u < 2 * CalendarEnd /\ CalendarEnd \in Nat
  BY CalendarFacts
<1>2. d \in Nat /\ u = 2 * d + (u % 2) /\ u % 2 \in {0, 1}
  BY <1>1
<1>3. DayAt(u) = d
  BY DEF DayAt
<1> HIDE DEF d
<1>4. d \in Days
  BY <1>1, <1>2 DEF Days
<1> DEFINE m == MonthOf(d)
<1>5. m \in 0 .. Months - 1 /\ MonthStart[m] <= d /\ d < MonthStart[m] + MonthLength(m)
  BY <1>4, MonthOfFacts
<1> HIDE DEF m
<1>6. m \in 0 .. Months /\ m \in Nat
  BY <1>5, MonthsFacts
<1>7. MonthStart[m] \in Nat /\ MonthLength(m) \in 28 .. 31
  BY <1>6, MonthStartType, MonthLengths
<1>8. 2 * MonthStart[m] <= u /\ u < 2 * (MonthStart[m] + MonthLength(m))
  BY <1>2, <1>5, <1>7
<1> QED
  BY <1>2, <1>3, <1>4, <1>5, <1>8 DEF m

LEMMA ResetIsBoundary ==
  ASSUME NEW u \in 0 .. 2 * CalendarEnd - 1, NEW day \in 1 .. 31, NEW half \in Halves,
         IsMonthlyReset(u, day, half)
  PROVE  u = MonthlyBoundary(MonthOf(DayAt(u)), day, half)
<1> DEFINE d == DayAt(u)
           m == MonthOf(d)
<1>1. d \in Days /\ d \in Nat /\ u = 2 * d + (u % 2) /\ m \in 0 .. Months - 1
  BY InstantFacts
<1>2. u % 2 = half /\ DayOf(d) = IF day > MonthLength(m) THEN MonthLength(m) ELSE day
  BY DEF IsMonthlyReset
<1> HIDE DEF d
<1>3. m \in Nat
  BY <1>1, MonthsFacts
<1>4. Date(m, DayOf(d)) = d
  BY <1>1, MonthOfFacts
<1> HIDE DEF m
<1>5. DayOf(d) = Min({day, MonthLength(m)})
  BY <1>2, <1>3, ShortMonth
<1>6. u = 2 * d + half
  BY <1>1, <1>2
<1>7. MonthlyBoundary(m, day, half) = 2 * d + half
  BY <1>4, <1>5 DEF MonthlyBoundary
<1> QED
  BY <1>6, <1>7 DEF m, d

LEMMA BoundaryOrder ==
  ASSUME NEW j \in 0 .. Months - 1, NEW k \in 0 .. Months - 1, j < k,
         NEW day \in 1 .. 31, NEW half \in Halves
  PROVE  MonthlyBoundary(j, day, half) < MonthlyBoundary(k, day, half)
<1> DEFINE b == MonthlyBoundary(j, day, half)
           c == MonthlyBoundary(k, day, half)
<1>1. /\ b \in Nat /\ b < 2 * (MonthStart[j] + MonthLength(j))
      /\ c \in Nat /\ 2 * MonthStart[k] <= c
  BY BoundaryFacts
<1> HIDE DEF b, c
<1>2. j \in 0 .. Months /\ k \in 0 .. Months /\ j \in Nat
  BY MonthsFacts
<1>3. /\ MonthStart[j] + MonthLength(j) <= MonthStart[k]
      /\ MonthStart[j] \in Nat /\ MonthLength(j) \in 28 .. 31 /\ MonthStart[k] \in Nat
  BY <1>2, MonthOrder, MonthStartType, MonthLengths
<1>4. b < c
  BY <1>1, <1>3
<1> QED
  BY <1>4 DEF b, c

\* Two resets are at most 31 days apart.
LEMMA BoundaryGap ==
  ASSUME NEW k \in 0 .. Months - 2, NEW day \in 1 .. 31, NEW half \in Halves
  PROVE  MonthlyBoundary(k + 1, day, half) <= MonthlyBoundary(k, day, half) + 62
<1> DEFINE b == MonthlyBoundary(k, day, half)
           c == MonthlyBoundary(k + 1, day, half)
           i == Min({day, MonthLength(k)})
           j == Min({day, MonthLength(k + 1)})
<1>1. k \in 0 .. Months - 1 /\ k + 1 \in 0 .. Months - 1 /\ k \in Nat /\ k + 1 \in Nat
      /\ k \in 0 .. Months
  BY MonthsFacts
<1>2. /\ b = 2 * (MonthStart[k] + i - 1) + half
      /\ c = 2 * (MonthStart[k + 1] + j - 1) + half
  BY <1>1, BoundaryFacts
<1>3. /\ i = IF day > MonthLength(k) THEN MonthLength(k) ELSE day
      /\ j = IF day > MonthLength(k + 1) THEN MonthLength(k + 1) ELSE day
  BY <1>1, ShortMonth
<1> HIDE DEF b, c, i, j
<1>4. /\ MonthStart[k + 1] = MonthStart[k] + MonthLength(k) /\ MonthStart[k] \in Nat
      /\ MonthLength(k) \in 28 .. 31 /\ MonthLength(k + 1) \in 28 .. 31
  BY <1>1, MonthStartDef, MonthStartType, MonthLengths
<1>5. half \in 0 .. 1
  BY DEF Halves
<1>6. j - i + MonthLength(k) <= 31 /\ i \in Int /\ j \in Int
  BY <1>3, <1>4
<1>7. c <= b + 62
  BY <1>2, <1>4, <1>5, <1>6
<1> QED
  BY <1>7 DEF b, c

\* Instants are two months from both ends of the calendar.
LEMMA InstantsFacts ==
  ASSUME NEW t \in Instants
  PROVE  /\ t \in 0 .. 2 * CalendarEnd - 1 /\ t >= 56 /\ t + 64 < 2 * CalendarEnd
         /\ MonthOf(DayAt(t)) \in 1 .. Months - 3
<1> DEFINE n == Months - 2
<1>1. n \in Nat /\ n + 1 \in Nat /\ n \in 0 .. Months /\ n + 1 \in 0 .. Months /\ LastMonth - 1 = n
      /\ n \in 0 .. Months - 1 /\ n + 1 \in 0 .. Months - 1 /\ (n + 1) + 1 = Months
  BY MonthsFacts
<1>2. 2 * MonthStart[1] <= t /\ t <= 2 * MonthStart[n] - 1 /\ t \in Int
  BY <1>1, MonthStartType, MonthsFacts DEF Instants
<1> HIDE DEF n
<1>3. /\ MonthStart[n + 1] = MonthStart[n] + MonthLength(n)
      /\ CalendarEnd = MonthStart[n + 1] + MonthLength(n + 1)
      /\ MonthStart[n] \in Nat /\ MonthStart[n + 1] \in Nat
      /\ MonthLength(n) \in 28 .. 31 /\ MonthLength(n + 1) \in 28 .. 31
  <2>1. CalendarEnd = MonthStart[(n + 1) + 1]
    BY <1>1 DEF CalendarEnd
  <2>2. MonthStart[(n + 1) + 1] = MonthStart[n + 1] + MonthLength(n + 1)
    BY <1>1, MonthStartDef
  <2> QED
    BY <1>1, <2>1, <2>2, MonthStartDef, MonthStartType, MonthLengths
<1>4. MonthStart[1] = MonthLength(0) /\ MonthLength(0) \in 28 .. 31
  <2>1. 0 \in 0 .. Months - 1 /\ 0 + 1 = 1
    BY MonthsFacts
  <2>2. MonthStart[0 + 1] = MonthStart[0] + MonthLength(0) /\ MonthStart[0] = 0
    BY <2>1, MonthStartDef
  <2>3. MonthLength(0) \in 28 .. 31
    BY MonthLengths
  <2> QED
    BY <2>1, <2>2, <2>3
<1>5. t \in 0 .. 2 * CalendarEnd - 1 /\ t >= 56 /\ t + 64 < 2 * CalendarEnd
  BY <1>2, <1>3, <1>4
<1> DEFINE m == MonthOf(DayAt(t))
<1>6. m \in 0 .. Months - 1 /\ 2 * MonthStart[m] <= t /\ t < 2 * (MonthStart[m] + MonthLength(m))
  BY <1>5, InstantFacts
<1> HIDE DEF m
<1>7. m \in 0 .. Months /\ m \in Nat
  BY <1>6, MonthsFacts
<1>8. MonthStart[m] \in Nat /\ MonthLength(m) \in 28 .. 31
  BY <1>7, MonthStartType, MonthLengths
<1>9. m # 0
  <2> SUFFICES ASSUME m = 0 PROVE FALSE
    OBVIOUS
  <2>1. MonthStart[m] = 0 /\ MonthLength(m) = MonthLength(0)
    BY MonthStartDef
  <2> QED
    BY <1>2, <1>4, <1>6, <2>1
<1>10. m # n
  BY <1>2, <1>3, <1>6
<1>11. ~(n < m)
  <2> SUFFICES ASSUME n < m PROVE FALSE
    OBVIOUS
  <2>1. MonthStart[n] + MonthLength(n) <= MonthStart[m]
    BY <1>1, <1>7, MonthOrder
  <2> QED
    BY <1>2, <1>3, <1>6, <1>8, <2>1
<1>12. m \in 1 .. Months - 3
  BY <1>1, <1>7, <1>9, <1>10, <1>11, MonthsFacts DEF n
<1> QED
  BY <1>5, <1>12 DEF m

\* The resets before and after an instant.
LEMMA CycleAt ==
  ASSUME NEW t \in Instants, NEW day \in 1 .. 31, NEW half \in Halves,
         NEW k \in 0 .. Months - 2,
         MonthlyBoundary(k, day, half) <= t, t < MonthlyBoundary(k + 1, day, half)
  PROVE  /\ LastMonthly(t, day, half) = MonthlyBoundary(k, day, half)
         /\ NextMonthly(t, day, half) = MonthlyBoundary(k + 1, day, half)
<1> DEFINE b == MonthlyBoundary(k, day, half)
           c == MonthlyBoundary(k + 1, day, half)
           P == {u \in (t - 64)..t : u >= 0 /\ IsMonthlyReset(u, day, half)}
           F == {u \in (t + 1)..(t + 64) : IsMonthlyReset(u, day, half)}
<1>1. k \in 0 .. Months - 1 /\ k + 1 \in 0 .. Months - 1 /\ k \in Int
  BY MonthsFacts
<1>2. /\ b \in Nat /\ IsMonthlyReset(b, day, half)
      /\ c \in Nat /\ IsMonthlyReset(c, day, half)
  BY <1>1, BoundaryFacts
<1>3. c <= b + 62 /\ b <= t /\ t < c
  BY BoundaryGap
<1>4. t \in Nat /\ t + 64 < 2 * CalendarEnd /\ CalendarEnd \in Nat
  BY InstantsFacts, CalendarFacts
\* Other resets are those of other months.
<1>5. ASSUME NEW u \in 0 .. 2 * CalendarEnd - 1, IsMonthlyReset(u, day, half)
      PROVE  u \in Nat /\ (u <= b \/ c <= u)
  <2> DEFINE j == MonthOf(DayAt(u))
  <2>1. j \in 0 .. Months - 1 /\ u = MonthlyBoundary(j, day, half)
    BY <1>5, InstantFacts, ResetIsBoundary
  <2> HIDE DEF j
  <2>2. j \in Int /\ u \in Nat
    BY <2>1, MonthsFacts, BoundaryFacts
  <2>3. CASE j = k
    BY <1>2, <2>1, <2>3
  <2>4. CASE j < k
    <3>1. u < b
      BY <1>1, <2>1, <2>4, BoundaryOrder
    <3> QED
      BY <1>2, <2>2, <3>1
  <2>5. CASE j = k + 1
    BY <1>2, <2>1, <2>5
  <2>6. CASE k + 1 < j
    <3>1. c < u
      BY <1>1, <2>1, <2>6, BoundaryOrder
    <3> QED
      BY <1>2, <2>2, <3>1
  <2> QED
    BY <1>1, <2>2, <2>3, <2>4, <2>5, <2>6
<1> HIDE DEF b, c
<1>6. Max(P) = b
  <2>1. P \in SUBSET Int /\ b \in P
    BY <1>2, <1>3, <1>4
  <2>2. ASSUME NEW u \in P PROVE u <= b
    <3>1. u \in 0 .. 2 * CalendarEnd - 1 /\ IsMonthlyReset(u, day, half) /\ u <= t
      BY <1>4
    <3>2. u \in Nat /\ (u <= b \/ c <= u)
      BY <1>5, <3>1
    <3> QED
      BY <1>2, <1>3, <1>4, <3>1, <3>2
  <2> HIDE DEF P
  <2> QED
    BY <2>1, <2>2, MaxIs
<1>7. Min(F) = c
  <2>1. F \in SUBSET Int /\ c \in F
    BY <1>2, <1>3, <1>4
  <2>2. ASSUME NEW u \in F PROVE c <= u
    <3>1. u \in 0 .. 2 * CalendarEnd - 1 /\ IsMonthlyReset(u, day, half) /\ t < u
      BY <1>4
    <3>2. u \in Nat /\ (u <= b \/ c <= u)
      BY <1>5, <3>1
    <3> QED
      BY <1>2, <1>3, <1>4, <3>1, <3>2
  <2> HIDE DEF F
  <2> QED
    BY <2>1, <2>2, MinIs
<1> QED
  BY <1>6, <1>7 DEF LastMonthly, NextMonthly, b, c

\* The cycle of t began in its month, or in the one before.
CycleMonth(t, day, half) ==
  LET m == MonthOf(DayAt(t))
  IN  IF t < MonthlyBoundary(m, day, half) THEN m - 1 ELSE m

LEMMA CycleMonthFacts ==
  ASSUME NEW t \in Instants, NEW day \in 1 .. 31, NEW half \in Halves
  PROVE  LET k == CycleMonth(t, day, half)
         IN  /\ k \in 0 .. Months - 2
             /\ LastMonthly(t, day, half) = MonthlyBoundary(k, day, half)
             /\ NextMonthly(t, day, half) = MonthlyBoundary(k + 1, day, half)
<1> DEFINE m == MonthOf(DayAt(t))
           b(j) == MonthlyBoundary(j, day, half)
           k == CycleMonth(t, day, half)
<1>1. m \in 1 .. Months - 3 /\ t \in Nat /\ t \in 0 .. 2 * CalendarEnd - 1
  BY InstantsFacts, CalendarFacts
<1>2. 2 * MonthStart[m] <= t /\ t < 2 * (MonthStart[m] + MonthLength(m))
  BY <1>1, InstantFacts
<1>3. k = IF t < b(m) THEN m - 1 ELSE m
  BY DEF CycleMonth
<1> HIDE DEF m, k
<1>4. /\ m - 1 \in 0 .. Months - 1 /\ m \in 0 .. Months - 1 /\ m + 1 \in 0 .. Months - 1
      /\ (m - 1) + 1 = m /\ m \in Nat /\ m - 1 \in 0 .. Months - 2 /\ m \in 0 .. Months - 2
  BY <1>1, MonthsFacts
<1>5. /\ b(m - 1) < 2 * (MonthStart[m - 1] + MonthLength(m - 1)) /\ b(m - 1) \in Nat
      /\ b(m) \in Nat
      /\ 2 * MonthStart[m + 1] <= b(m + 1) /\ b(m + 1) \in Nat
  BY <1>4, BoundaryFacts
<1> HIDE DEF b
<1>6. /\ MonthStart[(m - 1) + 1] = MonthStart[m - 1] + MonthLength(m - 1)
      /\ MonthStart[m + 1] = MonthStart[m] + MonthLength(m)
  BY <1>4, MonthStartDef
<1>7. MonthStart[m] = MonthStart[m - 1] + MonthLength(m - 1)
  BY <1>4, <1>6
<1>8. MonthStart[m] \in Nat /\ MonthStart[m + 1] \in Nat
  <2>1. m \in 0 .. Months /\ m + 1 \in 0 .. Months
    BY <1>4, MonthsFacts
  <2> QED
    BY <2>1, MonthStartType
<1>9. k \in 0 .. Months - 2 /\ b(k) <= t /\ t < b(k + 1)
  <2>1. CASE t < b(m)
    <3>1. k = m - 1
      BY <1>3, <2>1
    <3>2. b(m - 1) < 2 * MonthStart[m]
      BY <1>5, <1>7
    <3>3. b(m - 1) <= t
      BY <1>1, <1>2, <1>5, <1>8, <3>2
    <3>4. b((m - 1) + 1) = b(m)
      BY <1>4
    <3> QED
      BY <1>4, <2>1, <3>1, <3>3, <3>4
  <2>2. CASE ~(t < b(m))
    <3>1. k = m
      BY <1>3, <2>2
    <3>2. t < 2 * MonthStart[m + 1]
      BY <1>2, <1>6
    <3>3. t < b(m + 1)
      BY <1>1, <1>5, <1>8, <3>2
    <3>4. b(m) <= t
      BY <1>1, <1>5, <2>2
    <3> QED
      BY <1>4, <3>1, <3>3, <3>4
  <2> QED
    BY <2>1, <2>2
<1>10. /\ LastMonthly(t, day, half) = b(k) /\ NextMonthly(t, day, half) = b(k + 1)
  BY <1>9, CycleAt DEF b
<1> QED
  BY <1>9, <1>10 DEF k, b

LEMMA MonthlyRight ==
  ASSUME NEW t \in Instants, NEW day \in 1 .. 31, NEW half \in Halves
  PROVE  /\ MonthlyCycleStart(t, day, half) = LastMonthly(t, day, half)
         /\ NextMonthlyReset(t, day, half) = NextMonthly(t, day, half)
<1> DEFINE m == MonthOf(DayAt(t))
           k == CycleMonth(t, day, half)
<1>1. m \in 1 .. Months - 3
  BY InstantsFacts
<1>2. /\ k \in 0 .. Months - 2
      /\ LastMonthly(t, day, half) = MonthlyBoundary(k, day, half)
      /\ NextMonthly(t, day, half) = MonthlyBoundary(k + 1, day, half)
  BY CycleMonthFacts
<1>3. k = IF t < MonthlyBoundary(m, day, half) THEN m - 1 ELSE m
  BY DEF CycleMonth
<1>4. MonthlyCycleStart(t, day, half) =
        IF t < MonthlyBoundary(m, day, half) THEN MonthlyBoundary(MonthOf(Date(m - 1, 1)), day, half)
        ELSE MonthlyBoundary(m, day, half)
  BY DEF MonthlyCycleStart
<1> HIDE DEF m, k
<1>5. MonthOf(Date(m - 1, 1)) = m - 1
  <2>1. m - 1 \in 0 .. Months - 1 /\ m - 1 \in Nat
    BY <1>1, MonthsFacts
  <2>2. 1 \in 1 .. MonthLength(m - 1)
    BY <2>1, MonthLengths
  <2> QED
    BY <2>1, <2>2, DateFacts
<1>6. MonthlyCycleStart(t, day, half) = MonthlyBoundary(k, day, half)
  BY <1>3, <1>4, <1>5
<1>7. MonthOf(DayAt(MonthlyBoundary(k, day, half))) = k
  <2>1. k \in 0 .. Months - 1
    BY <1>2, MonthsFacts
  <2> QED
    BY <2>1, BoundaryFacts
<1>8. NextMonthlyReset(t, day, half) = MonthlyBoundary(k + 1, day, half)
  BY <1>6, <1>7 DEF NextMonthlyReset
<1> QED
  BY <1>2, <1>6, <1>8

\* Subscribers: a month back from a day that every month has is in the month before.
LEMMA SubscriberRight ==
  ASSUME NEW t \in Instants, NEW day \in 1 .. 28, NEW half \in Halves
  PROVE  /\ SubscriberCycleStart(t, day, half) = LastMonthly(t, day, half)
         /\ NextSubscriberReset(t, day, half) = NextMonthly(t, day, half)
<1> DEFINE d == DayAt(t)
           m == MonthOf(d)
           k == CycleMonth(t, day, half)
<1>0. day \in 1 .. 31 /\ day <= 28
  OBVIOUS
<1>1. m \in 1 .. Months - 3 /\ t \in 0 .. 2 * CalendarEnd - 1
  BY InstantsFacts
<1>2. /\ k \in 0 .. Months - 2
      /\ LastMonthly(t, day, half) = MonthlyBoundary(k, day, half)
      /\ NextMonthly(t, day, half) = MonthlyBoundary(k + 1, day, half)
  BY <1>0, CycleMonthFacts
<1>3. k = IF t < MonthlyBoundary(m, day, half) THEN m - 1 ELSE m
  BY DEF CycleMonth
<1>4. SubscriberCycleStart(t, day, half) =
        IF t < MonthlyBoundary(m, day, half)
        THEN MonthlyBoundary(MonthOf(Date(m + (-1), DayOf(d))), day, half)
        ELSE MonthlyBoundary(m, day, half)
  BY DEF SubscriberCycleStart, AddMonths
<1>5. /\ d \in Days /\ d \in Nat /\ t = 2 * d + (t % 2) /\ t % 2 \in {0, 1}
      /\ DayOf(d) = d - MonthStart[m] + 1 /\ DayOf(d) \in 1 .. MonthLength(m)
  BY <1>1, InstantFacts, MonthOfFacts DEF DayOf
<1> HIDE DEF d, m, k
<1>6. m \in 0 .. Months - 1 /\ m \in Nat /\ m \in 0 .. Months /\ m - 1 \in 0 .. Months - 1
      /\ m - 1 \in Nat /\ m + (-1) = m - 1
  BY <1>1, MonthsFacts
<1>7. MonthlyBoundary(m, day, half) = 2 * (MonthStart[m] + day - 1) + half
  <2>1. MonthlyBoundary(m, day, half) = 2 * (MonthStart[m] + Min({day, MonthLength(m)}) - 1) + half
    BY <1>0, <1>6, BoundaryFacts
  <2>2. Min({day, MonthLength(m)}) = day
    BY <1>0, <1>6, ShortMonth
  <2> QED
    BY <2>1, <2>2
<1>8. t < MonthlyBoundary(m, day, half) => MonthOf(Date(m + (-1), DayOf(d))) = m - 1
  <2> SUFFICES ASSUME t < MonthlyBoundary(m, day, half)
               PROVE  MonthOf(Date(m - 1, DayOf(d))) = m - 1
    BY <1>6
  <2>1. MonthStart[m] \in Nat /\ half \in 0 .. 1 /\ MonthLength(m - 1) \in 28 .. 31
        /\ MonthLength(m) \in 28 .. 31
    BY <1>6, MonthStartType, MonthLengths DEF Halves
  <2> DEFINE i == DayOf(d)
  <2>2. i = d - MonthStart[m] + 1 /\ i \in 1 .. MonthLength(m)
    BY <1>5
  <2> HIDE DEF i
  <2>3. i <= day
    BY <1>5, <1>7, <2>1, <2>2
  <2>4. i \in 1 .. MonthLength(m - 1)
    BY <2>1, <2>2, <2>3
  <2>5. MonthOf(Date(m - 1, i)) = m - 1
    BY <1>6, <2>4, DateFacts
  <2> QED
    BY <2>5 DEF i
<1>9. SubscriberCycleStart(t, day, half) = MonthlyBoundary(k, day, half)
  BY <1>3, <1>4, <1>8
<1>10. k \in 0 .. Months - 1 /\ k + 1 \in 0 .. Months - 1 /\ k \in Nat /\ k + 1 \in Nat
  BY <1>2, MonthsFacts
<1> DEFINE b == MonthlyBoundary(k, day, half)
<1>11. MonthOf(DayAt(b)) = k /\ DayOf(DayAt(b)) = day
  <2>1. MonthOf(DayAt(b)) = k /\ DayOf(DayAt(b)) = Min({day, MonthLength(k)})
    BY <1>0, <1>10, BoundaryFacts
  <2>2. Min({day, MonthLength(k)}) = day
    BY <1>0, <1>10, ShortMonth
  <2> QED
    BY <2>1, <2>2
<1> HIDE DEF b
<1>12. MonthOf(AddMonths(DayAt(b), 1)) = k + 1
  <2>1. AddMonths(DayAt(b), 1) = Date(k + 1, day)
    BY <1>11 DEF AddMonths
  <2>2. day \in 1 .. MonthLength(k + 1)
    <3>1. MonthLength(k + 1) \in 28 .. 31
      BY <1>10, MonthLengths
    <3> QED
      BY <3>1
  <2> QED
    BY <1>10, <2>1, <2>2, DateFacts
<1>13. NextSubscriberReset(t, day, half) = MonthlyBoundary(k + 1, day, half)
  BY <1>9, <1>12 DEF NextSubscriberReset, b
<1> QED
  BY <1>2, <1>9, <1>13

LEMMA DailyRight ==
  ASSUME NEW t \in Instants, NEW half \in Halves
  PROVE  DailyCycleStart(t, half) = Max({u \in (t - 2)..t : u % 2 = half})
<1> DEFINE d == DayAt(t)
           S == {u \in (t - 2)..t : u % 2 = half}
           c == IF t < 2 * d + half THEN (2 * d + half) - 2 ELSE 2 * d + half
<1>1. /\ d \in Nat /\ t = 2 * d + (t % 2) /\ t % 2 \in {0, 1} /\ t \in Nat /\ t >= 56
  <2>1. t \in 0 .. 2 * CalendarEnd - 1 /\ t >= 56
    BY InstantsFacts
  <2>2. d \in Nat /\ t = 2 * d + (t % 2) /\ t % 2 \in {0, 1}
    BY <2>1, InstantFacts
  <2>3. t \in Nat
    BY <2>1, CalendarFacts
  <2> QED
    BY <2>1, <2>2, <2>3
<1>2. DailyCycleStart(t, half) = c
  BY DEF DailyCycleStart
<1> HIDE DEF d
<1>3. half \in {0, 1}
  BY DEF Halves
<1>4. c \in S /\ S \in SUBSET Int
  BY <1>1, <1>3
<1>5. ASSUME NEW u \in S PROVE u <= c
  BY <1>1, <1>3
<1> HIDE DEF c, S
<1>6. Max(S) = c
  BY <1>4, <1>5, MaxIs
<1> QED
  BY <1>2, <1>6 DEF S

LEMMA WeeklyRight ==
  ASSUME NEW t \in Instants, NEW weekday \in 1 .. 7, NEW half \in Halves
  PROVE  WeeklyCycleStart(t, weekday, half) =
           Max({u \in (t - 14)..t : IsWeeklyReset(u, weekday, half)})
<1> DEFINE d == DayAt(t)
           S == {u \in (t - 14)..t : IsWeeklyReset(u, weekday, half)}
           w == WeekdayOf(d)
           o == (w - weekday + 7) % 7
           b == 2 * (d - o) + half
           c == IF t < b THEN b - 14 ELSE b
<1>1. /\ d \in Nat /\ t = 2 * d + (t % 2) /\ t % 2 \in {0, 1} /\ t \in Nat /\ t >= 56
  <2>1. t \in 0 .. 2 * CalendarEnd - 1 /\ t >= 56
    BY InstantsFacts
  <2>2. d \in Nat /\ t = 2 * d + (t % 2) /\ t % 2 \in {0, 1}
    BY <2>1, InstantFacts
  <2>3. t \in Nat
    BY <2>1, CalendarFacts
  <2> QED
    BY <2>1, <2>2, <2>3
<1>2. WeeklyCycleStart(t, weekday, half) = c
  BY DEF WeeklyCycleStart
<1>3. FirstWeekday \in 1 .. 7 /\ half \in {0, 1}
  BY CalendarAssumption DEF Halves
<1>4. w = ((d + FirstWeekday - 1) % 7) + 1
  BY DEF WeekdayOf
<1> HIDE DEF d, w
<1>5. w \in 1 .. 7 /\ o \in 0 .. 6
  BY <1>1, <1>3, <1>4
\* The days with this weekday are whole weeks from d - o.
<1>6. ASSUME NEW v \in Nat
      PROVE  WeekdayOf(v) = weekday <=> (v - (d - o)) % 7 = 0
  <2>1. WeekdayOf(v) = ((v + FirstWeekday - 1) % 7) + 1
    BY DEF WeekdayOf
  <2> QED
    BY <1>1, <1>3, <1>4, <1>5, <2>1
<1>7. ASSUME NEW u \in (t - 14)..t
      PROVE  /\ u \in Nat /\ u \div 2 \in Nat
             /\ IsWeeklyReset(u, weekday, half) <=> u % 2 = half /\ ((u \div 2) - (d - o)) % 7 = 0
  <2>1. u \in Nat /\ u \div 2 \in Nat
    BY <1>1
  <2> QED
    BY <1>6, <2>1 DEF IsWeeklyReset, DayAt
<1>8. c \in (t - 14)..t
  BY <1>1, <1>3, <1>5
<1>9. c % 2 = half /\ ((c \div 2) - (d - o)) % 7 = 0
  BY <1>1, <1>3, <1>5
<1>10. ASSUME NEW u \in (t - 14)..t, u % 2 = half, ((u \div 2) - (d - o)) % 7 = 0
       PROVE  u <= c
  BY <1>1, <1>3, <1>5, <1>10
<1> HIDE DEF c, o, b
<1>11. c \in S /\ S \in SUBSET Int /\ \A u \in S : u <= c
  BY <1>7, <1>8, <1>9, <1>10
<1> HIDE DEF S
<1>12. Max(S) = c
  BY <1>11, MaxIs
<1> QED
  BY <1>2, <1>12 DEF S

\* Whatever the reset day, the hour and the weekday, and in every year, the cycle found
\* is the current one: trafficCycleStart, currentClientCycleStart, nextClientResetAt,
\* and on the days every month has currentSubscriberCycleStart, nextSubscriberReset.
THEOREM CyclesFollowCalendar == RenewalSpec => []CyclesAreCurrent
<1>1. RenewalInv => CyclesAreCurrent
  <2> SUFFICES ASSUME RenewalInv, NEW t \in {2 * today, 2 * today + 1}
               PROVE  MonthlyCycleRight[t] /\ ShortCycleRight[t] /\ SubscriberCycleRight[t]
    BY DEF CyclesAreCurrent
  <2>1. t \in Instants
    <3> DEFINE n == Months - LastPeriod
               l == Months - 2
    <3>1. n \in 0 .. Months /\ n = LastMonth + 1 - LastPeriod /\ l = LastMonth - 1
          /\ l \in 0 .. Months /\ n <= l
      BY LastPeriodFacts, MonthsFacts
    <3>2. LastToday = MonthStart[n] - 1
      BY <3>1 DEF LastToday, LastPeriod
    <3> HIDE DEF n, l
    <3>3. MonthStart[n] \in Nat /\ MonthStart[l] \in Nat /\ MonthStart[1] \in Nat
      <4>1. 1 \in 0 .. Months
        BY MonthsFacts
      <4> QED
        BY <3>1, <4>1, MonthStartType
    <3>4. MonthStart[n] <= MonthStart[l]
      <4>1. CASE n < l
        <5>1. MonthStart[n] + MonthLength(n) <= MonthStart[l]
          BY <3>1, <4>1, MonthOrder
        <5>2. n \in Nat
          BY <3>1, MonthsFacts
        <5>3. MonthLength(n) \in 28 .. 31
          BY <5>2, MonthLengths
        <5> QED
          BY <3>3, <5>1, <5>3
      <4>2. CASE n = l
        BY <3>3, <4>2
      <4> QED
        BY <3>1, <4>1, <4>2, MonthsFacts
    <3>5. today \in Nat /\ MonthStart[1] <= today /\ today <= LastToday
      BY DayNumbers DEF RenewalInv
    <3>6. 2 * MonthStart[1] <= t /\ t <= 2 * MonthStart[l] - 1 /\ t \in Int
      BY <3>2, <3>3, <3>4, <3>5
    <3>7. 2 * MonthStart[1] \in Int /\ 2 * MonthStart[LastMonth - 1] - 1 \in Int
          /\ t <= 2 * MonthStart[LastMonth - 1] - 1
      BY <3>1, <3>3, <3>6
    <3> QED
      BY <3>6, <3>7 DEF Instants
  <2>2. ResetDays \subseteq 1 .. 31
    BY ResetDaysAssumption
  <2>3. MonthlyCycleRight[t]
    <3>1. \A day \in ResetDays, half \in Halves :
            /\ MonthlyCycleStart(t, day, half) = LastMonthly(t, day, half)
            /\ NextMonthlyReset(t, day, half) = NextMonthly(t, day, half)
      BY <2>1, <2>2, MonthlyRight
    <3> QED
      BY <2>1, <3>1 DEF MonthlyCycleRight
  <2>4. SubscriberCycleRight[t]
    <3>1. \A day \in ResetDays \cap 1..28, half \in Halves :
            /\ SubscriberCycleStart(t, day, half) = LastMonthly(t, day, half)
            /\ NextSubscriberReset(t, day, half) = NextMonthly(t, day, half)
      BY <2>1, SubscriberRight
    <3> QED
      BY <2>1, <3>1 DEF SubscriberCycleRight
  <2>5. ShortCycleRight[t]
    <3>1. \A half \in Halves :
            /\ DailyCycleStart(t, half) = Max({u \in (t - 2)..t : u % 2 = half})
            /\ \A weekday \in 1..7 :
                 WeeklyCycleStart(t, weekday, half) =
                   Max({u \in (t - 14)..t : IsWeeklyReset(u, weekday, half)})
      BY <2>1, DailyRight, WeeklyRight
    <3> QED
      BY <2>1, <3>1 DEF ShortCycleRight
  <2> QED
    BY <2>3, <2>4, <2>5
<1> QED
  BY <1>1, RenewalInvariant, PTL
=============================================================================
