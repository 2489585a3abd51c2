------------------------ MODULE NotificationsProofs -------------------------
(* Theorems about Notifications, for every value of its constants.         *)
EXTENDS Notifications, FiniteSetTheorems, WellFoundedInduction, TLAPS

NoticeRow == [started : Nat, notified : BOOLEAN, cycle : Nat, step : Nat]

\* Notices, named as the chat names them.
OutageNotices == {"offline", "recovery"} \X Servers \X (Nat \ {0}) \X {0}
TrafficNotices == {"traffic"} \X Servers \X (1..MaxCycle) \X (Nat \ {0})

NoticesType ==
  /\ settings \in SettingsChoices
  /\ eligible \subseteq Servers /\ connected \subseteq Servers
  /\ used \in [Servers -> Nat] /\ cycle \in [Servers -> 1..MaxCycle]
  /\ row \in [Servers -> NoticeRow]
  /\ firstAbsent \in [Servers -> Nat] /\ pendingOffline \subseteq Servers
  /\ queue \in Seq(Events) /\ work \in Deliveries \cup {Idle}
  /\ outages \in Nat
  /\ DOMAIN chat \subseteq OutageNotices \cup TrafficNotices /\ chat \in [DOMAIN chat -> Nat]
  /\ begins \in [Servers -> [1..MaxCycle -> Nat]]

-----------------------------------------------------------------------------
(* The operators.                                                          *)

\* What is queued, and what a queue holds of one notice.
Queued(q) == {q[i] : i \in DOMAIN q}
Holds(ev, k, s, m, p) == ev.kind = k /\ Entry(s, m, p) \in ev.entries
Places(q, k, s, m, p) == {i \in DOMAIN q : Holds(q[i], k, s, m, p)}
Copies(q, k, s, m, p) == Cardinality(Places(q, k, s, m, p))

\* An event that is taken in hand is there.
LEMMA InHand == \A w \in Deliveries : w # Idle
  BY NotificationAssumption

\* A set of naturals up to n has a greatest member.
LEMMA Greatest ==
  ASSUME NEW n \in Nat, NEW S \in SUBSET (0..n), S # {}
  PROVE  \E x \in S : \A y \in S : y <= x
<1> DEFINE T == {n - x : x \in S}
<1>1. T \subseteq Nat /\ T # {}
  <2>1. \A x \in S : n - x \in Nat
    OBVIOUS
  <2>2. PICK x \in S : TRUE
    OBVIOUS
  <2>3. n - x \in T
    OBVIOUS
  <2> QED BY <2>1, <2>3, Zenon
<1>2. PICK t \in T : \A u \in T : ~(<<u, t>> \in OpToRel(<, Nat))
  BY <1>1, NatLessThanWellFounded, WFMin
<1>3. \A u \in T : ~(u < t)
  BY <1>1, <1>2 DEF OpToRel
<1>4. PICK x \in S : t = n - x
  OBVIOUS
<1>5. \A y \in S : n - y \in T
  OBVIOUS
<1>6. \A y \in S : ~(n - y < n - x)
  BY <1>3, <1>4, <1>5
<1> QED BY <1>4, <1>6

\* A step of the traffic is a number.
LEMMA StepIsNumber ==
  ASSUME NEW n, NEW set \in SettingsChoices
  PROVE  TrafficStep(n, set) \in Nat
<1> DEFINE reached == {p \in set.threshold..99 : (p - set.threshold) % set.step = 0 /\ n >= (Limit * p + 99) \div 100}
<1>1. reached \in SUBSET (0..99)
  BY NotificationAssumption
<1>2. CASE reached = {}
  BY <1>2 DEF TrafficStep
<1>3. CASE reached # {}
  <2>1. PICK x \in reached : \A y \in reached : y <= x
    BY <1>1, <1>3, Greatest
  <2> DEFINE top == CHOOSE p \in reached : \A q \in reached : q <= p
  <2>2. top \in reached
    BY <2>1
  <2>3. TrafficStep(n, set) = 100 \/ TrafficStep(n, set) = top
    BY <1>3, Zenon DEF TrafficStep
  <2> HIDE DEF top, reached
  <2>4. top \in Nat
    BY <1>1, <2>2
  <2> QED BY <2>3, <2>4
<1> QED BY <1>2, <1>3

\* An event goes to the end of the queue.
LEMMA AtTheEnd ==
  ASSUME NEW q \in Seq(Events), NEW ev \in Events
  PROVE  /\ Append(q, ev) \in Seq(Events) /\ Len(Append(q, ev)) = Len(q) + 1
         /\ DOMAIN Append(q, ev) = DOMAIN q \cup {Len(q) + 1} /\ Len(q) + 1 \notin DOMAIN q
         /\ Append(q, ev)[Len(q) + 1] = ev /\ \A i \in DOMAIN q : Append(q, ev)[i] = q[i]
         /\ Queued(Append(q, ev)) = Queued(q) \cup {ev}
<1>1. /\ Append(q, ev) \in Seq(Events) /\ Len(Append(q, ev)) = Len(q) + 1
      /\ DOMAIN Append(q, ev) = DOMAIN q \cup {Len(q) + 1} /\ Len(q) + 1 \notin DOMAIN q
      /\ Append(q, ev)[Len(q) + 1] = ev /\ \A i \in DOMAIN q : Append(q, ev)[i] = q[i]
  OBVIOUS
<1> HIDE DEF Queued
<1>2. Queued(Append(q, ev)) = Queued(q) \cup {ev}
  BY <1>1, Zenon DEF Queued
<1> QED BY <1>1, <1>2

\* And leaves it at the front.
LEMMA AtTheFront ==
  ASSUME NEW q \in Seq(Events), q # <<>>
  PROVE  /\ Head(q) \in Events /\ Tail(q) \in Seq(Events) /\ 1 \in DOMAIN q /\ Head(q) = q[1]
         /\ \A i \in DOMAIN Tail(q) : i \in Nat /\ i + 1 \in DOMAIN q /\ Tail(q)[i] = q[i + 1]
         /\ \A j \in DOMAIN q : j = 1 \/ (j - 1 \in DOMAIN Tail(q) /\ q[j] = Tail(q)[j - 1])
         /\ Queued(q) = Queued(Tail(q)) \cup {Head(q)}
<1>1. /\ Head(q) \in Events /\ Tail(q) \in Seq(Events) /\ 1 \in DOMAIN q /\ Head(q) = q[1]
      /\ \A i \in DOMAIN Tail(q) : i \in Nat /\ i + 1 \in DOMAIN q /\ Tail(q)[i] = q[i + 1]
      /\ \A j \in DOMAIN q : j = 1 \/ (j - 1 \in DOMAIN Tail(q) /\ q[j] = Tail(q)[j - 1])
  OBVIOUS
<1>2. Queued(Tail(q)) \cup {Head(q)} \subseteq Queued(q)
  BY <1>1 DEF Queued
<1>3. ASSUME NEW j \in DOMAIN q PROVE q[j] \in Queued(Tail(q)) \cup {Head(q)}
  BY <1>1 DEF Queued
<1>4. Queued(q) \subseteq Queued(Tail(q)) \cup {Head(q)}
  BY <1>3 DEF Queued
<1> QED BY <1>1, <1>2, <1>4

\* The queue is finite, so the copies in it are counted.
LEMMA CountedInQueue ==
  ASSUME NEW q \in Seq(Events), NEW k, NEW s, NEW m, NEW p
  PROVE  IsFiniteSet(Places(q, k, s, m, p)) /\ Copies(q, k, s, m, p) \in Nat
<1>1. IsFiniteSet(DOMAIN q)
  <2>1. DOMAIN q = 1..Len(q) /\ Len(q) \in Nat
    OBVIOUS
  <2> QED BY <2>1, FS_Interval
<1>2. Places(q, k, s, m, p) \in SUBSET DOMAIN q
  BY DEF Places
<1> QED BY <1>1, <1>2, FS_Subset, FS_CardinalityType DEF Copies

\* An event that is queued adds one copy of each of its notices.
LEMMA OneMore ==
  ASSUME NEW q \in Seq(Events), NEW ev \in Events, NEW k, NEW s, NEW m, NEW p
  PROVE  Copies(Append(q, ev), k, s, m, p) =
           Copies(q, k, s, m, p) + (IF Holds(ev, k, s, m, p) THEN 1 ELSE 0)
<1> DEFINE old == Places(q, k, s, m, p)  new == Places(Append(q, ev), k, s, m, p)
<1>1. IsFiniteSet(old) /\ Copies(q, k, s, m, p) \in Nat
  BY CountedInQueue
<1>2. Len(q) + 1 \notin old
  BY AtTheEnd DEF Places
<1>3. CASE Holds(ev, k, s, m, p)
  <2>1. new = old \cup {Len(q) + 1}
    BY <1>3, AtTheEnd DEF Places
  <2> QED BY <1>1, <1>2, <1>3, <2>1, FS_AddElement DEF Copies
<1>4. CASE ~Holds(ev, k, s, m, p)
  <2>1. new = old
    BY <1>4, AtTheEnd DEF Places
  <2> QED BY <1>1, <1>4, <2>1 DEF Copies
<1> QED BY <1>3, <1>4

\* The event that leaves takes its copy with it.
LEMMA OneLess ==
  ASSUME NEW q \in Seq(Events), q # <<>>, NEW k, NEW s, NEW m, NEW p
  PROVE  Copies(q, k, s, m, p) =
           Copies(Tail(q), k, s, m, p) + (IF Holds(Head(q), k, s, m, p) THEN 1 ELSE 0)
<1> DEFINE all == Places(q, k, s, m, p)  rest == Places(Tail(q), k, s, m, p)
<1>1. IsFiniteSet(all) /\ IsFiniteSet(rest) /\ Copies(Tail(q), k, s, m, p) \in Nat
  BY CountedInQueue, AtTheFront
<1>2. \A i \in rest : i \in Nat /\ i + 1 \in all \ {1}
  BY AtTheFront DEF Places
<1>3. \A j \in all \ {1} : j - 1 \in rest /\ j \in Nat
  BY AtTheFront DEF Places
<1>4. Cardinality(all \ {1}) = Cardinality(rest)
  <2> DEFINE f == [i \in rest |-> i + 1]
  <2>1. f \in Bijection(rest, all \ {1})
    <3>1. f \in [rest -> all \ {1}]
      BY <1>2
    <3>2. \A a, b \in rest : f[a] = f[b] => a = b
      BY <1>2
    <3>3. ASSUME NEW j \in all \ {1} PROVE \E i \in rest : f[i] = j
      <4>1. j - 1 \in rest /\ f[j - 1] = j
        BY <1>3
      <4> QED BY <4>1
    <3> HIDE DEF f, all, rest
    <3> QED BY <3>1, <3>2, <3>3 DEF Bijection, Injection, Surjection, IsInjective
  <2> QED BY <1>1, <2>1, FS_Bijection DEF ExistsBijection
<1>5. 1 \in all <=> Holds(Head(q), k, s, m, p)
  BY AtTheFront DEF Places
<1>6. CASE Holds(Head(q), k, s, m, p)
  <2>1. all = (all \ {1}) \cup {1} /\ 1 \notin all \ {1} /\ IsFiniteSet(all \ {1})
    BY <1>1, <1>5, <1>6, FS_RemoveElement
  <2> HIDE DEF all, rest
  <2>2. Cardinality(all) = Cardinality(all \ {1}) + 1
    BY <2>1, FS_AddElement
  <2> QED BY <1>4, <1>6, <2>2 DEF Copies, all, rest
<1>7. CASE ~Holds(Head(q), k, s, m, p)
  <2>1. all = all \ {1}
    BY <1>5, <1>7
  <2>2. Cardinality(all) = Cardinality(rest)
    BY <1>4, <2>1
  <2> QED BY <1>1, <1>7, <2>2 DEF Copies
<1> QED BY <1>6, <1>7

-----------------------------------------------------------------------------
(* What a sweep does.                                                      *)

Announced(swept, graceOver) == {s \in Missing(swept) \cap graceOver : firstAbsent[s] # 0}
Begun(swept) == {s \in Missing(swept) : firstAbsent[s] = 0}
Forgotten(swept) == {s \in swept : s \notin eligible \/ s \in connected \/ ~settings.online}
Cleared(swept) == (swept \ eligible) \cup Back(swept)
Recovering(swept) == {s \in Back(swept) : row[s].notified /\ settings.online /\ settings.recovery}
OfflineEvent(swept, graceOver) ==
  [kind |-> "offline", entries |-> {Entry(s, firstAbsent[s], 0) : s \in Announced(swept, graceOver)}]
RecoveryEvent(swept) ==
  [kind |-> "recovery", entries |-> {Entry(s, row[s].started, 0) : s \in Recovering(swept)}]

\* How the queue may grow: by the offline notices, by the recoveries, or by both.
Grows(off, rec, names) ==
  \/ queue' = queue /\ pendingOffline' = pendingOffline
  \/ queue' = Append(queue, off) /\ pendingOffline' = pendingOffline \cup names
  \/ queue' = Append(queue, rec) /\ pendingOffline' = pendingOffline
  \/ queue' = Append(Append(queue, off), rec) /\ pendingOffline' = pendingOffline \cup names

\* The events of a sweep are well formed.
LEMMA SweptEvents ==
  ASSUME NoticesType, NEW swept \in SUBSET Servers, NEW graceOver
  PROVE  /\ Announced(swept, graceOver) \subseteq eligible /\ Recovering(swept) \subseteq eligible
         /\ OfflineEvent(swept, graceOver) \in Events /\ RecoveryEvent(swept) \in Events
<1>1. Announced(swept, graceOver) \subseteq eligible /\ Recovering(swept) \subseteq eligible
  BY DEF Announced, Recovering, Missing, Back
<1>2. \A s \in Announced(swept, graceOver) : Entry(s, firstAbsent[s], 0) \in OutageEntries
  BY <1>1 DEF NoticesType, Entry, OutageEntries, Announced
<1>3. \A s \in Recovering(swept) : Entry(s, row[s].started, 0) \in OutageEntries
  <2>1. \A s \in Servers : row[s].started \in Nat
    BY DEF NoticesType, NoticeRow
  <2>2. \A s \in Recovering(swept) : s \in Servers /\ row[s].started # 0
    BY <1>1 DEF NoticesType, Recovering, Back
  <2> QED BY <2>1, <2>2 DEF Entry, OutageEntries
<1> QED BY <1>1, <1>2, <1>3 DEF OfflineEvent, RecoveryEvent, Events

\* Two events at once are two events one after the other.
LEMMA TwoEvents ==
  ASSUME NEW q \in Seq(Events), NEW a \in Events, NEW b \in Events
  PROVE  q \o <<a, b>> = Append(Append(q, a), b)
  OBVIOUS

LEMMA SweepOnlineDoes ==
  ASSUME NoticesType, NEW swept \in SUBSET Servers, NEW graceOver, SweepOnline(swept, graceOver)
  PROVE  /\ firstAbsent' = [s \in Servers |->
              IF s \in Begun(swept) THEN outages + 1
              ELSE IF s \in Announced(swept, graceOver) \cup Forgotten(swept) THEN 0 ELSE firstAbsent[s]]
         /\ outages' = IF Begun(swept) = {} THEN outages ELSE outages + 1
         /\ row' = [s \in Servers |->
              IF s \in Cleared(swept) THEN [row[s] EXCEPT !.started = 0, !.notified = FALSE]
              ELSE IF s \in Announced(swept, graceOver) THEN [row[s] EXCEPT !.started = firstAbsent[s], !.notified = FALSE]
              ELSE row[s]]
         /\ Grows(OfflineEvent(swept, graceOver), RecoveryEvent(swept), Announced(swept, graceOver))
         /\ UNCHANGED <<settings, environment, work, test, chat, doubt, unrecorded>>
<1> DEFINE off == OfflineEvent(swept, graceOver)  rec == RecoveryEvent(swept)  names == Announced(swept, graceOver)
<1>1. off \in Events /\ rec \in Events
  BY SweptEvents
<1>2. \/ off.entries = {} /\ Enqueue("recovery", rec.entries)
      \/ Enqueue("offline", off.entries)
      \/ queue' = queue \o <<off, rec>> /\ pendingOffline' = pendingOffline \cup names
  BY DEF SweepOnline, OfflineEvent, RecoveryEvent, Announced, Recovering
<1>3. Enqueue("recovery", rec.entries) => Grows(off, rec, names)
  BY DEF Enqueue, Grows, RecoveryEvent
<1>4. {e.server : e \in off.entries} = names
  <2>1. \A s \in names : Entry(s, firstAbsent[s], 0).server = s
    BY DEF Entry
  <2>2. off.entries = {Entry(s, firstAbsent[s], 0) : s \in names}
    BY DEF OfflineEvent
  <2> HIDE DEF off, names
  <2>3. \A e \in off.entries : e.server \in names
    BY <2>1, <2>2
  <2>4. \A s \in names : \E e \in off.entries : e.server = s
    BY <2>1, <2>2
  <2> QED BY <2>3, <2>4
<1>5. Enqueue("offline", off.entries) => Grows(off, rec, names)
  BY <1>4 DEF Enqueue, Grows, OfflineEvent
<1>6. queue \o <<off, rec>> = Append(Append(queue, off), rec)
  BY <1>1, TwoEvents DEF NoticesType
<1>7. Grows(off, rec, names)
  BY <1>2, <1>3, <1>5, <1>6 DEF Grows
<1> QED BY <1>7 DEF SweepOnline, Announced, Begun, Forgotten, Cleared, Back, Missing


\* SweepTraffic announces the Servers whose step has risen.
Risen(swept) ==
  {s \in swept \cap eligible : LastStep(s) > (IF row[s].cycle = cycle[s] THEN row[s].step ELSE 0)}
TrafficEvent(swept) ==
  [kind |-> "traffic", entries |-> {Entry(s, cycle[s], TrafficStep(used[s], settings)) : s \in Risen(swept)}]

\* The step that a row keeps, and what it is when it has risen.
LEMMA LastSteps ==
  ASSUME NoticesType, NEW s \in Servers
  PROVE  /\ TrafficStep(used[s], settings) \in Nat /\ LastStep(s) \in Nat
         /\ LastStep(s) >= TrafficStep(used[s], settings)
         /\ row[s].cycle = cycle[s] /\ TrafficStep(used[s], settings) # 0 => LastStep(s) >= row[s].step
         /\ LastStep(s) > (IF row[s].cycle = cycle[s] THEN row[s].step ELSE 0) =>
              /\ TrafficStep(used[s], settings) # 0
              /\ row[s].cycle = cycle[s] => row[s].step < TrafficStep(used[s], settings)
<1> DEFINE now == TrafficStep(used[s], settings)
<1>1. now \in Nat
  BY StepIsNumber DEF NoticesType
<1>2. row[s].step \in Nat
  BY DEF NoticesType, NoticeRow
<1>3. LastStep(s) = LET last == IF row[s].cycle # cycle[s] \/ now = 0 THEN 0 ELSE row[s].step
                    IN IF now > last THEN now ELSE last
  BY DEF LastStep
<1> HIDE DEF now
<1>4. /\ LastStep(s) \in Nat /\ LastStep(s) >= now
      /\ row[s].cycle = cycle[s] /\ now # 0 => LastStep(s) >= row[s].step
      /\ LastStep(s) > (IF row[s].cycle = cycle[s] THEN row[s].step ELSE 0) =>
           now # 0 /\ (row[s].cycle = cycle[s] => row[s].step < now)
  BY <1>1, <1>2, <1>3
<1> QED BY <1>1, <1>4 DEF now

LEMMA SweepTrafficDoes ==
  ASSUME NoticesType, NEW swept \in SUBSET Servers, SweepTraffic(swept)
  PROVE  /\ row' = [s \in Servers |->
              IF s \in swept \cap eligible THEN [row[s] EXCEPT !.cycle = cycle[s], !.step = LastStep(s)] ELSE row[s]]
         /\ TrafficEvent(swept) \in Events
         /\ queue' = queue \/ queue' = Append(queue, TrafficEvent(swept))
         /\ pendingOffline' = pendingOffline
         /\ UNCHANGED <<settings, environment, firstAbsent, work, test, outages, chat, doubt, unrecorded>>
<1>1. TrafficEvent(swept) \in Events
  <2>1. ASSUME NEW s \in Risen(swept)
        PROVE  Entry(s, cycle[s], TrafficStep(used[s], settings)) \in TrafficEntries
    BY LastSteps DEF Risen, NoticesType, Entry, TrafficEntries
  <2> QED BY <2>1 DEF TrafficEvent, Events
<1>2. Enqueue("traffic", TrafficEvent(swept).entries)
  BY DEF SweepTraffic, TrafficEvent, Risen
<1>3. (queue' = queue \/ queue' = Append(queue, TrafficEvent(swept))) /\ pendingOffline' = pendingOffline
  BY <1>2 DEF Enqueue, TrafficEvent
<1> QED BY <1>1, <1>3 DEF SweepTraffic

-----------------------------------------------------------------------------
(* Type correctness.                                                       *)

LEMMA InitNoticesType == NotificationInit => NoticesType
<1> SUFFICES ASSUME NotificationInit PROVE NoticesType
  OBVIOUS
<1>1. <<>> \in Seq(Events)
  OBVIOUS
<1>2. row \in [Servers -> NoticeRow]
  BY DEF NotificationInit, NoticeRow
<1>3. begins \in [Servers -> [1..MaxCycle -> Nat]] /\ cycle \in [Servers -> 1..MaxCycle]
  BY NotificationAssumption DEF NotificationInit
<1>4. DOMAIN chat = {} /\ chat \in [DOMAIN chat -> Nat]
  BY DEF NotificationInit
<1> QED BY <1>1, <1>2, <1>3, <1>4 DEF NotificationInit, NoticesType

\* The worker's notices, by their entries.
LEMMA NoticesInHand ==
  ASSUME NEW ev \in Events, NEW sent, sent \subseteq ev.entries
  PROVE  /\ NoticesOf(ev, sent) \subseteq OutageNotices \cup TrafficNotices
         /\ \A k, s, m, p : <<k, s, m, p>> \in NoticesOf(ev, sent) <=> ev.kind = k /\ Entry(s, m, p) \in sent
<1>1. \A e \in sent : e = Entry(e.server, e.mark, e.step)
  BY DEF Events, OutageEntries, TrafficEntries, Entry
<1>2. \A e \in sent : <<ev.kind, e.server, e.mark, e.step>> \in OutageNotices \cup TrafficNotices
  BY DEF Events, OutageEntries, TrafficEntries, OutageNotices, TrafficNotices
<1>3. \A s, m, p : Entry(s, m, p).server = s /\ Entry(s, m, p).mark = m /\ Entry(s, m, p).step = p
  BY DEF Entry
<1>4. \A k, s, m, p : <<k, s, m, p>> \in NoticesOf(ev, sent) => ev.kind = k /\ Entry(s, m, p) \in sent
  <2> SUFFICES ASSUME NEW k, NEW s, NEW m, NEW p, <<k, s, m, p>> \in NoticesOf(ev, sent)
               PROVE  ev.kind = k /\ Entry(s, m, p) \in sent
    OBVIOUS
  <2>1. PICK e \in sent : <<k, s, m, p>> = <<ev.kind, e.server, e.mark, e.step>>
    BY DEF NoticesOf
  <2>2. k = ev.kind /\ s = e.server /\ m = e.mark /\ p = e.step
    BY <2>1
  <2> QED BY <1>1, <2>2
<1>5. \A k, s, m, p : ev.kind = k /\ Entry(s, m, p) \in sent => <<k, s, m, p>> \in NoticesOf(ev, sent)
  BY <1>3 DEF NoticesOf
<1> QED BY <1>2, <1>4, <1>5 DEF NoticesOf


\* What the worker sends is part of its event, and what it has sent is in the chat.
WorkInv ==
  work # Idle =>
    /\ work.sent \subseteq work.item.entries
    /\ work.at = "finish" => NoticesOf(work.item, work.sent) \subseteq DOMAIN chat

\* What happens to the Servers and the settings leaves notifications alone.
Outside == ConnectionEvents \/ TrafficEvents \/ \E choice \in SettingsChoices : Save(choice)

LEMMA OutsideDoes ==
  ASSUME NoticesType, Outside
  PROVE  /\ settings' \in SettingsChoices /\ eligible' \subseteq eligible /\ connected' \subseteq Servers
         /\ used' \in [Servers -> Nat] /\ cycle' \in [Servers -> 1..MaxCycle]
         /\ begins' \in [Servers -> [1..MaxCycle -> Nat]]
         /\ UNCHANGED <<row, memory, outages, chat, doubt, unrecorded>>
<1>1. CASE \E s \in Servers : Connect(s) \/ Disconnect(s) \/ Leave(s)
  BY <1>1 DEF Connect, Disconnect, Leave, NoticesType
<1>0. \A f \in [1..MaxCycle -> Nat], c \in 1..MaxCycle : [f EXCEPT ![c] = @ + 1] \in [1..MaxCycle -> Nat]
  OBVIOUS
<1>2. ASSUME NEW s \in Servers, NEW n, NEW set PROVE Rearm(s, n, set) \in [1..MaxCycle -> Nat]
  <2>1. begins[s] \in [1..MaxCycle -> Nat] /\ cycle[s] \in 1..MaxCycle
    BY DEF NoticesType
  <2> QED BY <1>0, <2>1 DEF Rearm
<1>3. ASSUME NEW s \in Servers, NEW n \in 0..Limit, Traffic(s, n)
      PROVE  /\ used' \in [Servers -> Nat] /\ begins' \in [Servers -> [1..MaxCycle -> Nat]]
             /\ UNCHANGED <<settings, eligible, connected, cycle, row, memory, outages, chat, doubt, unrecorded>>
  BY <1>2, <1>3, NotificationAssumption DEF Traffic, NoticesType
<1>4. ASSUME NEW s \in Servers, NEW c \in 1..MaxCycle, Turn(s, c)
      PROVE  /\ used' \in [Servers -> Nat] /\ begins' \in [Servers -> [1..MaxCycle -> Nat]]
             /\ cycle' \in [Servers -> 1..MaxCycle]
             /\ UNCHANGED <<settings, eligible, connected, row, memory, outages, chat, doubt, unrecorded>>
  <2>1. begins' = [begins EXCEPT ![s] = [begins[s] EXCEPT ![c] = @ + 1]]
    BY <1>4 DEF Turn
  <2>2. [begins[s] EXCEPT ![c] = @ + 1] \in [1..MaxCycle -> Nat]
    BY <1>0 DEF NoticesType
  <2>3. begins' \in [Servers -> [1..MaxCycle -> Nat]]
    BY <2>1, <2>2 DEF NoticesType
  <2> QED BY <1>4, <2>3 DEF Turn, NoticesType
<1>5. ASSUME NEW choice \in SettingsChoices, Save(choice)
      PROVE  /\ settings' \in SettingsChoices /\ begins' \in [Servers -> [1..MaxCycle -> Nat]]
             /\ UNCHANGED <<eligible, connected, used, cycle, row, memory, outages, chat, doubt, unrecorded>>
  BY <1>2, <1>5 DEF Save, NoticesType
<1> QED BY <1>1, <1>3, <1>4, <1>5 DEF Outside, ConnectionEvents, TrafficEvents, NoticesType

\* A sweep changes rows, marks and the queue.
LEMMA SweptType ==
  ASSUME NoticesType, Sweeps
  PROVE  NoticesType' /\ UNCHANGED <<settings, environment, work, test, chat, doubt, unrecorded>>
<1>1. ASSUME NEW swept \in SUBSET Servers, NEW graceOver \in SUBSET Servers, SweepOnline(swept, graceOver)
      PROVE  NoticesType' /\ UNCHANGED <<settings, environment, work, test, chat, doubt, unrecorded>>
  <2> DEFINE off == OfflineEvent(swept, graceOver)  rec == RecoveryEvent(swept)  names == Announced(swept, graceOver)
  <2>0. off \in Events /\ rec \in Events /\ names \subseteq Servers
    BY SweptEvents DEF NoticesType
  <2>1. firstAbsent' \in [Servers -> Nat] /\ outages' \in Nat
    <3>1. outages \in Nat /\ \A s \in Servers : firstAbsent[s] \in Nat
      BY DEF NoticesType
    <3>2. /\ firstAbsent' = [s \in Servers |->
                IF s \in Begun(swept) THEN outages + 1
                ELSE IF s \in Announced(swept, graceOver) \cup Forgotten(swept) THEN 0 ELSE firstAbsent[s]]
          /\ outages' = IF Begun(swept) = {} THEN outages ELSE outages + 1
      BY <1>1, SweepOnlineDoes
    <3> QED BY <3>1, <3>2
  <2>2. row' \in [Servers -> NoticeRow]
    <3>1. \A s \in Servers : [row[s] EXCEPT !.started = 0, !.notified = FALSE] \in NoticeRow
      BY DEF NoticesType, NoticeRow
    <3>2. \A s \in Servers : [row[s] EXCEPT !.started = firstAbsent[s], !.notified = FALSE] \in NoticeRow
      BY DEF NoticesType, NoticeRow
    <3>3. \A s \in Servers : row[s] \in NoticeRow
      BY DEF NoticesType
    <3>4. row' = [s \in Servers |->
              IF s \in Cleared(swept) THEN [row[s] EXCEPT !.started = 0, !.notified = FALSE]
              ELSE IF s \in Announced(swept, graceOver) THEN [row[s] EXCEPT !.started = firstAbsent[s], !.notified = FALSE]
              ELSE row[s]]
      BY <1>1, SweepOnlineDoes
    <3> QED BY <3>1, <3>2, <3>3, <3>4
  <2>3. Grows(off, rec, names)
    BY <1>1, SweepOnlineDoes
  <2>4. queue' \in Seq(Events) /\ pendingOffline' \subseteq Servers
    <3> HIDE DEF off, rec, names
    <3>1. queue \in Seq(Events) /\ pendingOffline \subseteq Servers
      BY DEF NoticesType
    <3> QED BY <2>0, <2>3, <3>1, AtTheEnd DEF Grows
  <2>5. UNCHANGED <<settings, environment, work, test, chat, doubt, unrecorded>>
    BY <1>1, SweepOnlineDoes
  <2> QED BY <2>1, <2>2, <2>4, <2>5 DEF NoticesType, environment
<1>2. ASSUME NEW swept \in SUBSET Servers, SweepTraffic(swept)
      PROVE  NoticesType' /\ UNCHANGED <<settings, environment, work, test, chat, doubt, unrecorded>>
  <2>1. row' \in [Servers -> NoticeRow]
    <3>1. \A s \in Servers : cycle[s] \in Nat /\ LastStep(s) \in Nat
      BY LastSteps DEF NoticesType
    <3>2. \A s \in Servers : [row[s] EXCEPT !.cycle = cycle[s], !.step = LastStep(s)] \in NoticeRow
      BY <3>1 DEF NoticesType, NoticeRow
    <3> QED BY <1>2, <3>2, SweepTrafficDoes DEF NoticesType
  <2>2. queue' \in Seq(Events)
    <3>1. queue \in Seq(Events)
      BY DEF NoticesType
    <3>2. TrafficEvent(swept) \in Events /\ (queue' = queue \/ queue' = Append(queue, TrafficEvent(swept)))
      BY <1>2, SweepTrafficDoes
    <3> QED BY <3>1, <3>2, AtTheEnd
  <2>3. UNCHANGED <<settings, environment, firstAbsent, pendingOffline, work, test, outages, chat, doubt, unrecorded>>
    BY <1>2, SweepTrafficDoes
  <2> QED BY <2>1, <2>2, <2>3 DEF NoticesType, environment
<1> QED BY <1>1, <1>2 DEF Sweeps


\* The worker takes an event, asks what is left of it, sends it and notes the result.
LEMMA TakeEventType ==
  ASSUME NoticesType, WorkInv, TakeEvent
  PROVE  NoticesType' /\ WorkInv'
<1>1. queue \in Seq(Events) /\ queue # <<>>
  BY DEF NoticesType, TakeEvent
<1>2. Head(queue) \in Events /\ Tail(queue) \in Seq(Events)
  BY <1>1, AtTheFront
<1>3. work' = [item |-> Head(queue), attempt |-> 1, at |-> "check", sent |-> {}] /\ work' \in Deliveries
  BY <1>2 DEF TakeEvent, Deliveries
<1>4. NoticesType'
  BY <1>2, <1>3 DEF TakeEvent, NoticesType, environment
<1>5. WorkInv'
  BY <1>3 DEF WorkInv
<1> QED BY <1>4, <1>5

LEMMA CheckType ==
  ASSUME NoticesType, WorkInv, NEW readable \in BOOLEAN, Check(readable)
  PROVE  /\ NoticesType' /\ WorkInv'
         /\ work \in Deliveries /\ work # Idle /\ work.at = "check" /\ work' \in Deliveries /\ work'.item = work.item
         /\ work'.at = "finish" => work'.sent = {}
<1>1. work \in Deliveries /\ work # Idle /\ work.at = "check"
  BY DEF Check, NoticesType
<1>2. PICK sent \in SUBSET work.item.entries, at \in {"send", "finish"} :
        /\ (at = "finish" => sent = {})
        /\ work' = [work EXCEPT !.sent = sent, !.at = at]
  <2> DEFINE sent == IF readable /\ Wanted(work.item.kind) THEN CurrentEntries(work.item) ELSE {}
             go == readable /\ (work.item.kind = "test" \/ sent # {})
  <2>1. sent \subseteq work.item.entries
    BY DEF CurrentEntries
  <2>2. ~go => sent = {}
    OBVIOUS
  <2>3. work' = [work EXCEPT !.sent = sent, !.at = IF go THEN "send" ELSE "finish"]
    BY DEF Check
  <2> HIDE DEF sent, go
  <2> QED BY <2>1, <2>2, <2>3
<1>3. work.item.entries \subseteq OutageEntries \cup TrafficEntries
  BY <1>1 DEF Deliveries, Events
<1>4. work' \in Deliveries /\ work'.item = work.item /\ work'.sent = sent /\ work'.at = at
  BY <1>1, <1>2, <1>3 DEF Deliveries
<1>5. NoticesType'
  BY <1>4 DEF Check, NoticesType, environment
<1>6. NoticesOf(work'.item, {}) = {}
  BY DEF NoticesOf
<1> QED BY <1>1, <1>2, <1>4, <1>5, <1>6 DEF WorkInv

LEMMA SendType ==
  ASSUME NoticesType, WorkInv, NEW taken \in BOOLEAN, NEW answer \in {"ok", "lost", "refused"}, Send(taken, answer)
  PROVE  /\ NoticesType' /\ WorkInv'
         /\ work \in Deliveries /\ work # Idle /\ work.at = "send" /\ work' \in Deliveries /\ work'.item = work.item
         /\ DOMAIN chat' = DOMAIN chat \cup (IF taken THEN NoticesOf(work.item, work.sent) ELSE {})
         /\ \A n \in DOMAIN chat' : chat'[n] = (IF n \in DOMAIN chat THEN chat[n] ELSE 0) +
                 (IF taken /\ n \in NoticesOf(work.item, work.sent) THEN 1 ELSE 0)
         /\ work'.at = "finish" => (IF answer = "ok" THEN work'.sent = work.sent ELSE work'.sent = {})
         /\ answer = "ok" => work'.at = "finish"
<1> DEFINE n == IF taken THEN NoticesOf(work.item, work.sent) ELSE {}
<1>1. work \in Deliveries /\ work # Idle /\ work.at = "send" /\ work.item \in Events
  BY DEF Send, NoticesType, Deliveries
<1>2. work.sent \subseteq work.item.entries
  BY <1>1 DEF WorkInv
<1>3. n \subseteq OutageNotices \cup TrafficNotices
  BY <1>1, <1>2, NoticesInHand
<1>4. chat' = [k \in DOMAIN chat \cup n |->
                 (IF k \in DOMAIN chat THEN chat[k] ELSE 0) + (IF k \in n THEN 1 ELSE 0)]
  BY DEF Send
<1>5. /\ DOMAIN chat' = DOMAIN chat \cup n /\ chat' \in [DOMAIN chat' -> Nat]
      /\ \A k \in DOMAIN chat' : chat'[k] = (IF k \in DOMAIN chat THEN chat[k] ELSE 0) + (IF k \in n THEN 1 ELSE 0)
  <2>1. \A k \in DOMAIN chat : chat[k] \in Nat
    BY DEF NoticesType
  <2> HIDE DEF n
  <2> QED BY <1>4, <2>1
<1>6. /\ work' \in Deliveries /\ work'.item = work.item
      /\ work'.at = "finish" => (IF answer = "ok" THEN work'.sent = work.sent ELSE work'.sent = {})
      /\ work'.sent \subseteq work.sent
      /\ answer = "ok" => work'.at = "finish"
  <2>1. CASE answer = "ok"
    <3>1. work' = [work EXCEPT !.at = "finish"]
      BY <2>1 DEF Send
    <3> QED BY <1>1, <2>1, <3>1 DEF Deliveries
  <2>2. CASE answer = "lost" /\ work.attempt < MaxAttempts
    <3>1. work' = [work EXCEPT !.at = "check", !.sent = {}, !.attempt = work.attempt + 1]
      BY <2>2 DEF Send
    <3>2. work.attempt + 1 \in Nat
      BY <1>1 DEF Deliveries
    <3> QED BY <1>1, <2>2, <3>1, <3>2 DEF Deliveries
  <2>3. CASE answer # "ok" /\ ~(answer = "lost" /\ work.attempt < MaxAttempts)
    <3>1. work' = [work EXCEPT !.at = "finish", !.sent = {}]
      BY <2>3 DEF Send
    <3> QED BY <1>1, <2>3, <3>1 DEF Deliveries
  <2> QED BY <2>1, <2>2, <2>3
<1>7. NoticesType'
  BY <1>3, <1>5, <1>6 DEF Send, NoticesType, environment
<1>8. WorkInv'
  <2>1. NoticesOf(work.item, {}) = {}
    BY DEF NoticesOf
  <2>2. answer = "ok" => n = NoticesOf(work.item, work.sent)
    BY DEF Send
  <2> HIDE DEF n
  <2> QED BY <1>2, <1>5, <1>6, <2>1, <2>2 DEF WorkInv
<1>9. \A k : k \in n <=> taken /\ k \in NoticesOf(work.item, work.sent)
  OBVIOUS
<1> QED BY <1>1, <1>5, <1>6, <1>7, <1>8, <1>9


\* Noting the result: the rows whose outage was delivered, and the marks.
LEMMA FinishDoes ==
  ASSUME NoticesType, WorkInv, NEW written, Finish(written)
  PROVE  /\ work \in Deliveries /\ work # Idle /\ work.at = "finish" /\ work.item \in Events
         /\ written \subseteq work.sent /\ work.sent \subseteq work.item.entries
         /\ work' = Idle /\ row' \in [Servers -> NoticeRow]
         /\ \A s \in Servers :
              /\ row'[s].started = row[s].started /\ row'[s].cycle = row[s].cycle /\ row'[s].step = row[s].step
              /\ row'[s].notified <=>
                   \/ row[s].notified
                   \/ work.item.kind = "offline" /\ row[s].started # 0 /\ Entry(s, row[s].started, 0) \in written
         /\ pendingOffline' = IF work.item.kind = "offline"
                              THEN pendingOffline \ {e.server : e \in work.item.entries} ELSE pendingOffline
         /\ UNCHANGED <<settings, environment, firstAbsent, queue, outages, chat, doubt>>
<1>1. /\ work \in Deliveries /\ work # Idle /\ work.at = "finish" /\ work.item \in Events
      /\ written \subseteq work.sent /\ work.sent \subseteq work.item.entries
  BY DEF Finish, NoticesType, Deliveries, WorkInv
<1>2. CASE work.item.kind # "offline"
  BY <1>1, <1>2 DEF Finish, NoticesType
<1>3. CASE work.item.kind = "offline"
  <2>1. row' = RecordDelivery(written) /\ pendingOffline' = pendingOffline \ {e.server : e \in work.item.entries}
    BY <1>3 DEF Finish
  <2>2. ASSUME NEW s \in Servers
        PROVE  row[s].started # 0 /\ (\E e \in written : e.server = s /\ e.mark = row[s].started)
                 <=> row[s].started # 0 /\ Entry(s, row[s].started, 0) \in written
    <3>1. \A e \in written : e \in OutageEntries
      BY <1>1, <1>3 DEF Events
    <3>2. \A e \in written : e.server = s /\ e.mark = row[s].started => e = Entry(s, row[s].started, 0)
      BY <3>1 DEF OutageEntries, Entry
    <3>3. Entry(s, row[s].started, 0).server = s /\ Entry(s, row[s].started, 0).mark = row[s].started
      BY DEF Entry
    <3> QED BY <3>2, <3>3
  <2>3. \A s \in Servers : row'[s] = IF row[s].started # 0 /\ Entry(s, row[s].started, 0) \in written
                                     THEN [row[s] EXCEPT !.notified = TRUE] ELSE row[s]
    BY <2>1, <2>2 DEF RecordDelivery
  <2>4. \A s \in Servers : row[s] \in NoticeRow
    BY DEF NoticesType
  <2>5. \A r \in NoticeRow : LET q == [r EXCEPT !.notified = TRUE] IN
          q \in NoticeRow /\ q.started = r.started /\ q.cycle = r.cycle /\ q.step = r.step /\ q.notified = TRUE
    BY DEF NoticeRow
  <2>6. \A s \in Servers : row'[s] \in NoticeRow
    BY <2>3, <2>4, <2>5
  <2>7. row' \in [Servers -> NoticeRow]
    BY <2>1, <2>6 DEF RecordDelivery
  <2>8. \A s \in Servers :
              /\ row'[s].started = row[s].started /\ row'[s].cycle = row[s].cycle /\ row'[s].step = row[s].step
              /\ row'[s].notified <=>
                   row[s].notified \/ (row[s].started # 0 /\ Entry(s, row[s].started, 0) \in written)
    BY <2>3, <2>4, <2>5
  <2> QED BY <1>1, <1>3, <2>1, <2>7, <2>8 DEF Finish
<1> QED BY <1>2, <1>3

LEMMA FinishType ==
  ASSUME NoticesType, WorkInv, NEW written, Finish(written)
  PROVE  NoticesType' /\ WorkInv'
  BY FinishDoes DEF NoticesType, WorkInv, environment

LEMMA SendTestDoes ==
  ASSUME NoticesType, SendTest
  PROVE  LET ev == [kind |-> "test", entries |-> {}]
         IN  ev \in Events /\ queue' = Append(queue, ev) /\ queue' \in Seq(Events)
<1>1. [kind |-> "test", entries |-> {}] \in Events
  BY DEF Events
<1>2. queue' = Append(queue, [kind |-> "test", entries |-> {}])
  BY DEF SendTest
<1> QED BY <1>1, <1>2, AtTheEnd DEF NoticesType

LEMMA RestartType ==
  ASSUME NoticesType, Restart
  PROVE  NoticesType' /\ WorkInv'
<1>1. <<>> \in Seq(Events)
  OBVIOUS
<1> QED BY <1>1 DEF Restart, NoticesType, WorkInv

LEMMA NextNoticesType ==
  ASSUME NoticesType, WorkInv, [NotificationNext]_notificationVars
  PROVE  NoticesType' /\ WorkInv'
<1>1. CASE UNCHANGED notificationVars
  BY <1>1 DEF notificationVars, NoticesType, WorkInv
<1>2. CASE Outside
  BY <1>2, OutsideDoes DEF NoticesType, WorkInv, memory
<1>3. CASE Sweeps
  BY <1>3, SweptType DEF WorkInv
<1>4. CASE Deliver
  BY <1>4, TakeEventType, CheckType, SendType, FinishType DEF Deliver
<1>5. CASE SendTest
  <2>1. queue' \in Seq(Events)
    BY <1>5, SendTestDoes
  <2> QED BY <1>5, <2>1 DEF SendTest, NoticesType, WorkInv, environment
<1>6. CASE Restart
  BY <1>6, RestartType
<1> QED BY <1>1, <1>2, <1>3, <1>4, <1>5, <1>6 DEF NotificationNext, Outside


-----------------------------------------------------------------------------
(* Outages.                                                                *)

\* Events that are queued or in hand.
Waiting == Queued(queue) \cup (IF work = Idle THEN {} ELSE {work.item})

\* An outage is watched or announced, and has a number that was given out.
WatchInv ==
  \A s \in Servers :
    /\ firstAbsent[s] <= outages /\ row[s].started <= outages
    /\ firstAbsent[s] = 0 \/ row[s].started = 0

\* What SweepOnline does to a Server.
LEMMA SweptServer ==
  ASSUME NoticesType, NEW swept \in SUBSET Servers, NEW graceOver, SweepOnline(swept, graceOver), NEW s \in Servers
  PROVE  /\ row'[s].cycle = row[s].cycle /\ row'[s].step = row[s].step
         /\ \/ /\ s \in Announced(swept, graceOver) /\ s \in eligible /\ row[s].started = 0 /\ firstAbsent[s] # 0
               /\ row'[s].started = firstAbsent[s] /\ ~row'[s].notified /\ firstAbsent'[s] = 0
            \/ /\ s \notin Announced(swept, graceOver) /\ s \in Cleared(swept)
               /\ row'[s].started = 0 /\ ~row'[s].notified
            \/ s \notin Announced(swept, graceOver) /\ s \notin Cleared(swept) /\ row'[s] = row[s]
         /\ \/ /\ firstAbsent'[s] = outages + 1 /\ outages' = outages + 1
               /\ firstAbsent[s] = 0 /\ row[s].started = 0 /\ s \notin Announced(swept, graceOver)
            \/ firstAbsent'[s] = 0
            \/ firstAbsent'[s] = firstAbsent[s]
         /\ outages' \in {outages, outages + 1}
<1> DEFINE names == Announced(swept, graceOver)
<1>1. row[s] \in NoticeRow /\ firstAbsent[s] \in Nat
  BY DEF NoticesType
<1>2. row'[s] = IF s \in Cleared(swept) THEN [row[s] EXCEPT !.started = 0, !.notified = FALSE]
                ELSE IF s \in names THEN [row[s] EXCEPT !.started = firstAbsent[s], !.notified = FALSE] ELSE row[s]
  <2>1. row' = [t \in Servers |->
              IF t \in Cleared(swept) THEN [row[t] EXCEPT !.started = 0, !.notified = FALSE]
              ELSE IF t \in names THEN [row[t] EXCEPT !.started = firstAbsent[t], !.notified = FALSE]
              ELSE row[t]]
    BY SweepOnlineDoes
  <2> QED BY <2>1
<1>3. firstAbsent'[s] = IF s \in Begun(swept) THEN outages + 1
                        ELSE IF s \in names \cup Forgotten(swept) THEN 0 ELSE firstAbsent[s]
  <2>1. firstAbsent' = [t \in Servers |->
              IF t \in Begun(swept) THEN outages + 1
              ELSE IF t \in names \cup Forgotten(swept) THEN 0 ELSE firstAbsent[t]]
    BY SweepOnlineDoes
  <2> QED BY <2>1
<1>4. outages' = IF Begun(swept) = {} THEN outages ELSE outages + 1
  BY SweepOnlineDoes
<1>5. s \in names => s \in eligible /\ row[s].started = 0 /\ firstAbsent[s] # 0 /\ s \notin Cleared(swept) /\ s \notin Begun(swept)
  BY DEF Announced, Missing, Cleared, Back, Begun
<1>6. s \in Begun(swept) => row[s].started = 0 /\ firstAbsent[s] = 0
  BY DEF Begun, Missing
<1>7. \A v \in Nat : LET q == [row[s] EXCEPT !.started = v, !.notified = FALSE]
                     IN  q.started = v /\ ~q.notified /\ q.cycle = row[s].cycle /\ q.step = row[s].step
  BY <1>1 DEF NoticeRow
<1> HIDE DEF names
<1>8. /\ row'[s].cycle = row[s].cycle /\ row'[s].step = row[s].step
      /\ s \in names => row'[s].started = firstAbsent[s] /\ ~row'[s].notified
      /\ s \in Cleared(swept) => row'[s].started = 0 /\ ~row'[s].notified
      /\ s \notin names /\ s \notin Cleared(swept) => row'[s] = row[s]
  BY <1>1, <1>2, <1>5, <1>7
<1> QED BY <1>3, <1>4, <1>5, <1>6, <1>8 DEF names

\* What the events of a sweep hold.
LEMMA SweptHold ==
  ASSUME NEW swept, NEW graceOver, NEW k, NEW s, NEW m, NEW p
  PROVE  /\ Holds(OfflineEvent(swept, graceOver), k, s, m, p) <=>
              k = "offline" /\ s \in Announced(swept, graceOver) /\ m = firstAbsent[s] /\ p = 0
         /\ Holds(RecoveryEvent(swept), k, s, m, p) <=>
              k = "recovery" /\ s \in Recovering(swept) /\ m = row[s].started /\ p = 0
         /\ Holds(TrafficEvent(swept), k, s, m, p) <=>
              k = "traffic" /\ s \in Risen(swept) /\ m = cycle[s] /\ p = TrafficStep(used[s], settings)
<1>1. \A t, n, r : Entry(s, m, p) = Entry(t, n, r) <=> s = t /\ m = n /\ p = r
  <2>1. \A t, n, r : /\ Entry(t, n, r).server = t /\ Entry(t, n, r).mark = n /\ Entry(t, n, r).step = r
    BY DEF Entry
  <2> QED BY <2>1
<1>2. OfflineEvent(swept, graceOver).entries = {Entry(t, firstAbsent[t], 0) : t \in Announced(swept, graceOver)}
      /\ OfflineEvent(swept, graceOver).kind = "offline"
  BY DEF OfflineEvent
<1>3. RecoveryEvent(swept).entries = {Entry(t, row[t].started, 0) : t \in Recovering(swept)}
      /\ RecoveryEvent(swept).kind = "recovery"
  BY DEF RecoveryEvent
<1>4. TrafficEvent(swept).entries = {Entry(t, cycle[t], TrafficStep(used[t], settings)) : t \in Risen(swept)}
      /\ TrafficEvent(swept).kind = "traffic"
  BY DEF TrafficEvent
<1>5. Holds(OfflineEvent(swept, graceOver), k, s, m, p) <=>
        k = "offline" /\ s \in Announced(swept, graceOver) /\ m = firstAbsent[s] /\ p = 0
  BY <1>1, <1>2 DEF Holds
<1>6. Holds(RecoveryEvent(swept), k, s, m, p) <=>
        k = "recovery" /\ s \in Recovering(swept) /\ m = row[s].started /\ p = 0
  BY <1>1, <1>3 DEF Holds
<1>7. Holds(TrafficEvent(swept), k, s, m, p) <=>
        k = "traffic" /\ s \in Risen(swept) /\ m = cycle[s] /\ p = TrafficStep(used[s], settings)
  BY <1>1, <1>4 DEF Holds
<1> QED BY <1>5, <1>6, <1>7

LEMMA GrownQueue ==
  ASSUME NoticesType, NEW off \in Events, NEW rec \in Events, off # rec, NEW names, Grows(off, rec, names)
  PROVE  /\ Queued(queue) \subseteq Queued(queue') /\ Queued(queue') \subseteq Queued(queue) \cup {off, rec}
         /\ pendingOffline' = pendingOffline \/ (pendingOffline' = pendingOffline \cup names /\ off \in Queued(queue'))
         /\ off \in Queued(queue') \ Queued(queue) => pendingOffline' = pendingOffline \cup names
<1>1. queue \in Seq(Events)
  BY DEF NoticesType
<1>2. Append(queue, off) \in Seq(Events) /\ Queued(Append(queue, off)) = Queued(queue) \cup {off}
  BY <1>1, AtTheEnd
<1>3. Queued(Append(queue, rec)) = Queued(queue) \cup {rec}
  BY <1>1, AtTheEnd
<1>4. Queued(Append(Append(queue, off), rec)) = Queued(queue) \cup {off, rec}
  <2> DEFINE q == Append(queue, off)
  <2> HIDE DEF q
  <2>1. Queued(Append(q, rec)) = Queued(q) \cup {rec}
    BY <1>2, AtTheEnd DEF q
  <2> QED BY <1>2, <2>1 DEF q
<1> HIDE DEF Queued
<1> QED BY <1>2, <1>3, <1>4 DEF Grows

LEMMA NextWatch ==
  ASSUME NoticesType, WorkInv, WatchInv, [NotificationNext]_notificationVars
  PROVE  WatchInv'
<1>1. CASE UNCHANGED <<row, firstAbsent, outages>>
  BY <1>1 DEF WatchInv
<1>2. ASSUME NEW swept \in SUBSET Servers, NEW graceOver, SweepOnline(swept, graceOver) PROVE WatchInv'
  <2> SUFFICES ASSUME NEW s \in Servers
               PROVE  /\ firstAbsent'[s] <= outages' /\ row'[s].started <= outages'
                      /\ firstAbsent'[s] = 0 \/ row'[s].started = 0
    BY DEF WatchInv
  <2>1. outages \in Nat /\ firstAbsent[s] \in Nat /\ row[s].started \in Nat
    BY DEF NoticesType, NoticeRow
  <2>2. /\ firstAbsent[s] <= outages /\ row[s].started <= outages /\ (firstAbsent[s] = 0 \/ row[s].started = 0)
    BY DEF WatchInv
  <2> QED BY <1>2, <2>1, <2>2, SweptServer
<1>3. ASSUME NEW swept \in SUBSET Servers, SweepTraffic(swept) PROVE WatchInv'
  <2>1. firstAbsent' = firstAbsent /\ outages' = outages
    BY <1>3 DEF SweepTraffic
  <2>2. \A s \in Servers : row'[s].started = row[s].started
    BY <1>3, SweepTrafficDoes DEF NoticesType, NoticeRow
  <2> QED BY <2>1, <2>2 DEF WatchInv
<1>4. ASSUME NEW written, Finish(written) PROVE WatchInv'
  BY <1>4, FinishDoes DEF WatchInv
<1>5. CASE Restart
  BY <1>5 DEF Restart, WatchInv, NoticesType
<1>6. CASE Outside
  BY <1>1, <1>6, OutsideDoes DEF memory
<1> QED BY <1>1, <1>2, <1>3, <1>4, <1>5, <1>6
        DEF NotificationNext, notificationVars, Outside, Sweeps, Deliver, TakeEvent, Check, Send, SendTest


\* How the events that wait change.
LEMMA WaitingNow ==
  ASSUME NoticesType, WorkInv
  PROVE  /\ TakeEvent => Waiting' = Waiting
         /\ \A readable \in BOOLEAN : Check(readable) => Waiting' = Waiting
         /\ \A taken \in BOOLEAN, answer \in {"ok", "lost", "refused"} : Send(taken, answer) => Waiting' = Waiting
         /\ \A written : Finish(written) => Waiting = Waiting' \cup {work.item}
         /\ SendTest => Waiting' = Waiting \cup {[kind |-> "test", entries |-> {}]}
         /\ Restart => Waiting' = {}
         /\ Sweeps => /\ Waiting' = Queued(queue') \cup (IF work = Idle THEN {} ELSE {work.item})
<1>1. ASSUME TakeEvent PROVE Waiting' = Waiting
  <2>1. queue \in Seq(Events) /\ queue # <<>> /\ work = Idle /\ queue' = Tail(queue)
    BY <1>1 DEF NoticesType, TakeEvent
  <2>2. Queued(queue) = Queued(Tail(queue)) \cup {Head(queue)} /\ Head(queue) \in Events
    BY <2>1, AtTheFront
  <2>3. work' = [item |-> Head(queue), attempt |-> 1, at |-> "check", sent |-> {}]
    BY <1>1 DEF TakeEvent
  <2>4. work' \in Deliveries
    BY <2>2, <2>3 DEF Deliveries
  <2>5. work' # Idle /\ work'.item = Head(queue)
    BY <2>3, <2>4, InHand
  <2>6. Waiting' = Queued(queue') \cup {work'.item}
    BY <2>5 DEF Waiting
  <2>7. Waiting = Queued(queue)
    BY <2>1 DEF Waiting
  <2> QED BY <2>1, <2>2, <2>5, <2>6, <2>7
<1>2. ASSUME NEW readable \in BOOLEAN, Check(readable) PROVE Waiting' = Waiting
  <2>1. work # Idle /\ work'.item = work.item /\ work' \in Deliveries
    BY <1>2, CheckType
  <2>2. queue' = queue
    BY <1>2 DEF Check
  <2> QED BY <2>1, <2>2, InHand DEF Waiting
<1>3. ASSUME NEW taken \in BOOLEAN, NEW answer \in {"ok", "lost", "refused"}, Send(taken, answer)
      PROVE  Waiting' = Waiting
  <2>1. work # Idle /\ work'.item = work.item /\ work' \in Deliveries
    BY <1>3, SendType
  <2>2. queue' = queue
    BY <1>3 DEF Send
  <2> QED BY <2>1, <2>2, InHand DEF Waiting
<1>4. ASSUME NEW written, Finish(written) PROVE Waiting = Waiting' \cup {work.item}
  BY <1>4, FinishDoes DEF Waiting
<1>5. ASSUME SendTest PROVE Waiting' = Waiting \cup {[kind |-> "test", entries |-> {}]}
  <2>1. Queued(queue') = Queued(queue) \cup {[kind |-> "test", entries |-> {}]}
    <3> DEFINE ev == [kind |-> "test", entries |-> {}]
    <3>1. ev \in Events /\ queue' = Append(queue, ev) /\ queue \in Seq(Events)
      BY <1>5, SendTestDoes DEF NoticesType
    <3> HIDE DEF ev
    <3>2. Queued(queue') = Queued(queue) \cup {ev}
      BY <3>1, AtTheEnd
    <3> QED BY <3>2 DEF ev
  <2>2. work' = work
    BY <1>5 DEF SendTest
  <2> QED BY <2>1, <2>2 DEF Waiting
<1>6. ASSUME Restart PROVE Waiting' = {}
  BY <1>6 DEF Restart, Waiting, Queued
<1>7. ASSUME Sweeps PROVE Waiting' = Queued(queue') \cup (IF work = Idle THEN {} ELSE {work.item})
  BY <1>7, SweptType DEF Waiting
<1> QED BY <1>1, <1>2, <1>3, <1>4, <1>5, <1>6, <1>7


\* The chat forgets nothing.
LEMMA ChatGrows ==
  ASSUME NoticesType, WorkInv, [NotificationNext]_notificationVars
  PROVE  DOMAIN chat \subseteq DOMAIN chat'
<1>1. CASE UNCHANGED chat
  BY <1>1
<1>2. ASSUME NEW taken \in BOOLEAN, NEW answer \in {"ok", "lost", "refused"}, Send(taken, answer)
      PROVE  DOMAIN chat \subseteq DOMAIN chat'
  BY <1>2, SendType
<1>3. CASE Outside
  BY <1>1, <1>3, OutsideDoes
<1>4. CASE Sweeps
  BY <1>1, <1>4, SweptType
<1> QED BY <1>1, <1>2, <1>3, <1>4
        DEF NotificationNext, notificationVars, Outside, Deliver, TakeEvent, Check, Finish, SendTest, Restart

\* The chat was told that outage m of Server s began.
Told(s, m) == <<"offline", s, m, 0>> \in DOMAIN chat

\* A row says so only if it was, and no recovery waits without.
FollowInv ==
  /\ \A s \in Servers : row[s].notified /\ row[s].started # 0 => Told(s, row[s].started)
  /\ \A ev \in Waiting : \A s, m, p : Holds(ev, "recovery", s, m, p) => Told(s, m)
  /\ RecoveryFollowsNotice

LEMMA NextFollow ==
  ASSUME NoticesType, WorkInv, FollowInv, [NotificationNext]_notificationVars
  PROVE  FollowInv'
<1>0. \A s, m : Told(s, m) => Told(s, m)'
  BY ChatGrows DEF Told
<1>1. ASSUME UNCHANGED <<row, chat>>, Waiting' \subseteq Waiting PROVE FollowInv'
  BY <1>0, <1>1 DEF FollowInv, RecoveryFollowsNotice
<1>2. CASE UNCHANGED notificationVars
  BY <1>1, <1>2 DEF notificationVars, Waiting, Queued
<1>3. CASE Outside
  <2>1. UNCHANGED <<row, chat, queue, work>>
    BY <1>3, OutsideDoes DEF memory
  <2> QED BY <1>1, <2>1 DEF Waiting, Queued
<1>4. ASSUME NEW swept \in SUBSET Servers, NEW graceOver \in SUBSET Servers, SweepOnline(swept, graceOver)
      PROVE  FollowInv'
  <2> DEFINE off == OfflineEvent(swept, graceOver)  rec == RecoveryEvent(swept)  names == Announced(swept, graceOver)
  <2>1. off \in Events /\ rec \in Events /\ off # rec /\ Grows(off, rec, names)
    BY <1>4, SweptEvents, SweepOnlineDoes DEF OfflineEvent, RecoveryEvent
  <2>2. Waiting' \subseteq Waiting \cup {off, rec}
    <3> HIDE DEF off, rec, names
    <3>1. Queued(queue') \subseteq Queued(queue) \cup {off, rec}
      BY <2>1, GrownQueue
    <3> QED BY <1>4, <3>1, WaitingNow DEF Waiting, Sweeps
  <2>3. chat' = chat
    BY <1>4, SweepOnlineDoes
  <2>4. ASSUME NEW s, NEW m, NEW p, Holds(off, "recovery", s, m, p) \/ Holds(rec, "recovery", s, m, p)
        PROVE  Told(s, m)
    <3>1. s \in Recovering(swept) /\ m = row[s].started
      BY <2>4, SweptHold
    <3>2. s \in Servers /\ row[s].notified /\ row[s].started # 0
      BY <3>1 DEF Recovering, Back, NoticesType
    <3> QED BY <3>1, <3>2 DEF FollowInv
  <2>5. ASSUME NEW s \in Servers, row'[s].notified, row'[s].started # 0
        PROVE  Told(s, row'[s].started)
    <3>1. row'[s] = row[s]
      BY <1>4, <2>5, SweptServer
    <3> QED BY <2>5, <3>1 DEF FollowInv
  <2> HIDE DEF off, rec, names
  <2>6. \A ev \in Waiting' : \A s, m, p : Holds(ev, "recovery", s, m, p) => Told(s, m)
    BY <2>2, <2>4 DEF FollowInv
  <2> QED BY <1>0, <2>3, <2>5, <2>6 DEF FollowInv, RecoveryFollowsNotice
<1>5. ASSUME NEW swept \in SUBSET Servers, SweepTraffic(swept) PROVE FollowInv'
  <2>1. queue' = queue \/ (TrafficEvent(swept) \in Events /\ queue' = Append(queue, TrafficEvent(swept)))
    BY <1>5, SweepTrafficDoes
  <2>2. Queued(queue') \subseteq Queued(queue) \cup {TrafficEvent(swept)}
    BY <2>1, AtTheEnd DEF NoticesType
  <2>3. Waiting' \subseteq Waiting \cup {TrafficEvent(swept)}
    BY <1>5, <2>2, WaitingNow DEF Waiting, Sweeps
  <2>4. \A s, m, p : ~Holds(TrafficEvent(swept), "recovery", s, m, p)
    BY SweptHold
  <2>5. chat' = chat /\ \A s \in Servers : row'[s].notified = row[s].notified /\ row'[s].started = row[s].started
    BY <1>5, SweepTrafficDoes DEF NoticesType, NoticeRow
  <2> QED BY <1>0, <2>3, <2>4, <2>5 DEF FollowInv, RecoveryFollowsNotice
<1>6. ASSUME NEW taken \in BOOLEAN, NEW answer \in {"ok", "lost", "refused"}, Send(taken, answer) PROVE FollowInv'
  <2>1. row' = row /\ Waiting' = Waiting
    BY <1>6, WaitingNow DEF Send
  <2>2. work \in Deliveries /\ work # Idle /\ work.item \in Events /\ work.item \in Waiting
        /\ work.sent \subseteq work.item.entries
    BY <1>6, SendType DEF Waiting, WorkInv, Deliveries
  <2>3. ASSUME NEW n \in DOMAIN chat', n[1] = "recovery" PROVE <<"offline", n[2], n[3], 0>> \in DOMAIN chat'
    <3>1. CASE n \in DOMAIN chat
      BY <1>0, <2>3, <3>1, ChatGrows DEF FollowInv, RecoveryFollowsNotice
    <3>2. CASE n \notin DOMAIN chat
      <4>1. n \in NoticesOf(work.item, work.sent)
        BY <1>6, <2>3, <3>2, SendType
      <4>2. n \in OutageNotices \cup TrafficNotices
        BY <2>2, <4>1, NoticesInHand
      <4>3. n = <<n[1], n[2], n[3], n[4]>>
        BY <4>2 DEF OutageNotices, TrafficNotices
      <4>4. work.item.kind = "recovery" /\ Entry(n[2], n[3], n[4]) \in work.sent
        BY <2>2, <2>3, <4>1, <4>3, NoticesInHand
      <4>5. Holds(work.item, "recovery", n[2], n[3], n[4])
        BY <2>2, <4>4 DEF Holds
      <4> QED BY <1>0, <2>2, <4>5 DEF FollowInv, Told
    <3> QED BY <3>1, <3>2
  <2> QED BY <1>0, <2>1, <2>3 DEF FollowInv, RecoveryFollowsNotice
<1>7. ASSUME NEW written, Finish(written) PROVE FollowInv'
  <2>1. Waiting' \subseteq Waiting /\ chat' = chat
    BY <1>7, WaitingNow, FinishDoes
  <2>2. ASSUME NEW s \in Servers, row'[s].notified, row'[s].started # 0 PROVE Told(s, row'[s].started)
    <3>1. row'[s].started = row[s].started
      BY <1>7, FinishDoes
    <3>2. CASE row[s].notified
      BY <2>2, <3>1, <3>2 DEF FollowInv
    <3>3. CASE work.item.kind = "offline" /\ Entry(s, row[s].started, 0) \in written
      <4>1. Entry(s, row[s].started, 0) \in work.sent /\ work.item \in Events /\ work.sent \subseteq work.item.entries
            /\ NoticesOf(work.item, work.sent) \subseteq DOMAIN chat
        BY <1>7, <3>3, FinishDoes DEF WorkInv
      <4>2. <<"offline", s, row[s].started, 0>> \in NoticesOf(work.item, work.sent)
        BY <3>3, <4>1, NoticesInHand
      <4> QED BY <3>1, <4>1, <4>2 DEF Told
    <3> QED BY <1>7, <2>2, <3>2, <3>3, FinishDoes
  <2> QED BY <1>0, <2>1, <2>2 DEF FollowInv, RecoveryFollowsNotice
<1>8. CASE SendTest
  <2>1. UNCHANGED <<row, chat>> /\ Waiting' = Waiting \cup {[kind |-> "test", entries |-> {}]}
    BY <1>8, WaitingNow DEF SendTest
  <2>2. \A s, m, p : ~Holds([kind |-> "test", entries |-> {}], "recovery", s, m, p)
    BY DEF Holds
  <2> QED BY <1>0, <2>1, <2>2 DEF FollowInv, RecoveryFollowsNotice
<1>9. CASE Restart
  BY <1>1, <1>9, WaitingNow DEF Restart
<1>10. CASE TakeEvent \/ \E readable \in BOOLEAN : Check(readable)
  BY <1>1, <1>10, WaitingNow DEF TakeEvent, Check
<1> QED BY <1>2, <1>3, <1>4, <1>5, <1>6, <1>7, <1>8, <1>9, <1>10 DEF NotificationNext, Outside, Sweeps, Deliver


\* Event ev announces an outage of Server s.
Away(ev, s) == \E m, p : Holds(ev, "offline", s, m, p)

\* Every mark has its event.
MarksInv ==
  /\ \A s \in pendingOffline : \E ev \in Waiting : Away(ev, s)
  /\ test = "pending" => \E ev \in Waiting : ev.kind = "test"

LEMMA AwayFields ==
  ASSUME NEW ev \in Events, NEW s
  PROVE  Away(ev, s) <=> ev.kind = "offline" /\ \E x \in ev.entries : x.server = s
<1>1. \A x \in ev.entries : x = Entry(x.server, x.mark, x.step)
  BY DEF Events, OutageEntries, TrafficEntries, Entry
<1>2. \A m, p : Entry(s, m, p).server = s
  BY DEF Entry
<1>3. Away(ev, s) => ev.kind = "offline" /\ \E x \in ev.entries : x.server = s
  BY <1>2 DEF Away, Holds
<1>4. ASSUME ev.kind = "offline", NEW x \in ev.entries, x.server = s PROVE Away(ev, s)
  <2>1. Holds(ev, "offline", s, x.mark, x.step)
    BY <1>1, <1>4 DEF Holds
  <2> QED BY <2>1 DEF Away
<1> QED BY <1>3, <1>4

\* Whatever waits is an event.
LEMMA WaitingType ==
  ASSUME NoticesType
  PROVE  Waiting \subseteq Events
<1>1. \A i \in DOMAIN queue : queue[i] \in Events
  BY DEF NoticesType
<1>2. work # Idle => work.item \in Events
  BY DEF NoticesType, Deliveries
<1> QED BY <1>1, <1>2 DEF Waiting, Queued

LEMMA MarksAreThere == NoticesType /\ MarksInv => MarksAreQueued
<1> SUFFICES ASSUME NoticesType, MarksInv PROVE MarksAreQueued
  OBVIOUS
<1>1. \A s \in pendingOffline : \E ev \in Waiting : ev.kind = "offline" /\ \E x \in ev.entries : x.server = s
  BY WaitingType, AwayFields DEF MarksInv
<1>2. Waiting = {queue[i] : i \in DOMAIN queue} \cup (IF work = Idle THEN {} ELSE {work.item})
  BY DEF Waiting, Queued
<1> HIDE DEF Waiting
<1> QED BY <1>1, <1>2 DEF MarksInv, MarksAreQueued

LEMMA NextMarks ==
  ASSUME NoticesType, WorkInv, MarksInv, [NotificationNext]_notificationVars
  PROVE  MarksInv'
<1>1. ASSUME UNCHANGED <<pendingOffline, test>>, Waiting \subseteq Waiting' PROVE MarksInv'
  BY <1>1 DEF MarksInv
<1>2. CASE UNCHANGED notificationVars
  BY <1>1, <1>2 DEF notificationVars, Waiting, Queued
<1>3. CASE Outside
  <2>1. UNCHANGED <<pendingOffline, test, queue, work>>
    BY <1>3, OutsideDoes DEF memory
  <2> QED BY <1>1, <2>1 DEF Waiting, Queued
<1>4. ASSUME NEW swept \in SUBSET Servers, NEW graceOver \in SUBSET Servers, SweepOnline(swept, graceOver)
      PROVE  MarksInv'
  <2> DEFINE off == OfflineEvent(swept, graceOver)  rec == RecoveryEvent(swept)  names == Announced(swept, graceOver)
  <2>1. off \in Events /\ rec \in Events /\ off # rec /\ Grows(off, rec, names)
    BY <1>4, SweptEvents, SweepOnlineDoes DEF OfflineEvent, RecoveryEvent
  <2>2. \A s \in names : Away(off, s)
    BY SweptHold DEF Away
  <2>3. test' = test
    BY <1>4, SweepOnlineDoes
  <2> HIDE DEF off, rec, names
  <2>4. Queued(queue) \subseteq Queued(queue')
        /\ (pendingOffline' = pendingOffline \/ (pendingOffline' = pendingOffline \cup names /\ off \in Queued(queue')))
    BY <2>1, GrownQueue
  <2>5. Waiting \subseteq Waiting' /\ Queued(queue') \subseteq Waiting'
    BY <1>4, <2>4, WaitingNow DEF Waiting, Sweeps
  <2> QED BY <2>2, <2>3, <2>4, <2>5 DEF MarksInv
<1>5. ASSUME NEW swept \in SUBSET Servers, SweepTraffic(swept) PROVE MarksInv'
  <2>1. queue' = queue \/ (TrafficEvent(swept) \in Events /\ queue' = Append(queue, TrafficEvent(swept)))
    BY <1>5, SweepTrafficDoes
  <2>2. Queued(queue) \subseteq Queued(queue')
    <3>1. queue \in Seq(Events)
      BY DEF NoticesType
    <3>2. CASE queue' = queue
      BY <3>2
    <3>3. CASE TrafficEvent(swept) \in Events /\ queue' = Append(queue, TrafficEvent(swept))
      BY <3>1, <3>3, AtTheEnd
    <3> QED BY <2>1, <3>2, <3>3
  <2>3. Waiting \subseteq Waiting' /\ UNCHANGED <<pendingOffline, test>>
    BY <1>5, <2>2, WaitingNow, SweepTrafficDoes DEF Waiting, Sweeps
  <2> QED BY <1>1, <2>3
<1>6. ASSUME NEW taken \in BOOLEAN, NEW answer \in {"ok", "lost", "refused"}, Send(taken, answer) PROVE MarksInv'
  BY <1>1, <1>6, WaitingNow DEF Send
<1>7. ASSUME NEW written, Finish(written) PROVE MarksInv'
  <2>1. Waiting = Waiting' \cup {work.item} /\ work.item \in Events
    BY <1>7, WaitingNow, FinishDoes
  <2>2. ASSUME NEW s \in pendingOffline' PROVE \E ev \in Waiting' : Away(ev, s)
    <3>1. s \in pendingOffline /\ (work.item.kind = "offline" => s \notin {e.server : e \in work.item.entries})
      BY <1>7, <2>2, FinishDoes
    <3>2. ~Away(work.item, s)
      BY <2>1, <3>1, AwayFields
    <3> QED BY <2>1, <3>1, <3>2 DEF MarksInv
  <2>3. test' = "pending" => test = "pending" /\ work.item.kind # "test"
    BY <1>7 DEF Finish
  <2>4. test' = "pending" => \E ev \in Waiting' : ev.kind = "test"
    BY <2>1, <2>3 DEF MarksInv
  <2> QED BY <2>2, <2>4 DEF MarksInv
<1>8. CASE SendTest
  <2>1. pendingOffline' = pendingOffline /\ Waiting' = Waiting \cup {[kind |-> "test", entries |-> {}]}
    BY <1>8, WaitingNow DEF SendTest
  <2> DEFINE ev == [kind |-> "test", entries |-> {}]
  <2>2. ev \in Waiting' /\ ev.kind = "test"
    BY <2>1
  <2> HIDE DEF ev
  <2>3. \E e \in Waiting' : e.kind = "test"
    BY <2>2
  <2>4. \A s \in pendingOffline' : \E e \in Waiting' : Away(e, s)
    BY <2>1 DEF MarksInv
  <2> QED BY <2>3, <2>4 DEF MarksInv
<1>9. CASE Restart
  BY <1>9 DEF Restart, MarksInv
<1>10. CASE TakeEvent \/ \E readable \in BOOLEAN : Check(readable)
  BY <1>1, <1>10, WaitingNow DEF TakeEvent, Check
<1> QED BY <1>2, <1>3, <1>4, <1>5, <1>6, <1>7, <1>8, <1>9, <1>10 DEF NotificationNext, Outside, Sweeps, Deliver


\* The outage of an eligible Server is announced by one event at most, the one its row
\* names, and is marked until that event is finished; the chat knows of no outage that
\* is still watched; and a delivery is recorded, or about to be, or counted as unrecorded.
OneEvent(s) ==
  /\ \A ev \in Waiting : \A m, p : Holds(ev, "offline", s, m, p) =>
       s \in pendingOffline /\ row[s].started # 0 /\ m = row[s].started
  /\ \A i, j \in DOMAIN queue : Away(queue[i], s) /\ Away(queue[j], s) => i = j
  /\ \A i \in DOMAIN queue : Away(queue[i], s) /\ work # Idle => ~Away(work.item, s)

Unheard(s) == \A m : Told(s, m) => m <= outages /\ m # firstAbsent[s]

\* The worker has delivered the notice of the outage of s, and not yet noted it.
Delivered(s) ==
  /\ work # Idle /\ work.at = "finish" /\ work.item.kind = "offline"
  /\ Entry(s, row[s].started, 0) \in work.sent

Recorded(s) ==
  row[s].started # 0 /\ <<"offline", s, row[s].started, 0>> \in DOMAIN chat \ unrecorded
    => row[s].notified \/ Delivered(s)

OfflineInv == \A s \in eligible : OneEvent(s) /\ Unheard(s) /\ Recorded(s)

\* Where the events of a sweep stand.
LEMMA GrownPlaces ==
  ASSUME NoticesType, NEW off \in Events, NEW rec \in Events, NEW names, Grows(off, rec, names)
  PROVE  \A i \in DOMAIN queue' : \/ i \in DOMAIN queue /\ queue'[i] = queue[i]
                                  \/ i = Len(queue) + 1 /\ queue'[i] = off
                                  \/ queue'[i] = rec
<1>1. queue \in Seq(Events)
  BY DEF NoticesType
<1> DEFINE q == Append(queue, off)
<1>2. q \in Seq(Events) /\ Len(q) = Len(queue) + 1 /\ DOMAIN q = DOMAIN queue \cup {Len(queue) + 1}
      /\ q[Len(queue) + 1] = off /\ \A i \in DOMAIN queue : q[i] = queue[i]
  BY <1>1, AtTheEnd
<1>3. LET r == Append(queue, rec) IN
        /\ DOMAIN r = DOMAIN queue \cup {Len(queue) + 1}
        /\ r[Len(queue) + 1] = rec /\ \A i \in DOMAIN queue : r[i] = queue[i]
  BY <1>1, AtTheEnd
<1> HIDE DEF q
<1>4. LET r == Append(q, rec) IN
        DOMAIN r = DOMAIN q \cup {Len(q) + 1} /\ r[Len(q) + 1] = rec /\ \A i \in DOMAIN q : r[i] = q[i]
  BY <1>2, AtTheEnd
<1>5. queue' = queue \/ queue' = q \/ queue' = Append(queue, rec) \/ queue' = Append(q, rec)
  BY DEF Grows, q
<1> QED BY <1>2, <1>3, <1>4, <1>5

\* Nothing that an eligible Server's notices depend on has changed.
LEMMA SameOutage ==
  ASSUME NoticesType, OfflineInv, NEW s \in eligible,
         row'[s].started = row[s].started, row'[s].notified = row[s].notified,
         UNCHANGED <<firstAbsent, pendingOffline, outages, chat, unrecorded>>
  PROVE  /\ UNCHANGED <<queue, work>> => OneEvent(s)'
         /\ Unheard(s)'
         /\ UNCHANGED work => Recorded(s)'
<1>1. ASSUME UNCHANGED <<queue, work>> PROVE OneEvent(s)'
  <2>1. Waiting' = Waiting
    BY <1>1 DEF Waiting, Queued
  <2> QED BY <1>1, <2>1 DEF OfflineInv, OneEvent
<1>2. Unheard(s)'
  BY DEF OfflineInv, Unheard, Told
<1>3. ASSUME UNCHANGED work PROVE Recorded(s)'
  BY <1>3 DEF OfflineInv, Recorded, Delivered
<1> QED BY <1>1, <1>2, <1>3

LEMMA SweptOffline ==
  ASSUME NoticesType, WorkInv, WatchInv, OfflineInv, NEW swept \in SUBSET Servers, NEW graceOver \in SUBSET Servers,
         SweepOnline(swept, graceOver), NEW s \in eligible
  PROVE  OneEvent(s)' /\ Unheard(s)' /\ Recorded(s)'
<1> DEFINE off == OfflineEvent(swept, graceOver)  rec == RecoveryEvent(swept)  names == Announced(swept, graceOver)
<1>0. s \in Servers /\ OneEvent(s) /\ Unheard(s) /\ Recorded(s)
  BY DEF NoticesType, OfflineInv
<1>1. off \in Events /\ rec \in Events /\ off # rec /\ Grows(off, rec, names)
  BY SweptEvents, SweepOnlineDoes DEF OfflineEvent, RecoveryEvent
<1>2. UNCHANGED <<work, chat, unrecorded>>
  BY SweepOnlineDoes
<1>3. /\ \A m, p : Holds(off, "offline", s, m, p) => s \in names /\ m = firstAbsent[s]
      /\ \A m, p : ~Holds(rec, "offline", s, m, p)
  BY SweptHold
<1>4. (Away(off, s) => s \in names) /\ ~Away(rec, s)
  BY <1>3 DEF Away
<1>5. \/ /\ s \in names /\ row[s].started = 0 /\ firstAbsent[s] # 0
         /\ row'[s].started = firstAbsent[s] /\ ~row'[s].notified
      \/ s \notin names /\ s \in Cleared(swept) /\ row'[s].started = 0
      \/ s \notin names /\ s \notin Cleared(swept) /\ row'[s] = row[s]
  BY <1>0, SweptServer
<1>6. s \in Cleared(swept) => s \notin pendingOffline
  BY DEF Cleared, Back
<1>7. \/ firstAbsent'[s] = outages + 1 /\ outages' = outages + 1
      \/ firstAbsent'[s] = 0
      \/ firstAbsent'[s] = firstAbsent[s]
  BY <1>0, SweptServer
<1>8. outages \in Nat /\ outages' \in {outages, outages + 1}
  BY <1>0, SweptServer DEF NoticesType
<1> HIDE DEF off, rec, names
<1>9. /\ Queued(queue') \subseteq Queued(queue) \cup {off, rec} /\ pendingOffline \subseteq pendingOffline'
      /\ off \in Queued(queue') \ Queued(queue) => pendingOffline' = pendingOffline \cup names
  BY <1>1, GrownQueue
<1>10. \A i \in DOMAIN queue' : \/ i \in DOMAIN queue /\ queue'[i] = queue[i]
                                \/ i = Len(queue) + 1 /\ queue'[i] = off
                                \/ queue'[i] = rec
  BY <1>1, GrownPlaces
<1>11. Waiting' \subseteq Waiting \cup {off, rec} /\ (off \in Waiting' => off \in Waiting \/ off \in Queued(queue') \ Queued(queue))
  BY <1>9, WaitingNow DEF Waiting, Sweeps
<1>12. s \in names => \A ev \in Waiting : ~Away(ev, s)
  BY <1>0, <1>5 DEF OneEvent, Away
<1>13. ASSUME NEW ev \in Waiting', NEW m, NEW p, Holds(ev, "offline", s, m, p)
       PROVE  s \in pendingOffline' /\ row'[s].started # 0 /\ m = row'[s].started
  <2>1. CASE ev \in Waiting
    <3>1. s \in pendingOffline /\ row[s].started # 0 /\ m = row[s].started
      BY <1>0, <1>13, <2>1 DEF OneEvent
    <3> QED BY <1>5, <1>6, <1>9, <3>1
  <2>2. CASE ev \notin Waiting
    <3>1. ev = off
      BY <1>3, <1>11, <1>13, <2>2
    <3>2. s \in names /\ m = firstAbsent[s]
      BY <1>3, <1>13, <3>1
    <3> QED BY <1>5, <1>9, <1>11, <1>13, <2>2, <3>1, <3>2
  <2> QED BY <2>1, <2>2
<1>14. \A i \in DOMAIN queue : queue[i] \in Waiting
  BY DEF Waiting, Queued
<1>15. \A i, j \in DOMAIN queue' : Away(queue'[i], s) /\ Away(queue'[j], s) => i = j
  BY <1>0, <1>4, <1>10, <1>12, <1>14 DEF OneEvent
<1>16. \A i \in DOMAIN queue' : Away(queue'[i], s) /\ work' # Idle => ~Away(work'.item, s)
  <2>1. work # Idle => work.item \in Waiting
    BY DEF Waiting
  <2> QED BY <1>0, <1>2, <1>4, <1>10, <1>12, <2>1 DEF OneEvent
<1>17. OneEvent(s)'
  BY <1>13, <1>15, <1>16 DEF OneEvent
<1>18. Unheard(s)'
  <2>1. \A m : Told(s, m) => m \in Nat \ {0}
    BY DEF Told, NoticesType, OutageNotices, TrafficNotices
  <2>2. \A m : Told(s, m)' <=> Told(s, m)
    BY <1>2 DEF Told
  <2> QED BY <1>0, <1>7, <1>8, <2>1, <2>2 DEF Unheard
<1>19. Recorded(s)'
  <2>1. s \in names => ~Told(s, firstAbsent[s])
    BY <1>0 DEF Unheard
  <2> QED BY <1>0, <1>2, <1>5, <2>1 DEF Recorded, Delivered, Told
<1> QED BY <1>17, <1>18, <1>19


LEMMA TakenOffline ==
  ASSUME NoticesType, WorkInv, OfflineInv, TakeEvent, NEW s \in eligible
  PROVE  OneEvent(s)' /\ Unheard(s)' /\ Recorded(s)'
<1>1. OneEvent(s) /\ Recorded(s)
  BY DEF OfflineInv
<1>2. queue \in Seq(Events) /\ queue # <<>> /\ queue' = Tail(queue) /\ work = Idle
  BY DEF NoticesType, TakeEvent
<1>3. /\ 1 \in DOMAIN queue /\ Head(queue) = queue[1] /\ Head(queue) \in Events
      /\ \A i \in DOMAIN queue' : i \in Nat /\ i + 1 \in DOMAIN queue /\ queue'[i] = queue[i + 1]
  BY <1>2, AtTheFront
<1>4. work'.item = queue[1] /\ work'.at = "check"
  BY <1>3 DEF TakeEvent
<1>5. Waiting' = Waiting /\ UNCHANGED <<row, firstAbsent, pendingOffline, outages, chat, unrecorded>>
  BY WaitingNow DEF TakeEvent
<1>6. 0 \notin DOMAIN queue'
  BY <1>2
<1>7. OneEvent(s)'
  <2>1. \A i, j \in DOMAIN queue' : Away(queue'[i], s) /\ Away(queue'[j], s) => i = j
    <3> SUFFICES ASSUME NEW i \in DOMAIN queue', NEW j \in DOMAIN queue', Away(queue'[i], s), Away(queue'[j], s)
                 PROVE  i = j
      OBVIOUS
    <3>1. i + 1 = j + 1
      BY <1>1, <1>3 DEF OneEvent
    <3> QED BY <1>3, <3>1
  <2>2. \A i \in DOMAIN queue' : Away(queue'[i], s) => ~Away(work'.item, s)
    <3> SUFFICES ASSUME NEW i \in DOMAIN queue', Away(queue'[i], s), Away(queue[1], s) PROVE FALSE
      BY <1>4
    <3>1. i + 1 = 1
      BY <1>1, <1>3 DEF OneEvent
    <3> QED BY <1>3, <1>6, <3>1
  <2> QED BY <1>1, <1>5, <2>1, <2>2 DEF OneEvent
<1>8. Unheard(s)'
  BY <1>5, SameOutage
<1>9. Recorded(s)'
  BY <1>1, <1>2, <1>5 DEF Recorded, Delivered
<1> QED BY <1>7, <1>8, <1>9

LEMMA SentOffline ==
  ASSUME NoticesType, WorkInv, WatchInv, OfflineInv, NEW taken \in BOOLEAN, NEW answer \in {"ok", "lost", "refused"},
         Send(taken, answer), NEW s \in eligible
  PROVE  OneEvent(s)' /\ Unheard(s)' /\ Recorded(s)'
<1>1. OneEvent(s) /\ Unheard(s) /\ Recorded(s) /\ s \in Servers
  BY DEF OfflineInv, NoticesType
<1>2. /\ work \in Deliveries /\ work # Idle /\ work.at = "send" /\ work' \in Deliveries /\ work'.item = work.item
      /\ DOMAIN chat' = DOMAIN chat \cup (IF taken THEN NoticesOf(work.item, work.sent) ELSE {})
      /\ work'.at = "finish" => (IF answer = "ok" THEN work'.sent = work.sent ELSE work'.sent = {})
      /\ answer = "ok" => work'.at = "finish"
  BY SendType
<1>3. UNCHANGED <<row, firstAbsent, pendingOffline, queue, outages>> /\ Waiting' = Waiting /\ work' # Idle
  BY <1>2, WaitingNow, InHand DEF Send
<1>4. OneEvent(s)'
  BY <1>1, <1>2, <1>3 DEF OneEvent
<1>5. work.item \in Events /\ work.item \in Waiting /\ work.sent \subseteq work.item.entries
  BY <1>2 DEF Deliveries, Waiting, WorkInv
<1>6. ASSUME NEW m, <<"offline", s, m, 0>> \in DOMAIN chat', ~Told(s, m)
      PROVE  /\ taken /\ work.item.kind = "offline" /\ Entry(s, m, 0) \in work.sent
             /\ <<"offline", s, m, 0>> \in NoticesOf(work.item, work.sent)
             /\ row[s].started # 0 /\ m = row[s].started
  <2>1. taken /\ <<"offline", s, m, 0>> \in NoticesOf(work.item, work.sent)
    BY <1>2, <1>6 DEF Told
  <2>2. work.item.kind = "offline" /\ Entry(s, m, 0) \in work.sent
    BY <1>5, <2>1, NoticesInHand
  <2>3. Holds(work.item, "offline", s, m, 0)
    BY <1>5, <2>2 DEF Holds
  <2> QED BY <1>1, <1>5, <2>1, <2>2, <2>3 DEF OneEvent
<1>7. Unheard(s)'
  <2>1. row[s].started # 0 => row[s].started <= outages /\ firstAbsent[s] = 0
    BY <1>1 DEF WatchInv
  <2> QED BY <1>1, <1>3, <1>6, <2>1 DEF Unheard, Told
<1>8. Recorded(s)'
  <2> SUFFICES ASSUME row[s].started # 0, <<"offline", s, row[s].started, 0>> \in DOMAIN chat',
                      <<"offline", s, row[s].started, 0>> \notin unrecorded'
               PROVE  row[s].notified \/ Delivered(s)'
    BY <1>3 DEF Recorded
  <2>1. unrecorded \subseteq unrecorded'
    BY DEF Send
  <2>2. CASE Told(s, row[s].started)
    BY <1>1, <1>2, <2>1, <2>2 DEF Recorded, Delivered, Told
  <2>3. CASE ~Told(s, row[s].started)
    <3>1. /\ taken /\ work.item.kind = "offline" /\ Entry(s, row[s].started, 0) \in work.sent
          /\ <<"offline", s, row[s].started, 0>> \in NoticesOf(work.item, work.sent)
      BY <1>6, <2>3
    <3>2. answer # "refused"
      BY <3>1 DEF Send
    <3>3. answer # "lost"
      BY <3>1 DEF Send
    <3> QED BY <1>2, <1>3, <3>1, <3>2, <3>3 DEF Delivered
  <2> QED BY <2>2, <2>3
<1> QED BY <1>4, <1>7, <1>8

LEMMA FinishedOffline ==
  ASSUME NoticesType, WorkInv, OfflineInv, NEW written, Finish(written), NEW s \in eligible
  PROVE  OneEvent(s)' /\ Unheard(s)' /\ Recorded(s)'
<1>1. OneEvent(s) /\ Unheard(s) /\ Recorded(s) /\ s \in Servers
  BY DEF OfflineInv, NoticesType
<1>2. /\ work # Idle /\ work.item \in Events /\ work' = Idle /\ work.sent \subseteq work.item.entries
      /\ row'[s].started = row[s].started
      /\ row'[s].notified <=>
           \/ row[s].notified
           \/ work.item.kind = "offline" /\ row[s].started # 0 /\ Entry(s, row[s].started, 0) \in written
      /\ UNCHANGED <<firstAbsent, queue, outages, chat>>
  BY <1>1, FinishDoes
<1>3. pendingOffline' = IF work.item.kind = "offline"
                        THEN pendingOffline \ {e.server : e \in work.item.entries} ELSE pendingOffline
  BY FinishDoes
<1>4. Waiting' = Queued(queue) /\ Waiting' \subseteq Waiting
  BY <1>2 DEF Waiting
<1>5. ASSUME NEW ev \in Waiting', NEW m, NEW p, Holds(ev, "offline", s, m, p)
      PROVE  s \in pendingOffline' /\ row'[s].started # 0 /\ m = row'[s].started
  <2>1. s \in pendingOffline /\ row[s].started # 0 /\ m = row[s].started
    BY <1>1, <1>4, <1>5 DEF OneEvent
  <2>2. PICK i \in DOMAIN queue : ev = queue[i]
    BY <1>4, <1>5 DEF Queued
  <2>3. Away(queue[i], s)
    BY <1>5, <2>2 DEF Away
  <2>4. ~Away(work.item, s)
    BY <1>1, <1>2, <2>3 DEF OneEvent
  <2>5. work.item.kind = "offline" => s \notin {e.server : e \in work.item.entries}
    BY <1>2, <2>4, AwayFields
  <2> QED BY <1>2, <1>3, <2>1, <2>5
<1>6. OneEvent(s)'
  BY <1>1, <1>2, <1>5 DEF OneEvent
<1>7. Unheard(s)'
  BY <1>1, <1>2 DEF Unheard, Told
<1>8. Recorded(s)'
  <2> SUFFICES ASSUME row[s].started # 0, <<"offline", s, row[s].started, 0>> \in DOMAIN chat \ unrecorded'
               PROVE  row'[s].notified
    BY <1>2 DEF Recorded
  <2>1. unrecorded' = unrecorded \cup
          {n \in NoticesOf(work.item, work.sent \ written) \cap DOMAIN chat : n[1] = "offline"}
    BY DEF Finish, Unrecorded
  <2>2. row[s].notified \/ Delivered(s)
    BY <1>1, <2>1 DEF Recorded
  <2>3. CASE Delivered(s) /\ Entry(s, row[s].started, 0) \notin written
    <3>1. work.item.kind = "offline" /\ Entry(s, row[s].started, 0) \in work.sent \ written
      BY <2>3 DEF Delivered
    <3>2. <<"offline", s, row[s].started, 0>> \in NoticesOf(work.item, work.sent \ written)
      BY <1>2, <3>1, NoticesInHand
    <3> QED BY <2>1, <3>2
  <2>4. CASE Delivered(s) /\ Entry(s, row[s].started, 0) \in written
    BY <1>2, <2>4 DEF Delivered
  <2> QED BY <1>2, <2>2, <2>3, <2>4
<1> QED BY <1>6, <1>7, <1>8

LEMMA RestartedOffline ==
  ASSUME NoticesType, WorkInv, OfflineInv, Restart, NEW s \in eligible
  PROVE  OneEvent(s)' /\ Unheard(s)' /\ Recorded(s)'
<1>1. Unheard(s) /\ Recorded(s) /\ s \in Servers
  BY DEF OfflineInv, NoticesType
<1>2. /\ queue' = <<>> /\ work' = Idle /\ firstAbsent'[s] = 0 /\ UNCHANGED <<row, outages, chat>> /\ Waiting' = {}
  BY <1>1, WaitingNow DEF Restart
<1>3. OneEvent(s)'
  <2>1. DOMAIN queue' = {}
    BY <1>2
  <2> QED BY <1>2, <2>1 DEF OneEvent
<1>4. Unheard(s)'
  <2>1. \A m : Told(s, m) => m # 0
    BY DEF Told, NoticesType, OutageNotices, TrafficNotices
  <2> QED BY <1>1, <1>2, <2>1 DEF Unheard, Told
<1>5. Recorded(s)'
  <2> SUFFICES ASSUME row[s].started # 0, <<"offline", s, row[s].started, 0>> \in DOMAIN chat \ unrecorded'
               PROVE  row[s].notified
    BY <1>2 DEF Recorded
  <2>1. /\ work = Idle => unrecorded' = unrecorded
        /\ work # Idle => unrecorded' = unrecorded \cup {n \in NoticesOf(work.item, work.sent) \cap DOMAIN chat : n[1] = "offline"}
    BY DEF Restart, Unrecorded
  <2>2. row[s].notified \/ Delivered(s)
    BY <1>1, <2>1 DEF Recorded
  <2>3. CASE Delivered(s)
    <3>1. work # Idle /\ work.item.kind = "offline" /\ Entry(s, row[s].started, 0) \in work.sent
          /\ work.item \in Events /\ work.sent \subseteq work.item.entries
      BY <2>3 DEF Delivered, NoticesType, Deliveries, WorkInv
    <3>2. <<"offline", s, row[s].started, 0>> \in NoticesOf(work.item, work.sent)
      BY <3>1, NoticesInHand
    <3> QED BY <2>1, <3>1, <3>2
  <2> QED BY <2>2, <2>3
<1> QED BY <1>3, <1>4, <1>5

LEMMA NextOffline ==
  ASSUME NoticesType, WorkInv, WatchInv, OfflineInv, [NotificationNext]_notificationVars
  PROVE  OfflineInv'
<1>0. eligible' \subseteq eligible
  <2>1. CASE UNCHANGED eligible
    BY <2>1
  <2>2. CASE Outside
    BY <2>2, OutsideDoes
  <2>3. CASE Sweeps
    BY <2>3, SweptType DEF environment
  <2> QED BY <2>1, <2>2, <2>3 DEF NotificationNext, notificationVars, Outside, Deliver, TakeEvent, Check, Send,
                                  Finish, SendTest, Restart, environment
<1> SUFFICES ASSUME NEW s \in eligible PROVE OneEvent(s)' /\ Unheard(s)' /\ Recorded(s)'
  BY <1>0 DEF OfflineInv
<1>1. ASSUME UNCHANGED <<row, firstAbsent, pendingOffline, outages, chat, unrecorded, queue, work>>
      PROVE  OneEvent(s)' /\ Unheard(s)' /\ Recorded(s)'
  BY <1>1, SameOutage
<1>2. CASE UNCHANGED notificationVars
  BY <1>1, <1>2 DEF notificationVars
<1>3. CASE Outside
  BY <1>1, <1>3, OutsideDoes DEF memory
<1>4. ASSUME NEW swept \in SUBSET Servers, NEW graceOver \in SUBSET Servers, SweepOnline(swept, graceOver)
      PROVE  OneEvent(s)' /\ Unheard(s)' /\ Recorded(s)'
  BY <1>4, SweptOffline
<1>5. ASSUME NEW ev \in Events, ~Away(ev, s), queue' = Append(queue, ev), work' = work,
             row'[s].started = row[s].started, row'[s].notified = row[s].notified,
             UNCHANGED <<firstAbsent, pendingOffline, outages, chat, unrecorded>>
      PROVE  OneEvent(s)' /\ Unheard(s)' /\ Recorded(s)'
  <2>1. OneEvent(s)
    BY DEF OfflineInv
  <2>2. /\ DOMAIN queue' = DOMAIN queue \cup {Len(queue) + 1} /\ queue'[Len(queue) + 1] = ev
        /\ \A i \in DOMAIN queue : queue'[i] = queue[i]
        /\ Queued(queue') = Queued(queue) \cup {ev}
    BY <1>5, AtTheEnd DEF NoticesType
  <2>3. Waiting' = Waiting \cup {ev}
    BY <1>5, <2>2 DEF Waiting
  <2>4. OneEvent(s)'
    BY <1>5, <2>1, <2>2, <2>3 DEF OneEvent, Away
  <2> QED BY <1>5, <2>4, SameOutage
<1>6. ASSUME NEW swept \in SUBSET Servers, SweepTraffic(swept) PROVE OneEvent(s)' /\ Unheard(s)' /\ Recorded(s)'
  <2>1. row'[s].started = row[s].started /\ row'[s].notified = row[s].notified
    <3>1. s \in Servers /\ row[s] \in NoticeRow
      BY DEF NoticesType
    <3>2. row' = [t \in Servers |-> IF t \in swept \cap eligible
                                   THEN [row[t] EXCEPT !.cycle = cycle[t], !.step = LastStep(t)] ELSE row[t]]
      BY <1>6, SweepTrafficDoes
    <3> QED BY <3>1, <3>2 DEF NoticeRow
  <2>2. ~Away(TrafficEvent(swept), s)
    BY SweptHold DEF Away
  <2>3. UNCHANGED <<firstAbsent, pendingOffline, outages, chat, unrecorded, work>>
    BY <1>6, SweepTrafficDoes
  <2>4. TrafficEvent(swept) \in Events /\ (queue' = queue \/ queue' = Append(queue, TrafficEvent(swept)))
    BY <1>6, SweepTrafficDoes
  <2> QED BY <1>5, <2>1, <2>2, <2>3, <2>4, SameOutage
<1>7. CASE SendTest
  <2> DEFINE ev == [kind |-> "test", entries |-> {}]
  <2>1. ev \in Events /\ queue' = Append(queue, ev) /\ ~Away(ev, s)
    BY <1>7, SendTestDoes DEF Away, Holds
  <2>2. UNCHANGED <<row, firstAbsent, pendingOffline, outages, chat, unrecorded, work>>
    BY <1>7 DEF SendTest
  <2> HIDE DEF ev
  <2> QED BY <1>5, <2>1, <2>2
<1>8. ASSUME NEW readable \in BOOLEAN, Check(readable) PROVE OneEvent(s)' /\ Unheard(s)' /\ Recorded(s)'
  <2>1. UNCHANGED <<row, firstAbsent, pendingOffline, outages, chat, unrecorded, queue>> /\ Waiting' = Waiting
    BY <1>8, WaitingNow DEF Check
  <2>2. work # Idle /\ work.at = "check" /\ work'.item = work.item
    BY <1>8, CheckType
  <2>3. OneEvent(s) /\ Recorded(s)
    BY DEF OfflineInv
  <2>4. OneEvent(s)'
    BY <2>1, <2>2, <2>3 DEF OneEvent
  <2>5. Recorded(s)'
    BY <2>1, <2>2, <2>3 DEF Recorded, Delivered
  <2> QED BY <2>1, <2>4, <2>5, SameOutage
<1> QED BY <1>2, <1>3, <1>4, <1>6, <1>7, <1>8, TakenOffline, SentOffline, FinishedOffline, RestartedOffline
        DEF NotificationNext, Outside, Sweeps, Deliver


-----------------------------------------------------------------------------
(* How often a notice is sent.                                             *)

\* How often the chat took a notice, and how often it may still take it: the worker
\* has it in hand and did not send it yet, or it is queued.
InChat(k, s, m, p) == IF <<k, s, m, p>> \in DOMAIN chat THEN chat[<<k, s, m, p>>] ELSE 0
InWork(k, s, m, p) == IF work # Idle /\ work.at # "finish" /\ Holds(work.item, k, s, m, p) THEN 1 ELSE 0
Counted(k, s, m, p) == InChat(k, s, m, p) + InWork(k, s, m, p) + Copies(queue, k, s, m, p)

LEMMA CountsAreNumbers ==
  ASSUME NoticesType, NEW k, NEW s, NEW m, NEW p
  PROVE  /\ InChat(k, s, m, p) \in Nat /\ InWork(k, s, m, p) \in {0, 1} /\ Copies(queue, k, s, m, p) \in Nat
         /\ Counted(k, s, m, p) \in Nat
<1>1. InChat(k, s, m, p) \in Nat
  BY DEF InChat, NoticesType
<1>2. InWork(k, s, m, p) \in {0, 1}
  BY DEF InWork
<1>3. Copies(queue, k, s, m, p) \in Nat
  BY CountedInQueue DEF NoticesType
<1> QED BY <1>1, <1>2, <1>3 DEF Counted

\* Delivering an event counts no notice twice, unless an answer was lost.
LEMMA DeliverCounts ==
  ASSUME NoticesType, WorkInv, Deliver, NEW k, NEW s, NEW m, NEW p, <<k, s, m, p>> \notin doubt'
  PROVE  <<k, s, m, p>> \notin doubt /\ Counted(k, s, m, p)' <= Counted(k, s, m, p)
<1>0. /\ InChat(k, s, m, p) \in Nat /\ InWork(k, s, m, p) \in {0, 1} /\ Copies(queue, k, s, m, p) \in Nat
  BY CountsAreNumbers
<1>1. CASE TakeEvent
  <2>1. queue \in Seq(Events) /\ queue # <<>> /\ queue' = Tail(queue) /\ work = Idle /\ UNCHANGED <<chat, doubt>>
    BY <1>1 DEF NoticesType, TakeEvent
  <2>2. Copies(queue, k, s, m, p) =
          Copies(queue', k, s, m, p) + (IF Holds(Head(queue), k, s, m, p) THEN 1 ELSE 0)
    BY <2>1, OneLess
  <2>3. work'.item = Head(queue)
    BY <1>1 DEF TakeEvent
  <2>4. InWork(k, s, m, p)' <= (IF Holds(Head(queue), k, s, m, p) THEN 1 ELSE 0) /\ InWork(k, s, m, p)' \in {0, 1}
    BY <2>3 DEF InWork
  <2>5. InChat(k, s, m, p)' = InChat(k, s, m, p) /\ InWork(k, s, m, p) = 0
    BY <2>1 DEF InChat, InWork
  <2>6. Copies(queue', k, s, m, p) \in Nat
    <3>1. queue' \in Seq(Events)
      BY <2>1, AtTheFront
    <3> QED BY <3>1, CountedInQueue
  <2> QED BY <1>0, <2>1, <2>2, <2>4, <2>5, <2>6 DEF Counted
<1>2. ASSUME NEW readable \in BOOLEAN, Check(readable)
      PROVE  <<k, s, m, p>> \notin doubt /\ Counted(k, s, m, p)' <= Counted(k, s, m, p)
  <2>1. UNCHANGED <<chat, doubt, queue>>
    BY <1>2 DEF Check
  <2>2. work # Idle /\ work.at = "check" /\ work'.item = work.item
    BY <1>2, CheckType
  <2>3. InWork(k, s, m, p)' <= InWork(k, s, m, p) /\ InWork(k, s, m, p)' \in {0, 1}
    BY <2>2 DEF InWork
  <2>4. InChat(k, s, m, p)' = InChat(k, s, m, p) /\ Copies(queue', k, s, m, p) = Copies(queue, k, s, m, p)
    BY <2>1 DEF InChat
  <2> QED BY <1>0, <2>1, <2>3, <2>4 DEF Counted
<1>3. ASSUME NEW taken \in BOOLEAN, NEW answer \in {"ok", "lost", "refused"}, Send(taken, answer)
      PROVE  <<k, s, m, p>> \notin doubt /\ Counted(k, s, m, p)' <= Counted(k, s, m, p)
  <2> DEFINE n == <<k, s, m, p>>  sent == NoticesOf(work.item, work.sent)
  <2>1. /\ work \in Deliveries /\ work # Idle /\ work.at = "send" /\ work' \in Deliveries /\ work'.item = work.item
        /\ DOMAIN chat' = DOMAIN chat \cup (IF taken THEN sent ELSE {})
        /\ \A x \in DOMAIN chat' : chat'[x] = (IF x \in DOMAIN chat THEN chat[x] ELSE 0) +
                 (IF taken /\ x \in sent THEN 1 ELSE 0)
        /\ answer = "ok" => work'.at = "finish"
    BY <1>3, SendType
  <2>2. work.item \in Events /\ work.sent \subseteq work.item.entries
    BY <2>1 DEF Deliveries, WorkInv
  <2>3. n \in sent => Holds(work.item, k, s, m, p)
    BY <2>2, NoticesInHand DEF Holds
  <2>4. doubt' = IF answer = "lost" THEN doubt \cup (IF taken THEN sent ELSE {}) ELSE doubt
    BY <1>3 DEF Send
  <2>5. n \notin doubt /\ (taken /\ n \in sent => answer # "lost")
    BY <2>4
  <2>6. answer = "refused" => ~taken
    BY <1>3 DEF Send
  <2> HIDE DEF n, sent
  <2>7. taken /\ n \in sent => answer = "ok"
    BY <2>5, <2>6
  <2>8. InChat(k, s, m, p)' = InChat(k, s, m, p) + (IF taken /\ n \in sent THEN 1 ELSE 0)
    <3>1. InChat(k, s, m, p) = IF n \in DOMAIN chat THEN chat[n] ELSE 0
      BY DEF InChat, n
    <3>2. InChat(k, s, m, p)' = IF n \in DOMAIN chat' THEN chat'[n] ELSE 0
      BY DEF InChat, n
    <3> QED BY <1>0, <2>1, <3>1, <3>2
  <2>9. InWork(k, s, m, p)' + (IF taken /\ n \in sent THEN 1 ELSE 0) <= InWork(k, s, m, p)
        /\ InWork(k, s, m, p)' \in {0, 1}
    BY <2>1, <2>3, <2>7 DEF InWork
  <2>10. Copies(queue', k, s, m, p) = Copies(queue, k, s, m, p)
    BY <1>3 DEF Send
  <2> QED BY <1>0, <2>5, <2>8, <2>9, <2>10 DEF Counted, n
<1>4. ASSUME NEW written, Finish(written)
      PROVE  <<k, s, m, p>> \notin doubt /\ Counted(k, s, m, p)' <= Counted(k, s, m, p)
  <2>1. UNCHANGED <<chat, doubt, queue>> /\ work' = Idle
    BY <1>4, FinishDoes
  <2>2. InWork(k, s, m, p)' = 0 /\ InChat(k, s, m, p)' = InChat(k, s, m, p)
        /\ Copies(queue', k, s, m, p) = Copies(queue, k, s, m, p)
    BY <2>1 DEF InWork, InChat
  <2> QED BY <1>0, <2>1, <2>2 DEF Counted
<1> QED BY <1>1, <1>2, <1>3, <1>4 DEF Deliver

\* Nothing is counted when nothing is queued or sent; a restart forgets what waits.
LEMMA QuietCounts ==
  ASSUME NoticesType, UNCHANGED chat, NEW k, NEW s, NEW m, NEW p
  PROVE  /\ UNCHANGED <<queue, work>> => Counted(k, s, m, p)' = Counted(k, s, m, p)
         /\ Restart => Counted(k, s, m, p)' <= Counted(k, s, m, p)
         /\ SendTest => (k # "test" => Counted(k, s, m, p)' = Counted(k, s, m, p))
<1>0. /\ InChat(k, s, m, p) \in Nat /\ InWork(k, s, m, p) \in {0, 1} /\ Copies(queue, k, s, m, p) \in Nat
      /\ InChat(k, s, m, p)' = InChat(k, s, m, p)
  BY CountsAreNumbers DEF InChat
<1>1. ASSUME UNCHANGED <<queue, work>> PROVE Counted(k, s, m, p)' = Counted(k, s, m, p)
  BY <1>0, <1>1 DEF Counted, InWork
<1>2. ASSUME Restart PROVE Counted(k, s, m, p)' <= Counted(k, s, m, p)
  <2>1. work' = Idle /\ queue' = <<>>
    BY <1>2 DEF Restart
  <2>2. InWork(k, s, m, p)' = 0
    BY <2>1 DEF InWork
  <2>3. Copies(queue', k, s, m, p) = 0
    <3>1. Places(queue', k, s, m, p) = {}
      BY <2>1 DEF Places
    <3> QED BY <3>1, FS_EmptySet DEF Copies
  <2> QED BY <1>0, <2>2, <2>3 DEF Counted
<1>3. ASSUME SendTest, k # "test" PROVE Counted(k, s, m, p)' = Counted(k, s, m, p)
  <2> DEFINE ev == [kind |-> "test", entries |-> {}]
  <2>1. ev \in Events /\ queue' = Append(queue, ev) /\ ~Holds(ev, k, s, m, p)
    BY <1>3, SendTestDoes DEF Holds
  <2> HIDE DEF ev
  <2>2. Copies(queue', k, s, m, p) = Copies(queue, k, s, m, p)
    BY <1>0, <2>1, OneMore DEF NoticesType
  <2>3. InWork(k, s, m, p)' = InWork(k, s, m, p)
    BY <1>3 DEF SendTest, InWork
  <2> QED BY <1>0, <2>2, <2>3 DEF Counted
<1> QED BY <1>1, <1>2, <1>3

\* A sweep adds what its events hold, at most.
LEMMA SweptCounts ==
  ASSUME NoticesType, NEW k, NEW s, NEW m, NEW p
  PROVE  /\ \A swept, graceOver \in SUBSET Servers : SweepOnline(swept, graceOver) =>
              Counted(k, s, m, p)' <= Counted(k, s, m, p)
                + (IF Holds(OfflineEvent(swept, graceOver), k, s, m, p) THEN 1 ELSE 0)
                + (IF Holds(RecoveryEvent(swept), k, s, m, p) THEN 1 ELSE 0)
         /\ \A swept \in SUBSET Servers : SweepTraffic(swept) =>
              Counted(k, s, m, p)' <= Counted(k, s, m, p)
                + (IF Holds(TrafficEvent(swept), k, s, m, p) THEN 1 ELSE 0)
<1>0. /\ InChat(k, s, m, p) \in Nat /\ InWork(k, s, m, p) \in {0, 1} /\ Copies(queue, k, s, m, p) \in Nat
      /\ queue \in Seq(Events)
  BY CountsAreNumbers DEF NoticesType
<1>1. ASSUME UNCHANGED <<chat, work>>
      PROVE  InChat(k, s, m, p)' = InChat(k, s, m, p) /\ InWork(k, s, m, p)' = InWork(k, s, m, p)
  BY <1>1 DEF InChat, InWork
<1>2. ASSUME NEW swept \in SUBSET Servers, NEW graceOver \in SUBSET Servers, SweepOnline(swept, graceOver)
      PROVE  Counted(k, s, m, p)' <= Counted(k, s, m, p)
                + (IF Holds(OfflineEvent(swept, graceOver), k, s, m, p) THEN 1 ELSE 0)
                + (IF Holds(RecoveryEvent(swept), k, s, m, p) THEN 1 ELSE 0)
  <2> DEFINE off == OfflineEvent(swept, graceOver)  rec == RecoveryEvent(swept)  names == Announced(swept, graceOver)
  <2>1. off \in Events /\ rec \in Events /\ Grows(off, rec, names) /\ UNCHANGED <<chat, work>>
    BY <1>2, SweptEvents, SweepOnlineDoes
  <2> HIDE DEF off, rec, names
  <2>2. Append(queue, off) \in Seq(Events)
    BY <1>0, <2>1, AtTheEnd
  <2> DEFINE o == IF Holds(off, k, s, m, p) THEN 1 ELSE 0  r == IF Holds(rec, k, s, m, p) THEN 1 ELSE 0
             q == Append(queue, off)  q2 == Append(queue, rec)  q3 == Append(q, rec)
  <2>3. Copies(q, k, s, m, p) = Copies(queue, k, s, m, p) + o
    BY <1>0, <2>1, OneMore
  <2>4. Copies(q2, k, s, m, p) = Copies(queue, k, s, m, p) + r
    BY <1>0, <2>1, OneMore
  <2>5. Copies(q3, k, s, m, p) = Copies(q, k, s, m, p) + r
    <3>1. q \in Seq(Events)
      BY <2>2
    <3> HIDE DEF q
    <3> QED BY <2>1, <3>1, OneMore
  <2>6. o \in {0, 1} /\ r \in {0, 1}
    OBVIOUS
  <2>7. queue' = queue \/ queue' = q \/ queue' = q2 \/ queue' = q3
    BY <2>1 DEF Grows
  <2> HIDE DEF q, q2, q3, o, r
  <2>8. Copies(queue', k, s, m, p) <= Copies(queue, k, s, m, p) + o + r
    BY <1>0, <2>3, <2>4, <2>5, <2>6, <2>7
  <2>9. Copies(queue', k, s, m, p) \in Nat
    BY <1>0, <2>3, <2>4, <2>5, <2>6, <2>7
  <2>10. InChat(k, s, m, p)' = InChat(k, s, m, p) /\ InWork(k, s, m, p)' = InWork(k, s, m, p)
    BY <1>1, <2>1
  <2>11. Counted(k, s, m, p)' <= Counted(k, s, m, p) + o + r
    BY <1>0, <2>6, <2>8, <2>9, <2>10 DEF Counted
  <2> QED BY <2>11 DEF o, r, off, rec
<1>3. ASSUME NEW swept \in SUBSET Servers, SweepTraffic(swept)
      PROVE  Counted(k, s, m, p)' <= Counted(k, s, m, p)
                + (IF Holds(TrafficEvent(swept), k, s, m, p) THEN 1 ELSE 0)
  <2>1. /\ TrafficEvent(swept) \in Events /\ (queue' = queue \/ queue' = Append(queue, TrafficEvent(swept)))
        /\ UNCHANGED <<chat, work>>
    BY <1>3, SweepTrafficDoes
  <2> DEFINE ev == TrafficEvent(swept)  o == IF Holds(ev, k, s, m, p) THEN 1 ELSE 0
             q == Append(queue, ev)
  <2>2. o \in {0, 1}
    OBVIOUS
  <2> HIDE DEF ev
  <2>3. Copies(q, k, s, m, p) = Copies(queue, k, s, m, p) + o
    BY <1>0, <2>1, OneMore DEF ev
  <2>4. queue' = queue \/ queue' = q
    BY <2>1 DEF ev
  <2> HIDE DEF o, q
  <2>5. Copies(queue', k, s, m, p) \in Nat /\ Copies(queue', k, s, m, p) <= Copies(queue, k, s, m, p) + o
    BY <1>0, <2>2, <2>3, <2>4
  <2>6. InChat(k, s, m, p)' = InChat(k, s, m, p) /\ InWork(k, s, m, p)' = InWork(k, s, m, p)
    BY <1>1, <2>1
  <2>7. Counted(k, s, m, p)' <= Counted(k, s, m, p) + o
    BY <1>0, <2>2, <2>5, <2>6 DEF Counted
  <2> QED BY <2>7 DEF o, ev
<1> QED BY <1>2, <1>3


\* An outage that has no number yet, or is still watched, was not announced; nor was
\* the recovery from an outage that lasts.
Fresh(k, s, m) == m > outages \/ m = firstAbsent[s] \/ (k = "recovery" /\ m = row[s].started)

OutageCount ==
  \A k \in {"offline", "recovery"}, s \in Servers, m \in Nat \ {0} :
    <<k, s, m, 0>> \notin doubt => Counted(k, s, m, 0) <= IF Fresh(k, s, m) THEN 0 ELSE 1

LEMMA NextOutageCount ==
  ASSUME NoticesType, WorkInv, WatchInv, OutageCount, [NotificationNext]_notificationVars
  PROVE  OutageCount'
<1> SUFFICES ASSUME NEW k \in {"offline", "recovery"}, NEW s \in Servers, NEW m \in Nat \ {0}, <<k, s, m, 0>> \notin doubt'
             PROVE  Counted(k, s, m, 0)' <= IF Fresh(k, s, m)' THEN 0 ELSE 1
  BY DEF OutageCount
<1> DEFINE old == Counted(k, s, m, 0)  new == Counted(k, s, m, 0)'
<1>0. old \in Nat /\ new \in Nat
  <2>1. NoticesType'
    BY NextNoticesType
  <2>2. \A r : InChat(k, s, m, r)' \in Nat
    BY <2>1 DEF NoticesType, InChat
  <2>3. \A r : InWork(k, s, m, r)' \in Nat
    BY DEF InWork
  <2>4. \A r : Copies(queue', k, s, m, r) \in Nat
    BY <2>1, CountedInQueue DEF NoticesType
  <2> QED BY <2>2, <2>3, <2>4, CountsAreNumbers DEF Counted
<1>1. <<k, s, m, 0>> \notin doubt => old <= IF Fresh(k, s, m) THEN 0 ELSE 1
  BY DEF OutageCount
<1>2. outages \in Nat /\ firstAbsent[s] \in Nat /\ row[s].started \in Nat
  BY DEF NoticesType, NoticeRow
<1>3. firstAbsent[s] <= outages /\ row[s].started <= outages /\ (firstAbsent[s] = 0 \/ row[s].started = 0)
  BY DEF WatchInv
<1> HIDE DEF old, new
<1>4. ASSUME <<k, s, m, 0>> \notin doubt, new <= old, outages' = outages,
             firstAbsent'[s] = firstAbsent[s] \/ firstAbsent'[s] = 0, row'[s].started = row[s].started
      PROVE  new <= IF Fresh(k, s, m)' THEN 0 ELSE 1
  BY <1>0, <1>1, <1>2, <1>4 DEF Fresh
<1>5. CASE UNCHANGED notificationVars
  <2>1. UNCHANGED <<row, firstAbsent, queue, work, outages, chat, doubt>>
    BY <1>5 DEF notificationVars
  <2>2. new = old
    BY <2>1, QuietCounts DEF new, old
  <2> QED BY <1>0, <1>4, <2>1, <2>2 DEF new
<1>6. CASE Outside
  <2>1. UNCHANGED <<row, firstAbsent, queue, work, outages, chat, doubt>>
    BY <1>6, OutsideDoes DEF memory
  <2>2. new = old
    BY <2>1, QuietCounts DEF new, old
  <2> QED BY <1>0, <1>4, <2>1, <2>2 DEF new
<1>7. ASSUME NEW swept \in SUBSET Servers, NEW graceOver \in SUBSET Servers, SweepOnline(swept, graceOver)
      PROVE  new <= IF Fresh(k, s, m)' THEN 0 ELSE 1
  <2> DEFINE names == Announced(swept, graceOver)  back == Recovering(swept)
             o == IF Holds(OfflineEvent(swept, graceOver), k, s, m, 0) THEN 1 ELSE 0
             r == IF Holds(RecoveryEvent(swept), k, s, m, 0) THEN 1 ELSE 0
  <2>1. new <= old + o + r
    BY <1>7, SweptCounts DEF new, old
  <2>2. /\ o = IF k = "offline" /\ s \in names /\ m = firstAbsent[s] THEN 1 ELSE 0
        /\ r = IF k = "recovery" /\ s \in back /\ m = row[s].started THEN 1 ELSE 0
    BY SweptHold
  <2>3. <<k, s, m, 0>> \notin doubt
    BY <1>7, SweepOnlineDoes
  <2>4. \/ s \in names /\ row[s].started = 0 /\ row'[s].started = firstAbsent[s] /\ firstAbsent'[s] = 0
        \/ s \notin names /\ s \in Cleared(swept) /\ row'[s].started = 0
        \/ s \notin names /\ s \notin Cleared(swept) /\ row'[s] = row[s]
    BY <1>7, SweptServer
  <2>5. /\ \/ firstAbsent'[s] = outages + 1 /\ firstAbsent[s] = 0
           \/ firstAbsent'[s] = 0
           \/ firstAbsent'[s] = firstAbsent[s]
        /\ outages' \in {outages, outages + 1}
    BY <1>7, SweptServer
  <2>6. s \in back => s \in Cleared(swept)
    BY DEF Recovering, Cleared
  <2> HIDE DEF names, back, o, r
  <2>7. CASE o = 1 \/ r = 1
    BY <1>0, <1>1, <1>2, <1>3, <2>1, <2>2, <2>3, <2>4, <2>5, <2>6, <2>7 DEF Fresh
  <2>8. CASE o = 0 /\ r = 0
    BY <1>0, <1>1, <1>2, <1>3, <2>1, <2>3, <2>4, <2>5, <2>8 DEF Fresh
  <2> QED BY <2>2, <2>7, <2>8
<1>8. ASSUME NEW swept \in SUBSET Servers, SweepTraffic(swept)
      PROVE  new <= IF Fresh(k, s, m)' THEN 0 ELSE 1
  <2>1. ~Holds(TrafficEvent(swept), k, s, m, 0)
    BY SweptHold
  <2>2. new <= old
    <3>1. new <= old + (IF Holds(TrafficEvent(swept), k, s, m, 0) THEN 1 ELSE 0)
      BY <1>8, SweptCounts DEF new, old
    <3> QED BY <1>0, <2>1, <3>1
  <2>3. row'[s].started = row[s].started
    <3>1. row' = [t \in Servers |-> IF t \in swept \cap eligible
                                   THEN [row[t] EXCEPT !.cycle = cycle[t], !.step = LastStep(t)] ELSE row[t]]
      BY <1>8, SweepTrafficDoes
    <3>2. row[s] \in NoticeRow
      BY DEF NoticesType
    <3> QED BY <3>1, <3>2 DEF NoticeRow
  <2>4. UNCHANGED <<firstAbsent, outages, doubt>>
    BY <1>8, SweepTrafficDoes
  <2> QED BY <1>4, <2>2, <2>3, <2>4
<1>9. CASE Deliver
  <2>1. <<k, s, m, 0>> \notin doubt /\ new <= old
    BY <1>9, DeliverCounts DEF new, old
  <2>2. row'[s].started = row[s].started /\ UNCHANGED <<firstAbsent, outages>>
    BY <1>9, FinishDoes DEF Deliver, TakeEvent, Check, Send
  <2> QED BY <1>4, <2>1, <2>2 DEF new
<1>10. CASE SendTest
  <2>1. UNCHANGED <<row, firstAbsent, outages, chat, doubt>>
    BY <1>10 DEF SendTest
  <2>2. new = old
    BY <1>10, <2>1, QuietCounts DEF new, old
  <2> QED BY <1>0, <1>4, <2>1, <2>2 DEF new
<1>11. CASE Restart
  <2>1. UNCHANGED <<row, outages, chat, doubt>> /\ firstAbsent'[s] = 0
    BY <1>11 DEF Restart
  <2>2. new <= old
    BY <1>11, <2>1, QuietCounts DEF new, old
  <2> QED BY <1>4, <2>1, <2>2 DEF new
<1> QED BY <1>5, <1>6, <1>7, <1>8, <1>9, <1>10, <1>11 DEF NotificationNext, Outside, Sweeps, new

\* A step of the traffic may be announced again: the row does not hold it back.
Again(s, c, p) ==
  cycle[s] = c /\ (row[s].cycle # c \/ row[s].step < p \/ TrafficStep(used[s], settings) = 0)

TrafficBudget(s, c, p) == begins[s][c] - (IF Again(s, c, p) THEN 1 ELSE 0)

TrafficCount ==
  \A s \in Servers, c \in 1..MaxCycle, p \in Nat \ {0} :
    <<"traffic", s, c, p>> \notin doubt => Counted("traffic", s, c, p) <= TrafficBudget(s, c, p)

\* What happens to the Servers gives a step back only with a cycle that begins.
LEMMA OutsideBudget ==
  ASSUME NoticesType, Outside, NEW s \in Servers, NEW c \in 1..MaxCycle, NEW p \in Nat
  PROVE  TrafficBudget(s, c, p) <= TrafficBudget(s, c, p)'
<1>0. begins[s] \in [1..MaxCycle -> Nat] /\ begins[s][c] \in Nat /\ cycle[s] \in 1..MaxCycle
  BY DEF NoticesType
<1>1. row' = row
  BY OutsideDoes
<1>2. ASSUME NEW x \in Servers, Connect(x) \/ Disconnect(x) \/ Leave(x)
      PROVE  TrafficBudget(s, c, p) <= TrafficBudget(s, c, p)'
  <2>1. UNCHANGED <<cycle, row, used, settings, begins>>
    BY <1>2 DEF Connect, Disconnect, Leave
  <2>2. TrafficBudget(s, c, p)' = TrafficBudget(s, c, p)
    BY <2>1 DEF TrafficBudget, Again
  <2>3. TrafficBudget(s, c, p) \in Int
    BY <1>0 DEF TrafficBudget
  <2> QED BY <2>2, <2>3
<1>3. ASSUME NEW n, NEW set, begins'[s] = Rearm(s, n, set), cycle' = cycle, used'[s] = n, settings' = set
      PROVE  TrafficBudget(s, c, p) <= TrafficBudget(s, c, p)'
  <2> DEFINE was == TrafficStep(used[s], settings)  now == TrafficStep(n, set)
  <2>1. begins'[s][c] = IF was # 0 /\ now = 0 /\ cycle[s] = c THEN begins[s][c] + 1 ELSE begins[s][c]
    BY <1>0, <1>3 DEF Rearm
  <2>2. Again(s, c, p)' <=> cycle[s] = c /\ (row[s].cycle # c \/ row[s].step < p \/ now = 0)
    BY <1>1, <1>3 DEF Again
  <2>3. Again(s, c, p) <=> cycle[s] = c /\ (row[s].cycle # c \/ row[s].step < p \/ was = 0)
    BY DEF Again
  <2> HIDE DEF was, now
  <2> QED BY <1>0, <2>1, <2>2, <2>3 DEF TrafficBudget
<1>4. ASSUME begins'[s] = begins[s], cycle'[s] = cycle[s], used'[s] = used[s], settings' = settings
      PROVE  TrafficBudget(s, c, p) <= TrafficBudget(s, c, p)'
  <2>1. Again(s, c, p)' <=> Again(s, c, p)
    BY <1>1, <1>4 DEF Again
  <2> QED BY <1>0, <1>4, <2>1 DEF TrafficBudget
<1>5. ASSUME NEW x \in Servers, NEW n \in 0..Limit, Traffic(x, n)
      PROVE  TrafficBudget(s, c, p) <= TrafficBudget(s, c, p)'
  <2>1. /\ used' = [used EXCEPT ![x] = n] /\ begins' = [begins EXCEPT ![x] = Rearm(x, n, settings)]
        /\ UNCHANGED <<settings, cycle>>
    BY <1>5 DEF Traffic
  <2>2. CASE x = s
    <3>1. used'[s] = n /\ begins'[s] = Rearm(s, n, settings)
      BY <2>1, <2>2 DEF NoticesType
    <3> QED BY <1>3, <2>1, <3>1
  <2>3. CASE x # s
    <3>1. used'[s] = used[s] /\ begins'[s] = begins[s]
      BY <2>1, <2>3 DEF NoticesType
    <3> QED BY <1>4, <2>1, <3>1
  <2> QED BY <2>2, <2>3
<1>6. ASSUME NEW x \in Servers, NEW d \in 1..MaxCycle, Turn(x, d)
      PROVE  TrafficBudget(s, c, p) <= TrafficBudget(s, c, p)'
  <2>1. /\ cycle' = [cycle EXCEPT ![x] = d] /\ used' = [used EXCEPT ![x] = 0] /\ settings' = settings
        /\ begins' = [begins EXCEPT ![x] = [begins[x] EXCEPT ![d] = @ + 1]]
    BY <1>6 DEF Turn
  <2>2. CASE x = s
    <3>1. cycle'[s] = d /\ begins'[s][c] = IF c = d THEN begins[s][c] + 1 ELSE begins[s][c]
      BY <1>0, <2>1, <2>2 DEF NoticesType
    <3>2. Again(s, c, p)' => c = d
      BY <3>1 DEF Again
    <3> QED BY <1>0, <3>1, <3>2 DEF TrafficBudget
  <2>3. CASE x # s
    <3>1. cycle'[s] = cycle[s] /\ used'[s] = used[s] /\ begins'[s] = begins[s]
      BY <2>1, <2>3 DEF NoticesType
    <3> QED BY <1>4, <2>1, <3>1
  <2> QED BY <2>2, <2>3
<1>7. ASSUME NEW choice \in SettingsChoices, Save(choice)
      PROVE  TrafficBudget(s, c, p) <= TrafficBudget(s, c, p)'
  BY <1>3, <1>7 DEF Save
<1> QED BY <1>2, <1>5, <1>6, <1>7 DEF Outside, ConnectionEvents, TrafficEvents

LEMMA NextTrafficCount ==
  ASSUME NoticesType, WorkInv, TrafficCount, [NotificationNext]_notificationVars
  PROVE  TrafficCount'
<1> SUFFICES ASSUME NEW s \in Servers, NEW c \in 1..MaxCycle, NEW p \in Nat \ {0}, <<"traffic", s, c, p>> \notin doubt'
             PROVE  Counted("traffic", s, c, p)' <= TrafficBudget(s, c, p)'
  BY DEF TrafficCount
<1> DEFINE old == Counted("traffic", s, c, p)  new == Counted("traffic", s, c, p)'
           had == TrafficBudget(s, c, p)  has == TrafficBudget(s, c, p)'
<1>0. old \in Nat /\ new \in Nat /\ had \in Int /\ has \in Int
  <2>1. NoticesType'
    BY NextNoticesType
  <2>2. \A k : InChat(k, s, c, p)' \in Nat
    BY <2>1 DEF NoticesType, InChat
  <2>3. \A k : InWork(k, s, c, p)' \in Nat
    BY DEF InWork
  <2>4. \A k : Copies(queue', k, s, c, p) \in Nat
    BY <2>1, CountedInQueue DEF NoticesType
  <2>5. begins[s][c] \in Nat /\ begins'[s][c] \in Nat
    <3>1. begins[s] \in [1..MaxCycle -> Nat] /\ begins'[s] \in [1..MaxCycle -> Nat]
      BY <2>1 DEF NoticesType
    <3> QED BY <3>1
  <2>6. old \in Nat /\ new \in Nat
    BY <2>2, <2>3, <2>4, CountsAreNumbers DEF Counted
  <2> QED BY <2>5, <2>6 DEF TrafficBudget
<1>1. <<"traffic", s, c, p>> \notin doubt => old <= had
  BY DEF TrafficCount
<1>2. ASSUME UNCHANGED <<settings, used, cycle, begins>>, row'[s].cycle = row[s].cycle, row'[s].step = row[s].step
      PROVE  has = had
  BY <1>2 DEF TrafficBudget, Again
<1> HIDE DEF old, new, had, has
<1>4. ASSUME <<"traffic", s, c, p>> \notin doubt, new <= old, had <= has PROVE new <= has
  BY <1>0, <1>1, <1>4
<1>5. CASE UNCHANGED notificationVars
  <2>1. UNCHANGED <<settings, used, cycle, begins, row, queue, work, chat, doubt>>
    BY <1>5 DEF notificationVars
  <2>2. new = old
    BY <2>1, QuietCounts DEF new, old
  <2> QED BY <1>0, <1>2, <1>4, <2>1, <2>2 DEF new, has
<1>6. CASE Outside
  <2>1. UNCHANGED <<queue, work, chat, doubt>>
    BY <1>6, OutsideDoes DEF memory
  <2>2. new = old
    BY <2>1, QuietCounts DEF new, old
  <2>3. had <= has
    BY <1>6, OutsideBudget DEF had, has
  <2> QED BY <1>0, <1>4, <2>1, <2>2, <2>3 DEF new, has
<1>7. ASSUME NEW swept \in SUBSET Servers, NEW graceOver \in SUBSET Servers, SweepOnline(swept, graceOver)
      PROVE  new <= has
  <2>1. ~Holds(OfflineEvent(swept, graceOver), "traffic", s, c, p) /\ ~Holds(RecoveryEvent(swept), "traffic", s, c, p)
    BY SweptHold
  <2>2. new <= old
    <3>1. new <= old + (IF Holds(OfflineEvent(swept, graceOver), "traffic", s, c, p) THEN 1 ELSE 0)
                     + (IF Holds(RecoveryEvent(swept), "traffic", s, c, p) THEN 1 ELSE 0)
      BY <1>7, SweptCounts DEF new, old
    <3> QED BY <1>0, <2>1, <3>1
  <2>3. row'[s].cycle = row[s].cycle /\ row'[s].step = row[s].step
    BY <1>7, SweptServer
  <2>4. UNCHANGED <<settings, used, cycle, begins, doubt>>
    BY <1>7, SweepOnlineDoes DEF environment
  <2> QED BY <1>0, <1>2, <1>4, <2>2, <2>3, <2>4
<1>8. ASSUME NEW swept \in SUBSET Servers, SweepTraffic(swept) PROVE new <= has
  <2> DEFINE now == TrafficStep(used[s], settings)
             o == IF Holds(TrafficEvent(swept), "traffic", s, c, p) THEN 1 ELSE 0
  <2>1. new <= old + o
    BY <1>8, SweptCounts DEF new, old
  <2>2. o = IF s \in Risen(swept) /\ c = cycle[s] /\ p = now THEN 1 ELSE 0
    BY SweptHold
  <2>3. UNCHANGED <<settings, used, cycle, begins, doubt>>
    BY <1>8, SweepTrafficDoes DEF environment
  <2>4. /\ now \in Nat /\ LastStep(s) \in Nat /\ LastStep(s) >= now
        /\ row[s].cycle = cycle[s] /\ now # 0 => LastStep(s) >= row[s].step
        /\ s \in Risen(swept) => now # 0 /\ (row[s].cycle = cycle[s] => row[s].step < now)
    BY LastSteps DEF Risen
  <2>5. s \in swept \cap eligible => row'[s].cycle = cycle[s] /\ row'[s].step = LastStep(s)
    <3>1. row' = [t \in Servers |-> IF t \in swept \cap eligible
                                   THEN [row[t] EXCEPT !.cycle = cycle[t], !.step = LastStep(t)] ELSE row[t]]
      BY <1>8, SweepTrafficDoes
    <3>2. row[s] \in NoticeRow
      BY DEF NoticesType
    <3> QED BY <3>1, <3>2 DEF NoticeRow
  <2>6. s \notin swept \cap eligible => row'[s] = row[s]
    BY <1>8, SweepTrafficDoes
  <2>7. begins[s][c] \in Nat /\ row[s].step \in Nat
    BY DEF NoticesType, NoticeRow
  <2>8. s \in Risen(swept) => s \in swept \cap eligible
    BY DEF Risen
  <2>9. Again(s, c, p) <=> cycle[s] = c /\ (row[s].cycle # c \/ row[s].step < p \/ now = 0)
    BY DEF Again
  <2>10. Again(s, c, p)' <=> cycle[s] = c /\ (row'[s].cycle # c \/ row'[s].step < p \/ now = 0)
    BY <2>3 DEF Again
  <2>11. /\ had = begins[s][c] - (IF Again(s, c, p) THEN 1 ELSE 0)
         /\ has = begins[s][c] - (IF Again(s, c, p)' THEN 1 ELSE 0)
    BY <2>3 DEF had, has, TrafficBudget
  <2> HIDE DEF now, o
  <2>12. CASE o = 1
    <3>1. Again(s, c, p) /\ ~Again(s, c, p)'
      BY <2>2, <2>4, <2>5, <2>8, <2>9, <2>10, <2>12
    <3> QED BY <1>0, <1>1, <2>1, <2>3, <2>7, <2>11, <2>12, <3>1
  <2>13. CASE o = 0
    <3>1. Again(s, c, p)' => Again(s, c, p)
      BY <2>4, <2>5, <2>6, <2>7, <2>9, <2>10
    <3> QED BY <1>0, <1>1, <2>1, <2>3, <2>7, <2>11, <2>13, <3>1
  <2> QED BY <2>2, <2>12, <2>13
<1>9. CASE Deliver
  <2>1. <<"traffic", s, c, p>> \notin doubt /\ new <= old
    BY <1>9, DeliverCounts DEF new, old
  <2>2. row'[s].cycle = row[s].cycle /\ row'[s].step = row[s].step /\ UNCHANGED <<settings, used, cycle, begins>>
    BY <1>9, FinishDoes DEF Deliver, TakeEvent, Check, Send, environment
  <2> QED BY <1>0, <1>2, <1>4, <2>1, <2>2 DEF new, has
<1>10. CASE SendTest
  <2>1. UNCHANGED <<settings, used, cycle, begins, row, chat, doubt>>
    BY <1>10 DEF SendTest, environment
  <2>2. new = old
    BY <1>10, <2>1, QuietCounts DEF new, old
  <2> QED BY <1>0, <1>2, <1>4, <2>1, <2>2 DEF new, has
<1>11. CASE Restart
  <2>1. UNCHANGED <<settings, used, cycle, begins, row, chat, doubt>>
    BY <1>11 DEF Restart
  <2>2. new <= old
    BY <1>11, <2>1, QuietCounts DEF new, old
  <2> QED BY <1>0, <1>2, <1>4, <2>1, <2>2 DEF new, has
<1> QED BY <1>5, <1>6, <1>7, <1>8, <1>9, <1>10, <1>11 DEF NotificationNext, Outside, Sweeps, new, has


-----------------------------------------------------------------------------
(* The theorems.                                                           *)

NotificationInv ==
  NoticesType /\ WorkInv /\ WatchInv /\ FollowInv /\ MarksInv /\ OfflineInv /\ OutageCount /\ TrafficCount

LEMMA InitNotifications == NotificationInit => NotificationInv
<1> SUFFICES ASSUME NotificationInit PROVE NotificationInv
  OBVIOUS
<1>1. NoticesType
  BY InitNoticesType
<1>2. /\ eligible = Servers /\ queue = <<>> /\ work = Idle /\ DOMAIN chat = {} /\ outages = 0
      /\ pendingOffline = {} /\ test = "none"
  BY DEF NotificationInit
<1>3. DOMAIN queue = {} /\ Waiting = {}
  BY <1>2 DEF Waiting, Queued
<1>4. \A s \in Servers : row[s].started = 0 /\ row[s].cycle = 0 /\ firstAbsent[s] = 0 /\ cycle[s] = 1
  BY DEF NotificationInit
<1>5. WorkInv /\ WatchInv /\ MarksInv
  BY <1>2, <1>4 DEF WorkInv, WatchInv, MarksInv
<1>6. FollowInv
  BY <1>2, <1>3, <1>4 DEF FollowInv, RecoveryFollowsNotice
<1>7. OfflineInv
  BY <1>2, <1>3, <1>4 DEF OfflineInv, OneEvent, Unheard, Recorded, Told
<1>8. ASSUME NEW k, NEW s, NEW m, NEW p PROVE Counted(k, s, m, p) = 0
  <2>1. Places(queue, k, s, m, p) = {}
    BY <1>3 DEF Places
  <2>2. Copies(queue, k, s, m, p) = 0
    BY <2>1, FS_EmptySet DEF Copies
  <2> QED BY <1>2, <2>2 DEF Counted, InChat, InWork
<1>9. OutageCount
  BY <1>8 DEF OutageCount
<1>10. TrafficCount
  <2> SUFFICES ASSUME NEW s \in Servers, NEW c \in 1..MaxCycle, NEW p \in Nat \ {0} PROVE 0 <= TrafficBudget(s, c, p)
    BY <1>8 DEF TrafficCount
  <2>1. begins[s][c] = IF c = 1 THEN 1 ELSE 0
    BY DEF NotificationInit
  <2>2. Again(s, c, p) => c = 1
    BY <1>4 DEF Again
  <2> QED BY <2>1, <2>2 DEF TrafficBudget
<1> QED BY <1>1, <1>5, <1>6, <1>7, <1>9, <1>10 DEF NotificationInv

LEMMA NotificationsInvariant == NotificationSpec => []NotificationInv
<1>1. NotificationInit => NotificationInv
  BY InitNotifications
<1>2. NotificationInv /\ [NotificationNext]_notificationVars => NotificationInv'
  BY NextNoticesType, NextWatch, NextFollow, NextMarks, NextOffline, NextOutageCount, NextTrafficCount
     DEF NotificationInv
<1> QED BY <1>1, <1>2, PTL DEF NotificationSpec

\* What was counted is what the chat shows.
LEMMA CountsAreShown == NoticesType /\ OutageCount /\ TrafficCount => NoticesAreNotRepeated
<1> SUFFICES ASSUME NoticesType, OutageCount, TrafficCount, NEW n \in DOMAIN chat \ doubt
             PROVE  chat[n] <= IF n[1] = "traffic" THEN begins[n[2]][n[3]] ELSE 1
  BY DEF NoticesAreNotRepeated
<1>1. n \in OutageNotices \cup TrafficNotices
  BY DEF NoticesType
<1>2. n = <<n[1], n[2], n[3], n[4]>>
  BY <1>1 DEF OutageNotices, TrafficNotices
<1> DEFINE k == n[1]  s == n[2]  m == n[3]  p == n[4]
<1>3. chat[n] = InChat(k, s, m, p) /\ <<k, s, m, p>> \notin doubt
  BY <1>2 DEF InChat
<1>4. InChat(k, s, m, p) \in Nat /\ Counted(k, s, m, p) \in Nat /\ InChat(k, s, m, p) <= Counted(k, s, m, p)
  BY CountsAreNumbers DEF Counted
<1>5. CASE n \in OutageNotices
  <2>1. k \in {"offline", "recovery"} /\ s \in Servers /\ m \in Nat \ {0} /\ p = 0
    BY <1>5 DEF OutageNotices
  <2> HIDE DEF k, s, m, p
  <2>2. Counted(k, s, m, p) <= 1
    <3>1. Counted(k, s, m, 0) <= IF Fresh(k, s, m) THEN 0 ELSE 1
      BY <1>3, <2>1 DEF OutageCount
    <3> QED BY <1>4, <2>1, <3>1
  <2>3. n[1] # "traffic"
    BY <2>1 DEF k
  <2> QED BY <1>3, <1>4, <2>2, <2>3
<1>6. CASE n \in TrafficNotices
  <2>1. k = "traffic" /\ s \in Servers /\ m \in 1..MaxCycle /\ p \in Nat \ {0}
    BY <1>6 DEF TrafficNotices
  <2>2. begins[s][m] \in Nat
    <3>1. begins[s] \in [1..MaxCycle -> Nat]
      BY <2>1 DEF NoticesType
    <3> QED BY <2>1, <3>1
  <2>3. Counted(k, s, m, p) <= begins[s][m]
    <3> HIDE DEF k, s, m, p
    <3>1. Counted("traffic", s, m, p) <= TrafficBudget(s, m, p)
      BY <1>3, <2>1 DEF TrafficCount
    <3> QED BY <1>4, <2>1, <2>2, <3>1 DEF TrafficBudget
  <2> QED BY <1>3, <1>4, <2>1, <2>2, <2>3
<1> QED BY <1>1, <1>5, <1>6

\* In every run, with any number of Servers, a recovery in the chat follows its offline
\* notice, no notice is repeated unless an answer of Telegram was lost, and whatever
\* holds back the next notice has its event on the way (sweepOnline, sweepTraffic,
\* enqueue and deliver).
THEOREM NoticesDue == NotificationSpec => []NoticesAreDue
<1>1. NotificationInv => NoticesAreDue
  BY CountsAreShown, MarksAreThere DEF NotificationInv, FollowInv, NoticesAreDue
<1> QED BY <1>1, NotificationsInvariant, PTL

\* A sweep that closes an outage the chat was told of finds it recorded: its notice is
\* neither queued nor in hand.
LEMMA ClosedIsRecorded ==
  ASSUME NotificationInv, NEW swept, NEW s \in eligible, s \in Back(swept),
         <<"offline", s, row[s].started, 0>> \in DOMAIN chat \ unrecorded
  PROVE  row[s].notified
<1>1. s \notin pendingOffline /\ row[s].started # 0
  BY DEF Back
<1>2. OneEvent(s) /\ Recorded(s)
  BY DEF NotificationInv, OfflineInv
<1>3. ~Delivered(s)
  <2> SUFFICES ASSUME Delivered(s) PROVE FALSE
    OBVIOUS
  <2>1. work # Idle /\ work.item.kind = "offline" /\ Entry(s, row[s].started, 0) \in work.item.entries
    BY DEF Delivered, NotificationInv, WorkInv
  <2>2. work.item \in Waiting /\ Holds(work.item, "offline", s, row[s].started, 0)
    BY <2>1 DEF Waiting, Holds
  <2> QED BY <1>1, <1>2, <2>2 DEF OneEvent
<1> QED BY <1>1, <1>2, <1>3 DEF Recorded

\* A recovery that a sweep has to announce is queued, unless the queue is full or the
\* offline notices of the sweep take its last place.
LEMMA RecoveryGoesIn ==
  ASSUME NoticesType, NEW swept \in SUBSET Servers, NEW graceOver, SweepOnline(swept, graceOver),
         Recovering(swept) # {}, Len(queue) < QueueSize
  PROVE  \/ RecoveryEvent(swept) \in Queued(queue')
         \/ Len(queue) + 1 = QueueSize /\ Len(queue') = QueueSize /\ queue'[QueueSize].kind = "offline"
<1> DEFINE off == OfflineEvent(swept, graceOver)  rec == RecoveryEvent(swept)
<1>1. off \in Events /\ rec \in Events /\ queue \in Seq(Events) /\ QueueSize \in Nat /\ Len(queue) \in Nat
  <2>1. queue \in Seq(Events) /\ Len(queue) \in Nat
    BY DEF NoticesType
  <2>2. QueueSize \in Nat
    BY NotificationAssumption
  <2> QED BY <2>1, <2>2, SweptEvents
<1>2. rec.entries # {} /\ rec = [kind |-> "recovery", entries |-> rec.entries]
      /\ off.kind = "offline" /\ off = [kind |-> "offline", entries |-> off.entries]
  BY DEF RecoveryEvent, OfflineEvent
<1>3. IF off.entries = {} THEN Enqueue("recovery", rec.entries)
      ELSE IF rec.entries = {} \/ Len(queue) + 1 >= QueueSize THEN Enqueue("offline", off.entries)
      ELSE queue' = queue \o <<off, rec>>
  BY DEF SweepOnline, OfflineEvent, RecoveryEvent, Announced, Recovering
<1> HIDE DEF off, rec
<1>4. CASE off.entries = {}
  <2>1. queue' = Append(queue, rec)
    BY <1>1, <1>2, <1>3, <1>4 DEF Enqueue
  <2>2. Queued(Append(queue, rec)) = Queued(queue) \cup {rec}
    BY <1>1, AtTheEnd
  <2> QED BY <2>1, <2>2 DEF rec
<1>5. CASE off.entries # {} /\ Len(queue) + 1 >= QueueSize
  <2>1. queue' = Append(queue, off) /\ Len(queue) + 1 = QueueSize
    BY <1>1, <1>2, <1>3, <1>5 DEF Enqueue
  <2>2. Len(Append(queue, off)) = Len(queue) + 1 /\ Append(queue, off)[Len(queue) + 1] = off
    BY <1>1, AtTheEnd
  <2>3. Len(queue') = QueueSize /\ queue'[QueueSize] = off
    BY <2>1, <2>2
  <2> QED BY <1>2, <2>1, <2>3
<1>6. CASE off.entries # {} /\ ~(Len(queue) + 1 >= QueueSize)
  <2>1. queue' = queue \o <<off, rec>>
    BY <1>2, <1>3, <1>6
  <2> DEFINE q == Append(queue, off)
  <2>2. q \in Seq(Events) /\ queue' = Append(q, rec)
    BY <1>1, <2>1, AtTheEnd, TwoEvents
  <2> HIDE DEF q
  <2>3. Queued(Append(q, rec)) = Queued(q) \cup {rec}
    BY <1>1, <2>2, AtTheEnd
  <2> QED BY <2>2, <2>3 DEF rec
<1> QED BY <1>4, <1>5, <1>6

\* In every run, with any number of Servers, a sweep that closes an outage the chat was
\* told of offers the recovery, unless the queue has no place left for it or the Panel
\* never learned of the delivery (sweepOnline against deliver).
THEOREM RecoveriesAnnounced == NotificationSpec => RecoveryIsAnnounced
<1> DEFINE Closes(s) ==
             /\ row[s].started # 0 /\ row'[s].started = 0 /\ settings.online /\ settings.recovery
             /\ Len(queue) < QueueSize /\ <<"offline", s, row[s].started, 0>> \in DOMAIN chat \ unrecorded
           Offered(s) ==
             \/ \E i \in DOMAIN queue' : queue'[i].kind = "recovery" /\ Entry(s, row[s].started, 0) \in queue'[i].entries
             \/ Len(queue) + 1 = QueueSize /\ Len(queue') = QueueSize /\ queue'[QueueSize].kind = "offline"
           Step == \A s \in eligible : Closes(s) => Offered(s)
<1>1. ASSUME NotificationInv, [NotificationNext]_notificationVars PROVE Step
  <2> SUFFICES ASSUME NEW s \in eligible, Closes(s) PROVE Offered(s)
    OBVIOUS
  <2>0. NoticesType /\ WorkInv /\ s \in Servers
    BY <1>1 DEF NotificationInv, NoticesType
  <2>1. ASSUME row'[s].started = row[s].started PROVE FALSE
    BY <2>1
  <2>2. ASSUME NEW swept \in SUBSET Servers, NEW graceOver \in SUBSET Servers, SweepOnline(swept, graceOver)
        PROVE  Offered(s)
    <3>1. s \in Back(swept)
      <4>1. s \in Cleared(swept)
        BY <2>0, <2>2, SweptServer
      <4> QED BY <4>1 DEF Cleared
    <3>2. row[s].notified
      BY <1>1, <3>1, ClosedIsRecorded
    <3>3. s \in Recovering(swept)
      BY <3>1, <3>2 DEF Recovering
    <3>4. \/ RecoveryEvent(swept) \in Queued(queue')
          \/ Len(queue) + 1 = QueueSize /\ Len(queue') = QueueSize /\ queue'[QueueSize].kind = "offline"
      BY <2>0, <2>2, <3>3, RecoveryGoesIn
    <3>5. Holds(RecoveryEvent(swept), "recovery", s, row[s].started, 0)
      BY <3>3, SweptHold
    <3> QED BY <3>4, <3>5 DEF Queued, Holds
  <2>3. ASSUME NEW swept \in SUBSET Servers, SweepTraffic(swept) PROVE FALSE
    <3>1. row' = [t \in Servers |-> IF t \in swept \cap eligible
                                   THEN [row[t] EXCEPT !.cycle = cycle[t], !.step = LastStep(t)] ELSE row[t]]
      BY <2>0, <2>3, SweepTrafficDoes
    <3>2. row[s] \in NoticeRow
      BY <2>0 DEF NoticesType
    <3>3. row'[s].started = row[s].started
      BY <2>0, <3>1, <3>2 DEF NoticeRow
    <3> QED BY <2>1, <3>3
  <2>4. ASSUME NEW written, Finish(written) PROVE FALSE
    BY <2>0, <2>1, <2>4, FinishDoes
  <2>5. CASE Outside
    BY <2>0, <2>1, <2>5, OutsideDoes
  <2> HIDE DEF Closes, Offered
  <2> QED BY <1>1, <2>1, <2>2, <2>3, <2>4, <2>5
          DEF NotificationNext, notificationVars, Outside, Sweeps, Deliver, TakeEvent, Check, Send, SendTest, Restart
<1>2. NotificationInv /\ [NotificationNext]_notificationVars => [Step]_notificationVars
  BY <1>1
<1>3. RecoveryIsAnnounced <=> [][Step]_notificationVars
  BY DEF RecoveryIsAnnounced
<1> HIDE DEF Step
<1> QED BY <1>2, <1>3, NotificationsInvariant, PTL DEF NotificationSpec
=============================================================================
