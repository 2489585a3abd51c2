--------------------------- MODULE Notifications ---------------------------
(***************************************************************************)
(* Telegram notices about Servers that go offline, come back or use up     *)
(* their traffic (internal/notification).  Two sweeps look at every Server *)
(* under one lock and write what they announce to the Server's row before  *)
(* they queue it; one worker sends what is queued, without the lock, and   *)
(* only then records that the offline notice arrived.  The row outlives    *)
(* the process, the queue and the marks in memory do not.                  *)
(*                                                                         *)
(* An outage is named by the sweep that first missed the Server; whether   *)
(* the grace period is over is left open.  A Server that leaves does not   *)
(* come back.  Telegram that is not configured is the choice of settings   *)
(* with everything switched off.                                           *)
(***************************************************************************)
EXTENDS Naturals, Sequences, FiniteSets, Functions

CONSTANTS
    Servers,
    SettingsChoices, \* settings an administrator may save
    Limit,        \* monthly traffic limit
    QueueSize,    \* 64 in the code
    MaxAttempts,  \* 3 in the code
    MaxOutages,   \* bound: outages, over all Servers
    MaxCycle,     \* bound: traffic cycles 1..MaxCycle
    MaxBegins,    \* bound: how often the cycles of a Server may begin
    Idle

\* What is queued.  An entry says which outage it is about, or which cycle and step.
OutageEntries == [server : Servers, mark : Nat \ {0}, step : {0}]
TrafficEntries == [server : Servers, mark : 1..MaxCycle, step : Nat \ {0}]
Events == [kind : {"offline", "recovery"}, entries : SUBSET OutageEntries]
          \cup [kind : {"traffic"}, entries : SUBSET TrafficEntries]
          \cup [kind : {"test"}, entries : {{}}]

\* What the worker has in hand.
Deliveries == [item : Events, attempt : Nat, at : {"check", "send", "finish"},
               sent : SUBSET (OutageEntries \cup TrafficEntries)]

ASSUME NotificationAssumption ==
    /\ {Limit, QueueSize, MaxAttempts, MaxOutages, MaxCycle, MaxBegins} \subseteq Nat \ {0}
    /\ \A c \in SettingsChoices : {c.online, c.recovery, c.traffic, c.full} \subseteq BOOLEAN
                          /\ c.threshold \in 50..100 /\ c.step \in {5, 10, 20}
    /\ Idle \notin Deliveries

VARIABLES
    settings,
    eligible,       \* Servers that have reported once and are not leaving
    connected,      \* Servers whose Agent is connected
    used, cycle,    \* traffic of the current cycle, and the cycle
    row,            \* server_notification_state
    firstAbsent,    \* outage a sweep has begun to watch, 0 for none
    pendingOffline, \* Servers whose offline notice is queued
    queue, work,    \* queued events; the event the worker is sending
    test,           \* the last test message
    outages,        \* outages named so far
    chat,           \* ghost: how often Telegram took a notice
    doubt,          \* ghost: notices Telegram took while its answer was lost
    unrecorded,     \* ghost: outages whose notice Telegram took without a record of it
    begins          \* ghost: how often each cycle of a Server began

notificationVars == <<settings, eligible, connected, used, cycle, row, firstAbsent, pendingOffline,
                      queue, work, test, outages, chat, doubt, unrecorded, begins>>
environment == <<eligible, connected, used, cycle, begins>>
memory == <<firstAbsent, pendingOffline, queue, work, test>>

NotificationInit ==
    /\ settings \in SettingsChoices
    /\ eligible = Servers /\ connected = Servers
    /\ used = [s \in Servers |-> 0] /\ cycle = [s \in Servers |-> 1]
    /\ row = [s \in Servers |-> [started |-> 0, notified |-> FALSE, cycle |-> 0, step |-> 0]]
    /\ firstAbsent = [s \in Servers |-> 0] /\ pendingOffline = {}
    /\ queue = <<>> /\ work = Idle /\ test = "none"
    /\ outages = 0
    /\ chat = [n \in {} |-> 0] /\ doubt = {} /\ unrecorded = {}
    /\ begins = [s \in Servers |-> [c \in 1..MaxCycle |-> IF c = 1 THEN 1 ELSE 0]]

\* The last percentage whose share of the limit, rounded up, is reached.
TrafficStep(n, set) ==
    LET reached == {p \in set.threshold..99 : (p - set.threshold) % set.step = 0
                                                   /\ n >= (Limit * p + 99) \div 100}
    IN IF n >= Limit /\ set.full THEN 100
       ELSE IF reached = {} THEN 0 ELSE CHOOSE p \in reached : \A q \in reached : q <= p

-----------------------------------------------------------------------------
(* What happens to the Servers.                                            *)

Connect(s) ==
    /\ s \notin connected
    /\ connected' = connected \cup {s}
    /\ UNCHANGED <<settings, eligible, used, cycle, row, memory, outages, chat, doubt, unrecorded, begins>>

Disconnect(s) ==
    /\ s \in connected
    /\ connected' = connected \ {s}
    /\ UNCHANGED <<settings, eligible, used, cycle, row, memory, outages, chat, doubt, unrecorded, begins>>

Leave(s) ==
    /\ s \in eligible
    /\ eligible' = eligible \ {s}
    /\ UNCHANGED <<settings, connected, used, cycle, row, memory, outages, chat, doubt, unrecorded, begins>>

\* A Server whose traffic no longer reaches the first step begins its cycle again.
Rearm(s, n, set) ==
    IF TrafficStep(used[s], settings) # 0 /\ TrafficStep(n, set) = 0
    THEN [begins[s] EXCEPT ![cycle[s]] = @ + 1] ELSE begins[s]
WithinBound == \A s \in Servers : SumFunction(begins'[s]) <= MaxBegins

\* Traffic is counted, or an administrator corrects the total.
Traffic(s, n) ==
    /\ n # used[s]
    /\ used' = [used EXCEPT ![s] = n]
    /\ begins' = [begins EXCEPT ![s] = Rearm(s, n, settings)] /\ WithinBound
    /\ UNCHANGED <<settings, eligible, connected, cycle, row, memory, outages, chat, doubt, unrecorded>>

\* A new cycle, or, when the reset day is changed and changed back, an old one.
Turn(s, c) ==
    /\ c # cycle[s]
    /\ cycle' = [cycle EXCEPT ![s] = c]
    /\ used' = [used EXCEPT ![s] = 0]
    /\ begins' = [begins EXCEPT ![s][c] = @ + 1] /\ WithinBound
    /\ UNCHANGED <<settings, eligible, connected, row, memory, outages, chat, doubt, unrecorded>>

Save(choice) ==
    /\ settings' = choice /\ choice # settings
    /\ begins' = [s \in Servers |-> Rearm(s, used[s], choice)] /\ WithinBound
    /\ UNCHANGED <<eligible, connected, used, cycle, row, memory, outages, chat, doubt, unrecorded>>

-----------------------------------------------------------------------------
(* The sweeps.  A database error ends a sweep after some of the Servers;   *)
(* what they gave is queued all the same.                                  *)

Enqueue(kind, entries) ==
    IF entries = {} \/ Len(queue) >= QueueSize THEN UNCHANGED <<queue, pendingOffline>>
    ELSE /\ queue' = Append(queue, [kind |-> kind, entries |-> entries])
         /\ pendingOffline' = IF kind = "offline" THEN pendingOffline \cup {e.server : e \in entries}
                              ELSE pendingOffline

Entry(s, mark, step) == [server |-> s, mark |-> mark, step |-> step]

\* Servers that are absent, not announced yet, and to be watched or announced.
Missing(swept) ==
    {s \in swept \cap eligible : s \notin connected /\ settings.online /\ row[s].started = 0}

\* Mistake: the Servers that are back, whatever is still queued.
BackAtOnce(swept) == {s \in swept \cap eligible : s \in connected /\ row[s].started # 0}

\* Servers that are back; the ones whose notice is still queued wait for it.
Back(swept) ==
    {s \in swept \cap eligible : s \in connected /\ s \notin pendingOffline /\ row[s].started # 0}

\* Offline notices and recoveries are two events of one sweep, offline first; an
\* offline notice can fill the queue.
SweepOnline(swept, graceOver) ==
    LET announced == {s \in Missing(swept) \cap graceOver : firstAbsent[s] # 0}
        begun == {s \in Missing(swept) : firstAbsent[s] = 0}
        forgotten == {s \in swept : s \notin eligible \/ s \in connected \/ ~settings.online}
        cleared == (swept \ eligible) \cup Back(swept)
        offline == {Entry(s, firstAbsent[s], 0) : s \in announced}
        recovery == {Entry(s, row[s].started, 0) : s \in
                        {t \in Back(swept) : row[t].notified /\ settings.online /\ settings.recovery}}
    IN /\ begun # {} => outages < MaxOutages
       /\ firstAbsent' = [s \in Servers |->
              IF s \in begun THEN outages + 1 ELSE IF s \in announced \cup forgotten THEN 0 ELSE firstAbsent[s]]
       /\ outages' = IF begun = {} THEN outages ELSE outages + 1
       /\ row' = [s \in Servers |->
              IF s \in cleared THEN [row[s] EXCEPT !.started = 0, !.notified = FALSE]
              ELSE IF s \in announced THEN [row[s] EXCEPT !.started = firstAbsent[s], !.notified = FALSE]
              ELSE row[s]]
       /\ IF offline = {} THEN Enqueue("recovery", recovery)
          ELSE IF recovery = {} \/ Len(queue) + 1 >= QueueSize THEN Enqueue("offline", offline)
          ELSE /\ queue' = queue \o <<[kind |-> "offline", entries |-> offline],
                                      [kind |-> "recovery", entries |-> recovery]>>
               /\ pendingOffline' = pendingOffline \cup announced
       /\ UNCHANGED <<settings, environment, work, test, chat, doubt, unrecorded>>

LastStep(s) ==
    LET step == TrafficStep(used[s], settings)
        last == IF row[s].cycle # cycle[s] \/ step = 0 THEN 0 ELSE row[s].step
    IN IF step > last THEN step ELSE last

SweepTraffic(swept) ==
    LET seen == swept \cap eligible
        risen(s) == LastStep(s) > (IF row[s].cycle = cycle[s] THEN row[s].step ELSE 0)
    IN /\ settings.traffic
       /\ row' = [s \in Servers |-> IF s \in seen THEN [row[s] EXCEPT !.cycle = cycle[s], !.step = LastStep(s)]
                                    ELSE row[s]]
       /\ Enqueue("traffic", {Entry(s, cycle[s], TrafficStep(used[s], settings)) : s \in {t \in seen : risen(t)}})
       /\ UNCHANGED <<settings, environment, firstAbsent, work, test, outages, chat, doubt, unrecorded>>

-----------------------------------------------------------------------------
(* The worker.                                                             *)

TakeEvent ==
    /\ work = Idle /\ queue # <<>>
    /\ work' = [item |-> Head(queue), attempt |-> 1, at |-> "check", sent |-> {}]
    /\ queue' = Tail(queue)
    /\ UNCHANGED <<settings, environment, row, firstAbsent, pendingOffline, test, outages, chat, doubt, unrecorded>>

Wanted(kind) ==
    \/ kind = "test"
    \/ kind = "offline" /\ settings.online
    \/ kind = "recovery" /\ settings.online /\ settings.recovery
    \/ kind = "traffic" /\ settings.traffic

CurrentEntries(item) ==
    {e \in item.entries :
        /\ e.server \in eligible
        /\ item.kind = "offline" => e.server \notin connected
        /\ item.kind = "recovery" => e.server \in connected
        /\ item.kind = "traffic" => cycle[e.server] = e.mark /\ TrafficStep(used[e.server], settings) >= e.step}

\* The settings and the entries are read again before every attempt; when nothing
\* is left, or they cannot be read, the event is finished unsent.
Check(readable) ==
    /\ work # Idle /\ work.at = "check"
    /\ LET sent == IF readable /\ Wanted(work.item.kind) THEN CurrentEntries(work.item) ELSE {}
           go == readable /\ (work.item.kind = "test" \/ sent # {})
       IN work' = [work EXCEPT !.sent = sent, !.at = IF go THEN "send" ELSE "finish"]
    /\ UNCHANGED <<settings, environment, row, firstAbsent, pendingOffline, queue, test, outages, chat, doubt, unrecorded>>

NoticesOf(item, sent) == {<<item.kind, e.server, e.mark, e.step>> : e \in sent}

\* Telegram takes the message or not, and its answer arrives or not.
Send(taken, answer) ==
    /\ work # Idle /\ work.at = "send"
    /\ answer = "ok" => taken
    /\ answer = "refused" => ~taken
    /\ LET n == IF taken THEN NoticesOf(work.item, work.sent) ELSE {}
       IN /\ chat' = [k \in DOMAIN chat \cup n |->
                         (IF k \in DOMAIN chat THEN chat[k] ELSE 0) + (IF k \in n THEN 1 ELSE 0)]
          /\ doubt' = IF answer = "lost" THEN doubt \cup n ELSE doubt
          /\ unrecorded' = IF answer = "lost" /\ work.item.kind = "offline" THEN unrecorded \cup n ELSE unrecorded
    /\ work' = CASE answer = "ok" -> [work EXCEPT !.at = "finish"]
                 [] answer = "lost" /\ work.attempt < MaxAttempts ->
                        [work EXCEPT !.at = "check", !.sent = {}, !.attempt = @ + 1]
                 [] OTHER -> [work EXCEPT !.at = "finish", !.sent = {}]
    /\ UNCHANGED <<settings, environment, row, firstAbsent, pendingOffline, queue, test, outages>>

RecordDelivery(written) ==
    [s \in Servers |-> IF row[s].started # 0 /\ \E e \in written : e.server = s /\ e.mark = row[s].started
                       THEN [row[s] EXCEPT !.notified = TRUE] ELSE row[s]]

\* Telegram took them, and the Panel does not know that it did.
Unrecorded(entries) ==
    unrecorded' = unrecorded \cup {n \in NoticesOf(work.item, entries) \cap DOMAIN chat : n[1] = "offline"}

\* Mistake: records every Server of the event, the ones left out or not delivered too.
FinishAll(written) ==
    /\ work # Idle /\ work.at = "finish" /\ written \subseteq work.sent
    /\ IF work.item.kind = "offline"
       THEN /\ row' = RecordDelivery(work.item.entries)
            /\ pendingOffline' = pendingOffline \ {e.server : e \in work.item.entries}
       ELSE UNCHANGED <<row, pendingOffline>>
    /\ test' = IF work.item.kind = "test" THEN "done" ELSE test
    /\ work' = Idle
    /\ UNCHANGED <<settings, environment, firstAbsent, queue, outages, chat, doubt, unrecorded>>

\* The rest of deliver, under the lock; the record of a delivery may fail.
Finish(written) ==
    /\ work # Idle /\ work.at = "finish" /\ written \subseteq work.sent
    /\ IF work.item.kind = "offline"
       THEN /\ row' = RecordDelivery(written)
            /\ pendingOffline' = pendingOffline \ {e.server : e \in work.item.entries}
       ELSE UNCHANGED <<row, pendingOffline>>
    /\ test' = IF work.item.kind = "test" THEN "done" ELSE test
    /\ work' = Idle
    /\ Unrecorded(work.sent \ written)
    /\ UNCHANGED <<settings, environment, firstAbsent, queue, outages, chat, doubt>>

SendTest ==
    /\ test # "pending" /\ Len(queue) < QueueSize
    /\ queue' = Append(queue, [kind |-> "test", entries |-> {}])
    /\ test' = "pending"
    /\ UNCHANGED <<settings, environment, row, firstAbsent, pendingOffline, work, outages, chat, doubt, unrecorded>>

\* The Panel stops, and starts again from the database.
Restart ==
    /\ firstAbsent' = [s \in Servers |-> 0] /\ pendingOffline' = {}
    /\ queue' = <<>> /\ work' = Idle /\ test' = "none"
    /\ connected' = {}
    /\ IF work = Idle THEN UNCHANGED unrecorded ELSE Unrecorded(work.sent)
    /\ UNCHANGED <<settings, eligible, used, cycle, row, outages, chat, doubt, begins>>

ConnectionEvents == \E s \in Servers : Connect(s) \/ Disconnect(s) \/ Leave(s)

TrafficEvents ==
    \E s \in Servers : (\E n \in 0..Limit : Traffic(s, n)) \/ (\E c \in 1..MaxCycle : Turn(s, c))

Sweeps ==
    \/ \E swept, graceOver \in SUBSET Servers : SweepOnline(swept, graceOver)
    \/ \E swept \in SUBSET Servers : SweepTraffic(swept)

Deliver ==
    \/ TakeEvent
    \/ \E readable \in BOOLEAN : Check(readable)
    \/ \E taken \in BOOLEAN, answer \in {"ok", "lost", "refused"} : Send(taken, answer)
    \/ work # Idle /\ \E written \in SUBSET work.sent : Finish(written)

NotificationNext ==
    \/ ConnectionEvents \/ TrafficEvents
    \/ Sweeps \/ Deliver
    \/ \E choice \in SettingsChoices : Save(choice)
    \/ SendTest \/ Restart

NotificationSpec == NotificationInit /\ [][NotificationNext]_notificationVars

-----------------------------------------------------------------------------
(* Properties.                                                             *)

\* A recovery is announced only for an outage whose offline notice reached the
\* chat: "recovery notices presuppose an offline notice that was really sent".
\* deliver records the delivery without the lock in between, while sweeps may have
\* ended the outage and begun to watch the next.
RecoveryFollowsNotice ==
    \A n \in DOMAIN chat : n[1] = "recovery" => <<"offline", n[2], n[3], 0>> \in DOMAIN chat

\* When a sweep closes an outage that the chat was told of, it offers the recovery,
\* although the notice may have been on its way when the Server came back: the
\* delivery is recorded before the row can be cleared.  A recovery is lost only to a
\* full queue, or when the outages the same sweep announces took its last place, and
\* where the Panel never learned of the delivery.
RecoveryIsAnnounced ==
    [][\A s \in eligible :
        LET outage == row[s].started
        IN (/\ outage # 0 /\ row'[s].started = 0 /\ settings.online /\ settings.recovery
            /\ Len(queue) < QueueSize /\ <<"offline", s, outage, 0>> \in DOMAIN chat \ unrecorded)
           => \/ \E i \in DOMAIN queue' : queue'[i].kind = "recovery" /\ Entry(s, outage, 0) \in queue'[i].entries
              \/ Len(queue) + 1 = QueueSize /\ Len(queue') = QueueSize /\ queue'[QueueSize].kind = "offline"
      ]_notificationVars

\* No notice is repeated: not an outage, not a recovery, and a step of the traffic
\* only as often as its cycle began, across restarts, failed sweeps, full
\* queues and changed settings.  Only a lost answer of Telegram can repeat one.
NoticesAreNotRepeated ==
    \A n \in DOMAIN chat \ doubt :
        chat[n] <= IF n[1] = "traffic" THEN begins[n[2]][n[3]] ELSE 1

\* A mark that holds something back, the recovery of a Server or the next test
\* message, is there only while the event that will remove it is queued or being
\* sent: no dropped, failed or outdated event leaves it behind.
MarksAreQueued ==
    LET events == {queue[i] : i \in DOMAIN queue} \cup (IF work = Idle THEN {} ELSE {work.item})
    IN /\ \A s \in pendingOffline : \E e \in events : e.kind = "offline" /\ \E x \in e.entries : x.server = s
       /\ test = "pending" => \E e \in events : e.kind = "test"

\* The three together: every notice in the chat is due, and nothing holds back the
\* next one.
NoticesAreDue == RecoveryFollowsNotice /\ NoticesAreNotRepeated /\ MarksAreQueued
=============================================================================
