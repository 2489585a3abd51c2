--------------------------- MODULE RestartsProofs ---------------------------
(***************************************************************************)
(* Theorems about AgentConnection, for every number of handlers, requests, *)
(* registrations, removals and failures, and about Restore, for any        *)
(* archives and every number of crashes, failures, imports and writes.     *)
(***************************************************************************)
EXTENDS AgentConnection, Restore, TLAPS

ConnectionType ==
  /\ agentId \in Nat /\ lastAgentId \in Nat /\ archived \in BOOLEAN
  /\ status \in {"pending", "offline", "online"}
  /\ token \in {"none", "handed"} \cup Admins
  /\ tracked \in Conns \cup {None} /\ closing \in [Admins -> Conns \cup {None}]
  /\ hpc \in [Conns -> {"free", "accepted", "online", "reading", "leaving"}]
  /\ haid \in [Conns -> Nat]
  /\ admin \in [Admins -> {"idle", "changed", "closing"}]
  /\ dpc \in [Diags -> {"new", "registered", "waiting", "done"}]
  /\ dconn \in [Diags -> Conns \cup {None}]
  /\ pend \in [Conns -> SUBSET Diags]
  /\ sending \in SUBSET Diags
  /\ sends \in [Diags -> Nat]
  /\ removals \in Nat /\ dbErrors \in Nat /\ adrift \in BOOLEAN

\* The connections whose requests somebody is to answer.
Answering == {tracked} \cup {closing[a] : a \in Admins}

(***************************************************************************)
(* The registry: the handler of a current connection is past its           *)
(* registration, and that of a connection being closed is not before it,   *)
(* so TrackConnection never replaces a connection by itself.  A request    *)
(* closes at most the one connection it took.                              *)
(***************************************************************************)
RegistryInv ==
  /\ \A h \in Conns : tracked = h => hpc[h] \in {"reading", "leaving"}
  /\ \A a \in Admins : \A h \in Conns : closing[a] = h => hpc[h] \notin {"accepted", "online"}
  /\ \A a \in Admins : admin[a] # "closing" => closing[a] = None

(***************************************************************************)
(* A request is in one place at a time.  Until something is sent it is     *)
(* registered with its connection or taken out by one handler, and only    *)
(* the current connection and those being closed have requests, at most    *)
(* one each: whoever empties pendingDiagnostics is the only one to answer. *)
(***************************************************************************)
InProgress(d) == dpc[d] \in {"registered", "waiting"}

PendingInv ==
  /\ \A h \in Conns : \A d \in pend[h] :
       dconn[d] = h /\ sends[d] = 0 /\ d \notin sending /\ InProgress(d)
  /\ \A h \in Conns : pend[h] # {} => h \in Answering
  /\ \A h \in Conns : \A c, d \in pend[h] : c = d

AnswerInv ==
  \A d \in Diags :
    /\ sends[d] <= 1
    /\ d \in sending \/ dpc[d] = "new" => sends[d] = 0
    /\ dpc[d] = "new" => d \notin sending
    /\ InProgress(d) => dconn[d] \in Conns
    /\ InProgress(d) /\ sends[d] = 0 /\ d \notin sending => d \in pend[dconn[d]]

(***************************************************************************)
(* The status: only a registered Agent of a Server that is not archived is *)
(* online, so a request that takes a connection leaves the status behind   *)
(* only when an Agent is registered: the case that adrift records.         *)
(***************************************************************************)
StatusInv ==
  /\ OnlineMeansConnected
  /\ status = "online" => agentId # 0 /\ ~archived
  /\ \A h \in Conns : hpc[h] = "accepted" => haid[h] # 0

DiagnosticsInv == ConnectionType /\ RegistryInv /\ PendingInv /\ AnswerInv
ConnectionInv == DiagnosticsInv /\ StatusInv

-----------------------------------------------------------------------------
\* Nobody is connected and nothing is asked for yet.
LEMMA InitConnection == ConnectionInit => ConnectionInv
<1> SUFFICES ASSUME ConnectionInit PROVE ConnectionInv
  OBVIOUS
<1> USE ConnectionAssumption DEF ConnectionInit
<1>1. ConnectionType
  BY DEF ConnectionType
<1>2. RegistryInv /\ PendingInv /\ AnswerInv
  BY DEF RegistryInv, PendingInv, AnswerInv, InProgress
<1>3. StatusInv
  BY DEF StatusInv, OnlineMeansConnected, StatusFollowsConnection
<1> QED
  BY <1>1, <1>2, <1>3 DEF ConnectionInv, DiagnosticsInv

\* Failing the requests of a connection keeps the types.
LEMMA FailType ==
  ASSUME ConnectionType, NEW h \in Conns, failPending(h)
  PROVE  pend' \in [Conns -> SUBSET Diags] /\ sends' \in [Diags -> Nat]
  BY DEF ConnectionType, failPending

\* So does the deferred removeDiagnostic.
LEMMA RemoveType ==
  ASSUME ConnectionType, NEW d \in Diags, removeDiagnostic(d)
  PROVE  /\ dpc' \in [Diags -> {"new", "registered", "waiting", "done"}]
         /\ pend' \in [Conns -> SUBSET Diags]
  BY DEF ConnectionType, removeDiagnostic

\* Every step keeps the types.
LEMMA NextType == ConnectionType /\ [ConnectionNext]_connectionVars => ConnectionType'
<1> SUFFICES ASSUME ConnectionType, [ConnectionNext]_connectionVars PROVE ConnectionType'
  OBVIOUS
<1> USE ConnectionAssumption
    DEF ConnectionType, dbVars, connVars, adminVars, diagVars, boundVars, Fault
<1>1. ASSUME NEW a \in Admins, RotateEnrollment(a) PROVE ConnectionType'
  <2>1. token' \in {"none", "handed"} \cup Admins
    BY <1>1 DEF RotateEnrollment
  <2>2. admin' \in [Admins -> {"idle", "changed", "closing"}]
    BY <1>1 DEF RotateEnrollment
  <2> QED
    BY <1>1, <2>1, <2>2 DEF RotateEnrollment
<1>2. CASE RegisterAgent
  <2>1. lastAgentId' \in Nat /\ agentId' \in Nat
    BY <1>2 DEF RegisterAgent
  <2> QED
    BY <1>2, <2>1 DEF RegisterAgent
<1>3. ASSUME NEW a \in Admins, Archive(a) PROVE ConnectionType'
  <2>1. token' \in {"none", "handed"} \cup Admins
    BY <1>3 DEF Archive
  <2>2. admin' \in [Admins -> {"idle", "changed", "closing"}]
    BY <1>3 DEF Archive
  <2>3. removals' \in Nat
    BY <1>3 DEF Archive
  <2> QED
    BY <1>3, <2>1, <2>2, <2>3 DEF Archive
<1>4. ASSUME NEW a \in Admins, CloseConnections(a) PROVE ConnectionType'
  BY <1>4 DEF CloseConnections
<1>5. ASSUME NEW a \in Admins, FinishClosing(a) PROVE ConnectionType'
  <2>1. pend' \in [Conns -> SUBSET Diags] /\ sends' \in [Diags -> Nat]
    BY <1>5, FailType DEF FinishClosing
  <2> QED
    BY <1>5, <2>1 DEF FinishClosing
<1>7. ASSUME NEW h \in Conns, Connect(h) PROVE ConnectionType'
  BY <1>7 DEF Connect
<1>8. ASSUME NEW h \in Conns, SetAgentConnected(h) PROVE ConnectionType'
  BY <1>8 DEF SetAgentConnected
<1>9. ASSUME NEW h \in Conns, TrackConnection(h) PROVE ConnectionType'
  <2>1. pend' \in [Conns -> SUBSET Diags] /\ sends' \in [Diags -> Nat]
    BY <1>9, FailType DEF TrackConnection, replacePrevious
  <2> QED
    BY <1>9, <2>1 DEF TrackConnection
<1>10. ASSUME NEW h \in Conns, Heartbeat(h) \/ ReadError(h) PROVE ConnectionType'
  BY <1>10 DEF Heartbeat, ReadError
<1>11. ASSUME NEW h \in Conns, DisconnectCurrent(h) PROVE ConnectionType'
  <2>1. pend' \in [Conns -> SUBSET Diags] /\ sends' \in [Diags -> Nat]
    BY <1>11, FailType DEF DisconnectCurrent
  <2> QED
    BY <1>11, <2>1 DEF DisconnectCurrent, SetAgentOffline
<1>12. ASSUME NEW h \in Conns, DisconnectHalf(h) PROVE ConnectionType'
  <2>1. pend' \in [Conns -> SUBSET Diags] /\ sends' \in [Diags -> Nat]
    BY <1>12, FailType DEF DisconnectHalf
  <2>2. dbErrors' \in Nat
    BY <1>12 DEF DisconnectHalf
  <2> QED
    BY <1>12, <2>1, <2>2 DEF DisconnectHalf
<1>13. ASSUME NEW h \in Conns, SocketBreaks(h) PROVE ConnectionType'
  BY <1>13 DEF SocketBreaks
<1>14. CASE RestartPanel
  BY <1>14 DEF RestartPanel, ResetOnline
<1>15. ASSUME NEW d \in Diags, RegisterDiagnostic(d) PROVE ConnectionType'
  BY <1>15 DEF RegisterDiagnostic
<1>16. ASSUME NEW d \in Diags, SendDiagnostic(d) PROVE ConnectionType'
  BY <1>16, RemoveType DEF SendDiagnostic
<1>17. ASSUME NEW d \in Diags, NEW h \in Conns, ResolveDiagnostic(d, h) PROVE ConnectionType'
  BY <1>17 DEF ResolveDiagnostic, takePending
<1>18. ASSUME NEW d \in Diags, SendResponse(d) PROVE ConnectionType'
  BY <1>18 DEF SendResponse
<1>19. ASSUME NEW d \in Diags, ReceiveDiagnostic(d) \/ DiagnosticTimeout(d)
       PROVE  ConnectionType'
  BY <1>19, RemoveType DEF ReceiveDiagnostic, DiagnosticTimeout
<1>20. CASE UNCHANGED connectionVars
  BY <1>20 DEF connectionVars
<1> QED
  BY <1>1, <1>2, <1>3, <1>4, <1>5, <1>7, <1>8, <1>9, <1>10, <1>11, <1>12, <1>13,
     <1>14, <1>15, <1>16, <1>17, <1>18, <1>19, <1>20
  DEF ConnectionNext, AdminStep, HandlerStep, DiagStep

\* Every step keeps the order of a handler's stages and its place in the registry.
LEMMA NextRegistry ==
  ConnectionType /\ RegistryInv /\ [ConnectionNext]_connectionVars => RegistryInv'
<1> SUFFICES ASSUME ConnectionType, RegistryInv, [ConnectionNext]_connectionVars
             PROVE  RegistryInv'
  OBVIOUS
<1> USE ConnectionAssumption DEF ConnectionType, RegistryInv
<1>1. CASE UNCHANGED <<tracked, admin, closing, hpc>>
  BY <1>1
<1>2. CASE AdminStep
  <2>1. CASE RegisterAgent
    BY <1>1, <2>1 DEF RegisterAgent, connVars, adminVars
  <2>2. ASSUME NEW a \in Admins, RotateEnrollment(a) \/ Archive(a) PROVE RegistryInv'
    BY <2>2 DEF RotateEnrollment, Archive, connVars
  <2>3. ASSUME NEW a \in Admins, CloseConnections(a) PROVE RegistryInv'
    BY <2>3 DEF CloseConnections
  <2>4. ASSUME NEW a \in Admins, FinishClosing(a) PROVE RegistryInv'
    BY <2>4 DEF FinishClosing
  <2> QED
    BY <1>2, <2>1, <2>2, <2>3, <2>4 DEF AdminStep
<1>3. ASSUME NEW h \in Conns, Connect(h) PROVE RegistryInv'
  BY <1>3 DEF Connect, adminVars
<1>4. ASSUME NEW h \in Conns, SetAgentConnected(h) PROVE RegistryInv'
  BY <1>4 DEF SetAgentConnected, adminVars
<1>5. ASSUME NEW h \in Conns, TrackConnection(h) PROVE RegistryInv'
  BY <1>5 DEF TrackConnection, adminVars
<1>6. ASSUME NEW h \in Conns, Heartbeat(h) \/ ReadError(h) PROVE RegistryInv'
  BY <1>6 DEF Heartbeat, ReadError, adminVars
<1>7. ASSUME NEW h \in Conns, DisconnectCurrent(h) \/ DisconnectHalf(h) PROVE RegistryInv'
  BY <1>7 DEF DisconnectCurrent, DisconnectHalf, adminVars
<1>8. CASE RestartPanel
  BY <1>8 DEF RestartPanel
<1>9. ASSUME NEW h \in Conns, SocketBreaks(h) PROVE RegistryInv'
  BY <1>1, <1>9 DEF SocketBreaks, adminVars
<1>10. ASSUME NEW d \in Diags, DiagStep(d) \/ DiagnosticTimeout(d) PROVE RegistryInv'
  BY <1>1, <1>10 DEF DiagStep, DiagnosticTimeout, RegisterDiagnostic, SendDiagnostic,
     ResolveDiagnostic, SendResponse, ReceiveDiagnostic, connVars, adminVars
<1>11. CASE UNCHANGED connectionVars
  BY <1>1, <1>11 DEF connectionVars, connVars, adminVars
<1> QED
  BY <1>2, <1>3, <1>4, <1>5, <1>6, <1>7, <1>8, <1>9, <1>10, <1>11
  DEF ConnectionNext, HandlerStep

-----------------------------------------------------------------------------
\* Neither is the current connection replaced nor does one end being closed.
LEMMA KeepAnswering == ASSUME UNCHANGED <<tracked, closing>> PROVE Answering' = Answering
  BY DEF Answering

\* The requests are left alone, and so are the connections that have some.
LEMMA KeepRequests ==
  ASSUME PendingInv, AnswerInv, UNCHANGED diagVars,
         \A g \in Conns : g \in Answering => g \in Answering'
  PROVE  PendingInv' /\ AnswerInv'
  BY DEF PendingInv, AnswerInv, InProgress, diagVars

\* A connection that leaves the registry answers its requests, and only once.
LEMMA FailRequests ==
  ASSUME ConnectionType, PendingInv, AnswerInv, NEW h \in Conns, failPending(h),
         UNCHANGED <<dpc, dconn, sending>>,
         \A g \in Conns : g # h /\ g \in Answering => g \in Answering'
  PROVE  PendingInv' /\ AnswerInv'
<1>1. /\ \A g \in Conns : pend'[g] = IF g = h THEN {} ELSE pend[g]
      /\ \A d \in Diags : sends'[d] = IF d \in pend[h] THEN sends[d] + 1 ELSE sends[d]
  BY DEF failPending, ConnectionType
<1>2. \A d \in Diags : d \in pend[h] => sends[d] = 0 /\ sends'[d] = 1 /\ d \notin sending
                                        /\ dpc[d] # "new"
  BY <1>1 DEF PendingInv, InProgress
<1>3. PendingInv'
  <2>1. ASSUME NEW g \in Conns, NEW d \in pend'[g]
        PROVE  dconn'[d] = g /\ sends'[d] = 0 /\ d \notin sending' /\ InProgress(d)'
    <3>1. g # h /\ d \in pend[g] /\ d \in Diags
      BY <1>1, <2>1 DEF ConnectionType
    <3>2. d \notin pend[h]
      BY <3>1 DEF PendingInv
    <3> QED
      BY <1>1, <3>1, <3>2 DEF PendingInv, InProgress
  <2>2. ASSUME NEW g \in Conns, pend'[g] # {} PROVE g \in Answering'
    BY <1>1, <2>2 DEF PendingInv
  <2>3. ASSUME NEW g \in Conns, NEW c \in pend'[g], NEW d \in pend'[g] PROVE c = d
    BY <1>1, <2>3 DEF PendingInv
  <2> QED
    BY <2>1, <2>2, <2>3 DEF PendingInv
<1>4. AnswerInv'
  <2> SUFFICES ASSUME NEW d \in Diags
               PROVE  /\ sends'[d] <= 1
                      /\ d \in sending \/ dpc[d] = "new" => sends'[d] = 0
                      /\ dpc[d] = "new" => d \notin sending
                      /\ InProgress(d) => dconn[d] \in Conns
                      /\ InProgress(d) /\ sends'[d] = 0 /\ d \notin sending
                           => d \in pend'[dconn[d]]
    BY DEF AnswerInv, InProgress
  <2>1. /\ sends[d] <= 1
        /\ dpc[d] = "new" => d \notin sending
        /\ d \in sending \/ dpc[d] = "new" => sends[d] = 0
        /\ InProgress(d) => dconn[d] \in Conns
        /\ InProgress(d) /\ sends[d] = 0 /\ d \notin sending => d \in pend[dconn[d]]
    BY DEF AnswerInv
  <2>2. CASE d \in pend[h]
    BY <1>2, <2>1, <2>2
  <2>3. CASE d \notin pend[h]
    BY <1>1, <2>1, <2>3
  <2> QED
    BY <2>2, <2>3
<1> QED
  BY <1>3, <1>4

\* A request that is given up is taken out of the connection it waits on.
LEMMA RemoveRequest ==
  ASSUME ConnectionType, PendingInv, AnswerInv, NEW d \in Diags, removeDiagnostic(d),
         InProgress(d), UNCHANGED <<dconn, sending, sends, tracked, closing>>
  PROVE  PendingInv' /\ AnswerInv'
<1>1. /\ \A g \in Conns : pend'[g] = IF g = dconn[d] THEN pend[g] \ {d} ELSE pend[g]
      /\ \A c \in Diags : dpc'[c] = IF c = d THEN "done" ELSE dpc[c]
  BY DEF removeDiagnostic, ConnectionType
<1>2. \A g \in Conns : d \notin pend'[g] /\ pend'[g] \subseteq pend[g]
  BY <1>1 DEF PendingInv
<1>3. PendingInv'
  <2>0. Answering' = Answering
    BY KeepAnswering
  <2>1. ASSUME NEW g \in Conns, NEW c \in pend'[g]
        PROVE  dconn'[c] = g /\ sends'[c] = 0 /\ c \notin sending' /\ InProgress(c)'
    <3>1. c \in pend[g] /\ c # d /\ c \in Diags
      BY <1>2, <2>1 DEF ConnectionType
    <3> QED
      BY <1>1, <3>1 DEF PendingInv, InProgress
  <2> QED
    BY <1>2, <2>0, <2>1 DEF PendingInv
<1>4. AnswerInv'
  <2> SUFFICES ASSUME NEW c \in Diags
               PROVE  /\ sends[c] <= 1
                      /\ c \in sending \/ dpc'[c] = "new" => sends[c] = 0
                      /\ dpc'[c] = "new" => c \notin sending
                      /\ InProgress(c)' => dconn[c] \in Conns
                      /\ InProgress(c)' /\ sends[c] = 0 /\ c \notin sending
                           => c \in pend'[dconn[c]]
    BY DEF AnswerInv, InProgress
  <2>1. CASE c = d
    BY <1>1, <2>1 DEF AnswerInv, InProgress
  <2>2. CASE c # d
    BY <1>1, <2>2 DEF AnswerInv, InProgress
  <2> QED
    BY <2>1, <2>2
<1> QED
  BY <1>3, <1>4

\* Every step keeps every request in one place.
LEMMA NextRequests ==
  DiagnosticsInv /\ [ConnectionNext]_connectionVars => PendingInv' /\ AnswerInv'
<1> SUFFICES ASSUME DiagnosticsInv, [ConnectionNext]_connectionVars
             PROVE  PendingInv' /\ AnswerInv'
  OBVIOUS
<1>0. ConnectionType /\ RegistryInv /\ PendingInv /\ AnswerInv
  BY DEF DiagnosticsInv
<1>1. CASE UNCHANGED <<diagVars, tracked, closing>>
  BY <1>0, <1>1, KeepRequests DEF Answering
<1>2. ASSUME RegisterAgent \/ \E a \in Admins : RotateEnrollment(a) \/ Archive(a)
      PROVE  PendingInv' /\ AnswerInv'
  BY <1>1, <1>2 DEF RotateEnrollment, RegisterAgent, Archive, connVars, adminVars
<1>3. ASSUME NEW a \in Admins, CloseConnections(a) PROVE PendingInv' /\ AnswerInv'
  <2>1. tracked \in Answering'
    BY <1>0, <1>3 DEF CloseConnections, Answering, ConnectionType
  <2>2. ASSUME NEW b \in Admins, closing[b] \in Conns PROVE closing[b] \in Answering'
    BY <1>0, <1>3, <2>2, ConnectionAssumption
    DEF CloseConnections, Answering, ConnectionType, RegistryInv
  <2> QED
    BY <1>0, <1>3, <2>1, <2>2, KeepRequests DEF CloseConnections, Answering
<1>4. ASSUME NEW a \in Admins, FinishClosing(a) PROVE PendingInv' /\ AnswerInv'
  <2>1. ASSUME NEW g \in Conns, g # closing[a], g \in Answering PROVE g \in Answering'
    <3>1. tracked' = tracked /\ \A b \in Admins : b # a => closing'[b] = closing[b]
      BY <1>0, <1>4 DEF FinishClosing, ConnectionType
    <3> QED
      BY <2>1, <3>1 DEF Answering
  <2>2. CASE closing[a] = None
    <3>1. UNCHANGED diagVars
      BY <1>4, <2>2 DEF FinishClosing, diagVars
    <3> QED
      BY <1>0, <2>1, <2>2, <3>1, KeepRequests, ConnectionAssumption
  <2>3. CASE closing[a] # None
    <3>1. closing[a] \in Conns /\ failPending(closing[a]) /\ UNCHANGED <<dpc, dconn, sending>>
      BY <1>0, <1>4, <2>3 DEF FinishClosing, ConnectionType
    <3> QED
      BY <1>0, <2>1, <3>1, FailRequests
  <2> QED
    BY <2>2, <2>3
<1>5. ASSUME NEW h \in Conns, Connect(h) \/ SetAgentConnected(h) \/ Heartbeat(h)
                              \/ ReadError(h) \/ SocketBreaks(h)
      PROVE  PendingInv' /\ AnswerInv'
  BY <1>1, <1>5 DEF Connect, SetAgentConnected, Heartbeat, ReadError, SocketBreaks, adminVars
<1>6. ASSUME NEW h \in Conns, TrackConnection(h) PROVE PendingInv' /\ AnswerInv'
  <2>0. tracked' = h /\ closing' = closing /\ UNCHANGED <<dpc, dconn, sending>>
    BY <1>6 DEF TrackConnection, adminVars
  <2>1. CASE tracked = None
    <3>1. UNCHANGED diagVars
      BY <1>6, <2>1 DEF TrackConnection, replacePrevious, diagVars
    <3>2. \A g \in Conns : g \in Answering => g \in Answering'
      BY <2>0, <2>1, ConnectionAssumption DEF Answering
    <3> QED
      BY <1>0, <3>1, <3>2, KeepRequests
  <2>2. CASE tracked # None
    <3>1. tracked \in Conns /\ failPending(tracked)
      BY <1>0, <1>6, <2>2 DEF TrackConnection, replacePrevious, ConnectionType
    <3>2. \A g \in Conns : g # tracked /\ g \in Answering => g \in Answering'
      BY <2>0 DEF Answering
    <3> QED
      BY <1>0, <2>0, <3>1, <3>2, FailRequests
  <2> QED
    BY <2>1, <2>2
<1>7. ASSUME NEW h \in Conns, DisconnectCurrent(h) \/ DisconnectHalf(h)
      PROVE  PendingInv' /\ AnswerInv'
  <2>1. CASE tracked = h
    <3>1. failPending(h) /\ closing' = closing /\ UNCHANGED <<dpc, dconn, sending>>
      BY <1>7, <2>1 DEF DisconnectCurrent, DisconnectHalf, adminVars
    <3>2. \A g \in Conns : g # h /\ g \in Answering => g \in Answering'
      BY <2>1, <3>1 DEF Answering
    <3> QED
      BY <1>0, <3>1, <3>2, FailRequests
  <2>2. CASE tracked # h
    BY <1>1, <1>7, <2>2 DEF DisconnectCurrent, DisconnectHalf, adminVars, diagVars
  <2> QED
    BY <2>1, <2>2
<1>8. CASE RestartPanel
  BY <1>0, <1>8 DEF RestartPanel, PendingInv, AnswerInv, InProgress, ConnectionType
<1>9. ASSUME NEW d \in Diags, RegisterDiagnostic(d) PROVE PendingInv' /\ AnswerInv'
  <2>0. tracked \in Conns /\ pend[tracked] = {} /\ UNCHANGED <<tracked, closing, sending, sends>>
        /\ dpc[d] = "new"
    BY <1>0, <1>9 DEF RegisterDiagnostic, registerAlone, ConnectionType, connVars, adminVars
  <2>1. /\ \A g \in Conns : pend'[g] = IF g = tracked THEN {d} ELSE pend[g]
        /\ \A c \in Diags : dpc'[c] = IF c = d THEN "registered" ELSE dpc[c]
        /\ \A c \in Diags : dconn'[c] = IF c = d THEN tracked ELSE dconn[c]
    BY <1>0, <1>9, <2>0 DEF RegisterDiagnostic, ConnectionType
  <2>2. \A g \in Conns : d \notin pend[g]
    BY <1>0, <2>0 DEF PendingInv, InProgress
  <2>3. PendingInv'
    <3>1. ASSUME NEW g \in Conns, NEW c \in pend'[g]
          PROVE  dconn'[c] = g /\ sends'[c] = 0 /\ c \notin sending' /\ InProgress(c)'
      <4>1. c \in Diags
        BY <1>0, <2>1, <3>1 DEF ConnectionType
      <4> QED
        BY <1>0, <2>0, <2>1, <2>2, <3>1, <4>1 DEF PendingInv, AnswerInv, InProgress
    <3>2. \A g \in Conns : pend'[g] # {} => g \in Answering'
      BY <1>0, <2>0, <2>1, KeepAnswering DEF PendingInv, Answering
    <3>3. \A g \in Conns : \A b, c \in pend'[g] : b = c
      BY <1>0, <2>1 DEF PendingInv
    <3> QED
      BY <3>1, <3>2, <3>3 DEF PendingInv
  <2>4. AnswerInv'
    BY <1>0, <2>0, <2>1 DEF AnswerInv, InProgress, ConnectionType
  <2> QED
    BY <2>3, <2>4
<1>10. ASSUME NEW d \in Diags, SendDiagnostic(d) PROVE PendingInv' /\ AnswerInv'
  <2>0. InProgress(d) /\ UNCHANGED <<dconn, sending, sends, tracked, closing>>
    BY <1>10 DEF SendDiagnostic, InProgress, connVars, adminVars
  <2>1. CASE tracked = dconn[d]
    <3>1. \A c \in Diags : dpc'[c] = IF c = d THEN "waiting" ELSE dpc[c]
      BY <1>0, <1>10, <2>1 DEF SendDiagnostic, ConnectionType
    <3>2. \A c \in Diags : (InProgress(c)' <=> InProgress(c)) /\ (dpc'[c] = "new" <=> dpc[c] = "new")
      BY <2>0, <3>1 DEF InProgress
    <3>3. pend' = pend
      BY <1>10, <2>1 DEF SendDiagnostic
    <3> QED
      BY <1>0, <2>0, <3>2, <3>3, KeepAnswering DEF PendingInv, AnswerInv, ConnectionType
  <2>2. CASE tracked # dconn[d]
    BY <1>0, <1>10, <2>0, <2>2, RemoveRequest DEF SendDiagnostic
  <2> QED
    BY <2>1, <2>2
<1>11. ASSUME NEW d \in Diags, NEW h \in Conns, ResolveDiagnostic(d, h)
       PROVE  PendingInv' /\ AnswerInv'
  <2>0. UNCHANGED <<tracked, closing, dpc, dconn, sends>> /\ d \in pend[h]
    BY <1>11 DEF ResolveDiagnostic, connVars, adminVars
  <2>1. /\ \A g \in Conns : pend'[g] = IF g = h THEN pend[g] \ {d} ELSE pend[g]
        /\ sending' = sending \cup {d}
    BY <1>0, <1>11 DEF ResolveDiagnostic, takePending, ConnectionType
  <2>2. dconn[d] = h /\ sends[d] = 0 /\ InProgress(d)
    BY <1>0, <2>0 DEF PendingInv
  <2>3. \A g \in Conns : d \notin pend'[g] /\ pend'[g] \subseteq pend[g]
    <3> SUFFICES ASSUME NEW g \in Conns PROVE d \notin pend'[g] /\ pend'[g] \subseteq pend[g]
      OBVIOUS
    <3>1. g # h => d \notin pend[g]
      BY <1>0, <2>2 DEF PendingInv
    <3> QED
      BY <2>1, <3>1
  <2>4. PendingInv'
    BY <1>0, <2>0, <2>1, <2>3, KeepAnswering DEF PendingInv, InProgress
  <2>5. AnswerInv'
    BY <1>0, <2>0, <2>1, <2>2 DEF AnswerInv, InProgress
  <2> QED
    BY <2>4, <2>5
<1>12. ASSUME NEW d \in Diags, SendResponse(d) PROVE PendingInv' /\ AnswerInv'
  <2>0. /\ UNCHANGED <<tracked, closing, dpc, dconn, pend>> /\ d \in sending
        /\ sending' = sending \ {d} /\ sends[d] = 0 /\ dpc[d] # "new"
    BY <1>0, <1>12 DEF SendResponse, connVars, adminVars, AnswerInv
  <2>1. \A c \in Diags : sends'[c] = IF c = d THEN 1 ELSE sends[c]
    BY <1>0, <1>12, <2>0 DEF SendResponse, ConnectionType
  <2>2. \A g \in Conns : d \notin pend[g]
    BY <1>0, <2>0 DEF PendingInv
  <2>3. PendingInv'
    BY <1>0, <2>0, <2>1, <2>2, KeepAnswering DEF PendingInv, InProgress, ConnectionType
  <2>4. AnswerInv'
    BY <1>0, <2>0, <2>1 DEF AnswerInv, InProgress
  <2> QED
    BY <2>3, <2>4
<1>13. ASSUME NEW d \in Diags, ReceiveDiagnostic(d) \/ DiagnosticTimeout(d)
       PROVE  PendingInv' /\ AnswerInv'
  <2>1. /\ InProgress(d) /\ removeDiagnostic(d)
        /\ UNCHANGED <<dconn, sending, sends, tracked, closing>>
    BY <1>13 DEF ReceiveDiagnostic, DiagnosticTimeout, InProgress, connVars, adminVars
  <2> QED
    BY <1>0, <2>1, RemoveRequest
<1>14. CASE UNCHANGED connectionVars
  BY <1>1, <1>14 DEF connectionVars, connVars, adminVars
<1> QED
  BY <1>2, <1>3, <1>4, <1>5, <1>6, <1>7, <1>8, <1>9, <1>10, <1>11, <1>12, <1>13, <1>14
  DEF ConnectionNext, AdminStep, HandlerStep, DiagStep

-----------------------------------------------------------------------------
\* A handler that reports the Server online is about to register its connection.
LEMMA NextStatus ==
  ConnectionType /\ RegistryInv /\ StatusInv /\ [ConnectionNext]_connectionVars => StatusInv'
<1> SUFFICES ASSUME ConnectionType, RegistryInv, StatusInv, [ConnectionNext]_connectionVars
             PROVE  StatusInv'
  OBVIOUS
<1> USE ConnectionAssumption
    DEF ConnectionType, StatusInv, OnlineMeansConnected, StatusFollowsConnection, dbVars,
        connVars, adminVars, boundVars
<1>1. CASE UNCHANGED <<agentId, archived, status, tracked, hpc, haid, adrift>>
  BY <1>1
<1>2. ASSUME NEW a \in Admins, RotateEnrollment(a) \/ Archive(a) PROVE StatusInv'
  BY <1>2 DEF RotateEnrollment, Archive
<1>3. CASE RegisterAgent
  BY <1>3 DEF RegisterAgent
<1>4. ASSUME NEW a \in Admins, CloseConnections(a) PROVE StatusInv'
  BY <1>4 DEF CloseConnections
<1>5. ASSUME NEW a \in Admins, FinishClosing(a) PROVE StatusInv'
  BY <1>1, <1>5 DEF FinishClosing
<1>8. ASSUME NEW h \in Conns, Connect(h) PROVE StatusInv'
  BY <1>8 DEF Connect
<1>9. ASSUME NEW h \in Conns, SetAgentConnected(h) PROVE StatusInv'
  BY <1>9 DEF SetAgentConnected
<1>10. ASSUME NEW h \in Conns, TrackConnection(h) PROVE StatusInv'
  BY <1>10 DEF TrackConnection
<1>11. ASSUME NEW h \in Conns, Heartbeat(h) \/ ReadError(h) PROVE StatusInv'
  BY <1>11 DEF Heartbeat, ReadError
<1>12. ASSUME NEW h \in Conns, DisconnectCurrent(h) PROVE StatusInv'
  BY <1>12 DEF DisconnectCurrent, SetAgentOffline
<1>13. ASSUME NEW h \in Conns, DisconnectHalf(h) PROVE StatusInv'
  BY <1>13 DEF DisconnectHalf
<1>14. ASSUME NEW h \in Conns, SocketBreaks(h) PROVE StatusInv'
  BY <1>1, <1>14 DEF SocketBreaks
<1>15. CASE RestartPanel
  BY <1>15 DEF RestartPanel, ResetOnline
<1>16. ASSUME NEW d \in Diags, DiagStep(d) \/ DiagnosticTimeout(d) PROVE StatusInv'
  BY <1>1, <1>16 DEF DiagStep, DiagnosticTimeout, RegisterDiagnostic, SendDiagnostic,
     ResolveDiagnostic, SendResponse, ReceiveDiagnostic
<1>17. CASE UNCHANGED connectionVars
  BY <1>1, <1>17 DEF connectionVars
<1> QED
  BY <1>2, <1>3, <1>4, <1>5, <1>8, <1>9, <1>10, <1>11, <1>12, <1>13, <1>14, <1>15, <1>16,
     <1>17
  DEF ConnectionNext, AdminStep, HandlerStep

\* The whole invariant, in every reachable state.
LEMMA ConnectionInvAlways == ConnectionSpec => []ConnectionInv
<1>1. ConnectionInv /\ [ConnectionNext]_connectionVars => ConnectionInv'
  BY NextType, NextRegistry, NextRequests, NextStatus DEF ConnectionInv, DiagnosticsInv
<1> QED
  BY <1>1, InitConnection, PTL DEF ConnectionSpec

(***************************************************************************)
(* The channel of a diagnostics request never gets a second response, so   *)
(* failPendingDiagnostics never blocks while it holds connectionsMu; a     *)
(* request that nobody has answered is registered with a connection whose  *)
(* end will answer it; and a connection serves one request at a time.      *)
(***************************************************************************)
THEOREM DiagnosticsAnsweredOnce == ConnectionSpec => []AnsweredOnce
<1>1. ConnectionInv => AnsweredOnce
  <2> SUFFICES ASSUME ConnectionInv PROVE AnsweredOnce
    OBVIOUS
  <2>1. \A d \in Diags : Unanswered(d) => d \in pend[dconn[d]] /\ dconn[d] \in Conns
    BY DEF ConnectionInv, DiagnosticsInv, AnswerInv, Unanswered, InProgress
  <2>2. \A d \in Diags : Unanswered(d) => dconn[d] \in Answering
    BY <2>1 DEF ConnectionInv, DiagnosticsInv, PendingInv
  <2>3. \A c, d \in Diags : Unanswered(c) /\ Unanswered(d) /\ dconn[c] = dconn[d] => c = d
    BY <2>1 DEF ConnectionInv, DiagnosticsInv, PendingInv
  <2>4. \A d \in Diags : sends[d] <= 1
    BY DEF ConnectionInv, DiagnosticsInv, AnswerInv
  <2> QED
    BY <2>1, <2>2, <2>3, <2>4 DEF AnsweredOnce, Answering
<1> QED
  BY <1>1, ConnectionInvAlways, PTL

(***************************************************************************)
(* A Server shown online has a current connection or one that is being     *)
(* registered, however handlers of replaced, revoked and closed            *)
(* connections interleave with requests of administrators that cross each  *)
(* other and with restarts of the Panel; except after the two events that  *)
(* adrift records, and then only until the status is next written.         *)
(***************************************************************************)
THEOREM OnlineIsConnected == ConnectionSpec => []OnlineMeansConnected
<1>1. ConnectionInv => OnlineMeansConnected
  BY DEF ConnectionInv, StatusInv
<1> QED
  BY <1>1, ConnectionInvAlways, PTL

-----------------------------------------------------------------------------
(***************************************************************************)
(* What is still to do, by name: the tails of every list of operations.    *)
(***************************************************************************)
DropDb == Rm("db", "restore")
DropKey == Rm("key", "restore")

S6 == <<Publish>>
S5 == <<Copy("key", "data", "tmp"), Publish>>
S4(k) == IF k THEN <<Copy("wal", "data", "tmp"), Copy("key", "data", "tmp"), Publish>>
         ELSE <<Copy("wal", "data", "tmp"), Publish>>
S3(k) == IF k THEN <<Copy("db", "data", "tmp"), Copy("wal", "data", "tmp"),
                     Copy("key", "data", "tmp"), Publish>>
         ELSE <<Copy("db", "data", "tmp"), Copy("wal", "data", "tmp"), Publish>>
S2(k) == IF k THEN <<MkDir("tmp"), Copy("db", "data", "tmp"), Copy("wal", "data", "tmp"),
                     Copy("key", "data", "tmp"), Publish>>
         ELSE <<MkDir("tmp"), Copy("db", "data", "tmp"), Copy("wal", "data", "tmp"), Publish>>
S1(k) == IF k THEN <<RmDir("tmp"), MkDir("tmp"), Copy("db", "data", "tmp"),
                     Copy("wal", "data", "tmp"), Copy("key", "data", "tmp"), Publish>>
         ELSE <<RmDir("tmp"), MkDir("tmp"), Copy("db", "data", "tmp"),
                Copy("wal", "data", "tmp"), Publish>>

R5 == <<Move("key", "restore", "data")>>
R4 == <<Rm("key", "data"), Move("key", "restore", "data")>>
R3(k) == IF k THEN <<Move("db", "restore", "data"), Rm("key", "data"),
                     Move("key", "restore", "data")>>
         ELSE <<Move("db", "restore", "data")>>
R2(k) == IF k THEN <<Rm("wal", "data"), Move("db", "restore", "data"), Rm("key", "data"),
                     Move("key", "restore", "data")>>
         ELSE <<Rm("wal", "data"), Move("db", "restore", "data")>>
R1(k) == IF k THEN <<Rm("db", "data"), Rm("wal", "data"), Move("db", "restore", "data"),
                     Rm("key", "data"), Move("key", "restore", "data")>>
         ELSE <<Rm("db", "data"), Rm("wal", "data"), Move("db", "restore", "data")>>

L10 == <<RmDir("rollback")>>
L9 == <<DropKey, RmDir("rollback")>>
L8 == <<DropDb, DropKey, RmDir("rollback")>>
L7 == <<Unmark, DropDb, DropKey, RmDir("rollback")>>
L6 == <<Copy("key", "rollback", "data"), Unmark, DropDb, DropKey, RmDir("rollback")>>
L5(k) == IF k THEN <<Copy("wal", "rollback", "data"), Copy("key", "rollback", "data"),
                     Unmark, DropDb, DropKey, RmDir("rollback")>>
         ELSE <<Copy("wal", "rollback", "data"), Unmark, DropDb, DropKey, RmDir("rollback")>>
L4(k) == IF k THEN <<Copy("db", "rollback", "data"), Copy("wal", "rollback", "data"),
                     Copy("key", "rollback", "data"), Unmark, DropDb, DropKey, RmDir("rollback")>>
         ELSE <<Copy("db", "rollback", "data"), Copy("wal", "rollback", "data"),
                Unmark, DropDb, DropKey, RmDir("rollback")>>
L3 == <<Rm("key", "data"), Copy("db", "rollback", "data"), Copy("wal", "rollback", "data"),
        Copy("key", "rollback", "data"), Unmark, DropDb, DropKey, RmDir("rollback")>>
L2(k) == IF k THEN <<Rm("wal", "data"), Rm("key", "data"), Copy("db", "rollback", "data"),
                     Copy("wal", "rollback", "data"), Copy("key", "rollback", "data"),
                     Unmark, DropDb, DropKey, RmDir("rollback")>>
         ELSE <<Rm("wal", "data"), Copy("db", "rollback", "data"),
                Copy("wal", "rollback", "data"), Unmark, DropDb, DropKey, RmDir("rollback")>>
L1(k) == IF k THEN <<Rm("db", "data"), Rm("wal", "data"), Rm("key", "data"),
                     Copy("db", "rollback", "data"), Copy("wal", "rollback", "data"),
                     Copy("key", "rollback", "data"), Unmark, DropDb, DropKey, RmDir("rollback")>>
         ELSE <<Rm("db", "data"), Rm("wal", "data"), Copy("db", "rollback", "data"),
                Copy("wal", "rollback", "data"), Unmark, DropDb, DropKey, RmDir("rollback")>>

C3 == <<RmDir("tmp"), RmDir("rollback")>>
C2 == <<DropKey, RmDir("tmp"), RmDir("rollback")>>
C1 == <<DropDb, DropKey, RmDir("tmp"), RmDir("rollback")>>

D3 == <<DropKey>>
D2 == <<DropDb, DropKey>>
D1 == <<Unmark, DropDb, DropKey>>
D0 == <<RmDir("tmp"), Unmark, DropDb, DropKey>>

M1 == <<Unmark>>

T3(a) == <<Mark([db |-> a.db, key |-> a.key])>>
T2(a) == <<Put("key", a.key), Mark([db |-> a.db, key |-> a.key])>>
T1(a) == IF a.key # NoFile
         THEN <<Put("db", a.db), Put("key", a.key), Mark([db |-> a.db, key |-> a.key])>>
         ELSE <<Put("db", a.db), Mark([db |-> a.db, key |-> a.key])>>

(***************************************************************************)
(* Types.                                                                  *)
(***************************************************************************)
DbFile == {NoFile, Partial} \cup Databases
LogFile == {NoFile, Partial} \cup Logs
KeyFile == {NoFile, Partial} \cup Keys

DirFiles == [db : DbFile, wal : LogFile, key : KeyFile]

DiskType(d) ==
  d \in [files : [Dirs -> DirFiles], dirs : SUBSET Dirs, marker : Archives \cup {NoFile}]

\* An archive that has no password, or the key of its password.
Sound(a) == a.db.key \in {NoFile, a.key}

RestoreType ==
  /\ DiskType(disk)
  /\ backup \in Archives \cup {NoFile} /\ (backup # NoFile => Sound(backup))
  /\ served \in Databases /\ requested \subseteq Databases
  /\ writes \in Nat

(***************************************************************************)
(* What a start has to go by.  While a marker and a rollback directory are *)
(* there, the rollback copy counts; otherwise the data directory does.     *)
(***************************************************************************)
Pending(d) == d.marker # NoFile
Saved(d) == "rollback" \in d.dirs
Keyed(d) == d.marker.key # NoFile

KeptFile(d, f) ==
  IF Pending(d) /\ Saved(d) /\ (f = "key" => Keyed(d)) THEN d.files["rollback"][f]
  ELSE d.files["data"][f]

Content(d) == Logical([f \in Files |-> KeptFile(d, f)])

Good(d, s, accepted) ==
  /\ Content(d) \in {s} \cup accepted
  /\ Content(d).key \in {NoFile, KeptFile(d, "key")} /\ KeptFile(d, "key") # Partial

MarkerInv == Pending(disk) => disk.marker.db \in requested /\ Sound(disk.marker)

(***************************************************************************)
(* How far each phase has come.                                            *)
(***************************************************************************)
Same(d, f, a, b) == d.files[a][f] = d.files[b][f]

Staged(d) ==
  /\ d.files["restore"]["db"] = d.marker.db
  /\ Keyed(d) => d.files["restore"]["key"] = d.marker.key

Restored(d) ==
  /\ d.files["data"]["db"] = d.marker.db /\ d.files["data"]["wal"] = NoFile
  /\ Keyed(d) => d.files["data"]["key"] = d.marker.key

SavingInv(d, ops) ==
  /\ Pending(d) /\ Staged(d)
  /\ \/ ~Saved(d) /\ ops \in {S1(Keyed(d)), S2(Keyed(d)), S3(Keyed(d))}
     \/ ~Saved(d) /\ ops = S4(Keyed(d)) /\ Same(d, "db", "tmp", "data")
     \/ ~Saved(d) /\ ops = S5 /\ Keyed(d)
        /\ Same(d, "db", "tmp", "data") /\ Same(d, "wal", "tmp", "data")
     \/ ~Saved(d) /\ ops = S6 /\ Same(d, "db", "tmp", "data") /\ Same(d, "wal", "tmp", "data")
        /\ (Keyed(d) => Same(d, "key", "tmp", "data"))
     \/ Saved(d) /\ ops = <<>>

ReplacingInv(d, ops) ==
  /\ Pending(d) /\ Saved(d)
  /\ \/ ops \in {R1(Keyed(d)), R2(Keyed(d))} /\ Staged(d)
     \/ ops = R3(Keyed(d)) /\ Staged(d) /\ d.files["data"]["wal"] = NoFile
     \/ /\ ops \in {R4, R5} /\ Keyed(d) /\ d.files["restore"]["key"] = d.marker.key
        /\ d.files["data"]["db"] = d.marker.db /\ d.files["data"]["wal"] = NoFile
     \/ ops = <<>> /\ Restored(d)

CommitInv(d, ops) ==
  \/ ops = M1 /\ Pending(d) /\ Saved(d) /\ Restored(d)
  \/ ops = <<>> /\ ~Pending(d)

RollbackInv(d, ops) ==
  \/ /\ Pending(d) /\ Saved(d)
     /\ \/ ops \in {L1(Keyed(d)), L2(Keyed(d)), L4(Keyed(d))}
        \/ ops = L3 /\ Keyed(d)
        \/ ops = L5(Keyed(d)) /\ Same(d, "db", "data", "rollback")
        \/ ops = L6 /\ Keyed(d)
           /\ Same(d, "db", "data", "rollback") /\ Same(d, "wal", "data", "rollback")
        \/ ops = L7 /\ Same(d, "db", "data", "rollback") /\ Same(d, "wal", "data", "rollback")
           /\ (Keyed(d) => Same(d, "key", "data", "rollback"))
  \/ ~Pending(d) /\ ops \in {L8, L9, L10}
  \/ ~Pending(d) /\ ~Saved(d) /\ ops = <<>>

CleanupInv(d, ops) == ~Pending(d) /\ (ops \in {C1, C2, C3, L10} \/ (ops = <<>> /\ ~Saved(d)))

CommittedInv(d, ops) == ~Pending(d) /\ (ops = L10 \/ (ops = <<>> /\ ~Saved(d)))

DiscardingInv(d, ops) == ~Saved(d) /\ ops \in {D0, D1, D2, D3, <<>>}

\* The Panel serves: the data directory is the database.
Serving(d) == ~Saved(d) /\ d.files["data"]["db"] \in Databases

StagingInv(ops) ==
  \/ ops = <<>>
  \/ \E a \in Archives :
       Sound(a) /\ (ops \in {T1(a), T3(a)} \/ (a.key # NoFile /\ ops = T2(a)))

PhaseInv(d, p, ops) ==
  \/ p = "down" /\ ops = <<>>
  \/ p = "cleanup" /\ CleanupInv(d, ops)
  \/ p = "saving" /\ SavingInv(d, ops)
  \/ p = "replacing" /\ ReplacingInv(d, ops)
  \/ p = "verifying" /\ ops = <<>> /\ Pending(d) /\ Saved(d) /\ Restored(d)
  \/ p = "commit" /\ CommitInv(d, ops)
  \/ p = "committed" /\ CommittedInv(d, ops)
  \/ p = "rollback" /\ RollbackInv(d, ops)
  \/ p = "discarding" /\ DiscardingInv(d, ops)
  \/ p = "opening" /\ ~Saved(d) /\ ops = <<>>
  \/ p = "serving" /\ Serving(d) /\ ops = <<>>
  \/ p = "staging" /\ Serving(d) /\ StagingInv(ops)
  \/ p = "unstaging" /\ Serving(d) /\ ops \in {D2, D3, <<>>}

DiskInv ==
  /\ RestoreType /\ Good(disk, served, requested) /\ MarkerInv /\ PhaseInv(disk, phase, todo)
  /\ Online => Content(disk) = served

RestoreInv == cleanups \in Nat /\ (cleanups = 0 => DiskInv)


(***************************************************************************)
(* The names unfolded.                                                     *)
(***************************************************************************)
First(q, op, rest) == q # <<>> /\ Head(q) = op /\ Tail(q) = rest

\* A restore: the rollback copy,
LEMMA SaveTails ==
  /\ First(S6, Publish, <<>>)
  /\ First(S5, Copy("key", "data", "tmp"), S6)
  /\ \A k \in BOOLEAN :
       /\ First(S1(k), RmDir("tmp"), S2(k))
       /\ First(S2(k), MkDir("tmp"), S3(k))
       /\ First(S3(k), Copy("db", "data", "tmp"), S4(k))
       /\ First(S4(k), Copy("wal", "data", "tmp"), IF k THEN S5 ELSE S6)
BY DEF First, S1, S2, S3, S4, S5, S6

\* the replacement,
LEMMA ReplaceTails ==
  /\ First(R5, Move("key", "restore", "data"), <<>>)
  /\ First(R4, Rm("key", "data"), R5)
  /\ \A k \in BOOLEAN :
       /\ First(R1(k), Rm("db", "data"), R2(k))
       /\ First(R2(k), Rm("wal", "data"), R3(k))
       /\ First(R3(k), Move("db", "restore", "data"), IF k THEN R4 ELSE <<>>)
BY DEF First, R1, R2, R3, R4, R5

\* and the rollback.
LEMMA RollbackTails ==
  /\ First(L10, RmDir("rollback"), <<>>)
  /\ First(L9, DropKey, L10)
  /\ First(L8, DropDb, L9)
  /\ First(L7, Unmark, L8)
  /\ First(L6, Copy("key", "rollback", "data"), L7)
  /\ First(L3, Rm("key", "data"), L4(TRUE))
  /\ \A k \in BOOLEAN :
       /\ First(L5(k), Copy("wal", "rollback", "data"), IF k THEN L6 ELSE L7)
       /\ First(L4(k), Copy("db", "rollback", "data"), L5(k))
       /\ First(L2(k), Rm("wal", "data"), IF k THEN L3 ELSE L4(k))
       /\ First(L1(k), Rm("db", "data"), L2(k))
BY DEF First, L1, L2, L3, L4, L5, L6, L7, L8, L9, L10

\* The other lists.
LEMMA OtherTails ==
  /\ First(C3, RmDir("tmp"), L10)
  /\ First(C2, DropKey, C3)
  /\ First(C1, DropDb, C2)
  /\ First(D3, DropKey, <<>>)
  /\ First(D2, DropDb, D3)
  /\ First(D1, Unmark, D2)
  /\ First(D0, RmDir("tmp"), D1)
  /\ First(M1, Unmark, <<>>)
  /\ \A a :
       /\ First(T3(a), Mark([db |-> a.db, key |-> a.key]), <<>>)
       /\ First(T2(a), Put("key", a.key), T3(a))
       /\ First(T1(a), Put("db", a.db), IF a.key # NoFile THEN T2(a) ELSE T3(a))
BY DEF First, L10, C1, C2, C3, D0, D1, D2, D3, M1, T1, T2, T3


(***************************************************************************)
(* The lists as they are built and as they are named.                      *)
(***************************************************************************)
LEMMA SameSequence ==
  ASSUME NEW S, NEW s \in Seq(S), NEW t \in Seq(S), Len(s) = Len(t),
         \A i \in 1 .. Len(s) : s[i] = t[i]
  PROVE  s = t
OBVIOUS

LEMMA Joins ==
  /\ \A a, b, c, d : <<a>> \o <<b, c, d>> = <<a, b, c, d>>
  /\ \A a, b, c : <<a>> \o <<b>> \o <<c>> = <<a, b, c>>
  /\ \A a, b : <<a>> \o <<>> \o <<b>> = <<a, b>>
  /\ \A a, b, c, d, e : <<a, b, c>> \o <<d, e>> = <<a, b, c, d, e>>
  /\ \A a, b, c : <<a, b, c>> \o <<>> = <<a, b, c>>
  /\ \A a, b, c, d, e, f : <<a, b, c, d>> \o <<e>> \o <<f>> = <<a, b, c, d, e, f>>
  /\ \A a, b, c, d, e : <<a, b, c, d>> \o <<>> \o <<e>> = <<a, b, c, d, e>>
  /\ \A a, b, c, d, e, f, g, h, i, j :
       <<a, b>> \o <<c>> \o <<d, e>> \o <<f>> \o <<g, h, i>> \o <<j>>
       = <<a, b, c, d, e, f, g, h, i, j>>
  /\ \A a, b, c, d, e, f, g, h :
       <<a, b>> \o <<>> \o <<c, d>> \o <<>> \o <<e, f, g>> \o <<h>> = <<a, b, c, d, e, f, g, h>>
<1>1. ASSUME NEW a, NEW b, NEW c, NEW d
     PROVE  <<a>> \o <<b, c, d>> = <<a, b, c, d>>
  <2> DEFINE S == {a, b, c, d}
             s == <<a>> \o <<b, c, d>>
  <2>1. <<a>> \in Seq(S) /\ <<b, c, d>> \in Seq(S) /\ <<a, b, c, d>> \in Seq(S)
    OBVIOUS
  <2>2. s \in Seq(S) /\ Len(s) = 4
    BY <2>1
  <2>3. \A x \in 1 .. 4 : s[x] = <<a, b, c, d>>[x]
    BY <2>1
  <2> QED
    BY <2>1, <2>2, <2>3, SameSequence
<1>2. ASSUME NEW a, NEW b, NEW c
     PROVE  <<a>> \o <<b>> \o <<c>> = <<a, b, c>>
  <2> DEFINE S == {a, b, c}
             s == <<a>> \o <<b>> \o <<c>>
  <2>1. <<a>> \in Seq(S) /\ <<b>> \in Seq(S) /\ <<c>> \in Seq(S) /\ <<a, b, c>> \in Seq(S)
    OBVIOUS
  <2>2. s \in Seq(S) /\ Len(s) = 3
    BY <2>1
  <2>3. \A x \in 1 .. 3 : s[x] = <<a, b, c>>[x]
    BY <2>1
  <2> QED
    BY <2>1, <2>2, <2>3, SameSequence
<1>3. ASSUME NEW a, NEW b
     PROVE  <<a>> \o <<>> \o <<b>> = <<a, b>>
  <2> DEFINE S == {a, b}
             s == <<a>> \o <<>> \o <<b>>
  <2>1. <<a>> \in Seq(S) /\ <<b>> \in Seq(S) /\ <<a, b>> \in Seq(S) /\ <<>> \in Seq(S)
    OBVIOUS
  <2>2. s \in Seq(S) /\ Len(s) = 2
    BY <2>1
  <2>3. \A x \in 1 .. 2 : s[x] = <<a, b>>[x]
    BY <2>1
  <2> QED
    BY <2>1, <2>2, <2>3, SameSequence
<1>4. ASSUME NEW a, NEW b, NEW c, NEW d, NEW e
     PROVE  <<a, b, c>> \o <<d, e>> = <<a, b, c, d, e>>
  <2> DEFINE S == {a, b, c, d, e}
             s == <<a, b, c>> \o <<d, e>>
  <2>1. <<a, b, c>> \in Seq(S) /\ <<d, e>> \in Seq(S) /\ <<a, b, c, d, e>> \in Seq(S)
    OBVIOUS
  <2>2. s \in Seq(S) /\ Len(s) = 5
    BY <2>1
  <2>3. \A x \in 1 .. 5 : s[x] = <<a, b, c, d, e>>[x]
    BY <2>1
  <2> QED
    BY <2>1, <2>2, <2>3, SameSequence
<1>5. ASSUME NEW a, NEW b, NEW c
     PROVE  <<a, b, c>> \o <<>> = <<a, b, c>>
  <2> DEFINE S == {a, b, c}
             s == <<a, b, c>> \o <<>>
  <2>1. <<a, b, c>> \in Seq(S) /\ <<a, b, c>> \in Seq(S) /\ <<>> \in Seq(S)
    OBVIOUS
  <2>2. s \in Seq(S) /\ Len(s) = 3
    BY <2>1
  <2>3. \A x \in 1 .. 3 : s[x] = <<a, b, c>>[x]
    BY <2>1
  <2> QED
    BY <2>1, <2>2, <2>3, SameSequence
<1>6. ASSUME NEW a, NEW b, NEW c, NEW d, NEW e, NEW f
     PROVE  <<a, b, c, d>> \o <<e>> \o <<f>> = <<a, b, c, d, e, f>>
  <2> DEFINE S == {a, b, c, d, e, f}
             s == <<a, b, c, d>> \o <<e>> \o <<f>>
  <2>1. <<a, b, c, d>> \in Seq(S) /\ <<e>> \in Seq(S) /\ <<f>> \in Seq(S)
          /\ <<a, b, c, d, e, f>> \in Seq(S)
    OBVIOUS
  <2>2. s \in Seq(S) /\ Len(s) = 6
    BY <2>1
  <2>3. \A x \in 1 .. 6 : s[x] = <<a, b, c, d, e, f>>[x]
    BY <2>1
  <2> QED
    BY <2>1, <2>2, <2>3, SameSequence
<1>7. ASSUME NEW a, NEW b, NEW c, NEW d, NEW e
     PROVE  <<a, b, c, d>> \o <<>> \o <<e>> = <<a, b, c, d, e>>
  <2> DEFINE S == {a, b, c, d, e}
             s == <<a, b, c, d>> \o <<>> \o <<e>>
  <2>1. <<a, b, c, d>> \in Seq(S) /\ <<e>> \in Seq(S) /\ <<a, b, c, d, e>> \in Seq(S)
          /\ <<>> \in Seq(S)
    OBVIOUS
  <2>2. s \in Seq(S) /\ Len(s) = 5
    BY <2>1
  <2>3. \A x \in 1 .. 5 : s[x] = <<a, b, c, d, e>>[x]
    BY <2>1
  <2> QED
    BY <2>1, <2>2, <2>3, SameSequence
<1>8. ASSUME NEW a, NEW b, NEW c, NEW d, NEW e, NEW f, NEW g, NEW h, NEW i, NEW j
     PROVE  <<a, b>> \o <<c>> \o <<d, e>> \o <<f>> \o <<g, h, i>> \o <<j>>
              = <<a, b, c, d, e, f, g, h, i, j>>
  <2> DEFINE S == {a, b, c, d, e, f, g, h, i, j}
             s == <<a, b>> \o <<c>> \o <<d, e>> \o <<f>> \o <<g, h, i>> \o <<j>>
  <2>1. <<a, b>> \in Seq(S) /\ <<c>> \in Seq(S) /\ <<d, e>> \in Seq(S) /\ <<f>> \in Seq(S)
          /\ <<g, h, i>> \in Seq(S) /\ <<j>> \in Seq(S)
          /\ <<a, b, c, d, e, f, g, h, i, j>> \in Seq(S)
    OBVIOUS
  <2>2. s \in Seq(S) /\ Len(s) = 10
    BY <2>1
  <2>3. \A x \in 1 .. 10 : s[x] = <<a, b, c, d, e, f, g, h, i, j>>[x]
    BY <2>1
  <2> QED
    BY <2>1, <2>2, <2>3, SameSequence
<1>9. ASSUME NEW a, NEW b, NEW c, NEW d, NEW e, NEW f, NEW g, NEW h
     PROVE  <<a, b>> \o <<>> \o <<c, d>> \o <<>> \o <<e, f, g>> \o <<h>>
              = <<a, b, c, d, e, f, g, h>>
  <2> DEFINE S == {a, b, c, d, e, f, g, h}
             s == <<a, b>> \o <<>> \o <<c, d>> \o <<>> \o <<e, f, g>> \o <<h>>
  <2>1. <<a, b>> \in Seq(S) /\ <<c, d>> \in Seq(S) /\ <<e, f, g>> \in Seq(S)
          /\ <<h>> \in Seq(S) /\ <<a, b, c, d, e, f, g, h>> \in Seq(S) /\ <<>> \in Seq(S)
    OBVIOUS
  <2>2. s \in Seq(S) /\ Len(s) = 8
    BY <2>1
  <2>3. \A x \in 1 .. 8 : s[x] = <<a, b, c, d, e, f, g, h>>[x]
    BY <2>1
  <2> QED
    BY <2>1, <2>2, <2>3, SameSequence
<1> QED
  BY <1>1, <1>2, <1>3, <1>4, <1>5, <1>6, <1>7, <1>8, <1>9

LEMMA Lists ==
  /\ DiscardOps = D1 /\ <<RmDir("tmp")>> \o DiscardOps = D0
  /\ CleanupOps = C1 /\ UnstageOps = D2
  /\ \A m : /\ SaveOps(m) = S1(m.key # NoFile)
            /\ ReplaceOps(m) = R1(m.key # NoFile)
            /\ RollbackOps(m) = L1(m.key # NoFile)
            /\ StageOps(m) = T1(m)
<1>1. DiscardOps = D1 /\ <<RmDir("tmp")>> \o DiscardOps = D0
  BY Joins DEF DiscardOps, D1, D0, DropDb, DropKey
<1>2. CleanupOps = C1 /\ UnstageOps = D2
  BY DEF CleanupOps, C1, UnstageOps, D2, DropDb, DropKey
<1>3. ASSUME NEW m, m.key # NoFile
      PROVE  /\ SaveOps(m) = S1(m.key # NoFile)
             /\ ReplaceOps(m) = R1(m.key # NoFile)
             /\ RollbackOps(m) = L1(m.key # NoFile)
             /\ StageOps(m) = T1(m)
  <2>1. \A ops : KeyOps(m, ops) = ops
    BY <1>3 DEF KeyOps
  <2>2. SaveOps(m) = S1(m.key # NoFile)
    <3>1. <<RmDir("tmp"), MkDir("tmp"), Copy("db", "data", "tmp"), Copy("wal", "data", "tmp")>>
        \o <<Copy("key", "data", "tmp")>> \o <<Publish>>
          = <<RmDir("tmp"), MkDir("tmp"), Copy("db", "data", "tmp"), Copy("wal", "data", "tmp"),
              Copy("key", "data", "tmp"), Publish>>
      BY Joins
    <3>2. SaveOps(m) =
        <<RmDir("tmp"), MkDir("tmp"), Copy("db", "data", "tmp"), Copy("wal", "data", "tmp")>>
        \o <<Copy("key", "data", "tmp")>> \o <<Publish>>
      BY <2>1 DEF SaveOps
    <3> QED
      BY <1>3, <3>1, <3>2 DEF S1
  <2>3. ReplaceOps(m) = R1(m.key # NoFile)
    <3>1. <<Rm("db", "data"), Rm("wal", "data"), Move("db", "restore", "data")>>
        \o <<Rm("key", "data"), Move("key", "restore", "data")>>
          = <<Rm("db", "data"), Rm("wal", "data"), Move("db", "restore", "data"),
              Rm("key", "data"), Move("key", "restore", "data")>>
      BY Joins
    <3>2. ReplaceOps(m) =
        <<Rm("db", "data"), Rm("wal", "data"), Move("db", "restore", "data")>>
        \o <<Rm("key", "data"), Move("key", "restore", "data")>>
      BY <2>1 DEF ReplaceOps
    <3> QED
      BY <1>3, <3>1, <3>2 DEF R1
  <2>4. RollbackOps(m) = L1(m.key # NoFile)
    <3>1. <<Rm("db", "data"), Rm("wal", "data")>> \o <<Rm("key", "data")>>
        \o <<Copy("db", "rollback", "data"), Copy("wal", "rollback", "data")>>
        \o <<Copy("key", "rollback", "data")>> \o <<Unmark, DropDb, DropKey>>
        \o <<RmDir("rollback")>>
          = <<Rm("db", "data"), Rm("wal", "data"), Rm("key", "data"),
              Copy("db", "rollback", "data"), Copy("wal", "rollback", "data"),
              Copy("key", "rollback", "data"), Unmark, DropDb, DropKey, RmDir("rollback")>>
      BY Joins
    <3>2. RollbackOps(m) = <<Rm("db", "data"), Rm("wal", "data")>> \o <<Rm("key", "data")>>
        \o <<Copy("db", "rollback", "data"), Copy("wal", "rollback", "data")>>
        \o <<Copy("key", "rollback", "data")>> \o <<Unmark, DropDb, DropKey>>
        \o <<RmDir("rollback")>>
      <4>1. KeyOps(m, <<Rm("key", "data")>>) = <<Rm("key", "data")>>
        BY <2>1
      <4>2. KeyOps(m, <<Copy("key", "rollback", "data")>>) = <<Copy("key", "rollback", "data")>>
        BY <2>1
      <4> QED
        BY <4>1, <4>2, Zenon DEF RollbackOps, DiscardOps, DropDb, DropKey
    <3> QED
      BY <1>3, <3>1, <3>2 DEF L1
  <2>5. StageOps(m) = T1(m)
    <3>1. <<Put("db", m.db)>> \o <<Put("key", m.key)>> \o <<Mark([db |-> m.db, key |-> m.key])>>
          = <<Put("db", m.db), Put("key", m.key), Mark([db |-> m.db, key |-> m.key])>>
      BY Joins
    <3> QED
      BY <1>3, <2>1, <3>1 DEF StageOps, T1
  <2> QED
    BY <2>2, <2>3, <2>4, <2>5
<1>4. ASSUME NEW m, m.key = NoFile
      PROVE  /\ SaveOps(m) = S1(m.key # NoFile)
             /\ ReplaceOps(m) = R1(m.key # NoFile)
             /\ RollbackOps(m) = L1(m.key # NoFile)
             /\ StageOps(m) = T1(m)
  <2>1. \A ops : KeyOps(m, ops) = <<>>
    BY <1>4 DEF KeyOps
  <2>2. SaveOps(m) = S1(m.key # NoFile)
    <3>1. <<RmDir("tmp"), MkDir("tmp"), Copy("db", "data", "tmp"), Copy("wal", "data", "tmp")>>
        \o <<>> \o <<Publish>>
          = <<RmDir("tmp"), MkDir("tmp"), Copy("db", "data", "tmp"), Copy("wal", "data", "tmp"),
              Publish>>
      BY Joins
    <3>2. SaveOps(m) =
        <<RmDir("tmp"), MkDir("tmp"), Copy("db", "data", "tmp"), Copy("wal", "data", "tmp")>>
        \o <<>> \o <<Publish>>
      BY <2>1 DEF SaveOps
    <3> QED
      BY <1>4, <3>1, <3>2 DEF S1
  <2>3. ReplaceOps(m) = R1(m.key # NoFile)
    <3>1. <<Rm("db", "data"), Rm("wal", "data"), Move("db", "restore", "data")>> \o <<>>
          = <<Rm("db", "data"), Rm("wal", "data"), Move("db", "restore", "data")>>
      BY Joins
    <3>2. ReplaceOps(m) =
        <<Rm("db", "data"), Rm("wal", "data"), Move("db", "restore", "data")>> \o <<>>
      BY <2>1 DEF ReplaceOps
    <3> QED
      BY <1>4, <3>1, <3>2 DEF R1
  <2>4. RollbackOps(m) = L1(m.key # NoFile)
    <3>1. <<Rm("db", "data"), Rm("wal", "data")>> \o <<>>
        \o <<Copy("db", "rollback", "data"), Copy("wal", "rollback", "data")>> \o <<>>
        \o <<Unmark, DropDb, DropKey>> \o <<RmDir("rollback")>>
          = <<Rm("db", "data"), Rm("wal", "data"), Copy("db", "rollback", "data"),
              Copy("wal", "rollback", "data"), Unmark, DropDb, DropKey, RmDir("rollback")>>
      BY Joins
    <3>2. RollbackOps(m) = <<Rm("db", "data"), Rm("wal", "data")>> \o <<>>
        \o <<Copy("db", "rollback", "data"), Copy("wal", "rollback", "data")>> \o <<>>
        \o <<Unmark, DropDb, DropKey>> \o <<RmDir("rollback")>>
      <4>1. KeyOps(m, <<Rm("key", "data")>>) = <<>>
        BY <2>1
      <4>2. KeyOps(m, <<Copy("key", "rollback", "data")>>) = <<>>
        BY <2>1
      <4> QED
        BY <4>1, <4>2, Zenon DEF RollbackOps, DiscardOps, DropDb, DropKey
    <3> QED
      BY <1>4, <3>1, <3>2 DEF L1
  <2>5. StageOps(m) = T1(m)
    BY <1>4, <2>1, Joins DEF StageOps, T1
  <2> QED
    BY <2>2, <2>3, <2>4, <2>5
<1> QED
  BY <1>1, <1>2, <1>3, <1>4

(***************************************************************************)
(* What each operation does to the disk.                                   *)
(***************************************************************************)
FileType(f) == CASE f = "db" -> DbFile [] f = "wal" -> LogFile [] OTHER -> KeyFile

LEMMA FileTypes ==
  ASSUME NEW d, DiskType(d), NEW a \in Dirs
  PROVE  /\ \A f \in Files : d.files[a][f] \in FileType(f)
         /\ NoFiles \in DirFiles
         /\ \A f \in Files : NoFiles[f] = NoFile /\ {NoFile, Partial} \subseteq FileType(f)
<1>1. d.files[a] \in DirFiles
  BY DEF DiskType
<1>2. \A f \in Files : d.files[a][f] \in FileType(f)
  BY <1>1 DEF DirFiles, Files, FileType
<1>3. NoFiles \in DirFiles
  BY DEF NoFiles, DirFiles, Files, DbFile, LogFile, KeyFile
<1>4. \A f \in Files : NoFiles[f] = NoFile /\ NoFile \in FileType(f) /\ Partial \in FileType(f)
  BY DEF NoFiles, Files, FileType, DbFile, LogFile, KeyFile
<1> QED
  BY <1>2, <1>3, <1>4

\* e is d with one file changed.
Changed(d, e, a, f, c) ==
  /\ DiskType(e) /\ e.marker = d.marker /\ e.dirs = d.dirs
  /\ e.files[a][f] = c
  /\ \A x \in Dirs, g \in Files : x # a \/ g # f => e.files[x][g] = d.files[x][g]

LEMMA SetFile ==
  ASSUME NEW d, DiskType(d), NEW a \in Dirs, NEW f \in Files, NEW c \in FileType(f)
  PROVE  Changed(d, Set(d, a, f, c), a, f, c)
<1> DEFINE r == [d.files[a] EXCEPT ![f] = c]
           F == [d.files EXCEPT ![a] = r]
           e == [d EXCEPT !.files = F]
<1>1. Set(d, a, f, c) = e
  BY DEF Set
<1>2. d.files \in [Dirs -> DirFiles] /\ d.files[a] \in DirFiles
  BY DEF DiskType
<1>3. r \in DirFiles /\ r[f] = c /\ \A g \in Files : g # f => r[g] = d.files[a][g]
  <2>1. CASE f = "db"
    BY <1>2, <2>1 DEF DirFiles, Files, FileType
  <2>2. CASE f = "wal"
    BY <1>2, <2>2 DEF DirFiles, Files, FileType
  <2>3. CASE f = "key"
    BY <1>2, <2>3 DEF DirFiles, Files, FileType
  <2> QED
    BY <2>1, <2>2, <2>3 DEF Files
<1> HIDE DEF r
<1>4. F \in [Dirs -> DirFiles] /\ F[a] = r /\ \A x \in Dirs : x # a => F[x] = d.files[x]
  BY <1>2, <1>3
<1> HIDE DEF F
<1>5. e.files = F /\ e.marker = d.marker /\ e.dirs = d.dirs /\ DiskType(e)
  BY <1>4 DEF DiskType
<1> HIDE DEF e
<1>6. \A x \in Dirs, g \in Files : x # a \/ g # f => e.files[x][g] = d.files[x][g]
  BY <1>3, <1>4, <1>5
<1> QED
  BY <1>1, <1>3, <1>4, <1>5, <1>6 DEF Changed

\* copyIfExists, removeIfExists, writing a staged file: one file changes.
LEMMA Effects ==
  ASSUME NEW d, DiskType(d), NEW f \in Files
  PROVE  /\ \A a \in Dirs : Changed(d, Do(Rm(f, a), d), a, f, NoFile)
         /\ \A a, b \in Dirs : Changed(d, Do(Copy(f, a, b), d), b, f, d.files[a][f])
         /\ \A c \in FileType(f) : Changed(d, Do(Put(f, c), d), "restore", f, c)
<1>1. ASSUME NEW a \in Dirs PROVE Changed(d, Do(Rm(f, a), d), a, f, NoFile)
  <2>1. Do(Rm(f, a), d) = Set(d, a, f, NoFile)
    BY DEF Do, Rm
  <2> QED
    BY <2>1, FileTypes, SetFile
<1>2. ASSUME NEW a \in Dirs, NEW b \in Dirs
      PROVE  Changed(d, Do(Copy(f, a, b), d), b, f, d.files[a][f])
  <2>1. Do(Copy(f, a, b), d) = Set(d, b, f, d.files[a][f])
    BY DEF Do, Copy
  <2> QED
    BY <2>1, FileTypes, SetFile
<1>3. ASSUME NEW c \in FileType(f) PROVE Changed(d, Do(Put(f, c), d), "restore", f, c)
  <2>1. Do(Put(f, c), d) = Set(d, "restore", f, c)
    BY DEF Do, Put
  <2> QED
    BY <2>1, SetFile DEF Dirs
<1> QED
  BY <1>1, <1>2, <1>3

\* os.Rename of a staged file.
Moved(d, e, f) ==
  /\ DiskType(e) /\ e.marker = d.marker /\ e.dirs = d.dirs
  /\ e.files["data"][f] = d.files["restore"][f]
  /\ \A x \in Dirs, g \in Files :
       (x \notin {"data", "restore"} \/ g # f) => e.files[x][g] = d.files[x][g]

LEMMA MoveEffect ==
  ASSUME NEW d, DiskType(d), NEW f \in Files
  PROVE  Moved(d, Do(Move(f, "restore", "data"), d), f)
<1> DEFINE c == d.files["restore"][f]
           e == Set(d, "data", f, c)
           r == Set(e, "restore", f, NoFile)
<1>1. Do(Move(f, "restore", "data"), d) = r
  BY DEF Do, Move
<1>2. Changed(d, e, "data", f, c)
  BY FileTypes, SetFile DEF Dirs
<1> HIDE DEF e
<1>3. Changed(e, r, "restore", f, NoFile)
  <2>1. DiskType(e) /\ "restore" \in Dirs
    BY <1>2 DEF Changed, Dirs
  <2>2. NoFile \in FileType(f)
    BY <2>1, FileTypes
  <2> QED
    BY <2>1, <2>2, SetFile
<1> HIDE DEF r
<1> QED
  BY <1>1, <1>2, <1>3 DEF Changed, Moved, Dirs

\* os.RemoveAll, whether it finishes or not.
Cleared(d, e, a) ==
  /\ DiskType(e) /\ e.marker = d.marker
  /\ e.dirs \subseteq d.dirs /\ d.dirs \ {a} \subseteq e.dirs
  /\ \A x \in Dirs, g \in Files : x # a => e.files[x][g] = d.files[x][g]

Replaced(d, a, r, D) == [d EXCEPT !.files = [d.files EXCEPT ![a] = r], !.dirs = D]

LEMMA WithDir ==
  ASSUME NEW d, DiskType(d), NEW a \in Dirs, NEW r \in DirFiles, NEW D \in SUBSET Dirs
  PROVE  /\ DiskType(Replaced(d, a, r, D))
         /\ Replaced(d, a, r, D).marker = d.marker /\ Replaced(d, a, r, D).dirs = D
         /\ \A g \in Files : Replaced(d, a, r, D).files[a][g] = r[g]
         /\ \A x \in Dirs, g \in Files : x # a => Replaced(d, a, r, D).files[x][g] = d.files[x][g]
<1> DEFINE F == [d.files EXCEPT ![a] = r]
           e == Replaced(d, a, r, D)
<1>1. d.files \in [Dirs -> DirFiles]
  BY DEF DiskType
<1>2. F \in [Dirs -> DirFiles] /\ F[a] = r /\ \A x \in Dirs : x # a => F[x] = d.files[x]
  BY <1>1
<1>3. e = [d EXCEPT !.files = F, !.dirs = D]
  BY DEF Replaced
<1> HIDE DEF F, e
<1>4. e.files = F /\ e.marker = d.marker /\ e.dirs = D /\ DiskType(e)
  BY <1>2, <1>3 DEF DiskType
<1>5. \A g \in Files : e.files[a][g] = r[g]
  BY <1>2, <1>4
<1>6. \A x \in Dirs, g \in Files : x # a => e.files[x][g] = d.files[x][g]
  BY <1>2, <1>4
<1> QED
  BY <1>4, <1>5, <1>6 DEF e

LEMMA ClearEffect ==
  ASSUME NEW d, DiskType(d), NEW a \in Dirs
  PROVE  /\ Cleared(d, Do(RmDir(a), d), a) /\ a \notin Do(RmDir(a), d).dirs
         /\ \A e \in Torn(RmDir(a), d) : Cleared(d, e, a)
<1>1. Cleared(d, Do(RmDir(a), d), a) /\ a \notin Do(RmDir(a), d).dirs
  <2>1. Do(RmDir(a), d) = Replaced(d, a, NoFiles, d.dirs \ {a})
    BY DEF Do, RmDir, Replaced
  <2>2. NoFiles \in DirFiles /\ d.dirs \ {a} \in SUBSET Dirs
    BY FileTypes DEF DiskType
  <2> QED
    BY <2>1, <2>2, WithDir DEF Cleared
<1>2. ASSUME NEW e \in Torn(RmDir(a), d)
      PROVE  Cleared(d, e, a)
  <2>1. CASE e = d
    BY <2>1 DEF Cleared
  <2>2. CASE e # d
    <3>1. PICK removed \in SUBSET Files :
            e = [d EXCEPT !.files[a] = [f \in Files |-> IF f \in removed THEN NoFile ELSE @[f]]]
      BY <2>2 DEF Torn, RmDir
    <3> DEFINE r == [f \in Files |-> IF f \in removed THEN NoFile ELSE d.files[a][f]]
    <3>2. r \in DirFiles
      BY FileTypes DEF Files, DirFiles, FileType
    <3>3. e = Replaced(d, a, r, d.dirs)
      BY <3>1 DEF DiskType, Replaced
    <3>4. d.dirs \in SUBSET Dirs
      BY DEF DiskType
    <3> HIDE DEF r
    <3> QED
      BY <3>2, <3>3, <3>4, WithDir DEF Cleared
  <2> QED
    BY <2>1, <2>2
<1> QED
  BY <1>1, <1>2

LEMMA MkDirEffect ==
  ASSUME NEW d, DiskType(d), NEW e, e = Do(MkDir("tmp"), d)
  PROVE  DiskType(e) /\ e.files = d.files /\ e.marker = d.marker /\ (Saved(e) <=> Saved(d))
<1>1. e = [d EXCEPT !.dirs = d.dirs \cup {"tmp"}]
  BY DEF Do, MkDir
<1> QED
  BY <1>1 DEF DiskType, Dirs, Saved

\* The rename that makes the rollback copy complete.
LEMMA PublishEffect ==
  ASSUME NEW d, DiskType(d), NEW e, e = Do(Publish, d)
  PROVE  /\ DiskType(e) /\ Saved(e) /\ e.marker = d.marker
         /\ \A g \in Files : /\ e.files["rollback"][g] = d.files["tmp"][g]
                             /\ e.files["data"][g] = d.files["data"][g]
                             /\ e.files["restore"][g] = d.files["restore"][g]
<1> DEFINE c == Replaced(d, "rollback", d.files["tmp"], d.dirs)
           D == (d.dirs \ {"tmp"}) \cup {"rollback"}
<1>1. e = Replaced(c, "tmp", NoFiles, D)
  BY DEF Do, Publish, DiskType, Replaced
<1>2. d.files["tmp"] \in DirFiles /\ d.dirs \in SUBSET Dirs /\ D \in SUBSET Dirs
  BY DEF DiskType, Dirs
<1>3. NoFiles \in DirFiles /\ "tmp" \in Dirs /\ "rollback" \in Dirs
  BY FileTypes DEF Dirs
<1>4. /\ DiskType(c) /\ c.marker = d.marker
      /\ \A g \in Files : c.files["rollback"][g] = d.files["tmp"][g]
      /\ \A x \in Dirs, g \in Files : x # "rollback" => c.files[x][g] = d.files[x][g]
  BY <1>2, <1>3, WithDir
<1> HIDE DEF c, D
<1>5. /\ DiskType(e) /\ e.marker = c.marker /\ e.dirs = D
      /\ \A x \in Dirs, g \in Files : x # "tmp" => e.files[x][g] = c.files[x][g]
  BY <1>1, <1>2, <1>3, <1>4, WithDir
<1>6. "rollback" \in D
  BY DEF D
<1> QED
  BY <1>4, <1>5, <1>6 DEF Saved, Dirs

LEMMA MarkEffect ==
  ASSUME NEW d, DiskType(d)
  PROVE  /\ \A m \in Archives :
              /\ DiskType(Do(Mark(m), d)) /\ Do(Mark(m), d).marker = m
              /\ Do(Mark(m), d).files = d.files /\ Do(Mark(m), d).dirs = d.dirs
         /\ DiskType(Do(Unmark, d)) /\ Do(Unmark, d).marker = NoFile
         /\ Do(Unmark, d).files = d.files /\ Do(Unmark, d).dirs = d.dirs
<1>1. \A m : Do(Mark(m), d) = [d EXCEPT !.marker = m]
  BY DEF Do, Mark
<1>2. Do(Unmark, d) = [d EXCEPT !.marker = NoFile]
  BY DEF Do, Unmark
<1> QED
  BY <1>1, <1>2 DEF DiskType

(***************************************************************************)
(* What is kept.                                                           *)
(***************************************************************************)
Keeps(d, e) == \A f \in Files : KeptFile(e, f) = KeptFile(d, f)

LEMMA SameContent ==
  ASSUME NEW d, NEW e, Keeps(d, e)
  PROVE  Content(e) = Content(d) /\ KeptFile(e, "key") = KeptFile(d, "key")
BY DEF Keeps, Content, Files

\* A file of a directory that does not count at the moment.
Spare(d, a, f) ==
  \/ a \in {"tmp", "restore"}
  \/ a = "data" /\ Pending(d) /\ Saved(d) /\ (f = "key" => Keyed(d))

LEMMA ChangedKeeps ==
  ASSUME NEW d, NEW e, NEW a \in Dirs, NEW f \in Files, NEW c, Changed(d, e, a, f, c),
         Spare(d, a, f)
  PROVE  Keeps(d, e)
BY DEF Changed, Spare, Keeps, KeptFile, Pending, Saved, Keyed, Dirs, Files

LEMMA ClearedKeeps ==
  ASSUME NEW d, NEW e, NEW a \in Dirs, Cleared(d, e, a),
         a = "tmp" \/ (a = "rollback" /\ ~Pending(d))
  PROVE  Keeps(d, e)
BY DEF Cleared, Keeps, KeptFile, Pending, Saved, Keyed, Dirs, Files

LEMMA SameFilesKeep ==
  ASSUME NEW d, NEW e, e.files = d.files, ~Saved(d), ~Saved(e)
  PROVE  Keeps(d, e)
BY DEF Keeps, KeptFile

LEMMA SavingStep ==
  ASSUME NEW d, DiskType(d), NEW ops, SavingInv(d, ops), ops # <<>>
  PROVE  LET e == Do(Head(ops), d)
         IN  DiskType(e) /\ SavingInv(e, Tail(ops)) /\ Keeps(d, e) /\ e.marker = d.marker
<1> DEFINE e == Do(Head(ops), d)
           k == Keyed(d)
<1>0. k \in BOOLEAN /\ Pending(d) /\ Staged(d)
  BY DEF SavingInv, Keyed
<1>1. CASE ~Saved(d) /\ ops = S1(k)
  <2>1. e = Do(RmDir("tmp"), d) /\ Tail(ops) = S2(k)
    BY <1>0, <1>1, SaveTails DEF First
  <2>2. Cleared(d, e, "tmp")
    BY <2>1, ClearEffect DEF Dirs
  <2>3. Keeps(d, e)
    BY <2>2, ClearedKeeps DEF Dirs
  <2> QED
    BY <1>0, <1>1, <2>1, <2>2, <2>3
       DEF SavingInv, Cleared, Pending, Saved, Staged, Keyed, Dirs, Files
<1>2. CASE ~Saved(d) /\ ops = S2(k)
  <2>1. e = Do(MkDir("tmp"), d) /\ Tail(ops) = S3(k)
    BY <1>0, <1>2, SaveTails DEF First
  <2>2. DiskType(e) /\ e.files = d.files /\ e.marker = d.marker /\ ~Saved(e)
    BY <1>2, <2>1, MkDirEffect
  <2>3. Keeps(d, e)
    BY <1>2, <2>2, SameFilesKeep
  <2> QED
    BY <1>0, <2>1, <2>2, <2>3 DEF SavingInv, Pending, Staged, Keyed
<1>3. CASE ~Saved(d) /\ ops = S3(k)
  <2>1. e = Do(Copy("db", "data", "tmp"), d) /\ Tail(ops) = S4(k)
    BY <1>0, <1>3, SaveTails DEF First
  <2>2. Changed(d, e, "tmp", "db", d.files["data"]["db"])
    BY <2>1, Effects DEF Dirs, Files
  <2>3. Keeps(d, e)
    BY <2>2, ChangedKeeps DEF Dirs, Files, Spare
  <2> QED
    BY <1>0, <1>3, <2>1, <2>2, <2>3
       DEF SavingInv, Changed, Pending, Saved, Staged, Keyed, Same, Dirs, Files
<1>4. CASE ~Saved(d) /\ ops = S4(k) /\ Same(d, "db", "tmp", "data")
  <2>1. e = Do(Copy("wal", "data", "tmp"), d) /\ Tail(ops) = IF k THEN S5 ELSE S6
    BY <1>0, <1>4, SaveTails DEF First
  <2>2. Changed(d, e, "tmp", "wal", d.files["data"]["wal"])
    BY <2>1, Effects DEF Dirs, Files
  <2>3. Keeps(d, e)
    BY <2>2, ChangedKeeps DEF Dirs, Files, Spare
  <2> QED
    BY <1>0, <1>4, <2>1, <2>2, <2>3
       DEF SavingInv, Changed, Pending, Saved, Staged, Keyed, Same, Dirs, Files
<1>5. CASE ~Saved(d) /\ ops = S5 /\ k /\ Same(d, "db", "tmp", "data")
             /\ Same(d, "wal", "tmp", "data")
  <2>1. e = Do(Copy("key", "data", "tmp"), d) /\ Tail(ops) = S6
    BY <1>5, SaveTails DEF First
  <2>2. Changed(d, e, "tmp", "key", d.files["data"]["key"])
    BY <2>1, Effects DEF Dirs, Files
  <2>3. Keeps(d, e)
    BY <2>2, ChangedKeeps DEF Dirs, Files, Spare
  <2> QED
    BY <1>0, <1>5, <2>1, <2>2, <2>3
       DEF SavingInv, Changed, Pending, Saved, Staged, Keyed, Same, Dirs, Files
<1>6. CASE ~Saved(d) /\ ops = S6 /\ Same(d, "db", "tmp", "data") /\ Same(d, "wal", "tmp", "data")
           /\ (k => Same(d, "key", "tmp", "data"))
  <2>1. e = Do(Publish, d) /\ Tail(ops) = <<>>
    BY <1>6, SaveTails DEF First
  <2>2. /\ DiskType(e) /\ Saved(e) /\ e.marker = d.marker
        /\ \A g \in Files : /\ e.files["rollback"][g] = d.files["tmp"][g]
                            /\ e.files["data"][g] = d.files["data"][g]
                            /\ e.files["restore"][g] = d.files["restore"][g]
    BY <2>1, PublishEffect
  <2>3. Keeps(d, e)
    BY <1>0, <1>6, <2>2 DEF Keeps, KeptFile, Pending, Keyed, Same, Files
  <2> QED
    BY <1>0, <2>1, <2>2, <2>3 DEF SavingInv, Pending, Staged, Keyed, Files
<1> QED
  BY <1>1, <1>2, <1>3, <1>4, <1>5, <1>6 DEF SavingInv

LEMMA MovedKeeps ==
  ASSUME NEW d, NEW e, NEW f \in Files, Moved(d, e, f),
         Pending(d), Saved(d), f = "key" => Keyed(d)
  PROVE  Keeps(d, e)
BY DEF Moved, Keeps, KeptFile, Pending, Saved, Keyed, Dirs, Files

LEMMA ReplacingStep ==
  ASSUME NEW d, DiskType(d), NEW ops, ReplacingInv(d, ops), ops # <<>>
  PROVE  LET e == Do(Head(ops), d)
         IN  DiskType(e) /\ ReplacingInv(e, Tail(ops)) /\ Keeps(d, e) /\ e.marker = d.marker
<1> DEFINE e == Do(Head(ops), d)
           k == Keyed(d)
<1>0. k \in BOOLEAN /\ Pending(d) /\ Saved(d)
  BY DEF ReplacingInv, Keyed
<1>1. CASE ops = R1(k) /\ Staged(d)
  <2>1. e = Do(Rm("db", "data"), d) /\ Tail(ops) = R2(k)
    BY <1>0, <1>1, ReplaceTails DEF First
  <2>2. Changed(d, e, "data", "db", NoFile)
    BY <2>1, Effects DEF Dirs, Files
  <2>3. Keeps(d, e)
    BY <1>0, <1>1, <2>2, ChangedKeeps DEF Dirs, Files, Spare
  <2> QED
    BY <1>0, <1>1, <2>1, <2>2, <2>3
       DEF ReplacingInv, Changed, Pending, Saved, Staged, Restored, Keyed, Same, Dirs, Files
<1>2. CASE ops = R2(k) /\ Staged(d)
  <2>1. e = Do(Rm("wal", "data"), d) /\ Tail(ops) = R3(k)
    BY <1>0, <1>2, ReplaceTails DEF First
  <2>2. Changed(d, e, "data", "wal", NoFile)
    BY <2>1, Effects DEF Dirs, Files
  <2>3. Keeps(d, e)
    BY <1>0, <1>2, <2>2, ChangedKeeps DEF Dirs, Files, Spare
  <2> QED
    BY <1>0, <1>2, <2>1, <2>2, <2>3
       DEF ReplacingInv, Changed, Pending, Saved, Staged, Restored, Keyed, Same, Dirs, Files
<1>3. CASE ops = R3(k) /\ Staged(d) /\ d.files["data"]["wal"] = NoFile
  <2>1. e = Do(Move("db", "restore", "data"), d) /\ Tail(ops) = IF k THEN R4 ELSE <<>>
    BY <1>0, <1>3, ReplaceTails DEF First
  <2>2. Moved(d, e, "db")
    BY <2>1, MoveEffect DEF Files
  <2>3. Keeps(d, e)
    BY <1>0, <1>3, <2>2, MovedKeeps DEF Files
  <2> QED
    BY <1>0, <1>3, <2>1, <2>2, <2>3
       DEF ReplacingInv, Moved, Pending, Saved, Staged, Restored, Keyed, Same, Dirs, Files
<1>4. CASE ops = R4 /\ k /\ d.files["restore"]["key"] = d.marker.key
           /\ d.files["data"]["db"] = d.marker.db /\ d.files["data"]["wal"] = NoFile
  <2>1. e = Do(Rm("key", "data"), d) /\ Tail(ops) = R5
    BY <1>0, <1>4, ReplaceTails DEF First
  <2>2. Changed(d, e, "data", "key", NoFile)
    BY <2>1, Effects DEF Dirs, Files
  <2>3. Keeps(d, e)
    BY <1>0, <1>4, <2>2, ChangedKeeps DEF Dirs, Files, Spare
  <2> QED
    BY <1>0, <1>4, <2>1, <2>2, <2>3
       DEF ReplacingInv, Changed, Pending, Saved, Staged, Restored, Keyed, Same, Dirs, Files
<1>5. CASE ops = R5 /\ k /\ d.files["restore"]["key"] = d.marker.key
           /\ d.files["data"]["db"] = d.marker.db /\ d.files["data"]["wal"] = NoFile
  <2>1. e = Do(Move("key", "restore", "data"), d) /\ Tail(ops) = <<>>
    BY <1>0, <1>5, ReplaceTails DEF First
  <2>2. Moved(d, e, "key")
    BY <2>1, MoveEffect DEF Files
  <2>3. Keeps(d, e)
    BY <1>0, <1>5, <2>2, MovedKeeps DEF Files
  <2> QED
    BY <1>0, <1>5, <2>1, <2>2, <2>3
       DEF ReplacingInv, Moved, Pending, Saved, Staged, Restored, Keyed, Same, Dirs, Files
<1> QED
  BY <1>1, <1>2, <1>3, <1>4, <1>5 DEF ReplacingInv

LEMMA RollbackStep ==
  ASSUME NEW d, DiskType(d), NEW ops, RollbackInv(d, ops), ops # <<>>
  PROVE  LET e == Do(Head(ops), d)
         IN  /\ DiskType(e) /\ RollbackInv(e, Tail(ops)) /\ Keeps(d, e)
             /\ e.marker \in {NoFile, d.marker}
<1> DEFINE e == Do(Head(ops), d)
           k == Keyed(d)
<1>0. k \in BOOLEAN
  BY DEF RollbackInv, Keyed
<1>1. CASE Pending(d) /\ Saved(d) /\ ops = L1(k)
  <2>1. e = Do(Rm("db", "data"), d) /\ Tail(ops) = L2(k)
    BY <1>0, <1>1, RollbackTails DEF First
  <2>2. Changed(d, e, "data", "db", NoFile)
    BY <2>1, Effects DEF Dirs, Files
  <2>3. Keeps(d, e)
    BY <1>0, <1>1, <2>2, ChangedKeeps DEF Dirs, Files, Spare
  <2> QED
    BY <1>0, <1>1, <2>1, <2>2, <2>3
       DEF RollbackInv, Changed, Pending, Saved, Staged, Restored, Keyed, Same, Dirs, Files
<1>2. CASE Pending(d) /\ Saved(d) /\ ops = L2(k)
  <2>1. e = Do(Rm("wal", "data"), d) /\ Tail(ops) = IF k THEN L3 ELSE L4(k)
    BY <1>0, <1>2, RollbackTails DEF First
  <2>2. Changed(d, e, "data", "wal", NoFile)
    BY <2>1, Effects DEF Dirs, Files
  <2>3. Keeps(d, e)
    BY <1>0, <1>2, <2>2, ChangedKeeps DEF Dirs, Files, Spare
  <2> QED
    BY <1>0, <1>2, <2>1, <2>2, <2>3
       DEF RollbackInv, Changed, Pending, Saved, Staged, Restored, Keyed, Same, Dirs, Files
<1>3. CASE Pending(d) /\ Saved(d) /\ ops = L3 /\ k
  <2>1. e = Do(Rm("key", "data"), d) /\ Tail(ops) = L4(TRUE)
    BY <1>0, <1>3, RollbackTails DEF First
  <2>2. Changed(d, e, "data", "key", NoFile)
    BY <2>1, Effects DEF Dirs, Files
  <2>3. Keeps(d, e)
    BY <1>0, <1>3, <2>2, ChangedKeeps DEF Dirs, Files, Spare
  <2> QED
    BY <1>0, <1>3, <2>1, <2>2, <2>3
       DEF RollbackInv, Changed, Pending, Saved, Staged, Restored, Keyed, Same, Dirs, Files
<1>4. CASE Pending(d) /\ Saved(d) /\ ops = L4(k)
  <2>1. e = Do(Copy("db", "rollback", "data"), d) /\ Tail(ops) = L5(k)
    BY <1>0, <1>4, RollbackTails DEF First
  <2>2. Changed(d, e, "data", "db", d.files["rollback"]["db"])
    BY <2>1, Effects DEF Dirs, Files
  <2>3. Keeps(d, e)
    BY <1>0, <1>4, <2>2, ChangedKeeps DEF Dirs, Files, Spare
  <2> QED
    BY <1>0, <1>4, <2>1, <2>2, <2>3
       DEF RollbackInv, Changed, Pending, Saved, Staged, Restored, Keyed, Same, Dirs, Files
<1>5. CASE Pending(d) /\ Saved(d) /\ ops = L5(k) /\ Same(d, "db", "data", "rollback")
  <2>1. e = Do(Copy("wal", "rollback", "data"), d) /\ Tail(ops) = IF k THEN L6 ELSE L7
    BY <1>0, <1>5, RollbackTails DEF First
  <2>2. Changed(d, e, "data", "wal", d.files["rollback"]["wal"])
    BY <2>1, Effects DEF Dirs, Files
  <2>3. Keeps(d, e)
    BY <1>0, <1>5, <2>2, ChangedKeeps DEF Dirs, Files, Spare
  <2> QED
    BY <1>0, <1>5, <2>1, <2>2, <2>3
       DEF RollbackInv, Changed, Pending, Saved, Staged, Restored, Keyed, Same, Dirs, Files
<1>6. CASE Pending(d) /\ Saved(d) /\ ops = L6 /\ k
           /\ Same(d, "db", "data", "rollback") /\ Same(d, "wal", "data", "rollback")
  <2>1. e = Do(Copy("key", "rollback", "data"), d) /\ Tail(ops) = L7
    BY <1>0, <1>6, RollbackTails DEF First
  <2>2. Changed(d, e, "data", "key", d.files["rollback"]["key"])
    BY <2>1, Effects DEF Dirs, Files
  <2>3. Keeps(d, e)
    BY <1>0, <1>6, <2>2, ChangedKeeps DEF Dirs, Files, Spare
  <2> QED
    BY <1>0, <1>6, <2>1, <2>2, <2>3
       DEF RollbackInv, Changed, Pending, Saved, Staged, Restored, Keyed, Same, Dirs, Files
<1>7. CASE Pending(d) /\ Saved(d) /\ ops = L7 /\ Same(d, "db", "data", "rollback")
           /\ Same(d, "wal", "data", "rollback") /\ (k => Same(d, "key", "data", "rollback"))
  <2>1. e = Do(Unmark, d) /\ Tail(ops) = L8
    BY <1>7, RollbackTails DEF First
  <2>2. DiskType(e) /\ e.marker = NoFile /\ e.files = d.files /\ e.dirs = d.dirs
    BY <2>1, MarkEffect
  <2>3. Keeps(d, e)
    BY <1>7, <2>2 DEF Keeps, KeptFile, Pending, Same, Files
  <2> QED
    BY <2>1, <2>2, <2>3 DEF RollbackInv, Pending
<1>8. CASE ~Pending(d) /\ ops = L8
  <2>1. e = Do(DropDb, d) /\ Tail(ops) = L9
    BY <1>0, <1>8, RollbackTails DEF First
  <2>2. Changed(d, e, "restore", "db", NoFile)
    BY <2>1, Effects DEF Dirs, Files, DropDb
  <2>3. Keeps(d, e)
    BY <1>0, <1>8, <2>2, ChangedKeeps DEF Dirs, Files, Spare
  <2> QED
    BY <1>0, <1>8, <2>1, <2>2, <2>3
       DEF RollbackInv, Changed, Pending, Saved, Staged, Restored, Keyed, Same, Dirs, Files
<1>9. CASE ~Pending(d) /\ ops = L9
  <2>1. e = Do(DropKey, d) /\ Tail(ops) = L10
    BY <1>0, <1>9, RollbackTails DEF First
  <2>2. Changed(d, e, "restore", "key", NoFile)
    BY <2>1, Effects DEF Dirs, Files, DropKey
  <2>3. Keeps(d, e)
    BY <1>0, <1>9, <2>2, ChangedKeeps DEF Dirs, Files, Spare
  <2> QED
    BY <1>0, <1>9, <2>1, <2>2, <2>3
       DEF RollbackInv, Changed, Pending, Saved, Staged, Restored, Keyed, Same, Dirs, Files
<1>10. CASE ~Pending(d) /\ ops = L10
  <2>1. e = Do(RmDir("rollback"), d) /\ Tail(ops) = <<>>
    BY <1>10, RollbackTails DEF First
  <2>2. Cleared(d, e, "rollback") /\ "rollback" \notin e.dirs
    BY <2>1, ClearEffect DEF Dirs
  <2>3. Keeps(d, e)
    BY <1>10, <2>2, ClearedKeeps DEF Dirs
  <2> QED
    BY <1>10, <2>1, <2>2, <2>3 DEF RollbackInv, Cleared, Pending, Saved, Dirs
<1> QED
  BY <1>1, <1>2, <1>3, <1>4, <1>5, <1>6, <1>7, <1>8, <1>9, <1>10 DEF RollbackInv

LEMMA CleanupStep ==
  ASSUME NEW d, DiskType(d), NEW ops, CleanupInv(d, ops), ops # <<>>
  PROVE  LET e == Do(Head(ops), d)
         IN  DiskType(e) /\ CleanupInv(e, Tail(ops)) /\ Keeps(d, e) /\ e.marker = d.marker
<1> DEFINE e == Do(Head(ops), d)
<1>0. ~Pending(d)
  BY DEF CleanupInv
<1>1. CASE ops = C1
  <2>1. e = Do(DropDb, d) /\ Tail(ops) = C2
    BY <1>0, <1>1, OtherTails DEF First
  <2>2. Changed(d, e, "restore", "db", NoFile)
    BY <2>1, Effects DEF Dirs, Files, DropDb
  <2>3. Keeps(d, e)
    BY <1>0, <1>1, <2>2, ChangedKeeps DEF Dirs, Files, Spare
  <2> QED
    BY <1>0, <1>1, <2>1, <2>2, <2>3 DEF CleanupInv, Changed, Pending, Saved, Dirs, Files
<1>2. CASE ops = C2
  <2>1. e = Do(DropKey, d) /\ Tail(ops) = C3
    BY <1>0, <1>2, OtherTails DEF First
  <2>2. Changed(d, e, "restore", "key", NoFile)
    BY <2>1, Effects DEF Dirs, Files, DropKey
  <2>3. Keeps(d, e)
    BY <1>0, <1>2, <2>2, ChangedKeeps DEF Dirs, Files, Spare
  <2> QED
    BY <1>0, <1>2, <2>1, <2>2, <2>3 DEF CleanupInv, Changed, Pending, Saved, Dirs, Files
<1>3. CASE ops = C3
  <2>1. e = Do(RmDir("tmp"), d) /\ Tail(ops) = L10
    BY <1>3, OtherTails DEF First
  <2>2. Cleared(d, e, "tmp") /\ "tmp" \notin e.dirs
    BY <2>1, ClearEffect DEF Dirs
  <2>3. Keeps(d, e)
    BY <1>3, <2>2, ClearedKeeps DEF Dirs
  <2> QED
    BY <1>0, <1>3, <2>1, <2>2, <2>3 DEF CleanupInv, Cleared, Pending, Saved, Dirs
<1>4. CASE ops = L10
  <2>1. e = Do(RmDir("rollback"), d) /\ Tail(ops) = <<>>
    BY <1>4, RollbackTails DEF First
  <2>2. Cleared(d, e, "rollback") /\ "rollback" \notin e.dirs
    BY <2>1, ClearEffect DEF Dirs
  <2>3. Keeps(d, e)
    BY <1>0, <1>4, <2>2, ClearedKeeps DEF Dirs
  <2> QED
    BY <1>0, <1>4, <2>1, <2>2, <2>3 DEF CleanupInv, Cleared, Pending, Saved, Dirs
<1> QED
  BY <1>1, <1>2, <1>3, <1>4 DEF CleanupInv

LEMMA CommittedStep ==
  ASSUME NEW d, DiskType(d), NEW ops, CommittedInv(d, ops), ops # <<>>
  PROVE  LET e == Do(Head(ops), d)
         IN  DiskType(e) /\ CommittedInv(e, Tail(ops)) /\ Keeps(d, e) /\ e.marker = d.marker
<1> DEFINE e == Do(Head(ops), d)
<1>0. ~Pending(d)
  BY DEF CommittedInv
<1>1. CASE ops = L10
  <2>1. e = Do(RmDir("rollback"), d) /\ Tail(ops) = <<>>
    BY <1>1, RollbackTails DEF First
  <2>2. Cleared(d, e, "rollback") /\ "rollback" \notin e.dirs
    BY <2>1, ClearEffect DEF Dirs
  <2>3. Keeps(d, e)
    BY <1>0, <1>1, <2>2, ClearedKeeps DEF Dirs
  <2> QED
    BY <1>0, <1>1, <2>1, <2>2, <2>3 DEF CommittedInv, Cleared, Pending, Saved, Dirs
<1> QED
  BY <1>1 DEF CommittedInv

LEMMA DiscardingStep ==
  ASSUME NEW d, DiskType(d), NEW ops, DiscardingInv(d, ops), ops # <<>>
  PROVE  LET e == Do(Head(ops), d)
         IN  /\ DiskType(e) /\ DiscardingInv(e, Tail(ops)) /\ Keeps(d, e)
             /\ e.marker \in {NoFile, d.marker}
<1> DEFINE e == Do(Head(ops), d)
<1>0. ~Saved(d)
  BY DEF DiscardingInv
<1>1. CASE ops = D0
  <2>1. e = Do(RmDir("tmp"), d) /\ Tail(ops) = D1
    BY <1>1, OtherTails DEF First
  <2>2. Cleared(d, e, "tmp") /\ "tmp" \notin e.dirs
    BY <2>1, ClearEffect DEF Dirs
  <2>3. Keeps(d, e)
    BY <1>1, <2>2, ClearedKeeps DEF Dirs
  <2> QED
    BY <1>0, <1>1, <2>1, <2>2, <2>3 DEF DiscardingInv, Cleared, Pending, Saved, Dirs
<1>2. CASE ops = D1
  <2>1. e = Do(Unmark, d) /\ Tail(ops) = D2
    BY <1>2, OtherTails DEF First
  <2>2. DiskType(e) /\ e.marker = NoFile /\ e.files = d.files /\ e.dirs = d.dirs
    BY <2>1, MarkEffect
  <2>3. Keeps(d, e)
    BY <1>0, <2>2, SameFilesKeep DEF Saved
  <2> QED
    BY <1>0, <2>1, <2>2, <2>3 DEF DiscardingInv, Saved
<1>3. CASE ops = D2
  <2>1. e = Do(DropDb, d) /\ Tail(ops) = D3
    BY <1>0, <1>3, OtherTails DEF First
  <2>2. Changed(d, e, "restore", "db", NoFile)
    BY <2>1, Effects DEF Dirs, Files, DropDb
  <2>3. Keeps(d, e)
    BY <1>0, <1>3, <2>2, ChangedKeeps DEF Dirs, Files, Spare
  <2> QED
    BY <1>0, <1>3, <2>1, <2>2, <2>3 DEF DiscardingInv, Changed, Pending, Saved, Dirs, Files
<1>4. CASE ops = D3
  <2>1. e = Do(DropKey, d) /\ Tail(ops) = <<>>
    BY <1>0, <1>4, OtherTails DEF First
  <2>2. Changed(d, e, "restore", "key", NoFile)
    BY <2>1, Effects DEF Dirs, Files, DropKey
  <2>3. Keeps(d, e)
    BY <1>0, <1>4, <2>2, ChangedKeeps DEF Dirs, Files, Spare
  <2> QED
    BY <1>0, <1>4, <2>1, <2>2, <2>3 DEF DiscardingInv, Changed, Pending, Saved, Dirs, Files
<1> QED
  BY <1>1, <1>2, <1>3, <1>4 DEF DiscardingInv

\* The end of an import.
LEMMA StagingStep ==
  ASSUME NEW d, DiskType(d), Serving(d), NEW ops, StagingInv(ops), ops # <<>>
  PROVE  LET e == Do(Head(ops), d)
         IN  /\ DiskType(e) /\ Serving(e) /\ StagingInv(Tail(ops)) /\ Keeps(d, e)
             /\ IF Head(ops).do = "mark"
                THEN e.marker = Head(ops).marker /\ e.marker \in Archives /\ Sound(e.marker)
                ELSE e.marker = d.marker
<1> DEFINE e == Do(Head(ops), d)
<1>1. PICK a \in Archives :
        Sound(a) /\ (ops \in {T1(a), T3(a)} \/ (a.key # NoFile /\ ops = T2(a)))
  BY DEF StagingInv
<1>2. a.db \in Databases /\ a.key \in Keys \cup {NoFile}
  BY DEF Archives
<1>3. CASE ops = T1(a)
  <2>1. e = Do(Put("db", a.db), d) /\ Tail(ops) = IF a.key # NoFile THEN T2(a) ELSE T3(a)
    BY <1>3, OtherTails DEF First
  <2>2. a.db \in FileType("db")
    BY <1>2 DEF FileType, DbFile
  <2>3. Changed(d, e, "restore", "db", a.db)
    BY <2>1, <2>2, Effects DEF Files
  <2>4. Keeps(d, e)
    BY <2>3, ChangedKeeps DEF Dirs, Files, Spare
  <2>5. Head(ops) = Put("db", a.db)
    BY <1>3, OtherTails DEF First
  <2>6. Head(ops).do # "mark"
    BY <2>5 DEF Put
  <2>7. e.marker = d.marker /\ DiskType(e) /\ Serving(e)
    BY <2>3 DEF Changed, Serving, Saved, Dirs, Files
  <2> QED
    BY <1>1, <2>1, <2>4, <2>6, <2>7 DEF StagingInv
<1>4. CASE a.key # NoFile /\ ops = T2(a)
  <2>1. e = Do(Put("key", a.key), d) /\ Tail(ops) = T3(a)
    BY <1>4, OtherTails DEF First
  <2>2. a.key \in FileType("key")
    BY <1>2, <1>4 DEF FileType, KeyFile
  <2>3. Changed(d, e, "restore", "key", a.key)
    BY <2>1, <2>2, Effects DEF Files
  <2>4. Keeps(d, e)
    BY <2>3, ChangedKeeps DEF Dirs, Files, Spare
  <2>5. Head(ops) = Put("key", a.key)
    BY <1>4, OtherTails DEF First
  <2>6. Head(ops).do # "mark"
    BY <2>5 DEF Put
  <2>7. e.marker = d.marker /\ DiskType(e) /\ Serving(e)
    BY <2>3 DEF Changed, Serving, Saved, Dirs, Files
  <2> QED
    BY <1>1, <2>1, <2>4, <2>6, <2>7 DEF StagingInv
<1>5. CASE ops = T3(a)
  <2> DEFINE m == [db |-> a.db, key |-> a.key]
  <2>1. Head(ops) = Mark(m) /\ e = Do(Mark(m), d) /\ Tail(ops) = <<>>
    BY <1>5, OtherTails DEF First
  <2>2. m \in Archives /\ Sound(m)
    BY <1>1, <1>2 DEF Archives, Sound
  <2> HIDE DEF m
  <2>3. DiskType(e) /\ e.marker = m /\ e.files = d.files /\ e.dirs = d.dirs
    BY <2>1, <2>2, MarkEffect
  <2>4. ~Saved(d) /\ Serving(e) /\ ~Saved(e)
    BY <2>3 DEF Serving, Saved
  <2>5. Keeps(d, e)
    BY <2>3, <2>4, SameFilesKeep
  <2>6. Head(ops).marker = m /\ Head(ops).do = "mark"
    BY <2>1 DEF Mark
  <2> QED
    BY <2>1, <2>2, <2>3, <2>4, <2>5, <2>6 DEF StagingInv
<1> QED
  BY <1>1, <1>3, <1>4, <1>5

LEMMA UnstagingStep ==
  ASSUME NEW d, DiskType(d), Serving(d), NEW ops \in {D2, D3}
  PROVE  LET e == Do(Head(ops), d)
         IN  /\ DiskType(e) /\ Serving(e) /\ Tail(ops) \in {D3, <<>>} /\ Keeps(d, e)
             /\ e.marker = d.marker
<1> DEFINE e == Do(Head(ops), d)
<1>1. CASE ops = D2
  <2>1. e = Do(DropDb, d) /\ Tail(ops) = D3
    BY <1>1, OtherTails DEF First
  <2>2. Changed(d, e, "restore", "db", NoFile)
    BY <2>1, Effects DEF Dirs, Files, DropDb
  <2>3. Keeps(d, e)
    BY <2>2, ChangedKeeps DEF Dirs, Files, Spare
  <2> QED
    BY <2>1, <2>2, <2>3 DEF Changed, Serving, Saved, Dirs, Files
<1>2. CASE ops = D3
  <2>1. e = Do(DropKey, d) /\ Tail(ops) = <<>>
    BY <1>2, OtherTails DEF First
  <2>2. Changed(d, e, "restore", "key", NoFile)
    BY <2>1, Effects DEF Dirs, Files, DropKey
  <2>3. Keeps(d, e)
    BY <2>2, ChangedKeeps DEF Dirs, Files, Spare
  <2> QED
    BY <2>1, <2>2, <2>3 DEF Changed, Serving, Saved, Dirs, Files
<1> QED
  BY <1>1, <1>2

\* Commit: the one operation that changes what is kept.
LEMMA CommitStep ==
  ASSUME NEW d, DiskType(d), NEW ops, CommitInv(d, ops), ops # <<>>,
         Sound(d.marker), KeptFile(d, "key") # Partial
  PROVE  LET e == Do(Head(ops), d)
         IN  /\ DiskType(e) /\ CommitInv(e, Tail(ops)) /\ e.marker = NoFile
             /\ Content(e) = d.marker.db /\ KeptFile(e, "key") # Partial
             /\ Content(e).key \in {NoFile, KeptFile(e, "key")}
<1> DEFINE e == Do(Head(ops), d)
<1>1. ops = M1 /\ Pending(d) /\ Saved(d) /\ Restored(d)
  BY DEF CommitInv
<1>2. e = Do(Unmark, d) /\ Tail(ops) = <<>>
  BY <1>1, OtherTails DEF First
<1>3. DiskType(e) /\ e.marker = NoFile /\ e.files = d.files
  BY <1>2, MarkEffect
<1>4. \A f \in Files : KeptFile(e, f) = d.files["data"][f]
  BY <1>3 DEF KeptFile, Pending
<1>5. d.marker \in Archives /\ d.marker.db \in Databases /\ d.marker.db # NoFile
      /\ d.marker.key \in Keys \cup {NoFile}
  BY <1>1, RestoreAssumption DEF DiskType, Pending, Archives
<1>6. Content(e) = d.marker.db
  BY <1>1, <1>4, <1>5 DEF Content, Logical, Restored, Files
<1>7. KeptFile(e, "key") # Partial /\ d.marker.db.key \in {NoFile, KeptFile(e, "key")}
  <2>1. CASE Keyed(d)
    <3>1. KeptFile(e, "key") = d.marker.key
      BY <1>1, <1>4, <2>1 DEF Restored, Files
    <3>2. d.marker.key \in Keys
      BY <1>5, <2>1 DEF Keyed
    <3> QED
      BY <3>1, <3>2, RestoreAssumption DEF Sound
  <2>2. CASE ~Keyed(d)
    BY <1>4, <2>2 DEF KeptFile, Keyed, Sound, Files
  <2> QED
    BY <2>1, <2>2
<1> QED
  BY <1>2, <1>3, <1>6, <1>7 DEF CommitInv, Pending

(***************************************************************************)
(* An operation that does not finish leaves what is kept alone.            *)
(***************************************************************************)
Harmless(d, op) ==
  \/ op.do \notin {"copy", "rmdir", "mark"}
  \/ \E f \in Files, a, b \in Dirs : op = Copy(f, a, b) /\ Spare(d, b, f)
  \/ \E a \in Dirs : op = RmDir(a) /\ (a = "tmp" \/ (a = "rollback" /\ ~Pending(d)))

LEMMA HarmlessHeads ==
  ASSUME NEW d, NEW p, NEW ops, PhaseInv(d, p, ops), ops # <<>>, p \notin {"staging", "unstaging"}
  PROVE  Harmless(d, Head(ops))
<1>1. \A f, a : Rm(f, a).do = "rm" /\ \A b : Move(f, a, b).do = "move"
  BY DEF Rm, Move
<1>2. Publish.do = "publish" /\ MkDir("tmp").do = "mkdir" /\ Unmark.do = "unmark"
  BY DEF Publish, MkDir, Unmark
<1>3. CASE p = "saving" /\ SavingInv(d, ops)
  <2>1. Keyed(d) \in BOOLEAN
    BY DEF Keyed
  <2>2. Head(ops) \in {RmDir("tmp"), MkDir("tmp"), Copy("db", "data", "tmp"),
                       Copy("wal", "data", "tmp"), Copy("key", "data", "tmp"), Publish}
    BY <1>3, <2>1, SaveTails DEF SavingInv, First
  <2> QED
    BY <2>2, <1>2 DEF Harmless, Spare, Dirs, Files
<1>4. CASE p = "replacing" /\ ReplacingInv(d, ops)
  <2>1. Keyed(d) \in BOOLEAN
    BY DEF Keyed
  <2>2. \/ Head(ops) \in {Rm("db", "data"), Rm("wal", "data"), Rm("key", "data")}
        \/ Head(ops) \in {Move("db", "restore", "data"), Move("key", "restore", "data")}
    BY <1>4, <2>1, ReplaceTails DEF ReplacingInv, First
  <2> QED
    BY <2>2, <1>1 DEF Harmless
<1>5. CASE p = "commit" /\ CommitInv(d, ops)
  BY <1>2, <1>5, OtherTails DEF CommitInv, First, Harmless
<1>6. CASE p = "rollback" /\ RollbackInv(d, ops)
  <2>1. Keyed(d) \in BOOLEAN
    BY DEF Keyed
  <2>2. CASE ~Pending(d)
    <3>1. Head(ops) \in {DropDb, DropKey, RmDir("rollback")}
      BY <1>6, <2>2, RollbackTails DEF RollbackInv, First
    <3> QED
      BY <1>1, <2>2, <3>1 DEF Harmless, DropDb, DropKey, Dirs
  <2>3. CASE Pending(d)
    <3>1. \/ Head(ops) \in {Rm("db", "data"), Rm("wal", "data"), Rm("key", "data"), Unmark}
          \/ Head(ops) \in {Copy("db", "rollback", "data"), Copy("wal", "rollback", "data")}
          \/ Head(ops) = Copy("key", "rollback", "data") /\ Keyed(d)
      BY <1>6, <2>1, <2>3, RollbackTails DEF RollbackInv, First
    <3>2. Saved(d)
      BY <1>6, <2>3 DEF RollbackInv
    <3>3. CASE Head(ops) \in {Rm("db", "data"), Rm("wal", "data"), Rm("key", "data"), Unmark}
      BY <1>1, <1>2, <3>3 DEF Harmless
    <3>4. CASE Head(ops) \in {Copy("db", "rollback", "data"), Copy("wal", "rollback", "data")}
      BY <2>3, <3>2, <3>4 DEF Harmless, Spare, Dirs, Files
    <3>5. CASE Head(ops) = Copy("key", "rollback", "data") /\ Keyed(d)
      BY <2>3, <3>2, <3>5 DEF Harmless, Spare, Dirs, Files
    <3> QED
      BY <3>1, <3>3, <3>4, <3>5
  <2> QED
    BY <2>2, <2>3
<1>7. CASE p = "cleanup" /\ CleanupInv(d, ops)
  <2>1. Head(ops) \in {DropDb, DropKey, RmDir("tmp"), RmDir("rollback")} /\ ~Pending(d)
    BY <1>7, OtherTails, RollbackTails DEF CleanupInv, First
  <2> QED
    BY <1>1, <2>1 DEF Harmless, DropDb, DropKey, Dirs
<1>8. CASE p = "committed" /\ CommittedInv(d, ops)
  <2>1. Head(ops) = RmDir("rollback") /\ ~Pending(d)
    BY <1>8, RollbackTails DEF CommittedInv, First
  <2> QED
    BY <2>1 DEF Harmless, Dirs
<1>9. CASE p = "discarding" /\ DiscardingInv(d, ops)
  <2>1. Head(ops) \in {RmDir("tmp"), Unmark, DropDb, DropKey}
    BY <1>9, OtherTails DEF DiscardingInv, First
  <2> QED
    BY <1>1, <1>2, <2>1 DEF Harmless, DropDb, DropKey, Dirs
<1> QED
  BY <1>3, <1>4, <1>5, <1>6, <1>7, <1>8, <1>9 DEF PhaseInv

LEMMA TornDisk ==
  ASSUME NEW d, DiskType(d), NEW op, Harmless(d, op), NEW e \in Torn(op, d)
  PROVE  /\ DiskType(e) /\ Keeps(d, e) /\ e.marker = d.marker
         /\ op.do # "rmdir" => e.dirs = d.dirs
<1>1. CASE e = d
  BY <1>1 DEF Keeps
<1>2. CASE op.do \notin {"copy", "rmdir"}
  BY <1>1, <1>2 DEF Torn
<1>3. ASSUME NEW f \in Files, NEW a \in Dirs, NEW b \in Dirs, op = Copy(f, a, b), Spare(d, b, f),
             e # d
      PROVE  DiskType(e) /\ Keeps(d, e) /\ e.marker = d.marker /\ e.dirs = d.dirs
  <2>1. e = Set(d, b, f, Partial)
    BY <1>3 DEF Torn, Copy
  <2>2. Changed(d, e, b, f, Partial)
    BY <2>1, FileTypes, SetFile
  <2> QED
    BY <1>3, <2>2, ChangedKeeps DEF Changed
<1>4. ASSUME NEW a \in Dirs, op = RmDir(a), a = "tmp" \/ (a = "rollback" /\ ~Pending(d))
      PROVE  DiskType(e) /\ Keeps(d, e) /\ e.marker = d.marker /\ op.do = "rmdir"
  <2>1. Cleared(d, e, a)
    BY <1>4, ClearEffect
  <2> QED
    BY <1>4, <2>1, ClearedKeeps DEF Cleared, RmDir
<1> QED
  BY <1>1, <1>2, <1>3, <1>4 DEF Harmless

(***************************************************************************)
(* Each action keeps the invariant.                                        *)
(***************************************************************************)
LEMMA GoodKept ==
  ASSUME NEW d, NEW e, NEW s, NEW A, NEW B, Keeps(d, e), Good(d, s, A), A \subseteq B
  PROVE  Good(e, s, B)
BY SameContent DEF Good

LEMMA StepKeepsInv == DiskInv /\ Step => DiskInv'
<1> SUFFICES ASSUME DiskInv, Step
             PROVE  DiskInv'
  OBVIOUS
<1> DEFINE op == Head(todo)
<1>1. /\ DiskType(disk) /\ PhaseInv(disk, phase, todo) /\ Good(disk, served, requested)
      /\ todo # <<>> /\ disk' = Do(op, disk) /\ todo' = Tail(todo)
      /\ requested \subseteq Databases /\ served \in Databases
  BY DEF DiskInv, RestoreType, Step
<1>2. UNCHANGED <<phase, backup, served, writes, imports, crashes, cleanups>>
  BY DEF Step
<1>3. CASE phase \notin {"commit", "staging"}
  <2>1. /\ DiskType(disk') /\ PhaseInv(disk', phase, todo') /\ Keeps(disk, disk')
        /\ disk'.marker \in {NoFile, disk.marker}
    <3>1. CASE phase = "cleanup" /\ CleanupInv(disk, todo)
      BY <1>1, <3>1, CleanupStep DEF PhaseInv
    <3>2. CASE phase = "saving" /\ SavingInv(disk, todo)
      BY <1>1, <3>2, SavingStep DEF PhaseInv
    <3>3. CASE phase = "replacing" /\ ReplacingInv(disk, todo)
      BY <1>1, <3>3, ReplacingStep DEF PhaseInv
    <3>4. CASE phase = "committed" /\ CommittedInv(disk, todo)
      BY <1>1, <3>4, CommittedStep DEF PhaseInv
    <3>5. CASE phase = "rollback" /\ RollbackInv(disk, todo)
      BY <1>1, <3>5, RollbackStep DEF PhaseInv
    <3>6. CASE phase = "discarding" /\ DiscardingInv(disk, todo)
      BY <1>1, <3>6, DiscardingStep DEF PhaseInv
    <3>7. CASE phase = "unstaging" /\ Serving(disk) /\ todo \in {D2, D3}
      BY <1>1, <3>7, UnstagingStep DEF PhaseInv
    <3> QED
      BY <1>1, <1>3, <3>1, <3>2, <3>3, <3>4, <3>5, <3>6, <3>7 DEF PhaseInv
  <2>2. op.do # "mark"
    <3>1. CASE phase = "unstaging"
      <4>1. todo \in {D2, D3}
        BY <1>1, <3>1 DEF PhaseInv
      <4>2. op \in {DropDb, DropKey}
        BY <4>1, OtherTails DEF First
      <4> QED
        BY <4>2 DEF DropDb, DropKey, Rm
    <3>2. CASE phase # "unstaging"
      <4>1. Harmless(disk, op)
        BY <1>1, <1>3, <3>2, HarmlessHeads
      <4> QED
        BY <4>1 DEF Harmless, Copy, RmDir
    <3> QED
      BY <3>1, <3>2
  <2>3. requested' = requested
    BY <2>2 DEF Step
  <2>4. Good(disk', served, requested) /\ Content(disk') = Content(disk)
    BY <1>1, <2>1, GoodKept, SameContent
  <2>5. MarkerInv'
    BY <2>1, <2>3 DEF DiskInv, MarkerInv, Pending
  <2> QED
    BY <1>1, <1>2, <2>1, <2>3, <2>4, <2>5 DEF DiskInv, RestoreType, Online
<1>4. CASE phase = "commit"
  <2>1. CommitInv(disk, todo) /\ Pending(disk)
    BY <1>1, <1>4 DEF PhaseInv, CommitInv
  <2>2. Sound(disk.marker) /\ disk.marker.db \in requested /\ KeptFile(disk, "key") # Partial
    BY <1>1, <2>1 DEF DiskInv, MarkerInv, Good
  <2>3. /\ DiskType(disk') /\ CommitInv(disk', todo') /\ disk'.marker = NoFile
        /\ Content(disk') = disk.marker.db /\ KeptFile(disk', "key") # Partial
        /\ Content(disk').key \in {NoFile, KeptFile(disk', "key")}
    BY <1>1, <2>1, <2>2, CommitStep
  <2>4. op.do # "mark"
    <3>1. Harmless(disk, op)
      BY <1>1, <1>4, HarmlessHeads
    <3> QED
      BY <3>1 DEF Harmless, Copy, RmDir
  <2>5. requested' = requested
    BY <2>4 DEF Step
  <2>6. Good(disk', served, requested)
    BY <2>2, <2>3 DEF Good
  <2> QED
    BY <1>1, <1>2, <1>4, <2>3, <2>5, <2>6
       DEF DiskInv, RestoreType, Online, MarkerInv, Pending, PhaseInv
<1>5. CASE phase = "staging"
  <2>1. Serving(disk) /\ StagingInv(todo)
    BY <1>1, <1>5 DEF PhaseInv
  <2>2. /\ DiskType(disk') /\ Serving(disk') /\ StagingInv(todo') /\ Keeps(disk, disk')
        /\ IF op.do = "mark"
           THEN disk'.marker = op.marker /\ disk'.marker \in Archives /\ Sound(disk'.marker)
           ELSE disk'.marker = disk.marker
    BY <1>1, <2>1, StagingStep
  <2>3. requested' = IF op.do = "mark" THEN requested \cup {op.marker.db} ELSE requested
    BY DEF Step
  <2>4. requested \subseteq requested' /\ requested' \subseteq Databases
    BY <1>1, <2>2, <2>3 DEF Archives
  <2>5. Good(disk', served, requested') /\ Content(disk') = Content(disk)
    BY <1>1, <2>2, <2>4, GoodKept, SameContent
  <2>6. MarkerInv'
    BY <2>2, <2>3 DEF DiskInv, MarkerInv, Pending
  <2> QED
    BY <1>1, <1>2, <1>5, <2>2, <2>4, <2>5, <2>6 DEF DiskInv, RestoreType, Online, PhaseInv
<1> QED
  BY <1>3, <1>4, <1>5

LEMMA TornKeepsInv ==
  ASSUME DiskInv, todo # <<>>, disk' \in Torn(Head(todo), disk),
         UNCHANGED <<backup, served, requested, writes>>
  PROVE  /\ RestoreType' /\ Good(disk', served', requested') /\ MarkerInv'
         /\ Content(disk') = Content(disk) /\ (Pending(disk') <=> Pending(disk))
         /\ disk'.marker = disk.marker
         /\ phase \in {"staging", "unstaging"} => disk' = disk
         /\ Head(todo).do # "rmdir" => (Saved(disk') <=> Saved(disk))
<1> DEFINE op == Head(todo)
<1>1. DiskType(disk) /\ PhaseInv(disk, phase, todo) /\ Good(disk, served, requested)
  BY DEF DiskInv, RestoreType
<1>2. CASE phase \in {"staging", "unstaging"}
  <2>1. op.do \in {"put", "mark", "rm"}
    <3>1. CASE phase = "unstaging"
      <4>1. op \in {DropDb, DropKey}
        BY <1>1, <3>1, OtherTails DEF PhaseInv, First
      <4> QED
        BY <4>1 DEF DropDb, DropKey, Rm
    <3>2. CASE phase = "staging"
      <4>1. PICK a \in Archives : todo \in {T1(a), T2(a), T3(a)}
        BY <1>1, <3>2 DEF PhaseInv, StagingInv
      <4>2. op \in {Put("db", a.db), Put("key", a.key), Mark([db |-> a.db, key |-> a.key])}
        BY <4>1, OtherTails DEF First
      <4> QED
        BY <4>2 DEF Put, Mark
    <3> QED
      BY <1>2, <3>1, <3>2
  <2>2. disk' = disk
    BY <2>1 DEF Torn
  <2> QED
    BY <2>2 DEF DiskInv, RestoreType, MarkerInv
<1>3. CASE phase \notin {"staging", "unstaging"}
  <2>1. Harmless(disk, op)
    BY <1>1, <1>3, HarmlessHeads
  <2>2. /\ DiskType(disk') /\ Keeps(disk, disk') /\ disk'.marker = disk.marker
        /\ op.do # "rmdir" => disk'.dirs = disk.dirs
    BY <1>1, <2>1, TornDisk
  <2>3. Good(disk', served, requested) /\ Content(disk') = Content(disk)
    BY <1>1, <2>2, GoodKept, SameContent
  <2> QED
    BY <1>3, <2>2, <2>3 DEF DiskInv, RestoreType, MarkerInv, Pending, Saved
<1> QED
  BY <1>2, <1>3

LEMMA StepFailsKeepsInv == DiskInv /\ cleanups \in Nat /\ StepFails /\ cleanups' = 0 => DiskInv'
<1> SUFFICES ASSUME DiskInv, cleanups \in Nat, StepFails, cleanups' = 0
             PROVE  DiskInv'
  OBVIOUS
<1> DEFINE op == Head(todo)
<1>1. op.do # "rmdir"
  BY DEF StepFails, Blame
<1>2. op # RmDir("tmp")
  BY <1>1 DEF RmDir
<1>3. PhaseInv(disk, phase, todo) /\ todo # <<>> /\ OnError(op)
  BY DEF DiskInv, StepFails
<1>4. /\ RestoreType' /\ Good(disk', served', requested') /\ MarkerInv'
      /\ Content(disk') = Content(disk) /\ (Pending(disk') <=> Pending(disk))
      /\ disk'.marker = disk.marker /\ served' = served
      /\ phase \in {"staging", "unstaging"} => disk' = disk
      /\ (Saved(disk') <=> Saved(disk))
  BY <1>1, TornKeepsInv DEF StepFails
<1>5. ASSUME PhaseInv(disk', phase', todo'),
             phase' \in {"staging", "unstaging", "serving"} => Online
      PROVE  DiskInv'
  BY <1>4, <1>5 DEF DiskInv, Online
<1>6. CASE phase = "cleanup"
  <2>1. Enter("cleanup", Tail(todo)) /\ CleanupInv(disk, todo)
    BY <1>3, <1>6 DEF OnError, PhaseInv
  <2>2. Tail(todo) \in {C2, C3, L10}
    <3>1. todo # L10
      BY <1>1, RollbackTails DEF First, RmDir
    <3>2. todo \in {C1, C2, C3}
      BY <1>3, <2>1, <3>1 DEF CleanupInv
    <3> QED
      BY <3>2, OtherTails DEF First
  <2> QED
    BY <1>4, <1>5, <2>1, <2>2 DEF Enter, PhaseInv, CleanupInv
<1>7. CASE phase = "unstaging"
  <2>1. Enter("unstaging", Tail(todo)) /\ Serving(disk) /\ todo \in {D2, D3}
    BY <1>3, <1>7 DEF OnError, PhaseInv
  <2>2. Tail(todo) \in {D3, <<>>}
    BY <2>1, OtherTails DEF First
  <2> QED
    BY <1>4, <1>5, <1>7, <2>1, <2>2 DEF Enter, PhaseInv, Online
<1>8. CASE phase = "staging"
  <2>1. Enter("unstaging", D2) /\ Serving(disk)
    BY <1>3, <1>8, Lists DEF OnError, PhaseInv
  <2> QED
    BY <1>4, <1>5, <1>8, <2>1 DEF Enter, PhaseInv, Online
<1>9. CASE phase = "saving"
  <2>1. Enter("discarding", D0)
    BY <1>2, <1>3, <1>9, Lists DEF OnError
  <2>2. ~Saved(disk)
    BY <1>3, <1>9 DEF PhaseInv, SavingInv
  <2> QED
    BY <1>4, <1>5, <2>1, <2>2 DEF Enter, PhaseInv, DiscardingInv
<1>10. CASE phase = "discarding"
  <2>1. Enter("opening", <<>>) /\ ~Saved(disk)
    BY <1>2, <1>3, <1>10 DEF OnError, PhaseInv, DiscardingInv
  <2> QED
    BY <1>4, <1>5, <2>1 DEF Enter, PhaseInv
<1>11. CASE phase \in {"replacing", "commit"}
  <2>1. Enter("rollback", L1(Keyed(disk)))
    BY <1>3, <1>11, Lists DEF OnError, Keyed
  <2>2. Pending(disk) /\ Saved(disk)
    BY <1>3, <1>11 DEF PhaseInv, ReplacingInv, CommitInv
  <2>3. Keyed(disk') = Keyed(disk)
    BY <1>4 DEF Keyed
  <2> QED
    BY <1>4, <1>5, <2>1, <2>2, <2>3 DEF Enter, PhaseInv, RollbackInv
<1>12. CASE phase = "committed"
  <2>1. todo = L10
    BY <1>3, <1>12 DEF PhaseInv, CommittedInv
  <2> QED
    BY <1>1, <2>1, RollbackTails DEF First, RmDir
<1>13. CASE phase = "rollback"
  <2>1. Enter("down", <<>>)
    BY <1>3, <1>13 DEF OnError
  <2> QED
    BY <1>5, <2>1 DEF Enter, PhaseInv
<1> QED
  BY <1>3, <1>6, <1>7, <1>8, <1>9, <1>10, <1>11, <1>12, <1>13 DEF PhaseInv

LEMMA CrashKeepsInv == DiskInv /\ Crash => DiskInv'
<1> SUFFICES ASSUME DiskInv, Crash
             PROVE  DiskInv'
  OBVIOUS
<1>1. phase' = "down" /\ todo' = <<>>
  BY DEF Crash, Enter
<1>2. RestoreType' /\ Good(disk', served', requested') /\ MarkerInv'
  <2>1. CASE todo = <<>>
    BY <2>1 DEF Crash, DiskInv, RestoreType, MarkerInv
  <2>2. CASE todo # <<>>
    BY <2>2, TornKeepsInv DEF Crash
  <2> QED
    BY <2>1, <2>2
<1> QED
  BY <1>1, <1>2 DEF DiskInv, PhaseInv, Online

\* The steps that only decide what comes next.
LEMMA DecisionsKeepInv ==
  DiskInv /\ (ApplyPendingRestore \/ PhaseDone \/ \E ok \in BOOLEAN : Verify(ok)) => DiskInv'
<1> SUFFICES ASSUME DiskInv, ApplyPendingRestore \/ PhaseDone \/ \E ok \in BOOLEAN : Verify(ok)
             PROVE  DiskInv'
  OBVIOUS
<1>1. UNCHANGED <<disk, backup, served, requested, writes, imports, crashes, cleanups>>
  BY DEF ApplyPendingRestore, PhaseDone, Verify
<1>2. RestoreType' /\ Good(disk', served', requested') /\ MarkerInv'
  BY <1>1 DEF DiskInv, RestoreType, MarkerInv
<1>3. ASSUME PhaseInv(disk, phase', todo'), Online' => Online
      PROVE  DiskInv'
  BY <1>1, <1>2, <1>3 DEF DiskInv
<1>4. PhaseInv(disk, phase, todo) /\ DiskType(disk)
  BY DEF DiskInv, RestoreType
<1>5. CASE ApplyPendingRestore
  <2>1. CASE ~Pending(disk)
    <3>1. phase' = "cleanup" /\ todo' = C1
      BY <1>5, <2>1, Lists DEF ApplyPendingRestore, Enter, Pending
    <3> QED
      BY <1>3, <2>1, <3>1 DEF PhaseInv, CleanupInv, Online
  <2>2. CASE Pending(disk) /\ Saved(disk)
    <3>1. phase' = "rollback" /\ todo' = L1(Keyed(disk))
      BY <1>5, <2>2, Lists DEF ApplyPendingRestore, Enter, Pending, Saved, Keyed
    <3> QED
      BY <1>3, <2>2, <3>1 DEF PhaseInv, RollbackInv, Online
  <2>3. CASE Pending(disk) /\ ~Saved(disk) /\ StagedValid
    <3>1. phase' = "saving" /\ todo' = S1(Keyed(disk))
      BY <1>5, <2>3, Lists DEF ApplyPendingRestore, Enter, Pending, Saved, Keyed
    <3> QED
      BY <1>3, <2>3, <3>1 DEF PhaseInv, SavingInv, Staged, StagedValid, Keyed, Online
  <2>4. CASE Pending(disk) /\ ~Saved(disk) /\ ~StagedValid
    <3>1. phase' = "discarding" /\ todo' = D1
      BY <1>5, <2>4, Lists DEF ApplyPendingRestore, Enter, Pending, Saved
    <3> QED
      BY <1>3, <2>4, <3>1 DEF PhaseInv, DiscardingInv, Online
  <2> QED
    BY <2>1, <2>2, <2>3, <2>4
<1>6. CASE PhaseDone
  <2>1. todo = <<>>
    BY <1>6 DEF PhaseDone
  <2>2. CASE phase = "saving"
    <3>1. phase' = "replacing" /\ todo' = R1(Keyed(disk))
      BY <1>6, <2>2, Lists DEF PhaseDone, Enter, Keyed
    <3>2. SavingInv(disk, <<>>) /\ Keyed(disk) \in BOOLEAN
      BY <1>4, <2>1, <2>2 DEF PhaseInv, Keyed
    <3>3. Saved(disk) /\ Pending(disk) /\ Staged(disk)
      BY <3>2, SaveTails DEF SavingInv, First
    <3> QED
      BY <1>3, <3>1, <3>3 DEF PhaseInv, ReplacingInv, Online
  <2>3. CASE phase = "replacing"
    <3>1. phase' = "verifying" /\ todo' = <<>>
      BY <1>6, <2>3 DEF PhaseDone, Enter
    <3>2. ReplacingInv(disk, <<>>) /\ Keyed(disk) \in BOOLEAN
      BY <1>4, <2>1, <2>3 DEF PhaseInv, Keyed
    <3>3. Saved(disk) /\ Pending(disk) /\ Restored(disk)
      BY <3>2, ReplaceTails DEF ReplacingInv, First
    <3> QED
      BY <1>3, <3>1, <3>3 DEF PhaseInv, Online
  <2>4. CASE phase = "commit"
    <3>1. phase' = "committed" /\ todo' = L10
      BY <1>6, <2>4 DEF PhaseDone, Enter, L10
    <3>2. ~Pending(disk)
      BY <1>4, <2>1, <2>4, OtherTails DEF PhaseInv, CommitInv, First
    <3> QED
      BY <1>3, <3>1, <3>2 DEF PhaseInv, CommittedInv, Online
  <2>5. CASE phase \in {"cleanup", "discarding", "rollback"}
    <3>1. phase' = "opening" /\ todo' = <<>>
      BY <1>6, <2>5 DEF PhaseDone, Enter
    <3>2. Keyed(disk) \in BOOLEAN
      BY DEF Keyed
    <3>3. ~Saved(disk)
      BY <1>4, <2>1, <2>5, <3>2, OtherTails, RollbackTails
         DEF PhaseInv, CleanupInv, DiscardingInv, RollbackInv, First
    <3> QED
      BY <1>3, <3>1, <3>3 DEF PhaseInv, Online
  <2>6. CASE phase \in {"staging", "unstaging"}
    <3>1. phase' = "serving" /\ todo' = <<>>
      BY <1>6, <2>6 DEF PhaseDone, Enter
    <3> QED
      BY <1>3, <1>4, <2>6, <3>1 DEF PhaseInv, Online
  <2> QED
    BY <1>6, <2>2, <2>3, <2>4, <2>5, <2>6 DEF PhaseDone
<1>7. CASE \E ok \in BOOLEAN : Verify(ok)
  <2>1. Pending(disk) /\ Saved(disk) /\ Restored(disk) /\ ~Online
    BY <1>4, <1>7 DEF Verify, PhaseInv, Online
  <2>2. \/ phase' = "commit" /\ todo' = M1
        \/ phase' = "rollback" /\ todo' = L1(Keyed(disk))
    BY <1>7, Lists DEF Verify, Enter, M1, Keyed
  <2> QED
    BY <1>3, <2>1, <2>2 DEF PhaseInv, CommitInv, RollbackInv, Online
<1> QED
  BY <1>5, <1>6, <1>7

\* A Panel in service reads its data directory.
LEMMA DataIsKept ==
  ASSUME NEW d, ~Saved(d)
  PROVE  /\ Content(d) = Logical(d.files["data"])
         /\ \A f \in Files : KeptFile(d, f) = d.files["data"][f]
<1>1. \A f \in Files : KeptFile(d, f) = d.files["data"][f]
  BY DEF KeptFile
<1> QED
  BY <1>1 DEF Content, Logical, Files

LEMMA OnlineFacts ==
  DiskInv /\ Online =>
    /\ Serving(disk) /\ DiskType(disk) /\ served \in Databases /\ Logical(data) = served
    /\ data["db"] \in Databases /\ data["key"] \in Keys \cup {NoFile}
    /\ served.key \in {NoFile, data["key"]}
<1> SUFFICES ASSUME DiskInv, Online
             PROVE  /\ Serving(disk) /\ DiskType(disk) /\ served \in Databases
                    /\ Logical(data) = served
                    /\ data["db"] \in Databases /\ data["key"] \in Keys \cup {NoFile}
                    /\ served.key \in {NoFile, data["key"]}
  OBVIOUS
<1>1. Serving(disk) /\ DiskType(disk) /\ served \in Databases /\ Content(disk) = served
      /\ Good(disk, served, requested)
  BY DEF DiskInv, PhaseInv, Online, RestoreType
<1>2. Content(disk) = Logical(data) /\ KeptFile(disk, "key") = data["key"]
  BY <1>1, DataIsKept DEF Serving, data, Files
<1>3. data["key"] \in KeyFile
  BY <1>1, FileTypes DEF Dirs, Files, FileType, data
<1> QED
  BY <1>1, <1>2, <1>3 DEF Good, Serving, data, KeyFile

LEMMA WriteKeepsInv == DiskInv /\ (\E pw \in BOOLEAN : Write(pw)) => DiskInv'
<1> SUFFICES ASSUME DiskInv, NEW pw \in BOOLEAN, Write(pw)
             PROVE  DiskInv'
  OBVIOUS
<1> DEFINE key == IF pw /\ data["key"] = NoFile THEN "own" ELSE data["key"]
           now == [id |-> writes + 1, key |-> IF pw THEN key ELSE served.key]
           e == Set(disk, "data", "key", key)
           log == [base |-> data["db"], now |-> now]
<1>1. /\ Serving(disk) /\ DiskType(disk) /\ served \in Databases /\ data["db"] \in Databases
      /\ data["key"] \in Keys \cup {NoFile} /\ served.key \in {NoFile, data["key"]}
  BY OnlineFacts DEF Write
<1>2. /\ disk' = Set(e, "data", "wal", log) /\ served' = now /\ writes' = writes + 1
      /\ UNCHANGED <<phase, todo, backup, requested>> /\ Online
  BY DEF Write
<1>3. key \in Keys \cup {NoFile} /\ writes \in Nat
  BY <1>1 DEF Keys, DiskInv, RestoreType
<1>4. now \in Databases /\ log \in Logs
  BY <1>1, <1>3 DEF Databases, Logs
<1>5. now.key \in {NoFile, key}
  BY <1>1
<1>6. log.base = data["db"] /\ log.now = now
  OBVIOUS
<1> HIDE DEF key, now, log
<1>7. Changed(disk, e, "data", "key", key)
  BY <1>1, <1>3, SetFile DEF Dirs, Files, FileType, KeyFile
<1>8. Changed(e, disk', "data", "wal", log)
  <2>1. log \in FileType("wal") /\ DiskType(e)
    BY <1>4, <1>7 DEF FileType, LogFile, Changed
  <2> QED
    BY <1>2, <2>1, SetFile DEF Dirs, Files
<1> HIDE DEF e
<1>9. /\ DiskType(disk') /\ disk'.marker = disk.marker /\ Serving(disk') /\ ~Saved(disk')
      /\ disk'.files["data"]["db"] = data["db"] /\ disk'.files["data"]["wal"] = log
      /\ disk'.files["data"]["key"] = key
  BY <1>1, <1>7, <1>8 DEF Changed, Serving, Saved, Dirs, Files, data
<1>10. Logical(disk'.files["data"]) = now
  <2>1. data["db"] \notin {NoFile, Partial} /\ log \notin {NoFile, Partial}
    BY <1>1, <1>4, RestoreAssumption
  <2> QED
    BY <1>6, <1>9, <2>1 DEF Logical
<1>11. Content(disk') = now /\ KeptFile(disk', "key") = key
  BY <1>9, <1>10, DataIsKept DEF Files
<1>12. key # Partial
  BY <1>3, RestoreAssumption
<1>13. Good(disk', served', requested')
  BY <1>2, <1>5, <1>11, <1>12 DEF Good
<1>14. RestoreType' /\ MarkerInv'
  BY <1>2, <1>3, <1>4, <1>9 DEF DiskInv, RestoreType, MarkerInv, Pending
<1>15. PhaseInv(disk', phase', todo')
  BY <1>2, <1>9 DEF DiskInv, PhaseInv, Online
<1> QED
  BY <1>2, <1>11, <1>13, <1>14, <1>15 DEF DiskInv

LEMMA ExportKeepsInv == DiskInv /\ Export => DiskInv'
<1> SUFFICES ASSUME DiskInv, Export
             PROVE  DiskInv'
  OBVIOUS
<1>1. /\ served \in Databases /\ Logical(data) = served
      /\ data["key"] \in Keys \cup {NoFile} /\ served.key \in {NoFile, data["key"]}
  BY OnlineFacts DEF Export
<1>2. backup' = [db |-> served, key |-> data["key"]]
  BY <1>1 DEF Export
<1>3. backup' \in Archives /\ Sound(backup')
  BY <1>1, <1>2 DEF Archives, Sound
<1>4. UNCHANGED <<disk, phase, todo, served, requested, writes>>
  BY DEF Export
<1> QED
  BY <1>3, <1>4 DEF DiskInv, RestoreType, MarkerInv, Online

LEMMA ImportKeepsInv ==
  DiskInv /\ (\E a \in Foreign \cup ({backup} \ {NoFile}) : Import(a)) => DiskInv'
<1> SUFFICES ASSUME DiskInv, NEW a \in Foreign \cup ({backup} \ {NoFile}), Import(a)
             PROVE  DiskInv'
  OBVIOUS
<1>1. a \in Archives
  BY RestoreAssumption DEF DiskInv, RestoreType
<1>2. Sound(a)
  <2>1. CASE a \in Foreign
    BY <2>1, RestoreAssumption DEF Import, Complete, Sound
  <2>2. CASE a \notin Foreign
    BY <2>2 DEF DiskInv, RestoreType
  <2> QED
    BY <2>1, <2>2
<1>3. phase = "serving" /\ phase' = "staging" /\ todo' = T1(a)
  BY Lists DEF Import, Enter
<1>4. UNCHANGED <<disk, backup, served, requested, writes>>
  BY DEF Import
<1>5. PhaseInv(disk, "staging", todo')
  BY <1>1, <1>2, <1>3 DEF DiskInv, PhaseInv, StagingInv
<1> QED
  BY <1>3, <1>4, <1>5 DEF DiskInv, RestoreType, MarkerInv, Online

LEMMA ShutdownKeepsInv == DiskInv /\ Shutdown => DiskInv'
<1> SUFFICES ASSUME DiskInv, Shutdown
             PROVE  DiskInv'
  OBVIOUS
<1> DEFINE e == Set(disk, "data", "db", Logical(data))
<1>1. /\ Serving(disk) /\ DiskType(disk) /\ served \in Databases /\ Logical(data) = served
      /\ data["key"] \in Keys \cup {NoFile} /\ served.key \in {NoFile, data["key"]}
  BY OnlineFacts DEF Shutdown, Online
<1>2. /\ disk' = Set(e, "data", "wal", NoFile) /\ phase' = "down" /\ todo' = <<>>
      /\ UNCHANGED <<backup, served, requested, writes>>
  BY DEF Shutdown, Enter
<1>3. Changed(disk, e, "data", "db", served)
  BY <1>1, SetFile DEF Dirs, Files, FileType, DbFile
<1> HIDE DEF e
<1>4. Changed(e, disk', "data", "wal", NoFile)
  BY <1>2, <1>3, SetFile DEF Dirs, Files, FileType, LogFile, Changed
<1>5. /\ DiskType(disk') /\ disk'.marker = disk.marker /\ ~Saved(disk')
      /\ disk'.files["data"]["db"] = served /\ disk'.files["data"]["wal"] = NoFile
      /\ disk'.files["data"]["key"] = data["key"]
  BY <1>1, <1>3, <1>4 DEF Changed, Serving, Saved, Dirs, Files, data
<1>6. served # NoFile /\ data["key"] # Partial
  BY <1>1, RestoreAssumption
<1>7. Content(disk') = served /\ KeptFile(disk', "key") = data["key"]
  BY <1>5, <1>6, DataIsKept DEF Logical, Files
<1>8. Good(disk', served', requested')
  BY <1>1, <1>2, <1>6, <1>7 DEF Good
<1>9. RestoreType' /\ MarkerInv'
  BY <1>2, <1>5 DEF DiskInv, RestoreType, MarkerInv, Pending
<1> QED
  BY <1>2, <1>8, <1>9 DEF DiskInv, PhaseInv, Online

\* A start ends with what was kept.
LEMMA ServeLosesNothing ==
  ASSUME DiskInv, ~Saved(disk), Serve
  PROVE  /\ DiskInv'
         /\ served' = served \/ served' \in requested
         /\ served'.key \in {NoFile, disk'.files["data"]["key"]}
<1> DEFINE e == Set(disk, "data", "db", Empty)
           d == Set(e, "data", "wal", NoFile)
<1>1. /\ DiskType(disk) /\ Good(disk, served, requested) /\ served \in Databases
      /\ requested \subseteq Databases
  BY DEF DiskInv, RestoreType
<1>2. Content(disk) = Logical(data) /\ KeptFile(disk, "key") = data["key"]
  BY DataIsKept DEF data, Files
<1>3. /\ Logical(data) \in {served} \cup requested /\ Logical(data) \in Databases
      /\ Logical(data).key \in {NoFile, data["key"]} /\ data["key"] # Partial
  BY <1>1, <1>2 DEF Good
<1>4. /\ phase' = "serving" /\ todo' = <<>> /\ served' = Logical(data)
      /\ disk' = IF data["db"] = NoFile THEN d ELSE disk
      /\ requested' = IF disk.marker = NoFile THEN {} ELSE {disk.marker.db}
      /\ UNCHANGED <<backup, writes>>
  BY DEF Serve, Enter
<1>5. /\ DiskType(disk') /\ disk'.marker = disk.marker /\ ~Saved(disk')
      /\ disk'.files["data"]["db"] \in Databases
      /\ Logical(disk'.files["data"]) = Logical(data)
      /\ disk'.files["data"]["key"] = data["key"]
  <2>1. CASE data["db"] = NoFile
    <3>1. Empty \in Databases
      BY DEF Empty, Databases
    <3>2. Changed(disk, e, "data", "db", Empty)
      BY <1>1, <3>1, SetFile DEF Dirs, Files, FileType, DbFile
    <3> HIDE DEF e
    <3>3. Changed(e, d, "data", "wal", NoFile)
      BY <3>2, SetFile DEF Dirs, Files, FileType, LogFile, Changed
    <3> HIDE DEF d
    <3>4. disk' = d
      BY <1>4, <2>1
    <3>5. /\ DiskType(disk') /\ disk'.marker = disk.marker /\ ~Saved(disk')
          /\ disk'.files["data"]["db"] = Empty /\ disk'.files["data"]["wal"] = NoFile
          /\ disk'.files["data"]["key"] = data["key"]
      BY <3>2, <3>3, <3>4 DEF Changed, Saved, Dirs, Files, data
    <3>6. Empty # NoFile
      BY <3>1, RestoreAssumption
    <3> QED
      BY <2>1, <3>1, <3>5, <3>6 DEF Logical
  <2>2. CASE data["db"] # NoFile
    <3>1. disk' = disk
      BY <1>4, <2>2
    <3>2. data["db"] \in DbFile
      BY <1>1, FileTypes DEF Dirs, Files, FileType, data
    <3>3. data["db"] # Partial
      BY <1>3, <2>2, RestoreAssumption DEF Logical
    <3> QED
      BY <1>1, <2>2, <3>1, <3>2, <3>3 DEF DbFile, data
  <2> QED
    BY <2>1, <2>2
<1> HIDE DEF d, e
<1>6. Content(disk') = served' /\ KeptFile(disk', "key") = data["key"]
  BY <1>4, <1>5, DataIsKept DEF Files
<1>7. Good(disk', served', requested')
  BY <1>3, <1>4, <1>6 DEF Good
<1>8. MarkerInv' /\ requested' \subseteq Databases
  BY <1>1, <1>4, <1>5 DEF DiskInv, MarkerInv, Pending, DiskType, Archives
<1>9. RestoreType'
  BY <1>3, <1>4, <1>5, <1>8 DEF DiskInv, RestoreType
<1>10. PhaseInv(disk', phase', todo')
  BY <1>4, <1>5 DEF PhaseInv, Serving
<1>11. served' = served \/ served' \in requested
  BY <1>3, <1>4
<1>12. served'.key \in {NoFile, disk'.files["data"]["key"]}
  BY <1>3, <1>4, <1>5
<1>13. DiskInv'
  BY <1>6, <1>7, <1>8, <1>9, <1>10 DEF DiskInv
<1> QED
  BY <1>11, <1>12, <1>13

LEMMA RestoreInitInv == RestoreInit => RestoreInv
<1> SUFFICES ASSUME RestoreInit
             PROVE  DiskInv /\ cleanups \in Nat
  BY DEF RestoreInv
<1> DEFINE F == [a \in Dirs |-> IF a = "data" THEN [NoFiles EXCEPT !["db"] = Empty] ELSE NoFiles]
<1>1. /\ disk = [files |-> F, dirs |-> {}, marker |-> NoFile]
      /\ phase = "down" /\ todo = <<>> /\ backup = NoFile /\ served = Empty /\ requested = {}
      /\ writes = 0 /\ cleanups = 0
  BY DEF RestoreInit
<1>2. NoFiles \in DirFiles /\ \A f \in Files : NoFiles[f] = NoFile
  BY DEF NoFiles, DirFiles, Files, DbFile, LogFile, KeyFile
<1>3. Empty \in Databases /\ Empty.key = NoFile
  BY DEF Empty, Databases
<1>4. /\ F \in [Dirs -> DirFiles] /\ F["data"]["db"] = Empty /\ F["data"]["wal"] = NoFile
      /\ F["data"]["key"] = NoFile
  <2> DEFINE r == [NoFiles EXCEPT !["db"] = Empty]
  <2>1. r \in DirFiles /\ r["db"] = Empty /\ r["wal"] = NoFile /\ r["key"] = NoFile
    BY <1>2, <1>3 DEF DirFiles, Files, DbFile
  <2>2. F = [a \in Dirs |-> IF a = "data" THEN r ELSE NoFiles]
    OBVIOUS
  <2> HIDE DEF r, F
  <2> QED
    BY <1>2, <2>1, <2>2 DEF Dirs
<1> HIDE DEF F
<1>5. DiskType(disk) /\ ~Saved(disk) /\ ~Pending(disk) /\ disk.files = F
  BY <1>1, <1>4 DEF DiskType, Saved, Pending
<1>6. Empty # NoFile
  BY <1>3, RestoreAssumption
<1>7. Content(disk) = Empty /\ KeptFile(disk, "key") = NoFile
  BY <1>4, <1>5, <1>6, DataIsKept DEF Logical, Files
<1>8. Good(disk, served, requested)
  BY <1>1, <1>3, <1>7, RestoreAssumption DEF Good
<1> QED
  BY <1>1, <1>3, <1>5, <1>8 DEF DiskInv, RestoreType, MarkerInv, PhaseInv, Online

\* Failures to remove a directory are never forgotten.
LEMMA CleanupsCount ==
  ASSUME cleanups \in Nat, [RestoreNext]_restoreVars
  PROVE  cleanups' \in Nat /\ (cleanups' = 0 => cleanups = 0)
<1>1. CASE Step \/ ApplyPendingRestore \/ PhaseDone \/ Open \/ OpenRestored
  BY <1>1 DEF Step, ApplyPendingRestore, PhaseDone, Open, OpenRestored, Serve
<1>2. CASE \E ok \in BOOLEAN : Verify(ok)
  BY <1>2 DEF Verify
<1>3. CASE StepFails
  <2>1. cleanups' = cleanups \/ cleanups' = cleanups + 1
    BY <1>3 DEF StepFails, Blame
  <2> QED
    BY <2>1
<1>4. CASE Crash \/ Shutdown \/ Export
  BY <1>4 DEF Crash, Shutdown, Export
<1>5. CASE \E pw \in BOOLEAN : Write(pw)
  BY <1>5 DEF Write
<1>6. CASE \E a \in Foreign \cup ({backup} \ {NoFile}) : Import(a)
  BY <1>6 DEF Import
<1>7. CASE UNCHANGED restoreVars
  BY <1>7 DEF restoreVars
<1> QED
  BY <1>1, <1>2, <1>3, <1>4, <1>5, <1>6, <1>7 DEF RestoreNext, Startup

NothingLost ==
  Online' /\ ~Online /\ cleanups = 0 =>
    /\ served' = served \/ served' \in requested
    /\ served'.key \in {NoFile, disk'.files["data"]["key"]}

LEMMA RestoreStep == RestoreInv /\ [RestoreNext]_restoreVars => RestoreInv' /\ NothingLost
<1> SUFFICES ASSUME RestoreInv, [RestoreNext]_restoreVars
             PROVE  RestoreInv' /\ NothingLost
  OBVIOUS
<1>1. cleanups \in Nat /\ cleanups' \in Nat /\ (cleanups' = 0 => cleanups = 0)
  BY CleanupsCount DEF RestoreInv
<1>2. CASE cleanups # 0
  BY <1>1, <1>2 DEF RestoreInv, NothingLost
<1>3. CASE cleanups = 0
  <2>1. DiskInv
    BY <1>3 DEF RestoreInv
  <2>2. ASSUME cleanups' = 0 => DiskInv', Online' => Online
        PROVE  RestoreInv' /\ NothingLost
    BY <1>1, <2>2 DEF RestoreInv, NothingLost
  <2>3. CASE ApplyPendingRestore
    <3>1. DiskInv'
      BY <2>1, <2>3, DecisionsKeepInv
    <3>2. ~Online'
      BY <2>3 DEF ApplyPendingRestore, Enter, Online
    <3> QED
      BY <2>2, <3>1, <3>2
  <2>4. CASE Step
    <3>1. DiskInv' /\ phase' = phase
      BY <2>1, <2>4, StepKeepsInv DEF Step
    <3> QED
      BY <2>2, <3>1 DEF Online
  <2>5. CASE PhaseDone
    <3>1. DiskInv'
      BY <2>1, <2>5, DecisionsKeepInv
    <3>2. Online' => Online
      BY <2>5 DEF PhaseDone, Enter, Online
    <3> QED
      BY <2>2, <3>1, <3>2
  <2>6. CASE \E ok \in BOOLEAN : Verify(ok)
    <3>1. DiskInv'
      BY <2>1, <2>6, DecisionsKeepInv
    <3>2. ~Online'
      BY <2>6 DEF Verify, Enter, Online
    <3> QED
      BY <2>2, <3>1, <3>2
  <2>7. CASE Open \/ OpenRestored
    <3>1. Serve /\ ~Saved(disk)
      <4>1. CASE Open
        BY <2>1, <4>1 DEF DiskInv, PhaseInv, Open
      <4>2. CASE OpenRestored
        BY <2>1, <4>2, RollbackTails DEF DiskInv, PhaseInv, OpenRestored, CommittedInv, First
      <4> QED
        BY <2>7, <4>1, <4>2
    <3>2. /\ DiskInv'
          /\ served' = served \/ served' \in requested
          /\ served'.key \in {NoFile, disk'.files["data"]["key"]}
      BY <2>1, <3>1, ServeLosesNothing
    <3> QED
      BY <1>1, <3>2 DEF RestoreInv, NothingLost
  <2>8. CASE StepFails
    <3>1. cleanups' = 0 => DiskInv'
      BY <1>1, <2>1, <2>8, StepFailsKeepsInv
    <3>2. Online' => Online
      <4>1. todo # <<>> /\ PhaseInv(disk, phase, todo) /\ OnError(Head(todo))
        BY <2>1, <2>8 DEF StepFails, DiskInv
      <4>2. phase \in {"cleanup", "saving", "replacing", "commit", "committed", "rollback",
                      "discarding", "staging", "unstaging"}
        BY <4>1 DEF PhaseInv
      <4>3. CASE phase \in {"staging", "unstaging"}
        BY <4>3 DEF Online
      <4>4. CASE phase \in {"cleanup", "saving", "replacing", "commit", "committed", "rollback",
                           "discarding"}
        BY <4>1, <4>4 DEF OnError, Enter, Online
      <4> QED
        BY <4>2, <4>3, <4>4
    <3> QED
      BY <2>2, <3>1, <3>2
  <2>9. CASE Crash
    <3>1. DiskInv'
      BY <2>1, <2>9, CrashKeepsInv
    <3>2. ~Online'
      BY <2>9 DEF Crash, Enter, Online
    <3> QED
      BY <2>2, <3>1, <3>2
  <2>10. CASE Shutdown
    <3>1. DiskInv'
      BY <2>1, <2>10, ShutdownKeepsInv
    <3>2. ~Online'
      BY <2>10 DEF Shutdown, Enter, Online
    <3> QED
      BY <2>2, <3>1, <3>2
  <2>11. CASE Export
    <3>1. DiskInv' /\ phase' = phase
      BY <2>1, <2>11, ExportKeepsInv DEF Export
    <3> QED
      BY <2>2, <3>1 DEF Online
  <2>12. CASE \E pw \in BOOLEAN : Write(pw)
    <3>1. DiskInv' /\ phase' = phase
      BY <2>1, <2>12, WriteKeepsInv DEF Write
    <3> QED
      BY <2>2, <3>1 DEF Online
  <2>13. CASE \E a \in Foreign \cup ({backup} \ {NoFile}) : Import(a)
    <3>1. DiskInv' /\ Online
      BY <2>1, <2>13, ImportKeepsInv DEF Import, Online
    <3> QED
      BY <2>2, <3>1
  <2>14. CASE UNCHANGED restoreVars
    <3>1. DiskInv' /\ phase' = phase
      BY <2>1, <2>14 DEF restoreVars, DiskInv, RestoreType, MarkerInv, Online
    <3> QED
      BY <2>2, <3>1 DEF Online
  <2> QED
    BY <2>3, <2>4, <2>5, <2>6, <2>7, <2>8, <2>9, <2>10, <2>11, <2>12, <2>13, <2>14
       DEF RestoreNext, Startup
<1> QED
  BY <1>2, <1>3

(***************************************************************************)
(* For any archives and any number of crashes, failures, imports and       *)
(* writes: a start serves what was served or what was asked for, with its  *)
(* mail key (ApplyPendingRestore, Rollback, Commit, StageImport).          *)
(***************************************************************************)
THEOREM DatabaseIsNeverLost == RestoreSpec => NoLostDatabase
<1>1. RestoreSpec => []RestoreInv
  BY RestoreInitInv, RestoreStep, PTL DEF RestoreSpec
<1>2. RestoreInv /\ [RestoreNext]_restoreVars => [NothingLost]_restoreVars
  BY RestoreStep
<1> QED
  BY <1>1, <1>2, PTL DEF RestoreSpec, NoLostDatabase, NothingLost
=============================================================================
