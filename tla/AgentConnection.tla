-------------------------- MODULE AgentConnection ---------------------------
(***************************************************************************)
(* The WebSocket connections between the Panel and the Agents of one       *)
(* Server: the registry of current connections, the status column of the   *)
(* Server, and the diagnostics requests that wait on a connection          *)
(* (internal/agentcontrol/connection.go, status.go, diagnostics.go,        *)
(* internal/api/agent_connection.go).                                      *)
(*                                                                         *)
(* Every WebSocket has a handler goroutine of its own.  A critical section *)
(* of connectionsMu is one action, as is a database transaction; a handler *)
(* may be suspended between any two of them.                               *)
(***************************************************************************)
EXTENDS Naturals

CONSTANTS
  Conns,        \* WebSocket handlers (each handle is used again when free)
  Diags,        \* diagnostics requests, each used once
  Admins,       \* requests that change the Agent (each handle is used again when free)
  None,         \* no connection
  MaxAgents,    \* bound on agents.id
  MaxRemovals,  \* bound on forced removals of the Server
  MaxDbErrors,  \* bound on failed updates of the status
  MaxFaults     \* bound on broken sockets, timeouts and restarts

ASSUME ConnectionAssumption ==
  /\ None \notin Conns /\ {"none", "handed"} \cap Admins = {}
  /\ MaxAgents \in Nat /\ MaxRemovals \in Nat
  /\ MaxDbErrors \in Nat /\ MaxFaults \in Nat

VARIABLES
  \* Database.
  agentId, lastAgentId, archived, status,
  token,        \* the unused enrollment: "none", "handed" to an administrator, or
                \*   the request that made it and has not answered yet
  \* Panel memory.
  tracked,      \* connections[serverID]
  hpc, haid,    \* progress and Agent of each handler
  socket,       \* "open" or "closed", as both ends will come to see it
  admin,        \* progress of each request that changed the Agent
  closing,      \* connection that its CloseConnections took out of the registry
  \* Diagnostics.
  dpc, dconn,   \* progress and connection of each request
  pend,         \* pendingDiagnostics of each connection
  sending,      \* requests taken from pend whose response is not yet sent
  sends,        \* how many responses went into the channel of capacity 1
  removals, dbErrors, faults,
  adrift        \* history: a connection of the registered Agent left the registry and
                \*   the status was not written since

dbVars == <<agentId, lastAgentId, archived, status, token>>
connVars == <<tracked, hpc, haid, socket>>
adminVars == <<admin, closing>>
diagVars == <<dpc, dconn, pend, sending, sends>>
boundVars == <<removals, dbErrors, faults>>
connectionVars == <<dbVars, connVars, adminVars, diagVars, boundVars, adrift>>

Fault == faults < MaxFaults /\ faults' = faults + 1

ConnectionInit ==
  /\ agentId = 0 /\ lastAgentId = 0 /\ archived = FALSE /\ status = "pending"
  /\ token = "handed"
  /\ tracked = None
  /\ hpc = [h \in Conns |-> "free"]
  /\ haid = [h \in Conns |-> 0]
  /\ socket = [h \in Conns |-> "closed"]
  /\ admin = [a \in Admins |-> "idle"] /\ closing = [a \in Admins |-> None]
  /\ dpc = [d \in Diags |-> "new"]
  /\ dconn = [d \in Diags |-> None]
  /\ pend = [h \in Conns |-> {}]
  /\ sending = {}
  /\ sends = [d \in Diags |-> 0]
  /\ removals = 0 /\ dbErrors = 0 /\ faults = 0 /\ adrift = FALSE

-----------------------------------------------------------------------------
(* Registration and removal: a transaction, then CloseConnections.  No lock *)
(* spans the two, so several requests may be between them.                 *)

\* CreateEnrollment, whatever the state of the Server; an enrollment that was made
\* before is deleted.
RotateEnrollment(a) ==
  /\ admin[a] = "idle" /\ lastAgentId < MaxAgents
  /\ agentId' = 0 /\ status' = "pending" /\ token' = a
  /\ admin' = [admin EXCEPT ![a] = "changed"] /\ adrift' = FALSE
  /\ UNCHANGED <<lastAgentId, archived, connVars, closing, diagVars, boundVars>>

\* RegisterAgentWithMetadata, by whoever was handed the token.
RegisterAgent ==
  /\ token = "handed" /\ lastAgentId < MaxAgents
  /\ lastAgentId' = lastAgentId + 1
  /\ agentId' = lastAgentId + 1
  /\ status' = "offline" /\ archived' = FALSE /\ token' = "none" /\ adrift' = FALSE
  /\ UNCHANGED <<connVars, adminVars, diagVars, boundVars>>

\* ForceArchive, or the end of a decommission.
Archive(a) ==
  /\ admin[a] = "idle" /\ ~archived /\ removals < MaxRemovals
  /\ removals' = removals + 1
  /\ archived' = TRUE /\ agentId' = 0 /\ status' = "offline" /\ token' = "none"
  /\ admin' = [admin EXCEPT ![a] = "changed"] /\ adrift' = FALSE
  /\ UNCHANGED <<lastAgentId, connVars, closing, diagVars, dbErrors, faults>>

\* CloseConnections up to the unlock.  An Agent that is registered by now came after
\* the change of this request, so the connection and the status may be its own.
CloseConnections(a) ==
  /\ admin[a] = "changed"
  /\ admin' = [admin EXCEPT ![a] = "closing"]
  /\ closing' = [closing EXCEPT ![a] = tracked]
  /\ tracked' = None
  /\ adrift' = (adrift \/ (tracked # None /\ agentId # 0))
  /\ UNCHANGED <<dbVars, hpc, haid, socket, diagVars, boundVars>>

\* failPendingDiagnostics: the map is emptied, then every channel gets an error.
failPending(h) ==
  /\ pend' = [pend EXCEPT ![h] = {}]
  /\ sends' = [d \in Diags |-> IF d \in pend[h] THEN sends[d] + 1 ELSE sends[d]]

\* The rest of CloseConnections; createEnrollment then hands out its token, which
\* is of use unless another request has replaced it.
FinishClosing(a) ==
  /\ admin[a] = "closing"
  /\ IF closing[a] = None
     THEN UNCHANGED <<pend, sends, socket>>
     ELSE failPending(closing[a]) /\ socket' = [socket EXCEPT ![closing[a]] = "closed"]
  /\ admin' = [admin EXCEPT ![a] = "idle"]
  /\ closing' = [closing EXCEPT ![a] = None]
  /\ token' = IF token = a THEN "handed" ELSE token
  /\ UNCHANGED <<agentId, lastAgentId, archived, status, tracked, hpc, haid, dpc, dconn,
                 sending, boundVars, adrift>>

-----------------------------------------------------------------------------
(* A handler: agentWebSocket.                                              *)

\* An Agent without a live socket connects and is authenticated.
Connect(h) ==
  /\ hpc[h] = "free" /\ \A d \in Diags : dconn[d] = h => dpc[d] = "done"
  /\ h # tracked /\ \A a \in Admins : h # closing[a]
  /\ agentId # 0 /\ ~archived
  /\ \A g \in Conns : haid[g] = agentId => socket[g] = "closed"
  /\ hpc' = [hpc EXCEPT ![h] = "accepted"]
  /\ haid' = [haid EXCEPT ![h] = agentId]
  /\ socket' = [socket EXCEPT ![h] = "open"]
  /\ UNCHANGED <<dbVars, tracked, adminVars, diagVars, boundVars, adrift>>

\* SetAgentConnectedMetadata: online, unless the Agent was revoked meanwhile.
SetAgentConnected(h) ==
  /\ hpc[h] = "accepted"
  /\ IF agentId = haid[h] /\ ~archived
     THEN /\ status' = "online"
          /\ hpc' = [hpc EXCEPT ![h] = "online"]
          /\ adrift' = FALSE
          /\ UNCHANGED socket
     ELSE /\ hpc' = [hpc EXCEPT ![h] = "free"]
          /\ socket' = [socket EXCEPT ![h] = "closed"]
          /\ UNCHANGED <<status, adrift>>
  /\ UNCHANGED <<agentId, lastAgentId, archived, token, tracked, haid, adminVars,
                 diagVars, boundVars>>

\* Mistake: requests pending on the replaced connection are forgotten.
replaceSilently(h) == UNCHANGED <<pend, sends>>

replacePrevious(h) == IF tracked = None THEN UNCHANGED <<pend, sends>> ELSE failPending(tracked)

\* TrackConnection, then the previous socket is closed.
TrackConnection(h) ==
  /\ hpc[h] = "online"
  /\ hpc' = [hpc EXCEPT ![h] = "reading"]
  /\ replacePrevious(h)
  /\ socket' = [g \in Conns |-> IF g = tracked THEN "closed" ELSE socket[g]]
  /\ tracked' = h
  /\ UNCHANGED <<dbVars, haid, adminVars, dpc, dconn, sending, boundVars, adrift>>

\* Mistake: a heartbeat of a revoked Agent keeps its connection.
heartbeatAlwaysValid(h) == TRUE

\* TouchAgent finds the row of the Agent that connected.
heartbeatValid(h) == agentId = haid[h]

\* A message of the Agent: a replaced connection ends, so does a revoked Agent.
\* (Otherwise the message only refreshes columns that are not modelled.)
Heartbeat(h) ==
  /\ hpc[h] = "reading" /\ socket[h] = "open"
  /\ tracked # h \/ ~heartbeatValid(h)
  /\ hpc' = [hpc EXCEPT ![h] = IF tracked # h THEN "free" ELSE "leaving"]
  /\ socket' = [socket EXCEPT ![h] = "closed"]
  /\ UNCHANGED <<dbVars, tracked, haid, adminVars, diagVars, boundVars, adrift>>

\* connection.Read returns an error.
ReadError(h) ==
  /\ hpc[h] = "reading" /\ socket[h] = "closed"
  /\ hpc' = [hpc EXCEPT ![h] = "leaving"]
  /\ UNCHANGED <<dbVars, tracked, haid, socket, adminVars, diagVars, boundVars, adrift>>

SetAgentOffline == IF status = "online" /\ ~archived THEN "offline" ELSE status

\* DisconnectCurrent: registry and status change under connectionsMu.
DisconnectCurrent(h) ==
  /\ hpc[h] = "leaving"
  /\ hpc' = [hpc EXCEPT ![h] = "free"]
  /\ socket' = [socket EXCEPT ![h] = "closed"]
  /\ IF tracked = h
     THEN /\ tracked' = None
          /\ failPending(h)
          /\ status' = SetAgentOffline /\ adrift' = FALSE
     ELSE UNCHANGED <<tracked, pend, sends, status, adrift>>
  /\ UNCHANGED <<agentId, lastAgentId, archived, token, haid, adminVars, dpc, dconn,
                 sending, boundVars>>

\* SetAgentOffline fails after the connection left the registry.
DisconnectHalf(h) ==
  /\ hpc[h] = "leaving" /\ tracked = h
  /\ hpc' = [hpc EXCEPT ![h] = "free"]
  /\ socket' = [socket EXCEPT ![h] = "closed"]
  /\ tracked' = None
  /\ failPending(h)
  /\ dbErrors < MaxDbErrors /\ dbErrors' = dbErrors + 1
  /\ adrift' = TRUE
  /\ UNCHANGED <<dbVars, haid, adminVars, dpc, dconn, sending, removals, faults>>

\* The network or the Agent process drops the socket.
SocketBreaks(h) ==
  /\ socket[h] = "open"
  /\ socket' = [socket EXCEPT ![h] = "closed"]
  /\ Fault
  /\ UNCHANGED <<dbVars, tracked, hpc, haid, adminVars, diagVars, removals, dbErrors, adrift>>

\* Mistake: the Panel starts with the status of its last run.
ResetOnlineSkipped == status

ResetOnline == IF status = "online" /\ ~archived THEN "offline" ELSE status

\* The Panel restarts: memory is lost, ResetOnline clears the status.
RestartPanel ==
  /\ tracked' = None
  /\ hpc' = [h \in Conns |-> "free"]
  /\ socket' = [h \in Conns |-> "closed"]
  /\ admin' = [a \in Admins |-> "idle"] /\ closing' = [a \in Admins |-> None]
  /\ token' = IF token \in Admins THEN "none" ELSE token
  /\ status' = ResetOnline /\ adrift' = FALSE
  /\ dpc' = [d \in Diags |-> IF dpc[d] = "new" THEN "new" ELSE "done"]
  /\ pend' = [h \in Conns |-> {}]
  /\ sending' = {}
  /\ Fault
  /\ UNCHANGED <<agentId, lastAgentId, archived, haid, dconn, sends, removals, dbErrors>>

-----------------------------------------------------------------------------
(* Diagnostics: RequestDiagnostics and the answers to it.                  *)

\* registerDiagnostic: one request at a time per connection.
registerAlone(d) == pend[tracked] = {}

\* Look-up and registration are one critical section of connectionsMu.
RegisterDiagnostic(d) ==
  /\ dpc[d] = "new" /\ tracked # None /\ registerAlone(d)
  /\ dpc' = [dpc EXCEPT ![d] = "registered"]
  /\ dconn' = [dconn EXCEPT ![d] = tracked]
  /\ pend' = [pend EXCEPT ![tracked] = @ \cup {d}]
  /\ UNCHANGED <<dbVars, connVars, adminVars, sending, sends, boundVars, adrift>>

\* The deferred removeDiagnostic.
removeDiagnostic(d) ==
  /\ dpc' = [dpc EXCEPT ![d] = "done"]
  /\ pend' = [pend EXCEPT ![dconn[d]] = @ \ {d}]

\* The request is written, unless the connection was replaced in between.
SendDiagnostic(d) ==
  /\ dpc[d] = "registered"
  /\ IF tracked = dconn[d]
     THEN dpc' = [dpc EXCEPT ![d] = "waiting"] /\ UNCHANGED pend
     ELSE removeDiagnostic(d)
  /\ UNCHANGED <<dbVars, connVars, adminVars, dconn, sending, sends, boundVars, adrift>>

\* resolveDiagnostic removes the request before it answers it.
takePending(d, h) == pend' = [pend EXCEPT ![h] = @ \ {d}]

\* A diagnostic_result arrives on a connection that was current when checked.
ResolveDiagnostic(d, h) ==
  /\ hpc[h] = "reading" /\ d \in pend[h] /\ dpc[d] = "waiting"
  /\ d \notin sending
  /\ takePending(d, h)
  /\ sending' = sending \cup {d}
  /\ UNCHANGED <<dbVars, connVars, adminVars, dpc, dconn, sends, boundVars, adrift>>

SendResponse(d) ==
  /\ d \in sending
  /\ sending' = sending \ {d}
  /\ sends' = [sends EXCEPT ![d] = @ + 1]
  /\ UNCHANGED <<dbVars, connVars, adminVars, dpc, dconn, pend, boundVars, adrift>>

\* RequestDiagnostics returns what came through the channel.
ReceiveDiagnostic(d) ==
  /\ dpc[d] = "waiting" /\ sends[d] > 0
  /\ removeDiagnostic(d)
  /\ UNCHANGED <<dbVars, connVars, adminVars, dconn, sending, sends, boundVars, adrift>>

\* The context ends, or the request cannot be written.
DiagnosticTimeout(d) ==
  /\ dpc[d] \in {"registered", "waiting"}
  /\ removeDiagnostic(d)
  /\ Fault
  /\ UNCHANGED <<dbVars, connVars, adminVars, dconn, sending, sends, removals, dbErrors, adrift>>

-----------------------------------------------------------------------------
AdminStep ==
  \/ RegisterAgent
  \/ \E a \in Admins :
       RotateEnrollment(a) \/ Archive(a) \/ CloseConnections(a) \/ FinishClosing(a)

HandlerStep(h) ==
  \/ SetAgentConnected(h) \/ TrackConnection(h) \/ Heartbeat(h) \/ ReadError(h)
  \/ DisconnectCurrent(h)

DiagStep(d) ==
  \/ RegisterDiagnostic(d) \/ SendDiagnostic(d) \/ ReceiveDiagnostic(d)
  \/ SendResponse(d) \/ \E h \in Conns : ResolveDiagnostic(d, h)

ConnectionNext ==
  \/ AdminStep
  \/ \E h \in Conns : HandlerStep(h) \/ Connect(h) \/ DisconnectHalf(h) \/ SocketBreaks(h)
  \/ RestartPanel
  \/ \E d \in Diags : DiagStep(d) \/ DiagnosticTimeout(d)

ConnectionSpec == ConnectionInit /\ [][ConnectionNext]_connectionVars

-----------------------------------------------------------------------------
(* Properties.                                                             *)

\* The request waits and nobody is about to answer it.
Unanswered(d) == dpc[d] = "waiting" /\ sends[d] = 0 /\ d \notin sending

(***************************************************************************)
(* A response channel has room for one response, and failPendingDiagnostics*)
(* sends while connectionsMu is held: a second response would block the    *)
(* registry of the whole Panel.  Results, replacements, disconnections and *)
(* closed connections together send at most one, one request is in         *)
(* progress per connection, and none waits on a connection nobody will     *)
(* answer for: it is answered, about to be answered, or registered with    *)
(* the connection that is current (or is being closed and will fail it).   *)
(***************************************************************************)
AnsweredOnce ==
  /\ \A d \in Diags : sends[d] <= 1
  /\ \A d \in Diags : Unanswered(d) => 
       d \in pend[dconn[d]] /\ dconn[d] \in {tracked} \cup {closing[a] : a \in Admins}
  /\ \A c, d \in Diags : Unanswered(c) /\ Unanswered(d) /\ dconn[c] = dconn[d] => c = d

(***************************************************************************)
(* A Server shown online has a current connection, or a handler that is    *)
(* about to register one.                                                  *)
(***************************************************************************)
StatusFollowsConnection ==
  status = "online" => tracked # None \/ \E h \in Conns : hpc[h] = "online"

(***************************************************************************)
(* That holds whatever handlers of replaced, closed and revoked            *)
(* connections do at the same time, with two exceptions that last until    *)
(* the status is next written: a status the database refused to write, and *)
(* a request that reaches CloseConnections when an Agent has been          *)
(* registered since its transaction (connection.go:153), and takes its     *)
(* connection.                                                             *)
(***************************************************************************)
OnlineMeansConnected == adrift \/ StatusFollowsConnection

(***************************************************************************)
(* A connection of a revoked Agent does not stay current: the rotation     *)
(* that revoked it may run between SetAgentConnected and TrackConnection,  *)
(* but the next heartbeat ends it.                                         *)
(***************************************************************************)
RevokedConnectionEnds ==
  []<>(tracked = None \/ haid[tracked] = agentId)
=============================================================================
