---------------------------- MODULE AgentUpgrade ----------------------------
(***************************************************************************)
(* Upgrade of the Agent of one Server to the release of its Panel          *)
(* (internal/agentcontrol/upgrade.go, status.go, connection.go,            *)
(* internal/api/agent.go, cmd/agent/upgrade.go, cmd/agent/main.go).        *)
(*                                                                         *)
(* The Panel notes the target release and sends it over the WebSocket.     *)
(* The Agent downloads it in a goroutine and starts a helper process that  *)
(* replaces the binary and restarts the service, under which the goroutine *)
(* and the connection die while the helper goes on.  Success is seen when  *)
(* an Agent of the target release connects; failure is reported by HTTP.   *)
(***************************************************************************)
EXTENDS Naturals

CONSTANTS
  Upgrades,         \* upgrades that may be under way on the VPS
  Handlers,     \* upgrade requests that may be under way in the Panel
  MaxRelease,   \* bound on the releases of Panel and Agent
  MaxRequests,  \* bound on upgrade requests
  MaxFailures,  \* bound on failed downloads, replacements and restarts
  MaxLosses     \* bound on broken connections, lost messages and reboots

ASSUME UpgradeAssumption ==
  /\ MaxRelease \in Nat \ {0}
  /\ MaxRequests \in Nat /\ MaxFailures \in Nat /\ MaxLosses \in Nat

VARIABLES
  panelVersion,
  \* The row in table agents.
  agentVersion, target, status,   \* version, upgrade_target_version (0: none), upgrade_status
  \* Panel memory.
  handler,      \* target of a request between its two steps, 0 when free
  joining,      \* release of a connection that is recorded but not yet tracked
  conn,         \* release of the tracked connection, 0 when there is none
  \* The VPS.
  alive,        \* the tracked connection reaches the running Agent
  running,      \* release of the running Agent process, 0 when it is down
  binary,       \* release of the file agentManagedPath
  inbox,        \* channel upgradeRequested, capacity 1
  busy,         \* upgradeInProgress of this connection
  upgrade,      \* progress, target and rollback copy of each upgrade
  best,         \* history: the newest release that ever connected
  overlap,      \* history: two upgrades were under way on the VPS at once
  requests, failures, losses

rowVars == <<agentVersion, target, status>>
connVars == <<joining, conn, alive>>
agentVars == <<running, binary, inbox, busy>>
history == <<best, overlap>>
boundVars == <<requests, failures, losses>>
upgradeVars == <<panelVersion, rowVars, handler, connVars, agentVars, upgrade, history, boundVars>>

NoUpgrade == [at |-> "free", to |-> 0, saved |-> 0, mine |-> FALSE]

\* What the goroutine does; the other stages are those of the helper process.
AgentStages == {"preparing", "refused"}

Failure == failures < MaxFailures /\ failures' = failures + 1 /\ UNCHANGED <<requests, losses>>
Loss == losses < MaxLosses /\ losses' = losses + 1 /\ UNCHANGED <<requests, failures>>

UpgradeInit ==
  /\ panelVersion = 1 /\ agentVersion = 1 /\ target = 0 /\ status = "none"
  /\ handler = [h \in Handlers |-> 0]
  /\ joining = 0 /\ conn = 1 /\ alive = TRUE
  /\ running = 1 /\ binary = 1 /\ inbox = 0 /\ busy = FALSE
  /\ upgrade = [j \in Upgrades |-> NoUpgrade]
  /\ best = 1 /\ overlap = FALSE
  /\ requests = 0 /\ failures = 0 /\ losses = 0

-----------------------------------------------------------------------------
(* The Panel.                                                              *)

\* A newer Panel is installed: its memory and its handlers are gone.
UpgradePanel ==
  /\ panelVersion < MaxRelease /\ panelVersion' = panelVersion + 1
  /\ handler' = [h \in Handlers |-> 0]
  /\ joining' = 0 /\ conn' = 0 /\ alive' = FALSE
  /\ inbox' = 0 /\ busy' = FALSE
  /\ upgrade' = [j \in Upgrades |-> [upgrade[j] EXCEPT !.mine = FALSE]]
  /\ UNCHANGED <<rowVars, running, binary, history, boundVars>>

MayUpgrade == agentVersion < panelVersion

\* PrepareAgentUpgrade: the Server is online and its Agent is older.
PrepareAgentUpgrade(h) ==
  /\ handler[h] = 0 /\ requests < MaxRequests
  /\ conn # 0 \/ joining # 0
  /\ MayUpgrade
  /\ requests' = requests + 1
  /\ target' = panelVersion /\ status' = "upgrading"
  /\ handler' = [handler EXCEPT ![h] = panelVersion]
  /\ UNCHANGED <<panelVersion, agentVersion, connVars, agentVars, upgrade, history, failures, losses>>

\* Mistake: the failure is noted whatever became of the upgrade meanwhile.
FailsWhatever(t) == TRUE

\* The WHERE clause of RecordAgentUpgradeFailure and MarkAgentUpgradeFailed.
FailsOpen(t) == target = t /\ status = "upgrading"

NoteFailure(t) ==
  /\ status' = IF FailsOpen(t) THEN "failed" ELSE status
  /\ UNCHANGED <<agentVersion, target>>

\* NotifyAgentUpgrade, and MarkAgentUpgradeFailed when it returns an error.
NotifyAgentUpgrade(h) ==
  /\ handler[h] # 0
  /\ handler' = [handler EXCEPT ![h] = 0]
  /\ \/ /\ conn = 0 \/ conn > handler[h] \/ (conn < handler[h] /\ ~alive)
        /\ NoteFailure(handler[h])
        /\ UNCHANGED <<inbox, boundVars>>
     \/ /\ conn = handler[h]
        /\ UNCHANGED <<rowVars, inbox, boundVars>>
     \/ /\ conn # 0 /\ conn < handler[h] /\ alive
        /\ inbox' = IF inbox = 0 THEN handler[h] ELSE inbox
        /\ UNCHANGED <<rowVars, boundVars>>
     \/ /\ conn # 0 /\ conn < handler[h] /\ Loss
        /\ UNCHANGED <<rowVars, inbox>>
  /\ UNCHANGED <<panelVersion, connVars, running, binary, busy, upgrade, history>>

\* The CASE of setAgentConnected: the target release has connected.
Confirms(v) == target = v

\* setAgentConnected.
SetAgentConnected ==
  /\ running # 0 /\ ~alive /\ joining = 0
  /\ joining' = running
  /\ agentVersion' = running
  /\ target' = IF Confirms(running) THEN 0 ELSE target
  /\ status' = IF Confirms(running) THEN "none" ELSE status
  /\ best' = IF running > best THEN running ELSE best
  /\ UNCHANGED <<overlap, panelVersion, handler, conn, alive, agentVars, upgrade, boundVars>>

\* TrackConnection: the Agent's loop begins with nothing in progress.
TrackConnection ==
  /\ joining # 0
  /\ conn' = joining /\ joining' = 0
  /\ alive' = (running = joining)
  /\ inbox' = 0 /\ busy' = FALSE
  /\ UNCHANGED <<panelVersion, rowVars, handler, running, binary, upgrade, history, boundVars>>

\* The Panel notices that the socket is gone.
Disconnect ==
  /\ conn # 0 /\ ~alive
  /\ conn' = 0
  /\ UNCHANGED <<panelVersion, rowVars, handler, joining, alive, agentVars, upgrade, history, boundVars>>

-----------------------------------------------------------------------------
(* The Agent.                                                              *)

\* The connection is lost; the goroutines of its loop go on, their results unread.
Disowned(f) == [j \in Upgrades |-> [f[j] EXCEPT !.mine = FALSE]]

ConnectionLost ==
  /\ alive /\ Loss
  /\ alive' = FALSE /\ inbox' = 0 /\ busy' = FALSE
  /\ upgrade' = Disowned(upgrade)
  /\ UNCHANGED <<panelVersion, rowVars, handler, joining, conn, running, binary, history>>

\* The loop takes a request: one upgrade at a time per connection.
StartUpgrade(j) ==
  /\ inbox # 0 /\ ~busy /\ upgrade[j] = NoUpgrade
  /\ inbox' = 0 /\ busy' = TRUE
  /\ upgrade' = [upgrade EXCEPT ![j] = [at |-> "preparing", to |-> inbox, saved |-> 0, mine |-> TRUE]]
  /\ overlap' = (overlap \/ \E i \in Upgrades : upgrade[i] # NoUpgrade)
  /\ UNCHANGED <<panelVersion, rowVars, handler, connVars, running, binary, best, boundVars>>

IgnoreRequest ==
  /\ inbox # 0 /\ busy
  /\ inbox' = 0
  /\ UNCHANGED <<panelVersion, rowVars, handler, connVars, running, binary, busy, upgrade, history,
                 boundVars>>

\* upgradeFinished reaches the loop that started the goroutine.
Finished(j) == busy' = (busy /\ ~upgrade[j].mine)

\* prepareAgentUpgrade: compare, download, verify, launch the helper.
PrepareSucceeds(j) ==
  /\ upgrade[j].at = "preparing" /\ running < upgrade[j].to
  /\ upgrade' = [upgrade EXCEPT ![j].at = "copy", ![j].mine = FALSE]
  /\ Finished(j)
  /\ UNCHANGED <<panelVersion, rowVars, handler, connVars, running, binary, inbox, history, boundVars>>

PrepareFails(j) ==
  /\ upgrade[j].at = "preparing"
  /\ upgrade' = [upgrade EXCEPT ![j].at = "refused"]
  /\ IF running < upgrade[j].to THEN Failure ELSE UNCHANGED boundVars
  /\ UNCHANGED <<panelVersion, rowVars, handler, connVars, agentVars, history>>

\* Mistake: only the goroutine reports, the helper fails in silence.
ReportGoroutine(j) ==
  /\ upgrade[j].at \in {"refused", "failed"}
  /\ upgrade' = [upgrade EXCEPT ![j] = NoUpgrade]
  /\ Finished(j)
  /\ IF upgrade[j].at = "refused" THEN NoteFailure(upgrade[j].to) ELSE UNCHANGED rowVars
  /\ UNCHANGED <<panelVersion, handler, connVars, running, binary, inbox, history, boundVars>>

\* reportAgentUpgradeFailure, tried once, by the goroutine or by the helper.
ReportFailure(j) ==
  /\ upgrade[j].at \in {"refused", "failed"}
  /\ upgrade' = [upgrade EXCEPT ![j] = NoUpgrade]
  /\ Finished(j)
  /\ NoteFailure(upgrade[j].to)
  /\ UNCHANGED <<panelVersion, handler, connVars, running, binary, inbox, history, boundVars>>

ReportLost(j) ==
  /\ upgrade[j].at \in {"refused", "failed"}
  /\ upgrade' = [upgrade EXCEPT ![j] = NoUpgrade]
  /\ Finished(j)
  /\ Loss
  /\ UNCHANGED <<panelVersion, rowVars, handler, connVars, running, binary, inbox, history>>

-----------------------------------------------------------------------------
(* The helper: applyStagedAgentUpgrade.                                    *)

\* The Agent's process ends: its goroutines and its connection with it.
Killed(f) == [j \in Upgrades |-> IF f[j].at \in AgentStages THEN NoUpgrade
                             ELSE [f[j] EXCEPT !.mine = FALSE]]
ProcessEnds == alive' = FALSE /\ inbox' = 0 /\ busy' = FALSE /\ UNCHANGED <<joining, conn>>

Goto(j, stage) == upgrade' = [upgrade EXCEPT ![j].at = stage]

\* copyAgentBinary.
CopyBinary(j) ==
  /\ upgrade[j].at = "copy"
  /\ upgrade' = [upgrade EXCEPT ![j].at = "replace", ![j].saved = binary]
  /\ UNCHANGED <<panelVersion, rowVars, handler, connVars, agentVars, history, boundVars>>

\* os.Rename of the staged binary.
ReplaceBinary(j) ==
  /\ upgrade[j].at = "replace"
  /\ Goto(j, "restart")
  /\ binary' = upgrade[j].to
  /\ UNCHANGED <<panelVersion, rowVars, handler, connVars, running, inbox, busy, history, boundVars>>

\* The copy or the rename fails: nothing has changed.
ReplaceFails(j) ==
  /\ upgrade[j].at \in {"copy", "replace"}
  /\ Goto(j, "failed")
  /\ Failure
  /\ UNCHANGED <<panelVersion, rowVars, handler, connVars, agentVars, history>>

\* restartAgentService: the service runs what is on disk now.
RestartService(j) ==
  /\ upgrade[j].at \in {"restart", "restore"}
  /\ upgrade' = Killed([upgrade EXCEPT ![j] = IF upgrade[j].at = "restart" THEN NoUpgrade
                                      ELSE [@ EXCEPT !.at = "failed"]])
  /\ running' = binary
  /\ ProcessEnds
  /\ UNCHANGED <<panelVersion, rowVars, handler, binary, history, boundVars>>

\* The service does not come up.  (IsActive is taken to tell the truth: the model
\* leaves out a status command that fails although the service is active.)
RestartFails(j) ==
  /\ upgrade[j].at \in {"restart", "restore"}
  /\ upgrade' = Killed([upgrade EXCEPT ![j].at = IF upgrade[j].at = "restart" THEN "undo" ELSE "failed"])
  /\ running' = 0
  /\ ProcessEnds
  /\ Failure
  /\ UNCHANGED <<panelVersion, rowVars, handler, binary, history>>

\* The Chmod of the new binary or the restart command fails before anything stops.
NotRestarted(j) ==
  /\ upgrade[j].at \in {"restart", "restore"}
  /\ Goto(j, IF upgrade[j].at = "restart" THEN "undo" ELSE "failed")
  /\ Failure
  /\ UNCHANGED <<panelVersion, rowVars, handler, connVars, agentVars, history>>

\* Mistake: a failed upgrade leaves the new binary in place.
RestoredBinaryNew(j) == upgrade[j].to

\* rollbackAgentBinary: the copy takes the place of the new binary.
RestoredBinary(j) == upgrade[j].saved

RollbackBinary(j) ==
  /\ upgrade[j].at = "undo"
  /\ Goto(j, "restore")
  /\ binary' = RestoredBinary(j)
  /\ UNCHANGED <<panelVersion, rowVars, handler, connVars, running, inbox, busy, history, boundVars>>

\* The copy cannot be put back; it is removed all the same.
RollbackFails(j) ==
  /\ upgrade[j].at = "undo"
  /\ upgrade' = [upgrade EXCEPT ![j].at = "failed", ![j].saved = 0]
  /\ Failure
  /\ UNCHANGED <<panelVersion, rowVars, handler, connVars, agentVars, history>>

\* The service manager starts a service that is down, some seconds later: a
\* helper that is about to restart the old binary is faster.
ServiceManager ==
  /\ running = 0
  /\ \A j \in Upgrades : upgrade[j].at \notin {"undo", "restore"}
  /\ running' = binary
  /\ UNCHANGED <<panelVersion, rowVars, handler, connVars, binary, inbox, busy, upgrade, history, boundVars>>

\* The VPS reboots.
RebootVps ==
  /\ Loss
  /\ upgrade' = [j \in Upgrades |-> NoUpgrade]
  /\ running' = binary
  /\ ProcessEnds
  /\ UNCHANGED <<panelVersion, rowVars, handler, binary, history>>

-----------------------------------------------------------------------------
PanelStep == (\E h \in Handlers : NotifyAgentUpgrade(h)) \/ TrackConnection \/ Disconnect

AgentStep(j) ==
  \/ StartUpgrade(j) \/ PrepareSucceeds(j) \/ ReportFailure(j)
  \/ CopyBinary(j) \/ ReplaceBinary(j) \/ RestartService(j) \/ RollbackBinary(j)

UpgradeNext ==
  \/ UpgradePanel \/ (\E h \in Handlers : PrepareAgentUpgrade(h))
  \/ PanelStep \/ SetAgentConnected
  \/ ConnectionLost \/ IgnoreRequest \/ ServiceManager \/ RebootVps
  \/ \E j \in Upgrades :
       \/ AgentStep(j)
       \/ PrepareFails(j) \/ ReportLost(j) \/ ReplaceFails(j) \/ RestartFails(j)
       \/ NotRestarted(j) \/ RollbackFails(j)

UpgradeSpec == UpgradeInit /\ [][UpgradeNext]_upgradeVars

-----------------------------------------------------------------------------
(* Properties.                                                             *)

(***************************************************************************)
(* An Agent that is connected with the target release is never shown as    *)
(* upgrading or failed: late failure reports, handlers that could not send *)
(* their message and requests made during the restart do not undo what the *)
(* connection confirmed.                                                   *)
(***************************************************************************)
CurrentAgentIsSettled ==
  status # "none" => target # 0 /\ agentVersion # target /\ ~(alive /\ conn = target)

(***************************************************************************)
(* prepareAgentUpgrade: "automatic downgrade is not supported".  Whatever  *)
(* fails on the way, the service does not end up with a release older than *)
(* one that has already connected to the Panel; and a helper that fails    *)
(* and still has its copy leaves the file that was there before, and not   *)
(* the release it tried running (unless an earlier upgrade that could not  *)
(* be rolled back had left just that release on disk).  With two upgrades  *)
(* at once, the copy of one may be the release of the other.               *)
(***************************************************************************)
FailedUpgradeUndone ==
  running # 0 /\ ~overlap =>
    /\ running >= best
    /\ \A j \in Upgrades : upgrade[j].at = "failed" /\ upgrade[j].saved # 0 =>
         /\ binary = upgrade[j].saved
         /\ running = upgrade[j].to => upgrade[j].saved = upgrade[j].to

(***************************************************************************)
(* An upgrade request is settled, confirmed or failed, also when others    *)
(* for the same release follow it and two upgrades run at once; unless a   *)
(* message is lost, the VPS reboots or the Panel moves on to a newer       *)
(* release.  Stated of the first request: the restart of one upgrade may   *)
(* end another with its message, and only the administrator asks again.    *)
(***************************************************************************)
UpgradeSettles ==
  (status = "upgrading" /\ requests = 1)
    ~> (status # "upgrading" \/ losses # 0 \/ panelVersion # target)
=============================================================================
