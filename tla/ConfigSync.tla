----------------------------- MODULE ConfigSync -----------------------------
(***************************************************************************)
(* Desired-state synchronisation between the Panel and the Agent of one    *)
(* Server (panel/internal/agentcontrol, internal/operation,                *)
(* internal/server/lifecycle.go, cmd/agent/config_sync.go).                *)
(*                                                                         *)
(* The Panel keeps a version number of the configuration it wants on the   *)
(* Server.  The Agent polls it, applies it to the managed services and     *)
(* reports the result.  The Panel's SQLite pool has one connection         *)
(* (database.go), so every Panel transaction is one atomic action; an HTTP *)
(* handler that runs two transactions is two actions, and anything may     *)
(* happen between them.                                                    *)
(***************************************************************************)
EXTENDS Integers, FiniteSets

CONSTANTS
  Configs,      \* what a Server may be configured with, as one value each
  Disabled,     \* the configuration left behind when a Server is archived
  Requests,     \* handles of the result requests the Panel may be handling
  MaxVersion,   \* bound on servers.desired_state_version
  MaxAgents,    \* bound on the number of registrations (agents.id)
  MaxPatches,   \* bound on the number of PATCH requests
  MaxFaults     \* bound on failures, timeouts, lost answers and restarts

ASSUME ConstantsAssumption ==
  /\ Disabled \in Configs
  /\ Configs \cap {"mixed", "purged"} = {}
  /\ "none" \notin Requests
  /\ MaxVersion \in Nat \ {0}
  /\ MaxAgents \in Nat
  /\ MaxPatches \in Nat
  /\ MaxFaults \in Nat

VARIABLES
  \* The row of the Server in table servers.
  srv,          \* "active", "archived" (archived_at set) or "deleted"
  desired,      \* desired_state_version
  config,       \* every table row the desired state is computed from
  decom,        \* decommission_status, "none" for the empty string
  \* The row of the Server's Agent in table agents.
  agentId,      \* its id, 0 when there is no row
  applied,      \* applied_config_version
  sync,         \* config_sync_status
  lastAgentId,  \* the AUTOINCREMENT counter of agents.id
  token,        \* "unused" while agent_enrollments has an unused, unexpired row
  ops,          \* configuration_operations: the status per version
  \* Requests in progress inside the Panel.
  due,          \* 1 when a client expired or used up its quota, not yet reconciled
  patch,        \* "checked" once a PATCH request passed requireMutableServer
  failing,      \* Agents whose fetch failed, failure not yet recorded
  reqs,         \* results being handled by recordAgentConfigResult
  \* One Agent process per registered identity.
  pc,           \* where its configSynchronizer.sync is
  fetched,      \* the desired state that sync works on
  outcome,      \* the status it reports
  last,         \* lastSuccessfulVersion
  runtime,      \* what the managed services of its VPS run
  req,          \* the result request it waits for
  done,         \* history: versions whose application succeeded
  \* Bounds.
  patches, faults

serverVars == <<srv, desired, config, decom>>
rowVars == <<agentId, applied, sync>>
enrollVars == <<lastAgentId, token>>
handlerVars == <<due, patch, failing, reqs>>
procVars == <<pc, fetched, outcome, last, runtime, req, done>>
boundVars == <<patches, faults>>
vars == <<serverVars, rowVars, enrollVars, ops, handlerVars, procVars, boundVars>>

Versions == 1..MaxVersion
AgentIds == 1..MaxAgents

OpStatus == {"none", "pending", "sent", "applied", "failed", "superseded"}
OpenStatus == {"pending", "sent"}

\* The document getAgentConfig answers with.
DesiredState == [ver : Versions, decom : BOOLEAN, config : Configs]

\* A result request: the reporting Agent, its result, the handler's progress.
Report == [aid : AgentIds, ver : Versions, st : {"success", "failed"},
           stage : {"sent", "recorded", "ok", "err"}]
Free == [stage |-> "free"]

Runtimes == Configs \cup {"mixed", "purged"}

TypeOK ==
  /\ srv \in {"active", "archived", "deleted"}
  /\ desired \in Versions
  /\ config \in Configs
  /\ decom \in {"none", "pending", "failed"}
  /\ agentId \in 0..MaxAgents
  /\ applied \in 0..MaxVersion
  /\ sync \in {"pending", "success", "failed"}
  /\ lastAgentId \in 0..MaxAgents
  /\ token \in {"none", "unused"}
  /\ ops \in [Versions -> OpStatus]
  /\ due \in 0..1
  /\ patch \in {"none", "checked"}
  /\ failing \in SUBSET AgentIds
  /\ reqs \in [Requests -> Report \cup {Free}]
  /\ pc \in [AgentIds -> {"off", "idle", "fetched", "applied", "awaiting", "gone"}]
  /\ fetched \in [AgentIds -> DesiredState]
  /\ outcome \in [AgentIds -> {"success", "failed"}]
  /\ last \in [AgentIds -> 0..MaxVersion]
  /\ runtime \in [AgentIds -> Runtimes]
  /\ req \in [AgentIds -> Requests \cup {"none"}]
  /\ done \in [AgentIds -> SUBSET Versions]
  /\ patches \in 0..MaxPatches
  /\ faults \in 0..MaxFaults

-----------------------------------------------------------------------------
(* The operation ledger, package operation.                                *)

\* Mistake: an operation the Agent has fetched already is not superseded.
SupersedesPendingOnly(status) == status = "pending"

\* The operations RecordTx closes when a newer version is recorded.
Supersedes(status) == status \in OpenStatus

\* RecordTx: a new version supersedes the open operations of older ones.
RecordTx(o, v) ==
  [w \in Versions |->
     IF w = v THEN "pending"
     ELSE IF w < v /\ Supersedes(o[w]) THEN "superseded" ELSE o[w]]

\* MarkSentTx: an Agent has been given version v.
MarkSentTx(o, v) ==
  [w \in Versions |-> IF w <= v /\ o[w] = "pending" THEN "sent" ELSE o[w]]

\* Mistake: a success leaves older failures.
SucceedsOpenOnly(o, w, v) == w <= v /\ o[w] \in OpenStatus

\* A success for version v covers every operation up to v ...
Succeeds(o, w, v) == w <= v /\ o[w] \in OpenStatus \cup {"failed"}

\* Mistake: the status filter of the failure update is missing.
FailsAny(o, w, v) == w = v /\ o[w] # "none"

\* ... a failure only the operation of v itself.
Fails(o, w, v) == w = v /\ o[w] \in OpenStatus

RecordReceiptTx(o, v, st) ==
  [w \in Versions |->
     IF st = "success" /\ Succeeds(o, w, v) THEN "applied"
     ELSE IF st = "failed" /\ Fails(o, w, v) THEN "failed" ELSE o[w]]

-----------------------------------------------------------------------------
(* Shared guards and effects.                                              *)

\* The agents/servers join every Agent endpoint makes.
ValidAgent(a) == agentId = a /\ a # 0 /\ srv = "active"

Fault == faults < MaxFaults /\ faults' = faults + 1

\* A version is kept free for the reconciliation that is due.
Room == desired + due < MaxVersion

\* Mistakes: the version stays although the tables change; it moves twice.
bumpVersionMissing ==
  /\ desired' = desired
  /\ sync' = "pending"
bumpVersionTwice ==
  /\ desired' = desired + 2
  /\ sync' = "pending"

\* bumpVersion: the new version, and the Agent's row waits for it.
bumpVersion ==
  /\ desired' = desired + 1
  /\ sync' = "pending"

Init ==
  /\ srv = "active" /\ desired = 1 /\ config = Disabled /\ decom = "none"
  /\ agentId = 0 /\ applied = 0 /\ sync = "pending"
  /\ lastAgentId = 0 /\ token = "unused"
  /\ ops = [v \in Versions |-> "none"]
  /\ due = 0 /\ patch = "none" /\ failing = {}
  /\ reqs = [r \in Requests |-> Free]
  /\ pc = [a \in AgentIds |-> "off"]
  /\ fetched = [a \in AgentIds |-> [ver |-> 1, decom |-> FALSE, config |-> Disabled]]
  /\ outcome = [a \in AgentIds |-> "success"]
  /\ last = [a \in AgentIds |-> 0]
  /\ runtime = [a \in AgentIds |-> "mixed"]
  /\ req = [a \in AgentIds |-> "none"]
  /\ done = [a \in AgentIds |-> {}]
  /\ patches = 0 /\ faults = 0

-----------------------------------------------------------------------------
(* Registration.                                                           *)

\* Mistake: enrolling again is possible while the Server is decommissioned.
MayEnrollAlways == srv # "deleted"

MayEnroll == srv # "deleted" /\ decom = "none"

\* CreateEnrollment / RotateEnrollment: the old Agent is revoked at once.
CreateEnrollment ==
  /\ MayEnroll
  /\ lastAgentId < MaxAgents
  /\ agentId' = 0 /\ applied' = 0 /\ sync' = "pending"
  /\ token' = "unused"
  /\ UNCHANGED <<serverVars, lastAgentId, ops, handlerVars, procVars,
                 boundVars>>

EnrollmentExpires ==
  /\ token = "unused" /\ token' = "none"
  /\ UNCHANGED <<serverVars, rowVars, lastAgentId, ops, handlerVars, procVars,
                 boundVars>>

\* RegisterAgentWithMetadata: a new identity; an archived Server comes back.
RegisterRow ==
  /\ token = "unused" /\ lastAgentId < MaxAgents
  /\ token' = "none"
  /\ lastAgentId' = lastAgentId + 1
  /\ agentId' = lastAgentId + 1 /\ applied' = 0 /\ sync' = "pending"
  /\ srv' = "active"
  /\ UNCHANGED <<desired, config, decom, ops, handlerVars, fetched, outcome,
                 last, runtime, req, done, patches>>

RegisterAgent ==
  /\ RegisterRow
  /\ pc' = [pc EXCEPT ![lastAgentId + 1] = "idle"]
  /\ UNCHANGED faults

\* The answer that carries the Agent's token is lost: no process ever uses it.
RegisterAgentUnheard ==
  /\ RegisterRow
  /\ Fault
  /\ UNCHANGED pc

-----------------------------------------------------------------------------
(* Changes of the desired state.                                           *)

\* A resource change that bumps the version and records an operation
\* (proxy.go, relay.go, BumpServerVersionsTx, bumpDependencyServersTx).
MutateConfig(c) ==
  /\ srv = "active" /\ decom = "none" /\ Room
  /\ bumpVersion
  /\ config' = c
  /\ ops' = RecordTx(ops, desired + 1)
  /\ UNCHANGED <<srv, decom, agentId, applied, enrollVars, handlerVars,
                 procVars, boundVars>>

\* A change that bumps the version only (client.go, traffic.go, bumpDependencies).
MutateUnrecorded(c) ==
  /\ srv = "active" /\ decom = "none" /\ Room
  /\ bumpVersion
  /\ config' = c
  /\ UNCHANGED <<srv, decom, agentId, applied, enrollVars, ops, handlerVars,
                 procVars, boundVars>>

\* Time or traffic makes a client ineligible; the next fetch reconciles it.
LifecycleDue ==
  /\ srv = "active" /\ decom = "none" /\ due = 0 /\ Room
  /\ due' = 1
  /\ UNCHANGED <<serverVars, rowVars, enrollVars, ops, patch, failing, reqs,
                 procVars, boundVars>>

\* updateServerExpiration: the mutability check is a read of its own ...
PatchBegin ==
  /\ srv = "active" /\ decom = "none"
  /\ patch = "none" /\ patches < MaxPatches
  /\ patch' = "checked" /\ patches' = patches + 1
  /\ UNCHANGED <<serverVars, rowVars, enrollVars, ops, due, failing, reqs,
                 procVars, faults>>

\* ... and UpdateOutboundPreference or UpdateBlockChinaInbound does not repeat it.
PatchCommit(c) ==
  /\ patch = "checked" /\ srv = "active" /\ Room
  /\ patch' = "none"
  /\ bumpVersion
  /\ config' = c
  /\ ops' = RecordTx(ops, desired + 1)
  /\ UNCHANGED <<srv, decom, agentId, applied, enrollVars, due, failing, reqs,
                 procVars, boundVars>>

\* The PATCH finds the Server archived, or its setting already as requested.
PatchNoChange ==
  /\ patch = "checked" /\ patch' = "none"
  /\ UNCHANGED <<serverVars, rowVars, enrollVars, ops, due, failing, reqs,
                 procVars, boundVars>>

RequestDecommission ==
  /\ srv = "active" /\ decom = "none" /\ agentId # 0 /\ Room
  /\ decom' = "pending"
  /\ bumpVersion
  /\ token' = "none"
  /\ ops' = RecordTx(ops, desired + 1)
  /\ UNCHANGED <<srv, config, agentId, applied, lastAgentId, handlerVars,
                 procVars, boundVars>>

\* What archiving does to the Server's own rows: everything on it is disabled,
\* its Agent and its unused enrollments are deleted, its version is kept.
archiveServer ==
  /\ srv' = "archived" /\ decom' = "none"
  /\ config' = Disabled /\ due' \in {0, due}
  /\ agentId' = 0 /\ applied' = 0 /\ sync' = "pending"
  /\ token' = "none"

ForceArchive ==
  /\ srv = "active"
  /\ archiveServer
  /\ UNCHANGED <<desired, lastAgentId, ops, patch, failing, reqs, procVars,
                 boundVars>>

PermanentlyDelete ==
  /\ srv = "archived"
  /\ srv' = "deleted" /\ token' = "none"
  /\ ops' = [v \in Versions |-> "none"]
  /\ UNCHANGED <<desired, config, decom, rowVars, lastAgentId, handlerVars,
                 procVars, boundVars>>

-----------------------------------------------------------------------------
(* The Agent fetches the desired state.                                    *)

\* GetDesiredState: reconciles what is due, then marks the version sent.
GetDesiredState(a, c) ==
  /\ ValidAgent(a)
  /\ IF decom = "none" /\ due = 1
     THEN /\ bumpVersion
          /\ config' = c
          /\ due' = 0
          /\ ops' = MarkSentTx(RecordTx(ops, desired + 1), desired + 1)
     ELSE /\ c = config
          /\ ops' = MarkSentTx(ops, desired)
          /\ UNCHANGED <<desired, sync, config, due>>
  /\ UNCHANGED <<srv, decom, agentId, applied, enrollVars, patch, failing,
                 reqs>>

\* Mistake: a version is tried once, whatever came of it.
NeedsApplyOnce(a, v) == v # last[a] /\ v # fetched[a].ver

\* The comparison sync makes before it applies anything.
NeedsApply(a, v) == v # last[a]

\* configSynchronizer.sync up to the comparison with lastSuccessfulVersion.
Fetch(a, c) ==
  /\ pc[a] = "idle"
  /\ GetDesiredState(a, c)
  /\ IF NeedsApply(a, desired')
     THEN /\ pc' = [pc EXCEPT ![a] = "fetched"]
          /\ fetched' = [fetched EXCEPT ![a] =
               [ver |-> desired', decom |-> decom # "none", config |-> c]]
     ELSE UNCHANGED <<pc, fetched>>
  /\ UNCHANGED <<outcome, last, runtime, req, done, boundVars>>

\* The answer is lost, or the fetch belongs to a diagnosis.
FetchUnheard(a, c) ==
  /\ pc[a] \notin {"off", "gone"}
  /\ GetDesiredState(a, c)
  /\ UNCHANGED <<procVars, boundVars>>

\* GetDesiredState returns an error and its transaction is rolled back.
FetchFails(a) ==
  /\ pc[a] \notin {"off", "gone"} /\ ValidAgent(a) /\ a \notin failing
  /\ failing' = failing \cup {a}
  /\ Fault
  /\ UNCHANGED <<serverVars, rowVars, enrollVars, ops, due, patch, reqs,
                 procVars, patches>>

\* RecordDesiredStateFailure: a second transaction, against the version of then.
RecordDesiredStateFailure(a) ==
  /\ a \in failing
  /\ failing' = failing \ {a}
  /\ IF ValidAgent(a)
     THEN sync' = "failed" /\ ops' = RecordReceiptTx(ops, desired, "failed")
     ELSE UNCHANGED <<sync, ops>>
  /\ UNCHANGED <<serverVars, agentId, applied, enrollVars, due, patch, reqs,
                 procVars, boundVars>>

-----------------------------------------------------------------------------
(* The Agent applies what it fetched.                                      *)

\* What the fetched state asks the VPS to run.
Target(a) == IF fetched[a].decom THEN "purged" ELSE fetched[a].config

ApplySucceeds(a) ==
  /\ pc[a] = "fetched"
  /\ pc' = [pc EXCEPT ![a] = "applied"]
  /\ outcome' = [outcome EXCEPT ![a] = "success"]
  /\ runtime' = [runtime EXCEPT ![a] = Target(a)]
  /\ done' = [done EXCEPT ![a] = @ \cup {fetched[a].ver}]
  /\ UNCHANGED <<serverVars, rowVars, enrollVars, ops, handlerVars, fetched,
                 last, req, boundVars>>

\* What an interrupted or failed application may leave behind: the services
\* are handled one after the other; a purged VPS has nothing left to break.
Leftovers(a) ==
  {runtime[a], Target(a)} \cup
  (IF fetched[a].decom /\ runtime[a] = "purged" THEN {} ELSE {"mixed"})

ApplyFails(a) ==
  /\ pc[a] = "fetched"
  /\ pc' = [pc EXCEPT ![a] = "applied"]
  /\ outcome' = [outcome EXCEPT ![a] = "failed"]
  /\ \E x \in Leftovers(a) : runtime' = [runtime EXCEPT ![a] = x]
  /\ Fault
  /\ UNCHANGED <<serverVars, rowVars, enrollVars, ops, handlerVars, fetched,
                 last, req, done, patches>>

-----------------------------------------------------------------------------
(* The Agent reports, the Panel handles the report in two transactions.    *)

\* report: POST /api/agent/config/result.
SendReport(a, r) ==
  /\ pc[a] = "applied" /\ reqs[r] = Free
  /\ reqs' = [reqs EXCEPT ![r] =
       [aid |-> a, ver |-> fetched[a].ver, st |-> outcome[a], stage |-> "sent"]]
  /\ req' = [req EXCEPT ![a] = r]
  /\ pc' = [pc EXCEPT ![a] = "awaiting"]
  /\ UNCHANGED <<serverVars, rowVars, enrollVars, ops, due, patch, failing,
                 fetched, outcome, last, runtime, done, boundVars>>

\* The report never reaches the Panel.
ReportUnsent(a) ==
  /\ pc[a] = "applied"
  /\ pc' = [pc EXCEPT ![a] = "idle"]
  /\ Fault
  /\ UNCHANGED <<serverVars, rowVars, enrollVars, ops, handlerVars, fetched,
                 outcome, last, runtime, req, done, patches>>

\* The handler's answer; nobody reads it once the Agent gave up.
Respond(r, answer) ==
  reqs' = [reqs EXCEPT ![r] =
    IF \E a \in AgentIds : req[a] = r THEN [@ EXCEPT !.stage = answer] ELSE Free]

Recorded(r) == reqs' = [reqs EXCEPT ![r].stage = "recorded"]

\* Mistakes: any Agent of the Server will do; old results count again.
AcceptsFromAny(m) == agentId # 0 /\ srv = "active" /\ m.ver <= desired
NeverOutdated(m) == FALSE

\* RecordConfigResult refuses a revoked Agent and a version from the future ...
Accepts(m) == ValidAgent(m.aid) /\ m.ver <= desired

\* ... and ignores a version older than the one already applied.
Outdated(m) == m.ver < applied

\* RecordConfigResult, the first transaction of recordAgentConfigResult.
RecordConfigResult(r) ==
  LET m == reqs[r] IN
  /\ m.stage = "sent"
  /\ \/ /\ ~Accepts(m)
        /\ Respond(r, "err")
        /\ UNCHANGED <<applied, sync, ops>>
     \/ /\ Accepts(m) /\ Outdated(m)
        /\ Recorded(r)
        /\ UNCHANGED <<applied, sync, ops>>
     \/ /\ Accepts(m) /\ ~Outdated(m)
        /\ Recorded(r)
        /\ applied' = IF m.st = "success" THEN m.ver ELSE applied
        /\ sync' = m.st
        /\ ops' = RecordReceiptTx(ops, m.ver, m.st)
  /\ UNCHANGED <<serverVars, agentId, enrollVars, due, patch, failing, procVars,
                 boundVars>>

\* Mistakes: the version is not compared; a retry after a failure is ignored.
ClosesAnyVersion(m) == decom # "none"
ClosesFirstTryOnly(m) == m.ver = desired /\ decom = "pending"

\* The result is about the decommission that is going on.
Closes(m) == m.ver = desired /\ decom # "none"

\* FinalizeDecommissionWithMutations, the second one; it sees only the
\* Server and the reported version, not which Agent reports.
FinalizeDecommission(r) ==
  LET m == reqs[r] IN
  /\ m.stage = "recorded"
  /\ \/ /\ srv # "active"
        /\ Respond(r, "err")
        /\ UNCHANGED <<serverVars, rowVars, token, due>>
     \/ /\ srv = "active" /\ ~Closes(m)
        /\ Respond(r, "ok")
        /\ UNCHANGED <<serverVars, rowVars, token, due>>
     \/ /\ srv = "active" /\ Closes(m) /\ m.st = "failed"
        /\ Respond(r, "ok")
        /\ decom' = "failed"
        /\ UNCHANGED <<srv, desired, config, rowVars, token, due>>
     \/ /\ srv = "active" /\ Closes(m) /\ m.st = "success"
        /\ Respond(r, "ok")
        /\ archiveServer
        /\ UNCHANGED desired
  /\ UNCHANGED <<lastAgentId, ops, patch, failing, procVars, boundVars>>

\* A database error or a cancelled request context ends the handler early.
HandlerFails(r) ==
  /\ reqs[r].stage \in {"sent", "recorded"}
  /\ Respond(r, "err")
  /\ Fault
  /\ UNCHANGED <<serverVars, rowVars, enrollVars, ops, due, patch, failing,
                 procVars, patches>>

-----------------------------------------------------------------------------
(* The end of a sync, and the ways it is cut short.                        *)

\* The request an Agent abandons stays with the Panel until it is handled.
Abandon(a) ==
  /\ req' = [req EXCEPT ![a] = "none"]
  /\ reqs' = IF req[a] # "none" /\ reqs[req[a]].stage \in {"ok", "err"}
             THEN [reqs EXCEPT ![req[a]] = Free] ELSE reqs

\* 204 after a success: the version is remembered, a decommissioned Agent
\* activates its self-uninstallation instead.
SyncSucceeds(a) ==
  /\ pc[a] = "awaiting" /\ reqs[req[a]].stage = "ok" /\ outcome[a] = "success"
  /\ Abandon(a)
  /\ pc' = [pc EXCEPT ![a] = IF fetched[a].decom THEN "gone" ELSE "idle"]
  /\ last' = [last EXCEPT ![a] = fetched[a].ver]
  /\ UNCHANGED <<serverVars, rowVars, enrollVars, ops, due, patch, failing,
                 fetched, outcome, runtime, done, boundVars>>

\* The Panel refused the report, or the report was of a failure.
SyncFails(a) ==
  /\ pc[a] = "awaiting"
  /\ \/ reqs[req[a]].stage = "err"
     \/ reqs[req[a]].stage = "ok" /\ outcome[a] = "failed"
  /\ Abandon(a)
  /\ pc' = [pc EXCEPT ![a] = "idle"]
  /\ UNCHANGED <<serverVars, rowVars, enrollVars, ops, due, patch, failing,
                 fetched, outcome, last, runtime, done, boundVars>>

\* The Agent stops waiting, or the self-uninstallation does not activate.
SyncCut(a) ==
  /\ pc[a] = "awaiting"
  /\ Abandon(a)
  /\ pc' = [pc EXCEPT ![a] = "idle"]
  /\ Fault
  /\ UNCHANGED <<serverVars, rowVars, enrollVars, ops, due, patch, failing,
                 fetched, outcome, last, runtime, done, patches>>

\* A crash or a restart, at any point; lastSuccessfulVersion is in memory only.
RestartAgent(a) ==
  /\ pc[a] \notin {"off", "gone"}
  /\ Abandon(a)
  /\ pc' = [pc EXCEPT ![a] = "idle"]
  /\ last' = [last EXCEPT ![a] = 0]
  /\ \E x \in IF pc[a] = "fetched" THEN Leftovers(a) ELSE {runtime[a]} :
       runtime' = [runtime EXCEPT ![a] = x]
  /\ Fault
  /\ UNCHANGED <<serverVars, rowVars, enrollVars, ops, due, patch, failing,
                 fetched, outcome, done, patches>>

\* The connection, and with it the context of a running sync, is cancelled.
CancelSync(a) ==
  /\ pc[a] = "fetched"
  /\ pc' = [pc EXCEPT ![a] = "idle"]
  /\ \E x \in Leftovers(a) : runtime' = [runtime EXCEPT ![a] = x]
  /\ Fault
  /\ UNCHANGED <<serverVars, rowVars, enrollVars, ops, handlerVars, fetched,
                 outcome, last, req, done, patches>>

\* The Panel process restarts: transactions are kept, handlers are not.
RestartPanel ==
  /\ patch' = "none" /\ failing' = {}
  /\ reqs' = [r \in Requests |->
       IF reqs[r] # Free /\ \E a \in AgentIds : req[a] = r
       THEN [reqs[r] EXCEPT !.stage = "err"] ELSE Free]
  /\ Fault
  /\ UNCHANGED <<serverVars, rowVars, enrollVars, ops, due, procVars, patches>>

-----------------------------------------------------------------------------
AgentStep(a) ==
  \/ \E c \in Configs : Fetch(a, c)
  \/ ApplySucceeds(a)
  \/ \E r \in Requests : SendReport(a, r)
  \/ SyncSucceeds(a)
  \/ SyncFails(a)

PanelStep(r) == RecordConfigResult(r) \/ FinalizeDecommission(r)

AdminStep ==
  \/ CreateEnrollment \/ EnrollmentExpires \/ RegisterAgent \/ RegisterAgentUnheard
  \/ \E c \in Configs : MutateConfig(c) \/ MutateUnrecorded(c) \/ PatchCommit(c)
  \/ LifecycleDue \/ PatchBegin \/ PatchNoChange
  \/ RequestDecommission \/ ForceArchive \/ PermanentlyDelete

FaultStep(a) ==
  \/ \E c \in Configs : FetchUnheard(a, c)
  \/ FetchFails(a) \/ RecordDesiredStateFailure(a)
  \/ ApplyFails(a) \/ ReportUnsent(a) \/ SyncCut(a) \/ RestartAgent(a) \/ CancelSync(a)

Next ==
  \/ AdminStep
  \/ \E a \in AgentIds : AgentStep(a) \/ FaultStep(a)
  \/ \E r \in Requests : PanelStep(r) \/ HandlerFails(r)
  \/ RestartPanel

Spec == Init /\ [][Next]_vars

\* The Agent polls on a ticker whether or not it is connected, its requests
\* have deadlines, and net/http runs every handler it accepted.
Fairness ==
  /\ \A a \in AgentIds : WF_vars(AgentStep(a)) /\ WF_vars(RecordDesiredStateFailure(a))
  /\ \A r \in Requests : WF_vars(PanelStep(r))

FairSpec == Spec /\ Fairness

-----------------------------------------------------------------------------
(* Properties.                                                             *)

InService == agentId # 0 /\ srv = "active" /\ decom = "none"

(***************************************************************************)
(* sync skips a fetched state whose version equals lastSuccessfulVersion.  *)
(* That is sound only if an equal version means an equal configuration:    *)
(* the services of the registered Agent then run what the Panel holds now, *)
(* whatever was fetched, half applied, reported or lost in between.        *)
(***************************************************************************)
SkippedFetchIsCurrent ==
  InService /\ pc[agentId] = "idle" /\ last[agentId] = desired /\ due = 0
    => runtime[agentId] = config

(***************************************************************************)
(* RecordConfigResult never credits the registered Agent with a version    *)
(* that this very identity did not apply: late reports of a replaced       *)
(* Agent, reports in flight across a re-registration and reports handled   *)
(* out of order included.                                                  *)
(***************************************************************************)
AppliedWasApplied ==
  agentId # 0 =>
    /\ applied # 0 => applied \in done[agentId]
    /\ sync = "success" => applied # 0

(***************************************************************************)
(* Newer operations settle older ones, however receipts and new operations *)
(* interleave: at most one operation of a Server is waiting for its Agent, *)
(* and under an applied one none is open or failed.                        *)
(***************************************************************************)
NewerSettlesOlder ==
  /\ \A v, w \in Versions : ops[v] \in OpenStatus /\ ops[w] \in OpenStatus => v = w
  /\ \A v, w \in Versions :
       ops[v] = "applied" /\ w <= v => ops[w] \in {"none", "applied", "superseded"}

(***************************************************************************)
(* While a Server is being decommissioned its Agent stays registered and   *)
(* no enrollment can replace it, so the cleanup can be retried.            *)
(***************************************************************************)
DecommissionKeepsCredentials ==
  decom # "none" => srv = "active" /\ agentId # 0 /\ token = "none"

(***************************************************************************)
(* FinalizeDecommission archives a Server only when the VPS of its Agent   *)
(* has been purged, although the handler that archives it checks nothing   *)
(* but a version number, one transaction after the report was recorded.    *)
(***************************************************************************)
ArchivedAfterPurge ==
  [][srv = "active" /\ srv' = "archived" /\ reqs' # reqs
       => runtime[agentId] = "purged"]_vars

(***************************************************************************)
(* Applied and superseded are final: no receipt, fetch or failure that     *)
(* comes late changes them while the Server exists.                        *)
(***************************************************************************)
SettledOperationsStay ==
  [][\A v \in Versions :
       ops[v] \in {"applied", "superseded"} /\ srv' # "deleted" => ops'[v] = ops[v]]_vars

(***************************************************************************)
(* The promise of the synchronisation as a whole: the acknowledged version *)
(* is one that the registered Agent has run, and it only moves forward     *)
(* until the Agent is replaced.                                            *)
(***************************************************************************)
Contract == INSTANCE SyncContract WITH
  version <- desired,
  acked <- applied,
  ran <- IF agentId = 0 THEN {} ELSE done[agentId]
ImplementsContract == Contract!Spec

(***************************************************************************)
(* Once changes and failures stop, an Agent that polls brings its VPS to   *)
(* the desired state and the Panel learns of it.                           *)
(***************************************************************************)
Synced ==
  /\ applied = desired
  /\ runtime[agentId] = config
Converges == <>[](InService /\ pc[agentId] # "off" => Synced)

(***************************************************************************)
(* A requested decommission ends with the Server archived: a failed or     *)
(* unreported cleanup is tried again.  Stated of Servers without a PATCH,  *)
(* because of UninstalledMeansArchived.                                    *)
(***************************************************************************)
DecommissionCompletes ==
  decom # "none" /\ pc[agentId] # "off" /\ patches = 0 ~> srv # "active"

(***************************************************************************)
(* "Only a successful matching result archives the Server" and the Agent   *)
(* activates its self-uninstallation after reporting: an Agent that        *)
(* uninstalled itself leaves no Server waiting for it.                     *)
(***************************************************************************)
UninstalledMeansArchived == agentId # 0 => pc[agentId] # "gone"
=============================================================================
