-------------------------- MODULE ConfigSyncProofs --------------------------
(* Theorems about ConfigSync, for every value of its constants.            *)
EXTENDS ConfigSync, TLAPS

(***************************************************************************)
(* Type correctness.  The version stays in range because a reconciliation  *)
(* that is due always finds the version it needs still free.               *)
(***************************************************************************)
Reserve == desired + due <= MaxVersion

TypeInv == TypeOK /\ Reserve

\* The state before the first registration is well typed.
LEMMA InitTypeInv == Init => TypeInv
<1> SUFFICES ASSUME Init PROVE TypeInv
  OBVIOUS
<1> USE ConstantsAssumption DEF Init
<1>1. ops \in [Versions -> OpStatus]
  BY DEF OpStatus
<1>2. reqs \in [Requests -> Report \cup {Free}]
  OBVIOUS
<1>3. fetched \in [AgentIds -> DesiredState]
  BY DEF DesiredState, Versions
<1>4. runtime \in [AgentIds -> Runtimes]
  BY DEF Runtimes
<1>5. /\ last \in [AgentIds -> 0..MaxVersion] /\ done \in [AgentIds -> SUBSET Versions]
      /\ req \in [AgentIds -> Requests \cup {"none"}]
  OBVIOUS
<1>6. desired \in Versions
  BY DEF Versions
<1>7. /\ pc \in [AgentIds -> {"off", "idle", "fetched", "applied", "awaiting", "gone"}]
      /\ outcome \in [AgentIds -> {"success", "failed"}]
  OBVIOUS
<1>8. agentId \in 0..MaxAgents /\ lastAgentId \in 0..MaxAgents /\ applied \in 0..MaxVersion
      /\ patches \in 0..MaxPatches /\ faults \in 0..MaxFaults /\ due \in 0..1
  OBVIOUS
<1>9. Reserve
  BY DEF Reserve
<1> QED
  BY  <1>1, <1>2, <1>3, <1>4, <1>5, <1>6, <1>7, <1>8, <1>9 DEF TypeInv, TypeOK

\* The three operations of the ledger return ledgers.
LEMMA LedgerType ==
  ASSUME NEW o \in [Versions -> OpStatus], NEW v, NEW st
  PROVE  /\ RecordTx(o, v) \in [Versions -> OpStatus]
         /\ MarkSentTx(o, v) \in [Versions -> OpStatus]
         /\ RecordReceiptTx(o, v, st) \in [Versions -> OpStatus]
  BY DEF RecordTx, MarkSentTx, RecordReceiptTx, OpStatus

\* A request that is being handled is a report, not a free handle.
LEMMA BusyIsReport ==
  ASSUME TypeOK, NEW r \in Requests, reqs[r].stage # "free"
  PROVE  reqs[r] \in Report
  BY DEF TypeOK, Free

\* What administrators and time do.
LEMMA AdminTypeInv == TypeInv /\ AdminStep => TypeInv'
<1> SUFFICES ASSUME TypeInv, AdminStep PROVE TypeInv'
  OBVIOUS
<1> USE ConstantsAssumption DEF TypeInv, TypeOK, Reserve, serverVars, rowVars,
        enrollVars, handlerVars, procVars, boundVars
<1>1. CASE CreateEnrollment
  BY <1>1 DEF CreateEnrollment
<1>2. CASE EnrollmentExpires
  BY <1>2 DEF EnrollmentExpires
<1>3. CASE RegisterAgent
  <2>1. pc' \in [AgentIds -> {"off", "idle", "fetched", "applied", "awaiting", "gone"}]
    BY <1>3 DEF RegisterAgent
  <2>2. lastAgentId' \in 0..MaxAgents /\ agentId' \in 0..MaxAgents
    BY <1>3 DEF RegisterAgent, RegisterRow
  <2> QED
    BY <1>3, <2>1, <2>2 DEF RegisterAgent, RegisterRow
<1>4. CASE RegisterAgentUnheard
  <2>1. faults' \in 0..MaxFaults
    BY <1>4 DEF RegisterAgentUnheard, Fault
  <2>2. lastAgentId' \in 0..MaxAgents /\ agentId' \in 0..MaxAgents
    BY <1>4 DEF RegisterAgentUnheard, RegisterRow
  <2> QED
    BY <1>4, <2>1, <2>2 DEF RegisterAgentUnheard, RegisterRow
<1>5. ASSUME NEW c \in Configs, MutateConfig(c) PROVE TypeInv'
  <2>1. ops' \in [Versions -> OpStatus]
    BY <1>5, LedgerType DEF MutateConfig
  <2>2. desired' \in Versions /\ Reserve'
    BY <1>5 DEF MutateConfig, bumpVersion, Room, Versions
  <2> QED
    BY <1>5, <2>1, <2>2 DEF MutateConfig, bumpVersion
<1>6. ASSUME NEW c \in Configs, MutateUnrecorded(c) PROVE TypeInv'
  BY <1>6 DEF MutateUnrecorded, bumpVersion, Room, Versions
<1>7. ASSUME NEW c \in Configs, PatchCommit(c) PROVE TypeInv'
  <2>1. ops' \in [Versions -> OpStatus]
    BY <1>7, LedgerType DEF PatchCommit
  <2>2. desired' \in Versions /\ Reserve'
    BY <1>7 DEF PatchCommit, bumpVersion, Room, Versions
  <2> QED
    BY <1>7, <2>1, <2>2 DEF PatchCommit, bumpVersion
<1>8. CASE LifecycleDue
  BY <1>8 DEF LifecycleDue, Room, Versions
<1>9. CASE PatchBegin
  BY <1>9 DEF PatchBegin
<1>10. CASE PatchNoChange
  BY <1>10 DEF PatchNoChange
<1>11. CASE RequestDecommission
  <2>1. ops' \in [Versions -> OpStatus]
    BY <1>11, LedgerType DEF RequestDecommission
  <2>2. desired' \in Versions /\ Reserve'
    BY <1>11 DEF RequestDecommission, bumpVersion, Room, Versions
  <2> QED
    BY <1>11, <2>1, <2>2 DEF RequestDecommission, bumpVersion
<1>12. CASE ForceArchive
  <2>1. due' \in 0..1 /\ Reserve'
    <3>1. desired' = desired /\ (due' = 0 \/ due' = due)
      BY <1>12 DEF ForceArchive, archiveServer
    <3> QED
      BY <3>1 DEF Versions
  <2>2. agentId' \in 0..MaxAgents /\ applied' \in 0..MaxVersion
    BY <1>12 DEF ForceArchive, archiveServer
  <2> QED
    BY <1>12, <2>1, <2>2 DEF ForceArchive, archiveServer
<1>13. CASE PermanentlyDelete
  BY <1>13 DEF PermanentlyDelete, OpStatus
<1> QED
  BY <1>1, <1>2, <1>3, <1>4, <1>5, <1>6, <1>7, <1>8, <1>9, <1>10, <1>11, <1>12,
     <1>13 DEF AdminStep

\* An answer turns a report into an answered report or frees its handle.
LEMMA RespondType ==
  ASSUME TypeOK, NEW r \in Requests, reqs[r].stage # "free",
         NEW answer \in {"sent", "recorded", "ok", "err"},
         Respond(r, answer) \/ (answer = "recorded" /\ Recorded(r))
  PROVE  reqs' \in [Requests -> Report \cup {Free}]
<1>1. reqs[r] \in Report
  BY BusyIsReport
<1>2. [reqs[r] EXCEPT !.stage = answer] \in Report
  BY <1>1 DEF Report
<1> QED
  BY <1>2 DEF TypeOK, Respond, Recorded

\* Giving up a request keeps both sides of it well typed.
LEMMA AbandonType ==
  ASSUME TypeOK, NEW a \in AgentIds, Abandon(a)
  PROVE  /\ reqs' \in [Requests -> Report \cup {Free}]
         /\ req' \in [AgentIds -> Requests \cup {"none"}]
  BY DEF TypeOK, Abandon

\* What may be left on a VPS is something a VPS can run.
LEMMA LeftoversType ==
  ASSUME TypeOK, NEW a \in AgentIds
  PROVE  Target(a) \in Runtimes /\ Leftovers(a) \subseteq Runtimes
  BY DEF TypeOK, Target, Leftovers, Runtimes, DesiredState

\* A fetch, heard or not: at most one reconciliation, within the reserve.
LEMMA GetDesiredStateType ==
  ASSUME TypeInv, NEW a \in AgentIds, NEW c \in Configs, GetDesiredState(a, c)
  PROVE  /\ desired' \in Versions /\ config' \in Configs /\ Reserve'
         /\ sync' \in {"pending", "success", "failed"}
         /\ due' \in 0..1
         /\ ops' \in [Versions -> OpStatus]
         /\ UNCHANGED <<srv, decom, agentId, applied, lastAgentId, token, patch,
                        failing, reqs>>
<1> USE DEF TypeInv, TypeOK
<1>1. CASE decom = "none" /\ due = 1
  <2>1. ops' \in [Versions -> OpStatus]
    <3>1. RecordTx(ops, desired + 1) \in [Versions -> OpStatus]
      BY LedgerType
    <3>2. MarkSentTx(RecordTx(ops, desired + 1), desired + 1) \in [Versions -> OpStatus]
      BY <3>1, LedgerType
    <3> QED
      BY <1>1, <3>2 DEF GetDesiredState
  <2>2. desired' \in Versions /\ Reserve' /\ due' = 0
    BY <1>1, ConstantsAssumption DEF GetDesiredState, bumpVersion, Reserve, Versions
  <2> QED
    BY <1>1, <2>1, <2>2 DEF GetDesiredState, bumpVersion, enrollVars
<1>2. CASE ~(decom = "none" /\ due = 1)
  <2>1. ops' \in [Versions -> OpStatus]
    <3>1. MarkSentTx(ops, desired) \in [Versions -> OpStatus]
      BY LedgerType
    <3> QED
      BY <1>2, <3>1 DEF GetDesiredState
  <2> QED
    BY <1>2, <2>1 DEF GetDesiredState, enrollVars, Reserve
<1> QED
  BY <1>1, <1>2

\* What a sync of the Agent does.
LEMMA AgentTypeInv ==
  ASSUME NEW a \in AgentIds PROVE TypeInv /\ AgentStep(a) => TypeInv'
<1> SUFFICES ASSUME TypeInv, AgentStep(a) PROVE TypeInv'
  OBVIOUS
<1> USE ConstantsAssumption DEF TypeInv, TypeOK, Reserve, serverVars, rowVars,
        enrollVars, handlerVars, procVars, boundVars
<1>1. ASSUME NEW c \in Configs, Fetch(a, c) PROVE TypeInv'
  <2>1. /\ desired' \in Versions /\ config' \in Configs /\ Reserve'
        /\ sync' \in {"pending", "success", "failed"} /\ due' \in 0..1
        /\ ops' \in [Versions -> OpStatus]
        /\ UNCHANGED <<srv, decom, agentId, applied, lastAgentId, token, patch,
                       failing, reqs>>
    BY <1>1, GetDesiredStateType DEF Fetch
  <2>2. pc' \in [AgentIds -> {"off", "idle", "fetched", "applied", "awaiting", "gone"}]
    BY <1>1 DEF Fetch
  <2>3. fetched' \in [AgentIds -> DesiredState]
    <3>1. [ver |-> desired', decom |-> decom # "none", config |-> c] \in DesiredState
      BY <2>1 DEF DesiredState
    <3> QED
      BY <1>1, <3>1 DEF Fetch
  <2> QED
    BY <1>1, <2>1, <2>2, <2>3 DEF Fetch
<1>2. CASE ApplySucceeds(a)
  <2>1. runtime' \in [AgentIds -> Runtimes]
    BY <1>2, LeftoversType DEF ApplySucceeds
  <2>2. done' \in [AgentIds -> SUBSET Versions]
    BY <1>2 DEF ApplySucceeds, DesiredState
  <2> QED
    BY <1>2, <2>1, <2>2 DEF ApplySucceeds
<1>3. ASSUME NEW r \in Requests, SendReport(a, r) PROVE TypeInv'
  <2>1. [aid |-> a, ver |-> fetched[a].ver, st |-> outcome[a], stage |-> "sent"] \in Report
    BY DEF Report, DesiredState
  <2> QED
    BY <1>3, <2>1 DEF SendReport
<1>4. CASE SyncSucceeds(a)
  <2>1. /\ reqs' \in [Requests -> Report \cup {Free}]
        /\ req' \in [AgentIds -> Requests \cup {"none"}]
    BY <1>4, AbandonType DEF SyncSucceeds
  <2>2. last' \in [AgentIds -> 0..MaxVersion]
    BY <1>4 DEF SyncSucceeds, DesiredState, Versions
  <2> QED
    BY <1>4, <2>1, <2>2 DEF SyncSucceeds
<1>5. CASE SyncFails(a)
  <2>1. /\ reqs' \in [Requests -> Report \cup {Free}]
        /\ req' \in [AgentIds -> Requests \cup {"none"}]
    BY <1>5, AbandonType DEF SyncFails
  <2> QED
    BY <1>5, <2>1 DEF SyncFails
<1> QED
  BY <1>1, <1>2, <1>3, <1>4, <1>5 DEF AgentStep

\* What failures, timeouts and restarts of an Agent do.
LEMMA FaultTypeInv ==
  ASSUME NEW a \in AgentIds PROVE TypeInv /\ FaultStep(a) => TypeInv'
<1> SUFFICES ASSUME TypeInv, FaultStep(a) PROVE TypeInv'
  OBVIOUS
<1> USE ConstantsAssumption DEF TypeInv, TypeOK, Reserve, serverVars, rowVars,
        enrollVars, handlerVars, procVars, boundVars, Fault
<1>1. ASSUME NEW c \in Configs, FetchUnheard(a, c) PROVE TypeInv'
  <2>1. /\ desired' \in Versions /\ config' \in Configs /\ Reserve'
        /\ sync' \in {"pending", "success", "failed"} /\ due' \in 0..1
        /\ ops' \in [Versions -> OpStatus]
        /\ UNCHANGED <<srv, decom, agentId, applied, lastAgentId, token, patch,
                       failing, reqs>>
    BY <1>1, GetDesiredStateType DEF FetchUnheard
  <2> QED
    BY <1>1, <2>1 DEF FetchUnheard
<1>2. CASE FetchFails(a)
  BY <1>2 DEF FetchFails
<1>3. CASE RecordDesiredStateFailure(a)
  <2>1. ops' \in [Versions -> OpStatus]
    <3>1. RecordReceiptTx(ops, desired, "failed") \in [Versions -> OpStatus]
      BY LedgerType
    <3> QED
      BY <1>3, <3>1 DEF RecordDesiredStateFailure
  <2> QED
    BY <1>3, <2>1 DEF RecordDesiredStateFailure
<1>4. CASE ApplyFails(a)
  <2>1. runtime' \in [AgentIds -> Runtimes]
    BY <1>4, LeftoversType DEF ApplyFails
  <2> QED
    BY <1>4, <2>1 DEF ApplyFails
<1>5. CASE ReportUnsent(a)
  BY <1>5 DEF ReportUnsent
<1>6. CASE SyncCut(a)
  <2>1. /\ reqs' \in [Requests -> Report \cup {Free}]
        /\ req' \in [AgentIds -> Requests \cup {"none"}]
    BY <1>6, AbandonType DEF SyncCut
  <2>2. faults' \in 0..MaxFaults
    BY <1>6 DEF SyncCut
  <2> QED
    BY <1>6, <2>1, <2>2 DEF SyncCut
<1>7. CASE RestartAgent(a)
  <2>1. /\ reqs' \in [Requests -> Report \cup {Free}]
        /\ req' \in [AgentIds -> Requests \cup {"none"}]
    BY <1>7, AbandonType DEF RestartAgent
  <2>2. runtime' \in [AgentIds -> Runtimes]
    BY <1>7, LeftoversType DEF RestartAgent
  <2> QED
    BY <1>7, <2>1, <2>2 DEF RestartAgent
<1>8. CASE CancelSync(a)
  <2>1. runtime' \in [AgentIds -> Runtimes]
    BY <1>8, LeftoversType DEF CancelSync
  <2> QED
    BY <1>8, <2>1 DEF CancelSync
<1> QED
  BY <1>1, <1>2, <1>3, <1>4, <1>5, <1>6, <1>7, <1>8 DEF FaultStep

\* What the result handler does.
LEMMA PanelTypeInv ==
  ASSUME NEW r \in Requests PROVE TypeInv /\ (PanelStep(r) \/ HandlerFails(r)) => TypeInv'
<1> SUFFICES ASSUME TypeInv, PanelStep(r) \/ HandlerFails(r) PROVE TypeInv'
  OBVIOUS
<1> USE ConstantsAssumption DEF TypeInv, TypeOK, Reserve, serverVars, rowVars,
        enrollVars, handlerVars, procVars, boundVars
<1>1. CASE RecordConfigResult(r)
  <2>1. reqs' \in [Requests -> Report \cup {Free}]
    BY <1>1, RespondType DEF RecordConfigResult
  <2>2. ops' \in [Versions -> OpStatus]
    <3>1. RecordReceiptTx(ops, reqs[r].ver, reqs[r].st) \in [Versions -> OpStatus]
      BY LedgerType
    <3> QED
      BY <1>1, <3>1 DEF RecordConfigResult
  <2>3. applied' \in 0..MaxVersion /\ sync' \in {"pending", "success", "failed"}
    <3>1. reqs[r] \in Report
      BY <1>1, BusyIsReport DEF RecordConfigResult
    <3> QED
      BY <1>1, <3>1 DEF RecordConfigResult, Report, Versions
  <2> QED
    BY <1>1, <2>1, <2>2, <2>3 DEF RecordConfigResult
<1>2. CASE FinalizeDecommission(r)
  <2>1. reqs' \in [Requests -> Report \cup {Free}]
    BY <1>2, RespondType DEF FinalizeDecommission
  <2>2. CASE srv = "active" /\ archiveServer /\ UNCHANGED desired
    <3>1. due' \in 0..1 /\ Reserve'
      <4>1. desired' = desired /\ (due' = 0 \/ due' = due)
        BY <2>2 DEF archiveServer
      <4> QED
        BY <4>1 DEF Versions
    <3>2. agentId' \in 0..MaxAgents /\ applied' \in 0..MaxVersion
      BY <2>2 DEF archiveServer
    <3> QED
      BY <1>2, <2>1, <2>2, <3>1, <3>2 DEF FinalizeDecommission, archiveServer
  <2>3. CASE /\ decom' \in {decom, "failed"}
             /\ UNCHANGED <<srv, desired, config, rowVars, token, due>>
    BY <1>2, <2>1, <2>3 DEF FinalizeDecommission
  <2> QED
    BY <1>2, <2>2, <2>3 DEF FinalizeDecommission
<1>3. CASE HandlerFails(r)
  <2>1. reqs' \in [Requests -> Report \cup {Free}]
    BY <1>3, RespondType DEF HandlerFails
  <2> QED
    BY <1>3, <2>1 DEF HandlerFails, Fault
<1> QED
  BY <1>1, <1>2, <1>3 DEF PanelStep

\* What a restart of the Panel does.
LEMMA RestartTypeInv == TypeInv /\ RestartPanel => TypeInv'
<1> SUFFICES ASSUME TypeInv, RestartPanel PROVE TypeInv'
  OBVIOUS
<1> USE DEF TypeInv, TypeOK
<1>1. ASSUME NEW r \in Requests, reqs[r] # Free
      PROVE  [reqs[r] EXCEPT !.stage = "err"] \in Report
  BY <1>1 DEF Report
<1>2. reqs' \in [Requests -> Report \cup {Free}]
  BY <1>1 DEF RestartPanel
<1> QED
  BY <1>2, ConstantsAssumption DEF RestartPanel, Fault, Reserve, serverVars, rowVars,
     enrollVars, procVars

\* The inductive step.
LEMMA NextTypeInv == TypeInv /\ [Next]_vars => TypeInv'
<1>1. TypeInv /\ UNCHANGED vars => TypeInv'
  BY DEF TypeInv, TypeOK, Reserve, vars, serverVars, rowVars, enrollVars,
         handlerVars, procVars, boundVars
<1> QED
  BY <1>1, AdminTypeInv, AgentTypeInv, FaultTypeInv, PanelTypeInv, RestartTypeInv
  DEF Next

(***************************************************************************)
(* Every state of the Panel's rows, of its handlers and of the Agents is   *)
(* well typed, and the desired-state version never leaves its range.       *)
(***************************************************************************)
THEOREM TypeCorrect == Spec => []TypeOK
<1>1. TypeInv => TypeOK
  BY DEF TypeInv
<1> QED
  BY InitTypeInv, NextTypeInv, <1>1, PTL DEF Spec

(***************************************************************************)
(* The operation ledger: what a step may do to it, and the invariants of   *)
(* configuration_operations that follow.                                   *)
(***************************************************************************)
Settled(status) == status \in {"applied", "superseded"}

(***************************************************************************)
(* The inductive invariant of a ledger o at version n.  That no operation  *)
(* is newer than n is what makes the new entry of RecordTx the newest one. *)
(***************************************************************************)
Ledger(o, n) ==
  /\ \A w \in Versions : w > n => o[w] = "none"
  /\ \A v, w \in Versions : o[v] \in OpenStatus /\ o[w] \in OpenStatus => v = w
  /\ \A v, w \in Versions :
       o[v] = "applied" /\ w <= v => o[w] \in {"none", "applied", "superseded"}

LedgerInv == Ledger(ops, desired)

\* Versions are integers.
LEMMA VersionsInt == Versions \subseteq Int
  BY ConstantsAssumption DEF Versions

\* RecordTx: the newest operation is the only open one.
LEMMA RecordLedger ==
  ASSUME NEW o \in [Versions -> OpStatus], NEW n \in Versions, n + 1 \in Versions,
         Ledger(o, n)
  PROVE  /\ Ledger(RecordTx(o, n + 1), n + 1)
         /\ \A v \in Versions : Settled(o[v]) => RecordTx(o, n + 1)[v] = o[v]
<1> DEFINE p == RecordTx(o, n + 1)
<1>1. \A w \in Versions : p[w] = IF w = n + 1 THEN "pending"
        ELSE IF w < n + 1 /\ o[w] \in OpenStatus THEN "superseded" ELSE o[w]
  BY DEF RecordTx, Supersedes
<1>2. \A w \in Versions : w > n => o[w] = "none"
  BY DEF Ledger
<1>3. \A w \in Versions : p[w] \in OpenStatus => w = n + 1
  BY <1>1, <1>2, VersionsInt DEF OpenStatus
<1>4. \A v \in Versions : p[v] = "applied" => o[v] = "applied" /\ v <= n
  BY <1>1, <1>2, VersionsInt
<1>5. \A v \in Versions : Settled(o[v]) => p[v] = o[v]
  BY <1>1, <1>2, VersionsInt DEF Settled, OpenStatus
<1>6. \A v, w \in Versions :
        p[v] = "applied" /\ w <= v => p[w] \in {"none", "applied", "superseded"}
  BY <1>1, <1>4, VersionsInt DEF Ledger
<1>7. \A w \in Versions : w > n + 1 => p[w] = "none"
  BY <1>1, <1>2, VersionsInt
<1> HIDE DEF p
<1>8. Ledger(p, n + 1)
  BY <1>3, <1>6, <1>7 DEF Ledger
<1> QED
  BY <1>5, <1>8 DEF p

\* MarkSentTx: an open operation stays open, nothing else changes.
LEMMA MarkSentLedger ==
  ASSUME NEW o \in [Versions -> OpStatus], NEW n, NEW x, Ledger(o, n)
  PROVE  /\ Ledger(MarkSentTx(o, x), n)
         /\ \A v \in Versions : Settled(o[v]) => MarkSentTx(o, x)[v] = o[v]
<1> DEFINE p == MarkSentTx(o, x)
<1>1. \A w \in Versions : p[w] = o[w] \/ (o[w] = "pending" /\ p[w] = "sent")
  BY DEF MarkSentTx
<1> HIDE DEF p
<1>2. Ledger(p, n)
  BY <1>1 DEF Ledger, OpenStatus
<1>3. \A v \in Versions : Settled(o[v]) => p[v] = o[v]
  BY <1>1 DEF Settled
<1> QED
  BY <1>2, <1>3 DEF p

\* RecordReceiptTx: a success settles a prefix, a failure closes one entry.
LEMMA ReceiptLedger ==
  ASSUME NEW o \in [Versions -> OpStatus], NEW n, NEW x \in Versions, NEW st,
         Ledger(o, n)
  PROVE  /\ Ledger(RecordReceiptTx(o, x, st), n)
         /\ \A v \in Versions : Settled(o[v]) => RecordReceiptTx(o, x, st)[v] = o[v]
         /\ \A v \in Versions : RecordReceiptTx(o, x, st)[v] = "applied" =>
              o[v] = "applied" \/ (st = "success" /\ v <= x)
<1> DEFINE p == RecordReceiptTx(o, x, st)
<1>1. \A w \in Versions : p[w] =
        IF st = "success" /\ w <= x /\ o[w] \in OpenStatus \cup {"failed"} THEN "applied"
        ELSE IF st = "failed" /\ w = x /\ o[w] \in OpenStatus THEN "failed" ELSE o[w]
  BY DEF RecordReceiptTx, Succeeds, Fails
<1> HIDE DEF p
<1>2. \A w \in Versions : o[w] = "none" => p[w] = "none"
  BY <1>1 DEF OpenStatus
<1>3. \A w \in Versions : p[w] \in OpenStatus => o[w] \in OpenStatus
  BY <1>1 DEF OpenStatus
<1>4. \A v \in Versions : Settled(o[v]) => p[v] = o[v]
  BY <1>1 DEF Settled, OpenStatus
<1>5. \A v \in Versions : p[v] = "applied" =>
        o[v] = "applied" \/ (st = "success" /\ v <= x)
  BY <1>1
<1>6. ASSUME NEW v \in Versions, NEW w \in Versions, p[v] = "applied", w <= v
      PROVE  p[w] \in {"none", "applied", "superseded"}
  <2>1. CASE o[v] = "applied"
    <3>1. o[w] \in {"none", "applied", "superseded"}
      BY <1>6, <2>1 DEF Ledger
    <3> QED
      BY <1>2, <1>4, <3>1 DEF Settled
  <2>2. CASE st = "success" /\ v <= x
    <3>1. w <= x
      BY <1>6, <2>2, VersionsInt
    <3>2. o[w] \in OpStatus
      OBVIOUS
    <3> QED
      BY <1>1, <2>2, <3>1, <3>2 DEF OpStatus, OpenStatus
  <2> QED
    BY <1>5, <1>6, <2>1, <2>2
<1>7. Ledger(p, n)
  BY <1>2, <1>3, <1>6 DEF Ledger
<1> QED
  BY <1>4, <1>5, <1>7 DEF p

\* A receipt: a report of a live request, or the failure of a fetch.
ReceiptStep ==
  /\ desired' = desired
  /\ \/ \E r \in Requests :
          /\ reqs[r] \in Report
          /\ ops' = RecordReceiptTx(ops, reqs[r].ver, reqs[r].st)
     \/ ops' = RecordReceiptTx(ops, desired, "failed")

(***************************************************************************)
(* All that a step may do to the ledger and the version.                   *)
(***************************************************************************)
LedgerStep ==
  \/ ops' = ops /\ desired' \in {desired, desired + 1}
  \/ desired' = desired + 1 /\ ops' = RecordTx(ops, desired + 1)
  \/ desired' = desired + 1
       /\ ops' = MarkSentTx(RecordTx(ops, desired + 1), desired + 1)
  \/ desired' = desired /\ ops' = MarkSentTx(ops, desired)
  \/ ReceiptStep
  \/ desired' = desired /\ srv' = "deleted" /\ ops' = [v \in Versions |-> "none"]

\* Every step changes the ledger by one of the functions of package operation.
LEMMA NextLedgerStep == TypeInv /\ [Next]_vars => LedgerStep
<1> SUFFICES ASSUME TypeInv, [Next]_vars PROVE LedgerStep
  OBVIOUS
<1> USE DEF LedgerStep, serverVars, bumpVersion
<1>1. CASE AdminStep
  BY <1>1 DEF AdminStep, CreateEnrollment, EnrollmentExpires, RegisterAgent,
     RegisterAgentUnheard, RegisterRow, MutateConfig, MutateUnrecorded, PatchCommit,
     LifecycleDue, PatchBegin, PatchNoChange, RequestDecommission, ForceArchive,
     PermanentlyDelete
<1>2. ASSUME NEW a \in AgentIds, NEW c \in Configs, GetDesiredState(a, c) PROVE LedgerStep
  BY <1>2 DEF GetDesiredState
<1>3. ASSUME NEW a \in AgentIds, AgentStep(a) PROVE LedgerStep
  BY <1>2, <1>3 DEF AgentStep, Fetch, ApplySucceeds, SendReport, SyncSucceeds, SyncFails
<1>4. ASSUME NEW a \in AgentIds, FaultStep(a) PROVE LedgerStep
  BY <1>2, <1>4 DEF FaultStep, FetchUnheard, FetchFails, RecordDesiredStateFailure,
     ApplyFails, ReportUnsent, SyncCut, RestartAgent, CancelSync, ReceiptStep
<1>5. ASSUME NEW r \in Requests, PanelStep(r) \/ HandlerFails(r) PROVE LedgerStep
  <2>1. CASE RecordConfigResult(r)
    <3>1. reqs[r] \in Report
      BY <2>1, BusyIsReport DEF RecordConfigResult, TypeInv
    <3> QED
      BY <2>1, <3>1 DEF RecordConfigResult, ReceiptStep
  <2>2. CASE FinalizeDecommission(r)
    BY <2>2 DEF FinalizeDecommission
  <2>3. CASE HandlerFails(r)
    BY <2>3 DEF HandlerFails
  <2> QED
    BY <1>5, <2>1, <2>2, <2>3 DEF PanelStep
<1>6. CASE RestartPanel
  BY <1>6 DEF RestartPanel
<1>7. CASE UNCHANGED vars
  BY <1>7 DEF vars
<1> QED
  BY <1>1, <1>3, <1>4, <1>5, <1>6, <1>7 DEF Next

\* A step keeps the invariant and, while the Server exists, settled operations.
LEMMA LedgerPreserved ==
  ASSUME TypeInv, TypeInv', LedgerInv, LedgerStep
  PROVE  /\ LedgerInv'
         /\ srv' # "deleted" => \A v \in Versions : Settled(ops[v]) => ops'[v] = ops[v]
<1> USE DEF LedgerInv
<1>0. /\ ops \in [Versions -> OpStatus] /\ desired \in Versions /\ desired' \in Versions
      /\ desired \in Int
  BY VersionsInt DEF TypeInv, TypeOK
<1>1. CASE ops' = ops /\ desired' \in {desired, desired + 1}
  BY <1>0, <1>1, VersionsInt DEF Ledger
<1>2. CASE desired' = desired + 1 /\ ops' = RecordTx(ops, desired + 1)
  BY <1>0, <1>2, RecordLedger
<1>3. CASE desired' = desired + 1
             /\ ops' = MarkSentTx(RecordTx(ops, desired + 1), desired + 1)
  <2> DEFINE p == RecordTx(ops, desired + 1)
  <2>1. p \in [Versions -> OpStatus]
    BY <1>0, LedgerType
  <2>2. /\ Ledger(p, desired + 1)
        /\ \A v \in Versions : Settled(ops[v]) => p[v] = ops[v]
    BY <1>0, <1>3, RecordLedger
  <2> HIDE DEF p
  <2>3. /\ Ledger(MarkSentTx(p, desired + 1), desired + 1)
        /\ \A v \in Versions : Settled(p[v]) => MarkSentTx(p, desired + 1)[v] = p[v]
    BY <2>1, <2>2, MarkSentLedger
  <2>4. ops' = MarkSentTx(p, desired + 1)
    BY <1>3 DEF p
  <2> QED
    BY <1>3, <2>2, <2>3, <2>4
<1>4. CASE desired' = desired /\ ops' = MarkSentTx(ops, desired)
  BY <1>0, <1>4, MarkSentLedger
<1>5. CASE ReceiptStep
  <2>1. PICK x \in Versions, st \in {"success", "failed"} :
          desired' = desired /\ ops' = RecordReceiptTx(ops, x, st)
    BY <1>0, <1>5 DEF ReceiptStep, Report
  <2> QED
    BY <1>0, <2>1, ReceiptLedger
<1>6. CASE desired' = desired /\ srv' = "deleted" /\ ops' = [v \in Versions |-> "none"]
  BY <1>6 DEF Ledger, OpenStatus
<1> QED
  BY <1>1, <1>2, <1>3, <1>4, <1>5, <1>6 DEF LedgerStep

\* The ledger starts empty.
LEMMA InitLedger == Init => LedgerInv
  BY DEF Init, LedgerInv, Ledger, OpenStatus

\* The ledger invariant, with the types it needs, holds in every state.
LEMMA LedgerAlways == Spec => [](TypeInv /\ LedgerInv)
<1>1. TypeInv /\ LedgerInv /\ [Next]_vars => (TypeInv /\ LedgerInv)'
  BY NextTypeInv, NextLedgerStep, LedgerPreserved
<1> QED
  BY InitTypeInv, InitLedger, <1>1, PTL DEF Spec

(***************************************************************************)
(* RecordTx, MarkSentTx and RecordReceiptTx leave at most one operation of *)
(* a Server waiting for its Agent, in whatever order they run, and none    *)
(* open or failed under an applied one.                                    *)
(***************************************************************************)
THEOREM NewerSettles == Spec => []NewerSettlesOlder
<1>1. TypeInv /\ LedgerInv => NewerSettlesOlder
  BY DEF LedgerInv, Ledger, NewerSettlesOlder
<1> QED
  BY LedgerAlways, <1>1, PTL

(***************************************************************************)
(* No late receipt, fetch or failure reopens or rewrites an operation that *)
(* was applied or superseded, as long as the Server is not deleted.        *)
(***************************************************************************)
THEOREM SettledStay == Spec => SettledOperationsStay
<1>1. TypeInv /\ LedgerInv /\ [Next]_vars =>
        [\A v \in Versions :
           ops[v] \in {"applied", "superseded"} /\ srv' # "deleted" => ops'[v] = ops[v]]_vars
  BY NextTypeInv, NextLedgerStep, LedgerPreserved DEF Settled
<1> QED
  BY LedgerAlways, <1>1, PTL DEF Spec, SettledOperationsStay

-----------------------------------------------------------------------------
(* What the Panel records about the Agent of a Server is true of it.       *)

(***************************************************************************)
(* Who the Server's Agent is.  An Agent and an unused enrollment exclude   *)
(* each other: creating either removes the other in the same transaction.  *)
(***************************************************************************)
IdentityInv ==
  /\ agentId <= lastAgentId
  /\ srv # "active" => agentId = 0
  /\ agentId # 0 => token = "none"
  /\ decom # "none" => agentId # 0

\* The variables that IdentityInv reads.
identityVars == <<srv, decom, agentId, lastAgentId, token>>

\* Before any registration no process runs and no report is in flight.
LEMMA InitIdentity == Init => IdentityInv
  BY DEF Init, IdentityInv

\* Only RegisterAgent starts a process, and only for the identity it hands out.
LEMMA NextIdentity == TypeInv /\ IdentityInv /\ [Next]_vars => IdentityInv'
<1> SUFFICES ASSUME TypeInv, IdentityInv, [Next]_vars PROVE IdentityInv'
  OBVIOUS
<1>1. CASE UNCHANGED identityVars
  BY <1>1 DEF identityVars, IdentityInv
<1>2. CASE AdminStep
  <2> USE DEF IdentityInv, TypeInv, TypeOK, serverVars, rowVars, enrollVars
  <2>1. CASE CreateEnrollment
    BY <2>1 DEF CreateEnrollment, MayEnroll
  <2>2. CASE EnrollmentExpires
    BY <2>2 DEF EnrollmentExpires
  <2>3. CASE RegisterRow
    BY <2>3 DEF RegisterRow
  <2>4. CASE RequestDecommission
    BY <2>4 DEF RequestDecommission
  <2>5. CASE ForceArchive
    BY <2>5 DEF ForceArchive, archiveServer
  <2>6. CASE PermanentlyDelete
    BY <2>6 DEF PermanentlyDelete
  <2>7. CASE UNCHANGED identityVars
    BY <1>1, <2>7
  <2> QED
    BY <1>2, <2>1, <2>2, <2>3, <2>4, <2>5, <2>6, <2>7
    DEF AdminStep, RegisterAgent, RegisterAgentUnheard, MutateConfig, MutateUnrecorded,
        PatchCommit, LifecycleDue, PatchBegin, PatchNoChange, identityVars
<1>3. ASSUME NEW a \in AgentIds, AgentStep(a) \/ FaultStep(a) PROVE UNCHANGED identityVars
  BY <1>3 DEF AgentStep, FaultStep, Fetch, ApplySucceeds, SendReport, SyncSucceeds,
     SyncFails, FetchUnheard, FetchFails, RecordDesiredStateFailure, ApplyFails,
     ReportUnsent, SyncCut, RestartAgent, CancelSync, GetDesiredState, serverVars,
     rowVars, enrollVars, identityVars
<1>4. ASSUME NEW r \in Requests, PanelStep(r) \/ HandlerFails(r) PROVE IdentityInv'
  <2>1. CASE RecordConfigResult(r) \/ HandlerFails(r)
    BY <1>1, <2>1 DEF RecordConfigResult, HandlerFails, serverVars, rowVars, enrollVars,
       identityVars
  <2>2. CASE FinalizeDecommission(r)
    <3>1. CASE UNCHANGED <<serverVars, rowVars, token>>
      BY <1>1, <2>2, <3>1 DEF FinalizeDecommission, serverVars, rowVars, identityVars
    <3>2. CASE Closes(reqs[r]) /\ UNCHANGED <<srv, agentId, token>>
      BY <2>2, <3>2 DEF FinalizeDecommission, Closes, IdentityInv
    <3>3. CASE archiveServer
      BY <2>2, <3>3 DEF FinalizeDecommission, archiveServer, IdentityInv, TypeInv, TypeOK
    <3> QED
      BY <2>2, <3>1, <3>2, <3>3 DEF FinalizeDecommission, rowVars
  <2> QED
    BY <1>4, <2>1, <2>2 DEF PanelStep
<1>5. CASE RestartPanel \/ UNCHANGED vars
  BY <1>1, <1>5 DEF RestartPanel, vars, serverVars, rowVars, enrollVars, identityVars
<1> QED
  BY <1>1, <1>2, <1>3, <1>4, <1>5 DEF Next

(***************************************************************************)
(* A Server that is being decommissioned keeps its Agent registered and    *)
(* has no enrollment that could replace it.                                *)
(***************************************************************************)
THEOREM DecommissionCredentials == Spec => []DecommissionKeepsCredentials
<1>1. TypeInv /\ IdentityInv /\ [Next]_vars => (TypeInv /\ IdentityInv)'
  BY NextTypeInv, NextIdentity
<1>2. TypeInv /\ IdentityInv => DecommissionKeepsCredentials
  BY DEF IdentityInv, DecommissionKeepsCredentials
<1> QED
  BY InitTypeInv, InitIdentity, <1>1, <1>2, PTL DEF Spec

-----------------------------------------------------------------------------
(***************************************************************************)
(* What an Agent did and what is said of it.  A request in the Panel is    *)
(* about a published version, and one that reports a success is about a    *)
(* version its sender has applied.                                         *)
(***************************************************************************)
Busy(r) == reqs[r].stage # "free"

TruthInv ==
  /\ \A r \in Requests : Busy(r) =>
       /\ reqs[r].ver <= desired
       /\ reqs[r].st = "success" => reqs[r].ver \in done[reqs[r].aid]
  /\ \A a \in AgentIds :
       /\ fetched[a].ver <= desired
       /\ pc[a] = "applied" /\ outcome[a] = "success" => fetched[a].ver \in done[a]
       /\ a > lastAgentId => pc[a] = "off" /\ done[a] = {}

\* Every request after the step continues one from before it.
ReportsKept ==
  \A r \in Requests : Busy(r)' =>
    /\ Busy(r)
    /\ reqs'[r].aid = reqs[r].aid /\ reqs'[r].ver = reqs[r].ver
    /\ reqs'[r].st = reqs[r].st

\* Answering a report changes its stage only.
LEMMA RespondKeeps ==
  ASSUME TypeOK, NEW r \in Requests, Busy(r), NEW answer,
         Respond(r, answer) \/ Recorded(r)
  PROVE  ReportsKept
<1>1. reqs[r] \in Report
  BY BusyIsReport DEF Busy
<1> QED
  BY <1>1 DEF TypeOK, Respond, Recorded, ReportsKept, Busy, Report, Free

\* An Agent that stops waiting changes no report but frees an answered one.
LEMMA AbandonKeeps ==
  ASSUME TypeOK, NEW a \in AgentIds, Abandon(a)
  PROVE  ReportsKept
  BY DEF TypeOK, Abandon, ReportsKept, Busy, Free

\* All steps but SendReport only continue requests.
LEMMA NextReports ==
  TypeInv /\ [Next]_vars =>
    ReportsKept \/ \E a \in AgentIds, r \in Requests : SendReport(a, r)
<1> SUFFICES ASSUME TypeInv, [Next]_vars
             PROVE  ReportsKept \/ \E a \in AgentIds, r \in Requests : SendReport(a, r)
  OBVIOUS
<1> USE DEF TypeInv
<1>1. reqs' = reqs => ReportsKept
  BY DEF ReportsKept, Busy
<1>2. CASE AdminStep
  BY <1>1, <1>2 DEF AdminStep, CreateEnrollment, EnrollmentExpires, RegisterAgent,
     RegisterAgentUnheard, RegisterRow, MutateConfig, MutateUnrecorded, PatchCommit,
     LifecycleDue, PatchBegin, PatchNoChange, RequestDecommission, ForceArchive,
     PermanentlyDelete, handlerVars
<1>3. ASSUME NEW a \in AgentIds, AgentStep(a), ~\E r \in Requests : SendReport(a, r)
      PROVE  ReportsKept
  <2>1. reqs' = reqs \/ Abandon(a)
    BY <1>3 DEF AgentStep, Fetch, GetDesiredState, ApplySucceeds, SyncSucceeds,
       SyncFails, handlerVars
  <2> QED
    BY <1>1, <2>1, AbandonKeeps
<1>4. ASSUME NEW a \in AgentIds, FaultStep(a) PROVE ReportsKept
  <2>1. reqs' = reqs \/ Abandon(a)
    BY <1>4 DEF FaultStep, FetchUnheard, GetDesiredState, FetchFails,
       RecordDesiredStateFailure, ApplyFails, ReportUnsent, SyncCut, RestartAgent,
       CancelSync, handlerVars
  <2> QED
    BY <1>1, <2>1, AbandonKeeps
<1>5. ASSUME NEW r \in Requests, PanelStep(r) \/ HandlerFails(r) PROVE ReportsKept
  <2>1. Busy(r)
    BY <1>5 DEF PanelStep, RecordConfigResult, FinalizeDecommission, HandlerFails, Busy
  <2>2. Respond(r, "err") \/ Respond(r, "ok") \/ Recorded(r)
    BY <1>5 DEF PanelStep, RecordConfigResult, FinalizeDecommission, HandlerFails
  <2> QED
    BY <2>1, <2>2, RespondKeeps
<1>6. CASE RestartPanel
  <2> SUFFICES ASSUME NEW r \in Requests, Busy(r)'
               PROVE  /\ Busy(r) /\ reqs'[r].aid = reqs[r].aid
                      /\ reqs'[r].ver = reqs[r].ver /\ reqs'[r].st = reqs[r].st
    BY DEF ReportsKept
  <2>1. reqs[r] # Free /\ reqs'[r] = [reqs[r] EXCEPT !.stage = "err"]
    BY <1>6 DEF RestartPanel, Busy, Free
  <2>2. reqs[r] \in Report
    BY <2>1 DEF TypeOK
  <2> QED
    BY <2>1, <2>2 DEF Report, Busy
<1>7. CASE UNCHANGED vars
  BY <1>1, <1>7 DEF vars, handlerVars
<1> QED
  BY <1>2, <1>3, <1>4, <1>5, <1>6, <1>7 DEF Next

-----------------------------------------------------------------------------
(***************************************************************************)
(* All that a step may do to the process of Agent a.                       *)
(***************************************************************************)
Kept(a) ==
  /\ pc'[a] = pc[a] /\ fetched'[a] = fetched[a] /\ outcome'[a] = outcome[a]
  /\ last'[a] = last[a] /\ runtime'[a] = runtime[a] /\ done'[a] = done[a]

Starts(a) ==
  /\ a = lastAgentId + 1 /\ lastAgentId' = a /\ pc'[a] = "idle"
  /\ fetched'[a] = fetched[a] /\ outcome'[a] = outcome[a] /\ last'[a] = last[a]
  /\ runtime'[a] = runtime[a] /\ done'[a] = done[a]

Fetches(a) ==
  /\ pc[a] = "idle" /\ pc'[a] = "fetched" /\ agentId = a
  /\ fetched'[a].ver = desired' /\ fetched'[a].config = config'
  /\ fetched'[a].decom = (decom # "none") /\ decom' = decom
  /\ desired' # last[a]
  /\ outcome'[a] = outcome[a] /\ last'[a] = last[a] /\ runtime'[a] = runtime[a]
  /\ done'[a] = done[a]

Applies(a) ==
  /\ pc[a] = "fetched" /\ pc'[a] = "applied"
  /\ fetched'[a] = fetched[a] /\ last'[a] = last[a]
  /\ \/ /\ outcome'[a] = "success" /\ runtime'[a] = Target(a)
        /\ done'[a] = done[a] \cup {fetched[a].ver}
     \/ /\ outcome'[a] = "failed" /\ runtime'[a] \in Leftovers(a)
        /\ done'[a] = done[a]

Reports(a) ==
  /\ pc[a] = "applied" /\ pc'[a] = "awaiting"
  /\ fetched'[a] = fetched[a] /\ outcome'[a] = outcome[a] /\ last'[a] = last[a]
  /\ runtime'[a] = runtime[a] /\ done'[a] = done[a]

Ends(a) ==
  /\ pc[a] \notin {"off", "gone"} /\ pc'[a] \in {"idle", "gone"}
  /\ fetched'[a] = fetched[a] /\ outcome'[a] = outcome[a] /\ done'[a] = done[a]
  /\ \/ last'[a] \in {0, last[a]}
     \/ pc[a] = "awaiting" /\ outcome[a] = "success" /\ last'[a] = fetched[a].ver
  /\ runtime'[a] = runtime[a] \/ (pc[a] = "fetched" /\ runtime'[a] \in Leftovers(a))

ProcStep(a) ==
  Kept(a) \/ Starts(a) \/ Fetches(a) \/ Applies(a) \/ Reports(a) \/ Ends(a)

\* The type facts that function updates of the processes need.
ProcType ==
  /\ DOMAIN pc = AgentIds /\ DOMAIN fetched = AgentIds /\ DOMAIN outcome = AgentIds
  /\ DOMAIN last = AgentIds /\ DOMAIN runtime = AgentIds /\ DOMAIN done = AgentIds
  /\ pc = [a \in AgentIds |-> pc[a]] /\ fetched = [a \in AgentIds |-> fetched[a]]
  /\ outcome = [a \in AgentIds |-> outcome[a]] /\ last = [a \in AgentIds |-> last[a]]
  /\ runtime = [a \in AgentIds |-> runtime[a]] /\ done = [a \in AgentIds |-> done[a]]

\* The part of the types the classification of steps needs.
LEMMA TypeInvProcType == TypeInv => ProcType
  BY DEF TypeInv, TypeOK, ProcType

\* Every step does one of the six things to the Agent processes.
LEMMA NextProcStep ==
  ASSUME TypeInv, [Next]_vars, NEW b \in AgentIds
  PROVE  ProcStep(b)
<1> USE TypeInvProcType DEF ProcType
<1>0. UNCHANGED <<pc, fetched, outcome, last, runtime, done>> => ProcStep(b)
  BY DEF ProcStep, Kept
<1>1. CASE AdminStep
  <2>1. CASE RegisterAgent
    BY <2>1 DEF RegisterAgent, RegisterRow, ProcStep, Kept, Starts
  <2> QED
    BY <1>0, <1>1, <2>1 DEF AdminStep, CreateEnrollment, EnrollmentExpires,
       RegisterAgentUnheard, RegisterRow, MutateConfig, MutateUnrecorded, PatchCommit,
       LifecycleDue, PatchBegin, PatchNoChange, RequestDecommission, ForceArchive,
       PermanentlyDelete, procVars
<1>2. ASSUME NEW a \in AgentIds, AgentStep(a) PROVE ProcStep(b)
  <2>1. ASSUME NEW c \in Configs, Fetch(a, c) PROVE ProcStep(b)
    <3>1. config' = c /\ agentId = a /\ decom' = decom
      BY <2>1 DEF Fetch, GetDesiredState, ValidAgent
    <3> QED
      BY <2>1, <3>1 DEF Fetch, NeedsApply, ProcStep, Kept, Fetches
  <2>2. CASE ApplySucceeds(a)
    BY <2>2 DEF ApplySucceeds, ProcStep, Kept, Applies
  <2>3. ASSUME NEW r \in Requests, SendReport(a, r) PROVE ProcStep(b)
    BY <2>3 DEF SendReport, ProcStep, Kept, Reports
  <2>4. CASE SyncSucceeds(a)
    BY <2>4 DEF SyncSucceeds, ProcStep, Kept, Ends
  <2>5. CASE SyncFails(a)
    BY <2>5 DEF SyncFails, ProcStep, Kept, Ends
  <2> QED
    BY <1>2, <2>1, <2>2, <2>3, <2>4, <2>5 DEF AgentStep
<1>3. ASSUME NEW a \in AgentIds, FaultStep(a) PROVE ProcStep(b)
  <2>1. CASE ApplyFails(a)
    BY <2>1 DEF ApplyFails, ProcStep, Kept, Applies
  <2>2. CASE ReportUnsent(a)
    BY <2>2 DEF ReportUnsent, ProcStep, Kept, Ends
  <2>3. CASE SyncCut(a)
    BY <2>3 DEF SyncCut, ProcStep, Kept, Ends
  <2>4. CASE RestartAgent(a)
    BY <2>4 DEF RestartAgent, ProcStep, Kept, Ends
  <2>5. CASE CancelSync(a)
    BY <2>5 DEF CancelSync, ProcStep, Kept, Ends
  <2> QED
    BY <1>0, <1>3, <2>1, <2>2, <2>3, <2>4, <2>5 DEF FaultStep, FetchUnheard, FetchFails,
       RecordDesiredStateFailure, procVars
<1>4. ASSUME NEW r \in Requests, PanelStep(r) \/ HandlerFails(r) PROVE ProcStep(b)
  BY <1>0, <1>4 DEF PanelStep, RecordConfigResult, FinalizeDecommission, HandlerFails,
     procVars
<1>5. CASE RestartPanel \/ UNCHANGED vars
  BY <1>0, <1>5 DEF RestartPanel, vars, procVars
<1> QED
  BY <1>1, <1>2, <1>3, <1>4, <1>5 DEF Next

-----------------------------------------------------------------------------
\* The version only grows, and so do the identities and what an Agent has done.
LEMMA VersionGrows ==
  ASSUME TypeInv, [Next]_vars
  PROVE  desired \in Int /\ desired' \in Int /\ desired <= desired'
<1>1. desired \in Int /\ desired' \in Int
  BY NextTypeInv, VersionsInt DEF TypeInv, TypeOK
<1> QED
  BY <1>1, NextLedgerStep DEF LedgerStep, ReceiptStep

\* What an Agent applied stays applied.
LEMMA DoneGrows ==
  ASSUME TypeInv, [Next]_vars, NEW a \in AgentIds
  PROVE  done[a] \subseteq done'[a]
<1>1. ProcStep(a)
  BY NextProcStep
<1> QED
  BY <1>1 DEF ProcStep, Kept, Starts, Fetches, Applies, Reports, Ends

\* Identities are never handed out twice.
LEMMA LastAgentGrows ==
  ASSUME TypeInv, [Next]_vars
  PROVE  lastAgentId \in Int /\ lastAgentId' \in Int /\ lastAgentId <= lastAgentId'
<1>1. lastAgentId \in Int /\ lastAgentId' \in Int
  BY NextTypeInv DEF TypeInv, TypeOK
<1>2. lastAgentId' \in {lastAgentId, lastAgentId + 1}
  BY DEF Next, vars, AdminStep, AgentStep, FaultStep, PanelStep, CreateEnrollment,
     EnrollmentExpires, RegisterAgent, RegisterAgentUnheard, RegisterRow, MutateConfig,
     MutateUnrecorded, PatchCommit, LifecycleDue, PatchBegin, PatchNoChange,
     RequestDecommission, ForceArchive, PermanentlyDelete, Fetch, FetchUnheard,
     GetDesiredState, ApplySucceeds, SendReport, SyncSucceeds, SyncFails, FetchFails,
     RecordDesiredStateFailure, ApplyFails, ReportUnsent, SyncCut, RestartAgent,
     CancelSync, RecordConfigResult, FinalizeDecommission, HandlerFails, RestartPanel,
     enrollVars
<1> QED
  BY <1>1, <1>2

\* Nothing has been fetched, applied or reported yet.
LEMMA InitTruth == Init => TruthInv
  BY ConstantsAssumption DEF Init, TruthInv, Busy, Free, AgentIds

\* A version is reported by the Agent that applied it, step by step.
LEMMA NextTruth == TypeInv /\ TruthInv /\ [Next]_vars => TruthInv'
<1> SUFFICES ASSUME TypeInv, TruthInv, [Next]_vars PROVE TruthInv'
  OBVIOUS
<1>0. TypeInv'
  BY NextTypeInv
<1>1. desired \in Int /\ desired' \in Int /\ desired <= desired'
  BY VersionGrows
<1>2. ASSUME NEW r \in Requests, Busy(r)'
      PROVE  /\ reqs'[r].ver <= desired'
             /\ reqs'[r].st = "success" => reqs'[r].ver \in done'[reqs'[r].aid]
  <2>0. reqs'[r] \in Report /\ reqs'[r].ver \in Int /\ reqs'[r].aid \in AgentIds
    <3>1. reqs'[r] \in Report
      BY <1>0, <1>2 DEF TypeInv, TypeOK, Busy, Free
    <3> QED
      BY <3>1, VersionsInt DEF Report
  <2>1. CASE ReportsKept
    <3>1. /\ reqs'[r].ver <= desired
          /\ reqs'[r].st = "success" => reqs'[r].ver \in done[reqs'[r].aid]
      BY <1>2, <2>1 DEF ReportsKept, TruthInv
    <3> QED
      BY <1>1, <2>0, <3>1, DoneGrows
  <2>2. ASSUME NEW a \in AgentIds, NEW s \in Requests, SendReport(a, s)
        PROVE  /\ reqs'[r].ver <= desired'
               /\ reqs'[r].st = "success" => reqs'[r].ver \in done'[reqs'[r].aid]
    <3>1. done' = done
      BY <2>2 DEF SendReport
    <3>2. CASE r = s
      <4>1. reqs'[r] = [aid |-> a, ver |-> fetched[a].ver, st |-> outcome[a],
                        stage |-> "sent"] /\ pc[a] = "applied"
        BY <2>2, <3>2 DEF SendReport, TypeInv, TypeOK
      <4>2. fetched[a].ver <= desired /\ fetched[a].ver \in Int
        BY VersionsInt DEF TruthInv, TypeInv, TypeOK, DesiredState
      <4>3. outcome[a] = "success" => fetched[a].ver \in done[a]
        BY <4>1 DEF TruthInv
      <4> QED
        BY <1>1, <3>1, <4>1, <4>2, <4>3
    <3>3. CASE r # s
      <4>1. reqs'[r] = reqs[r]
        BY <2>2, <3>3 DEF SendReport, TypeInv, TypeOK
      <4>2. /\ reqs[r].ver <= desired
            /\ reqs[r].st = "success" => reqs[r].ver \in done[reqs[r].aid]
        BY <1>2, <4>1 DEF TruthInv, Busy
      <4> QED
        BY <1>1, <2>0, <3>1, <4>1, <4>2
    <3> QED
      BY <3>2, <3>3
  <2> QED
    BY <2>1, <2>2, NextReports
<1>3. ASSUME NEW a \in AgentIds
      PROVE  /\ fetched'[a].ver <= desired'
             /\ pc'[a] = "applied" /\ outcome'[a] = "success" => fetched'[a].ver \in done'[a]
             /\ a > lastAgentId' => pc'[a] = "off" /\ done'[a] = {}
  <2>0. ProcStep(a)
    BY NextProcStep
  <2>1. /\ fetched[a].ver <= desired /\ fetched[a].ver \in Int
        /\ pc[a] = "applied" /\ outcome[a] = "success" => fetched[a].ver \in done[a]
        /\ a > lastAgentId => pc[a] = "off" /\ done[a] = {}
    BY VersionsInt DEF TruthInv, TypeInv, TypeOK, DesiredState
  <2>2. fetched'[a].ver <= desired'
    BY <1>1, <2>0, <2>1 DEF ProcStep, Kept, Starts, Fetches, Applies, Reports, Ends
  <2>3. pc'[a] = "applied" /\ outcome'[a] = "success" => fetched'[a].ver \in done'[a]
    BY <2>0, <2>1 DEF ProcStep, Kept, Starts, Fetches, Applies, Reports, Ends
  <2>4. a > lastAgentId' => pc'[a] = "off" /\ done'[a] = {}
    <3>1. a > lastAgentId' => a > lastAgentId
      BY LastAgentGrows DEF AgentIds
    <3>2. Starts(a) => ~(a > lastAgentId')
      BY DEF Starts, AgentIds
    <3> QED
      BY <2>0, <2>1, <3>1, <3>2 DEF ProcStep, Kept, Fetches, Applies, Reports, Ends
  <2> QED
    BY <2>2, <2>3, <2>4
<1> QED
  BY <1>2, <1>3 DEF TruthInv, Busy

(***************************************************************************)
(* The Panel's record of its Agent is true, and ConfigSync implements      *)
(* SyncContract.                                                           *)
(***************************************************************************)

(***************************************************************************)
(* All that a step may do to the Agent's row, with the version and the     *)
(* history next to it.                                                     *)
(***************************************************************************)
RowKept ==
  /\ agentId' = agentId /\ applied' = applied
  /\ sync' \in {sync, "pending", "failed"}
  /\ desired' = desired \/ (desired' = desired + 1 /\ done' = done)

RowReset ==
  /\ applied' = 0 /\ sync' = "pending"
  /\ agentId' = 0 \/ agentId' = lastAgentId + 1
  /\ desired' = desired /\ done' = done

RowReceipt ==
  \E r \in Requests :
    /\ Busy(r) /\ reqs[r].aid = agentId /\ agentId # 0 /\ agentId' = agentId
    /\ reqs[r].ver >= applied
    /\ applied' = IF reqs[r].st = "success" THEN reqs[r].ver ELSE applied
    /\ sync' = reqs[r].st
    /\ desired' = desired /\ done' = done

RowStep == RowKept \/ RowReset \/ RowReceipt

\* Every step leaves the Agent's row, resets it, or books a receipt.
LEMMA NextRowStep == ASSUME TypeInv, [Next]_vars PROVE RowStep
<1> USE DEF RowStep, serverVars, rowVars, procVars
<1>1. CASE AdminStep
  BY <1>1 DEF AdminStep, CreateEnrollment, EnrollmentExpires, RegisterAgent,
     RegisterAgentUnheard, RegisterRow, MutateConfig, MutateUnrecorded, PatchCommit,
     LifecycleDue, PatchBegin, PatchNoChange, RequestDecommission, ForceArchive,
     PermanentlyDelete, archiveServer, bumpVersion, RowKept, RowReset
<1>2. ASSUME NEW a \in AgentIds, AgentStep(a) PROVE RowStep
  BY <1>2 DEF AgentStep, Fetch, GetDesiredState, bumpVersion, ApplySucceeds, SendReport,
     SyncSucceeds, SyncFails, RowKept
<1>3. ASSUME NEW a \in AgentIds, FaultStep(a) PROVE RowStep
  BY <1>3 DEF FaultStep, FetchUnheard, GetDesiredState, bumpVersion, FetchFails,
     RecordDesiredStateFailure, ApplyFails, ReportUnsent, SyncCut, RestartAgent,
     CancelSync, RowKept
<1>4. ASSUME NEW r \in Requests, PanelStep(r) \/ HandlerFails(r) PROVE RowStep
  <2>1. CASE RecordConfigResult(r)
    <3>1. CASE UNCHANGED <<applied, sync>>
      BY <2>1, <3>1 DEF RecordConfigResult, RowKept
    <3>2. CASE /\ Accepts(reqs[r]) /\ ~Outdated(reqs[r])
               /\ applied' = IF reqs[r].st = "success" THEN reqs[r].ver ELSE applied
               /\ sync' = reqs[r].st
      <4>1. reqs[r] \in Report
        BY <2>1, BusyIsReport DEF RecordConfigResult, TypeInv
      <4>2. reqs[r].ver \in Int
        BY <4>1, VersionsInt DEF Report
      <4>3. applied \in Int
        BY DEF TypeInv, TypeOK
      <4>4. reqs[r].ver >= applied
        BY <3>2, <4>2, <4>3 DEF Outdated
      <4>5. Busy(r) /\ reqs[r].aid = agentId /\ agentId # 0
        BY <2>1, <3>2 DEF RecordConfigResult, Accepts, ValidAgent, Busy
      <4>6. desired' = desired /\ done' = done /\ agentId' = agentId
        BY <2>1 DEF RecordConfigResult
      <4> QED
        BY <3>2, <4>4, <4>5, <4>6 DEF RowReceipt
    <3> QED
      BY <2>1, <3>1, <3>2 DEF RecordConfigResult
  <2>2. CASE FinalizeDecommission(r)
    BY <2>2 DEF FinalizeDecommission, archiveServer, RowKept, RowReset
  <2>3. CASE HandlerFails(r)
    BY <2>3 DEF HandlerFails, RowKept
  <2> QED
    BY <1>4, <2>1, <2>2, <2>3 DEF PanelStep
<1>5. CASE RestartPanel \/ UNCHANGED vars
  BY <1>5 DEF RestartPanel, vars, RowKept
<1> QED
  BY <1>1, <1>2, <1>3, <1>4, <1>5 DEF Next

-----------------------------------------------------------------------------
\* The invariant that the theorems of this module rest on.
AgentInv == TypeInv /\ LedgerInv /\ IdentityInv /\ TruthInv

\* The three invariants hold at the start.
LEMMA InitAgentInv == Init => AgentInv
  BY InitTypeInv, InitLedger, InitIdentity, InitTruth DEF AgentInv

\* Every step preserves them together.
LEMMA NextAgentInv == AgentInv /\ [Next]_vars => AgentInv'
  BY NextTypeInv, NextLedgerStep, LedgerPreserved, NextIdentity, NextTruth DEF AgentInv

\* They hold in every reachable state.
LEMMA AgentInvAlways == Spec => []AgentInv
  BY InitAgentInv, NextAgentInv, PTL DEF Spec

\* Nothing is acknowledged at the start.
LEMMA InitApplied == Init => AppliedWasApplied
  BY DEF Init, AppliedWasApplied

\* RecordConfigResult credits only what TruthInv vouches for.
LEMMA NextApplied == AgentInv /\ AppliedWasApplied /\ [Next]_vars => AppliedWasApplied'
<1> SUFFICES ASSUME AgentInv, AppliedWasApplied, [Next]_vars, agentId' # 0
             PROVE  /\ applied' # 0 => applied' \in done'[agentId']
                    /\ sync' = "success" => applied' # 0
  BY DEF AppliedWasApplied
<1>0. TypeInv /\ agentId' \in AgentIds
  BY NextTypeInv DEF AgentInv, TypeInv, TypeOK, AgentIds
<1>1. CASE RowKept
  <2>1. agentId' = agentId /\ applied' = applied
    BY <1>1 DEF RowKept
  <2>2. applied # 0 => applied \in done[agentId]
    BY <2>1 DEF AppliedWasApplied
  <2>3. done[agentId] \subseteq done'[agentId]
    BY <1>0, <2>1, DoneGrows
  <2>4. sync' = "success" => sync = "success"
    BY <1>1 DEF RowKept
  <2> QED
    BY <2>1, <2>2, <2>3, <2>4 DEF AppliedWasApplied
<1>2. CASE RowReset
  BY <1>2 DEF RowReset
<1>3. CASE RowReceipt
  <2>1. PICK r \in Requests :
          /\ Busy(r) /\ reqs[r].aid = agentId /\ agentId' = agentId /\ agentId # 0
          /\ applied' = IF reqs[r].st = "success" THEN reqs[r].ver ELSE applied
          /\ sync' = reqs[r].st /\ done' = done
    BY <1>3 DEF RowReceipt
  <2>2. reqs[r] \in Report /\ reqs[r].ver # 0
    <3>1. reqs[r] \in Report
      BY <1>0, <2>1, BusyIsReport DEF Busy, TypeInv
    <3> QED
      BY <3>1, ConstantsAssumption DEF Report, Versions
  <2>3. reqs[r].st = "success" => reqs[r].ver \in done[agentId]
    BY <2>1 DEF AgentInv, TruthInv
  <2> QED
    BY <2>1, <2>2, <2>3 DEF AppliedWasApplied
<1> QED
  BY <1>0, <1>1, <1>2, <1>3, NextRowStep DEF RowStep

(***************************************************************************)
(* The version RecordConfigResult credits the registered Agent with is one *)
(* that this identity applied, and a success is never shown without one.   *)
(***************************************************************************)
THEOREM AppliedTruthful == Spec => []AppliedWasApplied
  BY AgentInvAlways, InitApplied, NextApplied, PTL DEF Spec

-----------------------------------------------------------------------------
\* The initial states map to initial states of the contract.
LEMMA InitRefines == Init => Contract!Init
  BY DEF Init, Contract!Init

\* Every step of ConfigSync is a step of the contract or a stutter.
LEMMA NextRefines ==
  ASSUME AgentInv, [Next]_vars
  PROVE  [Contract!Next]_<<desired, applied, IF agentId = 0 THEN {} ELSE done[agentId]>>
<1> DEFINE ran == IF agentId = 0 THEN {} ELSE done[agentId]
<1>0. TypeInv /\ TypeInv'
  BY NextTypeInv DEF AgentInv
<1>1. CASE RowKept
  <2>1. CASE desired' = desired + 1 /\ done' = done
    BY <1>1, <2>1 DEF RowKept, Contract!Next, Contract!Publish
  <2>2. CASE desired' = desired
    <3>1. CASE agentId = 0 \/ done'[agentId] = done[agentId]
      BY <1>1, <2>2, <3>1 DEF RowKept
    <3>2. CASE agentId # 0 /\ done'[agentId] # done[agentId]
      <4>1. agentId \in AgentIds
        BY <1>0, <3>2 DEF TypeInv, TypeOK, AgentIds
      <4>2. done'[agentId] = done[agentId] \cup {fetched[agentId].ver}
        BY <1>0, <3>2, <4>1, NextProcStep DEF ProcStep, Kept, Starts, Fetches, Applies,
           Reports, Ends
      <4>3. fetched[agentId].ver \in 1..desired
        BY <1>0, <4>1 DEF AgentInv, TruthInv, TypeInv, TypeOK, DesiredState, Versions
      <4> QED
        BY <1>1, <2>2, <3>2, <4>2, <4>3 DEF RowKept, Contract!Next, Contract!Run
    <3> QED
      BY <3>1, <3>2
  <2> QED
    BY <1>1, <2>1, <2>2 DEF RowKept
<1>2. CASE RowReset
  <2>1. ran' = {}
    <3>1. CASE agentId' = 0
      BY <3>1
    <3>2. CASE agentId' = lastAgentId + 1 /\ agentId' # 0
      <4>1. agentId' \in AgentIds /\ agentId' > lastAgentId
        BY <1>0, <3>2 DEF TypeInv, TypeOK, AgentIds
      <4> QED
        BY <1>2, <4>1, <3>2 DEF RowReset, AgentInv, TruthInv
    <3> QED
      BY <1>2, <3>1, <3>2 DEF RowReset
  <2> QED
    BY <1>2, <2>1 DEF RowReset, Contract!Next, Contract!Rebind
<1>3. CASE RowReceipt
  <2>1. PICK r \in Requests :
          /\ Busy(r) /\ reqs[r].aid = agentId /\ agentId' = agentId /\ agentId # 0
          /\ reqs[r].ver >= applied
          /\ applied' = IF reqs[r].st = "success" THEN reqs[r].ver ELSE applied
          /\ desired' = desired /\ done' = done
    BY <1>3 DEF RowReceipt
  <2>2. reqs[r].st = "success" => reqs[r].ver \in done[agentId]
    BY <2>1 DEF AgentInv, TruthInv
  <2> QED
    BY <2>1, <2>2 DEF Contract!Next, Contract!Acknowledge
<1> QED
  BY <1>0, <1>1, <1>2, <1>3, NextRowStep DEF RowStep

(***************************************************************************)
(* Registration, fetching, applying, reporting and archiving together do   *)
(* what SyncContract promises: versions are published one by one, and the  *)
(* acknowledged one is a version the registered Agent has run and never    *)
(* goes back until the Agent is replaced.                                  *)
(***************************************************************************)
THEOREM Refinement == Spec => ImplementsContract
  BY AgentInvAlways, InitRefines, NextRefines, PTL
  DEF Spec, ImplementsContract, Contract!Spec

-----------------------------------------------------------------------------
(***************************************************************************)
(* Why a version number is enough to skip a fetch, and to archive.  An     *)
(* Agent that is working works on a version it has not completed; what it  *)
(* remembers or has applied is never newer than what it fetched last.  The *)
(* newest version is therefore the one in hand, and its content is the one *)
(* the tables hold: every change of the tables takes a new version, and a  *)
(* decommission has a version to itself.                                   *)
(***************************************************************************)
Working(a) == pc[a] \in {"fetched", "applied", "awaiting"}

ProgressInv ==
  \A a \in AgentIds :
    /\ last[a] <= fetched[a].ver
    /\ \A w \in done[a] : w <= fetched[a].ver
    /\ Working(a) => last[a] # fetched[a].ver
    /\ a > lastAgentId => last[a] = 0
    /\ pc[a] \in {"applied", "awaiting"} /\ outcome[a] = "success" => runtime[a] = Target(a)

PurgeInv ==
  decom # "none" => \A a \in AgentIds :
    /\ fetched[a].ver = desired => a = agentId /\ fetched[a].decom
    /\ desired \in done[a] => runtime[a] = "purged"

ContentInv ==
  agentId # 0 /\ decom = "none" =>
    /\ Working(agentId) /\ fetched[agentId].ver = desired
         => fetched[agentId].config = config /\ ~fetched[agentId].decom
    /\ pc[agentId] = "idle" /\ last[agentId] = desired => runtime[agentId] = config

CurrentInv == ProgressInv /\ PurgeInv /\ ContentInv

(***************************************************************************)
(* All that a step may do to the Server as its Agent sees it: the Agent is *)
(* gone or new, or nothing the desired state is computed from changes, or  *)
(* the version moves on.                                                   *)
(***************************************************************************)
ServerKept ==
  /\ agentId' = agentId /\ desired' = desired /\ config' = config
  /\ decom' = "none" <=> decom = "none"

ServerMoves == agentId' = agentId /\ desired' = desired + 1

ServerRebinds ==
  /\ agentId' = 0 \/ (agentId' = lastAgentId + 1 /\ lastAgentId' = lastAgentId + 1)
  /\ decom' = "none" /\ desired' = desired /\ done' = done /\ fetched' = fetched

ServerStep == ServerKept \/ ServerMoves \/ ServerRebinds

\* No step changes the tables and keeps both the version and the Agent.
LEMMA NextServerStep == ASSUME AgentInv, [Next]_vars PROVE ServerStep
<1> USE DEF ServerStep, serverVars, rowVars, procVars
<1>1. CASE AdminStep
  <2>1. CASE RegisterAgent \/ RegisterAgentUnheard
    <3>1. decom = "none"
      BY <2>1 DEF RegisterAgent, RegisterAgentUnheard, RegisterRow, AgentInv, IdentityInv
    <3> QED
      BY <2>1, <3>1 DEF RegisterAgent, RegisterAgentUnheard, RegisterRow, ServerRebinds
  <2>2. CASE CreateEnrollment \/ ForceArchive
    BY <2>2 DEF CreateEnrollment, MayEnroll, ForceArchive, archiveServer, ServerRebinds
  <2> QED
    BY <1>1, <2>1, <2>2 DEF AdminStep, EnrollmentExpires, MutateConfig, MutateUnrecorded,
       PatchCommit, LifecycleDue, PatchBegin, PatchNoChange, RequestDecommission,
       PermanentlyDelete, bumpVersion, ServerKept, ServerMoves
<1>2. ASSUME NEW a \in AgentIds, AgentStep(a) PROVE ServerStep
  BY <1>2 DEF AgentStep, Fetch, GetDesiredState, bumpVersion, ApplySucceeds, SendReport,
     SyncSucceeds, SyncFails, ServerKept, ServerMoves
<1>3. ASSUME NEW a \in AgentIds, FaultStep(a) PROVE ServerStep
  BY <1>3 DEF FaultStep, FetchUnheard, GetDesiredState, bumpVersion, FetchFails,
     RecordDesiredStateFailure, ApplyFails, ReportUnsent, SyncCut, RestartAgent,
     CancelSync, ServerKept, ServerMoves
<1>4. ASSUME NEW r \in Requests, PanelStep(r) \/ HandlerFails(r) PROVE ServerStep
  BY <1>4 DEF PanelStep, RecordConfigResult, FinalizeDecommission, archiveServer, Closes,
     HandlerFails, ServerKept, ServerRebinds
<1>5. CASE RestartPanel \/ UNCHANGED vars
  BY <1>5 DEF RestartPanel, vars, ServerKept
<1> QED
  BY <1>1, <1>2, <1>3, <1>4, <1>5 DEF Next

\* The numbers the arguments below compare are integers.
LEMMA ProgressTypes ==
  ASSUME TypeInv, NEW a \in AgentIds
  PROVE  /\ last[a] \in Int /\ fetched[a].ver \in Int /\ fetched[a].ver >= 1
         /\ done[a] \subseteq Int /\ desired \in Int /\ desired >= 1
         /\ lastAgentId \in Int /\ a \in Int /\ a >= 1
<1>1. Versions \subseteq Int /\ \A v \in Versions : v >= 1
  BY ConstantsAssumption DEF Versions
<1>2. last[a] \in 0..MaxVersion /\ fetched[a] \in DesiredState /\ done[a] \subseteq Versions
  BY DEF TypeInv, TypeOK
<1>3. lastAgentId \in Int /\ a \in Int /\ a >= 1
  BY ConstantsAssumption DEF TypeInv, TypeOK, AgentIds
<1>4. fetched[a].ver \in Versions /\ desired \in Versions
  BY <1>2 DEF TypeInv, TypeOK, DesiredState
<1>5. last[a] \in Int
  BY <1>2, ConstantsAssumption
<1>6. done[a] \subseteq Int
  BY <1>1, <1>2
<1> QED
  BY <1>1, <1>3, <1>4, <1>5, <1>6

\* Nothing has been fetched yet, and no Agent works.
LEMMA InitCurrent == Init => CurrentInv
  BY ConstantsAssumption DEF Init, CurrentInv, ProgressInv, PurgeInv, ContentInv, Working

\* What an Agent remembers, whatever happens to it.
LEMMA NextProgress == AgentInv /\ ProgressInv /\ [Next]_vars => ProgressInv'
<1> SUFFICES ASSUME AgentInv, ProgressInv, [Next]_vars, NEW a \in AgentIds
             PROVE  /\ last'[a] <= fetched'[a].ver
                    /\ \A w \in done'[a] : w <= fetched'[a].ver
                    /\ Working(a)' => last'[a] # fetched'[a].ver
                    /\ a > lastAgentId' => last'[a] = 0
                    /\ pc'[a] \in {"applied", "awaiting"} /\ outcome'[a] = "success"
                         => runtime'[a] = Target(a)'
  BY DEF ProgressInv
<1>0. TypeInv /\ TypeInv' /\ fetched[a].ver <= desired /\ desired <= desired'
  BY NextTypeInv, VersionGrows DEF AgentInv, TruthInv
<1>1. /\ last[a] \in Int /\ fetched[a].ver \in Int /\ fetched[a].ver >= 1
      /\ done[a] \subseteq Int /\ desired \in Int
  BY <1>0, ProgressTypes
<1>2. desired' \in Int
  BY <1>0, VersionGrows
<1>3. /\ last[a] <= fetched[a].ver
      /\ \A w \in done[a] : w <= fetched[a].ver
      /\ Working(a) => last[a] # fetched[a].ver
      /\ a > lastAgentId => last[a] = 0
      /\ pc[a] \in {"applied", "awaiting"} /\ outcome[a] = "success" => runtime[a] = Target(a)
  BY DEF ProgressInv
<1>4. a > lastAgentId' => a > lastAgentId /\ pc[a] = "off"
  BY <1>0, LastAgentGrows, ProgressTypes DEF AgentInv, TruthInv
<1> USE DEF Working, Target
<1>5. CASE Kept(a)
  BY <1>3, <1>4, <1>5 DEF Kept
<1>6. CASE Starts(a)
  BY <1>3, <1>4, <1>6 DEF Starts
<1>7. CASE Fetches(a)
  <2>1. fetched'[a].ver = desired' /\ last'[a] = last[a] /\ done'[a] = done[a]
    BY <1>7 DEF Fetches
  <2>2. last[a] <= desired' /\ \A w \in done[a] : w <= desired'
    BY <1>0, <1>1, <1>2, <1>3
  <2> QED
    BY <1>3, <1>4, <1>7, <2>1, <2>2 DEF Fetches
<1>8. CASE Applies(a)
  <2>1. \A w \in done'[a] : w <= fetched[a].ver
    BY <1>1, <1>3, <1>8 DEF Applies
  <2> QED
    BY <1>3, <1>4, <1>8, <2>1 DEF Applies
<1>9. CASE Reports(a)
  BY <1>3, <1>4, <1>9 DEF Reports
<1>10. CASE Ends(a)
  <2>1. last'[a] <= fetched[a].ver
    BY <1>1, <1>3, <1>10 DEF Ends
  <2> QED
    BY <1>3, <1>4, <1>10, <2>1 DEF Ends
<1> QED
  BY <1>0, <1>5, <1>6, <1>7, <1>8, <1>9, <1>10, NextProcStep DEF ProcStep

\* A decommission's version is fetched by the registered Agent, as such.
LEMMA NextPurge == AgentInv /\ CurrentInv /\ [Next]_vars => PurgeInv'
<1> SUFFICES ASSUME AgentInv, CurrentInv, [Next]_vars, decom' # "none", NEW a \in AgentIds
             PROVE  /\ fetched'[a].ver = desired' => a = agentId' /\ fetched'[a].decom
                    /\ desired' \in done'[a] => runtime'[a] = "purged"
  BY DEF PurgeInv
<1>0. TypeInv /\ fetched[a].ver <= desired /\ \A w \in done[a] : w <= fetched[a].ver
  BY DEF AgentInv, TruthInv, CurrentInv, ProgressInv
<1>1. fetched[a].ver \in Int /\ done[a] \subseteq Int /\ desired \in Int
  BY <1>0, ProgressTypes
<1>2. ProcStep(a)
  BY <1>0, NextProcStep
<1>3. CASE ServerKept
  <2>1. /\ fetched[a].ver = desired => a = agentId /\ fetched[a].decom
        /\ desired \in done[a] => runtime[a] = "purged"
        /\ decom # "none"
    BY <1>3 DEF ServerKept, CurrentInv, PurgeInv
  <2>2. desired \in done[a] => fetched[a].ver = desired
    BY <1>0, <1>1
  <2>3. fetched'[a].ver = desired' => a = agentId' /\ fetched'[a].decom
    BY <1>2, <1>3, <2>1 DEF ServerKept, ProcStep, Kept, Starts, Fetches, Applies, Reports,
       Ends
  <2>4. fetched[a].ver = desired => Target(a) = "purged"
    BY <2>1 DEF Target
  <2>5. desired \in done[a] /\ runtime'[a] \in Leftovers(a) => runtime'[a] = "purged"
    BY <2>1, <2>2, <2>4 DEF Leftovers
  <2>6. desired \in done'[a] => runtime'[a] = "purged"
    BY <1>2, <2>1, <2>2, <2>4, <2>5 DEF ProcStep, Kept, Starts, Fetches, Applies, Reports,
       Ends
  <2> QED
    BY <1>3, <2>3, <2>6 DEF ServerKept
<1>4. CASE ServerMoves
  <2>1. fetched[a].ver # desired' /\ desired' \notin done[a]
    BY <1>0, <1>1, <1>4 DEF ServerMoves
  <2>2. desired' \notin done'[a]
    BY <1>2, <2>1 DEF ProcStep, Kept, Starts, Fetches, Applies, Reports, Ends
  <2>3. CASE Fetches(a)
    BY <1>4, <2>2, <2>3 DEF ServerMoves, Fetches
  <2> QED
    BY <1>2, <2>1, <2>2, <2>3 DEF ProcStep, Kept, Starts, Applies, Reports, Ends
<1>5. CASE ServerRebinds
  BY <1>5 DEF ServerRebinds
<1> QED
  BY <1>3, <1>4, <1>5, NextServerStep DEF ServerStep

\* Equal versions mean equal content, for the Agent that is registered.
LEMMA NextContent == AgentInv /\ CurrentInv /\ [Next]_vars => ContentInv'
<1> SUFFICES ASSUME AgentInv, CurrentInv, [Next]_vars, decom' = "none",
                    NEW a \in AgentIds, a = agentId'
             PROVE  /\ Working(a)' /\ fetched'[a].ver = desired'
                         => fetched'[a].config = config' /\ ~fetched'[a].decom
                    /\ pc'[a] = "idle" /\ last'[a] = desired' => runtime'[a] = config'
  <2>1. AgentInv /\ [Next]_vars /\ agentId' # 0 => agentId' \in AgentIds
    BY NextTypeInv DEF AgentInv, TypeInv, TypeOK, AgentIds
  <2> QED
    BY <2>1 DEF ContentInv, Working
<1>0. TypeInv
  BY DEF AgentInv
<1>1. /\ last[a] \in Int /\ fetched[a].ver \in Int /\ desired \in Int /\ desired >= 1
      /\ lastAgentId \in Int
  BY <1>0, ProgressTypes
<1>2. /\ fetched[a].ver <= desired /\ last[a] <= fetched[a].ver
      /\ Working(a) => last[a] # fetched[a].ver
      /\ pc[a] \in {"applied", "awaiting"} /\ outcome[a] = "success" => runtime[a] = Target(a)
  BY <1>0 DEF AgentInv, TruthInv, CurrentInv, ProgressInv
<1>3. ProcStep(a)
  BY <1>0, NextProcStep
<1>4. CASE ServerKept
  <2>1. /\ Working(a) /\ fetched[a].ver = desired
             => fetched[a].config = config /\ ~fetched[a].decom
        /\ pc[a] = "idle" /\ last[a] = desired => runtime[a] = config
        /\ decom = "none" /\ desired' = desired /\ config' = config
    BY <1>4, ConstantsAssumption DEF ServerKept, CurrentInv, ContentInv, AgentIds
  <2>2. Working(a) => last[a] # desired
    BY <1>1, <1>2
  <2>3. Starts(a) => last[a] # desired
    BY <1>1, <1>0 DEF Starts, CurrentInv, ProgressInv
  <2>4. pc[a] = "awaiting" /\ outcome[a] = "success" /\ fetched[a].ver = desired
          => runtime[a] = config
    BY <1>2, <2>1 DEF Working, Target
  <2>5. pc[a] \in {"idle", "fetched", "applied", "awaiting", "off", "gone"}
    BY <1>0 DEF TypeInv, TypeOK
  <2>6. Working(a)' /\ fetched'[a].ver = desired' => fetched'[a].config = config' /\ ~fetched'[a].decom
    BY <1>3, <2>1 DEF ProcStep, Kept, Starts, Fetches, Applies, Reports, Ends, Working
  <2>7. CASE Ends(a)
    BY <1>1, <2>1, <2>2, <2>4, <2>5, <2>6, <2>7 DEF Ends, Working
  <2> QED
    BY <1>3, <2>1, <2>2, <2>3, <2>6, <2>7 DEF ProcStep, Kept, Starts, Fetches, Applies, Reports
<1>5. CASE ServerMoves
  <2>1. fetched[a].ver # desired' /\ last[a] # desired' /\ 0 # desired'
    BY <1>1, <1>2, <1>5 DEF ServerMoves
  <2> QED
    BY <1>3, <2>1 DEF ProcStep, Kept, Starts, Fetches, Applies, Reports, Ends, Working
<1>6. CASE ServerRebinds
  <2>1. a = lastAgentId + 1 /\ lastAgentId' = a /\ desired' = desired /\ done' = done
    BY <1>6, ConstantsAssumption DEF ServerRebinds, AgentIds
  <2>2. pc[a] = "off" /\ last[a] = 0
    BY <1>0, <1>1, <2>1 DEF AgentInv, TruthInv, CurrentInv, ProgressInv
  <2>3. ~Working(a)' /\ last'[a] = 0
    BY <1>3, <2>2 DEF ProcStep, Kept, Starts, Fetches, Applies, Reports, Ends, Working
  <2> QED
    BY <1>1, <2>1, <2>3
<1> QED
  BY <1>4, <1>5, <1>6, NextServerStep DEF ServerStep

\* The whole invariant, in every reachable state.
LEMMA CurrentInvAlways == Spec => [](AgentInv /\ CurrentInv)
<1>1. AgentInv /\ CurrentInv /\ [Next]_vars => (AgentInv /\ CurrentInv)'
  BY NextAgentInv, NextProgress, NextPurge, NextContent DEF CurrentInv
<1> QED
  BY <1>1, InitAgentInv, InitCurrent, PTL DEF Spec

(***************************************************************************)
(* sync may skip a version it has applied: whenever the registered Agent   *)
(* is idle and remembers the current version, its services run what the    *)
(* Panel's tables hold, whatever was cut short, retried or lost before.    *)
(***************************************************************************)
THEOREM SkippingIsSound == Spec => []SkippedFetchIsCurrent
<1>1. CurrentInv => SkippedFetchIsCurrent
  BY DEF CurrentInv, ContentInv, SkippedFetchIsCurrent, InService
<1> QED
  BY <1>1, CurrentInvAlways, PTL

\* Only a recorded success for the decommission's own version archives here.
LEMMA ArchivingStep ==
  ASSUME AgentInv, CurrentInv, [Next]_vars, srv = "active", srv' = "archived", reqs' # reqs
  PROVE  runtime[agentId] = "purged"
<1>1. PICK r \in Requests : FinalizeDecommission(r)
  <2>1. ~AdminStep
    BY DEF AdminStep, CreateEnrollment, EnrollmentExpires, RegisterAgent,
       RegisterAgentUnheard, RegisterRow, MutateConfig, MutateUnrecorded, PatchCommit,
       LifecycleDue, PatchBegin, PatchNoChange, RequestDecommission, ForceArchive,
       PermanentlyDelete, handlerVars, serverVars
  <2>2. ASSUME NEW a \in AgentIds PROVE ~AgentStep(a) /\ ~FaultStep(a)
    BY DEF AgentStep, FaultStep, Fetch, ApplySucceeds, SendReport, SyncSucceeds,
       SyncFails, FetchUnheard, FetchFails, RecordDesiredStateFailure, ApplyFails,
       ReportUnsent, SyncCut, RestartAgent, CancelSync, GetDesiredState, serverVars
  <2>3. ~RestartPanel /\ ~UNCHANGED vars
    BY DEF RestartPanel, vars, serverVars
  <2>4. ASSUME NEW r \in Requests PROVE ~RecordConfigResult(r) /\ ~HandlerFails(r)
    BY DEF RecordConfigResult, HandlerFails, serverVars
  <2> QED
    BY <2>1, <2>2, <2>3, <2>4 DEF Next, PanelStep
<1>2. Closes(reqs[r]) /\ reqs[r].st = "success" /\ Busy(r)
  BY <1>1 DEF FinalizeDecommission, serverVars, Busy
<1>3. reqs[r].ver = desired /\ decom # "none"
  BY <1>2 DEF Closes
<1> DEFINE a == reqs[r].aid
<1>4. a \in AgentIds
  BY <1>2, BusyIsReport DEF AgentInv, TypeInv, Busy, Report
<1>5. desired \in done[a] /\ fetched[a].ver <= desired
  BY <1>2, <1>3, <1>4 DEF AgentInv, TruthInv
<1>6. fetched[a].ver = desired
  BY <1>4, <1>5, ProgressTypes DEF CurrentInv, ProgressInv, AgentInv
<1> QED
  BY <1>3, <1>4, <1>5, <1>6 DEF CurrentInv, PurgeInv

(***************************************************************************)
(* FinalizeDecommission archives a Server only after the VPS of its own    *)
(* Agent was purged, although it compares nothing but the version.         *)
(***************************************************************************)
THEOREM ArchivingIsSafe == Spec => ArchivedAfterPurge
<1>1. AgentInv /\ CurrentInv /\ [Next]_vars =>
        [srv = "active" /\ srv' = "archived" /\ reqs' # reqs => runtime[agentId] = "purged"]_vars
  BY ArchivingStep
<1> QED
  BY <1>1, CurrentInvAlways, PTL DEF Spec, ArchivedAfterPurge
=============================================================================
