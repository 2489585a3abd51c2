----------------------------- MODULE VpsProofs -----------------------------
(***************************************************************************)
(* Theorems about what else the Agent does to its VPS: its upgrade         *)
(* (AgentUpgrade), for every number of upgrades, requests and failures,    *)
(* and the firewalls (HostFirewall), for every set of ports and every      *)
(* number of runs, failures, crashes and reboots.                          *)
(***************************************************************************)
EXTENDS AgentUpgrade, HostFirewall, SequenceTheorems, FiniteSetTheorems, WellFoundedInduction,
        TLAPS

Stages == {"free", "preparing", "refused", "copy", "replace", "restart", "undo", "restore",
           "failed"}

UpgradeType ==
  /\ panelVersion \in Nat /\ agentVersion \in Nat /\ target \in Nat
  /\ status \in {"none", "upgrading", "failed"}
  /\ handler \in [Handlers -> Nat]
  /\ joining \in Nat /\ conn \in Nat /\ alive \in BOOLEAN
  /\ running \in Nat /\ binary \in Nat /\ inbox \in Nat /\ busy \in BOOLEAN
  /\ upgrade \in [Upgrades -> [at : Stages, to : Nat, saved : Nat, mine : BOOLEAN]]
  /\ best \in Nat \ {0} /\ overlap \in BOOLEAN

(***************************************************************************)
(* What the Panel records about a connection is what runs at its other     *)
(* end, so that confirming the target and showing it as upgrading exclude  *)
(* each other.                                                             *)
(***************************************************************************)
RecordInv ==
  /\ alive => conn = agentVersion /\ conn = running /\ running # 0
  /\ joining # 0 => agentVersion = joining
  /\ inbox # 0 => alive
  /\ status # "none" => target # 0 /\ agentVersion # target

(***************************************************************************)
(* One upgrade on the VPS: what is on disk, what runs and what was saved,  *)
(* stage by stage.                                                         *)
(***************************************************************************)
Under(j) == upgrade[j].at # "free"

DiskInv ==
  /\ best <= binary /\ running <= binary
  /\ running # 0 => best <= running

StageInv(j) ==
  LET u == upgrade[j] IN
  /\ u.at \in {"preparing", "refused", "copy", "replace", "restart"} => running # 0
  /\ u.at \in {"preparing", "refused", "copy"} => u.saved = 0
  /\ u.at \in {"copy", "replace", "restart", "undo", "restore"} => running < u.to
  /\ u.at \in {"restart", "undo"} => binary = u.to
  /\ u.at \in {"replace", "restart", "undo", "restore"} => u.saved # 0
  /\ u.saved # 0 => best <= u.saved /\ running <= u.saved
  /\ u.at \in {"replace", "restore", "failed"} /\ u.saved # 0 => binary = u.saved
  /\ u.at = "failed" /\ u.saved # 0 /\ running = u.to => u.saved = u.to
  /\ u.at # "free" => u.to # 0

HelperInv ==
  ~overlap =>
    /\ \A i, j \in Upgrades : Under(i) /\ Under(j) => i = j
    /\ DiskInv
    /\ \A j \in Upgrades : Under(j) => StageInv(j)

UpgradeInv == UpgradeType /\ RecordInv /\ HelperInv

-----------------------------------------------------------------------------
\* Release 1 is installed, runs and is connected.
LEMMA InitUpgrade == UpgradeInit => UpgradeInv
<1> SUFFICES ASSUME UpgradeInit PROVE UpgradeInv
  OBVIOUS
<1> USE DEF UpgradeInit
<1>1. UpgradeType
  <2>1. NoUpgrade \in [at : Stages, to : Nat, saved : Nat, mine : BOOLEAN]
    BY DEF NoUpgrade, Stages
  <2>2. upgrade \in [Upgrades -> [at : Stages, to : Nat, saved : Nat, mine : BOOLEAN]]
    BY <2>1
  <2>3. alive \in BOOLEAN /\ busy \in BOOLEAN /\ overlap \in BOOLEAN
    OBVIOUS
  <2> QED
    BY <2>2, <2>3 DEF UpgradeType
<1>2. RecordInv
  BY DEF RecordInv
<1>3. HelperInv
  BY DEF HelperInv, DiskInv, Under, NoUpgrade
<1> QED
  BY <1>1, <1>2, <1>3 DEF UpgradeInv

\* The records that steps write are well typed.
LEMMA RecordTypes ==
  ASSUME UpgradeType
  PROVE  /\ NoUpgrade \in [at : Stages, to : Nat, saved : Nat, mine : BOOLEAN]
         /\ \A j \in Upgrades : upgrade[j].to \in Nat /\ upgrade[j].saved \in Nat
         /\ Disowned(upgrade) \in [Upgrades -> [at : Stages, to : Nat, saved : Nat, mine : BOOLEAN]]
  BY DEF UpgradeType, NoUpgrade, Stages, Disowned

\* So is what the end of a process leaves of a table of upgrades.
LEMMA KilledType ==
  ASSUME NEW f \in [Upgrades -> [at : Stages, to : Nat, saved : Nat, mine : BOOLEAN]]
  PROVE  Killed(f) \in [Upgrades -> [at : Stages, to : Nat, saved : Nat, mine : BOOLEAN]]
<1>1. NoUpgrade \in [at : Stages, to : Nat, saved : Nat, mine : BOOLEAN]
  BY DEF NoUpgrade, Stages
<1> QED
  BY <1>1 DEF Killed

\* Every step keeps the types.
LEMMA NextType == UpgradeType /\ [UpgradeNext]_upgradeVars => UpgradeType'
<1> SUFFICES ASSUME UpgradeType, [UpgradeNext]_upgradeVars PROVE UpgradeType'
  OBVIOUS
<1> DEFINE Table == [Upgrades -> [at : Stages, to : Nat, saved : Nat, mine : BOOLEAN]]
<1> USE DEF rowVars, connVars, agentVars, history, Failure, Loss
<1>0. UpgradeType
  OBVIOUS
<1>1. CASE UpgradePanel
  <2>1. upgrade' \in Table
    BY <1>1, RecordTypes DEF UpgradePanel, Disowned
  <2>2. panelVersion' \in Nat
    BY <1>1 DEF UpgradePanel, UpgradeType
  <2> QED
    BY <1>1, <2>1, <2>2 DEF UpgradePanel, UpgradeType
<1>2. ASSUME NEW h \in Handlers, PrepareAgentUpgrade(h) PROVE UpgradeType'
  BY <1>2 DEF PrepareAgentUpgrade, UpgradeType
<1>3. ASSUME NEW h \in Handlers, NotifyAgentUpgrade(h) PROVE UpgradeType'
  <2>1. handler' \in [Handlers -> Nat] /\ inbox' \in Nat
    BY <1>3 DEF NotifyAgentUpgrade, UpgradeType
  <2>2. agentVersion' \in Nat /\ target' \in Nat /\ status' \in {"none", "upgrading", "failed"}
    BY <1>3 DEF NotifyAgentUpgrade, NoteFailure, UpgradeType
  <2> QED
    BY <1>3, <2>1, <2>2 DEF NotifyAgentUpgrade, UpgradeType
<1>4. CASE SetAgentConnected
  BY <1>4 DEF SetAgentConnected, UpgradeType
<1>5. CASE TrackConnection
  BY <1>5 DEF TrackConnection, UpgradeType
<1>6. CASE Disconnect
  BY <1>6 DEF Disconnect, UpgradeType
<1>7. CASE ConnectionLost
  <2>1. upgrade' \in Table
    BY <1>7, RecordTypes DEF ConnectionLost
  <2> QED
    BY <1>7, <2>1 DEF ConnectionLost, UpgradeType
<1>8. CASE IgnoreRequest
  BY <1>8 DEF IgnoreRequest, UpgradeType
<1>9. CASE ServiceManager
  BY <1>9 DEF ServiceManager, UpgradeType
<1>10. CASE RebootVps
  <2>1. upgrade' \in Table
    BY <1>10, RecordTypes DEF RebootVps
  <2> QED
    BY <1>10, <2>1 DEF RebootVps, ProcessEnds, UpgradeType
<1>11. ASSUME NEW j \in Upgrades, StartUpgrade(j) PROVE UpgradeType'
  <2>1. upgrade' \in Table
    BY <1>11 DEF StartUpgrade, UpgradeType, Stages
  <2> QED
    BY <1>11, <2>1 DEF StartUpgrade, UpgradeType
<1>12. ASSUME NEW j \in Upgrades,
              PrepareSucceeds(j) \/ PrepareFails(j) \/ ReportFailure(j) \/ ReportLost(j)
       PROVE  UpgradeType'
  <2>1. upgrade' \in Table
    BY <1>12, RecordTypes DEF PrepareSucceeds, PrepareFails, ReportFailure, ReportLost,
       UpgradeType, Stages
  <2>2. agentVersion' \in Nat /\ target' \in Nat /\ status' \in {"none", "upgrading", "failed"}
    BY <1>12 DEF PrepareSucceeds, PrepareFails, ReportFailure, ReportLost, NoteFailure,
       UpgradeType
  <2>3. busy' \in BOOLEAN
    BY <1>12 DEF PrepareSucceeds, PrepareFails, ReportFailure, ReportLost, Finished, UpgradeType
  <2> QED
    BY <1>12, <2>1, <2>2, <2>3 DEF PrepareSucceeds, PrepareFails, ReportFailure, ReportLost,
       UpgradeType
<1>13. ASSUME NEW j \in Upgrades, CopyBinary(j) \/ ReplaceFails(j) \/ NotRestarted(j)
                                  \/ RollbackFails(j)
       PROVE  UpgradeType'
  <2>1. upgrade' \in Table
    BY <1>13 DEF CopyBinary, ReplaceFails, NotRestarted, RollbackFails, Goto, UpgradeType, Stages
  <2> QED
    BY <1>13, <2>1 DEF CopyBinary, ReplaceFails, NotRestarted, RollbackFails, UpgradeType
<1>14. ASSUME NEW j \in Upgrades, ReplaceBinary(j) \/ RollbackBinary(j) PROVE UpgradeType'
  <2>1. upgrade' \in Table /\ binary' \in Nat
    BY <1>14 DEF ReplaceBinary, RollbackBinary, RestoredBinary, Goto, UpgradeType, Stages
  <2> QED
    BY <1>14, <2>1 DEF ReplaceBinary, RollbackBinary, UpgradeType
<1>15. ASSUME NEW j \in Upgrades, RestartService(j) \/ RestartFails(j) PROVE UpgradeType'
  <2>1. PICK f \in Table : upgrade' = Killed(f)
    <3>1. CASE RestartService(j)
      <4> DEFINE f == [upgrade EXCEPT ![j] = IF upgrade[j].at = "restart" THEN NoUpgrade
                                             ELSE [@ EXCEPT !.at = "failed"]]
      <4>1. f \in Table
        BY RecordTypes DEF UpgradeType, Stages
      <4> QED
        BY <3>1, <4>1 DEF RestartService
    <3>2. CASE RestartFails(j)
      <4> DEFINE f == [upgrade EXCEPT ![j].at = IF upgrade[j].at = "restart" THEN "undo"
                                                ELSE "failed"]
      <4>1. f \in Table
        BY DEF UpgradeType, Stages
      <4> QED
        BY <3>2, <4>1 DEF RestartFails
    <3> QED
      BY <1>15, <3>1, <3>2
  <2>2. upgrade' \in Table
    BY <2>1, KilledType
  <2>3. running' \in Nat
    BY <1>15 DEF RestartService, RestartFails, UpgradeType
  <2>4. alive' = FALSE /\ busy' = FALSE /\ inbox' = 0
    BY <1>15 DEF RestartService, RestartFails, ProcessEnds
  <2>5. UNCHANGED <<panelVersion, agentVersion, target, status, handler, joining, conn, binary,
                    best, overlap>>
    BY <1>15 DEF RestartService, RestartFails, ProcessEnds
  <2> QED
    BY <2>2, <2>3, <2>4, <2>5 DEF UpgradeType
<1>16. CASE UNCHANGED upgradeVars
  BY <1>16 DEF upgradeVars, UpgradeType
<1> QED
  BY <1>1, <1>2, <1>3, <1>4, <1>5, <1>6, <1>7, <1>8, <1>9, <1>10, <1>11, <1>12, <1>13,
     <1>14, <1>15, <1>16
  DEF UpgradeNext, PanelStep, AgentStep

-----------------------------------------------------------------------------
\* Every step keeps the Panel's record and the Agent's connection in line.
LEMMA NextRecord == UpgradeType /\ RecordInv /\ [UpgradeNext]_upgradeVars => RecordInv'
<1> SUFFICES ASSUME UpgradeType, RecordInv, [UpgradeNext]_upgradeVars PROVE RecordInv'
  OBVIOUS
<1> USE DEF UpgradeType, RecordInv, rowVars, connVars, agentVars
<1>1. CASE UpgradePanel
  BY <1>1 DEF UpgradePanel
<1>2. ASSUME NEW h \in Handlers, PrepareAgentUpgrade(h) PROVE RecordInv'
  BY <1>2 DEF PrepareAgentUpgrade, MayUpgrade
<1>3. ASSUME NEW h \in Handlers, NotifyAgentUpgrade(h) PROVE RecordInv'
  <2>1. agentVersion' = agentVersion /\ target' = target /\ (status' # "none" => status # "none")
    BY <1>3 DEF NotifyAgentUpgrade, NoteFailure, FailsOpen
  <2>2. inbox' # 0 => alive
    BY <1>3 DEF NotifyAgentUpgrade
  <2> QED
    BY <1>3, <2>1, <2>2 DEF NotifyAgentUpgrade
<1>4. CASE SetAgentConnected
  BY <1>4 DEF SetAgentConnected, Confirms
<1>5. CASE TrackConnection
  BY <1>5 DEF TrackConnection
<1>6. CASE Disconnect
  BY <1>6 DEF Disconnect
<1>7. CASE ConnectionLost
  BY <1>7 DEF ConnectionLost
<1>8. CASE IgnoreRequest
  BY <1>8 DEF IgnoreRequest
<1>9. CASE ServiceManager
  BY <1>9 DEF ServiceManager
<1>10. CASE RebootVps
  BY <1>10 DEF RebootVps, ProcessEnds
<1>11. ASSUME NEW j \in Upgrades, StartUpgrade(j) PROVE RecordInv'
  BY <1>11 DEF StartUpgrade
<1>12. ASSUME NEW j \in Upgrades, ReportFailure(j) PROVE RecordInv'
  BY <1>12 DEF ReportFailure, NoteFailure, FailsOpen
<1>13. ASSUME NEW j \in Upgrades, PrepareSucceeds(j) \/ PrepareFails(j) \/ ReportLost(j)
                                  \/ CopyBinary(j) \/ ReplaceBinary(j) \/ ReplaceFails(j)
                                  \/ NotRestarted(j) \/ RollbackBinary(j) \/ RollbackFails(j)
       PROVE  RecordInv'
  BY <1>13 DEF PrepareSucceeds, PrepareFails, ReportLost, CopyBinary, ReplaceBinary,
     ReplaceFails, NotRestarted, RollbackBinary, RollbackFails
<1>14. ASSUME NEW j \in Upgrades, RestartService(j) \/ RestartFails(j) PROVE RecordInv'
  BY <1>14 DEF RestartService, RestartFails, ProcessEnds
<1>15. CASE UNCHANGED upgradeVars
  BY <1>15 DEF upgradeVars
<1> QED
  BY <1>1, <1>2, <1>3, <1>4, <1>5, <1>6, <1>7, <1>8, <1>9, <1>10, <1>11, <1>12, <1>13,
     <1>14, <1>15
  DEF UpgradeNext, PanelStep, AgentStep

-----------------------------------------------------------------------------
\* Steps that touch neither the VPS nor the progress of an upgrade.
LEMMA KeepStages ==
  ASSUME UpgradeType, HelperInv, UNCHANGED <<running, binary, best, overlap>>,
         \A j \in Upgrades : /\ upgrade'[j].at = upgrade[j].at
                             /\ upgrade'[j].to = upgrade[j].to
                             /\ upgrade'[j].saved = upgrade[j].saved
  PROVE  HelperInv'
  BY DEF HelperInv, DiskInv, StageInv, Under

\* A step of the only upgrade.
LEMMA OneStage ==
  ASSUME UpgradeType, HelperInv, ~overlap, NEW j \in Upgrades,
         \A i \in Upgrades : i # j => upgrade'[i].at = "free",
         DiskInv', Under(j)' => StageInv(j)'
  PROVE  HelperInv'
  BY DEF HelperInv, Under

\* What the invariant says of the only upgrade.
LEMMA Alone ==
  ASSUME HelperInv, ~overlap, NEW j \in Upgrades, Under(j)
  PROVE  DiskInv /\ StageInv(j) /\ \A i \in Upgrades : i # j => upgrade[i].at = "free"
  BY DEF HelperInv, Under

\* The arithmetic of one upgrade is about natural numbers.
LEMMA StageTypes ==
  ASSUME UpgradeType, NEW j \in Upgrades
  PROVE  /\ running \in Nat /\ binary \in Nat /\ best \in Nat /\ best # 0
         /\ upgrade[j].to \in Nat /\ upgrade[j].saved \in Nat
  BY DEF UpgradeType

\* The end of the process does not touch what the helpers are doing.
LEMMA KilledStages ==
  ASSUME NEW f \in [Upgrades -> [at : Stages, to : Nat, saved : Nat, mine : BOOLEAN]],
         NEW j \in Upgrades
  PROVE  /\ f[j].at = "free" => Killed(f)[j].at = "free"
         /\ f[j].at \notin AgentStages => /\ Killed(f)[j].at = f[j].at
                                         /\ Killed(f)[j].to = f[j].to
                                         /\ Killed(f)[j].saved = f[j].saved
  BY DEF Killed, NoUpgrade

\* Every step of an upgrade that is alone leaves disk, process and copy in order.
LEMMA NextHelper == UpgradeInv /\ [UpgradeNext]_upgradeVars => HelperInv'
<1> SUFFICES ASSUME UpgradeInv, [UpgradeNext]_upgradeVars PROVE HelperInv'
  OBVIOUS
<1>0. UpgradeType /\ RecordInv /\ HelperInv
  BY DEF UpgradeInv
<1> USE DEF rowVars, connVars, agentVars, history
<1>1. CASE UNCHANGED <<running, binary, best, overlap, upgrade>>
  BY <1>0, <1>1, KeepStages
<1>2. CASE UpgradePanel \/ ConnectionLost
  <2>1. UNCHANGED <<running, binary, best, overlap>> /\ upgrade' = Disowned(upgrade)
    BY <1>2 DEF UpgradePanel, ConnectionLost, Disowned
  <2>2. \A j \in Upgrades : /\ upgrade'[j].at = upgrade[j].at
                            /\ upgrade'[j].to = upgrade[j].to
                            /\ upgrade'[j].saved = upgrade[j].saved
    BY <1>0, <2>1 DEF Disowned, UpgradeType
  <2> QED
    BY <1>0, <2>1, <2>2, KeepStages
<1>3. ASSUME NEW h \in Handlers, PrepareAgentUpgrade(h) \/ NotifyAgentUpgrade(h)
      PROVE  HelperInv'
  BY <1>1, <1>3 DEF PrepareAgentUpgrade, NotifyAgentUpgrade
<1>4. CASE TrackConnection \/ Disconnect \/ IgnoreRequest \/ UNCHANGED upgradeVars
  BY <1>1, <1>4 DEF TrackConnection, Disconnect, IgnoreRequest, upgradeVars
\* From here on the upgrade is alone.
<1> SUFFICES ASSUME ~overlap' PROVE HelperInv'
  BY DEF HelperInv
<1>5. CASE SetAgentConnected
  <2>0. /\ UNCHANGED <<running, binary, overlap, upgrade>> /\ running # 0
        /\ best' = IF running > best THEN running ELSE best
    BY <1>5 DEF SetAgentConnected
  <2>1. DiskInv'
    BY <1>0, <2>0 DEF HelperInv, DiskInv, UpgradeType
  <2>2. \A j \in Upgrades : Under(j)' => StageInv(j)'
    <3> SUFFICES ASSUME NEW j \in Upgrades, Under(j) PROVE StageInv(j)'
      BY <2>0 DEF Under
    <3>1. StageInv(j)
      BY <1>0, <2>0 DEF HelperInv
    <3> QED
      BY <1>0, <2>0, <3>1, StageTypes DEF StageInv
  <2>3. \A i, j \in Upgrades : Under(i)' /\ Under(j)' => i = j
    BY <1>0, <2>0 DEF HelperInv, Under
  <2> QED
    BY <2>1, <2>2, <2>3 DEF HelperInv
<1>6. CASE ServiceManager
  <2>0. /\ UNCHANGED <<best, binary, overlap, upgrade>> /\ running = 0 /\ running' = binary
        /\ \A j \in Upgrades : upgrade[j].at \notin {"undo", "restore"}
    BY <1>6 DEF ServiceManager
  <2>1. DiskInv'
    BY <1>0, <2>0 DEF HelperInv, DiskInv, UpgradeType
  <2>2. \A j \in Upgrades : Under(j)' => StageInv(j)'
    <3> SUFFICES ASSUME NEW j \in Upgrades, Under(j) PROVE StageInv(j)'
      BY <2>0 DEF Under
    <3>1. StageInv(j)
      BY <1>0, <2>0 DEF HelperInv
    <3>2. upgrade[j].at \in Stages \ {"free"}
      BY <1>0 DEF UpgradeType, Under
    <3>3. upgrade[j].at = "failed"
      BY <2>0, <3>1, <3>2 DEF StageInv, Stages
    <3> QED
      BY <1>0, <2>0, <3>1, <3>3, StageTypes DEF StageInv
  <2>3. \A i, j \in Upgrades : Under(i)' /\ Under(j)' => i = j
    BY <1>0, <2>0 DEF HelperInv, Under
  <2> QED
    BY <2>1, <2>2, <2>3 DEF HelperInv
<1>7. CASE RebootVps
  <2>0. /\ UNCHANGED <<best, binary, overlap>> /\ running' = binary
        /\ upgrade' = [j \in Upgrades |-> NoUpgrade]
    BY <1>7 DEF RebootVps
  <2>1. DiskInv'
    BY <1>0, <2>0 DEF HelperInv, DiskInv, UpgradeType
  <2>2. \A j \in Upgrades : ~Under(j)'
    BY <2>0 DEF Under, NoUpgrade
  <2> QED
    BY <2>1, <2>2 DEF HelperInv
<1>8. ASSUME NEW j \in Upgrades, StartUpgrade(j) PROVE HelperInv'
  <2>0. /\ UNCHANGED <<running, binary, best>> /\ ~overlap
        /\ \A i \in Upgrades : upgrade[i] = NoUpgrade
    BY <1>8 DEF StartUpgrade
  <2>1. upgrade'[j] = [at |-> "preparing", to |-> inbox, saved |-> 0, mine |-> TRUE]
    BY <1>0, <1>8 DEF StartUpgrade, UpgradeType
  <2>2. \A i \in Upgrades : i # j => upgrade'[i].at = "free"
    BY <1>0, <1>8, <2>0 DEF StartUpgrade, UpgradeType, NoUpgrade
  <2>3. DiskInv'
    BY <1>0, <2>0 DEF HelperInv, DiskInv
  <2>4. inbox # 0 /\ running # 0
    BY <1>0, <1>8 DEF StartUpgrade, RecordInv
  <2>5. StageInv(j)'
    BY <2>0, <2>1, <2>4 DEF StageInv
  <2> QED
    BY <1>0, <2>0, <2>2, <2>3, <2>5, OneStage
<1>9. ASSUME NEW j \in Upgrades, PrepareSucceeds(j) PROVE HelperInv'
  <2>0. ~overlap /\ Under(j)
    BY <1>9 DEF PrepareSucceeds, Under
  <2>1. DiskInv /\ StageInv(j) /\ \A i \in Upgrades : i # j => upgrade[i].at = "free"
    BY <1>0, <2>0, Alone
  <2>2. /\ UNCHANGED <<running, binary, best>> /\ upgrade[j].at = "preparing"
        /\ upgrade'[j].at = "copy" /\ running < upgrade[j].to
        /\ upgrade'[j].to = upgrade[j].to /\ upgrade'[j].saved = upgrade[j].saved
    BY <1>0, <1>9 DEF PrepareSucceeds, UpgradeType
  <2>3. \A i \in Upgrades : i # j => upgrade'[i].at = "free"
    BY <1>0, <1>9, <2>1 DEF PrepareSucceeds, UpgradeType
  <2>4. DiskInv'
    BY <1>0, <2>1, <2>2, StageTypes DEF DiskInv, StageInv
  <2>5. Under(j)' => StageInv(j)'
    BY <1>0, <2>0, <2>1, <2>2, StageTypes DEF DiskInv, StageInv, Under
  <2> QED
    BY <1>0, <2>0, <2>3, <2>4, <2>5, OneStage
<1>10. ASSUME NEW j \in Upgrades, PrepareFails(j) PROVE HelperInv'
  <2>0. ~overlap /\ Under(j)
    BY <1>10 DEF PrepareFails, Under
  <2>1. DiskInv /\ StageInv(j) /\ \A i \in Upgrades : i # j => upgrade[i].at = "free"
    BY <1>0, <2>0, Alone
  <2>2. /\ UNCHANGED <<running, binary, best>> /\ upgrade[j].at = "preparing"
        /\ upgrade'[j].at = "refused"
        /\ upgrade'[j].to = upgrade[j].to /\ upgrade'[j].saved = upgrade[j].saved
    BY <1>0, <1>10 DEF PrepareFails, UpgradeType
  <2>3. \A i \in Upgrades : i # j => upgrade'[i].at = "free"
    BY <1>0, <1>10, <2>1 DEF PrepareFails, UpgradeType
  <2>4. DiskInv'
    BY <1>0, <2>1, <2>2, StageTypes DEF DiskInv, StageInv
  <2>5. Under(j)' => StageInv(j)'
    BY <1>0, <2>0, <2>1, <2>2, StageTypes DEF DiskInv, StageInv, Under
  <2> QED
    BY <1>0, <2>0, <2>3, <2>4, <2>5, OneStage
<1>11. ASSUME NEW j \in Upgrades, ReportFailure(j) \/ ReportLost(j) PROVE HelperInv'
  <2>0. ~overlap /\ Under(j)
    BY <1>11 DEF ReportFailure, ReportLost, NoUpgrade, Under
  <2>1. DiskInv /\ StageInv(j) /\ \A i \in Upgrades : i # j => upgrade[i].at = "free"
    BY <1>0, <2>0, Alone
  <2>2. UNCHANGED <<running, binary, best>> /\ upgrade'[j].at = "free"
    BY <1>0, <1>11 DEF ReportFailure, ReportLost, NoUpgrade, UpgradeType
  <2>3. \A i \in Upgrades : i # j => upgrade'[i].at = "free"
    BY <1>0, <1>11, <2>1 DEF ReportFailure, ReportLost, NoUpgrade, UpgradeType
  <2>4. DiskInv'
    BY <1>0, <2>1, <2>2, StageTypes DEF DiskInv, StageInv
  <2>5. Under(j)' => StageInv(j)'
    BY <1>0, <2>0, <2>1, <2>2, StageTypes DEF DiskInv, StageInv, Under
  <2> QED
    BY <1>0, <2>0, <2>3, <2>4, <2>5, OneStage
<1>12. ASSUME NEW j \in Upgrades, CopyBinary(j) PROVE HelperInv'
  <2>0. ~overlap /\ Under(j)
    BY <1>12 DEF CopyBinary, Under
  <2>1. DiskInv /\ StageInv(j) /\ \A i \in Upgrades : i # j => upgrade[i].at = "free"
    BY <1>0, <2>0, Alone
  <2>2. /\ UNCHANGED <<running, binary, best>> /\ upgrade[j].at = "copy"
        /\ upgrade'[j].at = "replace" /\ upgrade'[j].to = upgrade[j].to
        /\ upgrade'[j].saved = binary
    BY <1>0, <1>12 DEF CopyBinary, UpgradeType
  <2>3. \A i \in Upgrades : i # j => upgrade'[i].at = "free"
    BY <1>0, <1>12, <2>1 DEF CopyBinary, UpgradeType
  <2>4. DiskInv'
    BY <1>0, <2>1, <2>2, StageTypes DEF DiskInv, StageInv
  <2>5. Under(j)' => StageInv(j)'
    BY <1>0, <2>0, <2>1, <2>2, StageTypes DEF DiskInv, StageInv, Under
  <2> QED
    BY <1>0, <2>0, <2>3, <2>4, <2>5, OneStage
<1>13. ASSUME NEW j \in Upgrades, ReplaceBinary(j) PROVE HelperInv'
  <2>0. ~overlap /\ Under(j)
    BY <1>13 DEF ReplaceBinary, Goto, Under
  <2>1. DiskInv /\ StageInv(j) /\ \A i \in Upgrades : i # j => upgrade[i].at = "free"
    BY <1>0, <2>0, Alone
  <2>2. /\ UNCHANGED <<running, best>> /\ binary' = upgrade[j].to
        /\ upgrade[j].at = "replace" /\ upgrade'[j].at = "restart"
        /\ upgrade'[j].to = upgrade[j].to /\ upgrade'[j].saved = upgrade[j].saved
    BY <1>0, <1>13 DEF ReplaceBinary, Goto, UpgradeType
  <2>3. \A i \in Upgrades : i # j => upgrade'[i].at = "free"
    BY <1>0, <1>13, <2>1 DEF ReplaceBinary, Goto, UpgradeType
  <2>4. DiskInv'
    BY <1>0, <2>1, <2>2, StageTypes DEF DiskInv, StageInv
  <2>5. Under(j)' => StageInv(j)'
    BY <1>0, <2>0, <2>1, <2>2, StageTypes DEF DiskInv, StageInv, Under
  <2> QED
    BY <1>0, <2>0, <2>3, <2>4, <2>5, OneStage
<1>14. ASSUME NEW j \in Upgrades, ReplaceFails(j) PROVE HelperInv'
  <2>0. ~overlap /\ Under(j)
    BY <1>14 DEF ReplaceFails, Goto, Under
  <2>1. DiskInv /\ StageInv(j) /\ \A i \in Upgrades : i # j => upgrade[i].at = "free"
    BY <1>0, <2>0, Alone
  <2>2. /\ UNCHANGED <<running, binary, best>> /\ upgrade[j].at \in {"copy", "replace"}
        /\ upgrade'[j].at = "failed"
        /\ upgrade'[j].to = upgrade[j].to /\ upgrade'[j].saved = upgrade[j].saved
    BY <1>0, <1>14 DEF ReplaceFails, Goto, UpgradeType
  <2>3. \A i \in Upgrades : i # j => upgrade'[i].at = "free"
    BY <1>0, <1>14, <2>1 DEF ReplaceFails, Goto, UpgradeType
  <2>4. DiskInv'
    BY <1>0, <2>1, <2>2, StageTypes DEF DiskInv, StageInv
  <2>5. Under(j)' => StageInv(j)'
    BY <1>0, <2>0, <2>1, <2>2, StageTypes DEF DiskInv, StageInv, Under
  <2> QED
    BY <1>0, <2>0, <2>3, <2>4, <2>5, OneStage
<1>15. ASSUME NEW j \in Upgrades, NotRestarted(j) PROVE HelperInv'
  <2>0. ~overlap /\ Under(j)
    BY <1>15 DEF NotRestarted, Goto, Under
  <2>1. DiskInv /\ StageInv(j) /\ \A i \in Upgrades : i # j => upgrade[i].at = "free"
    BY <1>0, <2>0, Alone
  <2>2. /\ UNCHANGED <<running, binary, best>>
        /\ \/ upgrade[j].at = "restart" /\ upgrade'[j].at = "undo"
           \/ upgrade[j].at = "restore" /\ upgrade'[j].at = "failed"
        /\ upgrade'[j].to = upgrade[j].to /\ upgrade'[j].saved = upgrade[j].saved
    BY <1>0, <1>15 DEF NotRestarted, Goto, UpgradeType
  <2>3. \A i \in Upgrades : i # j => upgrade'[i].at = "free"
    BY <1>0, <1>15, <2>1 DEF NotRestarted, Goto, UpgradeType
  <2>4. DiskInv'
    BY <1>0, <2>1, <2>2, StageTypes DEF DiskInv, StageInv
  <2>5. Under(j)' => StageInv(j)'
    BY <1>0, <2>0, <2>1, <2>2, StageTypes DEF DiskInv, StageInv, Under
  <2> QED
    BY <1>0, <2>0, <2>3, <2>4, <2>5, OneStage
<1>16. ASSUME NEW j \in Upgrades, RollbackBinary(j) PROVE HelperInv'
  <2>0. ~overlap /\ Under(j)
    BY <1>16 DEF RollbackBinary, RestoredBinary, Goto, Under
  <2>1. DiskInv /\ StageInv(j) /\ \A i \in Upgrades : i # j => upgrade[i].at = "free"
    BY <1>0, <2>0, Alone
  <2>2. /\ UNCHANGED <<running, best>> /\ binary' = upgrade[j].saved
        /\ upgrade[j].at = "undo" /\ upgrade'[j].at = "restore"
        /\ upgrade'[j].to = upgrade[j].to /\ upgrade'[j].saved = upgrade[j].saved
    BY <1>0, <1>16 DEF RollbackBinary, RestoredBinary, Goto, UpgradeType
  <2>3. \A i \in Upgrades : i # j => upgrade'[i].at = "free"
    BY <1>0, <1>16, <2>1 DEF RollbackBinary, RestoredBinary, Goto, UpgradeType
  <2>4. DiskInv'
    BY <1>0, <2>1, <2>2, StageTypes DEF DiskInv, StageInv
  <2>5. Under(j)' => StageInv(j)'
    BY <1>0, <2>0, <2>1, <2>2, StageTypes DEF DiskInv, StageInv, Under
  <2> QED
    BY <1>0, <2>0, <2>3, <2>4, <2>5, OneStage
<1>17. ASSUME NEW j \in Upgrades, RollbackFails(j) PROVE HelperInv'
  <2>0. ~overlap /\ Under(j)
    BY <1>17 DEF RollbackFails, Under
  <2>1. DiskInv /\ StageInv(j) /\ \A i \in Upgrades : i # j => upgrade[i].at = "free"
    BY <1>0, <2>0, Alone
  <2>2. /\ UNCHANGED <<running, binary, best>> /\ upgrade[j].at = "undo"
        /\ upgrade'[j].at = "failed" /\ upgrade'[j].to = upgrade[j].to
        /\ upgrade'[j].saved = 0
    BY <1>0, <1>17 DEF RollbackFails, UpgradeType
  <2>3. \A i \in Upgrades : i # j => upgrade'[i].at = "free"
    BY <1>0, <1>17, <2>1 DEF RollbackFails, UpgradeType
  <2>4. DiskInv'
    BY <1>0, <2>1, <2>2, StageTypes DEF DiskInv, StageInv
  <2>5. Under(j)' => StageInv(j)'
    BY <1>0, <2>0, <2>1, <2>2, StageTypes DEF DiskInv, StageInv, Under
  <2> QED
    BY <1>0, <2>0, <2>3, <2>4, <2>5, OneStage
<1>18. ASSUME NEW j \in Upgrades, RestartService(j) PROVE HelperInv'
  <2>0. ~overlap /\ Under(j) /\ upgrade[j].at \in {"restart", "restore"}
    BY <1>18 DEF RestartService, Under
  <2>1. DiskInv /\ StageInv(j) /\ \A i \in Upgrades : i # j => upgrade[i].at = "free"
    BY <1>0, <2>0, Alone
  <2>2. UNCHANGED <<binary, best>> /\ running' = binary
    BY <1>18 DEF RestartService
  <2> DEFINE f == [upgrade EXCEPT ![j] = IF upgrade[j].at = "restart" THEN NoUpgrade
                                         ELSE [@ EXCEPT !.at = "failed"]]
  <2>3. /\ f \in [Upgrades -> [at : Stages, to : Nat, saved : Nat, mine : BOOLEAN]]
        /\ \A i \in Upgrades : i # j => f[i] = upgrade[i]
        /\ f[j] = IF upgrade[j].at = "restart" THEN NoUpgrade
                  ELSE [upgrade[j] EXCEPT !.at = "failed"]
    BY <1>0, RecordTypes DEF UpgradeType, Stages
  <2>4. upgrade' = Killed(f)
    BY <1>18 DEF RestartService
  <2> HIDE DEF f
  <2>5. \A i \in Upgrades : i # j => upgrade'[i].at = "free"
    BY <2>1, <2>3, <2>4, KilledStages
  <2>6. \/ upgrade[j].at = "restart" /\ upgrade'[j].at = "free"
        \/ /\ upgrade[j].at = "restore" /\ upgrade'[j].at = "failed"
           /\ upgrade'[j].to = upgrade[j].to /\ upgrade'[j].saved = upgrade[j].saved
    <3>1. CASE upgrade[j].at = "restart"
      BY <2>3, <2>4, <3>1, KilledStages DEF NoUpgrade
    <3>2. CASE upgrade[j].at = "restore"
      <4>1. f[j].at = "failed" /\ f[j].to = upgrade[j].to /\ f[j].saved = upgrade[j].saved
        BY <1>0, <2>3, <3>2 DEF UpgradeType
      <4> QED
        BY <2>3, <2>4, <3>2, <4>1, KilledStages DEF AgentStages
    <3> QED
      BY <2>0, <3>1, <3>2
  <2>7. DiskInv'
    BY <1>0, <2>1, <2>2, StageTypes DEF DiskInv
  <2>8. Under(j)' => StageInv(j)'
    BY <1>0, <2>1, <2>2, <2>6, StageTypes DEF DiskInv, StageInv, Under
  <2> QED
    BY <1>0, <2>0, <2>5, <2>7, <2>8, OneStage
<1>19. ASSUME NEW j \in Upgrades, RestartFails(j) PROVE HelperInv'
  <2>0. ~overlap /\ Under(j) /\ upgrade[j].at \in {"restart", "restore"}
    BY <1>19 DEF RestartFails, Under
  <2>1. DiskInv /\ StageInv(j) /\ \A i \in Upgrades : i # j => upgrade[i].at = "free"
    BY <1>0, <2>0, Alone
  <2>2. UNCHANGED <<binary, best>> /\ running' = 0
    BY <1>19 DEF RestartFails
  <2> DEFINE f == [upgrade EXCEPT ![j].at = IF upgrade[j].at = "restart" THEN "undo" ELSE "failed"]
  <2>3. /\ f \in [Upgrades -> [at : Stages, to : Nat, saved : Nat, mine : BOOLEAN]]
        /\ \A i \in Upgrades : i # j => f[i] = upgrade[i]
        /\ f[j].to = upgrade[j].to /\ f[j].saved = upgrade[j].saved
        /\ f[j].at = IF upgrade[j].at = "restart" THEN "undo" ELSE "failed"
    BY <1>0 DEF UpgradeType, Stages
  <2>4. upgrade' = Killed(f)
    BY <1>19 DEF RestartFails
  <2> HIDE DEF f
  <2>5. \A i \in Upgrades : i # j => upgrade'[i].at = "free"
    BY <2>1, <2>3, <2>4, KilledStages
  <2>6. /\ upgrade'[j].at = IF upgrade[j].at = "restart" THEN "undo" ELSE "failed"
        /\ upgrade'[j].to = upgrade[j].to /\ upgrade'[j].saved = upgrade[j].saved
    BY <2>3, <2>4, KilledStages DEF AgentStages
  <2>7. DiskInv'
    BY <1>0, <2>1, <2>2, StageTypes DEF DiskInv
  <2>8. StageInv(j)'
    BY <1>0, <2>0, <2>1, <2>2, <2>6, StageTypes DEF DiskInv, StageInv
  <2> QED
    BY <1>0, <2>0, <2>5, <2>7, <2>8, OneStage
<1> QED
  BY <1>2, <1>3, <1>4, <1>5, <1>6, <1>7, <1>8, <1>9, <1>10, <1>11, <1>12, <1>13, <1>14,
     <1>15, <1>16, <1>17, <1>18, <1>19
  DEF UpgradeNext, PanelStep, AgentStep

\* The whole invariant, in every reachable state.
LEMMA UpgradeInvAlways == UpgradeSpec => []UpgradeInv
<1>1. UpgradeInv /\ [UpgradeNext]_upgradeVars => UpgradeInv'
  BY NextType, NextRecord, NextHelper DEF UpgradeInv
<1> QED
  BY <1>1, InitUpgrade, PTL DEF UpgradeSpec

(***************************************************************************)
(* setAgentConnected, PrepareAgentUpgrade and the two ways to note a       *)
(* failure never show an Agent of the target release as upgrading or       *)
(* failed, in whatever order requests, restarts and reports arrive.        *)
(***************************************************************************)
THEOREM ConnectedIsSettled == UpgradeSpec => []CurrentAgentIsSettled
<1>1. UpgradeInv => CurrentAgentIsSettled
  BY DEF UpgradeInv, RecordInv, CurrentAgentIsSettled
<1> QED
  BY <1>1, UpgradeInvAlways, PTL

(***************************************************************************)
(* applyStagedAgentUpgrade and its rollback never leave the service with a *)
(* release older than one that has connected, and a helper that failed and *)
(* kept its copy leaves the file it found; as long as upgrades do not run  *)
(* at the same time, whatever fails, restarts or reboots.                  *)
(***************************************************************************)
THEOREM UpgradeNeverDowngrades == UpgradeSpec => []FailedUpgradeUndone
<1>1. UpgradeInv => FailedUpgradeUndone
  <2> SUFFICES ASSUME UpgradeInv, running # 0, ~overlap
               PROVE  /\ running >= best
                      /\ \A j \in Upgrades : upgrade[j].at = "failed" /\ upgrade[j].saved # 0 =>
                           /\ binary = upgrade[j].saved
                           /\ running = upgrade[j].to => upgrade[j].saved = upgrade[j].to
    BY DEF FailedUpgradeUndone
  <2>1. running >= best
    BY DEF UpgradeInv, UpgradeType, HelperInv, DiskInv
  <2> QED
    BY <2>1 DEF UpgradeInv, HelperInv, Under, StageInv
<1> QED
  BY <1>1, UpgradeInvAlways, PTL

(***************************************************************************)
(* HostFirewall.  The invariant follows the commands that a run still has  *)
(* to do.                                                                  *)
(***************************************************************************)
Rule == [port : FwPorts \cup {22}, mine : BOOLEAN]

Kinds == {"add", "remove", "number", "table", "chain", "owner", "refuse", "drop"}
Setup == {"table", "chain", "owner"}

Cmd == Backends \X Kinds \X (FwPorts \cup Nat)

Elements(q) == {q[i] : i \in 1..Len(q)}

FwType ==
  /\ fwActive \in Backends \cup {"none"}
  /\ fwUfw \in [v4 : Seq(Rule), v6 : Seq(Rule)] /\ fwV6 \in BOOLEAN
  /\ fwDirect \in [firewalld : SUBSET FwPorts, iptables : SUBSET FwPorts]
  /\ fwTable \in {"none", "table", "chain", "owned"} /\ fwTableRules \subseteq FwPorts
  /\ fwWant \subseteq FwPorts /\ fwPurging \in BOOLEAN
  /\ fwTodo \in Seq(Cmd) /\ fwResult \in {"running", "ok", "error", "cut"}
  /\ fwFound \in [half : SUBSET FwPorts, moves : BOOLEAN]

(***************************************************************************)
(* The order of the commands: ufw's come first, their numbers go down, and *)
(* a table is set up and marked before a rule is added to it.              *)
(***************************************************************************)
Follows(c, d) ==
  /\ d[1] = "ufw" => c[1] = "ufw"
  /\ c[2] = "number" /\ d[2] = "number" => c[3] > d[3]
  /\ d[2] \in Setup => c[2] \in {"table", "chain"}

Ordered(q) == \A i, j \in 1..Len(q) : i < j => Follows(q[i], q[j])

\* A command of ufw is there in a run that goes on.  A number, as far as it is one of
\* an IPv4 rule, is that of a rule of ours, however the numbers move: what is added
\* comes after the IPv4 rules there were, and is ours as well.
UfwCommandsInv ==
  \A c \in Elements(fwTodo) :
    /\ c[2] = "number" => c[1] = "ufw"
    /\ c[1] = "ufw" => /\ fwResult = "running" /\ fwActive = "ufw"
                       /\ \/ /\ c[2] = "number" /\ c[3] \in Nat \ {0}
                             /\ c[3] \in 1..Len(fwUfw.v4) => fwUfw.v4[c[3]].mine
                          \/ c[2] = "add" /\ c[3] \in fwWant

\* Unless they move, a number is that of a stale rule, every stale rule has its number,
\* and while something is still to be added there is none of an IPv6 rule.
UfwInv ==
  fwResult = "running" /\ fwActive = "ufw" /\ ~fwFound.moves =>
    /\ \A c \in Elements(fwTodo) : c[2] = "number" => c[3] \in Numbers(fwWant)
    /\ \A n \in Numbers(fwWant) : <<"ufw", "number", n>> \in Elements(fwTodo)
    /\ \A c, d \in Elements(fwTodo) : c[2] = "add" /\ d[2] = "number" => d[3] <= Len(fwUfw.v4)
    /\ fwV6 => \A p \in fwWant \ fwFound.half :
                  \/ p \in UfwOpen("v4") \cap UfwOpen("v6")
                  \/ <<"ufw", "add", p>> \in Elements(fwTodo)

\* The table of nftables: it has rules only once it is marked.
TableInv ==
  /\ fwTable # "owned" => fwTableRules = {}
  /\ \A c \in Elements(fwTodo) :
       c[2] \in Setup => fwTableRules = {} /\ <<"nft", "owner", 0>> \in Elements(fwTodo)
  /\ (\E p : <<"nft", "add", p>> \in Elements(fwTodo)) =>
       fwTable = "owned" \/ <<"nft", "owner", 0>> \in Elements(fwTodo)

Refused == <<"nft", "refuse", 0>> \in Elements(fwTodo)

\* A reconciliation has a command for everything that differs from what is wanted.
ReconcileInv ==
  ~fwPurging =>
    /\ fwTodo # <<>> => fwResult = "running"
    /\ \A c \in Elements(fwTodo) :
         /\ c[1] = fwActive /\ c[2] # "drop"
         /\ c[2] = "add" => c[3] \in fwWant
         /\ c[2] = "remove" => c[3] \notin fwWant
    /\ fwResult = "running" /\ fwActive # "none" /\ ~Refused /\ ~fwFound.moves =>
         /\ \A p \in fwWant \ Open(fwActive) : <<fwActive, "add", p>> \in Elements(fwTodo)
         /\ fwActive # "ufw" =>
              \A p \in Open(fwActive) \ fwWant : <<fwActive, "remove", p>> \in Elements(fwTodo)

\* A purge has a command for everything that is left.
PurgeInv ==
  fwPurging =>
    /\ fwWant = {}
    /\ fwTodo # <<>> => fwResult \in {"running", "error"}
    /\ \A c \in Elements(fwTodo) :
         /\ c[2] \notin {"add", "table", "chain", "owner"}
         /\ c[2] = "drop" => c[1] = "nft"
    /\ fwResult = "running" =>
         /\ \A p \in fwDirect.firewalld : <<"firewalld", "remove", p>> \in Elements(fwTodo)
         /\ \A p \in fwDirect.iptables : <<"iptables", "remove", p>> \in Elements(fwTodo)
         /\ fwTable = "owned" => <<"nft", "drop", 0>> \in Elements(fwTodo)
         /\ fwTable \in {"table", "chain"} => Refused

FwInv ==
  /\ FwType /\ Ordered(fwTodo) /\ UfwCommandsInv /\ UfwInv /\ TableInv /\ ReconcileInv
  /\ PurgeInv
  /\ fwDirect.firewalld # {} => fwActive = "firewalld"
  /\ FirewallAsReported

(***************************************************************************)
(* Sequences of commands.                                                  *)
(***************************************************************************)
\* What a command does to the rest: the head and what follows it.
LEMMA HeadAndTail ==
  ASSUME NEW q \in Seq(Cmd), q # <<>>
  PROVE  /\ Head(q) \in Cmd /\ Tail(q) \in Seq(Cmd)
         /\ Elements(q) = {Head(q)} \cup Elements(Tail(q))
         /\ Ordered(q) => Ordered(Tail(q))
         /\ Ordered(q) => \A d \in Elements(Tail(q)) : Follows(Head(q), d)
<1>1. /\ Head(q) \in Cmd /\ Tail(q) \in Seq(Cmd) /\ Len(Tail(q)) = Len(q) - 1
      /\ \A i \in 1..Len(Tail(q)) : Tail(q)[i] = q[i + 1]
  BY HeadTailProperties
<1>2. Len(q) \in Nat \ {0} /\ Head(q) = q[1]
  BY EmptySeq
<1>3. Elements(q) = {Head(q)} \cup Elements(Tail(q))
  <2>1. ASSUME NEW i \in 1..Len(q) PROVE q[i] = Head(q) \/ q[i] \in Elements(Tail(q))
    <3>1. CASE i = 1
      BY <1>2, <3>1
    <3>2. CASE i # 1
      <4>1. i - 1 \in 1..Len(Tail(q)) /\ Tail(q)[i - 1] = q[i]
        BY <1>1, <1>2, <3>2
      <4> QED
        BY <4>1 DEF Elements
    <3> QED
      BY <3>1, <3>2
  <2>2. ASSUME NEW i \in 1..Len(Tail(q)) PROVE Tail(q)[i] \in Elements(q)
    <3>1. i + 1 \in 1..Len(q)
      BY <1>1, <1>2
    <3> QED
      BY <1>1, <3>1 DEF Elements
  <2>3. Head(q) \in Elements(q)
    BY <1>2 DEF Elements
  <2> QED
    BY <2>1, <2>2, <2>3 DEF Elements
<1>4. ASSUME Ordered(q) PROVE Ordered(Tail(q))
  <2>1. ASSUME NEW i \in 1..Len(Tail(q)), NEW j \in 1..Len(Tail(q)), i < j
        PROVE  Follows(Tail(q)[i], Tail(q)[j])
    <3>1. i + 1 \in 1..Len(q) /\ j + 1 \in 1..Len(q) /\ i + 1 < j + 1
      BY <1>1, <1>2, <2>1
    <3> QED
      BY <1>1, <1>4, <3>1 DEF Ordered
  <2> QED
    BY <2>1 DEF Ordered
<1>5. ASSUME Ordered(q), NEW j \in 1..Len(Tail(q)) PROVE Follows(Head(q), Tail(q)[j])
  <2>1. 1 \in 1..Len(q) /\ j + 1 \in 1..Len(q) /\ 1 < j + 1
    BY <1>1, <1>2
  <2> QED
    BY <1>1, <1>2, <1>5, <2>1 DEF Ordered
<1> QED
  BY <1>1, <1>3, <1>4, <1>5 DEF Elements

\* A part of a procedure that starts somewhere in it.
LEMMA Later ==
  ASSUME NEW q \in Seq(Cmd), NEW n \in 1..Len(q) + 1
  PROVE  /\ SubSeq(q, n, Len(q)) \in Seq(Cmd)
         /\ Elements(SubSeq(q, n, Len(q))) = {q[i] : i \in n..Len(q)}
         /\ Ordered(q) => Ordered(SubSeq(q, n, Len(q)))
<1> DEFINE r == SubSeq(q, n, Len(q))
<1>1. Len(q) \in Nat /\ \A i \in n..Len(q) : q[i] \in Cmd
  BY LenProperties, ElementOfSeq
<1>2. /\ r \in Seq(Cmd) /\ Len(r) = Len(q) - n + 1
      /\ \A i \in 1..Len(q) - n + 1 : r[i] = q[n + i - 1]
  BY <1>1, SubSeqProperties
<1>3. Elements(r) = {q[i] : i \in n..Len(q)}
  <2>1. ASSUME NEW i \in n..Len(q) PROVE i - n + 1 \in 1..Len(r) /\ r[i - n + 1] = q[i]
    BY <1>1, <1>2
  <2>2. ASSUME NEW i \in 1..Len(r) PROVE n + i - 1 \in n..Len(q) /\ r[i] = q[n + i - 1]
    BY <1>1, <1>2
  <2> DEFINE T == {q[i] : i \in n..Len(q)}
  <2> HIDE DEF r
  <2>3. ASSUME NEW x \in Elements(r) PROVE x \in T
    BY <2>2 DEF Elements
  <2>4. ASSUME NEW x \in T PROVE x \in Elements(r)
    BY <2>1 DEF Elements
  <2> QED
    BY <2>3, <2>4
<1>4. ASSUME Ordered(q) PROVE Ordered(r)
  <2>1. ASSUME NEW i \in 1..Len(r), NEW j \in 1..Len(r), i < j PROVE Follows(r[i], r[j])
    <3>1. /\ n + i - 1 \in 1..Len(q) /\ n + j - 1 \in 1..Len(q) /\ n + i - 1 < n + j - 1
          /\ r[i] = q[n + i - 1] /\ r[j] = q[n + j - 1]
      BY <1>1, <1>2, <2>1
    <3> HIDE DEF r
    <3> QED
      BY <1>4, <3>1 DEF Ordered
  <2> HIDE DEF r
  <2> QED
    BY <2>1 DEF Ordered
<1> QED
  BY <1>2, <1>3, <1>4

\* One procedure after the other.
LEMMA Glue ==
  ASSUME NEW A \in Seq(Cmd), NEW B \in Seq(Cmd), Ordered(A), Ordered(B),
         \A c \in Elements(A), d \in Elements(B) : Follows(c, d)
  PROVE  /\ A \o B \in Seq(Cmd) /\ Ordered(A \o B)
         /\ Elements(A \o B) = Elements(A) \cup Elements(B)
<1> DEFINE C == A \o B
<1>1. /\ C \in Seq(Cmd) /\ Len(C) = Len(A) + Len(B) /\ Len(A) \in Nat /\ Len(B) \in Nat
      /\ \A i \in 1..Len(C) : C[i] = IF i <= Len(A) THEN A[i] ELSE B[i - Len(A)]
  BY ConcatProperties, LenProperties
<1> HIDE DEF C
<1>2. \A i \in 1..Len(C) : C[i] \in Elements(A) \cup Elements(B)
  BY <1>1 DEF Elements
<1>3. \A i \in 1..Len(A) : i \in 1..Len(C) /\ C[i] = A[i]
  BY <1>1
<1>4. \A i \in 1..Len(B) : i + Len(A) \in 1..Len(C) /\ C[i + Len(A)] = B[i]
  BY <1>1
<1>5. Elements(C) = Elements(A) \cup Elements(B)
  <2>1. ASSUME NEW x \in Elements(C) PROVE x \in Elements(A) \cup Elements(B)
    BY <1>2 DEF Elements
  <2>2. ASSUME NEW x \in Elements(A) PROVE x \in Elements(C)
    BY <1>3 DEF Elements
  <2>3. ASSUME NEW x \in Elements(B) PROVE x \in Elements(C)
    BY <1>4 DEF Elements
  <2> QED
    BY <2>1, <2>2, <2>3
<1>6. ASSUME NEW i \in 1..Len(C), NEW j \in 1..Len(C), i < j PROVE Follows(C[i], C[j])
  <2>1. CASE j <= Len(A)
    <3>1. i \in 1..Len(A) /\ j \in 1..Len(A)
      BY <1>1, <1>6, <2>1
    <3> QED
      BY <1>3, <1>6, <3>1 DEF Ordered
  <2>2. CASE i > Len(A)
    <3>1. /\ i - Len(A) \in 1..Len(B) /\ j - Len(A) \in 1..Len(B) /\ i - Len(A) < j - Len(A)
          /\ C[i] = B[i - Len(A)] /\ C[j] = B[j - Len(A)]
      BY <1>1, <1>6, <2>2
    <3> QED
      BY <3>1 DEF Ordered
  <2>3. CASE i <= Len(A) /\ j > Len(A)
    <3>1. /\ i \in 1..Len(A) /\ j - Len(A) \in 1..Len(B)
          /\ C[i] = A[i] /\ C[j] = B[j - Len(A)]
      BY <1>1, <1>6, <2>3
    <3> QED
      BY <3>1 DEF Elements
  <2> QED
    BY <1>1, <2>1, <2>2, <2>3
<1> QED
  BY <1>1, <1>5, <1>6 DEF C, Ordered

LEMMA NoCommands ==
  <<>> \in Seq(Cmd) /\ Elements(<<>>) = {} /\ Ordered(<<>>)
BY EmptySeq DEF Elements, Ordered

\* A list of as many entries as a set has, all different, lists the set.
LEMMA Onto ==
  ASSUME NEW S, IsFiniteSet(S), NEW f \in [1..Cardinality(S) -> S],
         \A i, j \in 1..Cardinality(S) : i # j => f[i] # f[j]
  PROVE  Elements(f) = S /\ DOMAIN f = 1..Cardinality(S) /\ Len(f) = Cardinality(S)
<1> DEFINE n == Cardinality(S)
           T == {f[i] : i \in 1..n}
<1>1. n \in Nat
  BY FS_CardinalityType
<1>2. IsFiniteSet(1..n) /\ Cardinality(1..n) = n
  BY <1>1, FS_Interval
<1>3. f \in Bijection(1..n, T)
  BY DEF Bijection, Injection, Surjection, IsInjective
<1>4. ExistsBijection(1..n, T)
  BY <1>3 DEF ExistsBijection
<1>5. Cardinality(T) = n
  BY <1>2, <1>4, FS_Bijection
<1>6. T \in SUBSET S
  OBVIOUS
<1>7. T = S
  BY <1>5, <1>6, FS_Subset
<1>8. f \in Seq(S) /\ Len(f) = n
  BY <1>1
<1> QED
  BY <1>7, <1>8 DEF Elements

\* A command for everything in a set.
LEMMA CommandsFor ==
  ASSUME NEW b \in Backends, NEW what \in {"add", "remove"}, NEW S \in SUBSET FwPorts
  PROVE  /\ Commands(b, what, S) \in Seq(Cmd)
         /\ Elements(Commands(b, what, S)) = {<<b, what, p>> : p \in S}
         /\ Ordered(Commands(b, what, S))
<1> DEFINE n == Cardinality(S)
           q == SetToSeq(S)
           r == [i \in DOMAIN q |-> <<b, what, q[i]>>]
<1>1. IsFiniteSet(S) /\ n \in Nat
  BY FwAssumption, FS_Subset, FS_CardinalityType
<1>2. q \in [1..n -> S] /\ IsInjective(q)
  <2>1. ExistsBijection(1..n, S)
    BY <1>1, FS_CardinalityType
  <2>2. \E f \in [1..n -> S] : IsInjective(f)
    BY <2>1 DEF ExistsBijection, Bijection, Injection
  <2> QED
    BY <2>2 DEF SetToSeq
<1> HIDE DEF q
<1>3. \A i, j \in 1..n : i # j => q[i] # q[j]
  BY <1>2 DEF IsInjective
<1> HIDE DEF n
<1>4. Elements(q) = S /\ DOMAIN q = 1..n /\ Len(q) = n
  BY <1>1, <1>2, <1>3, Onto DEF n
<1>5. r \in Seq(Cmd) /\ Len(r) = n /\ \A i \in 1..n : r[i] = <<b, what, q[i]>>
  <2>1. \A i \in 1..n : <<b, what, q[i]>> \in Cmd
    BY <1>2 DEF Cmd, Kinds
  <2>2. r \in [1..n -> Cmd]
    BY <1>4, <2>1
  <2> QED
    BY <1>1, <1>4, <2>2
<1> HIDE DEF r
<1>6. \A i \in 1..n : q[i] \in S
  BY <1>2
<1>7. \A p \in S : \E i \in 1..n : q[i] = p
  BY <1>4 DEF Elements
<1>8. Elements(r) = {<<b, what, p>> : p \in S}
  <2>1. ASSUME NEW x \in Elements(r) PROVE x \in {<<b, what, p>> : p \in S}
    BY <1>5, <1>6 DEF Elements
  <2>2. ASSUME NEW p \in S PROVE <<b, what, p>> \in Elements(r)
    BY <1>5, <1>7 DEF Elements
  <2> QED
    BY <2>1, <2>2
<1>9. Ordered(r)
  <2>1. ASSUME NEW i \in 1..Len(r), NEW j \in 1..Len(r) PROVE Follows(r[i], r[j])
    <3>1. r[i][1] = b /\ r[j][1] = b /\ r[i][2] = what /\ r[j][2] = what
      BY <1>5
    <3> QED
      BY <3>1 DEF Follows, Setup
  <2> QED
    BY <2>1 DEF Ordered
<1>10. Commands(b, what, S) = r
  BY DEF Commands, r, q
<1> QED
  BY <1>5, <1>8, <1>9, <1>10

\* A set of numbers that is not empty has a least one.
LEMMA LeastNumber ==
  ASSUME NEW N \in SUBSET Nat, N # {}
  PROVE  \E n \in N : \A m \in N : n <= m
<1>1. PICK n \in N : \A m \in N : ~(<<m, n>> \in OpToRel(<, Nat))
  BY NatLessThanWellFounded, WFMin
<1>2. \A m \in N : n \in Nat /\ m \in Nat /\ ~(m < n)
  BY <1>1 DEF OpToRel
<1> QED
  BY <1>2

\* The positions up to k that a set holds can be listed from the last to the first.
Falling(S) ==
  \E q \in [1..Cardinality(S) -> S] : \A i, j \in 1..Cardinality(S) : i < j => q[i] > q[j]

LEMMA Falls == \A k \in Nat : \A S \in SUBSET (1..k) : Falling(S)
<1> DEFINE Bad == {k \in Nat : \E S \in SUBSET (1..k) : ~Falling(S)}
<1>1. 0 \notin Bad
  <2>1. ASSUME NEW S \in SUBSET (1..0) PROVE Falling(S)
    <3>1. S = {}
      OBVIOUS
    <3>2. Cardinality(S) = 0
      BY <3>1, FS_EmptySet
    <3>3. PICK q \in [1..0 -> S] : TRUE
      <4>1. [i \in 1..0 |-> 0] \in [1..0 -> S]
        OBVIOUS
      <4> QED
        BY <4>1
    <3>4. \A i, j \in 1..0 : i < j => q[i] > q[j]
      OBVIOUS
    <3> QED
      BY <3>2, <3>3, <3>4 DEF Falling
  <2> QED
    BY <2>1
<1>2. ASSUME NEW k \in Nat, k \notin Bad PROVE k + 1 \notin Bad
  <2>1. ASSUME NEW S \in SUBSET (1..k + 1) PROVE Falling(S)
    <3>1. CASE k + 1 \notin S
      <4>1. S \in SUBSET (1..k)
        BY <3>1
      <4> QED
        BY <1>2, <4>1
    <3>2. CASE k + 1 \in S
      <4> DEFINE T == S \ {k + 1}
                 n == Cardinality(T)
      <4>1. T \in SUBSET (1..k) /\ T \subseteq S
        OBVIOUS
      <4>2. IsFiniteSet(S) /\ n \in Nat /\ Cardinality(S) = n + 1
        <5>1. IsFiniteSet(1..k + 1)
          BY FS_Interval
        <5>2. IsFiniteSet(S) /\ IsFiniteSet(T)
          BY <5>1, <4>1, FS_Subset
        <5>3. n \in Nat /\ Cardinality(S) \in Nat /\ n = Cardinality(S) - 1
          BY <3>2, <5>2, FS_CardinalityType, FS_RemoveElement
        <5> QED
          BY <5>2, <5>3
      <4>3. Falling(T)
        BY <1>2, <4>1
      <4> HIDE DEF n
      <4>4. PICK q \in [1..n -> T] : \A i, j \in 1..n : i < j => q[i] > q[j]
        BY <4>3 DEF Falling, n
      <4> DEFINE r == [i \in 1..n + 1 |-> IF i = 1 THEN k + 1 ELSE q[i - 1]]
      <4>5. \A i \in 1..n + 1 : i # 1 => i - 1 \in 1..n /\ q[i - 1] \in T
        BY <4>2, <4>4
      <4>6. r \in [1..n + 1 -> S]
        BY <3>2, <4>1, <4>5
      <4>7. ASSUME NEW i \in 1..n + 1, NEW j \in 1..n + 1, i < j PROVE r[i] > r[j]
        <5>0. j # 1
          BY <4>2, <4>7
        <5>1. j - 1 \in 1..n /\ q[j - 1] \in 1..k /\ r[j] = q[j - 1]
          BY <4>1, <4>5, <5>0
        <5>2. CASE i = 1
          BY <5>1, <5>2
        <5>3. CASE i # 1
          <6>1. i - 1 \in 1..n /\ i - 1 < j - 1 /\ r[i] = q[i - 1]
            BY <4>2, <4>7, <5>3
          <6> QED
            BY <4>4, <5>1, <6>1
        <5> QED
          BY <5>2, <5>3
      <4> HIDE DEF r
      <4> QED
        BY <4>2, <4>6, <4>7 DEF Falling
    <3> QED
      BY <3>1, <3>2
  <2> QED
    BY <2>1
<1> HIDE DEF Bad
<1>3. Bad = {}
  <2> SUFFICES ASSUME Bad # {} PROVE FALSE
    OBVIOUS
  <2>1. Bad \in SUBSET Nat
    BY DEF Bad
  <2>2. PICK k \in Bad : \A m \in Bad : k <= m
    BY <2>1, LeastNumber
  <2>3. k \in Nat /\ k # 0
    BY <1>1, <2>1
  <2>4. k - 1 \in Nat /\ k - 1 \notin Bad
    BY <2>2, <2>3
  <2>5. (k - 1) + 1 \notin Bad
    BY <1>2, <2>4
  <2> QED
    BY <2>3, <2>5
<1> QED
  BY <1>3 DEF Bad

\* The numbers ufw deletes, from the highest to the lowest.
LEMMA NumberCommands ==
  ASSUME NEW k \in Nat, NEW S \in SUBSET (1..k)
  PROVE  LET q == Descending(S)
             r == [i \in DOMAIN q |-> <<"ufw", "number", q[i]>>]
         IN  /\ r \in Seq(Cmd) /\ Ordered(r)
             /\ Elements(r) = {<<"ufw", "number", i>> : i \in S}
<1> DEFINE n == Cardinality(S)
           q == Descending(S)
           r == [i \in DOMAIN q |-> <<"ufw", "number", q[i]>>]
<1>1. IsFiniteSet(S) /\ n \in Nat
  <2>1. IsFiniteSet(1..k)
    BY FS_Interval
  <2> QED
    BY <2>1, FS_Subset, FS_CardinalityType
<1>2. q \in [1..n -> S] /\ \A i, j \in 1..n : i < j => q[i] > q[j]
  BY Falls DEF Falling, Descending
<1> HIDE DEF q
<1>3. \A i \in 1..n : q[i] \in S /\ q[i] \in Nat
  <2>1. \A x \in S : x \in Nat
    OBVIOUS
  <2>2. \A i \in 1..n : q[i] \in S
    BY <1>2
  <2> QED
    BY <2>1, <2>2
<1>4. \A i, j \in 1..n : i # j => q[i] # q[j]
  <2>1. ASSUME NEW i \in 1..n, NEW j \in 1..n, i # j PROVE q[i] # q[j]
    <3>1. i < j \/ j < i
      BY <1>1, <2>1
    <3> QED
      BY <1>2, <1>3, <3>1
  <2> QED
    BY <2>1
<1> HIDE DEF n
<1>5. Elements(q) = S /\ DOMAIN q = 1..n /\ Len(q) = n
  BY <1>1, <1>2, <1>4, Onto DEF n
<1>6. r \in Seq(Cmd) /\ Len(r) = n /\ \A i \in 1..n : r[i] = <<"ufw", "number", q[i]>>
  <2>1. \A i \in 1..n : <<"ufw", "number", q[i]>> \in Cmd
    BY <1>3 DEF Cmd, Kinds, Backends
  <2>2. r \in [1..n -> Cmd]
    BY <1>5, <2>1
  <2> QED
    BY <1>1, <1>5, <2>2
<1> HIDE DEF r
<1>7. \A p \in S : \E i \in 1..n : q[i] = p
  BY <1>5 DEF Elements
<1>8. Elements(r) = {<<"ufw", "number", i>> : i \in S}
  <2>1. ASSUME NEW x \in Elements(r) PROVE x \in {<<"ufw", "number", i>> : i \in S}
    BY <1>3, <1>6 DEF Elements
  <2>2. ASSUME NEW p \in S PROVE <<"ufw", "number", p>> \in Elements(r)
    BY <1>6, <1>7 DEF Elements
  <2> QED
    BY <2>1, <2>2
<1>9. Ordered(r)
  <2>1. ASSUME NEW i \in 1..Len(r), NEW j \in 1..Len(r), i < j PROVE Follows(r[i], r[j])
    <3>1. /\ r[i][1] = "ufw" /\ r[j][1] = "ufw" /\ r[j][2] = "number"
          /\ r[i][3] = q[i] /\ r[j][3] = q[j] /\ q[i] > q[j]
      BY <1>2, <1>6, <2>1
    <3> QED
      BY <3>1 DEF Follows, Setup
  <2> QED
    BY <2>1 DEF Ordered
<1> QED
  BY <1>6, <1>8, <1>9 DEF q, r

\* A list without its entry n.
LEMMA Removed ==
  ASSUME NEW R, NEW s \in Seq(R), NEW n \in 1..Len(s)
  PROVE  /\ RemoveAt(s, n) \in Seq(R) /\ Len(RemoveAt(s, n)) = Len(s) - 1
         /\ \A i \in 1..Len(s) - 1 : RemoveAt(s, n)[i] = IF i < n THEN s[i] ELSE s[i + 1]
<1> DEFINE A == SubSeq(s, 1, n - 1)
           B == SubSeq(s, n + 1, Len(s))
           C == A \o B
<1>1. Len(s) \in Nat /\ \A i \in 1..Len(s) : s[i] \in R
  BY LenProperties, ElementOfSeq
<1>2. A \in Seq(R) /\ Len(A) = n - 1 /\ \A i \in 1..n - 1 : A[i] = s[i]
  <2>1. \A i \in 1..n - 1 : s[i] \in R
    BY <1>1
  <2> QED
    BY <1>1, <2>1, SubSeqProperties
<1>3. B \in Seq(R) /\ Len(B) = Len(s) - n /\ \A i \in 1..Len(s) - n : B[i] = s[n + i]
  <2>1. \A i \in n + 1..Len(s) : s[i] \in R
    BY <1>1
  <2>2. /\ B \in Seq(R) /\ Len(B) = IF n + 1 <= Len(s) THEN Len(s) - (n + 1) + 1 ELSE 0
        /\ \A i \in 1..Len(s) - (n + 1) + 1 : B[i] = s[n + 1 + i - 1]
    BY <1>1, <2>1, SubSeqProperties
  <2> HIDE DEF B
  <2>3. \A i \in 1..Len(s) - n : i \in 1..Len(s) - (n + 1) + 1 /\ n + 1 + i - 1 = n + i
    BY <1>1
  <2> QED
    BY <1>1, <2>2, <2>3
<1> HIDE DEF A, B
<1>4. /\ C \in Seq(R) /\ Len(C) = Len(A) + Len(B)
      /\ \A i \in 1..Len(A) + Len(B) : C[i] = IF i <= Len(A) THEN A[i] ELSE B[i - Len(A)]
  BY <1>2, <1>3, ConcatProperties
<1> HIDE DEF C
<1>9. \A i \in 1..Len(s) - 1 : C[i] = IF i <= n - 1 THEN A[i] ELSE B[i - (n - 1)]
  BY <1>1, <1>2, <1>3, <1>4
<1>5. ASSUME NEW i \in 1..Len(s) - 1 PROVE C[i] = IF i < n THEN s[i] ELSE s[i + 1]
  <2>1. CASE i < n
    <3>1. i \in 1..n - 1
      BY <1>1, <2>1
    <3> QED
      BY <1>2, <1>9, <2>1, <3>1
  <2>2. CASE i >= n
    <3>1. i - (n - 1) \in 1..Len(s) - n /\ n + (i - (n - 1)) = i + 1
      BY <1>1, <2>2
    <3>2. C[i] = B[i - (n - 1)]
      BY <1>1, <1>9, <2>2
    <3>3. C[i] = s[i + 1]
      BY <1>3, <3>1, <3>2
    <3> QED
      BY <2>2, <3>3
  <2> QED
    BY <1>1, <2>1, <2>2
<1>6. Len(C) = Len(s) - 1
  BY <1>1, <1>2, <1>3, <1>4
<1>7. RemoveAt(s, n) = C
  BY DEF RemoveAt, A, B, C
<1> QED
  BY <1>4, <1>5, <1>6, <1>7

\* What is not the entry removed stays.
LEMMA Kept ==
  ASSUME NEW R, NEW s \in Seq(R), NEW n \in 1..Len(s), NEW x, Contains(s, x), x # s[n]
  PROVE  Contains(RemoveAt(s, n), x)
<1> DEFINE r == RemoveAt(s, n)
<1>1. /\ Len(r) = Len(s) - 1 /\ Len(s) \in Nat
      /\ \A i \in 1..Len(s) - 1 : r[i] = IF i < n THEN s[i] ELSE s[i + 1]
  BY Removed, LenProperties
<1> HIDE DEF r
<1>2. PICK i \in 1..Len(s) : s[i] = x
  BY DEF Contains
<1>3. CASE i < n
  <2>1. i \in 1..Len(s) - 1 /\ r[i] = x
    BY <1>1, <1>2, <1>3
  <2> QED
    BY <1>1, <2>1 DEF Contains, r
<1>4. CASE i > n
  <2>1. i - 1 \in 1..Len(s) - 1 /\ ~(i - 1 < n) /\ (i - 1) + 1 = i
    BY <1>1, <1>4
  <2>2. r[i - 1] = x
    BY <1>1, <1>2, <2>1
  <2> QED
    BY <1>1, <2>1, <2>2 DEF Contains, r
<1> QED
  BY <1>1, <1>2, <1>3, <1>4

\* A list with an entry more.
LEMMA Longer ==
  ASSUME NEW R, NEW s \in Seq(R), NEW x \in R
  PROVE  /\ Append(s, x) \in Seq(R) /\ Len(Append(s, x)) = Len(s) + 1 /\ Len(s) \in Nat
         /\ Append(s, x)[Len(s) + 1] = x /\ \A i \in 1..Len(s) : Append(s, x)[i] = s[i]
         /\ Contains(Append(s, x), x)
         /\ \A y : Contains(s, y) => Contains(Append(s, x), y)
<1> DEFINE t == Append(s, x)
<1>1. /\ t \in Seq(R) /\ Len(t) = Len(s) + 1 /\ t[Len(s) + 1] = x /\ Len(s) \in Nat
      /\ \A i \in 1..Len(s) : t[i] = s[i]
  BY AppendProperties, LenProperties
<1> HIDE DEF t
<1>2. Contains(t, x) /\ \A y : Contains(s, y) => Contains(t, y)
  BY <1>1 DEF Contains
<1> QED
  BY <1>1, <1>2 DEF t

\* List r is list q without its entry n.
OneLess(r, q, n) ==
    /\ Len(r) = Len(q) - 1
    /\ \A i \in 1..Len(q) - 1 : r[i] = IF i < n THEN q[i] ELSE q[i + 1]

\* Two lists one after the other without the entry n of the whole.
LEMMA RemovedFromBoth ==
  ASSUME NEW R, NEW s \in Seq(R), NEW t \in Seq(R), NEW n \in 1..Len(s) + Len(t), NEW a, NEW b,
         \/ n <= Len(s) /\ a = RemoveAt(s, n) /\ b = t
         \/ n > Len(s) /\ a = s /\ b = RemoveAt(t, n - Len(s))
  PROVE  a \in Seq(R) /\ b \in Seq(R) /\ OneLess(a \o b, s \o t, n)
<1> DEFINE k == Len(s)
           m == Len(t)
           q == s \o t
           r == a \o b
<1>1. k \in Nat /\ m \in Nat
  BY LenProperties
<1>2. /\ Len(q) = k + m
      /\ \A i \in 1..k + m : q[i] = IF i <= k THEN s[i] ELSE t[i - k]
  BY <1>1, ConcatProperties
<1> HIDE DEF q
<1>3. CASE n <= k /\ a = RemoveAt(s, n) /\ b = t
  <2>1. /\ a \in Seq(R) /\ Len(a) = k - 1
        /\ \A i \in 1..k - 1 : a[i] = IF i < n THEN s[i] ELSE s[i + 1]
    BY <1>1, <1>3, Removed
  <2>0. /\ Len(r) = Len(a) + Len(b)
        /\ \A i \in 1..Len(a) + Len(b) : r[i] = IF i <= Len(a) THEN a[i] ELSE b[i - Len(a)]
    <3>1. a \in Seq(R) /\ b \in Seq(R)
      BY <1>3, <2>1
    <3> QED
      BY <3>1, ConcatProperties
  <2> HIDE DEF r
  <2>2. /\ Len(r) = k - 1 + m
        /\ \A i \in 1..k - 1 + m : r[i] = IF i <= k - 1 THEN a[i] ELSE t[i - (k - 1)]
    BY <1>3, <2>0, <2>1
  <2>3. ASSUME NEW i \in 1..k + m - 1 PROVE r[i] = IF i < n THEN q[i] ELSE q[i + 1]
    <3>1. i \in 1..k + m /\ i + 1 \in 1..k + m /\ i \in 1..k - 1 + m
      BY <1>1
    <3>2. CASE i < n
      <4>1. i \in 1..k - 1 /\ i <= k
        BY <1>1, <1>3, <3>2
      <4> QED
        BY <1>2, <2>1, <2>2, <3>1, <3>2, <4>1
    <3>3. CASE ~(i < n) /\ i <= k - 1
      <4>1. i \in 1..k - 1 /\ i + 1 <= k
        BY <1>1, <3>3
      <4> QED
        BY <1>2, <2>1, <2>2, <3>1, <3>3, <4>1
    <3>4. CASE ~(i < n) /\ ~(i <= k - 1)
      <4>1. ~(i + 1 <= k) /\ i - (k - 1) = (i + 1) - k
        BY <1>1, <3>4
      <4> QED
        BY <1>2, <2>2, <3>1, <3>4, <4>1
    <3> QED
      BY <3>2, <3>3, <3>4
  <2>4. Len(r) = k + m - 1
    BY <1>1, <2>2
  <2> QED
    BY <1>2, <1>3, <2>1, <2>3, <2>4 DEF q, r, OneLess
<1>4. CASE n > k /\ a = s /\ b = RemoveAt(t, n - k)
  <2>0. n - k \in 1..m
    BY <1>1, <1>4
  <2>1. /\ b \in Seq(R) /\ Len(b) = m - 1
        /\ \A i \in 1..m - 1 : b[i] = IF i < n - k THEN t[i] ELSE t[i + 1]
    BY <1>4, <2>0, Removed
  <2>9. /\ Len(r) = Len(a) + Len(b)
        /\ \A i \in 1..Len(a) + Len(b) : r[i] = IF i <= Len(a) THEN a[i] ELSE b[i - Len(a)]
    <3>1. a \in Seq(R) /\ b \in Seq(R)
      BY <1>4, <2>1
    <3> QED
      BY <3>1, ConcatProperties
  <2> HIDE DEF r
  <2>2. /\ Len(r) = k + (m - 1)
        /\ \A i \in 1..k + (m - 1) : r[i] = IF i <= k THEN s[i] ELSE b[i - k]
    BY <1>4, <2>1, <2>9
  <2>3. ASSUME NEW i \in 1..k + m - 1 PROVE r[i] = IF i < n THEN q[i] ELSE q[i + 1]
    <3>1. i \in 1..k + m /\ i + 1 \in 1..k + m /\ i \in 1..k + (m - 1)
      BY <1>1
    <3>2. CASE i <= k
      <4>1. i < n
        BY <1>1, <1>4, <3>2
      <4> QED
        BY <1>2, <2>2, <3>1, <3>2, <4>1
    <3>3. CASE ~(i <= k) /\ i < n
      <4>1. i - k \in 1..m - 1 /\ i - k < n - k
        BY <1>1, <1>4, <3>3
      <4> QED
        BY <1>2, <2>1, <2>2, <3>1, <3>3, <4>1
    <3>4. CASE ~(i <= k) /\ ~(i < n)
      <4>1. i - k \in 1..m - 1 /\ ~(i - k < n - k) /\ (i - k) + 1 = (i + 1) - k /\ ~(i + 1 <= k)
        BY <1>1, <1>4, <3>4
      <4> QED
        BY <1>2, <2>1, <2>2, <3>1, <3>4, <4>1
    <3> QED
      BY <3>2, <3>3, <3>4
  <2>4. Len(r) = k + m - 1
    BY <1>1, <2>0, <2>2
  <2> QED
    BY <1>2, <1>4, <2>1, <2>3, <2>4 DEF q, r, OneLess
<1> QED
  BY <1>3, <1>4

(***************************************************************************)
(* The procedures.                                                         *)
(***************************************************************************)
Adds(b, want) == {<<b, "add", p>> : p \in want \ Open(b)}
Removes(b, want) == {<<b, "remove", p>> : p \in Open(b) \ want}
Deletions(want) == {<<"ufw", "number", n>> : n \in Numbers(want)}

\* A procedure that consists of these commands, in an order that works.
Procedure(q, C) == q \in Seq(Cmd) /\ Ordered(q) /\ Elements(q) = C

Stale(r, want) == r.mine /\ r.port \notin want

\* ufw's rules in the order of their numbers.
All == fwUfw.v4 \o fwUfw.v6

LEMMA Listing ==
  ASSUME FwType
  PROVE  /\ fwUfw.v4 \in Seq(Rule) /\ fwUfw.v6 \in Seq(Rule) /\ All \in Seq(Rule)
         /\ Len(fwUfw.v4) \in Nat /\ Len(fwUfw.v6) \in Nat
         /\ Len(All) = Len(fwUfw.v4) + Len(fwUfw.v6)
         /\ \A i \in 1..Len(All) :
              All[i] = IF i <= Len(fwUfw.v4) THEN fwUfw.v4[i] ELSE fwUfw.v6[i - Len(fwUfw.v4)]
         /\ \A want : Numbers(want) = {i \in 1..Len(All) : Stale(All[i], want)}
         /\ \A want : Numbers(want) \in SUBSET (1..Len(All)) /\ Numbers(want) \in SUBSET (Nat \ {0})
<1>1. /\ fwUfw.v4 \in Seq(Rule) /\ fwUfw.v6 \in Seq(Rule)
      /\ Len(fwUfw.v4) \in Nat /\ Len(fwUfw.v6) \in Nat
  BY LenProperties DEF FwType
<1>2. /\ All \in Seq(Rule) /\ Len(All) = Len(fwUfw.v4) + Len(fwUfw.v6)
      /\ \A i \in 1..Len(fwUfw.v4) + Len(fwUfw.v6) :
           All[i] = IF i <= Len(fwUfw.v4) THEN fwUfw.v4[i] ELSE fwUfw.v6[i - Len(fwUfw.v4)]
  BY <1>1, ConcatProperties DEF All
<1>3. DOMAIN All = 1..Len(All) /\ 1..Len(All) \subseteq Nat \ {0}
  <2>1. All \in Seq(Rule)
    BY <1>2
  <2> HIDE DEF All
  <2>2. DOMAIN All = 1..Len(All) /\ Len(All) \in Nat
    BY <2>1, LenProperties
  <2> QED
    BY <2>2
<1>4. ASSUME NEW want PROVE Numbers(want) = {i \in 1..Len(All) : Stale(All[i], want)}
  BY <1>3 DEF Numbers, Stale, All
<1>5. ASSUME NEW want PROVE Numbers(want) \subseteq 1..Len(All)
  BY <1>4
<1> HIDE DEF All
<1>6. \A i \in 1..Len(All) :
        All[i] = IF i <= Len(fwUfw.v4) THEN fwUfw.v4[i] ELSE fwUfw.v6[i - Len(fwUfw.v4)]
  BY <1>2
<1> QED
  BY <1>1, <1>2, <1>3, <1>4, <1>5, <1>6

LEMMA Positions ==
  ASSUME NEW x \in Nat, NEW y \in Nat
  PROVE  /\ x + y \in Nat /\ 1..x + y \subseteq Nat \ {0}
         /\ \A i \in 1..x : i \in 1..x + y /\ i <= x
         /\ \A i \in 1..y : x + i \in 1..x + y /\ ~(x + i <= x) /\ (x + i) - x = i
         /\ \A i \in 1..x + y : ~(i > x + y) /\ (i <= x \/ i > x)
OBVIOUS

LEMMA Sizes ==
  ASSUME FwType
  PROVE  /\ Len(fwUfw.v4) \in Nat /\ Len(fwUfw.v6) \in Nat /\ Len(All) \in Nat
         /\ Len(All) = Len(fwUfw.v4) + Len(fwUfw.v6)
<1>1. /\ Len(fwUfw.v4) \in Nat /\ Len(fwUfw.v6) \in Nat /\ All \in Seq(Rule)
      /\ Len(All) = Len(fwUfw.v4) + Len(fwUfw.v6)
  BY Listing
<1>2. Len(All) \in Nat
  BY <1>1, LenProperties
<1> QED
  BY <1>1, <1>2

LEMMA OpenPorts ==
  ASSUME FwType, NEW b
  PROVE  /\ Open(b) \in SUBSET FwPorts
         /\ Open("nft") = fwTableRules /\ Open("firewalld") = fwDirect.firewalld
         /\ Open("iptables") = fwDirect.iptables /\ Open("none") = {}
<1>1. Open("ufw") \in SUBSET FwPorts
  BY DEF Open, UfwOpen
<1>2. /\ Open("nft") = fwTableRules /\ Open("firewalld") = fwDirect["firewalld"]
      /\ Open("iptables") = fwDirect["iptables"] /\ Open("none") = {}
  BY DEF Open
<1>3. fwTableRules \in SUBSET FwPorts /\ fwDirect.firewalld \in SUBSET FwPorts
      /\ fwDirect.iptables \in SUBSET FwPorts
  BY DEF FwType
<1>4. b \notin {"ufw", "nft", "firewalld", "iptables"} => Open(b) = {}
  BY DEF Open
<1> QED
  BY <1>1, <1>2, <1>3, <1>4

LEMMA Missing ==
  ASSUME FwType, NEW b \in Backends, NEW want \in SUBSET FwPorts
  PROVE  /\ Procedure(missingFirewallRules(b, want), Adds(b, want))
         /\ Procedure(staleFirewallRules(b, want), Removes(b, want))
<1>1. want \ Open(b) \in SUBSET FwPorts /\ Open(b) \ want \in SUBSET FwPorts
  BY OpenPorts
<1> QED
  BY <1>1, CommandsFor DEF Procedure, missingFirewallRules, staleFirewallRules, Adds, Removes

LEMMA UfwCommands ==
  ASSUME FwType, NEW want \in SUBSET FwPorts
  PROVE  Procedure(reconcileUFW(want), Adds("ufw", want) \cup Deletions(want))
<1> DEFINE A == missingFirewallRules("ufw", want)
           q == Descending(Numbers(want))
           B == [i \in DOMAIN q |-> <<"ufw", "number", q[i]>>]
<1>1. Procedure(A, Adds("ufw", want))
  BY Missing DEF Backends
<1>2. Procedure(B, Deletions(want))
  <2>1. Len(All) \in Nat /\ Numbers(want) \in SUBSET (1..Len(All))
    BY Listing
  <2> QED
    BY <2>1, NumberCommands DEF Procedure, Deletions
<1>3. reconcileUFW(want) = A \o B
  BY DEF reconcileUFW
<1>4. \A c \in Adds("ufw", want), d \in Deletions(want) : Follows(c, d)
  BY DEF Adds, Deletions, Follows, Setup
<1> HIDE DEF A, B
<1> QED
  BY <1>1, <1>2, <1>3, <1>4, Glue DEF Procedure

LEMMA PlainCommands ==
  ASSUME FwType, NEW b \in {"firewalld", "nft", "iptables"}, NEW want \in SUBSET FwPorts
  PROVE  Procedure(missingFirewallRules(b, want) \o staleFirewallRules(b, want),
                   Adds(b, want) \cup Removes(b, want))
<1> DEFINE A == missingFirewallRules(b, want)
           B == staleFirewallRules(b, want)
<1>1. Procedure(A, Adds(b, want)) /\ Procedure(B, Removes(b, want))
  BY Missing DEF Backends
<1>2. \A c \in Adds(b, want), d \in Removes(b, want) : Follows(c, d)
  BY DEF Adds, Removes, Follows, Setup
<1> HIDE DEF A, B
<1>3. Procedure(A \o B, Adds(b, want) \cup Removes(b, want))
  BY <1>1, <1>2, Glue DEF Procedure
<1> QED
  BY <1>3 DEF A, B

\* One command alone.
LEMMA OneCommand ==
  ASSUME NEW what \in {"refuse", "drop"}
  PROVE  Procedure(<<<<"nft", what, 0>>>>, {<<"nft", what, 0>>})
<1> DEFINE c == <<"nft", what, 0>>
<1>1. c \in Cmd
  BY DEF Cmd, Backends, Kinds
<1> HIDE DEF c
<1>2. <<c>> \in Seq(Cmd) /\ Len(<<c>>) = 1 /\ <<c>>[1] = c
  BY <1>1
<1>3. Elements(<<c>>) = {c} /\ Ordered(<<c>>)
  BY <1>2 DEF Elements, Ordered
<1> QED
  BY <1>2, <1>3 DEF Procedure, c

SetUp == {<<"nft", "table", 0>>, <<"nft", "chain", 0>>, <<"nft", "owner", 0>>}

LEMMA SetUpCommands ==
  Procedure(<<<<"nft", "table", 0>>, <<"nft", "chain", 0>>, <<"nft", "owner", 0>>>>, SetUp)
<1> DEFINE t == <<"nft", "table", 0>>
           c == <<"nft", "chain", 0>>
           o == <<"nft", "owner", 0>>
<1>1. t \in Cmd /\ c \in Cmd /\ o \in Cmd
  BY DEF Cmd, Backends, Kinds
<1>2. Follows(t, c) /\ Follows(t, o) /\ Follows(c, o)
  BY DEF Follows, Setup
<1> HIDE DEF t, c, o
<1> DEFINE q == <<t, c, o>>
<1>3. q \in Seq(Cmd) /\ Len(q) = 3 /\ q[1] = t /\ q[2] = c /\ q[3] = o
  BY <1>1
<1> HIDE DEF q
<1>4. \A i \in 1..Len(q) : i = 1 \/ i = 2 \/ i = 3
  BY <1>3
<1>5. Ordered(q)
  BY <1>2, <1>3, <1>4 DEF Ordered
<1>6. Elements(q) = {t, c, o}
  <2>1. 1 \in 1..Len(q) /\ 2 \in 1..Len(q) /\ 3 \in 1..Len(q)
    BY <1>3
  <2>2. ASSUME NEW x \in Elements(q) PROVE x \in {t, c, o}
    BY <1>3, <1>4 DEF Elements
  <2>3. t \in Elements(q) /\ c \in Elements(q) /\ o \in Elements(q)
    BY <1>3, <2>1 DEF Elements
  <2> QED
    BY <2>2, <2>3
<1> QED
  BY <1>3, <1>5, <1>6 DEF Procedure, SetUp, q, t, c, o

LEMMA NftCommands ==
  ASSUME FwType, NEW want \in SUBSET FwPorts
  PROVE  \/ /\ fwTable \in {"none", "table"} /\ want = {}
            /\ Procedure(reconcileNFT(want), {})
         \/ /\ fwTable = "none"
            /\ Procedure(reconcileNFT(want), SetUp \cup Adds("nft", want))
         \/ /\ fwTable = "owned"
            /\ Procedure(reconcileNFT(want), Adds("nft", want) \cup Removes("nft", want))
         \/ /\ fwTable \in {"table", "chain"}
            /\ Procedure(reconcileNFT(want), {<<"nft", "refuse", 0>>})
<1>1. fwTable \in {"none", "table", "chain", "owned"}
  BY DEF FwType
<1>2. CASE fwTable \in {"none", "table"} /\ want = {}
  <2>1. reconcileNFT(want) = <<>>
    BY <1>2 DEF reconcileNFT
  <2> QED
    BY <1>2, <2>1, NoCommands DEF Procedure
<1>3. CASE fwTable = "none" /\ want # {}
  <2> DEFINE A == <<<<"nft", "table", 0>>, <<"nft", "chain", 0>>, <<"nft", "owner", 0>>>>
             B == missingFirewallRules("nft", want)
  <2>1. reconcileNFT(want) = A \o B
    BY <1>3 DEF reconcileNFT
  <2>2. Procedure(A, SetUp)
    BY SetUpCommands
  <2>3. Procedure(B, Adds("nft", want))
    BY Missing DEF Backends
  <2>4. \A c \in SetUp, d \in Adds("nft", want) : Follows(c, d)
    BY DEF SetUp, Adds, Follows, Setup
  <2> HIDE DEF A, B
  <2> QED
    BY <1>3, <2>1, <2>2, <2>3, <2>4, Glue DEF Procedure
<1>4. CASE fwTable = "owned"
  <2>1. reconcileNFT(want) = missingFirewallRules("nft", want) \o staleFirewallRules("nft", want)
    BY <1>4 DEF reconcileNFT
  <2> QED
    BY <1>4, <2>1, PlainCommands
<1>5. CASE fwTable = "chain" \/ (fwTable = "table" /\ want # {})
  <2>1. reconcileNFT(want) = <<<<"nft", "refuse", 0>>>>
    BY <1>5 DEF reconcileNFT
  <2> QED
    BY <1>5, <2>1, OneCommand
<1> QED
  BY <1>1, <1>2, <1>3, <1>4, <1>5

LEMMA PurgeTableCommands ==
  ASSUME FwType
  PROVE  \/ fwTable = "none" /\ Procedure(PurgeNFT, {})
         \/ fwTable = "owned" /\ Procedure(PurgeNFT, {<<"nft", "drop", 0>>})
         \/ fwTable \in {"table", "chain"} /\ Procedure(PurgeNFT, {<<"nft", "refuse", 0>>})
<1>1. fwTable \in {"none", "table", "chain", "owned"}
  BY DEF FwType
<1>2. /\ fwTable = "none" => PurgeNFT = <<>>
      /\ fwTable = "owned" => PurgeNFT = <<<<"nft", "drop", 0>>>>
      /\ fwTable \in {"table", "chain"} => PurgeNFT = <<<<"nft", "refuse", 0>>>>
  BY DEF PurgeNFT
<1> QED
  BY <1>1, <1>2, NoCommands, OneCommand DEF Procedure

LEMMA ReconcileCommands ==
  ASSUME FwType, NEW want \in SUBSET FwPorts
  PROVE  \/ fwActive = "ufw"
            /\ Procedure(reconcileRules(want), Adds("ufw", want) \cup Deletions(want))
         \/ fwActive \in {"firewalld", "iptables"}
            /\ Procedure(reconcileRules(want), Adds(fwActive, want) \cup Removes(fwActive, want))
         \/ /\ fwActive = "nft"
            /\ \/ fwTable \in {"none", "table"} /\ want = {} /\ Procedure(reconcileRules(want), {})
               \/ fwTable = "none" /\ Procedure(reconcileRules(want), SetUp \cup Adds("nft", want))
               \/ fwTable = "owned"
                  /\ Procedure(reconcileRules(want), Adds("nft", want) \cup Removes("nft", want))
               \/ Procedure(reconcileRules(want), {<<"nft", "refuse", 0>>})
         \/ fwActive = "none" /\ Procedure(reconcileRules(want), {})
<1>1. fwActive \in {"ufw", "firewalld", "nft", "iptables", "none"}
  BY DEF FwType, Backends
<1>2. CASE fwActive = "ufw"
  BY <1>2, UfwCommands DEF reconcileRules
<1>3. CASE fwActive = "firewalld"
  <2>1. reconcileRules(want) = missingFirewallRules("firewalld", want)
                               \o staleFirewallRules("firewalld", want)
    BY <1>3 DEF reconcileRules, reconcileFirewalld
  <2> QED
    BY <1>3, <2>1, PlainCommands
<1>4. CASE fwActive = "iptables"
  <2>1. reconcileRules(want) = missingFirewallRules("iptables", want)
                               \o staleFirewallRules("iptables", want)
    BY <1>4 DEF reconcileRules, reconcileIPTables
  <2> QED
    BY <1>4, <2>1, PlainCommands
<1>5. CASE fwActive = "nft"
  <2>1. reconcileRules(want) = reconcileNFT(want)
    BY <1>5 DEF reconcileRules
  <2> QED
    BY <1>5, <2>1, NftCommands
<1>6. CASE fwActive = "none"
  <2>1. reconcileRules(want) = <<>>
    BY <1>6 DEF reconcileRules
  <2> QED
    BY <1>6, <2>1, NoCommands DEF Procedure
<1> QED
  BY <1>1, <1>2, <1>3, <1>4, <1>5, <1>6

\* Commands that may come after anything.
Plain(d) == d[1] # "ufw" /\ d[2] \notin {"number", "table", "chain", "owner"}

LEMMA ThenPlain ==
  ASSUME NEW A, NEW S, NEW B, NEW T, Procedure(A, S), Procedure(B, T), \A d \in T : Plain(d)
  PROVE  Procedure(A \o B, S \cup T)
<1>1. \A c \in S, d \in T : Follows(c, d)
  BY DEF Follows, Plain, Setup
<1> QED
  BY <1>1, Glue DEF Procedure

LEMMA PurgeCommands ==
  ASSUME FwType
  PROVE  \E N : /\ Procedure(purgeRules,
                     (((IF fwActive = "ufw" THEN Deletions({}) ELSE {})
                       \cup (IF fwActive = "firewalld" THEN Removes("firewalld", {}) ELSE {}))
                      \cup N) \cup Removes("iptables", {}))
                /\ \/ fwTable = "none" /\ N = {}
                   \/ fwTable = "owned" /\ N = {<<"nft", "drop", 0>>}
                   \/ fwTable \in {"table", "chain"} /\ N = {<<"nft", "refuse", 0>>}
<1> DEFINE US == IF fwActive = "ufw" THEN Deletions({}) ELSE {}
           FS == IF fwActive = "firewalld" THEN Removes("firewalld", {}) ELSE {}
           IS == Removes("iptables", {})
           U == IF fwActive = "ufw" THEN reconcileUFW({}) ELSE <<>>
           F == IF fwActive = "firewalld" THEN reconcileFirewalld({}) ELSE <<>>
           I == reconcileIPTables({})
<1>1. \A b : Adds(b, {}) = {}
  BY DEF Adds
<1>2. {} \in SUBSET FwPorts
  OBVIOUS
<1>3. Procedure(U, US)
  <2>1. CASE fwActive = "ufw"
    <3>1. Procedure(reconcileUFW({}), Adds("ufw", {}) \cup Deletions({}))
      BY <1>2, UfwCommands
    <3>2. Adds("ufw", {}) \cup Deletions({}) = Deletions({})
      BY <1>1
    <3> QED
      BY <2>1, <3>1, <3>2
  <2>2. CASE fwActive # "ufw"
    BY <2>2, NoCommands DEF Procedure
  <2> QED
    BY <2>1, <2>2
<1>4. /\ reconcileFirewalld({}) = missingFirewallRules("firewalld", {})
                                  \o staleFirewallRules("firewalld", {})
      /\ I = missingFirewallRules("iptables", {}) \o staleFirewallRules("iptables", {})
  BY DEF reconcileFirewalld, reconcileIPTables
<1>5. \A b \in {"firewalld", "nft", "iptables"} : Adds(b, {}) \cup Removes(b, {}) = Removes(b, {})
  BY <1>1
<1>6. Procedure(reconcileFirewalld({}), Removes("firewalld", {})) /\ Procedure(I, IS)
  BY <1>2, <1>4, <1>5, PlainCommands
<1>7. Procedure(F, FS)
  <2>1. CASE fwActive = "firewalld"
    BY <1>6, <2>1
  <2>2. CASE fwActive # "firewalld"
    BY <2>2, NoCommands DEF Procedure
  <2> QED
    BY <2>1, <2>2
<1>8. PICK N : /\ Procedure(PurgeNFT, N)
               /\ \/ fwTable = "none" /\ N = {}
                  \/ fwTable = "owned" /\ N = {<<"nft", "drop", 0>>}
                  \/ fwTable \in {"table", "chain"} /\ N = {<<"nft", "refuse", 0>>}
  BY PurgeTableCommands
<1>9. \A d \in FS : Plain(d)
  BY DEF Removes, Plain
<1>10. \A d \in IS : Plain(d)
  BY DEF Removes, Plain
<1>11. \A d \in N : Plain(d)
  BY <1>8 DEF Plain
<1>12. purgeRules = ((U \o F) \o PurgeNFT) \o I
  BY DEF purgeRules
<1> HIDE DEF U, F, I, US, FS, IS
<1>13. Procedure(U \o F, US \cup FS)
  BY <1>3, <1>7, <1>9, ThenPlain
<1>14. Procedure((U \o F) \o PurgeNFT, (US \cup FS) \cup N)
  BY <1>8, <1>11, <1>13, ThenPlain
<1>15. Procedure(((U \o F) \o PurgeNFT) \o I, ((US \cup FS) \cup N) \cup IS)
  BY <1>6, <1>10, <1>14, ThenPlain
<1> QED
  BY <1>8, <1>12, <1>15 DEF US, FS, IS

(***************************************************************************)
(* The invariant.                                                          *)
(***************************************************************************)
LEMMA FwInvInit == ASSUME FwInit PROVE FwInv
<1>1. /\ Foreign \in Rule /\ <<Foreign>> \in Seq(Rule) /\ Len(<<Foreign>>) = 1
      /\ <<Foreign>>[1] = Foreign /\ <<>> \in Seq(Rule) /\ Len(<<>>) = 0
  BY EmptySeq DEF Foreign, Rule
<1>2. fwUfw = [v4 |-> <<Foreign>>, v6 |-> IF fwV6 THEN <<Foreign>> ELSE <<>>]
  BY DEF FwInit
<1>3. FwType
  <2>1. fwUfw \in [v4 : Seq(Rule), v6 : Seq(Rule)]
    BY <1>1, <1>2
  <2>2. fwDirect \in [firewalld : SUBSET FwPorts, iptables : SUBSET FwPorts]
    BY DEF FwInit
  <2>3. fwTodo \in Seq(Cmd)
    BY NoCommands DEF FwInit
  <2>4. fwFound \in [half : SUBSET FwPorts, moves : BOOLEAN]
    BY DEF FwInit
  <2> QED
    BY <2>1, <2>2, <2>3, <2>4 DEF FwInit, FwType
<1>4. fwTodo = <<>> /\ Elements(fwTodo) = {} /\ Ordered(fwTodo)
  BY NoCommands DEF FwInit
<1>5. Open("ufw") = {}
  <2>1. \A p \in FwPorts : Managed(p) # Foreign
    <3>1. \A p \in FwPorts : Managed(p).mine # Foreign.mine
      BY DEF Managed, Foreign
    <3> QED
      BY <3>1
  <2>2. UfwOpen("v4") = {}
    BY <1>1, <1>2, <2>1 DEF UfwOpen, Contains
  <2>3. UfwOpen("v6") = {}
    <3>1. fwUfw["v6"] = <<Foreign>> \/ fwUfw["v6"] = <<>>
      BY <1>2
    <3> QED
      BY <1>1, <2>1, <3>1 DEF UfwOpen, Contains
  <2> QED
    BY <2>2, <2>3 DEF Open
<1>6. FirewallAsReported
  <2>1. fwDirect.firewalld = {} /\ fwDirect.iptables = {} /\ fwTableRules = {} /\ fwWant = {}
        /\ ~fwPurging
    BY DEF FwInit
  <2>2. fwActive \in {"ufw", "firewalld", "nft", "iptables", "none"}
    BY DEF FwInit, Backends
  <2>3. Open(fwActive) = {}
    BY <1>3, <1>5, <2>1, <2>2, OpenPorts
  <2> QED
    BY <2>1, <2>3 DEF FirewallAsReported, SuccessIsExact
<1> QED
  BY <1>3, <1>4, <1>6 DEF FwInit, FwInv, UfwCommandsInv, UfwInv, TableInv, ReconcileInv, PurgeInv

LEMMA BeginFrame ==
  ASSUME FwInv, NEW want \in SUBSET FwPorts, NEW purging \in BOOLEAN, NEW q, NEW C,
         Begin(want, purging, q), Procedure(q, C)
  PROVE  /\ FwType' /\ Ordered(fwTodo)' /\ Elements(fwTodo)' = C /\ Elements(fwTodo') = C
         /\ fwWant' = want /\ fwPurging' = purging /\ fwResult' = "running"
         /\ fwActive' = fwActive /\ fwTable' = fwTable /\ fwTableRules' = fwTableRules
         /\ fwDirect' = fwDirect /\ fwUfw' = fwUfw /\ fwV6' = fwV6
         /\ fwFound'.moves = NumbersMove(want)
         /\ fwFound'.half = Open("ufw") \ (UfwOpen("v4") \cap UfwOpen("v6"))
         /\ UfwOpen("v4")' = UfwOpen("v4") /\ UfwOpen("v6")' = UfwOpen("v6")
         /\ Numbers(fwWant)' = Numbers(want) /\ Open(fwActive)' = Open(fwActive)
         /\ fwDirect'.firewalld # {} => fwActive' = "firewalld"
         /\ FirewallAsReported'
<1>1. /\ fwTodo' = q /\ fwWant' = want /\ fwPurging' = purging /\ fwResult' = "running"
      /\ UNCHANGED <<fwActive, fwV6, fwUfw, fwDirect, fwTable, fwTableRules>>
  BY DEF Begin, fwRules
<1>2. /\ fwFound'.moves = NumbersMove(want)
      /\ fwFound'.half = Open("ufw") \ (UfwOpen("v4") \cap UfwOpen("v6"))
      /\ fwFound' \in [half : SUBSET FwPorts, moves : BOOLEAN]
  <2>1. fwFound' = [half |-> Open("ufw") \ (UfwOpen("v4") \cap UfwOpen("v6")),
                    moves |-> NumbersMove(want)]
    BY DEF Begin, Open
  <2>2. NumbersMove(want) \in BOOLEAN /\ Open("ufw") \in SUBSET FwPorts
    BY OpenPorts DEF NumbersMove, FwInv
  <2> QED
    BY <2>1, <2>2
<1>3. FwType'
  BY <1>1, <1>2 DEF FwInv, FwType, Procedure
<1>4. Ordered(fwTodo)' /\ Elements(fwTodo)' = C /\ Elements(fwTodo') = C
  BY <1>1 DEF Procedure, Ordered, Elements
<1>5. Numbers(fwWant)' = Numbers(want)
  BY <1>1 DEF Numbers
<1>6. UfwOpen("v4")' = UfwOpen("v4") /\ UfwOpen("v6")' = UfwOpen("v6")
  BY <1>1 DEF UfwOpen
<1>7. Open(fwActive)' = Open(fwActive)
  BY <1>1, <1>6 DEF Open
<1>8. fwDirect'.firewalld # {} => fwActive' = "firewalld"
  BY <1>1 DEF FwInv
<1>9. FirewallAsReported'
  BY <1>1 DEF FirewallAsReported, SuccessIsExact
<1> QED
  BY <1>1, <1>2, <1>3, <1>4, <1>5, <1>6, <1>7, <1>8, <1>9

\* The numbers of a new run are those of stale rules, in the list as it is.
LEMMA StaleNumbers ==
  ASSUME FwType, NEW want, NEW n \in Numbers(want)
  PROVE  /\ n \in Nat \ {0} /\ n \in 1..Len(All) /\ Stale(All[n], want)
         /\ n \in 1..Len(fwUfw.v4) => fwUfw.v4[n].mine /\ Stale(fwUfw.v4[n], want)
<1>1. n \in 1..Len(All) /\ Stale(All[n], want)
  BY Listing
<1>2. Len(fwUfw.v4) \in Nat
  BY Listing
<1>3. n \in 1..Len(fwUfw.v4) => n <= Len(fwUfw.v4) /\ All[n] = fwUfw.v4[n]
  <2>1. n \in 1..Len(fwUfw.v4) => n <= Len(fwUfw.v4)
    BY <1>2
  <2> QED
    BY <1>1, <2>1, Listing
<1>4. n \in Nat \ {0}
  BY Listing
<1> QED
  BY <1>1, <1>3, <1>4 DEF Stale

\* What the commands are, and what there is a command for.
LEMMA CommandsAre ==
  ASSUME NEW b, NEW want
  PROVE  /\ \A c \in Adds(b, want) : c[1] = b /\ c[2] = "add" /\ c[3] \in want
         /\ \A c \in Removes(b, want) : c[1] = b /\ c[2] = "remove" /\ c[3] \notin want
         /\ \A c \in Deletions(want) : c[1] = "ufw" /\ c[2] = "number" /\ c[3] \in Numbers(want)
         /\ \A c \in SetUp : c[1] = "nft" /\ c[2] \in Setup
         /\ \A p \in want \ Open(b) : <<b, "add", p>> \in Adds(b, want)
         /\ \A p \in Open(b) \ want : <<b, "remove", p>> \in Removes(b, want)
         /\ \A n \in Numbers(want) : <<"ufw", "number", n>> \in Deletions(want)
         /\ <<"nft", "owner", 0>> \in SetUp
<1>1. \A c \in Adds(b, want) : c[1] = b /\ c[2] = "add" /\ c[3] \in want
  BY DEF Adds
<1>2. \A c \in Removes(b, want) : c[1] = b /\ c[2] = "remove" /\ c[3] \notin want
  BY DEF Removes
<1>3. \A c \in Deletions(want) : c[1] = "ufw" /\ c[2] = "number" /\ c[3] \in Numbers(want)
  BY DEF Deletions
<1>4. \A c \in SetUp : c[1] = "nft" /\ c[2] \in Setup
  BY DEF SetUp, Setup
<1>5. /\ \A p \in want \ Open(b) : <<b, "add", p>> \in Adds(b, want)
      /\ \A p \in Open(b) \ want : <<b, "remove", p>> \in Removes(b, want)
      /\ \A n \in Numbers(want) : <<"ufw", "number", n>> \in Deletions(want)
      /\ <<"nft", "owner", 0>> \in SetUp
  BY DEF Adds, Removes, Deletions, SetUp
<1> QED
  BY <1>1, <1>2, <1>3, <1>4, <1>5

LEMMA FwReconcile ==
  ASSUME FwInv, NEW want \in SUBSET FwPorts, Reconcile(want)
  PROVE  FwInv'
<1>0. FwType /\ TableInv
  BY DEF FwInv
<1>1. Begin(want, FALSE, reconcileRules(want))
  BY DEF Reconcile
<1>2. PurgeInv'
  BY <1>1 DEF Begin, PurgeInv
<1>3. CASE fwActive = "ufw"
           /\ Procedure(reconcileRules(want), Adds("ufw", want) \cup Deletions(want))
  <2> DEFINE C == Adds("ufw", want) \cup Deletions(want)
  <2>1. /\ FwType' /\ Ordered(fwTodo)' /\ Elements(fwTodo)' = C /\ Elements(fwTodo') = C
        /\ fwWant' = want /\ fwPurging' = FALSE /\ fwResult' = "running"
        /\ fwActive' = fwActive /\ fwTable' = fwTable /\ fwTableRules' = fwTableRules
        /\ Numbers(fwWant)' = Numbers(want) /\ Open(fwActive)' = Open(fwActive)
        /\ fwDirect'.firewalld # {} => fwActive' = "firewalld"
        /\ FirewallAsReported' /\ fwUfw' = fwUfw
        /\ fwFound'.moves = NumbersMove(want)
        /\ fwFound'.half = Open("ufw") \ (UfwOpen("v4") \cap UfwOpen("v6"))
        /\ UfwOpen("v4")' = UfwOpen("v4") /\ UfwOpen("v6")' = UfwOpen("v6")
    BY <1>1, <1>3, BeginFrame
  <2>2. \A c \in C : /\ c[1] = "ufw"
                     /\ \/ c[2] = "number" /\ c[3] \in Numbers(want)
                        \/ c[2] = "add" /\ c[3] \in want
    BY CommandsAre
  <2>3. /\ \A n \in Numbers(want) : <<"ufw", "number", n>> \in C
        /\ \A p \in want \ Open("ufw") : <<"ufw", "add", p>> \in C
        /\ \A c \in C : c[2] = "add" => want \ Open("ufw") # {}
        /\ \A c \in C : c[2] = "number" => c[3] \in Numbers(want)
    <3>1. \A c \in C : c[2] = "add" => want \ Open("ufw") # {}
      BY DEF Adds, Deletions
    <3> QED
      BY <3>1, CommandsAre
  <2>4. \A p : <<"nft", "add", p>> \notin C
    BY <2>2
  <2> HIDE DEF C
  <2>5. UfwCommandsInv' /\ UfwInv'
    <3>1. \A n \in Numbers(want) : n \in Nat \ {0} /\ (n \in 1..Len(fwUfw.v4) => fwUfw.v4[n].mine)
      BY <1>0, StaleNumbers
    <3>2. UfwCommandsInv'
      BY <1>3, <2>1, <2>2, <3>1 DEF UfwCommandsInv
    <3>3. ASSUME ~fwFound'.moves, NEW c \in C, NEW d \in C, c[2] = "add", d[2] = "number"
          PROVE  d[3] <= Len(fwUfw.v4)
      <4>1. ~(d[3] > Len(fwUfw.v4)) /\ d[3] \in Nat
        BY <1>3, <2>1, <2>3, <3>1, <3>3 DEF NumbersMove
      <4> QED
        BY <1>0, <4>1, Listing
    <3>4. ASSUME NEW p \in want \ fwFound'.half
          PROVE  p \in UfwOpen("v4") \cap UfwOpen("v6") \/ <<"ufw", "add", p>> \in C
      BY <2>1, <2>3
    <3> QED
      BY <2>1, <2>3, <3>2, <3>3, <3>4 DEF UfwInv
  <2>6. TableInv'
    BY <1>0, <2>1, <2>2, <2>4 DEF TableInv, Setup
  <2>7. ReconcileInv'
    BY <1>3, <2>1, <2>2, <2>3 DEF ReconcileInv
  <2> QED
    BY <1>2, <2>1, <2>5, <2>6, <2>7 DEF FwInv
<1>4. CASE fwActive \in {"firewalld", "iptables"}
           /\ Procedure(reconcileRules(want), Adds(fwActive, want) \cup Removes(fwActive, want))
  <2> DEFINE C == Adds(fwActive, want) \cup Removes(fwActive, want)
  <2>1. /\ FwType' /\ Ordered(fwTodo)' /\ Elements(fwTodo)' = C /\ Elements(fwTodo') = C
        /\ fwWant' = want /\ fwPurging' = FALSE /\ fwResult' = "running"
        /\ fwActive' = fwActive /\ fwTable' = fwTable /\ fwTableRules' = fwTableRules
        /\ Numbers(fwWant)' = Numbers(want) /\ Open(fwActive)' = Open(fwActive)
        /\ fwDirect'.firewalld # {} => fwActive' = "firewalld"
        /\ FirewallAsReported'
    BY <1>1, <1>4, BeginFrame
  <2>2. \A c \in C : /\ c[1] = fwActive
                     /\ \/ c[2] = "remove" /\ c[3] \notin want
                        \/ c[2] = "add" /\ c[3] \in want
    BY CommandsAre
  <2>3. /\ \A p \in want \ Open(fwActive) : <<fwActive, "add", p>> \in C
        /\ \A p \in Open(fwActive) \ want : <<fwActive, "remove", p>> \in C
    BY CommandsAre
  <2>4. \A p : <<"nft", "add", p>> \notin C
    BY <1>4, <2>2
  <2> HIDE DEF C
  <2>5. UfwCommandsInv' /\ UfwInv'
    BY <1>4, <2>1, <2>2, <2>3 DEF UfwCommandsInv, UfwInv
  <2>6. TableInv'
    BY <1>0, <2>1, <2>2, <2>4 DEF TableInv, Setup
  <2>7. ReconcileInv'
    BY <1>4, <2>1, <2>2, <2>3 DEF ReconcileInv
  <2> QED
    BY <1>2, <2>1, <2>5, <2>6, <2>7 DEF FwInv
<1>5. ASSUME fwActive = "nft", NEW C, Procedure(reconcileRules(want), C),
             \A c \in C : /\ c[1] = "nft" /\ c[2] \notin {"number", "drop"}
                          /\ c[2] = "add" => c[3] \in want
                          /\ c[2] = "remove" => c[3] \notin want
                          /\ c[2] \in Setup =>
                               fwTableRules = {} /\ <<"nft", "owner", 0>> \in C,
             (\E p : <<"nft", "add", p>> \in C) => fwTable = "owned" \/ <<"nft", "owner", 0>> \in C,
             \/ <<"nft", "refuse", 0>> \in C
             \/ /\ \A p \in want \ fwTableRules : <<"nft", "add", p>> \in C
                /\ \A p \in fwTableRules \ want : <<"nft", "remove", p>> \in C
      PROVE  FwInv'
  <2>1. /\ FwType' /\ Ordered(fwTodo)' /\ Elements(fwTodo)' = C /\ Elements(fwTodo') = C
        /\ fwWant' = want /\ fwPurging' = FALSE /\ fwResult' = "running"
        /\ fwActive' = fwActive /\ fwTable' = fwTable /\ fwTableRules' = fwTableRules
        /\ Numbers(fwWant)' = Numbers(want) /\ Open(fwActive)' = Open(fwActive)
        /\ fwDirect'.firewalld # {} => fwActive' = "firewalld"
        /\ FirewallAsReported'
    BY <1>1, <1>5, BeginFrame
  <2>2. Open("nft") = fwTableRules
    BY <1>0, OpenPorts
  <2>3. UfwCommandsInv' /\ UfwInv'
    BY <1>5, <2>1 DEF UfwCommandsInv, UfwInv
  <2>4. TableInv'
    BY <1>0, <1>5, <2>1 DEF TableInv
  <2>5. ReconcileInv'
    BY <1>5, <2>1, <2>2 DEF ReconcileInv, Refused
  <2> QED
    BY <1>2, <2>1, <2>3, <2>4, <2>5 DEF FwInv
<1>6. fwTable # "owned" => fwTableRules = {}
  BY <1>0 DEF TableInv
<1>7. Open("nft") = fwTableRules
  BY <1>0, OpenPorts
<1>8. CASE fwActive = "nft" /\ fwTable \in {"none", "table"} /\ want = {}
           /\ Procedure(reconcileRules(want), {})
  BY <1>5, <1>6, <1>8
<1>9. CASE fwActive = "nft" /\ fwTable = "none"
           /\ Procedure(reconcileRules(want), SetUp \cup Adds("nft", want))
  <2> DEFINE C == SetUp \cup Adds("nft", want)
  <2>1. \A c \in C : /\ c[1] = "nft" /\ c[2] \notin {"number", "drop", "remove"}
                     /\ c[2] = "add" => c[3] \in want
    BY CommandsAre DEF Setup
  <2>2. \A p \in want \ fwTableRules : <<"nft", "add", p>> \in C
    BY <1>7, CommandsAre
  <2>3. <<"nft", "owner", 0>> \in C
    BY CommandsAre
  <2>4. fwTableRules = {}
    BY <1>6, <1>9
  <2> HIDE DEF C
  <2> QED
    BY <1>5, <1>9, <2>1, <2>2, <2>3, <2>4 DEF C
<1>10. CASE fwActive = "nft" /\ fwTable = "owned"
            /\ Procedure(reconcileRules(want), Adds("nft", want) \cup Removes("nft", want))
  <2> DEFINE C == Adds("nft", want) \cup Removes("nft", want)
  <2>1. \A c \in C : /\ c[1] = "nft" /\ c[2] \in {"add", "remove"}
                     /\ c[2] = "add" => c[3] \in want
                     /\ c[2] = "remove" => c[3] \notin want
    BY CommandsAre
  <2>2. \A c \in C : c[2] \notin Setup \cup {"number", "drop"}
    BY <2>1 DEF Setup
  <2>3. /\ \A p \in want \ fwTableRules : <<"nft", "add", p>> \in C
        /\ \A p \in fwTableRules \ want : <<"nft", "remove", p>> \in C
    BY <1>7, CommandsAre
  <2> HIDE DEF C
  <2> QED
    BY <1>5, <1>10, <2>1, <2>2, <2>3 DEF C
<1>11. CASE fwActive = "nft" /\ Procedure(reconcileRules(want), {<<"nft", "refuse", 0>>})
  <2> DEFINE C == {<<"nft", "refuse", 0>>}
  <2>1. \A c \in C : c[1] = "nft" /\ c[2] = "refuse"
    OBVIOUS
  <2>2. \A c \in C : c[2] \notin Setup \cup {"number", "drop", "add", "remove"}
    BY <2>1 DEF Setup
  <2>3. <<"nft", "refuse", 0>> \in C
    OBVIOUS
  <2>4. \A p : <<"nft", "add", p>> \notin C
    OBVIOUS
  <2> HIDE DEF C
  <2> QED
    BY <1>5, <1>11, <2>1, <2>2, <2>3, <2>4 DEF C
<1>12. CASE fwActive = "none" /\ Procedure(reconcileRules(want), {})
  <2>1. /\ FwType' /\ Ordered(fwTodo)' /\ Elements(fwTodo)' = {} /\ Elements(fwTodo') = {}
        /\ fwWant' = want /\ fwPurging' = FALSE /\ fwResult' = "running"
        /\ fwActive' = fwActive /\ fwTable' = fwTable /\ fwTableRules' = fwTableRules
        /\ fwDirect'.firewalld # {} => fwActive' = "firewalld"
        /\ FirewallAsReported'
    BY <1>1, <1>12, BeginFrame
  <2>2. UfwCommandsInv' /\ UfwInv' /\ ReconcileInv'
    BY <1>12, <2>1 DEF UfwCommandsInv, UfwInv, ReconcileInv
  <2>3. TableInv'
    BY <1>0, <2>1 DEF TableInv
  <2> QED
    BY <1>2, <2>1, <2>2, <2>3 DEF FwInv
<1> QED
  BY <1>0, <1>3, <1>4, <1>8, <1>9, <1>10, <1>11, <1>12, ReconcileCommands

LEMMA FwPurge ==
  ASSUME FwInv, Purge
  PROVE  FwInv'
<1>0. FwType /\ TableInv
  BY DEF FwInv
<1> DEFINE US == IF fwActive = "ufw" THEN Deletions({}) ELSE {}
           FS == IF fwActive = "firewalld" THEN Removes("firewalld", {}) ELSE {}
           IS == Removes("iptables", {})
<1>1. PICK N : /\ Procedure(purgeRules, ((US \cup FS) \cup N) \cup IS)
               /\ \/ fwTable = "none" /\ N = {}
                  \/ fwTable = "owned" /\ N = {<<"nft", "drop", 0>>}
                  \/ fwTable \in {"table", "chain"} /\ N = {<<"nft", "refuse", 0>>}
  BY <1>0, PurgeCommands
<1> DEFINE C == ((US \cup FS) \cup N) \cup IS
<1>2. /\ FwType' /\ Ordered(fwTodo)' /\ Elements(fwTodo)' = C /\ Elements(fwTodo') = C
      /\ fwWant' = {} /\ fwPurging' = TRUE /\ fwResult' = "running"
      /\ fwActive' = fwActive /\ fwTable' = fwTable /\ fwTableRules' = fwTableRules
      /\ Numbers(fwWant)' = Numbers({}) /\ fwDirect' = fwDirect
      /\ fwDirect'.firewalld # {} => fwActive' = "firewalld"
      /\ FirewallAsReported' /\ fwUfw' = fwUfw
  <2>1. Begin({}, TRUE, purgeRules) /\ {} \in SUBSET FwPorts
    BY DEF Purge
  <2> HIDE DEF C
  <2> QED
    BY <1>1, <2>1, BeginFrame DEF C
<1>3. \A c \in C : /\ c[2] \in {"number", "remove", "drop", "refuse"}
                   /\ c[2] = "number" => c[1] = "ufw"
                   /\ c[2] = "drop" => c[1] = "nft"
                   /\ c[1] = "ufw" => fwActive = "ufw" /\ c[2] = "number" /\ c[3] \in Numbers({})
  <2>1. \A c \in US : fwActive = "ufw" /\ c[1] = "ufw" /\ c[2] = "number" /\ c[3] \in Numbers({})
    <3>1. \A c \in Deletions({}) : c[1] = "ufw" /\ c[2] = "number" /\ c[3] \in Numbers({})
      BY CommandsAre
    <3> QED
      BY <3>1
  <2>2. \A c \in FS : c[1] = "firewalld" /\ c[2] = "remove"
    BY CommandsAre
  <2>3. \A c \in IS : c[1] = "iptables" /\ c[2] = "remove"
    BY CommandsAre
  <2>4. \A c \in N : c[1] = "nft" /\ c[2] \in {"drop", "refuse"}
    BY <1>1
  <2> HIDE DEF US, FS, IS
  <2> QED
    BY <2>1, <2>2, <2>3, <2>4
<1>4. fwActive = "ufw" => \A n \in Numbers({}) : <<"ufw", "number", n>> \in C
  BY CommandsAre
<1>5. \A p \in fwDirect.firewalld : <<"firewalld", "remove", p>> \in C
  <2>1. fwDirect.firewalld # {} => fwActive = "firewalld"
    BY DEF FwInv
  <2>2. Open("firewalld") \ {} = fwDirect.firewalld
    BY <1>0, OpenPorts
  <2> QED
    BY <2>1, <2>2, CommandsAre
<1>6. \A p \in fwDirect.iptables : <<"iptables", "remove", p>> \in C
  <2>1. Open("iptables") \ {} = fwDirect.iptables
    BY <1>0, OpenPorts
  <2> QED
    BY <2>1, CommandsAre
<1>7. /\ fwTable = "owned" => <<"nft", "drop", 0>> \in C
      /\ fwTable \in {"table", "chain"} => <<"nft", "refuse", 0>> \in C
  BY <1>1
<1> HIDE DEF C
<1>8. UfwCommandsInv' /\ UfwInv'
  <2>1. \A n \in Numbers({}) : n \in Nat \ {0} /\ (n \in 1..Len(fwUfw.v4) => fwUfw.v4[n].mine)
    BY <1>0, StaleNumbers
  <2>2. UfwCommandsInv'
    BY <1>2, <1>3, <2>1 DEF UfwCommandsInv
  <2>3. \A c \in C : c[2] = "number" => c[3] \in Numbers({})
    BY <1>3
  <2> QED
    BY <1>2, <1>3, <1>4, <2>2, <2>3 DEF UfwInv
<1>9. TableInv'
  <2>1. \A c \in C : c[2] \notin Setup
    BY <1>3 DEF Setup
  <2>2. \A p : <<"nft", "add", p>> \notin C
    BY <1>3
  <2> QED
    BY <1>0, <1>2, <2>1, <2>2 DEF TableInv
<1>10. PurgeInv'
  BY <1>2, <1>3, <1>5, <1>6, <1>7 DEF PurgeInv, Refused
<1>11. ReconcileInv'
  BY <1>2 DEF ReconcileInv
<1> QED
  BY <1>2, <1>8, <1>9, <1>10, <1>11 DEF FwInv

(***************************************************************************)
(* A command.                                                              *)
(***************************************************************************)
LEMMA NextListing ==
  ASSUME NEW s \in Seq(Rule), NEW t \in Seq(Rule), fwUfw'.v4 = s, fwUfw'.v6 = t
  PROVE  Numbers(fwWant)' = {i \in 1..Len(s \o t) : Stale((s \o t)[i], fwWant')}
<1>1. DOMAIN (s \o t) = 1..Len(s \o t)
  BY ConcatProperties, LenProperties
<1> QED
  BY <1>1 DEF Numbers, Stale

LEMMA UfwAdds ==
  ASSUME FwType, NEW p \in fwWant, fwUfw' = Ufw(p), fwWant' = fwWant
  PROVE  /\ fwUfw' \in [v4 : Seq(Rule), v6 : Seq(Rule)]
         /\ \A f \in Families : \A x : Contains(fwUfw[f], x) => Contains(fwUfw'[f], x)
         /\ p \in UfwOpen("v4")' /\ (fwV6 => p \in UfwOpen("v6")')
         /\ Len(fwUfw'.v4) = Len(fwUfw.v4) + 1 /\ fwUfw'.v4[Len(fwUfw.v4) + 1].mine
         /\ \A i \in 1..Len(fwUfw.v4) : fwUfw'.v4[i] = fwUfw.v4[i]
         /\ (\A n \in Numbers(fwWant) : n <= Len(fwUfw.v4)) => Numbers(fwWant)' = Numbers(fwWant)
<1> DEFINE s == fwUfw.v4
           t == fwUfw.v6
           x == Managed(p)
           s2 == Append(s, x)
           t2 == IF fwV6 THEN Append(t, x) ELSE t
           k == Len(s)
           m == Len(t)
           m2 == Len(t2)
<1>1. s \in Seq(Rule) /\ t \in Seq(Rule) /\ x \in Rule /\ p \in FwPorts /\ x.mine
  BY DEF FwType, Managed, Rule
<1>2. /\ s2 \in Seq(Rule) /\ Len(s2) = k + 1 /\ s2[k + 1] = x /\ k \in Nat
      /\ \A i \in 1..k : s2[i] = s[i]
      /\ Contains(s2, x) /\ \A y : Contains(s, y) => Contains(s2, y)
  BY <1>1, Longer
<1>3. /\ t2 \in Seq(Rule) /\ m \in Nat /\ m2 \in Nat /\ m2 \in {m, m + 1}
      /\ \A i \in 1..m : t2[i] = t[i]
      /\ m2 = m + 1 => t2[m + 1] = x
      /\ fwV6 => Contains(t2, x)
      /\ \A y : Contains(t, y) => Contains(t2, y)
  <2>1. CASE fwV6
    BY <1>1, <2>1, Longer
  <2>2. CASE ~fwV6
    BY <1>1, <2>2, LenProperties
  <2> QED
    BY <2>1, <2>2
<1>4. fwUfw' = [v4 |-> s2, v6 |-> t2]
  BY DEF Ufw
<1> HIDE DEF s2, t2
<1>5. fwUfw'["v4"] = s2 /\ fwUfw'["v6"] = t2 /\ fwUfw["v4"] = s /\ fwUfw["v6"] = t
  BY <1>4
<1>6. \A f \in Families : \A y : Contains(fwUfw[f], y) => Contains(fwUfw'[f], y)
  BY <1>2, <1>3, <1>5 DEF Families
<1>7. p \in UfwOpen("v4")' /\ (fwV6 => p \in UfwOpen("v6")')
  BY <1>1, <1>2, <1>3, <1>5 DEF UfwOpen
<1>8. ASSUME \A n \in Numbers(fwWant) : n <= k PROVE Numbers(fwWant)' = Numbers(fwWant)
  <2> DEFINE q == s2 \o t2
  <2>1. Numbers(fwWant)' = {i \in 1..Len(q) : Stale(q[i], fwWant)}
    BY <1>2, <1>3, <1>5, NextListing
  <2>0. /\ Len(q) = Len(s2) + Len(t2)
        /\ \A i \in 1..Len(s2) + Len(t2) : q[i] = IF i <= Len(s2) THEN s2[i] ELSE t2[i - Len(s2)]
    BY <1>2, <1>3, ConcatProperties
  <2> HIDE DEF q
  <2>2. /\ Len(q) = k + 1 + m2
        /\ \A i \in 1..k + 1 + m2 : q[i] = IF i <= k + 1 THEN s2[i] ELSE t2[i - (k + 1)]
    BY <1>2, <2>0
  <2>3. /\ Numbers(fwWant) = {i \in 1..k + m : Stale(All[i], fwWant)}
        /\ \A i \in 1..k + m : All[i] = IF i <= k THEN s[i] ELSE t[i - k]
    BY Listing
  <2>4. ~Stale(x, fwWant)
    BY DEF Stale, Managed
  <2> HIDE DEF s, t, x, k, m, m2
  <2>5. ASSUME NEW i \in 1..k + 1 + m2, Stale(q[i], fwWant) PROVE i \in Numbers(fwWant)
    <3>1. CASE i <= k
      <4>1. i \in 1..k + m /\ q[i] = All[i]
        BY <1>2, <1>3, <2>2, <2>3, <3>1
      <4> QED
        BY <2>3, <2>5, <4>1
    <3>2. CASE i = k + 1
      BY <1>2, <2>2, <2>4, <2>5, <3>2
    <3>3. CASE i > k + 1
      <4> DEFINE j == i - (k + 1)
      <4>1. j \in 1..m2 /\ q[i] = t2[j]
        BY <1>2, <1>3, <2>2, <3>3
      <4>2. j \in 1..m
        BY <1>2, <1>3, <2>4, <2>5, <4>1
      <4>3. k + j \in 1..k + m /\ (k + j) - k = j /\ ~(k + j <= k)
        BY <1>2, <1>3, <4>2
      <4> HIDE DEF j
      <4>4. All[k + j] = t2[j]
        BY <1>3, <2>3, <4>2, <4>3
      <4>5. k + j \in Numbers(fwWant)
        BY <2>3, <2>5, <4>1, <4>3, <4>4
      <4> QED
        BY <1>2, <1>8, <4>2, <4>3, <4>5 DEF k, s
    <3> QED
      BY <1>2, <1>3, <3>1, <3>2, <3>3
  <2>6. ASSUME NEW n \in Numbers(fwWant) PROVE n \in 1..k + 1 + m2 /\ Stale(q[n], fwWant)
    <3>1. n \in 1..k + m /\ n <= k /\ Stale(All[n], fwWant)
      BY <1>8, <2>3 DEF k, s
    <3>2. n \in 1..k /\ n \in 1..k + 1 + m2 /\ n <= k + 1
      BY <1>2, <1>3, <3>1
    <3>3. q[n] = s2[n] /\ s2[n] = s[n] /\ All[n] = s[n]
      BY <1>2, <2>2, <2>3, <3>1, <3>2
    <3> QED
      BY <3>1, <3>2, <3>3
  <2> QED
    BY <2>1, <2>2, <2>5, <2>6
<1>9. /\ fwUfw' \in [v4 : Seq(Rule), v6 : Seq(Rule)]
      /\ Len(fwUfw'.v4) = k + 1 /\ fwUfw'.v4[k + 1].mine
      /\ \A i \in 1..k : fwUfw'.v4[i] = s[i]
  BY <1>1, <1>2, <1>3, <1>4
<1> QED
  BY <1>6, <1>7, <1>8, <1>9

\* What the deletion of a number does to the two lists.
LEMMA UfwLoses ==
  ASSUME FwType, NEW n \in Nat \ {0}, fwUfw' = UfwWithout(n)
  PROVE  \/ /\ n \in 1..Len(fwUfw.v4)
            /\ fwUfw' = [v4 |-> RemoveAt(fwUfw.v4, n), v6 |-> fwUfw.v6]
         \/ /\ n > Len(fwUfw.v4) /\ n - Len(fwUfw.v4) \in 1..Len(fwUfw.v6)
            /\ fwUfw' = [v4 |-> fwUfw.v4, v6 |-> RemoveAt(fwUfw.v6, n - Len(fwUfw.v4))]
         \/ n > Len(fwUfw.v4) + Len(fwUfw.v6) /\ fwUfw' = fwUfw
<1>1. /\ fwUfw = [v4 |-> fwUfw.v4, v6 |-> fwUfw.v6]
      /\ Len(fwUfw.v4) \in Nat /\ Len(fwUfw.v6) \in Nat
  <2>1. fwUfw = [v4 |-> fwUfw.v4, v6 |-> fwUfw.v6]
    BY DEF FwType
  <2> QED
    BY <2>1, Listing
<1>2. CASE n <= Len(fwUfw.v4)
  <2>1. ~(n > Len(fwUfw.v4)) /\ n \in 1..Len(fwUfw.v4)
    BY <1>1, <1>2
  <2>2. fwUfw' = [fwUfw EXCEPT !.v4 = RemoveAt(@, n)]
    BY <1>2, <2>1 DEF UfwWithout
  <2> QED
    BY <1>1, <2>1, <2>2
<1>3. CASE n > Len(fwUfw.v4) /\ n <= Len(fwUfw.v4) + Len(fwUfw.v6)
  <2>1. ~(n <= Len(fwUfw.v4))
    BY <1>1, <1>3
  <2>2. fwUfw' = [fwUfw EXCEPT !.v6 = RemoveAt(@, n - Len(fwUfw.v4))]
    BY <1>3, <2>1 DEF UfwWithout
  <2> QED
    BY <1>1, <1>3, <2>2
<1>4. CASE n > Len(fwUfw.v4) + Len(fwUfw.v6)
  <2>1. ~(n <= Len(fwUfw.v4)) /\ ~(n <= Len(fwUfw.v4) + Len(fwUfw.v6))
    BY <1>1, <1>4
  <2>2. fwUfw' = fwUfw
    BY <2>1 DEF UfwWithout
  <2> QED
    BY <1>4, <2>2
<1> QED
  BY <1>1, <1>2, <1>3, <1>4

\* However the numbers moved, a deletion takes one rule, and moves none before it.
LEMMA UfwDeletes ==
  ASSUME FwType, NEW n \in Nat \ {0}, fwUfw' = UfwWithout(n)
  PROVE  /\ fwUfw' \in [v4 : Seq(Rule), v6 : Seq(Rule)]
         /\ \A i \in 1..Len(fwUfw'.v4) :
              i < n => i \in 1..Len(fwUfw.v4) /\ fwUfw'.v4[i] = fwUfw.v4[i]
         /\ \A i \in Nat : i < n /\ n <= Len(fwUfw.v4) => i <= Len(fwUfw'.v4)
         /\ \A x : /\ n \in 1..Len(fwUfw.v4) => fwUfw.v4[n] # x
                   /\ Contains(fwUfw.v4, x)
                   => Contains(fwUfw'.v4, x)
<1>1. /\ fwUfw.v4 \in Seq(Rule) /\ fwUfw.v6 \in Seq(Rule)
      /\ Len(fwUfw.v4) \in Nat /\ Len(fwUfw.v6) \in Nat
      /\ fwUfw \in [v4 : Seq(Rule), v6 : Seq(Rule)]
  BY Listing DEF FwType
<1>2. CASE /\ n \in 1..Len(fwUfw.v4)
           /\ fwUfw' = [v4 |-> RemoveAt(fwUfw.v4, n), v6 |-> fwUfw.v6]
  <2> DEFINE r == RemoveAt(fwUfw.v4, n)
  <2>1. /\ r \in Seq(Rule) /\ Len(r) = Len(fwUfw.v4) - 1
        /\ \A i \in 1..Len(fwUfw.v4) - 1 : r[i] = IF i < n THEN fwUfw.v4[i] ELSE fwUfw.v4[i + 1]
    BY <1>1, <1>2, Removed
  <2>2. \A x : fwUfw.v4[n] # x /\ Contains(fwUfw.v4, x) => Contains(r, x)
    BY <1>1, <1>2, Kept
  <2>3. fwUfw' = [v4 |-> r, v6 |-> fwUfw.v6]
    BY <1>2
  <2> HIDE DEF r
  <2>4. fwUfw'.v4 = r /\ fwUfw' \in [v4 : Seq(Rule), v6 : Seq(Rule)]
    BY <1>1, <2>1, <2>3
  <2>5. n \in Nat /\ n <= Len(fwUfw.v4)
    BY <1>1, <1>2
  <2>6. ASSUME NEW i \in 1..Len(r), i < n PROVE i \in 1..Len(fwUfw.v4) /\ r[i] = fwUfw.v4[i]
    <3>1. i \in 1..Len(fwUfw.v4) - 1 /\ i \in 1..Len(fwUfw.v4)
      BY <1>1, <2>1
    <3> QED
      BY <2>1, <2>6, <3>1
  <2>7. ASSUME NEW i \in Nat, i < n PROVE i <= Len(r)
    BY <1>1, <2>1, <2>5, <2>7
  <2> QED
    BY <1>2, <2>2, <2>4, <2>6, <2>7
<1>3. CASE n > Len(fwUfw.v4) /\ fwUfw'.v4 = fwUfw.v4 /\ fwUfw' \in [v4 : Seq(Rule), v6 : Seq(Rule)]
  BY <1>1, <1>3
<1>4. CASE /\ n > Len(fwUfw.v4) /\ n - Len(fwUfw.v4) \in 1..Len(fwUfw.v6)
           /\ fwUfw' = [v4 |-> fwUfw.v4, v6 |-> RemoveAt(fwUfw.v6, n - Len(fwUfw.v4))]
  <2>1. RemoveAt(fwUfw.v6, n - Len(fwUfw.v4)) \in Seq(Rule)
    BY <1>1, <1>4, Removed
  <2> QED
    BY <1>1, <1>3, <1>4, <2>1
<1>5. CASE n > Len(fwUfw.v4) + Len(fwUfw.v6) /\ fwUfw' = fwUfw
  BY <1>1, <1>3, <1>5
<1> QED
  BY <1>2, <1>4, <1>5, UfwLoses

\* The deletion of a stale rule by its number.
LEMMA UfwDeletesStale ==
  ASSUME FwType, NEW n \in Numbers(fwWant), fwUfw' = UfwWithout(n), fwWant' = fwWant
  PROVE  /\ \A k \in Numbers(fwWant) : k < n => k \in Numbers(fwWant)'
         /\ \A k \in Numbers(fwWant)' : /\ k \in Nat
                                        /\ \/ k < n /\ k \in Numbers(fwWant)
                                           \/ k >= n /\ k + 1 \in Numbers(fwWant)
         /\ \A f \in Families : \A x :
              ~Stale(x, fwWant) /\ Contains(fwUfw[f], x) => Contains(fwUfw'[f], x)
<1> DEFINE u == fwUfw.v4
           w == fwUfw.v6
           u2 == fwUfw'.v4
           w2 == fwUfw'.v6
           s == u \o w
           t == u2 \o w2
           m == Len(s)
<1>0. s = All /\ m = Len(All)
  BY DEF All
<1>1. /\ u \in Seq(Rule) /\ w \in Seq(Rule) /\ s \in Seq(Rule)
      /\ m = Len(u) + Len(w) /\ Len(u) \in Nat /\ Len(w) \in Nat /\ m \in Nat
      /\ \A i \in 1..m : s[i] = IF i <= Len(u) THEN u[i] ELSE w[i - Len(u)]
      /\ Numbers(fwWant) = {i \in 1..m : Stale(s[i], fwWant)}
  <2> HIDE DEF s, m
  <2>1. m = Len(u) + Len(w) /\ Len(u) \in Nat /\ Len(w) \in Nat /\ m \in Nat
    BY <1>0, Sizes
  <2>2. u \in Seq(Rule) /\ w \in Seq(Rule) /\ s \in Seq(Rule)
    BY <1>0, Listing
  <2>3. /\ \A i \in 1..m : s[i] = IF i <= Len(u) THEN u[i] ELSE w[i - Len(u)]
        /\ Numbers(fwWant) = {i \in 1..m : Stale(s[i], fwWant)}
    BY <1>0, Listing
  <2> QED
    BY <2>1, <2>2, <2>3
<1>2. n \in 1..m /\ Stale(s[n], fwWant) /\ n \in Nat \ {0}
  <2> HIDE DEF s, m
  <2>1. n \in 1..m /\ Stale(s[n], fwWant)
    BY <1>0, Listing
  <2> QED
    BY <1>1, <2>1, Positions
<1>3. \/ n <= Len(u) /\ u2 = RemoveAt(u, n) /\ w2 = w
      \/ n > Len(u) /\ n - Len(u) \in 1..Len(w) /\ u2 = u /\ w2 = RemoveAt(w, n - Len(u))
  <2> HIDE DEF s, m
  <2>1. ~(n > Len(u) + Len(w))
    BY <1>1, <1>2, Positions
  <2>2. \/ n \in 1..Len(u) /\ u2 = RemoveAt(u, n) /\ w2 = w
        \/ n > Len(u) /\ n - Len(u) \in 1..Len(w) /\ u2 = u /\ w2 = RemoveAt(w, n - Len(u))
    <3>1. CASE /\ n \in 1..Len(u)
               /\ fwUfw' = [v4 |-> RemoveAt(u, n), v6 |-> w]
      BY <3>1
    <3>2. CASE /\ n > Len(u) /\ n - Len(u) \in 1..Len(w)
               /\ fwUfw' = [v4 |-> u, v6 |-> RemoveAt(w, n - Len(u))]
      BY <3>2
    <3> HIDE DEF u2, w2
    <3> QED
      BY <1>2, <2>1, <3>1, <3>2, UfwLoses
  <2>3. n \in 1..Len(u) => n <= Len(u)
    BY <1>1
  <2> QED
    BY <2>2, <2>3
<1> HIDE DEF u, w, u2, w2, s, m
<1>4. /\ u2 \in Seq(Rule) /\ w2 \in Seq(Rule) /\ Len(t) = m - 1
      /\ \A i \in 1..m - 1 : t[i] = IF i < n THEN s[i] ELSE s[i + 1]
  <2>1. n \in 1..Len(u) + Len(w)
    BY <1>1, <1>2
  <2>2. u2 \in Seq(Rule) /\ w2 \in Seq(Rule) /\ OneLess(u2 \o w2, u \o w, n)
    <3>1. \/ n <= Len(u) /\ u2 = RemoveAt(u, n) /\ w2 = w
          \/ n > Len(u) /\ u2 = u /\ w2 = RemoveAt(w, n - Len(u))
      BY <1>3
    <3>2. u \in Seq(Rule) /\ w \in Seq(Rule)
      BY <1>1
    <3> QED
      BY <2>1, <3>1, <3>2, RemovedFromBoth
  <2> QED
    BY <2>2 DEF s, t, m, OneLess
<1>5. Numbers(fwWant)' = {i \in 1..Len(t) : Stale(t[i], fwWant)}
  BY <1>4, NextListing DEF u2, w2
<1> HIDE DEF t
<1>6. ASSUME NEW k \in Numbers(fwWant), k < n PROVE k \in Numbers(fwWant)'
  <2>1. k \in 1..m /\ Stale(s[k], fwWant)
    BY <1>1
  <2>2. k \in 1..m - 1
    BY <1>1, <1>2, <1>6, <2>1
  <2>3. t[k] = s[k]
    BY <1>4, <1>6, <2>2
  <2> QED
    BY <1>4, <1>5, <2>1, <2>2, <2>3
<1>7. ASSUME NEW k \in Numbers(fwWant)'
      PROVE  k \in Nat /\ \/ k < n /\ k \in Numbers(fwWant)
                          \/ k >= n /\ k + 1 \in Numbers(fwWant)
  <2>1. k \in 1..m - 1 /\ Stale(t[k], fwWant)
    BY <1>4, <1>5
  <2>2. k \in 1..m /\ k + 1 \in 1..m /\ n \in Nat /\ k \in Nat
    BY <1>1, <1>2, <2>1
  <2>3. t[k] = IF k < n THEN s[k] ELSE s[k + 1]
    BY <1>4, <2>1
  <2>4. CASE k < n
    <3>1. Stale(s[k], fwWant)
      BY <2>1, <2>3, <2>4
    <3>2. k \in Numbers(fwWant)
      BY <1>1, <2>2, <3>1
    <3> QED
      BY <2>2, <2>4, <3>2
  <2>5. CASE ~(k < n)
    <3>1. k >= n
      BY <2>2, <2>5
    <3>2. Stale(s[k + 1], fwWant)
      BY <2>1, <2>3, <2>5
    <3>3. k + 1 \in Numbers(fwWant)
      BY <1>1, <2>2, <3>2
    <3> QED
      BY <2>2, <3>1, <3>3
  <2> QED
    BY <2>4, <2>5
<1>8. ASSUME NEW f \in Families, NEW x, ~Stale(x, fwWant), Contains(fwUfw[f], x)
      PROVE  Contains(fwUfw'[f], x)
  <2>1. x # s[n]
    BY <1>2, <1>8
  <2>2. CASE f = "v4"
    <3>1. n <= Len(u) => n \in 1..Len(u) /\ x # u[n]
      BY <1>1, <1>2, <2>1
    <3>2. Contains(u, x)
      BY <1>8, <2>2 DEF u
    <3>3. Contains(u2, x)
      BY <1>1, <1>3, <3>1, <3>2, Kept
    <3> QED
      BY <2>2, <3>3 DEF u2
  <2>3. CASE f = "v6"
    <3>1. n > Len(u) => x # w[n - Len(u)]
      BY <1>1, <1>2, <2>1
    <3>2. Contains(w, x)
      BY <1>8, <2>3 DEF w
    <3>3. Contains(w2, x)
      BY <1>1, <1>3, <3>1, <3>2, Kept
    <3> QED
      BY <2>3, <3>3 DEF w2
  <2> QED
    BY <2>2, <2>3 DEF Families
<1> QED
  BY <1>6, <1>7, <1>8

\* The command that runs, and those after it.
Now == Head(fwTodo)
Rest == Elements(Tail(fwTodo))

LEMMA CommandFrame ==
  ASSUME FwInv, Command
  PROVE  /\ Now \in Cmd /\ Now \in Elements(fwTodo) /\ Elements(fwTodo) = {Now} \cup Rest
         /\ Elements(fwTodo)' = Rest /\ Elements(fwTodo') = Rest
         /\ Ordered(fwTodo)' /\ fwTodo' \in Seq(Cmd)
         /\ \A d \in Rest : Follows(Now, d)
         /\ fwResult \in {"running", "error"} /\ (~fwPurging => fwResult = "running")
         /\ UNCHANGED <<fwActive, fwV6, fwWant, fwPurging, fwFound, fwResult>>
         /\ Now[1] \in Backends /\ Now[2] \in Kinds /\ Now[2] # "refuse"
<1>1. fwTodo \in Seq(Cmd) /\ fwTodo # <<>> /\ Ordered(fwTodo)
  BY DEF Command, FwInv, FwType
<1>2. /\ Now \in Cmd /\ Tail(fwTodo) \in Seq(Cmd) /\ Elements(fwTodo) = {Now} \cup Rest
      /\ Ordered(Tail(fwTodo)) /\ \A d \in Rest : Follows(Now, d)
  BY <1>1, HeadAndTail DEF Now, Rest
<1>3. /\ fwTodo' = Tail(fwTodo) /\ Now[2] # "refuse"
      /\ UNCHANGED <<fwActive, fwV6, fwWant, fwPurging, fwFound, fwResult>>
  BY DEF Command, Now, fwRun
<1>4. Elements(fwTodo)' = Rest /\ Elements(fwTodo') = Rest /\ Ordered(fwTodo)'
  BY <1>2, <1>3 DEF Elements, Ordered, Rest
<1>5. fwResult \in {"running", "error"} /\ (~fwPurging => fwResult = "running")
  BY <1>1 DEF FwInv, FwType, ReconcileInv, PurgeInv
<1>6. Now[1] \in Backends /\ Now[2] \in Kinds
  BY <1>2 DEF Cmd
<1> QED
  BY <1>2, <1>3, <1>4, <1>5, <1>6

\* What a command of the list can be.
LEMMA CommandIs ==
  ASSUME FwInv, NEW c \in Elements(fwTodo)
  PROVE  /\ c[2] = "add" => ~fwPurging /\ c[1] = fwActive /\ c[3] \in fwWant /\ c[3] \in FwPorts
         /\ c[2] = "remove" => c[3] \notin fwWant
         /\ c[2] \in Setup => ~fwPurging
         /\ c[2] = "drop" => c[1] = "nft" /\ fwPurging
         /\ c[2] = "number" => c[1] = "ufw"
         /\ c[1] = "ufw" => c[2] \in {"add", "number"} /\ fwActive = "ufw" /\ fwResult = "running"
         /\ fwPurging => fwWant = {}
<1>1. /\ c[2] = "number" => c[1] = "ufw"
      /\ c[1] = "ufw" => c[2] \in {"add", "number"} /\ fwActive = "ufw" /\ fwResult = "running"
  BY DEF FwInv, UfwCommandsInv
<1>2. CASE fwPurging
  <2>1. /\ fwWant = {} /\ c[2] \notin {"add", "table", "chain", "owner"}
        /\ c[2] = "drop" => c[1] = "nft"
    BY <1>2 DEF FwInv, PurgeInv
  <2> QED
    BY <1>1, <1>2, <2>1 DEF Setup
<1>3. CASE ~fwPurging
  <2>1. /\ c[1] = fwActive /\ c[2] # "drop"
        /\ c[2] = "add" => c[3] \in fwWant
        /\ c[2] = "remove" => c[3] \notin fwWant
    BY <1>3 DEF FwInv, ReconcileInv
  <2>2. fwWant \subseteq FwPorts
    BY DEF FwInv, FwType
  <2> QED
    BY <1>1, <1>3, <2>1, <2>2
<1> QED
  BY <1>2, <1>3

\* A backend opens what it is told to, and closes what it is told to, and nothing else.
Changes(b, old, new) ==
  /\ fwWant \cap old \subseteq new
  /\ new \ fwWant \subseteq old
  /\ Now[1] = b /\ Now[2] = "add" => Now[3] \in new
  /\ Now[1] = b /\ Now[2] = "remove" => Now[3] \notin new

LEMMA DirectCommand ==
  ASSUME FwInv, Command
  PROVE  /\ fwDirect' \in [firewalld : SUBSET FwPorts, iptables : SUBSET FwPorts]
         /\ Changes("firewalld", fwDirect.firewalld, fwDirect'.firewalld)
         /\ Changes("iptables", fwDirect.iptables, fwDirect'.iptables)
         /\ fwDirect'.firewalld # {} => fwActive = "firewalld"
<1>1. Now \in Elements(fwTodo)
  BY CommandFrame
<1>2. /\ Now[2] = "add" => ~fwPurging /\ Now[1] = fwActive /\ Now[3] \in fwWant /\ Now[3] \in FwPorts
      /\ Now[2] = "remove" => Now[3] \notin fwWant
  BY <1>1, CommandIs
<1>3. /\ fwDirect \in [firewalld : SUBSET FwPorts, iptables : SUBSET FwPorts]
      /\ fwDirect.firewalld # {} => fwActive = "firewalld"
  BY DEF FwInv, FwType
<1>4. DOMAIN fwDirect = {"firewalld", "iptables"}
  BY <1>3
<1>5. fwDirect' = CASE Now[1] \in {"firewalld", "iptables"} /\ Now[2] = "add" ->
                         [fwDirect EXCEPT ![Now[1]] = @ \cup {Now[3]}]
                    [] Now[1] \in {"firewalld", "iptables"} /\ Now[2] = "remove" ->
                         [fwDirect EXCEPT ![Now[1]] = @ \ {Now[3]}]
                    [] OTHER -> fwDirect
  BY <1>4 DEF Command, Now
<1>6. CASE Now[1] = "firewalld" /\ Now[2] = "add"
  <2>1. fwDirect' = [fwDirect EXCEPT !.firewalld = @ \cup {Now[3]}]
    BY <1>5, <1>6
  <2>2. fwDirect'.firewalld = fwDirect.firewalld \cup {Now[3]} /\ fwDirect'.iptables = fwDirect.iptables
    BY <1>3, <2>1
  <2> QED
    BY <1>2, <1>3, <1>6, <2>1, <2>2 DEF Changes
<1>7. CASE Now[1] = "iptables" /\ Now[2] = "add"
  <2>1. fwDirect' = [fwDirect EXCEPT !.iptables = @ \cup {Now[3]}]
    BY <1>5, <1>7
  <2>2. fwDirect'.iptables = fwDirect.iptables \cup {Now[3]} /\ fwDirect'.firewalld = fwDirect.firewalld
    BY <1>3, <2>1
  <2> QED
    BY <1>2, <1>3, <1>7, <2>1, <2>2 DEF Changes
<1>8. CASE Now[1] = "firewalld" /\ Now[2] = "remove"
  <2>1. fwDirect' = [fwDirect EXCEPT !.firewalld = @ \ {Now[3]}]
    BY <1>5, <1>8
  <2>2. fwDirect'.firewalld = fwDirect.firewalld \ {Now[3]} /\ fwDirect'.iptables = fwDirect.iptables
    BY <1>3, <2>1
  <2> QED
    BY <1>2, <1>3, <1>8, <2>1, <2>2 DEF Changes
<1>9. CASE Now[1] = "iptables" /\ Now[2] = "remove"
  <2>1. fwDirect' = [fwDirect EXCEPT !.iptables = @ \ {Now[3]}]
    BY <1>5, <1>9
  <2>2. fwDirect'.iptables = fwDirect.iptables \ {Now[3]} /\ fwDirect'.firewalld = fwDirect.firewalld
    BY <1>3, <2>1
  <2> QED
    BY <1>2, <1>3, <1>9, <2>1, <2>2 DEF Changes
<1>10. CASE ~(Now[1] \in {"firewalld", "iptables"} /\ Now[2] \in {"add", "remove"})
  <2>1. fwDirect' = fwDirect
    BY <1>5, <1>10
  <2> QED
    BY <1>3, <1>10, <2>1 DEF Changes
<1> QED
  BY <1>6, <1>7, <1>8, <1>9, <1>10

LEMMA TableCommand ==
  ASSUME FwInv, Command
  PROVE  /\ fwTable' \in {"none", "table", "chain", "owned"} /\ fwTableRules' \subseteq FwPorts
         /\ Changes("nft", fwTableRules, fwTableRules')
         /\ TableInv'
         /\ fwPurging => \/ fwTable' = "none"
                         \/ fwTable' = fwTable /\ Now # <<"nft", "drop", 0>>
<1>1. /\ Now \in Elements(fwTodo) /\ Elements(fwTodo) = {Now} \cup Rest /\ Elements(fwTodo)' = Rest
      /\ Elements(fwTodo') = Rest
      /\ \A d \in Rest : Follows(Now, d)
  BY CommandFrame
<1>2. /\ Now[2] = "add" => ~fwPurging /\ Now[1] = fwActive /\ Now[3] \in fwWant /\ Now[3] \in FwPorts
      /\ Now[2] = "remove" => Now[3] \notin fwWant
      /\ Now[2] \in Setup => ~fwPurging
      /\ Now[2] = "drop" => Now[1] = "nft" /\ fwPurging
      /\ fwPurging => fwWant = {}
  BY <1>1, CommandIs
<1>3. fwTable \in {"none", "table", "chain", "owned"} /\ fwTableRules \subseteq FwPorts
  BY DEF FwInv, FwType
<1>4. fwTable' = CASE Now[2] \in {"table", "chain"} -> Now[2]
                   [] Now[2] = "owner"              -> "owned"
                   [] Now[2] = "drop"               -> "none"
                   [] OTHER                         -> fwTable
  BY DEF Command, Now
<1>5. fwTableRules' = CASE Now[1] = "nft" /\ Now[2] = "add"    -> fwTableRules \cup {Now[3]}
                        [] Now[1] = "nft" /\ Now[2] = "remove" -> fwTableRules \ {Now[3]}
                        [] Now[1] = "nft" /\ Now[2] = "drop"   -> {}
                        [] OTHER                               -> fwTableRules
  BY DEF Command, Now
<1>6. /\ fwTable # "owned" => fwTableRules = {}
      /\ \A c \in Elements(fwTodo) :
           c[2] \in Setup => fwTableRules = {} /\ <<"nft", "owner", 0>> \in Elements(fwTodo)
      /\ (\E p : <<"nft", "add", p>> \in Elements(fwTodo)) =>
           fwTable = "owned" \/ <<"nft", "owner", 0>> \in Elements(fwTodo)
  BY DEF FwInv, TableInv
\* Nothing of the set-up comes after anything else, or after the mark.
<1>7. Now[2] \notin {"table", "chain"} => \A d \in Rest : d[2] \notin Setup
  BY <1>1 DEF Follows
<1>8. <<"nft", "owner", 0>> \in Rest => Now[2] \in {"table", "chain"}
  BY <1>7 DEF Setup
<1>9. CASE Now[2] \in {"table", "chain"}
  <2>1. fwTable' = Now[2] /\ fwTableRules' = fwTableRules /\ fwTableRules = {}
    BY <1>1, <1>4, <1>5, <1>6, <1>9 DEF Setup
  <2>2. <<"nft", "owner", 0>> \in Rest
    <3>1. <<"nft", "owner", 0>> \in {Now} \cup Rest
      BY <1>1, <1>6, <1>9 DEF Setup
    <3> QED
      BY <1>9, <3>1
  <2>3. TableInv'
    BY <1>1, <2>1, <2>2 DEF TableInv
  <2> QED
    BY <1>2, <1>3, <1>9, <2>1, <2>3 DEF Changes, Setup
<1>10. CASE Now[2] = "owner"
  <2>1. fwTable' = "owned" /\ fwTableRules' = fwTableRules
    BY <1>4, <1>5, <1>10
  <2>2. TableInv'
    BY <1>1, <1>7, <1>10, <2>1 DEF TableInv
  <2> QED
    BY <1>2, <1>3, <1>10, <2>1, <2>2 DEF Changes, Setup
<1>11. CASE Now[2] = "drop"
  <2>1. fwTable' = "none" /\ fwTableRules' = {}
    BY <1>2, <1>4, <1>5, <1>11
  <2>2. \A p : <<"nft", "add", p>> \notin Rest
    <3>1. \A c \in Elements(fwTodo) : c[2] # "add"
      BY <1>2, <1>11, CommandIs
    <3> QED
      BY <1>1, <3>1
  <2>3. TableInv'
    BY <1>1, <1>7, <1>11, <2>1, <2>2 DEF TableInv
  <2> QED
    BY <1>2, <1>3, <1>11, <2>1, <2>3 DEF Changes, Setup
<1>12. CASE Now[2] \notin Setup \cup {"drop"}
  <2>1. fwTable' = fwTable /\ Now # <<"nft", "drop", 0>>
    BY <1>4, <1>12 DEF Setup
  <2>2. fwTableRules' = CASE Now[1] = "nft" /\ Now[2] = "add"    -> fwTableRules \cup {Now[3]}
                          [] Now[1] = "nft" /\ Now[2] = "remove" -> fwTableRules \ {Now[3]}
                          [] OTHER                               -> fwTableRules
    BY <1>5, <1>12
  <2>3. fwTableRules' \subseteq FwPorts /\ Changes("nft", fwTableRules, fwTableRules')
    BY <1>2, <1>3, <2>2 DEF Changes
  <2>4. \A d \in Rest : d[2] \notin Setup
    BY <1>7, <1>12 DEF Setup
  <2>5. Now[1] = "nft" /\ Now[2] = "add" => fwTable = "owned"
    <3>1. ASSUME Now[1] = "nft", Now[2] = "add" PROVE fwTable = "owned"
      <4>1. Now = <<"nft", "add", Now[3]>>
        BY <3>1, CommandFrame DEF Cmd
      <4>2. <<"nft", "owner", 0>> \notin Elements(fwTodo)
        BY <1>1, <2>4, <4>1 DEF Setup
      <4> QED
        BY <1>1, <1>6, <4>1, <4>2
    <3> QED
      BY <3>1
  <2>6. fwTable # "owned" => fwTableRules' = {}
    BY <1>6, <2>2, <2>5
  <2>7. (\E p : <<"nft", "add", p>> \in Rest) => fwTable = "owned"
    <3>1. <<"nft", "owner", 0>> \notin Elements(fwTodo)
      BY <1>1, <1>12, <2>4 DEF Setup
    <3> QED
      BY <1>1, <1>6, <3>1
  <2>8. TableInv'
    BY <1>1, <2>1, <2>4, <2>6, <2>7 DEF TableInv
  <2> QED
    BY <1>3, <2>1, <2>3, <2>8
<1> QED
  BY <1>9, <1>10, <1>11, <1>12 DEF Setup

\* Rules of the Agent that are wanted, and rules that are not the Agent's, are not stale.
LEMMA NotStale ==
  ASSUME NEW want
  PROVE  ~Stale(Foreign, want) /\ \A p \in want : ~Stale(Managed(p), want)
BY DEF Stale, Foreign, Managed

LEMMA UfwCommand ==
  ASSUME FwInv, Command
  PROVE  /\ fwUfw' \in [v4 : Seq(Rule), v6 : Seq(Rule)]
         /\ UfwCommandsInv' /\ UfwInv'
         /\ Now[1] = "ufw" /\ Now[2] = "add" => Now[3] \in Open("ufw")'
         /\ ~fwFound.moves => \A f \in Families : UfwOpen(f) \cap fwWant \subseteq UfwOpen(f)'
         /\ \A f \in Families : Contains(fwUfw[f], Foreign) /\ (f = "v6" => ~fwFound.moves)
                                => Contains(fwUfw'[f], Foreign)
<1>1. /\ Now \in Elements(fwTodo) /\ Elements(fwTodo) = {Now} \cup Rest /\ Elements(fwTodo)' = Rest
      /\ Elements(fwTodo') = Rest
      /\ \A d \in Rest : Follows(Now, d)
      /\ fwActive' = fwActive /\ fwWant' = fwWant /\ fwResult' = fwResult /\ fwV6' = fwV6
      /\ fwFound' = fwFound /\ Now \in Cmd
  BY CommandFrame
<1>2. FwType /\ UfwCommandsInv /\ UfwInv
  BY DEF FwInv
<1>3. fwUfw' = CASE Now[1] = "ufw" /\ Now[2] = "add"    -> Ufw(Now[3])
                 [] Now[1] = "ufw" /\ Now[2] = "number" -> UfwWithout(Now[3])
                 [] OTHER                               -> fwUfw
  BY DEF Command, Now
<1>4. \A c \in Elements(fwTodo) :
        /\ c[2] = "number" => c[1] = "ufw"
        /\ c[1] = "ufw" => /\ fwResult = "running" /\ fwActive = "ufw"
                           /\ \/ /\ c[2] = "number" /\ c[3] \in Nat \ {0}
                                 /\ c[3] \in 1..Len(fwUfw.v4) => fwUfw.v4[c[3]].mine
                              \/ c[2] = "add" /\ c[3] \in fwWant
  BY <1>2 DEF UfwCommandsInv
<1>5. fwResult = "running" /\ fwActive = "ufw" /\ ~fwFound.moves =>
        /\ \A c \in Elements(fwTodo) : c[2] = "number" => c[3] \in Numbers(fwWant)
        /\ \A n \in Numbers(fwWant) : <<"ufw", "number", n>> \in Elements(fwTodo)
        /\ \A c, d \in Elements(fwTodo) : c[2] = "add" /\ d[2] = "number" => d[3] <= Len(fwUfw.v4)
        /\ fwV6 => \A p \in fwWant \ fwFound.half :
                      \/ p \in UfwOpen("v4") \cap UfwOpen("v6")
                      \/ <<"ufw", "add", p>> \in Elements(fwTodo)
  BY <1>2 DEF UfwInv
<1>6. Len(fwUfw.v4) \in Nat
  BY <1>2, Listing
\* A family keeps the ports open whose rules stay.
<1>7. ASSUME NEW f \in Families,
             \A p \in fwWant : Contains(fwUfw[f], Managed(p)) => Contains(fwUfw'[f], Managed(p))
      PROVE  UfwOpen(f) \cap fwWant \subseteq UfwOpen(f)'
  BY <1>7 DEF UfwOpen
<1>8. CASE Now[1] = "ufw" /\ Now[2] = "add"
  <2>1. fwUfw' = Ufw(Now[3]) /\ Now[3] \in fwWant /\ fwResult = "running" /\ fwActive = "ufw"
    BY <1>1, <1>3, <1>4, <1>8
  <2>2. /\ fwUfw' \in [v4 : Seq(Rule), v6 : Seq(Rule)]
        /\ \A f \in Families : \A x : Contains(fwUfw[f], x) => Contains(fwUfw'[f], x)
        /\ Now[3] \in UfwOpen("v4")' /\ (fwV6 => Now[3] \in UfwOpen("v6")')
        /\ Len(fwUfw'.v4) = Len(fwUfw.v4) + 1 /\ fwUfw'.v4[Len(fwUfw.v4) + 1].mine
        /\ \A i \in 1..Len(fwUfw.v4) : fwUfw'.v4[i] = fwUfw.v4[i]
        /\ (\A n \in Numbers(fwWant) : n <= Len(fwUfw.v4)) => Numbers(fwWant)' = Numbers(fwWant)
    BY <1>1, <1>2, <2>1, UfwAdds
  <2>3. \A f \in Families : UfwOpen(f) \cap fwWant \subseteq UfwOpen(f)'
    BY <1>7, <2>2
  <2>4. UfwCommandsInv'
    <3>1. ASSUME NEW i \in 1..Len(fwUfw'.v4), i \in 1..Len(fwUfw.v4) => fwUfw.v4[i].mine
          PROVE  fwUfw'.v4[i].mine
      <4>1. i \in 1..Len(fwUfw.v4) \/ i = Len(fwUfw.v4) + 1
        BY <1>6, <2>2
      <4> QED
        BY <2>2, <3>1, <4>1
    <3> QED
      BY <1>1, <1>4, <3>1 DEF UfwCommandsInv
  <2>5. UfwInv'
    <3>1. SUFFICES ASSUME ~fwFound.moves PROVE UfwInv'
      BY <1>1 DEF UfwInv
    <3>2. \A n \in Numbers(fwWant) : n <= Len(fwUfw.v4)
      BY <1>1, <1>5, <1>8, <2>1, <3>1
    <3>3. Numbers(fwWant)' = Numbers(fwWant)
      BY <2>2, <3>2
    <3>4. \A n : <<"ufw", "number", n>> # Now
      BY <1>8
    <3>5. ASSUME NEW c \in Rest, NEW d \in Rest, c[2] = "add", d[2] = "number"
          PROVE  d[3] <= Len(fwUfw'.v4)
      <4>1. d[3] <= Len(fwUfw.v4) /\ d[3] \in Nat
        BY <1>1, <1>4, <1>5, <2>1, <3>1, <3>5
      <4> QED
        BY <1>6, <2>2, <4>1
    <3>6. ASSUME fwV6, NEW p \in fwWant \ fwFound.half
          PROVE  \/ p \in UfwOpen("v4")' \cap UfwOpen("v6")'
                 \/ <<"ufw", "add", p>> \in Rest
      <4>1. CASE p \in UfwOpen("v4") \cap UfwOpen("v6")
        BY <2>3, <3>6, <4>1 DEF Families
      <4>2. CASE <<"ufw", "add", p>> \in Elements(fwTodo)
        <5>1. CASE <<"ufw", "add", p>> = Now
          <6>1. Now[3] = p
            BY <5>1
          <6> QED
            BY <2>2, <3>6, <6>1
        <5> QED
          BY <1>1, <4>2, <5>1
      <4> QED
        BY <1>5, <2>1, <3>1, <3>6, <4>1, <4>2
    <3>7. /\ \A c \in Rest : c[2] = "number" => c[3] \in Numbers(fwWant)'
          /\ \A n \in Numbers(fwWant)' : <<"ufw", "number", n>> \in Rest
      BY <1>1, <1>5, <2>1, <3>1, <3>3, <3>4
    <3> QED
      BY <1>1, <3>5, <3>6, <3>7 DEF UfwInv
  <2>6. Now[3] \in Open("ufw")'
    BY <2>2 DEF Open
  <2> QED
    BY <2>2, <2>3, <2>4, <2>5, <2>6
<1>9. CASE Now[1] = "ufw" /\ Now[2] = "number"
  <2> DEFINE n == Now[3]
  <2>1. /\ fwUfw' = UfwWithout(n) /\ n \in Nat \ {0} /\ fwResult = "running" /\ fwActive = "ufw"
        /\ n \in 1..Len(fwUfw.v4) => fwUfw.v4[n].mine
    BY <1>1, <1>3, <1>4, <1>9
  <2>2. \A d \in Rest : d[2] = "number" => n > d[3]
    BY <1>1, <1>9 DEF Follows
  <2>3. \A k : <<"ufw", "number", k>> = Now => k = n
    OBVIOUS
  <2>4. ~fwFound.moves => /\ n \in Numbers(fwWant)
                          /\ \A c \in Rest : c[2] = "add" => n <= Len(fwUfw.v4)
    BY <1>1, <1>5, <1>9, <2>1
  <2> HIDE DEF n
  <2>5. /\ fwUfw' \in [v4 : Seq(Rule), v6 : Seq(Rule)]
        /\ \A i \in 1..Len(fwUfw'.v4) :
             i < n => i \in 1..Len(fwUfw.v4) /\ fwUfw'.v4[i] = fwUfw.v4[i]
        /\ \A i \in Nat : i < n /\ n <= Len(fwUfw.v4) => i <= Len(fwUfw'.v4)
        /\ \A x : /\ n \in 1..Len(fwUfw.v4) => fwUfw.v4[n] # x
                  /\ Contains(fwUfw.v4, x)
                  => Contains(fwUfw'.v4, x)
    BY <1>2, <2>1, UfwDeletes
  <2>6. ~fwFound.moves =>
          /\ \A k \in Numbers(fwWant) : k < n => k \in Numbers(fwWant)'
          /\ \A k \in Numbers(fwWant)' : /\ k \in Nat
                                         /\ \/ k < n /\ k \in Numbers(fwWant)
                                            \/ k >= n /\ k + 1 \in Numbers(fwWant)
          /\ \A f \in Families : \A x :
               ~Stale(x, fwWant) /\ Contains(fwUfw[f], x) => Contains(fwUfw'[f], x)
    BY <1>1, <1>2, <2>1, <2>4, UfwDeletesStale
  <2>7. ~fwFound.moves => \A f \in Families : UfwOpen(f) \cap fwWant \subseteq UfwOpen(f)'
    BY <1>7, <2>6, NotStale
  <2>8. ASSUME NEW f \in Families, Contains(fwUfw[f], Foreign), f = "v6" => ~fwFound.moves
        PROVE  Contains(fwUfw'[f], Foreign)
    <3>1. CASE ~fwFound.moves
      BY <2>6, <2>8, <3>1, NotStale
    <3>2. CASE f = "v4"
      <4>1. n \in 1..Len(fwUfw.v4) => fwUfw.v4[n] # Foreign
        BY <2>1 DEF Foreign
      <4>2. Contains(fwUfw.v4, Foreign)
        BY <2>8, <3>2
      <4>3. Contains(fwUfw'.v4, Foreign)
        BY <2>5, <4>1, <4>2
      <4> QED
        BY <3>2, <4>3
    <3> QED
      BY <2>8, <3>1, <3>2 DEF Families
  <2>9. UfwCommandsInv'
    <3>1. ASSUME NEW d \in Rest, d[2] = "number", d[3] \in Nat \ {0},
                 d[3] \in 1..Len(fwUfw.v4) => fwUfw.v4[d[3]].mine, d[3] \in 1..Len(fwUfw'.v4)
          PROVE  fwUfw'.v4[d[3]].mine
      <4>1. d[3] < n
        BY <2>1, <2>2, <3>1
      <4> QED
        BY <2>5, <3>1, <4>1
    <3> QED
      BY <1>1, <1>4, <3>1 DEF UfwCommandsInv
  <2>10. UfwInv'
    <3>1. SUFFICES ASSUME ~fwFound.moves PROVE UfwInv'
      BY <1>1 DEF UfwInv
    <3>2. n \in Numbers(fwWant) /\ \A k \in Numbers(fwWant) : k \in Nat
      BY <1>2, <2>4, <3>1, Listing
    <3>3. ASSUME NEW d \in Rest, d[2] = "number" PROVE d[3] \in Numbers(fwWant)'
      <4>1. d[3] \in Numbers(fwWant) /\ d[3] < n
        BY <1>1, <1>5, <2>1, <2>2, <3>1, <3>2, <3>3
      <4> QED
        BY <2>6, <3>1, <4>1
    <3>4. ASSUME NEW k \in Numbers(fwWant)' PROVE <<"ufw", "number", k>> \in Rest
      <4>1. \A j \in Numbers(fwWant) : <<"ufw", "number", j>> \in {Now} \cup Rest
        BY <1>1, <1>5, <2>1, <3>1
      <4>2. k \in Nat /\ ((k < n /\ k \in Numbers(fwWant)) \/ (k >= n /\ k + 1 \in Numbers(fwWant)))
        BY <2>6, <3>1, <3>4
      <4>3. CASE k < n /\ k \in Numbers(fwWant)
        <5>1. k # n
          BY <2>1, <4>2, <4>3
        <5> QED
          BY <2>3, <4>1, <4>3, <5>1
      <4>4. CASE k >= n /\ k + 1 \in Numbers(fwWant)
        <5>1. k + 1 # n /\ ~(n > k + 1)
          BY <2>1, <4>2, <4>4
        <5>2. <<"ufw", "number", k + 1>> \in Rest
          BY <2>3, <4>1, <4>4, <5>1
        <5> QED
          BY <2>2, <5>1, <5>2
      <4> QED
        BY <4>2, <4>3, <4>4
    <3>5. ASSUME NEW c \in Rest, NEW d \in Rest, c[2] = "add", d[2] = "number"
          PROVE  d[3] <= Len(fwUfw'.v4)
      <4>1. d[3] \in Nat /\ d[3] < n /\ n <= Len(fwUfw.v4)
        BY <1>1, <1>4, <2>1, <2>2, <2>4, <3>1, <3>5
      <4> QED
        BY <2>5, <4>1
    <3>6. ASSUME fwV6, NEW p \in fwWant \ fwFound.half
          PROVE  \/ p \in UfwOpen("v4")' \cap UfwOpen("v6")'
                 \/ <<"ufw", "add", p>> \in Rest
      <4>1. <<"ufw", "add", p>> # Now
        BY <1>9
      <4> QED
        BY <1>1, <1>5, <2>1, <2>7, <3>1, <3>6, <4>1 DEF Families
    <3> QED
      BY <1>1, <3>3, <3>4, <3>5, <3>6 DEF UfwInv
  <2> QED
    BY <1>9, <2>5, <2>7, <2>8, <2>9, <2>10
<1>10. CASE Now[1] # "ufw" \/ Now[2] \notin {"add", "number"}
  <2>1. fwUfw' = fwUfw
    BY <1>3, <1>10
  <2>2. /\ Numbers(fwWant)' = Numbers(fwWant)
        /\ UfwOpen("v4")' = UfwOpen("v4") /\ UfwOpen("v6")' = UfwOpen("v6")
    BY <1>1, <2>1 DEF Numbers, UfwOpen
  <2>3. /\ \A n : <<"ufw", "number", n>> # Now
        /\ \A p : <<"ufw", "add", p>> # Now
    BY <1>10
  <2>4. UfwCommandsInv'
    BY <1>1, <1>4, <2>1 DEF UfwCommandsInv
  <2>5. UfwInv'
    BY <1>1, <1>5, <2>1, <2>2, <2>3 DEF UfwInv
  <2>6. \A f \in Families : UfwOpen(f)' = UfwOpen(f)
    BY <2>2 DEF Families
  <2> QED
    BY <1>2, <1>10, <2>1, <2>4, <2>5, <2>6 DEF FwType
<1> QED
  BY <1>8, <1>9, <1>10

\* The listing of the active backend moves as the commands say.
LEMMA ActiveCommand ==
  ASSUME FwInv, Command
  PROVE  /\ FwType'
         /\ ~fwFound.moves => fwWant \cap Open(fwActive) \subseteq Open(fwActive)'
         /\ Now[1] = fwActive /\ Now[2] = "add" => Now[3] \in Open(fwActive)'
         /\ fwActive # "ufw" =>
              /\ Open(fwActive)' \ fwWant \subseteq Open(fwActive)
              /\ Now[1] = fwActive /\ Now[2] = "remove" => Now[3] \notin Open(fwActive)'
<1>1. FwType /\ fwActive' = fwActive /\ fwV6' = fwV6 /\ fwFound' = fwFound
  BY CommandFrame DEF FwInv
<1>2. FwType'
  BY <1>1, CommandFrame, DirectCommand, TableCommand, UfwCommand DEF FwType
<1>3. fwActive \in {"ufw", "firewalld", "nft", "iptables", "none"}
  BY <1>1 DEF FwType, Backends
<1>4. /\ Open("nft") = fwTableRules /\ Open("firewalld") = fwDirect.firewalld
      /\ Open("iptables") = fwDirect.iptables /\ Open("none") = {}
  BY <1>1, OpenPorts
<1>5. /\ Open("nft")' = fwTableRules' /\ Open("firewalld")' = fwDirect'.firewalld
      /\ Open("iptables")' = fwDirect'.iptables /\ Open("none")' = {}
  BY DEF Open
<1>6. Open(fwActive)' = CASE fwActive = "ufw"       -> Open("ufw")'
                          [] fwActive = "firewalld" -> Open("firewalld")'
                          [] fwActive = "nft"       -> Open("nft")'
                          [] fwActive = "iptables"  -> Open("iptables")'
                          [] OTHER                  -> Open("none")'
  BY <1>1, <1>3 DEF Open
<1>7. CASE fwActive = "ufw"
  <2>1. /\ Open("ufw") = UfwOpen("v4") \cup UfwOpen("v6")
        /\ Open("ufw")' = UfwOpen("v4")' \cup UfwOpen("v6")'
    BY DEF Open
  <2>2. ~fwFound.moves => /\ UfwOpen("v4") \cap fwWant \subseteq UfwOpen("v4")'
                          /\ UfwOpen("v6") \cap fwWant \subseteq UfwOpen("v6")'
    BY UfwCommand DEF Families
  <2>3. ~fwFound.moves => fwWant \cap Open("ufw") \subseteq Open("ufw")'
    BY <2>1, <2>2
  <2> QED
    BY <1>2, <1>6, <1>7, <2>3, UfwCommand
<1>8. ASSUME NEW old, NEW new, Changes(fwActive, old, new), Open(fwActive) = old,
             Open(fwActive)' = new
      PROVE  /\ fwWant \cap Open(fwActive) \subseteq Open(fwActive)'
             /\ Now[1] = fwActive /\ Now[2] = "add" => Now[3] \in Open(fwActive)'
             /\ Open(fwActive)' \ fwWant \subseteq Open(fwActive)
             /\ Now[1] = fwActive /\ Now[2] = "remove" => Now[3] \notin Open(fwActive)'
  BY <1>8 DEF Changes
<1>9. CASE fwActive \in {"firewalld", "nft", "iptables"}
  <2>1. CASE fwActive = "firewalld"
    BY <1>2, <1>4, <1>5, <1>6, <1>8, <2>1, DirectCommand
  <2>2. CASE fwActive = "nft"
    BY <1>2, <1>4, <1>5, <1>6, <1>8, <2>2, TableCommand
  <2>3. CASE fwActive = "iptables"
    BY <1>2, <1>4, <1>5, <1>6, <1>8, <2>3, DirectCommand
  <2> QED
    BY <1>9, <2>1, <2>2, <2>3
<1>10. CASE fwActive = "none"
  <2>1. Open(fwActive)' = {} /\ Open(fwActive) = {}
    BY <1>4, <1>5, <1>6, <1>10
  <2>2. Now[1] # fwActive
    BY <1>10, CommandFrame DEF Backends
  <2> QED
    BY <1>2, <2>1, <2>2
<1> QED
  BY <1>3, <1>7, <1>9, <1>10

LEMMA FwCommand ==
  ASSUME FwInv, Command
  PROVE  FwInv'
<1>1. /\ Elements(fwTodo) = {Now} \cup Rest /\ Elements(fwTodo)' = Rest
      /\ Elements(fwTodo') = Rest /\ Ordered(fwTodo)' /\ fwTodo # <<>>
      /\ fwResult \in {"running", "error"} /\ (~fwPurging => fwResult = "running")
      /\ fwActive' = fwActive /\ fwWant' = fwWant /\ fwPurging' = fwPurging /\ fwResult' = fwResult
      /\ fwFound' = fwFound
      /\ Now[2] # "refuse"
  BY CommandFrame DEF Command
<1>2. ReconcileInv'
  <2>1. SUFFICES ASSUME ~fwPurging PROVE ReconcileInv'
    BY <1>1 DEF ReconcileInv
  <2>2. /\ fwResult = "running"
        /\ \A c \in Elements(fwTodo) :
             /\ c[1] = fwActive /\ c[2] # "drop"
             /\ c[2] = "add" => c[3] \in fwWant
             /\ c[2] = "remove" => c[3] \notin fwWant
        /\ fwActive # "none" /\ ~Refused /\ ~fwFound.moves =>
             /\ \A p \in fwWant \ Open(fwActive) : <<fwActive, "add", p>> \in Elements(fwTodo)
             /\ fwActive # "ufw" =>
                  \A p \in Open(fwActive) \ fwWant :
                    <<fwActive, "remove", p>> \in Elements(fwTodo)
    BY <1>1, <2>1 DEF FwInv, ReconcileInv
  <2>3. ~Refused' => ~Refused
    <3>1. <<"nft", "refuse", 0>> # Now
      BY <1>1
    <3> QED
      BY <1>1, <3>1 DEF Refused
  <2>4. ASSUME fwActive # "none", ~Refused', ~fwFound.moves, NEW p \in fwWant \ Open(fwActive)'
        PROVE  <<fwActive, "add", p>> \in Rest
    <3>1. p \notin Open(fwActive)
      BY <2>4, ActiveCommand
    <3>2. <<fwActive, "add", p>> \in {Now} \cup Rest
      BY <1>1, <2>2, <2>3, <2>4, <3>1
    <3>3. <<fwActive, "add", p>> # Now
      BY <2>4, ActiveCommand
    <3> QED
      BY <3>2, <3>3
  <2>5. ASSUME fwActive \notin {"none", "ufw"}, ~Refused', ~fwFound.moves,
               NEW p \in Open(fwActive)' \ fwWant
        PROVE  <<fwActive, "remove", p>> \in Rest
    <3>1. p \in Open(fwActive)
      BY <2>5, ActiveCommand
    <3>2. <<fwActive, "remove", p>> \in {Now} \cup Rest
      BY <1>1, <2>2, <2>3, <2>5, <3>1
    <3>3. <<fwActive, "remove", p>> # Now
      BY <2>5, ActiveCommand
    <3> QED
      BY <3>2, <3>3
  <2> QED
    BY <1>1, <2>2, <2>4, <2>5 DEF ReconcileInv
<1>3. PurgeInv'
  <2>1. SUFFICES ASSUME fwPurging PROVE PurgeInv'
    BY <1>1 DEF PurgeInv
  <2>2. /\ fwWant = {} /\ fwResult \in {"running", "error"}
        /\ \A c \in Elements(fwTodo) :
             /\ c[2] \notin {"add", "table", "chain", "owner"}
             /\ c[2] = "drop" => c[1] = "nft"
        /\ fwResult = "running" =>
             /\ \A p \in fwDirect.firewalld : <<"firewalld", "remove", p>> \in Elements(fwTodo)
             /\ \A p \in fwDirect.iptables : <<"iptables", "remove", p>> \in Elements(fwTodo)
             /\ fwTable = "owned" => <<"nft", "drop", 0>> \in Elements(fwTodo)
             /\ fwTable \in {"table", "chain"} => Refused
    BY <1>1, <2>1 DEF FwInv, PurgeInv
  <2>3. /\ fwDirect'.firewalld \subseteq fwDirect.firewalld
        /\ \A p \in fwDirect'.firewalld : <<"firewalld", "remove", p>> # Now
    BY <2>2, DirectCommand DEF Changes
  <2>4. /\ fwDirect'.iptables \subseteq fwDirect.iptables
        /\ \A p \in fwDirect'.iptables : <<"iptables", "remove", p>> # Now
    BY <2>2, DirectCommand DEF Changes
  <2>5. fwTable' = "none" \/ (fwTable' = fwTable /\ Now # <<"nft", "drop", 0>>)
    BY <2>1, TableCommand
  <2>6. Refused => Refused'
    <3>1. <<"nft", "refuse", 0>> # Now
      BY <1>1
    <3> QED
      BY <1>1, <3>1 DEF Refused
  <2>7. fwResult = "running" =>
          /\ \A p \in fwDirect'.firewalld : <<"firewalld", "remove", p>> \in Rest
          /\ \A p \in fwDirect'.iptables : <<"iptables", "remove", p>> \in Rest
          /\ fwTable' = "owned" => <<"nft", "drop", 0>> \in Rest
          /\ fwTable' \in {"table", "chain"} => Refused'
    BY <1>1, <2>2, <2>3, <2>4, <2>5, <2>6
  <2> QED
    BY <1>1, <2>2, <2>7 DEF PurgeInv
<1>4. FirewallAsReported'
  BY <1>1 DEF FirewallAsReported, SuccessIsExact
<1> QED
  BY <1>1, <1>2, <1>3, <1>4, ActiveCommand, DirectCommand, TableCommand, UfwCommand DEF FwInv

(***************************************************************************)
(* What ends a run.                                                        *)
(***************************************************************************)
\* A purge that fails with one backend does not come back to ufw, whose numbers may
\* have moved.
LEMMA NextCommands ==
  ASSUME FwType, Ordered(fwTodo), fwTodo # <<>>, NEW b, b = Head(fwTodo)[1]
  PROVE  /\ NextBackend(b) \in Seq(Cmd) /\ Ordered(NextBackend(b))
         /\ Elements(NextBackend(b)) \subseteq Elements(fwTodo)
         /\ \A c \in Elements(NextBackend(b)) : c[1] # "ufw"
<1> DEFINE N == {i \in 1..Len(fwTodo) + 1 : i = Len(fwTodo) + 1 \/ fwTodo[i][1] # b}
           n == Min(N)
           q == SubSeq(fwTodo, n, Len(fwTodo))
<1>1. fwTodo \in Seq(Cmd) /\ Len(fwTodo) \in Nat /\ 1 \in 1..Len(fwTodo) /\ Head(fwTodo) = fwTodo[1]
  BY HeadTailProperties, EmptySeq, LenProperties DEF FwType
<1>2. N \in SUBSET Nat /\ N # {}
  BY <1>1
<1>3. n \in N /\ \A m \in N : n <= m
  BY <1>2, LeastNumber DEF Min
<1>4. NextBackend(b) = q
  BY DEF NextBackend
<1>5. /\ q \in Seq(Cmd) /\ Ordered(q)
      /\ Elements(q) = {fwTodo[i] : i \in n..Len(fwTodo)}
  BY <1>1, <1>3, Later
<1>6. n \in 1..Len(fwTodo) + 1 /\ n # 1 /\ (n # Len(fwTodo) + 1 => fwTodo[n][1] # b)
  BY <1>1, <1>3
<1> HIDE DEF N, n, q
<1>7. Elements(q) \subseteq Elements(fwTodo)
  <2>1. n..Len(fwTodo) \subseteq 1..Len(fwTodo)
    BY <1>1, <1>6
  <2> QED
    BY <1>5, <2>1 DEF Elements
<1>8. ASSUME NEW c \in Elements(q) PROVE c[1] # "ufw"
  <2>1. PICK i \in n..Len(fwTodo) : c = fwTodo[i]
    BY <1>5
  <2>2. n \in 1..Len(fwTodo) /\ i \in 1..Len(fwTodo) /\ 1 < n /\ fwTodo[n][1] # b
    BY <1>1, <1>6, <2>1
  <2>3. Follows(fwTodo[1], fwTodo[n])
    BY <1>1, <2>2 DEF Ordered
  <2>4. fwTodo[n][1] # "ufw"
    BY <1>1, <2>2, <2>3 DEF Follows
  <2>5. CASE i = n
    BY <2>1, <2>4, <2>5
  <2>6. CASE i # n
    <3>1. n < i
      BY <2>1, <2>2, <2>6
    <3>2. Follows(fwTodo[n], fwTodo[i])
      BY <2>2, <3>1 DEF Ordered
    <3> QED
      BY <2>1, <2>4, <3>2 DEF Follows
  <2> QED
    BY <2>5, <2>6
<1> QED
  BY <1>4, <1>5, <1>7, <1>8

LEMMA FwCommandFails ==
  ASSUME FwInv, CommandFails
  PROVE  FwInv'
<1> DEFINE b == Head(fwTodo)[1]
           what == Head(fwTodo)[2]
<1>1. /\ FwType /\ Ordered(fwTodo) /\ TableInv /\ PurgeInv
      /\ fwDirect.firewalld # {} => fwActive = "firewalld"
  BY DEF FwInv
<1>2. /\ fwTodo # <<>> /\ fwResult' = "error"
      /\ fwTable' = IF what \in {"chain", "owner"} THEN "none" ELSE fwTable
      /\ fwTodo' = IF fwPurging THEN NextBackend(b) ELSE <<>>
      /\ UNCHANGED <<fwActive, fwV6, fwUfw, fwDirect, fwTableRules, fwWant, fwPurging, fwFound>>
  BY DEF CommandFails, fwRun
<1>3. Head(fwTodo) \in Elements(fwTodo)
  BY <1>1, <1>2, HeadAndTail DEF FwType
<1>4. what \in Setup => fwTableRules = {}
  BY <1>1, <1>3 DEF TableInv
<1> HIDE DEF what
<1>5. /\ fwTodo' \in Seq(Cmd) /\ Ordered(fwTodo)'
      /\ Elements(fwTodo') \subseteq Elements(fwTodo) /\ (~fwPurging => fwTodo' = <<>>)
      /\ \A c \in Elements(fwTodo') : fwPurging /\ c[1] # "ufw"
  <2>1. CASE fwPurging
    <3>1. /\ NextBackend(b) \in Seq(Cmd) /\ Ordered(NextBackend(b))
          /\ Elements(NextBackend(b)) \subseteq Elements(fwTodo)
          /\ \A c \in Elements(NextBackend(b)) : c[1] # "ufw"
      BY <1>1, <1>2, NextCommands
    <3>2. fwTodo' = NextBackend(b)
      BY <1>2, <2>1
    <3>3. Ordered(fwTodo)' <=> Ordered(fwTodo')
      BY DEF Ordered
    <3> HIDE DEF b
    <3> QED
      BY <2>1, <3>1, <3>2, <3>3
  <2>2. CASE ~fwPurging
    <3>1. fwTodo' = <<>>
      BY <1>2, <2>2
    <3>2. Ordered(fwTodo)' <=> Ordered(fwTodo')
      BY DEF Ordered
    <3> QED
      BY <2>2, <3>1, <3>2, NoCommands
  <2> QED
    BY <2>1, <2>2
<1>6. Elements(fwTodo)' = Elements(fwTodo')
  BY DEF Elements
<1>7. FwType'
  <2>1. fwTable' \in {"none", "table", "chain", "owned"}
    BY <1>1, <1>2 DEF FwType
  <2> QED
    BY <1>1, <1>2, <1>5, <2>1 DEF FwType
<1>8. UfwCommandsInv' /\ UfwInv'
  <2>1. \A c \in Elements(fwTodo') : c[2] = "number" => c[1] = "ufw"
    BY <1>5 DEF FwInv, UfwCommandsInv
  <2> QED
    BY <1>2, <1>5, <1>6, <2>1 DEF UfwCommandsInv, UfwInv
<1>9. \A c \in Elements(fwTodo') : /\ c[2] \notin {"add", "table", "chain", "owner"}
                                   /\ c[2] = "drop" => c[1] = "nft"
  BY <1>1, <1>5 DEF PurgeInv
<1>10. TableInv'
  <2>1. fwTable' # "owned" => fwTableRules = {}
    BY <1>1, <1>2, <1>4 DEF TableInv, Setup
  <2>2. \A c \in Elements(fwTodo') : c[2] \notin Setup
    BY <1>9 DEF Setup
  <2>3. \A p : <<"nft", "add", p>> \notin Elements(fwTodo')
    BY <1>9
  <2> QED
    BY <1>2, <1>6, <2>1, <2>2, <2>3 DEF TableInv
<1>11. ReconcileInv'
  <2>1. CASE fwPurging
    BY <1>2, <2>1 DEF ReconcileInv
  <2>2. CASE ~fwPurging
    BY <1>2, <1>5, <1>6, <2>2 DEF ReconcileInv
  <2> QED
    BY <2>1, <2>2
<1>12. PurgeInv'
  BY <1>1, <1>2, <1>6, <1>9 DEF PurgeInv
<1>13. FirewallAsReported'
  BY <1>2 DEF FirewallAsReported, SuccessIsExact
<1> QED
  BY <1>1, <1>2, <1>5, <1>7, <1>8, <1>10, <1>11, <1>12, <1>13 DEF FwInv

LEMMA NothingStale ==
  ASSUME FwType, Numbers(fwWant) = {}
  PROVE  Open("ufw") \subseteq fwWant
<1>1. SUFFICES ASSUME NEW p \in Open("ufw"), p \notin fwWant PROVE FALSE
  OBVIOUS
<1>2. Stale(Managed(p), fwWant)
  BY <1>1 DEF Stale, Managed
<1>4. /\ Len(fwUfw.v4) \in Nat /\ Len(fwUfw.v6) \in Nat
      /\ Len(All) = Len(fwUfw.v4) + Len(fwUfw.v6)
      /\ \A i \in 1..Len(All) :
           All[i] = IF i <= Len(fwUfw.v4) THEN fwUfw.v4[i] ELSE fwUfw.v6[i - Len(fwUfw.v4)]
  BY Listing
<1>5. \A i \in 1..Len(All) : Stale(All[i], fwWant) => i \in Numbers(fwWant)
  BY Listing
<1>3. \E i \in 1..Len(All) : All[i] = Managed(p)
  <2>1. CASE p \in UfwOpen("v4")
    <3>1. PICK i \in 1..Len(fwUfw.v4) : fwUfw.v4[i] = Managed(p)
      BY <2>1 DEF UfwOpen, Contains
    <3>2. i \in 1..Len(All) /\ i <= Len(fwUfw.v4)
      BY Sizes, Positions
    <3> QED
      BY <1>4, <3>1, <3>2
  <2>2. CASE p \in UfwOpen("v6")
    <3> DEFINE k == Len(fwUfw.v4)
    <3>1. PICK i \in 1..Len(fwUfw.v6) : fwUfw.v6[i] = Managed(p)
      BY <2>2 DEF UfwOpen, Contains
    <3> DEFINE m == Len(fwUfw.v6)
    <3>4. k \in Nat /\ m \in Nat /\ Len(All) = k + m /\ i \in 1..m
      BY Sizes, <3>1
    <3> HIDE DEF k, m
    <3>5. k + i \in 1..k + m /\ ~(k + i <= k) /\ (k + i) - k = i
      BY <3>4
    <3>2. k + i \in 1..Len(All) /\ ~(k + i <= k) /\ (k + i) - k = i
      BY <3>4, <3>5
    <3>3. All[k + i] = fwUfw.v6[(k + i) - k]
      BY <1>4, <3>2 DEF k
    <3> QED
      BY <3>1, <3>2, <3>3 DEF m
  <2> QED
    BY <1>1, <2>1, <2>2 DEF Open
<1> QED
  BY <1>2, <1>3, <1>5

\* A run that came to its end has done what it says.
LEMMA FwDoneStep ==
  ASSUME FwInv, FwDone
  PROVE  FwInv'
<1>1. /\ fwResult = "running" /\ fwTodo = <<>> /\ fwResult' = "ok" /\ fwTodo' = <<>>
      /\ UNCHANGED <<fwActive, fwV6, fwUfw, fwDirect, fwTable, fwTableRules, fwWant, fwPurging,
                     fwFound>>
  BY DEF FwDone, fwRules, fwRun
<1>2. FwType /\ Elements(fwTodo) = {} /\ Elements(fwTodo)' = {}
  BY <1>1, NoCommands DEF FwInv, Elements
<1>3. fwActive \in {"ufw", "firewalld", "nft", "iptables", "none"}
  BY <1>2 DEF FwType, Backends
<1>4. ~fwPurging /\ fwActive # "none" /\ ~fwFound.moves => Open(fwActive) = fwWant
  <2>1. SUFFICES ASSUME ~fwPurging, fwActive # "none", ~fwFound.moves
                 PROVE  Open(fwActive) = fwWant
    OBVIOUS
  <2>2. fwWant \subseteq Open(fwActive) /\ (fwActive # "ufw" => Open(fwActive) \subseteq fwWant)
    BY <1>1, <1>2, <2>1 DEF FwInv, ReconcileInv, Refused
  <2>3. CASE fwActive = "ufw"
    <3>1. Numbers(fwWant) = {}
      BY <1>1, <1>2, <2>1, <2>3 DEF FwInv, UfwInv
    <3>2. Open("ufw") \subseteq fwWant
      BY <1>2, <3>1, NothingStale
    <3> QED
      BY <2>2, <2>3, <3>2
  <2> QED
    BY <2>2, <2>3
<1>5. fwPurging => /\ fwTable = "none" /\ fwDirect.iptables = {} /\ fwDirect.firewalld = {}
                   /\ fwWant = {}
  BY <1>1, <1>2 DEF FwInv, FwType, PurgeInv, Refused
<1>6. fwPurging /\ ~fwFound.moves => Open(fwActive) = {}
  <2>1. SUFFICES ASSUME fwPurging, ~fwFound.moves PROVE Open(fwActive) = {}
    OBVIOUS
  <2>2. CASE fwActive = "ufw"
    <3>1. Numbers(fwWant) = {}
      BY <1>1, <1>2, <2>1, <2>2 DEF FwInv, UfwInv
    <3>2. Open("ufw") \subseteq fwWant
      BY <1>2, <3>1, NothingStale
    <3> QED
      BY <1>5, <2>1, <2>2, <3>2
  <2>3. CASE fwActive = "nft"
    BY <1>2, <1>5, <2>1, <2>3, OpenPorts DEF FwInv, TableInv
  <2>4. CASE fwActive \in {"firewalld", "iptables", "none"}
    BY <1>2, <1>5, <2>1, <2>4, OpenPorts
  <2> QED
    BY <1>3, <2>2, <2>3, <2>4
<1>7. FirewallAsReported'
  <2>1. UfwOpen("v4")' = UfwOpen("v4") /\ UfwOpen("v6")' = UfwOpen("v6")
    BY <1>1 DEF UfwOpen
  <2>2. Open(fwActive)' = Open(fwActive)
    BY <1>1, <2>1 DEF Open
  <2>3. fwPurging \in BOOLEAN /\ fwFound.moves \in BOOLEAN
    BY <1>2 DEF FwType
  <2>4. fwFound.moves \/ SuccessIsExact'
    BY <1>1, <1>4, <1>5, <1>6, <2>2, <2>3 DEF SuccessIsExact
  <2>5. fwActive = "ufw" /\ fwV6 /\ ~fwFound.moves =>
          fwWant \ fwFound.half \subseteq UfwOpen("v4") \cap UfwOpen("v6")
    BY <1>1, <1>2 DEF FwInv, UfwInv
  <2> QED
    BY <1>1, <1>5, <2>1, <2>4, <2>5 DEF FirewallAsReported
<1>8. FwType' /\ Ordered(fwTodo)'
  BY <1>1, <1>2, NoCommands DEF FwType, FwInv, Ordered
<1>9. UfwCommandsInv' /\ UfwInv' /\ ReconcileInv' /\ PurgeInv'
  BY <1>1, <1>2 DEF FwInv, UfwCommandsInv, UfwInv, ReconcileInv, PurgeInv
<1>10. TableInv'
  BY <1>1, <1>2 DEF FwInv, TableInv
<1>11. fwDirect'.firewalld # {} => fwActive' = "firewalld"
  BY <1>1 DEF FwInv
<1> QED
  BY <1>7, <1>8, <1>9, <1>10, <1>11 DEF FwInv

\* A run that was cut leaves nothing to do, and nobody hears of it.
LEMMA FwCut ==
  ASSUME FwInv, fwTodo' = <<>>, fwResult' = "cut", UNCHANGED <<fwV6, fwUfw, fwRun>>,
         fwActive' \in Backends \cup {"none"},
         fwDirect' \in [firewalld : SUBSET FwPorts, iptables : SUBSET FwPorts],
         fwDirect'.firewalld # {} => fwActive' = "firewalld",
         \/ fwTable' = fwTable /\ fwTableRules' = fwTableRules
         \/ fwTable' = "none" /\ fwTableRules' = {}
  PROVE  FwInv'
<1>1. Elements(fwTodo)' = {} /\ Ordered(fwTodo)'
  BY NoCommands DEF Elements, Ordered
<1>2. FwType'
  BY NoCommands DEF FwInv, FwType, fwRun
<1>3. UfwCommandsInv' /\ UfwInv' /\ ReconcileInv'
  BY <1>1 DEF UfwCommandsInv, UfwInv, ReconcileInv
<1>4. TableInv'
  BY <1>1 DEF FwInv, TableInv
<1>5. PurgeInv'
  BY <1>1 DEF FwInv, PurgeInv, fwRun
<1>6. FirewallAsReported'
  BY DEF FirewallAsReported, SuccessIsExact
<1> QED
  BY <1>1, <1>2, <1>3, <1>4, <1>5, <1>6 DEF FwInv

LEMMA FwInvNext == ASSUME FwInv, [FwNext]_fwVars PROVE FwInv'
<1>0. /\ FwType
      /\ fwDirect \in [firewalld : SUBSET FwPorts, iptables : SUBSET FwPorts]
      /\ fwActive \in Backends \cup {"none"}
      /\ fwDirect.firewalld # {} => fwActive = "firewalld"
  BY DEF FwInv, FwType
<1>1. CASE \E want \in SUBSET FwPorts : Reconcile(want)
  BY <1>1, FwReconcile
<1>2. CASE Purge
  BY <1>2, FwPurge
<1>3. CASE Command
  BY <1>3, FwCommand
<1>4. CASE CommandFails
  BY <1>4, FwCommandFails
<1>5. CASE FwDone
  BY <1>5, FwDoneStep
<1>6. CASE FwCrash
  <2>1. /\ fwTodo' = <<>> /\ fwResult' = "cut"
        /\ UNCHANGED <<fwActive, fwV6, fwUfw, fwDirect, fwTable, fwTableRules, fwRun>>
    BY <1>6 DEF FwCrash, fwRules
  <2> QED
    BY <1>0, <2>1, FwCut
<1>7. CASE FwReboot
  <2>1. /\ fwTodo' = <<>> /\ fwResult' = "cut" /\ fwTable' = "none" /\ fwTableRules' = {}
        /\ fwDirect' = [firewalld |-> {}, iptables |-> {}]
        /\ UNCHANGED <<fwActive, fwV6, fwUfw, fwRun>>
    BY <1>7 DEF FwReboot
  <2>2. /\ fwDirect' \in [firewalld : SUBSET FwPorts, iptables : SUBSET FwPorts]
        /\ fwDirect'.firewalld = {}
    BY <2>1
  <2> QED
    BY <1>0, <2>1, <2>2, FwCut
<1>8. CASE \E b \in Backends \cup {"none"} : SwitchBackend(b)
  <2>1. PICK b \in Backends \cup {"none"} : SwitchBackend(b)
    BY <1>8
  <2>2. /\ fwTodo' = <<>> /\ fwResult' = "cut" /\ fwActive' = b
        /\ fwDirect' = IF fwActive = "firewalld" THEN [fwDirect EXCEPT !.firewalld = {}]
                       ELSE fwDirect
        /\ UNCHANGED <<fwV6, fwUfw, fwTable, fwTableRules, fwRun>>
    BY <2>1 DEF SwitchBackend
  <2>3. /\ fwDirect' \in [firewalld : SUBSET FwPorts, iptables : SUBSET FwPorts]
        /\ fwDirect'.firewalld = {}
    <3>1. CASE fwActive = "firewalld"
      BY <1>0, <2>2, <3>1
    <3>2. CASE fwActive # "firewalld"
      BY <1>0, <2>2, <3>2
    <3> QED
      BY <3>1, <3>2
  <2> QED
    BY <2>2, <2>3, FwCut
<1>9. CASE UNCHANGED fwVars
  <2>1. UNCHANGED <<fwActive, fwV6, fwUfw, fwDirect, fwTable, fwTableRules, fwWant, fwPurging,
                    fwFound, fwTodo, fwResult>>
    BY <1>9 DEF fwVars, fwRules, fwRun
  <2>2. /\ Elements(fwTodo)' = Elements(fwTodo) /\ Numbers(fwWant)' = Numbers(fwWant)
        /\ UfwOpen("v4")' = UfwOpen("v4") /\ UfwOpen("v6")' = UfwOpen("v6")
        /\ Open(fwActive)' = Open(fwActive)
    BY <2>1 DEF Elements, Numbers, Open, UfwOpen
  <2>3. FwType' /\ Ordered(fwTodo)'
    BY <2>1 DEF FwInv, FwType, Ordered
  <2>4. UfwCommandsInv' /\ UfwInv' /\ TableInv'
    BY <2>1, <2>2 DEF FwInv, UfwCommandsInv, UfwInv, TableInv
  <2>5. ReconcileInv' /\ PurgeInv'
    BY <2>1, <2>2 DEF FwInv, ReconcileInv, PurgeInv, Refused
  <2>6. FirewallAsReported'
    BY <2>1, <2>2 DEF FwInv, FirewallAsReported, SuccessIsExact
  <2> QED
    BY <2>1, <2>3, <2>4, <2>5, <2>6 DEF FwInv
<1> QED
  BY <1>1, <1>2, <1>3, <1>4, <1>5, <1>6, <1>7, <1>8, <1>9 DEF FwNext

LEMMA FwInvariant == FwSpec => []FwInv
<1>1. FwInit => FwInv
  BY FwInvInit
<1>2. FwInv /\ [FwNext]_fwVars => FwInv'
  BY FwInvNext
<1> QED
  BY <1>1, <1>2, PTL DEF FwSpec

Counted == fwFaults \in Nat

LEMMA FaultsAreCounted == FwSpec => []Counted
<1>1. FwInit => Counted
  BY DEF FwInit, Counted
<1>2. Counted /\ [FwNext]_fwVars => Counted'
  <2>1. SUFFICES ASSUME Counted, [FwNext]_fwVars PROVE fwFaults' \in {fwFaults, fwFaults + 1}
    BY DEF Counted
  <2> QED
    BY <2>1 DEF FwNext, fwVars, Reconcile, Purge, Begin, Command, CommandFails, FwDone, FwCrash,
                FwReboot, SwitchBackend
<1> QED
  BY <1>1, <1>2, PTL DEF FwSpec

\* What runFirewallCommands and purge report is so: a reconciliation that reports success
\* left exactly the wanted ports open, a purge left no managed rule, whatever failed, was
\* cut or rebooted before; but for the runs whose additions move the numbers they delete
\* by, and for ports found open in one family of ufw (SuccessMeansReconciled says it
\* without exception, and fails).
THEOREM FirewallReportsAreTrue == FwSpec => []FirewallAsReported
<1>1. FwInv => FirewallAsReported
  BY DEF FwInv
<1> QED
  BY <1>1, FwInvariant, PTL

\* ufw's deletions by number (reconcileUFW), the highest first, never meet an IPv4 rule of
\* the administrator, though additions and deletions move the numbers behind them; and
\* an IPv6 rule only in a run whose additions move the numbers it deletes by.
THEOREM ForeignRulesSurvive == FwSpec => ForeignRulesStay
<1> DEFINE Stay == \A f \in Families :
                     Contains(fwUfw[f], Foreign) /\ (f = "v6" => ~fwFound.moves)
                     => Contains(fwUfw[f], Foreign)'
<1>1. FwInv /\ [FwNext]_fwVars => [Stay]_fwVars
  <2>1. SUFFICES ASSUME FwInv, FwNext PROVE Stay
    OBVIOUS
  <2>2. CASE Command
    <3>1. \A f \in Families : Contains(fwUfw[f], Foreign)' <=> Contains(fwUfw'[f], Foreign)
      BY DEF Contains
    <3> QED
      BY <2>1, <2>2, <3>1, UfwCommand
  <2>3. CASE ~Command
    <3>1. fwUfw' = fwUfw
      BY <2>1, <2>3 DEF FwNext, Reconcile, Purge, Begin, CommandFails, FwDone, FwCrash, FwReboot,
                        SwitchBackend, fwRules
    <3> QED
      BY <3>1 DEF Contains
  <2> QED
    BY <2>2, <2>3
<1> QED
  BY <1>1, FwInvariant, PTL DEF FwSpec, ForeignRulesStay

\* A port that is open and still wanted stays open, in each family of ufw as well, at every
\* step of a run that loses no command: stale rules are deleted by what they are, or by a
\* number that is still theirs; but for the runs whose additions move the numbers.
THEOREM WantedPortsStay == FwSpec => WantedStaysOpen
<1> DEFINE Stays == fwTodo # <<>> /\ fwFaults' = fwFaults /\ ~fwFound.moves => WantedNotClosed
<1>1. FwInv /\ Counted /\ [FwNext]_fwVars => [Stays]_fwVars
  <2>1. SUFFICES ASSUME FwInv, Counted, FwNext, fwTodo # <<>>, fwFaults' = fwFaults,
                        ~fwFound.moves
                 PROVE  WantedNotClosed
    OBVIOUS
  <2>2. CASE Command
    BY <2>1, <2>2, ActiveCommand, UfwCommand DEF WantedNotClosed
  <2>3. CASE CommandFails
    <3>1. UNCHANGED <<fwActive, fwUfw, fwDirect, fwTableRules>>
      BY <2>3 DEF CommandFails
    <3>2. \A f \in Families : UfwOpen(f)' = UfwOpen(f)
      BY <3>1 DEF UfwOpen
    <3>3. Open(fwActive)' = Open(fwActive)
      BY <3>1, <3>2 DEF Open, Families
    <3> QED
      BY <3>2, <3>3 DEF WantedNotClosed
  <2>4. ~\E want \in SUBSET FwPorts : Reconcile(want)
    BY <2>1 DEF Reconcile, Begin
  <2>5. ~Purge /\ ~FwDone
    BY <2>1 DEF Purge, Begin, FwDone
  <2>6. ~FwCrash /\ ~FwReboot
    BY <2>1 DEF FwCrash, FwReboot, Counted
  <2>7. ~\E b \in Backends \cup {"none"} : SwitchBackend(b)
    BY <2>1 DEF SwitchBackend
  <2> QED
    BY <2>1, <2>2, <2>3, <2>4, <2>5, <2>6, <2>7 DEF FwNext
<1> QED
  BY <1>1, FwInvariant, FaultsAreCounted, PTL DEF FwSpec, WantedStaysOpen
=============================================================================
