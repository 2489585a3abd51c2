--------------------------- MODULE ManagedRuntime ---------------------------
(***************************************************************************)
(* The managed services of one VPS: how the Agent brings Xray, Realm, the  *)
(* blocking of China and the ACME certificate to the desired state, and    *)
(* how it removes itself after a decommission (cmd/agent/xray.go, realm.go,*)
(* china_firewall.go, acme.go, config_sync.go, self_uninstall.go).         *)
(*                                                                         *)
(* Each procedure of the code is a program: the sequence of its operations *)
(* in the order of the source.  Step does the next one, StepFails fails it *)
(* and goes where the code's error path goes, Crash ends the Agent between *)
(* two operations, Reboot ends everything on the VPS.                      *)
(***************************************************************************)
EXTENDS Naturals, Sequences

CONSTANTS
    Ports,       \* ports a service may listen on
    Jobs,        \* desired states the Panel may ask for
    MaxChanges,  \* bound: changes of the desired state
    MaxFaults,   \* bound: failed operations, crashes, reboots, service restarts
    None         \* no value

\* What one service is asked to do: run a configuration, stop, or be removed.
Config == [port : Ports, cred : {1, 2}, tls : BOOLEAN]
Target == [do : {"run"}, config : Config] \cup [do : {"stop", "purge"}]
Job == [xray : Target, realm : Target, block : BOOLEAN, decommission : BOOLEAN]

Services == {"xray", "realm"}
Parts == Services \cup {"china", "acme", "agent"}

\* A decommission asks both services to be removed and nothing to be blocked; the
\* mark for no value is a value of its own.
ASSUME JobsAssumption ==
    /\ Jobs \subseteq Job
    /\ \A j \in Jobs : j.decommission => j.xray.do = "purge" /\ j.realm.do = "purge" /\ ~j.block
    /\ MaxChanges \in Nat /\ MaxFaults \in Nat
    /\ None \notin Job \cup Config \cup Parts \cup {"split", "valid", "due"}

VARIABLES
    st,        \* per service: its files, its unit, its process and its firewall rules
    acme,      \* the ACME tool, the certificate and the temporary rule for port 80
    china,     \* the table that blocks China: None or the ports it covers
    desired,   \* what the Panel asks for, and
    version,   \*   its version
    applied,   \* lastSuccessfulState of the running Agent, None after a start,
    synced,    \*   lastSuccessfulVersion, and
    domains,   \*   acmeDomains: there is a certificate to renew
    job,       \* the state being applied, None between two syncs, and
    fetched,   \*   its version
    part,      \* the manager at work
    todo,      \* its operations still to do
    undoing,   \* it is in rollbackFailedApply
    failed,    \* managers that returned an error in this sync
    host,      \* the Agent itself: process, unit, enabled, directories, helper binary
    helper,    \* operations the self-uninstall helper still has to do
    archived,  \* the Panel archived the Server and revoked the Agent's credentials
    before,    \* history: the service as its manager found it
    slips,     \* history: faults since its manager began
    faults

panelVars == <<desired, version>>
memory == <<applied, synced, domains>>
syncVars == <<job, fetched, part, todo, undoing, failed, before, slips>>
hostVars == <<host, helper, archived>>
vars == <<st, acme, china, panelVars, memory, syncVars, hostVars, faults>>

(***************************************************************************)
(* The procedures.                                                         *)
(***************************************************************************)
XrayEnable == <<"conflicts", "install", "certificate", "validate", "unit", "enable", "compare">>

RealmEnable == <<"conflicts", "install", "validate", "unit", "enable", "compare">>

\* The archive and the staged binary lie in the install directory.
XrayDownload == <<"download", "extract">>

RealmDownload == <<"download", "extract">>

\* ensureManagedXray when there is no usable binary: the marker comes first.
XrayInstall == XrayDownload \o <<"mark", "place">>

RealmInstall == RealmDownload \o <<"mark", "place">>

\* Mistake: without a copy of the old configuration.
ExchangeUnsaved(hadConfig) == <<"replace", "restart", "health", "firewall">>

\* The tail of enable for a new configuration, and for the one already installed.
Exchange(hadConfig) ==
    (IF hadConfig THEN <<"save">> ELSE <<>>) \o <<"replace", "restart", "health", "firewall">>

Resume(healthy) == IF healthy THEN <<"firewall">> ELSE <<"restart", "health", "firewall">>

\* rollbackFailedApply of Xray leaves the firewall alone when there was no
\* configuration before; that of Realm clears it.
XrayRollback(hadConfig) ==
    IF hadConfig THEN <<"restore", "restart", "health", "firewall">>
                 ELSE <<"stop", "disable", "dropConfig">>

RealmRollback(hadConfig) ==
    IF hadConfig THEN <<"restore", "restart", "health", "firewall">>
                 ELSE <<"stop", "disable", "dropConfig", "firewall">>

XrayDisable(managed, unit) ==
    IF ~managed THEN <<>>
    ELSE (IF unit THEN <<"stop", "disable">> ELSE <<>>) \o <<"removeConfigs", "firewall">>

RealmDisable(managed, unit) ==
    IF ~managed THEN <<>>
    ELSE (IF unit THEN <<"stop", "disable">> ELSE <<>>) \o <<"removeConfigs", "firewall">>

\* The marker goes last, so that an interrupted purge is taken up again.
XrayPurge(managed, unit) ==
    IF ~managed THEN <<"firewall">>
    ELSE (IF unit THEN <<"stop", "disable", "firewall", "removeUnit">> ELSE <<"firewall">>)
         \o <<"emptyConfigDir", "emptyInstallDir", "removeMarker">>

RealmPurge(managed, unit) ==
    IF ~managed THEN <<"firewall">>
    ELSE (IF unit THEN <<"stop", "disable", "firewall", "removeUnit">> ELSE <<"firewall">>)
         \o <<"emptyConfigDir", "emptyInstallDir", "removeMarker">>

\* apply of a service: which procedure a target asks for.
XrayApply(wish, svc) ==
    CASE wish.do = "run"   -> XrayEnable
      [] wish.do = "stop"  -> XrayDisable(svc.marker, svc.unit)
      [] wish.do = "purge" -> XrayPurge(svc.marker, svc.unit)

RealmApply(wish, svc) ==
    CASE wish.do = "run"   -> RealmEnable
      [] wish.do = "stop"  -> RealmDisable(svc.marker, svc.unit)
      [] wish.do = "purge" -> RealmPurge(svc.marker, svc.unit)

\* ensureCertificate: nothing while the certificate is good for a month, else
\* open port 80, issue, install the two files one after the other.
CertificateProgram ==
    (IF acme.marker /\ acme.script THEN <<>> ELSE <<"toolScript", "toolMarker">>)
    \o <<"open80", "issue", "putCertificate", "putKey", "close80">>

AcmePurge == <<"close80", "emptyTool", "dropCertificates", "dropToolMarker">>

ChinaApply == <<"block">>

\* prepareAgentSelfUninstall copies the Agent to a helper outside its directories.
PrepareUninstall == <<"stage">>

\* Mistake: the directories go first.
UninstallDirsFirst(unit) ==
    <<"removeDirs">> \o (IF unit THEN <<"stop", "disable", "removeUnit">> ELSE <<>>) \o <<"removeHelper">>

\* run of the helper.
Uninstall(unit) ==
    (IF unit THEN <<"stop", "disable", "removeUnit">> ELSE <<>>) \o <<"removeDirs", "removeHelper">>

ProgramOf(p, j) ==
    CASE p = "xray"  -> XrayApply(j.xray, st.xray)
      [] p = "realm" -> RealmApply(j.realm, st.realm)
      [] p = "china" -> ChinaApply
      [] p = "acme"  -> AcmePurge
      [] p = "agent" -> PrepareUninstall

\* Mistake: a decommission that forgets the certificates.
NextPartNoAcme(p, j, ok) ==
    IF j.decommission /\ ~ok THEN None
    ELSE CASE p = "xray"  -> "realm"
           [] p = "realm" -> "china"
           [] p = "china" -> IF j.decommission THEN "agent" ELSE None
           [] OTHER       -> None

\* An apply goes through three managers whatever happens; a decommission goes
\* through five and stops at the first error.
NextPart(p, j, ok) ==
    IF j.decommission /\ ~ok THEN None
    ELSE CASE p = "xray"  -> "realm"
           [] p = "realm" -> "china"
           [] p = "china" -> IF j.decommission THEN "acme" ELSE None
           [] p = "acme"  -> IF j.decommission THEN "agent" ELSE None
           [] p = "agent" -> None

(***************************************************************************)
(* The operations.                                                         *)
(***************************************************************************)
NoService == [marker |-> FALSE, tmp |-> FALSE, bin |-> FALSE, unit |-> FALSE, enabled |-> FALSE,
              conf |-> None, prev |-> None, run |-> None, rules |-> {}]

svc == st[part]
wish == job[part]

RulesOf(c) == IF c = None THEN {} ELSE {c.port}

\* Firewall rules the operation at hand brings about.
WantedRules ==
    IF undoing THEN RulesOf(before.conf)
    ELSE IF wish.do = "run" THEN RulesOf(wish.config)
    ELSE {}

\* reconcileRules adds what is missing before it removes what is stale, one
\* command after the other: what a failure or an interruption leaves.
PartialRules == {R \in SUBSET (svc.rules \cup WantedRules) : svc.rules \subseteq R \/ WantedRules \subseteq R}

\* checkConflicts: without the marker, anything in the way belongs to somebody else.
Conflict(x) == ~x.marker /\ (x.tmp \/ x.bin \/ x.unit \/ x.conf # None \/ x.prev # None)

\* A process with TLS needs a certificate and a key that belong together.
CanRun(s, c) == c # None /\ (s = "xray" /\ c.tls => acme.cert \in {"valid", "due"})

Started(s, c) == IF CanRun(s, c) THEN c ELSE None

\* listenersHealthy of an active service: something listens on the expected port.
Listening(c) == svc.run # None /\ svc.run.port = c.port

\* The service after the operation succeeds.
Done(op) ==
    CASE op = "download"       -> [svc EXCEPT !.tmp = TRUE]
      [] op = "mark"           -> [svc EXCEPT !.marker = TRUE]
      [] op = "place"          -> [svc EXCEPT !.bin = TRUE, !.tmp = FALSE]
      [] op = "unit"           -> [svc EXCEPT !.unit = TRUE]
      [] op = "enable"         -> [svc EXCEPT !.enabled = TRUE]
      [] op = "save"           -> [svc EXCEPT !.prev = svc.conf]
      [] op = "replace"        -> [svc EXCEPT !.conf = wish.config]
      [] op = "restore"        -> [svc EXCEPT !.conf = svc.prev]
      [] op = "restart"        -> [svc EXCEPT !.run = Started(part, svc.conf)]
      [] op = "stop"           -> [svc EXCEPT !.run = None]
      [] op = "disable"        -> [svc EXCEPT !.enabled = FALSE]
      [] op = "dropConfig"     -> [svc EXCEPT !.conf = None]
      [] op = "removeConfigs"  -> [svc EXCEPT !.conf = None, !.prev = None]
      [] op = "firewall"       -> [svc EXCEPT !.rules = WantedRules]
      [] op = "removeUnit"     -> [svc EXCEPT !.unit = FALSE]
      [] op = "emptyConfigDir" -> [svc EXCEPT !.conf = None, !.prev = None]
      [] op = "emptyInstallDir" -> [svc EXCEPT !.bin = FALSE, !.tmp = FALSE]
      [] op = "removeMarker"   -> [svc EXCEPT !.marker = FALSE]
      [] OTHER                 -> svc

\* What the operation may leave behind when it fails.  A command of the service
\* manager that reports an error may have done its work, or half of it.
Undone(op) ==
    CASE op \in {"download", "extract", "mark", "place"} -> {[svc EXCEPT !.tmp = FALSE]}
      [] op = "restart"  -> {svc, [svc EXCEPT !.run = None], [svc EXCEPT !.run = Started(part, svc.conf)]}
      [] op = "health"   -> {svc, [svc EXCEPT !.run = None]}
      [] op = "stop"     -> {svc, [svc EXCEPT !.run = None]}
      [] op = "firewall" -> {[svc EXCEPT !.rules = R] : R \in PartialRules}
      [] OTHER           -> {svc}

\* Operations that decide what comes next.
Branch(op) ==
    CASE op = "install" ->
           IF svc.marker /\ svc.bin THEN <<>>
           ELSE IF part = "xray" THEN XrayInstall ELSE RealmInstall
      [] op = "certificate" ->
           IF wish.config.tls /\ acme.cert # "valid" THEN CertificateProgram ELSE <<>>
      [] op = "compare" ->
           IF svc.conf = wish.config THEN Resume(Listening(wish.config)) ELSE Exchange(svc.conf # None)
      [] OTHER -> <<>>

AcmeOps == {"toolScript", "toolMarker", "open80", "issue", "putCertificate", "putKey", "close80",
            "emptyTool", "dropCertificates", "dropToolMarker"}

DoneAcme(op) ==
    CASE op = "toolScript"       -> [acme EXCEPT !.script = TRUE]
      [] op = "toolMarker"       -> [acme EXCEPT !.marker = TRUE]
      [] op = "open80"           -> [acme EXCEPT !.open80 = TRUE]
      [] op = "putCertificate"   -> [acme EXCEPT !.cert = "split", !.old = acme.cert]
      [] op = "putKey"           -> [acme EXCEPT !.cert = "valid", !.old = None]
      [] op = "close80"          -> [acme EXCEPT !.open80 = FALSE]
      [] op = "emptyTool"        -> IF acme.marker THEN [acme EXCEPT !.script = FALSE] ELSE acme
      [] op = "dropCertificates" -> [acme EXCEPT !.cert = None, !.old = None]
      [] op = "dropToolMarker"   -> [acme EXCEPT !.marker = FALSE]
      [] OTHER                   -> acme

\* The private key could not be written: the old certificate is put back.
UndoneAcme(op) ==
    IF op = "putKey" THEN [acme EXCEPT !.cert = acme.old, !.old = None] ELSE acme

\* ensureTool refuses a directory with files and without its marker (and so does
\* ensureManagedDomainDirectory for the directory of a domain).
AcmeConflict == ~acme.marker /\ acme.script

(***************************************************************************)
(* The Agent.                                                              *)
(***************************************************************************)
RuntimeInit ==
    /\ st = [s \in Services |-> NoService]
    /\ acme = [marker |-> FALSE, script |-> FALSE, cert |-> None, old |-> None, open80 |-> FALSE]
    /\ china = None
    /\ desired \in Jobs /\ version = 1
    /\ applied = None /\ synced = 0 /\ domains = FALSE
    /\ job = None /\ fetched = 0 /\ part = None /\ todo = <<>>
    /\ undoing = FALSE /\ failed = {} /\ before = NoService /\ slips = 0
    /\ host = [up |-> TRUE, unit |-> TRUE, enabled |-> TRUE, dirs |-> TRUE, helper |-> FALSE]
    /\ helper = <<>> /\ archived = FALSE
    /\ faults = 0

\* The Panel bumps the version.  Nothing follows a decommission.
ChangeDesired(j) ==
    /\ version <= MaxChanges /\ ~desired.decommission /\ j # desired
    /\ desired' = j
    /\ version' = version + 1
    /\ UNCHANGED <<st, acme, china, memory, syncVars, hostVars, faults>>

Enter(p, j) ==
    /\ part' = p
    /\ todo' = ProgramOf(p, j)
    /\ before' = IF p \in Services THEN st[p] ELSE NoService
    /\ undoing' = FALSE
    /\ slips' = 0

\* sync fetches a version it has not applied and begins with Xray.
StartSync ==
    /\ host.up /\ ~archived
    /\ job = None
    /\ synced # version
    /\ job' = desired /\ fetched' = version
    /\ failed' = {}
    /\ Enter("xray", desired)
    /\ UNCHANGED <<st, acme, china, panelVars, memory, hostVars, faults>>

\* Preconditions the operation itself checks; it fails when one is missing.
Permitted(op) ==
    CASE op = "conflicts"  -> ~Conflict(svc)
      [] op = "toolScript" -> ~AcmeConflict
      [] op = "restore"    -> svc.prev # None
      [] op = "health"     -> Listening(IF undoing THEN before.conf ELSE wish.config)
      [] OTHER             -> TRUE

\* The ports the table that blocks China covers.
managedChinaInboundPorts(j) ==
    UNION {RulesOf(j[s].config) : s \in {x \in Services : j[x].do = "run"}}

\* The next operation succeeds.
Step ==
    /\ job # None /\ todo # <<>>
    /\ LET op == Head(todo) IN
        /\ Permitted(op)
        /\ IF op \in AcmeOps
           THEN acme' = DoneAcme(op) /\ todo' = Tail(todo) /\ UNCHANGED <<st, china>>
           ELSE IF part = "agent"
           THEN /\ host' = [host EXCEPT !.helper = TRUE]
                /\ todo' = Tail(todo)
                /\ UNCHANGED <<st, acme, china>>
           ELSE IF part = "china"
           THEN /\ china' = IF job.block THEN managedChinaInboundPorts(job) ELSE None
                /\ todo' = Tail(todo)
                /\ UNCHANGED <<st, acme>>
           ELSE /\ st' = [st EXCEPT ![part] = Done(op)]
                /\ todo' = Branch(op) \o Tail(todo)
                /\ acme' = IF part = "xray" /\ op = "emptyConfigDir"
                           THEN [acme EXCEPT !.cert = None, !.old = None] ELSE acme
                /\ china' = china
        /\ part # "agent" => UNCHANGED host
    /\ UNCHANGED <<panelVars, memory, job, fetched, part, undoing, failed, before, slips, helper,
                   archived, faults>>

\* Where an error goes: a deferred call removes the rule for port 80, a new
\* configuration is rolled back, a rollback goes on or gives up, all else ends.
AfterError(op) ==
    IF undoing
    THEN IF op = "restore" \/ (op = "restart" /\ before.conf # None) THEN <<>> ELSE Tail(todo)
    ELSE CASE op \in {"issue", "putCertificate", "putKey"} -> <<"close80">>
           [] op \in {"restart", "health", "firewall"} /\ wish.do = "run"
                /\ svc.conf = wish.config /\ before.conf # wish.config ->
                IF part = "xray" THEN XrayRollback(before.conf # None) ELSE RealmRollback(before.conf # None)
           [] OTHER -> <<>>

\* An operation fails: of itself, because the connection to the Panel ended and
\* the context with it, or because a precondition is missing.
StepFails ==
    /\ job # None /\ todo # <<>>
    /\ LET op == Head(todo)
           refused == ~Permitted(op)
       IN
        /\ refused \/ faults < MaxFaults
        /\ faults' = IF refused THEN faults ELSE faults + 1
        /\ slips' = IF refused THEN slips ELSE slips + 1
        /\ IF part \in Services /\ op \notin AcmeOps
           THEN \E x \in Undone(op) : st' = [st EXCEPT ![part] = x]
           ELSE st' = st
        /\ acme' = UndoneAcme(op)
        /\ todo' = AfterError(op)
        /\ undoing' = (undoing \/ (todo' # <<>> /\ Head(todo') # "close80"))
    /\ failed' = failed \cup {part}
    /\ UNCHANGED <<china, panelVars, memory, job, fetched, part, before, hostVars>>

\* The manager that follows; a renewal of the certificates is over after its one part.
Following == IF fetched = 0 THEN None ELSE NextPart(part, job, failed = {})

\* The manager is done: the next one.
FinishPart ==
    /\ job # None /\ todo = <<>>
    /\ Following # None
    /\ Enter(Following, job)
    /\ domains' = IF part = "xray" /\ failed = {}
                  THEN job.xray.do = "run" /\ job.xray.config.tls ELSE domains
    /\ UNCHANGED <<st, acme, china, panelVars, applied, synced, job, fetched, failed,
                   hostVars, faults>>

Idle ==
    /\ job' = None /\ fetched' = 0 /\ part' = None /\ todo' = <<>>
    /\ undoing' = FALSE /\ failed' = {} /\ before' = NoService /\ slips' = 0

\* Mistake: lastSuccessfulVersion, even after a failure.
RememberedAnyway(ok, reached) == IF reached /\ fetched # 0 THEN fetched ELSE synced

\* lastSuccessfulVersion after a sync.
Remembered(ok, reached) == IF ok /\ reached THEN fetched ELSE synced

\* The end of sync.  A success is remembered; its version only when the report
\* reached the Panel, the state of a decommission never.
Report(reached) ==
    /\ job # None /\ todo = <<>>
    /\ Following = None
    /\ ~reached => faults < MaxFaults /\ fetched # 0
    /\ LET ok == failed = {} /\ fetched # 0
           done == ok /\ job.decommission
       IN
        /\ faults' = IF reached THEN faults ELSE faults + 1
        /\ applied' = IF ok /\ ~done THEN job ELSE applied
        /\ synced' = Remembered(ok /\ ~done, reached)
        /\ archived' = (archived \/ (done /\ reached))
        /\ helper' = IF done /\ reached THEN <<"activate">> ELSE helper
        /\ host' = IF done /\ ~reached THEN [host EXCEPT !.helper = FALSE] ELSE host
    /\ Idle
    /\ UNCHANGED <<st, acme, china, panelVars, domains>>

\* activate starts the helper in a unit of its own; without it the binary goes.
Activate(ok) ==
    /\ helper = <<"activate">> /\ host.up
    /\ ~ok => faults < MaxFaults
    /\ faults' = IF ok THEN faults ELSE faults + 1
    /\ helper' = IF ok THEN Uninstall(host.unit) ELSE <<>>
    /\ host' = IF ok THEN host ELSE [host EXCEPT !.helper = FALSE]
    /\ synced' = IF ok THEN version ELSE synced
    /\ UNCHANGED <<st, acme, china, panelVars, applied, domains, syncVars, archived>>

Forget == applied' = None /\ synced' = 0 /\ domains' = FALSE

\* The helper's operations; stopping the service ends the Agent.
HelperStep ==
    /\ helper # <<>> /\ Head(helper) # "activate"
    /\ helper' = Tail(helper)
    /\ LET op == Head(helper) IN
        /\ host' = CASE op = "stop"         -> [host EXCEPT !.up = FALSE]
                     [] op = "disable"      -> [host EXCEPT !.enabled = FALSE]
                     [] op = "removeUnit"   -> [host EXCEPT !.unit = FALSE]
                     [] op = "removeDirs"   -> [host EXCEPT !.dirs = FALSE]
                     [] op = "removeHelper" -> [host EXCEPT !.helper = FALSE]
        /\ IF op = "stop" THEN Idle /\ Forget ELSE UNCHANGED <<syncVars, memory>>
    /\ UNCHANGED <<st, acme, china, panelVars, archived, faults>>

\* An error ends the helper where it is, and nobody starts it again.
HelperFails ==
    /\ helper # <<>> /\ Head(helper) \notin {"activate", "removeHelper"}
    /\ faults < MaxFaults
    /\ faults' = faults + 1
    /\ helper' = <<>>
    /\ UNCHANGED <<st, acme, china, panelVars, memory, syncVars, host, archived>>

\* The certificate enters its last month.
CertificateDue ==
    /\ acme.cert = "valid"
    /\ faults < MaxFaults
    /\ acme' = [acme EXCEPT !.cert = "due"]
    /\ faults' = faults + 1
    /\ UNCHANGED <<st, china, panelVars, memory, syncVars, hostVars>>

\* renewCertificates, for the domains of the last enable that succeeded.  It holds
\* the lock of sync, so it is a sync of its own without a version (fetched = 0).
Renew ==
    /\ host.up /\ job = None /\ domains
    /\ acme.cert # "valid"
    /\ job' = desired /\ fetched' = 0
    /\ part' = "acme" /\ todo' = CertificateProgram
    /\ UNCHANGED <<st, acme, china, panelVars, memory, undoing, failed, before, slips,
                   hostVars, faults>>

\* refreshChinaPrefixes installs the table again, for the last applied state.
refreshChinaPrefixes ==
    /\ host.up /\ job = None
    /\ applied # None /\ applied.block
    /\ china' = managedChinaInboundPorts(applied)
    /\ UNCHANGED <<st, acme, panelVars, memory, syncVars, hostVars, faults>>

\* The Agent is killed and started again: its memory is gone, its files stay.
Crash ==
    /\ host.up
    /\ faults < MaxFaults
    /\ faults' = faults + 1
    /\ Idle /\ Forget
    /\ helper' = IF helper = <<"activate">> THEN <<>> ELSE helper
    /\ IF part \in Services /\ todo # <<>> /\ Head(todo) = "firewall"
       THEN \E R \in PartialRules : st' = [st EXCEPT ![part].rules = R]
       ELSE UNCHANGED st
    /\ UNCHANGED <<acme, china, panelVars, host, archived>>

\* The VPS restarts: enabled services start with the file they find, rules that
\* are not persistent are gone.
Reboot ==
    /\ faults < MaxFaults
    /\ faults' = faults + 1
    /\ Idle /\ Forget
    /\ helper' = <<>>
    /\ host' = [host EXCEPT !.up = host.enabled /\ host.dirs]
    /\ \E keep \in BOOLEAN :
        /\ st' = [s \in Services |->
                    [st[s] EXCEPT !.run = IF st[s].enabled THEN Started(s, st[s].conf) ELSE None,
                                  !.rules = IF keep THEN @ ELSE {}]]
        /\ acme' = IF keep THEN acme ELSE [acme EXCEPT !.open80 = FALSE]
        /\ china' = None
    /\ UNCHANGED <<panelVars, archived>>

\* The service dies and the service manager starts it with the file it finds.
ServiceRestarts(s) ==
    /\ faults < MaxFaults
    /\ st[s].run # None
    /\ st' = [st EXCEPT ![s].run = Started(s, st[s].conf)]
    /\ faults' = faults + 1
    /\ slips' = IF s = part THEN slips + 1 ELSE slips
    /\ UNCHANGED <<acme, china, panelVars, memory, job, fetched, part, todo, undoing, failed, before,
                   hostVars>>

RuntimeNext ==
    \/ \E j \in Jobs : ChangeDesired(j)
    \/ StartSync \/ Step \/ StepFails \/ FinishPart
    \/ \E reached \in BOOLEAN : Report(reached) \/ Activate(reached)
    \/ HelperStep \/ HelperFails
    \/ CertificateDue \/ Renew \/ refreshChinaPrefixes
    \/ Crash \/ Reboot
    \/ \E s \in Services : ServiceRestarts(s)

RuntimeSpec == RuntimeInit /\ [][RuntimeNext]_vars

\* The Agent polls on a ticker and its operations, and the helper's, have deadlines:
\* the steps that are taken as long as they can be.
AgentProgress == StartSync \/ Step \/ FinishPart \/ Report(TRUE) \/ (StepFails /\ faults' = faults)
HelperProgress == Activate(TRUE) \/ HelperStep

(***************************************************************************)
(* Properties.                                                             *)
(***************************************************************************)
Ended(p) == job # None /\ part = p /\ todo = <<>>

\* The process was not running the file its manager found: an interruption came
\* between the two.
FoundTorn == before.run # None /\ before.run # before.conf

\* When a manager returns without an error, its service is what was asked for:
\* it runs the configuration with exactly its rules, or it is stopped and
\* disabled, or it is gone.  The exception is FoundTorn: a process that already
\* listens on the right port is taken to run the file that is there.
SuccessMeansDone ==
    \A s \in Services : Ended(s) /\ s \notin failed =>
        LET x == st[s] t == job[s] IN
        /\ t.do = "run" => /\ x.conf = t.config /\ x.rules = RulesOf(t.config) /\ x.enabled
                           /\ x.run = t.config \/ FoundTorn
        /\ t.do = "stop" => x.run = None /\ ~x.enabled /\ x.conf = None /\ x.rules = {}
        /\ t.do = "purge" => x = [NoService EXCEPT !.tmp = x.tmp]

\* When a new configuration cannot be brought up, the service that ran before
\* runs again, with its rules; one operation may fail without loss.
FailureKeepsService ==
    \A s \in Services :
        /\ Ended(s) /\ s \in failed /\ slips <= 1
        /\ job[s].do = "run" /\ before.conf # None /\ before.run = before.conf
        /\ before.rules = RulesOf(before.conf)
        /\ CanRun(s, before.conf)
        => st[s].conf = before.conf /\ st[s].run = before.run /\ st[s].rules = before.rules

\* Both together: what a manager reports is how its service was left.
ServicesAsReported == SuccessMeansDone /\ FailureKeepsService

\* The Panel archives the Server only when nothing is left on the VPS: no service,
\* no rules, no table, no tool or certificates (downloads nobody owns excepted).
ArchivedLeavesNothing ==
    [][archived' /\ ~archived =>
        /\ \A s \in Services : st[s] = [NoService EXCEPT !.tmp = st[s].tmp]
        /\ china = None
        /\ ~acme.open80 /\ ~acme.marker /\ acme.cert = None]_vars

\* The Agent's files go only once its service cannot be started again, and before
\* the Panel has archived the Server nothing of the Agent is touched.
AgentOutlivesItsDuty ==
    /\ ~archived => host.up /\ host.unit /\ host.enabled /\ host.dirs
    /\ ~host.dirs => ~host.up /\ ~host.unit /\ ~host.enabled

\* An interrupted installation left files without their marker: the download of a
\* service, or the ACME script.
Orphaned == (\E s \in Services : ~st[s].marker /\ st[s].tmp) \/ AcmeConflict

\* Failures, crashes and reboots end and the last desired state is what was applied,
\* unless an interruption left orphans.
EventuallyApplied ==
    \/ <>[](job = None /\ (archived \/ (synced = version /\ applied = desired)))
    \/ <>[]Orphaned
=============================================================================
