------------------------------- MODULE MCVps -------------------------------
(***************************************************************************)
(* The parts of the Agent that change the VPS, for TLC: the managed        *)
(* services, the firewall backends and the upgrade of the Agent itself.    *)
(* They share no variable here, so each behaviour explores one of them and *)
(* the others stay in their first state.                                   *)
(***************************************************************************)
EXTENDS ManagedRuntime, HostFirewall, AgentUpgrade

VARIABLE explored
allVars == <<explored, vars, fwVars, upgradeVars>>

on(p, k, t) == [do |-> "run", config |-> [port |-> p, cred |-> k, tls |-> t]]
off == [do |-> "stop"]
gone == [do |-> "purge"]
state(x, y, b) == [xray |-> x, realm |-> y, block |-> b, decommission |-> FALSE]

\* The first proxy and a relay; a new credential on the same port; TLS on another
\* port; everything disabled; no rows left; decommission.
MCJobs == {state(on(1, 1, FALSE), on(3, 1, FALSE), TRUE),
           state(on(1, 2, FALSE), off, FALSE),
           state(on(2, 1, TRUE), gone, FALSE),
           state(gone, off, FALSE),
           [xray |-> gone, realm |-> gone, block |-> FALSE, decommission |-> TRUE]}

VpsInit ==
    /\ RuntimeInit /\ FwInit /\ UpgradeInit
    /\ explored \in {"runtime", "firewall", "upgrade"}
    /\ explored # "firewall" => fwActive = "none" /\ ~fwV6
    /\ explored # "runtime" => desired.decommission

Runtime(A) == explored = "runtime" /\ A /\ UNCHANGED <<explored, fwVars, upgradeVars>>
Firewall(A) == explored = "firewall" /\ A /\ UNCHANGED <<explored, vars, upgradeVars>>
Upgrading(A) == explored = "upgrade" /\ A /\ UNCHANGED <<explored, vars, fwVars>>

VpsNext == Runtime(RuntimeNext) \/ Firewall(FwNext) \/ Upgrading(UpgradeNext)

\* The Agent and its helpers run on, a start of the service manager comes, handlers of
\* the Panel finish, the Agent connects again, and a download has a deadline of two
\* minutes and ends one way or the other.
Fairness ==
    /\ WF_allVars(Runtime(AgentProgress)) /\ WF_allVars(Runtime(HelperProgress))
    /\ \A h \in Handlers : WF_allVars(Upgrading(NotifyAgentUpgrade(h)))
    /\ WF_allVars(Upgrading(TrackConnection))
    /\ WF_allVars(Upgrading(SetAgentConnected))
    /\ WF_allVars(Upgrading(ServiceManager))
    /\ \A j \in Upgrades : WF_allVars(Upgrading(AgentStep(j) \/ PrepareFails(j)))
    /\ WF_allVars(Upgrading(IgnoreRequest))

VpsSpec == VpsInit /\ [][VpsNext]_allVars /\ Fairness

\* What EventuallyApplied says, where the managed services are explored: failures,
\* crashes and reboots end and the last desired state is what was applied.
ServicesSettle == explored = "runtime" => EventuallyApplied

\* What UpgradeSettles says, where the upgrade is explored: a request is confirmed or
\* shown as failed.
UpgradesSettle == explored = "upgrade" => UpgradeSettles
=============================================================================
