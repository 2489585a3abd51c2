------------------------------- MODULE MCPanel -------------------------------
(***************************************************************************)
(* Parts of the Panel that serve its users, for TLC: personal              *)
(* subscriptions, accounts, the limiter of sign-ins and notifications.     *)
(* They share no state, so each behaviour explores one of them and the     *)
(* others stay in their first state.                                       *)
(***************************************************************************)
EXTENDS PersonalSubscription, Accounts, LoginLimiter, Notifications, TLC

VARIABLE explored
allVars == <<explored, personalVars, accountVars, limiterVars, notificationVars>>

\* A relay goes with the proxy it leads to.
MCCascade == [s \in Sources |-> IF s = "p" THEN {"p", "r"} ELSE {s}]
MCKeysOf == [p \in Presets |-> {p}]

\* Either outages and recoveries are notified of, or the traffic.
Choice(away) == [online |-> away, recovery |-> away, traffic |-> ~away, full |-> TRUE,
                    threshold |-> 50, step |-> 20]
MCChoices == {Choice(TRUE), Choice(FALSE)}

PanelInit ==
    /\ PersonalInit /\ AccountsInit /\ LimiterInit /\ NotificationInit
    /\ explored \in {"personal", "accounts", "limiter", "outages", "traffic"}
    /\ explored # "limiter" => use = "login"
    /\ settings.online <=> explored # "traffic"

Personal ==
    explored = "personal" /\ PersonalNext /\ UNCHANGED <<accountVars, limiterVars, notificationVars>>
Account ==
    explored = "accounts" /\ AccountsNext /\ UNCHANGED <<personalVars, limiterVars, notificationVars>>
Limiter ==
    explored = "limiter" /\ LimiterNext /\ UNCHANGED <<personalVars, accountVars, notificationVars>>

\* Outages and traffic are told apart by the settings, so they are explored apart.
Notifying ==
    /\ \/ /\ explored = "outages"
          /\ ConnectionEvents \/ SendTest \/ \E c \in SettingsChoices : Save(c)
       \/ explored = "traffic" /\ (TrafficEvents \/ Save(Choice(FALSE)))
       \/ explored \in {"outages", "traffic"} /\ (Sweeps \/ Deliver \/ Restart)
    /\ UNCHANGED <<personalVars, accountVars, limiterVars>>

PanelNext == UNCHANGED explored /\ (Personal \/ Account \/ Limiter \/ Notifying)

PanelSpec == PanelInit /\ [][PanelNext]_allVars

Interchangeable == Permutations(Edits)
=============================================================================
