---------------------------- MODULE SyncContract ----------------------------
(***************************************************************************)
(* What the Panel and an Agent promise about the configuration of one      *)
(* Server, without requests, ledgers, failures or restarts: the Panel      *)
(* publishes versions, the Agent runs some of them, and the Panel          *)
(* acknowledges versions the Agent has run, never going back.              *)
(***************************************************************************)
EXTENDS Naturals

VARIABLES
  version,   \* the newest published version
  acked,     \* the newest version acknowledged for the registered Agent
  ran        \* the versions the registered Agent has run

Init == version = 1 /\ acked = 0 /\ ran = {}

Publish ==
  /\ version' = version + 1
  /\ UNCHANGED <<acked, ran>>

Run ==
  /\ \E v \in 1..version : ran' = ran \cup {v}
  /\ UNCHANGED <<version, acked>>

Acknowledge ==
  /\ \E v \in ran : v >= acked /\ acked' = v
  /\ UNCHANGED <<version, ran>>

\* Another Agent is registered, or none is.
Rebind ==
  /\ acked' = 0 /\ ran' = {}
  /\ UNCHANGED version

Next == Publish \/ Run \/ Acknowledge \/ Rebind

Spec == Init /\ [][Next]_<<version, acked, ran>>
=============================================================================
