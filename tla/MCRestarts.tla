----------------------------- MODULE MCRestarts -----------------------------
(***************************************************************************)
(* What a restart of the Panel goes through, for TLC: the connections of   *)
(* an Agent and a restore.  They share no state, so each behaviour explores*)
(* one of them and the other stays in its first state.  The connections are*)
(* explored twice: with requests of administrators that cross each other,  *)
(* and with diagnoses that cross each other.                               *)
(***************************************************************************)
EXTENDS AgentConnection, Restore

VARIABLE explored
allVars == <<explored, connectionVars, restoreVars>>

\* Archives of another Panel, with its mail key and without.
OtherPanel ==
  {[db |-> [id |-> 100, key |-> "other"], key |-> "other"],
   [db |-> [id |-> 100, key |-> "other"], key |-> NoFile]}

RestartsInit ==
  explored \in {"requests", "diagnoses", "restore"} /\ ConnectionInit /\ RestoreInit

\* Only one of the diagnoses takes part, and only where no removal does.
OneDiagnosis ==
  \A d \in Diags : dpc'[d] # "new" => removals' = 0 /\ d = CHOOSE c \in Diags : TRUE

\* Only one of the requests of administrators takes part.
OneAdmin == \A a \in Admins : admin'[a] = "idle" \/ a = CHOOSE b \in Admins : TRUE

Connecting(A) ==
  /\ A
  /\ \/ explored = "requests" /\ OneDiagnosis
     \/ explored = "diagnoses" /\ OneAdmin
  /\ UNCHANGED <<explored, restoreVars>>
Restoring(A) == explored = "restore" /\ A /\ UNCHANGED <<explored, connectionVars>>

RestartsNext == Connecting(ConnectionNext) \/ Restoring(RestoreNext)

\* Handlers run on, a connected Agent sends heartbeats on a ticker, an Agent
\* without a connection dials again, and an HTTP handler finishes its work.  The
\* service manager starts the Panel again, and a start runs to its end.
Fairness ==
  /\ \A h \in Conns : WF_allVars(Connecting(HandlerStep(h)))
  /\ WF_allVars(Connecting(\E h \in Conns : Connect(h)))
  /\ \A a \in Admins : WF_allVars(Connecting(CloseConnections(a) \/ FinishClosing(a)))
  /\ WF_allVars(Restoring(Startup))

RestartsSpec == RestartsInit /\ [][RestartsNext]_allVars /\ Fairness

\* The restore alone, for the run that refutes CommittedRestoreStays.
RestoreAlone ==
  /\ explored = "restore" /\ ConnectionInit /\ RestoreInit
  /\ [][Restoring(RestoreNext)]_allVars

(***************************************************************************)
(* ServesAgain, where the restore is explored: once crashes and failures   *)
(* stop, a start of the Panel ends in service.                             *)
(***************************************************************************)
RestoresServe == explored = "restore" => ServesAgain
=============================================================================
