----------------------------- MODULE MCServices ------------------------------
(* Instances of Monitor, SyncJobs, PermissionReset and Reconcile for TLC.      *)
(* They share nothing, so a behaviour here is one of one of them.              *)
EXTENDS Monitor, SyncJobs, PermissionReset, Reconcile, TLC

CONSTANTS w1, w2

VARIABLE service   \* which one

OneChange == [p \in Ids |-> 1]

\* Either a restart or a change of rights.
FewEvents == \A p \in Ids : boots' + moves'[p] <= 1

\* Lakehouses are often called the same.
SameName == (w1 :> "sales") @@ (w2 :> "sales")

ResetIdle ==
  /\ dar = [i \in Items |-> {}] /\ grants = [s \in Securables |-> {}]
  /\ file = NoFile /\ script = NoScript /\ left = {} /\ hand = Unread
  /\ draft = NothingRead /\ given = [s \in Securables |-> {}]
  /\ opened = FALSE /\ restored = "no" /\ edits = 0

ReconcileIdle ==
  /\ role = [w \in Workspaces |-> [p \in Assignees |-> NoRole]]
  /\ readers = [w \in Workspaces |-> {}]
  /\ \A e \in Runs : run[e].dry /\ run[e].toFabric

Init ==
  /\ service \in {"monitor", "sync", "reset", "reconcile"}
  /\ MonitorInit /\ SyncInit
  /\ IF service = "reset" THEN ResetInit ELSE ResetIdle
  /\ ReconcileInit /\ (service # "reconcile" => ReconcileIdle)

allVars == <<monitorVars, syncVars, resetVars, reconcileVars, service>>

MonitorRuns ==
  /\ service = "monitor" /\ MonitorNext /\ FewEvents
  /\ UNCHANGED <<syncVars, resetVars, reconcileVars, service>>

SyncRuns ==
  /\ service = "sync" /\ SyncNext
  /\ UNCHANGED <<monitorVars, resetVars, reconcileVars, service>>

ResetRuns ==
  /\ service = "reset" /\ ResetNext
  /\ UNCHANGED <<monitorVars, syncVars, reconcileVars, service>>

ReconcileRuns ==
  /\ service = "reconcile" /\ ReconcileNext
  /\ UNCHANGED <<monitorVars, syncVars, resetVars, service>>

Next == MonitorRuns \/ SyncRuns \/ ResetRuns \/ ReconcileRuns

\* Where the monitor rests there is no pairing, and its scan has nothing to do.
Spec == Init /\ [][Next]_allVars /\ MonitorFairness

TypeOK == MonitorTypeOK /\ SyncTypeOK /\ ResetTypeOK
==============================================================================
