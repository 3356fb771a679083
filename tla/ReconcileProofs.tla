--------------------------- MODULE ReconcileProofs ---------------------------
(***************************************************************************)
(* Proofs about Reconcile, for any number of overlapping runs, workspaces, *)
(* principals and source permissions.                                      *)
(*                                                                         *)
(* What a run has removed is known through what it sent, what it sent      *)
(* through what it set out to revoke, and that through what it listed:     *)
(* Planned and Complete carry these links from one phase to the next.      *)
(***************************************************************************)
EXTENDS Reconcile, TLAPS

\* Past discovery both sides have returned.
Complete(e) ==
  run[e].pc \in {"grant", "revoke", "audit", "done"} =>
    run[e].source # "asked" /\ run[e].unlisted = {}

\* Towards Fabric, what is to be revoked was listed there, what is to be
\* granted was not, and nothing that was to be revoked is left for the audit.
Planned(e) ==
  run[e].toFabric =>
    /\ run[e].revokes \subseteq run[e].listed
    /\ run[e].grants \subseteq SourceGrants
    /\ run[e].pc = "audit" => run[e].revokes \subseteq run[e].sent

Links == \A e \in Runs : Complete(e) /\ Planned(e)

IInv ==
  /\ ReconcileTypeOK /\ Links
  /\ RemovesOnlyListed /\ BothDiscoveriesReturned /\ TrailFollowsCalls

-----------------------------------------------------------------------------
\* What the initial states are.
LEMMA InitInv == ReconcileInit => IInv
<1> SUFFICES ASSUME ReconcileInit PROVE IInv
  OBVIOUS
<1>1. ASSUME NEW e \in Runs
      PROVE  /\ run[e] \in RunState
             /\ run[e].pc = "discover" /\ run[e].listed = {} /\ run[e].sent = {}
             /\ run[e].grants = {} /\ run[e].revokes = {}
  BY DEF ReconcileInit, RunState
<1>2. readers \in [Workspaces -> SUBSET Assignees]
  BY DEF ReconcileInit
<1>3. ReconcileTypeOK
  <2>1. run \in [Runs -> RunState]
    BY <1>1 DEF ReconcileInit
  <2> QED BY <1>2, <2>1 DEF ReconcileInit, ReconcileTypeOK
<1>4. \A e \in Runs : taken[e] = {} /\ trail[e] = {}
  BY DEF ReconcileInit
<1>5. Links
  BY <1>1 DEF Links, Complete, Planned
<1>6. RemovesOnlyListed /\ BothDiscoveriesReturned /\ TrailFollowsCalls
  BY <1>4 DEF RemovesOnlyListed, BothDiscoveriesReturned, TrailFollowsCalls
<1> QED BY <1>3, <1>5, <1>6 DEF IInv

-----------------------------------------------------------------------------
(* One step of one run *)

\* A step of a run leaves the other runs, and what is known of them, alone.
LEMMA OthersUntouched ==
  ASSUME ReconcileTypeOK, NEW e \in Runs, RunStep(e), NEW f \in Runs, f # e
  PROVE  run'[f] = run[f] /\ trail'[f] = trail[f] /\ taken'[f] = taken[f]
BY DEF RunStep, DiscoverSource, SourceRefuses, SourceReturns, DiscoveryRaises, Diff, Grant,
       ListWorkspace, RevokeInFabric, Delete, RevokeInSource, RevokesDone, Audit, Kill, GoTo,
       fabric, ReconcileTypeOK

\* The types of the ghost and of the table that Delete writes.
LEMMA DeleteType ==
  ASSUME ReconcileTypeOK, NEW e \in Runs, NEW x \in FabricPermission, Delete(e, x)
  PROVE  /\ role' \in [Workspaces -> [Assignees -> WorkspaceRoles \cup {NoRole}]]
         /\ taken' \in [Runs -> SUBSET (Workspaces \X Assignees)]
         /\ taken'[e] \subseteq taken[e] \cup {<<x.ws, x.principal>>}
<1>1. x.ws \in Workspaces /\ x.principal \in Assignees
  BY DEF FabricPermission
<1>2. role' \in [Workspaces -> [Assignees -> WorkspaceRoles \cup {NoRole}]]
  BY <1>1 DEF Delete, ReconcileTypeOK
<1>3. taken[e] \cup {<<x.ws, x.principal>>} \in SUBSET (Workspaces \X Assignees)
  BY <1>1 DEF ReconcileTypeOK
<1>4. taken'[e] \subseteq taken[e] \cup {<<x.ws, x.principal>>}
  BY DEF Delete, ReconcileTypeOK
<1>5. taken' \in [Runs -> SUBSET (Workspaces \X Assignees)]
  BY <1>3 DEF Delete, ReconcileTypeOK
<1> QED BY <1>2, <1>4, <1>5

\* What the source answers, what one workspace lists, what the diff finds and what
\* has been sent are well-typed locals of a run.
LEMMA FoundTyped ==
  ASSUME NEW r \in RunState, NEW found \in SUBSET SourceGrants, NEW answer \in {"read", "refused"}
  PROVE  [r EXCEPT !.source = answer, !.found = found] \in RunState
BY DEF RunState

LEMMA ListedTyped ==
  ASSUME NEW r \in RunState, NEW w \in Workspaces,
         NEW roles \in SUBSET FabricPermission, NEW members \in SUBSET FabricPermission
  PROVE  [r EXCEPT !.unlisted = @ \ {w}, !.listed = @ \cup roles \cup members] \in RunState
<1>1. /\ r.unlisted \ {w} \in SUBSET Workspaces
      /\ r.listed \cup roles \cup members \in SUBSET FabricPermission
  BY DEF RunState
<1>2. QED
  BY <1>1 DEF RunState

LEMMA FoundDifferencesTyped ==
  ASSUME NEW r \in RunState, NEW grants \in SUBSET Permission, NEW revokes \in SUBSET Permission
  PROVE  [r EXCEPT !.pc = "grant", !.grants = grants, !.revokes = revokes] \in RunState
BY DEF RunState

LEMMA SentTyped ==
  ASSUME NEW r \in RunState, NEW pc \in {"revoke", "failed"}, NEW x \in FabricPermission
  PROVE  [r EXCEPT !.pc = pc, !.sent = @ \cup {x}] \in RunState
<1>1. r.sent \cup {x} \in SUBSET Permission
  BY DEF RunState, Permission
<1>2. QED
  BY <1>1 DEF RunState

LEMMA SentAllTyped ==
  ASSUME NEW r \in RunState
  PROVE  [r EXCEPT !.pc = "audit", !.sent = r.revokes] \in RunState
BY DEF RunState

LEMMA MovedTyped ==
  ASSUME NEW r \in RunState,
         NEW pc \in {"grant", "revoke", "audit", "done", "failed", "killed"}
  PROVE  [r EXCEPT !.pc = pc] \in RunState
BY DEF RunState

\* Replacing the locals of one run by well-typed ones keeps run typed.
LEMMA RunUpdate ==
  ASSUME ReconcileTypeOK, NEW e \in Runs, NEW r \in RunState, run' = [run EXCEPT ![e] = r]
  PROVE  run' \in [Runs -> RunState]
BY DEF ReconcileTypeOK

LEMMA Typing == ReconcileTypeOK /\ [ReconcileNext]_reconcileVars => ReconcileTypeOK'
<1> SUFFICES ASSUME ReconcileTypeOK, [ReconcileNext]_reconcileVars PROVE ReconcileTypeOK'
  OBVIOUS
<1> USE DEF ReconcileTypeOK
<1>0. \A e \in Runs : run[e] \in RunState
  OBVIOUS
<1>1. ASSUME NEW e \in Runs, NEW answer \in {"read", "refused"}, SourceReturns(e, answer)
      PROVE  ReconcileTypeOK'
  <2>1. PICK found \in SUBSET SourceGrants :
          run' = [run EXCEPT ![e].source = answer, ![e].found = found]
    BY <1>1 DEF SourceReturns
  <2>2. [run[e] EXCEPT !.source = answer, !.found = found] \in RunState
    BY <1>0, FoundTyped
  <2>3. run' \in [Runs -> RunState]
    BY <2>1, <2>2, RunUpdate
  <2> QED BY <1>1, <2>3 DEF SourceReturns, fabric
<1>2. ASSUME NEW e \in Runs, NEW w \in Workspaces, ListWorkspace(e, w) PROVE ReconcileTypeOK'
  <2>1. PICK roles \in {RolesOf(w), {}}, members \in {ReadersOf(w), {}} :
          run' = [run EXCEPT ![e].unlisted = @ \ {w}, ![e].listed = @ \cup roles \cup members]
    BY <1>2 DEF ListWorkspace
  <2>2. roles \in SUBSET FabricPermission /\ members \in SUBSET FabricPermission
    BY DEF RolesOf, ReadersOf
  <2>3. [run[e] EXCEPT !.unlisted = @ \ {w}, !.listed = @ \cup roles \cup members] \in RunState
    BY <1>0, <2>2, ListedTyped
  <2>4. run' \in [Runs -> RunState]
    BY <2>1, <2>3, RunUpdate
  <2> QED BY <1>2, <2>4 DEF ListWorkspace, fabric
<1>3. ASSUME NEW e \in Runs, Diff(e) PROVE ReconcileTypeOK'
  <2>1. PICK grants \in SUBSET Permission, revokes \in SUBSET Permission :
          run' = [run EXCEPT ![e].pc = "grant", ![e].grants = grants, ![e].revokes = revokes]
    <3>1. run[e].found \subseteq Permission /\ run[e].listed \subseteq Permission
      BY <1>0 DEF RunState, Permission
    <3> QED BY <1>3, <3>1 DEF Diff
  <2>2. [run[e] EXCEPT !.pc = "grant", !.grants = grants, !.revokes = revokes] \in RunState
    BY <1>0, FoundDifferencesTyped
  <2>3. run' \in [Runs -> RunState]
    BY <2>1, <2>2, RunUpdate
  <2> QED BY <1>3, <2>3 DEF Diff, fabric
<1>4. ASSUME NEW e \in Runs, NEW pc \in {"grant", "revoke", "audit", "done", "failed", "killed"},
             GoTo(e, pc)
      PROVE  run' \in [Runs -> RunState]
  <2>1. [run[e] EXCEPT !.pc = pc] \in RunState
    BY <1>0, MovedTyped
  <2> QED BY <1>4, <2>1, RunUpdate DEF GoTo
<1>5. ASSUME NEW e \in Runs, DiscoveryRaises(e) \/ Grant(e) \/ RevokesDone(e) \/ Kill(e)
      PROVE  ReconcileTypeOK'
  BY <1>4, <1>5 DEF DiscoveryRaises, Grant, RevokesDone, Kill, fabric
<1>6. ASSUME NEW e \in Runs, NEW x \in FabricPermission, RevokeInFabric(e, x) PROVE ReconcileTypeOK'
  <2>1. PICK pc \in {"revoke", "failed"} :
          run' = [run EXCEPT ![e].pc = pc, ![e].sent = @ \cup {x}]
    BY <1>6 DEF RevokeInFabric
  <2>2. run' \in [Runs -> RunState]
    <3>1. [run[e] EXCEPT !.pc = pc, !.sent = @ \cup {x}] \in RunState
      BY <1>0, SentTyped
    <3> QED BY <2>1, <3>1, RunUpdate
  <2>3. /\ role' \in [Workspaces -> [Assignees -> WorkspaceRoles \cup {NoRole}]]
        /\ taken' \in [Runs -> SUBSET (Workspaces \X Assignees)]
    BY <1>6, DeleteType DEF RevokeInFabric
  <2> QED BY <1>6, <2>2, <2>3 DEF RevokeInFabric
<1>7. ASSUME NEW e \in Runs, RevokeInSource(e) PROVE ReconcileTypeOK'
  <2>1. CASE GoTo(e, "failed")
    BY <1>4, <1>7, <2>1 DEF RevokeInSource, fabric
  <2>2. CASE run' = [run EXCEPT ![e].pc = "audit", ![e].sent = run[e].revokes]
    <3>1. [run[e] EXCEPT !.pc = "audit", !.sent = run[e].revokes] \in RunState
      BY <1>0, SentAllTyped
    <3>2. run' \in [Runs -> RunState]
      BY <2>2, <3>1, RunUpdate
    <3> QED BY <1>7, <3>2 DEF RevokeInSource, fabric
  <2> QED BY <1>7, <2>1, <2>2 DEF RevokeInSource
<1>8. ASSUME NEW e \in Runs, Audit(e) PROVE ReconcileTypeOK'
  <2>1. PICK written \in SUBSET (run[e].grants \cup run[e].revokes), pc \in {"done", "killed"} :
          trail' = [trail EXCEPT ![e] = written] /\ GoTo(e, pc)
    BY <1>8 DEF Audit
  <2>2. written \subseteq Permission
    BY <1>0 DEF RunState
  <2>3. run' \in [Runs -> RunState]
    BY <1>4, <2>1
  <2>4. trail' \in [Runs -> SUBSET Permission]
    BY <2>1, <2>2
  <2> QED BY <1>8, <2>3, <2>4 DEF Audit, fabric
<1>9. ASSUME NEW w \in Workspaces, NEW p \in Assignees, NEW r \in WorkspaceRoles \cup {NoRole},
             Administer(w, p, r)
      PROVE  ReconcileTypeOK'
  <2>1. role' \in [Workspaces -> [Assignees -> WorkspaceRoles \cup {NoRole}]]
    BY <1>9 DEF Administer
  <2> QED BY <1>9, <2>1 DEF Administer
<1>10. CASE UNCHANGED reconcileVars
  BY <1>10 DEF reconcileVars
<1> QED BY <1>1, <1>2, <1>3, <1>5, <1>6, <1>7, <1>8, <1>9, <1>10
        DEF ReconcileNext, RunStep, DiscoverSource, SourceRefuses

-----------------------------------------------------------------------------
(* The invariant *)

\* What is known of a run depends on its own variables only.
Safe(e) ==
  /\ Complete(e) /\ Planned(e)
  /\ \A wp \in taken[e] :
       /\ run[e].toFabric
       /\ \E x \in run[e].listed : x.ws = wp[1] /\ x.principal = wp[2]
  /\ taken[e] # {} => run[e].source # "asked" /\ run[e].unlisted = {}
  /\ run[e].toFabric => trail[e] \cap FabricPermission \subseteq run[e].sent

LEMMA InvIsSafe == IInv <=> ReconcileTypeOK /\ \A e \in Runs : Safe(e)
BY DEF IInv, Links, Safe, RemovesOnlyListed, BothDiscoveriesReturned, TrailFollowsCalls

\* A run keeps itself safe.
LEMMA OwnStep ==
  ASSUME ReconcileTypeOK, NEW e \in Runs, Safe(e), RunStep(e)
  PROVE  Safe(e)'
<1> USE DEF Safe, Complete, Planned
<1>0. run[e] \in RunState /\ e \in DOMAIN run /\ e \in DOMAIN taken /\ e \in DOMAIN trail
  BY DEF ReconcileTypeOK
<1>1. ASSUME NEW answer \in {"read", "refused"}, SourceReturns(e, answer) PROVE Safe(e)'
  <2>1. PICK found \in SUBSET SourceGrants :
          run' = [run EXCEPT ![e].source = answer, ![e].found = found]
    BY <1>1 DEF SourceReturns
  <2>2. /\ run[e].source = "asked" /\ run[e].pc = "discover"
        /\ taken' = taken /\ trail' = trail
    BY <1>1 DEF SourceReturns, At, fabric
  <2>3. /\ run'[e].pc = run[e].pc /\ run'[e].toFabric = run[e].toFabric
        /\ run'[e].unlisted = run[e].unlisted /\ run'[e].listed = run[e].listed
        /\ run'[e].grants = run[e].grants /\ run'[e].revokes = run[e].revokes
        /\ run'[e].sent = run[e].sent
    BY <1>0, <2>1 DEF RunState
  <2> QED BY <2>2, <2>3
<1>2. ASSUME NEW w \in Workspaces, ListWorkspace(e, w) PROVE Safe(e)'
  <2>1. PICK roles \in {RolesOf(w), {}}, members \in {ReadersOf(w), {}} :
          run' = [run EXCEPT ![e].unlisted = @ \ {w}, ![e].listed = @ \cup roles \cup members]
    BY <1>2 DEF ListWorkspace
  <2> QED BY <1>0, <1>2, <2>1 DEF ListWorkspace, At, fabric, RunState
<1>3. CASE Diff(e)
  <2>1. PICK grants, revokes :
          /\ run' = [run EXCEPT ![e].pc = "grant", ![e].grants = grants, ![e].revokes = revokes]
          /\ run[e].toFabric => grants \subseteq run[e].found /\ revokes \subseteq run[e].listed
    BY <1>3 DEF Diff
  <2>2. run[e].found \subseteq SourceGrants
    BY <1>0 DEF RunState
  <2> QED BY <1>0, <1>3, <2>1, <2>2 DEF Diff, At, fabric, RunState
<1>4. CASE DiscoveryRaises(e) \/ Kill(e)
  BY <1>0, <1>4 DEF DiscoveryRaises, Kill, GoTo, fabric, RunState
<1>5. CASE Grant(e)
  BY <1>0, <1>5 DEF Grant, At, GoTo, fabric, RunState
<1>6. ASSUME NEW x \in FabricPermission, RevokeInFabric(e, x) PROVE Safe(e)'
  <2>1. PICK pc \in {"revoke", "failed"} :
          run' = [run EXCEPT ![e].pc = pc, ![e].sent = @ \cup {x}]
    BY <1>6 DEF RevokeInFabric
  <2>2. taken'[e] \subseteq taken[e] \cup {<<x.ws, x.principal>>}
    BY <1>6, DeleteType DEF RevokeInFabric
  <2>3. x \in run[e].listed /\ run[e].toFabric /\ run[e].source # "asked" /\ run[e].unlisted = {}
    BY <1>6 DEF RevokeInFabric, At
  <2>4. /\ run'[e].toFabric /\ run'[e].listed = run[e].listed
        /\ run'[e].source # "asked" /\ run'[e].unlisted = {}
        /\ run'[e].revokes = run[e].revokes /\ run'[e].grants = run[e].grants
        /\ run'[e].pc # "audit" /\ run[e].sent \subseteq run'[e].sent
    BY <1>0, <2>1, <2>3 DEF RunState
  <2>5. trail' = trail
    BY <1>6 DEF RevokeInFabric
  <2>6. \A wp \in taken'[e] : \E y \in run'[e].listed : y.ws = wp[1] /\ y.principal = wp[2]
    BY <2>2, <2>3, <2>4
  <2> QED BY <2>3, <2>4, <2>5, <2>6
<1>7. CASE RevokeInSource(e)
  BY <1>0, <1>7 DEF RevokeInSource, At, GoTo, fabric, RunState
<1>8. CASE RevokesDone(e)
  BY <1>0, <1>8 DEF RevokesDone, At, GoTo, fabric, RunState
<1>9. CASE Audit(e)
  <2>1. PICK written \in SUBSET (run[e].grants \cup run[e].revokes), pc \in {"done", "killed"} :
          trail' = [trail EXCEPT ![e] = written] /\ GoTo(e, pc)
    BY <1>9 DEF Audit
  <2>2. run[e].toFabric => written \cap FabricPermission \subseteq run[e].sent
    BY <1>9, ReconcileAssumption DEF Audit, At
  <2> QED BY <1>0, <1>9, <2>1, <2>2 DEF Audit, At, GoTo, fabric, RunState
<1> QED BY <1>1, <1>2, <1>3, <1>4, <1>5, <1>6, <1>7, <1>8, <1>9
        DEF RunStep, DiscoverSource, SourceRefuses

LEMMA StepInv == IInv /\ [ReconcileNext]_reconcileVars => IInv'
<1> SUFFICES ASSUME IInv, [ReconcileNext]_reconcileVars PROVE IInv'
  OBVIOUS
<1>1. ReconcileTypeOK /\ ReconcileTypeOK' /\ \A e \in Runs : Safe(e)
  BY Typing, InvIsSafe
<1>2. ASSUME NEW e \in Runs, RunStep(e), NEW f \in Runs PROVE Safe(f)'
  <2>1. CASE f = e
    BY <1>1, <1>2, <2>1, OwnStep
  <2>2. CASE f # e
    BY <1>1, <1>2, <2>2, OthersUntouched DEF Safe, Complete, Planned
  <2> QED BY <2>1, <2>2
<1>3. ASSUME NEW w \in Workspaces, NEW p \in Assignees, NEW r \in WorkspaceRoles \cup {NoRole},
             Administer(w, p, r), NEW f \in Runs
      PROVE  Safe(f)'
  BY <1>1, <1>3 DEF Administer, Safe, Complete, Planned
<1>4. ASSUME UNCHANGED reconcileVars, NEW f \in Runs PROVE Safe(f)'
  BY <1>1, <1>4 DEF reconcileVars, Safe, Complete, Planned
<1>5. \A f \in Runs : Safe(f)'
  BY <1>2, <1>3, <1>4 DEF ReconcileNext
<1> QED BY <1>1, <1>5 DEF IInv, Links, Safe, RemovesOnlyListed, BothDiscoveriesReturned,
                          TrailFollowsCalls

-----------------------------------------------------------------------------
(* Theorems *)

LEMMA ReconcileInvariance == ReconcileSpec => []IInv
BY InitInv, StepInv, PTL DEF ReconcileSpec

\* Type correctness: discovery, diff and calls keep every variable, the audit
\* file and the ghost included, in its declared set.
THEOREM ReconcileTypeCorrect == ReconcileSpec => []ReconcileTypeOK
BY ReconcileInvariance, PTL DEF IInv

\* A run of the engine only ever takes a workspace role from a principal it
\* found there, whoever else is changing Fabric at the same time.
THEOREM OnlyListedAreRemoved == ReconcileSpec => []RemovesOnlyListed
BY ReconcileInvariance, PTL DEF IInv

\* A run removes nothing before both of its discoveries have returned, nor after one of
\* them has raised - returned, not read: what a source refuses is missing from its list.
THEOREM RemovalNeedsBothDiscoveries == ReconcileSpec => []BothDiscoveriesReturned
BY ReconcileInvariance, PTL DEF IInv

\* The audit file names no Fabric revoke that was not sent.
THEOREM TrailNamesSentCalls == ReconcileSpec => []TrailFollowsCalls
BY ReconcileInvariance, PTL DEF IInv
=============================================================================
