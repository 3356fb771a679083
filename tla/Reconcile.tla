------------------------------ MODULE Reconcile ------------------------------
(***************************************************************************)
(* The reconcile engine of permission-sync (src/orchestrator/              *)
(* sync_engine.py with its discovery, diff, planner and writers): a run    *)
(* discovers the source and Fabric at the same time, compares the two, and *)
(* grants and revokes on the target what the other side has and has not.   *)
(*                                                                         *)
(* A workflow starts a run every six hours, and people start more by hand; *)
(* nothing keeps two runs apart, administrators change Fabric meanwhile,   *)
(* and a run may be killed at any moment.                                  *)
(***************************************************************************)
CONSTANTS
  Runs,
  Workspaces,    \* Fabric workspaces, each with one lakehouse
  Assignees,     \* principals
  WorkspaceRoles, \* Viewer, Contributor, Member, Admin
  NoRole,
  LakehouseName, \* display names; two workspaces may use the same
  SourceGrants,  \* what Unity Catalog or Snowflake may report, as canonical
                 \* permissions
  OneLake        \* onelake_data_access_roles_enabled

\* What discovery reports of Fabric: a workspace role, or membership of a data
\* access role of the workspace's lakehouse.
FabricPermission ==
  [ws : Workspaces, principal : Assignees, type : {"workspace", "lakehouse"}]

\* No source has securables of these two types.
ASSUME ReconcileAssumption ==
  /\ OneLake \in BOOLEAN
  /\ NoRole \notin WorkspaceRoles
  /\ SourceGrants \cap FabricPermission = {}
  /\ DOMAIN LakehouseName = Workspaces

VARIABLES
  role,     \* role[w][p]: what p is in workspace w
  readers,  \* readers[w]: members of data access roles of w's lakehouse
  run,      \* program counter, configuration and locals of each run
  trail,    \* the permissions in the run's audit file
  taken     \* ghost: <<w, p>> pairs whose role a run has removed

reconcileVars == <<role, readers, run, trail, taken>>

-----------------------------------------------------------------------------
(* Data *)

Permission == FabricPermission \cup SourceGrants

RunState ==
  [pc : {"discover", "grant", "revoke", "audit", "done", "failed", "killed"},
   dry : BOOLEAN,            \* sync.dry_run
   toFabric : BOOLEAN,       \* sync.direction is not "fabric_to_source"
   source : {"asked", "read", "refused"}, \* its discovery: refused means in part
   found : SUBSET SourceGrants,
   unlisted : SUBSET Workspaces,
   listed : SUBSET FabricPermission,
   grants : SUBSET Permission, revokes : SUBSET Permission,
   sent : SUBSET Permission] \* revokes that have been attempted

ReconcileTypeOK ==
  /\ role \in [Workspaces -> [Assignees -> WorkspaceRoles \cup {NoRole}]]
  /\ readers \in [Workspaces -> SUBSET Assignees]
  /\ run \in [Runs -> RunState]
  /\ trail \in [Runs -> SUBSET Permission]
  /\ taken \in [Runs -> SUBSET (Workspaces \X Assignees)]

ReconcileInit ==
  /\ role \in [Workspaces -> [Assignees -> WorkspaceRoles \cup {NoRole}]]
  /\ readers \in [Workspaces -> IF OneLake THEN SUBSET Assignees ELSE {{}}]
  /\ run \in [Runs ->
       [pc : {"discover"}, dry : BOOLEAN, toFabric : BOOLEAN,
        source : {"asked"}, found : {{}}, unlisted : {Workspaces}, listed : {{}},
        grants : {{}}, revokes : {{}}, sent : {{}}]]
  /\ trail = [e \in Runs |-> {}]
  /\ taken = [e \in Runs |-> {}]

fabric == <<role, readers, taken>>

At(e, pc) == run[e].pc = pc
GoTo(e, pc) == run' = [run EXCEPT ![e].pc = pc]

-----------------------------------------------------------------------------
(* Discovery: two threads under asyncio.gather *)

\* Faulty: a principal that Graph does not know comes back as None.
SourceReturns_None(e, answer) ==
  /\ At(e, "discover") /\ run[e].source = "asked"
  /\ run' = [run EXCEPT ![e].source = answer, ![e].found = {NoRole}]
  /\ UNCHANGED <<fabric, trail>>

\* The thread returns a list: what the source has, without the principals that Graph does
\* not know and the privileges without an access class - or what is left of it.
SourceReturns(e, answer) ==
  /\ At(e, "discover") /\ run[e].source = "asked"
  /\ \E found \in SUBSET SourceGrants :
       run' = [run EXCEPT ![e].source = answer, ![e].found = found]
  /\ UNCHANGED <<fabric, trail>>

DiscoverSource(e) == SourceReturns(e, "read")

\* A 401 or 403 of a Unity Catalog workspace, an account or a Key Vault that cannot be
\* listed, a failing Snowflake account or table, an unknown platform: what could not be
\* read is not in the list, down to an empty one, and the run takes it for the source's.
SourceRefuses(e) == SourceReturns(e, "refused")

RolesOf(w) ==
  {x \in FabricPermission : x.ws = w /\ x.type = "workspace" /\ role[w][x.principal] # NoRole}

ReadersOf(w) ==
  {x \in FabricPermission : x.ws = w /\ x.type = "lakehouse" /\ x.principal \in readers[w]}

\* One workspace after the other; a list that cannot be read is empty.
ListWorkspace(e, w) ==
  /\ At(e, "discover") /\ w \in run[e].unlisted
  /\ \E roles \in {RolesOf(w), {}}, members \in {ReadersOf(w), {}} :
       run' = [run EXCEPT ![e].unlisted = @ \ {w},
                          ![e].listed = @ \cup roles \cup members]
  /\ UNCHANGED <<fabric, trail>>

\* Faulty: gather(return_exceptions=True), and the missing side counts as empty.
DiscoveryRaises_GoOn(e) ==
  /\ At(e, "discover")
  /\ run' = [run EXCEPT ![e].pc = "grant", ![e].revokes = run[e].listed]
  /\ UNCHANGED <<fabric, trail>>

\* No token, no list of Fabric workspaces, another error of a Unity Catalog workspace:
\* gather raises.
DiscoveryRaises(e) ==
  /\ At(e, "discover")
  /\ GoTo(e, "failed")
  /\ UNCHANGED <<fabric, trail>>

-----------------------------------------------------------------------------
(* compute_diff *)

\* The equality key names a lakehouse by its display name, not its workspace.
Key(x) ==
  IF x \in FabricPermission /\ x.type = "lakehouse"
  THEN <<x.principal, LakehouseName[x.ws]>> ELSE <<x>>

\* A dictionary by key keeps one permission per key: the last in the list.
OnePerKey(kept, list) ==
  /\ kept \subseteq list
  /\ \A x \in list : \E y \in kept : Key(y) = Key(x)
  /\ \A x, y \in kept : Key(x) = Key(y) => x = y

\* Grant what only the desired state has, revoke what only the current state
\* has.  Source and Fabric keys differ in their types, so nothing is ever
\* unchanged, and there is no conflict to resolve.
Diff(e) ==
  /\ At(e, "discover") /\ run[e].source # "asked" /\ run[e].unlisted = {}
  /\ LET desired == IF run[e].toFabric THEN run[e].found ELSE run[e].listed
         current == IF run[e].toFabric THEN run[e].listed ELSE run[e].found
     IN  \E grants \in SUBSET desired, revokes \in SUBSET current :
           /\ OnePerKey(grants, desired) /\ OnePerKey(revokes, current)
           /\ run' = [run EXCEPT ![e].pc = "grant",
                                 ![e].grants = grants, ![e].revokes = revokes]
  /\ UNCHANGED <<fabric, trail>>

-----------------------------------------------------------------------------
(* apply_diff: all grants, then all revokes *)

\* FabricWriter.write knows dry runs; the writers of the sources do not.
SendsGrants(e) == run[e].grants # {} /\ ~(run[e].dry /\ run[e].toFabric)

\* A grant changes nothing.  In Fabric it is sent to the workspace that the
\* source permission names, a Databricks URL or a Snowflake account; in the
\* source it has no workspace URL and no connection.  Such a call may raise.
Grant(e) ==
  /\ At(e, "grant")
  /\ GoTo(e, "revoke") \/ (SendsGrants(e) /\ GoTo(e, "failed"))
  /\ UNCHANGED <<fabric, trail>>

\* Faulty: the principal is removed from every workspace.
Delete_Everywhere(e, x) ==
  /\ role' = [w \in Workspaces |-> [role[w] EXCEPT ![x.principal] = NoRole]]
  /\ taken' = [taken EXCEPT ![e] = @ \cup
       {wp \in Workspaces \X {x.principal} : role[wp[1]][wp[2]] # NoRole}]

\* DELETE .../roleAssignments/{principal}: whatever role the principal has by
\* now, also if it was a data access role that was to be revoked.
Delete(e, x) ==
  /\ role' = [role EXCEPT ![x.ws][x.principal] = NoRole]
  /\ taken' = [taken EXCEPT ![e] = @ \cup
       {wp \in {<<x.ws, x.principal>>} : role[x.ws][x.principal] # NoRole}]

\* revoke_workspace_role looks at neither the plan's layer nor its dry_run.
\* Fabric refuses, or acts on the call; either way the answer may get lost,
\* and then the call raises.
RevokeInFabric(e, x) ==
  /\ At(e, "revoke") /\ run[e].toFabric /\ x \in run[e].revokes \ run[e].sent
  /\ Delete(e, x) \/ UNCHANGED <<role, taken>>
  /\ \E pc \in {"revoke", "failed"} :
       run' = [run EXCEPT ![e].pc = pc, ![e].sent = @ \cup {x}]
  /\ UNCHANGED <<readers, trail>>

\* The calls to a source fail for want of a URL or of connection parameters;
\* Snowflake's raise.
RevokeInSource(e) ==
  /\ At(e, "revoke") /\ ~run[e].toFabric
  /\ \/ run' = [run EXCEPT ![e].pc = "audit", ![e].sent = run[e].revokes]
     \/ run[e].revokes # {} /\ GoTo(e, "failed")
  /\ UNCHANGED <<fabric, trail>>

\* Faulty: the first error ends the loop, and the audit begins.
RevokesDone_Break(e) ==
  /\ At(e, "revoke") /\ run[e].toFabric
  /\ GoTo(e, "audit")
  /\ UNCHANGED <<fabric, trail>>

RevokesDone(e) ==
  /\ At(e, "revoke") /\ run[e].toFabric /\ run[e].sent = run[e].revokes
  /\ GoTo(e, "audit")
  /\ UNCHANGED <<fabric, trail>>

\* Everything that was to be granted or revoked goes on the trail, whatever
\* came of it; a write that fails is swallowed, and the run may be killed
\* between two of them.
Audit(e) ==
  /\ At(e, "audit")
  /\ \E written \in SUBSET (run[e].grants \cup run[e].revokes), pc \in {"done", "killed"} :
       /\ trail' = [trail EXCEPT ![e] = written]
       /\ GoTo(e, pc)
  /\ UNCHANGED fabric

-----------------------------------------------------------------------------
(* The environment *)

Ended(e) == run[e].pc \in {"done", "failed", "killed"}

\* The workflow's runner dies, or is cancelled.
Kill(e) ==
  /\ ~Ended(e)
  /\ GoTo(e, "killed")
  /\ UNCHANGED <<fabric, trail>>

\* An administrator assigns, changes or removes a workspace role.
Administer(w, p, r) ==
  /\ role' = [role EXCEPT ![w][p] = r]
  /\ UNCHANGED <<readers, run, trail, taken>>

-----------------------------------------------------------------------------
RunStep(e) ==
  \/ DiscoverSource(e) \/ SourceRefuses(e) \/ DiscoveryRaises(e) \/ Diff(e) \/ Grant(e)
  \/ \E w \in Workspaces : ListWorkspace(e, w)
  \/ \E x \in FabricPermission : RevokeInFabric(e, x)
  \/ RevokeInSource(e) \/ RevokesDone(e) \/ Audit(e) \/ Kill(e)

ReconcileNext ==
  \/ \E e \in Runs : RunStep(e)
  \/ \E w \in Workspaces, p \in Assignees, r \in WorkspaceRoles \cup {NoRole} : Administer(w, p, r)

ReconcileSpec == ReconcileInit /\ [][ReconcileNext]_reconcileVars

-----------------------------------------------------------------------------
(* Safety *)

\* A run takes a workspace role only from somebody whom it found itself in
\* that workspace, or in its lakehouse, and only when Fabric is the target:
\* a workspace that could not be listed, or one that merely has a lakehouse of
\* the same name, is left alone, whatever administrators and other runs do.
RemovesOnlyListed ==
  \A e \in Runs : \A wp \in taken[e] :
    /\ run[e].toFabric
    /\ \E x \in run[e].listed : x.ws = wp[1] /\ x.principal = wp[2]

\* No role is lost to a run before both of its discoveries have returned, and if one of
\* them raises there will be no call.  (That they returned is not that they read all there
\* is: a source that refuses leaves a run with a short list or none, and whatever is
\* listed in Fabric is then revoked.)
BothDiscoveriesReturned ==
  \A e \in Runs : taken[e] # {} => run[e].source # "asked" /\ run[e].unlisted = {}

\* The audit file of a run only speaks of revokes in Fabric that were sent.
TrailFollowsCalls ==
  \A e \in Runs : run[e].toFabric => trail[e] \cap FabricPermission \subseteq run[e].sent

-----------------------------------------------------------------------------
(* A claim of the documentation that the code does not keep *)

\* permission-sync/README.md:24: "`dry_run` defaults to `true` - no writes hit
\* Fabric/UC/Snowflake until you set `DRY_RUN=false`".
DryRunsTouchNothing == \A e \in Runs : run[e].dry => taken[e] = {}
=============================================================================
