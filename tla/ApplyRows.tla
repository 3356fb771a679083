------------------------------ MODULE ApplyRows ------------------------------
(***************************************************************************)
(* apply_rows (app/services/pair_apply.py) call by call: how a row of the  *)
(* live diff becomes grants on the other platform, and what is left of a   *)
(* row when one of its calls fails.  Rows of row filters, column masks and *)
(* policies are not in this module, nor are service principals.            *)
(*                                                                         *)
(* Applies run side by side and in both directions, one after the other,   *)
(* while administrators give and withdraw rights on both platforms: what   *)
(* an apply grants on one side is a row of the next diff.                  *)
(***************************************************************************)
EXTENDS PairDiff, FiniteSets, Sequences

CONSTANTS
  NoRow, Nobody,
  Jobs,       \* applies at the same time
  Grantable,  \* what administrators give in Unity Catalog
  MaxGiven,   \* bound: how many rights administrators have given
  MaxTaken    \* bound: how often administrators withdraw one

ASSUME ApplyRowsAssumption ==
  /\ Grantable \subseteq Privileges
  /\ MaxGiven \in Nat /\ MaxTaken \in Nat

VARIABLES
  uc,        \* grants in the catalog
  role,      \* roles in the workspace
  dar,       \* memberships of data access roles of the mirrored item
  mirrored,  \* whether the workspace has an item with the catalog's name
  queue,     \* status of a principal in the identity queue
  job,       \* program counter and locals of each apply
  given,     \* ghost: the rights that administrators ever gave
  sent,      \* ghost: what applies have granted in the catalog
  taken      \* how often administrators have withdrawn a right

vars == <<uc, role, dar, mirrored, queue, job, given, sent, taken>>
platforms == <<uc, role, dar, mirrored>>
history == <<given, sent, taken>>

-----------------------------------------------------------------------------
(* Data *)

Directions == {"dbx_to_fabric", "fabric_to_dbx"}
Outcomes == {"none", "ok", "skipped", "failed"}

Job ==
  [pc : {"idle", "collect", "rows", "calls"},
   dir : Directions, dry : BOOLEAN,
   unread : SUBSET {"dbx", "fabric"},    \* sides still to be collected
   dbx : SUBSET Row, fab : SUBSET Row,
   bucket : SUBSET Row,                  \* the rows that may be selected
   row : Row \cup {NoRow},               \* the row at hand
   to : UCPrincipals \cup FabricPrincipals \cup {Nobody}, \* whom it resolves to
   step : 0..3,                          \* the next call for it
   outcome : Outcomes]                   \* of the row before

Idle ==
  [pc |-> "idle", dir |-> "dbx_to_fabric", dry |-> TRUE, unread |-> {}, dbx |-> {}, fab |-> {},
   bucket |-> {}, row |-> NoRow, to |-> Nobody, step |-> 0, outcome |-> "none"]

\* A right that an administrator gave to somebody of this name; a workspace
\* role counts as one on the catalog.
Right ==
  [name : Names, side : {"dbx", "fabric"}, on : Securables, access : Access]

Statuses == {"absent", "unresolved", "resolved", "ignored"}

TypeOK ==
  /\ uc \subseteq UCGrant /\ dar \subseteq DarGrant /\ sent \subseteq UCGrant
  /\ role \in [FabricPrincipals -> Roles \cup {NoRole}]
  /\ mirrored \in BOOLEAN
  /\ queue \in [UCPrincipals -> Statuses]
  /\ job \in [Jobs -> Job]
  /\ given \subseteq Right
  /\ taken \in 0..MaxTaken

Init ==
  /\ uc = {} /\ dar = {} /\ sent = {} /\ given = {} /\ taken = 0
  /\ role = [x \in FabricPrincipals |-> NoRole]
  /\ mirrored \in BOOLEAN
  /\ queue = [x \in UCPrincipals |-> "absent"]
  /\ job = [j \in Jobs |-> Idle]

NameOf(x) == IF x \in FabricPrincipals THEN Display[x] ELSE x

At(j, pc) == job[j].pc = pc

-----------------------------------------------------------------------------
(* The diff of an apply: both sides at the same time, then the comparison *)

Arrive(j) ==
  /\ At(j, "idle")
  /\ \E dir \in Directions, dry \in BOOLEAN :
       job' = [job EXCEPT ![j] = [Idle EXCEPT !.pc = "collect", !.dir = dir, !.dry = dry,
                                              !.unread = {"dbx", "fabric"}]]
  /\ UNCHANGED <<platforms, queue, history>>

CollectDbx(j) ==
  /\ At(j, "collect") /\ "dbx" \in job[j].unread
  /\ job' = [job EXCEPT ![j].unread = @ \ {"dbx"}, ![j].dbx = DbxRows(uc)]
  /\ UNCHANGED <<platforms, queue, history>>

CollectFabric(j) ==
  /\ At(j, "collect") /\ "fabric" \in job[j].unread
  /\ job' = [job EXCEPT ![j].unread = @ \ {"fabric"},
                        ![j].fab = FabricRows(role, dar, mirrored)]
  /\ UNCHANGED <<platforms, queue, history>>

\* A side that raises becomes an error of the diff, and nothing is applied.
CollectFails(j) ==
  /\ At(j, "collect")
  /\ job' = [job EXCEPT ![j] = Idle]
  /\ UNCHANGED <<platforms, queue, history>>

Compare(j) ==
  /\ At(j, "collect") /\ job[j].unread = {}
  /\ \E known \in SUBSET Users :
       job' = [job EXCEPT ![j].pc = "rows", ![j].dbx = {}, ![j].fab = {}, ![j].bucket =
                 IF job[j].dir = "dbx_to_fabric"
                 THEN DbxOnly(job[j].dbx, job[j].fab, known)
                 ELSE FabricOnly(job[j].dbx, job[j].fab, known)]
  /\ UNCHANGED <<platforms, queue, history>>

-----------------------------------------------------------------------------
(* Where a row goes *)

\* _plan_fabric_layer
Layer(r) ==
  CASE r.scope \in Schemas -> "unsupported_schema"
    [] r.scope \in Tables /\ r.access # "OBJECT_USE" -> "onelake_dar"
    [] OTHER -> "workspace_role"

\* Faulty: traversal becomes a Viewer, who reads every item of the workspace.
RoleFor_Viewer(access) ==
  CASE access \in {"OBJECT_USE", "DATA_READ"} -> "Viewer"
    [] access = "DATA_WRITE" -> "Contributor" [] OTHER -> "Admin"

\* ACCESS_TO_FABRIC_ROLE
RoleFor(access) ==
  CASE access = "DATA_READ" -> "Viewer" [] access = "DATA_WRITE" -> "Contributor"
    [] access = "DATA_ADMIN" -> "Admin" [] OTHER -> NoRole

\* What has no safe equivalent in Fabric.
HasNoEquivalent(r) ==
  \/ Layer(r) = "unsupported_schema"
  \/ Layer(r) = "workspace_role" /\ RoleFor(r.access) = NoRole
  \/ Layer(r) = "onelake_dar" /\ (~mirrored \/ r.access # "DATA_READ")

\* _uc_target_from_scope
Target(r) == IF r.scope = Workspace THEN Catalog ELSE r.scope

\* Faulty: the grant first, then what it takes to reach it.
Path_Reversed(s) ==
  CASE s \in Schemas -> <<s, Catalog>> [] s \in Tables -> <<s, SchemaOf[s], Catalog>>
    [] OTHER -> <<s>>

\* _uc_grant_operations: one call for each securable on the way to s.
Path(s) ==
  CASE s \in Schemas -> <<Catalog, s>> [] s \in Tables -> <<Catalog, SchemaOf[s], s>>
    [] OTHER -> <<s>>

Traversal(s) ==
  CASE s = Catalog -> {"USE_CATALOG"} [] s \in Schemas -> {"USE_SCHEMA"} [] OTHER -> {}

\* UC_PRIV_BY_SCOPE
PrivilegesFor(access, s) ==
  CASE access = "DATA_READ" -> Traversal(s) \cup {"SELECT"}
    [] access = "DATA_WRITE" -> Traversal(s) \cup {"MODIFY"}
    [] access = "DATA_ADMIN" -> {"ALL_PRIVILEGES"}
    [] OTHER -> Traversal(s)

\* Graph: a user by UPN, a group by display name - the first one it lists.
ToEntra(r) == {x \in FabricPrincipals : x = r.who \/ (x \in Groups /\ Display[x] = r.who)}

\* Faulty: what Fabric calls the principal is taken for its name in Unity Catalog.
ToUC_AsIs(r) == {r.who}

\* A group passes as its name, an object id is looked up, and a display name is
\* taken for the first user who has it.
ToUC(r) ==
  IF r.who \in Groups THEN {Display[r.who]}
  ELSE IF r.by = "oid" THEN {r.who}
  ELSE {u \in Users : Display[u] = Display[r.who]}

-----------------------------------------------------------------------------
(* Rows that make no call *)

ToFabric(j) == job[j].dir = "dbx_to_fabric"

\* A row that a form has selected; a form may name a row twice.
Selects(j, r) == At(j, "rows") /\ r \in job[j].bucket

Report(j, outcome) ==
  job' = [job EXCEPT ![j].pc = "rows", ![j].row = NoRow, ![j].to = Nobody, ![j].step = 0,
                     ![j].outcome = outcome]

\* The list of items is read again for every row on a table.
LookupFails(j, r) ==
  /\ Selects(j, r) /\ ToFabric(j) /\ Layer(r) = "onelake_dar"
  /\ Report(j, "failed")
  /\ UNCHANGED <<platforms, queue, history>>

SkipRow(j, r) ==
  /\ Selects(j, r) /\ ToFabric(j)
  /\ HasNoEquivalent(r) \/ r.who \in Internal
  /\ Report(j, "skipped")
  /\ UNCHANGED <<platforms, queue, history>>

NoMapping(j, r) ==
  /\ Selects(j, r) /\ ~ToFabric(j)
  /\ PrivilegesFor(r.access, Target(r)) = {}
  /\ Report(j, "failed")
  /\ UNCHANGED <<platforms, queue, history>>

\* The rows for which a real apply resolves the principal.
Grantworthy(j, r) ==
  IF ToFabric(j) THEN ~HasNoEquivalent(r) /\ r.who \notin Internal
  ELSE PrivilegesFor(r.access, Target(r)) # {}

Preview(j, r) ==
  /\ Selects(j, r) /\ job[j].dry /\ Grantworthy(j, r)
  /\ Report(j, "ok")
  /\ UNCHANGED <<platforms, queue, history>>

\* Faulty: the upsert resets what the operator has decided.
Enqueue_Reset(x) == queue' = [queue EXCEPT ![x] = "unresolved"]

\* identity_queue.enqueue leaves the status of a known principal alone.
Enqueue(x) == queue' = [queue EXCEPT ![x] = IF @ = "absent" THEN "unresolved" ELSE @]

\* Graph does not know the principal, or does not answer; the queue is written
\* if the database lets it.
SkipUnknown(j, r) ==
  /\ Selects(j, r) /\ ~job[j].dry /\ Grantworthy(j, r)
  /\ ToFabric(j) \/ r.who \notin Groups \/ r.by = "oid"
  /\ Report(j, "skipped")
  /\ (ToFabric(j) /\ Enqueue(r.who)) \/ UNCHANGED queue
  /\ UNCHANGED <<platforms, history>>

-----------------------------------------------------------------------------
(* Rows that make calls *)

Begin(j, r) ==
  /\ Selects(j, r) /\ ~job[j].dry /\ Grantworthy(j, r)
  /\ \E x \in IF ToFabric(j) THEN ToEntra(r) ELSE ToUC(r) :
       job' = [job EXCEPT ![j].pc = "calls", ![j].row = r, ![j].to = x, ![j].step = 1,
                          ![j].outcome = "none"]
  /\ UNCHANGED <<platforms, queue, history>>

CallsFor(j) == IF ToFabric(j) THEN 1 ELSE Len(Path(Target(job[j].row)))

\* The privileges of call number job[j].step.
PrivilegesNow(j) ==
  LET target == Target(job[j].row)
      s == Path(target)[job[j].step]
  IN  IF s = target THEN PrivilegesFor(job[j].row.access, s) ELSE Traversal(s)

GrantsNow(j) ==
  {[to |-> job[j].to, on |-> Path(Target(job[j].row))[job[j].step], priv |-> p] :
     p \in PrivilegesNow(j)}

\* One PATCH of the grants of a securable.
GrantInCatalog(j) ==
  /\ uc' = uc \cup GrantsNow(j) /\ sent' = sent \cup GrantsNow(j)
  /\ UNCHANGED <<role, dar, mirrored>>

\* Fabric answers 409 if the principal has a role, whichever it is.
AssignRole(j) ==
  /\ role' = [role EXCEPT ![job[j].to] = IF @ = NoRole THEN RoleFor(job[j].row.access) ELSE @]
  /\ UNCHANGED <<uc, dar, mirrored, sent>>

\* The role of the table with one more member; OneLakeRoles has it in detail.
JoinRole(j) ==
  /\ dar' = dar \cup {[to |-> job[j].to, on |-> job[j].row.scope, act |-> "Read"]}
  /\ UNCHANGED <<uc, role, mirrored, sent>>

Effect(j) ==
  IF ~ToFabric(j) THEN GrantInCatalog(j)
  ELSE IF Layer(job[j].row) = "onelake_dar" THEN JoinRole(j) ELSE AssignRole(j)

NoEffect == UNCHANGED <<platforms, sent>>

\* Faulty: the success of the first call is returned for the row.
Accepted_First(j) ==
  /\ At(j, "calls")
  /\ Effect(j)
  /\ Report(j, "ok")
  /\ UNCHANGED <<queue, given, taken>>

\* A call is accepted, and the next one made; a row whose last call is accepted
\* is ok.
Accepted(j) ==
  /\ At(j, "calls")
  /\ Effect(j)
  /\ IF job[j].step < CallsFor(j) THEN job' = [job EXCEPT ![j].step = @ + 1]
     ELSE Report(j, "ok")
  /\ UNCHANGED <<queue, given, taken>>

\* An error status, possibly of a call that took effect: the row has failed, its
\* other calls are not made, the calls before stand.
Refused(j) ==
  /\ At(j, "calls")
  /\ Effect(j) \/ NoEffect
  /\ Report(j, "failed")
  /\ UNCHANGED <<queue, given, taken>>

\* No answer: the writers do not catch transport errors, and the apply ends.
Raises(j) ==
  /\ At(j, "calls")
  /\ Effect(j) \/ NoEffect
  /\ job' = [job EXCEPT ![j] = Idle]
  /\ UNCHANGED <<queue, given, taken>>

\* After the last of the selected rows.
Finish(j) ==
  /\ At(j, "rows")
  /\ job' = [job EXCEPT ![j] = Idle]
  /\ UNCHANGED <<platforms, queue, history>>

-----------------------------------------------------------------------------
(* Administrators and operators *)

Give(right) ==
  /\ given' = given \cup {right}
  /\ Cardinality(given') <= MaxGiven
  /\ UNCHANGED <<mirrored, queue, job, sent, taken>>

GiveInCatalog(g) ==
  /\ g.priv \in Grantable
  /\ uc' = uc \cup {g}
  /\ Give([name |-> NameOf(g.to), side |-> "dbx", on |-> g.on, access |-> AccessOf(g.priv)])
  /\ UNCHANGED <<role, dar>>

GiveRole(x, r) ==
  /\ role' = [role EXCEPT ![x] = r]
  /\ Give([name |-> Display[x], side |-> "fabric", on |-> Catalog, access |-> AccessOfRole(r)])
  /\ UNCHANGED <<uc, dar>>

GiveInItem(g) ==
  /\ mirrored
  /\ dar' = dar \cup {g}
  /\ Give([name |-> Display[g.to], side |-> "fabric", on |-> g.on,
           access |-> AccessOfAction(g.act)])
  /\ UNCHANGED <<uc, role>>

Withdraw ==
  /\ taken < MaxTaken /\ taken' = taken + 1
  /\ \/ \E g \in uc : uc' = uc \ {g} /\ UNCHANGED <<role, dar>>
     \/ \E x \in FabricPrincipals : role' = [role EXCEPT ![x] = NoRole] /\ UNCHANGED <<uc, dar>>
     \/ \E g \in dar : dar' = dar \ {g} /\ UNCHANGED <<uc, role>>
  /\ UNCHANGED <<mirrored, queue, job, given, sent>>

\* identity_queue.resolve and ignore; nothing reads the object id entered.
Settle(x, status) ==
  /\ queue[x] # "absent" /\ status \in {"resolved", "ignored"}
  /\ queue' = [queue EXCEPT ![x] = status]
  /\ UNCHANGED <<platforms, job, history>>

-----------------------------------------------------------------------------
JobStep(j) ==
  \/ Arrive(j) \/ CollectDbx(j) \/ CollectFabric(j) \/ CollectFails(j) \/ Compare(j)
  \/ \E r \in Row :
       \/ LookupFails(j, r) \/ SkipRow(j, r) \/ NoMapping(j, r)
       \/ Preview(j, r) \/ SkipUnknown(j, r) \/ Begin(j, r)
  \/ Accepted(j) \/ Refused(j) \/ Raises(j) \/ Finish(j)

People ==
  \/ \E g \in UCGrant : GiveInCatalog(g)
  \/ \E x \in FabricPrincipals, r \in Roles : GiveRole(x, r)
  \/ \E g \in DarGrant : GiveInItem(g)
  \/ Withdraw
  \/ \E x \in UCPrincipals, status \in Statuses : Settle(x, status)

Next == (\E j \in Jobs : JobStep(j)) \/ People

Spec == Init /\ [][Next]_vars

-----------------------------------------------------------------------------
(* Safety *)

\* The securables whose rights cover s.
Above(s) ==
  {Catalog, s} \cup (IF s \in Tables THEN {SchemaOf[s]} ELSE {})

Backed(x, s, access) ==
  Rank(access) = 0 \/
    \E right \in given :
      /\ right.name = NameOf(x) /\ right.on \in Above(s)
      /\ Rank(right.access) >= Rank(access)

\* Nobody holds more access to data, on either platform, than an administrator
\* has given on some platform to somebody of that name, there or further up: not
\* through several applies in both directions, not from a diff that is out of
\* date, not by a row that failed half way.
AccessFollowsGrants ==
  /\ \A g \in uc : Backed(g.to, g.on, AccessOf(g.priv))
  /\ \A x \in FabricPrincipals : role[x] # NoRole => Backed(x, Catalog, AccessOfRole(role[x]))
  /\ \A g \in dar : Backed(g.to, g.on, AccessOfAction(g.act))

\* What applies grant on data in the catalog can be reached: whichever calls
\* fail, the traversal of the schema and the catalog was granted before.
GrantsAreReachable ==
  \A g \in sent : Rank(AccessOf(g.priv)) > 0 =>
    /\ g.on # Catalog => [to |-> g.to, on |-> Catalog, priv |-> "USE_CATALOG"] \in sent
    /\ g.on \in Tables =>
         [to |-> g.to, on |-> SchemaOf[g.on], priv |-> "USE_SCHEMA"] \in sent

\* When a row is reported ok, the next diff will find it on its target: the
\* privileges that were granted are read back as the row's access class, for the
\* principal it was resolved to.  A workspace role that the principal had before
\* stays as it is.
OkRowsArrive ==
  [][\A j \in Jobs : At(j, "calls") /\ job'[j].outcome = "ok" =>
       \/ \E x \in IF ToFabric(j) THEN FabricRows(role', dar', mirrored') ELSE DbxRows(uc') :
            /\ x.who = job[j].to /\ x.scope = Target(job[j].row)
            /\ x.access = job[j].row.access
       \/ ToFabric(j) /\ Layer(job[j].row) = "workspace_role" /\ role[job[j].to] # NoRole]_vars

\* What an operator has resolved or ignored does not come back as unresolved
\* when a later apply meets the same principal again.
DecisionsStick ==
  [][\A x \in UCPrincipals :
       queue[x] \in {"resolved", "ignored"} => queue'[x] \in {"resolved", "ignored"}]_vars

-----------------------------------------------------------------------------
(* A claim of the tests that the code does not keep *)

\* tests/test_roundtrip_safety.py:3-5: the mapping "must not widen privileges
\* when a permission travels in both directions".  To write is not to read in
\* Unity Catalog, but a Contributor reads.
RoundTripsDoNotWiden ==
  \A g \in uc : g.priv = "SELECT" =>
    \E right \in given :
      /\ right.name = NameOf(g.to) /\ right.on \in Above(g.on)
      /\ \/ right.access \in {"DATA_READ", "DATA_ADMIN"}
         \/ right.access = "DATA_WRITE" /\ right.side = "fabric"
=============================================================================
