------------------------------ MODULE PairDiff ------------------------------
(***************************************************************************)
(* What the live diff of a pairing makes of the two platforms              *)
(* (app/services/pair_diff.py): the rows collected on either side, in      *)
(* canonical access classes, and the buckets of the rows that only one     *)
(* side has.  Row filters and column masks, which are rows of another      *)
(* kind, are not in this module.                                           *)
(*                                                                         *)
(* The sides name people differently.  Unity Catalog knows users by UPN    *)
(* and groups by name.  Fabric knows both by object id, and shows the      *)
(* display name beside a workspace role; Entra lets two objects have the   *)
(* same display name.                                                      *)
(***************************************************************************)
EXTENDS Naturals

CONSTANTS
  Users, Groups,  \* Entra objects
  Names,          \* display names; a group of Unity Catalog is its name
  Display,        \* display name of every Entra object
  Internal,       \* names of groups that Databricks makes for itself
  Catalog,        \* the paired catalog
  Workspace,      \* the paired workspace, as a scope
  Schemas, Tables, SchemaOf

FabricPrincipals == Users \cup Groups
UCPrincipals == Users \cup Names
Securables == {Catalog} \cup Schemas \cup Tables
Scopes == {Workspace} \cup Securables

ASSUME PairDiffAssumption ==
  /\ Users \cap Groups = {} /\ Users \cap Names = {} /\ Groups \cap Names = {}
  /\ Display \in [FabricPrincipals -> Names]
  /\ Internal \subseteq Names
  /\ Catalog \notin Schemas \cup Tables /\ Schemas \cap Tables = {}
  /\ Workspace \notin Securables
  /\ SchemaOf \in [Tables -> Schemas]

-----------------------------------------------------------------------------
(* Access classes *)

Access == {"OBJECT_USE", "DATA_READ", "DATA_WRITE", "DATA_ADMIN"}

\* OBJECT_USE only lets one traverse: no data.
Rank(access) ==
  CASE access = "DATA_READ" -> 1 [] access = "DATA_WRITE" -> 2
    [] access = "DATA_ADMIN" -> 3 [] OTHER -> 0

Privileges ==
  {"SELECT", "READ_VOLUME", "MODIFY", "CREATE_SCHEMA", "CREATE_TABLE", "CREATE_FUNCTION",
   "WRITE_VOLUME", "APPLY_TAG", "ALL_PRIVILEGES", "USE_CATALOG", "USE_SCHEMA", "EXECUTE"}

\* UC_TO_ACCESS
AccessOf(priv) ==
  CASE priv \in {"SELECT", "READ_VOLUME"} -> "DATA_READ"
    [] priv \in {"APPLY_TAG", "ALL_PRIVILEGES"} -> "DATA_ADMIN"
    [] priv \in {"USE_CATALOG", "USE_SCHEMA", "EXECUTE"} -> "OBJECT_USE"
    [] OTHER -> "DATA_WRITE"

Roles == {"Viewer", "Contributor", "Member", "Admin"}
NoRole == "no role"

\* FABRIC_ROLE_TO_ACCESS
AccessOfRole(r) ==
  CASE r = "Viewer" -> "DATA_READ" [] r = "Admin" -> "DATA_ADMIN" [] OTHER -> "DATA_WRITE"

DarActions == {"Read", "Write", "Reshare", "Execute"}

\* DAR_ACTION_TO_ACCESS
AccessOfAction(act) ==
  CASE act = "Read" -> "DATA_READ" [] act = "Write" -> "DATA_WRITE"
    [] act = "Reshare" -> "DATA_ADMIN" [] OTHER -> "OBJECT_USE"

\* ACCESS_SUBSUMES: a role counts on the catalog for its own class, for those
\* below it, and for traversal.
Covers(r, access) == Rank(access) <= Rank(AccessOfRole(r))

-----------------------------------------------------------------------------
(* The platforms, and the rows that the collectors make of them *)

UCGrant == [to : UCPrincipals, on : Securables, priv : Privileges]

\* Membership of a data access role: one member, path and action of it.  A path
\* names a table, a schema, or everything, which counts as the catalog.
DarGrant == [to : FabricPrincipals, on : Securables, act : DarActions]

\* by tells what principal_display shows: a name, or an object id.
Row ==
  [who : UCPrincipals \cup FabricPrincipals, by : {"name", "oid"},
   scope : Scopes, access : Access]

\* collect_dbx_rows
DbxRows(grants) ==
  {[who |-> g.to, by |-> "name", scope |-> g.on, access |-> AccessOf(g.priv)] : g \in grants}

RoleRows(roles) ==
  {x \in Row :
     /\ x.who \in FabricPrincipals /\ x.by = "name" /\ roles[x.who] # NoRole
     /\ \/ x.scope = Workspace /\ x.access = AccessOfRole(roles[x.who])
        \/ x.scope = Catalog /\ Covers(roles[x.who], x.access)}

DarRows(members) ==
  {[who |-> g.to, by |-> "oid", scope |-> g.on, access |-> AccessOfAction(g.act)] : g \in members}

\* collect_fabric_rows: there are data access roles to read only if an item
\* mirrors the catalog, and a row that a workspace role has made stays as it is.
FabricRows(roles, members, hasItem) ==
  RoleRows(roles) \cup
    {d \in DarRows(members) :
       /\ hasItem
       /\ \A r \in RoleRows(roles) :
            ~(r.who = d.who /\ r.scope = d.scope /\ r.access = d.access)}

-----------------------------------------------------------------------------
(* compute_diff *)

\* Users match by object id, if Graph answered for them; a group never matches,
\* being a name on one side and an object id on the other.
Same(d, f, known) ==
  d.who \in known /\ d.who = f.who /\ d.scope = f.scope /\ d.access = f.access

DbxOnly(dbx, fab, known) == {d \in dbx : \A f \in fab : ~Same(d, f, known)}
FabricOnly(dbx, fab, known) == {f \in fab : \A d \in dbx : ~Same(d, f, known)}
=============================================================================
