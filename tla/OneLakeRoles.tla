----------------------------- MODULE OneLakeRoles -----------------------------
(***************************************************************************)
(* The data access roles of one mirrored catalog item in OneLake, and the  *)
(* apply threads that change them (app/services/pair_apply.py):            *)
(* _grant_onelake_dar adds a person to the hub's role for a table, and     *)
(* _upsert_das_constraint_role installs a role that carries a row filter   *)
(* or a column mask of a table.                                            *)
(*                                                                         *)
(* Fabric only offers GET and PUT of the whole list of roles, and the code *)
(* sends no ETag: a thread GETs the list, changes its copy and PUTs it     *)
(* back, while other applies and administrators do the same.  An           *)
(* administrator's change in the portal is one atomic step here.           *)
(***************************************************************************)
EXTENDS Naturals

CONSTANTS
  Writers,      \* threads, each applying one diff row of table scope
  ItemTables,
  People,       \* Entra principals that rows are about
  Caller,       \* the identity the hub itself runs as
  Rules,        \* translated row filters and column masks
  AdminRoles,   \* names of roles that administrators made
  AdminPaths,   \* sets of tables that administrators give their own roles
  EditedPaths,  \* sets of tables that administrators give a role of the hub
  NoRole,       \* no role of that name in the list
  NoRule,       \* in the name of a role without one
  MaxEdits      \* bound: changes made by administrators

ASSUME OneLakeRolesAssumption ==
  /\ AdminPaths \subseteq SUBSET ItemTables
  /\ EditedPaths \subseteq SUBSET ItemTables
  /\ MaxEdits \in Nat
  /\ NoRule \notin Rules
  /\ AdminRoles \cap [table : ItemTables, rule : Rules \cup {NoRule}] = {}
  /\ NoRole \notin [paths : SUBSET ItemTables, read : BOOLEAN,
                    members : SUBSET (People \cup {Caller})]

VARIABLES
  roles,  \* roles[n]: the role called n on the item
  job,    \* program counter and locals of each writer
  given,  \* ghost: <<person, table>> pairs that an administrator's edit or a
          \* row that was applied has given access
  edits   \* how many times administrators changed the list

rolesVars == <<roles, job, given, edits>>

-----------------------------------------------------------------------------
(* Data *)

\* "hub" + access class + path + hash of the three: one name per table, as
\* DATA_READ is the only class that gets this far.
HubRole(t) == [table |-> t, rule |-> NoRule]

\* "hubfg" + kind + hash of kind, path, predicate and columns.
RuleRole(t, c) == [table |-> t, rule |-> c]

HubRoles == {HubRole(t) : t \in ItemTables}
RuleRoles == {RuleRole(t, c) : t \in ItemTables, c \in Rules}
RoleNames == HubRoles \cup RuleRoles \cup AdminRoles

Everyone == People \cup {Caller}

\* What a decision rule permits: reading under the paths, if its action is Read.
Role == [paths : SUBSET ItemTables, read : BOOLEAN, members : SUBSET Everyone]

RoleList == [RoleNames -> Role \cup {NoRole}]

\* "put" is between the GET and the PUT.  name is the role the row is for, and
\* person the member that a grant adds, or that a rule falls back on.
JobState ==
  [pc : {"idle", "put", "ok", "failed", "raised"}, name : HubRoles \cup RuleRoles,
   person : Everyone, list : RoleList]

NoRoles == [n \in RoleNames |-> NoRole]

RolesTypeOK ==
  /\ roles \in RoleList
  /\ job \in [Writers -> JobState]
  /\ given \subseteq Everyone \X ItemTables
  /\ edits \in 0..MaxEdits

\* The diff rows that the threads are about to apply.
Row ==
  [pc : {"idle"}, name : HubRoles, person : People, list : {NoRoles}]
  \cup [pc : {"idle"}, name : RuleRoles, person : {Caller}, list : {NoRoles}]

\* Faulty: the path of the role is not looked at.
Matches_AnyPath(role, t) == role # NoRole /\ role.read

\* _dar_role_matches: the path is among the role's paths, Read among its actions.
Matches(role, t) == role # NoRole /\ role.read /\ t \in role.paths

\* Who can read what under a list of roles.
Access(list) ==
  {pt \in Everyone \X ItemTables :
     \E n \in RoleNames : /\ list[n] # NoRole /\ list[n].read
                      /\ pt[2] \in list[n].paths /\ pt[1] \in list[n].members}

\* Administrators may have made their roles before the hub makes any.
RolesInit ==
  /\ \E own \in [AdminRoles -> {r \in Role : r.paths \in AdminPaths} \cup {NoRole}] :
       roles = [n \in RoleNames |-> IF n \in AdminRoles THEN own[n] ELSE NoRole]
  /\ job \in [Writers -> Row]
  /\ given = Access(roles)
  /\ edits = 0

-----------------------------------------------------------------------------
(* The writers *)

Table(w) == job[w].name.table
IsGrant(w) == job[w].name.rule = NoRule

\* The list comes back.
Get(w) ==
  /\ job[w].pc = "idle"
  /\ job' = [job EXCEPT ![w].pc = "put", ![w].list = roles]
  /\ UNCHANGED <<roles, given, edits>>

\* The thread is done with its row; its copy of the list is gone.
EndRow(w, pc) == job' = [job EXCEPT ![w].pc = pc, ![w].list = NoRoles]

EndUnchanged(w, pc) == EndRow(w, pc) /\ UNCHANGED <<roles, given, edits>>

\* No API on this item, an HTTP or a transport error; or no token, which raises.
GetFails(w) ==
  /\ job[w].pc = "idle"
  /\ \E pc \in {"failed", "raised"} : EndUnchanged(w, pc)

\* The role of that name in the thread's copy of the list.
Found(w) == job[w].list[job[w].name]

HasDifferentScope(w) == Found(w) # NoRole /\ ~Matches(Found(w), Table(w))

\* Whoever is in a role that matches the table.
ReadersOf(list, t) ==
  {p \in Everyone : \E n \in RoleNames : Matches(list[n], t) /\ p \in list[n].members}

\* Faulty: an identity that Graph did not resolve (None) is put in as it is.
RuleMembers_None(list, t, fallback) ==
  IF ReadersOf(list, t) # {} THEN ReadersOf(list, t) ELSE {NoRole}

\* _members_for_fine_grained_policy: the readers, or else the hub itself.
RuleMembers(list, t, fallback) ==
  IF ReadersOf(list, t) # {} THEN ReadersOf(list, t) ELSE {fallback}

\* "refusing to merge members", "refusing to overwrite".
RefuseScope(w) ==
  /\ job[w].pc = "put" /\ HasDifferentScope(w)
  /\ EndUnchanged(w, "failed")

\* "could not resolve any Entra member": nobody reads the table, and Graph does
\* not say who the hub is.
RefuseMembers(w) ==
  /\ job[w].pc = "put" /\ ~IsGrant(w)
  /\ ReadersOf(job[w].list, Table(w)) = {}
  /\ EndUnchanged(w, "failed")

AlreadyMember(w) ==
  IsGrant(w) /\ Found(w) # NoRole /\ job[w].person \in Found(w).members

\* "already granted (idempotent)", and no PUT.
FindGranted(w) ==
  /\ job[w].pc = "put" /\ ~HasDifferentScope(w) /\ AlreadyMember(w)
  /\ EndUnchanged(w, "ok")

\* Faulty: a grant replaces the role of that name, as a rule does.
Changed_Replace(w) ==
  [paths |-> {Table(w)}, read |-> TRUE,
   members |-> IF IsGrant(w) THEN {job[w].person}
               ELSE RuleMembers(job[w].list, Table(w), job[w].person)]

\* The role that goes back into the list: a grant merges its member into the
\* role it found, a rule replaces the role.
Changed(w) ==
  IF IsGrant(w) /\ Found(w) # NoRole
  THEN [Found(w) EXCEPT !.members = @ \cup {job[w].person}]
  ELSE [paths |-> {Table(w)}, read |-> TRUE,
        members |-> IF IsGrant(w) THEN {job[w].person}
                    ELSE RuleMembers(job[w].list, Table(w), job[w].person)]

CanPut(w) == job[w].pc = "put" /\ ~HasDifferentScope(w) /\ ~AlreadyMember(w)

\* The PUT takes effect: the whole list is what this thread read, but for the
\* one role.
Replace(w) ==
  /\ CanPut(w)
  /\ roles' = [job[w].list EXCEPT ![job[w].name] = Changed(w)]
  /\ given' = IF IsGrant(w) THEN given \cup {<<job[w].person, Table(w)>>} ELSE given
  /\ UNCHANGED edits

\* A PUT that raises is caught nowhere and ends the whole request; Fabric may
\* have acted on it all the same.
Put(w) == \E pc \in {"ok", "raised"} : Replace(w) /\ EndRow(w, pc)

PutFails(w) == \E pc \in {"failed", "raised"} : CanPut(w) /\ EndUnchanged(w, pc)

-----------------------------------------------------------------------------
(* Administrators in the portal *)

PathsFor(n) == IF n \in AdminRoles THEN AdminPaths ELSE EditedPaths

\* A role is made, or changed in any respect: paths, actions or members.
AdminEdit(n, role) ==
  /\ edits < MaxEdits
  /\ role.paths \in PathsFor(n)
  /\ roles' = [roles EXCEPT ![n] = role]
  /\ given' = given \cup {pt \in role.members \X role.paths : role.read}
  /\ edits' = edits + 1
  /\ UNCHANGED job

AdminDelete(n) ==
  /\ edits < MaxEdits
  /\ roles[n] # NoRole
  /\ roles' = [roles EXCEPT ![n] = NoRole]
  /\ edits' = edits + 1
  /\ UNCHANGED <<job, given>>

-----------------------------------------------------------------------------
WriterStep(w) ==
  \/ Get(w) \/ GetFails(w)
  \/ RefuseScope(w) \/ RefuseMembers(w) \/ FindGranted(w)
  \/ Put(w) \/ PutFails(w)

AdminStep ==
  \E n \in RoleNames : AdminDelete(n) \/ \E role \in Role : AdminEdit(n, role)

RolesNext == AdminStep \/ \E w \in Writers : WriterStep(w)

RolesSpec == RolesInit /\ [][RolesNext]_rolesVars

-----------------------------------------------------------------------------
(* Safety *)

\* A rule that is applied to a table nobody reads gives the hub the table.
RuledTables == {Table(w) : w \in {v \in Writers : ~IsGrant(v) /\ job[v].pc # "idle"}}

\* Nobody reads a table unless an administrator or a row about that very
\* person and table gave it to them at some time - a stale list that is PUT
\* back may revive what was revoked, but no copy, merge or refusal invents
\* access.  The hub itself is the exception: a rule falls back on it.
Claimed == given \cup ({Caller} \X RuledTables)

AccessIsGiven == Access(roles) \subseteq Claimed

\* A thread whose list is still the current one takes nobody's access away,
\* be it by a merge, by the role of a rule that it replaces, or by a
\* refusal.  (With a stale list it may: the last PUT wins.)
NeverWithdraws ==
  [][\A w \in Writers :
       job[w].pc = "put" /\ job'[w].pc # "put" /\ job[w].list = roles
         => Access(roles) \subseteq Access(roles')]_rolesVars

\* What the two rest on: administrators never widen a role that the hub made.  They
\* may move it to another table, which the hub then refuses to touch; but a role that
\* has its table and others besides still matches it (path in, pair_apply.py:327-330),
\* and a grant would be merged into it, although the comment at line 451 says never
\* into "a role with a different scope".  That case is not covered here ...
EditsKeepScope == \A ps \in EditedPaths, t \in ItemTables : t \in ps => ps = {t}

\* ... so that a role of the hub that matches its table covers nothing else ...
ScopeKept(list) ==
  \A n \in HubRoles \cup RuleRoles : Matches(list[n], n.table) => list[n].paths = {n.table}

\* ... and the list in a thread's hands is no worse than the one on the item.
ListsInHand ==
  /\ ScopeKept(roles)
  /\ \A w \in Writers : /\ Access(job[w].list) \subseteq Claimed
                        /\ ScopeKept(job[w].list)
                        /\ IsGrant(w) \/ job[w].person = Caller
=============================================================================
