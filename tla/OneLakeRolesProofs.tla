------------------------- MODULE OneLakeRolesProofs -------------------------
(***************************************************************************)
(* Proofs about OneLakeRoles, for any number of threads, tables, people,   *)
(* rules, administrators' roles and edits.                                 *)
(*                                                                         *)
(* AccessIsGiven speaks of the list on the item, but what is PUT is a list *)
(* that some thread read earlier: ListsInHand extends it to those lists    *)
(* and adds that a role of the hub only covers its own table, without      *)
(* which a merge would give its member more than the row says.             *)
(***************************************************************************)
EXTENDS OneLakeRoles, TLAPS

OwnNames == HubRoles \cup RuleRoles

IInv == RolesTypeOK /\ AccessIsGiven /\ ListsInHand

-----------------------------------------------------------------------------
(* Names and lists *)

\* The names that the hub makes carry their table and are nobody else's.
LEMMA OwnNamesFacts ==
  ASSUME NEW n \in OwnNames
  PROVE  n \in RoleNames /\ n.table \in ItemTables /\ n \notin AdminRoles
<1>1. n \in [table : ItemTables, rule : Rules \cup {NoRule}]
  BY DEF OwnNames, HubRoles, RuleRoles, HubRole, RuleRole
<1>2. n \notin AdminRoles
  BY <1>1, OneLakeRolesAssumption
<1> QED BY <1>1, <1>2 DEF OwnNames, RoleNames

\* A role is never mistaken for the absence of one.
LEMMA RolesExist == \A r \in Role : r # NoRole
BY OneLakeRolesAssumption DEF Role, Everyone

\* The empty list gives nothing, and keeps every scope.
LEMMA NothingInNoRoles == Access(NoRoles) = {} /\ ScopeKept(NoRoles) /\ NoRoles \in RoleList
<1>1. \A n \in RoleNames : NoRoles[n] = NoRole
  BY DEF NoRoles
<1>2. Access(NoRoles) = {}
  BY <1>1 DEF Access
<1>3. ScopeKept(NoRoles)
  BY <1>1, OwnNamesFacts DEF ScopeKept, Matches, OwnNames
<1> QED BY <1>2, <1>3 DEF RoleList, NoRoles

\* Replacing one role changes what that role gives, and nothing else.
LEMMA AccessOfReplaced ==
  ASSUME NEW list \in RoleList, NEW n \in RoleNames, NEW r \in Role \cup {NoRole},
         NEW pt \in Access([list EXCEPT ![n] = r])
  PROVE  \/ pt \in Access(list)
         \/ r # NoRole /\ r.read /\ pt[2] \in r.paths /\ pt[1] \in r.members
<1> DEFINE new == [list EXCEPT ![n] = r]
<1>1. PICK m \in RoleNames : /\ new[m] # NoRole /\ new[m].read
                         /\ pt[2] \in new[m].paths /\ pt[1] \in new[m].members
  BY DEF Access
<1>2. pt \in Everyone \X ItemTables
  BY DEF Access
<1>3. CASE m = n
  <2>1. new[m] = r
    BY <1>3 DEF RoleList
  <2> QED BY <1>1, <2>1
<1>4. CASE m # n
  <2>1. new[m] = list[m]
    BY <1>4 DEF RoleList
  <2> QED BY <1>1, <1>2, <2>1 DEF Access
<1> QED BY <1>3, <1>4

\* What the other roles give is still given after one of them is replaced, and
\* so is all of what that role gave if the new one gives at least as much.
LEMMA ReplacedKeepsAccess ==
  ASSUME NEW list \in RoleList, NEW n \in RoleNames, NEW r \in Role,
         list[n] # NoRole /\ list[n].read => /\ r.read
                                            /\ list[n].paths \subseteq r.paths
                                            /\ list[n].members \subseteq r.members
  PROVE  Access(list) \subseteq Access([list EXCEPT ![n] = r])
<1> DEFINE new == [list EXCEPT ![n] = r]
<1> SUFFICES ASSUME NEW pt \in Access(list) PROVE pt \in Access(new)
  OBVIOUS
<1>1. PICK m \in RoleNames : /\ list[m] # NoRole /\ list[m].read
                         /\ pt[2] \in list[m].paths /\ pt[1] \in list[m].members
  BY DEF Access
<1>2. pt \in Everyone \X ItemTables
  BY DEF Access
<1>3. CASE m = n
  <2>1. new[m] = r
    BY <1>3 DEF RoleList
  <2>2. new[m] # NoRole /\ new[m].read /\ pt[2] \in new[m].paths /\ pt[1] \in new[m].members
    BY <1>1, <1>3, <2>1, RolesExist
  <2> QED BY <1>2, <2>2 DEF Access
<1>4. CASE m # n
  <2>1. new[m] = list[m]
    BY <1>4 DEF RoleList
  <2> QED BY <1>1, <1>2, <2>1 DEF Access
<1> QED BY <1>3, <1>4

-----------------------------------------------------------------------------
(* Typing *)

\* The role that a thread is about to PUT back is a role.
LEMMA ChangedIsRole ==
  ASSUME RolesTypeOK, NEW w \in Writers
  PROVE  Changed(w) \in Role
<1>1. job[w] \in JobState
  BY DEF RolesTypeOK
<1>2. job[w].name \in OwnNames
  BY <1>1 DEF JobState, OwnNames
<1>3. Table(w) \in ItemTables /\ job[w].name \in RoleNames
  BY <1>2, OwnNamesFacts DEF Table
<1>4. Found(w) \in Role \cup {NoRole}
  BY <1>1, <1>3 DEF JobState, RoleList, Found
<1>5. job[w].person \in Everyone
  BY <1>1 DEF JobState
<1>6. CASE IsGrant(w) /\ Found(w) # NoRole
  <2>1. Found(w) \in Role
    BY <1>4, <1>6
  <2>2. Changed(w) = [Found(w) EXCEPT !.members = @ \cup {job[w].person}]
    BY <1>6 DEF Changed
  <2> QED BY <1>5, <2>1, <2>2 DEF Role
<1>7. CASE ~(IsGrant(w) /\ Found(w) # NoRole)
  <2>1. RuleMembers(job[w].list, Table(w), job[w].person) \subseteq Everyone
    BY <1>5 DEF RuleMembers, ReadersOf
  <2> QED BY <1>3, <1>5, <1>7, <2>1 DEF Changed, Role
<1> QED BY <1>6, <1>7

\* Every state is of the declared type, initially ...
LEMMA InitTyped == RolesInit => RolesTypeOK
<1> SUFFICES ASSUME RolesInit PROVE RolesTypeOK
  OBVIOUS
<1>1. roles \in RoleList
  <2>1. PICK own \in [AdminRoles -> {r \in Role : r.paths \in AdminPaths} \cup {NoRole}] :
          roles = [n \in RoleNames |-> IF n \in AdminRoles THEN own[n] ELSE NoRole]
    BY DEF RolesInit
  <2> QED BY <2>1 DEF RoleList
<1>2. job \in [Writers -> JobState]
  <2>1. Row \subseteq JobState
    BY NothingInNoRoles DEF Row, JobState, Everyone
  <2> QED BY <2>1 DEF RolesInit
<1>3. given \subseteq Everyone \X ItemTables
  BY DEF RolesInit, Access
<1>4. edits \in 0..MaxEdits
  BY OneLakeRolesAssumption DEF RolesInit
<1> QED BY <1>1, <1>2, <1>3, <1>4 DEF RolesTypeOK

\* ... and after every step.
LEMMA Typing == RolesTypeOK /\ [RolesNext]_rolesVars => RolesTypeOK'
<1> SUFFICES ASSUME RolesTypeOK, [RolesNext]_rolesVars PROVE RolesTypeOK'
  OBVIOUS
<1>0. CASE UNCHANGED rolesVars
  BY <1>0 DEF RolesTypeOK, rolesVars
<1>1. ASSUME NEW w \in Writers, Get(w) PROVE RolesTypeOK'
  <2>1. job[w] \in JobState
    BY DEF RolesTypeOK
  <2>2. [job[w] EXCEPT !.pc = "put", !.list = roles] \in JobState
    BY <2>1 DEF RolesTypeOK, JobState
  <2>3. job' \in [Writers -> JobState]
    BY <1>1, <2>2 DEF Get, RolesTypeOK
  <2> QED BY <1>1, <2>3 DEF Get, RolesTypeOK
<1>2. ASSUME NEW w \in Writers, NEW pc \in {"ok", "failed", "raised"}, EndRow(w, pc)
      PROVE  job' \in [Writers -> JobState]
  <2>1. job[w] \in JobState
    BY DEF RolesTypeOK
  <2>2. [job[w] EXCEPT !.pc = pc, !.list = NoRoles] \in JobState
    BY <2>1, NothingInNoRoles DEF JobState
  <2> QED BY <1>2, <2>2 DEF EndRow, RolesTypeOK
<1>3. ASSUME NEW w \in Writers, NEW pc \in {"ok", "failed", "raised"}, EndUnchanged(w, pc)
      PROVE  RolesTypeOK'
  BY <1>2, <1>3 DEF EndUnchanged, RolesTypeOK
<1>4. ASSUME NEW w \in Writers, GetFails(w) \/ RefuseScope(w) \/ RefuseMembers(w)
                                 \/ FindGranted(w) \/ PutFails(w)
      PROVE  RolesTypeOK'
  <2>1. \E pc \in {"ok", "failed", "raised"} : EndUnchanged(w, pc)
    BY <1>4 DEF GetFails, RefuseScope, RefuseMembers, FindGranted, PutFails
  <2> QED BY <1>3, <2>1
<1>5. ASSUME NEW w \in Writers, Put(w) PROVE RolesTypeOK'
  <2>1. PICK pc \in {"ok", "raised"} : Replace(w) /\ EndRow(w, pc)
    BY <1>5 DEF Put
  <2>2. job[w] \in JobState /\ job[w].name \in OwnNames
    BY DEF RolesTypeOK, JobState, OwnNames
  <2>3. job[w].name \in RoleNames /\ Table(w) \in ItemTables
    BY <2>2, OwnNamesFacts DEF Table
  <2>4. roles' \in RoleList
    BY <2>1, <2>2, <2>3, ChangedIsRole DEF Replace, RoleList, JobState
  <2>5. job' \in [Writers -> JobState]
    BY <1>2, <2>1
  <2>6. given' \subseteq Everyone \X ItemTables
    BY <2>1, <2>2, <2>3 DEF Replace, RolesTypeOK, JobState
  <2>7. edits' \in 0..MaxEdits
    BY <2>1 DEF Replace, RolesTypeOK
  <2> QED BY <2>4, <2>5, <2>6, <2>7 DEF RolesTypeOK
<1>6. ASSUME NEW n \in RoleNames, AdminDelete(n) PROVE RolesTypeOK'
  <2>1. edits' \in 0..MaxEdits
    BY <1>6, OneLakeRolesAssumption DEF AdminDelete, RolesTypeOK
  <2> QED BY <1>6, <2>1 DEF AdminDelete, RolesTypeOK, RoleList
<1>7. ASSUME NEW n \in RoleNames, NEW role \in Role, AdminEdit(n, role) PROVE RolesTypeOK'
  <2>1. edits' \in 0..MaxEdits
    BY <1>7, OneLakeRolesAssumption DEF AdminEdit, RolesTypeOK
  <2>2. given' \subseteq Everyone \X ItemTables
    BY <1>7 DEF AdminEdit, RolesTypeOK, Role
  <2>3. roles' \in RoleList
    BY <1>7 DEF AdminEdit, RolesTypeOK, RoleList
  <2> QED BY <1>7, <2>1, <2>2, <2>3 DEF AdminEdit, RolesTypeOK
<1> QED BY <1>0, <1>1, <1>4, <1>5, <1>6, <1>7 DEF RolesNext, AdminStep, WriterStep

-----------------------------------------------------------------------------
(* Where access comes from *)

\* Claims are never given up: nothing is taken out of given, and a rule that
\* has been started stays started.
LEMMA ClaimedGrows == RolesTypeOK /\ [RolesNext]_rolesVars => Claimed \subseteq Claimed'
<1> SUFFICES ASSUME RolesTypeOK, [RolesNext]_rolesVars PROVE Claimed \subseteq Claimed'
  OBVIOUS
<1>1. given \subseteq given'
  BY DEF RolesNext, AdminStep, WriterStep, AdminEdit, AdminDelete, Get, GetFails, RefuseScope,
         RefuseMembers, FindGranted, Put, PutFails, Replace, EndUnchanged, rolesVars
<1>2. ASSUME NEW v \in Writers, job[v].pc # "idle"
      PROVE  job'[v].pc # "idle" /\ job'[v].name = job[v].name
  <2>1. CASE UNCHANGED job
    BY <1>2, <2>1
  <2>2. ASSUME NEW w \in Writers, NEW pc \in {"ok", "failed", "raised"}, EndRow(w, pc)
        PROVE  job'[v].pc # "idle" /\ job'[v].name = job[v].name
    BY <1>2, <2>2 DEF EndRow, RolesTypeOK, JobState
  <2>3. ASSUME NEW w \in Writers, Get(w)
        PROVE  job'[v].pc # "idle" /\ job'[v].name = job[v].name
    BY <1>2, <2>3 DEF Get, RolesTypeOK, JobState
  <2>4. ASSUME NEW w \in Writers, WriterStep(w)
        PROVE  Get(w) \/ \E pc \in {"ok", "failed", "raised"} : EndRow(w, pc)
    BY <2>4 DEF WriterStep, GetFails, RefuseScope, RefuseMembers, FindGranted, Put,
                PutFails, EndUnchanged
  <2> QED BY <2>1, <2>2, <2>3, <2>4 DEF RolesNext, AdminStep, AdminEdit, AdminDelete, rolesVars
<1>3. RuledTables \subseteq RuledTables'
  BY <1>2 DEF RuledTables, Table, IsGrant
<1> QED BY <1>1, <1>3 DEF Claimed

\* The PUT of a thread gives access that was claimed before or is its row's.
LEMMA PutGivesClaimed ==
  ASSUME IInv, NEW w \in Writers, Replace(w),
         Claimed \subseteq Claimed'
  PROVE  Access(roles') \subseteq Claimed'
<1> DEFINE t == Table(w)
<1>1. job[w] \in JobState /\ job[w].name \in OwnNames
  BY DEF IInv, RolesTypeOK, JobState, OwnNames
<1>2. job[w].name \in RoleNames /\ t \in ItemTables
  BY <1>1, OwnNamesFacts DEF Table
<1>3. job[w].list \in RoleList /\ Changed(w) \in Role
  BY <1>1, ChangedIsRole DEF IInv, JobState
<1>4. Access(job[w].list) \subseteq Claimed
  BY DEF IInv, ListsInHand
<1> SUFFICES ASSUME NEW pt \in Access(roles') PROVE pt \in Claimed'
  OBVIOUS
<1>5. pt \in Everyone \X ItemTables
  BY DEF Access
<1>6. \/ pt \in Access(job[w].list)
      \/ pt[2] \in Changed(w).paths /\ pt[1] \in Changed(w).members
  BY <1>2, <1>3, AccessOfReplaced DEF Replace
<1>7. CASE pt \in Access(job[w].list)
  BY <1>4, <1>7
<1>8. CASE /\ IsGrant(w) /\ Found(w) # NoRole
           /\ pt[2] \in Changed(w).paths /\ pt[1] \in Changed(w).members
  <2>1. Changed(w) = [Found(w) EXCEPT !.members = @ \cup {job[w].person}]
    BY <1>8 DEF Changed
  <2>2. Found(w) \in Role /\ Matches(Found(w), t)
    BY <1>1, <1>2, <1>8 DEF JobState, RoleList, Found, Replace, CanPut, HasDifferentScope
  <2>3. Found(w).paths = {t}
    BY <1>1, <2>2 DEF IInv, ListsInHand, ScopeKept, Found, Table, OwnNames
  <2>4. pt[2] = t /\ (pt[1] \in Found(w).members \/ pt[1] = job[w].person)
    BY <1>8, <2>1, <2>2, <2>3 DEF Role
  <2>5. CASE pt[1] \in Found(w).members
    <3>1. pt \in Access(job[w].list)
      BY <1>2, <1>5, <2>2, <2>4, <2>5 DEF Access, Matches, Found
    <3> QED BY <1>7, <3>1
  <2>6. CASE pt[1] = job[w].person
    <3>1. pt \in given'
      BY <1>5, <1>8, <2>4, <2>6 DEF Replace
    <3> QED BY <3>1 DEF Claimed
  <2> QED BY <2>4, <2>5, <2>6
<1>9. CASE /\ IsGrant(w) /\ Found(w) = NoRole
           /\ pt[2] \in Changed(w).paths /\ pt[1] \in Changed(w).members
  <2>1. pt[2] = t /\ pt[1] = job[w].person
    BY <1>9 DEF Changed
  <2>2. pt \in given'
    BY <1>5, <1>9, <2>1 DEF Replace
  <2> QED BY <2>2 DEF Claimed
<1>10. CASE ~IsGrant(w) /\ pt[2] \in Changed(w).paths /\ pt[1] \in Changed(w).members
  <2>1. pt[2] = t /\ pt[1] \in RuleMembers(job[w].list, t, job[w].person)
    BY <1>10 DEF Changed
  <2>2. pt[1] \in ReadersOf(job[w].list, t) \/ pt[1] = job[w].person
    BY <2>1 DEF RuleMembers
  <2>3. CASE pt[1] \in ReadersOf(job[w].list, t)
    <3>1. pt \in Access(job[w].list)
      BY <1>5, <2>1, <2>3 DEF ReadersOf, Access, Matches
    <3> QED BY <1>7, <3>1
  <2>4. CASE pt[1] = job[w].person
    <3>1. job[w].person = Caller
      BY <1>10 DEF IInv, ListsInHand
    <3>2. t \in RuledTables
      BY <1>10 DEF RuledTables, Replace, CanPut
    <3>3. pt \in Claimed
      BY <1>5, <2>1, <2>4, <3>1, <3>2 DEF Claimed
    <3> QED BY <3>3
  <2> QED BY <2>2, <2>3, <2>4
<1> QED BY <1>6, <1>7, <1>8, <1>9, <1>10

\* The role that a thread PUTs covers its table only, if the one it merges into
\* does.
LEMMA PutKeepsScope ==
  ASSUME IInv, NEW w \in Writers, Replace(w)
  PROVE  ScopeKept(roles')
<1>1. job[w] \in JobState /\ job[w].name \in OwnNames
  BY DEF IInv, RolesTypeOK, JobState, OwnNames
<1>2. job[w].list \in RoleList /\ ScopeKept(job[w].list) /\ job[w].name \in RoleNames
  BY <1>1, OwnNamesFacts DEF IInv, ListsInHand, JobState
<1> SUFFICES ASSUME NEW n \in OwnNames, Matches(roles'[n], n.table)
             PROVE  roles'[n].paths = {n.table}
  BY DEF ScopeKept, OwnNames
<1>3. CASE n # job[w].name
  <2>1. roles'[n] = job[w].list[n]
    BY <1>2, <1>3, OwnNamesFacts DEF Replace, RoleList
  <2> QED BY <1>2, <2>1 DEF ScopeKept, OwnNames
<1>4. CASE n = job[w].name
  <2>1. roles'[n] = Changed(w)
    BY <1>2, <1>4 DEF Replace, RoleList
  <2>2. CASE IsGrant(w) /\ Found(w) # NoRole
    <3>1. Found(w) \in Role /\ Matches(Found(w), n.table)
      BY <1>2, <1>4, <2>2 DEF RoleList, Found, Replace, CanPut, HasDifferentScope, Table
    <3>2. Found(w).paths = {n.table}
      BY <1>2, <1>4, <3>1 DEF ScopeKept, OwnNames, Found
    <3> QED BY <2>1, <2>2, <3>1, <3>2 DEF Changed, Role
  <2>3. CASE ~(IsGrant(w) /\ Found(w) # NoRole)
    BY <1>4, <2>1, <2>3 DEF Changed, Table
  <2> QED BY <2>2, <2>3
<1> QED BY <1>3, <1>4

\* The invariant holds to begin with ...
LEMMA InitInv == RolesInit => IInv
<1> SUFFICES ASSUME RolesInit PROVE IInv
  OBVIOUS
<1>1. RolesTypeOK
  BY InitTyped
<1>2. AccessIsGiven
  BY DEF RolesInit, AccessIsGiven, Claimed
<1>3. \A n \in OwnNames : roles[n] = NoRole
  BY OwnNamesFacts DEF RolesInit
<1>4. ScopeKept(roles)
  BY <1>3 DEF ScopeKept, Matches, OwnNames
<1>5. ASSUME NEW w \in Writers
      PROVE  /\ Access(job[w].list) \subseteq Claimed /\ ScopeKept(job[w].list)
             /\ IsGrant(w) \/ job[w].person = Caller
  <2>1. job[w] \in Row
    BY DEF RolesInit
  <2>2. job[w].list = NoRoles
    BY <2>1 DEF Row
  <2>3. IsGrant(w) \/ job[w].person = Caller
    BY <2>1 DEF Row, IsGrant, HubRoles, HubRole
  <2> QED BY <2>2, <2>3, NothingInNoRoles
<1> QED BY <1>1, <1>2, <1>4, <1>5 DEF IInv, ListsInHand

\* ... and no step breaks it, as long as administrators keep the scope of the
\* hub's roles.
LEMMA StepInv == EditsKeepScope /\ IInv /\ [RolesNext]_rolesVars => IInv'
<1> SUFFICES ASSUME EditsKeepScope, IInv, [RolesNext]_rolesVars PROVE IInv'
  OBVIOUS
<1>t. RolesTypeOK /\ RolesTypeOK' /\ Claimed \subseteq Claimed'
  BY Typing, ClaimedGrows DEF IInv
<1> DEFINE InHand(w) == /\ Access(job[w].list) \subseteq Claimed /\ ScopeKept(job[w].list)
                        /\ IsGrant(w) \/ job[w].person = Caller
<1>h. \A w \in Writers : InHand(w)
  BY DEF IInv, ListsInHand
<1>0. CASE UNCHANGED rolesVars
  <2>1. roles' = roles /\ job' = job /\ given' = given
    BY <1>0 DEF rolesVars
  <2>2. ScopeKept(roles')
    BY <2>1 DEF IInv, ListsInHand
  <2>3. Access(roles') \subseteq Claimed'
    BY <1>t, <2>1 DEF IInv, AccessIsGiven
  <2>4. \A w \in Writers : InHand(w)'
    BY <1>h, <1>t, <2>1 DEF IsGrant
  <2> QED BY <1>t, <2>2, <2>3, <2>4 DEF IInv, AccessIsGiven, ListsInHand
\* A thread that ends has no list in hand any more; the others keep theirs.
<1>1. ASSUME NEW w \in Writers, NEW pc \in {"ok", "failed", "raised"}, EndRow(w, pc)
      PROVE  \A v \in Writers : InHand(v)'
  <2> SUFFICES ASSUME NEW v \in Writers PROVE InHand(v)'
    OBVIOUS
  <2>1. job[v] \in JobState /\ job[w] \in JobState
    BY <1>t DEF RolesTypeOK
  <2>2. job'[v].name = job[v].name /\ job'[v].person = job[v].person
    BY <1>1, <1>t, <2>1 DEF EndRow, RolesTypeOK, JobState
  <2>3. IsGrant(v)' \/ job'[v].person = Caller
    BY <1>h, <2>2 DEF IsGrant
  <2>4. job'[v].list = NoRoles \/ job'[v].list = job[v].list
    BY <1>1, <1>t, <2>1 DEF EndRow, RolesTypeOK, JobState
  <2>5. Access(job'[v].list) \subseteq Claimed' /\ ScopeKept(job'[v].list)
    <3>1. CASE job'[v].list = NoRoles
      BY <3>1, NothingInNoRoles
    <3>2. CASE job'[v].list = job[v].list
      BY <1>h, <1>t, <3>2
    <3> QED BY <2>4, <3>1, <3>2
  <2> QED BY <2>3, <2>5
<1>2. ASSUME NEW w \in Writers, Get(w) PROVE IInv'
  <2>1. roles' = roles /\ given' = given
    BY <1>2 DEF Get
  <2>2. Access(roles') \subseteq Claimed' /\ ScopeKept(roles')
    BY <1>t, <2>1 DEF IInv, AccessIsGiven, ListsInHand
  <2>3. ASSUME NEW v \in Writers PROVE InHand(v)'
    <3>1. job[v] \in JobState /\ job[w] \in JobState
      BY <1>t DEF RolesTypeOK
    <3>2. job'[v].name = job[v].name /\ job'[v].person = job[v].person
      BY <1>2, <1>t, <3>1 DEF Get, RolesTypeOK, JobState
    <3>3. IsGrant(v)' \/ job'[v].person = Caller
      BY <1>h, <3>2 DEF IsGrant
    <3>4. job'[v].list = roles \/ job'[v].list = job[v].list
      BY <1>2, <1>t, <3>1 DEF Get, RolesTypeOK, JobState
    <3>5. Access(job'[v].list) \subseteq Claimed' /\ ScopeKept(job'[v].list)
      <4>1. CASE job'[v].list = roles
        BY <2>1, <2>2, <4>1
      <4>2. CASE job'[v].list = job[v].list
        BY <1>h, <1>t, <4>2
      <4> QED BY <3>4, <4>1, <4>2
    <3> QED BY <3>3, <3>5
  <2> QED BY <1>t, <2>2, <2>3 DEF IInv, AccessIsGiven, ListsInHand
<1>3. ASSUME NEW w \in Writers, NEW pc \in {"ok", "failed", "raised"}, EndUnchanged(w, pc)
      PROVE  IInv'
  <2>1. roles' = roles /\ EndRow(w, pc)
    BY <1>3 DEF EndUnchanged
  <2>2. Access(roles') \subseteq Claimed' /\ ScopeKept(roles')
    BY <1>t, <2>1 DEF IInv, AccessIsGiven, ListsInHand
  <2> QED BY <1>t, <1>1, <2>1, <2>2 DEF IInv, AccessIsGiven, ListsInHand
<1>4. ASSUME NEW w \in Writers, Put(w) PROVE IInv'
  <2>1. PICK pc \in {"ok", "raised"} : Replace(w) /\ EndRow(w, pc)
    BY <1>4 DEF Put
  <2>2. Access(roles') \subseteq Claimed' /\ ScopeKept(roles')
    BY <1>t, <2>1, PutGivesClaimed, PutKeepsScope
  <2> QED BY <1>t, <1>1, <2>1, <2>2 DEF IInv, AccessIsGiven, ListsInHand
<1>5. ASSUME NEW n \in RoleNames, NEW r \in Role \cup {NoRole},
             roles' = [roles EXCEPT ![n] = r], UNCHANGED job,
             r # NoRole => /\ r.paths \in PathsFor(n)
                           /\ {pt \in r.members \X r.paths : r.read} \subseteq given'
      PROVE  IInv'
  <2>1. Access(roles') \subseteq Claimed'
    <3> SUFFICES ASSUME NEW pt \in Access(roles') PROVE pt \in Claimed'
      OBVIOUS
    <3>1. pt \in Everyone \X ItemTables
      BY DEF Access
    <3>2. \/ pt \in Access(roles)
          \/ r # NoRole /\ r.read /\ pt[2] \in r.paths /\ pt[1] \in r.members
      BY <1>5, <1>t, AccessOfReplaced DEF RolesTypeOK
    <3>3. CASE pt \in Access(roles)
      BY <1>t, <3>3 DEF IInv, AccessIsGiven
    <3>4. CASE r # NoRole /\ r.read /\ pt[2] \in r.paths /\ pt[1] \in r.members
      <4>1. pt \in {x \in r.members \X r.paths : r.read}
        BY <3>1, <3>4
      <4> QED BY <1>5, <3>4, <4>1 DEF Claimed
    <3> QED BY <3>2, <3>3, <3>4
  <2>2. ScopeKept(roles')
    <3> SUFFICES ASSUME NEW m \in OwnNames, Matches(roles'[m], m.table)
                 PROVE  roles'[m].paths = {m.table}
      BY DEF ScopeKept, OwnNames
    <3>1. CASE m = n
      <4>1. roles'[m] = r
        BY <1>5, <1>t, <3>1 DEF RolesTypeOK, RoleList
      <4>2. r # NoRole /\ m.table \in r.paths
        BY <4>1 DEF Matches
      <4>3. r.paths \in EditedPaths /\ m.table \in ItemTables
        BY <1>5, <3>1, <4>2, OwnNamesFacts DEF PathsFor
      <4> QED BY <4>1, <4>2, <4>3 DEF EditsKeepScope
    <3>2. CASE m # n
      <4>1. roles'[m] = roles[m]
        BY <1>5, <1>t, <3>2, OwnNamesFacts DEF RolesTypeOK, RoleList
      <4> QED BY <4>1 DEF IInv, ListsInHand, ScopeKept, OwnNames
    <3> QED BY <3>1, <3>2
  <2>3. \A w \in Writers : InHand(w)'
    BY <1>h, <1>t, <1>5 DEF IsGrant
  <2> QED BY <1>t, <2>1, <2>2, <2>3 DEF IInv, AccessIsGiven, ListsInHand
<1>6. ASSUME NEW n \in RoleNames, AdminDelete(n) PROVE IInv'
  BY <1>5, <1>6 DEF AdminDelete
<1>7. ASSUME NEW n \in RoleNames, NEW role \in Role, AdminEdit(n, role) PROVE IInv'
  BY <1>5, <1>7 DEF AdminEdit
<1>8. ASSUME NEW w \in Writers, WriterStep(w) PROVE IInv'
  <2>1. \/ Get(w) \/ Put(w)
        \/ \E pc \in {"ok", "failed", "raised"} : EndUnchanged(w, pc)
    BY <1>8 DEF WriterStep, GetFails, RefuseScope, RefuseMembers, FindGranted, PutFails
  <2> QED BY <1>2, <1>3, <1>4, <2>1
<1> QED BY <1>0, <1>6, <1>7, <1>8 DEF RolesNext, AdminStep

\* Every state of the item and of the threads is of the declared type.
THEOREM RolesTypeCorrect == RolesSpec => []RolesTypeOK
BY InitTyped, Typing, PTL DEF RolesSpec

\* While administrators keep the scope of the hub's roles, nobody reads a table
\* that neither an administrator nor a row of theirs ever gave them: lost
\* updates may take access away or bring it back, but they invent none.
THEOREM NoAccessInvented == EditsKeepScope => (RolesSpec => []AccessIsGiven)
<1>1. SUFFICES ASSUME EditsKeepScope PROVE RolesSpec => []AccessIsGiven
  OBVIOUS
<1>2. IInv /\ [RolesNext]_rolesVars => IInv'
  BY <1>1, StepInv
<1>3. IInv => AccessIsGiven
  BY DEF IInv
<1> QED BY <1>2, <1>3, InitInv, PTL DEF RolesSpec

\* A PUT from a current list gives at least what the list gave.
LEMMA FreshPutKeepsAccess ==
  ASSUME IInv, NEW w \in Writers, Replace(w)
  PROVE  Access(job[w].list) \subseteq Access(roles')
<1>1. job[w] \in JobState /\ job[w].name \in OwnNames
  BY DEF IInv, RolesTypeOK, JobState, OwnNames
<1>2. job[w].list \in RoleList /\ Changed(w) \in Role /\ job[w].name \in RoleNames
  BY <1>1, OwnNamesFacts, ChangedIsRole DEF IInv, JobState
<1>3. Found(w) \in Role \cup {NoRole}
  BY <1>2 DEF RoleList, Found
<1>4. ASSUME Found(w) # NoRole, Found(w).read
      PROVE  /\ Changed(w).read
             /\ Found(w).paths \subseteq Changed(w).paths
             /\ Found(w).members \subseteq Changed(w).members
  <2>1. Found(w) \in Role /\ Matches(Found(w), Table(w))
    BY <1>3, <1>4 DEF Replace, CanPut, HasDifferentScope
  <2>2. Found(w).paths = {Table(w)}
    BY <1>1, <2>1 DEF IInv, ListsInHand, ScopeKept, Found, Table, OwnNames
  <2>3. CASE IsGrant(w)
    BY <1>4, <2>1, <2>3 DEF Changed, Role
  <2>4. CASE ~IsGrant(w)
    <3>1. Found(w).members \subseteq ReadersOf(job[w].list, Table(w))
      BY <1>2, <2>1 DEF ReadersOf, Found, Role
    <3>2. ReadersOf(job[w].list, Table(w))
            \subseteq RuleMembers(job[w].list, Table(w), job[w].person)
      BY DEF RuleMembers
    <3> QED BY <2>2, <2>4, <3>1, <3>2 DEF Changed
  <2> QED BY <2>3, <2>4
<1> QED BY <1>2, <1>4, ReplacedKeepsAccess DEF Replace, Found

\* A thread that worked from the current list takes nothing from anybody.
LEMMA StepNeverWithdraws ==
  ASSUME IInv, [RolesNext]_rolesVars, NEW w \in Writers,
         job[w].pc = "put", job'[w].pc # "put", job[w].list = roles
  PROVE  Access(roles) \subseteq Access(roles')
<1>1. ASSUME NEW v \in Writers, v # w,
             Get(v) \/ \E pc \in {"ok", "failed", "raised"} : EndRow(v, pc)
      PROVE  FALSE
  <2>1. job'[w] = job[w]
    BY <1>1 DEF Get, EndRow, IInv, RolesTypeOK
  <2> QED BY <2>1
<1>2. CASE UNCHANGED job
  BY <1>2
<1>3. ASSUME NEW v \in Writers, WriterStep(v)
      PROVE  Access(roles) \subseteq Access(roles')
  <2>1. Get(v) \/ \E pc \in {"ok", "failed", "raised"} : EndRow(v, pc)
    BY <1>3 DEF WriterStep, GetFails, RefuseScope, RefuseMembers, FindGranted, Put,
                PutFails, EndUnchanged
  <2>2. v = w
    BY <1>1, <2>1
  <2>3. CASE UNCHANGED roles
    BY <2>3
  <2>4. CASE Replace(w)
    BY <2>4, FreshPutKeepsAccess
  <2> QED BY <1>3, <2>2, <2>3, <2>4
          DEF WriterStep, Get, GetFails, RefuseScope, RefuseMembers, FindGranted, Put,
              PutFails, EndUnchanged
<1> QED BY <1>2, <1>3 DEF RolesNext, AdminStep, AdminEdit, AdminDelete, rolesVars

\* While administrators keep the scope of the hub's roles, an apply that does
\* not overlap another change of the list never takes access away.
THEOREM FreshWritersNeverWithdraw == EditsKeepScope => (RolesSpec => NeverWithdraws)
<1>1. SUFFICES ASSUME EditsKeepScope PROVE RolesSpec => NeverWithdraws
  OBVIOUS
<1>2. IInv /\ [RolesNext]_rolesVars => IInv'
  BY <1>1, StepInv
<1>3. IInv /\ [RolesNext]_rolesVars =>
        [\A w \in Writers :
           job[w].pc = "put" /\ job'[w].pc # "put" /\ job[w].list = roles
             => Access(roles) \subseteq Access(roles')]_rolesVars
  BY StepNeverWithdraws
<1> QED BY <1>2, <1>3, InitInv, PTL DEF RolesSpec, NeverWithdraws
=============================================================================
