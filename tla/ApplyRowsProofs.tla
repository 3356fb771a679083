--------------------------- MODULE ApplyRowsProofs ---------------------------
(***************************************************************************)
(* Proofs about ApplyRows, for any number of applies, principals, schemas  *)
(* and tables, and without a bound on what administrators do (the bounds   *)
(* MaxGiven and MaxTaken may be any numbers).                              *)
(*                                                                         *)
(* A right travels: from a platform into the rows collected there, from    *)
(* the bucket to the row at hand, and from there to the other platform.    *)
(* Backing is carried along each of these stations, under the name of the  *)
(* principal, which is all that is the same on both platforms.             *)
(***************************************************************************)
EXTENDS ApplyRows, TLAPS

RowBacked(r) == Backed(r.who, Target(r), r.access)

\* Rows name principals in the way of the platform they come from.
From(dir, r) ==
  IF dir = "dbx_to_fabric" THEN r.who \in UCPrincipals /\ r.scope \in Securables
  ELSE r.who \in FabricPrincipals

Collected(j) ==
  /\ \A r \in job[j].dbx : From("dbx_to_fabric", r) /\ RowBacked(r)
  /\ \A r \in job[j].fab : From("fabric_to_dbx", r) /\ RowBacked(r)
  /\ \A r \in job[j].bucket : From(job[j].dir, r) /\ RowBacked(r)

\* The grants that lead to the target have been accepted before its own.
WayIsOpen(j) ==
  /\ job[j].step > 1 => [to |-> job[j].to, on |-> Catalog, priv |-> "USE_CATALOG"] \in sent
  /\ job[j].step > 2 =>
       [to |-> job[j].to, on |-> SchemaOf[Target(job[j].row)], priv |-> "USE_SCHEMA"] \in sent

Calling(j) ==
  At(j, "calls") =>
    /\ job[j].row \in Row /\ From(job[j].dir, job[j].row) /\ RowBacked(job[j].row)
    /\ Grantworthy(j, job[j].row)
    /\ job[j].to \in IF ToFabric(j) THEN FabricPrincipals ELSE UCPrincipals
    /\ NameOf(job[j].to) = NameOf(job[j].row.who)
    /\ job[j].step \in 1..CallsFor(j) /\ job[j].outcome = "none"
    /\ ToFabric(j) \/ WayIsOpen(j)

JobInv == \A j \in Jobs : Collected(j) /\ Calling(j)

IInv == TypeOK /\ AccessFollowsGrants /\ GrantsAreReachable /\ JobInv

-----------------------------------------------------------------------------
(* The translations of the code *)

\* No privilege of a grant is of a higher class than the row, and one of them is
\* read back as the row's class.
LEMMA PrivilegesKeepRank ==
  ASSUME NEW access \in Access, NEW s \in Securables
  PROVE  /\ \A p \in PrivilegesFor(access, s) :
              p \in Privileges /\ Rank(AccessOf(p)) <= Rank(access)
         /\ PrivilegesFor(access, s) # {} =>
              \E p \in PrivilegesFor(access, s) : AccessOf(p) = access
BY DEF PrivilegesFor, Traversal, Privileges, AccessOf, Rank, Access

LEMMA TraversalIsNoAccess ==
  ASSUME NEW s, NEW p \in Traversal(s)
  PROVE  p \in Privileges /\ Rank(AccessOf(p)) = 0
BY DEF Traversal, Privileges, AccessOf, Rank

\* A role assigned for an access class is read back as that class.
LEMMA RolesRoundTrip ==
  ASSUME NEW access \in Access, RoleFor(access) # NoRole
  PROVE  RoleFor(access) \in Roles /\ AccessOfRole(RoleFor(access)) = access
BY DEF RoleFor, Roles, NoRole, AccessOfRole, Access

LEMMA ClassesAreAccess ==
  /\ \A p : AccessOf(p) \in Access
  /\ \A r : AccessOfRole(r) \in Access
  /\ \A a : AccessOfAction(a) \in Access
  /\ \A a : Rank(a) \in Nat
BY DEF AccessOf, AccessOfRole, AccessOfAction, Access, Rank

\* Backing is inherited by whoever has the same name, and by lower classes.
LEMMA BackedWeaker ==
  ASSUME NEW x, NEW y, NEW s, NEW a, NEW b,
         Backed(x, s, a), NameOf(x) = NameOf(y), Rank(b) <= Rank(a), TypeOK
  PROVE  Backed(y, s, b)
<1>1. CASE Rank(a) = 0
  BY <1>1, ClassesAreAccess DEF Backed
<1>2. CASE Rank(a) # 0
  <2>1. PICK right \in given : /\ right.name = NameOf(x) /\ right.on \in Above(s)
                               /\ Rank(right.access) >= Rank(a)
    BY <1>2 DEF Backed
  <2>2. Rank(right.access) >= Rank(b)
    BY <2>1, ClassesAreAccess
  <2> QED BY <2>1, <2>2 DEF Backed
<1> QED BY <1>1, <1>2

\* Rights given before still back what they backed.
LEMMA BackedGrows ==
  ASSUME NEW x, NEW s, NEW a, Backed(x, s, a), given \subseteq given'
  PROVE  Backed(x, s, a)'
BY DEF Backed, NameOf, Above

LEMMA TargetIsSecurable ==
  ASSUME NEW r \in Row
  PROVE  Target(r) \in Securables
BY DEF Row, Target, Scopes, Securables

\* Where the calls for a row go, and with what.
LEMMA PathsLead ==
  ASSUME NEW s \in Securables
  PROVE  /\ Len(Path(s)) \in 1..3 /\ Path(s)[Len(Path(s))] = s
         /\ \A i \in 1..Len(Path(s)) : Path(s)[i] \in Securables
         /\ \A i \in 1..Len(Path(s)) : i < Len(Path(s)) =>
              /\ Path(s)[i] # s
              /\ i = 1 => Path(s)[i] = Catalog
              /\ i = 2 => s \in Tables /\ Path(s)[i] = SchemaOf[s]
         /\ s # Catalog => Len(Path(s)) > 1
         /\ s \in Tables => Len(Path(s)) > 2
         /\ s \notin Tables => Len(Path(s)) < 3
<1>1. CASE s \in Schemas
  BY <1>1, PairDiffAssumption DEF Path, Securables
<1>2. CASE s \in Tables
  BY <1>2, PairDiffAssumption DEF Path, Securables
<1>3. CASE s = Catalog
  BY <1>3, PairDiffAssumption DEF Path, Securables
<1> QED BY <1>1, <1>2, <1>3 DEF Securables

-----------------------------------------------------------------------------
(* Rows that the collectors make *)

LEMMA DbxRowsBacked ==
  ASSUME TypeOK, AccessFollowsGrants
  PROVE  /\ DbxRows(uc) \subseteq Row
         /\ \A r \in DbxRows(uc) : From("dbx_to_fabric", r) /\ RowBacked(r)
<1> SUFFICES ASSUME NEW g \in uc
             PROVE  LET r == [who |-> g.to, by |-> "name", scope |-> g.on,
                              access |-> AccessOf(g.priv)]
                    IN  r \in Row /\ From("dbx_to_fabric", r) /\ RowBacked(r)
  BY DEF DbxRows
<1>1. g.to \in UCPrincipals /\ g.on \in Securables /\ AccessOf(g.priv) \in Access
  BY ClassesAreAccess DEF TypeOK, UCGrant
<1>2. g.on # Workspace
  BY <1>1, PairDiffAssumption DEF Securables
<1>3. Backed(g.to, g.on, AccessOf(g.priv))
  BY DEF AccessFollowsGrants
<1> QED BY <1>1, <1>2, <1>3 DEF Row, Scopes, From, RowBacked, Target

LEMMA FabricRowsBacked ==
  ASSUME TypeOK, AccessFollowsGrants
  PROVE  /\ FabricRows(role, dar, mirrored) \subseteq Row
         /\ \A r \in FabricRows(role, dar, mirrored) : From("fabric_to_dbx", r) /\ RowBacked(r)
<1>1. ASSUME NEW r \in RoleRows(role)
      PROVE  r \in Row /\ From("fabric_to_dbx", r) /\ RowBacked(r)
  <2>1. r \in Row /\ r.who \in FabricPrincipals /\ role[r.who] # NoRole
    BY <1>1 DEF RoleRows
  <2>2. Target(r) = Catalog /\ Rank(r.access) <= Rank(AccessOfRole(role[r.who]))
    BY <1>1, ClassesAreAccess DEF RoleRows, Target, Covers
  <2>3. Backed(r.who, Catalog, AccessOfRole(role[r.who]))
    BY <2>1 DEF AccessFollowsGrants
  <2> QED BY <2>1, <2>2, <2>3, BackedWeaker DEF From, RowBacked
<1>2. ASSUME NEW g \in dar
      PROVE  LET r == [who |-> g.to, by |-> "oid", scope |-> g.on,
                       access |-> AccessOfAction(g.act)]
             IN  r \in Row /\ From("fabric_to_dbx", r) /\ RowBacked(r)
  <2>1. g.to \in FabricPrincipals /\ g.on \in Securables /\ AccessOfAction(g.act) \in Access
    BY ClassesAreAccess DEF TypeOK, DarGrant
  <2>2. g.on # Workspace
    BY <2>1, PairDiffAssumption DEF Securables
  <2>3. Backed(g.to, g.on, AccessOfAction(g.act))
    BY DEF AccessFollowsGrants
  <2> QED BY <2>1, <2>2, <2>3 DEF Row, Scopes, From, RowBacked, Target
<1> QED BY <1>1, <1>2 DEF FabricRows, DarRows

-----------------------------------------------------------------------------
(* The principal that a row resolves to has the name that the row shows *)

LEMMA EntraKeepsName ==
  ASSUME NEW r \in Row, From("dbx_to_fabric", r), NEW x \in ToEntra(r)
  PROVE  x \in FabricPrincipals /\ NameOf(x) = NameOf(r.who)
<1>1. x \in FabricPrincipals /\ (x = r.who \/ (x \in Groups /\ Display[x] = r.who))
  BY DEF ToEntra
<1>2. r.who \in UCPrincipals
  BY DEF From
<1>3. CASE x = r.who
  BY <1>1, <1>3
<1>4. CASE x \in Groups /\ Display[x] = r.who
  BY <1>1, <1>2, <1>4, PairDiffAssumption DEF NameOf, FabricPrincipals
<1> QED BY <1>1, <1>3, <1>4

LEMMA UCKeepsName ==
  ASSUME NEW r \in Row, From("fabric_to_dbx", r), NEW x \in ToUC(r)
  PROVE  x \in UCPrincipals /\ NameOf(x) = NameOf(r.who)
<1>1. r.who \in FabricPrincipals
  BY DEF From
<1>2. CASE r.who \in Groups
  <2>1. x = Display[r.who]
    BY <1>2 DEF ToUC
  <2>2. Display[r.who] \in Names
    BY <1>1, PairDiffAssumption
  <2>3. x \notin FabricPrincipals
    BY <2>1, <2>2, PairDiffAssumption DEF FabricPrincipals
  <2> QED BY <1>1, <2>1, <2>2, <2>3 DEF NameOf, UCPrincipals
<1>3. CASE r.who \notin Groups /\ r.by = "oid"
  BY <1>1, <1>3 DEF ToUC, NameOf, FabricPrincipals, UCPrincipals
<1>4. CASE r.who \notin Groups /\ r.by # "oid"
  BY <1>1, <1>4 DEF ToUC, NameOf, FabricPrincipals, UCPrincipals
<1> QED BY <1>2, <1>3, <1>4

-----------------------------------------------------------------------------
(* What a call changes *)

\* An effect adds grants that the row at hand backs.
LEMMA EffectBacked ==
  ASSUME IInv, NEW j \in Jobs, At(j, "calls"), Effect(j)
  PROVE  /\ uc' \subseteq UCGrant /\ dar' \subseteq DarGrant /\ sent' \subseteq UCGrant
         /\ role' \in [FabricPrincipals -> Roles \cup {NoRole}]
         /\ mirrored' = mirrored /\ sent \subseteq sent'
         /\ \A g \in uc' : g \in uc \/ Backed(g.to, g.on, AccessOf(g.priv))
         /\ \A x \in FabricPrincipals :
              role'[x] = role[x] \/ Backed(x, Catalog, AccessOfRole(role'[x]))
         /\ \A g \in dar' : g \in dar \/ Backed(g.to, g.on, AccessOfAction(g.act))
         /\ GrantsAreReachable'
<1> DEFINE r == job[j].row
           to == job[j].to
           s == Target(r)
<1>1. /\ r \in Row /\ From(job[j].dir, r) /\ RowBacked(r) /\ Grantworthy(j, r)
      /\ to \in IF ToFabric(j) THEN FabricPrincipals ELSE UCPrincipals
      /\ NameOf(to) = NameOf(r.who) /\ job[j].step \in 1..CallsFor(j)
      /\ ToFabric(j) \/ WayIsOpen(j)
  BY DEF IInv, JobInv, Calling
<1>2. s \in Securables /\ r.access \in Access
  BY <1>1, TargetIsSecurable DEF Row
<1>3. TypeOK /\ AccessFollowsGrants /\ GrantsAreReachable
  BY DEF IInv
<1>4. \A a : Rank(a) <= Rank(r.access) => Backed(to, s, a)
  BY <1>1, <1>3, BackedWeaker DEF RowBacked
<1>5. CASE ~ToFabric(j)
  <2> DEFINE at == Path(s)[job[j].step]
  <2>1. GrantInCatalog(j)
    BY <1>5 DEF Effect
  <2>2. job[j].step \in 1..Len(Path(s))
    BY <1>1, <1>5 DEF CallsFor
  <2>3. at \in Securables
    BY <1>2, <2>2, PathsLead
  <2>4. ASSUME NEW p \in PrivilegesNow(j)
        PROVE  /\ p \in Privileges
               /\ at = s => Rank(AccessOf(p)) <= Rank(r.access)
               /\ at # s => Rank(AccessOf(p)) = 0
    <3>1. CASE at = s
      BY <1>2, <2>4, <3>1, PrivilegesKeepRank DEF PrivilegesNow
    <3>2. CASE at # s
      BY <2>4, <3>2, TraversalIsNoAccess DEF PrivilegesNow
    <3> QED BY <3>1, <3>2
  <2>5. ASSUME NEW g \in GrantsNow(j)
        PROVE  /\ g \in UCGrant /\ g.to = to /\ g.on = at
               /\ g.priv \in PrivilegesNow(j)
               /\ Backed(g.to, g.on, AccessOf(g.priv))
    <3>1. PICK p \in PrivilegesNow(j) : g = [to |-> to, on |-> at, priv |-> p]
      BY <2>5 DEF GrantsNow
    <3>2. g \in UCGrant /\ g.to = to /\ g.on = at /\ g.priv = p
      BY <1>1, <1>5, <2>3, <2>4, <3>1 DEF UCGrant
    <3>3. CASE at = s
      BY <1>4, <2>4, <3>1, <3>2, <3>3
    <3>4. CASE at # s
      BY <2>4, <3>1, <3>2, <3>4 DEF Backed
    <3> QED BY <3>1, <3>2, <3>3, <3>4
  <2>6. ASSUME NEW g \in GrantsNow(j), Rank(AccessOf(g.priv)) > 0
        PROVE  /\ g.on # Catalog => [to |-> g.to, on |-> Catalog, priv |-> "USE_CATALOG"] \in sent
               /\ g.on \in Tables =>
                    [to |-> g.to, on |-> SchemaOf[g.on], priv |-> "USE_SCHEMA"] \in sent
    <3>1. g.to = to /\ g.on = at /\ at = s
      BY <2>4, <2>5, <2>6
    <3>2. job[j].step = Len(Path(s))
      BY <1>2, <2>2, <3>1, PathsLead
    <3>3. WayIsOpen(j)
      BY <1>1, <1>5
    <3> QED BY <1>2, <3>1, <3>2, <3>3, PathsLead DEF WayIsOpen
  <2>7. GrantsAreReachable'
    BY <1>3, <2>1, <2>6 DEF GrantInCatalog, GrantsAreReachable
  <2> QED BY <1>3, <2>1, <2>5, <2>7 DEF GrantInCatalog, TypeOK
<1>6. CASE ToFabric(j) /\ Layer(r) = "onelake_dar"
  <2>1. JoinRole(j)
    BY <1>6 DEF Effect
  <2>2. r.scope \in Tables /\ r.access = "DATA_READ"
    BY <1>1, <1>6 DEF Layer, Grantworthy, HasNoEquivalent
  <2>3. r.scope = s /\ to \in FabricPrincipals
    BY <1>1, <1>6, <2>2, PairDiffAssumption DEF Target, Securables
  <2>4. [to |-> to, on |-> r.scope, act |-> "Read"] \in DarGrant
    BY <2>2, <2>3 DEF DarGrant, DarActions, Securables
  <2>5. Backed(to, r.scope, AccessOfAction("Read"))
    BY <1>4, <2>2, <2>3 DEF AccessOfAction, Rank
  <2> QED BY <1>3, <2>1, <2>4, <2>5 DEF JoinRole, TypeOK, GrantsAreReachable
<1>7. CASE ToFabric(j) /\ Layer(r) # "onelake_dar"
  <2>1. AssignRole(j)
    BY <1>7 DEF Effect
  <2>2. Layer(r) = "workspace_role" /\ RoleFor(r.access) # NoRole
    BY <1>1, <1>7 DEF Layer, Grantworthy, HasNoEquivalent
  <2>3. RoleFor(r.access) \in Roles /\ AccessOfRole(RoleFor(r.access)) = r.access
    BY <1>2, <2>2, RolesRoundTrip
  <2>4. s = Catalog
    <3>1. r.scope \in Securables
      BY <1>1, <1>7 DEF From, ToFabric
    <3>2. r.access # "OBJECT_USE"
      BY <2>2 DEF RoleFor
    <3> QED BY <2>2, <3>1, <3>2, PairDiffAssumption DEF Layer, Securables, Target
  <2>5. to \in FabricPrincipals /\ Backed(to, Catalog, r.access)
    BY <1>1, <1>4, <1>7, <2>4, ClassesAreAccess
  <2>6. /\ role' \in [FabricPrincipals -> Roles \cup {NoRole}]
        /\ \A x \in FabricPrincipals : x # to => role'[x] = role[x]
        /\ role'[to] = role[to] \/ role'[to] = RoleFor(r.access)
    BY <1>3, <2>1, <2>3, <2>5 DEF AssignRole, TypeOK
  <2> QED BY <1>3, <2>1, <2>3, <2>5, <2>6 DEF AssignRole, TypeOK, GrantsAreReachable
<1> QED BY <1>5, <1>6, <1>7
-----------------------------------------------------------------------------
(* The invariant *)

LEMMA IdleIsJob == Idle \in Job
BY DEF Idle, Job, Directions, Outcomes

LEMMA InitInv == Init => IInv
<1> SUFFICES ASSUME Init PROVE IInv
  OBVIOUS
<1>1. ASSUME NEW j \in Jobs
      PROVE  /\ job[j] = Idle /\ Idle \in Job
  BY <1>1, IdleIsJob DEF Init
<1>2. TypeOK
  BY <1>1, ApplyRowsAssumption DEF Init, TypeOK, Statuses
<1>3. AccessFollowsGrants /\ GrantsAreReachable
  BY DEF Init, AccessFollowsGrants, GrantsAreReachable
<1>4. JobInv
  BY <1>1 DEF JobInv, Collected, Calling, At, Idle
<1> QED BY <1>2, <1>3, <1>4 DEF IInv

\* What is known of an apply stays true while others act.
LEMMA OthersKeep ==
  ASSUME JobInv, NEW k \in Jobs, job'[k] = job[k],
         given \subseteq given', sent \subseteq sent', mirrored' = mirrored
  PROVE  Collected(k)' /\ Calling(k)'
<1>1. Collected(k) /\ Calling(k)
  BY DEF JobInv
<1>2. \A r : RowBacked(r) => RowBacked(r)'
  BY BackedGrows DEF RowBacked, Target
<1>3. Collected(k)'
  BY <1>1, <1>2 DEF Collected, From
<1>4. At(k, "calls")' => At(k, "calls")
  BY DEF At
<1>5. \A r : Grantworthy(k, r) => Grantworthy(k, r)'
  BY DEF Grantworthy, ToFabric, HasNoEquivalent
<1>6. WayIsOpen(k) => WayIsOpen(k)'
  BY DEF WayIsOpen
<1>7. Calling(k)'
  BY <1>1, <1>2, <1>4, <1>5, <1>6 DEF Calling, From, ToFabric, CallsFor, NameOf
<1> QED BY <1>3, <1>7

\* A step of an apply that calls nobody: nothing but its own record changes.
LEMMA QuietStep ==
  ASSUME IInv, NEW j \in Jobs, NEW v \in Job, job' = [job EXCEPT ![j] = v],
         UNCHANGED <<platforms, history>>, queue' \in [UCPrincipals -> Statuses],
         Collected(j)', Calling(j)'
  PROVE  IInv'
<1>1. TypeOK'
  BY DEF IInv, TypeOK, platforms, history
<1>2. AccessFollowsGrants' /\ GrantsAreReachable'
  BY DEF IInv, AccessFollowsGrants, GrantsAreReachable, Backed, NameOf, platforms, history
<1>3. ASSUME NEW k \in Jobs
      PROVE  Collected(k)' /\ Calling(k)'
  <2>1. CASE k = j
    BY <2>1
  <2>2. CASE k # j
    BY <2>2, OthersKeep DEF IInv, TypeOK, platforms, history
  <2> QED BY <2>1, <2>2
<1> QED BY <1>1, <1>2, <1>3 DEF IInv, JobInv

\* Reporting the outcome of a row leaves the bucket as it is.
LEMMA ReportKeeps ==
  ASSUME IInv, NEW j \in Jobs, NEW outcome \in Outcomes, Report(j, outcome),
         given' = given
  PROVE  /\ job'[j] \in Job /\ job' = [job EXCEPT ![j] = job'[j]]
         /\ Collected(j)' /\ Calling(j)'
<1>1. job[j] \in Job /\ job \in [Jobs -> Job]
  BY DEF IInv, TypeOK
<1>2. job' = [job EXCEPT ![j] = [job[j] EXCEPT !.pc = "rows", !.row = NoRow, !.to = Nobody,
                                               !.step = 0, !.outcome = outcome]]
  BY <1>1 DEF Report, Job
<1>3. job'[j] = [job[j] EXCEPT !.pc = "rows", !.row = NoRow, !.to = Nobody,
                               !.step = 0, !.outcome = outcome]
  BY <1>1, <1>2
<1>4. job'[j] \in Job
  <2>1. 0 \in 0..3 /\ NoRow \in Row \cup {NoRow}
        /\ Nobody \in UCPrincipals \cup FabricPrincipals \cup {Nobody}
    OBVIOUS
  <2>2. \A v \in Job : [v EXCEPT !.pc = "rows", !.row = NoRow, !.to = Nobody,
                                !.step = 0, !.outcome = outcome] \in Job
    BY <2>1 DEF Job
  <2> QED BY <1>1, <1>3, <2>2
<1>5. Collected(j)
  BY DEF IInv, JobInv
<1>6. Collected(j)'
  BY <1>1, <1>3, <1>5 DEF Collected, RowBacked, Backed, From, NameOf, Job
<1>7. Calling(j)'
  BY <1>1, <1>3 DEF Calling, At, Job
<1> QED BY <1>1, <1>2, <1>3, <1>4, <1>6, <1>7

\* An apply that has ended, or not begun, holds no rows.
LEMMA IdleKeeps ==
  ASSUME IInv, NEW j \in Jobs, job' = [job EXCEPT ![j] = Idle]
  PROVE  Collected(j)' /\ Calling(j)'
<1>1. job'[j] = Idle
  BY DEF IInv, TypeOK
<1> QED BY <1>1 DEF Collected, Calling, At, Idle

-----------------------------------------------------------------------------
(* Every step preserves the invariant *)

LEMMA ArriveInv ==
  ASSUME IInv, NEW j \in Jobs, Arrive(j)
  PROVE  IInv'
<1>1. PICK dir \in Directions, dry \in BOOLEAN :
        job' = [job EXCEPT ![j] = [Idle EXCEPT !.pc = "collect", !.dir = dir, !.dry = dry,
                                               !.unread = {"dbx", "fabric"}]]
  BY DEF Arrive
<1> DEFINE v == [Idle EXCEPT !.pc = "collect", !.dir = dir, !.dry = dry,
                             !.unread = {"dbx", "fabric"}]
<1>2. v \in Job
  BY IdleIsJob DEF Job
<1>3. job'[j] = v
  BY <1>1 DEF IInv, TypeOK
<1>4. Collected(j)' /\ Calling(j)'
  BY <1>3 DEF Collected, Calling, At, Idle
<1>5. queue' \in [UCPrincipals -> Statuses] /\ UNCHANGED <<platforms, history>>
  BY DEF Arrive, IInv, TypeOK
<1> QED BY <1>1, <1>2, <1>4, <1>5, QuietStep

LEMMA CollectDbxInv ==
  ASSUME IInv, NEW j \in Jobs, CollectDbx(j)
  PROVE  IInv'
<1> DEFINE v == [job[j] EXCEPT !.unread = @ \ {"dbx"}, !.dbx = DbxRows(uc)]
<1>1. job[j] \in Job /\ job \in [Jobs -> Job] /\ TypeOK /\ AccessFollowsGrants /\ Collected(j)
  BY DEF IInv, TypeOK, JobInv
<1>2. job' = [job EXCEPT ![j] = v] /\ job[j].pc = "collect"
  BY <1>1 DEF CollectDbx, At
<1>3. /\ DbxRows(uc) \subseteq Row
      /\ \A r \in DbxRows(uc) : From("dbx_to_fabric", r) /\ RowBacked(r)
  BY <1>1, DbxRowsBacked
<1>4. v \in Job
  BY <1>1, <1>3 DEF Job
<1>5. job'[j] = v /\ v.pc = "collect" /\ v.dbx = DbxRows(uc) /\ v.fab = job[j].fab
      /\ v.bucket = job[j].bucket /\ v.dir = job[j].dir
  BY <1>1, <1>2 DEF Job
<1>6. UNCHANGED <<platforms, history>> /\ queue' \in [UCPrincipals -> Statuses]
  BY <1>1 DEF CollectDbx, TypeOK
<1>7. Collected(j)'
  BY <1>1, <1>3, <1>5, <1>6 DEF Collected, RowBacked, Backed, From, NameOf, history
<1>8. Calling(j)'
  BY <1>5 DEF Calling, At
<1> QED BY <1>2, <1>4, <1>6, <1>7, <1>8, QuietStep

LEMMA CollectFabricInv ==
  ASSUME IInv, NEW j \in Jobs, CollectFabric(j)
  PROVE  IInv'
<1> DEFINE rows == FabricRows(role, dar, mirrored)
           v == [job[j] EXCEPT !.unread = @ \ {"fabric"}, !.fab = rows]
<1>1. job[j] \in Job /\ job \in [Jobs -> Job] /\ TypeOK /\ AccessFollowsGrants /\ Collected(j)
  BY DEF IInv, TypeOK, JobInv
<1>2. job' = [job EXCEPT ![j] = v] /\ job[j].pc = "collect"
  BY <1>1 DEF CollectFabric, At
<1>3. rows \subseteq Row /\ \A r \in rows : From("fabric_to_dbx", r) /\ RowBacked(r)
  BY <1>1, FabricRowsBacked
<1> HIDE DEF rows
<1>4. v \in Job
  BY <1>1, <1>3 DEF Job
<1>5. job'[j] = v /\ v.pc = "collect" /\ v.dbx = job[j].dbx /\ v.fab = rows
      /\ v.bucket = job[j].bucket /\ v.dir = job[j].dir
  BY <1>1, <1>2 DEF Job
<1>6. UNCHANGED <<platforms, history>> /\ queue' \in [UCPrincipals -> Statuses]
  BY <1>1 DEF CollectFabric, TypeOK
<1>7. Collected(j)'
  BY <1>1, <1>3, <1>5, <1>6 DEF Collected, RowBacked, Backed, From, NameOf, history
<1>8. Calling(j)'
  BY <1>5 DEF Calling, At
<1> QED BY <1>2, <1>4, <1>6, <1>7, <1>8, QuietStep

LEMMA CompareInv ==
  ASSUME IInv, NEW j \in Jobs, Compare(j)
  PROVE  IInv'
<1>1. job[j] \in Job /\ job \in [Jobs -> Job] /\ TypeOK /\ Collected(j)
  BY DEF IInv, TypeOK, JobInv
<1>2. PICK known \in SUBSET Users :
        job' = [job EXCEPT ![j].pc = "rows", ![j].dbx = {}, ![j].fab = {}, ![j].bucket =
                  IF job[j].dir = "dbx_to_fabric"
                  THEN DbxOnly(job[j].dbx, job[j].fab, known)
                  ELSE FabricOnly(job[j].dbx, job[j].fab, known)]
  BY DEF Compare
<1> DEFINE rows == IF job[j].dir = "dbx_to_fabric"
                   THEN DbxOnly(job[j].dbx, job[j].fab, known)
                   ELSE FabricOnly(job[j].dbx, job[j].fab, known)
           v == [job[j] EXCEPT !.pc = "rows", !.dbx = {}, !.fab = {}, !.bucket = rows]
<1>3. rows \subseteq IF job[j].dir = "dbx_to_fabric" THEN job[j].dbx ELSE job[j].fab
  BY DEF DbxOnly, FabricOnly
<1>4. \A r \in rows : From(job[j].dir, r) /\ RowBacked(r)
  BY <1>1, <1>3 DEF Collected, From
<1>5. rows \subseteq Row
  BY <1>1, <1>3 DEF Job
<1>6. job' = [job EXCEPT ![j] = v]
  BY <1>1, <1>2
<1> HIDE DEF rows
<1>7. v \in Job
  BY <1>1, <1>5 DEF Job
<1>8. job'[j] = v /\ v.pc = "rows" /\ v.dbx = {} /\ v.fab = {} /\ v.bucket = rows
      /\ v.dir = job[j].dir
  BY <1>1, <1>6 DEF Job
<1>9. UNCHANGED <<platforms, history>> /\ queue' \in [UCPrincipals -> Statuses]
  BY <1>1 DEF Compare, TypeOK
<1>10. Collected(j)'
  BY <1>4, <1>8, <1>9 DEF Collected, RowBacked, Backed, From, NameOf, history
<1>11. Calling(j)'
  BY <1>8 DEF Calling, At
<1> QED BY <1>6, <1>7, <1>9, <1>10, <1>11, QuietStep

\* The diff failed, or the apply is done.
LEMMA EndInv ==
  ASSUME IInv, NEW j \in Jobs, CollectFails(j) \/ Finish(j)
  PROVE  IInv'
<1>1. job' = [job EXCEPT ![j] = Idle] /\ UNCHANGED <<platforms, queue, history>>
  BY DEF CollectFails, Finish
<1>2. queue' \in [UCPrincipals -> Statuses]
  BY <1>1 DEF IInv, TypeOK
<1> QED BY <1>1, <1>2, IdleIsJob, IdleKeeps, QuietStep

\* A row that makes no call changes the record of the apply, and may leave its
\* principal in the identity queue.
LEMMA NoCallInv ==
  ASSUME IInv, NEW j \in Jobs, NEW r \in Row,
         LookupFails(j, r) \/ SkipRow(j, r) \/ NoMapping(j, r) \/ Preview(j, r)
           \/ SkipUnknown(j, r)
  PROVE  IInv'
<1>1. UNCHANGED <<platforms, history>>
  BY DEF LookupFails, SkipRow, NoMapping, Preview, SkipUnknown
<1>2. \E outcome \in Outcomes : Report(j, outcome)
  BY DEF LookupFails, SkipRow, NoMapping, Preview, SkipUnknown, Outcomes
<1>3. \/ UNCHANGED queue \/ Enqueue(r.who)
  BY DEF LookupFails, SkipRow, NoMapping, Preview, SkipUnknown
<1>4. queue' \in [UCPrincipals -> Statuses]
  BY <1>3 DEF Enqueue, IInv, TypeOK, Statuses
<1> QED BY <1>1, <1>2, <1>4, ReportKeeps, QuietStep DEF history

LEMMA BeginInv ==
  ASSUME IInv, NEW j \in Jobs, NEW r \in Row, Begin(j, r)
  PROVE  IInv'
<1>1. job[j] \in Job /\ job \in [Jobs -> Job] /\ TypeOK /\ Collected(j)
  BY DEF IInv, TypeOK, JobInv
<1>2. PICK x \in (IF ToFabric(j) THEN ToEntra(r) ELSE ToUC(r)) :
        job' = [job EXCEPT ![j].pc = "calls", ![j].row = r, ![j].to = x, ![j].step = 1,
                           ![j].outcome = "none"]
  BY DEF Begin
<1> DEFINE v == [job[j] EXCEPT !.pc = "calls", !.row = r, !.to = x, !.step = 1,
                               !.outcome = "none"]
<1>3. r \in job[j].bucket /\ Grantworthy(j, r)
  BY DEF Begin, Selects
<1>4. From(job[j].dir, r) /\ RowBacked(r)
  BY <1>1, <1>3 DEF Collected
<1>5. /\ x \in IF ToFabric(j) THEN FabricPrincipals ELSE UCPrincipals
      /\ NameOf(x) = NameOf(r.who)
  <2>1. job[j].dir \in Directions
    BY <1>1 DEF Job
  <2>2. CASE ToFabric(j)
    BY <1>2, <1>4, <2>2, EntraKeepsName DEF ToFabric
  <2>3. CASE ~ToFabric(j)
    BY <1>2, <1>4, <2>1, <2>3, UCKeepsName DEF ToFabric, Directions
  <2> QED BY <2>2, <2>3
<1>6. job' = [job EXCEPT ![j] = v]
  BY <1>1, <1>2
<1>7. v \in Job
  <2>1. /\ "none" \in Outcomes /\ 1 \in 0..3 /\ r \in Row \cup {NoRow}
        /\ x \in UCPrincipals \cup FabricPrincipals \cup {Nobody}
    BY <1>5 DEF Outcomes
  <2> QED BY <1>1, <2>1 DEF Job
<1>8. job'[j] = v /\ v.pc = "calls" /\ v.row = r /\ v.to = x /\ v.step = 1 /\ v.dir = job[j].dir
      /\ v.outcome = "none" /\ v.dbx = job[j].dbx /\ v.fab = job[j].fab
      /\ v.bucket = job[j].bucket
  BY <1>1, <1>6 DEF Job
<1>9. UNCHANGED <<platforms, history>> /\ queue' \in [UCPrincipals -> Statuses]
  BY <1>1 DEF Begin, TypeOK
<1>10. \A y : RowBacked(y) => RowBacked(y)'
  BY <1>9 DEF RowBacked, Backed, NameOf, history
<1>11. Collected(j)'
  BY <1>1, <1>8, <1>10 DEF Collected, From
<1>12. CallsFor(j)' \in Nat /\ 1 \in 1..CallsFor(j)'
  <2>1. Len(Path(Target(r))) \in 1..3
    BY TargetIsSecurable, PathsLead
  <2> QED BY <1>8, <2>1 DEF CallsFor, ToFabric
<1>13. Grantworthy(j, r)'
  BY <1>3, <1>8, <1>9 DEF Grantworthy, HasNoEquivalent, ToFabric, platforms
<1>14. WayIsOpen(j)'
  BY <1>8 DEF WayIsOpen
<1>15. Calling(j)'
  BY <1>4, <1>5, <1>8, <1>10, <1>12, <1>13, <1>14 DEF Calling, From, ToFabric, NameOf
<1> QED BY <1>6, <1>7, <1>9, <1>11, <1>15, QuietStep

\* After a call, whatever its answer: what it granted is backed, and the others
\* are not disturbed.
LEMMA CallStep ==
  ASSUME IInv, NEW j \in Jobs, At(j, "calls"), Effect(j) \/ NoEffect,
         UNCHANGED <<queue, given, taken>>,
         NEW v \in Job, job' = [job EXCEPT ![j] = v], Collected(j)', Calling(j)'
  PROVE  IInv'
<1>1. CASE Effect(j)
  <2>1. /\ uc' \subseteq UCGrant /\ dar' \subseteq DarGrant /\ sent' \subseteq UCGrant
        /\ role' \in [FabricPrincipals -> Roles \cup {NoRole}]
        /\ mirrored' = mirrored /\ sent \subseteq sent'
        /\ \A g \in uc' : g \in uc \/ Backed(g.to, g.on, AccessOf(g.priv))
        /\ \A x \in FabricPrincipals :
             role'[x] = role[x] \/ Backed(x, Catalog, AccessOfRole(role'[x]))
        /\ \A g \in dar' : g \in dar \/ Backed(g.to, g.on, AccessOfAction(g.act))
        /\ GrantsAreReachable'
    BY <1>1, EffectBacked
  <2>2. TypeOK'
    BY <2>1 DEF IInv, TypeOK
  <2>3. \A x, s, a : Backed(x, s, a) => Backed(x, s, a)'
    BY DEF Backed, NameOf
  <2>4. AccessFollowsGrants'
    BY <2>1, <2>3 DEF IInv, AccessFollowsGrants
  <2>5. ASSUME NEW k \in Jobs, k # j
        PROVE  Collected(k)' /\ Calling(k)'
    BY <2>1, <2>5, OthersKeep DEF IInv, TypeOK
  <2> QED BY <2>1, <2>2, <2>4, <2>5 DEF IInv, JobInv
<1>2. CASE NoEffect
  BY <1>2, QuietStep DEF NoEffect, IInv, TypeOK, history, platforms
<1> QED BY <1>1, <1>2

\* The call before the last of a row opens the way for the next one.
LEMMA CallOpensWay ==
  ASSUME IInv, NEW j \in Jobs, At(j, "calls"), ~ToFabric(j), job[j].step < CallsFor(j),
         GrantInCatalog(j), NEW v \in Job, job'[j] = v, v.to = job[j].to, v.row = job[j].row,
         v.step = job[j].step + 1
  PROVE  WayIsOpen(j)'
<1> DEFINE s == Target(job[j].row)
           i == job[j].step
           to == job[j].to
<1>1. job[j].row \in Row /\ i \in 1..CallsFor(j) /\ WayIsOpen(j)
  BY DEF IInv, JobInv, Calling
<1>2. s \in Securables
  BY <1>1, TargetIsSecurable
<1>3. i \in 1..Len(Path(s)) /\ i < Len(Path(s)) /\ Len(Path(s)) \in 1..3
  BY <1>1, <1>2, PathsLead DEF CallsFor
<1>4. Path(s)[i] # s /\ PrivilegesNow(j) = Traversal(Path(s)[i])
  BY <1>2, <1>3, PathsLead DEF PrivilegesNow
<1>5. \A p \in Traversal(Path(s)[i]) :
        [to |-> to, on |-> Path(s)[i], priv |-> p] \in sent'
  BY <1>4 DEF GrantInCatalog, GrantsNow
<1>6. sent \subseteq sent'
  BY DEF GrantInCatalog
<1> DEFINE opens(at, priv) == [to |-> to, on |-> at, priv |-> priv] \in sent'
<1>9. /\ i + 1 > 1 => opens(Catalog, "USE_CATALOG")
      /\ i + 1 > 2 => opens(SchemaOf[s], "USE_SCHEMA")
      => WayIsOpen(j)'
  BY DEF WayIsOpen, Target
<1>7. CASE i = 1
  <2>1. Path(s)[i] = Catalog
    BY <1>2, <1>3, <1>7, PathsLead
  <2>2. [to |-> to, on |-> Catalog, priv |-> "USE_CATALOG"] \in sent'
    BY <1>5, <2>1, PairDiffAssumption DEF Traversal
  <2> QED BY <1>7, <1>9, <2>2
<1>8. CASE i = 2
  <2>1. s \in Tables /\ Path(s)[i] = SchemaOf[s]
    BY <1>2, <1>3, <1>8, PathsLead
  <2>2. SchemaOf[s] \in Schemas /\ SchemaOf[s] # Catalog
    BY <2>1, PairDiffAssumption
  <2>3. "USE_SCHEMA" \in Traversal(SchemaOf[s])
    BY <2>2 DEF Traversal
  <2>4. [to |-> to, on |-> SchemaOf[s], priv |-> "USE_SCHEMA"] \in sent'
    BY <1>5, <2>1, <2>3
  <2>5. [to |-> to, on |-> Catalog, priv |-> "USE_CATALOG"] \in sent'
    BY <1>1, <1>6, <1>8 DEF WayIsOpen
  <2> QED BY <1>8, <1>9, <2>4, <2>5
<1>10. i = 1 \/ i = 2
  <2> DEFINE len == Len(Path(s))
  <2>1. i \in 1..len /\ i < len /\ len \in 1..3
    BY <1>3
  <2> HIDE DEF len
  <2> QED BY <2>1
<1> QED BY <1>7, <1>8, <1>10

\* The next call for the row at hand.
LEMMA NextCallInv ==
  ASSUME IInv, NEW j \in Jobs, At(j, "calls"), Effect(j), job[j].step < CallsFor(j),
         job' = [job EXCEPT ![j].step = @ + 1], UNCHANGED <<queue, given, taken>>
  PROVE  IInv'
<1> DEFINE v == [job[j] EXCEPT !.step = @ + 1]
<1>1. job[j] \in Job /\ job \in [Jobs -> Job] /\ TypeOK /\ Collected(j) /\ Calling(j)
  BY DEF IInv, TypeOK, JobInv
<1>2. job[j].row \in Row /\ job[j].step \in 1..CallsFor(j)
  BY <1>1 DEF Calling
<1>3. ~ToFabric(j)
  BY <1>2 DEF CallsFor
<1>4. CallsFor(j) \in 1..3
  BY <1>2, <1>3, TargetIsSecurable, PathsLead DEF CallsFor
<1>5. job' = [job EXCEPT ![j] = v]
  BY <1>1
<1>6. v \in Job
  <2>1. job[j].step + 1 \in 0..3
    BY <1>2, <1>4
  <2> QED BY <1>1, <2>1 DEF Job
<1>7. job'[j] = v /\ v.step = job[j].step + 1 /\ v.pc = job[j].pc /\ v.row = job[j].row
      /\ v.to = job[j].to /\ v.dir = job[j].dir /\ v.outcome = job[j].outcome
      /\ v.dbx = job[j].dbx /\ v.fab = job[j].fab /\ v.bucket = job[j].bucket
  BY <1>1, <1>5 DEF Job
<1>8. GrantInCatalog(j)
  BY <1>3 DEF Effect
<1>9. \A r : RowBacked(r) => RowBacked(r)'
  BY DEF RowBacked, Backed, NameOf
<1>10. Collected(j)'
  BY <1>1, <1>7, <1>9 DEF Collected, From
<1>11. WayIsOpen(j)'
  BY <1>3, <1>6, <1>7, <1>8, CallOpensWay
<1>12. Grantworthy(j, job[j].row)'
  BY <1>1, <1>3, <1>7 DEF Calling, Grantworthy, ToFabric, HasNoEquivalent
<1>13. job'[j].step \in 1..CallsFor(j)'
  BY <1>2, <1>3, <1>4, <1>7 DEF CallsFor, ToFabric
<1>14. Calling(j)'
  BY <1>1, <1>3, <1>7, <1>9, <1>11, <1>12, <1>13 DEF Calling, From, ToFabric, NameOf, At
<1> QED BY <1>5, <1>6, <1>10, <1>14, CallStep

LEMMA CallsInv ==
  ASSUME IInv, NEW j \in Jobs, Accepted(j) \/ Refused(j) \/ Raises(j)
  PROVE  IInv'
<1>1. At(j, "calls") /\ (Effect(j) \/ NoEffect) /\ UNCHANGED <<queue, given, taken>>
  BY DEF Accepted, Refused, Raises
<1>2. CASE Raises(j)
  BY <1>1, <1>2, IdleIsJob, IdleKeeps, CallStep DEF Raises
<1>3. CASE \E outcome \in Outcomes : Report(j, outcome)
  BY <1>1, <1>3, ReportKeeps, CallStep
<1>4. CASE Accepted(j) /\ job[j].step < CallsFor(j)
  BY <1>1, <1>4, NextCallInv DEF Accepted
<1> QED BY <1>2, <1>3, <1>4 DEF Accepted, Refused, Outcomes

\* Administrators change the platforms under the applies; what is theirs is
\* backed by the right they give with it.
LEMMA AdminStep ==
  ASSUME IInv, given \subseteq given', UNCHANGED <<mirrored, queue, job, sent>>, TypeOK',
         \A g \in uc' : g \in uc \/ Backed(g.to, g.on, AccessOf(g.priv))',
         \A x \in FabricPrincipals :
           role'[x] \in {role[x], NoRole} \/ Backed(x, Catalog, AccessOfRole(role[x]))',
         \A g \in dar' : g \in dar \/ Backed(g.to, g.on, AccessOfAction(g.act))'
  PROVE  IInv'
<1>1. \A x, s, a : Backed(x, s, a) => Backed(x, s, a)'
  BY BackedGrows
<1>2. AccessFollowsGrants'
  BY <1>1 DEF IInv, AccessFollowsGrants
<1>3. GrantsAreReachable'
  BY DEF IInv, GrantsAreReachable
<1>4. JobInv'
  BY OthersKeep DEF IInv, JobInv
<1> QED BY <1>2, <1>3, <1>4 DEF IInv

\* A right that was given backs itself.
LEMMA GivenBacks ==
  ASSUME NEW x, NEW s, NEW right \in given', right.name = NameOf(x),
         right.on = s
  PROVE  Backed(x, s, right.access)'
BY ClassesAreAccess DEF Backed, Above, NameOf

LEMMA GiveInCatalogInv ==
  ASSUME IInv, NEW g \in UCGrant, GiveInCatalog(g)
  PROVE  IInv'
<1> DEFINE right == [name |-> NameOf(g.to), side |-> "dbx", on |-> g.on,
                     access |-> AccessOf(g.priv)]
<1>1. /\ uc' = uc \cup {g} /\ given' = given \cup {right}
      /\ UNCHANGED <<role, dar, mirrored, queue, job, sent, taken>>
  BY DEF GiveInCatalog, Give
<1>2. right \in Right
  <2>1. NameOf(g.to) \in Names
    BY PairDiffAssumption DEF UCGrant, UCPrincipals, FabricPrincipals, NameOf
  <2> QED BY <2>1, ClassesAreAccess DEF Right, UCGrant
<1>3. TypeOK'
  BY <1>1, <1>2 DEF IInv, TypeOK
<1>4. Backed(g.to, g.on, AccessOf(g.priv))'
  <2> HIDE DEF right
  <2>1. right \in given' /\ right.name = NameOf(g.to) /\ right.on = g.on
        /\ right.access = AccessOf(g.priv)
    BY <1>1 DEF right
  <2> QED BY <2>1, GivenBacks
<1> QED BY <1>1, <1>3, <1>4, AdminStep

LEMMA GiveRoleInv ==
  ASSUME IInv, NEW x \in FabricPrincipals, NEW r \in Roles, GiveRole(x, r)
  PROVE  IInv'
<1> DEFINE right == [name |-> Display[x], side |-> "fabric", on |-> Catalog,
                     access |-> AccessOfRole(r)]
<1>1. /\ role' = [role EXCEPT ![x] = r] /\ given' = given \cup {right}
      /\ UNCHANGED <<uc, dar, mirrored, queue, job, sent, taken>>
  BY DEF GiveRole, Give
<1>2. right \in Right
  BY ClassesAreAccess, PairDiffAssumption DEF Right, Securables
<1>3. TypeOK'
  BY <1>1, <1>2 DEF IInv, TypeOK
<1>4. Backed(x, Catalog, AccessOfRole(r))'
  <2> HIDE DEF right
  <2>1. right \in given' /\ right.name = NameOf(x) /\ right.on = Catalog
        /\ right.access = AccessOfRole(r)
    BY <1>1 DEF right, NameOf
  <2> QED BY <2>1, GivenBacks
<1>5. \A y \in FabricPrincipals :
        role'[y] \in {role[y], NoRole} \/ Backed(y, Catalog, AccessOfRole(role[y]))'
  BY <1>1, <1>4 DEF IInv, TypeOK
<1> QED BY <1>1, <1>3, <1>5, AdminStep

LEMMA GiveInItemInv ==
  ASSUME IInv, NEW g \in DarGrant, GiveInItem(g)
  PROVE  IInv'
<1> DEFINE right == [name |-> Display[g.to], side |-> "fabric", on |-> g.on,
                     access |-> AccessOfAction(g.act)]
<1>1. /\ dar' = dar \cup {g} /\ given' = given \cup {right}
      /\ UNCHANGED <<uc, role, mirrored, queue, job, sent, taken>>
  BY DEF GiveInItem, Give
<1>2. g.to \in FabricPrincipals /\ g.on \in Securables
  BY DEF DarGrant
<1>3. right \in Right
  BY <1>2, ClassesAreAccess, PairDiffAssumption DEF Right
<1>4. TypeOK'
  BY <1>1, <1>3 DEF IInv, TypeOK
<1>5. Backed(g.to, g.on, AccessOfAction(g.act))'
  <2> HIDE DEF right
  <2>1. right \in given' /\ right.name = NameOf(g.to) /\ right.on = g.on
        /\ right.access = AccessOfAction(g.act)
    BY <1>1, <1>2 DEF right, NameOf
  <2> QED BY <2>1, GivenBacks
<1> QED BY <1>1, <1>4, <1>5, AdminStep

LEMMA WithdrawInv ==
  ASSUME IInv, Withdraw
  PROVE  IInv'
<1>1. /\ uc' \subseteq uc /\ dar' \subseteq dar /\ UNCHANGED <<mirrored, queue, job, given, sent>>
      /\ role' = role \/ \E x \in FabricPrincipals : role' = [role EXCEPT ![x] = NoRole]
  BY DEF Withdraw
<1>2. taken' \in 0..MaxTaken
  BY ApplyRowsAssumption DEF Withdraw, IInv, TypeOK
<1>3. TypeOK'
  BY <1>1, <1>2 DEF IInv, TypeOK
<1>4. \A x \in FabricPrincipals : role'[x] \in {role[x], NoRole}
  BY <1>1 DEF IInv, TypeOK
<1> QED BY <1>1, <1>3, <1>4, AdminStep

LEMMA SettleInv ==
  ASSUME IInv, NEW x \in UCPrincipals, NEW status \in Statuses, Settle(x, status)
  PROVE  IInv'
<1>1. TypeOK'
  BY DEF Settle, platforms, history, IInv, TypeOK
<1>2. UNCHANGED <<platforms, job, history>>
  BY DEF Settle
<1>3. AccessFollowsGrants' /\ GrantsAreReachable'
  BY <1>2 DEF IInv, AccessFollowsGrants, GrantsAreReachable, Backed, NameOf, platforms, history
<1>4. JobInv'
  BY <1>2, OthersKeep DEF IInv, JobInv, platforms, history
<1> QED BY <1>1, <1>3, <1>4 DEF IInv

LEMMA StutterInv ==
  ASSUME IInv, UNCHANGED vars
  PROVE  IInv'
<1>1. TypeOK' /\ AccessFollowsGrants' /\ GrantsAreReachable'
  BY DEF vars, platforms, IInv, TypeOK, AccessFollowsGrants, GrantsAreReachable, Backed, NameOf
<1>2. JobInv'
  BY OthersKeep DEF vars, platforms, IInv, JobInv
<1> QED BY <1>1, <1>2 DEF IInv

\* The invariant is inductive.
LEMMA NextInv == IInv /\ [Next]_vars => IInv'
<1> SUFFICES ASSUME IInv, [Next]_vars PROVE IInv'
  OBVIOUS
<1>1. ASSUME NEW j \in Jobs, JobStep(j)
      PROVE  IInv'
  BY <1>1, ArriveInv, CollectDbxInv, CollectFabricInv, EndInv, CompareInv, NoCallInv, BeginInv,
     CallsInv DEF JobStep
<1>2. CASE People
  BY <1>2, GiveInCatalogInv, GiveRoleInv, GiveInItemInv, WithdrawInv, SettleInv DEF People
<1> QED BY <1>1, <1>2, StutterInv DEF Next

LEMMA Invariance == Spec => []IInv
BY InitInv, NextInv, PTL DEF Spec

-----------------------------------------------------------------------------
(* Results *)

\* The variables keep their types.
THEOREM RowsTypeCorrect == Spec => []TypeOK
<1>1. IInv => TypeOK
  BY DEF IInv
<1> QED BY <1>1, Invariance, PTL

\* However applies in both directions, failing calls, diffs that are out of date
\* and administrators interleave, nobody's access to data exceeds what an
\* administrator has given to somebody of that name.
THEOREM AccessIsNotWidened == Spec => []AccessFollowsGrants
<1>1. IInv => AccessFollowsGrants
  BY DEF IInv
<1> QED BY <1>1, Invariance, PTL

\* What administrators have given in the catalog is of the class of something that
\* they may give there.
GivenWasGrantable ==
  \A right \in given : right.side = "dbx" => \E p \in Grantable : right.access = AccessOf(p)

LEMMA GivenStep ==
  ASSUME GivenWasGrantable, [Next]_vars
  PROVE  GivenWasGrantable'
<1>1. CASE UNCHANGED given
  BY <1>1 DEF GivenWasGrantable
<1>2. ASSUME NEW g \in UCGrant, GiveInCatalog(g)
      PROVE  GivenWasGrantable'
  <2>1. /\ given' = given \cup {[name |-> NameOf(g.to), side |-> "dbx", on |-> g.on,
                                 access |-> AccessOf(g.priv)]}
        /\ g.priv \in Grantable
    BY <1>2 DEF GiveInCatalog, Give
  <2>2. QED
    BY <2>1 DEF GivenWasGrantable
<1>3. ASSUME NEW x \in FabricPrincipals, NEW r \in Roles, GiveRole(x, r)
      PROVE  GivenWasGrantable'
  BY <1>3 DEF GiveRole, Give, GivenWasGrantable
<1>4. ASSUME NEW g \in DarGrant, GiveInItem(g)
      PROVE  GivenWasGrantable'
  BY <1>4 DEF GiveInItem, Give, GivenWasGrantable
<1>5. ASSUME NEW j \in Jobs, JobStep(j)
      PROVE  UNCHANGED given
  <2> USE DEF history
  <2>1. CASE Arrive(j) \/ CollectDbx(j) \/ CollectFabric(j) \/ CollectFails(j) \/ Compare(j)
    BY <2>1 DEF Arrive, CollectDbx, CollectFabric, CollectFails, Compare
  <2>2. ASSUME NEW r \in Row, LookupFails(j, r) \/ SkipRow(j, r) \/ NoMapping(j, r)
        PROVE  UNCHANGED given
    BY <2>2 DEF LookupFails, SkipRow, NoMapping
  <2>3. ASSUME NEW r \in Row, Preview(j, r) \/ SkipUnknown(j, r) \/ Begin(j, r)
        PROVE  UNCHANGED given
    BY <2>3 DEF Preview, SkipUnknown, Begin
  <2>4. CASE Accepted(j) \/ Refused(j) \/ Raises(j) \/ Finish(j)
    BY <2>4 DEF Accepted, Refused, Raises, Finish
  <2>5. QED
    BY <1>5, <2>1, <2>2, <2>3, <2>4 DEF JobStep
<1>6. Withdraw \/ (\E x \in UCPrincipals, status \in Statuses : Settle(x, status))
        => UNCHANGED given
  BY DEF Withdraw, Settle, history
<1>7. QED
  BY <1>1, <1>2, <1>3, <1>4, <1>5, <1>6 DEF Next, People, vars

\* The claim of tests/test_roundtrip_safety.py:3-5, which the run roundtrip refutes,
\* is true of catalogs in which nobody is given a privilege of the class DATA_WRITE: that
\* such a privilege comes back with SELECT is the one way in which a round trip widens,
\* whatever else administrators give and however applies meet and fail.
THEOREM OnlyWritingWidens ==
  (\A p \in Grantable : AccessOf(p) # "DATA_WRITE") => (Spec => []RoundTripsDoNotWiden)
<1>1. SUFFICES ASSUME \A p \in Grantable : AccessOf(p) # "DATA_WRITE"
               PROVE  Spec => []RoundTripsDoNotWiden
  OBVIOUS
<1>2. Init => GivenWasGrantable
  BY DEF Init, GivenWasGrantable
<1>3. IInv /\ GivenWasGrantable => RoundTripsDoNotWiden
  <2>1. SUFFICES ASSUME IInv, GivenWasGrantable, NEW g \in uc, g.priv = "SELECT"
                 PROVE  \E right \in given :
                          /\ right.name = NameOf(g.to) /\ right.on \in Above(g.on)
                          /\ \/ right.access \in {"DATA_READ", "DATA_ADMIN"}
                             \/ right.access = "DATA_WRITE" /\ right.side = "fabric"
    BY DEF RoundTripsDoNotWiden
  <2>2. AccessOf(g.priv) = "DATA_READ" /\ Rank("DATA_READ") = 1
    BY <2>1 DEF AccessOf, Rank
  <2>3. PICK right \in given : /\ right.name = NameOf(g.to) /\ right.on \in Above(g.on)
                               /\ Rank(right.access) >= 1
    BY <2>1, <2>2 DEF IInv, AccessFollowsGrants, Backed
  <2>4. right.access \in Access /\ right.side \in {"dbx", "fabric"}
    BY <2>1 DEF IInv, TypeOK, Right
  <2>5. right.access \in {"DATA_READ", "DATA_WRITE", "DATA_ADMIN"}
    BY <2>3, <2>4 DEF Access, Rank
  <2>6. right.access = "DATA_WRITE" => right.side = "fabric"
    BY <1>1, <2>1, <2>4 DEF GivenWasGrantable
  <2>7. QED
    BY <2>3, <2>5, <2>6
<1>4. QED
  BY <1>2, <1>3, GivenStep, Invariance, PTL DEF Spec

\* A grant on data that an apply has made is never cut off from it, wherever its
\* chain of calls stopped.
THEOREM GrantsReachable == Spec => []GrantsAreReachable
<1>1. IInv => GrantsAreReachable
  BY DEF IInv
<1> QED BY <1>1, Invariance, PTL

\* What the last call of a row has granted is found by the next diff.
LEMMA LastCallArrives ==
  ASSUME IInv, NEW j \in Jobs, At(j, "calls"), Effect(j), ~(job[j].step < CallsFor(j)),
         job'[j].outcome = "ok"
  PROVE  \/ \E x \in IF ToFabric(j) THEN FabricRows(role', dar', mirrored') ELSE DbxRows(uc') :
              /\ x.who = job[j].to /\ x.scope = Target(job[j].row)
              /\ x.access = job[j].row.access
         \/ ToFabric(j) /\ Layer(job[j].row) = "workspace_role" /\ role[job[j].to] # NoRole
<1> DEFINE r == job[j].row
           s == Target(r)
           to == job[j].to
           arrives(rows) == \E x \in rows : x.who = to /\ x.scope = s /\ x.access = r.access
<1>1. /\ r \in Row /\ From(job[j].dir, r) /\ Grantworthy(j, r)
      /\ to \in IF ToFabric(j) THEN FabricPrincipals ELSE UCPrincipals
      /\ job[j].step \in 1..CallsFor(j)
  BY DEF IInv, JobInv, Calling
<1>2. s \in Securables /\ r.access \in Access
  BY <1>1, TargetIsSecurable DEF Row
<1>3. CASE ~ToFabric(j)
  <2>1. job[j].step = Len(Path(s))
    <3>1. Len(Path(s)) \in 1..3
      BY <1>2, PathsLead
    <3>2. CallsFor(j) = Len(Path(s))
      BY <1>3 DEF CallsFor
    <3> QED BY <1>1, <3>1, <3>2
  <2>2. Path(s)[job[j].step] = s /\ PrivilegesNow(j) = PrivilegesFor(r.access, s)
    BY <1>2, <2>1, PathsLead DEF PrivilegesNow
  <2>3. PICK p \in PrivilegesFor(r.access, s) : AccessOf(p) = r.access
    BY <1>1, <1>2, <1>3, PrivilegesKeepRank DEF Grantworthy
  <2> DEFINE g == [to |-> to, on |-> s, priv |-> p]
  <2>4. g \in uc'
    BY <1>3, <2>2, <2>3 DEF Effect, GrantInCatalog, GrantsNow
  <2>5. arrives(DbxRows(uc'))
    <3>1. g.to = to /\ g.on = s /\ AccessOf(g.priv) = r.access
      BY <2>3
    <3> HIDE DEF g
    <3>2. [who |-> g.to, by |-> "name", scope |-> g.on, access |-> AccessOf(g.priv)]
            \in DbxRows(uc')
      BY <2>4 DEF DbxRows
    <3> QED BY <3>1, <3>2
  <2> QED BY <1>3, <2>5
<1>4. CASE ToFabric(j) /\ Layer(r) = "onelake_dar"
  <2> DEFINE g == [to |-> to, on |-> r.scope, act |-> "Read"]
             d == [who |-> to, by |-> "oid", scope |-> r.scope, access |-> "DATA_READ"]
  <2>1. g \in dar' /\ mirrored'
    BY <1>1, <1>4 DEF Effect, JoinRole, Grantworthy, HasNoEquivalent
  <2>2. r.scope \in Tables /\ r.access = "DATA_READ"
    BY <1>1, <1>4 DEF Layer, Grantworthy, HasNoEquivalent
  <2>3. s = r.scope
    BY <2>2, PairDiffAssumption DEF Target, Securables
  <2>4. d \in DarRows(dar')
    BY <2>1 DEF DarRows, AccessOfAction
  <2>5. CASE d \in FabricRows(role', dar', mirrored')
    BY <2>2, <2>3, <2>5, <1>4
  <2>6. CASE d \notin FabricRows(role', dar', mirrored')
    <3>1. PICK x \in RoleRows(role') : x.who = d.who /\ x.scope = d.scope /\ x.access = d.access
      BY <2>1, <2>4, <2>6 DEF FabricRows
    <3> QED BY <1>4, <2>2, <2>3, <3>1 DEF FabricRows
  <2> QED BY <2>5, <2>6
<1>5. CASE ToFabric(j) /\ Layer(r) # "onelake_dar"
  <2>1. Layer(r) = "workspace_role" /\ RoleFor(r.access) # NoRole
    BY <1>1, <1>5 DEF Layer, Grantworthy, HasNoEquivalent
  <2>2. AccessOfRole(RoleFor(r.access)) = r.access
    BY <1>2, <2>1, RolesRoundTrip
  <2>3. s = Catalog
    <3>1. r.scope \in Securables
      BY <1>1, <1>5 DEF From, ToFabric
    <3>2. r.access # "OBJECT_USE"
      BY <2>1 DEF RoleFor
    <3> QED BY <2>1, <3>1, <3>2, PairDiffAssumption DEF Layer, Securables, Target
  <2>4. CASE role[to] # NoRole
    BY <1>5, <2>1, <2>4
  <2>5. CASE role[to] = NoRole
    <3> DEFINE x == [who |-> to, by |-> "name", scope |-> Catalog, access |-> r.access]
    <3>1. to \in FabricPrincipals /\ role'[to] = RoleFor(r.access)
      BY <1>1, <1>5, <2>5 DEF Effect, AssignRole, IInv, TypeOK
    <3>2. x \in Row
      BY <1>2, <3>1 DEF Row, Scopes, Securables
    <3>3. Covers(role'[to], r.access)
      BY <2>2, <3>1, ClassesAreAccess DEF Covers
    <3>4. x \in RoleRows(role')
      BY <2>1, <3>1, <3>2, <3>3 DEF RoleRows
    <3> QED BY <1>5, <2>3, <3>4 DEF FabricRows
  <2> QED BY <2>4, <2>5
<1> QED BY <1>3, <1>4, <1>5

\* The step of an apply leaves the records of the others alone.
LEMMA OthersStay ==
  ASSUME job \in [Jobs -> Job], NEW j \in Jobs, NEW k \in Jobs, k # j, JobStep(k)
  PROVE  job'[j] = job[j]
<1>1. CASE \E outcome : Report(k, outcome)
  BY <1>1 DEF Report
<1>2. CASE Arrive(k) \/ CollectFails(k) \/ Raises(k) \/ Finish(k)
  BY <1>2 DEF Arrive, CollectFails, Raises, Finish
<1>3. CASE CollectDbx(k) \/ CollectFabric(k)
  BY <1>3 DEF CollectDbx, CollectFabric
<1>4. CASE Compare(k)
  BY <1>4 DEF Compare
<1>5. CASE \E r \in Row : Begin(k, r)
  BY <1>5 DEF Begin
<1>6. CASE Accepted(k)
  BY <1>1, <1>6 DEF Accepted
<1>7. \/ \E outcome : Report(k, outcome)
      \/ Arrive(k) \/ CollectFails(k) \/ Raises(k) \/ Finish(k)
      \/ CollectDbx(k) \/ CollectFabric(k) \/ Compare(k)
      \/ (\E r \in Row : Begin(k, r)) \/ Accepted(k)
  BY DEF JobStep, LookupFails, SkipRow, NoMapping, Preview, SkipUnknown, Refused
<1> QED BY <1>1, <1>2, <1>3, <1>4, <1>5, <1>6, <1>7

\* An ok in the report of a real apply means that the right is there: the next
\* diff finds the row on its target, unless the principal had a workspace role.
THEOREM OkMeansArrived == Spec => OkRowsArrive
<1> DEFINE ok(j) ==
      At(j, "calls") /\ job'[j].outcome = "ok" =>
        \/ \E x \in IF ToFabric(j) THEN FabricRows(role', dar', mirrored') ELSE DbxRows(uc') :
             /\ x.who = job[j].to /\ x.scope = Target(job[j].row)
             /\ x.access = job[j].row.access
        \/ ToFabric(j) /\ Layer(job[j].row) = "workspace_role" /\ role[job[j].to] # NoRole
<1>1. ASSUME IInv, Next, NEW j \in Jobs
      PROVE  ok(j)
  <2> SUFFICES ASSUME At(j, "calls"), job'[j].outcome = "ok" PROVE ok(j)
    OBVIOUS
  <2>1. job[j] \in Job /\ job \in [Jobs -> Job] /\ job[j].outcome = "none" /\ job[j].pc = "calls"
    BY <1>1 DEF IInv, TypeOK, JobInv, Calling, At
  <2>2. job'[j] # job[j] /\ job'[j].outcome # job[j].outcome
    BY <2>1
  <2>3. ~People
    BY <2>2 DEF People, GiveInCatalog, GiveRole, GiveInItem, Give, Withdraw, Settle
  <2>4. \A k \in Jobs : JobStep(k) => k = j
    BY <2>1, <2>2, OthersStay
  <2>5. JobStep(j)
    BY <1>1, <2>3, <2>4 DEF Next
  <2>6. Accepted(j) \/ Refused(j) \/ Raises(j)
    BY <2>1, <2>5 DEF JobStep, Arrive, CollectDbx, CollectFabric, CollectFails, Compare,
       LookupFails, SkipRow, NoMapping, Preview, SkipUnknown, Begin, Finish, Selects, At
  <2>7. ~Refused(j) /\ ~Raises(j)
    BY <2>1 DEF Refused, Raises, Report, Idle, Job
  <2>8. ~(job[j].step < CallsFor(j))
    BY <2>1, <2>6, <2>7 DEF Accepted, Job
  <2> QED BY <1>1, <2>6, <2>7, <2>8, LastCallArrives DEF Accepted
<1>2. IInv /\ [Next]_vars => [\A j \in Jobs : ok(j)]_vars
  BY <1>1
<1>3. OkRowsArrive <=> [][\A j \in Jobs : ok(j)]_vars
  BY DEF OkRowsArrive
<1> QED BY <1>2, <1>3, Invariance, PTL DEF Spec

\* No apply brings back a principal that an operator has resolved or ignored.
THEOREM OperatorsDecideOnce == Spec => DecisionsStick
<1> DEFINE stays == \A x \in UCPrincipals :
      queue[x] \in {"resolved", "ignored"} => queue'[x] \in {"resolved", "ignored"}
<1>1. ASSUME IInv, Next
      PROVE  stays
  <2>1. queue \in [UCPrincipals -> Statuses]
    BY <1>1 DEF IInv, TypeOK
  <2>2. ASSUME NEW j \in Jobs, JobStep(j)
        PROVE  queue' = queue \/ \E x \in UCPrincipals : Enqueue(x)
    <3>1. CASE \E r \in Row : SkipUnknown(j, r)
      <4>1. PICK r \in Row : SkipUnknown(j, r)
        BY <3>1
      <4>2. ToFabric(j) => r.who \in UCPrincipals
        BY <1>1, <4>1 DEF SkipUnknown, Selects, IInv, JobInv, Collected, From, ToFabric
      <4> QED BY <4>1, <4>2 DEF SkipUnknown
    <3>2. CASE ~\E r \in Row : SkipUnknown(j, r)
      BY <2>2, <3>2 DEF JobStep, Arrive, CollectDbx, CollectFabric, CollectFails, Compare,
         LookupFails, SkipRow, NoMapping, Preview, Begin, Accepted, Refused, Raises, Finish
    <3> QED BY <3>1, <3>2
  <2>3. CASE \E x \in UCPrincipals : Enqueue(x)
    BY <2>1, <2>3 DEF Enqueue
  <2>4. CASE queue' = queue
    BY <2>4
  <2>5. CASE \E x \in UCPrincipals, status \in Statuses : Settle(x, status)
    BY <2>1, <2>5 DEF Settle
  <2>6. People => \/ queue' = queue
                  \/ \E x \in UCPrincipals, status \in Statuses : Settle(x, status)
    BY DEF People, GiveInCatalog, GiveRole, GiveInItem, Give, Withdraw
  <2> QED BY <1>1, <2>2, <2>3, <2>4, <2>5, <2>6 DEF Next
<1>2. IInv /\ [Next]_vars => [stays]_vars
  BY <1>1
<1>3. DecisionsStick <=> [][stays]_vars
  BY DEF DecisionsStick
<1> QED BY <1>2, <1>3, Invariance, PTL DEF Spec
=============================================================================
