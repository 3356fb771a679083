---------------------------- MODULE MCConstraints ----------------------------
(* Instances for TLC of UCConstraints and AbacPolicies, constraints from       *)
(* Fabric to Unity Catalog and back, and of OneLakeRoles, the roles that carry *)
(* them in Fabric.  The three share nothing, so a behaviour here is one of one *)
(* of them.                                                                    *)
EXTENDS UCConstraints, AbacPolicies, OneLakeRoles, TLC

CONSTANTS c1, c2, slot1, t1, t2, s1, a, b, param1, v1, v2, tag1, u1, u2, al, be,
          p1, p2, p3, p4, p5, p6, p7, p8, p9, p10

------------------------------------------------------------------------------
(* UCConstraints *)

OneSlot == [c \in {c1, c2} |-> slot1]
WholeGroup == [g \in Groups |-> Users]

\* The row that nobody plans is about one of the constraints.
ASSUME IdleAssumption == c1 \in Constraints

\* The writers of OneLakeRoles have the names of the jobs.
Symmetry == Permutations(Jobs) \cup Permutations(Users) \cup Permutations({c1, c2})

FiltersIdle ==
  /\ das = {} /\ asked = {} /\ attached = {} /\ stmts = {}
  /\ function = [c \in Constraints |-> Nothing]
  /\ slot = [s \in Slots |-> Nothing]
  /\ work = [j \in Jobs |-> [pc |-> "skipped", step |-> "create", try |-> 0, row |-> c1,
                             members |-> {}, body |-> [c |-> c1, members |-> {}],
                             answer |-> "none"]]
  /\ changes = MaxChanges

------------------------------------------------------------------------------
(* AbacPolicies *)

InSchema == [t \in {t1, t2} |-> s1]
TwoColumns == <<a, b>>

Function(params, test, wrapped, users, grouped, safe) ==
  [params |-> params, test |-> test, wrapped |-> wrapped, users |-> users,
   grouped |-> grouped, safe |-> safe]

Attached(f, cols) == [fun |-> f, cols |-> cols]

Plain == Function(<<param1>>, {<<param1, v1>>}, FALSE, {}, FALSE, TRUE)
OfHub == Function(<<a>>, {<<a, v1>>}, TRUE, {u1}, FALSE, TRUE)
ForGroup == Function(<<param1>>, {<<param1, v2>>}, FALSE, {}, TRUE, TRUE)
ForGroupOfHub == Function(<<param1, b>>, {<<param1, v1>>, <<b, v2>>}, TRUE, {u1, u2}, TRUE, TRUE)
Crossed == Function(<<b, a>>, {<<b, v1>>}, FALSE, {}, FALSE, TRUE)
Unsafe == Function(<<param1>>, {<<param1, v1>>}, FALSE, {}, FALSE, FALSE)
Worded == Function(<<param1>>, {<<param1, param1>>}, FALSE, {}, FALSE, TRUE)

SomeFilters ==
  {Attached(Plain, <<b>>), Attached(OfHub, <<a>>), Attached(ForGroup, <<a>>),
   Attached(ForGroupOfHub, <<a, b>>), Attached(Crossed, <<a, b>>),
   Attached(Crossed, <<b, a>>), Attached(Unsafe, <<a>>), Attached(Worded, <<a>>)}

\* Functions that cannot be fetched.
SomeUnread == {{}, {Plain}, {OfHub, ForGroupOfHub}}

Has == {{[key |-> tag1, value |-> AnyValue]}}
Is1 == {{[key |-> tag1, value |-> v1]}}
Is2 == {{[key |-> tag1, value |-> v2]}}
Either == Is1 \cup Is2
Both == {{[key |-> tag1, value |-> v1], [key |-> tag1, value |-> AnyValue]}}
Always == {{}}

Policy(id, kind, on, when, match, column, using, fun) ==
  [id |-> id, kind |-> kind, on |-> on, when |-> when, match |-> match,
   on_column |-> column, using |-> using, fun |-> fun]

Match(alias, condition) == [alias |-> alias, condition |-> condition]

SomePolicies ==
  {Policy(p1, "column_mask", Catalog, Is1, <<Match(al, Has)>>, al, <<>>, Plain),
   Policy(p2, "column_mask", s1, Either, <<Match(al, Is1), Match(be, Is2)>>, be, <<>>, Plain),
   Policy(p3, "column_mask", t1, Both, <<Match(al, Either)>>, al, <<>>, Plain),
   Policy(p4, "column_mask", t2, Always, <<Match(al, Is1)>>, be, <<>>, Plain),
   Policy(p5, "column_mask", Catalog, Always, <<Match(al, Unsupported)>>, al, <<>>, Plain),
   Policy(p6, "row_filter", Catalog, Has, <<Match(al, Has)>>, NoColumn, <<al>>, Plain),
   Policy(p7, "row_filter", t1, Always, <<Match(al, Is1), Match(be, Is2)>>, NoColumn,
          <<be, al>>, ForGroupOfHub),
   Policy(p8, "column_mask", t1, Always, <<>>, al, <<>>, Plain),
   Policy(p9, "row_filter", Elsewhere, Is1, <<Match(al, Has)>>, NoColumn, <<al, be>>, Plain),
   Policy(p10, "other", s1, Always, <<Match(al, Has)>>, al, <<al>>, Plain)}

Tag(v, caps) == [value |-> v, caps |-> caps]
SomeTags == [{tag1} -> {NoTag, Tag(v1, FALSE), Tag(v2, FALSE), Tag(v2, TRUE)}]
Untagged == [key \in {tag1} |-> NoTag]
Tagged(v, caps) == [key \in {tag1} |-> Tag(v, caps)]
Columned(va, vb) == (a :> [key \in {tag1} |-> va] @@ b :> [key \in {tag1} |-> vb])
SomeColumnTags == {Columned(NoTag, NoTag), Columned(v1, NoTag), Columned(v1, v2), Columned(v2, v2)}
SomeMasks == {{}, {a}}

AbacIdle ==
  /\ production = TRUE /\ filters = [t \in Tables |-> {}] /\ masks = [t \in Tables |-> {}]
  /\ tags = [catalog |-> Untagged, schema |-> [s \in Schemas |-> Untagged],
             table |-> [t \in Tables |-> Untagged],
             column |-> [t \in Tables |-> Columned(NoTag, NoTag)]]
  /\ policies = {} /\ unread = {} /\ listed = {}
  /\ step = "diffed" /\ seen = {} /\ rows = {} /\ installed = {}

\* What varies is the tags of one table and of what it is in, under any policy or any
\* two that mask,
TagsVary ==
  /\ production = TRUE /\ unread = {} /\ filters = [t \in Tables |-> {}]
  /\ policies \in {ps \in SUBSET SomePolicies :
                     \/ Cardinality(ps) <= 1
                     \/ Cardinality(ps) = 2 /\ \A p \in ps : p.kind = "column_mask"}
  /\ masks \in {[t \in Tables |-> IF t = t1 THEN m ELSE {}] : m \in SomeMasks}
  /\ tags \in {[catalog |-> c, schema |-> [s \in Schemas |-> d],
                table |-> [t \in Tables |-> IF t = t1 THEN e ELSE Untagged],
                column |-> [t \in Tables |-> IF t = t1 THEN f ELSE Columned(v1, NoTag)]]
                 : c \in SomeTags \ {Tagged(v2, FALSE)}, d \in SomeTags,
                   e \in SomeTags \ {Tagged(v2, TRUE)}, f \in SomeColumnTags}

\* or the filters of two tables and which of them can be fetched, next to a policy
\* that filters.
FiltersVary ==
  /\ production \in BOOLEAN /\ unread \in SomeUnread /\ masks = [t \in Tables |-> {}]
  /\ filters \in [Tables -> {{}} \cup {{f} : f \in SomeFilters}]
  /\ tags \in {[catalog |-> c, schema |-> [s \in Schemas |-> Untagged],
                table |-> [t \in Tables |-> Untagged],
                column |-> [t \in Tables |-> Columned(v1, v2)]]
                 : c \in {Untagged, Tagged(v1, FALSE)}}
  /\ policies \in {{}} \cup {{p} : p \in {q \in SomePolicies : q.kind = "row_filter"}}

------------------------------------------------------------------------------
(* OneLakeRoles *)

\* Administrators keep the scope of the roles that the hub made, or move them
\* to another table.
OneTable == {{t1}, {t2}}

\* The roles that administrators make are about one table or about both.
AnyTables == {{t1}, {t1, t2}}

RolesIdle ==
  /\ roles = NoRoles /\ given = {} /\ edits = MaxEdits
  /\ job = [w \in Writers |-> [pc |-> "failed", name |-> HubRole(t1), person |-> Caller,
                               list |-> NoRoles]]

------------------------------------------------------------------------------
Init ==
  \/ FiltersInit /\ Cardinality(das) <= 1 /\ AbacIdle /\ RolesIdle
  \/ FiltersIdle /\ TagsVary /\ AbacInit /\ RolesIdle
  \/ FiltersIdle /\ FiltersVary /\ AbacInit /\ RolesIdle
  \/ FiltersIdle /\ AbacIdle /\ RolesInit

Next ==
  \/ FiltersNext /\ UNCHANGED <<abacVars, rolesVars>>
  \/ AbacNext /\ UNCHANGED <<filterVars, rolesVars>>
  \/ RolesNext /\ UNCHANGED <<filterVars, abacVars>>

Spec == Init /\ [][Next]_<<filterVars, abacVars, rolesVars>>

TypeOK == FiltersTypeOK /\ AbacTypeOK
==============================================================================
