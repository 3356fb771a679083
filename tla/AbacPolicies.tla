---------------------------- MODULE AbacPolicies ----------------------------
(***************************************************************************)
(* Row filters, column masks and tag-driven (ABAC) policies of Unity       *)
(* Catalog on their way to Fabric: collect_dbx_rows of                     *)
(* app/services/pair_diff.py with app/services/abac_resolver.py, the       *)
(* translation of app/services/fine_grained_policy.py, and the branch of   *)
(* apply_rows that installs what was translated.                           *)
(*                                                                         *)
(* A behaviour is one diff of one catalog and one apply of its rows; the   *)
(* catalog - tables, tags, policies, functions - is an input and does not  *)
(* change meanwhile.  SQL text is abstracted to what the translation does  *)
(* to it: a function is a conjunction of comparisons of its parameters     *)
(* with literals, perhaps after is_account_group_member(...) AND, perhaps  *)
(* inside CASE WHEN current_user() IN (users) THEN ... ELSE true END.  A   *)
(* literal in which the name of a parameter or of a column stands as a     *)
(* word is that name here.                                                 *)
(*                                                                         *)
(* Reads that fail without ending the diff are modelled: functions that    *)
(* cannot be fetched, listings of policies that break off, tags.           *)
(***************************************************************************)
EXTENDS Naturals, FiniteSets, Sequences

CONSTANTS
  Tables, Schemas,
  SchemaOf,      \* [Tables -> Schemas]
  Columns,       \* the columns of a table, in order
  Params,        \* other names that parameters of functions may have
  Values,        \* of columns and of tags; other literals are names
  Keys,          \* tag names in lower case
  Staff, Guests, \* users in and outside the group that functions ask for
  Bracketed,     \* those of them with a closing bracket in their name
  FilterInputs,  \* functions with the columns they are attached to, for tables
  PolicyInputs,  \* ABAC policies
  TagInputs,     \* tags of the catalog, a schema, a table
  ColumnTagInputs,  \* [Range(Columns) -> TagsOf]: tags of the columns of a table
  MaskInputs,    \* sets of columns
  Catalog,
  Elsewhere,     \* a securable that is not the catalog, a schema or a table
  NoTag, AnyValue, NoColumn, NoOne, Unsupported

ASSUME AbacAssumption ==
  /\ SchemaOf \in [Tables -> Schemas]
  /\ Catalog \notin Tables \cup Schemas
  /\ Elsewhere \notin Tables \cup Schemas \cup {Catalog}
  /\ NoTag \notin Values /\ AnyValue \notin Values

VARIABLES
  production,  \* settings.is_production
  filters,     \* filters[t]: the row filters of table t
  masks,       \* masks[t]: the masked columns of table t
  tags,        \* governed tags
  policies,    \* the ABAC policies of the catalog
  unread,      \* functions that cannot be fetched in this diff
  listed,      \* the policies that list_policies has returned
  step,        \* where the diff, and then the apply, has got to
  seen,        \* tables whose metadata has been read
  rows,        \* rows of the diff
  installed    \* constraint roles that the apply has installed in Fabric

inputVars == <<production, filters, masks, tags, policies, unread>>
abacVars == <<inputVars, listed, step, seen, rows, installed>>

-----------------------------------------------------------------------------
(* Data *)

Readers == Staff \cup Guests
ColumnSet == {Columns[i] : i \in DOMAIN Columns}
Names == ColumnSet \cup Params

\* name = literal, and what a column may hold.
Texts == Values \cup Names
Comparison == Names \X Texts

\* What a row of the diff is about; by is the policy if there is no translation.
Key == [pred : SUBSET Comparison, column : ColumnSet \cup {NoColumn},
        by : {p.id : p \in PolicyInputs} \cup Tables \cup {NoOne}]

DiffRows ==
  [source : {"databricks", "resolved", "abac"}, kind : {"row_filter", "column_mask"},
   scope : Tables \cup Schemas \cup {Catalog}, key : Key]

\* A function in SQL: what it tests of its parameters, and what is around the test.
SqlFunction ==
  {f \in [params : Seq(Names), test : SUBSET Comparison, wrapped : BOOLEAN,
          users : SUBSET Readers, grouped : BOOLEAN, safe : BOOLEAN] :
     \A i, j \in DOMAIN f.params : f.params[i] = f.params[j] => i = j}

\* The catalog is one of Unity Catalog.  The key of what is not translated is a signature
\* of its table or of its policy, and of which of the two it is.
ASSUME AbacInputsAssumption ==
  /\ Columns \in Seq(ColumnSet) /\ NoColumn \notin ColumnSet
  /\ NoOne \notin Tables
  /\ \A f \in FilterInputs : f.fun \in SqlFunction /\ f.cols \in Seq(ColumnSet)
  /\ \A p \in PolicyInputs :
       /\ p.id \notin Tables \cup {NoOne}
       /\ p.kind \in {"row_filter", "column_mask", "other"}
       /\ p.fun \in SqlFunction
       /\ p.on \in Tables \cup Schemas \cup {Catalog, Elsewhere}
       /\ p.match \in Seq({p.match[i] : i \in DOMAIN p.match})
       /\ p.using \in Seq({p.using[i] : i \in DOMAIN p.using})
  /\ MaskInputs \subseteq SUBSET ColumnSet
  /\ TagInputs \subseteq [Keys -> {NoTag} \cup [value : Values, caps : BOOLEAN]]

\* What a filter or a policy calls.
SqlFunctions == {f.fun : f \in FilterInputs} \cup {p.fun : p \in PolicyInputs}

AbacTypeOK ==
  /\ production \in BOOLEAN
  /\ \A t \in Tables : filters[t] \subseteq FilterInputs /\ masks[t] \subseteq ColumnSet
  /\ policies \subseteq PolicyInputs /\ listed \subseteq policies
  /\ unread \subseteq SqlFunctions
  /\ step \in {"tables", "policies", "diffed"}
  /\ seen \subseteq Tables
  /\ rows \subseteq DiffRows
  /\ installed \subseteq [table : Tables, kind : {"row_filter", "column_mask"}, key : Key]

AbacInit ==
  /\ production \in BOOLEAN
  /\ filters \in [Tables -> {{}} \cup {{f} : f \in FilterInputs}]
  /\ masks \in [Tables -> MaskInputs]
  /\ tags \in [catalog : TagInputs, schema : [Schemas -> TagInputs],
               table : [Tables -> TagInputs], column : [Tables -> ColumnTagInputs]]
  /\ policies \in {ps \in SUBSET PolicyInputs : Cardinality(ps) <= 2}
  /\ unread \in SUBSET SqlFunctions
  /\ listed = {} /\ step = "tables" /\ seen = {} /\ rows = {} /\ installed = {}

-----------------------------------------------------------------------------
(* Translation: fine_grained_policy.py *)

\* The name goes wherever it stands as a word, in a literal too.
Replaced(test, name, column) ==
  {<<IF c[1] = name THEN column ELSE c[1], IF c[2] = name THEN column ELSE c[2]>> : c \in test}

\* _map_function_params: one parameter after the other is replaced by its column,
\* in a text that holds the columns put there before.
MapParams(test, params, cols) ==
  LET renamed[i \in 0..Len(params)] ==
        IF i = 0 THEN test ELSE Replaced(renamed[i - 1], params[i], cols[i])
  IN IF Len(params) # Len(cols) THEN test ELSE renamed[Len(params)]

\* The pattern of the wrapper ends its list of users at the first closing bracket.
Unwrappable(f) == f.wrapped => f.users \cap Bracketed = {}

\* Faulty: the group predicate is dropped in production too.
Translatable_AnyGroup(f) == f \notin unread /\ f.safe /\ Unwrappable(f)

\* Faulty: a wrapper is not removed, and refused because it calls a function.
Translatable_NotWrapped(f) ==
  f \notin unread /\ f.safe /\ ~f.wrapped /\ (f.grouped => ~production)

\* build_fabric_row_constraint: BOOLEAN, a known definition, nothing but comparisons
\* in it; and a question about groups only in test.
Translatable(f) ==
  f \notin unread /\ f.safe /\ Unwrappable(f) /\ (f.grouped => ~production)

\* What is left of the text is the predicate; a wrapper that asks for
\* current_user() is gone, whomever it was for.
FilterKey(f, cols, by) ==
  IF Translatable(f)
  THEN [pred |-> MapParams(f.test, f.params, cols), column |-> NoColumn, by |-> NoOne]
  ELSE [pred |-> {}, column |-> NoColumn, by |-> by]

\* build_fabric_column_constraint: the other columns are visible, and there has to
\* be one.
MaskKey(column, by) ==
  IF ColumnSet \ {column} # {}
  THEN [pred |-> {}, column |-> column, by |-> NoOne]
  ELSE [pred |-> {}, column |-> NoColumn, by |-> by]

IsTranslated(key) == key.by = NoOne

FilterRow(source, t, f, cols, by) ==
  [source |-> source, kind |-> "row_filter", scope |-> t, key |-> FilterKey(f, cols, by)]

MaskRow(source, t, column, by) ==
  [source |-> source, kind |-> "column_mask", scope |-> t, key |-> MaskKey(column, by)]

\* _row_identity.
SameRow(a, b) == a.kind = b.kind /\ a.scope = b.scope /\ a.key = b.key

\* _record_constraint_row: the first row of an identity stays.
Recorded(old, new) == old \cup {r \in new : \A e \in old : ~SameRow(e, r)}

-----------------------------------------------------------------------------
(* Tag conditions and policies: abac_resolver.py *)

\* A parsed condition: a set of alternatives, each a set of has_tag and
\* has_tag_value atoms; TRUE is {{}}.
Holds(condition, tagsOf) ==
  \E all \in condition : \A a \in all :
    /\ tagsOf[a.key] # NoTag
    /\ a.value \in {AnyValue, tagsOf[a.key]}

Least(S) == CHOOSE x \in S : \A y \in S : x <= y
Most(S) == CHOOSE x \in S : \A y \in S : y <= x

\* The tags on the way from the catalog to a table.
Chain(t) == <<tags.catalog, tags.schema[SchemaOf[t]], tags.table[t]>>
Levels(t, k) == {i \in 1..3 : Chain(t)[i][k] # NoTag}
Spelled(t, k, caps) == {i \in Levels(t, k) : Chain(t)[i][k].caps = caps}

\* Faulty: the parent overrides the child.
TableTags_ParentWins(t) ==
  [k \in Keys |-> IF Levels(t, k) = {} THEN NoTag
                  ELSE Chain(t)[Least(Levels(t, k))][k].value]

\* effective_table_tags, then _lower_keys.  The names are merged as they are
\* spelled, a later level overriding an earlier one; when they are put in lower
\* case the spelling that came in last wins.
TableTags(t) ==
  [k \in Keys |->
     IF Levels(t, k) = {} THEN NoTag
     ELSE LET last == CHOOSE caps \in BOOLEAN :
                        /\ Spelled(t, k, caps) # {}
                        /\ \/ Spelled(t, k, ~caps) = {}
                           \/ Least(Spelled(t, k, caps)) > Least(Spelled(t, k, ~caps))
          IN Chain(t)[Most(Spelled(t, k, last))][k].value]

\* Column tags do not inherit.
ColumnTags(t, c) == tags.column[t][c]

\* _candidate_tables: what is not a schema or a table is taken for the catalog.
CandidateTables(p) == {t \in Tables : p.on \in {Catalog, Elsewhere, SchemaOf[t], t}}

\* One of its conditions is outside the grammar: no target at all.
HasParseError(p) ==
  p.when = Unsupported \/ \E i \in DOMAIN p.match : p.match[i].condition = Unsupported

Bound(p, alias) == {i \in DOMAIN p.match : p.match[i].alias = alias}

\* The places in the table of the columns that match an alias; of several conditions
\* for one alias the last one counts.  A table whose metadata was not found has no
\* columns.
AliasMatches(p, t, alias) ==
  LET condition == p.match[Most(Bound(p, alias))].condition
  IN {i \in DOMAIN Columns : t \in seen /\ Holds(condition, ColumnTags(t, Columns[i]))}

Applies(p, t) ==
  /\ t \in CandidateTables(p)
  /\ Holds(p.when, TableTags(t))
  /\ \A i \in DOMAIN p.match : AliasMatches(p, t, p.match[i].alias) # {}

\* The columns of the alias in on_column; of the first alias if that is not bound.
MaskedAlias(p) == IF Bound(p, p.on_column) # {} THEN p.on_column ELSE p.match[1].alias

MaskedColumns(p, t) ==
  IF p.match = <<>> THEN {} ELSE {Columns[i] : i \in AliasMatches(p, t, MaskedAlias(p))}

\* The first column of each alias of the using clause; an alias that is not bound
\* is dropped.
UsedAliases(p) ==
  LET used[i \in 0..Len(p.using)] ==
        IF i = 0 THEN <<>>
        ELSE IF Bound(p, p.using[i]) # {} THEN Append(used[i - 1], p.using[i])
        ELSE used[i - 1]
  IN used[Len(p.using)]

UsingColumns(p, t) ==
  [n \in DOMAIN UsedAliases(p) |-> Columns[Least(AliasMatches(p, t, UsedAliases(p)[n]))]]

\* resolve_policy, and the row of each of its targets.
TargetRows(p) ==
  IF HasParseError(p) \/ p.kind = "other" THEN {}
  ELSE IF p.kind = "column_mask"
  THEN UNION {{MaskRow("resolved", t, c, p.id) : c \in MaskedColumns(p, t)}
                : t \in {u \in Tables : Applies(p, u)}}
  ELSE {FilterRow("resolved", t, p.fun, UsingColumns(p, t), p.id)
          : t \in {u \in Tables : Applies(p, u)}}

\* The row of a policy for review only, at the place the policy is attached to.
AbstractRow(p) ==
  [source |-> "abac", kind |-> p.kind, scope |-> p.on,
   key |-> [pred |-> {}, column |-> NoColumn, by |-> p.id]]

\* A policy that is attached elsewhere, or neither filters nor masks, has none.
Recordable(p) == p.kind # "other" /\ p.on # Elsewhere

\* _record_abac_policies.
AbstractRows(ps) == {AbstractRow(p) : p \in {q \in ps : Recordable(q)}}

-----------------------------------------------------------------------------
(* The diff *)

\* _record_uc_constraints.
TableRows(t) ==
  {FilterRow("databricks", t, f.fun, f.cols, t) : f \in filters[t]}
    \cup {MaskRow("databricks", t, c, t) : c \in masks[t]}

ReadTable(t) ==
  /\ step = "tables" /\ t \notin seen
  /\ seen' = seen \cup {t}
  /\ rows' = Recorded(rows, TableRows(t))
  /\ UNCHANGED <<inputVars, listed, step, installed>>

\* All the tables that are still there have been read, and the policies listed; a
\* listing that is answered 400, 404 or 501 ends with what it has got so far.
TablesRead ==
  /\ step = "tables"
  /\ listed' \in SUBSET policies
  /\ step' = "policies"
  /\ UNCHANGED <<inputVars, seen, rows, installed>>

\* Faulty: only policies that cannot be parsed are recorded as they are.
Unresolved_Unparsed == {p \in listed : HasParseError(p)}

\* The policies that no target carries the id of.
Unresolved == {p \in listed : TargetRows(p) = {}}

\* The tags are read, and the policies spread over the tables they match.
Materialize ==
  /\ step = "policies"
  /\ rows' = Recorded(Recorded(rows, UNION {TargetRows(p) : p \in listed}),
                      AbstractRows(Unresolved))
  /\ step' = "diffed"
  /\ UNCHANGED <<inputVars, listed, seen, installed>>

\* No warehouse, or one of the reads fails.
TagsUnavailable ==
  /\ step = "policies"
  /\ rows' = Recorded(rows, AbstractRows(listed))
  /\ step' = "diffed"
  /\ UNCHANGED <<inputVars, listed, seen, installed>>

-----------------------------------------------------------------------------
(* The apply, from Databricks to Fabric *)

\* A translation installs its role (OneLakeRoles says how); rows without one and
\* rows that are for review are skipped.
ApplyConstraint(r) ==
  /\ step = "diffed" /\ r \in rows
  /\ r.source # "abac" /\ IsTranslated(r.key)
  /\ installed' = installed \cup {[table |-> r.scope, kind |-> r.kind, key |-> r.key]}
  /\ UNCHANGED <<inputVars, listed, step, seen, rows>>

AbacNext ==
  \/ \E t \in Tables : ReadTable(t)
  \/ TablesRead \/ Materialize \/ TagsUnavailable
  \/ \E r \in rows : ApplyConstraint(r)

AbacSpec == AbacInit /\ [][AbacNext]_abacVars

-----------------------------------------------------------------------------
(* Safety *)

\* What a listing returned is not lost on the way, if it filters or masks and is
\* attached to the catalog, a schema or a table: the policy is in the diff for review,
\* or each of its targets is there as a row - whatever becomes of the tags and of the
\* functions.  (Any other policy is in the diff only if it has targets, and one that
\* no listing returned is not in it at all.)
PoliciesStayVisible ==
  step = "diffed" =>
    \A p \in listed : Recordable(p) =>
      \/ \E r \in rows : SameRow(r, AbstractRow(p))
      \/ /\ TargetRows(p) # {}
         /\ \A x \in TargetRows(p) : \E r \in rows : SameRow(r, x)

\* What Databricks would mask: the nearest tag of a name counts, whatever is
\* further up; each alias needs a column; the columns of on_column are masked.
NearestTag(t, k) ==
  IF Levels(t, k) = {} THEN NoTag ELSE Chain(t)[Most(Levels(t, k))][k].value

Masks(p, t, c) ==
  /\ p.kind = "column_mask" /\ ~HasParseError(p)
  /\ p.on \in {Catalog, SchemaOf[t], t}
  /\ Holds(p.when, [k \in Keys |-> NearestTag(t, k)])
  /\ \A i \in DOMAIN p.match : \E d \in ColumnSet :
       Holds(p.match[i].condition, ColumnTags(t, d))
  /\ \E i \in Bound(p, p.on_column) : Holds(p.match[i].condition, ColumnTags(t, c))

\* Attached to a place that Databricks knows; each alias once, and the one of on_column
\* among them.
WellFormed(p) ==
  /\ p.on # Elsewhere
  /\ \A i, j \in DOMAIN p.match : p.match[i].alias = p.match[j].alias => i = j
  /\ p.kind = "column_mask" => Bound(p, p.on_column) # {}

\* No tag name is spelled in two ways on the way to a table.
SpelledAlike ==
  \A t \in Tables, k \in Keys, caps \in BOOLEAN :
    Spelled(t, k, caps) = {} \/ Spelled(t, k, ~caps) = {}

\* A policy reaches exactly the columns it masks in Databricks: every mask that
\* the diff has from a policy is of one of them, and of a policy that was listed
\* and resolved none is missing - through inheritance of tags, several conditions,
\* and rows that were there before.
MaterializedAsWritten ==
  step = "diffed" /\ SpelledAlike /\ (\A p \in policies : WellFormed(p)) =>
    /\ \A r \in rows : r.source = "resolved" /\ r.key.column # NoColumn =>
         \E p \in policies : Masks(p, r.scope, r.key.column)
    /\ \A p \in listed, t \in seen, c \in ColumnSet :
         Masks(p, t, c) /\ AbstractRow(p) \notin rows =>
           \E r \in rows : SameRow(r, MaskRow("resolved", t, c, p.id))

\* The functions that filter a table, with their columns: its own and those of the
\* policies.
FiltersOf(t) ==
  filters[t] \cup {[fun |-> p.fun, cols |-> UsingColumns(p, t)]
                     : p \in {q \in policies : /\ q.kind = "row_filter" /\ ~HasParseError(q)
                                               /\ Applies(q, t)}}

\* Does user u see row x of a table under function f of Databricks ...
SeesInDatabricks(u, x, f, cols) ==
  \/ f.wrapped /\ u \notin f.users
  \/ /\ f.grouped => u \in Staff
     /\ \A c \in f.test, i \in DOMAIN f.params : f.params[i] = c[1] => x[cols[i]] = c[2]

\* ... and under a predicate of Fabric, where an unknown column is an error.
SeesInFabric(x, pred) == \A c \in pred : c[1] \in ColumnSet /\ x[c[1]] = c[2]

\* A function maps cleanly to its columns: there is one for each parameter, no parameter
\* is called like a column that was put in the text before its turn, and no literal is
\* worded like a parameter that is replaced.
MapsCleanly(f, cols) ==
  /\ Len(cols) = Len(f.params)
  /\ \A i, j \in DOMAIN f.params :
       i < j /\ cols[i] = f.params[j] => cols[i] = f.params[i] \/ cols[j] = f.params[j]
  /\ \A c \in f.test, i \in DOMAIN f.params : c[2] = f.params[i] => cols[i] = f.params[i]

\* A predicate of Fabric shows nobody a row that the function hides from them.
NoBroader(pred, f, cols) ==
  \A u \in Readers, x \in [ColumnSet -> Texts] :
    SeesInFabric(x, pred) => SeesInDatabricks(u, x, f, cols)

\* In production a filter shows nobody a row in Fabric that the function it comes
\* from hides from them in Databricks, if the function maps cleanly.
TranslationNeverBroadens ==
  production =>
    \A r \in {d \in installed : d.kind = "row_filter"} :
      \E f \in FiltersOf(r.table) :
        MapsCleanly(f.fun, f.cols) => NoBroader(r.key.pred, f.fun, f.cols)

\* A function as UCConstraints has the hub make it: the parameters are the columns
\* that the predicate names, the members are in the wrapper.
MadeByHub(f) ==
  /\ f.fun.safe /\ ~f.fun.grouped
  /\ f.cols = f.fun.params
  /\ \A c \in f.fun.test : c[1] \in ColumnSet

\* A filter that came from Fabric is recognised when it is read back, if its function
\* can be fetched and no member of its wrapper ends the list of users: the row has the
\* predicate that Fabric has, so it is in sync and is not applied again.  Otherwise
\* it is in the diff as a filter of the table without a translation, and is skipped.
HubFiltersComeHome ==
  \A t \in seen : \A f \in {g \in filters[t] : MadeByHub(g)} :
    \E r \in rows :
      /\ r.kind = "row_filter" /\ r.scope = t
      /\ IF f.fun \in unread \/ ~Unwrappable(f.fun)
         THEN r.key.by = t
         ELSE IsTranslated(r.key) /\ r.key.pred = f.fun.test

-----------------------------------------------------------------------------
(* A claim of the repository's own words that the code does not keep *)

\* docs/permission-model.md:54: "Unsupported rows are skipped safely instead of being
\* broadened"; line 64 says so of policies, "skipped safely with a translation_error
\* rather than broadened".  In production, what was installed hides at least what a
\* filter of its table hides that has a column for each parameter.
TranslatedOrSkipped ==
  production =>
    \A r \in {d \in installed : d.kind = "row_filter"} :
      \E f \in FiltersOf(r.table) :
        Len(f.cols) = Len(f.fun.params) => NoBroader(r.key.pred, f.fun, f.cols)
=============================================================================
