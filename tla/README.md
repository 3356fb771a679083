# A TLA+ verification of the Fabric Unified Permission Hub

The hub keeps the permissions of Microsoft Fabric and of data platforms beside it
(Databricks Unity Catalog above all) in step. It has two engines: the web application
under `app/`, where people look at the difference between the two sides of a *pairing* and
apply selected rows of it, and the command-line engine under `permission-sync/`, which
reconciles whole platforms on a schedule. This directory models both in TLA+, checks the
models with TLC and proves their main properties with TLAPS. `PROJECT.json` lists the
runs, the source lines behind every definition, the mutants that each property catches,
the hazards, the findings and the theorems.

## Contents

1. Inventory of the system
2. The modules and how they correspond to the code
3. The runs: bounds, what they show, findings
4. Fairness
5. The proofs
6. What is not modelled
7. Plan

## 1. Inventory of the system

### Web application (`src/app`)

| Part | State | Operations | Talks to |
|---|---|---|---|
| Approval workflow (`services/approvals.py`, `routers/operations.py`) | table `approvals` | create, decide, mark executed | apply handler |
| Apply handler (`routers/pairings.py`, `apply_view`) | locals of one request | gate, diff, start record, rows, close approval, outcome record, invalidate | all of the below |
| Audit trail (`services/audit_log.py`) | a JSONL file, mirrored in table `audit_events` | start record, outcome record | rollback plan, history pages |
| Live diff (`services/pair_diff.py`) | none; result cached | collect both sides, match rows | Fabric, Databricks, cache |
| Diff cache (`services/cache.py`) | dictionary in memory, five minutes | get, set, invalidate by prefix | diff pages, apply |
| Apply engine (`services/pair_apply.py`) | none | per row: resolve the principal, choose the layer, call the platform | Fabric, Databricks, Graph, identity queue |
| OneLake roles (part of the apply engine) | list of data access roles of an item, held by Fabric | GET list, change, PUT list | administrators do the same |
| Rollback plan (`services/rollback_service.py`) | none | reverse the ok actions of an audit event | mirror of the trail |
| Drift (`services/drift_service.py`), scheduler (`services/scheduler.py`) | table `diff_snapshots`; one thread | record a snapshot, compare with the last; scan all pairings | live diff |
| Sync jobs (`services/sync_service.py`) | registry in memory, table `sync_jobs` | run, list, get | an external weaver package |
| Identity queue (`services/identity_queue.py`) | table `identity_queue`; per-process lookup caches | enqueue, resolve, ignore | apply engine |
| Pairings, database (`services/pairings.py`, `services/db.py`) | table `pairings` | add, delete, legacy import at start-up | everything |
| Databricks client (`services/databricks_rest.py`) | SQL statements running in a warehouse | GET, PATCH, POST with retries, execute SQL with a timeout | apply engine, diff |
| ABAC resolver, fine-grained policies | none | tag conditions, policy targets, translation of filters and masks | diff, apply |
| Azure credentials (`services/azure_identity.py`) | credential and token caches | get credential, get token | both platforms |

### permission-sync (`src/permission-sync`)

| Part | State | Operations | Talks to |
|---|---|---|---|
| Engine (`orchestrator/sync_engine.py`) | locals of one run | discover both sides, diff, apply, audit | all of the below |
| Discovery (`discovery/`) | none | list grants of Unity Catalog or Snowflake, roles of Fabric | the platforms, Graph |
| Diff and conflicts (`reconciler/`) | none | compare by key, resolve conflicts | engine |
| Planner and writers (`writers/`, `policy_weaver/`) | none | choose a layer, grant, revoke | the platforms |
| Audit file (`observability/audit_logger.py`) | one file per run | emit | engine |

### Scripts (`src/scripts`)

`backup_permissions.py` and `permission_reset.py` save, remove and restore the permissions of
a pairing; the rest are demonstrations and probes.

### What is hard here, and what correctness means

*Concurrency.* Handlers are synchronous functions in a thread pool. Two applies, a diff
page, an approver, an administrator in a portal and a restart interleave at every database
statement and every call to a platform. There is no transaction across two statements and
no ETag on the list of OneLake roles. Correct means: no write without a consent that
covers it, no write without a durable record, no write that an error-free diff of the same request did not
call for, and nobody gets access that nobody gave.

*Failure.* Every external call can fail, can raise, or can take effect although its caller
saw a failure (a lost answer, a SQL statement that outlives its timeout). Correct means:
the trail never claims more than what happened, an approval is closed only when it has
been carried through, and nothing is removed before both sides have answered. Several reads
degrade silently by design (a refused source, tags or functions that cannot be fetched,
listings that break off); what can still be relied on after them is part of the properties.

*Ordering.* A cached diff, a snapshot of a role list, a discovery are used long after they
were read. Correct means: what is stale may lose updates (the code accepts that) but may
not invent access, drive writes, or end up as the state shown after an apply.

*Text and tags.* Filters and masks travel as SQL text whose meaning depends on where it ends
up: a function in a slot of a table applies to everybody, a parameter is replaced by a column
inside the same text. Correct means: translated rules hide at least what they hid before, and
what the hub cannot translate stays visible as a row for review.

The hazards in `PROJECT.json` list each such place with its line and the properties that
watch it, or the reason why there is none. Three have none: a source that refuses and reads
as empty, legacy pairings that revive, and namesakes, who are one person in every module. The
code does what it does there, and no text of the repository claims otherwise. Some
properties cover only a part of their hazard; the notes say which.

## 2. The modules and how they correspond to the code

| Module | Models | EXTENDS / INSTANCE |
|---|---|---|
| `Approvals` | the promise of the approval workflow, no handlers in sight; how far a consent reaches is a parameter | |
| `ApplyFlow` | `apply_view` with gate, diff, cache, trail, rows; `tab_diff`; restarts | instantiates `Approvals` as the refinement target |
| `PairDiff` | the live diff as operators: access classes, rows of either side, buckets | |
| `ApplyRows` | `apply_rows` call by call, in both directions, with its diff, the identity queue and administrators | extends `PairDiff` |
| `OneLakeRoles` | the writers of data access roles against one item, and administrators | |
| `Reconcile` | one or more runs of the permission-sync engine, and administrators | |
| `UCConstraints` | constraints from Fabric to Unity Catalog: rows that send SQL to a warehouse, and administrators | |
| `AbacPolicies` | filters, masks and tag-driven policies from Unity Catalog to Fabric: one diff and one apply | |
| `Monitor` | drift detection by pages and the scan thread, the table of pairings, the memories of the process | |
| `SyncJobs` | `SyncService.run` for concurrent jobs, with its table and its logger | |
| `PermissionReset` | backup, cleanup and restore of a pairing, and administrators | |
| `MCApplyFlow`, `MCApplyRows` | instances for TLC | each its module |
| `MCConstraints` | instances of three modules | `UCConstraints`, `AbacPolicies`, `OneLakeRoles` |
| `MCServices` | instances of four modules | `Monitor`, `SyncJobs`, `PermissionReset`, `Reconcile` |
| `ApplyFlowProofs`, `ApplyRowsProofs`, `OneLakeRolesProofs`, `ReconcileProofs`, `MonitorProofs`, `PermissionResetProofs` | theorems and proofs | each its module and TLAPS |
| `ConstraintsProofs` | theorems and proofs | `MCConstraints`, TLAPS |
| `ServicesProofs` | theorems and proofs: `SyncJobs`, and the three services together | `MCServices`, `MonitorProofs`, `PermissionResetProofs`, TLAPS |

`MCConstraints` and `MCServices` are sums, not products: the modules in them share no variable,
and a behaviour is one of one of them while the others rest.

Definitions named `X_Something` and commented "Faulty" are not part of a specification: they
are the plausible bugs that each property is tried on.

**ApplyFlow.** A request is a record of the handler's locals with a program counter. Each
action is one statement that touches something shared:

| Action | Code |
|---|---|
| `Arrive`, `PassGate`, `ParkRequest` | lines 553-588 of `routers/pairings.py`, `approvals.get`, `create_request` |
| `Collect`, `StoreDiff`, `CollectRaises` | `compute_diff`: the collectors, then the cache write; its exception, with the dry-run fallback on a cached diff |
| `RecordStart(Fails)`, `RecordOutcome(Fails)` | `record_permission_apply_start`, `record_permission_apply`; `WriteRecord` is the append and the best-effort mirror |
| `GrantRow`, `PreviewRow`, `SkipRow`, `FailRow`, `RaiseInRow` | the ways a row can end in `apply_rows` |
| `MarkExecuted`, `Respond` | lines 655-659 and 675-680 |
| `View...` | `tab_diff` |
| `Decide`, `CacheExpires`, `External...`, `Restart` | approvers, time, administrators, the server |

`missing[p][d]` is the pair of one-sided buckets of the live diff, as the platforms would
report it at this moment: a grant removes a row, a revocation adds it. A row that fails or
raises may still have taken effect. `wrote` and `changed` are ghosts: what a request has
sent, and what of it was its own doing.

`Approvals` asks that a change be made only under a consent that covers it, and leaves open
what covers what (`Covers`). The refinement instantiates it with what the gate looks at:
`SamePairing`, any change of the pairing. That this is less than what the repository
promises, the change set itself, is the finding of the run `consent`.

**PairDiff and ApplyRows.** `ApplyFlow` knows a row as something that is granted, skipped or
failed; `ApplyRows` opens it. Unity Catalog knows people by UPN and groups by name, Fabric
knows both by object id and shows a display name; `Row.by` keeps which of them a row shows,
because that is what `apply_rows` resolves (`ToEntra`, `ToUC`). `uc`, `role` and `dar` are the
grants of the catalog, the workspace roles and the memberships in data access roles.

| Action | Code |
|---|---|
| `CollectDbx`, `CollectFabric`, `CollectFails`, `Compare` | the two collectors of `compute_diff`, in either order, then the buckets; `known` are the users for whom Graph answers |
| `LookupFails`, `SkipRow`, `NoMapping`, `Preview`, `SkipUnknown` | the rows of `apply_rows` that call no platform, with what they leave in the identity queue |
| `Begin`, `Accepted`, `Refused`, `Raises` | a row that is resolved, and its calls one by one: one for Fabric, one for each securable on the way for Unity Catalog |
| `Settle` | `identity_queue.resolve` and `ignore` |
| `Give...`, `Withdraw` | administrators on the two platforms |

A call that is refused, or not answered, may have taken effect. `given` is the ghost that
the main property compares with: every right that an administrator ever gave, under the
name of its holder. Names are all that the platforms have in common, so a namesake counts
as the same person; the code does not tell them apart either (`_resolve_entra` takes the
first match). A role that is taken away and given again in the middle of an apply, a diff
that is out of date and an apply that dies between two calls all need no action of their
own: they are interleavings of the ones above.

**OneLakeRoles.** A thread keeps the whole list it read (`job[w].list`) until its PUT, so lost
updates are in the model. `HubRole` and `RuleRole` stand for the two naming schemes (both
hashes are injective on what they encode); `Matches` is `_dar_role_matches`; `RuleMembers` is
`_members_for_fine_grained_policy`, with its fallback on the identity of the hub. A role
carries one decision rule, and the two kinds of members in the API are one set.

**Reconcile.** Discovery reads one workspace after the other while the source is read in
another thread; a list that cannot be read is empty, an exception ends the run. The source
reports permissions on catalogs, schemas, tables and databases, Fabric on workspaces and
lakehouses: the equality key contains that type, so in the code nothing is ever
"unchanged", conflicts cannot occur, and every listed Fabric permission ends up among the
revokes. A source that refuses - a 401, an account that cannot be listed, a failing Snowflake
account - returns like any other, with less or nothing (`SourceRefuses`), and the run cannot
tell; a discovery that raises ends it. Grants change nothing: towards Fabric they are posted to the workspace id of the
*source* permission, towards a source `apply_diff` is called without its `ctx`. The model
says just that; the interest is in the revokes.

**UCConstraints.** A role of Fabric with a row filter or a hidden column becomes a function in
Unity Catalog that restricts the members it names, attached to the one slot of the table or
column. `PlanRow` is a row of the diff: rows are told apart by the constraint, so of several
roles with the same one any may be the row. `Compose` reads the columns, looks up the members in
Graph and has the warehouse started; `ComposeFails` when one of these fails. A row then has
two SQL statements, to create the function and to attach it; each is POSTed up to four times
(`Tries`; `PostAnswered`, `PostUnanswered`, `PostRefused`), polled (`PollSucceeded`), and given up after its
timeout (`GiveUp`), while the statement may have been accepted (`stmts`) and is executed
whenever the warehouse gets to it (`ExecuteCreate`, `ExecuteAttach`, `ExecuteFails`). Administrators change both sides
meanwhile (`ChangeFabric`, `ChangeUC`), and `Abort` is a missing token, which nobody catches, or the end of the server. `asked` and `attached` are ghosts: the
constraint roles there ever were, and the constraints whose own statement attached them.

**AbacPolicies.** The catalog is an input: filters, masks, tags on three levels, and policies.
`ReadTable` and `Materialize` collect the rows as `collect_dbx_rows` does, `TagsUnavailable` is the
path without a warehouse, `ApplyConstraint` installs what was translated. Reads fail as in
the code: functions that cannot be fetched (`unread`), listings of policies that end early
(`listed` is what came back), tables whose metadata is not found. A policy of another kind, or
attached where the diff does not look, gets no row for review (`Recordable`). Parameters are
replaced by columns wherever they stand as a word (`Replaced`), in literals too. The operators
between them are the resolver (`TableTags`, `Holds`, `AliasMatches`, `MaskedColumns`, `TargetRows`) and the
translation (`MapParams`, `Translatable`, `FilterKey`, `MaskKey`). SQL text is reduced to what they look
at: a function is a conjunction of comparisons of its parameters, perhaps in the wrapper
that restricts named users, perhaps after a group test. The properties compare with a
reference reading: `Masks` and `SeesInDatabricks` say what Databricks does, without asking how the
code gets there.

**Monitor.** Pages (`Viewers`) and the scan thread (`Scanner`) are recorders with the same steps. A
collection reads right after right, each at its own moment (`ReadRight`): under the name of its
principal, or lost or disfigured without an error, as when a listing is answered 404, or the
tags or a function cannot be read. Then names are resolved: what the process remembers is
taken (`AskGraph`), for the rest Graph answers one by one (`GraphAnswers`), and since the lookup
cache holds no lock over the call, two recorders may get two answers, of which the first is
remembered. `CollectFails` is a collection that ends in "errors", `CollectRaises` one that raises.
`StoreInCache`, `ReadLast`, `InsertSnapshot` and their failures follow. A diff carries
ghosts: the rights that were there when they were read (`held`), whether Graph's answers are the
remembered ones (`sure`), after how many changes and in which run of the process it was begun;
`apart[p]` says that no two recorders were at `p` at the same time. The list of pairings is what the scan
goes through; adding and deleting, the legacy import and a restart are actions. The cap of 512
on the lookup cache is not modelled: within it, an answer stays.

**SyncJobs.** One variable, `at`, for the next statement of `SyncService.run`: registered, saved, at
work, detached, saved again. `memory` is the registry, `table` the rows of `sync_jobs`, `buffer` and
`handlers` the shared logger. A save may raise, before or after the work; the process may end
anywhere. `unsaved`, `cut` and `met` are ghosts that say which of that happened to whom.

**PermissionReset.** One script at a time, begun with its options, goes through items and
securables in any order, reads one (`Capture`, `ReadForCleanup`) and then writes it, and may end
between any two calls. `file` is the backup that the operator keeps. Each backup carries a
ghost, `changed`: what administrators have changed of an entry since it was read. `given` is what
they made of the protected principals. Other than an administrator, a script works on
what it has just read (`hand`), which may be out of date. What a PATCH still does after its
script was killed is part of the step before.

## 3. The runs

| Run | Instance | Properties |
|---|---|---|
| `gate` | two real requests, one earlier approval, two pairings, one row | `TypeOK`, `ExecutedWasCarriedThrough`, `ImplementsWorkflow` |
| `serve` | one request, dry or real, two rows, one of which administrators also change, one viewer, no gate; fairness | `WritesAreAudited`, `WritesAreVerified`, `OutcomeAccountsForWrites`, `MirrorNeverAhead`, `RequestsAreAnswered` |
| `access` | one apply after the other, one person, one group with a name of its own, a schema with one table, one right given and one withdrawn | `TypeOK`, `AccessFollowsGrants`, `GrantsAreReachable`, `OkRowsArrive`, `DecisionsStick` |
| `constraints` | either two rows, two constraints for one slot, two users, at most one constraint role at the start, two tries, one change; or two tables in a schema, two columns, eight filters, ten policies, tags on three levels; or two threads that write roles, two tables, one person, one rule, one administrators' role, one edit | `TypeOK`, `FunctionsFollowRoles`, `InForceWasAttached`, `OkRowsHoldIfAlone`; `PoliciesStayVisible`, `MaterializedAsWritten`, `TranslationNeverBroadens`, `HubFiltersComeHome`; `RolesTypeOK`, `AccessIsGiven`, `NeverWithdraws` |
| `services` | either one page, the scan and one pairing with one right, one change or one restart; or two jobs and two ends of the process; or one item with two roles, one securable, one principal of each kind, one edit; or one run of the engine, two workspaces whose lakehouses share a name, one principal | `TypeOK`, `DriftIsReal`, `DriftsChain`, `ScansGoOn`; `StatusIsTrue`, `LogsStayWithin`; `ProtectedStay`, `RestoreBringsBack`, `RestoreLosesOnlyNewer`; `ReconcileTypeOK`, `RemovesOnlyListed`, `BothDiscoveriesReturned`, `TrailFollowsCalls` |

The three largest have 0.8 (`gate`), 1.4 (`constraints`) and 2.0 (`services`) million distinct states.

Why the bounds are enough. *gate*: an approval can be misused by a request of another
pairing or by a second request of the same pairing; two requests, two
pairings and an approval from before make both possible, and both requests can
park approvals that the other one presents. *serve*: a partial outcome needs one row that
succeeds and one that fails; everything the properties say is about one request, and to it
a second apply is a thread that changes rows and the cache, as the viewer and
administrators do. The proofs have no bound on the requests. *access*: one right given is
enough for any number of applies to copy it back and forth, and what they could add to it is
what the property is about; the right may be MODIFY or USE_CATALOG in the catalog, any role,
any membership, and the withdrawal makes a diff stale. The person has the name of an
internal group, so that skipping is tried too. Several applies at the same time are left to
the proofs, which have no bound on `Jobs`: the platforms and the queue are all that
two applies share. *constraints*: two rows for
one slot are what it takes for a late statement of one to meet the other; two tries are one
retry, and the mutant that miscounts them is caught. For policies, what varies is either the
tags of one table and of all above it, under any two policies, or the filters of two tables:
tags and filters never meet in the code. The filters have a parameter that is called
like a column, the wrapper of the hub, the group test, both columns crossed, and a literal worded
like a parameter; the policies include one that is attached elsewhere and one of another kind. Of
roles, a stale PUT needs two threads (or a thread and an administrator), a wrong copy of
members needs a second table and a role with both tables in its paths.
*services*: two recorders are enough to break a chain, and the third step of the argument -
an old diff in the cache - needs only one pairing; with two pairings the run would have over
seven million states and no new interleaving, as pairings meet only in the list of the scan,
about which `ScansGoOn` speaks pairing by pairing. A drift needs one change, or one of the things
that look like one; a change and a restart together (`FewEvents`) would add a product and no
case, as `DriftIsReal` compares two diffs. Two jobs meet at the logger; one edit between backup and
restore is what a restore must not lose or miss, and that a script takes from the edit what it
needs is for the proofs, which have no bound. A key collision of the engine needs two
workspaces; a second run would change Fabric in no way that an administrator cannot, and
properties are per run. Deadlock is
checked in `access` and `roundtrip`, where another apply can always arrive, and not in the
other runs, whose requests, threads and engine runs all end. Symmetry is taken over
requests, pairings, rows, threads and people, which no definition orders or names; not in
`serve` and `services`, which check liveness, nor in `access`, which has one of each.

Seven further runs show where the code differs from what the repository says of it:

| Run | Violated | What happens |
|---|---|---|
| `consent` | `ApprovedWrites` | the gate asks for the pairing of an approval only, so other rows and the other direction go through on the strength of it (`approvals.py:3-5`) |
| `stale` | `NextViewIsFresh` | a page that collected before an apply caches its diff after the apply has emptied the cache, and the next view shows it (`routers/pairings.py:678-679`) |
| `rollback` | `PlanUndoesOwnChanges` | "already granted" counts as ok, so the plan revokes what somebody else granted (`rollback_service.py:3-4`) |
| `roundtrip` | `RoundTripsDoNotWiden` | MODIFY becomes Contributor, a Contributor is read back as reader too, and comes home with SELECT (`tests/test_roundtrip_safety.py:3-5`) |
| `broadened` | `OkRowsAreNotBroadened` | a member that is a group is compared with `current_user()`, so its members are not restricted at all, and the row counts as granted (`docs/permission-model.md:54`) |
| `translated` | `TranslatedOrSkipped` | `re.sub` replaces words in literals, and columns that are called like a later parameter; the predicate that comes out is installed and shows rows that the filter hides (`docs/permission-model.md:54`, `64`) |
| `dryrun` | `DryRunsTouchNothing` | a dry run of permission-sync deletes workspace roles (`permission-sync/README.md:24`) |

A violated run says that the code can break a claim; for six of them a theorem says where it
ends. `WritesHaveConsent`: somebody has consented to some change set of the pairing.
`OwnDiffIsDropped`: the stale diff is another thread's, never the apply's own.
`PlansKeepToSentRows`: a rollback plan takes back rows that its apply has sent and
no others. `OnlyWritingWidens`: rights widen on a round trip only in catalogs where privileges
of the class DATA_WRITE are given. `OnlyGroupsBroaden`: without groups among the members
of a role, rows are not broadened. `FiltersDoNotBroaden`: a function that maps cleanly loses nothing.

The conditions in properties are there because the code needs them, and say what it does
not promise.

- `TranslationNeverBroadens` is about functions that map cleanly (`MapsCleanly`): one column for
  each parameter, none called like a column put in before its turn, no literal worded like a
  parameter. A using clause with an alias that matches nothing has too few columns, and its
  function is passed on as it is.
- `PoliciesStayVisible` is about policies that a listing has returned and that the diff can place: row
  filters and column masks on the catalog, a schema or a table. Others are dropped
  (`pair_diff.py:517`, `529`), and a listing answered with 400, 404 or 501 ends early
  (`databricks_rest.py:166-170`).
- `HubFiltersComeHome` promises the predicate if the function can be fetched and no member in the
  wrapper has a closing bracket, at which its pattern ends; otherwise only that the filter is
  listed without a translation and left alone.
- `OkRowsHoldIfAlone` excepts a slot that another row or an administrator is concerned with: the last
  statement wins, also one that was given up.
- `DriftIsReal` promises that what changed is reported if the reading that shows it is whole, and that
  nothing else is reported between two whole readings of one run of the process whose names had
  one answer of Graph each. A reading that lost or disfigured a right without an error makes
  drift that nobody caused; the code records it like any other.
- `AccessIsGiven` and `NeverWithdraws` assume that administrators do not widen the hub's roles
  (`EditsKeepScope`). A widened role still matches its path, and a grant is merged into it,
  although `pair_apply.py:451` says never into "a role with a different scope".
- `BothDiscoveriesReturned` says that no role is lost before both sides have answered. An answer may
  be short: a source that refuses reads as empty, and what is listed in Fabric is revoked.
- `ExecutedWasCarriedThrough` is one direction only: an approval may stay open, and be used again,
  although a part of it was applied.

`AccessFollowsGrants` and `RoundTripsDoNotWiden` look alike and are not. The first one takes the
access classes for a ladder, as `ACCESS_SUBSUMES` does: who may write may read. By that measure
the hub widens nothing, and the faulty `RoleFor_Viewer`, the bug that a comment in
`pair_apply.py:36-42` reports as fixed, is caught. The second one asks for the privileges
of Unity Catalog, where MODIFY does not include SELECT.

## 4. Fairness

`FairSpec` of `ApplyFlow` has weak fairness of `RequestStep(q)` for each request: the thread pool
keeps running a request that it has admitted, and every call in the handler has a timeout.
Nothing is assumed of viewers, approvers, administrators, of the cache, nor of which of
several outcomes a step has: a start record may fail every time. `RequestsAreAnswered`
starts at the gate, since nobody has to submit a form, and a restart excuses. `MonitorFairness`
is weak fairness of `ScanStep`: the scan thread is a daemon that loops until the process ends, with
every error of a pairing or of the database caught inside the loop
(`services/scheduler.py:47-57`). It is stated of the thread as a whole, not of its steps, and
nothing is assumed of Graph, of the platforms or of pages; `ScansGoOn` says that every pairing that
stays is reached infinitely often. No other
module has liveness: OneLake threads, sync jobs, scripts and engine runs are straight-line
code whose calls all have timeouts.

## 5. The proofs

All theorems hold for every value of the constants that the named assumptions allow
(`ApplyFlowAssumption`, `NoDiffAssumption`, `PairDiffAssumption`, `ApplyRowsAssumption`,
`OneLakeRolesAssumption`, `ReconcileAssumption`, `UCConstraintsAssumption`, `AbacAssumption`,
`AbacInputsAssumption`, `IdleAssumption`, `MonitorAssumption`, `SyncAssumption`, `ResetAssumption`,
`NoFileIsNone`: types of parameters and distinctness of markers). Four say more than that.
In `Reconcile` no source reports securables of type workspace or lakehouse. In `ApplyFlow` a
thread serves an apply or a diff page and not both, which is how `by` tells whose diff is
cached, and the answer for a pairing without a cached diff is none of its diffs. In
`AbacPolicies` a function names each of its parameters once, as SQL demands, and what is not
translated has a key of its own: a signature of its table or of its policy, and of which of
the two it is (`_constraint_signature`, `pair_diff.py:398`, `457`, `559`, `656`, `681`).

**ApplyFlowProofs.** Every invariant that the runs check, and the refinement. `TypeCorrect`,
`WritesHaveConsent`, `WritesAreOnRecord` and `PipelineImplementsWorkflow` come from `Invariance`.
That writes have consent is not inductive: the
look at the approvals table happens long before the write. The invariant `IInv` adds what
is true at each program counter: past the gate the presented approval exists, belongs to
the pairing and has been consented to (statuses only move forward, and
"pending" is the only one that a decision changes); at the rows there is a start record
and an error-free diff in hand; before them nothing has been written. The refinement maps
`status` and `asked` to the approvals table and `enacted` to what has been written under each
approval, request by request and row by row; a row that is sent is an `Enact` step or a stutter, closing an approval is
`CloseRequest`, everything else but parking and deciding is a stutter. `RejectionsAreFinal` is what
the refinement is good for: it is shown of the abstract workflow and holds of the handlers.

`WritesComeFromOwnDiff`, `OutcomeIsHonest` and `MirrorFollowsFile` come from
`BehindInvariance`. The three properties speak of what a request has done; `Behind` says the
same of a request on its way. The diff that a real apply holds is its own and without errors, and
what it has written and what it has still to do both come from it (`Verified`); while rows
are applied the trail has the start record and nothing else, and each row that was
written has been reported as ok or as failed (`Applied`); without the second part "completed"
could be said of a row that was lost. `ClosedApprovalsAreDone` is about an event of the past:
`mark_executed` is the only step that closes an approval (`ClosedByMarkExecuted`), it comes with
no rows left, and from then on none are added (`TodoShrinks`) and the trail only
grows. `OwnDiffIsDropped` needs to know who can put a diff in the cache after a request has
dropped it: nobody but the thread that collected it (`CacheStep`, `ViewersOwnDiff`), and the
request itself is past that point.

`PlansKeepToSentRows` reads the durable trail backwards: an outcome record is written from
what the handler reported, and what is reported as ok has been sent (`OkWasSent`). It is what
remains true of the claim that the run `rollback` refutes.

**ApplyRowsProofs.** `RowsTypeCorrect`, `AccessIsNotWidened`, `GrantsReachable`, and the action
properties `OkMeansArrived` and `OperatorsDecideOnce`: all that the run `access` checks, for any
number of applies at the same time. A right is on its way for long - collected, in the
bucket, at hand, half granted - and the platform it came from may have lost it meanwhile; the
inductive invariant says at each of these stations that an administrator gave it to
somebody of that name (`Collected`, `Calling`), and that the calls before the one at hand
were accepted (`WayIsOpen`). Six lemmas state what the translations of the code do, for every
access class and securable: `PrivilegesKeepRank`, `TraversalIsNoAccess`, `RolesRoundTrip`,
`PathsLead`, `EntraKeepsName`, `UCKeepsName`.
`OnlyWritingWidens` follows from the same invariant: behind a SELECT in the catalog there is a
right of at least that rank, and the only one that would not do is a DATA_WRITE that was
given in the catalog itself.

**OneLakeRolesProofs.** `RolesTypeCorrect`, and two theorems under `EditsKeepScope`
(administrators do not widen the roles that the hub made): `NoAccessInvented` and
`FreshWritersNeverWithdraw`. `AccessIsGiven` speaks of the list on the
item, but what is PUT is what a thread read before; `ListsInHand` extends it to those lists, and adds
that a role of the hub that matches its table has no other path, without which a merge
would give its new member more than the row says. The condition is needed: a role that was
widened still matches, and is merged into.

**ReconcileProofs.** `ReconcileTypeCorrect`, `OnlyListedAreRemoved`, `RemovalNeedsBothDiscoveries` and
`TrailNamesSentCalls`. The links between what was listed, planned, sent and removed
(`Complete`, `Planned`) are the inductive part, and hold for any number of overlapping runs.

**ConstraintsProofs, from Fabric to Unity Catalog.** `FiltersTypeCorrect`,
`FunctionsKeepToRoles`, `SlotsEnforceAttached`, for any
number of rows, tries and statements. A function may be created long after its row was given up,
so the inductive invariant is about everything that may still be executed: each row at work
and each statement in the warehouse is backed by a role that Fabric had (`RowsAreBacked`,
`StatementsAreBacked`). With it the functions are backed as well (`FunctionsAreBacked`), and what is in
a slot was attached (`SlotsWereAttached`); that a row which sends has a try left (`TriesAreLeft`) is needed
for the types of its statements. `OkRowsHold` needs the history of a slot, which is in the row
that nobody interferes with: `Knows` says what such a row may take for granted at each of its
steps (told that the first statement succeeded, its function is there; told that the second
did, the slot has it). A statement of its own that is executed late, after a retry, writes
the same body once more; a statement of another row is for another slot, or that row is
still idle and has sent nothing (`StatementsWereSent`). `RowsOfUsersHold` and `OnlyGroupsBroaden`
draw the conclusion for people: what is in force names each user among the members.

**ConstraintsProofs, from Unity Catalog to Fabric.** `PoliciesAreNotLost`,
`PoliciesReachTheirColumns`, `FiltersDoNotBroaden`, `HubFiltersAreRecognised`: the four properties of
`AbacPolicies`, for any catalog, tags, functions and policies, and for any functions and
listings that cannot be read. `AInv` (`AbacInvariance`) links the rows of the diff to the
catalog in both directions: each row comes from a table that was read, a target or a policy under
review, and each of these has a row that stands for it (`RecordedLists`: what the diff leaves out
has the same identity as something it keeps). `PoliciesReachTheirColumns` then rests on
`NearestTagCounts` - with one spelling of each name, merging the levels and overriding is
inheritance - and on `MasksAreTargets`. `FiltersDoNotBroaden` and `HubFiltersAreRecognised` rest on
what `_map_function_params` computes, parameter after parameter in one text: `ComparisonsAreMapped`
(each comparison of a parameter ends as one of its column, its literal untouched, if the
function maps cleanly) and
`OwnNamesStay` (columns called like the parameters change nothing). Both are inductions on the number
of parameters (`RenamingExists`, `Induction`). `AbacTypeCorrect` needs no state of its own - rows
have origins, and origins are typed (`OriginsTyped`) - but it needs to know that the columns of
a using clause, collected alias by alias, are columns (`UsedAliasesAreBound`, `UsingColumnsTyped`).
`ConstraintsTypeCorrect` puts the two directions together as the run has them: of the one that
rests nothing moves.

**MonitorProofs.** `MonitorTypeCorrect`, `DriftsAreReal`, `DriftsAreChained`. `Sound` says of every diff -
in the cache, in a snapshot, at hand - that what it holds was there, and that a diff of this
run of the process whose answers are the remembered ones goes by the keys of `lookup`
(`Agrees`); since an answer, once remembered, never changes, two of them compare row by row. It is
kept through a collection right by right (`Collecting`) and name by name (`Resolving`). `Dates` says
that a diff at hand is no newer than the changes made, and `Alone` orders what there is at a
pairing where recorders kept apart: last snapshot, diff at hand, cache entry, each no older
than the one before.

**ServicesProofs.** `SyncTypeCorrect`, `StatusesAreTrue`, `LogsAreKeptApart` of the sync jobs, and
`ServicesTypeCorrect` of the three services next to each other. The invariants say for each
statement of `run` what memory, table and outcome are, and which buffers may be attached
while whose lines are written.

**PermissionResetProofs.** `ResetTypeCorrect`, `ProtectedAreKept`, `RestoreIsComplete`,
`RestoresSpareOlder`. `Overtaken` says of a backup that whatever is no longer as it was read has
been changed by administrators, where only they could: a role that is new next to one that
was backed up, a privilege of a system-generated principal that is gone. `Progress` says what
a restore has brought back of the items and securables it is through with.

**Only model-checked.** Liveness (`RequestsAreAnswered`, `ScansGoOn`), because TLAPS proves neither
liveness under fairness nor facts about ENABLED. Every other property of the passing runs is
a theorem. The induction theorems of the library take an operator as a parameter and
cannot be instantiated; where a recursive function had to be reasoned about, induction over the
natural numbers was derived in the form that a set of numbers can express, from the
well-foundedness of their order (`SmallestExists`, `Induction`), and that a function can be
given value by value was derived from it (`StepByStep`).

## 6. What is not modelled

- In `apply_view`: a database error in the gate (it ends in an error 500 before any change).
- In the apply engine: service principals. `ApplyRows` takes the membership in a data access
  role for one call (`OneLakeRoles` has its GET and PUT), and reads Graph's answers as a choice;
  the cache they come from is in `Monitor`.
- In the OneLake writers: several decision rules per role.
- In `Reconcile`, further: which grants a refused read has left; it may be any.
- In `UCConstraints` and `AbacPolicies`: the text of predicates and masks beyond what the
  translation looks at; masks other than a hidden column; paging and deadlines of the tag
  queries (they fail as a whole or not).
- In `Monitor`: counts and texts of a drift, its history; that the lookup cache forgets the oldest
  of 512 answers; `start()` and `stop()` of the scheduler,
  which only the start and the end of the server call.
- In `SyncJobs`: the work of a job, which is a library (`WeaverAgent`), and the cap on listed jobs.
- In `PermissionReset`: two scripts at the same time, several backup files, the users and
  groups that a backup also lists and nothing reads.
- In `Reconcile`: OneSync (off by default, its service is not in the repository), the planner's
  choice of layer (revokes ignore it, grants have no effect in any), the metrics.
- Azure credentials: a chain of library calls with two caches; a token that cannot be had or
  has expired is one of the calls that fail, in every module.
- The list pages and counters of the approvals, the queue and the trail only read.
- Sessions and role checks of users, the wizard's selection and the list of recent
  workspaces (files of one user's page), inventory and connectors, capability tables,
  demonstrations and probes: no state of their own that a property here is about.

## 7. Plan

Done: `Approvals`, `ApplyFlow`, `PairDiff`, `ApplyRows`, `OneLakeRoles`, `Reconcile` - the gate and
the writes first, being what the hub is for - then `UCConstraints`, `AbacPolicies`, `Monitor`, `SyncJobs`
and `PermissionReset`, and the proofs of section 5. Left:

1. Token and credential caches, if a property of the applies comes to depend on them.

Looked into and left alone: `ApplyRows` as an implementation of `ApplyFlow`. One grant of
`ApplyRows` (a role, a schema) can change several rows of the next diff, on either
side; `ApplyFlow` has such changes as steps of administrators. A mapping would have to call the
hub's own side effects external, and would then say less than the two modules do.
