------------------------------ MODULE ApplyFlow ------------------------------
(***************************************************************************)
(* The apply pipeline of the hub: POST /pairings/{id}/apply                *)
(* (app/routers/pairings.py, apply_view) with the services it calls - the  *)
(* approval gate, the live diff and its cache, the audit trail and         *)
(* apply_rows - and the GET .../tab/diff readers that share the diff cache.*)
(*                                                                         *)
(* The handlers are synchronous functions that FastAPI runs in a thread    *)
(* pool, so every request is a process; an action is one statement that    *)
(* touches shared state (a database statement, a JSONL append, a cache     *)
(* call, a call to Fabric or Databricks).  The server may be restarted at  *)
(* any moment, which kills the requests in flight and empties the          *)
(* in-memory cache, and any call to a data platform may raise.             *)
(***************************************************************************)
EXTENDS Naturals, Sequences

CONSTANTS
  Requests,        \* POST .../apply requests; also the ids of the approval
                   \* and of the audit event a request creates (one uuid each)
  EarlierIds,      \* ids of approvals parked by requests before these
  Viewers,         \* threads serving GET .../tab/diff
  Pairings,
  Directions,      \* {"dbx_to_fabric", "fabric_to_dbx"} or a subset
  DryRuns,         \* the dry_run values the forms carry, BOOLEAN or a subset
  Rows,            \* selection keys of diff rows
  ExternalRows,    \* rows that administrators also grant or revoke by hand
  NoApproval,      \* the empty approval_id of the form
  NoDiff,          \* nothing cached for a pairing
  RequireApproval  \* settings.REQUIRE_APPROVAL

ASSUME ApplyFlowAssumption ==
  /\ RequireApproval \in BOOLEAN
  /\ NoApproval \notin Requests \cup EarlierIds
  /\ Requests \cap EarlierIds = {}
  /\ Requests \cap Viewers = {}
  /\ DryRuns \subseteq BOOLEAN
  /\ ExternalRows \subseteq Rows

VARIABLES
  approval,  \* the approvals table
  missing,   \* missing[p][d]: rows on the source of direction d, not on its target
  cache,     \* the "diff::..." entry of each pairing
  jsonl,     \* jsonl[q]: statuses of the records of audit event q, in file order
  mirror,    \* mirror[q]: the audit_events row of event q
  req,       \* program counter and locals of each apply request
  view,      \* program counter and locals of each tab_diff thread
  wrote,     \* ghost: rows a real request has sent to the target platform
  changed    \* ghost: rows whose grant on the target is that request's doing

vars == <<approval, missing, cache, jsonl, mirror, req, view, wrote, changed>>

-----------------------------------------------------------------------------
(* Data *)

Outcomes == {"completed", "partial", "failed", "blocked"}

Bucket == [Directions -> SUBSET Rows]

\* What compute_diff returns: the two one-sided buckets, and whether a
\* collector failed ("errors").  by is the thread that computed it (a ghost).
Diff == [bucket : Bucket, errors : BOOLEAN, by : Requests \cup Viewers]

ASSUME NoDiffAssumption == NoDiff \notin Diff

NothingCollected == [d \in Directions |-> {}]

Ids == Requests \cup EarlierIds

\* An id that is in no row of the table yet.
NoRow == [status |-> "none"]

ApprovalRow == [status : {"pending", "approved", "rejected", "executed"},
                pairing : Pairings, dir : Directions, rows : SUBSET Rows]

MirrorRow == [status : {"none", "started"} \cup Outcomes, ok : SUBSET Rows]

RequestPC == {"idle", "gate", "collect", "store", "begin", "apply",
              "record", "invalidate", "done", "redirected", "error500", "killed"}

RequestState ==
  [pc : RequestPC, pairing : Pairings, dir : Directions, dry : BOOLEAN,
   sel : SUBSET Rows, aid : Ids \cup {NoApproval},
   diff : Diff \cup {NoDiff}, error : BOOLEAN,
   todo : SUBSET Rows, ok : SUBSET Rows, skipped : SUBSET Rows, failed : SUBSET Rows]

ViewState == [pc : {"idle", "collect", "store", "show"}, pairing : Pairings,
              diff : Diff \cup {NoDiff}]

TypeOK ==
  /\ approval \in [Ids -> ApprovalRow \cup {NoRow}]
  /\ missing \in [Pairings -> Bucket]
  /\ cache \in [Pairings -> Diff \cup {NoDiff}]
  /\ jsonl \in [Requests -> Seq({"started"} \cup Outcomes)]
  /\ mirror \in [Requests -> MirrorRow]
  /\ req \in [Requests -> RequestState]
  /\ view \in [Viewers -> ViewState]
  /\ wrote \in [Requests -> SUBSET Rows]
  /\ changed \in [Requests -> SUBSET Rows]

\* A request about to arrive, with whatever its form holds.  Without the gate
\* nobody looks at approval_id.
Form ==
  [pc : {"idle"}, pairing : Pairings, dir : Directions, dry : DryRuns,
   sel : SUBSET Rows,
   aid : IF RequireApproval THEN Ids \cup {NoApproval} ELSE {NoApproval},
   diff : {NoDiff},
   error : {FALSE}, todo : {{}}, ok : {{}}, skipped : {{}}, failed : {{}}]

Init ==
  /\ \E parked \in [EarlierIds -> {a \in ApprovalRow : a.status = "pending"}] :
       approval = [i \in Ids |-> IF i \in EarlierIds THEN parked[i] ELSE NoRow]
  /\ missing \in [Pairings -> Bucket]
  /\ cache = [p \in Pairings |-> NoDiff]
  /\ jsonl = [q \in Requests |-> <<>>]
  /\ mirror = [q \in Requests |-> [status |-> "none", ok |-> {}]]
  /\ req \in [Requests -> Form]
  /\ view \in [Viewers -> [pc : {"idle"}, pairing : Pairings, diff : {NoDiff}]]
  /\ wrote = [q \in Requests |-> {}]
  /\ changed = [q \in Requests |-> {}]

platforms == <<missing, wrote, changed>>
audit == <<jsonl, mirror>>

GoTo(q, pc) == req' = [req EXCEPT ![q].pc = pc]

\* The handler returns, and its locals are gone; what the form said and what
\* was reported stay on record.
Finish(q, pc) == req' = [req EXCEPT ![q].pc = pc, ![q].diff = NoDiff]

-----------------------------------------------------------------------------
(* The approval gate *)

\* A pairing that no longer exists redirects to the start page.
Arrive(q) ==
  /\ req[q].pc = "idle"
  /\ \E pc \in {"gate", "redirected"} : GoTo(q, pc)
  /\ UNCHANGED <<approval, cache, view, platforms, audit>>

Gated(q) == RequireApproval /\ ~req[q].dry

\* Faulty: the pairing of the approval is not compared.
HasApproval_AnyPairing(q) ==
  /\ req[q].aid \in Ids
  /\ approval[req[q].aid].status = "approved"

\* approvals.get finds the referenced request, approved, for this pairing.
HasApproval(q) ==
  /\ req[q].aid \in Ids
  /\ approval[req[q].aid].status = "approved"
  /\ approval[req[q].aid].pairing = req[q].pairing

PassGate(q) ==
  /\ req[q].pc = "gate"
  /\ Gated(q) => HasApproval(q)
  /\ GoTo(q, "collect")
  /\ UNCHANGED <<approval, cache, view, platforms, audit>>

\* Without one the change set is parked as a new request, and nothing runs.
ParkRequest(q) ==
  /\ req[q].pc = "gate"
  /\ Gated(q) /\ ~HasApproval(q)
  /\ approval' = [approval EXCEPT ![q] =
       [status |-> "pending", pairing |-> req[q].pairing, dir |-> req[q].dir,
        rows |-> req[q].sel]]
  /\ GoTo(q, "redirected")
  /\ UNCHANGED <<cache, view, platforms, audit>>

\* POST /operations/approvals/{id}/approve and .../reject; deciding on a request that is
\* no longer pending is a no-op.
Decide(a, verdict) ==
  /\ approval[a].status = "pending"
  /\ approval' = [approval EXCEPT ![a].status = verdict]
  /\ UNCHANGED <<cache, req, view, platforms, audit>>

-----------------------------------------------------------------------------
(* The live diff *)

\* compute_diff reads both platforms.  A collector that fails leaves its side
\* empty and an entry in "errors"; which rows the buckets then hold makes no
\* difference below, since errors block the apply.
Collected(p, errors, t) ==
  [bucket |-> IF errors THEN NothingCollected ELSE missing[p],
   errors |-> errors, by |-> t]

Collect(q) ==
  /\ req[q].pc = "collect"
  /\ \E errors \in BOOLEAN :
       req' = [req EXCEPT ![q].pc = "store",
                          ![q].diff = Collected(req[q].pairing, errors, q)]
  /\ UNCHANGED <<approval, cache, view, platforms, audit>>

\* The rows to apply: those selected in the browser that the live diff still
\* has in the source bucket.
RowsToApply(q, diff) == req[q].sel \cap diff.bucket[req[q].dir]

\* Everything is ready for the apply once the buckets are known.  Dry runs
\* write no start record.
WithBuckets(q, diff, error) ==
  req' = [req EXCEPT ![q].pc = IF req[q].dry /\ ~error THEN "apply" ELSE "begin",
                     ![q].diff = diff, ![q].error = error,
                     ![q].todo = RowsToApply(q, diff)]

\* compute_diff ends by caching its result, errors and all, even when the
\* caller asked for a fresh one.
StoreDiff(q) ==
  /\ req[q].pc = "store"
  /\ cache' = [cache EXCEPT ![req[q].pairing] = req[q].diff]
  /\ WithBuckets(q, req[q].diff, req[q].diff.errors)
  /\ UNCHANGED <<approval, view, platforms, audit>>

\* Faulty: a real apply falls back on the cached diff too.
CollectRaises_CachedForAll(q) ==
  /\ req[q].pc \in {"collect", "store"}
  /\ LET cached == cache[req[q].pairing]
     IN  IF cached # NoDiff
         THEN WithBuckets(q, cached, cached.errors)
         ELSE WithBuckets(q, Collected(req[q].pairing, TRUE, q), TRUE)
  /\ UNCHANGED <<approval, cache, view, platforms, audit>>

\* compute_diff raises: a dry run falls back on a cached diff, everything else
\* is blocked with empty buckets.
CollectRaises(q) ==
  /\ req[q].pc \in {"collect", "store"}
  /\ LET cached == cache[req[q].pairing]
     IN  IF req[q].dry /\ cached # NoDiff
         THEN WithBuckets(q, cached, cached.errors)
         ELSE WithBuckets(q, Collected(req[q].pairing, TRUE, q), TRUE)
  /\ UNCHANGED <<approval, cache, view, platforms, audit>>

-----------------------------------------------------------------------------
(* The audit trail *)

\* Faulty: the database is written first, and the append may still fail.
WriteRecord_MirrorFirst(q, status, ok) ==
  /\ mirror' = [mirror EXCEPT ![q] = [status |-> status, ok |-> ok]]
  /\ \/ jsonl' = [jsonl EXCEPT ![q] = Append(@, status)]
     \/ UNCHANGED jsonl

\* record_permission_apply: append to the JSONL file, then mirror the record
\* into audit_events, best effort.  A crash between the two is the same as a
\* mirror write that failed and a crash after it.
WriteRecord(q, status, ok) ==
  /\ jsonl' = [jsonl EXCEPT ![q] = Append(@, status)]
  /\ \/ mirror' = [mirror EXCEPT ![q] = [status |-> status, ok |-> ok]]
     \/ UNCHANGED mirror

\* record_permission_apply_start, before any real change.
RecordStart(q) ==
  /\ req[q].pc = "begin" /\ ~req[q].error /\ ~req[q].dry
  /\ WriteRecord(q, "started", {})
  /\ GoTo(q, "apply")
  /\ UNCHANGED <<approval, cache, view, platforms>>

\* Faulty: the error is noted for the page only, and the apply goes on.
RecordStartFails_GoOn(q) ==
  /\ req[q].pc = "begin" /\ ~req[q].error /\ ~req[q].dry
  /\ GoTo(q, "apply")
  /\ UNCHANGED <<approval, cache, view, platforms, audit>>

\* Faulty: the apply starts over with a fresh diff for as long as it fails.
RecordStartFails_Retry(q) ==
  /\ req[q].pc = "begin" /\ ~req[q].error /\ ~req[q].dry
  /\ GoTo(q, "collect")
  /\ UNCHANGED <<approval, cache, view, platforms, audit>>

\* The JSONL file cannot be written: the apply is blocked before any change.
RecordStartFails(q) ==
  /\ req[q].pc = "begin" /\ ~req[q].error /\ ~req[q].dry
  /\ req' = [req EXCEPT ![q].error = TRUE]
  /\ UNCHANGED <<approval, cache, view, platforms, audit>>

\* Faulty: one success is enough for "completed".
OutcomeOf_Optimistic(q) ==
  CASE req[q].error -> "blocked"
    [] ~req[q].error /\ (req[q].failed = {} \/ req[q].ok # {}) -> "completed"
    [] OTHER -> "failed"

\* Faulty: a status outside the trail's vocabulary.
OutcomeOf_Unknown(q) == IF req[q].failed = {} THEN "ok" ELSE "failed"

\* audit_log._status
OutcomeOf(q) ==
  CASE req[q].error -> "blocked"
    [] ~req[q].error /\ req[q].failed = {} -> "completed"
    [] ~req[q].error /\ req[q].failed # {} /\ req[q].ok \cup req[q].skipped # {} -> "partial"
    [] OTHER -> "failed"

ReadyToRecord(q) ==
  \/ req[q].pc = "record"
  \/ req[q].pc = "begin" /\ req[q].error
  \/ req[q].pc = "apply" /\ req[q].todo = {} /\ ~Gated(q)

RecordOutcome(q) ==
  /\ ReadyToRecord(q)
  /\ WriteRecord(q, OutcomeOf(q), req[q].ok)
  /\ GoTo(q, "invalidate")
  /\ UNCHANGED <<approval, cache, view, platforms>>

\* By now the changes are made; a failing append is only shown on the page.
RecordOutcomeFails(q) ==
  /\ ReadyToRecord(q)
  /\ GoTo(q, "invalidate")
  /\ UNCHANGED <<approval, cache, view, platforms, audit>>

-----------------------------------------------------------------------------
(* apply_rows, one row at a time in any order: selected is a set *)

Applying(q, r) == req[q].pc = "apply" /\ r \in req[q].todo

\* The buckets once the target has gained, or lost, row r.
Granted(p, d, r) == [missing EXCEPT ![p][d] = @ \ {r}]
Revoked(p, d, r) == [missing EXCEPT ![p][d] = @ \cup {r}]

\* The call for row r goes out, and the platform acts on it or not.
SendRow(q, r) ==
  /\ wrote' = [wrote EXCEPT ![q] = @ \cup {r}]
  /\ LET p == req[q].pairing  d == req[q].dir
     IN  \/ /\ missing' = Granted(p, d, r)
            /\ changed' = [changed EXCEPT ![q] = @ \cup ({r} \cap missing[p][d])]
         \/ UNCHANGED <<missing, changed>>

\* A row that ends badly: before the call, or after it.
MaySend(q, r) == \/ ~req[q].dry /\ SendRow(q, r)
                 \/ UNCHANGED platforms

\* Reported as ok.  The grant is this request's doing; or it was there already
\* - somebody else applied the row since the diff was read; or the principal
\* has another workspace role and the platform refuses a second one (409).
\* All of these are "already granted (idempotent)" but the first.
GrantRow(q, r) ==
  /\ Applying(q, r) /\ ~req[q].dry
  /\ SendRow(q, r)
  /\ req' = [req EXCEPT ![q].todo = @ \ {r}, ![q].ok = @ \cup {r}]
  /\ UNCHANGED <<approval, cache, view, audit>>

\* A dry run reports what it would do.
PreviewRow(q, r) ==
  /\ Applying(q, r) /\ req[q].dry
  /\ req' = [req EXCEPT ![q].todo = @ \ {r}, ![q].ok = @ \cup {r}]
  /\ UNCHANGED <<approval, cache, view, platforms, audit>>

\* No equivalent on the target, or a principal that cannot be mapped (which
\* also goes to the identity queue, a table that nothing here reads).
SkipRow(q, r) ==
  /\ Applying(q, r)
  /\ req' = [req EXCEPT ![q].todo = @ \ {r}, ![q].skipped = @ \cup {r}]
  /\ UNCHANGED <<approval, cache, view, platforms, audit>>

\* Reported as failed: no mapping, an HTTP error, or a SQL statement that was
\* not seen to finish in time although the warehouse carries on with it.
FailRow(q, r) ==
  /\ Applying(q, r)
  /\ MaySend(q, r)
  /\ req' = [req EXCEPT ![q].todo = @ \ {r}, ![q].failed = @ \cup {r}]
  /\ UNCHANGED <<approval, cache, view, audit>>

\* An error escapes apply_rows - no token, a transport error before or after
\* the platform acted on the call - and the handler answers 500 with none of
\* the steps that remain.
RaiseInRow(q, r) ==
  /\ Applying(q, r)
  /\ MaySend(q, r)
  /\ Finish(q, "error500")
  /\ UNCHANGED <<approval, cache, view, audit>>

\* Faulty: the approval is closed before the rows are applied.
MarkExecuted_Early(q) ==
  /\ req[q].pc = "apply" /\ Gated(q)
  /\ approval' = [approval EXCEPT ![req[q].aid].status = "executed"]
  /\ req' = [req EXCEPT ![q].pc = IF req[q].todo = {} THEN "record" ELSE "apply"]
  /\ UNCHANGED <<cache, view, platforms, audit>>

\* mark_executed has no guard of its own, and a failure is swallowed.
MarkExecuted(q) ==
  /\ req[q].pc = "apply" /\ req[q].todo = {} /\ Gated(q)
  /\ \/ approval' = [approval EXCEPT ![req[q].aid].status = "executed"]
     \/ UNCHANGED approval
  /\ GoTo(q, "record")
  /\ UNCHANGED <<cache, view, platforms, audit>>

\* _cache.invalidate("diff::") drops every pairing's diff.
Respond(q) ==
  /\ req[q].pc = "invalidate"
  /\ cache' = IF req[q].dry THEN cache ELSE [p \in Pairings |-> NoDiff]
  /\ Finish(q, "done")
  /\ UNCHANGED <<approval, view, platforms, audit>>

-----------------------------------------------------------------------------
(* tab_diff, the readers of the diff cache.  The drift snapshot that it      *)
(* records once the diff is in hand touches none of these variables, and is   *)
(* left to a module of its own.                                               *)

\* refresh=0 and a live cache entry: the entry is what is shown.
ViewCached(v, p) ==
  /\ view[v].pc = "idle"
  /\ cache[p] # NoDiff
  /\ view' = [view EXCEPT ![v] = [pc |-> "show", pairing |-> p, diff |-> cache[p]]]
  /\ UNCHANGED <<approval, cache, req, platforms, audit>>

\* A miss, or refresh=1.
ViewCompute(v, p) ==
  /\ view[v].pc = "idle"
  /\ view' = [view EXCEPT ![v] = [pc |-> "collect", pairing |-> p, diff |-> NoDiff]]
  /\ UNCHANGED <<approval, cache, req, platforms, audit>>

ViewCollect(v) ==
  /\ view[v].pc = "collect"
  /\ \E errors \in BOOLEAN :
       view' = [view EXCEPT ![v].pc = "store",
                            ![v].diff = Collected(view[v].pairing, errors, v)]
  /\ UNCHANGED <<approval, cache, req, platforms, audit>>

ViewStore(v) ==
  /\ view[v].pc = "store"
  /\ cache' = [cache EXCEPT ![view[v].pairing] = view[v].diff]
  /\ view' = [view EXCEPT ![v].pc = "show"]
  /\ UNCHANGED <<approval, req, platforms, audit>>

\* The page is out, and the thread goes back to the pool.
ViewDone(v) ==
  /\ view[v].pc = "show"
  /\ view' = [view EXCEPT ![v].pc = "idle", ![v].diff = NoDiff]
  /\ UNCHANGED <<approval, cache, req, platforms, audit>>

-----------------------------------------------------------------------------
(* The environment *)

\* A cache entry outlives its five minutes.
CacheExpires(p) ==
  /\ cache[p] # NoDiff
  /\ cache' = [cache EXCEPT ![p] = NoDiff]
  /\ UNCHANGED <<approval, req, view, platforms, audit>>

\* Somebody grants or revokes the row outside the hub.  A row that is revoked
\* is no longer any request's doing.
ExternalGrant(p, d, r) ==
  /\ r \in missing[p][d]
  /\ missing' = Granted(p, d, r)
  /\ UNCHANGED <<approval, cache, req, view, wrote, changed, audit>>

ExternalRevoke(p, d, r) ==
  /\ r \notin missing[p][d]
  /\ missing' = Revoked(p, d, r)
  /\ changed' = [q \in Requests |->
       IF req[q].pairing = p /\ req[q].dir = d THEN changed[q] \ {r} ELSE changed[q]]
  /\ UNCHANGED <<approval, cache, req, view, wrote, audit>>

InFlight(q) == req[q].pc \notin {"idle", "done", "redirected", "error500", "killed"}

\* The server process dies and is started again.
Restart ==
  /\ req' = [q \in Requests |-> IF InFlight(q) THEN [req[q] EXCEPT !.pc = "killed", !.diff = NoDiff]
                                               ELSE req[q]]
  /\ view' = [v \in Viewers |-> [view[v] EXCEPT !.pc = "idle", !.diff = NoDiff]]
  /\ cache' = [p \in Pairings |-> NoDiff]
  /\ UNCHANGED <<approval, platforms, audit>>

-----------------------------------------------------------------------------
RowStep(q) ==
  \E r \in Rows : GrantRow(q, r) \/ PreviewRow(q, r) \/ SkipRow(q, r)
                  \/ FailRow(q, r) \/ RaiseInRow(q, r)

\* The steps of a request once it has been submitted.
RequestStep(q) ==
  \/ PassGate(q) \/ ParkRequest(q)
  \/ Collect(q) \/ StoreDiff(q) \/ CollectRaises(q)
  \/ RecordStart(q) \/ RecordStartFails(q)
  \/ RowStep(q) \/ MarkExecuted(q)
  \/ RecordOutcome(q) \/ RecordOutcomeFails(q) \/ Respond(q)

ViewStep(v) ==
  \/ \E p \in Pairings : ViewCached(v, p) \/ ViewCompute(v, p)
  \/ ViewCollect(v) \/ ViewStore(v) \/ ViewDone(v)

Next ==
  \/ \E q \in Requests : Arrive(q) \/ RequestStep(q)
  \/ \E a \in Ids, verdict \in {"approved", "rejected"} : Decide(a, verdict)
  \/ \E v \in Viewers : ViewStep(v)
  \/ \E p \in Pairings : CacheExpires(p)
  \/ \E p \in Pairings, d \in Directions, r \in ExternalRows :
       ExternalGrant(p, d, r) \/ ExternalRevoke(p, d, r)
  \/ Restart

Spec == Init /\ [][Next]_vars

\* The thread pool keeps running every request that was admitted.
FairSpec == Spec /\ \A q \in Requests : WF_vars(RequestStep(q))

-----------------------------------------------------------------------------
(* Safety *)

\* "Write a durable start record before any real permission changes": no
\* write, even one whose request died in the middle of it, is missing from the
\* JSONL file.
WritesAreAudited ==
  \A q \in Requests : wrote[q] # {} => jsonl[q] # <<>> /\ jsonl[q][1] = "started"

\* A real apply only touches rows that were both selected in the browser and
\* found on the source side by an error-free diff that the same request
\* computed; a cached or partial diff never drives a write.
WritesAreVerified ==
  \A q \in Requests : wrote[q] # {} /\ InFlight(q) =>
    /\ req[q].diff # NoDiff /\ req[q].diff.by = q /\ ~req[q].diff.errors
    /\ wrote[q] \subseteq req[q].sel \cap req[q].diff.bucket[req[q].dir]

\* The outcome in the trail accounts for the writes: "blocked" means nothing
\* was written, "completed" that every write was reported as a success, and a
\* real apply that wrote at all is never without its start record behind it.
OutcomeAccountsForWrites ==
  \A q \in Requests : \A i \in DOMAIN jsonl[q] :
    /\ jsonl[q][i] = "blocked" => wrote[q] = {}
    /\ jsonl[q][i] = "completed" => wrote[q] \subseteq req[q].ok
    /\ jsonl[q][i] # "started" /\ wrote[q] # {} => i > 1 /\ jsonl[q][i - 1] = "started"

\* The JSONL file is the source of record: the queryable mirror may lag behind
\* it but never shows a status the file does not have.
MirrorNeverAhead ==
  \A q \in Requests : mirror[q].status # "none" =>
    \E i \in DOMAIN jsonl[q] : jsonl[q][i] = mirror[q].status

\* An approval is only closed as executed by a request that attempted every
\* row it had to apply; a request that died on the way leaves it approved, so
\* that the rest can still be applied.
ExecutedWasCarriedThrough ==
  \A a \in Ids : approval[a].status = "executed" =>
    \E q \in Requests : /\ req[q].aid = a /\ ~req[q].dry
                        /\ req[q].todo = {}
                        /\ jsonl[q] # <<>> /\ jsonl[q][1] = "started"

-----------------------------------------------------------------------------
(* The approvals table and the writes implement the workflow of Approvals:    *)
(* parked, decided once, enacted only with consent, however the decisions,    *)
(* other applies under the same approval and restarts interleave with the     *)
(* gate's one look at the table.  The gate compares the pairing, so consent   *)
(* to a change set is consent to any change of its pairing, in either         *)
(* direction: that is all that is promised here, and less than the            *)
(* repository promises (ApprovedWrites below).                                *)

ChangeSets == [pairing : Pairings, dir : Directions, rows : SUBSET Rows]
Changes == [pairing : Pairings, dir : Directions, row : Rows]

SamePairing == {cx \in ChangeSets \X Changes : cx[1].pairing = cx[2].pairing}

\* What was parked under an id, and what was written with reference to it.
Asked(a) ==
  IF approval[a].status = "none" THEN NoRow
  ELSE [pairing |-> approval[a].pairing, dir |-> approval[a].dir, rows |-> approval[a].rows]

Change(q, r) == [pairing |-> req[q].pairing, dir |-> req[q].dir, row |-> r]

Enacted(a) ==
  {qx \in Requests \X Changes :
     /\ RequireApproval /\ req[qx[1]].aid = a
     /\ \E r \in wrote[qx[1]] : qx[2] = Change(qx[1], r)}

Workflow == INSTANCE Approvals WITH
  Appliers <- Requests, Covers <- SamePairing, NothingAsked <- NoRow,
  status <- [a \in Ids |-> approval[a].status],
  asked <- [a \in Ids |-> Asked(a)],
  enacted <- [a \in Ids |-> Enacted(a)]

ImplementsWorkflow == Workflow!ApprovalsSpec

-----------------------------------------------------------------------------
(* Liveness, under FairSpec *)

\* Every admitted request is answered - redirect, page or error 500 - unless
\* a restart kills it; in particular no failure path of the audit trail loops.
RequestsAreAnswered ==
  \A q \in Requests : req[q].pc = "gate" ~>
    req[q].pc \in {"done", "redirected", "error500", "killed"}

-----------------------------------------------------------------------------
(* Claims of the repository's own words that the code does not keep *)

\* app/services/approvals.py:3-5: "the selected change set is parked as a
\* pending approval request; an approver must approve it before it can be
\* executed".  What a real apply writes is then in a change set that somebody
\* has approved: same pairing, same direction, and the row among its rows.
ApprovedWrites ==
  RequireApproval => \A q \in Requests : \A r \in wrote[q] :
    /\ req[q].aid \in Ids
    /\ approval[req[q].aid].status \in {"approved", "executed"}
    /\ approval[req[q].aid].pairing = req[q].pairing
    /\ approval[req[q].aid].dir = req[q].dir
    /\ r \in approval[req[q].aid].rows

\* app/routers/pairings.py:678-679: after a real apply "the diff tab lazy-loads
\* fresh data ... (reflecting the newly-applied permissions)".  Once its page is
\* out, a diff that the cache would answer the tab with does not have a row as
\* missing that the apply has granted and that nobody has revoked since.
NextViewIsFresh ==
  \A q \in Requests :
    req[q].pc = "done" /\ ~req[q].dry /\ cache[req[q].pairing] # NoDiff =>
      cache[req[q].pairing].bucket[req[q].dir] \cap changed[q] = {}

\* rollback_service.build_plan: the ok rows of the mirrored audit event.
RollbackPlan(q) == IF req[q].dry THEN {} ELSE mirror[q].ok

\* app/services/rollback_service.py:3-4: the reverse plan is "the set of
\* revoke operations that would undo" the applied actions, and an action that
\* changed nothing has none (line 20).
PlanUndoesOwnChanges == \A q \in Requests : RollbackPlan(q) \subseteq changed[q]
=============================================================================
