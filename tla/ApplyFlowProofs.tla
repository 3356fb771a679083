--------------------------- MODULE ApplyFlowProofs ---------------------------
(***************************************************************************)
(* Proofs about ApplyFlow, for every set of requests, viewers, pairings,   *)
(* directions and rows, with the approval gate on or off.                  *)
(*                                                                         *)
(* WritesAreAudited is not inductive, nor is that writes have consent:     *)
(* both speak of requests that have written, and one has to know what a    *)
(* request that is about to write has been through.  IInv adds, for each program counter,  *)
(* what holds there: before "apply" nothing is in the trail, nothing is    *)
(* written and the id of the request is still free in the approvals table; *)
(* from the gate onwards the approval it carries has been consented to;    *)
(* a real request that may write has its start record.                     *)
(*                                                                         *)
(* On top of it, BInv says of every request what it has behind it: a diff  *)
(* of its own, a trail that accounts for its rows, a mirror that follows.  *)
(* ExecutedWasCarriedThrough and OwnDiffIsDropped need both, and that what   *)
(* was once done by a request stays done.                                  *)
(***************************************************************************)
EXTENDS ApplyFlow, TLAPS

Sanctioned(q) ==
  /\ req[q].aid \in Ids
  /\ approval[req[q].aid].status \in {"approved", "executed"}
  /\ approval[req[q].aid].pairing = req[q].pairing

Audited(q) == jsonl[q] # <<>> /\ jsonl[q][1] = "started"

Arriving == {"idle", "gate"}
Unwritten == {"idle", "gate", "collect", "store", "begin", "redirected"}
Admitted == {"collect", "store", "begin", "apply", "record", "invalidate"}

IdIsFree == \A q \in Requests : req[q].pc \in Arriving => approval[q] = NoRow

NothingYet == \A q \in Requests : req[q].pc \in Unwritten => wrote[q] = {}

TrailEmpty ==
  \A q \in Requests :
    req[q].pc \in {"idle", "gate", "collect", "store", "begin"} => jsonl[q] = <<>>

DiffInHand == \A q \in Requests : req[q].pc = "store" => req[q].diff \in Diff

GatePassed ==
  \A q \in Requests :
    Gated(q) /\ (req[q].pc \in Admitted \/ wrote[q] # {}) => Sanctioned(q)

StartOnRecord ==
  \A q \in Requests :
    ~req[q].dry /\ (req[q].pc \in {"apply", "record"} \/ wrote[q] # {}) => Audited(q)

DryIsPure == \A q \in Requests : req[q].dry => wrote[q] = {}

IInv ==
  /\ TypeOK
  /\ IdIsFree /\ NothingYet /\ TrailEmpty /\ DiffInHand /\ GatePassed /\ StartOnRecord /\ DryIsPure

-----------------------------------------------------------------------------
(* Typing *)

\* The actions of Next, with the nested disjunctions opened up: the shape in
\* which the case splits below take a step.
LEMMA NextCases ==
  ASSUME Next
  PROVE  \/ \E q \in Requests : Arrive(q) \/ PassGate(q) \/ ParkRequest(q)
                \/ Collect(q) \/ StoreDiff(q) \/ CollectRaises(q)
                \/ RecordStart(q) \/ RecordStartFails(q) \/ MarkExecuted(q)
                \/ RecordOutcome(q) \/ RecordOutcomeFails(q) \/ Respond(q)
         \/ \E q \in Requests, r \in Rows : GrantRow(q, r) \/ PreviewRow(q, r)
                \/ SkipRow(q, r) \/ FailRow(q, r) \/ RaiseInRow(q, r)
         \/ \E a \in Ids, verdict \in {"approved", "rejected"} : Decide(a, verdict)
         \/ \E v \in Viewers : ViewStep(v)
         \/ \E p \in Pairings : CacheExpires(p)
         \/ \E p \in Pairings, d \in Directions, r \in ExternalRows :
              ExternalGrant(p, d, r) \/ ExternalRevoke(p, d, r)
         \/ Restart
BY DEF Next, RequestStep, RowStep

\* What compute_diff returns is well typed.
LEMMA CollectedIsDiff ==
  ASSUME TypeOK, NEW p \in Pairings, NEW e \in BOOLEAN, NEW t \in Requests \cup Viewers
  PROVE  Collected(p, e, t) \in Diff
BY DEF TypeOK, Collected, Diff, Bucket, NothingCollected

\* Replacing the locals of one request by well-typed ones keeps req typed.
LEMMA RequestUpdate ==
  ASSUME TypeOK, NEW q \in Requests, NEW s \in RequestState,
         req' = [req EXCEPT ![q] = s]
  PROVE  req' \in [Requests -> RequestState]
BY DEF TypeOK

LEMMA StoredType ==
  ASSUME NEW s \in RequestState, NEW diff \in Diff
  PROVE  [s EXCEPT !.pc = "store", !.diff = diff] \in RequestState
BY DEF RequestState, RequestPC

\* Handing the buckets to the apply keeps req typed.
LEMMA WithBucketsType ==
  ASSUME TypeOK, NEW q \in Requests, NEW diff \in Diff, NEW e \in BOOLEAN,
         WithBuckets(q, diff, e)
  PROVE  req' \in [Requests -> RequestState]
<1>1. req[q] \in RequestState
  BY DEF TypeOK
<1>2. RowsToApply(q, diff) \in SUBSET Rows
  BY <1>1 DEF RowsToApply, RequestState, Diff, Bucket
<1>3. DEFINE pc == IF req[q].dry /\ ~e THEN "apply" ELSE "begin"
             s == [req[q] EXCEPT !.pc = pc, !.diff = diff, !.error = e,
                                 !.todo = RowsToApply(q, diff)]
<1>4. pc \in RequestPC
  BY DEF RequestPC
<1> HIDE DEF pc
<1>5. s \in RequestState
  BY <1>1, <1>2, <1>4 DEF RequestState
<1>6. req' = [req EXCEPT ![q] = s]
  BY DEF WithBuckets, pc
<1>7. QED
  BY <1>5, <1>6, RequestUpdate

\* record_permission_apply keeps the JSONL file and its mirror typed, whether
\* or not the mirror write fails.
LEMMA WriteRecordType ==
  ASSUME TypeOK, NEW q \in Requests, NEW s \in {"started"} \cup Outcomes,
         NEW ok \in SUBSET Rows, WriteRecord(q, s, ok)
  PROVE  /\ jsonl' \in [Requests -> Seq({"started"} \cup Outcomes)]
         /\ mirror' \in [Requests -> MirrorRow]
<1>1. jsonl[q] \in Seq({"started"} \cup Outcomes)
  BY DEF TypeOK
<1>2. Append(jsonl[q], s) \in Seq({"started"} \cup Outcomes)
  BY <1>1
<1>3. jsonl' \in [Requests -> Seq({"started"} \cup Outcomes)]
  BY <1>2 DEF TypeOK, WriteRecord
<1>4. mirror' \in [Requests -> MirrorRow]
  <2>1. mirror \in [Requests -> MirrorRow]
    BY DEF TypeOK
  <2>2. [status |-> s, ok |-> ok] \in MirrorRow
    BY DEF MirrorRow
  <2>3. QED
    BY <2>1, <2>2 DEF WriteRecord
<1>5. QED
  BY <1>3, <1>4

\* Moving the program counter, or returning, keeps req typed.
LEMMA GoToType ==
  ASSUME TypeOK, NEW q \in Requests, NEW pc \in RequestPC,
         GoTo(q, pc) \/ Finish(q, pc)
  PROVE  req' \in [Requests -> RequestState]
<1>1. req[q] \in RequestState
  BY DEF TypeOK
<1>2. [req[q] EXCEPT !.pc = pc] \in RequestState
  BY <1>1 DEF RequestState
<1>3. [req[q] EXCEPT !.pc = pc, !.diff = NoDiff] \in RequestState
  BY <1>1 DEF RequestState
<1>4. CASE GoTo(q, pc)
  BY <1>2, <1>4, RequestUpdate DEF GoTo
<1>5. CASE Finish(q, pc)
  <2>1. req' = [req EXCEPT ![q] = [req[q] EXCEPT !.pc = pc, !.diff = NoDiff]]
    BY <1>5 DEF Finish
  <2>2. QED
    BY <1>3, <2>1, RequestUpdate
<1>6. QED
  BY <1>4, <1>5

\* What the row steps do to the locals.
LEMMA RowReportType ==
  ASSUME TypeOK, NEW q \in Requests, NEW r \in Rows
  PROVE  /\ [req[q] EXCEPT !.todo = @ \ {r}, !.ok = @ \cup {r}] \in RequestState
         /\ [req[q] EXCEPT !.todo = @ \ {r}, !.skipped = @ \cup {r}] \in RequestState
         /\ [req[q] EXCEPT !.todo = @ \ {r}, !.failed = @ \cup {r}] \in RequestState
<1>1. req[q] \in RequestState
  BY DEF TypeOK
<1>2. /\ req[q].todo \ {r} \in SUBSET Rows
      /\ req[q].ok \cup {r} \in SUBSET Rows
      /\ req[q].skipped \cup {r} \in SUBSET Rows
      /\ req[q].failed \cup {r} \in SUBSET Rows
  BY <1>1 DEF RequestState
<1>3. QED
  BY <1>1, <1>2 DEF RequestState

\* What granting or revoking a row does to the bucket.
LEMMA BucketType ==
  ASSUME TypeOK, NEW p \in Pairings, NEW d \in Directions, NEW r \in Rows
  PROVE  Granted(p, d, r) \in [Pairings -> Bucket] /\ Revoked(p, d, r) \in [Pairings -> Bucket]
<1>1. missing \in [Pairings -> Bucket] /\ missing[p] \in Bucket
  BY DEF TypeOK
<1>2. /\ [missing[p] EXCEPT ![d] = @ \ {r}] \in Bucket
      /\ [missing[p] EXCEPT ![d] = @ \cup {r}] \in Bucket
  BY <1>1 DEF Bucket
<1>3. QED
  BY <1>1, <1>2 DEF Granted, Revoked

\* What sending a row does to the books.
LEMMA BooksType ==
  ASSUME TypeOK, NEW p \in Pairings, NEW d \in Directions, NEW r \in Rows,
         NEW q \in Requests
  PROVE  /\ [wrote EXCEPT ![q] = @ \cup {r}] \in [Requests -> SUBSET Rows]
         /\ [changed EXCEPT ![q] = @ \cup ({r} \cap missing[p][d])]
               \in [Requests -> SUBSET Rows]
<1>1. wrote \in [Requests -> SUBSET Rows] /\ changed \in [Requests -> SUBSET Rows]
  BY DEF TypeOK
<1>2. QED
  BY <1>1

\* A status update of a row that is in the table keeps the table typed.
LEMMA ApprovalUpdate ==
  ASSUME TypeOK, NEW a \in Ids, approval[a] # NoRow,
         NEW st \in {"pending", "approved", "rejected", "executed"},
         approval' = [approval EXCEPT ![a].status = st]
  PROVE  approval' \in [Ids -> ApprovalRow \cup {NoRow}]
<1>1. approval[a] \in ApprovalRow
  BY DEF TypeOK
<1>2. [approval[a] EXCEPT !.status = st] \in ApprovalRow
  BY <1>1 DEF ApprovalRow
<1>3. QED
  BY <1>2 DEF TypeOK

\* Every step preserves TypeOK.  IInv is needed twice: MarkExecuted updates a
\* row that exists (GatePassed), and StoreDiff caches a real diff (DiffInHand).
LEMMA TypingStep == IInv /\ [Next]_vars => TypeOK'
<1> SUFFICES ASSUME IInv, [Next]_vars
             PROVE  TypeOK'
  OBVIOUS
<1> USE DEF platforms, audit
<1>0. TypeOK
  BY DEF IInv
<1>1. ASSUME NEW q \in Requests,
             Arrive(q) \/ PassGate(q) \/ RecordOutcomeFails(q) \/ Respond(q)
      PROVE  TypeOK'
  <2>1. req' \in [Requests -> RequestState]
    BY <1>0, <1>1, GoToType DEF Arrive, PassGate, RecordOutcomeFails, Respond, RequestPC
  <2>2. cache' \in [Pairings -> Diff \cup {NoDiff}]
    BY <1>0, <1>1 DEF TypeOK, Arrive, PassGate, RecordOutcomeFails, Respond
  <2>3. QED
    BY <1>0, <1>1, <2>1, <2>2 DEF TypeOK, Arrive, PassGate, RecordOutcomeFails, Respond
<1>2. ASSUME NEW q \in Requests, ParkRequest(q)
      PROVE  TypeOK'
  <2>1. req' \in [Requests -> RequestState]
    BY <1>0, <1>2, GoToType DEF ParkRequest, RequestPC
  <2>2. req[q] \in RequestState
    BY <1>0 DEF TypeOK
  <2>3. approval' \in [Ids -> ApprovalRow \cup {NoRow}]
    BY <1>0, <1>2, <2>2 DEF TypeOK, ParkRequest, RequestState, ApprovalRow, Ids
  <2>4. QED
    BY <1>0, <1>2, <2>1, <2>3 DEF TypeOK, ParkRequest
<1>3. ASSUME NEW q \in Requests, MarkExecuted(q)
      PROVE  TypeOK'
  <2>1. req' \in [Requests -> RequestState]
    BY <1>0, <1>3, GoToType DEF MarkExecuted, RequestPC
  <2>2. Sanctioned(q)
    BY <1>3 DEF IInv, GatePassed, Admitted, MarkExecuted
  <2>3. approval[req[q].aid] # NoRow
    BY <2>2 DEF Sanctioned, NoRow
  <2>4. approval' \in [Ids -> ApprovalRow \cup {NoRow}]
    <3>1. CASE approval' = [approval EXCEPT ![req[q].aid].status = "executed"]
      BY <1>0, <2>2, <2>3, <3>1, ApprovalUpdate DEF Sanctioned
    <3>2. CASE UNCHANGED approval
      BY <1>0, <3>2 DEF TypeOK
    <3>3. QED
      BY <1>3, <3>1, <3>2 DEF MarkExecuted
  <2>5. QED
    BY <1>0, <1>3, <2>1, <2>4 DEF TypeOK, MarkExecuted
<1>4. ASSUME NEW q \in Requests, Collect(q)
      PROVE  TypeOK'
  <2>1. req[q] \in RequestState
    BY <1>0 DEF TypeOK
  <2>2. PICK e \in BOOLEAN :
          req' = [req EXCEPT ![q].pc = "store",
                             ![q].diff = Collected(req[q].pairing, e, q)]
    BY <1>4 DEF Collect
  <2>3. Collected(req[q].pairing, e, q) \in Diff
    BY <1>0, <2>1, CollectedIsDiff DEF RequestState
  <2>4. DEFINE d == Collected(req[q].pairing, e, q)
               s == [req[q] EXCEPT !.pc = "store", !.diff = d]
  <2>5. req' \in [Requests -> RequestState]
    <3>1. req' = [req EXCEPT ![q].pc = "store", ![q].diff = d]
      BY <2>2
    <3>2. d \in Diff
      BY <2>3
    <3> HIDE DEF d
    <3>3. req' = [req EXCEPT ![q] = s]
      BY <3>1
    <3>4. s \in RequestState
      BY <2>1, <3>2, StoredType
    <3>5. QED
      BY <1>0, <3>3, <3>4, RequestUpdate
  <2>6. QED
    BY <1>0, <1>4, <2>5 DEF TypeOK, Collect
<1>5. ASSUME NEW q \in Requests, StoreDiff(q)
      PROVE  TypeOK'
  <2>1. req[q].diff \in Diff
    BY <1>5 DEF IInv, DiffInHand, StoreDiff
  <2>2. req[q].diff.errors \in BOOLEAN /\ req[q].pairing \in Pairings
    BY <1>0, <2>1 DEF Diff, TypeOK, RequestState
  <2>3. req' \in [Requests -> RequestState]
    BY <1>0, <1>5, <2>1, <2>2, WithBucketsType DEF StoreDiff
  <2>4. cache' \in [Pairings -> Diff \cup {NoDiff}]
    BY <1>0, <1>5, <2>1 DEF TypeOK, StoreDiff
  <2>5. QED
    BY <1>0, <1>5, <2>3, <2>4 DEF TypeOK, StoreDiff
<1>6. ASSUME NEW q \in Requests, CollectRaises(q)
      PROVE  TypeOK'
  <2>1. req[q].pairing \in Pairings
    BY <1>0 DEF TypeOK, RequestState
  <2>2. cache[req[q].pairing] \in Diff \cup {NoDiff}
    BY <1>0, <2>1 DEF TypeOK
  <2>3. CASE req[q].dry /\ cache[req[q].pairing] # NoDiff
    <3>1. cache[req[q].pairing] \in Diff /\ cache[req[q].pairing].errors \in BOOLEAN
      BY <2>2, <2>3 DEF Diff
    <3>2. WithBuckets(q, cache[req[q].pairing], cache[req[q].pairing].errors)
      BY <1>6, <2>3 DEF CollectRaises
    <3>3. req' \in [Requests -> RequestState]
      BY <1>0, <3>1, <3>2, WithBucketsType
    <3>4. QED
      BY <1>0, <1>6, <3>3 DEF TypeOK, CollectRaises
  <2>4. CASE ~(req[q].dry /\ cache[req[q].pairing] # NoDiff)
    <3>1. Collected(req[q].pairing, TRUE, q) \in Diff
      BY <1>0, <2>1, CollectedIsDiff
    <3>2. WithBuckets(q, Collected(req[q].pairing, TRUE, q), TRUE)
      BY <1>6, <2>4 DEF CollectRaises
    <3>3. req' \in [Requests -> RequestState]
      BY <1>0, <3>1, <3>2, WithBucketsType
    <3>4. QED
      BY <1>0, <1>6, <3>3 DEF TypeOK, CollectRaises
  <2>5. QED
    BY <2>3, <2>4
<1>7. ASSUME NEW q \in Requests, RecordStart(q)
      PROVE  TypeOK'
  <2>1. req' \in [Requests -> RequestState]
    BY <1>0, <1>7, GoToType DEF RecordStart, RequestPC
  <2>2. /\ jsonl' \in [Requests -> Seq({"started"} \cup Outcomes)]
        /\ mirror' \in [Requests -> MirrorRow]
    BY <1>0, <1>7, WriteRecordType DEF RecordStart
  <2>3. QED
    BY <1>0, <1>7, <2>1, <2>2 DEF TypeOK, RecordStart
<1>8. ASSUME NEW q \in Requests, RecordStartFails(q)
      PROVE  TypeOK'
  <2>1. req[q] \in RequestState
    BY <1>0 DEF TypeOK
  <2>2. [req[q] EXCEPT !.error = TRUE] \in RequestState
    BY <2>1 DEF RequestState
  <2>3. req' \in [Requests -> RequestState]
    BY <1>0, <1>8, <2>2, RequestUpdate DEF RecordStartFails
  <2>4. QED
    BY <1>0, <1>8, <2>3 DEF TypeOK, RecordStartFails
<1>9. ASSUME NEW q \in Requests, RecordOutcome(q)
      PROVE  TypeOK'
  <2>1. req' \in [Requests -> RequestState]
    BY <1>0, <1>9, GoToType DEF RecordOutcome, RequestPC
  <2>2. OutcomeOf(q) \in {"started"} \cup Outcomes
    BY DEF OutcomeOf, Outcomes
  <2>3. req[q].ok \in SUBSET Rows
    BY <1>0 DEF TypeOK, RequestState
  <2>4. /\ jsonl' \in [Requests -> Seq({"started"} \cup Outcomes)]
        /\ mirror' \in [Requests -> MirrorRow]
    BY <1>0, <1>9, <2>2, <2>3, WriteRecordType DEF RecordOutcome
  <2>5. QED
    BY <1>0, <1>9, <2>1, <2>4 DEF TypeOK, RecordOutcome
<1>10. ASSUME NEW q \in Requests, NEW r \in Rows,
              PreviewRow(q, r) \/ SkipRow(q, r)
       PROVE  TypeOK'
  <2>1. req \in [Requests -> RequestState] /\ wrote \in [Requests -> SUBSET Rows]
    BY <1>0 DEF TypeOK
  <2>2. req' \in [Requests -> RequestState]
    <3>1. CASE PreviewRow(q, r)
      BY <1>0, <2>1, <3>1, RowReportType DEF PreviewRow
    <3>2. CASE SkipRow(q, r)
      BY <1>0, <2>1, <3>2, RowReportType DEF SkipRow
    <3>3. QED
      BY <1>10, <3>1, <3>2
  <2>3. wrote' \in [Requests -> SUBSET Rows]
    BY <1>10, <2>1 DEF PreviewRow, SkipRow
  <2>4. QED
    BY <1>0, <1>10, <2>2, <2>3 DEF TypeOK, PreviewRow, SkipRow
<1>11. ASSUME NEW q \in Requests, NEW r \in Rows,
              GrantRow(q, r) \/ FailRow(q, r) \/ RaiseInRow(q, r)
       PROVE  TypeOK'
  <2>1. /\ req \in [Requests -> RequestState]
        /\ missing \in [Pairings -> Bucket]
        /\ wrote \in [Requests -> SUBSET Rows] /\ changed \in [Requests -> SUBSET Rows]
        /\ req[q].pairing \in Pairings /\ req[q].dir \in Directions
    BY <1>0 DEF TypeOK, RequestState
  <2>2. req' \in [Requests -> RequestState]
    <3>1. CASE GrantRow(q, r)
      BY <1>0, <2>1, <3>1, RowReportType DEF GrantRow
    <3>2. CASE FailRow(q, r)
      BY <1>0, <2>1, <3>2, RowReportType DEF FailRow
    <3>3. CASE RaiseInRow(q, r)
      BY <1>0, <3>3, GoToType DEF RaiseInRow, RequestPC
    <3>4. QED
      BY <1>11, <3>1, <3>2, <3>3
  <2>3. SendRow(q, r) \/ UNCHANGED platforms
    BY <1>11 DEF GrantRow, FailRow, RaiseInRow, MaySend
  <2>4. wrote' \in [Requests -> SUBSET Rows]
    BY <1>0, <2>1, <2>3, BooksType DEF SendRow
  <2>5. missing' \in [Pairings -> Bucket]
    BY <1>0, <2>1, <2>3, BucketType DEF SendRow
  <2>6. changed' \in [Requests -> SUBSET Rows]
    BY <1>0, <2>1, <2>3, BooksType DEF SendRow
  <2>7. QED
    BY <1>0, <1>11, <2>2, <2>4, <2>5, <2>6 DEF TypeOK, GrantRow, FailRow, RaiseInRow
<1>12. ASSUME NEW a \in Ids, NEW verdict \in {"approved", "rejected"}, Decide(a, verdict)
       PROVE  TypeOK'
  <2>1. approval[a] # NoRow
    BY <1>12 DEF Decide, NoRow
  <2>2. approval' \in [Ids -> ApprovalRow \cup {NoRow}]
    BY <1>0, <1>12, <2>1, ApprovalUpdate DEF Decide
  <2>3. QED
    BY <1>0, <1>12, <2>2 DEF TypeOK, Decide
<1>13. ASSUME NEW v \in Viewers, ViewStep(v)
       PROVE  TypeOK'
  <2>1. view[v] \in ViewState
    BY <1>0 DEF TypeOK
  <2>2. CASE ViewCollect(v)
    <3>1. PICK e \in BOOLEAN :
            view' = [view EXCEPT ![v].pc = "store",
                                 ![v].diff = Collected(view[v].pairing, e, v)]
      BY <2>2 DEF ViewCollect
    <3>2. Collected(view[v].pairing, e, v) \in Diff
      BY <1>0, <2>1, CollectedIsDiff DEF ViewState
    <3>3. view' \in [Viewers -> ViewState]
      BY <1>0, <2>1, <3>1, <3>2 DEF TypeOK, ViewState
    <3>4. QED
      BY <1>0, <2>2, <3>3 DEF TypeOK, ViewCollect
  <2>3. CASE ViewStore(v)
    BY <1>0, <2>1, <2>3 DEF TypeOK, ViewStore, ViewState
  <2>4. CASE ViewDone(v)
    BY <1>0, <2>1, <2>4 DEF TypeOK, ViewDone, ViewState
  <2>5. ASSUME NEW p \in Pairings, ViewCached(v, p) \/ ViewCompute(v, p)
        PROVE  TypeOK'
    <3>1. [pc |-> "show", pairing |-> p, diff |-> cache[p]] \in ViewState
      BY <1>0 DEF TypeOK, ViewState
    <3>2. [pc |-> "collect", pairing |-> p, diff |-> NoDiff] \in ViewState
      BY DEF ViewState
    <3>3. view' \in [Viewers -> ViewState]
      BY <1>0, <2>5, <3>1, <3>2 DEF TypeOK, ViewCached, ViewCompute
    <3>4. QED
      BY <1>0, <2>5, <3>3 DEF TypeOK, ViewCached, ViewCompute
  <2>6. QED
    BY <1>13, <2>2, <2>3, <2>4, <2>5 DEF ViewStep
<1>14. ASSUME NEW p \in Pairings, CacheExpires(p)
       PROVE  TypeOK'
  BY <1>0, <1>14 DEF TypeOK, CacheExpires
<1>15. ASSUME NEW p \in Pairings, NEW d \in Directions, NEW r \in ExternalRows,
              ExternalGrant(p, d, r) \/ ExternalRevoke(p, d, r)
       PROVE  TypeOK'
  <2>1. r \in Rows
    BY ApplyFlowAssumption
  <2>2. missing' \in [Pairings -> Bucket]
    BY <1>0, <1>15, <2>1, BucketType DEF ExternalGrant, ExternalRevoke
  <2>3. changed' \in [Requests -> SUBSET Rows]
    BY <1>0, <1>15 DEF TypeOK, ExternalGrant, ExternalRevoke
  <2>4. QED
    BY <1>0, <1>15, <2>2, <2>3 DEF TypeOK, ExternalGrant, ExternalRevoke
<1>16. CASE Restart
  <2>1. req' \in [Requests -> RequestState]
    <3>1. ASSUME NEW q \in Requests
          PROVE  [req[q] EXCEPT !.pc = "killed", !.diff = NoDiff] \in RequestState
      <4>1. req[q] \in RequestState
        BY <1>0 DEF TypeOK
      <4>2. QED
        BY <4>1 DEF RequestState, RequestPC
    <3>2. QED
      BY <1>0, <1>16, <3>1 DEF TypeOK, Restart
  <2>2. view' \in [Viewers -> ViewState]
    BY <1>0, <1>16 DEF TypeOK, Restart, ViewState
  <2>3. QED
    BY <1>0, <1>16, <2>1, <2>2 DEF TypeOK, Restart
<1>17. CASE UNCHANGED vars
  BY <1>0, <1>17 DEF TypeOK, vars
<1>18. QED
  BY <1>1, <1>2, <1>3, <1>4, <1>5, <1>6, <1>7, <1>8, <1>9, <1>10, <1>11, <1>12,
     <1>13, <1>14, <1>15, <1>16, <1>17, NextCases

-----------------------------------------------------------------------------
(* What a step may do to one request *)

BeforeApply == {"idle", "gate", "collect", "store", "begin"}

\* The form a request came with never changes, and neither a write nor a
\* program counter past a checkpoint comes from nowhere.
Evolves(q) ==
  /\ /\ req'[q].aid = req[q].aid /\ req'[q].dry = req[q].dry
     /\ req'[q].pairing = req[q].pairing /\ req'[q].dir = req[q].dir
  /\ wrote'[q] # wrote[q] => req[q].pc = "apply" /\ ~req[q].dry
  /\ req'[q].pc \in Arriving => req[q].pc \in Arriving
  /\ req'[q].pc \in Unwritten => req[q].pc \in Unwritten
  /\ req'[q].pc \in BeforeApply => req[q].pc \in BeforeApply /\ jsonl'[q] = jsonl[q]
  /\ req'[q].pc \in Admitted => req[q].pc \in Admitted \/ (Gated(q) => HasApproval(q))
  /\ ~req[q].dry /\ req'[q].pc \in {"apply", "record"} =>
       \/ req[q].pc \in {"apply", "record"}
       \/ req[q].pc \in BeforeApply /\ jsonl'[q] = Append(jsonl[q], "started")
  /\ \/ jsonl'[q] = jsonl[q]
     \/ \E s \in {"started"} \cup Outcomes : jsonl'[q] = Append(jsonl[q], s)

\* A step that leaves request q's locals, records and writes alone.
Untouched(q) ==
  /\ req'[q] = req[q] /\ wrote'[q] = wrote[q]
  /\ jsonl'[q] = jsonl[q] /\ mirror'[q] = mirror[q]

\* Leaving a request alone is one way for it to evolve.
LEMMA UntouchedEvolves ==
  ASSUME NEW q \in Requests, Untouched(q)
  PROVE  Evolves(q)
BY DEF Untouched, Evolves

\* A step of one request leaves the others alone.
LEMMA OthersUntouched ==
  ASSUME TypeOK, NEW x \in Requests, NEW q \in Requests, q # x,
         \/ Arrive(x) \/ PassGate(x) \/ ParkRequest(x)
         \/ Collect(x) \/ StoreDiff(x) \/ CollectRaises(x)
         \/ RecordStart(x) \/ RecordStartFails(x) \/ MarkExecuted(x)
         \/ RecordOutcome(x) \/ RecordOutcomeFails(x) \/ Respond(x)
         \/ \E r \in Rows : GrantRow(x, r) \/ PreviewRow(x, r) \/ SkipRow(x, r)
                            \/ FailRow(x, r) \/ RaiseInRow(x, r)
  PROVE  Untouched(q)
<1> USE DEF platforms, audit, Untouched, GoTo, Finish
<1>1. /\ req \in [Requests -> RequestState]
      /\ jsonl \in [Requests -> Seq({"started"} \cup Outcomes)]
      /\ mirror \in [Requests -> MirrorRow]
      /\ wrote \in [Requests -> SUBSET Rows]
  BY DEF TypeOK
<1>2. CASE Arrive(x) \/ PassGate(x) \/ ParkRequest(x) \/ Collect(x)
  BY <1>1, <1>2 DEF Arrive, PassGate, ParkRequest, Collect
<1>3. CASE StoreDiff(x) \/ CollectRaises(x)
  BY <1>1, <1>3 DEF StoreDiff, CollectRaises, WithBuckets
<1>4. CASE RecordStart(x) \/ RecordStartFails(x) \/ MarkExecuted(x)
  BY <1>1, <1>4 DEF RecordStart, RecordStartFails, MarkExecuted, WriteRecord
<1>5. CASE RecordOutcome(x) \/ RecordOutcomeFails(x) \/ Respond(x)
  BY <1>1, <1>5 DEF RecordOutcome, RecordOutcomeFails, Respond, WriteRecord
<1>6. ASSUME NEW r \in Rows, GrantRow(x, r) \/ PreviewRow(x, r) \/ SkipRow(x, r)
                             \/ FailRow(x, r) \/ RaiseInRow(x, r)
      PROVE  Untouched(q)
  BY <1>1, <1>6 DEF GrantRow, PreviewRow, SkipRow, FailRow, RaiseInRow, MaySend, SendRow
<1>7. QED
  BY <1>2, <1>3, <1>4, <1>5, <1>6

\* A row that is reported leaves the rows to apply for one of the three lists of
\* outcomes; the rest of the request stays.
RowReported(s, t, r) ==
  \/ t = [s EXCEPT !.todo = @ \ {r}, !.ok = @ \cup {r}]
  \/ t = [s EXCEPT !.todo = @ \ {r}, !.skipped = @ \cup {r}]
  \/ t = [s EXCEPT !.todo = @ \ {r}, !.failed = @ \cup {r}]

LEMMA RowFields ==
  ASSUME NEW s \in RequestState, NEW r \in Rows, NEW t, RowReported(s, t, r)
  PROVE  /\ t.pc = s.pc /\ t.pairing = s.pairing /\ t.dir = s.dir /\ t.dry = s.dry
         /\ t.sel = s.sel /\ t.aid = s.aid /\ t.diff = s.diff /\ t.error = s.error
         /\ t.todo = s.todo \ {r}
         /\ s.ok \subseteq t.ok /\ s.failed \subseteq t.failed
<1>1. CASE t = [s EXCEPT !.todo = @ \ {r}, !.ok = @ \cup {r}]
  BY <1>1 DEF RequestState
<1>2. CASE t = [s EXCEPT !.todo = @ \ {r}, !.skipped = @ \cup {r}]
  BY <1>2 DEF RequestState
<1>3. CASE t = [s EXCEPT !.todo = @ \ {r}, !.failed = @ \cup {r}]
  BY <1>3 DEF RequestState
<1>4. QED
  BY <1>1, <1>2, <1>3 DEF RowReported

\* Every step of a request is one that Evolves allows.
LEMMA OwnStep ==
  ASSUME TypeOK, NEW q \in Requests,
         \/ Arrive(q) \/ PassGate(q) \/ ParkRequest(q)
         \/ Collect(q) \/ StoreDiff(q) \/ CollectRaises(q)
         \/ RecordStart(q) \/ RecordStartFails(q) \/ MarkExecuted(q)
         \/ RecordOutcome(q) \/ RecordOutcomeFails(q) \/ Respond(q)
         \/ \E r \in Rows : GrantRow(q, r) \/ PreviewRow(q, r) \/ SkipRow(q, r)
                            \/ FailRow(q, r) \/ RaiseInRow(q, r)
  PROVE  Evolves(q)
<1> USE DEF platforms, audit, Evolves, GoTo, Finish, Arriving, Unwritten, Admitted,
            BeforeApply
<1>1. /\ req \in [Requests -> RequestState]
      /\ jsonl \in [Requests -> Seq({"started"} \cup Outcomes)]
      /\ wrote \in [Requests -> SUBSET Rows]
      /\ req[q] \in RequestState
  BY DEF TypeOK
<1>2. CASE Arrive(q) \/ PassGate(q) \/ ParkRequest(q)
  BY <1>1, <1>2 DEF Arrive, PassGate, ParkRequest, RequestState
<1>3. CASE Collect(q)
  <2>1. PICK e \in BOOLEAN :
          req' = [req EXCEPT ![q].pc = "store",
                             ![q].diff = Collected(req[q].pairing, e, q)]
    BY <1>3 DEF Collect
  <2>2. /\ req'[q].aid = req[q].aid /\ req'[q].dry = req[q].dry
        /\ req'[q].pairing = req[q].pairing /\ req'[q].dir = req[q].dir /\ req'[q].pc = "store"
    BY <1>1, <2>1 DEF RequestState
  <2>3. req[q].pc = "collect" /\ wrote' = wrote /\ jsonl' = jsonl
    BY <1>3 DEF Collect
  <2>4. QED
    BY <2>2, <2>3
<1>4. CASE StoreDiff(q) \/ CollectRaises(q)
  <2>1. PICK diff, e : WithBuckets(q, diff, e)
    BY <1>4 DEF StoreDiff, CollectRaises
  <2>2. /\ req'[q].aid = req[q].aid /\ req'[q].dry = req[q].dry
        /\ req'[q].pairing = req[q].pairing /\ req'[q].dir = req[q].dir
        /\ req'[q].pc = IF req[q].dry /\ ~e THEN "apply" ELSE "begin"
    BY <1>1, <2>1 DEF WithBuckets, RequestState
  <2>3. req[q].pc \in {"collect", "store"} /\ wrote' = wrote /\ jsonl' = jsonl
    BY <1>4 DEF StoreDiff, CollectRaises
  <2>4. QED
    BY <2>2, <2>3
<1>5. CASE RecordStart(q) \/ RecordStartFails(q)
  <2>1. /\ req'[q].aid = req[q].aid /\ req'[q].dry = req[q].dry
        /\ req'[q].pairing = req[q].pairing /\ req'[q].dir = req[q].dir
        /\ req[q].pc = "begin" /\ wrote' = wrote
    BY <1>1, <1>5 DEF RecordStart, RecordStartFails, RequestState
  <2>2. CASE RecordStart(q)
    <3>1. req'[q].pc = "apply" /\ jsonl'[q] = Append(jsonl[q], "started")
      BY <1>1, <2>2 DEF RecordStart, WriteRecord, RequestState
    <3>2. QED
      BY <2>1, <3>1
  <2>3. CASE RecordStartFails(q)
    <3>1. req'[q].pc = "begin" /\ jsonl'[q] = jsonl[q]
      BY <1>1, <2>1, <2>3 DEF RecordStartFails, RequestState
    <3>2. QED
      BY <2>1, <3>1
  <2>4. QED
    BY <1>5, <2>2, <2>3
<1>6. CASE MarkExecuted(q) \/ RecordOutcomeFails(q) \/ Respond(q)
  BY <1>1, <1>6 DEF MarkExecuted, RecordOutcomeFails, Respond, ReadyToRecord, RequestState
<1>7. CASE RecordOutcome(q)
  BY <1>1, <1>7 DEF RecordOutcome, WriteRecord, ReadyToRecord, OutcomeOf, Outcomes,
                    RequestState
<1>8. ASSUME NEW r \in Rows, GrantRow(q, r) \/ PreviewRow(q, r) \/ SkipRow(q, r)
                             \/ FailRow(q, r) \/ RaiseInRow(q, r)
      PROVE  Evolves(q)
  <2>1. req[q].pc = "apply" /\ jsonl' = jsonl
    BY <1>8 DEF GrantRow, PreviewRow, SkipRow, FailRow, RaiseInRow, Applying
  <2>2. wrote' = wrote \/ ~req[q].dry
    BY <1>8 DEF GrantRow, PreviewRow, SkipRow, FailRow, RaiseInRow, MaySend
  <2>3. CASE RaiseInRow(q, r)
    <3>1. /\ req'[q].aid = req[q].aid /\ req'[q].dry = req[q].dry
          /\ req'[q].pairing = req[q].pairing /\ req'[q].dir = req[q].dir /\ req'[q].pc = "error500"
      BY <1>1, <2>3 DEF RaiseInRow, RequestState
    <3>2. QED
      BY <2>1, <2>2, <3>1
  <2>4. CASE \/ GrantRow(q, r) \/ PreviewRow(q, r) \/ SkipRow(q, r) \/ FailRow(q, r)
    <3>1. RowReported(req[q], req'[q], r)
      BY <1>1, <2>4 DEF GrantRow, PreviewRow, SkipRow, FailRow, RowReported
    <3>2. /\ req'[q].aid = req[q].aid /\ req'[q].dry = req[q].dry
          /\ req'[q].pairing = req[q].pairing /\ req'[q].dir = req[q].dir /\ req'[q].pc = "apply"
      BY <1>1, <2>1, <3>1, RowFields
    <3>3. QED
      BY <2>1, <2>2, <3>2
  <2>5. QED
    BY <1>8, <2>3, <2>4
<1>9. QED
  BY <1>2, <1>3, <1>4, <1>5, <1>6, <1>7, <1>8

\* A restart kills the requests in flight and touches nothing else of theirs.
LEMMA RestartEvolves ==
  ASSUME TypeOK, NEW q \in Requests, Restart
  PROVE  Evolves(q)
<1>1. req[q] \in RequestState
  BY DEF TypeOK
<1>2. req'[q] = req[q] \/ req'[q] = [req[q] EXCEPT !.pc = "killed", !.diff = NoDiff]
  BY DEF Restart
<1>3. jsonl' = jsonl /\ mirror' = mirror /\ wrote' = wrote
  BY DEF Restart, platforms, audit
<1>4. CASE req'[q] = req[q]
  BY <1>3, <1>4, UntouchedEvolves DEF Untouched
<1>5. CASE req'[q] = [req[q] EXCEPT !.pc = "killed", !.diff = NoDiff]
  <2>1. /\ req'[q].aid = req[q].aid /\ req'[q].dry = req[q].dry
        /\ req'[q].pairing = req[q].pairing /\ req'[q].dir = req[q].dir /\ req'[q].pc = "killed"
    BY <1>1, <1>5 DEF RequestState
  <2>2. QED
    BY <1>3, <2>1 DEF Evolves, Arriving, Unwritten, Admitted, BeforeApply
<1>6. QED
  BY <1>2, <1>4, <1>5

\* Every step of the system lets every request evolve as Evolves says.
LEMMA StepEvolves ==
  ASSUME TypeOK, [Next]_vars, NEW q \in Requests
  PROVE  Evolves(q)
<1> USE DEF platforms, audit
<1>1. ASSUME NEW x \in Requests,
             \/ Arrive(x) \/ PassGate(x) \/ ParkRequest(x)
             \/ Collect(x) \/ StoreDiff(x) \/ CollectRaises(x)
             \/ RecordStart(x) \/ RecordStartFails(x) \/ MarkExecuted(x)
             \/ RecordOutcome(x) \/ RecordOutcomeFails(x) \/ Respond(x)
             \/ \E r \in Rows : GrantRow(x, r) \/ PreviewRow(x, r) \/ SkipRow(x, r)
                                \/ FailRow(x, r) \/ RaiseInRow(x, r)
      PROVE  Evolves(q)
  <2>1. CASE q = x
    BY <1>1, <2>1, OwnStep
  <2>2. CASE q # x
    BY <1>1, <2>2, OthersUntouched, UntouchedEvolves
  <2>3. QED
    BY <2>1, <2>2
<1>2. ASSUME NEW a \in Ids, NEW verdict \in {"approved", "rejected"}, Decide(a, verdict)
      PROVE  Evolves(q)
  BY <1>2, UntouchedEvolves DEF Decide, Untouched
<1>3. ASSUME NEW v \in Viewers, ViewStep(v)
      PROVE  Evolves(q)
  BY <1>3, UntouchedEvolves
     DEF ViewStep, ViewCached, ViewCompute, ViewCollect, ViewStore, ViewDone, Untouched
<1>4. ASSUME NEW p \in Pairings, CacheExpires(p)
      PROVE  Evolves(q)
  BY <1>4, UntouchedEvolves DEF CacheExpires, Untouched
<1>5. ASSUME NEW p \in Pairings, NEW d \in Directions, NEW r \in ExternalRows,
             ExternalGrant(p, d, r) \/ ExternalRevoke(p, d, r)
      PROVE  Evolves(q)
  BY <1>5, UntouchedEvolves DEF ExternalGrant, ExternalRevoke, Untouched
<1>6. CASE Restart
  BY <1>6, RestartEvolves
<1>7. CASE UNCHANGED vars
  BY <1>7, UntouchedEvolves DEF vars, Untouched
<1>8. QED
  BY <1>1, <1>2, <1>3, <1>4, <1>5, <1>6, <1>7, NextCases

-----------------------------------------------------------------------------
(* What a step may do to the approvals table *)

\* A consented approval stays so and keeps its pairing, and only a request at
\* the gate takes its own id.
TableEvolves ==
  /\ \A a \in Ids : approval[a].status \in {"approved", "executed"} =>
       /\ approval'[a].status \in {"approved", "executed"}
       /\ approval'[a].pairing = approval[a].pairing
  /\ \A q \in Requests : approval[q] = NoRow /\ approval'[q] # NoRow =>
       req'[q].pc = "redirected"

\* Requests at the gate, requests at their end and administrators are the only
\* writers of the approvals table.
LEMMA ApprovalSteps ==
  ASSUME [Next]_vars
  PROVE  \/ UNCHANGED approval
         \/ \E q \in Requests : ParkRequest(q) \/ MarkExecuted(q)
         \/ \E a \in Ids, verdict \in {"approved", "rejected"} : Decide(a, verdict)
<1>1. ASSUME NEW q \in Requests,
             \/ Arrive(q) \/ PassGate(q) \/ Collect(q) \/ StoreDiff(q) \/ CollectRaises(q)
             \/ RecordStart(q) \/ RecordStartFails(q)
             \/ RecordOutcome(q) \/ RecordOutcomeFails(q) \/ Respond(q)
      PROVE  UNCHANGED approval
  <2>1. CASE Arrive(q) \/ PassGate(q) \/ Collect(q) \/ StoreDiff(q) \/ CollectRaises(q)
    BY <2>1 DEF Arrive, PassGate, Collect, StoreDiff, CollectRaises
  <2>2. CASE RecordStart(q) \/ RecordStartFails(q)
    BY <2>2 DEF RecordStart, RecordStartFails
  <2>3. CASE RecordOutcome(q) \/ RecordOutcomeFails(q) \/ Respond(q)
    BY <2>3 DEF RecordOutcome, RecordOutcomeFails, Respond
  <2>4. QED
    BY <1>1, <2>1, <2>2, <2>3
<1>2. ASSUME NEW q \in Requests, NEW r \in Rows,
             \/ GrantRow(q, r) \/ PreviewRow(q, r) \/ SkipRow(q, r)
             \/ FailRow(q, r) \/ RaiseInRow(q, r)
      PROVE  UNCHANGED approval
  BY <1>2 DEF GrantRow, PreviewRow, SkipRow, FailRow, RaiseInRow
<1>3. ASSUME NEW v \in Viewers, ViewStep(v)
      PROVE  UNCHANGED approval
  BY <1>3 DEF ViewStep, ViewCached, ViewCompute, ViewCollect, ViewStore, ViewDone
<1>4. ASSUME NEW p \in Pairings, CacheExpires(p)
      PROVE  UNCHANGED approval
  BY <1>4 DEF CacheExpires
<1>5. ASSUME NEW p \in Pairings, NEW d \in Directions, NEW r \in ExternalRows,
             ExternalGrant(p, d, r) \/ ExternalRevoke(p, d, r)
      PROVE  UNCHANGED approval
  BY <1>5 DEF ExternalGrant, ExternalRevoke
<1>6. CASE Restart
  BY <1>6 DEF Restart
<1>7. CASE UNCHANGED vars
  BY <1>7 DEF vars
<1>8. QED
  BY <1>1, <1>2, <1>3, <1>4, <1>5, <1>6, <1>7, NextCases

\* Every step of the system treats the approvals table as TableEvolves says.
LEMMA StepTable ==
  ASSUME IInv, [Next]_vars
  PROVE  TableEvolves
<1>1. TypeOK
  BY DEF IInv
<1>2. CASE UNCHANGED approval
  BY <1>2 DEF TableEvolves
<1>3. ASSUME NEW q \in Requests, ParkRequest(q)
      PROVE  TableEvolves
  <2>1. approval[q] = NoRow
    BY <1>3 DEF IInv, IdIsFree, ParkRequest, Arriving
  <2>2. approval[q].status = "none"
    BY <2>1 DEF NoRow
  <2>3. req'[q].pc = "redirected"
    BY <1>1, <1>3 DEF TypeOK, ParkRequest, GoTo, RequestState
  <2>4. \A a \in Ids : a # q => approval'[a] = approval[a]
    BY <1>1, <1>3 DEF TypeOK, ParkRequest
  <2>5. QED
    BY <2>2, <2>3, <2>4 DEF TableEvolves, Ids
<1>4. ASSUME NEW x \in Ids, NEW st \in {"approved", "rejected", "executed"},
             approval[x] # NoRow, st # "executed" => approval[x].status = "pending",
             approval' = [approval EXCEPT ![x].status = st]
      PROVE  TableEvolves
  <2>1. approval[x] \in ApprovalRow
    BY <1>1, <1>4 DEF TypeOK
  <2>2. approval'[x] = [approval[x] EXCEPT !.status = st]
    BY <1>1, <1>4 DEF TypeOK
  <2>3. approval'[x].status = st /\ approval'[x].pairing = approval[x].pairing
    BY <2>1, <2>2 DEF ApprovalRow
  <2>4. \A a \in Ids : a # x => approval'[a] = approval[a]
    BY <1>1, <1>4 DEF TypeOK
  <2>5. QED
    BY <1>4, <2>3, <2>4 DEF TableEvolves, Ids
<1>5. ASSUME NEW a \in Ids, NEW verdict \in {"approved", "rejected"}, Decide(a, verdict)
      PROVE  TableEvolves
  <2>1. approval[a] # NoRow
    BY <1>5 DEF Decide, NoRow
  <2>2. QED
    BY <1>4, <1>5, <2>1 DEF Decide
<1>6. ASSUME NEW q \in Requests, MarkExecuted(q)
      PROVE  TableEvolves
  <2>1. Sanctioned(q)
    BY <1>6 DEF IInv, GatePassed, Admitted, MarkExecuted
  <2>2. approval[req[q].aid] # NoRow
    BY <2>1 DEF Sanctioned, NoRow
  <2>3. QED
    BY <1>2, <1>4, <1>6, <2>1, <2>2 DEF MarkExecuted, Sanctioned
<1>7. QED
  BY <1>2, <1>3, <1>5, <1>6, ApprovalSteps

-----------------------------------------------------------------------------
(* The inductive invariant *)

\* The inductive invariant holds initially.
LEMMA InvInit == Init => IInv
<1> SUFFICES ASSUME Init PROVE IInv
  OBVIOUS
<1>1. req \in [Requests -> RequestState]
  <2>1. Form \subseteq RequestState
    BY ApplyFlowAssumption DEF Form, RequestState, RequestPC
  <2>2. QED
    BY <2>1 DEF Init
<1>2. \A q \in Requests : req[q].pc = "idle"
  BY DEF Init, Form
<1>3. approval \in [Ids -> ApprovalRow \cup {NoRow}]
  BY DEF Init, Ids
<1>4. \A q \in Requests : approval[q] = NoRow
  BY ApplyFlowAssumption DEF Init, Ids
<1>5. /\ jsonl \in [Requests -> Seq({"started"} \cup Outcomes)]
      /\ mirror \in [Requests -> MirrorRow]
  BY DEF Init, MirrorRow
<1>6. view \in [Viewers -> ViewState]
  BY DEF Init, ViewState
<1>7. TypeOK
  BY <1>1, <1>3, <1>5, <1>6 DEF Init, TypeOK
<1>8. (\A q \in Requests : wrote[q] = {} /\ jsonl[q] = <<>>)
  BY DEF Init
<1>9. QED
  BY <1>2, <1>4, <1>7, <1>8
     DEF IInv, IdIsFree, NothingYet, TrailEmpty, DiffInHand, GatePassed, StartOnRecord,
         DryIsPure, Admitted

\* A request that is about to cache a diff holds one, after every step.
LEMMA DiffStep ==
  ASSUME IInv, [Next]_vars
  PROVE  DiffInHand'
<1> SUFFICES ASSUME NEW q \in Requests, req'[q].pc = "store"
             PROVE  req'[q].diff \in Diff
  BY DEF DiffInHand
<1> USE DEF platforms, audit
<1>1. /\ TypeOK /\ req \in [Requests -> RequestState] /\ req[q] \in RequestState
  BY DEF IInv, TypeOK
<1>2. CASE req'[q] = req[q]
  BY <1>2 DEF IInv, DiffInHand
<1>3. CASE Collect(q)
  <2>1. PICK e \in BOOLEAN :
          req' = [req EXCEPT ![q].pc = "store",
                             ![q].diff = Collected(req[q].pairing, e, q)]
    BY <1>3 DEF Collect
  <2>2. Collected(req[q].pairing, e, q) \in Diff
    BY <1>1, CollectedIsDiff DEF RequestState
  <2>3. QED
    BY <1>1, <2>1, <2>2 DEF RequestState
<1>4. CASE \/ Arrive(q) \/ PassGate(q) \/ ParkRequest(q)
           \/ StoreDiff(q) \/ CollectRaises(q)
           \/ RecordStart(q) \/ RecordStartFails(q) \/ MarkExecuted(q)
           \/ RecordOutcome(q) \/ RecordOutcomeFails(q) \/ Respond(q)
           \/ \E r \in Rows : GrantRow(q, r) \/ PreviewRow(q, r) \/ SkipRow(q, r)
                              \/ FailRow(q, r) \/ RaiseInRow(q, r)
  <2> USE DEF GoTo, Finish
  <2>1. CASE Arrive(q) \/ PassGate(q) \/ ParkRequest(q)
    BY <1>1, <2>1 DEF Arrive, PassGate, ParkRequest, RequestState
  <2>2. CASE StoreDiff(q) \/ CollectRaises(q)
    <3>1. PICK diff, e : WithBuckets(q, diff, e)
      BY <2>2 DEF StoreDiff, CollectRaises
    <3>2. req'[q].pc \in {"apply", "begin"}
      BY <1>1, <3>1 DEF WithBuckets, RequestState
    <3>3. QED
      BY <3>2
  <2>3. CASE RecordStart(q) \/ MarkExecuted(q) \/ RecordOutcome(q) \/ RecordOutcomeFails(q)
             \/ Respond(q)
    BY <1>1, <2>3
       DEF RecordStart, MarkExecuted, RecordOutcome, RecordOutcomeFails, Respond, RequestState
  <2>4. CASE RecordStartFails(q)
    BY <1>1, <2>4 DEF RecordStartFails, RequestState
  <2>5. ASSUME NEW r \in Rows, GrantRow(q, r) \/ PreviewRow(q, r) \/ SkipRow(q, r)
                               \/ FailRow(q, r) \/ RaiseInRow(q, r)
        PROVE  req'[q].pc # "store"
    <3>1. CASE RaiseInRow(q, r)
      BY <1>1, <3>1 DEF RaiseInRow, RequestState
    <3>2. CASE GrantRow(q, r) \/ PreviewRow(q, r) \/ SkipRow(q, r) \/ FailRow(q, r)
      <4>1. req[q].pc = "apply"
        BY <3>2 DEF GrantRow, PreviewRow, SkipRow, FailRow, Applying
      <4>2. RowReported(req[q], req'[q], r)
        BY <1>1, <3>2 DEF GrantRow, PreviewRow, SkipRow, FailRow, RowReported
      <4>3. QED
        BY <1>1, <4>1, <4>2, RowFields
    <3>3. QED
      BY <2>5, <3>1, <3>2
  <2>6. QED
    BY <1>4, <2>1, <2>2, <2>3, <2>4, <2>5
<1>5. CASE Restart
  <2>1. req'[q] = req[q] \/ req'[q] = [req[q] EXCEPT !.pc = "killed", !.diff = NoDiff]
    BY <1>5 DEF Restart
  <2>2. QED
    BY <1>1, <1>2, <2>1 DEF RequestState
<1>6. ASSUME NEW x \in Requests, x # q,
             \/ Arrive(x) \/ PassGate(x) \/ ParkRequest(x)
             \/ Collect(x) \/ StoreDiff(x) \/ CollectRaises(x)
             \/ RecordStart(x) \/ RecordStartFails(x) \/ MarkExecuted(x)
             \/ RecordOutcome(x) \/ RecordOutcomeFails(x) \/ Respond(x)
             \/ \E r \in Rows : GrantRow(x, r) \/ PreviewRow(x, r) \/ SkipRow(x, r)
                                \/ FailRow(x, r) \/ RaiseInRow(x, r)
      PROVE  req'[q] = req[q]
  BY <1>1, <1>6, OthersUntouched DEF Untouched
<1>7. req' = req \/ Restart \/ \E x \in Requests :
             \/ Arrive(x) \/ PassGate(x) \/ ParkRequest(x)
             \/ Collect(x) \/ StoreDiff(x) \/ CollectRaises(x)
             \/ RecordStart(x) \/ RecordStartFails(x) \/ MarkExecuted(x)
             \/ RecordOutcome(x) \/ RecordOutcomeFails(x) \/ Respond(x)
             \/ \E r \in Rows : GrantRow(x, r) \/ PreviewRow(x, r) \/ SkipRow(x, r)
                                \/ FailRow(x, r) \/ RaiseInRow(x, r)
  BY NextCases
     DEF vars, Decide, ViewStep, ViewCached, ViewCompute, ViewCollect, ViewStore, ViewDone,
         CacheExpires, ExternalGrant, ExternalRevoke
<1>8. QED
  BY <1>2, <1>3, <1>4, <1>5, <1>6, <1>7

\* The JSONL file is append-only: a start record at its head stays there.
LEMMA AuditedStays ==
  ASSUME TypeOK, [Next]_vars, NEW q \in Requests, Audited(q)
  PROVE  Audited(q)'
<1>1. Evolves(q)
  BY StepEvolves
<1>2. jsonl[q] \in Seq({"started"} \cup Outcomes)
  BY DEF TypeOK
<1>3. CASE jsonl'[q] = jsonl[q]
  BY <1>3 DEF Audited
<1>4. ASSUME NEW s \in {"started"} \cup Outcomes, jsonl'[q] = Append(jsonl[q], s)
      PROVE  Audited(q)'
  BY <1>2, <1>4 DEF Audited
<1>5. QED
  BY <1>1, <1>3, <1>4 DEF Evolves

\* Every step preserves the inductive invariant.
LEMMA InvStep == IInv /\ [Next]_vars => IInv'
<1> SUFFICES ASSUME IInv, [Next]_vars
             PROVE  IInv'
  OBVIOUS
<1>1. TypeOK /\ TypeOK'
  BY TypingStep DEF IInv
<1>2. \A q \in Requests : Evolves(q)
  BY <1>1, StepEvolves
<1>3. TableEvolves
  BY StepTable
<1>4. IdIsFree'
  <2> SUFFICES ASSUME NEW q \in Requests, req'[q].pc \in Arriving
               PROVE  approval'[q] = NoRow
    BY DEF IdIsFree
  <2>1. approval[q] = NoRow
    BY <1>2 DEF IInv, IdIsFree, Evolves
  <2>2. req'[q].pc # "redirected"
    BY DEF Arriving
  <2>3. QED
    BY <1>3, <2>1, <2>2 DEF TableEvolves
<1>5. NothingYet'
  BY <1>2 DEF IInv, NothingYet, Evolves, Unwritten
<1>6. TrailEmpty'
  BY <1>2 DEF IInv, TrailEmpty, Evolves, BeforeApply
<1>7. DiffInHand'
  BY DiffStep
<1>8. GatePassed'
  <2> SUFFICES ASSUME NEW q \in Requests, Gated(q)',
                      req'[q].pc \in Admitted \/ wrote'[q] # {}
               PROVE  Sanctioned(q)'
    BY DEF GatePassed
  <2>1. Evolves(q)
    BY <1>2
  <2>2. Gated(q)
    BY <2>1 DEF Gated, Evolves
  <2>3. Sanctioned(q) \/ HasApproval(q)
    BY <2>1, <2>2 DEF IInv, GatePassed, Evolves, Admitted
  <2>4. Sanctioned(q)
    BY <2>3 DEF HasApproval, Sanctioned
  <2>5. QED
    BY <1>3, <2>1, <2>4 DEF TableEvolves, Sanctioned, Evolves
<1>9. StartOnRecord'
  <2> SUFFICES ASSUME NEW q \in Requests, ~req'[q].dry,
                      req'[q].pc \in {"apply", "record"} \/ wrote'[q] # {}
               PROVE  Audited(q)'
    BY DEF StartOnRecord, Audited
  <2>1. Evolves(q) /\ ~req[q].dry
    BY <1>2 DEF Evolves
  <2>2. CASE req[q].pc \in {"apply", "record"} \/ wrote[q] # {}
    BY <1>1, <2>1, <2>2, AuditedStays DEF IInv, StartOnRecord
  <2>3. CASE req[q].pc \in BeforeApply /\ jsonl'[q] = Append(jsonl[q], "started")
    <3>1. jsonl[q] = <<>>
      BY <2>3 DEF IInv, TrailEmpty, BeforeApply
    <3>2. QED
      BY <2>3, <3>1 DEF Audited
  <2>4. QED
    BY <2>1, <2>2, <2>3 DEF Evolves
<1>10. DryIsPure'
  BY <1>2 DEF IInv, DryIsPure, Evolves
<1>11. QED
  BY <1>1, <1>4, <1>5, <1>6, <1>7, <1>8, <1>9, <1>10 DEF IInv

\* The inductive invariant holds in every reachable state.
THEOREM Invariance == Spec => []IInv
BY InvInit, InvStep, PTL DEF Spec

\* Type correctness of the apply pipeline.
THEOREM TypeCorrect == Spec => []TypeOK
<1>1. IInv => TypeOK
  BY DEF IInv
<1>2. QED
  BY <1>1, Invariance, PTL

\* With REQUIRE_APPROVAL, a request that has written carries an approval of its
\* pairing that somebody has granted.
PairingHasConsent == \A q \in Requests : RequireApproval /\ wrote[q] # {} => Sanctioned(q)

\* The approval gate of apply_view: consent to some change set of the pairing is behind
\* every write, whatever other requests, deciders and restarts do.
THEOREM WritesHaveConsent == Spec => []PairingHasConsent
<1>1. IInv => PairingHasConsent
  BY DEF IInv, GatePassed, DryIsPure, PairingHasConsent, Gated
<1>2. QED
  BY <1>1, Invariance, PTL

\* record_permission_apply_start: the "started" record is in the JSONL file
\* before the first write, and stays its first record.
THEOREM WritesAreOnRecord == Spec => []WritesAreAudited
<1>1. IInv => WritesAreAudited
  BY DEF IInv, StartOnRecord, DryIsPure, WritesAreAudited, Audited
<1>2. QED
  BY <1>1, Invariance, PTL

-----------------------------------------------------------------------------
(* What a request has behind it                                              *)
(*                                                                           *)
(* The properties about writes, the trail and its mirror speak of what a     *)
(* request has done.  Behind says the same of the request on its way: what   *)
(* it holds before it writes, what the trail has while it applies its rows.  *)

\* The diff in hand is the request's own, without errors, and what has been or will
\* be written comes from the selection and this diff.
Verified(q) ==
  /\ req[q].diff \in Diff /\ req[q].diff.by = q /\ ~req[q].diff.errors
  /\ wrote[q] \cup req[q].todo \subseteq RowsToApply(q, req[q].diff)

MayWrite(q) ==
  /\ ~req[q].dry
  /\ \/ req[q].pc = "begin" /\ ~req[q].error
     \/ req[q].pc \in {"apply", "record"}
     \/ InFlight(q) /\ wrote[q] # {}

\* While its rows are applied, a real request has its start record and nothing
\* else in the trail, and each row it wrote has been reported.
Applied(q) ==
  /\ ~req[q].error
  /\ jsonl[q] = IF req[q].dry THEN <<>> ELSE <<"started">>
  /\ wrote[q] \subseteq req[q].ok \cup req[q].failed

Accounted(q) ==
  \A i \in DOMAIN jsonl[q] :
    /\ jsonl[q][i] = "blocked" => wrote[q] = {}
    /\ jsonl[q][i] = "completed" => wrote[q] \subseteq req[q].ok
    /\ jsonl[q][i] # "started" /\ wrote[q] # {} => i > 1 /\ jsonl[q][i - 1] = "started"

Mirrored(q) ==
  mirror[q].status # "none" => \E i \in DOMAIN jsonl[q] : jsonl[q][i] = mirror[q].status

Behind(q) ==
  /\ req[q].pc = "store" => req[q].diff.by = q
  /\ MayWrite(q) => Verified(q)
  /\ req[q].pc \in {"apply", "record"} => Applied(q)
  /\ Accounted(q)
  /\ Mirrored(q)

\* A step that leaves a request alone leaves alone what it has behind it.
LEMMA UntouchedBehind ==
  ASSUME NEW q \in Requests, Behind(q), Untouched(q)
  PROVE  Behind(q)'
BY DEF Untouched, Behind, MayWrite, InFlight, Verified, RowsToApply, Applied, Accounted, Mirrored

\* The trail and what it accounts for stay, and the request is not about to write:
\* it has written nothing yet, or is no longer served.
LEMMA QuietBehind ==
  ASSUME NEW q \in Requests, Behind(q),
         wrote'[q] = wrote[q], jsonl'[q] = jsonl[q], mirror'[q] = mirror[q],
         req'[q].ok = req[q].ok,
         req'[q].pc \notin {"store", "apply", "record"},
         MayWrite(q)' => Verified(q)'
  PROVE  Behind(q)'
BY DEF Behind, Accounted, Mirrored

\* On the way to the diff nothing has been written.
LEMMA EarlyBehind ==
  ASSUME IInv, NEW q \in Requests, Behind(q),
         Arrive(q) \/ PassGate(q) \/ ParkRequest(q)
  PROVE  Behind(q)'
<1> USE DEF platforms, audit
<1>1. req \in [Requests -> RequestState] /\ req[q] \in RequestState
  BY DEF IInv, TypeOK
<1>2. /\ wrote' = wrote /\ jsonl' = jsonl /\ mirror' = mirror
      /\ req'[q].pc \in {"gate", "redirected", "collect"} /\ req'[q].ok = req[q].ok
      /\ req[q].pc \in {"idle", "gate"}
  BY <1>1 DEF Arrive, PassGate, ParkRequest, GoTo, RequestState
<1>3. wrote[q] = {}
  BY <1>2 DEF IInv, NothingYet, Unwritten
<1>4. ~MayWrite(q)'
  BY <1>2, <1>3 DEF MayWrite
<1>5. QED
  BY <1>2, <1>4, QuietBehind

\* compute_diff is asked for by the request itself.
LEMMA CollectBehind ==
  ASSUME IInv, NEW q \in Requests, Behind(q), Collect(q)
  PROVE  Behind(q)'
<1> USE DEF platforms, audit
<1>1. req \in [Requests -> RequestState] /\ req[q] \in RequestState
  BY DEF IInv, TypeOK
<1>2. PICK e \in BOOLEAN :
        req' = [req EXCEPT ![q].pc = "store",
                           ![q].diff = Collected(req[q].pairing, e, q)]
  BY DEF Collect
<1>3. /\ wrote' = wrote /\ jsonl' = jsonl /\ mirror' = mirror
      /\ req[q].pc = "collect"
  BY DEF Collect
<1>4. /\ req'[q].pc = "store" /\ req'[q].ok = req[q].ok
      /\ req'[q].diff = Collected(req[q].pairing, e, q)
  BY <1>1, <1>2 DEF RequestState
<1>5. req'[q].diff.by = q
  BY <1>4 DEF Collected
<1>6. wrote[q] = {}
  BY <1>3 DEF IInv, NothingYet, Unwritten
<1>7. ~MayWrite(q)'
  BY <1>3, <1>4, <1>6 DEF MayWrite
<1>8. QED
  BY <1>3, <1>4, <1>5, <1>7 DEF Behind, Accounted, Mirrored

\* A real apply starts only from its own diff: a cached one serves dry runs, and
\* one with errors is not applied.
LEMMA BucketsBehind ==
  ASSUME IInv, NEW q \in Requests, Behind(q), StoreDiff(q) \/ CollectRaises(q)
  PROVE  Behind(q)'
<1> USE DEF platforms, audit
<1>1. req \in [Requests -> RequestState] /\ req[q] \in RequestState
  BY DEF IInv, TypeOK
<1>2. /\ wrote' = wrote /\ jsonl' = jsonl /\ mirror' = mirror
      /\ req[q].pc \in {"collect", "store"}
  BY DEF StoreDiff, CollectRaises
<1>3. wrote[q] = {} /\ jsonl[q] = <<>>
  BY <1>2 DEF IInv, NothingYet, Unwritten, TrailEmpty
<1>4. PICK diff, e :
        /\ WithBuckets(q, diff, e)
        /\ ~req[q].dry /\ ~e => diff \in Diff /\ diff.by = q /\ ~diff.errors
  <2>1. CASE StoreDiff(q)
    <3>1. req[q].diff \in Diff /\ req[q].diff.by = q
      BY <2>1 DEF StoreDiff, IInv, DiffInHand, Behind
    <3>2. WithBuckets(q, req[q].diff, req[q].diff.errors)
      BY <2>1 DEF StoreDiff
    <3>3. QED
      BY <3>1, <3>2
  <2>2. CASE CollectRaises(q) /\ ~req[q].dry
    <3>1. WithBuckets(q, Collected(req[q].pairing, TRUE, q), TRUE)
      BY <2>2 DEF CollectRaises
    <3>2. QED
      BY <3>1
  <2>3. CASE CollectRaises(q) /\ req[q].dry
    BY <2>3 DEF CollectRaises
  <2>4. QED
    BY <2>1, <2>2, <2>3
<1>5. /\ req'[q].pc = IF req[q].dry /\ ~e THEN "apply" ELSE "begin"
      /\ req'[q].diff = diff /\ req'[q].error = e
      /\ req'[q].todo = RowsToApply(q, diff)
      /\ req'[q].dry = req[q].dry /\ req'[q].ok = req[q].ok
      /\ req'[q].sel = req[q].sel /\ req'[q].dir = req[q].dir
  BY <1>1, <1>4 DEF WithBuckets, RequestState
<1>6. MayWrite(q)' => Verified(q)'
  <2> SUFFICES ASSUME MayWrite(q)' PROVE Verified(q)'
    OBVIOUS
  <2>1. ~req[q].dry /\ ~e
    BY <1>2, <1>3, <1>5 DEF MayWrite
  <2>2. RowsToApply(q, req[q].diff)' = RowsToApply(q, diff)
    BY <1>5 DEF RowsToApply
  <2>3. QED
    BY <1>2, <1>3, <1>4, <1>5, <2>1, <2>2 DEF Verified
<1>7. req'[q].pc \in {"apply", "record"} => Applied(q)'
  BY <1>2, <1>3, <1>5 DEF Applied
<1>8. Accounted(q)' /\ Mirrored(q)'
  BY <1>2, <1>3, <1>5 DEF Behind, Accounted, Mirrored
<1>9. QED
  BY <1>5, <1>6, <1>7, <1>8 DEF Behind

\* An append to the trail of q, which had at most its start record.
LEMMA AppendAccounted ==
  ASSUME TypeOK, NEW q \in Requests, NEW s \in {"started"} \cup Outcomes,
         NEW ok, WriteRecord(q, s, ok), Mirrored(q),
         wrote'[q] = wrote[q], req'[q].ok = req[q].ok,
         jsonl[q] \in {<<>>, <<"started">>},
         s = "blocked" => wrote[q] = {},
         s = "completed" => wrote[q] \subseteq req[q].ok,
         wrote[q] # {} => jsonl[q] = <<"started">>
  PROVE  Accounted(q)' /\ Mirrored(q)' /\ jsonl'[q] = Append(jsonl[q], s)
<1>1. /\ jsonl[q] \in Seq({"started"} \cup Outcomes) /\ mirror \in [Requests -> MirrorRow]
      /\ jsonl'[q] = Append(jsonl[q], s)
  BY DEF TypeOK, WriteRecord
<1>2. CASE jsonl[q] = <<>>
  <2>1. jsonl'[q] = <<s>>
    BY <1>1, <1>2
  <2>2. wrote[q] = {}
    BY <1>2
  <2>3. Accounted(q)'
    BY <2>1, <2>2 DEF Accounted
  <2>4. Mirrored(q)'
    BY <1>1, <1>2, <2>1 DEF Mirrored, WriteRecord
  <2>5. QED
    BY <1>1, <2>3, <2>4
<1>3. CASE jsonl[q] = <<"started">>
  <2>1. /\ DOMAIN jsonl'[q] = 1..2
        /\ jsonl'[q][1] = "started" /\ jsonl'[q][2] = s
    BY <1>1, <1>3
  <2>2. Accounted(q)'
    BY <2>1 DEF Accounted
  <2>3. Mirrored(q)'
    <3>1. mirror'[q].status \in {s, "none", "started"}
      <4>1. mirror[q].status \in {"none", "started"}
        BY <1>3 DEF Mirrored
      <4>2. QED
        BY <1>1, <4>1 DEF WriteRecord
    <3>2. 1 \in DOMAIN jsonl'[q] /\ 2 \in DOMAIN jsonl'[q]
      BY <2>1
    <3>3. jsonl'[q][1] = "started" /\ jsonl'[q][2] = s
      BY <2>1
    <3>4. QED
      BY <3>1, <3>2, <3>3 DEF Mirrored
  <2>4. QED
    BY <1>1, <2>2, <2>3
<1>4. QED
  BY <1>2, <1>3

\* The start record is the first of the trail.
LEMMA StartBehind ==
  ASSUME IInv, NEW q \in Requests, Behind(q), RecordStart(q)
  PROVE  Behind(q)'
<1> USE DEF platforms, audit
<1>1. TypeOK /\ req \in [Requests -> RequestState] /\ req[q] \in RequestState
  BY DEF IInv, TypeOK
<1>2. /\ req[q].pc = "begin" /\ ~req[q].error /\ ~req[q].dry
      /\ WriteRecord(q, "started", {}) /\ wrote' = wrote
      /\ req' = [req EXCEPT ![q].pc = "apply"]
  BY DEF RecordStart, GoTo
<1>3. jsonl[q] = <<>> /\ wrote[q] = {}
  BY <1>2 DEF IInv, NothingYet, Unwritten, TrailEmpty
<1>4. req'[q] = [req[q] EXCEPT !.pc = "apply"]
  BY <1>1, <1>2
<1>5. /\ req'[q].pc = "apply" /\ req'[q].dry = req[q].dry /\ req'[q].error = req[q].error
      /\ req'[q].ok = req[q].ok /\ req'[q].failed = req[q].failed
      /\ req'[q].diff = req[q].diff /\ req'[q].todo = req[q].todo
      /\ req'[q].sel = req[q].sel /\ req'[q].dir = req[q].dir
  BY <1>1, <1>4 DEF RequestState
<1>6. Accounted(q)' /\ Mirrored(q)' /\ jsonl'[q] = Append(jsonl[q], "started")
  BY <1>1, <1>2, <1>3, <1>5, AppendAccounted DEF Behind
<1>7. Verified(q)'
  <2>1. Verified(q)
    BY <1>2 DEF Behind, MayWrite
  <2>2. RowsToApply(q, req[q].diff)' = RowsToApply(q, req[q].diff)
    BY <1>5 DEF RowsToApply
  <2>3. QED
    BY <1>2, <1>5, <2>1, <2>2 DEF Verified
<1>8. Applied(q)'
  BY <1>2, <1>3, <1>5, <1>6 DEF Applied
<1>9. QED
  BY <1>5, <1>6, <1>7, <1>8 DEF Behind

\* A real request that cannot write its start record is blocked before it has
\* written anything; so is one that got no diff.
LEMMA StartFailsBehind ==
  ASSUME IInv, NEW q \in Requests, Behind(q), RecordStartFails(q)
  PROVE  Behind(q)'
<1> USE DEF platforms, audit
<1>1. req \in [Requests -> RequestState] /\ req[q] \in RequestState
  BY DEF IInv, TypeOK
<1>2. /\ wrote' = wrote /\ jsonl' = jsonl /\ mirror' = mirror /\ req[q].pc = "begin"
      /\ req'[q] = [req[q] EXCEPT !.error = TRUE]
  BY <1>1 DEF RecordStartFails
<1>3. req'[q].pc = "begin" /\ req'[q].error /\ req'[q].ok = req[q].ok
  BY <1>1, <1>2 DEF RequestState
<1>4. wrote[q] = {}
  BY <1>2 DEF IInv, NothingYet, Unwritten
<1>5. ~MayWrite(q)'
  BY <1>2, <1>3, <1>4 DEF MayWrite
<1>6. QED
  BY <1>2, <1>3, <1>5, QuietBehind

\* Moving on to the trail's end and to the page changes neither the diff in hand nor
\* what was written.
LEMMA OnwardBehind ==
  ASSUME IInv, NEW q \in Requests, Behind(q), wrote'[q] = wrote[q],
         \/ req[q].pc = "apply" /\ GoTo(q, "record")
         \/ req[q].pc \in {"begin", "apply", "record"} /\ GoTo(q, "invalidate")
  PROVE  /\ req'[q].ok = req[q].ok
         /\ MayWrite(q)' => Verified(q)'
         /\ req[q].pc \in {"apply", "record"} /\ jsonl'[q] = jsonl[q] => Applied(q)'
<1>1. req \in [Requests -> RequestState] /\ req[q] \in RequestState
  BY DEF IInv, TypeOK
<1>2. \/ /\ req[q].pc = "apply"
         /\ req'[q] = [req[q] EXCEPT !.pc = "record"]
      \/ /\ req[q].pc \in {"begin", "apply", "record"}
         /\ req'[q] = [req[q] EXCEPT !.pc = "invalidate"]
  BY <1>1 DEF GoTo
<1>3. /\ req'[q].ok = req[q].ok /\ req'[q].failed = req[q].failed
      /\ req'[q].dry = req[q].dry /\ req'[q].error = req[q].error
      /\ req'[q].diff = req[q].diff /\ req'[q].todo = req[q].todo
      /\ req'[q].sel = req[q].sel /\ req'[q].dir = req[q].dir
  BY <1>1, <1>2 DEF RequestState
<1>4. \/ req[q].pc = "apply" /\ req'[q].pc = "record"
      \/ req[q].pc \in {"begin", "apply", "record"} /\ req'[q].pc = "invalidate"
  BY <1>1, <1>2 DEF RequestState
<1>5. MayWrite(q)' => Verified(q)'
  <2> SUFFICES ASSUME MayWrite(q)' PROVE Verified(q)'
    OBVIOUS
  <2>1. ~req[q].dry
    BY <1>3 DEF MayWrite
  <2>2. ASSUME req[q].pc \in {"apply", "record"} PROVE Verified(q)
    BY <2>1, <2>2 DEF Behind, MayWrite
  <2>3. ASSUME req[q].pc = "begin" PROVE FALSE
    <3>1. req'[q].pc = "invalidate"
      BY <1>4, <2>3
    <3>2. wrote[q] # {}
      BY <3>1 DEF MayWrite
    <3>3. QED
      BY <2>3, <3>2 DEF IInv, NothingYet, Unwritten
  <2>4. Verified(q)
    BY <1>4, <2>2, <2>3
  <2>5. RowsToApply(q, req[q].diff)' = RowsToApply(q, req[q].diff)
    BY <1>3 DEF RowsToApply
  <2>6. QED
    BY <1>3, <2>4, <2>5 DEF Verified
<1>6. req[q].pc \in {"apply", "record"} /\ jsonl'[q] = jsonl[q] => Applied(q)'
  BY <1>3 DEF Behind, Applied
<1>7. QED
  BY <1>3, <1>5, <1>6

\* The approval is closed, or not.
LEMMA ClosedBehind ==
  ASSUME IInv, NEW q \in Requests, Behind(q), MarkExecuted(q)
  PROVE  Behind(q)'
<1>1. /\ wrote' = wrote /\ jsonl' = jsonl /\ mirror' = mirror
      /\ req[q].pc = "apply" /\ GoTo(q, "record")
  BY DEF MarkExecuted, platforms, audit
<1>2. /\ req'[q].pc = "record" /\ req'[q].ok = req[q].ok
      /\ MayWrite(q)' => Verified(q)'
      /\ Applied(q)'
  <2>1. wrote'[q] = wrote[q] /\ jsonl'[q] = jsonl[q]
    BY <1>1
  <2>2. req'[q].pc = "record"
    BY <1>1 DEF GoTo, IInv, TypeOK, RequestState
  <2>3. QED
    BY <1>1, <2>1, <2>2, OnwardBehind
<1>3. Accounted(q)' /\ Mirrored(q)'
  BY <1>1, <1>2 DEF Behind, Accounted, Mirrored
<1>4. QED
  BY <1>2, <1>3 DEF Behind

\* "blocked" is the outcome of a request that wrote nothing, "completed" that of one
\* without failures; a real request that has written has its start record.
LEMMA OutcomeBehind ==
  ASSUME IInv, NEW q \in Requests, Behind(q), RecordOutcome(q) \/ RecordOutcomeFails(q)
  PROVE  Behind(q)'
<1>1. /\ wrote' = wrote /\ GoTo(q, "invalidate") /\ ReadyToRecord(q)
      /\ \/ WriteRecord(q, OutcomeOf(q), req[q].ok)
         \/ jsonl' = jsonl /\ mirror' = mirror
  BY DEF RecordOutcome, RecordOutcomeFails, platforms, audit
<1>2. req[q].pc \in {"apply", "record"} \/ (req[q].pc = "begin" /\ req[q].error)
  BY <1>1 DEF ReadyToRecord
<1>3. /\ req'[q].pc = "invalidate" /\ req'[q].ok = req[q].ok
      /\ MayWrite(q)' => Verified(q)'
  <2>1. /\ wrote'[q] = wrote[q] /\ GoTo(q, "invalidate")
        /\ req[q].pc \in {"begin", "apply", "record"}
    BY <1>1, <1>2
  <2>2. req'[q].pc = "invalidate"
    BY <1>1 DEF GoTo, IInv, TypeOK, RequestState
  <2>3. req'[q].ok = req[q].ok
    BY <2>1, OnwardBehind
  <2>4. MayWrite(q)' => Verified(q)'
    BY <2>1, OnwardBehind
  <2>5. QED
    BY <2>2, <2>3, <2>4
<1>4. CASE jsonl' = jsonl /\ mirror' = mirror
  BY <1>1, <1>3, <1>4, QuietBehind
<1>5. CASE WriteRecord(q, OutcomeOf(q), req[q].ok)
  <2>1. /\ jsonl[q] \in {<<>>, <<"started">>}
        /\ wrote[q] # {} => jsonl[q] = <<"started">>
        /\ OutcomeOf(q) = "blocked" => wrote[q] = {}
        /\ OutcomeOf(q) = "completed" => wrote[q] \subseteq req[q].ok
    <3>1. CASE req[q].pc = "begin" /\ req[q].error
      <4>1. jsonl[q] = <<>> /\ wrote[q] = {}
        BY <3>1 DEF IInv, NothingYet, Unwritten, TrailEmpty
      <4>2. QED
        BY <4>1
    <3>2. CASE req[q].pc \in {"apply", "record"}
      <4>1. Applied(q) /\ (req[q].dry => wrote[q] = {})
        BY <3>2 DEF Behind, IInv, DryIsPure
      <4>2. ~req[q].error /\ wrote[q] \subseteq req[q].ok \cup req[q].failed
        BY <4>1 DEF Applied
      <4>3. OutcomeOf(q) # "blocked"
        BY <4>2 DEF OutcomeOf
      <4>4. OutcomeOf(q) = "completed" => req[q].failed = {}
        BY <4>2 DEF OutcomeOf
      <4>5. QED
        BY <4>1, <4>2, <4>3, <4>4 DEF Applied
    <3>3. QED
      BY <1>2, <3>1, <3>2
  <2>2. OutcomeOf(q) \in {"started"} \cup Outcomes
    BY DEF OutcomeOf, Outcomes
  <2>3. Accounted(q)' /\ Mirrored(q)'
    BY <1>1, <1>3, <1>5, <2>1, <2>2, AppendAccounted DEF IInv, Behind
  <2>4. QED
    BY <1>3, <2>3 DEF Behind
<1>6. QED
  BY <1>1, <1>4, <1>5

\* The page, an error 500 or a restart: the request is no longer served.
LEMMA LeaveBehind ==
  ASSUME NEW q \in Requests, Behind(q),
         wrote'[q] = wrote[q], jsonl'[q] = jsonl[q], mirror'[q] = mirror[q],
         req'[q].ok = req[q].ok, req'[q].pc \in {"done", "killed", "error500"}
  PROVE  Behind(q)'
<1>1. ~MayWrite(q)'
  BY DEF MayWrite, InFlight
<1>2. QED
  BY <1>1, QuietBehind

\* A row is taken from those left to apply, and reported.
LEMMA RowBehind ==
  ASSUME IInv, NEW q \in Requests, NEW r \in Rows, Behind(q),
         \/ GrantRow(q, r) \/ PreviewRow(q, r) \/ SkipRow(q, r) \/ FailRow(q, r)
  PROVE  Behind(q)'
<1> USE DEF platforms, audit
<1>1. /\ req \in [Requests -> RequestState] /\ req[q] \in RequestState
      /\ wrote \in [Requests -> SUBSET Rows]
  BY DEF IInv, TypeOK
<1>2. /\ jsonl' = jsonl /\ mirror' = mirror
      /\ req[q].pc = "apply" /\ r \in req[q].todo
  BY DEF GrantRow, PreviewRow, SkipRow, FailRow, Applying
<1>3. /\ \/ req'[q] = [req[q] EXCEPT !.todo = @ \ {r}, !.ok = @ \cup {r}]
         \/ req'[q] = [req[q] EXCEPT !.todo = @ \ {r}, !.skipped = @ \cup {r}]
                /\ wrote' = wrote
         \/ req'[q] = [req[q] EXCEPT !.todo = @ \ {r}, !.failed = @ \cup {r}]
      /\ \/ wrote' = wrote
         \/ wrote' = [wrote EXCEPT ![q] = @ \cup {r}] /\ ~req[q].dry
  BY <1>1 DEF GrantRow, PreviewRow, SkipRow, FailRow, MaySend, SendRow
<1>4. /\ req'[q].pc = "apply" /\ req'[q].dry = req[q].dry /\ req'[q].error = req[q].error
      /\ req'[q].diff = req[q].diff /\ req'[q].todo = req[q].todo \ {r}
      /\ req'[q].sel = req[q].sel /\ req'[q].dir = req[q].dir
      /\ req[q].ok \subseteq req'[q].ok /\ req[q].failed \subseteq req'[q].failed
  <2>1. RowReported(req[q], req'[q], r)
    BY <1>3 DEF RowReported
  <2>2. QED
    BY <1>1, <1>2, <2>1, RowFields
<1>5. /\ wrote'[q] \subseteq wrote[q] \cup {r}
      /\ wrote'[q] # wrote[q] => r \in req'[q].ok \cup req'[q].failed
  <2>1. wrote'[q] = wrote[q] \/ wrote'[q] = wrote[q] \cup {r}
    BY <1>1, <1>3
  <2>2. CASE req'[q] = [req[q] EXCEPT !.todo = @ \ {r}, !.ok = @ \cup {r}]
    <3>1. r \in req'[q].ok
      BY <1>1, <2>2 DEF RequestState
    <3>2. QED
      BY <2>1, <3>1
  <2>3. CASE wrote' = wrote
    BY <2>3
  <2>4. CASE req'[q] = [req[q] EXCEPT !.todo = @ \ {r}, !.failed = @ \cup {r}]
    <3>1. r \in req'[q].failed
      BY <1>1, <2>4 DEF RequestState
    <3>2. QED
      BY <2>1, <3>1
  <2>5. QED
    BY <1>3, <2>2, <2>3, <2>4
<1>6. Applied(q)
  BY <1>2 DEF Behind
<1>7. Applied(q)'
  <2>1. wrote'[q] \subseteq req'[q].ok \cup req'[q].failed
    <3>1. CASE wrote'[q] = wrote[q]
      BY <1>4, <1>6, <3>1 DEF Applied
    <3>2. CASE wrote'[q] # wrote[q]
      BY <1>4, <1>5, <1>6, <3>2 DEF Applied
    <3>3. QED
      BY <3>1, <3>2
  <2>2. QED
    BY <1>2, <1>4, <1>6, <2>1 DEF Applied
<1>8. MayWrite(q)' => Verified(q)'
  <2> SUFFICES ASSUME MayWrite(q)' PROVE Verified(q)'
    OBVIOUS
  <2>1. Verified(q)
    BY <1>2, <1>4 DEF Behind, MayWrite
  <2>2. RowsToApply(q, req[q].diff)' = RowsToApply(q, req[q].diff)
    BY <1>4 DEF RowsToApply
  <2>3. QED
    BY <1>2, <1>4, <1>5, <2>1, <2>2 DEF Verified
<1>9. Accounted(q)'
  <2>1. jsonl[q] = IF req[q].dry THEN <<>> ELSE <<"started">>
    BY <1>6 DEF Applied
  <2>2. QED
    BY <1>2, <2>1 DEF Accounted
<1>10. Mirrored(q)'
  BY <1>2 DEF Behind, Mirrored
<1>11. QED
  BY <1>4, <1>7, <1>8, <1>9, <1>10 DEF Behind

\* An error that escapes may leave a write that nobody reports, and no outcome.
LEMMA RaiseBehind ==
  ASSUME IInv, NEW q \in Requests, NEW r \in Rows, Behind(q), RaiseInRow(q, r)
  PROVE  Behind(q)'
<1> USE DEF platforms, audit
<1>1. req \in [Requests -> RequestState] /\ req[q] \in RequestState
  BY DEF IInv, TypeOK
<1>2. /\ jsonl' = jsonl /\ mirror' = mirror /\ req[q].pc = "apply"
      /\ req'[q] = [req[q] EXCEPT !.pc = "error500", !.diff = NoDiff]
  BY <1>1 DEF RaiseInRow, Applying, Finish
<1>3. req'[q].pc = "error500"
  BY <1>1, <1>2 DEF RequestState
<1>4. jsonl[q] \in {<<>>, <<"started">>}
  BY <1>2 DEF Behind, Applied
<1>5. Accounted(q)'
  BY <1>2, <1>4 DEF Accounted
<1>6. Mirrored(q)'
  BY <1>2 DEF Behind, Mirrored
<1>7. ~MayWrite(q)'
  BY <1>3 DEF MayWrite, InFlight
<1>8. QED
  BY <1>3, <1>5, <1>6, <1>7 DEF Behind

\* Every step keeps what each request has behind it.
LEMMA BehindStep ==
  ASSUME IInv, [Next]_vars, NEW q \in Requests, Behind(q)
  PROVE  Behind(q)'
<1> USE DEF platforms, audit
<1>0. /\ TypeOK /\ req \in [Requests -> RequestState] /\ req[q] \in RequestState
  BY DEF IInv, TypeOK
<1>1. ASSUME \/ Arrive(q) \/ PassGate(q) \/ ParkRequest(q)
             \/ Collect(q) \/ StoreDiff(q) \/ CollectRaises(q)
             \/ RecordStart(q) \/ RecordStartFails(q) \/ MarkExecuted(q)
             \/ RecordOutcome(q) \/ RecordOutcomeFails(q)
             \/ \E r \in Rows : GrantRow(q, r) \/ PreviewRow(q, r) \/ SkipRow(q, r)
                                \/ FailRow(q, r) \/ RaiseInRow(q, r)
      PROVE  Behind(q)'
  BY <1>1, EarlyBehind, CollectBehind, BucketsBehind, StartBehind, StartFailsBehind,
     ClosedBehind, OutcomeBehind, RowBehind, RaiseBehind
<1>2. CASE Respond(q)
  <2>1. /\ wrote' = wrote /\ jsonl' = jsonl /\ mirror' = mirror
        /\ req'[q] = [req[q] EXCEPT !.pc = "done", !.diff = NoDiff]
    BY <1>0, <1>2 DEF Respond, Finish
  <2>2. req'[q].pc = "done" /\ req'[q].ok = req[q].ok
    BY <1>0, <2>1 DEF RequestState
  <2>3. QED
    BY <2>1, <2>2, LeaveBehind
<1>3. CASE Restart
  <2>1. /\ wrote' = wrote /\ jsonl' = jsonl /\ mirror' = mirror
        /\ \/ req'[q] = req[q]
           \/ req'[q] = [req[q] EXCEPT !.pc = "killed", !.diff = NoDiff]
    BY <1>3 DEF Restart
  <2>2. CASE req'[q] = req[q]
    BY <2>1, <2>2, UntouchedBehind DEF Untouched
  <2>3. CASE req'[q] = [req[q] EXCEPT !.pc = "killed", !.diff = NoDiff]
    <3>1. req'[q].pc = "killed" /\ req'[q].ok = req[q].ok
      BY <1>0, <2>3 DEF RequestState
    <3>2. QED
      BY <2>1, <3>1, LeaveBehind
  <2>4. QED
    BY <2>1, <2>2, <2>3
<1>4. ASSUME NEW x \in Requests, x # q,
             \/ Arrive(x) \/ PassGate(x) \/ ParkRequest(x)
             \/ Collect(x) \/ StoreDiff(x) \/ CollectRaises(x)
             \/ RecordStart(x) \/ RecordStartFails(x) \/ MarkExecuted(x)
             \/ RecordOutcome(x) \/ RecordOutcomeFails(x) \/ Respond(x)
             \/ \E r \in Rows : GrantRow(x, r) \/ PreviewRow(x, r) \/ SkipRow(x, r)
                                \/ FailRow(x, r) \/ RaiseInRow(x, r)
      PROVE  Behind(q)'
  BY <1>0, <1>4, OthersUntouched, UntouchedBehind
<1>5. ASSUME \/ \E a \in Ids, verdict \in {"approved", "rejected"} : Decide(a, verdict)
             \/ \E v \in Viewers : ViewStep(v)
             \/ \E p \in Pairings : CacheExpires(p)
             \/ \E p \in Pairings, d \in Directions, r \in ExternalRows :
                  ExternalGrant(p, d, r) \/ ExternalRevoke(p, d, r)
             \/ UNCHANGED vars
      PROVE  Behind(q)'
  <2>1. req' = req /\ wrote' = wrote /\ jsonl' = jsonl /\ mirror' = mirror
    BY <1>5 DEF Decide, ViewStep, ViewCached, ViewCompute, ViewCollect, ViewStore, ViewDone,
                CacheExpires, ExternalGrant, ExternalRevoke, vars
  <2>2. QED
    BY <2>1, UntouchedBehind DEF Untouched
<1>6. QED
  BY <1>1, <1>2, <1>3, <1>4, <1>5, NextCases

-----------------------------------------------------------------------------
(* The writes, their trail and its mirror *)

BInv == IInv /\ \A q \in Requests : Behind(q)

\* A request that has not arrived has nothing behind it.
LEMMA BehindInit == Init => BInv
<1> SUFFICES ASSUME Init, NEW q \in Requests PROVE Behind(q)
  BY InvInit DEF BInv
<1>1. req[q].pc = "idle" /\ wrote[q] = {} /\ jsonl[q] = <<>> /\ mirror[q].status = "none"
  BY DEF Init, Form
<1>2. QED
  BY <1>1 DEF Behind, MayWrite, Accounted, Mirrored

\* What requests have behind them, in every reachable state.
THEOREM BehindInvariance == Spec => []BInv
<1>1. BInv /\ [Next]_vars => BInv'
  BY InvStep, BehindStep DEF BInv
<1>2. QED
  BY <1>1, BehindInit, PTL DEF Spec

\* "never apply real permissions from a stale UI snapshot" (apply_view): a real
\* request in the middle of its writes holds a diff that it collected itself and
\* that has no errors, and every row it wrote was selected and is in that diff.
THEOREM WritesComeFromOwnDiff == Spec => []WritesAreVerified
<1>1. BInv => WritesAreVerified
  <2> SUFFICES ASSUME BInv, NEW q \in Requests, wrote[q] # {}, InFlight(q)
               PROVE  /\ req[q].diff # NoDiff /\ req[q].diff.by = q /\ ~req[q].diff.errors
                      /\ wrote[q] \subseteq req[q].sel \cap req[q].diff.bucket[req[q].dir]
    BY DEF WritesAreVerified
  <2>1. MayWrite(q)
    BY DEF BInv, IInv, DryIsPure, MayWrite
  <2>2. Verified(q)
    BY <2>1 DEF BInv, Behind
  <2>3. QED
    BY <2>2, NoDiffAssumption DEF Verified, RowsToApply
<1>2. QED
  BY <1>1, BehindInvariance, PTL

\* audit_log._status against the writes: no outcome understates what was done.
THEOREM OutcomeIsHonest == Spec => []OutcomeAccountsForWrites
<1>1. BInv => OutcomeAccountsForWrites
  BY DEF BInv, Behind, Accounted, OutcomeAccountsForWrites
<1>2. QED
  BY <1>1, BehindInvariance, PTL

\* _append comes before the mirror: audit_events never runs ahead of the JSONL file.
THEOREM MirrorFollowsFile == Spec => []MirrorNeverAhead
<1>1. BInv => MirrorNeverAhead
  BY DEF BInv, Behind, Mirrored, MirrorNeverAhead
<1>2. QED
  BY <1>1, BehindInvariance, PTL

-----------------------------------------------------------------------------
(* What a rollback plan undoes *)

\* What a real request has reported as ok, and what the mirror says of that, was sent.
OkWasSent(q) == ~req[q].dry => req[q].ok \subseteq wrote[q] /\ mirror[q].ok \subseteq wrote[q]

\* Rows are only added to those that were sent, and nothing is reported anew.
LEMMA NothingReported ==
  ASSUME NEW q \in Requests, OkWasSent(q), req'[q].dry = req[q].dry,
         req'[q].ok = req[q].ok, wrote[q] \subseteq wrote'[q],
         mirror'[q].ok \in {mirror[q].ok, {}, req[q].ok}
  PROVE  OkWasSent(q)'
BY DEF OkWasSent

\* The steps of the request itself.
LEMMA OkWasSentOwn ==
  ASSUME TypeOK, NEW q \in Requests, OkWasSent(q),
         \/ Arrive(q) \/ PassGate(q) \/ ParkRequest(q)
         \/ Collect(q) \/ StoreDiff(q) \/ CollectRaises(q)
         \/ RecordStart(q) \/ RecordStartFails(q) \/ MarkExecuted(q)
         \/ RecordOutcome(q) \/ RecordOutcomeFails(q) \/ Respond(q)
         \/ \E r \in Rows : GrantRow(q, r) \/ PreviewRow(q, r) \/ SkipRow(q, r)
                            \/ FailRow(q, r) \/ RaiseInRow(q, r)
  PROVE  OkWasSent(q)'
<1> USE DEF platforms, audit, GoTo, Finish
<1>1. /\ req \in [Requests -> RequestState] /\ req[q] \in RequestState
      /\ mirror \in [Requests -> MirrorRow] /\ wrote \in [Requests -> SUBSET Rows]
  BY DEF TypeOK
<1>2. CASE \/ Arrive(q) \/ PassGate(q) \/ ParkRequest(q) \/ Collect(q)
           \/ RecordStartFails(q) \/ MarkExecuted(q) \/ RecordOutcomeFails(q) \/ Respond(q)
  <2>1. wrote' = wrote /\ mirror' = mirror
    BY <1>2 DEF Arrive, PassGate, ParkRequest, Collect, RecordStartFails, MarkExecuted,
                RecordOutcomeFails, Respond
  <2>2. req'[q].dry = req[q].dry /\ req'[q].ok = req[q].ok
    <3>1. CASE Arrive(q) \/ PassGate(q) \/ ParkRequest(q) \/ MarkExecuted(q) \/ RecordOutcomeFails(q)
      BY <1>1, <3>1 DEF Arrive, PassGate, ParkRequest, MarkExecuted, RecordOutcomeFails, RequestState
    <3>2. CASE Collect(q)
      <4>1. PICK e \in BOOLEAN :
              req' = [req EXCEPT ![q].pc = "store",
                                 ![q].diff = Collected(req[q].pairing, e, q)]
        BY <3>2 DEF Collect
      <4>2. QED
        BY <1>1, <4>1 DEF RequestState
    <3>3. CASE RecordStartFails(q) \/ Respond(q)
      BY <1>1, <3>3 DEF RecordStartFails, Respond, RequestState
    <3>4. QED
      BY <1>2, <3>1, <3>2, <3>3
  <2>3. QED
    BY <2>1, <2>2, NothingReported
<1>3. CASE StoreDiff(q) \/ CollectRaises(q)
  <2>1. PICK diff, e : WithBuckets(q, diff, e)
    BY <1>3 DEF StoreDiff, CollectRaises
  <2>2. req'[q].dry = req[q].dry /\ req'[q].ok = req[q].ok
    BY <1>1, <2>1 DEF WithBuckets, RequestState
  <2>3. wrote' = wrote /\ mirror' = mirror
    BY <1>3 DEF StoreDiff, CollectRaises
  <2>4. QED
    BY <2>2, <2>3, NothingReported
<1>4. CASE RecordStart(q) \/ RecordOutcome(q)
  <2>1. \/ WriteRecord(q, "started", {})
        \/ WriteRecord(q, OutcomeOf(q), req[q].ok)
    BY <1>4 DEF RecordStart, RecordOutcome
  <2>2. mirror'[q].ok \in {mirror[q].ok, {}, req[q].ok}
    BY <1>1, <2>1 DEF WriteRecord
  <2>3. wrote' = wrote /\ req'[q].dry = req[q].dry /\ req'[q].ok = req[q].ok
    BY <1>1, <1>4 DEF RecordStart, RecordOutcome, RequestState
  <2>4. QED
    BY <2>2, <2>3, NothingReported
<1>5. ASSUME NEW r \in Rows, \/ GrantRow(q, r) \/ PreviewRow(q, r) \/ SkipRow(q, r)
                             \/ FailRow(q, r) \/ RaiseInRow(q, r)
      PROVE  OkWasSent(q)'
  <2>1. mirror' = mirror /\ wrote[q] \subseteq wrote'[q]
    <3>1. mirror' = mirror /\ (SendRow(q, r) \/ UNCHANGED wrote)
      BY <1>5 DEF GrantRow, PreviewRow, SkipRow, FailRow, RaiseInRow, MaySend
    <3>2. SendRow(q, r) => wrote[q] \subseteq wrote'[q]
      BY <1>1 DEF SendRow
    <3>3. QED
      BY <3>1, <3>2
  <2>2. CASE SkipRow(q, r) \/ FailRow(q, r) \/ RaiseInRow(q, r)
    <3>1. req'[q].dry = req[q].dry /\ req'[q].ok = req[q].ok
      BY <1>1, <2>2 DEF SkipRow, FailRow, RaiseInRow, RequestState
    <3>2. QED
      BY <2>1, <3>1, NothingReported
  <2>3. CASE GrantRow(q, r)
    <3>1. req'[q].ok = req[q].ok \cup {r} /\ req'[q].dry = req[q].dry /\ r \in wrote'[q]
      BY <1>1, <2>3 DEF GrantRow, SendRow, RequestState
    <3>2. QED
      BY <2>1, <3>1 DEF OkWasSent
  <2>4. CASE PreviewRow(q, r)
    <3>1. req'[q].dry = req[q].dry /\ req[q].dry
      BY <1>1, <2>4 DEF PreviewRow, Applying, RequestState
    <3>2. QED
      BY <3>1 DEF OkWasSent
  <2>5. QED
    BY <1>5, <2>2, <2>3, <2>4
<1>6. QED
  BY <1>2, <1>3, <1>4, <1>5

\* rollback_service.build_plan: whatever rows were there before, fail or raise, a plan asks
\* to revoke nothing that the apply it is for has not sent itself.
THEOREM PlansKeepToSentRows ==
  Spec => [](\A q \in Requests : RollbackPlan(q) \subseteq wrote[q])
<1> DEFINE Sent == \A q \in Requests : OkWasSent(q)
<1>1. Init => Sent
  <2> SUFFICES ASSUME Init, NEW q \in Requests PROVE OkWasSent(q)
    OBVIOUS
  <2>1. req[q].ok = {} /\ mirror[q].ok = {}
    BY DEF Init, Form
  <2>2. QED
    BY <2>1 DEF OkWasSent
<1>2. TypeOK /\ Sent /\ [Next]_vars => Sent'
  <2> SUFFICES ASSUME TypeOK, Sent, [Next]_vars, NEW q \in Requests
               PROVE  OkWasSent(q)'
    OBVIOUS
  <2>0. OkWasSent(q)
    OBVIOUS
  <2>1. Untouched(q) => OkWasSent(q)'
    BY <2>0 DEF Untouched, OkWasSent
  <2>2. ASSUME NEW x \in Requests,
               \/ Arrive(x) \/ PassGate(x) \/ ParkRequest(x)
               \/ Collect(x) \/ StoreDiff(x) \/ CollectRaises(x)
               \/ RecordStart(x) \/ RecordStartFails(x) \/ MarkExecuted(x)
               \/ RecordOutcome(x) \/ RecordOutcomeFails(x) \/ Respond(x)
               \/ \E r \in Rows : GrantRow(x, r) \/ PreviewRow(x, r) \/ SkipRow(x, r)
                                  \/ FailRow(x, r) \/ RaiseInRow(x, r)
        PROVE  OkWasSent(q)'
    <3>1. CASE x = q
      BY <2>0, <2>2, <3>1, OkWasSentOwn
    <3>2. CASE x # q
      BY <2>1, <2>2, <3>2, OthersUntouched
    <3>3. QED
      BY <3>1, <3>2
  <2>3. CASE Restart
    <3>1. req[q] \in RequestState /\ wrote' = wrote /\ mirror' = mirror
      BY <2>3 DEF TypeOK, Restart, platforms, audit
    <3>2. req'[q].dry = req[q].dry /\ req'[q].ok = req[q].ok
      BY <2>3, <3>1 DEF Restart, RequestState
    <3>3. QED
      BY <2>0, <3>1, <3>2, NothingReported
  <2>4. CASE \/ \E a \in Ids, verdict \in {"approved", "rejected"} : Decide(a, verdict)
             \/ \E v \in Viewers : ViewStep(v)
             \/ \E p \in Pairings : CacheExpires(p)
             \/ \E p \in Pairings, d \in Directions, r \in ExternalRows :
                  ExternalGrant(p, d, r) \/ ExternalRevoke(p, d, r)
             \/ UNCHANGED vars
    <3>1. req' = req /\ wrote' = wrote /\ jsonl' = jsonl /\ mirror' = mirror
      BY <2>4 DEF Decide, ViewStep, ViewCached, ViewCompute, ViewCollect, ViewStore, ViewDone,
                  CacheExpires, ExternalGrant, ExternalRevoke, vars, platforms, audit
    <3>2. QED
      BY <2>1, <3>1 DEF Untouched
  <2>5. QED
    BY <2>2, <2>3, <2>4, NextCases
<1>3. Sent => \A q \in Requests : RollbackPlan(q) \subseteq wrote[q]
  BY DEF OkWasSent, RollbackPlan
<1>4. QED
  BY <1>1, <1>2, <1>3, TypeCorrect, PTL DEF Spec

-----------------------------------------------------------------------------
(* Executed approvals *)

\* Once the buckets are known, no row is added to those left to apply.
LEMMA TodoShrinks ==
  ASSUME TypeOK, [Next]_vars, NEW q \in Requests, req[q].pc \notin {"collect", "store"}
  PROVE  req'[q].todo \subseteq req[q].todo
<1> USE DEF platforms, audit
<1>1. req \in [Requests -> RequestState] /\ req[q] \in RequestState
  BY DEF TypeOK
<1>2. ASSUME \/ Arrive(q) \/ PassGate(q) \/ ParkRequest(q)
             \/ RecordStart(q) \/ RecordStartFails(q) \/ MarkExecuted(q)
             \/ RecordOutcome(q) \/ RecordOutcomeFails(q) \/ Respond(q)
      PROVE  req'[q].todo = req[q].todo
  BY <1>1, <1>2
     DEF Arrive, PassGate, ParkRequest, RecordStart, RecordStartFails, MarkExecuted,
         RecordOutcome, RecordOutcomeFails, Respond, GoTo, Finish, RequestState
<1>3. ~(Collect(q) \/ StoreDiff(q) \/ CollectRaises(q))
  BY DEF Collect, StoreDiff, CollectRaises
<1>4. ASSUME NEW r \in Rows, GrantRow(q, r) \/ PreviewRow(q, r) \/ SkipRow(q, r)
                             \/ FailRow(q, r) \/ RaiseInRow(q, r)
      PROVE  req'[q].todo \subseteq req[q].todo
  BY <1>1, <1>4 DEF GrantRow, PreviewRow, SkipRow, FailRow, RaiseInRow, Finish, RequestState
<1>5. CASE Restart
  BY <1>1, <1>5 DEF Restart, RequestState
<1>6. ASSUME NEW x \in Requests, x # q,
             \/ Arrive(x) \/ PassGate(x) \/ ParkRequest(x)
             \/ Collect(x) \/ StoreDiff(x) \/ CollectRaises(x)
             \/ RecordStart(x) \/ RecordStartFails(x) \/ MarkExecuted(x)
             \/ RecordOutcome(x) \/ RecordOutcomeFails(x) \/ Respond(x)
             \/ \E r \in Rows : GrantRow(x, r) \/ PreviewRow(x, r) \/ SkipRow(x, r)
                                \/ FailRow(x, r) \/ RaiseInRow(x, r)
      PROVE  req'[q] = req[q]
  BY <1>6, OthersUntouched DEF Untouched
<1>7. \/ req' = req \/ Restart
      \/ \E x \in Requests :
             \/ Arrive(x) \/ PassGate(x) \/ ParkRequest(x)
             \/ Collect(x) \/ StoreDiff(x) \/ CollectRaises(x)
             \/ RecordStart(x) \/ RecordStartFails(x) \/ MarkExecuted(x)
             \/ RecordOutcome(x) \/ RecordOutcomeFails(x) \/ Respond(x)
             \/ \E r \in Rows : GrantRow(x, r) \/ PreviewRow(x, r) \/ SkipRow(x, r)
                                \/ FailRow(x, r) \/ RaiseInRow(x, r)
  BY NextCases
     DEF vars, Decide, ViewStep, ViewCached, ViewCompute, ViewCollect, ViewStore, ViewDone,
         CacheExpires, ExternalGrant, ExternalRevoke
<1>8. QED
  BY <1>2, <1>3, <1>4, <1>5, <1>6, <1>7

\* mark_executed is the one statement that closes an approval as executed.
LEMMA ClosedByMarkExecuted ==
  ASSUME IInv, [Next]_vars, NEW a \in Ids,
         approval[a].status # "executed", approval'[a].status = "executed"
  PROVE  \E q \in Requests : MarkExecuted(q) /\ req[q].aid = a
<1> USE DEF platforms, audit
<1>1. approval \in [Ids -> ApprovalRow \cup {NoRow}]
  BY DEF IInv, TypeOK
<1>2. ASSUME NEW q \in Requests, ParkRequest(q) PROVE FALSE
  BY <1>1, <1>2 DEF ParkRequest, Ids
<1>3. ASSUME NEW b \in Ids, NEW st \in {"approved", "rejected", "executed"},
             approval[b] # NoRow, approval' = [approval EXCEPT ![b].status = st]
      PROVE  a = b /\ st = "executed"
  <2>1. approval[b] \in ApprovalRow
    BY <1>1, <1>3
  <2>2. approval'[b].status = st
    BY <1>1, <1>3, <2>1 DEF ApprovalRow
  <2>3. \A c \in Ids : c # b => approval'[c] = approval[c]
    BY <1>1, <1>3
  <2>4. QED
    BY <2>2, <2>3
<1>4. ASSUME NEW b \in Ids, NEW verdict \in {"approved", "rejected"}, Decide(b, verdict)
      PROVE  FALSE
  <2>1. approval[b] # NoRow
    BY <1>4 DEF Decide, NoRow
  <2>2. QED
    BY <1>3, <1>4, <2>1 DEF Decide
<1>5. ASSUME NEW q \in Requests, MarkExecuted(q)
      PROVE  req[q].aid = a
  <2>1. Sanctioned(q)
    BY <1>5 DEF IInv, GatePassed, Admitted, MarkExecuted
  <2>2. approval[req[q].aid] # NoRow
    BY <2>1 DEF Sanctioned, NoRow
  <2>3. QED
    BY <1>3, <1>5, <2>1, <2>2 DEF MarkExecuted, Sanctioned
<1>6. QED
  BY <1>2, <1>4, <1>5, ApprovalSteps

\* The request that closed an approval, from then on.
Carried(q, a) == /\ req[q].aid = a /\ ~req[q].dry
                 /\ req[q].todo = {}
                 /\ Audited(q)

\* Once it has its start record a request gets no more rows to apply.
LEMMA CarriedStays ==
  ASSUME IInv, [Next]_vars, NEW q \in Requests, NEW a \in Ids, Carried(q, a)
  PROVE  Carried(q, a)'
<1>1. TypeOK /\ req[q].pc \notin {"collect", "store"}
  BY DEF IInv, TrailEmpty, Carried, Audited
<1>2. Audited(q)'
  BY <1>1, AuditedStays DEF Carried
<1>3. req'[q].todo \subseteq req[q].todo
  BY <1>1, TodoShrinks
<1>4. Evolves(q)
  BY <1>1, StepEvolves
<1>5. QED
  BY <1>2, <1>3, <1>4 DEF Carried, Evolves

\* ExecutedWasCarriedThrough is inductive once IInv is known.
LEMMA ExecutedStep ==
  IInv /\ ExecutedWasCarriedThrough /\ [Next]_vars => ExecutedWasCarriedThrough'
<1> SUFFICES ASSUME IInv, ExecutedWasCarriedThrough, [Next]_vars,
                    NEW a \in Ids, approval'[a].status = "executed"
             PROVE  \E q \in Requests : Carried(q, a)'
  BY DEF ExecutedWasCarriedThrough, Carried, Audited
<1>1. CASE approval[a].status = "executed"
  <2>1. PICK q \in Requests : Carried(q, a)
    BY <1>1 DEF ExecutedWasCarriedThrough, Carried, Audited
  <2>2. QED
    BY <2>1, CarriedStays
<1>2. CASE approval[a].status # "executed"
  <2>1. PICK q \in Requests : MarkExecuted(q) /\ req[q].aid = a
    BY <1>2, ClosedByMarkExecuted
  <2>2. Carried(q, a)
    BY <2>1 DEF MarkExecuted, Gated, Carried, IInv, StartOnRecord
  <2>3. QED
    BY <2>2, CarriedStays
<1>3. QED
  BY <1>1, <1>2

\* mark_executed comes after apply_rows: an approval that reads "executed" was
\* carried to its last row by a recorded real apply, and is not closed by one that
\* a crash or an error cut short.
THEOREM ClosedApprovalsAreDone == Spec => []ExecutedWasCarriedThrough
<1>1. Init => ExecutedWasCarriedThrough
  <2> SUFFICES ASSUME Init, NEW a \in Ids PROVE approval[a].status # "executed"
    BY DEF ExecutedWasCarriedThrough
  <2>1. PICK parked \in [EarlierIds -> {b \in ApprovalRow : b.status = "pending"}] :
          approval = [i \in Ids |-> IF i \in EarlierIds THEN parked[i] ELSE NoRow]
    BY DEF Init
  <2>2. QED
    BY <2>1 DEF NoRow
<1>2. QED
  BY <1>1, ExecutedStep, Invariance, PTL DEF Spec

-----------------------------------------------------------------------------
(* The diff cache *)

\* Whoever caches a diff has computed it.
ViewersOwnDiff == \A v \in Viewers : view[v].pc = "store" => view[v].diff.by = v

\* A tab_diff thread that stores a diff collected it itself.
LEMMA ViewersOwnDiffStep ==
  ASSUME TypeOK, ViewersOwnDiff, [Next]_vars
  PROVE  ViewersOwnDiff'
<1> SUFFICES ASSUME NEW v \in Viewers, view'[v].pc = "store"
             PROVE  view'[v].diff.by = v
  BY DEF ViewersOwnDiff
<1> USE DEF platforms, audit
<1>1. view \in [Viewers -> ViewState] /\ view[v] \in ViewState
  BY DEF TypeOK
<1>2. CASE view'[v] = view[v]
  BY <1>2 DEF ViewersOwnDiff
<1>3. CASE ViewCollect(v)
  <2>1. PICK e \in BOOLEAN :
          view'[v] = [view[v] EXCEPT !.pc = "store",
                                     !.diff = Collected(view[v].pairing, e, v)]
    BY <1>1, <1>3 DEF ViewCollect
  <2>2. view'[v].diff = Collected(view[v].pairing, e, v)
    BY <1>1, <2>1 DEF ViewState
  <2>3. QED
    BY <2>2 DEF Collected
<1>4. CASE Restart
  BY <1>1, <1>4 DEF Restart, ViewState
<1>5. CASE \/ \E p \in Pairings : ViewCached(v, p) \/ ViewCompute(v, p)
           \/ ViewStore(v) \/ ViewDone(v)
  BY <1>1, <1>5 DEF ViewCached, ViewCompute, ViewStore, ViewDone, ViewState
<1>6. ASSUME NEW w \in Viewers, w # v, ViewStep(w)
      PROVE  view'[v] = view[v]
  BY <1>1, <1>6 DEF ViewStep, ViewCached, ViewCompute, ViewCollect, ViewStore, ViewDone
<1>7. view' = view \/ Restart \/ \E w \in Viewers : ViewStep(w)
  <2>1. ASSUME NEW q \in Requests,
               \/ Arrive(q) \/ PassGate(q) \/ ParkRequest(q)
               \/ Collect(q) \/ StoreDiff(q) \/ CollectRaises(q)
        PROVE  view' = view
    BY <2>1 DEF Arrive, PassGate, ParkRequest, Collect, StoreDiff, CollectRaises
  <2>2. ASSUME NEW q \in Requests,
               \/ RecordStart(q) \/ RecordStartFails(q) \/ MarkExecuted(q)
               \/ RecordOutcome(q) \/ RecordOutcomeFails(q) \/ Respond(q)
        PROVE  view' = view
    BY <2>2 DEF RecordStart, RecordStartFails, MarkExecuted, RecordOutcome,
                RecordOutcomeFails, Respond
  <2>3. ASSUME NEW q \in Requests, NEW r \in Rows,
               \/ GrantRow(q, r) \/ PreviewRow(q, r) \/ SkipRow(q, r)
               \/ FailRow(q, r) \/ RaiseInRow(q, r)
        PROVE  view' = view
    BY <2>3 DEF GrantRow, PreviewRow, SkipRow, FailRow, RaiseInRow
  <2>4. ASSUME \/ \E a \in Ids, verdict \in {"approved", "rejected"} : Decide(a, verdict)
               \/ \E p \in Pairings : CacheExpires(p)
               \/ \E p \in Pairings, d \in Directions, r \in ExternalRows :
                     ExternalGrant(p, d, r) \/ ExternalRevoke(p, d, r)
               \/ UNCHANGED vars
        PROVE  view' = view
    BY <2>4 DEF Decide, CacheExpires, ExternalGrant, ExternalRevoke, vars
  <2>5. QED
    BY <2>1, <2>2, <2>3, <2>4, NextCases
<1>8. QED
  BY <1>2, <1>3, <1>4, <1>5, <1>6, <1>7 DEF ViewStep

\* What enters the cache in a step was computed by the thread that stores it.
LEMMA CacheStep ==
  ASSUME BInv, ViewersOwnDiff, [Next]_vars, NEW p \in Pairings
  PROVE  \/ cache'[p] \in {cache[p], NoDiff}
         \/ \E x \in Requests : req[x].pc = "store" /\ cache'[p].by = x
         \/ \E v \in Viewers : cache'[p].by = v
<1> USE DEF platforms, audit
<1>1. TypeOK /\ cache \in [Pairings -> Diff \cup {NoDiff}]
  BY DEF BInv, IInv, TypeOK
<1>2. ASSUME NEW x \in Requests, StoreDiff(x)
      PROVE  cache'[p] = cache[p] \/ (req[x].pc = "store" /\ cache'[p].by = x)
  BY <1>1, <1>2 DEF StoreDiff, BInv, Behind
<1>3. ASSUME NEW v \in Viewers, ViewStore(v)
      PROVE  cache'[p] = cache[p] \/ cache'[p].by = v
  BY <1>1, <1>3 DEF ViewStore, ViewersOwnDiff
<1>4. ASSUME NEW x \in Requests, Respond(x)
      PROVE  cache'[p] \in {cache[p], NoDiff}
  BY <1>4 DEF Respond
<1>5. ASSUME NEW o \in Pairings, CacheExpires(o)
      PROVE  cache'[p] \in {cache[p], NoDiff}
  BY <1>1, <1>5 DEF CacheExpires
<1>6. CASE Restart
  BY <1>6 DEF Restart
<1>7. \/ cache' = cache \/ Restart
      \/ \E x \in Requests : StoreDiff(x) \/ Respond(x)
      \/ \E v \in Viewers : ViewStore(v)
      \/ \E o \in Pairings : CacheExpires(o)
  <2>1. ASSUME NEW q \in Requests,
               \/ Arrive(q) \/ PassGate(q) \/ ParkRequest(q) \/ Collect(q) \/ CollectRaises(q)
        PROVE  cache' = cache
    BY <2>1 DEF Arrive, PassGate, ParkRequest, Collect, CollectRaises
  <2>2. ASSUME NEW q \in Requests,
               \/ RecordStart(q) \/ RecordStartFails(q) \/ MarkExecuted(q)
               \/ RecordOutcome(q) \/ RecordOutcomeFails(q)
        PROVE  cache' = cache
    BY <2>2 DEF RecordStart, RecordStartFails, MarkExecuted, RecordOutcome,
                RecordOutcomeFails
  <2>3. ASSUME NEW q \in Requests, NEW r \in Rows,
               \/ GrantRow(q, r) \/ PreviewRow(q, r) \/ SkipRow(q, r)
               \/ FailRow(q, r) \/ RaiseInRow(q, r)
        PROVE  cache' = cache
    BY <2>3 DEF GrantRow, PreviewRow, SkipRow, FailRow, RaiseInRow
  <2>4. ASSUME NEW v \in Viewers, ViewStep(v)
        PROVE  cache' = cache \/ ViewStore(v)
    BY <2>4 DEF ViewStep, ViewCached, ViewCompute, ViewCollect, ViewDone
  <2>5. ASSUME \/ \E a \in Ids, verdict \in {"approved", "rejected"} : Decide(a, verdict)
               \/ \E o \in Pairings, d \in Directions, r \in ExternalRows :
                     ExternalGrant(o, d, r) \/ ExternalRevoke(o, d, r)
               \/ UNCHANGED vars
        PROVE  cache' = cache
    BY <2>5 DEF Decide, ExternalGrant, ExternalRevoke, vars
  <2>6. QED
    BY <2>1, <2>2, <2>3, <2>4, <2>5, NextCases
<1>8. QED
  BY <1>2, <1>3, <1>4, <1>5, <1>6, <1>7 DEF vars

\* A page is only out once its handler has returned.
LEMMA DoneByRespond ==
  ASSUME TypeOK, [Next]_vars, NEW q \in Requests, req'[q].pc = "done"
  PROVE  /\ req'[q].dry = req[q].dry
         /\ req[q].pc = "done" \/ Respond(q)
<1> USE DEF platforms, audit
<1>1. req \in [Requests -> RequestState] /\ req[q] \in RequestState
  BY DEF TypeOK
<1>2. ~Collect(q) /\ ~StoreDiff(q) /\ ~CollectRaises(q)
  <2>1. ASSUME Collect(q) PROVE FALSE
    BY <1>1, <2>1 DEF Collect, RequestState
  <2>2. ASSUME StoreDiff(q) \/ CollectRaises(q) PROVE FALSE
    <3>1. PICK diff, e : WithBuckets(q, diff, e)
      BY <2>2 DEF StoreDiff, CollectRaises
    <3>2. QED
      BY <1>1, <3>1 DEF WithBuckets, RequestState
  <2>3. QED
    BY <2>1, <2>2
<1>3. ~(\/ Arrive(q) \/ PassGate(q) \/ ParkRequest(q)
        \/ RecordStart(q) \/ MarkExecuted(q)
        \/ RecordOutcome(q) \/ RecordOutcomeFails(q))
  BY <1>1 DEF Arrive, PassGate, ParkRequest, RecordStart, MarkExecuted, RecordOutcome,
              RecordOutcomeFails, GoTo, RequestState
<1>4. ~RecordStartFails(q)
  BY <1>1 DEF RecordStartFails, RequestState
<1>5. ASSUME NEW r \in Rows, GrantRow(q, r) \/ PreviewRow(q, r) \/ SkipRow(q, r)
                             \/ FailRow(q, r) \/ RaiseInRow(q, r)
      PROVE  FALSE
  BY <1>1, <1>5 DEF GrantRow, PreviewRow, SkipRow, FailRow, RaiseInRow, Applying, Finish,
                    RequestState
<1>6. CASE Restart
  BY <1>1, <1>6 DEF Restart, RequestState
<1>7. ASSUME NEW x \in Requests, x # q,
             \/ Arrive(x) \/ PassGate(x) \/ ParkRequest(x)
             \/ Collect(x) \/ StoreDiff(x) \/ CollectRaises(x)
             \/ RecordStart(x) \/ RecordStartFails(x) \/ MarkExecuted(x)
             \/ RecordOutcome(x) \/ RecordOutcomeFails(x) \/ Respond(x)
             \/ \E r \in Rows : GrantRow(x, r) \/ PreviewRow(x, r) \/ SkipRow(x, r)
                                \/ FailRow(x, r) \/ RaiseInRow(x, r)
      PROVE  req'[q] = req[q]
  BY <1>7, OthersUntouched DEF Untouched
<1>8. \/ req' = req \/ Restart
      \/ \E x \in Requests :
             \/ Arrive(x) \/ PassGate(x) \/ ParkRequest(x)
             \/ Collect(x) \/ StoreDiff(x) \/ CollectRaises(x)
             \/ RecordStart(x) \/ RecordStartFails(x) \/ MarkExecuted(x)
             \/ RecordOutcome(x) \/ RecordOutcomeFails(x) \/ Respond(x)
             \/ \E r \in Rows : GrantRow(x, r) \/ PreviewRow(x, r) \/ SkipRow(x, r)
                                \/ FailRow(x, r) \/ RaiseInRow(x, r)
  BY NextCases
     DEF vars, Decide, ViewStep, ViewCached, ViewCompute, ViewCollect, ViewStore, ViewDone,
         CacheExpires, ExternalGrant, ExternalRevoke
<1>9. req'[q].dry = req[q].dry
  BY StepEvolves DEF Evolves
<1>10. QED
  BY <1>2, <1>3, <1>4, <1>5, <1>6, <1>7, <1>8, <1>9

\* A diff that a real apply collected before its own writes is out of the cache by the
\* time its page is shown.
OwnDiffDropped ==
  \A q \in Requests, p \in Pairings :
    req[q].pc = "done" /\ ~req[q].dry /\ cache[p] # NoDiff => cache[p].by # q

\* The cache as the requests that are done have left it.
CInv == BInv /\ ViewersOwnDiff /\ OwnDiffDropped

\* Respond clears the cache, and nobody but the request itself stores its diff.
LEMMA DroppedStep == CInv /\ [Next]_vars => CInv'
<1> SUFFICES ASSUME CInv, [Next]_vars PROVE CInv'
  OBVIOUS
<1>1. TypeOK /\ BInv' /\ ViewersOwnDiff'
  BY InvStep, BehindStep, ViewersOwnDiffStep DEF CInv, BInv, IInv
<1>2. OwnDiffDropped'
  <2> SUFFICES ASSUME NEW q \in Requests, NEW p \in Pairings,
                      req'[q].pc = "done", ~req'[q].dry, cache'[p] # NoDiff
               PROVE  cache'[p].by # q
    BY DEF OwnDiffDropped
  <2>1. ~req[q].dry /\ (req[q].pc = "done" \/ Respond(q))
    BY <1>1, DoneByRespond
  <2>2. req[q].pc = "done"
    BY <2>1 DEF Respond
  <2>3. CASE cache'[p] = cache[p]
    BY <2>1, <2>2, <2>3 DEF CInv, OwnDiffDropped
  <2>4. CASE \E x \in Requests : req[x].pc = "store" /\ cache'[p].by = x
    BY <2>2, <2>4
  <2>5. CASE \E v \in Viewers : cache'[p].by = v
    BY <2>5, ApplyFlowAssumption
  <2>6. QED
    BY <2>3, <2>4, <2>5, CacheStep DEF CInv
<1>3. QED
  BY <1>1, <1>2 DEF CInv

\* _cache.invalidate("diff::"): a diff from before its writes that the cache may still
\* answer with after a real apply is another thread's, not the one it drove its writes by.
THEOREM OwnDiffIsDropped == Spec => []OwnDiffDropped
<1>1. Init => CInv
  <2> SUFFICES ASSUME Init PROVE ViewersOwnDiff /\ OwnDiffDropped
    BY BehindInit DEF CInv
  <2>1. ViewersOwnDiff
    BY DEF Init, ViewersOwnDiff
  <2>2. OwnDiffDropped
    BY DEF Init, OwnDiffDropped
  <2>3. QED
    BY <2>1, <2>2
<1>2. CInv => OwnDiffDropped
  BY DEF CInv
<1>3. QED
  BY <1>1, <1>2, DroppedStep, PTL DEF Spec

-----------------------------------------------------------------------------
(* The approvals table and the writes implement Approvals *)

Status == [a \in Ids |-> approval[a].status]

AskedFor == [a \in Ids |-> Asked(a)]

Done == [a \in Ids |-> Enacted(a)]

\* A row that a request sends enacts one change under the approval it carries, and
\* nothing else changes what has been enacted.
LEMMA WriteEnacts ==
  ASSUME IInv, IInv', [Next]_vars, NEW q \in Requests, NEW r \in Rows, SendRow(q, r),
         ~req[q].dry, req[q].pc = "apply", approval' = approval
  PROVE  [Workflow!ApprovalsNext]_(Workflow!avars)
<1>1. \A x \in Requests : /\ req'[x].aid = req[x].aid
                          /\ req'[x].pairing = req[x].pairing /\ req'[x].dir = req[x].dir
  BY StepEvolves DEF IInv, Evolves
<1>2. Status' = Status /\ AskedFor' = AskedFor
  BY DEF Status, AskedFor, Asked
<1>3. /\ wrote'[q] = wrote[q] \cup {r}
      /\ \A x \in Requests : x # q => wrote'[x] = wrote[x]
  BY DEF IInv, TypeOK, SendRow
<1>4. \A x \in Requests : \A o : Change(x, o)' = Change(x, o)
  BY <1>1 DEF Change
<1>5. CASE ~RequireApproval
  <2>1. Done' = Done
    BY <1>5 DEF Done, Enacted
  <2>2. QED
    BY <1>2, <2>1 DEF Workflow!avars, Status, AskedFor, Done
<1>6. CASE RequireApproval
  <2>1. Sanctioned(q)
    BY <1>6 DEF IInv, GatePassed, Gated, Admitted
  <2>2. PICK a \in Ids : a = req[q].aid
    BY <2>1 DEF Sanctioned
  <2>3. Change(q, r) \in Changes
    BY DEF IInv, TypeOK, RequestState, Change, Changes
  <2>4. ASSUME NEW b \in Ids
        PROVE  Enacted(b)' = IF b = a THEN Enacted(b) \cup {<<q, Change(q, r)>>} ELSE Enacted(b)
    <3>1. ASSUME NEW x \in Requests, NEW y \in Changes
          PROVE  <<x, y>> \in Enacted(b)'
                   <=> <<x, y>> \in Enacted(b) \/ (b = a /\ x = q /\ y = Change(q, r))
      BY <1>1, <1>3, <1>4, <1>6, <2>2 DEF Enacted
    <3>2. Enacted(b)' \subseteq Requests \X Changes /\ Enacted(b) \subseteq Requests \X Changes
      BY DEF Enacted
    <3>3. QED
      BY <2>3, <3>1, <3>2
  <2>5. Done' = [Done EXCEPT ![a] = @ \cup {<<q, Change(q, r)>>}]
    BY <2>4 DEF Done
  <2>6. Status[a] \in {"approved", "executed"}
    BY <2>1, <2>2 DEF Status, Sanctioned
  <2>7. <<AskedFor[a], Change(q, r)>> \in SamePairing
    <3>1. approval[a] \in ApprovalRow /\ approval[a].status # "none"
      BY <2>1, <2>2 DEF IInv, TypeOK, Sanctioned, NoRow
    <3>2. AskedFor[a] \in ChangeSets /\ AskedFor[a].pairing = approval[a].pairing
      BY <3>1 DEF AskedFor, Asked, ChangeSets, ApprovalRow
    <3>3. QED
      BY <2>1, <2>2, <2>3, <3>2 DEF SamePairing, Change, Sanctioned
  <2>8. Workflow!Enact(a, q, Change(q, r))
    BY <1>2, <2>5, <2>6, <2>7
       DEF Workflow!Enact, Workflow!Consented, Status, AskedFor, Done
  <2>9. QED
    BY <2>3, <2>8 DEF Workflow!ApprovalsNext
<1>7. QED
  BY <1>5, <1>6

\* Writing nothing enacts nothing.
LEMMA NoWriteNoEnactment ==
  ASSUME TypeOK, [Next]_vars, wrote' = wrote
  PROVE  Done' = Done
<1>1. \A x \in Requests : /\ req'[x].aid = req[x].aid
                          /\ req'[x].pairing = req[x].pairing /\ req'[x].dir = req[x].dir
  BY StepEvolves DEF Evolves
<1>2. \A x \in Requests : \A o : Change(x, o)' = Change(x, o)
  BY <1>1 DEF Change
<1>3. \A a \in Ids : Enacted(a)' = Enacted(a)
  BY <1>1, <1>2 DEF Enacted
<1>4. QED
  BY <1>3 DEF Done

\* Changing the status of one row that is in the table.
LEMMA StatusUpdate ==
  ASSUME TypeOK, NEW a \in Ids, approval[a] # NoRow, NEW st, st # "none",
         approval' = [approval EXCEPT ![a].status = st]
  PROVE  Status' = [Status EXCEPT ![a] = st] /\ AskedFor' = AskedFor
<1>1. approval[a] \in ApprovalRow
  BY DEF TypeOK
<1>2. approval'[a].status = st /\ \A b \in Ids : b # a => approval'[b] = approval[b]
  BY <1>1 DEF TypeOK, ApprovalRow
<1>3. \A b \in Ids : Status'[b] = IF b = a THEN st ELSE Status[b]
  BY <1>2 DEF Status
<1>4. ASSUME NEW b \in Ids PROVE Asked(b)' = Asked(b)
  <2>1. CASE b = a
    <3>1. approval'[a] = [approval[a] EXCEPT !.status = st]
      BY DEF TypeOK
    <3>2. /\ approval'[a].pairing = approval[a].pairing /\ approval'[a].dir = approval[a].dir
          /\ approval'[a].rows = approval[a].rows /\ approval[a].status # "none"
      BY <1>1, <3>1 DEF ApprovalRow
    <3>3. QED
      BY <1>2, <2>1, <3>2 DEF Asked
  <2>2. QED
    BY <1>2, <2>1 DEF Asked
<1>5. AskedFor' = AskedFor
  BY <1>4 DEF AskedFor
<1>6. QED
  BY <1>3, <1>5 DEF Status

\* Every step of the pipeline is a step of the workflow, or invisible to it.
LEMMA WorkflowStep ==
  ASSUME IInv, IInv', [Next]_vars
  PROVE  [Workflow!ApprovalsNext]_(Workflow!avars)
<1> USE DEF platforms, audit
<1>0. TypeOK
  BY DEF IInv
<1>1. ASSUME NEW q \in Requests, ParkRequest(q)
      PROVE  [Workflow!ApprovalsNext]_(Workflow!avars)
  <2>1. approval[q] = NoRow /\ q \in Ids
    BY <1>1 DEF IInv, IdIsFree, ParkRequest, Arriving, Ids
  <2>2. Status[q] = "none"
    BY <2>1 DEF Status, NoRow
  <2>3. Status' = [Status EXCEPT ![q] = "pending"]
    BY <1>0, <1>1, <2>1 DEF Status, ParkRequest, TypeOK
  <2>4. Done' = Done
    BY <1>0, <1>1, NoWriteNoEnactment DEF ParkRequest
  <2>5. PICK c \in ChangeSets : AskedFor' = [AskedFor EXCEPT ![q] = c]
    <3>1. [pairing |-> req[q].pairing, dir |-> req[q].dir, rows |-> req[q].sel] \in ChangeSets
      BY <1>0 DEF TypeOK, RequestState, ChangeSets
    <3>2. \A b \in Ids : Asked(b)' =
            IF b = q THEN [pairing |-> req[q].pairing, dir |-> req[q].dir, rows |-> req[q].sel]
                     ELSE Asked(b)
      BY <1>0, <1>1, <2>1 DEF ParkRequest, TypeOK, Asked
    <3>3. QED
      BY <3>1, <3>2 DEF AskedFor
  <2>6. Workflow!ParkRequest(q, c)
    BY <2>2, <2>3, <2>4, <2>5 DEF Workflow!ParkRequest, Status, AskedFor, Done
  <2>7. QED
    BY <2>1, <2>5, <2>6 DEF Workflow!ApprovalsNext
<1>2. ASSUME NEW a \in Ids, NEW verdict \in {"approved", "rejected"}, Decide(a, verdict)
      PROVE  [Workflow!ApprovalsNext]_(Workflow!avars)
  <2>1. approval[a] # NoRow /\ Status[a] = "pending"
    BY <1>2 DEF Decide, NoRow, Status
  <2>2. Status' = [Status EXCEPT ![a] = verdict] /\ AskedFor' = AskedFor
    BY <1>0, <1>2, <2>1, StatusUpdate DEF Decide
  <2>3. Done' = Done
    BY <1>0, <1>2, NoWriteNoEnactment DEF Decide
  <2>4. Workflow!DecideRequest(a, verdict)
    BY <2>1, <2>2, <2>3 DEF Workflow!DecideRequest, Status, AskedFor, Done
  <2>5. QED
    BY <2>4 DEF Workflow!ApprovalsNext
<1>3. ASSUME NEW q \in Requests, MarkExecuted(q)
      PROVE  [Workflow!ApprovalsNext]_(Workflow!avars)
  <2>1. Done' = Done
    BY <1>0, <1>3, NoWriteNoEnactment DEF MarkExecuted
  <2>2. CASE UNCHANGED approval
    <3>1. Status' = Status /\ AskedFor' = AskedFor
      BY <2>2 DEF Status, AskedFor, Asked
    <3>2. QED
      BY <2>1, <3>1 DEF Workflow!avars, Status, AskedFor, Done
  <2>3. CASE approval' = [approval EXCEPT ![req[q].aid].status = "executed"]
    <3>1. Sanctioned(q)
      BY <1>3 DEF IInv, GatePassed, Admitted, MarkExecuted
    <3>2. PICK a \in Ids : a = req[q].aid
      BY <3>1 DEF Sanctioned
    <3>3. approval[a] # NoRow /\ Status[a] \in {"approved", "executed"}
      BY <3>1, <3>2 DEF Sanctioned, NoRow, Status
    <3>4. Status' = [Status EXCEPT ![a] = "executed"] /\ AskedFor' = AskedFor
      BY <1>0, <2>3, <3>2, <3>3, StatusUpdate
    <3>5. Workflow!CloseRequest(a)
      BY <2>1, <3>3, <3>4 DEF Workflow!CloseRequest, Workflow!Consented, Status, AskedFor, Done
    <3>6. QED
      BY <3>5 DEF Workflow!ApprovalsNext
  <2>4. QED
    BY <1>3, <2>2, <2>3 DEF MarkExecuted
<1>4. ASSUME NEW q \in Requests, NEW r \in Rows, SendRow(q, r),
             ~req[q].dry, req[q].pc = "apply", approval' = approval
      PROVE  [Workflow!ApprovalsNext]_(Workflow!avars)
  BY <1>4, WriteEnacts
<1>5. CASE approval' = approval /\ wrote' = wrote
  <2>1. Status' = Status /\ AskedFor' = AskedFor /\ Done' = Done
    BY <1>0, <1>5, NoWriteNoEnactment DEF Status, AskedFor, Asked
  <2>2. QED
    BY <2>1 DEF Workflow!avars, Status, AskedFor, Done
<1>6. ASSUME NEW q \in Requests, NEW r \in Rows,
             GrantRow(q, r) \/ FailRow(q, r) \/ RaiseInRow(q, r)
      PROVE  [Workflow!ApprovalsNext]_(Workflow!avars)
  <2>1. approval' = approval /\ req[q].pc = "apply"
    BY <1>6 DEF GrantRow, FailRow, RaiseInRow, Applying
  <2>2. (~req[q].dry /\ SendRow(q, r)) \/ wrote' = wrote
    BY <1>6 DEF GrantRow, FailRow, RaiseInRow, MaySend
  <2>3. QED
    BY <1>4, <1>5, <2>1, <2>2
<1>7. ASSUME NEW q \in Requests, NEW r \in Rows, PreviewRow(q, r) \/ SkipRow(q, r)
      PROVE  approval' = approval /\ wrote' = wrote
  BY <1>7 DEF PreviewRow, SkipRow
<1>8. ASSUME NEW q \in Requests,
             \/ Arrive(q) \/ PassGate(q) \/ Collect(q) \/ StoreDiff(q) \/ CollectRaises(q)
             \/ RecordStart(q) \/ RecordStartFails(q)
             \/ RecordOutcome(q) \/ RecordOutcomeFails(q) \/ Respond(q)
      PROVE  approval' = approval /\ wrote' = wrote
  BY <1>8 DEF Arrive, PassGate, Collect, StoreDiff, CollectRaises, RecordStart,
              RecordStartFails, RecordOutcome, RecordOutcomeFails, Respond
<1>9. ASSUME \/ \E v \in Viewers : ViewStep(v)
             \/ \E p \in Pairings : CacheExpires(p)
             \/ \E p \in Pairings, d \in Directions, r \in ExternalRows :
                  ExternalGrant(p, d, r) \/ ExternalRevoke(p, d, r)
             \/ Restart
             \/ UNCHANGED vars
      PROVE  approval' = approval /\ wrote' = wrote
  BY <1>9 DEF ViewStep, ViewCached, ViewCompute, ViewCollect, ViewStore, ViewDone,
              CacheExpires, ExternalGrant, ExternalRevoke, Restart, vars
<1>10. QED
  BY <1>1, <1>2, <1>3, <1>5, <1>6, <1>7, <1>8, <1>9, NextCases

\* The initial approvals table is one of the workflow's.
LEMMA WorkflowInit == Init => Workflow!ApprovalsInit
<1> SUFFICES ASSUME Init PROVE Workflow!ApprovalsInit
  OBVIOUS
<1>1. PICK parked \in [EarlierIds -> {b \in ApprovalRow : b.status = "pending"}] :
        approval = [i \in Ids |-> IF i \in EarlierIds THEN parked[i] ELSE NoRow]
  BY DEF Init
<1>2. Status \in [Ids -> {"none", "pending"}]
  BY <1>1 DEF Status, NoRow
<1>3. AskedFor \in [Ids -> ChangeSets \cup {NoRow}]
  <2>1. ASSUME NEW a \in Ids PROVE Asked(a) \in ChangeSets \cup {NoRow}
    <3>1. approval[a] \in ApprovalRow \/ approval[a].status = "none"
      BY <1>1 DEF NoRow
    <3>2. QED
      BY <3>1 DEF Asked, ApprovalRow, ChangeSets
  <2>2. QED
    BY <2>1 DEF AskedFor
<1>4. Done = [a \in Ids |-> {}]
  BY DEF Init, Done, Enacted
<1>5. QED
  BY <1>2, <1>3, <1>4 DEF Workflow!ApprovalsInit, Status, AskedFor, Done

\* The apply pipeline implements the approval workflow, with consent as wide as the gate
\* makes it: a request is parked once and decided once, every row that is sent is sent
\* under consent to a change set of its pairing, and nothing is closed without consent.
THEOREM PipelineImplementsWorkflow == Spec => ImplementsWorkflow
<1>1. IInv /\ IInv' /\ [Next]_vars => [Workflow!ApprovalsNext]_(Workflow!avars)
  BY WorkflowStep
<1>2. QED
  BY <1>1, WorkflowInit, Invariance, PTL DEF Spec, ImplementsWorkflow, Workflow!ApprovalsSpec

\* Whatever the workflow does, it takes no decision back.
LEMMA WorkflowKeepsRejections ==
  ASSUME [Workflow!ApprovalsNext]_(Workflow!avars), NEW a \in Ids, Status[a] = "rejected"
  PROVE  Status'[a] = "rejected"
<1>1. CASE UNCHANGED Workflow!avars
  BY <1>1 DEF Workflow!avars, Status
<1>2. ASSUME NEW b \in Ids,
             \/ \E c \in ChangeSets : Workflow!ParkRequest(b, c)
             \/ \E verdict \in {"approved", "rejected"} : Workflow!DecideRequest(b, verdict)
             \/ \E x \in Requests, y \in Changes : Workflow!Enact(b, x, y)
             \/ Workflow!CloseRequest(b)
      PROVE  \/ Status' = Status
             \/ Status[b] # "rejected" /\ \A c \in Ids : c # b => Status'[c] = Status[c]
  BY <1>2
     DEF Workflow!ParkRequest, Workflow!DecideRequest, Workflow!Enact, Workflow!CloseRequest,
         Workflow!Consented, Status
<1>3. QED
  BY <1>1, <1>2 DEF Workflow!ApprovalsNext

\* decide and mark_executed against each other: what an approver has refused is never
\* approved or closed as executed afterwards, by no handler, decider or restart.  It is a
\* consequence of the abstract workflow, which the pipeline implements.
THEOREM RejectionsAreFinal ==
  Spec => [][\A a \in Ids : approval[a].status = "rejected"
               => approval'[a].status = "rejected"]_vars
<1>1. ASSUME IInv, IInv', [Next]_vars
      PROVE  [\A a \in Ids : approval[a].status = "rejected"
                => approval'[a].status = "rejected"]_vars
  BY <1>1, WorkflowStep, WorkflowKeepsRejections DEF Status
<1>2. QED
  BY <1>1, Invariance, PTL DEF Spec
=============================================================================
