------------------------------- MODULE Monitor -------------------------------
(***************************************************************************)
(* Drift detection: app/services/drift_service.py with the two that use    *)
(* it, the diff page (routers/pairings.py, tab_diff) and the scan thread   *)
(* (services/scheduler.py); the table of pairings they go through          *)
(* (services/pairings.py, services/db.py); and the two memories of the     *)
(* process that decide what a diff says, the diff cache and the answers of *)
(* Graph (pair_apply.py, _resolve_entra).                                  *)
(*                                                                         *)
(* A recorder - a page or the scan - gets a diff, reads the last snapshot, *)
(* inserts its own and reports the difference.  Nothing keeps two of them  *)
(* apart.  A diff is abstracted to its rows, each with the form of its     *)
(* key: the object id of its principal, or the name if Graph had none, or  *)
(* what a reading that failed without an error has made of it.  The rights *)
(* are read one by one, and so are the answers of Graph.  (What else gets  *)
(* diffs, such as an apply, is here a page whose snapshot fails.)          *)
(***************************************************************************)
EXTENDS Naturals, FiniteSets

CONSTANTS
  Ids,           \* ids of pairings, each given out once
  Legacy,        \* the ids in configs/pairings.json
  Rights,        \* rights of a principal each, on either platform
  Viewers, Scanner,
  NoDiff, NoSnapshot, NoPairing,
  MaxChanges,    \* bound: [Ids -> Nat], administrators' changes
  MaxRestarts    \* bound: restarts

ASSUME MonitorAssumption ==
  /\ Legacy \subseteq Ids
  /\ Scanner \notin Viewers
  /\ MaxChanges \in [Ids -> Nat] /\ MaxRestarts \in Nat
  /\ NoPairing \notin Ids

VARIABLES
  pairings,   \* the table of pairings
  used,       \* ids that were given out
  rights,     \* rights[p]: what the platforms of pairing p grant
  lookup,     \* lookup[r]: what this process remembers of Graph's answer
  diffCache,  \* diffCache[p]: the "diff::..." entry
  latest,     \* latest[p]: the newest row of diff_snapshots
  todo,       \* pairings that the current scan has still to do
  rec,        \* program counter and locals of each recorder
  moves,      \* ghost: moves[p]: how many changes administrators made so far
  boots,      \* ghost: how often the process has been restarted
  apart       \* ghost: apart[p]: no two recorders were at p at the same time

monitorVars ==
  <<pairings, used, rights, lookup, diffCache, latest, todo, rec, moves, boots, apart>>

-----------------------------------------------------------------------------
(* Data *)

Recorders == Viewers \cup {Scanner}

\* The key of a row: whose right, and what it goes by.
RowKey == [right : Rights, by : {"oid", "name", "raw"}]

\* Ghosts: held are the rights that were there when they were read; sure tells that
\* Graph's answers are the remembered ones; at and boot, after how many changes and in
\* which run of the process the collection began.
LiveDiff == [rows : SUBSET RowKey, errors : BOOLEAN, held : SUBSET Rights,
             sure : BOOLEAN, at : Nat, boot : 0..MaxRestarts]

\* left are the rights to be read yet, and then those that Graph was asked about.
RecState == [pc : {"idle", "collect", "resolve", "check", "insert"}, p : Ids \cup {NoPairing},
             left : SUBSET Rights, diff : LiveDiff \cup {NoDiff},
             prev : LiveDiff \cup {NoSnapshot}]

MonitorTypeOK ==
  /\ pairings \subseteq used /\ used \subseteq Ids
  /\ rights \in [Ids -> SUBSET Rights]
  /\ lookup \in [Rights -> {"unasked", "oid", "name"}]
  /\ diffCache \in [Ids -> LiveDiff \cup {NoDiff}]
  /\ latest \in [Ids -> LiveDiff \cup {NoSnapshot}]
  /\ todo \subseteq Ids
  /\ rec \in [Recorders -> RecState]
  /\ (\A p \in Ids : moves[p] \in 0..MaxChanges[p]) /\ boots \in 0..MaxRestarts
  /\ apart \in [Ids -> BOOLEAN]

Resting == [pc |-> "idle", p |-> NoPairing, left |-> {}, diff |-> NoDiff, prev |-> NoSnapshot]

\* _migrate_pairings_json: the legacy file is imported if the table is empty.
Imported(table) == IF table = {} THEN Legacy ELSE table

MonitorInit ==
  /\ pairings = Imported({}) /\ used = Legacy
  /\ rights \in [Ids -> SUBSET Rights]
  /\ lookup = [r \in Rights |-> "unasked"]
  /\ diffCache = [p \in Ids |-> NoDiff]
  /\ latest = [p \in Ids |-> NoSnapshot]
  /\ todo = {}
  /\ rec = [x \in Recorders |-> Resting]
  /\ moves = [p \in Ids |-> 0] /\ boots = 0
  /\ apart = [p \in Ids |-> TRUE]

Table == <<pairings, used>>
Outside == <<rights, moves, boots>>
Memory == <<lookup, diffCache>>

-----------------------------------------------------------------------------
(* A diff *)

\* Recorder x turns to pairing p, at pc, with diff d in hand.
Turn(x, p, pc, d) ==
  /\ rec[x].pc = "idle"
  /\ rec' = [rec EXCEPT ![x] = [pc |-> pc, p |-> p, left |-> IF pc = "collect" THEN Rights ELSE {},
                                diff |-> d, prev |-> NoSnapshot]]
  /\ apart' = [apart EXCEPT ![p] =
                 @ /\ \A y \in Recorders \ {x} : rec[y].p # p]

Rest(x) == rec' = [rec EXCEPT ![x] = Resting]

Blank(p) == [rows |-> {}, errors |-> FALSE, held |-> {}, sure |-> TRUE,
             at |-> moves[p], boot |-> boots]

\* Right r is there and is read: under its principal's name, or with keys that are
\* other or none.
Reading(d, r, keys) ==
  [d EXCEPT !.rows = @ \cup {[right |-> r, by |-> k] : k \in keys}, !.held = @ \cup {r}]

\* collect_dbx_rows, collect_fabric_rows: each right is read at its own moment.  A
\* listing that is answered 400, 404 or 501 is short or empty; without the tags, or a
\* function, a policy has another key.  None of that is an error.
ReadRight(x, r) ==
  /\ rec[x].pc = "collect" /\ r \in rec[x].left
  /\ \E keys \in {{"name"}, {"raw"}, {}} :
       rec' = [rec EXCEPT ![x].left = @ \ {r},
                          ![x].diff = IF r \in rights[rec[x].p] THEN Reading(@, r, keys) ELSE @]
  /\ UNCHANGED <<Table, Outside, Memory, latest, todo, apart>>

Remembered(k) ==
  [k EXCEPT !.by = IF @ = "name" /\ lookup[k.right] # "unasked" THEN lookup[k.right] ELSE @]

Unknown(keys) == {k.right : k \in {l \in keys : l.by = "name" /\ lookup[l.right] = "unasked"}}

\* Both collections have returned.  _resolve_entra: what the process remembers is taken,
\* for the others Graph is asked.
AskGraph(x) ==
  /\ rec[x].pc = "collect" /\ rec[x].left = {}
  /\ LET read == rec[x].diff.rows
     IN rec' = [rec EXCEPT ![x].pc = "resolve", ![x].left = Unknown(read),
                           ![x].diff.rows = {Remembered(k) : k \in read}]
  /\ UNCHANGED <<Table, Outside, Memory, latest, todo, apart>>

\* One of them has raised: it has no rows, and there is an entry in "errors".  A diff with
\* errors is recorded nowhere; what it still has got is left out.
CollectFails(x) ==
  /\ rec[x].pc = "collect" /\ rec[x].left = {}
  /\ \E asked \in SUBSET Unknown(rec[x].diff.rows) :
       rec' = [rec EXCEPT ![x].pc = "resolve", ![x].left = asked,
                          ![x].diff = [@ EXCEPT !.errors = TRUE, !.rows = {}, !.held = {}]]
  /\ UNCHANGED <<Table, Outside, Memory, latest, todo, apart>>

\* Faulty: only what Graph has found is remembered.
AfterAnswer_FoundOnly(known, by) == IF known = "unasked" /\ by = "oid" THEN by ELSE known

\* The lru_cache keeps the first answer that comes in, and none is one, too.  (It
\* forgets the oldest of 512, which is left out.)
AfterAnswer(known, by) == IF known = "unasked" THEN by ELSE known

Answered(d, r, by) ==
  IF d.errors THEN d
  ELSE [d EXCEPT !.rows = (@ \ {[right |-> r, by |-> "name"]}) \cup {[right |-> r, by |-> by]},
                 !.sure = @ /\ lookup[r] \in {"unasked", by}]

\* Graph answers - or fails, which is the same as knowing nobody.  The cache is not
\* locked meanwhile: each that asked keeps the answer it got.
GraphAnswers(x, r, by) ==
  /\ rec[x].pc = "resolve" /\ r \in rec[x].left
  /\ rec' = [rec EXCEPT
               ![x].left = @ \ {r},
               ![x].diff = Answered(@, r, by)]
  /\ lookup' = [lookup EXCEPT ![r] = AfterAnswer(@, by)]
  /\ UNCHANGED <<Table, Outside, diffCache, latest, todo, apart>>

\* Faulty: the scan thread does not catch it.
CollectRaises_Ends(x) ==
  /\ rec[x].pc \in {"collect", "resolve"}
  /\ rec' = [rec EXCEPT ![x] = IF x = Scanner THEN [@ EXCEPT !.pc = "ended"] ELSE Resting]
  /\ UNCHANGED <<Table, Outside, Memory, latest, todo, apart>>

\* compute_diff raises: the page shows the error, the scan counts it and goes on.
CollectRaises(x) ==
  /\ rec[x].pc \in {"collect", "resolve"}
  /\ Rest(x)
  /\ UNCHANGED <<Table, Outside, Memory, latest, todo, apart>>

\* Faulty: a diff that was not to come from the cache does not go there either.
StoreInCache_NotForced(x) ==
  /\ rec[x].pc = "resolve" /\ rec[x].left = {}
  /\ rec' = [rec EXCEPT ![x].pc = "check"]
  /\ diffCache' = IF x = Scanner THEN diffCache ELSE [diffCache EXCEPT ![rec[x].p] = rec[x].diff]
  /\ UNCHANGED <<Table, Outside, lookup, latest, todo, apart>>

\* The result is cached, errors included, and also if it was not to be read from
\* the cache.
StoreInCache(x) ==
  /\ rec[x].pc = "resolve" /\ rec[x].left = {}
  /\ rec' = [rec EXCEPT ![x].pc = "check"]
  /\ diffCache' = [diffCache EXCEPT ![rec[x].p] = rec[x].diff]
  /\ UNCHANGED <<Table, Outside, lookup, latest, todo, apart>>

\* Five minutes; or an apply invalidates the cache.
CacheEntryGoes(p) ==
  /\ diffCache[p] # NoDiff
  /\ diffCache' = [diffCache EXCEPT ![p] = NoDiff]
  /\ UNCHANGED <<Table, Outside, lookup, latest, todo, rec, apart>>

-----------------------------------------------------------------------------
(* record_snapshot *)

\* A diff with errors is not recorded.
SkipErrors(x) ==
  /\ rec[x].pc = "check" /\ rec[x].diff.errors
  /\ Rest(x)
  /\ UNCHANGED <<Table, Outside, Memory, latest, todo, apart>>

ReadLast(x) ==
  /\ rec[x].pc = "check" /\ ~rec[x].diff.errors
  /\ rec' = [rec EXCEPT ![x].pc = "insert", ![x].prev = latest[rec[x].p]]
  /\ UNCHANGED <<Table, Outside, Memory, latest, todo, apart>>

\* The snapshot is the newest one - unless another recorder, whose clock was read
\* later, has inserted its own before.
InsertSnapshot(x) ==
  /\ rec[x].pc = "insert"
  /\ \/ latest' = [latest EXCEPT ![rec[x].p] = rec[x].diff]
     \/ ~apart[rec[x].p] /\ UNCHANGED latest
  /\ Rest(x)
  /\ UNCHANGED <<Table, Outside, Memory, todo, apart>>

\* The database fails: no drift on the page, an error of the scan.
SnapshotFails(x) ==
  /\ rec[x].pc \in {"check", "insert"}
  /\ Rest(x)
  /\ UNCHANGED <<Table, Outside, Memory, latest, todo, apart>>

RecordStep(x) ==
  \/ \E r \in Rights : ReadRight(x, r) \/ \E by \in {"oid", "name"} : GraphAnswers(x, r, by)
  \/ AskGraph(x) \/ CollectFails(x) \/ CollectRaises(x) \/ StoreInCache(x)
  \/ SkipErrors(x) \/ ReadLast(x) \/ InsertSnapshot(x) \/ SnapshotFails(x)

-----------------------------------------------------------------------------
(* The diff page, and the scan *)

\* refresh=0 and an entry in the cache: that is what is shown, and recorded.
ViewDiff(v) ==
  /\ \E p \in pairings :
       \/ diffCache[p] # NoDiff /\ Turn(v, p, "check", diffCache[p])
       \/ Turn(v, p, "collect", Blank(p))
  /\ UNCHANGED <<Table, Outside, Memory, latest, todo>>

\* The interval is over: _scan_once lists the pairings.
BeginScan ==
  /\ rec[Scanner].pc = "idle" /\ todo = {}
  /\ todo' = pairings
  /\ UNCHANGED <<Table, Outside, Memory, latest, rec, apart>>

\* The next pairing of the list, even if it was deleted meanwhile; never from the
\* cache.
ScanNext ==
  /\ \E p \in todo : Turn(Scanner, p, "collect", Blank(p)) /\ todo' = todo \ {p}
  /\ UNCHANGED <<Table, Outside, Memory, latest>>

ScanStep == BeginScan \/ ScanNext \/ RecordStep(Scanner)

-----------------------------------------------------------------------------
(* Pairings, administrators, restarts *)

\* add_pairing: a new uuid.
AddPairing ==
  /\ \E p \in Ids \ used : pairings' = pairings \cup {p} /\ used' = used \cup {p}
  /\ UNCHANGED <<Outside, Memory, latest, todo, rec, apart>>

DeletePairing(p) ==
  /\ p \in pairings
  /\ pairings' = pairings \ {p}
  /\ UNCHANGED <<used, Outside, Memory, latest, todo, rec, apart>>

\* A right is given or withdrawn.
ChangeRights(p, r) ==
  /\ moves[p] < MaxChanges[p]
  /\ rights' = [rights EXCEPT ![p] = IF r \in @ THEN @ \ {r} ELSE @ \cup {r}]
  /\ moves' = [moves EXCEPT ![p] = @ + 1]
  /\ UNCHANGED <<Table, boots, Memory, latest, todo, rec, apart>>

\* The process ends, with its memory, and starts again.
RestartHub ==
  /\ boots < MaxRestarts
  /\ boots' = boots + 1
  /\ lookup' = [r \in Rights |-> "unasked"]
  /\ diffCache' = [p \in Ids |-> NoDiff]
  /\ todo' = {}
  /\ rec' = [x \in Recorders |-> Resting]
  /\ pairings' = Imported(pairings)
  /\ UNCHANGED <<used, rights, latest, moves, apart>>

MonitorNext ==
  \/ ScanStep
  \/ \E v \in Viewers : ViewDiff(v) \/ RecordStep(v)
  \/ \E p \in Ids : CacheEntryGoes(p) \/ DeletePairing(p) \/ \E r \in Rights : ChangeRights(p, r)
  \/ AddPairing \/ RestartHub

MonitorSpec == MonitorInit /\ [][MonitorNext]_monitorVars

\* The scan thread goes on as long as the process does; a list of pairings that
\* cannot be read now can be read later.
MonitorFairness == WF_monitorVars(ScanStep)

-----------------------------------------------------------------------------
(* Safety *)

\* _drift_from: rows that are new, and rows that are gone.
Added(x) == {k.right : k \in rec[x].diff.rows \ rec[x].prev.rows}
Removed(x) == {k.right : k \in rec[x].prev.rows \ rec[x].diff.rows}

\* No right was lost or disfigured without an error.
Whole(d) == \A r \in d.held : \E k \in d.rows : k.right = r /\ k.by # "raw"

\* What has changed between two snapshots is reported as drift - what was given if
\* nothing was lost in the second, what was withdrawn if nothing was lost in the first.
\* And nothing else is reported if neither lost anything, each name had one answer of
\* Graph, and the process has not been restarted in between: an entry in "errors" or a
\* name that Graph did not find never passes for a change.  (Otherwise drift that nobody
\* caused is reported: a policy that was not listed is gone, a row that goes by another
\* key is another row.)
DriftIsReal ==
  \A x \in Recorders :
    LET old == rec[x].prev
        new == rec[x].diff
    IN rec[x].pc = "insert" /\ old # NoSnapshot =>
         /\ Whole(new) => new.held \ old.held \subseteq Added(x)
         /\ Whole(old) => old.held \ new.held \subseteq Removed(x)
         /\ Whole(old) /\ Whole(new) /\ old.sure /\ new.sure /\ old.boot = new.boot =>
              /\ Added(x) \subseteq new.held \ old.held
              /\ Removed(x) \subseteq old.held \ new.held

\* The drifts of a pairing form a chain: each starts at the snapshot where the one
\* before has ended, and none goes back in time, although pages record diffs from
\* the cache next to a scan that does not.  It takes two recorders at the same time
\* to break it.
DriftsChain ==
  \A x \in Recorders :
    rec[x].pc = "insert" /\ apart[rec[x].p] /\ rec[x].prev # NoSnapshot =>
      rec[x].prev = latest[rec[x].p] /\ rec[x].prev.at <= rec[x].diff.at

-----------------------------------------------------------------------------
(* Liveness *)

\* Every pairing that stays is scanned again and again, whatever fails on the way.
ScansGoOn ==
  \A p \in Ids : []<>(p \notin pairings \/ (rec[Scanner].pc = "collect" /\ rec[Scanner].p = p))
=============================================================================
