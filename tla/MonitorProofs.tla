---------------------------- MODULE MonitorProofs ----------------------------
(***************************************************************************)
(* Proofs about Monitor, for any pairings, rights and viewers, and any     *)
(* number of changes and restarts.                                         *)
(*                                                                         *)
(* Two diffs of one process compare row by row because each row goes by    *)
(* what the process remembers of Graph, which never changes, unless the    *)
(* diff is marked; drifts chain because a recorder that is alone at a      *)
(* pairing meets only its own snapshot and cache entry.                    *)
(***************************************************************************)
EXTENDS Monitor, TLAPS

-----------------------------------------------------------------------------
(* The inductive invariant *)

Typed == MonitorTypeOK /\ moves \in [Ids -> Nat]

\* The rows of a diff are of rights that were there, with one key for each right.
Sound(d) ==
  /\ \A k \in d.rows : k.right \in d.held
  /\ \A k, l \in d.rows : k.right = l.right => k = l

\* The rows go by what is remembered, but for those that were disfigured, and those in
\* left, which are not resolved yet.
Agrees(d, left, memory) ==
  d.sure => \A k \in d.rows : k.right \in left \/ k.by = "raw" \/ k.by = memory[k.right]

KnownTo(d, memory, boot) ==
  /\ d \in LiveDiff /\ d.boot <= boot
  /\ d.errors \/ (Sound(d) /\ (d.boot = boot => Agrees(d, {}, memory)))

Known(d) == KnownTo(d, lookup, boots)

Collecting(s) ==
  /\ ~s.diff.errors /\ Sound(s.diff)
  /\ \A k \in s.diff.rows : k.right \notin s.left /\ k.by \in {"name", "raw"}

Resolving(s, memory) ==
  \/ s.diff.errors
  \/ /\ Sound(s.diff) /\ Agrees(s.diff, s.left, memory)
     /\ \A r \in s.left : [right |-> r, by |-> "name"] \in s.diff.rows

\* What recorder state s has in hand.
InHand(s, memory, boot) ==
  /\ s.pc # "idle" => s.diff \in LiveDiff /\ s.diff.boot = boot
  /\ s.pc = "collect" => Collecting(s)
  /\ s.pc = "resolve" => Resolving(s, memory)
  /\ s.pc \in {"check", "insert"} => KnownTo(s.diff, memory, boot)
  /\ s.pc = "insert" =>
       /\ ~s.diff.errors
       /\ s.prev # NoSnapshot => KnownTo(s.prev, memory, boot) /\ ~s.prev.errors

Places == \A x \in Recorders : rec[x].pc = "idle" <=> rec[x].p = NoPairing

Stored ==
  /\ \A p \in Ids : diffCache[p] # NoDiff =>
       Known(diffCache[p]) /\ diffCache[p].boot = boots /\ diffCache[p].at <= moves[p]
  /\ \A p \in Ids : latest[p] # NoSnapshot =>
       Known(latest[p]) /\ ~latest[p].errors /\ latest[p].at <= moves[p]

Hands == \A x \in Recorders : InHand(rec[x], lookup, boots)

Dates == \A x \in Recorders : rec[x].pc # "idle" => rec[x].diff.at <= moves[rec[x].p]

\* A recorder that has been alone at p: its diff is no older than the last snapshot
\* and no newer than the cache.
Alone(p) ==
  /\ \A x, y \in Recorders : rec[x].p = p /\ rec[y].p = p => x = y
  /\ latest[p] # NoSnapshot /\ diffCache[p] # NoDiff => latest[p].at <= diffCache[p].at
  /\ \A x \in Recorders : rec[x].p = p =>
       /\ rec[x].pc # "idle" /\ latest[p] # NoSnapshot => latest[p].at <= rec[x].diff.at
       /\ rec[x].pc \in {"check", "insert"} /\ diffCache[p] # NoDiff =>
            rec[x].diff.at <= diffCache[p].at
       /\ rec[x].pc = "insert" => rec[x].prev = latest[p]

LegacyUsed == Legacy \subseteq used

Chains == \A p \in Ids : apart[p] => Alone(p)

IInv == Typed /\ Places /\ Stored /\ Hands /\ Dates /\ Chains /\ LegacyUsed

-----------------------------------------------------------------------------
(* The invariant implies the properties *)

LEMMA InvDriftIsReal == IInv => DriftIsReal
<1>1. SUFFICES ASSUME IInv, NEW x \in Recorders, rec[x].pc = "insert", rec[x].prev # NoSnapshot,
                      NEW new, NEW old, new = rec[x].diff, old = rec[x].prev
               PROVE  /\ Whole(new) => new.held \ old.held \subseteq Added(x)
                      /\ Whole(old) => old.held \ new.held \subseteq Removed(x)
                      /\ Whole(old) /\ Whole(new) /\ old.sure /\ new.sure /\ old.boot = new.boot =>
                           /\ Added(x) \subseteq new.held \ old.held
                           /\ Removed(x) \subseteq old.held \ new.held
  BY DEF DriftIsReal
<1>2. /\ Known(new) /\ ~new.errors /\ new.boot = boots
      /\ Known(old) /\ ~old.errors
  BY <1>1 DEF IInv, Hands, InHand, Known
<1>3. new \in LiveDiff /\ old \in LiveDiff /\ Sound(new) /\ Sound(old)
  BY <1>2 DEF Known, KnownTo
<1>4. ASSUME NEW d \in LiveDiff, NEW e \in LiveDiff, Sound(e), Whole(d)
      PROVE  d.held \ e.held \subseteq {k.right : k \in d.rows \ e.rows}
  <2>1. SUFFICES ASSUME NEW r \in d.held \ e.held
                 PROVE  \E k \in d.rows \ e.rows : k.right = r
    OBVIOUS
  <2>2. PICK k \in d.rows : k.right = r
    BY <1>4 DEF Whole
  <2>3. k \notin e.rows
    BY <1>4, <2>2 DEF Sound
  <2>4. QED
    BY <2>2, <2>3
<1>5. ASSUME NEW d \in LiveDiff, NEW e \in LiveDiff, Sound(d), Sound(e), Whole(d), Whole(e),
             Agrees(d, {}, lookup), Agrees(e, {}, lookup), d.sure, e.sure
      PROVE  {k.right : k \in d.rows \ e.rows} \subseteq d.held \ e.held
  <2>1. SUFFICES ASSUME NEW k \in d.rows, k \notin e.rows, k.right \in e.held PROVE FALSE
    BY <1>5 DEF Sound
  <2>2. PICK l \in e.rows : l.right = k.right /\ l.by # "raw"
    BY <1>5, <2>1 DEF Whole
  <2>3. k.by # "raw"
    <3>1. PICK m \in d.rows : m.right = k.right /\ m.by # "raw"
      BY <1>5, <2>1 DEF Sound, Whole
    <3>2. m = k
      BY <1>5, <3>1 DEF Sound
    <3>3. QED
      BY <3>1, <3>2
  <2>4. k.by = lookup[k.right] /\ l.by = lookup[l.right]
    BY <1>5, <2>2, <2>3 DEF Agrees
  <2>5. k \in RowKey /\ l \in RowKey
    BY DEF LiveDiff
  <2>6. k = l
    BY <2>2, <2>4, <2>5 DEF RowKey
  <2>7. QED
    BY <2>1, <2>6
<1>6. Added(x) = {k.right : k \in new.rows \ old.rows}
      /\ Removed(x) = {k.right : k \in old.rows \ new.rows}
  BY <1>1 DEF Added, Removed
<1>7. old.boot = new.boot => Agrees(new, {}, lookup) /\ Agrees(old, {}, lookup)
  BY <1>2 DEF Known, KnownTo
<1>8. QED
  BY <1>3, <1>4, <1>5, <1>6, <1>7

LEMMA InvDriftsChain == IInv => DriftsChain
<1>1. SUFFICES ASSUME IInv, NEW x \in Recorders, rec[x].pc = "insert", apart[rec[x].p],
                      rec[x].prev # NoSnapshot
               PROVE  rec[x].prev = latest[rec[x].p] /\ rec[x].prev.at <= rec[x].diff.at
  BY DEF DriftsChain
<1>2. rec[x].p \in Ids
  BY <1>1 DEF IInv, Typed, MonitorTypeOK, Places, RecState
<1>3. Alone(rec[x].p)
  BY <1>1, <1>2 DEF IInv, Chains
<1>4. QED
  BY <1>1, <1>2, <1>3 DEF Alone

-----------------------------------------------------------------------------
(* What steps do to a recorder *)

\* Recorder x goes to the state s, the others stay where they are.
Goes(x, s) == rec' = [rec EXCEPT ![x] = s]

LEMMA GoesTo ==
  ASSUME Typed, NEW x \in Recorders, NEW s, Goes(x, s)
  PROVE  rec'[x] = s /\ \A y \in Recorders : y # x => rec'[y] = rec[y]
BY DEF Goes, Typed, MonitorTypeOK

LEMMA GoesTyped ==
  ASSUME Typed, NEW x \in Recorders, NEW s \in RecState, Goes(x, s)
  PROVE  rec' \in [Recorders -> RecState]
BY DEF Goes, Typed, MonitorTypeOK

LEMMA RestingTyped ==
  Resting \in RecState /\ Resting.pc = "idle" /\ Resting.p = NoPairing
BY DEF Resting, RecState

LEMMA StateFields ==
  ASSUME Typed, NEW x \in Recorders
  PROVE  /\ rec[x] \in RecState
         /\ rec[x].pc \in {"idle", "collect", "resolve", "check", "insert"}
         /\ rec[x].p \in Ids \cup {NoPairing}
         /\ rec[x].left \subseteq Rights
         /\ rec[x].diff \in LiveDiff \cup {NoDiff}
         /\ rec[x].prev \in LiveDiff \cup {NoSnapshot}
BY DEF Typed, MonitorTypeOK, RecState

\* A recorder at work is at a pairing, with a diff of this process.
LEMMA AtWork ==
  ASSUME IInv, NEW x \in Recorders, rec[x].pc # "idle"
  PROVE  /\ rec[x].p \in Ids /\ rec[x].diff \in LiveDiff /\ rec[x].diff.boot = boots
         /\ rec[x].diff.rows \subseteq RowKey /\ rec[x].diff.held \subseteq Rights
         /\ rec[x].diff.errors \in BOOLEAN /\ rec[x].diff.sure \in BOOLEAN
         /\ rec[x].diff.at <= moves[rec[x].p]
<1>1. rec[x].p \in Ids
  BY StateFields DEF IInv, Places
<1>2. rec[x].diff \in LiveDiff /\ rec[x].diff.boot = boots /\ rec[x].diff.at <= moves[rec[x].p]
  BY DEF IInv, Hands, InHand, Dates
<1>3. QED
  BY <1>1, <1>2 DEF LiveDiff

\* What is known stays known while memory only grows.
Grows(old, new) == \A r \in Rights : old[r] # "unasked" => new[r] = old[r]

LEMMA AgreesOn ==
  ASSUME NEW d \in LiveDiff, NEW left, NEW old, NEW new, Grows(old, new), Agrees(d, left, old)
  PROVE  Agrees(d, left, new)
<1>1. \A k \in d.rows : k.right \in Rights /\ k.by \in {"oid", "name", "raw"}
  BY DEF LiveDiff, RowKey
<1>2. QED
  BY <1>1 DEF Agrees, Grows

LEMMA KnownOn ==
  ASSUME NEW d, NEW old, NEW new, NEW boot, Grows(old, new), KnownTo(d, old, boot)
  PROVE  KnownTo(d, new, boot)
BY AgreesOn DEF KnownTo

LEMMA InHandOn ==
  ASSUME NEW s, NEW old, NEW new, NEW boot, Grows(old, new), InHand(s, old, boot)
  PROVE  InHand(s, new, boot)
<1>1. s.pc = "resolve" => s.diff \in LiveDiff
  BY DEF InHand
<1>2. s.pc = "resolve" => Resolving(s, new)
  BY <1>1, AgreesOn DEF InHand, Resolving
<1>3. QED
  BY <1>2, KnownOn DEF InHand

-----------------------------------------------------------------------------
(* Steps *)

Rested == UNCHANGED <<pairings, used, rights, lookup, diffCache, latest, todo, moves, boots, apart>>

LEMMA RestingStep ==
  ASSUME IInv, NEW x \in Recorders, Goes(x, Resting), Rested
  PROVE  IInv'
<1>1. /\ rec'[x] = Resting /\ \A y \in Recorders : y # x => rec'[y] = rec[y]
      /\ rec' \in [Recorders -> RecState]
  BY GoesTo, GoesTyped, RestingTyped DEF IInv
<1>2. Resting.pc = "idle" /\ Resting.p = NoPairing
  BY RestingTyped
<1>3. Typed'
  BY <1>1 DEF IInv, Typed, MonitorTypeOK, Rested
<1>4. Places'
  BY <1>1, <1>2 DEF IInv, Places
<1>5. Stored'
  BY DEF IInv, Stored, Known, Rested
<1>6. Hands'
  <2>1. InHand(Resting, lookup, boots)
    BY <1>2 DEF InHand
  <2>2. QED
    BY <1>1, <2>1 DEF IInv, Hands, Rested
<1>7. Dates'
  BY <1>1, <1>2 DEF IInv, Dates, Rested
<1>8. Chains'
  <2>1. SUFFICES ASSUME NEW p \in Ids, apart[p], Alone(p) PROVE Alone(p)'
    BY DEF IInv, Chains, Rested
  <2>2. \A y \in Recorders : rec'[y].p = p => rec'[y] = rec[y]
    BY <1>1, <1>2, MonitorAssumption
  <2>3. QED
    BY <2>1, <2>2 DEF Alone, Rested
<1>9. QED
  BY <1>3, <1>4, <1>5, <1>6, <1>7, <1>8 DEF IInv, LegacyUsed, Rested

\* A recorder goes on with its diff, and Graph may be remembered to have answered.
LEMMA WorkStep ==
  ASSUME IInv, NEW x \in Recorders, NEW s \in RecState, Goes(x, s),
         rec[x].pc # "idle", s.p = rec[x].p, s.pc \in {"collect", "resolve"},
         s.diff \in LiveDiff, s.diff.at = rec[x].diff.at,
         lookup' \in [Rights -> {"unasked", "oid", "name"}], Grows(lookup, lookup'),
         InHand(s, lookup', boots),
         UNCHANGED <<pairings, used, rights, diffCache, latest, todo, moves, boots, apart>>
  PROVE  IInv'
<1>1. /\ rec'[x] = s /\ \A y \in Recorders : y # x => rec'[y] = rec[y]
      /\ rec' \in [Recorders -> RecState]
  BY GoesTo, GoesTyped DEF IInv
<1>2. Typed'
  BY <1>1 DEF IInv, Typed, MonitorTypeOK
<1>3. Places'
  BY <1>1 DEF IInv, Places
<1>4. \A e : Known(e) => Known(e)'
  BY KnownOn DEF Known
<1>5. Stored'
  BY <1>4 DEF IInv, Stored
<1>6. Hands'
  BY <1>1, InHandOn DEF IInv, Hands
<1>7. Dates'
  BY <1>1 DEF IInv, Dates
<1>8. Chains'
  <2>1. SUFFICES ASSUME NEW p \in Ids, apart[p], Alone(p) PROVE Alone(p)'
    BY DEF IInv, Chains
  <2>2. \A y \in Recorders : /\ rec'[y].p = rec[y].p
                             /\ rec[y].pc # "idle" => rec'[y].diff.at = rec[y].diff.at
                             /\ rec'[y].pc # "idle" => rec[y].pc # "idle"
                             /\ rec'[y].pc \in {"check", "insert"} => rec'[y] = rec[y]
    BY <1>1
  <2>3. QED
    BY <2>1, <2>2 DEF Alone
<1>9. QED
  BY <1>2, <1>3, <1>5, <1>6, <1>7, <1>8 DEF IInv, LegacyUsed

LEMMA ReadRightStep ==
  ASSUME IInv, NEW x \in Recorders, NEW r \in Rights, ReadRight(x, r)
  PROVE  IInv'
<1>1. /\ UNCHANGED <<pairings, used, rights, lookup, diffCache, latest, todo, moves, boots, apart>>
      /\ rec[x].pc = "collect" /\ r \in rec[x].left
  BY DEF ReadRight, Table, Outside, Memory
<1>2. PICK keys \in {{"name"}, {"raw"}, {}} :
        rec' = [rec EXCEPT ![x].left = @ \ {r},
                           ![x].diff = IF r \in rights[rec[x].p] THEN Reading(@, r, keys) ELSE @]
  BY DEF ReadRight
<1> DEFINE d == IF r \in rights[rec[x].p] THEN Reading(rec[x].diff, r, keys) ELSE rec[x].diff
           s == [rec[x] EXCEPT !.left = @ \ {r}, !.diff = d]
<1>3. /\ rec[x] \in RecState /\ rec[x].left \subseteq Rights
      /\ rec \in [Recorders -> RecState]
      /\ lookup \in [Rights -> {"unasked", "oid", "name"}]
  BY StateFields DEF IInv, Typed, MonitorTypeOK
<1>4. rec[x].p \in Ids /\ rec[x].diff \in LiveDiff /\ rec[x].diff.boot = boots
  BY <1>1, AtWork
<1>5. Collecting(rec[x])
  BY <1>1 DEF IInv, Hands, InHand
<1>6. Goes(x, s)
  BY <1>2, <1>3 DEF Goes, RecState
<1> DEFINE added == {[right |-> r, by |-> k] : k \in keys}
<1>7. /\ added \subseteq RowKey
      /\ \A k \in added : k.right = r /\ k.by \in {"name", "raw"}
      /\ \A k, l \in added : k = l
  <2>1. keys \subseteq {"name", "raw"} /\ \A k, l \in keys : k = l
    BY <1>2
  <2>2. \A k \in added : \E b \in keys : k = [right |-> r, by |-> b]
    OBVIOUS
  <2>3. added \subseteq RowKey
    BY <2>1, <2>2 DEF RowKey
  <2>4. \A k \in added : k.right = r /\ k.by \in {"name", "raw"}
    BY <2>1, <2>2
  <2>5. \A k, l \in added : k = l
    BY <2>1, <2>2
  <2>6. QED
    BY <2>3, <2>4, <2>5
<1> HIDE DEF added
<1>8. /\ d \in LiveDiff /\ d.at = rec[x].diff.at /\ d.boot = boots
      /\ ~d.errors
      /\ \/ d.rows = rec[x].diff.rows /\ d.held = rec[x].diff.held
         \/ d.rows = rec[x].diff.rows \cup added /\ d.held = rec[x].diff.held \cup {r}
  BY <1>4, <1>5, <1>7 DEF LiveDiff, Reading, Collecting, added
<1> HIDE DEF d
<1>9. /\ s \in RecState /\ s.pc = "collect" /\ s.p = rec[x].p /\ s.diff = d
      /\ s.left = rec[x].left \ {r}
  BY <1>1, <1>3, <1>8 DEF RecState
<1> HIDE DEF s
<1>10. Collecting(s)
  <2>1. \A k \in rec[x].diff.rows : k.right # r
    BY <1>1, <1>5 DEF Collecting
  <2>2. Sound(d)
    BY <1>5, <1>7, <1>8, <2>1 DEF Collecting, Sound
  <2>3. QED
    BY <1>5, <1>7, <1>8, <1>9, <2>2 DEF Collecting
<1>11. InHand(s, lookup', boots)
  BY <1>8, <1>9, <1>10 DEF InHand
<1>12. Grows(lookup, lookup')
  BY <1>1 DEF Grows
<1>13. QED
  BY <1>1, <1>3, <1>6, <1>8, <1>9, <1>11, <1>12, WorkStep

LEMMA AskGraphStep ==
  ASSUME IInv, NEW x \in Recorders, AskGraph(x)
  PROVE  IInv'
<1> DEFINE read == rec[x].diff.rows
           rows == {Remembered(k) : k \in read}
           d == [rec[x].diff EXCEPT !.rows = rows]
           s == [rec[x] EXCEPT !.pc = "resolve", !.left = Unknown(read), !.diff = d]
<1>1. /\ UNCHANGED <<pairings, used, rights, lookup, diffCache, latest, todo, moves, boots, apart>>
      /\ rec[x].pc = "collect"
  BY DEF AskGraph, Table, Outside, Memory
<1>2. /\ rec[x] \in RecState /\ rec \in [Recorders -> RecState]
      /\ lookup \in [Rights -> {"unasked", "oid", "name"}]
  BY StateFields DEF IInv, Typed, MonitorTypeOK
<1>3. /\ rec[x].p \in Ids /\ rec[x].diff \in LiveDiff /\ rec[x].diff.boot = boots
      /\ read \subseteq RowKey
  BY <1>1, AtWork
<1>4. Collecting(rec[x])
  BY <1>1 DEF IInv, Hands, InHand
<1>5. Goes(x, s)
  BY <1>2, <1>3 DEF AskGraph, Goes, RecState, LiveDiff
<1>6. \A k \in read :
        /\ k \in RowKey /\ Remembered(k) \in RowKey /\ Remembered(k).right = k.right
        /\ Remembered(k).by = IF k.by = "name" /\ lookup[k.right] # "unasked"
                              THEN lookup[k.right] ELSE k.by
        /\ k.by \in {"name", "raw"}
  BY <1>2, <1>3, <1>4 DEF Remembered, RowKey, Collecting
<1>7. Unknown(read) \subseteq Rights
  BY <1>3 DEF Unknown, RowKey
<1>8. rows \subseteq RowKey
  BY <1>6
<1>9. /\ d \in LiveDiff /\ d.at = rec[x].diff.at /\ d.boot = boots /\ d.rows = rows
      /\ d.held = rec[x].diff.held
  BY <1>3, <1>8 DEF LiveDiff
<1>10. Sound(d)
  <2>1. \A k \in rows : \E l \in read : k = Remembered(l) /\ k.right = l.right
    BY <1>6
  <2>2. QED
    BY <1>4, <1>9, <2>1 DEF Sound, Collecting
<1>11. ASSUME NEW k \in rows
       PROVE  k.right \in Unknown(read) \/ k.by = "raw" \/ k.by = lookup[k.right]
  <2>1. PICK l \in read : k = Remembered(l)
    OBVIOUS
  <2>2. CASE l.by = "name" /\ lookup[l.right] = "unasked"
    BY <1>6, <2>1, <2>2 DEF Unknown
  <2>3. CASE l.by = "raw" \/ lookup[l.right] # "unasked"
    BY <1>6, <2>1, <2>3
  <2>4. QED
    BY <1>6, <2>2, <2>3
<1>12. ASSUME NEW r \in Unknown(read) PROVE [right |-> r, by |-> "name"] \in rows
  <2>1. PICK l \in read : l.right = r /\ l.by = "name" /\ lookup[l.right] = "unasked"
    BY DEF Unknown
  <2>2. Remembered(l) = [right |-> r, by |-> "name"]
    BY <1>6, <2>1 DEF RowKey
  <2>3. QED
    BY <2>1, <2>2
<1>13. /\ s \in RecState /\ s.pc = "resolve" /\ s.p = rec[x].p /\ s.diff = d
       /\ s.left = Unknown(read)
  BY <1>2, <1>7, <1>9 DEF RecState
<1> HIDE DEF s, d, rows
<1>14. InHand(s, lookup, boots)
  <2>1. Agrees(d, Unknown(read), lookup)
    BY <1>9, <1>11 DEF Agrees
  <2>2. Resolving(s, lookup)
    BY <1>9, <1>10, <1>12, <1>13, <2>1 DEF Resolving
  <2>3. QED
    BY <1>9, <1>13, <2>2 DEF InHand
<1>15. Grows(lookup, lookup') /\ InHand(s, lookup', boots)
  BY <1>1, <1>14 DEF Grows
<1>16. QED
  BY <1>1, <1>2, <1>5, <1>9, <1>13, <1>15, WorkStep

LEMMA CollectFailsStep ==
  ASSUME IInv, NEW x \in Recorders, CollectFails(x)
  PROVE  IInv'
<1>1. /\ UNCHANGED <<pairings, used, rights, lookup, diffCache, latest, todo, moves, boots, apart>>
      /\ rec[x].pc = "collect"
  BY DEF CollectFails, Table, Outside, Memory
<1> DEFINE d == [rec[x].diff EXCEPT !.errors = TRUE, !.rows = {}, !.held = {}]
<1>2. PICK asked \in SUBSET Unknown(rec[x].diff.rows) :
        rec' = [rec EXCEPT ![x].pc = "resolve", ![x].left = asked,
                           ![x].diff = [@ EXCEPT !.errors = TRUE, !.rows = {}, !.held = {}]]
  BY DEF CollectFails
<1> DEFINE s == [rec[x] EXCEPT !.pc = "resolve", !.left = asked, !.diff = d]
<1>3. /\ rec[x] \in RecState /\ rec \in [Recorders -> RecState]
      /\ lookup \in [Rights -> {"unasked", "oid", "name"}]
  BY StateFields DEF IInv, Typed, MonitorTypeOK
<1>4. /\ rec[x].diff \in LiveDiff /\ rec[x].diff.boot = boots
      /\ rec[x].diff.rows \subseteq RowKey
  BY <1>1, AtWork
<1>5. asked \subseteq Rights
  BY <1>4 DEF Unknown, RowKey
<1>6. d \in LiveDiff /\ d.at = rec[x].diff.at /\ d.boot = boots /\ d.errors
  BY <1>4 DEF LiveDiff
<1>7. Goes(x, s)
  BY <1>2, <1>3, <1>4 DEF Goes, RecState
<1> HIDE DEF d
<1>8. s \in RecState /\ s.pc = "resolve" /\ s.p = rec[x].p /\ s.diff = d
  BY <1>3, <1>5, <1>6 DEF RecState
<1> HIDE DEF s
<1>9. InHand(s, lookup', boots)
  BY <1>6, <1>8 DEF InHand, Resolving
<1>10. Grows(lookup, lookup')
  BY <1>1 DEF Grows
<1>11. QED
  BY <1>1, <1>3, <1>6, <1>7, <1>8, <1>9, <1>10, WorkStep

LEMMA GraphAnswersStep ==
  ASSUME IInv, NEW x \in Recorders, NEW r \in Rights, NEW by \in {"oid", "name"},
         GraphAnswers(x, r, by)
  PROVE  IInv'
<1> DEFINE d == rec[x].diff
           e == Answered(d, r, by)
           s == [rec[x] EXCEPT !.left = @ \ {r}, !.diff = e]
           asked == [right |-> r, by |-> "name"]
           answer == [right |-> r, by |-> by]
<1>1. /\ UNCHANGED <<pairings, used, rights, diffCache, latest, todo, moves, boots, apart>>
      /\ rec[x].pc = "resolve" /\ r \in rec[x].left
      /\ lookup' = [lookup EXCEPT ![r] = AfterAnswer(@, by)]
  BY DEF GraphAnswers, Table, Outside
<1>2. /\ rec[x] \in RecState /\ rec \in [Recorders -> RecState] /\ rec[x].left \subseteq Rights
      /\ lookup \in [Rights -> {"unasked", "oid", "name"}]
  BY StateFields DEF IInv, Typed, MonitorTypeOK
<1>3. d \in LiveDiff /\ d.boot = boots /\ d.rows \subseteq RowKey /\ d.sure \in BOOLEAN
  BY <1>1, AtWork
<1>4. Resolving(rec[x], lookup)
  BY <1>1 DEF IInv, Hands, InHand
<1>5. /\ lookup' \in [Rights -> {"unasked", "oid", "name"}] /\ Grows(lookup, lookup')
      /\ \A q \in Rights : q # r => lookup'[q] = lookup[q]
      /\ lookup[r] \in {"unasked", by} => lookup'[r] = by
  BY <1>1, <1>2 DEF AfterAnswer, Grows
<1>6. Goes(x, s)
  BY <1>2 DEF GraphAnswers, Goes, RecState
<1>7. answer \in RowKey /\ answer.right = r /\ answer.by = by /\ asked.right = r
  BY DEF RowKey
<1> HIDE DEF answer, asked
<1>8. CASE d.errors
  <2>1. e = d
    BY <1>8 DEF Answered
  <2>2. s \in RecState /\ s.pc = "resolve" /\ s.p = rec[x].p /\ s.diff = d
    BY <1>1, <1>2, <1>3, <2>1 DEF RecState
  <2> HIDE DEF s
  <2>3. InHand(s, lookup', boots)
    BY <1>3, <1>8, <2>2 DEF InHand, Resolving
  <2>4. QED
    BY <1>1, <1>3, <1>5, <1>6, <2>2, <2>3, WorkStep
<1>9. CASE ~d.errors
  <2>1. e = [d EXCEPT !.rows = (d.rows \ {asked}) \cup {answer},
                      !.sure = d.sure /\ lookup[r] \in {"unasked", by}]
    BY <1>3, <1>9 DEF Answered, LiveDiff, asked, answer
  <2>2. /\ e \in LiveDiff /\ e.at = d.at /\ e.boot = boots /\ e.held = d.held
        /\ e.rows = (d.rows \ {asked}) \cup {answer}
        /\ e.sure => d.sure /\ lookup[r] \in {"unasked", by}
    <3> DEFINE sure == d.sure /\ lookup[r] \in {"unasked", by}
               rows == (d.rows \ {asked}) \cup {answer}
    <3>1. sure \in BOOLEAN /\ rows \in SUBSET RowKey
      BY <1>3, <1>7
    <3>2. sure => d.sure /\ lookup[r] \in {"unasked", by}
      OBVIOUS
    <3>3. e = [d EXCEPT !.rows = rows, !.sure = sure]
      BY <2>1
    <3> HIDE DEF sure, rows
    <3>4. /\ e \in LiveDiff /\ e.at = d.at /\ e.boot = boots /\ e.held = d.held
          /\ e.rows = rows /\ e.sure = sure
      BY <1>3, <3>1, <3>3 DEF LiveDiff
    <3>5. QED
      BY <3>2, <3>4 DEF rows
  <2> HIDE DEF e
  <2>3. /\ s \in RecState /\ s.pc = "resolve" /\ s.p = rec[x].p /\ s.diff = e
        /\ s.left = rec[x].left \ {r}
    BY <1>1, <1>2, <2>2 DEF RecState
  <2> HIDE DEF s
  <2>4. /\ Sound(d) /\ Agrees(d, rec[x].left, lookup)
        /\ \A q \in rec[x].left : [right |-> q, by |-> "name"] \in d.rows
    BY <1>4, <1>9 DEF Resolving
  <2>5. asked \in d.rows
    BY <1>1, <2>4 DEF asked
  <2>6. \A k \in d.rows \ {asked} : k.right # r
    BY <1>7, <2>4, <2>5 DEF Sound
  <2>7. Sound(e)
    BY <1>7, <2>2, <2>4, <2>5, <2>6 DEF Sound
  <2>8. Agrees(e, s.left, lookup')
    <3>1. SUFFICES ASSUME e.sure, NEW k \in e.rows
                   PROVE  k.right \in s.left \/ k.by = "raw" \/ k.by = lookup'[k.right]
      BY DEF Agrees
    <3>2. CASE k = answer
      BY <1>5, <1>7, <2>2, <3>1, <3>2
    <3>3. CASE k \in d.rows \ {asked}
      <4>1. k.right # r /\ k.right \in Rights
        BY <1>3, <2>6, <3>3 DEF RowKey
      <4>2. k.right \in rec[x].left \/ k.by = "raw" \/ k.by = lookup[k.right]
        BY <2>2, <2>4, <3>1, <3>3 DEF Agrees
      <4>3. QED
        BY <1>5, <2>3, <4>1, <4>2
    <3>4. QED
      BY <2>2, <3>2, <3>3
  <2>9. \A q \in s.left : [right |-> q, by |-> "name"] \in e.rows
    <3>1. SUFFICES ASSUME NEW q \in rec[x].left, q # r
                   PROVE  [right |-> q, by |-> "name"] \in e.rows
      BY <2>3
    <3>2. [right |-> q, by |-> "name"] \in d.rows /\ [right |-> q, by |-> "name"].right = q
      BY <2>4
    <3>3. QED
      BY <1>7, <2>2, <3>1, <3>2
  <2>10. InHand(s, lookup', boots)
    BY <2>2, <2>3, <2>7, <2>8, <2>9 DEF InHand, Resolving
  <2>11. QED
    BY <1>1, <1>5, <1>6, <2>2, <2>3, <2>10, WorkStep
<1>10. QED
  BY <1>3, <1>8, <1>9

LEMMA StoreStep ==
  ASSUME IInv, NEW x \in Recorders, StoreInCache(x)
  PROVE  IInv'
<1> DEFINE s == [rec[x] EXCEPT !.pc = "check"]
           d == rec[x].diff
<1>1. /\ UNCHANGED <<pairings, used, rights, lookup, latest, todo, moves, boots, apart>>
      /\ rec[x].pc = "resolve" /\ rec[x].left = {} /\ Goes(x, s)
      /\ diffCache' = [diffCache EXCEPT ![rec[x].p] = d]
  BY DEF StoreInCache, Table, Outside, Goes
<1>2. s \in RecState /\ s.pc = "check" /\ s.diff = d /\ s.p = rec[x].p
  BY StateFields DEF IInv, RecState
<1>3. /\ rec'[x] = s /\ \A y \in Recorders : y # x => rec'[y] = rec[y]
      /\ rec' \in [Recorders -> RecState]
  BY <1>1, <1>2, GoesTo, GoesTyped DEF IInv
<1>4. /\ Known(d) /\ d.boot = boots /\ d.at <= moves[rec[x].p] /\ rec[x].p \in Ids
      /\ d \in LiveDiff
  <2>1. Resolving(rec[x], lookup)
    BY <1>1 DEF IInv, Hands, InHand
  <2>2. boots <= boots
    BY DEF IInv, Typed, MonitorTypeOK
  <2>3. QED
    BY <1>1, <2>1, <2>2, AtWork DEF Known, KnownTo, Resolving
<1>5. /\ diffCache' \in [Ids -> LiveDiff \cup {NoDiff}]
      /\ \A p \in Ids : diffCache'[p] = IF p = rec[x].p THEN d ELSE diffCache[p]
  BY <1>1, <1>4 DEF IInv, Typed, MonitorTypeOK
<1>6. \A y \in Recorders : rec'[y].p = rec[y].p /\ rec'[y].diff = rec[y].diff
  BY <1>2, <1>3
<1>7. Typed'
  <2>1. MonitorTypeOK /\ moves \in [Ids -> Nat]
    BY DEF IInv, Typed
  <2>2. /\ pairings' \subseteq used' /\ used' \subseteq Ids
        /\ rights' \in [Ids -> SUBSET Rights]
        /\ lookup' \in [Rights -> {"unasked", "oid", "name"}]
        /\ latest' \in [Ids -> LiveDiff \cup {NoSnapshot}]
        /\ todo' \subseteq Ids
        /\ apart' \in [Ids -> BOOLEAN]
    BY <1>1, <2>1 DEF MonitorTypeOK
  <2>3. /\ \A p \in Ids : moves'[p] \in 0..MaxChanges[p]
        /\ boots' \in 0..MaxRestarts /\ moves' \in [Ids -> Nat]
    BY <1>1, <2>1 DEF MonitorTypeOK
  <2>4. QED
    BY <1>3, <1>5, <2>2, <2>3 DEF Typed, MonitorTypeOK
<1>8. Places'
  <2>1. rec'[x].pc = "check" /\ rec'[x].p = rec[x].p /\ rec[x].pc = "resolve"
    BY <1>1, <1>2, <1>3
  <2>2. \A y \in Recorders : y # x => rec'[y] = rec[y]
    BY <1>3
  <2>3. QED
    BY <2>1, <2>2 DEF IInv, Places
<1>9. Stored'
  <2>1. \A e : Known(e)' <=> Known(e)
    BY <1>1 DEF Known
  <2>2. \A p \in Ids : diffCache'[p] # NoDiff =>
          Known(diffCache'[p]) /\ diffCache'[p].boot = boots /\ diffCache'[p].at <= moves[p]
    BY <1>4, <1>5 DEF IInv, Stored
  <2>3. QED
    BY <1>1, <2>1, <2>2 DEF IInv, Stored
<1>10. Hands'
  <2>1. InHand(s, lookup, boots)
    BY <1>2, <1>4 DEF InHand, Known
  <2>2. QED
    BY <1>1, <1>3, <2>1 DEF IInv, Hands
<1>11. Dates'
  BY <1>1, <1>2, <1>3 DEF IInv, Dates
<1>12. Chains'
  <2>1. SUFFICES ASSUME NEW p \in Ids, apart[p], Alone(p) PROVE Alone(p)'
    BY <1>1 DEF IInv, Chains
  <2>2. CASE p # rec[x].p
    <3>1. diffCache'[p] = diffCache[p] /\ \A y \in Recorders : rec'[y].p = p => rec'[y] = rec[y]
      BY <1>2, <1>3, <1>5, <2>2
    <3>2. QED
      BY <1>1, <1>6, <2>1, <3>1 DEF Alone
  <2>3. CASE p = rec[x].p
    <3>1. \A y \in Recorders : rec'[y].p = p => y = x
      BY <1>6, <2>1, <2>3 DEF Alone
    <3>2. diffCache'[p] = d /\ d.at <= d.at
      BY <1>4, <1>5, <2>3 DEF LiveDiff
    <3>3. latest[p] # NoSnapshot => latest[p].at <= d.at
      BY <1>1, <2>1, <2>3 DEF Alone
    <3>4. QED
      BY <1>1, <1>2, <1>3, <3>1, <3>2, <3>3 DEF Alone
  <2>4. QED
    BY <2>2, <2>3
<1>13. QED
  BY <1>1, <1>7, <1>8, <1>9, <1>10, <1>11, <1>12 DEF IInv, LegacyUsed

LEMMA ReadLastStep ==
  ASSUME IInv, NEW x \in Recorders, ReadLast(x)
  PROVE  IInv'
<1> DEFINE s == [rec[x] EXCEPT !.pc = "insert", !.prev = latest[rec[x].p]]
<1>1. Rested /\ rec[x].pc = "check" /\ ~rec[x].diff.errors /\ Goes(x, s)
  BY DEF ReadLast, Table, Outside, Memory, Goes, Rested
<1>2. rec[x].p \in Ids /\ latest[rec[x].p] \in LiveDiff \cup {NoSnapshot}
  BY <1>1, StateFields DEF IInv, Typed, MonitorTypeOK, Places
<1>3. /\ s \in RecState /\ s.pc = "insert" /\ s.diff = rec[x].diff /\ s.p = rec[x].p
      /\ s.prev = latest[rec[x].p]
  BY <1>2, StateFields DEF IInv, RecState
<1>4. /\ rec'[x] = s /\ \A y \in Recorders : y # x => rec'[y] = rec[y]
      /\ rec' \in [Recorders -> RecState]
  BY <1>1, <1>3, GoesTo, GoesTyped DEF IInv
<1> HIDE DEF s
<1>5. Typed'
  BY <1>1, <1>4 DEF IInv, Typed, MonitorTypeOK, Rested
<1>6. Places'
  BY <1>1, <1>3, <1>4 DEF IInv, Places
<1>7. Stored'
  BY <1>1 DEF IInv, Stored, Known, Rested
<1>8. Hands' /\ Dates'
  <2>1. InHand(s, lookup, boots)
    BY <1>1, <1>2, <1>3 DEF IInv, Hands, Stored, InHand, Known
  <2>2. Hands'
    BY <1>1, <1>4, <2>1 DEF IInv, Hands, Rested
  <2>3. Dates'
    BY <1>1, <1>3, <1>4 DEF IInv, Dates, Rested
  <2>4. QED
    BY <2>2, <2>3
<1>9. Chains'
  <2>1. SUFFICES ASSUME NEW p \in Ids, apart[p], Alone(p) PROVE Alone(p)'
    BY <1>1 DEF IInv, Chains, Rested
  <2>2. \A y \in Recorders : rec'[y].p = rec[y].p
    BY <1>3, <1>4
  <2>3. QED
    BY <1>1, <1>3, <1>4, <2>1, <2>2 DEF Alone, Rested
<1>10. QED
  BY <1>1, <1>5, <1>6, <1>7, <1>8, <1>9 DEF IInv, LegacyUsed, Rested

LEMMA InsertStep ==
  ASSUME IInv, NEW x \in Recorders, InsertSnapshot(x)
  PROVE  IInv'
<1> DEFINE d == rec[x].diff
           q == rec[x].p
<1>1. /\ UNCHANGED <<pairings, used, rights, lookup, diffCache, todo, moves, boots, apart>>
      /\ rec[x].pc = "insert" /\ Goes(x, Resting)
      /\ latest' = [latest EXCEPT ![q] = d] \/ (~apart[q] /\ latest' = latest)
  BY DEF InsertSnapshot, Rest, Table, Outside, Memory, Goes
<1>2. /\ rec'[x] = Resting /\ \A y \in Recorders : y # x => rec'[y] = rec[y]
      /\ rec' \in [Recorders -> RecState]
      /\ Resting.pc = "idle" /\ Resting.p = NoPairing
  BY <1>1, GoesTo, GoesTyped, RestingTyped DEF IInv
<1>3. /\ Known(d) /\ ~d.errors /\ d.boot = boots /\ d.at <= moves[q]
      /\ q \in Ids /\ d \in LiveDiff
  <2>1. InHand(rec[x], lookup, boots)
    BY DEF IInv, Hands
  <2>2. QED
    BY <1>1, <2>1, AtWork DEF InHand, Known
<1>4. /\ latest' \in [Ids -> LiveDiff \cup {NoSnapshot}]
      /\ \A p \in Ids : latest'[p] = latest[p] \/ (p = q /\ latest'[p] = d)
      /\ apart[q] => latest'[q] = d
  BY <1>1, <1>3 DEF IInv, Typed, MonitorTypeOK
<1> HIDE DEF d, q
<1>5. Typed'
  BY <1>1, <1>2, <1>4 DEF IInv, Typed, MonitorTypeOK
<1>6. Places'
  BY <1>2 DEF IInv, Places
<1>7. Stored' /\ Hands' /\ Dates'
  <2>1. \A e : Known(e)' <=> Known(e)
    BY <1>1 DEF Known
  <2>2. \A p \in Ids : latest'[p] # NoSnapshot =>
          Known(latest'[p]) /\ ~latest'[p].errors /\ latest'[p].at <= moves[p]
    BY <1>3, <1>4 DEF IInv, Stored
  <2>3. Stored'
    BY <1>1, <2>1, <2>2 DEF IInv, Stored
  <2>4. InHand(Resting, lookup, boots)
    BY <1>2 DEF InHand
  <2>5. Hands' /\ Dates'
    BY <1>1, <1>2, <2>4 DEF IInv, Hands, Dates
  <2>6. QED
    BY <2>3, <2>5
<1>8. Chains'
  <2>1. SUFFICES ASSUME NEW p \in Ids, apart[p], Alone(p) PROVE Alone(p)'
    BY <1>1 DEF IInv, Chains
  <2>2. \A y \in Recorders : rec'[y].p = p => y # x /\ rec'[y] = rec[y]
    BY <1>2, MonitorAssumption
  <2>3. CASE p # q
    BY <1>1, <1>4, <2>1, <2>2, <2>3 DEF Alone
  <2>4. CASE p = q
    <3>1. \A y \in Recorders : rec'[y].p # p
      BY <2>1, <2>2, <2>4 DEF Alone, q
    <3>2. diffCache[p] # NoDiff => d.at <= diffCache[p].at
      BY <1>1, <2>1, <2>4 DEF Alone, q, d
    <3>3. latest'[p] = d
      BY <1>4, <2>1, <2>4
    <3>4. QED
      BY <1>1, <3>1, <3>2, <3>3 DEF Alone
  <2>5. QED
    BY <2>3, <2>4
<1>9. QED
  BY <1>1, <1>5, <1>6, <1>7, <1>8 DEF IInv, LegacyUsed

\* A recorder turns to p, to collect a diff or with the one of the cache.
LEMMA TurnStep ==
  ASSUME IInv, NEW x \in Recorders, NEW p \in Ids, NEW pc, NEW d, Turn(x, p, pc, d),
         \/ pc = "collect" /\ d = Blank(p)
         \/ pc = "check" /\ d = diffCache[p] /\ d # NoDiff,
         UNCHANGED <<pairings, used, rights, lookup, diffCache, latest, moves, boots>>,
         todo' \subseteq todo
  PROVE  IInv'
<1> DEFINE s == [pc |-> pc, p |-> p, left |-> IF pc = "collect" THEN Rights ELSE {},
                 diff |-> d, prev |-> NoSnapshot]
<1>1. /\ rec[x].pc = "idle" /\ Goes(x, s)
      /\ apart' = [apart EXCEPT ![p] = @ /\ \A y \in Recorders \ {x} : rec[y].p # p]
  BY DEF Turn, Goes
<1>2. /\ d \in LiveDiff /\ d.boot = boots /\ d.at <= moves[p]
      /\ pc = "check" => Known(d)
      /\ pc = "collect" => ~d.errors /\ d.rows = {} /\ d.at = moves[p]
  <2>1. /\ diffCache[p] \in LiveDiff \cup {NoDiff} /\ moves[p] \in Nat /\ boots \in 0..MaxRestarts
    BY DEF IInv, Typed, MonitorTypeOK
  <2>2. CASE pc = "collect" /\ d = Blank(p)
    BY <2>1, <2>2 DEF Blank, LiveDiff
  <2>3. CASE pc = "check" /\ d = diffCache[p] /\ d # NoDiff
    BY <2>1, <2>3 DEF IInv, Stored
  <2>4. QED
    BY <2>2, <2>3
<1>3. /\ s \in RecState /\ s.pc = pc /\ s.p = p /\ s.diff = d
  BY <1>2 DEF RecState
<1>4. /\ rec'[x] = s /\ \A y \in Recorders : y # x => rec'[y] = rec[y]
      /\ rec' \in [Recorders -> RecState]
  BY <1>1, <1>3, GoesTo, GoesTyped DEF IInv
<1> HIDE DEF s
<1>5. /\ apart' \in [Ids -> BOOLEAN]
      /\ \A q \in Ids : apart'[q] => apart[q]
      /\ apart'[p] => \A y \in Recorders \ {x} : rec[y].p # p
  <2>1. apart \in [Ids -> BOOLEAN]
    BY DEF IInv, Typed, MonitorTypeOK
  <2>2. QED
    BY <1>1, <2>1
<1>6. Typed'
  BY <1>4, <1>5 DEF IInv, Typed, MonitorTypeOK
<1>7. Places'
  BY <1>3, <1>4, MonitorAssumption DEF IInv, Places
<1>8. Stored' /\ Hands' /\ Dates'
  <2>1. Stored'
    BY DEF IInv, Stored, Known
  <2>2. pc = "collect" => Collecting(s)
    BY <1>2, <1>3 DEF Collecting, Sound
  <2>3. InHand(s, lookup, boots)
    BY <1>2, <1>3, <2>2 DEF InHand, Known
  <2>4. Hands' /\ Dates'
    BY <1>2, <1>3, <1>4, <2>3 DEF IInv, Hands, Dates
  <2>5. QED
    BY <2>1, <2>4
<1>9. Chains'
  <2>1. SUFFICES ASSUME NEW q \in Ids, apart'[q], Alone(q) PROVE Alone(q)'
    BY <1>5 DEF IInv, Chains
  <2>2. CASE q # p
    <3>1. \A y \in Recorders : rec'[y].p = q => y # x /\ rec'[y] = rec[y]
      BY <1>3, <1>4, <2>2
    <3>2. QED
      BY <2>1, <3>1 DEF Alone
  <2>3. CASE q = p
    <3>1. \A y \in Recorders : rec'[y].p = q => y = x
      BY <1>3, <1>4, <1>5, <2>1, <2>3
    <3>2. latest[q] # NoSnapshot => latest[q].at <= d.at
      <4>1. CASE pc = "collect"
        BY <1>2, <2>3, <4>1 DEF IInv, Stored
      <4>2. CASE pc = "check"
        BY <2>1, <2>3, <4>2 DEF Alone
      <4>3. QED
        BY <4>1, <4>2
    <3>3. pc = "check" => d = diffCache[q] /\ d.at <= d.at
      BY <1>2, <2>3 DEF LiveDiff
    <3>4. rec'[x].pc = pc /\ pc # "insert" /\ rec'[x].diff = d
      BY <1>3, <1>4
    <3>5. QED
      BY <2>1, <3>1, <3>2, <3>3, <3>4 DEF Alone
  <2>4. QED
    BY <2>2, <2>3
<1>10. QED
  BY <1>6, <1>7, <1>8, <1>9 DEF IInv, LegacyUsed

\* Steps of everybody else: no recorder moves and nothing is recorded.
LEMMA OthersStep ==
  ASSUME IInv, UNCHANGED <<lookup, latest, rec, boots, apart>>,
         pairings' \subseteq used', used' \subseteq Ids, used \subseteq used', todo' \subseteq Ids,
         rights' \in [Ids -> SUBSET Rights], moves' \in [Ids -> Nat],
         \A p \in Ids : moves[p] <= moves'[p] /\ moves'[p] <= MaxChanges[p],
         diffCache' \in [Ids -> LiveDiff \cup {NoDiff}],
         \A p \in Ids : diffCache'[p] \in {diffCache[p], NoDiff}
  PROVE  IInv'
<1>1. Typed'
  BY MonitorAssumption DEF IInv, Typed, MonitorTypeOK
<1>2. Places'
  BY DEF IInv, Places
<1>3. \A e : Known(e)' <=> Known(e)
  BY DEF Known
<1>4. \A p \in Ids, d \in LiveDiff : d.at <= moves[p] => d.at <= moves'[p]
  BY DEF IInv, Typed, LiveDiff
<1>5. Stored' /\ Hands' /\ Dates'
  <2>1. \A p \in Ids : diffCache'[p] # NoDiff =>
          Known(diffCache'[p]) /\ diffCache'[p].boot = boots /\ diffCache'[p].at <= moves'[p]
    BY <1>4 DEF IInv, Stored, Known, KnownTo
  <2>2. \A p \in Ids : latest[p] # NoSnapshot =>
          Known(latest[p]) /\ ~latest[p].errors /\ latest[p].at <= moves'[p]
    BY <1>4 DEF IInv, Stored, Known, KnownTo
  <2>3. \A y \in Recorders : rec[y].pc # "idle" => rec[y].diff.at <= moves'[rec[y].p]
    BY <1>4, AtWork
  <2>4. QED
    BY <1>3, <2>1, <2>2, <2>3 DEF IInv, Stored, Hands, Dates
<1>6. Chains'
  <2>1. SUFFICES ASSUME NEW p \in Ids, apart[p], Alone(p) PROVE Alone(p)'
    BY DEF IInv, Chains
  <2>2. QED
    BY <2>1 DEF Alone
<1>7. QED
  BY <1>1, <1>2, <1>5, <1>6 DEF IInv, LegacyUsed

\* A restart forgets; what was recorded is of an earlier run of the process.
LEMMA RestartStep == ASSUME IInv, RestartHub PROVE IInv'
<1>1. /\ UNCHANGED <<used, rights, latest, moves, apart>>
      /\ boots < MaxRestarts /\ boots' = boots + 1
      /\ lookup' = [r \in Rights |-> "unasked"]
      /\ diffCache' = [p \in Ids |-> NoDiff] /\ todo' = {}
      /\ rec' = [x \in Recorders |-> Resting] /\ pairings' = Imported(pairings)
  BY DEF RestartHub
<1>2. Resting.pc = "idle" /\ Resting.p = NoPairing
  BY RestingTyped
<1>3. boots \in 0..MaxRestarts /\ boots' \in 0..MaxRestarts
  BY <1>1, MonitorAssumption DEF IInv, Typed, MonitorTypeOK
<1>4. Legacy \subseteq used
  BY DEF IInv, LegacyUsed
<1>5. Typed'
  <2>1. pairings' \subseteq used' /\ used' \subseteq Ids
    BY <1>1, <1>4 DEF IInv, Typed, MonitorTypeOK, Imported
  <2>2. rec' \in [Recorders -> RecState]
    BY <1>1, RestingTyped
  <2>3. QED
    BY <1>1, <1>3, <2>1, <2>2 DEF IInv, Typed, MonitorTypeOK
<1>6. Places'
  BY <1>1, <1>2 DEF Places
<1>7. Stored' /\ Hands' /\ Dates'
  <2>1. ASSUME NEW d, Known(d) PROVE Known(d)'
    <3>1. d.boot \in 0..MaxRestarts /\ d.boot <= boots
      BY <2>1 DEF Known, KnownTo, LiveDiff
    <3>2. d.boot # boots' /\ d.boot <= boots'
      BY <1>1, <1>3, <3>1
    <3>3. QED
      BY <2>1, <3>2 DEF Known, KnownTo
  <2>2. \A x \in Recorders : rec'[x].pc = "idle"
    BY <1>1, <1>2
  <2>3. Stored'
    BY <1>1, <2>1 DEF IInv, Stored
  <2>4. Hands' /\ Dates'
    BY <2>2 DEF Hands, Dates, InHand
  <2>5. QED
    BY <2>3, <2>4
<1>8. Chains'
  <2>1. SUFFICES ASSUME NEW p \in Ids, apart[p], Alone(p) PROVE Alone(p)'
    BY <1>1 DEF IInv, Chains
  <2>2. \A x \in Recorders : rec'[x].p # p
    BY <1>1, <1>2, MonitorAssumption
  <2>3. QED
    BY <1>1, <2>2 DEF Alone
<1>9. QED
  BY <1>4, <1>1, <1>5, <1>6, <1>7, <1>8 DEF IInv, LegacyUsed

LEMMA StepKeeps == IInv /\ [MonitorNext]_monitorVars => IInv'
<1>1. SUFFICES ASSUME IInv, [MonitorNext]_monitorVars PROVE IInv'
  OBVIOUS
<1>2. ASSUME NEW x \in Recorders, RecordStep(x) PROVE IInv'
  <2>1. CASE CollectRaises(x) \/ SkipErrors(x) \/ SnapshotFails(x)
    <3>1. Goes(x, Resting) /\ Rested
      BY <2>1 DEF CollectRaises, SkipErrors, SnapshotFails, Rest, Goes, Rested, Table, Outside,
                  Memory
    <3>2. QED
      BY <1>1, <3>1, RestingStep
  <2>2. QED
    BY <1>1, <1>2, <2>1, ReadRightStep, AskGraphStep, CollectFailsStep, GraphAnswersStep,
       StoreStep, ReadLastStep, InsertStep DEF RecordStep
<1>3. /\ lookup \in [Rights -> {"unasked", "oid", "name"}] /\ rights \in [Ids -> SUBSET Rights]
      /\ diffCache \in [Ids -> LiveDiff \cup {NoDiff}] /\ moves \in [Ids -> Nat]
      /\ \A p \in Ids : moves[p] <= MaxChanges[p] /\ moves[p] <= moves[p]
      /\ pairings \subseteq used /\ used \subseteq Ids /\ todo \subseteq Ids
      /\ Legacy \subseteq used
  BY <1>1 DEF IInv, Typed, MonitorTypeOK, LegacyUsed
<1>4. ASSUME NEW v \in Viewers, ViewDiff(v) PROVE IInv'
  <2>1. PICK p \in pairings : \/ diffCache[p] # NoDiff /\ Turn(v, p, "check", diffCache[p])
                              \/ Turn(v, p, "collect", Blank(p))
    BY <1>4 DEF ViewDiff
  <2>2. v \in Recorders /\ p \in Ids
    BY <1>3 DEF Recorders
  <2>3. UNCHANGED <<pairings, used, rights, lookup, diffCache, latest, moves, boots, todo>>
    BY <1>4 DEF ViewDiff, Table, Outside, Memory
  <2>4. QED
    BY <1>1, <2>1, <2>2, <2>3, TurnStep
<1>5. CASE ScanNext
  <2>1. PICK p \in todo : Turn(Scanner, p, "collect", Blank(p)) /\ todo' = todo \ {p}
    BY <1>5 DEF ScanNext
  <2>2. Scanner \in Recorders /\ p \in Ids
    BY <1>3 DEF Recorders
  <2>3. UNCHANGED <<pairings, used, rights, lookup, diffCache, latest, moves, boots>>
    BY <1>5 DEF ScanNext, Table, Outside, Memory
  <2>4. QED
    BY <1>1, <2>1, <2>2, <2>3, TurnStep
<1>6. CASE BeginScan
  <2>1. UNCHANGED <<pairings, used, rights, lookup, diffCache, latest, rec, moves, boots, apart>>
    BY <1>6 DEF BeginScan, Table, Outside, Memory
  <2>2. todo' \subseteq Ids
    BY <1>3, <1>6 DEF BeginScan
  <2>3. QED
    BY <1>1, <1>3, <2>1, <2>2, OthersStep
<1>7. ASSUME NEW p \in Ids, CacheEntryGoes(p) PROVE IInv'
  <2>1. UNCHANGED <<pairings, used, rights, lookup, latest, todo, rec, moves, boots, apart>>
    BY <1>7 DEF CacheEntryGoes, Table, Outside
  <2>2. /\ diffCache' \in [Ids -> LiveDiff \cup {NoDiff}]
        /\ \A q \in Ids : diffCache'[q] \in {diffCache[q], NoDiff}
    BY <1>3, <1>7 DEF CacheEntryGoes
  <2>3. QED
    BY <1>1, <1>3, <2>1, <2>2, OthersStep
<1>8. CASE AddPairing \/ \E p \in Ids : DeletePairing(p)
  <2>1. UNCHANGED <<rights, lookup, diffCache, latest, todo, rec, moves, boots, apart>>
    BY <1>8 DEF AddPairing, DeletePairing, Outside, Memory
  <2>2. pairings' \subseteq used' /\ used' \subseteq Ids /\ used \subseteq used'
    BY <1>3, <1>8 DEF AddPairing, DeletePairing
  <2>3. QED
    BY <1>1, <1>3, <2>1, <2>2, OthersStep
<1>9. ASSUME NEW p \in Ids, NEW r \in Rights, ChangeRights(p, r) PROVE IInv'
  <2>1. UNCHANGED <<pairings, used, lookup, diffCache, latest, todo, rec, boots, apart>>
    BY <1>9 DEF ChangeRights, Table, Memory
  <2>2. rights' \in [Ids -> SUBSET Rights]
    BY <1>3, <1>9 DEF ChangeRights
  <2>3. /\ moves' \in [Ids -> Nat]
        /\ \A q \in Ids : moves[q] <= moves'[q] /\ moves'[q] <= MaxChanges[q]
    <3>1. MaxChanges \in [Ids -> Nat]
      BY MonitorAssumption
    <3>2. /\ moves[p] < MaxChanges[p]
          /\ moves' = [moves EXCEPT ![p] = moves[p] + 1]
      BY <1>9 DEF ChangeRights
    <3>3. moves' \in [Ids -> Nat]
      BY <1>3, <3>2
    <3>4. \A q \in Ids : moves'[q] = IF q = p THEN moves[q] + 1 ELSE moves[q]
      BY <1>3, <3>2
    <3>5. ASSUME NEW q \in Ids PROVE moves[q] <= moves'[q] /\ moves'[q] <= MaxChanges[q]
      <4>1. moves[q] \in Nat /\ MaxChanges[q] \in Nat /\ moves[q] <= MaxChanges[q]
        BY <1>3, <3>1
      <4>2. QED
        BY <3>2, <3>4, <4>1
    <3>6. QED
      BY <3>3, <3>5
  <2>4. QED
    BY <1>1, <1>3, <2>1, <2>2, <2>3, OthersStep
<1>10. CASE RestartHub
  BY <1>1, <1>10, RestartStep
<1>11. CASE UNCHANGED monitorVars
  <2>1. UNCHANGED <<pairings, used, rights, lookup, diffCache, latest, todo, rec, moves, boots,
                    apart>>
    BY <1>11 DEF monitorVars
  <2>2. QED
    BY <1>1, <1>3, <2>1, OthersStep
<1>12. QED
  BY <1>1, <1>2, <1>4, <1>5, <1>6, <1>7, <1>8, <1>9, <1>10, <1>11
  DEF MonitorNext, ScanStep, Recorders

LEMMA InitHolds == MonitorInit => IInv
<1>1. SUFFICES ASSUME MonitorInit PROVE IInv
  OBVIOUS
<1>2. \A x \in Recorders : rec[x].pc = "idle" /\ rec[x].p = NoPairing
  BY <1>1, RestingTyped DEF MonitorInit
<1>3. Typed
  <2>1. rec \in [Recorders -> RecState]
    BY <1>1, RestingTyped DEF MonitorInit
  <2>2. /\ pairings \subseteq used /\ used \subseteq Ids /\ Legacy \subseteq used
        /\ boots \in 0..MaxRestarts /\ moves \in [Ids -> Nat]
        /\ \A p \in Ids : moves[p] \in 0..MaxChanges[p]
    BY <1>1, MonitorAssumption DEF MonitorInit, Imported
  <2>3. QED
    BY <1>1, <2>1, <2>2 DEF MonitorInit, Typed, MonitorTypeOK
<1>4. Places /\ Stored /\ Hands /\ Dates /\ Legacy \subseteq used
  BY <1>1, <1>2 DEF MonitorInit, Places, Stored, Hands, Dates, InHand
<1>5. Chains
  BY <1>1, <1>2, MonitorAssumption DEF MonitorInit, Chains, Alone
<1>6. QED
  BY <1>3, <1>4, <1>5 DEF IInv, LegacyUsed

LEMMA Invariance == MonitorSpec => []IInv
BY InitHolds, StepKeeps, PTL DEF MonitorSpec

-----------------------------------------------------------------------------
(* Theorems *)

\* The variables of pages, scan, tables and caches keep their types.
THEOREM MonitorTypeCorrect == MonitorSpec => []MonitorTypeOK
<1>1. IInv => MonitorTypeOK
  BY DEF IInv, Typed
<1>2. QED
  BY <1>1, Invariance, PTL

\* Whatever collections lose without an error and whatever Graph answers: what has changed
\* between two snapshots that lost nothing of it is reported, and nothing else is between
\* two that lost nothing at all, if they are of one process, and it was told the same by
\* Graph throughout.
THEOREM DriftsAreReal == MonitorSpec => []DriftIsReal
<1>1. QED
  BY InvDriftIsReal, Invariance, PTL

\* However pages that show the cache and scans that do not take turns at a pairing,
\* each drift starts where the last one ended and goes forward in time.
THEOREM DriftsAreChained == MonitorSpec => []DriftsChain
<1>1. QED
  BY InvDriftsChain, Invariance, PTL
=============================================================================
