------------------------- MODULE ConstraintsProofs -------------------------
(***************************************************************************)
(* Proofs about UCConstraints, for any rows, constraints, slots, people,   *)
(* retries and changes; and about AbacPolicies, for any catalog.           *)
(*                                                                         *)
(* UCConstraints.  The body that a row composes is inductive only together *)
(* with its statements: one that is still with the warehouse will be       *)
(* executed with the body that its row has by then, so the row must not    *)
(* compose again.                                                          *)
(*                                                                         *)
(* AbacPolicies.  Every row of the diff has an origin in the catalog, and  *)
(* everything in the catalog that was read has a row.  What such a row     *)
(* means to a reader then depends on the translation alone, whose renaming *)
(* of parameters is recursive: it is reasoned about by induction on the    *)
(* number of parameters.                                                   *)
(***************************************************************************)
EXTENDS MCConstraints, NaturalsInduction, WellFoundedInduction, TLAPS

-----------------------------------------------------------------------------
(* The inductive invariant *)

\* A role that Fabric had at some time has the constraint c, and these members.
Backed(c, members) == \E r \in asked : r.c = c /\ members \subseteq r.members

\* What a row has in hand comes from a role with its own constraint.
RowsAreBacked ==
  \A j \in Jobs :
    /\ work[j].body.c = work[j].row
    /\ work[j].pc = "planned" => Backed(work[j].row, work[j].members)
    /\ work[j].pc \in {"create", "attach", "polling"} => Backed(work[j].row, work[j].body.members)

\* A statement outlives its row's interest in it, but not the body it was sent for.
StatementsAreBacked ==
  \A st \in stmts :
    /\ work[st.by].pc \notin {"idle", "planned"}
    /\ Backed(work[st.by].row, work[st.by].body.members)

FunctionsAreBacked ==
  \A c \in Constraints :
    function[c] # Nothing => function[c].c = c /\ Backed(c, function[c].members)

SlotsWereAttached ==
  \A s \in Slots : slot[s] \in Constraints => slot[s] \in attached

\* A row that sends has a try left.
TriesAreLeft ==
  \A j \in Jobs :
    /\ work[j].pc \in {"idle", "planned"} => work[j].try = 0
    /\ Sending(j) => work[j].try # Tries

IInv ==
  /\ FiltersTypeOK /\ TriesAreLeft /\ RowsAreBacked /\ StatementsAreBacked
  /\ FunctionsAreBacked /\ SlotsWereAttached

-----------------------------------------------------------------------------
(* The two properties follow from it *)

\* Having no function is not the same as having one.
LEMMA BodyIsSomething == Nothing \notin Body
BY UCConstraintsAssumption DEF Body, Principals

\* The name of a function tells its constraint.
LEMMA InvFollowsRoles == IInv => FunctionsFollowRoles
BY DEF IInv, FunctionsAreBacked, Backed, FunctionsFollowRoles

\* What is in force is the function of the slot, and the slot was attached.
LEMMA InvWasAttached == IInv => InForceWasAttached
<1>1. SUFFICES ASSUME IInv, NEW s \in Slots, InForce(s) \in Body
               PROVE  InForce(s).c \in attached
  BY DEF InForceWasAttached
<1>2. slot[s] \in Constraints /\ InForce(s) = function[slot[s]]
  BY <1>1, BodyIsSomething DEF InForce
<1>3. function[slot[s]].c = slot[s]
  BY <1>1, <1>2, BodyIsSomething DEF IInv, FunctionsAreBacked
<1>4. QED
  BY <1>1, <1>2, <1>3 DEF IInv, SlotsWereAttached

-----------------------------------------------------------------------------
(* Types *)

\* A row starts with no try.
LEMMA NoTries == 0 \in 0..Tries
BY UCConstraintsAssumption

\* A row ends, or skips, with its constraint and its body as they were.
LEMMA EndEffect ==
  ASSUME FiltersTypeOK, NEW j \in Jobs, NEW pc \in {"ok", "failed", "skipped"}, End(j, pc)
  PROVE  /\ work' \in [Jobs -> WorkState]
         /\ \A k \in Jobs : k # j => work'[k] = work[k]
         /\ work'[j].pc = pc
         /\ work'[j].row = work[j].row /\ work'[j].body = work[j].body
<1>1. work \in [Jobs -> WorkState] /\ work[j] \in WorkState
  BY DEF FiltersTypeOK
<1>2. work' = [work EXCEPT ![j] = [work[j] EXCEPT !.pc = pc, !.step = "create", !.try = 0,
                                               !.members = {}, !.answer = "none"]]
  BY <1>1 DEF End, WorkState
<1>3. [work[j] EXCEPT !.pc = pc, !.step = "create", !.try = 0,
                      !.members = {}, !.answer = "none"] \in WorkState
  BY <1>1, NoTries DEF WorkState
<1>4. QED
  BY <1>1, <1>2, <1>3 DEF WorkState

\* A statement that succeeded is followed by the other one, with all its tries, or ends
\* the row; either way the row keeps its body.
LEMMA ProceedEffect ==
  ASSUME FiltersTypeOK, NEW j \in Jobs, Proceed(j)
  PROVE  /\ work' \in [Jobs -> WorkState]
         /\ \A k \in Jobs : k # j => work'[k] = work[k]
         /\ work'[j].pc \in {"attach", "ok"}
         /\ work'[j].pc = "attach" => work'[j].try = 0
         /\ work'[j].row = work[j].row /\ work'[j].body = work[j].body
<1>1. work \in [Jobs -> WorkState] /\ work[j] \in WorkState
  BY DEF FiltersTypeOK
<1>2. CASE work[j].step = "create"
  <2>1. work' = [work EXCEPT ![j].pc = "attach", ![j].step = "attach", ![j].try = 0,
                             ![j].answer = "none"]
    BY <1>2 DEF Proceed
  <2>2. QED
    BY <1>1, <2>1, NoTries DEF WorkState
<1>3. CASE work[j].step # "create"
  BY <1>3, EndEffect DEF Proceed
<1>4. QED
  BY <1>2, <1>3

\* The administrators, the warehouse and the other rows leave the row of j alone.
LEMMA ReportEffect ==
  ASSUME FiltersTypeOK, NEW st \in stmts, NEW answer \in {"succeeded", "error"}, Report(st, answer)
  PROVE  /\ work' \in [Jobs -> WorkState]
         /\ \A k \in Jobs : /\ work'[k].row = work[k].row /\ work'[k].body = work[k].body
                            /\ work'[k].pc = work[k].pc /\ work'[k].members = work[k].members
                            /\ work'[k].try = work[k].try
<1>1. work \in [Jobs -> WorkState] /\ st.by \in Jobs
  BY DEF FiltersTypeOK, Statement
<1>2. QED
  BY <1>1 DEF Report, WorkState


-----------------------------------------------------------------------------
(* Steps of a row between its plan and its end *)

\* What the steps from the first POST on have in common: only the row of j moves,
\* its constraint and its body stay, and only its current statement is new.
Onward(j) ==
  /\ UNCHANGED <<das, function, slot, asked, attached, changes>>
  /\ work' \in [Jobs -> WorkState]
  /\ \A k \in Jobs : k # j => work'[k] = work[k]
  /\ work'[j].row = work[j].row /\ work'[j].body = work[j].body
  /\ work'[j].pc \notin {"idle", "planned"}
  /\ work'[j].pc \in {"create", "attach", "polling"}
       => work[j].pc \in {"create", "attach", "polling"}
  /\ work'[j].pc \in {"create", "attach"} => work'[j].try # Tries
  /\ stmts' \subseteq Statement
  /\ stmts' = stmts \/ (Sending(j) /\ stmts' = stmts \cup {Current(j)})

\* What the statements of a row were backed by, they are still backed by.
LEMMA OnwardInv ==
  ASSUME IInv, NEW j \in Jobs, Onward(j)
  PROVE  IInv'
<1>1. FiltersTypeOK'
  BY DEF IInv, FiltersTypeOK, Onward
<1>2. RowsAreBacked'
  <2>1. ASSUME NEW k \in Jobs
        PROVE  /\ work'[k].body.c = work'[k].row
               /\ work'[k].pc = "planned" => Backed(work'[k].row, work'[k].members)
               /\ work'[k].pc \in {"create", "attach", "polling"}
                    => Backed(work'[k].row, work'[k].body.members)
    <3>1. CASE k = j
      BY <3>1 DEF IInv, RowsAreBacked, Onward
    <3>2. CASE k # j
      BY <3>2 DEF IInv, RowsAreBacked, Onward
    <3>3. QED
      BY <3>1, <3>2
  <2>2. asked' = asked
    BY DEF Onward
  <2>3. QED
    BY <2>1, <2>2 DEF RowsAreBacked, Backed
<1>3. StatementsAreBacked'
  <2>1. ASSUME NEW st \in stmts'
        PROVE  /\ work'[st.by].pc \notin {"idle", "planned"}
               /\ Backed(work'[st.by].row, work'[st.by].body.members)
    <3>1. CASE st \in stmts
      <4>1. st.by \in Jobs
        BY <3>1 DEF IInv, FiltersTypeOK, Statement
      <4>2. /\ work[st.by].pc \notin {"idle", "planned"}
            /\ Backed(work[st.by].row, work[st.by].body.members)
        BY <3>1 DEF IInv, StatementsAreBacked
      <4>3. QED
        BY <4>1, <4>2 DEF Onward
    <3>2. CASE st \notin stmts
      <4>1. st = Current(j) /\ Sending(j)
        BY <3>2 DEF Onward
      <4>2. st.by = j
        BY <4>1 DEF Current
      <4>3. Backed(work[j].row, work[j].body.members)
        BY <4>1 DEF IInv, RowsAreBacked, Sending
      <4>4. QED
        BY <4>2, <4>3 DEF Onward
    <3>3. QED
      BY <3>1, <3>2
  <2>2. asked' = asked
    BY DEF Onward
  <2>3. QED
    BY <2>1, <2>2 DEF StatementsAreBacked, Backed
<1>4. FunctionsAreBacked' /\ SlotsWereAttached'
  BY DEF IInv, FunctionsAreBacked, SlotsWereAttached, Backed, Onward
<1>5. TriesAreLeft'
  <2>1. ASSUME NEW k \in Jobs
        PROVE  /\ work'[k].pc \in {"idle", "planned"} => work'[k].try = 0
               /\ work'[k].pc \in {"create", "attach"} => work'[k].try # Tries
    <3>1. CASE k = j
      BY <3>1 DEF Onward
    <3>2. CASE k # j
      BY <3>2 DEF IInv, TriesAreLeft, Sending, Onward
    <3>3. QED
      BY <3>1, <3>2
  <2>2. QED
    BY <2>1 DEF TriesAreLeft, Sending
<1>6. QED
  BY <1>1, <1>2, <1>3, <1>4, <1>5 DEF IInv

\* The statement that a row sends is of the declared type: it has tries left.
LEMMA CurrentTyped ==
  ASSUME IInv, NEW j \in Jobs, Sending(j)
  PROVE  Current(j) \in Statement /\ work[j].try + 1 \in 1..Tries
<1>1. /\ work[j].try \in 0..Tries /\ work[j].try # Tries
      /\ work[j].step \in {"create", "attach"}
  BY DEF IInv, TriesAreLeft, FiltersTypeOK, WorkState
<1>2. work[j].try + 1 \in 1..Tries
  BY <1>1, UCConstraintsAssumption
<1>3. QED
  BY <1>1, <1>2 DEF Current, Statement

\* The steps of a row that send nothing.
LEMMA QuietSteps ==
  ASSUME IInv, NEW j \in Jobs,
         \/ SkipConstraint(j) \/ ComposeFails(j) \/ PostRefused(j)
         \/ GiveUp(j) \/ Abort(j) \/ PollSucceeded(j)
  PROVE  IInv'
<1>1. FiltersTypeOK
  BY DEF IInv
<1>2. CASE \/ SkipConstraint(j) \/ ComposeFails(j) \/ PostRefused(j) \/ GiveUp(j) \/ Abort(j)
  <2>1. PICK pc \in {"ok", "failed", "skipped"} : End(j, pc)
    BY <1>2 DEF SkipConstraint, ComposeFails, PostRefused, GiveUp, Abort
  <2>2. UNCHANGED <<Platforms, Ghosts>>
    BY <1>2 DEF SkipConstraint, ComposeFails, PostRefused, GiveUp, Abort
  <2>3. Onward(j)
    BY <1>1, <2>1, <2>2, EndEffect DEF Onward, Platforms, Ghosts, FiltersTypeOK
  <2>4. QED
    BY <2>3, OnwardInv
<1>3. CASE PollSucceeded(j)
  <2>1. Onward(j)
    BY <1>1, <1>3, ProceedEffect, UCConstraintsAssumption
       DEF PollSucceeded, Onward, Platforms, Ghosts, FiltersTypeOK
  <2>2. QED
    BY <2>1, OnwardInv
<1>4. QED
  BY <1>2, <1>3

\* A POST that is sent again, or that the warehouse has taken.
LEMMA PostSteps ==
  ASSUME IInv, NEW j \in Jobs, PostUnanswered(j) \/ PostAnswered(j)
  PROVE  IInv'
<1>1. FiltersTypeOK /\ Sending(j) /\ work[j] \in WorkState /\ work \in [Jobs -> WorkState]
  BY DEF IInv, FiltersTypeOK, PostUnanswered, PostAnswered
<1>2. Current(j) \in Statement /\ work[j].try + 1 \in 1..Tries /\ work[j].try \in 0..Tries
  BY <1>1, CurrentTyped DEF WorkState
<1>3. work[j].try + 1 \in 0..Tries
  BY <1>2, UCConstraintsAssumption
<1>4. CASE PostUnanswered(j)
  <2>1. stmts' = stmts \/ stmts' = stmts \cup {Current(j)}
    BY <1>4 DEF PostUnanswered
  <2>2. UNCHANGED <<das, function, slot, asked, attached, changes>>
    BY <1>4 DEF PostUnanswered, Ghosts
  <2>3. work[j].try + 1 = Tries => Onward(j)
    BY <1>1, <1>2, <1>4, <2>1, <2>2, EndEffect DEF PostUnanswered, Onward, FiltersTypeOK
  <2>4. ASSUME work[j].try + 1 # Tries PROVE Onward(j)
    <3>1. work' = [work EXCEPT ![j].try = work[j].try + 1]
      BY <1>4, <2>4 DEF PostUnanswered
    <3>2. QED
      BY <1>1, <1>2, <1>3, <2>1, <2>2, <2>4, <3>1
         DEF Onward, FiltersTypeOK, WorkState, Sending
  <2>5. Onward(j)
    BY <2>3, <2>4
  <2>6. QED
    BY <2>5, OnwardInv
<1>5. CASE PostAnswered(j)
  <2>1. work' = [work EXCEPT ![j].try = work[j].try + 1, ![j].pc = "polling"]
    BY <1>5 DEF PostAnswered
  <2>2. Onward(j)
    BY <1>1, <1>2, <1>3, <1>5, <2>1
       DEF PostAnswered, Onward, FiltersTypeOK, WorkState, Sending, Ghosts
  <2>3. QED
    BY <2>2, OnwardInv
<1>6. QED
  BY <1>4, <1>5

-----------------------------------------------------------------------------
(* The steps that bring something new *)

\* A row's plan and its body, before any statement of it exists.
LEMMA PlanSteps ==
  ASSUME IInv, NEW j \in Jobs, PlanRow(j) \/ Compose(j)
  PROVE  IInv'
<1>1. /\ UNCHANGED <<das, function, slot, stmts, asked, attached, changes>>
      /\ work[j].pc \in {"idle", "planned"} /\ work[j].try = 0
      /\ work[j].row \in Constraints /\ work[j] \in WorkState /\ work \in [Jobs -> WorkState]
  BY DEF PlanRow, Compose, Platforms, Ghosts, IInv, TriesAreLeft, FiltersTypeOK, WorkState
<1>2. /\ work' \in [Jobs -> WorkState]
      /\ \A k \in Jobs : k # j => work'[k] = work[k]
      /\ work'[j].row = work[j].row /\ work'[j].body.c = work'[j].row
      /\ work'[j].pc \in {"planned", "create"} /\ work'[j].try = 0
      /\ work'[j].pc = "planned" => Backed(work'[j].row, work'[j].members)
      /\ work'[j].pc = "create" => Backed(work'[j].row, work'[j].body.members)
  <2>1. CASE PlanRow(j)
    <3>1. PICK r \in das :
            /\ r.c = work[j].row
            /\ work' = [work EXCEPT ![j].pc = "planned", ![j].members = r.members]
      BY <2>1 DEF PlanRow
    <3>2. r \in asked /\ r.members \in SUBSET Principals
      BY <3>1 DEF IInv, FiltersTypeOK, ConstraintRole
    <3>3. Backed(work[j].row, r.members)
      BY <3>1, <3>2 DEF Backed
    <3>4. work[j].body.c = work[j].row
      BY DEF IInv, RowsAreBacked
    <3>5. QED
      BY <1>1, <3>1, <3>2, <3>3, <3>4 DEF WorkState
  <2>2. CASE Compose(j)
    <3>1. PICK known \in SUBSET work[j].members :
            work' = [work EXCEPT ![j].pc = "create", ![j].members = {},
                                 ![j].body = [c |-> work[j].row, members |-> known]]
      BY <2>2 DEF Compose
    <3>2. Backed(work[j].row, known)
      <4>1. Backed(work[j].row, work[j].members)
        BY <2>2 DEF Compose, IInv, RowsAreBacked
      <4>2. QED
        BY <4>1, <3>1 DEF Backed
    <3>3. [c |-> work[j].row, members |-> known] \in Body
      BY <1>1, <3>1 DEF Body, WorkState
    <3>4. QED
      BY <1>1, <3>1, <3>2, <3>3 DEF WorkState
  <2>3. QED
    BY <2>1, <2>2
<1>3. FiltersTypeOK'
  BY <1>1, <1>2 DEF IInv, FiltersTypeOK
<1>4. RowsAreBacked'
  <2>1. ASSUME NEW k \in Jobs
        PROVE  /\ work'[k].body.c = work'[k].row
               /\ work'[k].pc = "planned" => Backed(work'[k].row, work'[k].members)
               /\ work'[k].pc \in {"create", "attach", "polling"}
                    => Backed(work'[k].row, work'[k].body.members)
    <3>1. CASE k = j
      BY <3>1, <1>2
    <3>2. CASE k # j
      BY <3>2, <1>2 DEF IInv, RowsAreBacked
    <3>3. QED
      BY <3>1, <3>2
  <2>2. QED
    BY <2>1, <1>1 DEF RowsAreBacked, Backed
<1>5. StatementsAreBacked'
  <2>1. ASSUME NEW st \in stmts
        PROVE  st.by \in Jobs /\ st.by # j
    BY <1>1 DEF IInv, StatementsAreBacked, FiltersTypeOK, Statement
  <2>2. QED
    BY <2>1, <1>1, <1>2 DEF IInv, StatementsAreBacked, Backed
<1>6. TriesAreLeft'
  <2>1. ASSUME NEW k \in Jobs
        PROVE  /\ work'[k].pc \in {"idle", "planned"} => work'[k].try = 0
               /\ work'[k].pc \in {"create", "attach"} => work'[k].try # Tries
    <3>1. CASE k = j
      BY <3>1, <1>2, UCConstraintsAssumption
    <3>2. CASE k # j
      BY <3>2, <1>2 DEF IInv, TriesAreLeft, Sending
    <3>3. QED
      BY <3>1, <3>2
  <2>2. QED
    BY <2>1 DEF TriesAreLeft, Sending
<1>7. FunctionsAreBacked' /\ SlotsWereAttached'
  BY <1>1 DEF IInv, FunctionsAreBacked, SlotsWereAttached, Backed
<1>8. QED
  BY <1>3, <1>4, <1>5, <1>6, <1>7 DEF IInv

\* The warehouse executes, or fails to.
LEMMA WarehouseSteps ==
  ASSUME IInv, NEW st \in stmts, ExecuteCreate(st) \/ ExecuteAttach(st) \/ ExecuteFails(st)
  PROVE  IInv'
<1>1. /\ UNCHANGED <<das, asked, changes>> /\ stmts' \subseteq stmts
      /\ st.by \in Jobs /\ work[st.by].row \in Constraints /\ work[st.by].body \in Body
  BY DEF ExecuteCreate, ExecuteAttach, ExecuteFails, Ghosts, IInv, FiltersTypeOK, Statement,
         WorkState
<1>2. PICK answer \in {"succeeded", "error"} : Report(st, answer)
  BY DEF ExecuteCreate, ExecuteAttach, ExecuteFails
<1>3. /\ work' \in [Jobs -> WorkState]
      /\ \A k \in Jobs : /\ work'[k].row = work[k].row /\ work'[k].body = work[k].body
                         /\ work'[k].pc = work[k].pc /\ work'[k].members = work[k].members
                         /\ work'[k].try = work[k].try
  BY <1>2, ReportEffect DEF IInv
<1>4. RowsAreBacked' /\ TriesAreLeft'
  BY <1>1, <1>3 DEF IInv, RowsAreBacked, TriesAreLeft, Backed, Sending
<1>5. StatementsAreBacked'
  <2>1. ASSUME NEW x \in stmts'
        PROVE  /\ work'[x.by].pc \notin {"idle", "planned"}
               /\ Backed(work'[x.by].row, work'[x.by].body.members)
    <3>1. x \in stmts /\ x.by \in Jobs
      BY <1>1 DEF IInv, FiltersTypeOK, Statement
    <3>2. QED
      BY <3>1, <1>3 DEF IInv, StatementsAreBacked
  <2>2. QED
    BY <2>1, <1>1 DEF StatementsAreBacked, Backed
<1>6. CASE ExecuteCreate(st)
  <2>1. /\ function' = [function EXCEPT ![work[st.by].row] = work[st.by].body]
        /\ UNCHANGED <<slot, attached>>
    BY <1>6 DEF ExecuteCreate, FunctionOf, Ghosts
  <2>2. work[st.by].body.c = work[st.by].row
    BY <1>1 DEF IInv, RowsAreBacked
  <2>3. Backed(work[st.by].row, work[st.by].body.members)
    BY DEF IInv, StatementsAreBacked
  <2>4. FunctionsAreBacked'
    <3>1. ASSUME NEW c \in Constraints, function'[c] # Nothing
          PROVE  function'[c].c = c /\ Backed(c, function'[c].members)
      <4>1. CASE c = work[st.by].row
        BY <4>1, <2>1, <2>2, <2>3 DEF IInv, FiltersTypeOK
      <4>2. CASE c # work[st.by].row
        BY <4>2, <2>1, <3>1 DEF IInv, FiltersTypeOK, FunctionsAreBacked
      <4>3. QED
        BY <4>1, <4>2
    <3>2. QED
      BY <3>1, <1>1 DEF FunctionsAreBacked, Backed
  <2>5. FiltersTypeOK' /\ SlotsWereAttached'
    BY <1>1, <1>3, <2>1 DEF IInv, FiltersTypeOK, SlotsWereAttached
  <2>6. QED
    BY <1>4, <1>5, <2>4, <2>5 DEF IInv
<1>7. CASE ExecuteAttach(st)
  <2>1. /\ slot' = [slot EXCEPT ![SlotOf[work[st.by].row]] = work[st.by].row]
        /\ attached' = attached \cup {work[st.by].row} /\ UNCHANGED function
    BY <1>7 DEF ExecuteAttach, FunctionOf
  <2>2. SlotsWereAttached'
    BY <1>1, <2>1 DEF IInv, FiltersTypeOK, SlotsWereAttached
  <2>3. FiltersTypeOK'
    BY <1>1, <1>3, <2>1 DEF IInv, FiltersTypeOK
  <2>4. FunctionsAreBacked'
    BY <1>1, <2>1 DEF IInv, FunctionsAreBacked, Backed
  <2>5. QED
    BY <1>4, <1>5, <2>2, <2>3, <2>4 DEF IInv
<1>8. CASE ExecuteFails(st)
  <2>1. UNCHANGED <<function, slot, attached>>
    BY <1>8 DEF ExecuteFails, Ghosts
  <2>2. FiltersTypeOK' /\ FunctionsAreBacked' /\ SlotsWereAttached'
    BY <1>1, <1>3, <2>1 DEF IInv, FiltersTypeOK, FunctionsAreBacked, SlotsWereAttached, Backed
  <2>3. QED
    BY <1>4, <1>5, <2>2 DEF IInv
<1>9. QED
  BY <1>6, <1>7, <1>8

\* Changes outside the hub: roles that Fabric had stay on record.
LEMMA AdministratorSteps ==
  ASSUME IInv, \/ \E r \in ConstraintRole : ChangeFabric(r)
               \/ \E s \in Slots : ChangeUC(s)
  PROVE  IInv'
<1>1. /\ UNCHANGED <<function, stmts, work, attached>> /\ asked \subseteq asked'
      /\ changes < MaxChanges /\ changes' = changes + 1
  BY DEF ChangeFabric, ChangeUC
<1>2. changes' \in 0..MaxChanges
  BY <1>1, UCConstraintsAssumption DEF IInv, FiltersTypeOK
<1>3. \A c \in Constraints, members \in SUBSET Principals :
        Backed(c, members) => Backed(c, members)'
  BY <1>1 DEF Backed
<1>4. RowsAreBacked' /\ StatementsAreBacked' /\ FunctionsAreBacked'
  BY <1>1 DEF IInv, RowsAreBacked, StatementsAreBacked, FunctionsAreBacked, Backed
<1>5. /\ das' \subseteq ConstraintRole /\ asked' \subseteq ConstraintRole /\ das' \subseteq asked'
      /\ slot' \in [Slots -> Constraints \cup {Nothing}]
      /\ \A s \in Slots : slot'[s] = slot[s] \/ slot'[s] = Nothing
  BY DEF ChangeFabric, ChangeUC, IInv, FiltersTypeOK
<1>6. FiltersTypeOK' /\ SlotsWereAttached' /\ TriesAreLeft'
  BY <1>1, <1>2, <1>5, UCConstraintsAssumption
     DEF IInv, FiltersTypeOK, SlotsWereAttached, TriesAreLeft, Sending
<1>7. QED
  BY <1>4, <1>6 DEF IInv

-----------------------------------------------------------------------------
(* The theorems *)

\* Nothing has been sent and no role has been read.
LEMMA InitInv == FiltersInit => IInv
<1>1. SUFFICES ASSUME FiltersInit PROVE IInv
  OBVIOUS
<1> DEFINE Start == {w \in [pc : {"idle"}, step : {"create"}, try : {0},
                           row : Constraints, members : {{}},
                           body : [c : Constraints, members : {{}}],
                           answer : {"none"}] : w.body.c = w.row}
<1>2. work \in [Jobs -> Start]
  BY <1>1 DEF FiltersInit
<1>3. ASSUME NEW w \in Start
      PROVE  w \in WorkState /\ w.pc = "idle" /\ w.try = 0 /\ w.body.c = w.row
  <2>1. w.body \in Body
    BY DEF Body
  <2>2. QED
    BY <2>1, NoTries DEF WorkState
<1> HIDE DEF Start
<1>4. ASSUME NEW j \in Jobs
      PROVE  /\ work[j] \in WorkState /\ work[j].pc = "idle" /\ work[j].try = 0
             /\ work[j].body.c = work[j].row
  BY <1>2, <1>3
<1>5. work \in [Jobs -> WorkState]
  BY <1>2, <1>4
<1>6. 0 \in 0..MaxChanges
  BY UCConstraintsAssumption
<1>7. FiltersTypeOK
  BY <1>1, <1>5, <1>6 DEF FiltersInit, FiltersTypeOK
<1>8. RowsAreBacked /\ TriesAreLeft
  BY <1>4 DEF RowsAreBacked, TriesAreLeft, Sending
<1>9. StatementsAreBacked /\ FunctionsAreBacked /\ SlotsWereAttached
  BY <1>1, UCConstraintsAssumption DEF FiltersInit, StatementsAreBacked, FunctionsAreBacked,
     SlotsWereAttached
<1>10. QED
  BY <1>7, <1>8, <1>9 DEF IInv

\* One step per action of a row, the warehouse and the administrators.
LEMMA StepInv == IInv /\ [FiltersNext]_filterVars => IInv'
<1>1. SUFFICES ASSUME IInv, [FiltersNext]_filterVars PROVE IInv'
  OBVIOUS
<1>2. ASSUME NEW j \in Jobs, RowStep(j) \/ Abort(j)
      PROVE  IInv'
  <2>1. \/ PlanRow(j) \/ Compose(j)
        \/ PostUnanswered(j) \/ PostAnswered(j)
        \/ SkipConstraint(j) \/ ComposeFails(j) \/ PostRefused(j)
        \/ GiveUp(j) \/ Abort(j) \/ PollSucceeded(j)
    BY <1>2 DEF RowStep
  <2>2. QED
    BY <1>1, <2>1, PlanSteps, PostSteps, QuietSteps
<1>3. ASSUME NEW st \in stmts, ExecuteCreate(st) \/ ExecuteAttach(st) \/ ExecuteFails(st)
      PROVE  IInv'
  BY <1>1, <1>3, WarehouseSteps
<1>4. CASE \/ \E r \in ConstraintRole : ChangeFabric(r)
           \/ \E s \in Slots : ChangeUC(s)
  BY <1>1, <1>4, AdministratorSteps
<1>5. CASE UNCHANGED filterVars
  <2>1. FiltersTypeOK'
    BY <1>1, <1>5 DEF filterVars, IInv, FiltersTypeOK
  <2>2. TriesAreLeft'
    BY <1>1, <1>5 DEF filterVars, IInv, TriesAreLeft, Sending
  <2>3. \A c, m : Backed(c, m)' <=> Backed(c, m)
    BY <1>5 DEF filterVars, Backed
  <2>4. RowsAreBacked'
    BY <1>1, <1>5, <2>3 DEF filterVars, IInv, RowsAreBacked
  <2>5. StatementsAreBacked'
    BY <1>1, <1>5, <2>3 DEF filterVars, IInv, StatementsAreBacked
  <2>6. FunctionsAreBacked'
    BY <1>1, <1>5, <2>3 DEF filterVars, IInv, FunctionsAreBacked
  <2>7. SlotsWereAttached'
    BY <1>1, <1>5 DEF filterVars, IInv, SlotsWereAttached
  <2>8. QED
    BY <2>1, <2>2, <2>4, <2>5, <2>6, <2>7 DEF IInv
<1>6. QED
  BY <1>1, <1>2, <1>3, <1>4, <1>5 DEF FiltersNext

\* Rows, functions, slots and statements keep their types: in particular a POST is
\* never numbered beyond the tries there are.
THEOREM FiltersTypeCorrect == FiltersSpec => []FiltersTypeOK
<1>1. IInv => FiltersTypeOK
  BY DEF IInv
<1>2. QED
  BY <1>1, InitInv, StepInv, PTL DEF FiltersSpec

\* A function of the hub restricts members of a role that Fabric had with that very
\* constraint, for any number of rows, retries and late statements
\* (_grant_uc_constraint, execute_sql).
THEOREM FunctionsKeepToRoles == FiltersSpec => []FunctionsFollowRoles
BY InitInv, StepInv, InvFollowsRoles, PTL DEF FiltersSpec

\* What a slot enforces was attached by a statement of that constraint: creating the
\* function alone changes nothing that anybody reads (_grant_uc_constraint).
THEOREM SlotsEnforceAttached == FiltersSpec => []InForceWasAttached
BY InitInv, StepInv, InvWasAttached, PTL DEF FiltersSpec

-----------------------------------------------------------------------------
(* Rows that nobody interferes with                                          *)
(*                                                                           *)
(* That an ok row is in force says nothing of the way there.  What a row     *)
(* knows grows with its steps: once the first statement is seen to succeed   *)
(* its function is there, and stays, because whatever else is with the       *)
(* warehouse writes the same body or belongs to another slot.                *)

Inert == {"idle", "planned", "skipped"}

StepsInOrder ==
  \A j \in Jobs :
    /\ work[j].pc \notin {"attach", "polling"} => work[j].step = "create"
    /\ work[j].pc = "attach" => work[j].step = "attach"
    /\ work[j].pc # "polling" => work[j].answer = "none"

StatementsWereSent == \A st \in stmts : work[st.by].pc \notin Inert

\* The function of j does what j composed; it is attached to the slot of j.
HasCreated(j) == function[work[j].row] = work[j].body
HasAttached(j) == slot[SlotOf[work[j].row]] = work[j].row

Told(j, which) ==
  work[j].pc = "polling" /\ work[j].step = which /\ work[j].answer = "succeeded"

\* What a row without company knows.
Knows(j) ==
  /\ Told(j, "create") \/ work[j].step = "attach" \/ work[j].pc = "ok" => HasCreated(j)
  /\ Told(j, "attach") \/ work[j].pc = "ok" => HasAttached(j)

OInv == /\ IInv /\ StepsInOrder /\ StatementsWereSent
        /\ \A j \in Jobs : Alone(j) => Knows(j)

\* A row that is ok knows both its function and its slot.
LEMMA KnownIsInForce == OInv => OkRowsHoldIfAlone
<1> SUFFICES ASSUME OInv, NEW j \in Jobs, work[j].pc = "ok", Alone(j)
             PROVE  InForce(SlotOf[work[j].row]) = work[j].body
  BY DEF OkRowsHoldIfAlone
<1>1. HasCreated(j) /\ HasAttached(j)
  BY DEF OInv, Knows
<1>2. work[j].row \in Constraints
  BY DEF OInv, IInv, FiltersTypeOK, WorkState
<1>3. QED
  BY <1>1, <1>2 DEF HasCreated, HasAttached, InForce

\* The steps of a row as this section sees them: planned or composed; sent again or
\* seen by the warehouse; on to the second statement; done; or ended.
LEMMA RowMoves ==
  ASSUME IInv, NEW j \in Jobs, RowStep(j) \/ Abort(j)
  PROVE  /\ UNCHANGED <<function, slot, changes>>
         /\ \A k \in Jobs : k # j => work'[k] = work[k]
         /\ work'[j].row = work[j].row
         /\ stmts' = stmts \/ (Sending(j) /\ stmts' \subseteq stmts \cup {Current(j)})
         /\ \/ /\ work[j].pc \in {"idle", "planned"} /\ work'[j].pc \in {"planned", "create"}
               /\ work'[j].step = work[j].step /\ work'[j].answer = work[j].answer
            \/ /\ Sending(j) /\ work'[j].pc \in {work[j].pc, "polling"}
               /\ work'[j].step = work[j].step /\ work'[j].answer = work[j].answer
               /\ work'[j].body = work[j].body
            \/ /\ Told(j, "create") /\ work'[j].pc = "attach" /\ work'[j].step = "attach"
               /\ work'[j].answer = "none" /\ work'[j].body = work[j].body
            \/ /\ Told(j, "attach") /\ work'[j].pc = "ok" /\ work'[j].step = "create"
               /\ work'[j].answer = "none" /\ work'[j].body = work[j].body
            \/ /\ work'[j].pc \in {"failed", "skipped"}
               /\ work'[j].pc = "skipped" => work[j].pc = "planned"
               /\ work'[j].step = "create" /\ work'[j].answer = "none"
<1> USE DEF Platforms, Ghosts
<1>1. work \in [Jobs -> WorkState] /\ work[j] \in WorkState
  BY DEF IInv, FiltersTypeOK
<1>2. ASSUME NEW pc \in {"ok", "failed", "skipped"}, End(j, pc)
      PROVE  /\ \A k \in Jobs : k # j => work'[k] = work[k]
             /\ work'[j].pc = pc /\ work'[j].step = "create" /\ work'[j].answer = "none"
             /\ work'[j].row = work[j].row /\ work'[j].body = work[j].body
  BY <1>1, <1>2 DEF End, WorkState
<1>3. CASE PlanRow(j)
  <2>1. PICK r \in das : work' = [work EXCEPT ![j].pc = "planned", ![j].members = r.members]
    BY <1>3 DEF PlanRow
  <2>2. QED
    BY <1>1, <1>3, <2>1 DEF PlanRow, WorkState
<1>4. CASE Compose(j)
  <2>1. PICK body : work' = [work EXCEPT ![j].pc = "create", ![j].members = {}, ![j].body = body]
    BY <1>4 DEF Compose
  <2>2. QED
    BY <1>1, <1>4, <2>1 DEF Compose, WorkState
<1>5. CASE SkipConstraint(j) \/ ComposeFails(j) \/ PostRefused(j) \/ GiveUp(j) \/ Abort(j)
  BY <1>2, <1>5 DEF SkipConstraint, ComposeFails, PostRefused, GiveUp, Abort
<1>6. CASE PostUnanswered(j)
  <2>1. /\ UNCHANGED <<function, slot, changes>>
        /\ Sending(j) /\ stmts' \subseteq stmts \cup {Current(j)}
    BY <1>6 DEF PostUnanswered
  <2>2. End(j, "failed") \/ work' = [work EXCEPT ![j].try = work[j].try + 1]
    BY <1>6 DEF PostUnanswered
  <2>3. QED
    BY <1>1, <1>2, <2>1, <2>2 DEF WorkState
<1>7. CASE PostAnswered(j)
  BY <1>1, <1>7 DEF PostAnswered, WorkState
<1>8. CASE PollSucceeded(j)
  <2>1. CASE work[j].step = "create"
    BY <1>1, <1>8, <2>1 DEF PollSucceeded, Proceed, Told, WorkState
  <2>2. CASE work[j].step = "attach"
    BY <1>2, <1>8, <2>2 DEF PollSucceeded, Proceed, Told
  <2>3. QED
    BY <1>1, <2>1, <2>2 DEF WorkState
<1>9. QED
  BY <1>3, <1>4, <1>5, <1>6, <1>7, <1>8 DEF RowStep

\* Whoever is alone after a step was alone before it: rows keep their constraints
\* and do not return to where they have sent nothing.
LEMMA AloneBefore ==
  ASSUME OInv, [FiltersNext]_filterVars, NEW k \in Jobs, Alone(k)'
  PROVE  Alone(k)
<1> USE DEF Platforms, Ghosts
<1>1. ASSUME changes' = changes,
             \A i \in Jobs : /\ work'[i].row = work[i].row
                             /\ work'[i].pc \in Inert => work[i].pc \in Inert
      PROVE  Alone(k)
  BY <1>1 DEF Alone, Inert
<1>2. ASSUME NEW j \in Jobs, RowStep(j) \/ Abort(j)
      PROVE  Alone(k)
  <2>1. ASSUME NEW i \in Jobs
        PROVE  /\ work'[i].row = work[i].row
               /\ work'[i].pc \in Inert => work[i].pc \in Inert
    <3>1. CASE i # j
      BY <1>2, <3>1, RowMoves DEF OInv
    <3>2. CASE i = j
      BY <1>2, <3>2, RowMoves DEF OInv, Inert, Sending, Told
    <3>3. QED
      BY <3>1, <3>2
  <2>2. QED
    BY <1>1, <1>2, <2>1, RowMoves DEF OInv
<1>3. ASSUME NEW st \in stmts, ExecuteCreate(st) \/ ExecuteAttach(st) \/ ExecuteFails(st)
      PROVE  Alone(k)
  <2>1. PICK answer \in {"succeeded", "error"} : Report(st, answer)
    BY <1>3 DEF ExecuteCreate, ExecuteAttach, ExecuteFails
  <2>2. QED
    BY <1>1, <1>3, <2>1, ReportEffect
       DEF OInv, IInv, ExecuteCreate, ExecuteAttach, ExecuteFails
<1>4. CASE \/ \E r \in ConstraintRole : ChangeFabric(r)
           \/ \E s \in Slots : ChangeUC(s)
  <2>1. changes \in Nat /\ changes' = changes + 1
    BY <1>4, UCConstraintsAssumption DEF ChangeFabric, ChangeUC, OInv, IInv, FiltersTypeOK
  <2>2. QED
    BY <2>1 DEF Alone
<1>5. CASE UNCHANGED filterVars
  BY <1>1, <1>5 DEF filterVars
<1>6. QED
  BY <1>2, <1>3, <1>4, <1>5 DEF FiltersNext

\* A step of a row teaches it what the warehouse has told it, and the others nothing.
LEMMA RowKnows ==
  ASSUME OInv, NEW j \in Jobs, RowStep(j) \/ Abort(j)
  PROVE  /\ StepsInOrder' /\ StatementsWereSent'
         /\ \A k \in Jobs : Alone(k) /\ Knows(k) => Knows(k)'
<1>1. IInv /\ work[j] \in WorkState
  BY DEF OInv, IInv, FiltersTypeOK
<1>2. \A k \in Jobs : k # j => work'[k] = work[k]
  BY <1>1, RowMoves
<1>3. StepsInOrder'
  <2>1. ASSUME NEW k \in Jobs
        PROVE  /\ work'[k].pc \notin {"attach", "polling"} => work'[k].step = "create"
               /\ work'[k].pc = "attach" => work'[k].step = "attach"
               /\ work'[k].pc # "polling" => work'[k].answer = "none"
    <3>1. CASE k # j
      BY <1>2, <3>1 DEF OInv, StepsInOrder, Sending
    <3>2. CASE k = j
      <4>1. work[j].pc \in {"idle", "planned"} => work[j].answer = "none"
        BY DEF OInv, StepsInOrder
      <4>2. QED
        BY <1>1, <3>2, <4>1, RowMoves DEF OInv, StepsInOrder, Sending, Told
    <3>3. QED
      BY <3>1, <3>2
  <2>2. QED
    BY <2>1 DEF StepsInOrder, Sending
<1>4. StatementsWereSent'
  <2>1. ASSUME NEW st \in stmts' PROVE work'[st.by].pc \notin Inert
    <3>1. st \in stmts \/ (Sending(j) /\ st = Current(j))
      BY <1>1, RowMoves
    <3>2. /\ st.by \in Jobs
          /\ work[st.by].pc \notin Inert
      <4>1. CASE st \in stmts
        BY <4>1 DEF OInv, IInv, FiltersTypeOK, Statement, StatementsWereSent
      <4>2. CASE Sending(j) /\ st = Current(j)
        BY <4>2 DEF Sending, Current, Inert
      <4>3. QED
        BY <3>1, <4>1, <4>2
    <3>3. CASE st.by # j
      BY <1>2, <3>2, <3>3
    <3>4. CASE st.by = j
      BY <1>1, <3>2, <3>4, RowMoves DEF Inert, Sending, Told
    <3>5. QED
      BY <3>3, <3>4
  <2>2. QED
    BY <2>1 DEF StatementsWereSent
<1>5. ASSUME NEW k \in Jobs, Knows(k) PROVE Knows(k)'
  <2>1. UNCHANGED <<function, slot>>
    BY <1>1, RowMoves
  <2>2. CASE k # j
    BY <1>2, <1>5, <2>1, <2>2 DEF Knows, Told, HasCreated, HasAttached
  <2>3. CASE k = j
    <3>1. /\ work'[j].row = work[j].row
          /\ HasCreated(j) /\ work'[j].body = work[j].body => HasCreated(j)'
          /\ HasAttached(j) => HasAttached(j)'
      BY <1>1, <2>1, RowMoves DEF HasCreated, HasAttached
    <3>2. Sending(j) => ~Told(j, "create") /\ ~Told(j, "attach") /\ work[j].answer = "none"
      BY DEF Sending, Told, OInv, StepsInOrder
    <3>3. Told(j, "attach") => work[j].step = "attach"
      BY DEF Told
    <3>4. work[j].pc \in {"idle", "planned"} => work[j].step = "create"
      BY DEF OInv, StepsInOrder
    <3>5. \/ /\ work'[j].pc \notin {"polling", "ok"} /\ work'[j].step = "create"
          \/ /\ Sending(j) /\ work'[j].pc \notin {"ok"}
             /\ work'[j].step = work[j].step /\ work'[j].answer = "none"
             /\ work'[j].body = work[j].body
          \/ /\ Told(j, "create") /\ work'[j].pc = "attach" /\ work'[j].body = work[j].body
          \/ /\ Told(j, "attach") /\ work'[j].pc = "ok" /\ work'[j].body = work[j].body
             /\ work'[j].step = "create"
      BY <1>1, <3>2, <3>4, RowMoves DEF Sending
    <3>6. (Told(j, "create") \/ work[j].step = "attach" \/ work[j].pc = "ok" => HasCreated(j))
          /\ (Told(j, "attach") \/ work[j].pc = "ok" => HasAttached(j))
      BY <1>5, <2>3 DEF Knows
    <3>7. Knows(j)'
      <4>1. CASE work'[j].pc \notin {"polling", "ok"} /\ work'[j].step = "create"
        BY <4>1 DEF Knows, Told
      <4>2. CASE /\ Sending(j) /\ work'[j].pc \notin {"ok"}
                 /\ work'[j].step = work[j].step /\ work'[j].answer = "none"
                 /\ work'[j].body = work[j].body
        BY <3>1, <3>6, <4>2 DEF Knows, Told
      <4>3. CASE Told(j, "create") /\ work'[j].pc = "attach" /\ work'[j].body = work[j].body
        BY <3>1, <3>6, <4>3 DEF Knows, Told
      <4>4. CASE /\ Told(j, "attach") /\ work'[j].pc = "ok" /\ work'[j].body = work[j].body
                 /\ work'[j].step = "create"
        BY <3>1, <3>3, <3>6, <4>4 DEF Knows, Told
      <4>5. QED
        BY <3>5, <4>1, <4>2, <4>3, <4>4
    <3>8. QED
      BY <2>3, <3>7
  <2>4. QED
    BY <2>2, <2>3
<1>6. QED
  BY <1>3, <1>4, <1>5

\* What the warehouse executes for another row concerns another slot; what it
\* executes for this one, however late, does what this one composed.
LEMMA WarehouseKnows ==
  ASSUME OInv, NEW st \in stmts, ExecuteCreate(st) \/ ExecuteAttach(st) \/ ExecuteFails(st)
  PROVE  /\ StepsInOrder' /\ StatementsWereSent'
         /\ \A k \in Jobs : Alone(k) /\ Knows(k) => Knows(k)'
<1>1. /\ FiltersTypeOK /\ work \in [Jobs -> WorkState] /\ st.by \in Jobs
      /\ st.step \in {"create", "attach"}
      /\ function \in [Constraints -> Body \cup {Nothing}]
      /\ slot \in [Slots -> Constraints \cup {Nothing}]
      /\ \A k \in Jobs : work[k] \in WorkState /\ work[k].row \in Constraints
      /\ SlotOf \in [Constraints -> Slots]
  BY UCConstraintsAssumption DEF OInv, IInv, FiltersTypeOK, Statement, WorkState
<1>2. ASSUME NEW answer \in {"succeeded", "error"}, Report(st, answer)
      PROVE  /\ \A k \in Jobs : /\ work'[k].row = work[k].row /\ work'[k].body = work[k].body
                                /\ work'[k].pc = work[k].pc /\ work'[k].step = work[k].step
             /\ \A k \in Jobs : k # st.by => work'[k] = work[k]
             /\ ~IsPolled(st) => work' = work
             /\ IsPolled(st) => work'[st.by].answer = answer
  BY <1>1, <1>2 DEF Report, WorkState
<1>3. ASSUME NEW answer \in {"succeeded", "error"}, Report(st, answer)
      PROVE  StepsInOrder'
  <2>1. ASSUME NEW k \in Jobs
        PROVE  /\ work'[k].pc \notin {"attach", "polling"} => work'[k].step = "create"
               /\ work'[k].pc = "attach" => work'[k].step = "attach"
               /\ work'[k].pc # "polling" => work'[k].answer = "none"
    <3>1. work'[k] = work[k] \/ work[k].pc = "polling"
      BY <1>2, <1>3 DEF IsPolled
    <3>2. QED
      BY <1>2, <1>3, <3>1 DEF OInv, StepsInOrder, Sending
  <2>2. QED
    BY <2>1 DEF StepsInOrder, Sending
<1>4. ASSUME NEW answer \in {"succeeded", "error"}, Report(st, answer), stmts' \subseteq stmts
      PROVE  StatementsWereSent'
  <2>1. \A x \in stmts' : x.by \in Jobs /\ work[x.by].pc \notin Inert
    BY <1>4 DEF OInv, IInv, FiltersTypeOK, Statement, StatementsWereSent
  <2>2. QED
    BY <1>2, <1>4, <2>1 DEF StatementsWereSent
<1>5. ASSUME NEW k \in Jobs, Alone(k), k # st.by
      PROVE  SlotOf[work[st.by].row] # SlotOf[work[k].row]
  <2>1. work[st.by].pc \notin Inert
    BY DEF OInv, StatementsWereSent
  <2>2. QED
    BY <1>1, <1>5, <2>1 DEF Alone, Inert
<1>6. CASE ExecuteCreate(st)
  <2>1. /\ function' = [function EXCEPT ![work[st.by].row] = work[st.by].body]
        /\ slot' = slot /\ stmts' \subseteq stmts /\ st.step = "create"
        /\ Report(st, "succeeded")
    BY <1>6 DEF ExecuteCreate, FunctionOf
  <2>2. ASSUME NEW k \in Jobs, Alone(k), Knows(k) PROVE Knows(k)'
    <3>1. CASE k # st.by
      <4>1. function'[work[k].row] = function[work[k].row] /\ work'[k] = work[k]
        BY <1>1, <1>2, <1>5, <2>1, <2>2, <3>1
      <4>2. QED
        BY <2>1, <2>2, <4>1 DEF Knows, Told, HasCreated, HasAttached
    <3>2. CASE k = st.by
      <4>1. HasCreated(k)'
        BY <1>1, <1>2, <2>1, <3>2 DEF HasCreated
      <4>2. Told(k, "attach")' => Told(k, "attach")
        BY <1>2, <2>1, <3>2 DEF Told, IsPolled
      <4>3. work'[k].pc = work[k].pc /\ (HasAttached(k) => HasAttached(k)')
        BY <1>2, <2>1 DEF HasAttached
      <4>4. QED
        BY <2>2, <4>1, <4>2, <4>3 DEF Knows
    <3>3. QED
      BY <3>1, <3>2
  <2>3. QED
    BY <1>3, <1>4, <2>1, <2>2
<1>7. CASE ExecuteAttach(st)
  <2>1. /\ slot' = [slot EXCEPT ![SlotOf[work[st.by].row]] = work[st.by].row]
        /\ function' = function /\ stmts' \subseteq stmts /\ st.step = "attach"
        /\ Report(st, "succeeded")
    BY <1>7 DEF ExecuteAttach, FunctionOf
  <2>2. ASSUME NEW k \in Jobs, Alone(k), Knows(k) PROVE Knows(k)'
    <3>1. CASE k # st.by
      <4>1. slot'[SlotOf[work[k].row]] = slot[SlotOf[work[k].row]] /\ work'[k] = work[k]
        BY <1>1, <1>2, <1>5, <2>1, <2>2, <3>1
      <4>2. QED
        BY <2>1, <2>2, <4>1 DEF Knows, Told, HasCreated, HasAttached
    <3>2. CASE k = st.by
      <4>1. HasAttached(k)'
        BY <1>1, <1>2, <2>1, <3>2 DEF HasAttached
      <4>2. Told(k, "create")' => Told(k, "create")
        BY <1>2, <2>1, <3>2 DEF Told, IsPolled
      <4>3. /\ work'[k].pc = work[k].pc /\ work'[k].step = work[k].step
            /\ HasCreated(k) => HasCreated(k)'
        BY <1>2, <2>1 DEF HasCreated
      <4>4. QED
        BY <2>2, <4>1, <4>2, <4>3 DEF Knows
    <3>3. QED
      BY <3>1, <3>2
  <2>3. QED
    BY <1>3, <1>4, <2>1, <2>2
<1>8. CASE ExecuteFails(st)
  <2>1. /\ UNCHANGED <<function, slot>> /\ stmts' \subseteq stmts /\ Report(st, "error")
    BY <1>8 DEF ExecuteFails
  <2>2. ASSUME NEW k \in Jobs, Knows(k) PROVE Knows(k)'
    <3>1. /\ work'[k].pc = work[k].pc /\ work'[k].step = work[k].step
          /\ HasCreated(k) => HasCreated(k)'
          /\ HasAttached(k) => HasAttached(k)'
      BY <1>2, <2>1 DEF HasCreated, HasAttached
    <3>2. \A s \in {"create", "attach"} : Told(k, s)' => Told(k, s)
      BY <1>2, <2>1 DEF Told, IsPolled
    <3>3. QED
      BY <2>2, <3>1, <3>2 DEF Knows
  <2>3. QED
    BY <1>3, <1>4, <2>1, <2>2
<1>9. QED
  BY <1>6, <1>7, <1>8

\* At the start there is nothing to know.
LEMMA InitKnows == FiltersInit => OInv
<1> SUFFICES ASSUME FiltersInit PROVE OInv
  OBVIOUS
<1>1. \A j \in Jobs : work[j].pc = "idle" /\ work[j].step = "create" /\ work[j].answer = "none"
  BY DEF FiltersInit
<1>2. stmts = {}
  BY DEF FiltersInit
<1>3. QED
  BY <1>1, <1>2, InitInv DEF OInv, StepsInOrder, StatementsWereSent, Sending, Knows, Told

\* No step makes a row forget, or know what is not so.
LEMMA StepKnows == OInv /\ [FiltersNext]_filterVars => OInv'
<1> SUFFICES ASSUME OInv, [FiltersNext]_filterVars PROVE OInv'
  OBVIOUS
<1>1. IInv'
  BY StepInv DEF OInv
<1>2. /\ StepsInOrder' /\ StatementsWereSent'
      /\ \A k \in Jobs : Alone(k)' /\ Alone(k) /\ Knows(k) => Knows(k)'
  <2>1. ASSUME NEW r \in ConstraintRole, ChangeFabric(r)
        PROVE  UNCHANGED <<work, stmts, function, slot>>
    BY <2>1 DEF ChangeFabric
  <2>2. ASSUME NEW s \in Slots, ChangeUC(s)
        PROVE  UNCHANGED <<work, stmts>> /\ \A k \in Jobs : ~Alone(k)'
    <3>1. changes \in Nat /\ changes' = changes + 1
      BY <2>2, UCConstraintsAssumption DEF ChangeUC, OInv, IInv, FiltersTypeOK
    <3>2. changes' # 0
      BY <3>1
    <3>3. QED
      BY <2>2, <3>2 DEF ChangeUC, Alone
  <2>3. CASE UNCHANGED <<work, stmts>>
    <3>1. StepsInOrder' /\ StatementsWereSent'
      BY <2>3 DEF OInv, StepsInOrder, StatementsWereSent, Sending
    <3>2. UNCHANGED <<function, slot>> => (\A k \in Jobs : Knows(k) => Knows(k)')
      BY <2>3 DEF Knows, Told, HasCreated, HasAttached
    <3>3. \/ UNCHANGED <<function, slot>>
          \/ \A k \in Jobs : ~Alone(k)'
          \/ \E j \in Jobs : RowStep(j) \/ Abort(j)
          \/ \E st \in stmts : ExecuteCreate(st) \/ ExecuteAttach(st) \/ ExecuteFails(st)
      BY <2>1, <2>2 DEF FiltersNext, filterVars
    <3>4. QED
      BY <3>1, <3>2, <3>3, RowKnows, WarehouseKnows
  <2>4. QED
    BY <2>1, <2>2, <2>3, RowKnows, WarehouseKnows DEF FiltersNext, filterVars
<1>3. QED
  BY <1>1, <1>2, AloneBefore DEF OInv

\* A row that is reported as granted, and that nobody else's row or change touches, is in
\* force as it was composed, however often its POSTs were retried and whenever what
\* they left with the warehouse is executed (_grant_uc_constraint, execute_sql).
THEOREM OkRowsHold == FiltersSpec => []OkRowsHoldIfAlone
BY InitKnows, StepKnows, KnownIsInForce, PTL DEF FiltersSpec

\* A row that is reported as granted, none of whose members is a group.
UsersAreHeld ==
  \A j \in Jobs :
    work[j].pc = "ok" /\ Alone(j) /\ work[j].body.members \cap Groups = {}
      => Meant(work[j].body.members) \subseteq Restricted(InForce(SlotOf[work[j].row]))

\* current_user() IN (...) holds each of the users it names, and a body without names
\* holds everybody.
LEMMA UsersAreRestricted ==
  ASSUME NEW body, body.members \cap Groups = {}
  PROVE  Meant(body.members) \subseteq Restricted(body)
<1>1. Meant(body.members) = body.members \cap Users
  BY DEF Meant
<1>2. QED
  BY <1>1 DEF Restricted

\* Where nobody interferes, a row without groups is not broadened on its way to Unity
\* Catalog: it holds all whom it means (_member_scoped_row_expression).
THEOREM RowsOfUsersHold == FiltersSpec => []UsersAreHeld
<1>1. OkRowsHoldIfAlone => UsersAreHeld
  BY UsersAreRestricted DEF OkRowsHoldIfAlone, UsersAreHeld
<1>2. QED
  BY <1>1, OkRowsHold, PTL

\* The sentence of docs/permission-model.md:54, which the run broadened refutes, is true
\* where no group is a member of a constraint role: groups are the one cause.
THEOREM OnlyGroupsBroaden == Groups = {} => (FiltersSpec => []OkRowsAreNotBroadened)
<1>1. SUFFICES ASSUME Groups = {} PROVE FiltersSpec => []OkRowsAreNotBroadened
  OBVIOUS
<1>2. UsersAreHeld => OkRowsAreNotBroadened
  <2>1. SUFFICES ASSUME UsersAreHeld PROVE OkRowsAreNotBroadened
    OBVIOUS
  <2>2. \A j \in Jobs : work[j].body.members \cap Groups = {}
    BY <1>1
  <2>3. QED
    BY <2>1, <2>2 DEF UsersAreHeld, OkRowsAreNotBroadened
<1>3. QED
  BY <1>2, RowsOfUsersHold, PTL

-----------------------------------------------------------------------------
(* Counting *)

\* A set of natural numbers with an element has a smallest one.
LEMMA SmallestExists ==
  ASSUME NEW S \in SUBSET Nat, S # {}
  PROVE  \E n \in S : \A m \in S : n <= m
<1>1. PICK n \in S : \A m \in S : ~ (<<m, n>> \in OpToRel(<, Nat))
  BY NatLessThanWellFounded, WFMin, Zenon
<1>2. n \in Nat /\ \A m \in S : m \in Nat
  OBVIOUS
<1>3. \A m \in S : <<m, n>> \in OpToRel(<, Nat) <=> m < n
  BY <1>2, Zenon DEF OpToRel
<1>4. \A m \in S : ~ (m < n)
  BY <1>1, <1>3
<1>5. QED
  BY <1>2, <1>4

\* Induction, for what a set of natural numbers can say.
LEMMA Induction ==
  ASSUME NEW S \in SUBSET Nat, 0 \in S, \A n \in S : n + 1 \in S
  PROVE  S = Nat
<1>1. SUFFICES ASSUME Nat \ S # {} PROVE FALSE
  OBVIOUS
<1>2. PICK n \in Nat \ S : \A m \in Nat \ S : n <= m
  BY <1>1, SmallestExists
<1>3. n - 1 \in Nat /\ n - 1 \in S
  BY <1>2
<1>4. QED
  BY <1>3

\* The only number in a set is its largest.
LEMMA MostOfOne ==
  ASSUME NEW n \in Nat
  PROVE  Most({n}) = n
BY DEF Most

-----------------------------------------------------------------------------
(* The renaming of parameters *)

IsRenaming(f, n, test, params, cols) ==
  f = [i \in 0..n |-> IF i = 0 THEN test ELSE Replaced(f[i - 1], params[i], cols[i])]

\* The renaming by steps is a function, one parameter at a time.
LEMMA RenamingExists ==
  ASSUME NEW n \in Nat, NEW test, NEW params, NEW cols
  PROVE  \E f : IsRenaming(f, n, test, params, cols)
<1> DEFINE S == {m \in Nat : \E f : IsRenaming(f, m, test, params, cols)}
<1>1. 0 \in S
  <2>1. IsRenaming([i \in 0..0 |-> test], 0, test, params, cols)
    BY DEF IsRenaming
  <2>2. QED
    BY <2>1
<1>2. ASSUME NEW m \in S PROVE m + 1 \in S
  <2>1. m \in Nat
    OBVIOUS
  <2>2. PICK f : IsRenaming(f, m, test, params, cols)
    OBVIOUS
  <2> DEFINE g == [i \in 0..(m + 1) |->
                    IF i <= m THEN f[i] ELSE Replaced(f[m], params[m + 1], cols[m + 1])]
  <2>3. \A i \in 0..m : g[i] = f[i]
    BY <2>1
  <2>4. g[m + 1] = Replaced(f[m], params[m + 1], cols[m + 1])
    BY <2>1
  <2>5. ASSUME NEW i \in 0..(m + 1)
        PROVE  g[i] = IF i = 0 THEN test ELSE Replaced(g[i - 1], params[i], cols[i])
    <3>1. CASE i = m + 1
      <4>1. i - 1 = m /\ i # 0 /\ m \in 0..m
        BY <2>1, <3>1
      <4>2. g[i - 1] = f[m]
        BY <2>3, <4>1
      <4>3. QED
        BY <2>4, <3>1, <4>1, <4>2
    <3>2. CASE i # m + 1
      <4>1. i \in 0..m
        BY <2>1, <3>2
      <4>2. f[i] = IF i = 0 THEN test ELSE Replaced(f[i - 1], params[i], cols[i])
        BY <2>2, <4>1 DEF IsRenaming
      <4>3. i # 0 => i - 1 \in 0..m
        BY <2>1, <4>1
      <4>4. QED
        BY <2>3, <4>1, <4>2, <4>3
    <3>3. QED
      BY <3>1, <3>2
  <2>6. IsRenaming(g, m + 1, test, params, cols)
    <3> HIDE DEF g
    <3>1. g = [i \in 0..(m + 1) |-> g[i]]
      BY DEF g
    <3>2. QED
      BY <2>5, <3>1 DEF IsRenaming
  <2>7. QED
    BY <2>1, <2>6
<1>3. S = Nat
  <2> HIDE DEF S
  <2>1. S \in SUBSET Nat
    BY DEF S
  <2>2. QED
    BY <1>1, <1>2, <2>1, Induction
<1>4. QED
  BY <1>3

\* MapParams is its last value.
LEMMA MapParamsRenames ==
  ASSUME NEW test, NEW params, NEW cols, Len(params) \in Nat, Len(params) = Len(cols)
  PROVE  \E f : /\ IsRenaming(f, Len(params), test, params, cols)
                /\ MapParams(test, params, cols) = f[Len(params)]
<1> DEFINE renamed == CHOOSE f : IsRenaming(f, Len(params), test, params, cols)
<1>1. IsRenaming(renamed, Len(params), test, params, cols)
  BY RenamingExists
<1>2. MapParams(test, params, cols) = renamed[Len(params)]
  BY DEF MapParams, IsRenaming, Replaced
<1>3. QED
  BY <1>1, <1>2

\* Columns that are called like the parameters leave the test as it is.
LEMMA OwnNamesStay ==
  ASSUME NEW test \in SUBSET Comparison, NEW params, Len(params) \in Nat
  PROVE  MapParams(test, params, params) = test
<1>1. PICK f : /\ IsRenaming(f, Len(params), test, params, params)
               /\ MapParams(test, params, params) = f[Len(params)]
  BY MapParamsRenames
<1>2. ASSUME NEW p PROVE Replaced(test, p, p) = test
  <2>1. \A c \in test : <<IF c[1] = p THEN p ELSE c[1], IF c[2] = p THEN p ELSE c[2]>> = c
    BY DEF Comparison
  <2>2. QED
    BY <2>1 DEF Replaced
<1> DEFINE S == {m \in Nat : m \in 0..Len(params) => f[m] = test}
<1>3. 0 \in S
  BY <1>1 DEF IsRenaming
<1>4. ASSUME NEW m \in S PROVE m + 1 \in S
  <2>1. SUFFICES ASSUME m + 1 \in 0..Len(params) PROVE f[m + 1] = test
    OBVIOUS
  <2>2. m \in 0..Len(params) /\ m + 1 # 0 /\ (m + 1) - 1 = m
    BY <2>1
  <2>3. f[m + 1] = Replaced(f[m], params[m + 1], params[m + 1])
    BY <1>1, <2>1, <2>2 DEF IsRenaming
  <2>4. QED
    BY <1>2, <2>2, <2>3
<1>5. S = Nat
  <2> HIDE DEF S
  <2>1. S \in SUBSET Nat
    BY DEF S
  <2>2. QED
    BY <1>3, <1>4, <2>1, Induction
<1>6. f[Len(params)] = test
  BY <1>5
<1>7. QED
  BY <1>1, <1>6

\* In a function that maps cleanly each comparison of the i-th parameter ends up as one
\* of the i-th column, with the same literal.
LEMMA ComparisonsAreMapped ==
  ASSUME NEW fun \in SqlFunction, NEW cols, MapsCleanly(fun, cols),
         NEW c \in fun.test, NEW i \in DOMAIN fun.params, fun.params[i] = c[1]
  PROVE  <<cols[i], c[2]>> \in MapParams(fun.test, fun.params, cols)
<1> DEFINE n == Len(fun.params)
<1>1. /\ fun.params \in Seq(Names) /\ fun.test \subseteq Comparison
      /\ \A k, l \in DOMAIN fun.params : fun.params[k] = fun.params[l] => k = l
  BY DEF SqlFunction
<1>2. n \in Nat /\ DOMAIN fun.params = 1..n /\ i \in 1..n
  BY <1>1
<1>3. PICK f : /\ IsRenaming(f, n, fun.test, fun.params, cols)
               /\ MapParams(fun.test, fun.params, cols) = f[n]
  BY <1>2, MapParamsRenames DEF MapsCleanly
<1>4. c = <<c[1], c[2]>>
  BY <1>1 DEF Comparison
<1>5. ASSUME NEW m \in 1..n
      PROVE  \A x \in f[m - 1] :
               <<IF x[1] = fun.params[m] THEN cols[m] ELSE x[1],
                 IF x[2] = fun.params[m] THEN cols[m] ELSE x[2]>> \in f[m]
  <2>1. f[m] = Replaced(f[m - 1], fun.params[m], cols[m])
    <3>1. m \in 0..n /\ m # 0
      BY <1>2, <1>5
    <3>2. f[m] = IF m = 0 THEN fun.test ELSE Replaced(f[m - 1], fun.params[m], cols[m])
      BY <1>3, <3>1 DEF IsRenaming
    <3>3. QED
      BY <3>1, <3>2
  <2>2. QED
    BY <2>1 DEF Replaced
<1>5a. \A m \in 1..n : (IF c[2] = fun.params[m] THEN cols[m] ELSE c[2]) = c[2]
  BY <1>2 DEF MapsCleanly
<1>6. f[0] = fun.test
  BY <1>2, <1>3 DEF IsRenaming
<1> DEFINE S == {m \in Nat : m \in 0..n => IF m < i THEN c \in f[m] ELSE <<cols[i], c[2]>> \in f[m]}
<1>7. 0 \in S
  BY <1>2, <1>6
<1>8. ASSUME NEW m \in S PROVE m + 1 \in S
  <2>1. SUFFICES ASSUME m + 1 \in 0..n
                 PROVE  IF m + 1 < i THEN c \in f[m + 1] ELSE <<cols[i], c[2]>> \in f[m + 1]
    OBVIOUS
  <2>2. m \in Nat /\ m \in 0..n /\ m + 1 \in 1..n /\ (m + 1) - 1 = m
    BY <1>2, <2>1
  <2>3. IF m < i THEN c \in f[m] ELSE <<cols[i], c[2]>> \in f[m]
    BY <1>8, <2>2
  <2> HIDE DEF S
  <2>4. CASE m + 1 < i
    <3>1. fun.params[m + 1] # c[1] /\ c \in f[m]
      BY <1>1, <1>2, <2>2, <2>3, <2>4
    <3>2. <<c[1], c[2]>> \in f[m + 1]
      BY <1>5, <1>5a, <2>2, <3>1
    <3>3. QED
      BY <1>4, <2>4, <3>2
  <2>5. CASE m + 1 = i
    <3>1. fun.params[m + 1] = c[1] /\ c \in f[m]
      BY <1>2, <2>2, <2>3, <2>5
    <3>2. <<cols[i], c[2]>> \in f[m + 1]
      BY <1>5, <1>5a, <2>2, <2>5, <3>1
    <3>3. QED
      BY <1>2, <2>2, <2>5, <3>2
  <2>6. CASE i < m + 1
    <3>1. <<cols[i], c[2]>> \in f[m]
      BY <1>2, <2>2, <2>3, <2>6
    <3>2. cols[i] = fun.params[m + 1] => cols[m + 1] = cols[i]
      <4>1. SUFFICES ASSUME cols[i] = fun.params[m + 1] PROVE cols[m + 1] = cols[i]
        OBVIOUS
      <4>2. cols[i] # fun.params[i]
        BY <1>1, <1>2, <2>2, <2>6, <4>1
      <4>3. QED
        BY <1>2, <2>2, <2>6, <4>1, <4>2 DEF MapsCleanly
    <3>3. <<cols[i], c[2]>> \in f[m + 1]
      BY <1>5, <1>5a, <2>2, <3>1, <3>2
    <3>4. QED
      BY <1>2, <2>2, <2>6, <3>3
  <2>7. QED
    BY <1>2, <2>2, <2>4, <2>5, <2>6
<1>9. S = Nat
  <2> HIDE DEF S
  <2>1. S \in SUBSET Nat
    BY DEF S
  <2>2. QED
    BY <1>7, <1>8, <2>1, Induction
<1>10. <<cols[i], c[2]>> \in f[n]
  BY <1>2, <1>9
<1>11. QED
  BY <1>3, <1>10

-----------------------------------------------------------------------------
(* The inductive invariant of the diff and the apply *)

\* A row of the diff stands for x.
Listed(x) == \E r \in rows : SameRow(r, x)

\* Where a row comes from.
FromTable(r) == \E t \in seen : r \in TableRows(t)
ForReview(r) == \E p \in listed : Recordable(p) /\ r = AbstractRow(p)
FromPolicy(r) == \E p \in listed : r \in TargetRows(p)

InputsTyped ==
  /\ \A t \in Tables : filters[t] \subseteq FilterInputs
  /\ policies \subseteq PolicyInputs /\ listed \subseteq policies
  /\ tags.catalog \in TagInputs
  /\ \A s \in Schemas : tags.schema[s] \in TagInputs
  /\ \A t \in Tables : tags.table[t] \in TagInputs

RowsHaveOrigins ==
  \A r \in rows : FromTable(r) \/ (step = "diffed" /\ (ForReview(r) \/ FromPolicy(r)))

TablesAreListed == \A t \in seen : \A x \in TableRows(t) : Listed(x)

\* A policy is there for review as it is, or everywhere it applies.
PoliciesAreListed ==
  step = "diffed" =>
    \A p \in listed : Recordable(p) =>
      \/ AbstractRow(p) \in rows
      \/ TargetRows(p) = {} /\ Listed(AbstractRow(p))
      \/ TargetRows(p) # {} /\ \A x \in TargetRows(p) : Listed(x)

InstalledFromRows ==
  \A d \in installed : \E r \in rows :
    /\ step = "diffed"
    /\ r.source # "abac" /\ IsTranslated(r.key)
    /\ d = [table |-> r.scope, kind |-> r.kind, key |-> r.key]

AInv ==
  /\ InputsTyped /\ seen \subseteq Tables /\ step \in {"tables", "policies", "diffed"}
  /\ RowsHaveOrigins /\ TablesAreListed /\ PoliciesAreListed /\ InstalledFromRows

\* What Recorded leaves out is there already, under the same identity.
LEMMA RecordedLists ==
  ASSUME NEW old, NEW new
  PROVE  /\ old \subseteq Recorded(old, new) /\ Recorded(old, new) \subseteq old \cup new
         /\ \A x \in new : \E r \in Recorded(old, new) : SameRow(r, x)
BY DEF Recorded, SameRow

\* The steps keep the catalog as it is, and with it what is made of it.
LEMMA TableRowsStay ==
  ASSUME UNCHANGED inputVars, NEW CONSTANT t
  PROVE  TableRows(t)' = TableRows(t)
BY DEF inputVars, TableRows, FilterRow, FilterKey, Translatable, Unwrappable

\* The targets of a policy need the tables that were read as well.
LEMMA TargetRowsStay ==
  ASSUME UNCHANGED <<inputVars, seen>>, NEW CONSTANT p
  PROVE  TargetRows(p)' = TargetRows(p)
<1>1. UNCHANGED <<production, tags, unread, seen>>
  BY DEF inputVars
<1>2. ASSUME NEW CONSTANT t, NEW CONSTANT alias
      PROVE  AliasMatches(p, t, alias)' = AliasMatches(p, t, alias)
  BY <1>1 DEF AliasMatches, ColumnTags
<1>3. ASSUME NEW CONSTANT t PROVE TableTags(t)' = TableTags(t)
  BY <1>1 DEF TableTags, Levels, Spelled, Chain
<1>4. ASSUME NEW CONSTANT t PROVE Applies(p, t)' <=> Applies(p, t)
  BY <1>2, <1>3 DEF Applies
<1>5. ASSUME NEW CONSTANT t PROVE MaskedColumns(p, t)' = MaskedColumns(p, t)
  BY <1>2 DEF MaskedColumns
<1>6. ASSUME NEW CONSTANT t PROVE UsingColumns(p, t)' = UsingColumns(p, t)
  BY <1>2 DEF UsingColumns
<1>7. ASSUME NEW CONSTANT t
      PROVE  FilterRow("resolved", t, p.fun, UsingColumns(p, t), p.id)'
               = FilterRow("resolved", t, p.fun, UsingColumns(p, t), p.id)
  BY <1>1, <1>6 DEF FilterRow, FilterKey, Translatable, Unwrappable
<1>8. {u \in Tables : Applies(p, u)}' = {u \in Tables : Applies(p, u)}
  BY <1>4
<1>9. (UNION {{MaskRow("resolved", t, c, p.id) : c \in MaskedColumns(p, t)}
                : t \in {u \in Tables : Applies(p, u)}})'
        = UNION {{MaskRow("resolved", t, c, p.id) : c \in MaskedColumns(p, t)}
                : t \in {u \in Tables : Applies(p, u)}}
  BY <1>5, <1>8
<1>10. {FilterRow("resolved", t, p.fun, UsingColumns(p, t), p.id)
          : t \in {u \in Tables : Applies(p, u)}}'
        = {FilterRow("resolved", t, p.fun, UsingColumns(p, t), p.id)
          : t \in {u \in Tables : Applies(p, u)}}
  BY <1>7, <1>8
<1>11. QED
  BY <1>9, <1>10 DEF TargetRows

\* The key of a row without a translation says what it is of.
LEMMA TablesAreNotPolicies ==
  ASSUME NEW t \in Tables, NEW r \in TableRows(t), NEW p \in PolicyInputs
  PROVE  ~SameRow(r, AbstractRow(p))
<1>1. r.key.by \in {t, NoOne}
  BY DEF TableRows, FilterRow, MaskRow, FilterKey, MaskKey
<1>2. AbstractRow(p).key.by = p.id
  BY DEF AbstractRow
<1>3. QED
  BY <1>1, <1>2, AbacInputsAssumption DEF SameRow

\* Nothing has been read.
LEMMA AbacInitInv == AbacInit => AInv
BY DEF AbacInit, AInv, InputsTyped, RowsHaveOrigins, TablesAreListed, PoliciesAreListed,
       InstalledFromRows

\* Reading a table adds its rows.
LEMMA ReadTableInv ==
  ASSUME AInv, NEW t \in Tables, ReadTable(t)
  PROVE  AInv'
<1>1. /\ UNCHANGED <<inputVars, listed>> /\ step = "tables" /\ step' = "tables"
      /\ seen' = seen \cup {t} /\ installed' = installed
      /\ rows' = Recorded(rows, TableRows(t))
  BY DEF ReadTable
<1>2. \A u \in Tables : TableRows(u)' = TableRows(u)
  BY <1>1, TableRowsStay
<1>3. /\ rows \subseteq rows' /\ rows' \subseteq rows \cup TableRows(t)
      /\ \A x \in TableRows(t) : \E r \in rows' : SameRow(r, x)
  BY <1>1, RecordedLists
<1>4. InputsTyped' /\ seen' \subseteq Tables
  BY <1>1 DEF AInv, InputsTyped, inputVars
<1>5. RowsHaveOrigins'
  <2>1. ASSUME NEW r \in rows' PROVE \E u \in seen' : r \in TableRows(u)'
    <3>1. CASE r \in rows
      <4>1. PICK u \in seen : r \in TableRows(u)
        BY <1>1, <3>1 DEF AInv, RowsHaveOrigins, FromTable
      <4>2. QED
        BY <1>1, <1>2, <4>1 DEF AInv
    <3>2. CASE r \in TableRows(t)
      BY <1>1, <1>2, <3>2
    <3>3. QED
      BY <1>3, <3>1, <3>2
  <2>2. QED
    BY <2>1 DEF RowsHaveOrigins, FromTable
<1>6. TablesAreListed'
  <2>1. ASSUME NEW u \in seen', NEW x \in TableRows(u)'
        PROVE  \E r \in rows' : SameRow(r, x)
    <3>1. u \in Tables /\ x \in TableRows(u)
      BY <1>1, <1>2, <1>4
    <3>2. CASE u = t
      BY <1>3, <3>1, <3>2
    <3>3. CASE u # t
      <4>1. PICK r \in rows : SameRow(r, x)
        BY <1>1, <3>1, <3>3 DEF AInv, TablesAreListed, Listed
      <4>2. QED
        BY <1>3, <4>1
    <3>4. QED
      BY <3>2, <3>3
  <2>2. QED
    BY <2>1 DEF TablesAreListed, Listed
<1>7. PoliciesAreListed'
  BY <1>1 DEF PoliciesAreListed
<1>8. InstalledFromRows'
  BY <1>1 DEF AInv, InstalledFromRows
<1>9. QED
  BY <1>1, <1>4, <1>5, <1>6, <1>7, <1>8 DEF AInv

\* From then on the tables that were read do not change.
LEMMA LaterInv ==
  ASSUME AInv, UNCHANGED <<inputVars, seen>>, rows \subseteq rows',
         listed' \subseteq policies, step' = "diffed" => listed' = listed,
         step' \in {"tables", "policies", "diffed"},
         \A r \in rows' : \/ r \in rows /\ (step = "diffed" => step' = "diffed")
                          \/ step' = "diffed" /\ (ForReview(r) \/ FromPolicy(r)),
         step' = "diffed" =>
           \A p \in listed : Recordable(p) =>
             \/ AbstractRow(p) \in rows'
             \/ TargetRows(p) = {} /\ \E r \in rows' : SameRow(r, AbstractRow(p))
             \/ TargetRows(p) # {} /\ \A x \in TargetRows(p) : \E r \in rows' : SameRow(r, x),
         InstalledFromRows'
  PROVE  AInv'
<1>1. /\ \A t \in Tables : TableRows(t)' = TableRows(t)
      /\ \A p \in PolicyInputs : TargetRows(p)' = TargetRows(p)
      /\ listed \subseteq PolicyInputs /\ listed' \subseteq PolicyInputs
      /\ seen' = seen /\ seen \subseteq Tables
  BY TableRowsStay, TargetRowsStay DEF AInv, InputsTyped, inputVars
<1>2. InputsTyped'
  BY DEF AInv, InputsTyped, inputVars
<1>3. RowsHaveOrigins'
  <2>1. ASSUME NEW r \in rows'
        PROVE  \/ \E t \in seen : r \in TableRows(t)'
               \/ /\ step' = "diffed"
                  /\ \/ \E p \in listed : Recordable(p) /\ r = AbstractRow(p)
                     \/ \E p \in listed : r \in TargetRows(p)'
    <3>1. CASE r \in rows /\ (step = "diffed" => step' = "diffed")
      <4>1. \/ \E t \in seen : r \in TableRows(t)
            \/ /\ step' = "diffed"
               /\ \/ \E p \in listed : Recordable(p) /\ r = AbstractRow(p)
                  \/ \E p \in listed : r \in TargetRows(p)
        BY <3>1 DEF AInv, RowsHaveOrigins, FromTable, ForReview, FromPolicy
      <4>2. QED
        BY <1>1, <4>1
    <3>2. CASE step' = "diffed" /\ (ForReview(r) \/ FromPolicy(r))
      BY <1>1, <3>2 DEF ForReview, FromPolicy
    <3>3. QED
      BY <3>1, <3>2
  <2>2. QED
    BY <1>1, <2>1 DEF RowsHaveOrigins, FromTable, ForReview, FromPolicy, AbstractRow, Recordable
<1>4. TablesAreListed'
  <2>1. ASSUME NEW t \in seen, NEW x \in TableRows(t)
        PROVE  \E r \in rows' : SameRow(r, x)
    BY DEF AInv, TablesAreListed, Listed
  <2>2. QED
    BY <1>1, <2>1 DEF TablesAreListed, Listed
<1>5. PoliciesAreListed'
  BY <1>1 DEF PoliciesAreListed, Listed, AbstractRow, Recordable
<1>6. QED
  BY <1>1, <1>2, <1>3, <1>4, <1>5 DEF AInv

\* The policies are recorded, as they are or where they apply.
LEMMA PolicyStepsInv ==
  ASSUME AInv, Materialize \/ TagsUnavailable
  PROVE  AInv'
<1>1. /\ UNCHANGED <<inputVars, listed, seen, installed>>
      /\ step = "policies" /\ step' = "diffed"
      /\ listed \subseteq policies /\ policies \subseteq PolicyInputs
  BY DEF Materialize, TagsUnavailable, AInv, InputsTyped
<1>2. installed = {}
  BY <1>1 DEF AInv, InstalledFromRows
<1>3. InstalledFromRows'
  BY <1>1, <1>2 DEF InstalledFromRows
<1>4. CASE Materialize
  <2> DEFINE spread == UNION {TargetRows(p) : p \in listed}
             review == AbstractRows(Unresolved)
             mid == Recorded(rows, spread)
  <2>1. rows' = Recorded(mid, review)
    BY <1>4 DEF Materialize
  <2>2. /\ rows \subseteq mid /\ mid \subseteq rows \cup spread
        /\ \A x \in spread : \E r \in mid : SameRow(r, x)
    BY RecordedLists
  <2>3. /\ mid \subseteq rows' /\ rows' \subseteq mid \cup review
        /\ \A x \in review : \E r \in rows' : SameRow(r, x)
    BY <2>1, RecordedLists
  <2> HIDE DEF mid
  <2>4. ASSUME NEW p \in listed, Recordable(p)
        PROVE  \/ TargetRows(p) = {} /\ \E r \in rows' : SameRow(r, AbstractRow(p))
               \/ TargetRows(p) # {} /\ \A x \in TargetRows(p) : \E r \in rows' : SameRow(r, x)
    <3>1. CASE TargetRows(p) # {}
      BY <2>2, <2>3, <3>1
    <3>2. CASE TargetRows(p) = {}
      <4>1. AbstractRow(p) \in review
        BY <2>4, <3>2 DEF Unresolved, AbstractRows
      <4>2. QED
        BY <2>3, <3>2, <4>1
    <3>3. QED
      BY <3>1, <3>2
  <2>5. ASSUME NEW r \in rows' PROVE r \in rows \/ ForReview(r) \/ FromPolicy(r)
    <3>1. r \in rows \/ r \in spread \/ r \in review
      BY <2>2, <2>3
    <3>2. QED
      BY <3>1 DEF ForReview, FromPolicy, Unresolved, AbstractRows
  <2>6. rows \subseteq rows'
    BY <2>2, <2>3
  <2>7. QED
    BY <1>1, <1>3, <2>4, <2>5, <2>6, LaterInv
<1>5. CASE TagsUnavailable
  <2> DEFINE review == AbstractRows(listed)
  <2>1. rows' = Recorded(rows, review)
    BY <1>5 DEF TagsUnavailable
  <2>2. /\ rows \subseteq rows' /\ rows' \subseteq rows \cup review
    BY <2>1, RecordedLists
  <2>3. ASSUME NEW p \in listed, Recordable(p) PROVE AbstractRow(p) \in rows'
    <3>1. p \in PolicyInputs /\ AbstractRow(p) \in review
      BY <1>1, <2>3 DEF AbstractRows
    <3>2. ASSUME NEW e \in rows PROVE ~SameRow(e, AbstractRow(p))
      <4>1. PICK t \in Tables : e \in TableRows(t)
        BY <1>1 DEF AInv, RowsHaveOrigins, FromTable
      <4>2. QED
        BY <3>1, <4>1, TablesAreNotPolicies
    <3>3. QED
      BY <2>1, <3>1, <3>2 DEF Recorded
  <2>4. \A r \in rows' : r \in rows \/ ForReview(r)
    BY <2>2 DEF ForReview, AbstractRows
  <2>5. QED
    BY <1>1, <1>3, <2>2, <2>3, <2>4, LaterInv
<1>6. QED
  BY <1>4, <1>5

\* One step per action of the diff and the apply.
LEMMA AbacStepInv == AInv /\ [AbacNext]_abacVars => AInv'
<1> SUFFICES ASSUME AInv, [AbacNext]_abacVars PROVE AInv'
  OBVIOUS
<1>1. ASSUME NEW t \in Tables, ReadTable(t) PROVE AInv'
  BY <1>1, ReadTableInv
<1>2. CASE Materialize \/ TagsUnavailable
  BY <1>2, PolicyStepsInv
<1>3. CASE TablesRead
  <2>1. /\ UNCHANGED <<inputVars, seen, rows, installed>>
        /\ step = "tables" /\ step' = "policies" /\ listed' \subseteq policies
    BY <1>3 DEF TablesRead
  <2>2. installed = {}
    BY <2>1 DEF AInv, InstalledFromRows
  <2>3. InstalledFromRows'
    BY <2>1, <2>2 DEF InstalledFromRows
  <2>4. QED
    BY <2>1, <2>3, LaterInv
<1>4. ASSUME UNCHANGED <<inputVars, listed, seen, rows, step>>, InstalledFromRows'
      PROVE  AInv'
  <2>1. step' = "diffed" =>
          \A p \in listed : Recordable(p) =>
            \/ AbstractRow(p) \in rows'
            \/ TargetRows(p) = {} /\ \E r \in rows' : SameRow(r, AbstractRow(p))
            \/ TargetRows(p) # {} /\ \A x \in TargetRows(p) : \E r \in rows' : SameRow(r, x)
    BY <1>4 DEF AInv, PoliciesAreListed, Listed
  <2>2. QED
    BY <1>4, <2>1, LaterInv DEF AInv, InputsTyped
<1>5. ASSUME NEW r \in rows, ApplyConstraint(r) PROVE AInv'
  <2>1. /\ UNCHANGED <<inputVars, listed, seen, rows, step>>
        /\ step = "diffed" /\ r.source # "abac" /\ IsTranslated(r.key)
        /\ installed' = installed \cup {[table |-> r.scope, kind |-> r.kind, key |-> r.key]}
    BY <1>5 DEF ApplyConstraint
  <2>2. InstalledFromRows'
    BY <2>1 DEF AInv, InstalledFromRows
  <2>3. QED
    BY <1>4, <2>1, <2>2
<1>6. CASE UNCHANGED abacVars
  <2>1. UNCHANGED <<inputVars, listed, seen, rows, step, installed>>
    BY <1>6 DEF abacVars
  <2>2. InstalledFromRows'
    BY <2>1 DEF AInv, InstalledFromRows
  <2>3. QED
    BY <1>4, <2>1, <2>2
<1>7. QED
  BY <1>1, <1>2, <1>3, <1>5, <1>6 DEF AbacNext

\* The tables of the diff, the review of policies and the roles, in every reachable state.
THEOREM AbacInvariance == AbacSpec => []AInv
BY AbacInitInv, AbacStepInv, PTL DEF AbacSpec

-----------------------------------------------------------------------------
(* What follows from it *)

\* _record_abac_policies, of the policies that were listed, filter or mask, and are
\* attached to the catalog, a schema or a table: one that has no target, cannot be parsed
\* or was not resolved is in the diff for review; of the others each target is there.
THEOREM PoliciesAreNotLost == AbacSpec => []PoliciesStayVisible
<1>1. AInv => PoliciesStayVisible
  <2> SUFFICES ASSUME AInv, step = "diffed", NEW p \in listed, Recordable(p)
               PROVE  \/ \E r \in rows : SameRow(r, AbstractRow(p))
                      \/ /\ TargetRows(p) # {}
                         /\ \A x \in TargetRows(p) : \E r \in rows : SameRow(r, x)
    BY DEF PoliciesStayVisible
  <2>1. SameRow(AbstractRow(p), AbstractRow(p))
    BY DEF SameRow
  <2>2. QED
    BY <2>1 DEF AInv, PoliciesAreListed, Listed
<1>2. QED
  BY <1>1, AbacInvariance, PTL

\* _remove_databricks_current_user_wrapper: a filter that the hub made is read back, by
\* any diff, with the predicate that Fabric has, if its function can be fetched and no
\* member has a closing bracket; otherwise the diff has it without a translation.
THEOREM HubFiltersAreRecognised == AbacSpec => []HubFiltersComeHome
<1>1. AInv => HubFiltersComeHome
  <2> SUFFICES ASSUME AInv, NEW t \in seen, NEW f \in filters[t], MadeByHub(f)
               PROVE  \E r \in rows :
                        /\ r.kind = "row_filter" /\ r.scope = t
                        /\ IF f.fun \in unread \/ ~Unwrappable(f.fun)
                           THEN r.key.by = t
                           ELSE IsTranslated(r.key) /\ r.key.pred = f.fun.test
    BY DEF HubFiltersComeHome
  <2>1. f.fun \in SqlFunction
    BY AbacInputsAssumption DEF AInv, InputsTyped
  <2>2. f.fun.test \in SUBSET Comparison /\ Len(f.fun.params) \in Nat
    <3>1. f.fun.params \in Seq(Names) /\ f.fun.test \in SUBSET Comparison
      BY <2>1 DEF SqlFunction
    <3>2. QED
      BY <3>1
  <2>3. PICK r \in rows : SameRow(r, FilterRow("databricks", t, f.fun, f.cols, t))
    <3>1. FilterRow("databricks", t, f.fun, f.cols, t) \in TableRows(t)
      BY DEF TableRows
    <3>2. QED
      BY <3>1 DEF AInv, TablesAreListed, Listed
  <2>4. r.kind = "row_filter" /\ r.scope = t /\ r.key = FilterKey(f.fun, f.cols, t)
    BY <2>3 DEF SameRow, FilterRow
  <2>5. CASE f.fun \in unread \/ ~Unwrappable(f.fun)
    <3>1. ~Translatable(f.fun)
      BY <2>5 DEF Translatable
    <3>2. r.key.by = t
      BY <2>4, <3>1 DEF FilterKey
    <3>3. QED
      BY <2>4, <2>5, <3>2
  <2>6. CASE f.fun \notin unread /\ Unwrappable(f.fun)
    <3>1. Translatable(f.fun) /\ f.cols = f.fun.params
      BY <2>6 DEF MadeByHub, Translatable
    <3>2. IsTranslated(r.key) /\ r.key.pred = f.fun.test
      BY <2>2, <2>4, <3>1, OwnNamesStay DEF FilterKey, IsTranslated
    <3>3. QED
      BY <2>4, <2>6, <3>2
  <2>7. QED
    BY <2>5, <2>6
<1>2. QED
  BY <1>1, AbacInvariance, PTL

\* A row that is translated to a filter comes from a function of the table.
LEMMA FiltersHaveFunctions ==
  ASSUME AInv, NEW r \in rows, r.kind = "row_filter", r.source # "abac", IsTranslated(r.key)
  PROVE  \E f \in FiltersOf(r.scope) :
           /\ f.fun \in SqlFunction /\ Translatable(f.fun)
           /\ r.key.pred = MapParams(f.fun.test, f.fun.params, f.cols)
<1>1. ASSUME NEW t \in Tables, NEW source, NEW fun, NEW cols, NEW by, by # NoOne,
             r = FilterRow(source, t, fun, cols, by)
      PROVE  /\ Translatable(fun) /\ r.scope = t
             /\ r.key.pred = MapParams(fun.test, fun.params, cols)
  BY <1>1 DEF FilterRow, FilterKey, IsTranslated
<1>2. CASE FromTable(r)
  <2>1. PICK t \in Tables : r \in TableRows(t)
    BY <1>2 DEF FromTable, AInv
  <2>2. PICK f \in filters[t] : r = FilterRow("databricks", t, f.fun, f.cols, t)
    BY <2>1 DEF TableRows, MaskRow
  <2>3. f.fun \in SqlFunction /\ t # NoOne
    BY AbacInputsAssumption DEF AInv, InputsTyped
  <2>4. Translatable(f.fun) /\ r.scope = t /\ r.key.pred = MapParams(f.fun.test, f.fun.params, f.cols)
    BY <1>1, <2>2, <2>3
  <2>5. f \in FiltersOf(r.scope)
    BY <2>4 DEF FiltersOf
  <2>6. QED
    BY <2>3, <2>4, <2>5
<1>3. CASE FromPolicy(r)
  <2>1. PICK p \in listed : r \in TargetRows(p)
    BY <1>3 DEF FromPolicy
  <2>2. /\ p \in policies /\ p \in PolicyInputs /\ p.id # NoOne /\ p.fun \in SqlFunction
        /\ p.kind \in {"row_filter", "column_mask"}
    BY <2>1, AbacInputsAssumption DEF AInv, InputsTyped, TargetRows
  <2>3. /\ ~HasParseError(p) /\ p.kind # "column_mask"
        /\ \E t \in Tables : Applies(p, t) /\ r = FilterRow("resolved", t, p.fun, UsingColumns(p, t), p.id)
    BY <2>1 DEF TargetRows, MaskRow
  <2>4. PICK t \in Tables :
          Applies(p, t) /\ r = FilterRow("resolved", t, p.fun, UsingColumns(p, t), p.id)
    BY <2>3
  <2> DEFINE f == [fun |-> p.fun, cols |-> UsingColumns(p, t)]
  <2>5. /\ Translatable(p.fun) /\ r.scope = t
        /\ r.key.pred = MapParams(p.fun.test, p.fun.params, UsingColumns(p, t))
    BY <1>1, <2>2, <2>4
  <2>6. f \in FiltersOf(r.scope)
    BY <2>2, <2>3, <2>4, <2>5 DEF FiltersOf
  <2>7. QED
    BY <2>2, <2>5, <2>6
<1>4. ~ForReview(r)
  BY DEF ForReview, AbstractRow
<1>5. QED
  BY <1>2, <1>3, <1>4 DEF AInv, RowsHaveOrigins

\* fine_grained_policy.py: in production, a translated filter shows nobody in Fabric a row
\* that its function hides in Databricks, if the function maps cleanly: a column for each
\* parameter, no parameter captured by one, no literal worded like one - for functions of
\* any number of parameters and any comparisons of them.
THEOREM FiltersDoNotBroaden == AbacSpec => []TranslationNeverBroadens
<1>1. AInv => TranslationNeverBroadens
  <2> SUFFICES ASSUME AInv, production, NEW d \in installed, d.kind = "row_filter"
               PROVE  \E f \in FiltersOf(d.table) :
                        MapsCleanly(f.fun, f.cols) => NoBroader(d.key.pred, f.fun, f.cols)
    BY DEF TranslationNeverBroadens
  <2>1. PICK r \in rows :
          /\ r.source # "abac" /\ IsTranslated(r.key)
          /\ d = [table |-> r.scope, kind |-> r.kind, key |-> r.key]
    BY DEF AInv, InstalledFromRows
  <2>2. PICK f \in FiltersOf(d.table) :
          /\ f.fun \in SqlFunction /\ Translatable(f.fun)
          /\ d.key.pred = MapParams(f.fun.test, f.fun.params, f.cols)
    BY <2>1, FiltersHaveFunctions
  <2>3. SUFFICES ASSUME MapsCleanly(f.fun, f.cols),
                        NEW u \in Readers, NEW x \in [ColumnSet -> Texts],
                        SeesInFabric(x, d.key.pred)
                 PROVE  SeesInDatabricks(u, x, f.fun, f.cols)
    BY <2>2 DEF NoBroader
  <2>4. ASSUME NEW c \in f.fun.test, NEW i \in DOMAIN f.fun.params, f.fun.params[i] = c[1]
        PROVE  x[f.cols[i]] = c[2]
    <3>1. <<f.cols[i], c[2]>> \in d.key.pred
      BY <2>2, <2>3, <2>4, ComparisonsAreMapped
    <3>2. QED
      BY <2>3, <3>1 DEF SeesInFabric
  <2>5. ~f.fun.grouped
    BY <2>2 DEF Translatable
  <2>6. QED
    BY <2>4, <2>5 DEF SeesInDatabricks
<1>2. QED
  BY <1>1, AbacInvariance, PTL

-----------------------------------------------------------------------------
(* What a policy reaches *)

\* With one spelling of each tag name the merge in effective_table_tags is
\* inheritance: the tag that is nearest to the table counts.
LEMMA NearestTagCounts ==
  ASSUME AInv, SpelledAlike, NEW t \in Tables
  PROVE  TableTags(t) = [k \in Keys |-> NearestTag(t, k)]
<1> SUFFICES ASSUME NEW k \in Keys, Levels(t, k) # {}
             PROVE  TableTags(t)[k] = NearestTag(t, k)
  BY DEF TableTags, NearestTag
<1>1. \A i \in Levels(t, k) : Chain(t)[i][k].caps \in BOOLEAN
  <2>1. ASSUME NEW i \in 1..3 PROVE Chain(t)[i] \in TagInputs
    <3>1. SchemaOf[t] \in Schemas
      BY AbacAssumption
    <3>2. i = 1 \/ i = 2 \/ i = 3
      OBVIOUS
    <3>3. QED
      BY <3>1, <3>2 DEF Chain, AInv, InputsTyped
  <2>2. QED
    BY <2>1, AbacInputsAssumption DEF Levels
<1>2. \A caps \in BOOLEAN : Spelled(t, k, caps) = {} \/ Spelled(t, k, ~caps) = {}
  BY DEF SpelledAlike
<1>3. /\ Levels(t, k) = Spelled(t, k, TRUE) \cup Spelled(t, k, FALSE)
      /\ Spelled(t, k, ~TRUE) = Spelled(t, k, FALSE)
      /\ Spelled(t, k, ~FALSE) = Spelled(t, k, TRUE)
  BY <1>1 DEF Spelled
<1> DEFINE last == CHOOSE caps \in BOOLEAN :
                     /\ Spelled(t, k, caps) # {}
                     /\ \/ Spelled(t, k, ~caps) = {}
                        \/ Least(Spelled(t, k, caps)) > Least(Spelled(t, k, ~caps))
<1>4. \E caps \in BOOLEAN :
        /\ Spelled(t, k, caps) # {}
        /\ \/ Spelled(t, k, ~caps) = {}
           \/ Least(Spelled(t, k, caps)) > Least(Spelled(t, k, ~caps))
  BY <1>2, <1>3
<1>5. last \in BOOLEAN /\ Spelled(t, k, last) # {}
  BY <1>4
<1>6. TableTags(t)[k] = Chain(t)[Most(Spelled(t, k, last))][k].value
  BY DEF TableTags
<1> HIDE DEF last
<1>7. Spelled(t, k, last) = Levels(t, k)
  BY <1>2, <1>3, <1>5
<1>8. QED
  BY <1>6, <1>7 DEF NearestTag

\* In a well-formed policy each alias has one condition, which is what is matched.
LEMMA MatchesOfAlias ==
  ASSUME NEW p \in PolicyInputs, WellFormed(p), NEW i \in DOMAIN p.match, NEW t \in Tables
  PROVE  /\ Bound(p, p.match[i].alias) = {i}
         /\ AliasMatches(p, t, p.match[i].alias)
              = {n \in DOMAIN Columns :
                   t \in seen /\ Holds(p.match[i].condition, ColumnTags(t, Columns[n]))}
<1>1. i \in Nat
  <2>1. p.match \in Seq({p.match[n] : n \in DOMAIN p.match})
    BY AbacInputsAssumption
  <2>2. DOMAIN p.match = 1..Len(p.match)
    BY <2>1
  <2>3. QED
    BY <2>2
<1>2. Bound(p, p.match[i].alias) = {i}
  BY DEF Bound, WellFormed
<1>3. QED
  BY <1>1, <1>2, MostOfOne DEF AliasMatches

\* For a table that was read: a policy is applied to a column exactly when Databricks
\* masks it.
LEMMA MasksAreTargets ==
  ASSUME AInv, SpelledAlike, NEW p \in policies, WellFormed(p), p.kind = "column_mask",
         ~HasParseError(p), NEW t \in Tables, NEW c \in ColumnSet
  PROVE  Applies(p, t) /\ c \in MaskedColumns(p, t) <=> t \in seen /\ Masks(p, t, c)
<1>1. p \in PolicyInputs
  BY DEF AInv, InputsTyped
<1>2. PICK o \in DOMAIN p.match : p.match[o].alias = p.on_column
  BY DEF WellFormed, Bound
<1>3. /\ MaskedAlias(p) = p.match[o].alias /\ p.match # <<>>
      /\ Bound(p, p.on_column) = {o}
  <2>1. Bound(p, p.on_column) = {o}
    BY <1>1, <1>2, MatchesOfAlias
  <2>2. QED
    BY <1>2, <2>1 DEF MaskedAlias
<1>4. c \in MaskedColumns(p, t) <=>
        t \in seen /\ Holds(p.match[o].condition, ColumnTags(t, c))
  BY <1>1, <1>2, <1>3, MatchesOfAlias DEF MaskedColumns, ColumnSet
<1>5. ASSUME NEW i \in DOMAIN p.match, t \in seen
      PROVE  AliasMatches(p, t, p.match[i].alias) # {}
               <=> \E d \in ColumnSet : Holds(p.match[i].condition, ColumnTags(t, d))
  BY <1>1, <1>5, MatchesOfAlias DEF ColumnSet
<1>6. Holds(p.when, TableTags(t)) <=> Holds(p.when, [k \in Keys |-> NearestTag(t, k)])
  BY NearestTagCounts
<1>7. t \in CandidateTables(p) <=> p.on \in {Catalog, SchemaOf[t], t}
  BY DEF CandidateTables, WellFormed
<1>8. (\E i \in Bound(p, p.on_column) : Holds(p.match[i].condition, ColumnTags(t, c)))
        <=> Holds(p.match[o].condition, ColumnTags(t, c))
  BY <1>3
<1>9. t \in seen =>
        (Applies(p, t)
          <=> /\ p.on \in {Catalog, SchemaOf[t], t}
              /\ Holds(p.when, [k \in Keys |-> NearestTag(t, k)])
              /\ \A i \in DOMAIN p.match : \E d \in ColumnSet :
                   Holds(p.match[i].condition, ColumnTags(t, d)))
  BY <1>5, <1>6, <1>7 DEF Applies
<1>10. QED
  BY <1>4, <1>8, <1>9 DEF Masks

\* resolve_policy: with well-formed policies and one spelling of each tag name, the masks
\* of the diff that come from policies are those that Databricks would put on the tables.
THEOREM PoliciesReachTheirColumns == AbacSpec => []MaterializedAsWritten
<1>1. AInv => MaterializedAsWritten
  <2> SUFFICES ASSUME AInv, step = "diffed", SpelledAlike, \A p \in policies : WellFormed(p)
               PROVE  /\ \A r \in rows : r.source = "resolved" /\ r.key.column # NoColumn =>
                           \E p \in policies : Masks(p, r.scope, r.key.column)
                      /\ \A p \in listed, t \in seen, c \in ColumnSet :
                           Masks(p, t, c) /\ AbstractRow(p) \notin rows =>
                             \E r \in rows : SameRow(r, MaskRow("resolved", t, c, p.id))
    BY DEF MaterializedAsWritten
  <2>1. ASSUME NEW r \in rows, r.source = "resolved", r.key.column # NoColumn
        PROVE  \E p \in policies : Masks(p, r.scope, r.key.column)
    <3>1. ~FromTable(r) /\ ~ForReview(r)
      BY <2>1 DEF FromTable, ForReview, TableRows, FilterRow, MaskRow, AbstractRow
    <3>2. PICK p \in listed : r \in TargetRows(p)
      BY <3>1 DEF AInv, RowsHaveOrigins, FromPolicy
    <3>2a. p \in policies
      BY DEF AInv, InputsTyped
    <3>3. ASSUME NEW t, NEW f, NEW cols, NEW by PROVE r # FilterRow("resolved", t, f, cols, by)
      BY <2>1 DEF FilterRow, FilterKey
    <3>4. ~HasParseError(p) /\ p.kind = "column_mask"
      BY <3>2, <3>3 DEF TargetRows
    <3>5a. PICK t \in Tables : /\ Applies(p, t)
                              /\ r \in {MaskRow("resolved", t, c, p.id) : c \in MaskedColumns(p, t)}
      BY <3>2, <3>4 DEF TargetRows
    <3>5. PICK c \in MaskedColumns(p, t) : r = MaskRow("resolved", t, c, p.id)
      BY <3>5a
    <3>6. r.scope = t /\ r.key.column = c
      BY <2>1, <3>5 DEF MaskRow, MaskKey
    <3>7. c \in ColumnSet
      BY <3>5 DEF MaskedColumns, AliasMatches, ColumnSet
    <3>8. QED
      BY <3>2a, <3>4, <3>5, <3>5a, <3>6, <3>7, MasksAreTargets
  <2>2. ASSUME NEW p \in listed, NEW t \in seen, NEW c \in ColumnSet,
               Masks(p, t, c), AbstractRow(p) \notin rows
        PROVE  \E r \in rows : SameRow(r, MaskRow("resolved", t, c, p.id))
    <3>1. /\ ~HasParseError(p) /\ p.kind = "column_mask" /\ t \in Tables
          /\ p \in policies /\ Recordable(p)
      BY <2>2 DEF Masks, AInv, InputsTyped, Recordable, WellFormed
    <3>2. Applies(p, t) /\ c \in MaskedColumns(p, t)
      BY <2>2, <3>1, MasksAreTargets
    <3>3. MaskRow("resolved", t, c, p.id) \in TargetRows(p)
      BY <3>1, <3>2 DEF TargetRows
    <3>4. QED
      BY <2>2, <3>1, <3>3 DEF AInv, PoliciesAreListed, Listed
  <2>3. QED
    BY <2>1, <2>2
<1>2. QED
  BY <1>1, AbacInvariance, PTL

-----------------------------------------------------------------------------
(* Types of the diff *)

StepsWithin(n, S, first, next) ==
  n \in Nat /\ first \in S /\ \A i \in 1..n, s \in S : next[<<i, s>>] \in S

StepwiseIn(n, S, first, next) ==
  \E f \in [0..n -> S] : f[0] = first /\ \A i \in 1..n : f[i] = next[<<i, f[i - 1]>>]

\* A function can be given value by value.
LEMMA StepByStep ==
  ASSUME NEW n, NEW S, NEW first, NEW next, StepsWithin(n, S, first, next)
  PROVE  StepwiseIn(n, S, first, next)
<1>0. n \in Nat /\ first \in S /\ \A i \in 1..n, s \in S : next[<<i, s>>] \in S
  BY DEF StepsWithin
<1> DEFINE Upto(m, f) == f[0] = first /\ \A i \in 1..m : f[i] = next[<<i, f[i - 1]>>]
           N == {m \in Nat : m <= n => \E f \in [0..m -> S] : Upto(m, f)}
<1>1. 0 \in N
  <2>1. [i \in 0..0 |-> first] \in [0..0 -> S] /\ Upto(0, [i \in 0..0 |-> first])
    BY <1>0
  <2>2. QED
    BY <2>1
<1>2. ASSUME NEW m \in N PROVE m + 1 \in N
  <2>1. SUFFICES ASSUME m + 1 <= n PROVE \E g \in [0..(m + 1) -> S] : Upto(m + 1, g)
    BY <1>2
  <2>2. m \in Nat /\ m <= n /\ m + 1 \in 1..n
    BY <1>0, <2>1
  <2>3. PICK f \in [0..m -> S] : Upto(m, f)
    BY <2>2
  <2> DEFINE g == [i \in 0..(m + 1) |-> IF i <= m THEN f[i] ELSE next[<<m + 1, f[m]>>]]
  <2>4. \A i \in 0..m : i \in 0..(m + 1) /\ i <= m /\ g[i] = f[i] /\ f[i] \in S
    BY <2>2
  <2>5. g[m + 1] = next[<<m + 1, f[m]>>] /\ m \in 0..m
    BY <2>2
  <2>6. f[m] \in S
    BY <2>4, <2>5
  <2>7. next[<<m + 1, f[m]>>] \in S
    BY <1>0, <2>2, <2>6
  <2>8. g \in [0..(m + 1) -> S]
    BY <2>2, <2>4, <2>7
  <2>9. g[0] = first
    BY <2>2, <2>3, <2>4
  <2>10. ASSUME NEW i \in 1..(m + 1) PROVE g[i] = next[<<i, g[i - 1]>>]
    <3>1. CASE i = m + 1
      <4>1. i - 1 = m
        BY <2>2, <3>1
      <4>2. QED
        BY <2>4, <2>5, <3>1, <4>1
    <3>2. CASE i # m + 1
      <4>1. i \in 1..m /\ i \in 0..m /\ i - 1 \in 0..m
        BY <2>2, <3>2
      <4>2. f[i] = next[<<i, f[i - 1]>>]
        BY <2>3, <4>1
      <4>3. QED
        BY <2>4, <4>1, <4>2
    <3>3. QED
      BY <3>1, <3>2
  <2>11. QED
    <3> HIDE DEF g
    <3>1. QED
      BY <2>8, <2>9, <2>10
<1>3. N = Nat
  <2> HIDE DEF N
  <2>1. N \in SUBSET Nat
    BY DEF N
  <2>2. QED
    BY <1>1, <1>2, <2>1, Induction
<1>4. n \in N
  BY <1>0, <1>3
<1>5. \E f \in [0..n -> S] : Upto(n, f)
  BY <1>0, <1>4
<1>6. QED
  BY <1>5 DEF StepwiseIn

\* The aliases of the using clause that are bound.
BoundAliases(p) == {alias \in {p.using[i] : i \in DOMAIN p.using} : Bound(p, alias) # {}}

\* _resolve_using_columns: an alias that is not bound is dropped.
LEMMA UsedAliasesAreBound ==
  ASSUME NEW p \in PolicyInputs
  PROVE  UsedAliases(p) \in Seq(BoundAliases(p))
<1> DEFINE n == Len(p.using)
           B == BoundAliases(p)
           Used(f) == f = [i \in 0..n |->
                             IF i = 0 THEN <<>>
                             ELSE IF Bound(p, p.using[i]) # {} THEN Append(f[i - 1], p.using[i])
                             ELSE f[i - 1]]
           next == [c \in (1..n) \X Seq(B) |->
                      IF Bound(p, p.using[c[1]]) # {} THEN Append(c[2], p.using[c[1]]) ELSE c[2]]
           used == CHOOSE f : Used(f)
<1>1. n \in Nat /\ DOMAIN p.using = 1..n
  <2>1. p.using \in Seq({p.using[i] : i \in DOMAIN p.using})
    BY AbacInputsAssumption
  <2>2. QED
    BY <2>1
<1>2. \A i \in 1..n : Bound(p, p.using[i]) # {} => p.using[i] \in B
  BY <1>1 DEF BoundAliases
<1> HIDE DEF n, B
<1>3. ASSUME NEW i \in 1..n, NEW s \in Seq(B) PROVE next[<<i, s>>] \in Seq(B)
  <2>1. next[<<i, s>>] = IF Bound(p, p.using[i]) # {} THEN Append(s, p.using[i]) ELSE s
    OBVIOUS
  <2> HIDE DEF next
  <2>2. CASE Bound(p, p.using[i]) # {}
    <3>1. p.using[i] \in B
      BY <1>2, <2>2
    <3>2. Append(s, p.using[i]) \in Seq(B)
      BY <3>1
    <3>3. QED
      BY <2>1, <2>2, <3>2
  <2>3. CASE Bound(p, p.using[i]) = {}
    BY <2>1, <2>3
  <2>4. QED
    BY <2>2, <2>3
<1>4. <<>> \in Seq(B)
  OBVIOUS
<1>5. PICK f \in [0..n -> Seq(B)] : f[0] = <<>> /\ \A i \in 1..n : f[i] = next[<<i, f[i - 1]>>]
  <2> HIDE DEF next
  <2>1. StepsWithin(n, Seq(B), <<>>, next)
    BY <1>1, <1>3, <1>4 DEF StepsWithin
  <2>2. QED
    BY <2>1, StepByStep DEF StepwiseIn
<1>6. Used(f)
  <2>1. ASSUME NEW i \in 0..n
        PROVE  f[i] = IF i = 0 THEN <<>>
                      ELSE IF Bound(p, p.using[i]) # {} THEN Append(f[i - 1], p.using[i])
                      ELSE f[i - 1]
    <3>1. CASE i = 0
      BY <1>5, <3>1
    <3>2. CASE i # 0
      <4>1. i \in 1..n /\ i - 1 \in 0..n
        BY <1>1, <3>2
      <4>2. <<i, f[i - 1]>> \in (1..n) \X Seq(B)
        BY <4>1
      <4>3. next[<<i, f[i - 1]>>] = IF Bound(p, p.using[i]) # {}
                                THEN Append(f[i - 1], p.using[i]) ELSE f[i - 1]
        BY <4>2
      <4>4. f[i] = next[<<i, f[i - 1]>>]
        BY <1>5, <4>1
      <4>5. QED
        BY <3>2, <4>3, <4>4
    <3>3. QED
      BY <3>1, <3>2
  <2>2. QED
    BY <2>1
<1>7. Used(used)
  BY <1>6
<1>8. UsedAliases(p) = used[n]
  BY DEF UsedAliases, n
<1> HIDE DEF used
<1> DEFINE N == {m \in Nat : m <= n => used[m] \in Seq(B)}
<1>9. 0 \in N
  <2>1. 0 \in 0..n
    BY <1>1
  <2>2. used[0] = <<>>
    BY <1>7, <2>1
  <2>3. QED
    BY <1>4, <2>2
<1>10. ASSUME NEW m \in N PROVE m + 1 \in N
  <2>1. SUFFICES ASSUME m + 1 <= n PROVE used[m + 1] \in Seq(B)
    BY <1>10
  <2>2. m \in Nat /\ m <= n /\ m + 1 \in 1..n /\ m + 1 \in 0..n /\ m + 1 # 0 /\ (m + 1) - 1 = m
    BY <1>1, <2>1
  <2>3. used[m] \in Seq(B)
    BY <2>2
  <2>4. used[m + 1] = IF Bound(p, p.using[m + 1]) # {} THEN Append(used[m], p.using[m + 1])
                      ELSE used[m]
    BY <1>7, <2>2
  <2>5. CASE Bound(p, p.using[m + 1]) # {}
    <3>1. p.using[m + 1] \in B
      BY <1>2, <2>2, <2>5
    <3>2. Append(used[m], p.using[m + 1]) \in Seq(B)
      BY <2>3, <3>1
    <3>3. QED
      BY <2>4, <2>5, <3>2
  <2>6. QED
    BY <2>3, <2>4, <2>5
<1>11. N = Nat
  <2> HIDE DEF N
  <2>1. N \in SUBSET Nat
    BY DEF N
  <2>2. QED
    BY <1>9, <1>10, <2>1, Induction
<1>12. used[n] \in Seq(B)
  BY <1>1, <1>11
<1>13. QED
  BY <1>8, <1>12 DEF B

\* The columns that a filter of a policy is put on are columns of the table.
LEMMA UsingColumnsTyped ==
  ASSUME NEW p \in PolicyInputs, NEW t \in Tables, Applies(p, t)
  PROVE  UsingColumns(p, t) \in Seq(ColumnSet)
<1> DEFINE aliases == UsedAliases(p)
           n == Len(aliases)
<1>1. aliases \in Seq(BoundAliases(p))
  BY UsedAliasesAreBound
<1> HIDE DEF aliases
<1>2. n \in Nat /\ DOMAIN aliases = 1..n /\ \A i \in 1..n : aliases[i] \in BoundAliases(p)
  BY <1>1
<1>3. ASSUME NEW alias \in BoundAliases(p)
      PROVE  Columns[Least(AliasMatches(p, t, alias))] \in ColumnSet
  <2>1. PICK i \in DOMAIN p.match : p.match[i].alias = alias
    BY DEF BoundAliases, Bound
  <2>2. AliasMatches(p, t, alias) # {}
    BY <2>1 DEF Applies
  <2>3. AliasMatches(p, t, alias) \subseteq DOMAIN Columns /\ DOMAIN Columns \subseteq Nat
    BY AbacInputsAssumption DEF AliasMatches
  <2>4. \E k \in AliasMatches(p, t, alias) : \A l \in AliasMatches(p, t, alias) : k <= l
    BY <2>2, <2>3, SmallestExists
  <2>5. Least(AliasMatches(p, t, alias)) \in AliasMatches(p, t, alias)
    BY <2>4 DEF Least
  <2>6. QED
    BY <2>3, <2>5 DEF ColumnSet
<1>4. UsingColumns(p, t) = [i \in 1..n |-> Columns[Least(AliasMatches(p, t, aliases[i]))]]
  BY <1>2 DEF UsingColumns, aliases
<1>5. UsingColumns(p, t) \in [1..n -> ColumnSet]
  BY <1>2, <1>3, <1>4
<1>6. QED
  BY <1>2, <1>5

\* _map_function_params: what is replaced by columns is a test of columns, what is not
\* is a test of what it was.
LEMMA MapParamsTyped ==
  ASSUME NEW f \in SqlFunction, NEW cols \in Seq(ColumnSet)
  PROVE  MapParams(f.test, f.params, cols) \in SUBSET Comparison
<1> DEFINE n == Len(f.params)
<1>1. n \in Nat /\ f.test \in SUBSET Comparison
  BY DEF SqlFunction
<1> HIDE DEF n
<1>2. CASE Len(cols) # n
  BY <1>1, <1>2 DEF MapParams, n
<1>3. CASE Len(cols) = n
  <2>1. PICK r : /\ IsRenaming(r, n, f.test, f.params, cols)
                 /\ MapParams(f.test, f.params, cols) = r[n]
    BY <1>1, <1>3, MapParamsRenames DEF n
  <2>2. ASSUME NEW T \in SUBSET Comparison, NEW old, NEW c \in ColumnSet
        PROVE  Replaced(T, old, c) \in SUBSET Comparison
    <3>1. ASSUME NEW x \in T
          PROVE  <<IF x[1] = old THEN c ELSE x[1], IF x[2] = old THEN c ELSE x[2]>> \in Comparison
      <4>1. x[1] \in Names /\ x[2] \in Texts
        BY DEF Comparison
      <4>2. c \in Names /\ c \in Texts
        BY DEF Names, Texts
      <4>3. QED
        BY <4>1, <4>2 DEF Comparison
    <3>2. QED
      BY <3>1 DEF Replaced
  <2> DEFINE N == {m \in Nat : m <= n => r[m] \in SUBSET Comparison}
  <2>3. 0 \in N
    <3>1. 0 \in 0..n
      BY <1>1
    <3>2. r[0] = f.test
      BY <2>1, <3>1 DEF IsRenaming
    <3>3. QED
      BY <1>1, <3>2
  <2>4. ASSUME NEW m \in N PROVE m + 1 \in N
    <3>1. SUFFICES ASSUME m + 1 <= n PROVE r[m + 1] \in SUBSET Comparison
      BY <2>4
    <3>2. /\ m <= n /\ m + 1 \in 0..n /\ m + 1 # 0 /\ (m + 1) - 1 = m
          /\ m + 1 \in 1..Len(cols)
      BY <1>1, <1>3, <3>1
    <3>3. r[m + 1] = Replaced(r[m], f.params[m + 1], cols[m + 1])
      BY <2>1, <3>2 DEF IsRenaming
    <3>4. r[m] \in SUBSET Comparison /\ cols[m + 1] \in ColumnSet
      BY <3>2
    <3>5. QED
      BY <2>2, <3>3, <3>4
  <2>5. N = Nat
    <3> HIDE DEF N
    <3>1. N \in SUBSET Nat
      BY DEF N
    <3>2. QED
      BY <2>3, <2>4, <3>1, Induction
  <2>6. r[n] \in SUBSET Comparison
    BY <1>1, <2>5
  <2>7. QED
    BY <2>1, <2>6
<1>4. QED
  BY <1>2, <1>3

Bys == {p.id : p \in PolicyInputs} \cup Tables \cup {NoOne}

LEMMA RowsTyped ==
  ASSUME NEW source \in {"databricks", "resolved"}, NEW t \in Tables, NEW by \in Bys
  PROVE  /\ \A f \in SqlFunction, cols \in Seq(ColumnSet) :
               FilterRow(source, t, f, cols, by) \in DiffRows
         /\ \A c \in ColumnSet : MaskRow(source, t, c, by) \in DiffRows
<1>1. ASSUME NEW f \in SqlFunction, NEW cols \in Seq(ColumnSet)
      PROVE  FilterRow(source, t, f, cols, by) \in DiffRows
  <2>1. MapParams(f.test, f.params, cols) \in SUBSET Comparison
    BY MapParamsTyped
  <2>2. FilterKey(f, cols, by) \in Key
    BY <2>1 DEF FilterKey, Key, Bys
  <2>3. QED
    BY <2>2 DEF FilterRow, DiffRows
<1>2. ASSUME NEW c \in ColumnSet PROVE MaskRow(source, t, c, by) \in DiffRows
  <2>1. MaskKey(c, by) \in Key
    BY DEF MaskKey, Key, Bys
  <2>2. QED
    BY <2>1 DEF MaskRow, DiffRows
<1>3. QED
  BY <1>1, <1>2

\* What the type invariant says beyond AInv, of the inputs alone.
TypedInputs ==
  /\ production \in BOOLEAN /\ unread \subseteq SqlFunctions
  /\ \A t \in Tables : masks[t] \subseteq ColumnSet

\* Rows that come from a catalog with types have one.
LEMMA OriginsTyped ==
  ASSUME AInv, TypedInputs
  PROVE  AbacTypeOK
<1>1. ASSUME NEW t \in seen, NEW r \in TableRows(t) PROVE r \in DiffRows
  <2>1. t \in Tables /\ t \in Bys
    BY DEF AInv, Bys
  <2>2. CASE \E f \in filters[t] : r = FilterRow("databricks", t, f.fun, f.cols, t)
    <3>1. PICK f \in FilterInputs : r = FilterRow("databricks", t, f.fun, f.cols, t)
      BY <2>1, <2>2 DEF AInv, InputsTyped
    <3>2. f.fun \in SqlFunction /\ f.cols \in Seq(ColumnSet)
      BY AbacInputsAssumption
    <3>3. QED
      BY <2>1, <3>1, <3>2, RowsTyped
  <2>3. CASE \E c \in masks[t] : r = MaskRow("databricks", t, c, t)
    <3>1. PICK c \in ColumnSet : r = MaskRow("databricks", t, c, t)
      BY <2>1, <2>3 DEF TypedInputs
    <3>2. QED
      BY <2>1, <3>1, RowsTyped
  <2>4. QED
    BY <2>2, <2>3 DEF TableRows
<1>2. ASSUME NEW p \in listed, Recordable(p) PROVE AbstractRow(p) \in DiffRows
  <2>1. p \in PolicyInputs
    BY DEF AInv, InputsTyped
  <2>2. /\ p.kind \in {"row_filter", "column_mask"}
        /\ p.on \in Tables \cup Schemas \cup {Catalog}
    BY <1>2, <2>1, AbacInputsAssumption DEF Recordable
  <2>3. AbstractRow(p).key \in Key
    BY <2>1 DEF AbstractRow, Key
  <2>4. QED
    BY <2>2, <2>3 DEF AbstractRow, DiffRows
<1>3. ASSUME NEW p \in listed, NEW r \in TargetRows(p) PROVE r \in DiffRows
  <2>1. p \in PolicyInputs /\ p.id \in Bys /\ p.fun \in SqlFunction
    BY AbacInputsAssumption DEF AInv, InputsTyped, Bys
  <2>2. CASE p.kind = "column_mask"
    <3>1. PICK t \in Tables : /\ Applies(p, t)
                              /\ r \in {MaskRow("resolved", t, c, p.id) : c \in MaskedColumns(p, t)}
      BY <2>2 DEF TargetRows
    <3>2. PICK c \in MaskedColumns(p, t) : r = MaskRow("resolved", t, c, p.id)
      BY <3>1
    <3>3. c \in ColumnSet
      BY <3>2 DEF MaskedColumns, AliasMatches, ColumnSet
    <3>4. QED
      BY <2>1, <3>2, <3>3, RowsTyped
  <2>3. CASE p.kind # "column_mask"
    <3>1. PICK t \in Tables : /\ Applies(p, t)
                              /\ r = FilterRow("resolved", t, p.fun, UsingColumns(p, t), p.id)
      BY <2>3 DEF TargetRows
    <3>2. UsingColumns(p, t) \in Seq(ColumnSet)
      BY <2>1, <3>1, UsingColumnsTyped
    <3>3. QED
      BY <2>1, <3>1, <3>2, RowsTyped
  <2>4. QED
    BY <2>2, <2>3
<1>4. rows \subseteq DiffRows
  BY <1>1, <1>2, <1>3 DEF AInv, RowsHaveOrigins, FromTable, ForReview, FromPolicy
<1>5. ASSUME NEW r \in rows, r.source # "abac" PROVE r.scope \in Tables
  <2>1. ~ForReview(r)
    BY <1>5 DEF ForReview, AbstractRow
  <2>2. CASE \E t \in seen : r \in TableRows(t)
    BY <2>2 DEF AInv, TableRows, FilterRow, MaskRow
  <2>3. CASE \E p \in listed : r \in TargetRows(p)
    <3>1. PICK p \in listed : r \in TargetRows(p)
      BY <2>3
    <3>2. CASE p.kind = "column_mask"
      <4>1. PICK t \in Tables : r \in {MaskRow("resolved", t, c, p.id) : c \in MaskedColumns(p, t)}
        BY <3>1, <3>2 DEF TargetRows
      <4>2. QED
        BY <4>1 DEF MaskRow
    <3>3. CASE p.kind # "column_mask"
      <4>1. PICK t \in Tables : r = FilterRow("resolved", t, p.fun, UsingColumns(p, t), p.id)
        BY <3>1, <3>3 DEF TargetRows
      <4>2. QED
        BY <4>1 DEF FilterRow
    <3>4. QED
      BY <3>2, <3>3
  <2>4. QED
    BY <2>1, <2>2, <2>3 DEF AInv, RowsHaveOrigins, FromTable, FromPolicy
<1>6. installed \subseteq [table : Tables, kind : {"row_filter", "column_mask"}, key : Key]
  <2>1. ASSUME NEW d \in installed
        PROVE  d \in [table : Tables, kind : {"row_filter", "column_mask"}, key : Key]
    <3>1. PICK r \in rows : /\ r.source # "abac"
                            /\ d = [table |-> r.scope, kind |-> r.kind, key |-> r.key]
      BY DEF AInv, InstalledFromRows
    <3>2. r.scope \in Tables /\ r \in DiffRows
      BY <1>4, <1>5, <3>1
    <3>3. r.kind \in {"row_filter", "column_mask"} /\ r.key \in Key
      BY <3>2 DEF DiffRows
    <3>4. QED
      BY <3>1, <3>2, <3>3
  <2>2. QED
    BY <2>1
<1>7. QED
  BY <1>4, <1>6 DEF AInv, InputsTyped, TypedInputs, AbacTypeOK

LEMMA InputsHaveTypes == AbacInit => TypedInputs
BY AbacInputsAssumption DEF AbacInit, TypedInputs

LEMMA InputsKeepTypes == TypedInputs /\ [AbacNext]_abacVars => TypedInputs'
<1> SUFFICES ASSUME TypedInputs, [AbacNext]_abacVars PROVE TypedInputs'
  OBVIOUS
<1>1. UNCHANGED inputVars
  BY DEF AbacNext, ReadTable, TablesRead, Materialize, TagsUnavailable, ApplyConstraint, abacVars
<1>2. QED
  BY <1>1 DEF TypedInputs, inputVars

\* Every row of a diff is about a table or the place of a policy, in the columns of the
\* table, and what is installed is about a table: collect_dbx_rows and the translation
\* never make up a name.
THEOREM AbacTypeCorrect == AbacSpec => []AbacTypeOK
<1>1. AInv /\ TypedInputs => AbacTypeOK
  BY OriginsTyped
<1>2. QED
  BY <1>1, InputsHaveTypes, InputsKeepTypes, AbacInvariance, PTL DEF AbacSpec

-----------------------------------------------------------------------------
(* The two directions, and the roles, next to each other *)

\* There is no catalog, and nothing of it is left to do.
AbacRests == AbacTypeOK /\ step = "diffed" /\ rows = {}

LEMMA FiltersIdleInv == FiltersIdle => IInv
<1> SUFFICES ASSUME FiltersIdle PROVE IInv
  OBVIOUS
<1>1. FiltersTypeOK
  BY IdleAssumption, UCConstraintsAssumption, NoTries
     DEF FiltersIdle, FiltersTypeOK, WorkState, Body, Principals
<1>2. RowsAreBacked /\ StatementsAreBacked /\ FunctionsAreBacked /\ TriesAreLeft
  BY DEF FiltersIdle, RowsAreBacked, StatementsAreBacked, FunctionsAreBacked, TriesAreLeft,
         Sending
<1>3. SlotsWereAttached
  BY UCConstraintsAssumption DEF FiltersIdle, SlotsWereAttached
<1>4. QED
  BY <1>1, <1>2, <1>3 DEF IInv

LEMMA AbacIdleRests == AbacIdle => AbacRests
BY DEF AbacIdle, AbacRests, AbacTypeOK

\* A behaviour of one of the modules leaves the variables of the others alone: the types
\* of both directions hold in every state that the runs see.
THEOREM ConstraintsTypeCorrect == Spec => []TypeOK
<1> DEFINE Abac == (AInv /\ TypedInputs) \/ AbacRests
<1>1. Init => IInv
  BY InitInv, FiltersIdleInv DEF Init
<1>2. Init => Abac
  <2>1. AbacInit => AInv /\ TypedInputs
    BY AbacInitInv, InputsHaveTypes
  <2>2. QED
    BY <2>1, AbacIdleRests DEF Init
<1>3. [Next]_<<filterVars, abacVars, rolesVars>> => [FiltersNext]_filterVars /\ [AbacNext]_abacVars
  BY DEF Next
<1>4. Abac /\ [AbacNext]_abacVars => Abac'
  <2>1. ASSUME AInv /\ TypedInputs, [AbacNext]_abacVars PROVE (AInv /\ TypedInputs)'
    BY <2>1, AbacStepInv, InputsKeepTypes
  <2>2. ASSUME AbacRests, [AbacNext]_abacVars PROVE AbacRests'
    <3>1. UNCHANGED abacVars
      BY <2>2 DEF AbacRests, AbacNext, ReadTable, TablesRead, Materialize, TagsUnavailable
    <3>2. QED
      BY <2>2, <3>1 DEF AbacRests, AbacTypeOK, abacVars, inputVars
  <2>3. QED
    BY <2>1, <2>2
<1>5. IInv => FiltersTypeOK
  BY DEF IInv
<1>6. Abac => AbacTypeOK
  BY OriginsTyped DEF AbacRests
<1> HIDE DEF Abac
<1>7. QED
  BY <1>1, <1>2, <1>3, <1>4, <1>5, <1>6, StepInv, PTL DEF Spec, TypeOK
=============================================================================
