---------------------------- MODULE UCConstraints ----------------------------
(***************************************************************************)
(* Row filters and column masks on their way from Fabric to Unity Catalog  *)
(* (app/services/pair_apply.py, _grant_uc_constraint, and                  *)
(* app/services/databricks_rest.py, execute_sql).                          *)
(*                                                                         *)
(* A constraint is a predicate on a table or a hidden column of it.  In    *)
(* Fabric it belongs to roles, each with members.  Unity Catalog has one   *)
(* slot for the filter of a table and one for the mask of each column, and *)
(* what is in the slot applies to everybody: so the hub creates a function *)
(* that restricts the members it knows of, and attaches it to the slot.    *)
(* Both are SQL statements that a warehouse executes when it gets to them, *)
(* whether or not the caller still waits, and twice if a POST was retried. *)
(***************************************************************************)
EXTENDS Naturals

CONSTANTS
  Jobs,          \* rows of constraints, each applied by some request
  Constraints,
  Slots,
  SlotOf,        \* [Constraints -> Slots]
  Users, Groups,
  UsersOf,       \* [Groups -> SUBSET Users]
  Tries,         \* how often a POST is sent before giving up; 4 in the code
  Nothing,       \* no function of the hub: none at all, or, in a slot,
                 \* somebody else's
  MaxChanges     \* bound: changes made by administrators on either platform

ASSUME UCConstraintsAssumption ==
  /\ SlotOf \in [Constraints -> Slots]
  /\ UsersOf \in [Groups -> SUBSET Users]
  /\ Tries \in Nat \ {0}
  /\ MaxChanges \in Nat
  /\ Nothing \notin Constraints
  /\ Nothing \notin [c : Constraints, members : SUBSET (Users \cup Groups)]

VARIABLES
  das,        \* constraint roles of the Fabric item
  function,   \* function[f]: what the hub's function called f does
  slot,       \* slot[s]: the function attached to s
  stmts,      \* SQL statements that the warehouse has not executed yet
  work,       \* program counter and locals of each row
  asked,      \* ghost: every constraint role there ever was
  attached,   \* ghost: the constraints whose own statement attached them
  changes     \* how many times administrators changed something

filterVars == <<das, function, slot, stmts, work, asked, attached, changes>>

-----------------------------------------------------------------------------
(* Data *)

Principals == Users \cup Groups

\* A decision rule with one constraint, and the members of its role.
ConstraintRole == [c : Constraints, members : SUBSET Principals \ {{}}]

\* _member_scoped_row_expression, _member_scoped_mask_expression: CASE WHEN
\* current_user() IN (members) THEN ...; the bare predicate or mask if there are none.
Body == [c : Constraints, members : SUBSET Principals]

\* A step of a row, and the number of the POST that sends it.
Statement == [by : Jobs, step : {"create", "attach"}, try : 1..Tries]

\* answer is what the warehouse says of the statement that is polled.
WorkState ==
  [pc : {"idle", "planned", "create", "attach", "polling",
         "ok", "failed", "skipped"},
   step : {"create", "attach"}, try : 0..Tries,
   row : Constraints, members : SUBSET Principals, body : Body,
   answer : {"none", "succeeded", "error"}]

FiltersTypeOK ==
  /\ das \subseteq ConstraintRole
  /\ function \in [Constraints -> Body \cup {Nothing}]
  /\ slot \in [Slots -> Constraints \cup {Nothing}]
  /\ stmts \subseteq Statement
  /\ work \in [Jobs -> WorkState]
  /\ asked \subseteq ConstraintRole /\ das \subseteq asked
  /\ attached \subseteq Constraints
  /\ changes \in 0..MaxChanges

\* Faulty: the name is made from the table only.
FunctionOf_Table(c) == CHOOSE d \in Constraints : SlotOf[d] = SlotOf[c]

\* _uc_function_name: a hash of the table and the predicate, or of the table and
\* the hidden column; whom it restricts is not part of the name.
FunctionOf(c) == c

\* What a slot does at the moment.
InForce(s) ==
  IF slot[s] \in Constraints THEN function[slot[s]] ELSE Nothing

\* The users who are held to a function: current_user() is never a group.
Restricted(body) ==
  IF body.members = {} THEN Users ELSE body.members \cap Users

\* The users a Fabric role means.
Meant(members) ==
  (members \cap Users) \cup UNION {UsersOf[g] : g \in members \cap Groups}

FiltersInit ==
  /\ das \in SUBSET ConstraintRole
  /\ function = [c \in Constraints |-> Nothing]
  /\ slot = [s \in Slots |-> Nothing]
  /\ stmts = {}
  /\ work \in [Jobs -> {w \in [pc : {"idle"}, step : {"create"}, try : {0},
                               row : Constraints, members : {{}},
                               body : [c : Constraints, members : {{}}],
                               answer : {"none"}] : w.body.c = w.row}]
  /\ asked = das
  /\ attached = {}
  /\ changes = 0

-----------------------------------------------------------------------------
(* A row *)

End(j, pc) ==
  work' = [work EXCEPT ![j].pc = pc, ![j].step = "create", ![j].try = 0,
                       ![j].members = {}, ![j].answer = "none"]

Platforms == <<das, function, slot, stmts>>
Ghosts == <<asked, attached, changes>>

\* Faulty: the members of another constraint's role.
PlanRow_AnyRole(j) ==
  /\ work[j].pc = "idle"
  /\ slot[SlotOf[work[j].row]] # work[j].row
  /\ \E r \in das :
       work' = [work EXCEPT ![j].pc = "planned", ![j].members = r.members]
  /\ UNCHANGED <<Platforms, Ghosts>>

\* The diff, some time before: the key of a row is made of the constraint, so of
\* several roles with the same one the first that is listed lends its members.
\* A filter of the hub that is attached already has the same key.
PlanRow(j) ==
  /\ work[j].pc = "idle"
  /\ slot[SlotOf[work[j].row]] # work[j].row
  /\ \E r \in das :
       /\ r.c = work[j].row
       /\ work' = [work EXCEPT ![j].pc = "planned", ![j].members = r.members]
  /\ UNCHANGED <<Platforms, Ghosts>>

\* No warehouse is configured; or the apply is a dry run.
SkipConstraint(j) ==
  /\ work[j].pc = "planned"
  /\ End(j, "skipped")
  /\ UNCHANGED <<Platforms, Ghosts>>

\* The columns are read, each member is looked up in Graph - those it does not
\* answer for are left out - and the warehouse is up.
Compose(j) ==
  /\ work[j].pc = "planned"
  /\ \E known \in SUBSET work[j].members :
       work' = [work EXCEPT ![j].pc = "create", ![j].members = {},
                            ![j].body = [c |-> work[j].row, members |-> known]]
  /\ UNCHANGED <<Platforms, Ghosts>>

\* The columns do not fit, a read fails, the warehouse does not start in time.
ComposeFails(j) ==
  /\ work[j].pc = "planned"
  /\ End(j, "failed")
  /\ UNCHANGED <<Platforms, Ghosts>>

Sending(j) == work[j].pc \in {"create", "attach"}

\* The statement of the current step, as sent by the next POST.
Current(j) == [by |-> j, step |-> work[j].step, try |-> work[j].try + 1]

\* Faulty: the answer to the first statement counts for the second.
Proceed_Counting(j) ==
  IF work[j].step = "create"
  THEN work' = [work EXCEPT ![j].pc = "attach", ![j].step = "attach", ![j].answer = "none"]
  ELSE End(j, "ok")

\* On to the second statement, or done.
Proceed(j) ==
  IF work[j].step = "create"
  THEN work' = [work EXCEPT ![j].pc = "attach", ![j].step = "attach", ![j].try = 0,
                            ![j].answer = "none"]
  ELSE End(j, "ok")

\* Faulty: a POST without an answer counts as done.
PostUnanswered_Done(j) ==
  /\ Sending(j)
  /\ \E arrived \in {{}, {Current(j)}} : stmts' = stmts \cup arrived
  /\ Proceed(j)
  /\ UNCHANGED <<das, function, slot, Ghosts>>

\* A transport error: the warehouse may have the statement or not; the POST is
\* sent again, and with it another statement.
PostUnanswered(j) ==
  /\ Sending(j)
  /\ \E arrived \in {{}, {Current(j)}} : stmts' = stmts \cup arrived
  /\ IF work[j].try + 1 = Tries THEN End(j, "failed")
     ELSE work' = [work EXCEPT ![j].try = @ + 1]
  /\ UNCHANGED <<das, function, slot, Ghosts>>

\* The answer carries the id that is polled from now on.
PostAnswered(j) ==
  /\ Sending(j)
  /\ stmts' = stmts \cup {Current(j)}
  /\ work' = [work EXCEPT ![j].try = @ + 1, ![j].pc = "polling"]
  /\ UNCHANGED <<das, function, slot, Ghosts>>

\* An HTTP status: not sent again.
PostRefused(j) ==
  /\ Sending(j)
  /\ End(j, "failed")
  /\ UNCHANGED <<Platforms, Ghosts>>

\* SUCCEEDED.
PollSucceeded(j) ==
  /\ work[j].pc = "polling" /\ work[j].answer = "succeeded"
  /\ Proceed(j)
  /\ UNCHANGED <<Platforms, Ghosts>>

\* FAILED; or the deadline has passed, or polling itself fails: the statement is
\* left with the warehouse, nobody cancels it.
GiveUp(j) ==
  /\ work[j].pc = "polling"
  /\ End(j, "failed")
  /\ UNCHANGED <<Platforms, Ghosts>>

Unfinished(j) == work[j].pc \in {"planned", "create", "attach", "polling"}

\* No token, which nobody catches; or the server dies.
Abort(j) ==
  /\ Unfinished(j)
  /\ End(j, "failed")
  /\ UNCHANGED <<Platforms, Ghosts>>

RowStep(j) ==
  \/ PlanRow(j) \/ SkipConstraint(j) \/ Compose(j) \/ ComposeFails(j)
  \/ PostUnanswered(j) \/ PostAnswered(j) \/ PostRefused(j)
  \/ PollSucceeded(j) \/ GiveUp(j)

-----------------------------------------------------------------------------
(* The warehouse, and administrators *)

IsPolled(st) ==
  /\ work[st.by].pc = "polling"
  /\ work[st.by].step = st.step /\ work[st.by].try = st.try

Report(st, answer) ==
  work' = IF IsPolled(st) THEN [work EXCEPT ![st.by].answer = answer] ELSE work

\* CREATE OR REPLACE FUNCTION.
ExecuteCreate(st) ==
  /\ st \in stmts /\ st.step = "create"
  /\ stmts' = stmts \ {st}
  /\ function' = [function EXCEPT ![FunctionOf(work[st.by].row)] = work[st.by].body]
  /\ Report(st, "succeeded")
  /\ UNCHANGED <<das, slot, Ghosts>>

\* ALTER TABLE ... SET ROW FILTER, ... SET MASK: whatever was there is replaced.
ExecuteAttach(st) ==
  LET c == work[st.by].row
  IN /\ st \in stmts /\ st.step = "attach"
     /\ function[FunctionOf(c)] # Nothing
     /\ stmts' = stmts \ {st}
     /\ slot' = [slot EXCEPT ![SlotOf[c]] = FunctionOf(c)]
     /\ attached' = attached \cup {c}
     /\ Report(st, "succeeded")
     /\ UNCHANGED <<das, function, asked, changes>>

\* A statement is refused, or cancelled by the warehouse.
ExecuteFails(st) ==
  /\ st \in stmts
  /\ stmts' = stmts \ {st}
  /\ Report(st, "error")
  /\ UNCHANGED <<das, function, slot, Ghosts>>

\* A constraint role is made, or removed, in Fabric.
ChangeFabric(r) ==
  /\ changes < MaxChanges
  /\ \/ das' = das \cup {r} /\ asked' = asked \cup {r}
     \/ das' = das \ {r} /\ UNCHANGED asked
  /\ changes' = changes + 1
  /\ UNCHANGED <<function, slot, stmts, work, attached>>

\* Somebody sets a filter of their own in Unity Catalog, or drops what is there.
ChangeUC(s) ==
  /\ changes < MaxChanges
  /\ slot' = [slot EXCEPT ![s] = Nothing]
  /\ changes' = changes + 1
  /\ UNCHANGED <<das, function, stmts, work, asked, attached>>

FiltersNext ==
  \/ \E j \in Jobs : RowStep(j) \/ Abort(j)
  \/ \E st \in stmts : ExecuteCreate(st) \/ ExecuteAttach(st) \/ ExecuteFails(st)
  \/ \E r \in ConstraintRole : ChangeFabric(r)
  \/ \E s \in Slots : ChangeUC(s)

FiltersSpec == FiltersInit /\ [][FiltersNext]_filterVars

-----------------------------------------------------------------------------
(* Safety *)

\* A function restricts members of one role that Fabric had at some time, and for
\* the constraint of that role - however the statements of several rows, retries
\* and late executions are mixed.
FunctionsFollowRoles ==
  \A c \in Constraints :
    function[c] # Nothing =>
      \E r \in asked : r.c = function[c].c /\ function[c].members \subseteq r.members

\* The first statement of a row changes nothing that anybody reads: what a slot
\* enforces was attached by a statement of that very constraint.
InForceWasAttached ==
  \A s \in Slots : InForce(s) \in Body => InForce(s).c \in attached

\* No other row is about the slot of j, or it has not got to its first POST, and no
\* administrator has changed anything.
Alone(j) ==
  /\ changes = 0
  /\ \A k \in Jobs \ {j} :
       SlotOf[work[k].row] = SlotOf[work[j].row]
         => work[k].pc \in {"idle", "planned", "skipped"}

\* A row that is reported as granted is in force for each member that Graph
\* knew - if no other row and no administrator touched its slot: retried POSTs and
\* what they leave in the warehouse do no harm.  The condition is needed: a
\* second constraint for the same slot, or a late statement of a row that was
\* given up, replaces what this row has put there.
OkRowsHoldIfAlone ==
  \A j \in Jobs :
    work[j].pc = "ok" /\ Alone(j) => InForce(SlotOf[work[j].row]) = work[j].body

-----------------------------------------------------------------------------
(* A claim of the documentation that the code does not keep *)

\* docs/permission-model.md:54: "Unsupported rows are skipped safely instead of
\* being broadened".  Even when nobody interferes, a row reported as granted need
\* not hold the users that its resolved members mean.
OkRowsAreNotBroadened ==
  \A j \in Jobs :
    work[j].pc = "ok" /\ Alone(j)
      => Meant(work[j].body.members) \subseteq Restricted(InForce(SlotOf[work[j].row]))
=============================================================================
