--------------------------- MODULE ServicesProofs ---------------------------
(***************************************************************************)
(* Proofs about SyncJobs, for any number of jobs and of crashes; and about *)
(* MCServices, which puts it next to Monitor, PermissionReset and          *)
(* Reconcile.                                                              *)
(*                                                                         *)
(* What a row of the table says is settled only together with where its    *)
(* job stands in SyncService.run, and whose lines are in a buffer only     *)
(* together with who was attached when: the two inductive invariants.      *)
(***************************************************************************)
EXTENDS MCServices, MonitorProofs, PermissionResetProofs, TLAPS

-----------------------------------------------------------------------------
(* Status: what memory, table and outcome of a job are at each statement *)

StatusOf(j) ==
  /\ at[j] = "new" => memory[j] = "none" /\ table[j] = NoRow /\ outcome[j] = "open"
  /\ at[j] = "save_start" =>
       memory[j] = "running" /\ table[j].status = "none" /\ outcome[j] = "open"
  /\ at[j] = "work" =>
       memory[j] = "running" /\ table[j].status = "running" /\ outcome[j] = "open"
  /\ at[j] \in {"detach", "save_end"} =>
       memory[j] = outcome[j] /\ table[j].status = "running" /\ outcome[j] \in Final
  /\ at[j] = "gone" =>
       \/ j \in cut /\ memory[j] = "none" /\ table[j].status \in {"none", "running"}
       \/ j \in unsaved /\ memory[j] \in {"none", "running"} /\ table[j].status = "none"
       \/ /\ j \in unsaved /\ outcome[j] \in Final
          /\ memory[j] \in {"none", outcome[j]} /\ table[j].status = "running"
       \/ /\ outcome[j] \in Final
          /\ memory[j] \in {"none", outcome[j]} /\ table[j].status = outcome[j]

StatusInv == SyncTypeOK /\ \A j \in Jobs : StatusOf(j)

LEMMA StatusInvImplies == StatusInv => StatusIsTrue
<1>1. SUFFICES ASSUME StatusInv, NEW j \in Jobs, table[j].status # "none"
               PROVE  /\ Shown(j) \in Final => outcome[j] = Shown(j)
                      /\ outcome[j] \in Final
                           => Shown(j) = outcome[j] \/ j \in unsaved \/ j \in cut
                      /\ Shown(j) = "running" => j \in Running \/ j \in unsaved \/ j \in cut
  BY DEF StatusIsTrue, Listed
<1>2. StatusOf(j) /\ at[j] \in InRun \cup {"new", "gone"}
  BY <1>1 DEF StatusInv, SyncTypeOK
<1>3. CASE at[j] = "new"
  BY <1>1, <1>2, <1>3 DEF StatusOf, NoRow
<1>4. CASE at[j] \in InRun
  BY <1>1, <1>2, <1>4 DEF StatusOf, InRun, Shown, Running, Final
<1>5. CASE at[j] = "gone"
  BY <1>1, <1>2, <1>5 DEF StatusOf, Shown, Final
<1>6. QED
  BY <1>2, <1>3, <1>4, <1>5

-----------------------------------------------------------------------------
(* Logs: who is attached, who has met whom, whose lines are where *)

LogOf(j) ==
  /\ j \in handlers =>
       at[j] \in {"save_start", "work", "detach"} \/ (at[j] = "gone" /\ table[j].status = "none")
  /\ buffer[j] \subseteq {j} \cup met[j] \/ (at[j] = "gone" /\ table[j].status = "none")
  /\ table[j].log \subseteq {j} \cup met[j]
  /\ at[j] \in {"new", "save_start"} => table[j] = NoRow
  /\ at[j] = "new" => buffer[j] = {}

\* Two jobs that run now have met.
MetInv == \A j, k \in Running : j = k \/ k \in met[j]

LogInv == SyncTypeOK /\ MetInv /\ \A j \in Jobs : LogOf(j)

LEMMA LogInvImplies == LogInv => LogsStayWithin
BY DEF LogInv, LogOf, LogsStayWithin, Listed, ShownLog

-----------------------------------------------------------------------------
(* Steps *)

\* Types are kept by every step.
LEMMA Typing == SyncTypeOK /\ [SyncNext]_syncVars => SyncTypeOK'
<1>1. SUFFICES ASSUME SyncTypeOK, [SyncNext]_syncVars PROVE SyncTypeOK'
  OBVIOUS
<1> USE DEF SyncTypeOK, InRun, Final
<1>2. CASE ProcessEnds
  BY <1>1, <1>2, SyncAssumption DEF ProcessEnds, Running
<1>3. ASSUME NEW j \in Jobs, JobStep(j)
      PROVE  SyncTypeOK'
  <2>1. CASE StartJob(j)
    BY <1>1, <2>1 DEF StartJob, Running
  <2>2. ASSUME NEW status \in {"none", "running"} \cup Final, NEW log \in SUBSET Jobs,
               table' = [table EXCEPT ![j] = [status |-> status, log |-> log]]
        PROVE  table' \in [Jobs -> [status : {"none", "running"} \cup Final, log : SUBSET Jobs]]
    BY <1>1, <2>2
  <2>3. CASE SaveStart(j)
    BY <1>1, <2>2, <2>3 DEF SaveStart, Persist
  <2>4. CASE SaveEnd(j)
    BY <1>1, <2>2, <2>4 DEF SaveEnd, Persist
  <2>5. CASE SaveStartFails(j)
    BY <1>1, <2>5 DEF SaveStartFails
  <2>6. CASE SaveEndFails(j)
    BY <1>1, <2>6 DEF SaveEndFails
  <2>7. CASE Detach(j)
    BY <1>1, <2>7 DEF Detach
  <2>8. CASE Log(j)
    BY <1>1, <2>8 DEF Log
  <2>9. CASE WorkSucceeds(j)
    BY <1>1, <2>9 DEF WorkSucceeds
  <2>10. CASE WorkFails(j)
    BY <1>1, <2>10 DEF WorkFails
  <2>11. QED
    BY <1>3, <2>1, <2>3, <2>4, <2>5, <2>6, <2>7, <2>8, <2>9, <2>10 DEF JobStep
<1>4. CASE UNCHANGED syncVars
  BY <1>1, <1>4 DEF syncVars
<1>5. QED
  BY <1>1, <1>2, <1>3, <1>4 DEF SyncNext

\* A step of one job changes nothing that the status of another depends on.
LEMMA StatusStep == StatusInv /\ [SyncNext]_syncVars => StatusInv'
<1>1. SUFFICES ASSUME StatusInv, [SyncNext]_syncVars, NEW k \in Jobs PROVE StatusOf(k)'
  BY Typing DEF StatusInv
<1>2. StatusOf(k) /\ SyncTypeOK
  BY <1>1 DEF StatusInv
<1>3. CASE ProcessEnds
  BY <1>2, <1>3 DEF ProcessEnds, StatusOf, SyncTypeOK, Running, InRun, Final
<1>4. ASSUME NEW j \in Jobs, JobStep(j)
      PROVE  StatusOf(k)'
  <2>1. CASE k # j
    <3>1. /\ at'[k] = at[k] /\ memory'[k] = memory[k] /\ table'[k] = table[k]
          /\ outcome'[k] = outcome[k] /\ (k \in unsaved' <=> k \in unsaved) /\ cut' = cut
      BY <1>2, <1>4, <2>1
         DEF JobStep, StartJob, SaveStart, SaveStartFails, Log, WorkSucceeds, WorkFails, Detach,
             SaveEnd, SaveEndFails, Persist, SyncTypeOK
    <3>2. QED
      BY <1>2, <3>1 DEF StatusOf
  <2>2. CASE k = j
    <3>1. CASE StartJob(j)
      BY <1>2, <2>2, <3>1 DEF StartJob, StatusOf, SyncTypeOK, NoRow
    <3>2. CASE SaveStart(j) \/ SaveStartFails(j) \/ SaveEnd(j) \/ SaveEndFails(j)
      BY <1>2, <2>2, <3>2
         DEF SaveStart, SaveStartFails, SaveEnd, SaveEndFails, Persist, StatusOf, SyncTypeOK
    <3>3. CASE Log(j)
      BY <1>2, <2>2, <3>3 DEF Log, StatusOf
    <3>4. CASE WorkSucceeds(j) \/ WorkFails(j) \/ Detach(j)
      BY <1>2, <2>2, <3>4 DEF WorkSucceeds, WorkFails, Detach, StatusOf, SyncTypeOK, Final
    <3>5. QED
      BY <1>4, <3>1, <3>2, <3>3, <3>4 DEF JobStep
  <2>3. QED
    BY <2>1, <2>2
<1>5. CASE UNCHANGED syncVars
  BY <1>2, <1>5 DEF syncVars, StatusOf
<1>6. QED
  BY <1>1, <1>3, <1>4, <1>5 DEF SyncNext

LEMMA LogStep == LogInv /\ [SyncNext]_syncVars => LogInv'
<1>1. SUFFICES ASSUME LogInv, [SyncNext]_syncVars PROVE MetInv' /\ \A k \in Jobs : LogOf(k)'
  BY Typing DEF LogInv
<1>2. SyncTypeOK /\ MetInv /\ \A k \in Jobs : LogOf(k)
  BY <1>1 DEF LogInv
<1>3. CASE ProcessEnds
  <2>1. Running' = {}
    BY <1>2, <1>3 DEF ProcessEnds, Running, SyncTypeOK, InRun
  <2>2. \A k \in Jobs : LogOf(k)'
    BY <1>2, <1>3 DEF ProcessEnds, LogOf, SyncTypeOK, InRun
  <2>3. QED
    BY <2>1, <2>2 DEF MetInv
<1>4. ASSUME NEW j \in Jobs, JobStep(j)
      PROVE  MetInv' /\ \A k \in Jobs : LogOf(k)'
  <2>1. CASE StartJob(j)
    <3>1. Running' = Running \cup {j}
      BY <1>2, <2>1 DEF StartJob, Running, SyncTypeOK, InRun
    <3>2. \A k \in Jobs : k # j => met[k] \subseteq met'[k]
      BY <1>2, <2>1 DEF StartJob, SyncTypeOK
    <3>3. MetInv'
      BY <1>2, <2>1, <3>1 DEF MetInv, StartJob, Running, SyncTypeOK
    <3>4. ASSUME NEW k \in Jobs PROVE LogOf(k)'
      <4>1. CASE k = j
        BY <1>2, <2>1, <4>1 DEF StartJob, LogOf, SyncTypeOK, NoRow
      <4>2. CASE k # j
        BY <1>2, <2>1, <3>2, <4>2 DEF StartJob, LogOf, SyncTypeOK
      <4>3. QED
        BY <4>1, <4>2
    <3>5. QED
      BY <3>3, <3>4
  <2>2. CASE Log(j)
    <3>1. j \in Running /\ Running' = Running
      BY <2>2 DEF Log, Running, InRun
    <3>2. MetInv'
      BY <1>2, <2>2, <3>1 DEF MetInv, Log
    <3>3. ASSUME NEW k \in Jobs PROVE LogOf(k)'
      <4>1. CASE k \in handlers
        <5>1. CASE at[k] \in {"save_start", "work", "detach"}
          <6>1. j = k \/ j \in met[k]
            BY <1>2, <3>1, <5>1 DEF MetInv, Running, InRun
          <6>2. at[k] # "new"
            BY <5>1
          <6>3. QED
            BY <1>2, <2>2, <4>1, <6>1, <6>2 DEF Log, LogOf, SyncTypeOK
        <5>2. CASE at[k] = "gone" /\ table[k].status = "none"
          BY <1>2, <2>2, <4>1, <5>2 DEF Log, LogOf, SyncTypeOK
        <5>3. QED
          BY <1>2, <4>1, <5>1, <5>2 DEF LogOf
      <4>2. CASE k \notin handlers
        BY <1>2, <2>2, <4>2 DEF Log, LogOf, SyncTypeOK
      <4>3. QED
        BY <4>1, <4>2
    <3>4. QED
      BY <3>2, <3>3
  <2>3. CASE \/ SaveStart(j) \/ SaveStartFails(j) \/ WorkSucceeds(j) \/ WorkFails(j)
             \/ Detach(j) \/ SaveEnd(j) \/ SaveEndFails(j)
    <3>1. Running' \subseteq Running /\ met' = met
      BY <1>2, <2>3
         DEF SaveStart, SaveStartFails, WorkSucceeds, WorkFails, Detach, SaveEnd, SaveEndFails,
             Running, SyncTypeOK, InRun
    <3>2. MetInv'
      BY <1>2, <3>1 DEF MetInv
    <3>3. ASSUME NEW k \in Jobs, k # j PROVE LogOf(k)'
      <4>1. /\ at'[k] = at[k] /\ buffer'[k] = buffer[k] /\ table'[k] = table[k]
            /\ k \in handlers' <=> k \in handlers
        BY <1>2, <2>3, <3>3
           DEF SaveStart, SaveStartFails, WorkSucceeds, WorkFails, Detach, SaveEnd, SaveEndFails,
               Persist, SyncTypeOK
      <4>2. QED
        BY <1>2, <3>1, <4>1 DEF LogOf
    <3>4. LogOf(j)'
      <4>1. CASE SaveStart(j) \/ SaveEnd(j) \/ SaveEndFails(j)
        BY <1>2, <4>1 DEF SaveStart, SaveEnd, SaveEndFails, Persist, LogOf, SyncTypeOK
      <4>2. CASE WorkSucceeds(j) \/ WorkFails(j) \/ Detach(j)
        BY <1>2, <4>2 DEF WorkSucceeds, WorkFails, Detach, LogOf, SyncTypeOK
      <4>3. CASE SaveStartFails(j)
        BY <1>2, <4>3 DEF SaveStartFails, LogOf, SyncTypeOK, NoRow
      <4>4. QED
        BY <2>3, <4>1, <4>2, <4>3
    <3>5. QED
      BY <3>2, <3>3, <3>4
  <2>4. QED
    BY <1>4, <2>1, <2>2, <2>3 DEF JobStep
<1>5. CASE UNCHANGED syncVars
  BY <1>2, <1>5 DEF syncVars, LogOf, MetInv, Running
<1>6. QED
  BY <1>1, <1>3, <1>4, <1>5 DEF SyncNext

-----------------------------------------------------------------------------
(* The theorems *)

LEMMA InitTyped == SyncInit => SyncTypeOK
BY SyncAssumption DEF SyncInit, SyncTypeOK, NoRow, InRun, Final

\* Every reachable state of jobs, buffers and table is of the declared type.
THEOREM SyncTypeCorrect == SyncSpec => []SyncTypeOK
BY InitTyped, Typing, PTL DEF SyncSpec

\* What the page shows of a job (list_jobs, get) is how it ended, or that it is at
\* work, whatever fails in SyncService.run and whenever the process ends - except
\* for jobs that could not be saved or were cut off.
THEOREM StatusesAreTrue == SyncSpec => []StatusIsTrue
<1>1. SyncInit => StatusInv
  BY InitTyped DEF SyncInit, StatusInv, StatusOf
<1>2. QED
  BY <1>1, StatusStep, StatusInvImplies, PTL DEF SyncSpec

\* The log of a job holds lines of jobs that ran beside it, and of no other, though
\* all share one logger (the handlers of SyncService.run).
THEOREM LogsAreKeptApart == SyncSpec => []LogsStayWithin
<1>1. SyncInit => LogInv
  BY InitTyped DEF SyncInit, LogInv, LogOf, MetInv, Running, NoRow, InRun
<1>2. QED
  BY <1>1, LogStep, LogInvImplies, PTL DEF SyncSpec

-----------------------------------------------------------------------------
(* The services next to each other *)

\* The scripts are as ResetSpec has them, or were never started.
ResetOrIdle ==
  \/ service = "reset" /\ ResetInv
  \/ service # "reset" /\ ResetTypeOK

\* A service that is not the one that runs has its variables to itself: the types of the
\* three of the app hold together in every state that the runs see.
THEOREM ServicesTypeCorrect == Spec => []TypeOK
<1>1. Init => ResetOrIdle
  <2> SUFFICES ASSUME Init PROVE ResetOrIdle
    OBVIOUS
  <2>1. CASE service = "reset"
    BY <2>1, ResetInitHolds DEF Init, ResetOrIdle
  <2>2. CASE service # "reset"
    <3>1. ResetIdle
      BY <2>2 DEF Init
    <3>2. /\ dar \in [Items -> SUBSET Roles] /\ grants \in [Securables -> SUBSET Principals]
          /\ given \in [Securables -> SUBSET Protected] /\ edits \in 0..MaxEdits
      BY <3>1, ResetAssumption DEF ResetIdle
    <3>3. draft \in Backup /\ script \in Script
      BY <3>1, NothingReadTyped DEF ResetIdle, NoScript, Script
    <3>4. ResetTypeOK
      BY <3>1, <3>2, <3>3 DEF ResetIdle, ResetTypeOK
    <3>5. QED
      BY <2>2, <3>4 DEF ResetOrIdle
  <2>3. QED
    BY <2>1, <2>2
<1>2. ResetOrIdle /\ [Next]_allVars => ResetOrIdle'
  <2> SUFFICES ASSUME ResetOrIdle, [Next]_allVars
               PROVE  ResetOrIdle'
    OBVIOUS
  <2>1. service' = service
    BY DEF Next, MonitorRuns, SyncRuns, ResetRuns, ReconcileRuns, allVars
  <2>2. CASE service = "reset"
    <3>1. [ResetNext]_resetVars
      BY <2>2 DEF Next, MonitorRuns, SyncRuns, ResetRuns, ReconcileRuns, allVars
    <3>2. ResetInv
      BY <2>2 DEF ResetOrIdle
    <3>3. QED
      BY <2>1, <2>2, <3>1, <3>2, ResetStepKeeps DEF ResetOrIdle
  <2>3. CASE service # "reset"
    <3>1. UNCHANGED resetVars
      BY <2>3 DEF Next, MonitorRuns, SyncRuns, ResetRuns, ReconcileRuns, allVars
    <3>2. ResetTypeOK'
      BY <2>3, <3>1 DEF ResetOrIdle, resetVars, ResetTypeOK
    <3>3. QED
      BY <2>1, <2>3, <3>2 DEF ResetOrIdle
  <2>4. QED
    BY <2>2, <2>3
<1>3. ResetOrIdle => ResetTypeOK
  BY DEF ResetOrIdle, ResetInv
<1>4. Init => MonitorInit /\ SyncInit
  BY DEF Init
<1>5. [Next]_allVars
        => [MonitorNext]_monitorVars /\ [SyncNext]_syncVars
  BY DEF Next, MonitorRuns, SyncRuns, ResetRuns, ReconcileRuns, allVars
<1>6. Spec => []MonitorTypeOK
  BY <1>4, <1>5, MonitorTypeCorrect, PTL DEF Spec, MonitorSpec
<1>7. Spec => []SyncTypeOK
  BY <1>4, <1>5, SyncTypeCorrect, PTL DEF Spec, SyncSpec
<1>8. QED
  BY <1>1, <1>2, <1>3, <1>6, <1>7, PTL DEF Spec, TypeOK
=============================================================================
