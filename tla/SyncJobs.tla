------------------------------ MODULE SyncJobs ------------------------------
(***************************************************************************)
(* Sync jobs: app/services/sync_service.py behind POST /sync/run of        *)
(* app/routers/sync.py.  A job runs in the request that started it, so     *)
(* several run at once.  Each is kept in memory with its log buffer, and   *)
(* is upserted into the table sync_jobs when it starts and when it ends.   *)
(* All of them listen to the one logger of policy-weaver.                  *)
(***************************************************************************)
EXTENDS Naturals

CONSTANTS
  Jobs,
  MaxCrashes     \* bound: ends of the process

ASSUME SyncAssumption == MaxCrashes \in Nat

VARIABLES
  at,         \* at[j]: the next statement of SyncService.run for job j
  memory,     \* memory[j]: the status of the job in _jobs
  buffer,     \* buffer[j]: its log buffer: the jobs whose lines are in it
  handlers,   \* the buffers that are attached to the logger
  table,      \* table[j]: status and log_tail of the row of sync_jobs
  outcome,    \* ghost: how the work of the job ended
  met,        \* ghost: met[j]: the jobs that ran while j did
  unsaved,    \* ghost: jobs of which a _persist raised
  cut,        \* ghost: jobs that the end of the process cut off
  crashes     \* ghost: how often the process has ended

syncVars == <<at, memory, buffer, handlers, table, outcome, met, unsaved, cut, crashes>>

-----------------------------------------------------------------------------
Final == {"success", "failed"}
NoRow == [status |-> "none", log |-> {}]

InRun == {"save_start", "work", "detach", "save_end"}

SyncTypeOK ==
  /\ at \in [Jobs -> InRun \cup {"new", "gone"}]
  /\ memory \in [Jobs -> {"none", "running"} \cup Final]
  /\ buffer \in [Jobs -> SUBSET Jobs]
  /\ handlers \subseteq Jobs
  /\ table \in [Jobs -> [status : {"none", "running"} \cup Final, log : SUBSET Jobs]]
  /\ outcome \in [Jobs -> {"open"} \cup Final]
  /\ met \in [Jobs -> SUBSET Jobs]
  /\ unsaved \subseteq Jobs /\ cut \subseteq Jobs
  /\ crashes \in 0..MaxCrashes

SyncInit ==
  /\ at = [j \in Jobs |-> "new"]
  /\ memory = [j \in Jobs |-> "none"]
  /\ buffer = [j \in Jobs |-> {}]
  /\ handlers = {}
  /\ table = [j \in Jobs |-> NoRow]
  /\ outcome = [j \in Jobs |-> "open"]
  /\ met = [j \in Jobs |-> {}]
  /\ unsaved = {} /\ cut = {}
  /\ crashes = 0

Running == {j \in Jobs : at[j] \in InRun}

-----------------------------------------------------------------------------
(* SyncService.run *)

\* Registered, its handler attached, its status set.
StartJob(j) ==
  /\ at[j] = "new"
  /\ at' = [at EXCEPT ![j] = "save_start"]
  /\ memory' = [memory EXCEPT ![j] = "running"]
  /\ handlers' = handlers \cup {j}
  /\ met' = [k \in Jobs |-> IF k = j THEN Running
                            ELSE IF k \in Running THEN met[k] \cup {j} ELSE met[k]]
  /\ UNCHANGED <<buffer, table, outcome, unsaved, cut, crashes>>

\* _persist; if it raises, so does the step it is called from.
Persist(j) == table' = [table EXCEPT ![j] = [status |-> memory[j], log |-> buffer[j]]]

SaveStart(j) ==
  /\ at[j] = "save_start"
  /\ at' = [at EXCEPT ![j] = "work"]
  /\ Persist(j)
  /\ UNCHANGED <<memory, buffer, handlers, outcome, met, unsaved, cut, crashes>>

\* The first _persist is not in the try: the handler stays attached.
SaveStartFails(j) ==
  /\ at[j] = "save_start"
  /\ at' = [at EXCEPT ![j] = "gone"]
  /\ unsaved' = unsaved \cup {j}
  /\ UNCHANGED <<memory, buffer, handlers, table, outcome, met, cut, crashes>>

\* A line to the logger goes to every handler.
Log(j) ==
  /\ at[j] = "work"
  /\ buffer' = [k \in Jobs |-> IF k \in handlers THEN buffer[k] \cup {j} ELSE buffer[k]]
  /\ UNCHANGED <<at, memory, handlers, table, outcome, met, unsaved, cut, crashes>>

WorkSucceeds(j) ==
  /\ at[j] = "work"
  /\ at' = [at EXCEPT ![j] = "detach"]
  /\ memory' = [memory EXCEPT ![j] = "success"]
  /\ outcome' = [outcome EXCEPT ![j] = "success"]
  /\ UNCHANGED <<buffer, handlers, table, met, unsaved, cut, crashes>>

\* Faulty: the job is closed in the branch that succeeded only.
WorkFails_NotClosed(j) ==
  /\ at[j] = "work"
  /\ at' = [at EXCEPT ![j] = "gone"]
  /\ memory' = [memory EXCEPT ![j] = "failed"]
  /\ outcome' = [outcome EXCEPT ![j] = "failed"]
  /\ handlers' = handlers \ {j}
  /\ UNCHANGED <<buffer, table, met, unsaved, cut, crashes>>

\* An exception: the configuration is gone or wrong, the source or Fabric fails, a
\* snapshot cannot be written.  The error goes to the buffer of the job alone.
WorkFails(j) ==
  /\ at[j] = "work"
  /\ at' = [at EXCEPT ![j] = "detach"]
  /\ memory' = [memory EXCEPT ![j] = "failed"]
  /\ buffer' = [buffer EXCEPT ![j] = @ \cup {j}]
  /\ outcome' = [outcome EXCEPT ![j] = "failed"]
  /\ UNCHANGED <<handlers, table, met, unsaved, cut, crashes>>

\* Faulty: the handler stays with the logger.
Detach_Not(j) ==
  /\ at[j] = "detach"
  /\ at' = [at EXCEPT ![j] = "save_end"]
  /\ UNCHANGED <<memory, buffer, handlers, table, outcome, met, unsaved, cut, crashes>>

Detach(j) ==
  /\ at[j] = "detach"
  /\ at' = [at EXCEPT ![j] = "save_end"]
  /\ handlers' = handlers \ {j}
  /\ UNCHANGED <<memory, buffer, table, outcome, met, unsaved, cut, crashes>>

SaveEnd(j) ==
  /\ at[j] = "save_end"
  /\ at' = [at EXCEPT ![j] = "gone"]
  /\ Persist(j)
  /\ UNCHANGED <<memory, buffer, handlers, outcome, met, unsaved, cut, crashes>>

SaveEndFails(j) ==
  /\ at[j] = "save_end"
  /\ at' = [at EXCEPT ![j] = "gone"]
  /\ unsaved' = unsaved \cup {j}
  /\ UNCHANGED <<memory, buffer, handlers, table, outcome, met, cut, crashes>>

JobStep(j) ==
  \/ StartJob(j) \/ SaveStart(j) \/ SaveStartFails(j) \/ Log(j)
  \/ WorkSucceeds(j) \/ WorkFails(j) \/ Detach(j) \/ SaveEnd(j) \/ SaveEndFails(j)

\* The process ends, and with it its memory; nothing closes the rows at start-up.
ProcessEnds ==
  /\ crashes < MaxCrashes
  /\ crashes' = crashes + 1
  /\ at' = [j \in Jobs |-> IF at[j] \in InRun THEN "gone" ELSE at[j]]
  /\ memory' = [j \in Jobs |-> "none"]
  /\ buffer' = [j \in Jobs |-> {}]
  /\ handlers' = {}
  /\ cut' = cut \cup Running
  /\ UNCHANGED <<table, outcome, met, unsaved>>

SyncNext == ProcessEnds \/ \E j \in Jobs : JobStep(j)

SyncSpec == SyncInit /\ [][SyncNext]_syncVars

-----------------------------------------------------------------------------
(* What list_jobs and get show: a job of the table, as it is in memory if it is
   still there. *)
Listed == {j \in Jobs : table[j].status # "none"}
Shown(j) == IF memory[j] # "none" THEN memory[j] ELSE table[j].status
ShownLog(j) == IF memory[j] # "none" THEN buffer[j] ELSE table[j].log

\* Whatever _persist loses and whenever the process ends: a job that the page shows
\* as ended has ended that way; one that has ended is shown so, and one that it
\* shows as running is at work - unless the end of the process cut the job off or it
\* could not be saved.  No way of failing leaves another status behind.
StatusIsTrue ==
  \A j \in Listed :
    /\ Shown(j) \in Final => outcome[j] = Shown(j)
    /\ outcome[j] \in Final => Shown(j) = outcome[j] \/ j \in unsaved \/ j \in cut
    /\ Shown(j) = "running" => j \in Running \/ j \in unsaved \/ j \in cut

\* Log lines of another job get into the log of a job only if both ran at the same
\* time, although one logger serves all of them.  A job that could not be saved at
\* its start does stay attached, and goes on listening, but is not listed.
LogsStayWithin ==
  \A j \in Listed : ShownLog(j) \subseteq {j} \cup met[j]
=============================================================================
