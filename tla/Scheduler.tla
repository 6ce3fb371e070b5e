----------------------------- MODULE Scheduler -----------------------------
(***************************************************************************)
(* The run log and the run pipeline of one scheduler task                  *)
(* (server/scheduler/service.py, server/scheduler/runner.py).              *)
(*                                                                         *)
(* Four threads meet in the scheduler_runs table: the backend that fires   *)
(* triggers, the API thread that waits for a manual run, the worker's      *)
(* event loop that runs every pipeline and the watchdog, and the thread    *)
(* that stops or reconfigures the service.  Only _begin_run holds the      *)
(* service lock; every status change is an unlocked read-modify-write.     *)
(* In the event loop a pipeline can be interleaved with others, or be      *)
(* cancelled, only while it awaits the planner; from there to its end it   *)
(* runs without a pause.                                                   *)
(*                                                                         *)
(* Runs are numbered in the order of their rows, which is the order of     *)
(* started_at; tasks do not share rows, so one task is modelled.           *)
(***************************************************************************)
EXTENDS Naturals, FiniteSets

CONSTANTS
    MaxRuns,      \* bound: rows of the task, skip markers included
    MaxBoots      \* bound: times the service is started again

Runs == 1..MaxRuns

ASSUME SchedulerAssumption == MaxRuns \in Nat /\ MaxBoots \in Nat

VARIABLES
    \* scheduler_runs
    status, last,          \* number of rows; the newest one is the last
    \* memory of the service
    life,                  \* "up", "draining", "marking" or "down"
    paused,                \* _reconfiguring
    alive,                 \* _active_runs
    work, result, seen,    \* each run's pipeline
    waiter, cancelled,     \* each manual run's caller; those who gave up
    \* the clock
    overdue, stale,        \* runs older than either limit of the settings
    \* history
    crossed,               \* runs whose pipeline never sees their timeout mark
    boots

rowVars == <<status, last>>
workVars == <<work, result, seen>>
waitVars == <<waiter, cancelled>>
clockVars == <<overdue, stale>>
vars == <<status, last, life, paused, alive, work, result, seen,
          waiter, cancelled, overdue, stale, crossed, boots>>

Outcomes == {"previewed", "committed", "failed"}
Statuses == Outcomes \cup {"none", "running", "skipped", "timed_out",
                           "recovery_required", "gone"}
\* The statuses the retention may delete; a deleted row is gone.
Terminal == Outcomes \cup {"skipped", "timed_out"}
\* begun: row written, pipeline not submitted; plan: awaiting the planner;
\* execute .. clean: the part that no other coroutine interleaves.
Stages == {"none", "begun", "plan", "execute", "read", "save", "pop", "clean", "over"}
InLoop == {"execute", "read", "save", "pop", "clean"}

\* The rows, the pipelines and the callers of the service keep their types.
TypeOK ==
    /\ status \in [Runs -> Statuses]
    /\ last \in 0..MaxRuns
    /\ life \in {"up", "draining", "marking", "down"} /\ paused \in BOOLEAN
    /\ alive \subseteq Runs
    /\ work \in [Runs -> Stages]
    /\ result \in [Runs -> Outcomes \cup {"none"}]
    /\ seen \in [Runs -> Statuses]
    /\ waiter \in [Runs -> {"none", "waiting", "marking", "answered"}]
    /\ cancelled \subseteq Runs
    /\ overdue \subseteq Runs /\ stale \subseteq Runs /\ crossed \subseteq Runs
    /\ boots \in 0..MaxBoots

Init ==
    /\ status = [r \in Runs |-> "none"]
    /\ last = 0 /\ life = "up" /\ paused = FALSE /\ alive = {}
    /\ work = [r \in Runs |-> "none"] /\ result = [r \in Runs |-> "none"]
    /\ seen = [r \in Runs |-> "none"]
    /\ waiter = [r \in Runs |-> "none"]
    /\ cancelled = {} /\ overdue = {} /\ stale = {} /\ crossed = {} /\ boots = 0

----------------------------------------------------------------------------
(* Triggers: _on_trigger, arun_task and retry_preview.                     *)

Rows == {r \in Runs : status[r] \notin {"none", "gone"}}

\* _last_run
Newest(r) == r \in Rows /\ \A q \in Rows : q <= r

Busy == \E r \in Runs : Newest(r) /\ status[r] = "running" /\ r \notin stale
Recovering == \E r \in Runs : Newest(r) /\ status[r] = "recovery_required"

\* _begin_run answers "busy" or "needs recovery" with a marker row.
TriggerSkipped(kind) ==
    /\ life = "up" /\ ~paused /\ last < MaxRuns
    /\ Busy \/ (Recovering /\ kind # "retry")
    /\ last' = last + 1
    /\ status' = [status EXCEPT ![last + 1] = "skipped"]
    /\ UNCHANGED <<life, paused, alive, workVars, waitVars, clockVars,
                   crossed, boots>>

\* A running row older than the limit is flagged and superseded.
TriggerBegins(kind) ==
    /\ life = "up" /\ ~paused /\ last < MaxRuns
    /\ ~Busy /\ (Recovering => kind = "retry")
    /\ last' = last + 1
    /\ status' = [r \in Runs |->
                    IF r = last + 1 THEN "running"
                    ELSE IF Newest(r) /\ status[r] = "running" THEN "recovery_required"
                    ELSE status[r]]
    /\ alive' = alive \cup {last + 1}
    /\ work' = [work EXCEPT ![last + 1] = "begun"]
    /\ waiter' = [waiter EXCEPT ![last + 1] =
                    IF kind = "scheduled" THEN "none" ELSE "waiting"]
    /\ UNCHANGED <<life, paused, result, seen, cancelled,
                   clockVars, crossed, boots>>

\* _submit: the worker loop takes the pipeline, or is gone already; a
\* scheduled trigger does not try once the service is stopping.
Submit(r) ==
    /\ work[r] = "begun"
    /\ \/ life \in {"up", "draining"} /\ work' = [work EXCEPT ![r] = "plan"]
       \/ life # "up" /\ work' = [work EXCEPT ![r] = "over"]
    /\ UNCHANGED <<rowVars, life, paused, alive, result, seen, waitVars,
                   clockVars, crossed, boots>>

----------------------------------------------------------------------------
(* _pipeline, in the worker's event loop.                                  *)

LoopFree == \A r \in Runs : work[r] \notin InLoop

\* JobRunner.arun up to the accept: it ends in a preview or a failure, or
\* the policy allows the automatic execution (which settings and requests
\* allow it is left open).
PlanEnds(r) ==
    /\ work[r] = "plan" /\ LoopFree
    /\ \/ work' = [work EXCEPT ![r] = "execute"] /\ UNCHANGED result
       \/ /\ work' = [work EXCEPT ![r] = "read"]
          /\ \E o \in {"previewed", "failed"} : result' = [result EXCEPT ![r] = o]
    /\ UNCHANGED <<rowVars, life, paused, alive, seen, waitVars, clockVars,
                   crossed, boots>>

\* AgentJobService.accept
Execute(r) ==
    /\ work[r] = "execute"
    /\ work' = [work EXCEPT ![r] = "read"]
    /\ \E o \in {"committed", "failed"} : result' = [result EXCEPT ![r] = o]
    /\ UNCHANGED <<rowVars, life, paused, alive, seen, waitVars, clockVars,
                   crossed, boots>>

FinalizeRead(r) ==
    /\ work[r] = "read"
    /\ seen' = [seen EXCEPT ![r] = status[r]]
    /\ work' = [work EXCEPT ![r] = "save"]
    /\ UNCHANGED <<rowVars, life, paused, alive, result, waitVars, clockVars,
                   crossed, boots>>

\* Mutant: a late result leaves the timeout mark as it is.
FinalizeSaveKeepsMark(r) ==
    /\ work[r] = "save"
    /\ status' = [status EXCEPT ![r] = IF @ = "gone" THEN "gone"
                                       ELSE IF seen[r] = "timed_out"
                                       THEN "timed_out" ELSE result[r]]
    /\ work' = [work EXCEPT ![r] = "pop"]
    /\ UNCHANGED <<last, life, paused, alive, result, seen, waitVars, clockVars,
                   crossed, boots>>

\* Mutant: a late result replaces the timeout mark.
FinalizeSaveIgnoresMark(r) ==
    /\ work[r] = "save"
    /\ status' = [status EXCEPT ![r] = result[r]]
    /\ work' = [work EXCEPT ![r] = "pop"]
    /\ UNCHANGED <<last, life, paused, alive, result, seen, waitVars, clockVars,
                   crossed, boots>>

FinalizeSave(r) ==
    /\ work[r] = "save"
    /\ status' = [status EXCEPT ![r] = IF @ = "gone" THEN "gone"
                                       ELSE IF seen[r] = "timed_out"
                                       THEN "recovery_required" ELSE result[r]]
    /\ work' = [work EXCEPT ![r] = "pop"]
    /\ UNCHANGED <<last, life, paused, alive, result, seen, waitVars, clockVars,
                   crossed, boots>>

Pop(r) ==
    /\ work[r] = "pop"
    /\ alive' = alive \ {r} /\ work' = [work EXCEPT ![r] = "clean"]
    /\ seen' = [seen EXCEPT ![r] = "none"]
    /\ UNCHANGED <<rowVars, life, paused, result, waitVars, clockVars,
                   crossed, boots>>

\* cleanup.run_if_due, after the run has left _active_runs.  It may be due, and
\* deletes finished rows: expired ones but the newest row of the task, then the
\* oldest ones when the tasks have too many rows together.
CleanUp(r) ==
    /\ work[r] = "clean"
    /\ work' = [work EXCEPT ![r] = "over"]
    /\ \E dropped \in SUBSET {x \in Rows : status[x] \in Terminal} :
        /\ (\E x \in dropped : Newest(x)) =>
                dropped = {x \in Rows : status[x] \in Terminal}
        /\ status' = [x \in Runs |-> IF x \in dropped THEN "gone" ELSE status[x]]
    /\ UNCHANGED <<last, life, paused, alive, result, seen, waitVars, clockVars,
                   crossed, boots>>

\* The caller's timeout cancels the coroutine where it awaits the planner;
\* CancelledError passes _pipeline's handler, so neither _finalize nor the
\* removal from _active_runs happens.
PlanCancelled(r) ==
    /\ work[r] = "plan" /\ r \in cancelled /\ LoopFree
    /\ work' = [work EXCEPT ![r] = "over"]
    /\ UNCHANGED <<rowVars, life, paused, alive, result, seen, waitVars,
                   clockVars, crossed, boots>>

----------------------------------------------------------------------------
(* The caller of a manual run, and the watchdog.                           *)

WaiterAnswered(r) ==
    /\ waiter[r] = "waiting" /\ work[r] = "over"
    /\ waiter' = [waiter EXCEPT ![r] = "answered"]
    /\ UNCHANGED <<rowVars, life, paused, alive, workVars, cancelled,
                   clockVars, crossed, boots>>

\* wait_for times out.
WaiterGivesUp(r) ==
    /\ waiter[r] = "waiting" /\ r \in overdue /\ work[r] \notin {"begun", "over"}
    /\ waiter' = [waiter EXCEPT ![r] = "marking"]
    /\ cancelled' = cancelled \cup {r}
    /\ UNCHANGED <<rowVars, life, paused, alive, workVars, clockVars,
                   crossed, boots>>

\* _mark_timed_out, whatever the row says by now.
WaiterMarks(r) ==
    /\ waiter[r] = "marking"
    /\ waiter' = [waiter EXCEPT ![r] = "answered"]
    /\ status' = [status EXCEPT ![r] = IF @ = "gone" THEN "gone" ELSE "timed_out"]
    /\ crossed' = IF result[r] # "none" /\ work[r] \in {"save", "pop", "clean", "over"}
                  THEN crossed \cup {r} ELSE crossed
    /\ UNCHANGED <<last, life, paused, alive, workVars, cancelled, clockVars,
                   boots>>

\* Mutant: the watchdog leaves the runs alone that have an owner.
JudgedMut(r) ==
    IF status[r] = "running" /\ r \notin alive /\ r \in stale
    THEN "recovery_required" ELSE status[r]

\* _watchdog_pass over the running rows.
Judged(r) ==
    IF status[r] # "running" THEN status[r]
    ELSE IF r \in alive /\ r \in overdue THEN "timed_out"
    ELSE IF r \notin alive /\ r \in stale THEN "recovery_required"
    ELSE "running"

Watchdog ==
    /\ life = "up" /\ LoopFree
    /\ \E r \in Runs : Judged(r) # status[r]
    /\ status' = [r \in Runs |-> Judged(r)]
    /\ UNCHANGED <<last, life, paused, alive, workVars, waitVars,
                   clockVars, crossed, boots>>

\* Time passes, for a run whose age something still looks at.
Overdue(r) ==
    /\ status[r] = "running" \/ waiter[r] = "waiting"
    /\ r \notin overdue
    /\ overdue' = overdue \cup {r}
    /\ UNCHANGED <<rowVars, life, paused, alive, workVars, waitVars, stale,
                   crossed, boots>>

Stale(r) ==
    /\ status[r] = "running" /\ r \notin stale
    /\ stale' = stale \cup {r}
    /\ UNCHANGED <<rowVars, life, paused, alive, workVars, waitVars, overdue,
                   crossed, boots>>

----------------------------------------------------------------------------
(* Reconfiguration, stop, crash and start.                                 *)

\* Mutant: only the task locks are asked.
PauseMut ==
    /\ life = "up" /\ ~paused
    /\ paused' = TRUE
    /\ UNCHANGED <<rowVars, life, alive, workVars, waitVars, clockVars, crossed,
                   boots>>

\* pause_for_reconfigure (the task locks it also asks are never acquired)
Pause ==
    /\ life = "up" /\ ~paused /\ alive = {}
    /\ paused' = TRUE
    /\ UNCHANGED <<rowVars, life, alive, workVars, waitVars, clockVars, crossed,
                   boots>>

Resume ==
    /\ paused /\ paused' = FALSE
    /\ UNCHANGED <<rowVars, life, alive, workVars, waitVars, clockVars, crossed,
                   boots>>

Stop ==
    /\ life = "up" /\ boots < MaxBoots
    /\ life' = "draining"
    /\ UNCHANGED <<rowVars, paused, alive, workVars, waitVars, clockVars, crossed,
                   boots>>

\* The grace window ends and the loop is told to stop: what awaits the
\* planner is cancelled; a pipeline past it goes on to its end.
StopWorker ==
    /\ life = "draining" /\ life' = "marking"
    /\ work' = [r \in Runs |-> IF work[r] = "plan" THEN "over" ELSE work[r]]
    /\ UNCHANGED <<rowVars, paused, alive, result, seen, waitVars, clockVars,
                   crossed, boots>>

\* _mark_interrupted_after_shutdown
MarkInterrupted ==
    /\ life = "marking" /\ life' = "down"
    /\ status' = [r \in Runs |-> IF r \in alive /\ status[r] = "running"
                                 THEN "recovery_required" ELSE status[r]]
    /\ alive' = {}
    /\ UNCHANGED <<last, paused, workVars, waitVars, clockVars, crossed,
                   boots>>

\* Every thread is gone, and with it the pipelines that were to look at
\* their timeout mark.
Reset ==
    /\ crossed' = crossed \cup {r \in Runs : status[r] = "timed_out"
                                              /\ work[r] \in InLoop}
    /\ paused' = FALSE /\ alive' = {} /\ cancelled' = {}
    /\ work' = [r \in Runs |-> IF work[r] = "none" THEN "none" ELSE "over"]
    /\ waiter' = [r \in Runs |-> IF waiter[r] = "none" THEN "none" ELSE "answered"]
    /\ seen' = [r \in Runs |-> "none"]

Crash ==
    /\ life # "down" /\ boots < MaxBoots
    /\ life' = "down" /\ Reset
    /\ UNCHANGED <<rowVars, result, clockVars, boots>>

\* Mutant: the scan reads and does not mark.
BootScansOnly ==
    /\ life = "down" /\ boots < MaxBoots
    /\ boots' = boots + 1 /\ life' = "up" /\ Reset
    /\ UNCHANGED <<rowVars, result, clockVars>>

\* A new process: the startup scan (mark_recovery_required), then start.
Boot ==
    /\ life = "down" /\ boots < MaxBoots
    /\ boots' = boots + 1 /\ life' = "up" /\ Reset
    /\ status' = [r \in Runs |-> IF status[r] = "running"
                                 THEN "recovery_required" ELSE status[r]]
    /\ UNCHANGED <<last, result, clockVars>>

\* recovery_action(rollback_if_safe) when the roll back of the job that
\* _finalize attached succeeds; a committed job is refused.
RollbackRun(r) ==
    /\ life = "up" /\ work[r] \in {"pop", "clean", "over"} /\ r \in Rows
    /\ result[r] \in {"previewed", "failed"}
    /\ status' = [status EXCEPT ![r] = "failed"]
    /\ UNCHANGED <<last, life, paused, alive, workVars, waitVars,
                   clockVars, crossed, boots>>

----------------------------------------------------------------------------

Kinds == {"scheduled", "manual", "retry"}

Pipeline(r) ==
    \/ PlanEnds(r) \/ Execute(r) \/ FinalizeRead(r) \/ FinalizeSave(r)
    \/ Pop(r) \/ CleanUp(r)

Next ==
    \/ \E k \in Kinds : TriggerSkipped(k) \/ TriggerBegins(k)
    \/ \E r \in Runs :
        \/ Submit(r) \/ Pipeline(r) \/ PlanCancelled(r)
        \/ WaiterAnswered(r) \/ WaiterGivesUp(r) \/ WaiterMarks(r)
        \/ Overdue(r) \/ Stale(r) \/ RollbackRun(r)
    \/ Watchdog
    \/ Pause \/ Resume \/ Stop \/ StopWorker \/ MarkInterrupted \/ Crash \/ Boot

Spec == Init /\ [][Next]_vars

\* Time passes, the watchdog ticks while the event loop is free, the part of
\* a pipeline that does not await anything comes to its end, a stop comes to
\* its end and a dead process is started again.  Nothing is assumed of the
\* planner, of triggers or of callers.
FairSpec ==
    /\ Spec
    /\ WF_vars(Watchdog)
    /\ WF_vars(StopWorker) /\ WF_vars(MarkInterrupted) /\ WF_vars(Boot)
    /\ \A r \in Runs :
        /\ WF_vars(Overdue(r))
        /\ WF_vars(Execute(r) \/ FinalizeRead(r) \/ FinalizeSave(r) \/ Pop(r) \/ CleanUp(r))

----------------------------------------------------------------------------
(* Properties.                                                             *)

\* A row that says running is in _active_runs while the service is up, so
\* that the watchdog, the timeout and the shutdown all find it: also when a
\* stop or a crash comes between the row and the pipeline.
RunningIsOwned ==
    \A r \in Runs : (life = "up" /\ status[r] = "running") => r \in alive

\* pause_for_reconfigure: while the workspace is being changed no pipeline
\* is left that could still write the old Vault, or report its own run; the
\* retention that follows a run may still delete old rows of the log.
PausedIsQuiet ==
    paused => \A r \in Runs : work[r] \notin {"begun", "plan"} \cup (InLoop \ {"clean"})

\* An automatic execution that changed the Vault is never reported as less
\* than it was: its run ends committed or flagged for recovery, through
\* timeouts, cancellations, stops and crashes, until the retention deletes
\* its finished row.  Excepted is a run whose pipeline never sees its timeout
\* mark: written after it looked for one, or followed by the end of the
\* process (the startup scan skips such a row).
CommittedIsVisible ==
    \A r \in Runs :
        (life = "up" /\ work[r] = "over" /\ result[r] = "committed" /\ r \notin crossed)
            => status[r] \in {"committed", "recovery_required", "gone"}

\* A result that arrives after the timeout mark is flagged for recovery and
\* never turns the run into a success.
LateResultIsFlagged ==
    [][\A r \in Runs : (status[r] = "timed_out" /\ r \notin crossed) =>
            status'[r] \notin {"previewed", "committed"}]_vars

\* No row says running for ever: the pipeline, the watchdog, the shutdown or
\* the startup scan ends it, even when the planner never answers.
RunsEnd == \A r \in Runs : (status[r] = "running") ~> (status[r] # "running")
============================================================================
