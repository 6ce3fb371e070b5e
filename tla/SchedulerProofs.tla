-------------------------- MODULE SchedulerProofs --------------------------
(***************************************************************************)
(* The safety properties of Scheduler for any number of runs and restarts. *)
(* They need to know that every pipeline that may still write belongs to a *)
(* run in _active_runs (Owned), at which stage a pipeline has a result     *)
(* (Staged), and which marks a finished pipeline leaves behind (Marked).   *)
(***************************************************************************)
EXTENDS Scheduler, TLAPS

Moving == {"begun", "plan"} \cup (InLoop \ {"clean"})

\* _active_runs covers the running rows and the pipelines, until the stop
\* empties it.
Owned ==
    /\ \A r \in Runs : life # "down" /\ status[r] = "running" => r \in alive
    /\ \A r \in Runs : life # "down" /\ work[r] \in Moving => r \in alive
    /\ \A r \in Runs : work[r] = "pop" => status[r] # "running"

\* A pipeline has a result from the end of arun on, and a row from the
\* start of it.
Staged ==
    /\ \A r \in Runs : r > last => work[r] = "none"
    /\ \A r \in Runs : work[r] \in {"none", "begun", "plan", "execute"} =>
          result[r] = "none"
    /\ \A r \in Runs : work[r] \in {"read", "save", "pop", "clean"} => result[r] # "none"

\* What the row of a pipeline that committed says, stage by stage.
Marked ==
    \A r \in Runs :
        /\ (work[r] = "save" /\ status[r] = "timed_out" /\ r \notin crossed) =>
              seen[r] = "timed_out"
        /\ work[r] \in {"begun", "plan", "execute", "read", "save"} =>
              status[r] \in {"running", "timed_out", "recovery_required", "gone"}
        /\ (result[r] = "committed" /\ work[r] \in {"pop", "clean", "over"} /\ r \notin crossed) =>
              \/ status[r] \in {"committed", "recovery_required", "gone"}
              \/ status[r] = "running" /\ work[r] = "over" /\ life = "down"

IInv == TypeOK /\ Owned /\ Staged /\ PausedIsQuiet /\ Marked

----------------------------------------------------------------------------
(* One lemma per part of the invariant, one step per action.               *)

\* Every action keeps the types.
LEMMA TypeStep ==
    ASSUME TypeOK, [Next]_vars PROVE TypeOK'
<1> USE DEF TypeOK, Runs, Outcomes, Statuses, Stages, InLoop, vars, rowVars,
      workVars, waitVars, clockVars
<1>1. ASSUME NEW k \in Kinds, TriggerSkipped(k) PROVE TypeOK'
  BY <1>1, SchedulerAssumption DEF TriggerSkipped, Busy, Recovering, Newest, Rows
<1>2. ASSUME NEW k \in Kinds, TriggerBegins(k) PROVE TypeOK'
  <2>1. last + 1 \in Runs /\ last' \in 0..MaxRuns
    BY <1>2, SchedulerAssumption DEF TriggerBegins
  <2>2. status' \in [Runs -> Statuses]
    BY ONLY TypeOK, TriggerBegins(k), <1>2 DEF TriggerBegins, TypeOK, Statuses
  <2>3. work' \in [Runs -> Stages] /\ alive' \subseteq Runs
    BY <1>2, <2>1 DEF TriggerBegins
  <2>4. waiter' \in [Runs -> {"none", "waiting", "marking", "answered"}]
    BY <1>2, <2>1 DEF TriggerBegins
  <2>5. UNCHANGED <<life, paused, result, seen, cancelled, overdue, stale, crossed, boots>>
    BY <1>2 DEF TriggerBegins
  <2>6. QED
    BY <2>1, <2>2, <2>3, <2>4, <2>5
<1>3. ASSUME NEW x \in Runs, Submit(x) PROVE TypeOK'
  BY <1>3, SchedulerAssumption DEF Submit
<1>4. ASSUME NEW x \in Runs, PlanEnds(x) PROVE TypeOK'
  <2>1. work' \in [Runs -> Stages] /\ result' \in [Runs -> Outcomes \cup {"none"}]
    BY <1>4 DEF PlanEnds
  <2>2. UNCHANGED <<status, last, life, paused, alive, seen, waiter, cancelled,
                    overdue, stale, crossed, boots>>
    BY <1>4 DEF PlanEnds
  <2>3. QED
    BY <2>1, <2>2
<1>5. ASSUME NEW x \in Runs, Execute(x) PROVE TypeOK'
  BY <1>5, SchedulerAssumption DEF Execute
<1>6. ASSUME NEW x \in Runs, FinalizeRead(x) PROVE TypeOK'
  BY <1>6, SchedulerAssumption DEF FinalizeRead
<1>7. ASSUME NEW x \in Runs, FinalizeSave(x) PROVE TypeOK'
  BY <1>7, SchedulerAssumption DEF FinalizeSave
<1>8. ASSUME NEW x \in Runs, Pop(x) \/ CleanUp(x) PROVE TypeOK'
  <2>1. CASE Pop(x)
    BY <2>1 DEF Pop
  <2>2. CASE CleanUp(x)
    BY <2>2 DEF CleanUp, Rows, Terminal
  <2>3. QED
    BY <1>8, <2>1, <2>2
<1>9. ASSUME NEW x \in Runs, PlanCancelled(x) PROVE TypeOK'
  BY <1>9, SchedulerAssumption DEF PlanCancelled, LoopFree
<1>10. ASSUME NEW x \in Runs, WaiterAnswered(x) PROVE TypeOK'
  BY <1>10, SchedulerAssumption DEF WaiterAnswered
<1>11. ASSUME NEW x \in Runs, WaiterGivesUp(x) PROVE TypeOK'
  BY <1>11, SchedulerAssumption DEF WaiterGivesUp
<1>12. ASSUME NEW x \in Runs, WaiterMarks(x) PROVE TypeOK'
  BY <1>12, SchedulerAssumption DEF WaiterMarks
<1>13. ASSUME NEW x \in Runs, Overdue(x) PROVE TypeOK'
  BY <1>13, SchedulerAssumption DEF Overdue
<1>14. ASSUME NEW x \in Runs, Stale(x) PROVE TypeOK'
  BY <1>14, SchedulerAssumption DEF Stale
<1>15. ASSUME NEW x \in Runs, RollbackRun(x) PROVE TypeOK'
  BY <1>15, SchedulerAssumption DEF RollbackRun, Rows
<1>16. CASE Watchdog
  BY <1>16 DEF Watchdog, Judged, LoopFree
<1>17. CASE Pause
  BY <1>17 DEF Pause
<1>18. CASE Resume
  BY <1>18 DEF Resume
<1>19. CASE Stop
  BY <1>19 DEF Stop
<1>20. CASE StopWorker
  BY <1>20 DEF StopWorker
<1>21. CASE MarkInterrupted
  BY <1>21 DEF MarkInterrupted
<1>22. CASE Crash
  BY <1>22 DEF Crash, Reset
<1>23. CASE Boot
  <2>1. status' \in [Runs -> Statuses] /\ work' \in [Runs -> Stages]
    BY <1>23 DEF Boot, Reset
  <2>2. /\ seen' \in [Runs -> Statuses]
        /\ waiter' \in [Runs -> {"none", "waiting", "marking", "answered"}]
    BY <1>23 DEF Boot, Reset
  <2>3. alive' \subseteq Runs /\ cancelled' \subseteq Runs /\ crossed' \subseteq Runs
    BY <1>23 DEF Boot, Reset
  <2>4. boots' \in 0..MaxBoots /\ life' = "up" /\ paused' = FALSE
    BY <1>23, SchedulerAssumption DEF Boot, Reset
  <2>5. QED
    BY <1>23, <2>1, <2>2, <2>3, <2>4 DEF Boot
<1>24. CASE UNCHANGED vars
  BY <1>24
<1>25. QED
  BY <1>1, <1>2, <1>3, <1>4, <1>5, <1>6, <1>7, <1>8, <1>9, <1>10, <1>11, <1>12,
     <1>13, <1>14, <1>15, <1>16, <1>17, <1>18, <1>19, <1>20, <1>21, <1>22, <1>23, <1>24
     DEF Next, Pipeline

\* No action leaves a running row or a pipeline without its owner.
LEMMA OwnedStep ==
    ASSUME TypeOK, Owned, [Next]_vars PROVE Owned'
<1> USE DEF TypeOK, Owned, Moving, Runs, Outcomes, Statuses, Stages, InLoop,
      vars, rowVars, workVars, waitVars, clockVars
<1>1. ASSUME NEW k \in Kinds, TriggerSkipped(k) PROVE Owned'
  BY <1>1, SchedulerAssumption DEF TriggerSkipped, Busy, Recovering, Newest, Rows
<1>2. ASSUME NEW k \in Kinds, TriggerBegins(k) PROVE Owned'
  BY <1>2, SchedulerAssumption DEF TriggerBegins, Busy, Recovering, Newest, Rows
<1>3. ASSUME NEW x \in Runs, Submit(x) PROVE Owned'
  BY <1>3, SchedulerAssumption DEF Submit
<1>4. ASSUME NEW x \in Runs, PlanEnds(x) PROVE Owned'
  BY <1>4, SchedulerAssumption DEF PlanEnds, LoopFree
<1>5. ASSUME NEW x \in Runs, Execute(x) PROVE Owned'
  BY <1>5, SchedulerAssumption DEF Execute
<1>6. ASSUME NEW x \in Runs, FinalizeRead(x) PROVE Owned'
  BY <1>6, SchedulerAssumption DEF FinalizeRead
<1>7. ASSUME NEW x \in Runs, FinalizeSave(x) PROVE Owned'
  BY <1>7, SchedulerAssumption DEF FinalizeSave
<1>8. ASSUME NEW x \in Runs, Pop(x) \/ CleanUp(x) PROVE Owned'
  <2>1. CASE Pop(x)
    BY <2>1 DEF Pop
  <2>2. CASE CleanUp(x)
    BY <2>2 DEF CleanUp, Rows, Terminal
  <2>3. QED
    BY <1>8, <2>1, <2>2
<1>9. ASSUME NEW x \in Runs, PlanCancelled(x) PROVE Owned'
  BY <1>9, SchedulerAssumption DEF PlanCancelled, LoopFree
<1>10. ASSUME NEW x \in Runs, WaiterAnswered(x) PROVE Owned'
  BY <1>10, SchedulerAssumption DEF WaiterAnswered
<1>11. ASSUME NEW x \in Runs, WaiterGivesUp(x) PROVE Owned'
  BY <1>11, SchedulerAssumption DEF WaiterGivesUp
<1>12. ASSUME NEW x \in Runs, WaiterMarks(x) PROVE Owned'
  BY <1>12, SchedulerAssumption DEF WaiterMarks
<1>13. ASSUME NEW x \in Runs, Overdue(x) PROVE Owned'
  BY <1>13, SchedulerAssumption DEF Overdue
<1>14. ASSUME NEW x \in Runs, Stale(x) PROVE Owned'
  BY <1>14, SchedulerAssumption DEF Stale
<1>15. ASSUME NEW x \in Runs, RollbackRun(x) PROVE Owned'
  BY <1>15, SchedulerAssumption DEF RollbackRun, Rows
<1>16. CASE Watchdog
  BY <1>16 DEF Watchdog, Judged, LoopFree
<1>17. CASE Pause
  BY <1>17 DEF Pause
<1>18. CASE Resume
  BY <1>18 DEF Resume
<1>19. CASE Stop
  BY <1>19 DEF Stop
<1>20. CASE StopWorker
  BY <1>20 DEF StopWorker
<1>21. CASE MarkInterrupted
  BY <1>21 DEF MarkInterrupted
<1>22. CASE Crash
  BY <1>22 DEF Crash, Reset
<1>23. CASE Boot
  BY <1>23 DEF Boot, Reset
<1>24. CASE UNCHANGED vars
  BY <1>24
<1>25. QED
  BY <1>1, <1>2, <1>3, <1>4, <1>5, <1>6, <1>7, <1>8, <1>9, <1>10, <1>11, <1>12,
     <1>13, <1>14, <1>15, <1>16, <1>17, <1>18, <1>19, <1>20, <1>21, <1>22, <1>23, <1>24
     DEF Next, Pipeline

\* A result appears at the end of arun only.
LEMMA StagedStep ==
    ASSUME TypeOK, Staged, [Next]_vars PROVE Staged'
<1> USE DEF TypeOK, Staged, Runs, Outcomes, InLoop, vars, rowVars, workVars,
      waitVars, clockVars
<1>1. ASSUME NEW k \in Kinds, TriggerSkipped(k) PROVE Staged'
  BY <1>1, SchedulerAssumption DEF TriggerSkipped, Busy, Recovering, Newest, Rows
<1>2. ASSUME NEW k \in Kinds, TriggerBegins(k) PROVE Staged'
  BY <1>2, SchedulerAssumption DEF TriggerBegins, Busy, Recovering, Newest, Rows
<1>3. ASSUME NEW x \in Runs, Submit(x) PROVE Staged'
  BY <1>3, SchedulerAssumption DEF Submit
<1>4. ASSUME NEW x \in Runs, PlanEnds(x) PROVE Staged'
  BY <1>4, SchedulerAssumption DEF PlanEnds, LoopFree
<1>5. ASSUME NEW x \in Runs, Execute(x) PROVE Staged'
  BY <1>5, SchedulerAssumption DEF Execute
<1>6. ASSUME NEW x \in Runs, FinalizeRead(x) PROVE Staged'
  BY <1>6, SchedulerAssumption DEF FinalizeRead
<1>7. ASSUME NEW x \in Runs, FinalizeSave(x) PROVE Staged'
  BY <1>7, SchedulerAssumption DEF FinalizeSave
<1>8. ASSUME NEW x \in Runs, Pop(x) \/ CleanUp(x) PROVE Staged'
  <2>1. CASE Pop(x)
    BY <2>1 DEF Pop
  <2>2. CASE CleanUp(x)
    BY <2>2 DEF CleanUp, Rows, Terminal
  <2>3. QED
    BY <1>8, <2>1, <2>2
<1>9. ASSUME NEW x \in Runs, PlanCancelled(x) PROVE Staged'
  BY <1>9, SchedulerAssumption DEF PlanCancelled, LoopFree
<1>10. ASSUME NEW x \in Runs, WaiterAnswered(x) PROVE Staged'
  BY <1>10, SchedulerAssumption DEF WaiterAnswered
<1>11. ASSUME NEW x \in Runs, WaiterGivesUp(x) PROVE Staged'
  BY <1>11, SchedulerAssumption DEF WaiterGivesUp
<1>12. ASSUME NEW x \in Runs, WaiterMarks(x) PROVE Staged'
  BY <1>12, SchedulerAssumption DEF WaiterMarks
<1>13. ASSUME NEW x \in Runs, Overdue(x) PROVE Staged'
  BY <1>13, SchedulerAssumption DEF Overdue
<1>14. ASSUME NEW x \in Runs, Stale(x) PROVE Staged'
  BY <1>14, SchedulerAssumption DEF Stale
<1>15. ASSUME NEW x \in Runs, RollbackRun(x) PROVE Staged'
  BY <1>15, SchedulerAssumption DEF RollbackRun, Rows
<1>16. CASE Watchdog
  BY <1>16 DEF Watchdog, Judged, LoopFree
<1>17. CASE Pause
  BY <1>17 DEF Pause
<1>18. CASE Resume
  BY <1>18 DEF Resume
<1>19. CASE Stop
  BY <1>19 DEF Stop
<1>20. CASE StopWorker
  BY <1>20 DEF StopWorker
<1>21. CASE MarkInterrupted
  BY <1>21 DEF MarkInterrupted
<1>22. CASE Crash
  BY <1>22 DEF Crash, Reset
<1>23. CASE Boot
  BY <1>23 DEF Boot, Reset
<1>24. CASE UNCHANGED vars
  BY <1>24
<1>25. QED
  BY <1>1, <1>2, <1>3, <1>4, <1>5, <1>6, <1>7, <1>8, <1>9, <1>10, <1>11, <1>12,
     <1>13, <1>14, <1>15, <1>16, <1>17, <1>18, <1>19, <1>20, <1>21, <1>22, <1>23, <1>24
     DEF Next, Pipeline

\* Nothing begins while the service is paused.
LEMMA PausedStep ==
    ASSUME TypeOK, Owned, PausedIsQuiet, [Next]_vars PROVE PausedIsQuiet'
<1> USE DEF TypeOK, Owned, PausedIsQuiet, Moving, Runs, InLoop, vars, rowVars,
      workVars, waitVars, clockVars
<1>1. ASSUME NEW k \in Kinds, TriggerSkipped(k) PROVE PausedIsQuiet'
  BY <1>1, SchedulerAssumption DEF TriggerSkipped, Busy, Recovering, Newest, Rows
<1>2. ASSUME NEW k \in Kinds, TriggerBegins(k) PROVE PausedIsQuiet'
  BY <1>2, SchedulerAssumption DEF TriggerBegins, Busy, Recovering, Newest, Rows
<1>3. ASSUME NEW x \in Runs, Submit(x) PROVE PausedIsQuiet'
  BY <1>3, SchedulerAssumption DEF Submit
<1>4. ASSUME NEW x \in Runs, PlanEnds(x) PROVE PausedIsQuiet'
  BY <1>4, SchedulerAssumption DEF PlanEnds, LoopFree
<1>5. ASSUME NEW x \in Runs, Execute(x) PROVE PausedIsQuiet'
  BY <1>5, SchedulerAssumption DEF Execute
<1>6. ASSUME NEW x \in Runs, FinalizeRead(x) PROVE PausedIsQuiet'
  BY <1>6, SchedulerAssumption DEF FinalizeRead
<1>7. ASSUME NEW x \in Runs, FinalizeSave(x) PROVE PausedIsQuiet'
  BY <1>7, SchedulerAssumption DEF FinalizeSave
<1>8. ASSUME NEW x \in Runs, Pop(x) \/ CleanUp(x) PROVE PausedIsQuiet'
  <2>1. CASE Pop(x)
    BY <2>1 DEF Pop
  <2>2. CASE CleanUp(x)
    BY <2>2 DEF CleanUp, Rows, Terminal
  <2>3. QED
    BY <1>8, <2>1, <2>2
<1>9. ASSUME NEW x \in Runs, PlanCancelled(x) PROVE PausedIsQuiet'
  BY <1>9, SchedulerAssumption DEF PlanCancelled, LoopFree
<1>10. ASSUME NEW x \in Runs, WaiterAnswered(x) PROVE PausedIsQuiet'
  BY <1>10, SchedulerAssumption DEF WaiterAnswered
<1>11. ASSUME NEW x \in Runs, WaiterGivesUp(x) PROVE PausedIsQuiet'
  BY <1>11, SchedulerAssumption DEF WaiterGivesUp
<1>12. ASSUME NEW x \in Runs, WaiterMarks(x) PROVE PausedIsQuiet'
  BY <1>12, SchedulerAssumption DEF WaiterMarks
<1>13. ASSUME NEW x \in Runs, Overdue(x) PROVE PausedIsQuiet'
  BY <1>13, SchedulerAssumption DEF Overdue
<1>14. ASSUME NEW x \in Runs, Stale(x) PROVE PausedIsQuiet'
  BY <1>14, SchedulerAssumption DEF Stale
<1>15. ASSUME NEW x \in Runs, RollbackRun(x) PROVE PausedIsQuiet'
  BY <1>15, SchedulerAssumption DEF RollbackRun, Rows
<1>16. CASE Watchdog
  BY <1>16 DEF Watchdog, Judged, LoopFree
<1>17. CASE Pause
  BY <1>17 DEF Pause
<1>18. CASE Resume
  BY <1>18 DEF Resume
<1>19. CASE Stop
  BY <1>19 DEF Stop
<1>20. CASE StopWorker
  BY <1>20 DEF StopWorker
<1>21. CASE MarkInterrupted
  BY <1>21 DEF MarkInterrupted
<1>22. CASE Crash
  BY <1>22 DEF Crash, Reset
<1>23. CASE Boot
  BY <1>23 DEF Boot, Reset
<1>24. CASE UNCHANGED vars
  BY <1>24
<1>25. QED
  BY <1>1, <1>2, <1>3, <1>4, <1>5, <1>6, <1>7, <1>8, <1>9, <1>10, <1>11, <1>12,
     <1>13, <1>14, <1>15, <1>16, <1>17, <1>18, <1>19, <1>20, <1>21, <1>22, <1>23, <1>24
     DEF Next, Pipeline

\* The row of a pipeline that committed keeps saying so.
LEMMA MarkedStep ==
    ASSUME TypeOK, Staged, Marked, [Next]_vars PROVE Marked'
<1> USE DEF TypeOK, Staged, Marked, Runs, Outcomes, InLoop, vars, rowVars,
      workVars, waitVars, clockVars
<1>1. ASSUME NEW k \in Kinds, TriggerSkipped(k) PROVE Marked'
  BY <1>1, SchedulerAssumption DEF TriggerSkipped, Busy, Recovering, Newest, Rows
<1>2. ASSUME NEW k \in Kinds, TriggerBegins(k) PROVE Marked'
  BY <1>2, SchedulerAssumption DEF TriggerBegins, Busy, Recovering, Newest, Rows
<1>3. ASSUME NEW x \in Runs, Submit(x) PROVE Marked'
  BY <1>3, SchedulerAssumption DEF Submit
<1>4. ASSUME NEW x \in Runs, PlanEnds(x) PROVE Marked'
  BY <1>4, SchedulerAssumption DEF PlanEnds, LoopFree
<1>5. ASSUME NEW x \in Runs, Execute(x) PROVE Marked'
  BY <1>5, SchedulerAssumption DEF Execute
<1>6. ASSUME NEW x \in Runs, FinalizeRead(x) PROVE Marked'
  BY <1>6, SchedulerAssumption DEF FinalizeRead
<1>7. ASSUME NEW x \in Runs, FinalizeSave(x) PROVE Marked'
  BY <1>7, SchedulerAssumption DEF FinalizeSave
<1>8. ASSUME NEW x \in Runs, Pop(x) \/ CleanUp(x) PROVE Marked'
  <2>1. CASE Pop(x)
    BY <2>1 DEF Pop
  <2>2. CASE CleanUp(x)
    BY <2>2 DEF CleanUp, Rows, Terminal
  <2>3. QED
    BY <1>8, <2>1, <2>2
<1>9. ASSUME NEW x \in Runs, PlanCancelled(x) PROVE Marked'
  BY <1>9, SchedulerAssumption DEF PlanCancelled, LoopFree
<1>10. ASSUME NEW x \in Runs, WaiterAnswered(x) PROVE Marked'
  BY <1>10, SchedulerAssumption DEF WaiterAnswered
<1>11. ASSUME NEW x \in Runs, WaiterGivesUp(x) PROVE Marked'
  BY <1>11, SchedulerAssumption DEF WaiterGivesUp
<1>12. ASSUME NEW x \in Runs, WaiterMarks(x) PROVE Marked'
  BY <1>12, SchedulerAssumption DEF WaiterMarks
<1>13. ASSUME NEW x \in Runs, Overdue(x) PROVE Marked'
  BY <1>13, SchedulerAssumption DEF Overdue
<1>14. ASSUME NEW x \in Runs, Stale(x) PROVE Marked'
  BY <1>14, SchedulerAssumption DEF Stale
<1>15. ASSUME NEW x \in Runs, RollbackRun(x) PROVE Marked'
  BY <1>15, SchedulerAssumption DEF RollbackRun, Rows
<1>16. CASE Watchdog
  BY <1>16 DEF Watchdog, Judged, LoopFree
<1>17. CASE Pause
  BY <1>17 DEF Pause
<1>18. CASE Resume
  BY <1>18 DEF Resume
<1>19. CASE Stop
  BY <1>19 DEF Stop
<1>20. CASE StopWorker
  BY <1>20 DEF StopWorker
<1>21. CASE MarkInterrupted
  BY <1>21 DEF MarkInterrupted
<1>22. CASE Crash
  <2>1. \A r \in Runs : work'[r] \in {"none", "over"}
    BY <1>22 DEF Crash, Reset
  <2>2. ASSUME NEW r \in Runs, result'[r] = "committed", r \notin crossed'
        PROVE  status'[r] \in {"running", "committed", "recovery_required", "gone"}
    <3>1. result[r] = "committed" /\ r \notin crossed
      BY <1>22, <2>2 DEF Crash, Reset
    <3>2. QED
      BY <1>22, <2>2, <3>1 DEF Crash, Reset, Stages
  <2>3. life' = "down"
    BY <1>22 DEF Crash
  <2>4. ASSUME NEW r \in Runs, result'[r] = "committed", work'[r] = "pop"
        PROVE  FALSE
    BY <2>1, <2>4
  <2>5. QED
    BY <2>1, <2>2, <2>3, <2>4
<1>23. CASE Boot
  <2>1. \A r \in Runs : work'[r] \in {"none", "over"}
    BY <1>23 DEF Boot, Reset
  <2>2. ASSUME NEW r \in Runs, result'[r] = "committed", r \notin crossed'
        PROVE  status'[r] \in {"committed", "recovery_required", "gone"}
    <3>1. result[r] = "committed" /\ r \notin crossed
      BY <1>23, <2>2 DEF Boot, Reset
    <3>2. status[r] \in {"running", "committed", "recovery_required", "gone"}
      BY <1>23, <2>2, <3>1 DEF Boot, Reset, Stages
    <3>3. QED
      BY <1>23, <3>2 DEF Boot
  <2>3. QED
    BY <2>1, <2>2
<1>24. CASE UNCHANGED vars
  BY <1>24
<1>25. QED
  BY <1>1, <1>2, <1>3, <1>4, <1>5, <1>6, <1>7, <1>8, <1>9, <1>10, <1>11, <1>12,
     <1>13, <1>14, <1>15, <1>16, <1>17, <1>18, <1>19, <1>20, <1>21, <1>22, <1>23, <1>24
     DEF Next, Pipeline

----------------------------------------------------------------------------
(* The theorems.                                                           *)

\* A scheduler that starts has no runs to account for.
LEMMA InitIInv == Init => IInv
  <1> SUFFICES ASSUME Init PROVE IInv
    OBVIOUS
  <1>1. TypeOK
    <2>1. /\ status \in [Runs -> Statuses] /\ work \in [Runs -> Stages]
          /\ result \in [Runs -> Outcomes \cup {"none"}]
          /\ seen \in [Runs -> Statuses]
          /\ waiter \in [Runs -> {"none", "waiting", "marking", "answered"}]
      BY DEF Init, Statuses, Stages
    <2>2. last \in 0..MaxRuns /\ boots \in 0..MaxBoots
      BY SchedulerAssumption DEF Init
    <2>3. QED
      BY <2>1, <2>2 DEF Init, TypeOK
  <1>2. Owned /\ Staged /\ PausedIsQuiet /\ Marked
    BY DEF Init, Owned, Staged, PausedIsQuiet, Marked, Moving, InLoop
  <1>3. QED
    BY <1>1, <1>2 DEF IInv

\* The strengthened invariant holds in every reachable state.
THEOREM Invariance == Spec => []IInv
  <1>1. IInv /\ [Next]_vars => IInv'
    BY TypeStep, OwnedStep, StagedStep, PausedStep, MarkedStep DEF IInv
  <1>2. QED
    BY InitIInv, <1>1, PTL DEF Spec

\* Every variable keeps its type.
THEOREM TypeCorrect == Spec => []TypeOK
  BY Invariance, PTL DEF IInv

\* _active_runs knows every row that says running while the service is up:
\* the watchdog, the timeout and the shutdown miss none.
THEOREM OwnedHolds == Spec => []RunningIsOwned
  <1>1. IInv => RunningIsOwned
    BY DEF IInv, Owned, RunningIsOwned
  <1>2. QED
    BY <1>1, Invariance, PTL

\* pause_for_reconfigure answers True only when no pipeline is left, and
\* _begin_run lets none begin until resume_after_reconfigure.
THEOREM PausedHolds == Spec => []PausedIsQuiet
  BY Invariance, PTL DEF IInv

\* A committed automatic execution stays visible in the run log.
THEOREM CommittedHolds == Spec => []CommittedIsVisible
  <1>1. IInv => CommittedIsVisible
    BY DEF IInv, Marked, CommittedIsVisible
  <1>2. QED
    BY <1>1, Invariance, PTL

\* What each of the actions does to a row that is marked timed out.
LEMMA LateStep ==
    ASSUME IInv, [Next]_vars, NEW q \in Runs, status[q] = "timed_out", q \notin crossed
    PROVE  status'[q] \notin {"previewed", "committed"}
<1> USE DEF IInv, TypeOK, Runs, Marked
<1>1. ASSUME NEW k \in Kinds, TriggerSkipped(k)
      PROVE status'[q] \notin {"previewed", "committed"}
  BY <1>1, SchedulerAssumption DEF TriggerSkipped, Busy, Recovering, Newest, Rows
<1>2. ASSUME NEW k \in Kinds, TriggerBegins(k)
      PROVE status'[q] \notin {"previewed", "committed"}
  BY <1>2, SchedulerAssumption DEF TriggerBegins, Busy, Recovering, Newest, Rows
<1>3. ASSUME NEW x \in Runs, FinalizeSave(x)
      PROVE status'[q] \notin {"previewed", "committed"}
  BY <1>3, SchedulerAssumption DEF FinalizeSave
<1>4. ASSUME NEW x \in Runs, WaiterMarks(x)
      PROVE status'[q] \notin {"previewed", "committed"}
  BY <1>4, SchedulerAssumption DEF WaiterMarks
<1>5. ASSUME NEW x \in Runs, RollbackRun(x)
      PROVE status'[q] \notin {"previewed", "committed"}
  BY <1>5, SchedulerAssumption DEF RollbackRun
<1>6. CASE Watchdog
  BY <1>6 DEF Watchdog, Judged
<1>7. CASE MarkInterrupted
  BY <1>7 DEF MarkInterrupted
<1>8. CASE Boot
  BY <1>8 DEF Boot
<1>9. ASSUME NEW x \in Runs, CleanUp(x)
      PROVE status'[q] \notin {"previewed", "committed"}
  BY <1>9 DEF CleanUp
<1>10. CASE UNCHANGED status
  BY <1>10
<1>11. QED
  BY <1>1, <1>2, <1>3, <1>4, <1>5, <1>6, <1>7, <1>8, <1>9, <1>10
     DEF Next, Pipeline, vars, rowVars, Submit, PlanEnds, Execute, FinalizeRead, Pop, PlanCancelled,
         WaiterAnswered, WaiterGivesUp, Overdue, Stale, Pause, Resume, Stop, StopWorker, Crash

\* A result that comes after the timeout mark never turns the run into a
\* success (_finalize).
THEOREM LateHolds == Spec => LateResultIsFlagged
  <1>1. IInv /\ [Next]_vars =>
          [\A r \in Runs : (status[r] = "timed_out" /\ r \notin crossed) =>
                status'[r] \notin {"previewed", "committed"}]_vars
    BY LateStep
  <1>2. QED
    BY <1>1, Invariance, PTL DEF Spec, LateResultIsFlagged
============================================================================
