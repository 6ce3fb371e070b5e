----------------------------- MODULE AgentJobs -----------------------------
(***************************************************************************)
(* One controlled job of the agent service: plan, accept, roll back, undo  *)
(* and explicit recovery (server/agents/service.py, server/recovery/).     *)
(*                                                                         *)
(* A job holds its actions and the hashes its preview was computed from.   *)
(* An accept journals every step in index.db before it writes the Vault,   *)
(* and every Vault write compares a content hash first.  Accept, reject    *)
(* and undo exclude each other by the job's lock; the recovery of          *)
(* the scheduler's API takes no lock and reads the database, while accept  *)
(* and undo read a record cached in memory.  An editor may save or remove  *)
(* a file at any point, and the process may die between any two steps.     *)
(*                                                                         *)
(* A content stands for a file's bytes and for their hash.  Every save of  *)
(* the editor is a new content, so equal contents mean the same write.     *)
(***************************************************************************)
EXTENDS Integers, Sequences, FiniteSets

CONSTANTS
    Paths,        \* Vault-relative paths
    Plans,        \* the action sequences a job may propose
    Absent,       \* "no file here"
    MaxEdits,     \* bound: saves of the editor
    MaxCrashes,   \* bound: deaths of the process
    MaxAccepts    \* bound: accepts that get as far as executing

Original(p) == <<"original", p>>     \* what the Vault holds at first
Written(i) == <<"written", i>>       \* what action i of the job writes
Edit(n) == <<"edit", n>>             \* the n-th save of the editor

\* action: "update", "create" or "move"; target is a move's target_file.
Actions == [kind : {"update", "create", "move"}, file : Paths, target : Paths]

ASSUME JobsAssumption ==
    /\ MaxEdits \in Nat /\ MaxCrashes \in Nat /\ MaxAccepts \in Nat
    /\ \A acts \in Plans : acts \in Seq(Actions) /\ acts # <<>>
    /\ \A acts \in Plans : \A i \in DOMAIN acts :
          (acts[i].kind = "move") = (acts[i].file # acts[i].target)
    /\ \A p \in Paths : Absent # Original(p)
    /\ \A acts \in Plans : \A i \in DOMAIN acts : Absent # Written(i)

VARIABLES
    file,         \* the Vault: [Paths -> content or Absent]
    plan,         \* proposed_actions
    preview,      \* the Vault as the preview saw it (before_hash)
    db,           \* the ai_jobs row: [status, executed]
    cache,        \* AgentJobService._jobs[job_id], or NoRecord
    journal,      \* ai_job_journal: a function from seq to row
    \* the thread that holds the job's lock
    pc, ops,
    applied,      \* contents the Vault reported for the steps done so far
    todo, seq,
    \* the thread inside rollback_if_safe
    rpc, rtodo, rseq,
    \* environment and history
    edits,        \* saves so far
    touched,      \* paths the editor wrote or removed since the preview
    window,       \* saves in the middle of a Vault call of the job
    lost,         \* saves a step of the job overwrote or removed
    blur,         \* what has happened that the record cannot tell
    crashes, accepts

fileVars == <<file, edits, touched, window, lost>>
recVars == <<db, cache>>
lockVars == <<pc, ops, applied, todo, seq>>
recoveryVars == <<rpc, rtodo, rseq>>
vars == <<file, plan, preview, db, cache, journal, pc, ops, applied, todo, seq,
          rpc, rtodo, rseq, edits, touched, window, lost, blur, crashes,
          accepts>>
limitVars == <<crashes, accepts>>

NoRecord == [status |-> "none", executed |-> {}]
Statuses == {"none", "awaiting", "executing", "committed", "rejected",
             "rolled_back", "failed", "undone", "rollback_failed",
             "recovery_required"}
Steps == {"idle", "journal", "apply", "mark_applied", "commit", "mark_pending",
          "rollback", "mark_rolled_back", "mark_rollback_failed",
          "finish_rolled_back", "finish_rollback_failed",
          "undo_restore", "undo_audit", "undo_finish"}
RecoverySteps == {"idle", "nothing", "restore", "audit", "mark", "finish",
                  "mark_failed"}
Blurs == {"raced", "leftover", "torn", "half_undone"}

----------------------------------------------------------------------------
(* Vault calls.  A step is [op, path, source, before, after]: source is a  *)
(* move's, and before and after are the hashes it is guarded with.         *)

CanApply(f, s) ==
    \/ s.op = "update" /\ f[s.path] = s.before
    \/ s.op = "create" /\ f[s.path] = Absent
    \/ s.op = "move" /\ f[s.source] = s.before /\ f[s.path] = Absent

Apply(f, s) ==
    IF s.op = "move"
    THEN [f EXCEPT ![s.path] = f[s.source], ![s.source] = Absent]
    ELSE [f EXCEPT ![s.path] = s.after]

\* Mutant: the inverse does not compare the hash.
CanRestoreMut(f, s, after) ==
    /\ f[s.path] # Absent
    /\ s.op = "move" => f[s.source] = Absent

\* write_bytes, delete_file and move_file with expected_sha256 = after
CanRestore(f, s, after) ==
    /\ f[s.path] = after
    /\ s.op = "move" => f[s.source] = Absent

Restore(f, s) ==
    IF s.op = "move"
    THEN [f EXCEPT ![s.source] = f[s.path], ![s.path] = Absent]
    ELSE [f EXCEPT ![s.path] = s.before]

\* How a Vault call ends: hit is where the editor saved in the middle of it.
Ended(ok, tree, seen, hit) ==
    [ok |-> ok, tree |-> tree, seen |-> seen, hit |-> hit,
     saves |-> IF hit = {} THEN edits ELSE edits + 1]

\* Every way a call that would turn the tree into g can end when the editor
\* leaves it alone.  It may fail before it writes; fail after it (a directory
\* fsync, a check of the written file); or succeed.
Undisturbed(can, g, p) ==
    {Ended(FALSE, file, Absent, {})}
    \cup (IF can THEN {Ended(FALSE, g, Absent, {}), Ended(TRUE, g, g[p], {})} ELSE {})

\* One save in the middle of it.  The last hash check and the os.replace or
\* unlink that follows are two system calls: what is saved in between is gone.
\* So is what is saved at the new name of a move before that is checked, for
\* the check fails and removes it.  A save behind the replace is found when
\* the path is read back.
Disturbed(g, p, op) ==
    LET Taken == {q \in Paths : file[q] # Absent /\ g[q] # file[q]}
        Linked == {q \in Paths : op = "move" /\ file[q] = Absent /\ g[q] # Absent}
    IN  {Ended(FALSE, g, Absent, {q}) : q \in Taken}
        \cup {Ended(TRUE, g, g[p], {q}) : q \in Taken}
        \cup {Ended(FALSE, file, Absent, {q}) : q \in Linked}
        \cup (IF op \in {"update", "delete"}
              THEN {Ended(TRUE, [g EXCEPT ![p] = Edit(edits + 1)], Edit(edits + 1), {p})}
              ELSE {})

Outcomes(can, g, p, op) ==
    Undisturbed(can, g, p)
    \cup (IF can /\ edits < MaxEdits THEN Disturbed(g, p, op) ELSE {})

ApplyOutcomes(s) == Outcomes(CanApply(file, s), Apply(file, s), s.path, s.op)

\* The inverse also fails when what it reads back is not the before-state.
RestoreOutcomes(s, after) ==
    LET put == IF s.op = "move" THEN s.source ELSE s.path
        op == IF s.op = "create" THEN "delete" ELSE s.op
    IN  {[o EXCEPT !.ok = o.ok /\ o.seen = s.before] :
            o \in Outcomes(CanRestore(file, s, after), Restore(file, s), put, op)}

IsEdit(c) == c # Absent /\ c[1] = "edit"

\* The tree after a call, and which saves of the editor it destroyed.
Took(o) ==
    /\ file' = o.tree
    /\ edits' = o.saves
    /\ window' = window \cup {Edit(o.saves) : q \in o.hit}
    /\ touched' = touched \cup o.hit
    /\ lost' = lost \cup {c \in {file[q] : q \in Paths} \cup {Edit(o.saves) : q \in o.hit} :
                            IsEdit(c) /\ \A q \in Paths : o.tree[q] # c}

----------------------------------------------------------------------------
(* plan, accept and reject.                                                *)

\* The policy denies an update or a move of a missing file, and a create or
\* a move onto an existing one.
Allowed(f, acts) ==
    \A a \in acts :
        /\ a.kind = "create" => f[a.file] = Absent
        /\ a.kind # "create" => f[a.file] # Absent
        /\ a.kind = "move" => f[a.target] = Absent

Chosen(sel) == {plan[i] : i \in sel}

Plan(acts) ==
    /\ db = NoRecord /\ pc = "idle"
    /\ plan' = acts /\ preview' = file
    /\ db' = [status |-> IF Allowed(file, {acts[i] : i \in DOMAIN acts})
                         THEN "awaiting" ELSE "failed",
              executed |-> {}]
    /\ cache' = db'
    /\ UNCHANGED <<fileVars, journal, lockVars, recoveryVars, blur, limitVars>>

\* _load: the cached record if there is one, the database's otherwise.
Loaded == IF cache # NoRecord THEN cache ELSE db

\* A read of the job (get_job) is enough to cache its record.
Load ==
    /\ cache = NoRecord /\ db # NoRecord
    /\ cache' = db
    /\ UNCHANGED <<fileVars, plan, preview, db, journal, lockVars, recoveryVars,
                   blur, limitVars>>

StepOf(i) ==
    LET a == plan[i]
    IN  [op |-> a.kind, action |-> i,
         path |-> IF a.kind = "move" THEN a.target ELSE a.file,
         source |-> a.file,
         before |-> IF a.kind = "create" THEN Absent ELSE file[a.file],
         after |-> IF a.kind = "move" THEN file[a.file] ELSE Written(i)]

\* The selected actions in the order they were proposed.
InOrder(sel) ==
    [n \in 1..Cardinality(sel) |->
        CHOOSE i \in sel : Cardinality({j \in sel : j < i}) = n - 1]

\* _assert_preview_hashes
PreviewHolds(sel) ==
    \A i \in sel : plan[i].kind # "create" =>
        file[plan[i].file] = preview[plan[i].file]

Executable(row) == row.op # "undo"
\* The journal still has rows of an earlier accept of some of the actions.
Leftover == Loaded.executed # {}

\* accept with a subset of the actions, up to the save of "executing".
Accept(sel) ==
    /\ accepts < MaxAccepts /\ accepts' = accepts + 1
    /\ pc = "idle" /\ Loaded.status = "awaiting"
    /\ PreviewHolds(sel) /\ Allowed(file, Chosen(sel))
    /\ db' = [Loaded EXCEPT !.status = "executing"]
    /\ cache' = Loaded
    /\ ops' = [n \in 1..Cardinality(sel) |-> StepOf(InOrder(sel)[n])]
    /\ pc' = "journal" /\ applied' = <<>>
    /\ blur' = blur \cup (IF rpc # "idle" THEN {"raced"} ELSE {})
                    \cup (IF Leftover THEN {"leftover"} ELSE {})
    /\ UNCHANGED <<fileVars, plan, preview, journal, todo, seq, recoveryVars,
                   crashes>>

Reject ==
    /\ pc = "idle" /\ Loaded.status = "awaiting" /\ Loaded.executed = {}
    /\ db' = [Loaded EXCEPT !.status = "rejected"] /\ cache' = db'
    /\ UNCHANGED <<fileVars, plan, preview, journal, lockVars, recoveryVars,
                   blur, limitVars>>

----------------------------------------------------------------------------
(* TransactionExecutor.execute and the rest of _execute_locked.            *)

Goto(s) == pc' = s /\ UNCHANGED <<ops, applied, todo, seq>>

\* The record survives these steps.
SameRecord == UNCHANGED <<recVars, plan, preview>>

NextStep == Len(applied) + 1      \* the step about to be journaled or applied

\* INSERT OR REPLACE
Put(s, row) ==
    journal' = [t \in DOMAIN journal \cup {s} |-> IF t = s THEN row ELSE journal[t]]

RowOf(s) == [op |-> s.op, action |-> s.action, path |-> s.path,
             source |-> s.source, before |-> s.before, after |-> s.after,
             state |-> "pending"]

\* Mutant: the row is not written before the step.
ExecJournalMut ==
    /\ pc = "journal"
    /\ Goto("apply")
    /\ SameRecord /\ UNCHANGED <<fileVars, journal, recoveryVars, blur, limitVars>>

ExecJournal ==
    /\ pc = "journal"
    /\ Put(Len(applied), RowOf(ops[NextStep]))
    /\ Goto("apply")
    /\ SameRecord /\ UNCHANGED <<fileVars, recoveryVars, blur, limitVars>>

\* What follows a failure: nothing was done, or the done steps roll back.
AfterFailure == IF applied = <<>> THEN "mark_pending" ELSE "rollback"

\* The row does not fit the journal's byte budget, or the database fails.
ExecJournalFails ==
    /\ pc = "journal" /\ Goto(AfterFailure)
    /\ SameRecord /\ UNCHANGED <<fileVars, journal, recoveryVars, blur, limitVars>>

ExecApply ==
    /\ pc = "apply"
    /\ \E o \in ApplyOutcomes(ops[NextStep]) :
        /\ Took(o)
        /\ IF o.ok
           THEN /\ applied' = Append(applied, o.seen)
                /\ pc' = IF NextStep = Len(ops) THEN "mark_applied" ELSE "journal"
                /\ UNCHANGED blur
           ELSE /\ pc' = AfterFailure
                /\ blur' = blur \cup (IF o.tree # file THEN {"torn"} ELSE {})
                /\ UNCHANGED applied
    /\ SameRecord /\ UNCHANGED <<journal, ops, todo, seq, recoveryVars, limitVars>>

\* set_journal_state touches every row of the job.
MarkJournal(state) ==
    journal' = [s \in DOMAIN journal |-> [journal[s] EXCEPT !.state = state]]

ExecMark(from, state, to) ==
    /\ pc = from /\ MarkJournal(state) /\ Goto(to)
    /\ SameRecord /\ UNCHANGED <<fileVars, recoveryVars, blur, limitVars>>

ExecMarkApplied == ExecMark("mark_applied", "applied", "commit")
\* "conflict before any write": the handler raises and saves nothing.
ExecMarkPending == ExecMark("mark_pending", "pending", "idle")
ExecMarkRolledBack == ExecMark("mark_rolled_back", "rolled_back", "finish_rolled_back")
ExecMarkRollbackFailed ==
    ExecMark("mark_rollback_failed", "rolled_back", "finish_rollback_failed")

\* Mutant: only the last step is rolled back.
ExecRollbackMut ==
    /\ pc = "rollback"
    /\ LET n == Len(applied) IN
       \E o \in RestoreOutcomes(ops[n], applied[n]) :
        /\ Took(o)
        /\ applied' = IF o.ok THEN <<>> ELSE applied
        /\ pc' = IF o.ok THEN "mark_rolled_back" ELSE "mark_rollback_failed"
    /\ SameRecord
    /\ UNCHANGED <<journal, ops, todo, seq, recoveryVars, blur, limitVars>>

\* The inverses, last step first, guarded with the hashes the Vault reported.
ExecRollback ==
    /\ pc = "rollback"
    /\ LET n == Len(applied) IN
       \E o \in RestoreOutcomes(ops[n], applied[n]) :
        /\ Took(o)
        /\ IF o.ok
           THEN /\ applied' = SubSeq(applied, 1, n - 1)
                /\ pc' = IF n = 1 THEN "mark_rolled_back" ELSE "rollback"
           ELSE pc' = "mark_rollback_failed" /\ UNCHANGED applied
    /\ SameRecord
    /\ UNCHANGED <<journal, ops, todo, seq, recoveryVars, blur, limitVars>>

\* The lock's holder saves the record it loaded, with a new status.
SaveRecord(rec) ==
    /\ db' = rec /\ cache' = rec /\ pc' = "idle"
    /\ ops' = <<>> /\ applied' = <<>> /\ todo' = <<>> /\ seq' = 0
    /\ UNCHANGED <<fileVars, plan, preview, journal, recoveryVars, blur, limitVars>>

Selected == {ops[n].action : n \in DOMAIN ops}

\* Mutant: a partial accept commits the job.
ExecCommitMut ==
    /\ pc = "commit"
    /\ SaveRecord([status |-> "committed",
                   executed |-> cache.executed \cup Selected])

ExecCommit ==
    /\ pc = "commit"
    /\ SaveRecord([status |-> IF Selected = DOMAIN plan
                              THEN "committed" ELSE "awaiting",
                   executed |-> cache.executed \cup Selected])

ExecFinish(from, status) ==
    /\ pc = from
    /\ SaveRecord([cache EXCEPT !.status = status])

----------------------------------------------------------------------------
(* UndoService.undo.                                                       *)

\* The job's rows in reverse order, and the seq after the last one.
Backwards(S) ==
    [n \in 1..Cardinality(S) |->
        journal[CHOOSE s \in S : Cardinality({t \in S : t > s}) = n - 1]]
NextSeq == 1 + (CHOOSE s \in DOMAIN journal : \A t \in DOMAIN journal : t <= s)

Undo ==
    /\ pc = "idle" /\ Loaded.status = "committed"
    /\ DOMAIN journal # {}
    /\ \A s \in DOMAIN journal : Executable(journal[s])
    /\ cache' = Loaded
    /\ pc' = "undo_restore" /\ todo' = Backwards(DOMAIN journal)
    /\ seq' = NextSeq
    /\ blur' = blur \cup {"half_undone"}
                    \cup (IF rpc # "idle" THEN {"raced"} ELSE {})
    /\ UNCHANGED <<fileVars, plan, preview, db, journal, ops, applied,
                   recoveryVars, limitVars>>

UndoRestore ==
    /\ pc = "undo_restore"
    /\ \E o \in RestoreOutcomes(Head(todo), Head(todo).after) :
        /\ Took(o)
        /\ pc' = IF o.ok THEN "undo_audit" ELSE "idle"
    /\ SameRecord
    /\ UNCHANGED <<journal, ops, applied, todo, seq, recoveryVars, blur, limitVars>>

AuditRow(row) == [row EXCEPT !.op = "undo", !.after = Absent, !.state = "applied"]

\* Mutant: undo stops after the first entry.
UndoAuditMut ==
    /\ pc = "undo_audit"
    /\ Put(seq, AuditRow(Head(todo)))
    /\ todo' = Tail(todo) /\ seq' = seq + 1
    /\ pc' = "undo_finish"
    /\ SameRecord /\ UNCHANGED <<fileVars, ops, applied, recoveryVars, blur, limitVars>>

UndoAudit ==
    /\ pc = "undo_audit"
    /\ Put(seq, AuditRow(Head(todo)))
    /\ todo' = Tail(todo) /\ seq' = seq + 1
    /\ pc' = IF Tail(todo) = <<>> THEN "undo_finish" ELSE "undo_restore"
    /\ SameRecord /\ UNCHANGED <<fileVars, ops, applied, recoveryVars, blur, limitVars>>

UndoFinish ==
    /\ pc = "undo_finish"
    /\ SaveRecord([cache EXCEPT !.status = "undone"])

----------------------------------------------------------------------------
(* RecoveryService.rollback_if_safe, called through the scheduler's API.   *)

Flagged == db.status \in {"recovery_required", "executing"}

Uncertain == {s \in DOMAIN journal :
                 Executable(journal[s]) /\ journal[s].state \in {"pending", "applied"}}
\* Pass 1: ours, untouched, or changed by someone else.
Ours(s) == file[journal[s].path] = journal[s].after
\* Mutant: a missing file counts as changed.
UntouchedMut(s) == file[journal[s].path] = journal[s].before

Untouched(s) == file[journal[s].path] \in {Absent, journal[s].before}

Recover ==
    /\ rpc = "idle" /\ Flagged
    /\ \A s \in Uncertain : Ours(s) \/ Untouched(s)
    /\ rtodo' = Backwards({s \in Uncertain : Ours(s)})
    /\ rseq' = IF Uncertain = {} THEN 0 ELSE NextSeq
    /\ rpc' = IF Uncertain = {} THEN "nothing"
              ELSE IF rtodo' = <<>> THEN "mark" ELSE "restore"
    /\ blur' = blur \cup (IF pc # "idle" THEN {"raced"} ELSE {})
    /\ SameRecord /\ UNCHANGED <<fileVars, journal, lockVars, limitVars>>

RecoverRestore ==
    /\ rpc = "restore"
    /\ \E o \in RestoreOutcomes(Head(rtodo), Head(rtodo).after) :
        /\ Took(o)
        /\ rpc' = IF o.ok THEN "audit" ELSE "mark_failed"
    /\ SameRecord
    /\ UNCHANGED <<journal, lockVars, rtodo, rseq, blur, limitVars>>

RecoverAudit ==
    /\ rpc = "audit"
    /\ Put(rseq, AuditRow(Head(rtodo)))
    /\ rtodo' = Tail(rtodo) /\ rseq' = rseq + 1
    /\ rpc' = IF Tail(rtodo) = <<>> THEN "mark" ELSE "restore"
    /\ SameRecord /\ UNCHANGED <<fileVars, lockVars, blur, limitVars>>

RecoverMark ==
    /\ rpc \in {"mark", "mark_failed"}
    /\ MarkJournal("rolled_back")
    /\ rpc' = IF rpc = "mark" THEN "finish" ELSE "idle"
    /\ rtodo' = <<>> /\ rseq' = 0
    /\ SameRecord /\ UNCHANGED <<fileVars, lockVars, blur, limitVars>>

\* _finish_recovery_record: the database's record, not the cached one.
RecoverFinish ==
    /\ rpc \in {"nothing", "finish"}
    /\ db' = [db EXCEPT !.status = IF rpc = "finish" THEN "rolled_back" ELSE "failed"]
    /\ rpc' = "idle" /\ rtodo' = <<>> /\ rseq' = 0
    /\ UNCHANGED <<fileVars, plan, preview, cache, journal, lockVars, blur, limitVars>>

----------------------------------------------------------------------------
(* The editor, and the death of the process.  What happened before the     *)
(* preview is part of the original contents, and no step of the job reads  *)
(* a path that its plan does not name.                                     *)

PlanPaths == UNION {{plan[i].file, plan[i].target} : i \in DOMAIN plan}

EditorSave(p) ==
    /\ db # NoRecord /\ edits < MaxEdits
    /\ edits' = edits + 1 /\ file' = [file EXCEPT ![p] = Edit(edits + 1)]
    /\ touched' = touched \cup {p}
    /\ UNCHANGED <<plan, preview, recVars, journal, lockVars, recoveryVars,
                   window, lost, blur, limitVars>>

EditorDelete(p) ==
    /\ db # NoRecord /\ edits < MaxEdits /\ file[p] # Absent
    /\ edits' = edits + 1 /\ file' = [file EXCEPT ![p] = Absent]
    /\ touched' = touched \cup {p}
    /\ UNCHANGED <<plan, preview, recVars, journal, lockVars, recoveryVars,
                   window, lost, blur, limitVars>>

\* move_file links the new name before it unlinks the old one.
HalfMoves ==
    LET Linked(from, to) == [file EXCEPT ![to] = file[from]]
        Back(s, after) == IF s.op = "move" /\ CanRestore(file, s, after)
                          THEN {Linked(s.path, s.source)} ELSE {}
    IN  (IF pc = "apply" /\ ops[NextStep].op = "move" /\ CanApply(file, ops[NextStep])
         THEN {Linked(ops[NextStep].source, ops[NextStep].path)} ELSE {})
        \cup (IF pc = "rollback"
              THEN Back(ops[Len(applied)], applied[Len(applied)]) ELSE {})
        \cup (IF pc = "undo_restore" THEN Back(Head(todo), Head(todo).after) ELSE {})
        \cup (IF rpc = "restore" THEN Back(Head(rtodo), Head(rtodo).after) ELSE {})

\* The next start scans the database and flags what was executing.
CrashAndRestart ==
    /\ crashes < MaxCrashes /\ crashes' = crashes + 1
    /\ file' \in {file} \cup HalfMoves
    /\ cache' = NoRecord
    /\ db' = [db EXCEPT !.status = IF @ = "executing" THEN "recovery_required" ELSE @]
    /\ pc' = "idle" /\ ops' = <<>> /\ applied' = <<>> /\ todo' = <<>> /\ seq' = 0
    /\ rpc' = "idle" /\ rtodo' = <<>> /\ rseq' = 0
    /\ UNCHANGED <<plan, preview, journal, edits, touched, window, lost, blur, accepts>>

----------------------------------------------------------------------------

Init ==
    /\ file \in [Paths -> {Absent} \cup {Original(p) : p \in Paths}]
    /\ \A p \in Paths : file[p] \in {Absent, Original(p)}
    /\ plan = <<>> /\ preview = file
    /\ db = NoRecord /\ cache = NoRecord /\ journal = [s \in {} |-> NoRecord]
    /\ pc = "idle" /\ ops = <<>> /\ applied = <<>> /\ todo = <<>> /\ seq = 0
    /\ rpc = "idle" /\ rtodo = <<>> /\ rseq = 0
    /\ edits = 0 /\ touched = {} /\ window = {} /\ lost = {} /\ blur = {}
    /\ crashes = 0 /\ accepts = 0

Next ==
    \/ \E acts \in Plans : Plan(acts)
    \/ \E sel \in (SUBSET (DOMAIN plan)) \ {{}} : Accept(sel)
    \/ Reject \/ Load
    \/ ExecJournal \/ ExecJournalFails \/ ExecApply
    \/ ExecMarkApplied \/ ExecMarkPending \/ ExecCommit
    \/ ExecRollback \/ ExecMarkRolledBack \/ ExecMarkRollbackFailed
    \/ ExecFinish("finish_rolled_back", "rolled_back")
    \/ ExecFinish("finish_rollback_failed", "rollback_failed")
    \/ Undo \/ UndoRestore \/ UndoAudit \/ UndoFinish
    \/ Recover \/ RecoverRestore \/ RecoverAudit \/ RecoverMark \/ RecoverFinish
    \/ \E p \in PlanPaths : EditorSave(p) \/ EditorDelete(p)
    \/ CrashAndRestart

Spec == Init /\ [][Next]_vars

----------------------------------------------------------------------------
(* Properties.                                                             *)

Contents == {Absent} \cup {Original(p) : p \in Paths}
            \cup {Written(i) : i \in DOMAIN plan} \cup {Edit(n) : n \in 1..MaxEdits}
Records == [status : Statuses, executed : SUBSET DOMAIN plan]
Rows == [op : {"update", "create", "move", "undo"}, action : DOMAIN plan,
         path : Paths, source : Paths, before : Contents, after : Contents,
         state : {"pending", "applied", "rolled_back"}]

\* The tables, the cached record and the two threads keep their shapes.
TypeOK ==
    /\ file \in [Paths -> Contents] /\ preview \in [Paths -> Contents]
    /\ db \in Records /\ cache \in Records
    /\ \A s \in DOMAIN journal : s \in Nat /\ journal[s] \in Rows
    /\ pc \in Steps /\ rpc \in RecoverySteps
    /\ Len(applied) <= Len(ops)
    /\ seq \in Nat /\ rseq \in Nat
    /\ lost \subseteq Contents /\ window \subseteq Contents
    /\ touched \subseteq Paths /\ blur \subseteq Blurs

\* What the record promises: the preview with the executed actions done.
Promised(done) ==
    LET f[i \in 0..Len(plan)] ==
            IF i = 0 THEN preview
            ELSE LET a == plan[i] IN
                 IF i \notin done THEN f[i - 1]
                 ELSE IF a.kind = "move"
                 THEN [f[i - 1] EXCEPT ![a.target] = f[i - 1][a.file],
                                       ![a.file] = Absent]
                 ELSE [f[i - 1] EXCEPT ![a.file] = Written(i)]
    IN  f[Len(plan)]

\* The editor's paths, and the other end of a move it interfered with.
Theirs == touched \cup
          UNION {{plan[i].file, plan[i].target} :
                    i \in {j \in DOMAIN plan :
                             {plan[j].file, plan[j].target} \cap touched # {}}}

\* Where the Vault is not as promised and no editor is the reason.
Off(done) == {p \in Paths \ Theirs : file[p] # Promised(done)[p]}

\* No step of an accept, a roll back, an undo or a recovery overwrites or
\* removes what an editor saved after the preview, in whatever order they
\* come, across crashes and retries.  The exception is a save in the middle of
\* a Vault call of the job: between the last hash check and the replace or the
\* unlink, between the link and the check of a move, or between the replace
\* and its read-back, whose hash the executor takes for its own: then a later
\* roll back replaces it.
OnlyWindowSaves == lost \subseteq window

\* Whatever the job has changed in the Vault and its record does not list as
\* executed is named by a journal row, so that undo and recovery can find it,
\* also when the process dies.  It is not once an accept was repeated after
\* a part of the actions or after a failed write, or recovery ran beside
\* it: the rows of the new steps replace the old ones.
WriteAheadJournal ==
    blur \cap {"raced", "leftover", "torn"} = {} =>
        \A p \in Off(db.executed) : \E s \in DOMAIN journal :
            Executable(journal[s]) /\ p \in {journal[s].path, journal[s].source}

\* A committed record has executed every action and the Vault shows it,
\* until an undo starts.
CommittedIsWhole ==
    (db.status = "committed" /\ blur \cap {"raced", "half_undone"} = {}) =>
        db.executed = DOMAIN plan /\ Off(db.executed) = {}

\* A record that says rolled_back, by the executor or by a recovery after a
\* crash at any step, leaves nothing of that accept in the Vault.  Excepted
\* are a write that failed after it took effect, which the executor does not
\* roll back; rows of an earlier accept of other actions, which a recovery
\* does roll back; and a recovery beside a live accept.
RolledBackIsClean ==
    (db.status = "rolled_back" /\ blur \cap {"raced", "leftover", "torn"} = {}) =>
        Off(db.executed) = {}

\* An undone job leaves the Vault as the preview saw it, whatever happened
\* between the accept and the undo.
UndoneIsClean == db.status = "undone" => Off({}) = {}

Disjoint ==
    \A i, j \in DOMAIN plan : i # j =>
        {plan[i].file, plan[i].target} \cap {plan[j].file, plan[j].target} = {}

\* An interrupted job that no editor touched can always be classified: the
\* recovery never answers "files changed externally" for the job's own
\* steps, provided no two of them use one path.
RecoverableUnlessTouched ==
    (Flagged /\ pc = "idle" /\ rpc = "idle" /\ touched = {} /\ Disjoint) =>
        \A s \in Uncertain : Ours(s) \/ Untouched(s)

\* The comment in rollback_if_safe: a record it closes as "nothing applied"
\* had no durable effect.
NothingAppliedIsTrue ==
    (db.status = "failed" /\ blur = {}) => Off(db.executed) = {}
============================================================================
