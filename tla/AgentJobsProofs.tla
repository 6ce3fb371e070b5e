--------------------------- MODULE AgentJobsProofs ---------------------------

(***************************************************************************)
(* Proofs about a controlled job: no step of it destroys what an editor    *)
(* saved, and what its record says of the Vault is true, for any plan, any *)
(* number of accepts, crashes and saves, whatever order they come in.      *)
(***************************************************************************)
EXTENDS AgentJobs, FiniteSetTheorems, SequenceTheorems, WellFoundedInduction, TLAPS

(***************************************************************************)
(* What an action does                                                     *)
(***************************************************************************)
Ends(i) == {plan[i].file, plan[i].target}
PathOf(i) == IF plan[i].kind = "move" THEN plan[i].target ELSE plan[i].file
BeforeOf(i) == IF plan[i].kind = "create" THEN Absent ELSE preview[plan[i].file]
AfterOf(i) == IF plan[i].kind = "move" THEN preview[plan[i].file] ELSE Written(i)

\* What path p of action i holds once the action is done.
Effect(i, p) == IF p = PathOf(i) THEN AfterOf(i) ELSE Absent

\* A step, or a journal row, is that of its action.
Fits(s) ==
  /\ s.action \in DOMAIN plan
  /\ s.op = plan[s.action].kind /\ s.path = PathOf(s.action) /\ s.source = plan[s.action].file
  /\ s.before = BeforeOf(s.action) /\ s.after = AfterOf(s.action)

\* The file that tells whether the action is done shows it.
InPlace(i) == file[PathOf(i)] = AfterOf(i)

\* Where the Vault is not as the preview saw it and no editor is the reason.
Changed == {p \in Paths \ Theirs : file[p] # preview[p]}

\* The actions that hold at no path but the editor's: their effects show, and
\* they share no path.
Stands(i) == \A p \in Ends(i) \ touched : file[p] = Effect(i, p)
Shown(D) == \A i \in D : Stands(i)
Apart(D) == \A i, j \in D : i # j => Ends(i) \cap Ends(j) \subseteq touched

(***************************************************************************)
(* Shapes                                                                  *)
(***************************************************************************)
Content == {Absent} \cup ({"original"} \X Paths) \cup ({"written", "edit"} \X Nat)
Record == [status : Statuses, executed : SUBSET Nat]
Step == [op : {"update", "create", "move"}, action : Nat, path : Paths, source : Paths,
         before : Content, after : Content]
Row == [op : {"update", "create", "move", "undo"}, action : Nat, path : Paths, source : Paths,
        before : Content, after : Content, state : {"pending", "applied", "rolled_back"}]

Forward == {"journal", "apply", "mark_applied", "commit"}
ExecSteps == Forward \cup {"mark_pending", "rollback", "mark_rolled_back", "mark_rollback_failed",
                           "finish_rolled_back", "finish_rollback_failed"}
UndoSteps == {"undo_restore", "undo_audit", "undo_finish"}

VaultTypes ==
  /\ file \in [Paths -> Content] /\ preview \in [Paths -> Content]
  /\ edits \in Nat /\ touched \subseteq Paths

JournalTypes ==
  /\ journal = [s \in DOMAIN journal |-> journal[s]]
  /\ DOMAIN journal \subseteq Nat /\ IsFiniteSet(DOMAIN journal)
  /\ \A s \in DOMAIN journal : journal[s] \in Row

ThreadTypes ==
  /\ pc \in {"idle"} \cup ExecSteps \cup UndoSteps /\ rpc \in RecoverySteps
  /\ ops \in Seq(Step) /\ applied \in Seq(Content) /\ Len(applied) <= Len(ops)
  /\ todo \in Seq(Row) /\ rtodo \in Seq(Row) /\ seq \in Nat /\ rseq \in Nat

\* How far each thread is.
StageInv ==
  /\ pc \in {"journal", "apply"} => Len(applied) < Len(ops)
  /\ pc \in {"mark_applied", "commit"} => Len(applied) = Len(ops)
  /\ pc = "rollback" => applied # <<>>
  /\ pc \in {"mark_pending", "mark_rolled_back", "finish_rolled_back"} => applied = <<>>
  /\ pc \in {"undo_restore", "undo_audit"} => todo # <<>>
  /\ pc = "undo_finish" => todo = <<>>
  /\ rpc \in {"restore", "audit"} => rtodo # <<>>

TypeInv == VaultTypes /\ JournalTypes /\ ThreadTypes /\ StageInv

(***************************************************************************)
(* The record                                                              *)
(***************************************************************************)

\* Before the plan there is nothing.
Unplanned ==
  /\ plan = <<>> /\ file = preview /\ touched = {} /\ cache = NoRecord
  /\ DOMAIN journal = {} /\ pc = "idle" /\ rpc = "idle"
  /\ ops = <<>> /\ applied = <<>> /\ todo = <<>> /\ rtodo = <<>>

\* The policy allowed the plan, or the job never got beyond it.
AllowedPlan ==
  \A i \in DOMAIN plan :
    /\ plan[i].kind = "create" => preview[plan[i].file] = Absent
    /\ plan[i].kind # "create" => preview[plan[i].file] # Absent
    /\ plan[i].kind = "move" => preview[plan[i].target] = Absent
Denied ==
  /\ db.status = "failed" /\ cache.status \in {"none", "failed"}
  /\ DOMAIN journal = {} /\ pc = "idle" /\ rpc = "idle"

RecordInv ==
  /\ db \in Record /\ cache \in Record
  /\ db.status = "none" => db = NoRecord
  /\ cache.status = "none" => cache = NoRecord
  /\ db.executed \subseteq DOMAIN plan
  /\ IF db = NoRecord THEN Unplanned ELSE plan \in Plans
  /\ AllowedPlan \/ Denied
  /\ cache # NoRecord => cache.executed = db.executed
  /\ pc # "idle" => cache # NoRecord

\* What the cached record, the row and the lock say of each other.
StatusInv ==
  /\ pc \in ExecSteps => cache.status = "awaiting" /\ db.status \in {"executing", "rolled_back", "failed"}
  /\ pc \in UndoSteps => cache.status = "committed" /\ db.status \in {"committed", "rolled_back", "failed"}
  /\ db.status = "awaiting" => pc = "idle" /\ cache.status \in {"none", "awaiting"}
  /\ db.status = "committed" => cache.status \in {"none", "committed"}
  /\ cache.status = "committed" => db.status \in {"committed", "rolled_back", "failed"}
  /\ db.status = "undone" => pc = "idle" /\ cache.status \in {"none", "undone"}
  /\ pc # "idle" /\ rpc # "idle" => "raced" \in blur
  /\ pc \in UndoSteps => "half_undone" \in blur
  /\ "raced" \notin blur =>
       /\ pc \in ExecSteps => db.status = "executing"
       /\ pc \in UndoSteps \/ cache.status = "committed" => db.status = "committed"
       /\ rpc # "idle" => db.status \in {"executing", "recovery_required", "rejected"}

(***************************************************************************)
(* The Vault                                                               *)
(***************************************************************************)

\* The preview was of the Vault before the first save; a path the editor left
\* alone is as the preview saw it or as an action leaves it.
FileInv ==
  /\ \A p \in Paths : preview[p] \in {Absent, Original(p)}
  /\ \A p \in Paths \ touched :
       file[p] # preview[p] => \E i \in DOMAIN plan : p \in Ends(i) /\ file[p] = Effect(i, p)

FitInv ==
  /\ \A n \in DOMAIN ops : Fits(ops[n])
  /\ \A s \in DOMAIN journal : Executable(journal[s]) => Fits(journal[s])
  /\ \A n \in DOMAIN todo : Fits(todo[n])
  /\ \A n \in DOMAIN rtodo : Fits(rtodo[n])
  /\ \A n \in DOMAIN applied : applied[n] = AfterOf(ops[n].action) \/ (ops[n].op # "move" /\ ops[n].path \in touched)

\* The executor's hashes are not those of an editor, except in the window.
LossInv ==
  /\ OnlyWindowSaves
  /\ \A n \in DOMAIN applied : IsEdit(applied[n]) => applied[n] \in window

(***************************************************************************)
(* The journal                                                             *)
(***************************************************************************)

\* The steps done so far, and the one about to be.
Journaled == 1 .. (Len(applied) + IF pc = "apply" THEN 1 ELSE 0)

JournalInv ==
  /\ pc \in ExecSteps =>
       \A n \in Journaled :
         /\ n - 1 \in DOMAIN journal
         /\ Executable(journal[n - 1]) => journal[n - 1].action = ops[n].action
         /\ "raced" \notin blur =>
              /\ Executable(journal[n - 1])
              /\ pc \notin {"finish_rolled_back", "finish_rollback_failed"} => journal[n - 1].state # "rolled_back"
  /\ "committed" \in {db.status, cache.status} =>
       \/ \E s \in DOMAIN journal : ~Executable(journal[s])
       \/ \A i \in DOMAIN plan : \E s \in DOMAIN journal : journal[s].action = i
  /\ "raced" \notin blur =>
       /\ pc \in UndoSteps => \A s \in DOMAIN journal : s < seq
       /\ rpc \in {"restore", "audit"} => \A s \in DOMAIN journal : s < rseq

(***************************************************************************)
(* Accept, undo                                                            *)
(***************************************************************************)
Done == {ops[n].action : n \in DOMAIN applied}

Spread == \A m, n \in DOMAIN applied : m # n => Ends(ops[m].action) \cap Ends(ops[n].action) \subseteq touched

\* The steps done so far show, and no two of them share a path.
ForwardInv == "raced" \notin blur /\ pc \in Forward => Shown(Done) /\ Spread

\* A committed job shows until an undo starts.
CommittedInv ==
  db.status = "committed" /\ blur \cap {"raced", "half_undone"} = {} =>
    /\ db.executed = DOMAIN plan /\ pc = "idle" /\ rpc = "idle"
    /\ Shown(DOMAIN plan) /\ Apart(DOMAIN plan)

Undone(i) == \A p \in Ends(i) \ touched : file[p] = preview[p]

\* Undo goes through the actions; those it has behind it are undone.
UndoInv ==
  /\ pc = "undo_restore" => \A i \in DOMAIN plan : Undone(i) \/ \E n \in DOMAIN todo : todo[n].action = i
  /\ pc = "undo_audit" => \A i \in DOMAIN plan : Undone(i) \/ \E n \in DOMAIN todo : n # 1 /\ todo[n].action = i
  /\ pc = "undo_finish" \/ db.status = "undone" => \A i \in DOMAIN plan : Undone(i)

(***************************************************************************)
(* What the journal tells a recovery                                       *)
(***************************************************************************)
Plain == blur \cap {"raced", "leftover", "torn"} = {}
Names(p, s) == p \in {s.path, s.source} /\ file[s.path] = s.after

\* Every change has its row, and an open one if there is any.
RowsTell ==
  \A p \in Changed : \E s \in DOMAIN journal :
    /\ Executable(journal[s]) /\ Names(p, journal[s])
    /\ Uncertain # {} => s \in Uncertain

\* It is of a step that is done and not rolled back, or that a recovery has
\* still to restore.
StepsShow == \A p \in Changed : \E n \in DOMAIN applied : p \in Ends(ops[n].action) /\ InPlace(ops[n].action)
StepsTell == pc \in Forward \cup {"rollback"} => StepsShow
TodoTells ==
  /\ rpc = "restore" => \A p \in Changed : \E n \in DOMAIN rtodo : Names(p, rtodo[n])
  /\ rpc = "audit" => \A p \in Changed : \E n \in DOMAIN rtodo : n # 1 /\ Names(p, rtodo[n])

\* Nothing has changed before an accept and after a complete roll back.
Clean ==
  \/ pc = "idle" /\ Loaded.status = "awaiting"
  \/ pc \in {"mark_pending", "mark_rolled_back", "finish_rolled_back"}
  \/ db.status = "rolled_back" \/ rpc \in {"mark", "finish"}

Told == RowsTell /\ StepsTell /\ TodoTells /\ (Clean => Changed = {})

\* While nothing of the job is recorded as executed.
PlainInv == Plain /\ db.executed = {} => Told

\* Once an accept has recorded actions.
ExecutedInv ==
  Plain /\ db.executed # {} =>
    /\ db.status \in {"awaiting", "committed", "undone"} /\ rpc = "idle" /\ pc \in {"idle"} \cup UndoSteps
    /\ db.status = "awaiting" =>
         /\ Shown(db.executed) /\ Apart(db.executed)
         /\ \A p \in Changed : \E i \in db.executed : p \in Ends(i)
    /\ db.status # "awaiting" =>
         /\ db.executed = DOMAIN plan
         /\ \A i \in DOMAIN plan : \E s \in DOMAIN journal : Executable(journal[s]) /\ journal[s].action = i

JobsInv ==
  /\ TypeInv /\ RecordInv /\ StatusInv /\ FileInv /\ FitInv /\ LossInv /\ JournalInv
  /\ ForwardInv /\ CommittedInv /\ UndoInv /\ PlainInv /\ ExecutedInv

(***************************************************************************)
(* Actions and contents                                                    *)
(***************************************************************************)

\* What the job writes is neither an original nor another action's.
LEMMA ContentsAre ==
  /\ \A i, j : (Written(i) = Written(j) => i = j) /\ ~IsEdit(Written(i))
  /\ \A p, q : (Original(p) = Original(q) => p = q) /\ ~IsEdit(Original(p))
  /\ \A i, p : Written(i) # Original(p)
  /\ ~IsEdit(Absent)
<1>1. \A i, j : <<"written", i>>[1] = "written" /\ <<"written", i>>[2] = i
  OBVIOUS
<1>2. \A p : <<"original", p>>[1] = "original" /\ <<"original", p>>[2] = p
  OBVIOUS
<1> QED
  BY <1>1, <1>2 DEF Written, Original, IsEdit

\* The paths of an action.
LEMMA PlanIs ==
  ASSUME JobsAssumption, RecordInv, NEW i \in DOMAIN plan
  PROVE  /\ plan[i] \in Actions /\ i \in Nat /\ Absent # Written(i)
         /\ Ends(i) \subseteq Paths /\ PathOf(i) \in Ends(i) /\ plan[i].file \in Ends(i)
         /\ plan[i].kind # "move" => Ends(i) = {PathOf(i)} /\ PathOf(i) = plan[i].file
         /\ plan[i].kind = "move" => /\ PathOf(i) # plan[i].file /\ Ends(i) = {PathOf(i), plan[i].file}
                                    /\ PathOf(i) = plan[i].target
         /\ plan[i].kind \in {"update", "create", "move"}
<1>1. plan \in Plans
  <2>1. plan # <<>>
    OBVIOUS
  <2> QED
    BY <2>1 DEF RecordInv, Unplanned
<1>2. plan \in Seq(Actions) /\ (plan[i].kind = "move") = (plan[i].file # plan[i].target) /\ Absent # Written(i)
  BY <1>1 DEF JobsAssumption
<1>3. plan[i] \in Actions /\ i \in Nat
  BY <1>2
<1> QED
  BY <1>2, <1>3 DEF Ends, PathOf, Actions

\* What an action leaves is not what the preview saw.
LEMMA ActionIs ==
  ASSUME JobsAssumption, TypeInv, RecordInv, FileInv, AllowedPlan, NEW i \in DOMAIN plan
  PROVE  /\ BeforeOf(i) \in Content /\ AfterOf(i) \in Content
         /\ ~IsEdit(BeforeOf(i)) /\ ~IsEdit(AfterOf(i)) /\ AfterOf(i) # Absent
         /\ \A p \in Ends(i) : Effect(i, p) # preview[p] /\ (p # PathOf(i) => Effect(i, p) = Absent)
         /\ plan[i].kind # "move" => BeforeOf(i) = preview[PathOf(i)] /\ AfterOf(i) = Written(i)
         /\ plan[i].kind = "move" => /\ BeforeOf(i) = preview[plan[i].file] /\ AfterOf(i) = Original(plan[i].file)
                                    /\ AfterOf(i) = preview[plan[i].file] /\ preview[PathOf(i)] = Absent
         /\ plan[i].kind = "create" => BeforeOf(i) = Absent
<1>1. /\ plan[i] \in Actions /\ i \in Nat /\ Absent # Written(i)
      /\ Ends(i) \subseteq Paths /\ PathOf(i) \in Ends(i) /\ plan[i].file \in Ends(i)
      /\ plan[i].kind # "move" => Ends(i) = {PathOf(i)} /\ PathOf(i) = plan[i].file
      /\ plan[i].kind = "move" => /\ PathOf(i) # plan[i].file /\ Ends(i) = {PathOf(i), plan[i].file}
                                 /\ PathOf(i) = plan[i].target
      /\ plan[i].kind \in {"update", "create", "move"}
  BY PlanIs
<1>2. preview \in [Paths -> Content] /\ \A p \in Paths : preview[p] \in {Absent, Original(p)}
  BY DEF TypeInv, VaultTypes, FileInv
<1>3. /\ plan[i].kind = "create" => preview[plan[i].file] = Absent
      /\ plan[i].kind # "create" => preview[plan[i].file] = Original(plan[i].file)
      /\ plan[i].kind = "move" => preview[plan[i].target] = Absent
  BY <1>1, <1>2 DEF AllowedPlan
<1>4. /\ \A p \in Paths : Absent # Original(p) /\ Original(p) \in Content
      /\ Written(i) \in Content /\ Absent \in Content
  BY <1>1 DEF JobsAssumption, Content, Original, Written
<1>5. CASE plan[i].kind = "move"
  <2>1. BeforeOf(i) = Original(plan[i].file) /\ AfterOf(i) = Original(plan[i].file) /\ preview[PathOf(i)] = Absent
    BY <1>1, <1>3, <1>5 DEF BeforeOf, AfterOf
  <2> QED
    BY <1>1, <1>2, <1>3, <1>4, <1>5, <2>1, ContentsAre DEF Effect
<1>6. CASE plan[i].kind # "move"
  <2>1. AfterOf(i) = Written(i) /\ BeforeOf(i) = preview[PathOf(i)] /\ (plan[i].kind = "create" => BeforeOf(i) = Absent)
    BY <1>1, <1>3, <1>6 DEF BeforeOf, AfterOf
  <2>2. PathOf(i) \in Paths
    BY <1>1
  <2>3. preview[PathOf(i)] \in {Absent, Original(PathOf(i))}
    BY <1>2, <2>2
  <2> QED
    BY <1>1, <1>4, <1>6, <2>1, <2>2, <2>3, ContentsAre DEF Effect
<1> QED
  BY <1>5, <1>6

(***************************************************************************)
(* Rows and actions in order                                               *)
(***************************************************************************)

\* A strict order of a set, as the pairs of it, and the place it gives an element.
Orders(R, S) ==
  /\ \A x \in S : ~ (<<x, x>> \in R)
  /\ \A x, y \in S : x # y => <<x, y>> \in R \/ <<y, x>> \in R
  /\ \A x, y, z \in S : <<x, y>> \in R /\ <<y, z>> \in R => <<x, z>> \in R
Before(x, R, S) == {z \in S : <<z, x>> \in R}
Rank(x, R, S) == Cardinality(Before(x, R, S))

\* In a finite ordered set each place is held by one element.
LEMMA RankIs ==
  ASSUME NEW S, IsFiniteSet(S), NEW R, Orders(R, S)
  PROVE  /\ Cardinality(S) \in Nat
         /\ \A x, y \in S : Rank(x, R, S) = Rank(y, R, S) => x = y
         /\ \A x \in S : Rank(x, R, S) + 1 \in 1 .. Cardinality(S) /\ Rank(x, R, S) \in Nat
         /\ \A n \in 1 .. Cardinality(S) : \E x \in S : Rank(x, R, S) = n - 1
<1> DEFINE N == Cardinality(S)
           f == [x \in S |-> Rank(x, R, S) + 1]
<1>1. N \in Nat
  BY FS_CardinalityType
<1>2. ASSUME NEW x \in S
      PROVE  Rank(x, R, S) \in Nat /\ Rank(x, R, S) < N
  <2>1. Before(x, R, S) \in SUBSET S /\ Before(x, R, S) # S
    BY DEF Before, Orders
  <2>2. IsFiniteSet(Before(x, R, S)) /\ Cardinality(Before(x, R, S)) <= N /\ N # Cardinality(Before(x, R, S))
    BY <2>1, FS_Subset
  <2>3. Cardinality(Before(x, R, S)) \in Nat
    BY <2>2, FS_CardinalityType
  <2> QED
    BY <1>1, <2>2, <2>3 DEF Rank
<1>3. ASSUME NEW x \in S, NEW y \in S, <<x, y>> \in R
      PROVE  Rank(x, R, S) # Rank(y, R, S)
  <2>1. /\ Before(x, R, S) \in SUBSET Before(y, R, S) /\ Before(x, R, S) # Before(y, R, S)
        /\ Before(y, R, S) \in SUBSET S
    BY <1>3 DEF Before, Orders
  <2>2. IsFiniteSet(Before(y, R, S))
    BY <2>1, FS_Subset
  <2> QED
    BY <2>1, <2>2, FS_Subset DEF Rank
<1>4. \A x, y \in S : Rank(x, R, S) = Rank(y, R, S) => x = y
  BY <1>3 DEF Orders
<1> HIDE DEF N
<1>5. f \in Injection(S, 1 .. N)
  <2>1. f \in [S -> 1 .. N]
    BY <1>1, <1>2
  <2>2. \A x, y \in S : f[x] = f[y] => x = y
    BY <1>2, <1>4
  <2> QED
    BY <2>1, <2>2 DEF Injection, IsInjective
<1>6. IsFiniteSet(1 .. N) /\ Cardinality(1 .. N) = N
  BY <1>1, FS_Interval
<1>7. f \in Surjection(S, 1 .. N)
  BY <1>5, <1>6, FS_Injection DEF N
<1>8. ASSUME NEW n \in 1 .. N
      PROVE  \E x \in S : Rank(x, R, S) = n - 1
  <2>1. PICK x \in S : f[x] = n
    BY <1>7 DEF Surjection
  <2> QED
    BY <1>1, <1>2, <2>1
<1>9. \A x \in S : Rank(x, R, S) + 1 \in 1 .. N
  BY <1>1, <1>2
<1> QED
  BY <1>1, <1>2, <1>4, <1>8, <1>9 DEF N

\* Larger numbers first.
Larger == {pair \in Nat \X Nat : pair[1] > pair[2]}
Smaller == {pair \in Nat \X Nat : pair[1] < pair[2]}

\* The two orders of a set of numbers.
LEMMA OrdersAre ==
  ASSUME NEW S \in SUBSET Nat
  PROVE  /\ Orders(Larger, S) /\ \A s \in S : Before(s, Larger, S) = {t \in S : t > s}
         /\ Orders(Smaller, S) /\ \A s \in S : Before(s, Smaller, S) = {t \in S : t < s}
<1>1. \A s, t \in S : (<<t, s>> \in Larger <=> t > s) /\ (<<t, s>> \in Smaller <=> t < s)
  BY DEF Larger, Smaller
<1>2. Orders(Larger, S)
  BY <1>1 DEF Orders
<1>3. Orders(Smaller, S)
  BY <1>1 DEF Orders
<1> QED
  BY <1>1, <1>2, <1>3 DEF Before

\* The journal backwards has each row once.
LEMMA BackwardsIs ==
  ASSUME JournalTypes, NEW S \in SUBSET DOMAIN journal
  PROVE  /\ Backwards(S) \in Seq(Row)
         /\ \A n \in DOMAIN Backwards(S) : \E s \in S : Backwards(S)[n] = journal[s]
         /\ \A s \in S : \E n \in DOMAIN Backwards(S) : Backwards(S)[n] = journal[s]
         /\ S # {} <=> Backwards(S) # <<>>
<1> DEFINE N == Cardinality(S)
           At(n) == CHOOSE s \in S : Cardinality({t \in S : t > s}) = n - 1
<1>1. S \in SUBSET Nat /\ IsFiniteSet(S) /\ \A s \in S : journal[s] \in Row
  <2>1. DOMAIN journal \subseteq Nat /\ IsFiniteSet(DOMAIN journal) /\ \A s \in DOMAIN journal : journal[s] \in Row
    BY DEF JournalTypes
  <2> QED
    BY <2>1, FS_Subset
<1>2. /\ N \in Nat
      /\ \A x, y \in S : Rank(x, Larger, S) = Rank(y, Larger, S) => x = y
      /\ \A x \in S : Rank(x, Larger, S) + 1 \in 1 .. N /\ Rank(x, Larger, S) \in Nat
      /\ \A n \in 1 .. N : \E x \in S : Rank(x, Larger, S) = n - 1
  BY <1>1, OrdersAre, RankIs
<1>3. \A s \in S : Cardinality({t \in S : t > s}) = Rank(s, Larger, S)
  BY <1>1, OrdersAre DEF Rank
<1>4. Backwards(S) = [n \in 1 .. N |-> journal[At(n)]]
  BY DEF Backwards
<1>5. ASSUME NEW n \in 1 .. N
      PROVE  At(n) \in S /\ Rank(At(n), Larger, S) = n - 1
  <2>1. \E s \in S : Cardinality({t \in S : t > s}) = n - 1
    BY <1>2, <1>3
  <2>2. At(n) \in S /\ Cardinality({t \in S : t > At(n)}) = n - 1
    BY <2>1
  <2> HIDE DEF At
  <2> QED
    BY <1>3, <2>2
<1> HIDE DEF N, At
<1>6. ASSUME NEW s \in S
      PROVE  \E n \in 1 .. N : journal[At(n)] = journal[s]
  <2>1. PICK n \in 1 .. N : n = Rank(s, Larger, S) + 1
    BY <1>2
  <2>2. Rank(s, Larger, S) = n - 1
    BY <1>2, <2>1
  <2>3. At(n) = s
    BY <1>2, <1>5, <2>2
  <2> QED
    BY <2>3
<1>7. Backwards(S) \in Seq(Row) /\ DOMAIN Backwards(S) = 1 .. N /\ Len(Backwards(S)) = N
  BY <1>1, <1>2, <1>4, <1>5
<1>8. S # {} <=> N # 0
  BY <1>1, FS_EmptySet DEF N
<1>9. Backwards(S) # <<>> <=> N # 0
  BY <1>2, <1>7
<1>10. \A n \in 1 .. N : Backwards(S)[n] = journal[At(n)]
  BY <1>4
<1>11. \A n \in DOMAIN Backwards(S) : \E s \in S : Backwards(S)[n] = journal[s]
  BY <1>5, <1>7, <1>10
<1>12. \A s \in S : \E n \in DOMAIN Backwards(S) : Backwards(S)[n] = journal[s]
  BY <1>6, <1>7, <1>10
<1> QED
  BY <1>7, <1>8, <1>9, <1>11, <1>12

\* Every row is before the next one.
LEMMA NextSeqIs ==
  ASSUME JournalTypes, DOMAIN journal # {}
  PROVE  NextSeq \in Nat /\ \A s \in DOMAIN journal : s < NextSeq
<1> DEFINE S == DOMAIN journal
           top == CHOOSE s \in S : \A t \in S : t <= s
<1>1. S \in SUBSET Nat /\ IsFiniteSet(S) /\ S # {}
  BY DEF JournalTypes
<1>2. NextSeq = 1 + top
  BY DEF NextSeq
<1> HIDE DEF S
<1>3. Cardinality(S) \in Nat /\ \A n \in 1 .. Cardinality(S) : \E x \in S : Rank(x, Larger, S) = n - 1
  BY <1>1, OrdersAre, RankIs
<1>4. 1 \in 1 .. Cardinality(S)
  BY <1>1, <1>3, FS_EmptySet
<1>5. PICK m \in S : Rank(m, Larger, S) = 1 - 1
  BY <1>3, <1>4
<1>6. Before(m, Larger, S) = {}
  <2>1. Before(m, Larger, S) \in SUBSET S
    BY DEF Before
  <2>2. IsFiniteSet(Before(m, Larger, S))
    BY <1>1, <2>1, FS_Subset
  <2> QED
    BY <1>5, <2>2, FS_EmptySet DEF Rank
<1>7. \A t \in S : t <= m
  BY <1>1, <1>6, OrdersAre
<1>8. top \in S /\ \A t \in S : t <= top
  BY <1>7
<1> HIDE DEF top
<1>9. top \in Nat
  BY <1>1, <1>8
<1>10. NextSeq \in Nat /\ \A s \in S : s < NextSeq
  BY <1>1, <1>2, <1>8, <1>9
<1> QED
  BY <1>10 DEF S

\* The selected actions.
LEMMA InOrderIs ==
  ASSUME NEW sel \in SUBSET Nat, IsFiniteSet(sel)
  PROVE  /\ Cardinality(sel) \in Nat /\ DOMAIN InOrder(sel) = 1 .. Cardinality(sel)
         /\ \A n \in 1 .. Cardinality(sel) : InOrder(sel)[n] \in sel
<1>1. Cardinality(sel) \in Nat /\ \A n \in 1 .. Cardinality(sel) : \E x \in sel : Rank(x, Smaller, sel) = n - 1
  BY OrdersAre, RankIs
<1>2. \A s \in sel : Cardinality({t \in sel : t < s}) = Rank(s, Smaller, sel)
  BY OrdersAre DEF Rank
<1>3. ASSUME NEW n \in 1 .. Cardinality(sel)
      PROVE  (CHOOSE i \in sel : Cardinality({j \in sel : j < i}) = n - 1) \in sel
  BY <1>1, <1>2
<1> QED
  BY <1>1, <1>3 DEF InOrder

(***************************************************************************)
(* Calls on the Vault                                                      *)
(***************************************************************************)
Outcome == [ok : BOOLEAN, tree : [Paths -> Content], seen : Content, hit : SUBSET Paths, saves : Nat]

\* At the paths no editor touched: nothing changes; action i takes effect at
\* its ends, which were as the preview saw them; or its effect goes again.
Same == \A p \in Paths \ touched' : file'[p] = file[p]
Forth(i) ==
  \A p \in Paths \ touched' : file'[p] # file[p] =>
    p \in Ends(i) /\ (\A q \in Ends(i) : file[q] = preview[q]) /\ file'[p] = Effect(i, p)
Back(i) ==
  /\ \A p \in Paths \ touched' : file'[p] # file[p] =>
       p \in Ends(i) /\ file[p] = Effect(i, p) /\ file'[p] = preview[p]
  /\ \/ PathOf(i) \in touched' \/ file'[PathOf(i)] = file[PathOf(i)]
     \/ \A p \in Ends(i) \ touched' : file'[p] = preview[p]

\* Nothing the editor saved is lost but in the window.
Grows ==
  /\ VaultTypes' /\ touched \subseteq touched' /\ window \subseteq window'
  /\ OnlyWindowSaves => lost' \subseteq window'

\* A call ends without a write, with it, or with a save on top of it.
IsOutcome(can, g, p, op, o) ==
  /\ o \in Outcome /\ o.saves = (IF o.hit = {} THEN edits ELSE edits + 1)
  /\ \/ ~o.ok /\ o.tree = file
     \/ can /\ o.tree = g /\ (o.ok => o.seen = g[p])
     \/ /\ can /\ op \in {"update", "delete"} /\ o.ok /\ o.tree = [g EXCEPT ![p] = Edit(edits + 1)]
        /\ o.seen = Edit(edits + 1) /\ o.hit = {p}

LEMMA OutcomeIs ==
  ASSUME TypeInv, NEW can \in BOOLEAN, NEW g, can => g \in [Paths -> Content], NEW p \in Paths, NEW op,
         NEW o \in Outcomes(can, g, p, op)
  PROVE  IsOutcome(can, g, p, op, o)
<1> USE DEF IsOutcome
<1>1. file \in [Paths -> Content] /\ edits \in Nat /\ Absent \in Content /\ Edit(edits + 1) \in Content
  BY DEF TypeInv, VaultTypes, Content, Edit
<1>2. can => g[p] \in Content /\ [g EXCEPT ![p] = Edit(edits + 1)] \in [Paths -> Content]
  BY <1>1
<1>3. CASE \E hit \in SUBSET Paths : o = Ended(FALSE, file, Absent, hit)
  <2>1. PICK hit \in SUBSET Paths : o = Ended(FALSE, file, Absent, hit)
    BY <1>3
  <2>2. FALSE \in BOOLEAN /\ file \in [Paths -> Content] /\ Absent \in Content
    BY <1>1, <1>2, <1>3
  <2>3. /\ o \in Outcome /\ o.ok = FALSE /\ o.tree = file /\ o.seen = Absent
        /\ o.saves = (IF o.hit = {} THEN edits ELSE edits + 1)
    BY <1>1, <2>1, <2>2 DEF Ended, Outcome
  <2> QED
    BY <1>3, <2>3
<1>4. CASE can /\ \E hit \in SUBSET Paths : o = Ended(FALSE, g, Absent, hit)
  <2>1. PICK hit \in SUBSET Paths : o = Ended(FALSE, g, Absent, hit)
    BY <1>4
  <2>2. FALSE \in BOOLEAN /\ g \in [Paths -> Content] /\ Absent \in Content
    BY <1>1, <1>2, <1>4
  <2>3. /\ o \in Outcome /\ o.ok = FALSE /\ o.tree = g /\ o.seen = Absent
        /\ o.saves = (IF o.hit = {} THEN edits ELSE edits + 1)
    BY <1>1, <2>1, <2>2 DEF Ended, Outcome
  <2> QED
    BY <1>4, <2>3
<1>5. CASE can /\ \E hit \in SUBSET Paths : o = Ended(TRUE, g, g[p], hit)
  <2>1. PICK hit \in SUBSET Paths : o = Ended(TRUE, g, g[p], hit)
    BY <1>5
  <2>2. TRUE \in BOOLEAN /\ g \in [Paths -> Content] /\ g[p] \in Content
    BY <1>1, <1>2, <1>5
  <2>3. /\ o \in Outcome /\ o.ok = TRUE /\ o.tree = g /\ o.seen = g[p]
        /\ o.saves = (IF o.hit = {} THEN edits ELSE edits + 1)
    BY <1>1, <2>1, <2>2 DEF Ended, Outcome
  <2> QED
    BY <1>5, <2>3
<1>6. CASE /\ can /\ op \in {"update", "delete"}
           /\ o = Ended(TRUE, [g EXCEPT ![p] = Edit(edits + 1)], Edit(edits + 1), {p})
  <2> DEFINE t == [g EXCEPT ![p] = Edit(edits + 1)]
  <2>1. {p} \in SUBSET Paths /\ {p} # {} /\ TRUE \in BOOLEAN
    OBVIOUS
  <2>2. t \in [Paths -> Content] /\ Edit(edits + 1) \in Content /\ o = Ended(TRUE, t, Edit(edits + 1), {p})
    BY <1>1, <1>2, <1>6
  <2> HIDE DEF t
  <2>3. /\ o \in Outcome /\ o.ok = TRUE /\ o.tree = t /\ o.seen = Edit(edits + 1) /\ o.hit = {p}
        /\ o.saves = (IF o.hit = {} THEN edits ELSE edits + 1)
    BY <1>1, <2>1, <2>2 DEF Ended, Outcome
  <2> QED
    BY <1>6, <2>3 DEF t
<1>7. ASSUME NEW q \in Paths PROVE {q} \in SUBSET Paths
  OBVIOUS
<1>8. CASE o \in Undisturbed(can, g, p)
  <2>1. {} \in SUBSET Paths
    OBVIOUS
  <2> QED
    BY <1>3, <1>4, <1>5, <1>8, <2>1 DEF Undisturbed
<1>9. CASE can /\ o \in Disturbed(g, p, op)
  <2> DEFINE Taken == {q \in Paths : file[q] # Absent /\ g[q] # file[q]}
             Linked == {q \in Paths : op = "move" /\ file[q] = Absent /\ g[q] # Absent}
  <2>1. \/ o \in {Ended(FALSE, g, Absent, {q}) : q \in Taken}
        \/ o \in {Ended(TRUE, g, g[p], {q}) : q \in Taken}
        \/ o \in {Ended(FALSE, file, Absent, {q}) : q \in Linked}
        \/ /\ op \in {"update", "delete"}
           /\ o = Ended(TRUE, [g EXCEPT ![p] = Edit(edits + 1)], Edit(edits + 1), {p})
    BY <1>9 DEF Disturbed
  <2>2. Taken \subseteq Paths /\ Linked \subseteq Paths
    OBVIOUS
  <2> HIDE DEF Taken, Linked
  <2>3. \/ \E hit \in SUBSET Paths : o = Ended(FALSE, g, Absent, hit)
        \/ \E hit \in SUBSET Paths : o = Ended(TRUE, g, g[p], hit)
        \/ \E hit \in SUBSET Paths : o = Ended(FALSE, file, Absent, hit)
        \/ /\ op \in {"update", "delete"}
           /\ o = Ended(TRUE, [g EXCEPT ![p] = Edit(edits + 1)], Edit(edits + 1), {p})
    BY <1>7, <2>1, <2>2
  <2> QED
    BY <1>3, <1>4, <1>5, <1>6, <1>9, <2>3
<1> QED
  BY <1>8, <1>9 DEF Outcomes

\* What a call takes from the editor.
LEMMA TookIs ==
  ASSUME TypeInv, UNCHANGED preview, NEW o \in Outcome, o.saves = (IF o.hit = {} THEN edits ELSE edits + 1), Took(o),
         \A q \in Paths : IsEdit(file[q]) => file[q] \in window \/ \E r \in Paths : o.tree[r] = file[q]
  PROVE  Grows /\ file' = o.tree /\ o.hit \subseteq touched' /\ (o.hit # {} => Edit(edits + 1) \in window')
<1>1. /\ file' = o.tree /\ edits' = o.saves
      /\ window' = window \cup {Edit(o.saves) : q \in o.hit}
      /\ touched' = touched \cup o.hit
      /\ lost' = lost \cup {c \in {file[q] : q \in Paths} \cup {Edit(o.saves) : q \in o.hit} :
                              IsEdit(c) /\ \A q \in Paths : o.tree[q] # c}
  BY DEF Took
<1>2. /\ edits \in Nat /\ o.tree \in [Paths -> Content] /\ o.saves \in Nat /\ o.hit \subseteq Paths
      /\ touched \subseteq Paths /\ preview \in [Paths -> Content]
  BY DEF TypeInv, VaultTypes, Outcome
<1>3. touched \subseteq touched' /\ window \subseteq window' /\ touched' \subseteq Paths
  BY <1>1, <1>2
<1>4. VaultTypes'
  BY <1>1, <1>2, <1>3 DEF VaultTypes
<1>5. \A c \in lost' : c \in lost \/ c \in window'
  BY <1>1
<1>6. OnlyWindowSaves => lost' \subseteq window'
  BY <1>3, <1>5 DEF OnlyWindowSaves
<1>7. o.hit # {} => Edit(edits + 1) \in window'
  BY <1>1
<1> QED
  BY <1>1, <1>3, <1>4, <1>6, <1>7 DEF Grows

\* A step of the plan takes effect only where the Vault is as the preview saw it.
LEMMA CanApplyIs ==
  ASSUME JobsAssumption, TypeInv, RecordInv, FileInv, AllowedPlan, NEW s, Fits(s), CanApply(file, s)
  PROVE  /\ \A q \in Ends(s.action) : file[q] = preview[q] /\ ~IsEdit(file[q])
         /\ Apply(file, s) \in [Paths -> Content]
         /\ \A q \in Ends(s.action) : Apply(file, s)[q] = Effect(s.action, q)
         /\ \A q \in Paths \ Ends(s.action) : Apply(file, s)[q] = file[q]
<1> DEFINE i == s.action
<1>1. /\ i \in DOMAIN plan /\ s.op = plan[i].kind /\ s.path = PathOf(i) /\ s.source = plan[i].file
      /\ s.before = BeforeOf(i) /\ s.after = AfterOf(i)
  BY DEF Fits
<1> HIDE DEF i
<1>2. /\ Ends(i) \subseteq Paths /\ PathOf(i) \in Ends(i) /\ plan[i].file \in Ends(i)
      /\ plan[i].kind # "move" => Ends(i) = {PathOf(i)} /\ PathOf(i) = plan[i].file
      /\ plan[i].kind = "move" => PathOf(i) # plan[i].file /\ Ends(i) = {PathOf(i), plan[i].file}
      /\ plan[i].kind \in {"update", "create", "move"}
  BY <1>1, PlanIs
<1>3. /\ AfterOf(i) \in Content /\ ~IsEdit(BeforeOf(i)) /\ Absent \in Content /\ ~IsEdit(Absent)
      /\ plan[i].kind # "move" => BeforeOf(i) = preview[PathOf(i)]
      /\ plan[i].kind = "move" => BeforeOf(i) = preview[plan[i].file] /\ AfterOf(i) = preview[plan[i].file] /\ preview[PathOf(i)] = Absent
      /\ plan[i].kind = "create" => BeforeOf(i) = Absent
  BY <1>1, ActionIs, ContentsAre DEF Content
<1>4. file \in [Paths -> Content]
  BY DEF TypeInv, VaultTypes
<1>5. CASE plan[i].kind = "move"
  <2>1. file[plan[i].file] = BeforeOf(i) /\ file[PathOf(i)] = Absent
    BY <1>1, <1>5 DEF CanApply
  <2>2. Apply(file, s) = [file EXCEPT ![PathOf(i)] = file[plan[i].file], ![plan[i].file] = Absent]
    BY <1>1, <1>5 DEF Apply
  <2>3. PathOf(i) \in Paths /\ plan[i].file \in Paths
    BY <1>2
  <2>4. /\ Apply(file, s) \in [Paths -> Content]
        /\ Apply(file, s)[PathOf(i)] = AfterOf(i) /\ Apply(file, s)[plan[i].file] = Absent
        /\ \A q \in Paths \ Ends(i) : Apply(file, s)[q] = file[q]
    BY <1>2, <1>3, <1>4, <1>5, <2>1, <2>2, <2>3
  <2> QED
    BY <1>2, <1>3, <1>5, <2>1, <2>4 DEF i, Effect
<1>6. CASE plan[i].kind # "move"
  <2>1. file[PathOf(i)] = preview[PathOf(i)] /\ ~IsEdit(file[PathOf(i)])
    BY <1>1, <1>2, <1>3, <1>6 DEF CanApply
  <2>2. Apply(file, s) = [file EXCEPT ![PathOf(i)] = AfterOf(i)]
    BY <1>1, <1>6 DEF Apply
  <2>3. PathOf(i) \in Paths
    BY <1>2
  <2>4. /\ Apply(file, s) \in [Paths -> Content] /\ Apply(file, s)[PathOf(i)] = AfterOf(i)
        /\ \A q \in Paths \ Ends(i) : Apply(file, s)[q] = file[q]
    BY <1>2, <1>3, <1>4, <1>6, <2>2, <2>3
  <2> QED
    BY <1>2, <1>6, <2>1, <2>4 DEF i, Effect
<1> QED
  BY <1>5, <1>6

\* A step of the plan.
LEMMA ApplyIs ==
  ASSUME JobsAssumption, TypeInv, RecordInv, FileInv, AllowedPlan, NEW s, Fits(s), UNCHANGED preview,
         NEW o \in ApplyOutcomes(s), Took(o)
  PROVE  /\ Grows /\ Forth(s.action) /\ o \in Outcome
         /\ o.tree = file' /\ (~o.ok /\ o.tree = file => Same)
         /\ o.ok => /\ \A p \in Ends(s.action) : file[p] = preview[p]
                    /\ \A p \in Ends(s.action) \ touched' : file'[p] = Effect(s.action, p)
                    /\ o.seen = AfterOf(s.action) \/ (s.op # "move" /\ s.path \in touched')
                    /\ IsEdit(o.seen) => o.seen \in window'
<1> DEFINE i == s.action
           can == CanApply(file, s)
           g == Apply(file, s)
<1>1. i \in DOMAIN plan /\ s.op = plan[i].kind /\ s.path = PathOf(i)
  BY DEF Fits
<1>2. /\ Ends(i) \subseteq Paths /\ PathOf(i) \in Ends(i) /\ (plan[i].kind # "move" => Ends(i) = {PathOf(i)})
      /\ AfterOf(i) \in Content /\ ~IsEdit(AfterOf(i))
      /\ file \in [Paths -> Content] /\ edits \in Nat
  <2>1. Ends(i) \subseteq Paths /\ PathOf(i) \in Ends(i) /\ (plan[i].kind # "move" => Ends(i) = {PathOf(i)})
    BY <1>1, PlanIs
  <2>2. AfterOf(i) \in Content /\ ~IsEdit(AfterOf(i))
    BY <1>1, ActionIs
  <2> QED
    BY <1>1, <2>1, <2>2, PlanIs DEF TypeInv, VaultTypes
<1>3. can => /\ \A q \in Ends(i) : file[q] = preview[q] /\ ~IsEdit(file[q])
             /\ g \in [Paths -> Content]
             /\ \A q \in Ends(i) : g[q] = Effect(i, q)
             /\ \A q \in Paths \ Ends(i) : g[q] = file[q]
  BY CanApplyIs
<1>4. Effect(i, PathOf(i)) = AfterOf(i)
  BY DEF Effect
<1>5. o \in Outcomes(can, g, s.path, s.op) /\ can \in BOOLEAN
  BY DEF ApplyOutcomes, CanApply
<1>6. /\ o \in Outcome /\ o.saves = (IF o.hit = {} THEN edits ELSE edits + 1)
      /\ \/ ~o.ok /\ o.tree = file
         \/ can /\ o.tree = g /\ (o.ok => o.seen = g[s.path])
         \/ /\ can /\ s.op = "update" /\ o.ok /\ o.tree = [g EXCEPT ![s.path] = Edit(edits + 1)]
            /\ o.seen = Edit(edits + 1) /\ o.hit = {s.path}
  <2>1. s.path \in Paths /\ (can => g \in [Paths -> Content]) /\ s.op # "delete"
    BY <1>1, <1>2, <1>3, PlanIs
  <2> HIDE DEF g, can
  <2>2. can \in BOOLEAN /\ s.path \in Paths /\ (can => g \in [Paths -> Content])
    BY <1>5, <2>1
  <2>3. o \in Outcomes(can, g, s.path, s.op)
    BY <1>5
  <2>4. IsOutcome(can, g, s.path, s.op, o)
    BY <2>2, <2>3, OutcomeIs
  <2> QED
    BY <2>1, <2>4 DEF IsOutcome
<1> HIDE DEF g, can, i
<1>7. \A q \in Paths : IsEdit(file[q]) => \E r \in Paths : o.tree[r] = file[q]
  <2>1. ASSUME NEW q \in Paths, IsEdit(file[q]), o.tree # file
        PROVE  o.tree[q] = file[q]
    <3>1. can /\ (o.tree = g \/ o.tree = [g EXCEPT ![s.path] = Edit(edits + 1)])
      BY <1>6, <2>1
    <3>2. q \notin Ends(i) /\ q # s.path
      BY <1>1, <1>2, <1>3, <2>1, <3>1
    <3> QED
      BY <1>3, <3>1, <3>2
  <2> QED
    BY <2>1
<1>8. s.path \in Paths
  BY <1>1, <1>2
<1>9. Grows /\ file' = o.tree /\ o.hit \subseteq touched' /\ (o.hit # {} => Edit(edits + 1) \in window')
  BY <1>6, <1>7, TookIs
<1>10. ASSUME NEW p \in Paths \ touched', o.tree # file
       PROVE  can /\ (p \in Ends(i) => file'[p] = Effect(i, p)) /\ (p \notin Ends(i) => file'[p] = file[p])
  <2>1. can /\ (o.tree = g \/ (o.tree = [g EXCEPT ![s.path] = Edit(edits + 1)] /\ s.path \in touched'))
    BY <1>6, <1>9, <1>10
  <2>2. o.tree[p] = g[p]
    BY <1>3, <2>1
  <2> QED
    BY <1>3, <1>9, <2>1, <2>2
<1>11. Forth(i)
  BY <1>3, <1>9, <1>10 DEF Forth
<1>12. ~o.ok /\ o.tree = file => Same
  BY <1>9 DEF Same
<1>13. ASSUME o.ok
       PROVE  /\ \A p \in Ends(i) : file[p] = preview[p]
              /\ \A p \in Ends(i) \ touched' : file'[p] = Effect(i, p)
              /\ o.seen = AfterOf(i) \/ (s.op # "move" /\ s.path \in touched')
              /\ IsEdit(o.seen) => o.seen \in window'
  <2>1. can /\ \A p \in Ends(i) : file[p] = preview[p]
    BY <1>3, <1>6, <1>13
  <2>2. \A p \in Ends(i) \ touched' : file'[p] = Effect(i, p)
    <3>1. CASE o.tree = g
      BY <1>3, <1>9, <2>1, <3>1
    <3>2. CASE o.tree # g
      <4>1. o.tree = [g EXCEPT ![s.path] = Edit(edits + 1)] /\ s.path \in touched'
        BY <1>6, <1>9, <1>13, <3>2
      <4> QED
        BY <1>2, <1>3, <1>9, <2>1, <4>1
    <3> QED
      BY <3>1, <3>2
  <2>3. \/ o.seen = g[s.path]
        \/ s.op = "update" /\ o.seen = Edit(edits + 1) /\ s.path \in touched' /\ Edit(edits + 1) \in window'
    BY <1>6, <1>9, <1>13
  <2>4. g[s.path] = AfterOf(i)
    BY <1>1, <1>2, <1>3, <1>4, <2>1
  <2> QED
    BY <1>2, <2>1, <2>2, <2>3, <2>4
<1> QED
  BY <1>6, <1>9, <1>11, <1>12, <1>13 DEF i

\* An inverse is possible only where the effect shows.
LEMMA CanRestoreIs ==
  ASSUME JobsAssumption, TypeInv, RecordInv, FileInv, AllowedPlan, NEW s, Fits(s),
         NEW after, after = AfterOf(s.action) \/ s.op # "move", CanRestore(file, s, after)
  PROVE  LET i == s.action
             g == Restore(file, s)
         IN  /\ file[PathOf(i)] = after
             /\ \A q \in Ends(i) : q # PathOf(i) => file[q] = Absent /\ Effect(i, q) = Absent /\ after = AfterOf(i)
             /\ g \in [Paths -> Content] /\ \A q \in Ends(i) : g[q] = preview[q]
             /\ \A q \in Paths \ Ends(i) : g[q] = file[q]
<1> DEFINE i == s.action
           g == Restore(file, s)
<1>1. /\ i \in DOMAIN plan /\ s.op = plan[i].kind /\ s.path = PathOf(i) /\ s.source = plan[i].file
      /\ s.before = BeforeOf(i) /\ s.after = AfterOf(i)
  BY DEF Fits
<1>2. file[PathOf(i)] = after /\ (s.op = "move" => file[plan[i].file] = Absent)
  BY <1>1 DEF CanRestore
<1>3. file \in [Paths -> Content]
  BY DEF TypeInv, VaultTypes
<1>4. g = IF s.op = "move" THEN [file EXCEPT ![plan[i].file] = file[PathOf(i)], ![PathOf(i)] = Absent]
          ELSE [file EXCEPT ![PathOf(i)] = BeforeOf(i)]
  BY <1>1 DEF Restore
<1> HIDE DEF i, g
<1>5. /\ Ends(i) \subseteq Paths /\ PathOf(i) \in Ends(i) /\ plan[i].file \in Ends(i)
      /\ plan[i].kind # "move" => Ends(i) = {PathOf(i)} /\ PathOf(i) = plan[i].file
      /\ plan[i].kind = "move" => PathOf(i) # plan[i].file /\ Ends(i) = {PathOf(i), plan[i].file}
  BY <1>1, PlanIs
<1>6. /\ AfterOf(i) \in Content /\ BeforeOf(i) \in Content /\ Absent \in Content
      /\ plan[i].kind # "move" => BeforeOf(i) = preview[PathOf(i)]
      /\ plan[i].kind = "move" => AfterOf(i) = preview[plan[i].file] /\ preview[PathOf(i)] = Absent
  BY <1>1, ActionIs DEF Content
<1>7. PathOf(i) \in Paths /\ plan[i].file \in Paths
  BY <1>5
<1>8. CASE s.op = "move"
  <2>1. g = [file EXCEPT ![plan[i].file] = file[PathOf(i)], ![PathOf(i)] = Absent] /\ after = AfterOf(i)
    BY <1>4, <1>8 DEF i
  <2>2. /\ g \in [Paths -> Content] /\ g[plan[i].file] = AfterOf(i) /\ g[PathOf(i)] = Absent
        /\ \A q \in Paths \ Ends(i) : g[q] = file[q]
    BY <1>1, <1>2, <1>3, <1>5, <1>6, <1>7, <1>8, <2>1
  <2> QED
    BY <1>1, <1>2, <1>5, <1>6, <1>8, <2>1, <2>2 DEF i, g, Effect
<1>9. CASE s.op # "move"
  <2>1. g = [file EXCEPT ![PathOf(i)] = BeforeOf(i)]
    BY <1>4, <1>9
  <2>2. g \in [Paths -> Content] /\ g[PathOf(i)] = BeforeOf(i) /\ \A q \in Paths \ Ends(i) : g[q] = file[q]
    BY <1>1, <1>3, <1>5, <1>6, <1>7, <1>9, <2>1
  <2> QED
    BY <1>1, <1>2, <1>5, <1>6, <1>9, <2>2 DEF i, g
<1> QED
  BY <1>8, <1>9

\* An inverse of a step.
LEMMA RestoreIs ==
  ASSUME JobsAssumption, TypeInv, RecordInv, FileInv, AllowedPlan, NEW s, Fits(s), UNCHANGED preview,
         NEW after, after = AfterOf(s.action) \/ (s.op # "move" /\ s.path \in touched), IsEdit(after) => after \in window,
         NEW o \in RestoreOutcomes(s, after), Took(o)
  PROVE  /\ Grows /\ Back(s.action)
         /\ o.ok => \A p \in Ends(s.action) \ touched' : file'[p] = preview[p]
<1> DEFINE i == s.action
           can == CanRestore(file, s, after)
           g == Restore(file, s)
           put == IF s.op = "move" THEN s.source ELSE s.path
           op == IF s.op = "create" THEN "delete" ELSE s.op
<1>1. i \in DOMAIN plan /\ s.op = plan[i].kind /\ s.path = PathOf(i) /\ s.source = plan[i].file
  BY DEF Fits
<1>2. /\ Ends(i) \subseteq Paths /\ PathOf(i) \in Ends(i) /\ plan[i].file \in Ends(i)
      /\ file \in [Paths -> Content] /\ edits \in Nat /\ Absent \in Content
      /\ Effect(i, PathOf(i)) = AfterOf(i) /\ ~IsEdit(AfterOf(i)) /\ ~IsEdit(Absent)
  BY <1>1, PlanIs, ActionIs, ContentsAre DEF TypeInv, VaultTypes, Content, Effect
<1>3. can => /\ file[PathOf(i)] = after
             /\ \A q \in Ends(i) : q # PathOf(i) => file[q] = Absent /\ Effect(i, q) = Absent /\ after = AfterOf(i)
             /\ g \in [Paths -> Content] /\ \A q \in Ends(i) : g[q] = preview[q]
             /\ \A q \in Paths \ Ends(i) : g[q] = file[q]
  BY CanRestoreIs
<1>4. PICK u \in Outcomes(can, g, put, op) : o = [u EXCEPT !.ok = u.ok /\ u.seen = s.before]
  BY DEF RestoreOutcomes
<1>5. /\ u \in Outcome /\ u.saves = (IF u.hit = {} THEN edits ELSE edits + 1)
      /\ \/ ~u.ok /\ u.tree = file
         \/ can /\ u.tree = g
         \/ /\ can /\ s.op # "move" /\ u.tree = [g EXCEPT ![s.path] = Edit(edits + 1)] /\ u.hit = {s.path}
  <2>1. /\ put \in Paths /\ can \in BOOLEAN /\ (can => g \in [Paths -> Content])
        /\ op \in {"update", "delete"} => s.op # "move" /\ put = s.path
    BY <1>1, <1>2, <1>3, PlanIs DEF CanRestore
  <2> HIDE DEF g, can, put, op
  <2>2. can \in BOOLEAN /\ put \in Paths /\ (can => g \in [Paths -> Content])
    BY <2>1
  <2>3. u \in Outcomes(can, g, put, op)
    BY <1>4
  <2>4. IsOutcome(can, g, put, op, u)
    BY <2>2, <2>3, OutcomeIs
  <2> QED
    BY <2>1, <2>4 DEF IsOutcome
<1> HIDE DEF g, can, i, put, op
<1>6. o \in Outcome /\ o.tree = u.tree /\ o.saves = u.saves /\ o.hit = u.hit /\ (o.ok => u.ok)
  <2>1. (u.ok /\ u.seen = s.before) \in BOOLEAN
    OBVIOUS
  <2> QED
    BY <1>4, <1>5, <2>1 DEF Outcome
<1>7. \A q \in Paths : IsEdit(file[q]) => file[q] \in window \/ \E r \in Paths : o.tree[r] = file[q]
  <2>1. ASSUME NEW q \in Paths, IsEdit(file[q]), o.tree # file, file[q] \notin window
        PROVE  o.tree[q] = file[q]
    <3>1. can /\ (o.tree = g \/ o.tree = [g EXCEPT ![s.path] = Edit(edits + 1)])
      BY <1>5, <1>6, <2>1
    <3>2. q \notin Ends(i) /\ q # s.path
      BY <1>1, <1>2, <1>3, <2>1, <3>1
    <3> QED
      BY <1>3, <3>1, <3>2
  <2> QED
    BY <2>1
<1>8. s.path \in Paths
  BY <1>1, <1>2
<1>9. Grows /\ file' = o.tree /\ o.hit \subseteq touched' /\ (o.hit # {} => Edit(edits + 1) \in window')
  BY <1>5, <1>6, <1>7, TookIs
<1>10. touched \subseteq touched'
  BY <1>9 DEF Grows
<1>11. ASSUME NEW p \in Paths \ touched', o.tree # file
       PROVE  can /\ file'[p] = g[p]
  <2>1. can /\ (o.tree = g \/ (o.tree = [g EXCEPT ![s.path] = Edit(edits + 1)] /\ s.path \in touched'))
    BY <1>5, <1>6, <1>9, <1>11
  <2> QED
    BY <1>3, <1>9, <2>1
<1>12. ASSUME NEW p \in Paths \ touched', file'[p] # file[p]
       PROVE  p \in Ends(i) /\ file[p] = Effect(i, p) /\ file'[p] = preview[p]
  <2>1. can /\ file'[p] = g[p]
    BY <1>9, <1>11, <1>12
  <2>2. p \in Ends(i) /\ file'[p] = preview[p]
    BY <1>3, <1>12, <2>1
  <2>3. p = PathOf(i) => after = AfterOf(i)
    BY <1>1, <1>10 DEF i
  <2> QED
    BY <1>2, <1>3, <2>1, <2>2, <2>3
<1>13. o.tree # file => \A p \in Ends(i) \ touched' : file'[p] = preview[p]
  BY <1>2, <1>3, <1>11
<1>14. Back(i)
  BY <1>9, <1>12, <1>13 DEF Back
<1>15. ASSUME o.ok
       PROVE  \A p \in Ends(i) \ touched' : file'[p] = preview[p]
  <2>1. can /\ (o.tree = g \/ (o.tree = [g EXCEPT ![s.path] = Edit(edits + 1)] /\ s.path \in touched'))
    BY <1>5, <1>6, <1>9, <1>15
  <2>2. \A p \in Paths \ touched' : file'[p] = g[p]
    BY <1>3, <1>9, <2>1
  <2> QED
    BY <1>2, <1>3, <2>1, <2>2
<1> QED
  BY <1>9, <1>14, <1>15 DEF i

(***************************************************************************)
(* What a change of the Vault leaves true                                  *)
(***************************************************************************)

\* The plan and the preview stay.
LEMMA PlanKept ==
  ASSUME UNCHANGED <<plan, preview>>
  PROVE  /\ \A i : /\ Ends(i)' = Ends(i) /\ PathOf(i)' = PathOf(i)
                   /\ BeforeOf(i)' = BeforeOf(i) /\ AfterOf(i)' = AfterOf(i)
         /\ \A i, p : Effect(i, p)' = Effect(i, p)
         /\ \A s : Fits(s)' <=> Fits(s)
         /\ AllowedPlan' <=> AllowedPlan
<1>1. \A i : Ends(i)' = Ends(i) /\ PathOf(i)' = PathOf(i) /\ BeforeOf(i)' = BeforeOf(i) /\ AfterOf(i)' = AfterOf(i)
  BY DEF Ends, PathOf, BeforeOf, AfterOf
<1>2. \A i, p : Effect(i, p)' = Effect(i, p)
  BY <1>1 DEF Effect
<1>3. \A s : Fits(s)' <=> Fits(s)
  BY <1>1 DEF Fits
<1>4. AllowedPlan' <=> AllowedPlan
  BY DEF AllowedPlan
<1> QED
  BY <1>1, <1>2, <1>3, <1>4

\* The editor's paths.
LEMMA TheirsIs ==
  \A p : p \in Theirs <=> p \in touched \/ \E i \in DOMAIN plan : p \in Ends(i) /\ \E q \in Ends(i) : q \in touched
BY DEF Theirs, Ends

\* They only grow.
LEMMA TheirsGrow ==
  ASSUME UNCHANGED <<plan, preview>>, Grows
  PROVE  Theirs \subseteq Theirs'
<1>1. (\A p : p \in Theirs <=> p \in touched \/ \E i \in DOMAIN plan : p \in Ends(i) /\ \E q \in Ends(i) : q \in touched)'
  BY TheirsIs, PTL
<1>2. touched \subseteq touched' /\ DOMAIN plan' = DOMAIN plan
  BY DEF Grows
<1> QED
  BY <1>1, <1>2, PlanKept, TheirsIs

\* A changed path: no end of an action that names it is the editor's.
LEMMA ChangedIs ==
  \A p \in Changed : /\ p \in Paths /\ p \notin touched /\ file[p] # preview[p]
                     /\ \A j \in DOMAIN plan : p \in Ends(j) => \A q \in Ends(j) : q \notin touched
<1> SUFFICES ASSUME NEW p \in Changed
             PROVE  /\ p \in Paths /\ p \notin touched /\ file[p] # preview[p]
                    /\ \A j \in DOMAIN plan : p \in Ends(j) => \A q \in Ends(j) : q \notin touched
  OBVIOUS
<1>1. p \in Paths /\ p \notin Theirs /\ file[p] # preview[p]
  BY DEF Changed
<1> QED
  BY <1>1, TheirsIs

\* The same after a step.
LEMMA ChangedNext ==
  (\A p \in Changed : /\ p \in Paths /\ p \notin touched /\ file[p] # preview[p]
                      /\ \A j \in DOMAIN plan : p \in Ends(j) => \A q \in Ends(j) : q \notin touched)'
BY ChangedIs, PTL

Rules == JobsAssumption /\ TypeInv /\ RecordInv /\ FileInv /\ AllowedPlan

\* Nothing new is changed, or action i is.
LEMMA ChangedAfter ==
  ASSUME UNCHANGED <<plan, preview>>, Grows, NEW i \in DOMAIN plan, Same \/ Forth(i) \/ Back(i)
  PROVE  \A p \in Changed' : /\ p \in Paths /\ p \notin touched' /\ file'[p] # preview[p]
                             /\ \A j \in DOMAIN plan : p \in Ends(j) => \A q \in Ends(j) : q \notin touched'
                             /\ p \in Changed \/ (p \in Ends(i) /\ Forth(i))
<1>1. (\A p \in Changed : /\ p \in Paths /\ p \notin touched /\ file[p] # preview[p]
                          /\ \A j \in DOMAIN plan : p \in Ends(j) => \A q \in Ends(j) : q \notin touched)'
  BY ChangedNext
<1>2. ASSUME NEW p \in Changed'
      PROVE  p \in Changed \/ (p \in Ends(i) /\ Forth(i))
  <2>1. p \in Paths /\ p \notin touched' /\ file'[p] # preview[p]
    BY <1>1, <1>2
  <2>2. p \notin Theirs
    BY <1>2, TheirsGrow DEF Changed
  <2>3. file'[p] = file[p] \/ (p \in Ends(i) /\ Forth(i))
    BY <2>1 DEF Same, Forth, Back
  <2> QED
    BY <2>1, <2>2, <2>3 DEF Changed
<1>3. \A j : Ends(j)' = Ends(j)
  BY PlanKept
<1> QED
  BY <1>1, <1>2, <1>3
\* Of an action that is done, a path that stays changed keeps it in its place.
LEMMA PlaceKept ==
  ASSUME Rules, UNCHANGED <<plan, preview>>, Grows, NEW i \in DOMAIN plan, Same \/ Forth(i) \/ Back(i),
         NEW n \in DOMAIN plan, NEW p \in Ends(n), p \in Changed', InPlace(n)
  PROVE  InPlace(n)'
<1>1. /\ PathOf(n) \in Ends(n) /\ Ends(n) \subseteq Paths
      /\ \A j \in DOMAIN plan : Ends(j) = {PathOf(j), plan[j].file}
  BY PlanIs DEF Rules
<1>2. /\ \A j \in DOMAIN plan : AfterOf(j) # Absent /\ (\A q \in Ends(j) : Effect(j, q) # preview[q])
      /\ \A j \in DOMAIN plan : AfterOf(j) = IF plan[j].kind = "move" THEN Original(plan[j].file) ELSE Written(j)
      /\ \A j \in DOMAIN plan : plan[j].kind = "move" => PathOf(j) = plan[j].target
  BY PlanIs, ActionIs DEF Rules
<1>3. /\ p \in Paths /\ p \notin touched' /\ file'[p] # preview[p]
      /\ \A q \in Ends(n) : q \notin touched'
  BY ChangedAfter
<1>4. file[PathOf(n)] = AfterOf(n)
  BY DEF InPlace
<1>5. Effect(n, PathOf(n)) = AfterOf(n) /\ \A q : q # PathOf(i) => Effect(i, q) = Absent
  BY DEF Effect
<1>6. PathOf(n) \in Paths \ touched'
  BY <1>1, <1>3
<1>7. ASSUME file'[PathOf(n)] # file[PathOf(n)]
      PROVE  FALSE
  <2>1. CASE Same
    BY <1>6, <1>7, <2>1 DEF Same
  <2>2. CASE Forth(i)
    <3>1. PathOf(n) \in Ends(i) /\ file[PathOf(n)] = preview[PathOf(n)]
      BY <1>6, <1>7, <2>2 DEF Forth
    <3> QED
      BY <1>1, <1>2, <1>4, <1>5, <3>1
  <2>3. CASE Back(i)
    <3>1. PathOf(n) \in Ends(i) /\ file[PathOf(n)] = Effect(i, PathOf(n))
      BY <1>6, <1>7, <2>3 DEF Back
    <3>2. PathOf(n) = PathOf(i) /\ AfterOf(n) = AfterOf(i)
      <4>1. PathOf(n) = PathOf(i)
        BY <1>2, <1>4, <1>5, <3>1
      <4> QED
        BY <1>4, <3>1, <4>1 DEF Effect
    <3>3. \A q \in Ends(i) \ touched' : file'[q] = preview[q]
      BY <1>6, <1>7, <2>3, <3>2 DEF Back
    <3>4. plan[n].kind = "move" <=> plan[i].kind = "move"
      BY <1>2, <3>2, ContentsAre
    <3>5. Ends(n) = Ends(i)
      <4>1. CASE plan[n].kind = "move"
        <5>1. plan[n].file = plan[i].file
          BY <1>2, <3>2, <3>4, <4>1, ContentsAre
        <5> QED
          BY <1>1, <3>2, <5>1
      <4>2. CASE plan[n].kind # "move"
        BY <1>2, <3>2, <3>4, <4>2, ContentsAre
      <4> QED
        BY <4>1, <4>2
    <3> QED
      BY <1>3, <3>3, <3>5
  <2> QED
    BY <2>1, <2>2, <2>3
<1>8. PathOf(n)' = PathOf(n) /\ AfterOf(n)' = AfterOf(n)
  BY PlanKept
<1> QED
  BY <1>4, <1>7, <1>8 DEF InPlace

\* Effects that show still do after another step of the plan.
LEMMA ShownKept ==
  ASSUME Rules, UNCHANGED <<plan, preview>>, Grows, NEW i \in DOMAIN plan, Same \/ Forth(i),
         NEW D \in SUBSET DOMAIN plan, Shown(D)
  PROVE  \A j \in D : \A p \in Ends(j) \ touched' : file'[p] = Effect(j, p)
<1> SUFFICES ASSUME NEW j \in D, NEW p \in Ends(j) \ touched'
             PROVE  file'[p] = Effect(j, p)
  OBVIOUS
<1>1. p \in Paths /\ Effect(j, p) # preview[p]
  BY PlanIs, ActionIs DEF Rules
<1>2. file[p] = Effect(j, p)
  BY DEF Shown, Stands, Grows
<1>3. file'[p] # file[p] => file[p] = preview[p]
  BY <1>1 DEF Same, Forth
<1> QED
  BY <1>1, <1>2, <1>3

\* An action that is undone stays so when another is.
LEMMA UndoneKept ==
  ASSUME Rules, UNCHANGED <<plan, preview>>, Grows, NEW i \in DOMAIN plan, Same \/ Back(i), NEW j \in DOMAIN plan, Undone(j)
  PROVE  Undone(j)'
<1>1. ASSUME NEW p \in Ends(j) \ touched'
      PROVE  file'[p] = preview[p]
  <2>1. p \in Paths
    BY PlanIs DEF Rules
  <2>2. file[p] = preview[p]
    BY DEF Undone, Grows
  <2>3. file'[p] # file[p] => file'[p] = preview[p]
    BY <2>1 DEF Same, Back
  <2> QED
    BY <2>2, <2>3
<1>2. Ends(j)' = Ends(j)
  BY PlanKept
<1> QED
  BY <1>1, <1>2 DEF Undone

\* What the Vault may hold.
LEMMA FileKept ==
  ASSUME FileInv, VaultTypes, UNCHANGED <<plan, preview>>, Grows,
         Same \/ \E i \in DOMAIN plan : Forth(i) \/ Back(i)
  PROVE  FileInv'
<1>1. \A p \in Paths : preview'[p] \in {Absent, Original(p)}
  BY DEF FileInv
<1>2. ASSUME NEW p \in Paths \ touched', file'[p] # preview[p]
      PROVE  \E i \in DOMAIN plan : p \in Ends(i) /\ file'[p] = Effect(i, p)
  <2>1. CASE file'[p] = file[p]
    BY <1>2, <2>1 DEF FileInv, Grows
  <2>2. CASE file'[p] # file[p]
    <3>1. PICK i \in DOMAIN plan : Forth(i) \/ Back(i)
      BY <2>2 DEF Same
    <3> QED
      BY <1>2, <2>2, <3>1 DEF Forth, Back
  <2> QED
    BY <2>1, <2>2
<1>3. \A i : Ends(i)' = Ends(i) /\ \A p : Effect(i, p)' = Effect(i, p)
  BY PlanKept
<1> QED
  BY <1>1, <1>2, <1>3 DEF FileInv

(***************************************************************************)
(* What an action does to the journal                                      *)
(***************************************************************************)

\* A row is put.
LEMMA PutIs ==
  ASSUME JournalTypes, NEW s \in Nat, NEW row \in Row, Put(s, row)
  PROVE  /\ JournalTypes' /\ DOMAIN journal' = DOMAIN journal \cup {s} /\ journal'[s] = row
         /\ \A t \in DOMAIN journal : t # s => journal'[t] = journal[t]
<1>1. journal' = [t \in DOMAIN journal \cup {s} |-> IF t = s THEN row ELSE journal[t]]
  BY DEF Put
<1>2. DOMAIN journal' = DOMAIN journal \cup {s}
  BY <1>1
<1>3. IsFiniteSet(DOMAIN journal \cup {s})
  BY FS_AddElement DEF JournalTypes
<1> QED
  BY <1>1, <1>2, <1>3 DEF JournalTypes

\* Every row is marked.
LEMMA MarkIs ==
  ASSUME JournalTypes, NEW state \in {"pending", "applied", "rolled_back"}, MarkJournal(state)
  PROVE  /\ JournalTypes' /\ DOMAIN journal' = DOMAIN journal
         /\ \A s \in DOMAIN journal :
              /\ journal'[s].op = journal[s].op /\ journal'[s].action = journal[s].action
              /\ journal'[s].path = journal[s].path /\ journal'[s].source = journal[s].source
              /\ journal'[s].before = journal[s].before /\ journal'[s].after = journal[s].after
              /\ journal'[s].state = state
<1>1. journal' = [s \in DOMAIN journal |-> [journal[s] EXCEPT !.state = state]]
  BY DEF MarkJournal
<1>2. ASSUME NEW s \in DOMAIN journal
      PROVE  /\ journal'[s] \in Row
             /\ journal'[s].op = journal[s].op /\ journal'[s].action = journal[s].action
             /\ journal'[s].path = journal[s].path /\ journal'[s].source = journal[s].source
             /\ journal'[s].before = journal[s].before /\ journal'[s].after = journal[s].after
             /\ journal'[s].state = state
  <2>1. journal[s] \in Row
    BY DEF JournalTypes
  <2>2. journal'[s] = [journal[s] EXCEPT !.state = state]
    BY <1>1
  <2> QED
    BY <2>1, <2>2 DEF Row
<1> QED
  BY <1>1, <1>2 DEF JournalTypes

\* A row of the plan names the paths of its action.
LEMMA NamesIs ==
  ASSUME JobsAssumption, RecordInv, NEW s, Fits(s), NEW p
  PROVE  Names(p, s) <=> p \in Ends(s.action) /\ InPlace(s.action)
<1>1. /\ s.action \in DOMAIN plan /\ s.path = PathOf(s.action) /\ s.source = plan[s.action].file
      /\ s.after = AfterOf(s.action)
  BY DEF Fits
<1>2. Ends(s.action) = {PathOf(s.action), plan[s.action].file}
  BY <1>1, PlanIs
<1> QED
  BY <1>1, <1>2 DEF Names, InPlace

(***************************************************************************)
(* What an action does to the Vault                                        *)
(***************************************************************************)

\* A thread is at work only on a plan the policy allowed.
LEMMA WorkIsAllowed ==
  ASSUME JobsAssumption, JobsInv, pc # "idle" \/ rpc # "idle"
  PROVE  Rules /\ plan \in Plans /\ db # NoRecord
BY DEF JobsInv, RecordInv, Denied, Unplanned, Rules

\* The accept's next step.
LEMMA ExecApplyIs ==
  ASSUME JobsAssumption, JobsInv, ExecApply
  PROVE  LET s == ops[NextStep] IN
         /\ Rules /\ UNCHANGED <<plan, preview>> /\ Grows /\ NextStep \in DOMAIN ops /\ Fits(s)
         /\ Forth(s.action)
         /\ \/ /\ applied' = applied /\ pc' = AfterFailure
               /\ \/ Same /\ blur' = blur
                  \/ blur' = blur \cup {"torn"}
            \/ \E c \in Content :
                 /\ applied' = Append(applied, c) /\ blur' = blur
                 /\ pc' = IF NextStep = Len(ops) THEN "mark_applied" ELSE "journal"
                 /\ c = AfterOf(s.action) \/ (s.op # "move" /\ s.path \in touched')
                 /\ IsEdit(c) => c \in window'
                 /\ \A p \in Ends(s.action) : file[p] = preview[p]
                 /\ \A p \in Ends(s.action) \ touched' : file'[p] = Effect(s.action, p)
<1> DEFINE s == ops[NextStep]
<1>1. Rules /\ UNCHANGED <<plan, preview>>
  BY WorkIsAllowed DEF ExecApply, SameRecord
<1>2. NextStep \in DOMAIN ops /\ Fits(s)
  BY DEF JobsInv, TypeInv, ThreadTypes, StageInv, FitInv, ExecApply, NextStep
<1>3. PICK o \in ApplyOutcomes(s) :
        /\ Took(o)
        /\ IF o.ok
           THEN /\ applied' = Append(applied, o.seen) /\ UNCHANGED blur
                /\ pc' = IF NextStep = Len(ops) THEN "mark_applied" ELSE "journal"
           ELSE /\ pc' = AfterFailure /\ UNCHANGED applied
                /\ blur' = blur \cup (IF o.tree # file THEN {"torn"} ELSE {})
  BY DEF ExecApply
<1> HIDE DEF s
<1>4. /\ Grows /\ Forth(s.action) /\ o \in Outcome
      /\ o.tree = file' /\ (~o.ok /\ o.tree = file => Same)
      /\ o.ok => /\ \A p \in Ends(s.action) : file[p] = preview[p]
                 /\ \A p \in Ends(s.action) \ touched' : file'[p] = Effect(s.action, p)
                 /\ o.seen = AfterOf(s.action) \/ (s.op # "move" /\ s.path \in touched')
                 /\ IsEdit(o.seen) => o.seen \in window'
  BY <1>1, <1>2, <1>3, ApplyIs DEF Rules
<1>5. o.seen \in Content
  BY <1>4 DEF Outcome
<1> QED
  BY <1>1, <1>2, <1>3, <1>4, <1>5 DEF s

\* The inverse of its last step.
LEMMA ExecRollbackIs ==
  ASSUME JobsAssumption, JobsInv, ExecRollback
  PROVE  LET n == Len(applied)
             s == ops[n]
         IN  /\ Rules /\ UNCHANGED <<plan, preview>> /\ Grows /\ n \in DOMAIN applied /\ n \in DOMAIN ops /\ Fits(s)
             /\ Back(s.action)
             /\ \/ /\ applied' = SubSeq(applied, 1, n - 1)
                   /\ pc' = IF n = 1 THEN "mark_rolled_back" ELSE "rollback"
                   /\ \A p \in Ends(s.action) \ touched' : file'[p] = preview[p]
                \/ applied' = applied /\ pc' = "mark_rollback_failed"
<1> DEFINE n == Len(applied)
           s == ops[n]
<1>1. Rules /\ UNCHANGED <<plan, preview>>
  BY WorkIsAllowed DEF ExecRollback, SameRecord
<1>2. n \in DOMAIN applied /\ n \in DOMAIN ops
  BY DEF JobsInv, TypeInv, ThreadTypes, StageInv, ExecRollback
<1>3. /\ Fits(s) /\ (applied[n] = AfterOf(s.action) \/ (s.op # "move" /\ s.path \in touched))
      /\ IsEdit(applied[n]) => applied[n] \in window
  BY <1>2 DEF JobsInv, FitInv, LossInv
<1>4. PICK o \in RestoreOutcomes(s, applied[n]) :
        /\ Took(o)
        /\ IF o.ok
           THEN /\ applied' = SubSeq(applied, 1, n - 1)
                /\ pc' = IF n = 1 THEN "mark_rolled_back" ELSE "rollback"
           ELSE pc' = "mark_rollback_failed" /\ UNCHANGED applied
  BY DEF ExecRollback
<1> HIDE DEF s
<1>5. /\ Grows /\ Back(s.action)
      /\ o.ok => \A p \in Ends(s.action) \ touched' : file'[p] = preview[p]
  BY <1>1, <1>3, <1>4, RestoreIs DEF Rules
<1> QED
  BY <1>1, <1>2, <1>3, <1>4, <1>5 DEF s

\* The inverse of a row of the plan.
LEMMA RowRestoreIs ==
  ASSUME Rules, NEW s, Fits(s), UNCHANGED preview, NEW o \in RestoreOutcomes(s, s.after), Took(o)
  PROVE  /\ Grows /\ Back(s.action)
         /\ o.ok => \A p \in Ends(s.action) \ touched' : file'[p] = preview[p]
<1>1. s.action \in DOMAIN plan /\ s.after = AfterOf(s.action)
  BY DEF Fits
<1>2. ~IsEdit(s.after)
  BY <1>1, ActionIs DEF Rules
<1> QED
  BY <1>1, <1>2, RestoreIs DEF Rules

\* An inverse of an undo.
LEMMA UndoRestoreIs ==
  ASSUME JobsAssumption, JobsInv, UndoRestore
  PROVE  LET s == Head(todo) IN
         /\ Rules /\ UNCHANGED <<plan, preview>> /\ Grows /\ 1 \in DOMAIN todo /\ s = todo[1] /\ Fits(s)
         /\ Back(s.action)
         /\ \/ pc' = "undo_audit" /\ \A p \in Ends(s.action) \ touched' : file'[p] = preview[p]
            \/ pc' = "idle"
<1> DEFINE s == Head(todo)
<1>1. Rules /\ UNCHANGED <<plan, preview>>
  BY WorkIsAllowed DEF UndoRestore, SameRecord
<1>2. 1 \in DOMAIN todo /\ s = todo[1]
  BY DEF JobsInv, TypeInv, ThreadTypes, StageInv, UndoRestore
<1>3. Fits(s)
  BY <1>2 DEF JobsInv, FitInv
<1>4. PICK o \in RestoreOutcomes(s, s.after) :
        Took(o) /\ pc' = IF o.ok THEN "undo_audit" ELSE "idle"
  BY DEF UndoRestore
<1> HIDE DEF s
<1>5. /\ Grows /\ Back(s.action)
      /\ o.ok => \A p \in Ends(s.action) \ touched' : file'[p] = preview[p]
  BY <1>1, <1>3, <1>4, RowRestoreIs
<1> QED
  BY <1>1, <1>2, <1>3, <1>4, <1>5 DEF s

\* An inverse of a recovery.
LEMMA RecoverRestoreIs ==
  ASSUME JobsAssumption, JobsInv, RecoverRestore
  PROVE  LET s == Head(rtodo) IN
         /\ Rules /\ UNCHANGED <<plan, preview>> /\ Grows /\ 1 \in DOMAIN rtodo /\ s = rtodo[1] /\ Fits(s)
         /\ Back(s.action)
         /\ \/ rpc' = "audit" /\ \A p \in Ends(s.action) \ touched' : file'[p] = preview[p]
            \/ rpc' = "mark_failed"
<1> DEFINE s == Head(rtodo)
<1>1. Rules /\ UNCHANGED <<plan, preview>>
  BY WorkIsAllowed DEF RecoverRestore, SameRecord
<1>2. 1 \in DOMAIN rtodo /\ s = rtodo[1]
  BY DEF JobsInv, TypeInv, ThreadTypes, StageInv, RecoverRestore
<1>3. Fits(s)
  BY <1>2 DEF JobsInv, FitInv
<1>4. PICK o \in RestoreOutcomes(s, s.after) :
        Took(o) /\ rpc' = IF o.ok THEN "audit" ELSE "mark_failed"
  BY DEF RecoverRestore
<1> HIDE DEF s
<1>5. /\ Grows /\ Back(s.action)
      /\ o.ok => \A p \in Ends(s.action) \ touched' : file'[p] = preview[p]
  BY <1>1, <1>3, <1>4, RowRestoreIs
<1> QED
  BY <1>1, <1>2, <1>3, <1>4, <1>5 DEF s
\* Nothing of the Vault changes.
LEMMA StillIs ==
  ASSUME TypeInv, UNCHANGED <<fileVars, preview>>
  PROVE  Grows /\ Same
<1>1. UNCHANGED <<file, edits, touched, window, lost, preview>>
  BY DEF fileVars
<1> QED
  BY <1>1 DEF TypeInv, VaultTypes, Grows, Same, OnlyWindowSaves

\* A move that died after its link.
LEMMA HalfApplyIs ==
  ASSUME Rules, NEW s, Fits(s), s.op = "move", CanApply(file, s),
         file' = [file EXCEPT ![s.path] = file[s.source]], UNCHANGED <<preview, edits, touched, window, lost>>
  PROVE  Grows /\ Forth(s.action) /\ file'[PathOf(s.action)] = AfterOf(s.action)
<1> DEFINE i == s.action
<1>1. i \in DOMAIN plan /\ s.path = PathOf(i) /\ s.source = plan[i].file /\ plan[i].kind = "move" /\ s.before = BeforeOf(i)
  BY DEF Fits
<1>2. \A q \in Ends(i) : file[q] = preview[q]
  BY CanApplyIs DEF Rules
<1> HIDE DEF i
<1>3. PathOf(i) \in Ends(i) /\ PathOf(i) \in Paths /\ plan[i].file \in Ends(i) /\ plan[i].file \in Paths
  BY <1>1, PlanIs DEF Rules
<1>4. file[plan[i].file] = AfterOf(i)
  BY <1>1, <1>2, <1>3, ActionIs DEF Rules
<1>5. file \in [Paths -> Content]
  BY DEF Rules, TypeInv, VaultTypes
<1>6. /\ file' \in [Paths -> Content] /\ file'[PathOf(i)] = AfterOf(i)
      /\ \A p \in Paths : p # PathOf(i) => file'[p] = file[p]
  BY <1>1, <1>3, <1>4, <1>5
<1>7. Grows
  BY <1>6 DEF Grows, Rules, TypeInv, VaultTypes, OnlyWindowSaves
<1>8. Effect(i, PathOf(i)) = AfterOf(i)
  BY DEF Effect
<1>9. Forth(i)
  BY <1>2, <1>3, <1>6, <1>8 DEF Forth
<1> QED
  BY <1>6, <1>7, <1>9 DEF i

\* The inverse of a move that died after its link.
LEMMA HalfRestoreIs ==
  ASSUME Rules, NEW s, Fits(s), s.op = "move", CanRestore(file, s, AfterOf(s.action)),
         file' = [file EXCEPT ![s.source] = file[s.path]], UNCHANGED <<preview, edits, touched, window, lost>>
  PROVE  Grows /\ Back(s.action)
<1> DEFINE i == s.action
<1>1. i \in DOMAIN plan /\ s.path = PathOf(i) /\ s.source = plan[i].file /\ plan[i].kind = "move"
  BY DEF Fits
<1>2. file[PathOf(i)] = AfterOf(i) /\ file[plan[i].file] = Absent
  BY <1>1 DEF CanRestore
<1> HIDE DEF i
<1>3. /\ PathOf(i) \in Paths /\ plan[i].file \in Ends(i) /\ plan[i].file \in Paths /\ PathOf(i) # plan[i].file
      /\ AfterOf(i) = preview[plan[i].file]
  BY <1>1, PlanIs, ActionIs DEF Rules
<1>4. file \in [Paths -> Content]
  BY DEF Rules, TypeInv, VaultTypes
<1>5. /\ file' \in [Paths -> Content] /\ file'[plan[i].file] = preview[plan[i].file]
      /\ \A p \in Paths : p # plan[i].file => file'[p] = file[p]
  BY <1>1, <1>2, <1>3, <1>4
<1>6. Grows
  BY <1>5 DEF Grows, Rules, TypeInv, VaultTypes, OnlyWindowSaves
<1>7. Effect(i, plan[i].file) = Absent
  BY <1>3 DEF Effect
<1>8. Back(i)
  BY <1>2, <1>3, <1>5, <1>7 DEF Back
<1> QED
  BY <1>6, <1>8 DEF i

\* The process dies.
LEMMA CrashIs ==
  ASSUME JobsAssumption, JobsInv, CrashAndRestart
  PROVE  /\ UNCHANGED <<plan, preview>> /\ Grows
         /\ \/ Same
            \/ Rules /\ \E i \in DOMAIN plan : Back(i)
            \/ LET i == ops[NextStep].action IN
               /\ Rules /\ pc = "apply" /\ NextStep \in DOMAIN ops /\ i \in DOMAIN plan
               /\ Forth(i) /\ file'[PathOf(i)] = AfterOf(i)
<1>1. UNCHANGED <<plan, preview, edits, touched, window, lost>>
  BY DEF CrashAndRestart
<1>2. CASE file' = file
  BY <1>1, <1>2, StillIs DEF JobsInv, fileVars
<1>3. CASE /\ pc = "apply" /\ ops[NextStep].op = "move" /\ CanApply(file, ops[NextStep])
           /\ file' = [file EXCEPT ![ops[NextStep].path] = file[ops[NextStep].source]]
  <2> DEFINE s == ops[NextStep]
  <2>1. Rules
    BY <1>3, WorkIsAllowed
  <2>2. NextStep \in DOMAIN ops /\ Fits(s)
    BY <1>3 DEF JobsInv, TypeInv, ThreadTypes, StageInv, FitInv, NextStep
  <2>3. s.action \in DOMAIN plan
    BY <2>2 DEF Fits
  <2> HIDE DEF s
  <2>4. Grows /\ Forth(s.action) /\ file'[PathOf(s.action)] = AfterOf(s.action)
    BY <1>1, <1>3, <2>1, <2>2, HalfApplyIs DEF s
  <2> QED
    BY <1>1, <1>3, <2>1, <2>2, <2>3, <2>4 DEF s
<1>4. ASSUME NEW s, Rules, Fits(s), s.op = "move", CanRestore(file, s, AfterOf(s.action)),
             file' = [file EXCEPT ![s.source] = file[s.path]]
      PROVE  Grows /\ Rules /\ \E i \in DOMAIN plan : Back(i)
  <2>1. s.action \in DOMAIN plan
    BY <1>4 DEF Fits
  <2> QED
    BY <1>1, <1>4, <2>1, HalfRestoreIs
<1>5. CASE /\ pc = "rollback" /\ ops[Len(applied)].op = "move" /\ CanRestore(file, ops[Len(applied)], applied[Len(applied)])
           /\ file' = [file EXCEPT ![ops[Len(applied)].source] = file[ops[Len(applied)].path]]
  <2>1. Len(applied) \in DOMAIN applied /\ Len(applied) \in DOMAIN ops
    BY <1>5 DEF JobsInv, TypeInv, ThreadTypes, StageInv
  <2>2. Fits(ops[Len(applied)]) /\ applied[Len(applied)] = AfterOf(ops[Len(applied)].action)
    BY <1>5, <2>1 DEF JobsInv, FitInv
  <2>3. Rules
    BY <1>5, WorkIsAllowed
  <2> QED
    BY <1>1, <1>4, <1>5, <2>2, <2>3
<1>6. CASE /\ pc = "undo_restore" /\ Head(todo).op = "move" /\ CanRestore(file, Head(todo), Head(todo).after)
           /\ file' = [file EXCEPT ![Head(todo).source] = file[Head(todo).path]]
  <2>1. 1 \in DOMAIN todo /\ Head(todo) = todo[1]
    BY <1>6 DEF JobsInv, TypeInv, ThreadTypes, StageInv
  <2>2. Fits(Head(todo))
    BY <2>1 DEF JobsInv, FitInv
  <2>3. Head(todo).after = AfterOf(Head(todo).action)
    BY <2>2 DEF Fits
  <2>4. Rules
    BY <1>6, WorkIsAllowed
  <2> QED
    BY <1>1, <1>4, <1>6, <2>2, <2>3, <2>4
<1>7. CASE /\ rpc = "restore" /\ Head(rtodo).op = "move" /\ CanRestore(file, Head(rtodo), Head(rtodo).after)
           /\ file' = [file EXCEPT ![Head(rtodo).source] = file[Head(rtodo).path]]
  <2>1. 1 \in DOMAIN rtodo /\ Head(rtodo) = rtodo[1]
    BY <1>7 DEF JobsInv, TypeInv, ThreadTypes, StageInv
  <2>2. Fits(Head(rtodo))
    BY <2>1 DEF JobsInv, FitInv
  <2>3. Head(rtodo).after = AfterOf(Head(rtodo).action)
    BY <2>2 DEF Fits
  <2>4. Rules
    BY <1>7, WorkIsAllowed
  <2> QED
    BY <1>1, <1>4, <1>7, <2>2, <2>3, <2>4
<1> QED
  BY <1>2, <1>3, <1>5, <1>6, <1>7 DEF CrashAndRestart, HalfMoves

\* The editor saves or removes a file.
LEMMA EditorIs ==
  ASSUME JobsAssumption, JobsInv, NEW p \in PlanPaths, EditorSave(p) \/ EditorDelete(p)
  PROVE  /\ UNCHANGED <<plan, preview, recVars, journal, lockVars, recoveryVars, blur, limitVars>>
         /\ Grows /\ Same /\ db # NoRecord
<1>1. /\ UNCHANGED <<plan, preview, recVars, journal, lockVars, recoveryVars, window, lost, blur, limitVars>>
      /\ db # NoRecord /\ edits' = edits + 1 /\ touched' = touched \cup {p}
      /\ \E c \in {Edit(edits + 1), Absent} : file' = [file EXCEPT ![p] = c]
  BY DEF EditorSave, EditorDelete
<1>2. file \in [Paths -> Content] /\ preview \in [Paths -> Content] /\ edits \in Nat /\ touched \subseteq Paths
  BY DEF JobsInv, TypeInv, VaultTypes
<1>3. p \in Paths
  <2>1. PICK i \in DOMAIN plan : p \in Ends(i)
    BY DEF PlanPaths, Ends
  <2> QED
    BY <2>1, PlanIs DEF JobsInv
<1>4. Edit(edits + 1) \in Content /\ Absent \in Content
  BY <1>2 DEF Edit, Content
<1>5. file' \in [Paths -> Content] /\ \A q \in Paths : q # p => file'[q] = file[q]
  BY <1>1, <1>2, <1>3, <1>4
<1>6. Grows
  BY <1>1, <1>2, <1>3, <1>5 DEF Grows, VaultTypes, OnlyWindowSaves
<1>7. Same
  BY <1>1, <1>5 DEF Same
<1> QED
  BY <1>1, <1>6, <1>7
\* The record a call works on lists what the row lists.
LEMMA LoadedIs ==
  ASSUME RecordInv
  PROVE  /\ Loaded \in Record /\ Loaded.executed = db.executed
         /\ Loaded = IF cache # NoRecord THEN cache ELSE db
         /\ Loaded.status # "none" => db # NoRecord /\ Loaded # NoRecord
BY DEF RecordInv, Loaded, Unplanned, NoRecord

\* An accept starts.
LEMMA AcceptIs ==
  ASSUME JobsAssumption, JobsInv, NEW sel \in (SUBSET (DOMAIN plan)) \ {{}}, Accept(sel)
  PROVE  /\ Rules /\ plan \in Plans /\ pc = "idle" /\ Loaded.status = "awaiting"
         /\ db' \in Record /\ db'.status = "executing" /\ db'.executed = db.executed
         /\ cache' \in Record /\ cache' # NoRecord /\ cache'.status = "awaiting" /\ cache'.executed = db.executed
         /\ ops' \in Seq(Step) /\ ops' # <<>> /\ \A n \in DOMAIN ops' : Fits(ops'[n]) /\ ops'[n].action \in sel
         /\ UNCHANGED <<fileVars, plan, preview, journal, todo, seq, recoveryVars>>
         /\ pc' = "journal" /\ applied' = <<>> /\ blur \subseteq blur'
         /\ "raced" \notin blur' => rpc = "idle"
         /\ "leftover" \notin blur' => db.executed = {}
<1>1. /\ pc = "idle" /\ Loaded.status = "awaiting" /\ PreviewHolds(sel)
      /\ db' = [Loaded EXCEPT !.status = "executing"] /\ cache' = Loaded
      /\ ops' = [n \in 1..Cardinality(sel) |-> StepOf(InOrder(sel)[n])]
      /\ pc' = "journal" /\ applied' = <<>>
      /\ blur' = blur \cup (IF rpc # "idle" THEN {"raced"} ELSE {}) \cup (IF Leftover THEN {"leftover"} ELSE {})
      /\ UNCHANGED <<fileVars, plan, preview, journal, todo, seq, recoveryVars>>
  BY DEF Accept
<1>2. Loaded \in Record /\ Loaded.executed = db.executed /\ db # NoRecord /\ Loaded # NoRecord
  BY <1>1, LoadedIs DEF JobsInv
<1>3. Rules /\ plan \in Plans
  BY <1>1, <1>2 DEF JobsInv, RecordInv, Denied, Loaded, Rules, NoRecord
<1>4. db' \in Record /\ db'.status = "executing" /\ db'.executed = db.executed
  BY <1>1, <1>2 DEF Record, Statuses
<1>5. sel \in SUBSET Nat /\ IsFiniteSet(sel) /\ sel # {}
  <2>1. plan \in Seq(Actions)
    BY <1>3 DEF JobsAssumption
  <2>2. DOMAIN plan = 1 .. Len(plan) /\ Len(plan) \in Nat
    BY <2>1
  <2>3. IsFiniteSet(DOMAIN plan)
    BY <2>2, FS_Interval
  <2> QED
    BY <2>2, <2>3, FS_Subset
<1>6. /\ Cardinality(sel) \in Nat /\ Cardinality(sel) # 0
      /\ \A n \in 1 .. Cardinality(sel) : InOrder(sel)[n] \in sel
  BY <1>5, InOrderIs, FS_EmptySet
<1>7. ASSUME NEW i \in sel
      PROVE  StepOf(i) \in Step /\ Fits(StepOf(i)) /\ StepOf(i).action = i
  <2>1. /\ i \in DOMAIN plan /\ i \in Nat /\ plan[i] \in Actions
        /\ plan[i].file \in Paths /\ plan[i].target \in Paths
    BY <1>3, PlanIs DEF Rules, Actions
  <2>2. plan[i].kind # "create" => file[plan[i].file] = preview[plan[i].file]
    BY <1>1 DEF PreviewHolds
  <2>3. BeforeOf(i) = (IF plan[i].kind = "create" THEN Absent ELSE file[plan[i].file])
    BY <2>2 DEF BeforeOf
  <2>4. AfterOf(i) = (IF plan[i].kind = "move" THEN file[plan[i].file] ELSE Written(i))
    BY <2>2 DEF AfterOf
  <2>5. StepOf(i) = [op |-> plan[i].kind, action |-> i, path |-> PathOf(i), source |-> plan[i].file,
                     before |-> BeforeOf(i), after |-> AfterOf(i)]
    BY <2>3, <2>4 DEF StepOf, PathOf
  <2>6. BeforeOf(i) \in Content /\ AfterOf(i) \in Content /\ PathOf(i) \in Paths /\ plan[i].kind \in {"update", "create", "move"}
    BY <1>3, <2>1, PlanIs, ActionIs DEF Rules
  <2> QED
    BY <2>1, <2>5, <2>6 DEF Step, Fits
<1>8. ops' \in Seq(Step) /\ Len(ops') = Cardinality(sel) /\ DOMAIN ops' = 1 .. Cardinality(sel)
  BY <1>1, <1>6, <1>7
<1>9. \A n \in DOMAIN ops' : Fits(ops'[n]) /\ ops'[n].action \in sel
  BY <1>1, <1>6, <1>7, <1>8
<1>10. ops' # <<>>
  BY <1>6, <1>8
<1>11. cache' \in Record /\ cache' # NoRecord /\ cache'.status = "awaiting" /\ cache'.executed = db.executed
  BY <1>1, <1>2
<1>12. "leftover" \notin blur' => db.executed = {}
  BY <1>1, <1>2 DEF Leftover
<1> QED
  BY <1>1, <1>3, <1>4, <1>9, <1>8, <1>10, <1>11, <1>12

\* An undo starts.
LEMMA UndoIs ==
  ASSUME JobsAssumption, JobsInv, Undo
  PROVE  /\ Rules /\ pc = "idle" /\ Loaded.status = "committed" /\ cache' = Loaded
         /\ Loaded \in Record /\ Loaded.executed = db.executed /\ db # NoRecord /\ Loaded # NoRecord
         /\ \A s \in DOMAIN journal : Executable(journal[s])
         /\ todo' \in Seq(Row) /\ todo' # <<>> /\ \A n \in DOMAIN todo' : Fits(todo'[n])
         /\ \A s \in DOMAIN journal : \E n \in DOMAIN todo' : todo'[n] = journal[s]
         /\ seq' \in Nat /\ \A s \in DOMAIN journal : s < seq'
         /\ UNCHANGED <<fileVars, plan, preview, db, journal, ops, applied, recoveryVars>>
         /\ pc' = "undo_restore" /\ blur \cup {"half_undone"} \subseteq blur'
         /\ "raced" \notin blur' => rpc = "idle"
<1>1. /\ pc = "idle" /\ Loaded.status = "committed" /\ cache' = Loaded
      /\ DOMAIN journal # {} /\ \A s \in DOMAIN journal : Executable(journal[s])
      /\ todo' = Backwards(DOMAIN journal) /\ seq' = NextSeq
      /\ blur' = blur \cup {"half_undone"} \cup (IF rpc # "idle" THEN {"raced"} ELSE {})
      /\ UNCHANGED <<fileVars, plan, preview, db, journal, ops, applied, recoveryVars>> /\ pc' = "undo_restore"
  BY DEF Undo
<1>2. Loaded \in Record /\ Loaded.executed = db.executed /\ db # NoRecord /\ Loaded # NoRecord
  BY <1>1, LoadedIs DEF JobsInv
<1>3. Rules
  BY <1>1, <1>2 DEF JobsInv, RecordInv, Denied, Loaded, Rules, NoRecord
<1>4. JournalTypes
  BY DEF JobsInv, TypeInv
<1>5. /\ Backwards(DOMAIN journal) \in Seq(Row) /\ Backwards(DOMAIN journal) # <<>>
      /\ \A n \in DOMAIN Backwards(DOMAIN journal) : \E s \in DOMAIN journal : Backwards(DOMAIN journal)[n] = journal[s]
      /\ \A s \in DOMAIN journal : \E n \in DOMAIN Backwards(DOMAIN journal) : Backwards(DOMAIN journal)[n] = journal[s]
  BY <1>1, <1>4, BackwardsIs
<1>6. \A n \in DOMAIN todo' : Fits(todo'[n])
  BY <1>1, <1>5 DEF JobsInv, FitInv
<1>7. seq' \in Nat /\ \A s \in DOMAIN journal : s < seq'
  BY <1>1, <1>4, NextSeqIs
<1> QED
  BY <1>1, <1>2, <1>3, <1>5, <1>6, <1>7

\* A recovery starts.
LEMMA RecoverIs ==
  ASSUME JobsAssumption, JobsInv, Recover
  PROVE  /\ rpc = "idle" /\ Flagged /\ Rules
         /\ \A s \in Uncertain : Ours(s) \/ Untouched(s)
         /\ rtodo' \in Seq(Row) /\ \A n \in DOMAIN rtodo' : Fits(rtodo'[n])
         /\ \A s \in Uncertain : Ours(s) => \E n \in DOMAIN rtodo' : rtodo'[n] = journal[s]
         /\ rseq' \in Nat /\ rpc' \in {"nothing", "mark", "restore"}
         /\ rpc' = "nothing" <=> Uncertain = {}
         /\ rpc' = "mark" => Uncertain # {} /\ rtodo' = <<>>
         /\ rpc' = "restore" => rtodo' # <<>> /\ \A s \in DOMAIN journal : s < rseq'
         /\ UNCHANGED <<fileVars, db, cache, plan, preview, journal, pc, ops, applied, todo, seq>>
         /\ blur \subseteq blur' /\ ("raced" \notin blur' => pc = "idle")
<1> DEFINE S == {s \in Uncertain : Ours(s)}
<1>1. /\ rpc = "idle" /\ Flagged /\ \A s \in Uncertain : Ours(s) \/ Untouched(s)
      /\ rtodo' = Backwards(S)
      /\ rseq' = IF Uncertain = {} THEN 0 ELSE NextSeq
      /\ rpc' = IF Uncertain = {} THEN "nothing" ELSE IF rtodo' = <<>> THEN "mark" ELSE "restore"
      /\ blur' = blur \cup (IF pc # "idle" THEN {"raced"} ELSE {})
      /\ UNCHANGED <<fileVars, db, cache, plan, preview, journal, pc, ops, applied, todo, seq>>
  BY DEF Recover, SameRecord, recVars, lockVars
<1>2. Rules
  BY <1>1 DEF JobsInv, RecordInv, Denied, Rules, Flagged
<1>3. Uncertain \subseteq DOMAIN journal /\ \A s \in Uncertain : Executable(journal[s])
  BY DEF Uncertain
<1>4. S \in SUBSET DOMAIN journal /\ S \in SUBSET Uncertain
  BY <1>3
<1>5. JournalTypes
  BY DEF JobsInv, TypeInv
<1>6. \A s \in Uncertain : Ours(s) => s \in S
  OBVIOUS
<1> HIDE DEF S
<1>7. /\ Backwards(S) \in Seq(Row)
      /\ \A n \in DOMAIN Backwards(S) : \E s \in S : Backwards(S)[n] = journal[s]
      /\ \A s \in S : \E n \in DOMAIN Backwards(S) : Backwards(S)[n] = journal[s]
  BY <1>4, <1>5, BackwardsIs
<1>8. \A n \in DOMAIN rtodo' : Fits(rtodo'[n])
  BY <1>1, <1>3, <1>4, <1>7 DEF JobsInv, FitInv
<1>9. Uncertain # {} => NextSeq \in Nat /\ \A s \in DOMAIN journal : s < NextSeq
  BY <1>3, <1>5, NextSeqIs
<1>10. rseq' \in Nat /\ (Uncertain # {} => \A s \in DOMAIN journal : s < rseq')
  BY <1>1, <1>9
<1> QED
  BY <1>1, <1>2, <1>6, <1>7, <1>8, <1>10
Quiet ==
  \/ \E sel \in (SUBSET (DOMAIN plan)) \ {{}} : Accept(sel)
  \/ Reject \/ Load \/ ExecJournal \/ ExecJournalFails
  \/ ExecMarkApplied \/ ExecMarkPending \/ ExecMarkRolledBack \/ ExecMarkRollbackFailed
  \/ ExecCommit \/ ExecFinish("finish_rolled_back", "rolled_back")
  \/ ExecFinish("finish_rollback_failed", "rollback_failed")
  \/ Undo \/ UndoAudit \/ UndoFinish \/ Recover \/ RecoverAudit \/ RecoverMark \/ RecoverFinish

\* The actions that do not touch the Vault.
LEMMA QuietIs ==
  ASSUME Quiet
  PROVE  UNCHANGED <<fileVars, plan, preview>>
<1>1. CASE \E sel \in (SUBSET (DOMAIN plan)) \ {{}} : Accept(sel)
  BY <1>1 DEF Accept
<1>2. CASE Reject \/ Load \/ ExecJournal \/ ExecJournalFails
  BY <1>2 DEF Reject, Load, ExecJournal, ExecJournalFails, SameRecord
<1>3. CASE ExecMarkApplied \/ ExecMarkPending \/ ExecMarkRolledBack \/ ExecMarkRollbackFailed
  BY <1>3 DEF ExecMarkApplied, ExecMarkPending, ExecMarkRolledBack, ExecMarkRollbackFailed, ExecMark, SameRecord
<1>4. CASE \/ ExecCommit \/ ExecFinish("finish_rolled_back", "rolled_back")
           \/ ExecFinish("finish_rollback_failed", "rollback_failed") \/ UndoFinish
  BY <1>4 DEF ExecCommit, ExecFinish, UndoFinish, SaveRecord
<1>5. CASE Undo \/ UndoAudit
  BY <1>5 DEF Undo, UndoAudit, SameRecord
<1>6. CASE Recover \/ RecoverAudit \/ RecoverMark \/ RecoverFinish
  BY <1>6 DEF Recover, RecoverAudit, RecoverMark, RecoverFinish, SameRecord
<1> QED
  BY <1>1, <1>2, <1>3, <1>4, <1>5, <1>6 DEF Quiet

\* Every step but the plan's: an action of the plan takes effect, or goes
\* back, and nothing else changes where no editor is.
LEMMA VaultStep ==
  ASSUME JobsAssumption, JobsInv, [Next]_vars
  PROVE  \/ \E acts \in Plans : Plan(acts)
         \/ /\ UNCHANGED <<plan, preview>> /\ Grows
            /\ Same \/ (Rules /\ \E i \in DOMAIN plan : Back(i) \/ (Forth(i) /\ pc = "apply" /\ pc' # "apply"))
<1>1. CASE Quiet
  BY <1>1, QuietIs, StillIs DEF JobsInv
<1>2. CASE ExecApply
  <2>1. ops[NextStep].action \in DOMAIN plan
    BY <1>2, ExecApplyIs DEF Fits
  <2>2. pc = "apply" /\ pc' # "apply"
    BY <1>2, ExecApplyIs DEF ExecApply, AfterFailure
  <2> QED
    BY <1>2, <2>1, <2>2, ExecApplyIs
<1>3. CASE ExecRollback
  <2>1. ops[Len(applied)].action \in DOMAIN plan
    BY <1>3, ExecRollbackIs DEF Fits
  <2> QED
    BY <1>3, <2>1, ExecRollbackIs
<1>4. CASE UndoRestore
  <2>1. Head(todo).action \in DOMAIN plan
    BY <1>4, UndoRestoreIs DEF Fits
  <2> QED
    BY <1>4, <2>1, UndoRestoreIs
<1>5. CASE RecoverRestore
  <2>1. Head(rtodo).action \in DOMAIN plan
    BY <1>5, RecoverRestoreIs DEF Fits
  <2> QED
    BY <1>5, <2>1, RecoverRestoreIs
<1>6. CASE CrashAndRestart
  <2>1. pc' = "idle"
    BY <1>6 DEF CrashAndRestart
  <2> QED
    BY <1>6, <2>1, CrashIs
<1>7. CASE \E p \in PlanPaths : EditorSave(p) \/ EditorDelete(p)
  BY <1>7, EditorIs
<1>8. CASE UNCHANGED vars
  BY <1>8, StillIs DEF JobsInv, vars, fileVars
<1>9. \/ Quiet \/ ExecApply \/ ExecRollback \/ UndoRestore \/ RecoverRestore \/ CrashAndRestart
      \/ \E p \in PlanPaths : EditorSave(p) \/ EditorDelete(p)
      \/ UNCHANGED vars \/ \E acts \in Plans : Plan(acts)
  BY Zenon DEF Next, Quiet
<1> QED
  BY <1>1, <1>2, <1>3, <1>4, <1>5, <1>6, <1>7, <1>8, <1>9

\* The journal and the threads are as they were.
LEMMA TypeFrame ==
  ASSUME TypeInv, VaultTypes', UNCHANGED <<journal, pc, ops, applied, todo, seq, rpc, rtodo, rseq>>
  PROVE  TypeInv'
<1>1. JournalTypes' /\ ThreadTypes' /\ StageInv'
  BY DEF TypeInv, JournalTypes, ThreadTypes, StageInv
<1> QED
  BY <1>1 DEF TypeInv

\* So are their shapes after a crash, or once the lock is free.
LEMMA TypeIdle ==
  ASSUME TypeInv, VaultTypes', UNCHANGED journal,
         pc' = "idle", ops' = <<>>, applied' = <<>>, todo' = <<>>, seq' = 0,
         \/ UNCHANGED <<rpc, rtodo, rseq>>
         \/ rpc' = "idle" /\ rtodo' = <<>> /\ rseq' = 0
  PROVE  TypeInv'
<1>1. JournalTypes'
  BY DEF TypeInv, JournalTypes
<1>2. ThreadTypes'
  <2>1. <<>> \in Seq(Step) /\ <<>> \in Seq(Content) /\ <<>> \in Seq(Row) /\ Len(<<>>) <= Len(<<>>)
    OBVIOUS
  <2>2. rpc' \in RecoverySteps /\ rtodo' \in Seq(Row) /\ rseq' \in Nat
    <3>1. rpc \in RecoverySteps /\ rtodo \in Seq(Row) /\ rseq \in Nat
      BY DEF TypeInv, ThreadTypes
    <3>2. CASE UNCHANGED <<rpc, rtodo, rseq>>
      BY <3>1, <3>2
    <3>3. CASE rpc' = "idle" /\ rtodo' = <<>> /\ rseq' = 0
      BY <2>1, <3>3 DEF RecoverySteps
    <3> QED
      BY <3>2, <3>3
  <2> QED
    BY <2>1, <2>2 DEF ThreadTypes
<1>3. StageInv'
  BY DEF TypeInv, StageInv
<1> QED
  BY <1>1, <1>2, <1>3 DEF TypeInv

\* Shapes after a plan.
LEMMA PlanTypes ==
  ASSUME JobsAssumption, JobsInv, NEW acts \in Plans, Plan(acts)
  PROVE  /\ VaultTypes' /\ plan' = acts /\ preview' = file /\ db' \in Record /\ cache' = db' /\ Unplanned
         /\ UNCHANGED <<fileVars, journal, lockVars, recoveryVars, blur>>
         /\ db'.executed = {} /\ db # db' /\ db' # NoRecord
         /\ db'.status = IF Allowed(file, {acts[i] : i \in DOMAIN acts}) THEN "awaiting" ELSE "failed"
<1>1. /\ db = NoRecord /\ plan' = acts /\ preview' = file /\ cache' = db'
      /\ db' = [status |-> IF Allowed(file, {acts[i] : i \in DOMAIN acts}) THEN "awaiting" ELSE "failed", executed |-> {}]
      /\ UNCHANGED <<fileVars, journal, lockVars, recoveryVars, blur>>
  BY DEF Plan
<1>2. db' \in Record /\ db'.executed = {} /\ db'.status \in {"awaiting", "failed"}
      /\ db'.status = IF Allowed(file, {acts[i] : i \in DOMAIN acts}) THEN "awaiting" ELSE "failed"
  <2>1. CASE Allowed(file, {acts[i] : i \in DOMAIN acts})
    BY <1>1, <2>1 DEF Record, Statuses
  <2>2. CASE ~Allowed(file, {acts[i] : i \in DOMAIN acts})
    BY <1>1, <2>2 DEF Record, Statuses
  <2> QED
    BY <2>1, <2>2
<1>3. Unplanned
  BY <1>1 DEF JobsInv, RecordInv
<1>4. VaultTypes'
  BY <1>1 DEF fileVars, JobsInv, TypeInv, VaultTypes
<1>5. db' # NoRecord
  BY <1>2 DEF NoRecord
<1> QED
  BY <1>1, <1>2, <1>3, <1>4, <1>5
\* The row of a step, and the row an inverse leaves.
LEMMA RowsAre ==
  /\ \A s \in Step : /\ RowOf(s) \in Row /\ Executable(RowOf(s)) /\ RowOf(s).action = s.action
                     /\ RowOf(s).state = "pending" /\ (Fits(s) => Fits(RowOf(s)))
  /\ \A row \in Row : AuditRow(row) \in Row /\ ~Executable(AuditRow(row)) /\ AuditRow(row).action = row.action
<1>1. Absent \in Content
  BY DEF Content
<1>2. ASSUME NEW s \in Step
      PROVE  /\ RowOf(s) \in Row /\ Executable(RowOf(s)) /\ RowOf(s).action = s.action
             /\ RowOf(s).state = "pending" /\ (Fits(s) => Fits(RowOf(s)))
  <2>1. /\ RowOf(s) \in Row /\ RowOf(s).action = s.action /\ RowOf(s).op = s.op /\ RowOf(s).path = s.path
        /\ RowOf(s).source = s.source /\ RowOf(s).before = s.before /\ RowOf(s).after = s.after
        /\ RowOf(s).state = "pending" /\ s.op # "undo"
    BY DEF RowOf, Step, Row
  <2> QED
    BY <2>1 DEF Executable, Fits
<1>3. ASSUME NEW row \in Row
      PROVE  AuditRow(row) \in Row /\ ~Executable(AuditRow(row)) /\ AuditRow(row).action = row.action
  <2>1. /\ AuditRow(row) = [row EXCEPT !.op = "undo", !.after = Absent, !.state = "applied"]
    BY DEF AuditRow
  <2> QED
    BY <1>1, <2>1 DEF Row, Executable
<1> QED
  BY <1>2, <1>3

\* A head and a tail.
LEMMA TodoIs ==
  ASSUME NEW t \in Seq(Row), t # <<>>
  PROVE  /\ Head(t) \in Row /\ Head(t) = t[1] /\ Tail(t) \in Seq(Row) /\ Len(Tail(t)) = Len(t) - 1
         /\ DOMAIN Tail(t) = 1 .. (Len(t) - 1) /\ \A n \in DOMAIN Tail(t) : Tail(t)[n] = t[n + 1] /\ n + 1 \in DOMAIN t
         /\ \A n \in DOMAIN t : n # 1 => n - 1 \in DOMAIN Tail(t) /\ Tail(t)[n - 1] = t[n]
         /\ 1 \in DOMAIN t
BY HeadTailProperties

\* The accept's own steps keep the shapes.
LEMMA ExecTypes ==
  ASSUME JobsAssumption, JobsInv, VaultTypes',
         ExecJournal \/ ExecJournalFails \/ ExecApply \/ ExecMarkApplied \/ ExecMarkPending \/ ExecRollback
         \/ ExecMarkRolledBack \/ ExecMarkRollbackFailed
  PROVE  TypeInv'
<1>1. JournalTypes /\ ThreadTypes /\ StageInv
  BY DEF JobsInv, TypeInv
<1>2. CASE ExecJournal
  <2>1. NextStep \in DOMAIN ops /\ Len(applied) \in Nat /\ ops[NextStep] \in Step
    BY <1>1, <1>2 DEF ThreadTypes, StageInv, ExecJournal, NextStep
  <2>2. Put(Len(applied), RowOf(ops[NextStep])) /\ pc' = "apply" /\ UNCHANGED <<ops, applied, todo, seq, rpc, rtodo, rseq>>
    BY <1>2 DEF ExecJournal, Goto, recoveryVars
  <2>3. JournalTypes'
    BY <1>1, <2>1, <2>2, RowsAre, PutIs
  <2>4. ThreadTypes' /\ StageInv'
    BY <1>1, <1>2, <2>2 DEF ThreadTypes, StageInv, ExecSteps, Forward, ExecJournal
  <2> QED
    BY <2>3, <2>4 DEF TypeInv
<1>3. CASE ExecJournalFails
  <2>1. pc' = AfterFailure /\ UNCHANGED <<ops, applied, todo, seq, rpc, rtodo, rseq, journal>>
    BY <1>3 DEF ExecJournalFails, Goto, recoveryVars
  <2>2. JournalTypes' /\ ThreadTypes' /\ StageInv'
    BY <1>1, <2>1 DEF JournalTypes, ThreadTypes, StageInv, AfterFailure, ExecSteps, Forward
  <2> QED
    BY <2>2 DEF TypeInv
<1>4. CASE ExecApply
  <2>1. UNCHANGED <<ops, todo, seq, rpc, rtodo, rseq, journal>> /\ pc = "apply"
    BY <1>4 DEF ExecApply, recoveryVars
  <2>2. \/ applied' = applied /\ pc' = AfterFailure
        \/ \E c \in Content :
             applied' = Append(applied, c) /\ pc' = IF NextStep = Len(ops) THEN "mark_applied" ELSE "journal"
    BY <1>4, ExecApplyIs
  <2>3. CASE applied' = applied /\ pc' = AfterFailure
    <3>1. JournalTypes' /\ ThreadTypes' /\ StageInv'
      BY <1>1, <2>1, <2>3 DEF JournalTypes, ThreadTypes, StageInv, AfterFailure, ExecSteps, Forward
    <3> QED
      BY <3>1 DEF TypeInv
  <2>4. CASE \E c \in Content :
               applied' = Append(applied, c) /\ pc' = IF NextStep = Len(ops) THEN "mark_applied" ELSE "journal"
    <3>1. PICK c \in Content :
               applied' = Append(applied, c) /\ pc' = IF NextStep = Len(ops) THEN "mark_applied" ELSE "journal"
      BY <2>4
    <3>2. applied' \in Seq(Content) /\ Len(applied') = Len(applied) + 1 /\ Len(applied) + 1 <= Len(ops) /\ Len(ops) \in Nat
      BY <1>1, <2>1, <3>1 DEF ThreadTypes, StageInv
    <3>3. JournalTypes' /\ ThreadTypes' /\ StageInv'
      <4>1. JournalTypes'
        BY <1>1, <2>1 DEF JournalTypes
      <4>2. ThreadTypes'
        BY <1>1, <2>1, <3>1, <3>2 DEF ThreadTypes, ExecSteps, Forward
      <4>3. StageInv'
        BY <1>1, <2>1, <3>1, <3>2 DEF StageInv, NextStep
      <4> QED
        BY <4>1, <4>2, <4>3
    <3> QED
      BY <3>3 DEF TypeInv
  <2> QED
    BY <2>2, <2>3, <2>4
<1>5. CASE ExecRollback
  <2> DEFINE n == Len(applied)
  <2>1. UNCHANGED <<ops, todo, seq, rpc, rtodo, rseq, journal>> /\ pc = "rollback"
    BY <1>5 DEF ExecRollback, recoveryVars
  <2>2. \/ applied' = SubSeq(applied, 1, n - 1) /\ pc' = IF n = 1 THEN "mark_rolled_back" ELSE "rollback"
        \/ applied' = applied /\ pc' = "mark_rollback_failed"
    BY <1>5, ExecRollbackIs
  <2>3. n \in Nat /\ n # 0 /\ applied \in Seq(Content) /\ n <= Len(ops) /\ Len(ops) \in Nat
    BY <1>1, <2>1 DEF ThreadTypes, StageInv
  <2>4. SubSeq(applied, 1, n - 1) \in Seq(Content) /\ Len(SubSeq(applied, 1, n - 1)) = n - 1
    <3>1. 1 \in 1 .. (Len(applied) + 1) /\ n - 1 \in 0 .. Len(applied)
      BY <2>3
    <3> HIDE DEF n
    <3> QED
      BY <2>3, <3>1, SubSeqProperties
  <2>5. applied' \in Seq(Content) /\ Len(applied') <= Len(ops)
        /\ (pc' = "rollback" => Len(applied') # 0) /\ (pc' = "mark_rolled_back" => Len(applied') = 0)
        /\ pc' \in {"mark_rolled_back", "rollback", "mark_rollback_failed"}
    <3>1. CASE applied' = SubSeq(applied, 1, n - 1) /\ pc' = IF n = 1 THEN "mark_rolled_back" ELSE "rollback"
      <4>1. applied' \in Seq(Content) /\ Len(applied') = n - 1
        BY <2>4, <3>1
      <4> HIDE DEF n
      <4> QED
        BY <2>3, <3>1, <4>1
    <3>2. CASE applied' = applied /\ pc' = "mark_rollback_failed"
      BY <2>3, <3>2
    <3> QED
      BY <2>2, <3>1, <3>2
  <2> HIDE DEF n
  <2>6. JournalTypes'
    BY <1>1, <2>1 DEF JournalTypes
  <2>7. ThreadTypes'
    BY <1>1, <2>1, <2>5 DEF ThreadTypes, ExecSteps, Forward
  <2>8. StageInv'
    BY <1>1, <2>1, <2>5 DEF StageInv
  <2> QED
    BY <2>6, <2>7, <2>8 DEF TypeInv
<1>6. CASE ExecMarkApplied \/ ExecMarkPending \/ ExecMarkRolledBack \/ ExecMarkRollbackFailed
  <2>1. /\ \E state \in {"pending", "applied", "rolled_back"} : MarkJournal(state)
        /\ UNCHANGED <<ops, applied, todo, seq, rpc, rtodo, rseq>>
        /\ \/ pc = "mark_applied" /\ pc' = "commit"
           \/ pc = "mark_pending" /\ pc' = "idle"
           \/ pc = "mark_rolled_back" /\ pc' = "finish_rolled_back"
           \/ pc' = "finish_rollback_failed"
    BY <1>6 DEF ExecMarkApplied, ExecMarkPending, ExecMarkRolledBack, ExecMarkRollbackFailed, ExecMark, Goto, recoveryVars
  <2>2. JournalTypes'
    BY <1>1, <2>1, MarkIs
  <2>3. ThreadTypes' /\ StageInv'
    BY <1>1, <2>1 DEF ThreadTypes, StageInv, ExecSteps, Forward
  <2> QED
    BY <2>2, <2>3 DEF TypeInv
<1> QED
  BY <1>2, <1>3, <1>4, <1>5, <1>6
\* The undo's and the recovery's steps keep the shapes.
LEMMA InverseTypes ==
  ASSUME JobsAssumption, JobsInv, VaultTypes',
         Undo \/ UndoRestore \/ UndoAudit \/ Recover \/ RecoverRestore \/ RecoverAudit \/ RecoverMark \/ RecoverFinish
  PROVE  TypeInv'
<1>1. JournalTypes /\ ThreadTypes /\ StageInv
  BY DEF JobsInv, TypeInv
<1>2. CASE Undo
  <2>1. /\ todo' \in Seq(Row) /\ todo' # <<>> /\ seq' \in Nat /\ pc' = "undo_restore"
        /\ UNCHANGED <<journal, ops, applied, rpc, rtodo, rseq>>
    BY <1>2, UndoIs DEF recoveryVars
  <2>2. JournalTypes' /\ ThreadTypes' /\ StageInv'
    BY <1>1, <2>1 DEF JournalTypes, ThreadTypes, StageInv, UndoSteps
  <2> QED
    BY <2>2 DEF TypeInv
<1>3. CASE UndoRestore
  <2>1. pc = "undo_restore" /\ pc' \in {"undo_audit", "idle"} /\ UNCHANGED <<journal, ops, applied, todo, seq, rpc, rtodo, rseq>>
    BY <1>3 DEF UndoRestore, recoveryVars
  <2>2. JournalTypes' /\ ThreadTypes' /\ StageInv'
    BY <1>1, <2>1 DEF JournalTypes, ThreadTypes, StageInv, UndoSteps
  <2> QED
    BY <2>2 DEF TypeInv
<1>4. CASE UndoAudit
  <2>1. /\ pc = "undo_audit" /\ Put(seq, AuditRow(Head(todo))) /\ todo' = Tail(todo) /\ seq' = seq + 1
        /\ pc' = (IF Tail(todo) = <<>> THEN "undo_finish" ELSE "undo_restore") /\ UNCHANGED <<ops, applied, rpc, rtodo, rseq>>
    BY <1>4 DEF UndoAudit, recoveryVars
  <2>2. todo \in Seq(Row) /\ todo # <<>> /\ seq \in Nat
    BY <1>1, <2>1 DEF ThreadTypes, StageInv
  <2>3. Head(todo) \in Row /\ Tail(todo) \in Seq(Row)
    BY <2>2, TodoIs
  <2>4. JournalTypes'
    BY <1>1, <2>1, <2>2, <2>3, RowsAre, PutIs
  <2>5. ThreadTypes'
    BY <1>1, <2>1, <2>2, <2>3 DEF ThreadTypes, UndoSteps
  <2>6. StageInv'
    BY <1>1, <2>1 DEF StageInv
  <2> QED
    BY <2>4, <2>5, <2>6 DEF TypeInv
<1>5. CASE Recover
  <2>1. /\ rtodo' \in Seq(Row) /\ rseq' \in Nat /\ rpc' \in {"nothing", "mark", "restore"} /\ (rpc' = "restore" => rtodo' # <<>>)
        /\ UNCHANGED <<journal, pc, ops, applied, todo, seq>>
    BY <1>5, RecoverIs
  <2>2. JournalTypes' /\ ThreadTypes' /\ StageInv'
    BY <1>1, <2>1 DEF JournalTypes, ThreadTypes, StageInv, RecoverySteps
  <2> QED
    BY <2>2 DEF TypeInv
<1>6. CASE RecoverRestore
  <2>1. rpc = "restore" /\ rpc' \in {"audit", "mark_failed"} /\ UNCHANGED <<journal, pc, ops, applied, todo, seq, rtodo, rseq>>
    BY <1>6 DEF RecoverRestore, lockVars
  <2>2. JournalTypes' /\ ThreadTypes' /\ StageInv'
    BY <1>1, <2>1 DEF JournalTypes, ThreadTypes, StageInv, RecoverySteps
  <2> QED
    BY <2>2 DEF TypeInv
<1>7. CASE RecoverAudit
  <2>1. /\ rpc = "audit" /\ Put(rseq, AuditRow(Head(rtodo))) /\ rtodo' = Tail(rtodo) /\ rseq' = rseq + 1
        /\ rpc' = (IF Tail(rtodo) = <<>> THEN "mark" ELSE "restore") /\ UNCHANGED <<pc, ops, applied, todo, seq>>
    BY <1>7 DEF RecoverAudit, lockVars
  <2>2. rtodo \in Seq(Row) /\ rtodo # <<>> /\ rseq \in Nat
    BY <1>1, <2>1 DEF ThreadTypes, StageInv
  <2>3. Head(rtodo) \in Row /\ Tail(rtodo) \in Seq(Row)
    BY <2>2, TodoIs
  <2>4. JournalTypes'
    BY <1>1, <2>1, <2>2, <2>3, RowsAre, PutIs
  <2>5. ThreadTypes'
    BY <1>1, <2>1, <2>2, <2>3 DEF ThreadTypes, RecoverySteps
  <2>6. StageInv'
    BY <1>1, <2>1 DEF StageInv
  <2> QED
    BY <2>4, <2>5, <2>6 DEF TypeInv
<1>8. CASE RecoverMark
  <2>1. /\ MarkJournal("rolled_back") /\ rpc' \in {"finish", "idle"} /\ rtodo' = <<>> /\ rseq' = 0
        /\ UNCHANGED <<pc, ops, applied, todo, seq>>
    BY <1>8 DEF RecoverMark, lockVars
  <2>2. JournalTypes'
    BY <1>1, <2>1, MarkIs
  <2>3. ThreadTypes'
    BY <1>1, <2>1 DEF ThreadTypes, RecoverySteps
  <2>4. StageInv'
    BY <1>1, <2>1 DEF StageInv
  <2> QED
    BY <2>2, <2>3, <2>4 DEF TypeInv
<1>9. CASE RecoverFinish
  <2>1. rpc' = "idle" /\ rtodo' = <<>> /\ rseq' = 0 /\ UNCHANGED <<journal, pc, ops, applied, todo, seq>>
    BY <1>9 DEF RecoverFinish, lockVars
  <2>2. JournalTypes'
    BY <1>1, <2>1 DEF JournalTypes
  <2>3. ThreadTypes'
    BY <1>1, <2>1 DEF ThreadTypes, RecoverySteps
  <2>4. StageInv'
    BY <1>1, <2>1 DEF StageInv
  <2> QED
    BY <2>2, <2>3, <2>4 DEF TypeInv
<1> QED
  BY <1>2, <1>3, <1>4, <1>5, <1>6, <1>7, <1>8, <1>9

\* The lock is freed with a new status.
LEMMA SaveIs ==
  ASSUME ExecCommit \/ ExecFinish("finish_rolled_back", "rolled_back")
         \/ ExecFinish("finish_rollback_failed", "rollback_failed") \/ UndoFinish
  PROVE  /\ \E rec : db' = rec /\ cache' = rec
         /\ pc' = "idle" /\ ops' = <<>> /\ applied' = <<>> /\ todo' = <<>> /\ seq' = 0
         /\ UNCHANGED <<file, edits, touched, window, lost, plan, preview, journal, rpc, rtodo, rseq, blur>>
BY DEF ExecCommit, ExecFinish, UndoFinish, SaveRecord, fileVars, recoveryVars

\* Every step keeps the shapes.
LEMMA TypeStep ==
  ASSUME JobsAssumption, JobsInv, [Next]_vars
  PROVE  TypeInv'
<1>1. VaultTypes'
  BY VaultStep, PlanTypes DEF Grows
<1>2. TypeInv /\ JournalTypes /\ ThreadTypes /\ StageInv
  BY DEF JobsInv, TypeInv
<1>3. CASE \E acts \in Plans : Plan(acts)
  BY <1>1, <1>2, <1>3, TypeFrame DEF Plan, lockVars, recoveryVars
<1>4. CASE \E sel \in (SUBSET (DOMAIN plan)) \ {{}} : Accept(sel)
  <2>1. /\ ops' \in Seq(Step) /\ ops' # <<>> /\ pc' = "journal" /\ applied' = <<>>
        /\ UNCHANGED <<journal, todo, seq, rpc, rtodo, rseq>>
    BY <1>4, AcceptIs DEF recoveryVars
  <2>2. Len(ops') \in Nat /\ Len(ops') # 0 /\ applied' \in Seq(Content) /\ Len(applied') = 0
    BY <2>1
  <2>3. JournalTypes'
    BY <1>2, <2>1 DEF JournalTypes
  <2>4. ThreadTypes'
    BY <1>2, <2>1, <2>2 DEF ThreadTypes, ExecSteps, Forward
  <2>5. StageInv'
    BY <1>2, <2>1, <2>2 DEF StageInv
  <2> QED
    BY <1>1, <2>3, <2>4, <2>5 DEF TypeInv
<1>5. CASE Reject \/ Load
  BY <1>1, <1>2, <1>5, TypeFrame DEF Reject, Load, lockVars, recoveryVars
<1>6. CASE ExecJournal \/ ExecJournalFails \/ ExecApply \/ ExecMarkApplied \/ ExecMarkPending \/ ExecRollback
           \/ ExecMarkRolledBack \/ ExecMarkRollbackFailed
  BY <1>1, <1>6, ExecTypes
<1>7. CASE ExecCommit \/ ExecFinish("finish_rolled_back", "rolled_back")
           \/ ExecFinish("finish_rollback_failed", "rollback_failed") \/ UndoFinish
  BY <1>1, <1>2, <1>7, SaveIs, TypeIdle
<1>8. CASE Undo \/ UndoRestore \/ UndoAudit \/ Recover \/ RecoverRestore \/ RecoverAudit \/ RecoverMark \/ RecoverFinish
  BY <1>1, <1>8, InverseTypes
<1>9. CASE \E p \in PlanPaths : EditorSave(p) \/ EditorDelete(p)
  BY <1>1, <1>2, <1>9, TypeFrame DEF EditorSave, EditorDelete, lockVars, recoveryVars
<1>10. CASE CrashAndRestart
  BY <1>1, <1>2, <1>10, TypeIdle DEF CrashAndRestart
<1>11. CASE UNCHANGED vars
  BY <1>1, <1>2, <1>11, TypeFrame DEF vars
<1> QED
  BY <1>3, <1>4, <1>5, <1>6, <1>7, <1>8, <1>9, <1>10, <1>11, Zenon DEF Next

(***************************************************************************)
(* The record                                                              *)
(***************************************************************************)

\* The record is as it was.
LEMMA RecordFrame ==
  ASSUME RecordInv, UNCHANGED <<db, cache, plan, preview>>, db # NoRecord,
         AllowedPlan \/ UNCHANGED <<journal, pc, rpc>>, pc' # "idle" => pc # "idle"
  PROVE  RecordInv'
<1>1. AllowedPlan' \/ Denied'
  BY PlanKept DEF RecordInv, Denied
<1> QED
  BY <1>1 DEF RecordInv

\* A step of a thread has a planned job.
LEMMA WorkRecord ==
  ASSUME JobsAssumption, JobsInv, UNCHANGED <<db, cache, plan, preview>>,
         pc # "idle" \/ rpc # "idle", pc' # "idle" => pc # "idle"
  PROVE  RecordInv'
BY WorkIsAllowed, RecordFrame DEF Rules

\* The record is written, for a plan the policy allowed or one with nothing going on.
LEMMA RecordWrite ==
  ASSUME RecordInv, UNCHANGED <<plan, preview>>, db # NoRecord,
         AllowedPlan \/ (Denied /\ UNCHANGED <<journal, pc, rpc>> /\ db'.status = "failed" /\ cache'.status \in {"none", "failed"}),
         db' \in Record, cache' \in Record, db'.status # "none", cache'.status = "none" => cache' = NoRecord,
         db'.executed \subseteq DOMAIN plan, cache' # NoRecord => cache'.executed = db'.executed,
         pc' # "idle" => cache' # NoRecord
  PROVE  RecordInv'
<1>1. AllowedPlan' \/ Denied'
  BY PlanKept DEF Denied
<1>2. db' # NoRecord
  BY DEF NoRecord
<1> QED
  BY <1>1, <1>2 DEF RecordInv

\* A crash keeps the record but for what was executing.
LEMMA CrashRecord ==
  ASSUME JobsAssumption, JobsInv, CrashAndRestart
  PROVE  /\ db' \in Record /\ db'.executed = db.executed /\ cache' = NoRecord
         /\ db'.status = IF db.status = "executing" THEN "recovery_required" ELSE db.status
         /\ db = NoRecord <=> db' = NoRecord
<1>1. db \in Record /\ (db.status = "none" => db = NoRecord)
  BY DEF JobsInv, RecordInv
<1>2. /\ db' = [db EXCEPT !.status = IF db.status = "executing" THEN "recovery_required" ELSE db.status]
      /\ cache' = NoRecord
  BY DEF CrashAndRestart
<1>3. "recovery_required" \in Statuses /\ db.status \in Statuses
  BY <1>1 DEF Statuses, Record
<1>4. /\ db' \in Record /\ db'.executed = db.executed
      /\ db'.status = IF db.status = "executing" THEN "recovery_required" ELSE db.status
  BY <1>1, <1>2, <1>3 DEF Record
<1>5. NoRecord.status = "none" /\ NoRecord.executed = {}
  BY DEF NoRecord
<1>6. db = NoRecord => db' = NoRecord
  BY <1>1, <1>2, <1>5 DEF Record, NoRecord
<1>7. db' = NoRecord => db.status = "none"
  BY <1>4, <1>5
<1> QED
  BY <1>1, <1>2, <1>4, <1>6, <1>7

\* What an end of an accept or an undo saves.
LEMMA EndIs ==
  ASSUME JobsAssumption, JobsInv
  PROVE  /\ ExecCommit => /\ pc = "commit" /\ db' \in Record /\ cache' = db' /\ db'.executed = db.executed \cup Selected
                          /\ db'.status = IF Selected = DOMAIN plan THEN "committed" ELSE "awaiting"
                          /\ Selected \subseteq DOMAIN plan
         /\ \A from \in {"finish_rolled_back", "finish_rollback_failed"} : \A status \in {"rolled_back", "rollback_failed"} :
              ExecFinish(from, status) =>
                pc = from /\ db' \in Record /\ cache' = db' /\ db'.executed = db.executed /\ db'.status = status
         /\ UndoFinish => /\ pc = "undo_finish" /\ db' \in Record /\ cache' = db' /\ db'.executed = db.executed
                          /\ db'.status = "undone"
<1>1. cache \in Record /\ (pc # "idle" => cache.executed = db.executed)
  BY DEF JobsInv, RecordInv
<1>2. Selected \subseteq DOMAIN plan
  BY DEF JobsInv, FitInv, Fits, Selected
<1>3. plan \in Plans \/ pc = "idle"
  BY DEF JobsInv, RecordInv, Unplanned
<1>4. \A status \in Statuses :
        LET rec == [cache EXCEPT !.status = status] IN rec \in Record /\ rec.executed = cache.executed /\ rec.status = status
  BY <1>1 DEF Record
<1>5. ASSUME ExecCommit
      PROVE  /\ pc = "commit" /\ db' \in Record /\ cache' = db' /\ db'.executed = db.executed \cup Selected
             /\ db'.status = IF Selected = DOMAIN plan THEN "committed" ELSE "awaiting"
  <2>1. /\ pc = "commit" /\ cache' = db'
        /\ db' = [status |-> IF Selected = DOMAIN plan THEN "committed" ELSE "awaiting", executed |-> cache.executed \cup Selected]
    BY <1>5 DEF ExecCommit, SaveRecord
  <2>2. cache.executed \cup Selected \in SUBSET Nat
    <3>1. plan \in Seq(Actions)
      BY <1>3, <2>1 DEF JobsAssumption
    <3> QED
      BY <1>1, <1>2, <3>1 DEF Record
  <2>3. db' \in Record /\ db'.executed = cache.executed \cup Selected
        /\ db'.status = IF Selected = DOMAIN plan THEN "committed" ELSE "awaiting"
    <3>1. CASE Selected = DOMAIN plan
      BY <2>1, <2>2, <3>1 DEF Record, Statuses
    <3>2. CASE Selected # DOMAIN plan
      BY <2>1, <2>2, <3>2 DEF Record, Statuses
    <3> QED
      BY <3>1, <3>2
  <2> QED
    BY <1>1, <2>1, <2>3
<1>6. ASSUME NEW from \in {"finish_rolled_back", "finish_rollback_failed"}, NEW status \in {"rolled_back", "rollback_failed"},
             ExecFinish(from, status)
      PROVE  pc = from /\ db' \in Record /\ cache' = db' /\ db'.executed = db.executed /\ db'.status = status
  BY <1>1, <1>4, <1>6 DEF ExecFinish, SaveRecord, Statuses
<1>7. ASSUME UndoFinish
      PROVE  pc = "undo_finish" /\ db' \in Record /\ cache' = db' /\ db'.executed = db.executed /\ db'.status = "undone"
  BY <1>1, <1>4, <1>7 DEF UndoFinish, SaveRecord, Statuses
<1> QED
  BY <1>2, <1>5, <1>6, <1>7

\* A recovery's end.
LEMMA RecoverFinishIs ==
  ASSUME JobsAssumption, JobsInv, RecoverFinish
  PROVE  /\ db' \in Record /\ db'.executed = db.executed
         /\ db'.status = IF rpc = "finish" THEN "rolled_back" ELSE "failed"
         /\ rpc \in {"nothing", "finish"} /\ rpc' = "idle" /\ rtodo' = <<>>
         /\ UNCHANGED <<fileVars, plan, preview, cache, journal, pc, ops, applied, todo, seq, blur>>
<1>1. /\ db' = [db EXCEPT !.status = IF rpc = "finish" THEN "rolled_back" ELSE "failed"]
      /\ rpc \in {"nothing", "finish"} /\ rpc' = "idle" /\ rtodo' = <<>>
      /\ UNCHANGED <<fileVars, plan, preview, cache, journal, pc, ops, applied, todo, seq, blur>>
  BY DEF RecoverFinish, lockVars
<1>2. db \in Record /\ "rolled_back" \in Statuses /\ "failed" \in Statuses
  BY DEF JobsInv, RecordInv, Statuses
<1>3. CASE rpc = "finish"
  BY <1>1, <1>2, <1>3 DEF Record
<1>4. CASE rpc # "finish"
  BY <1>1, <1>2, <1>4 DEF Record
<1> QED
  BY <1>1, <1>3, <1>4

\* A rejection.
LEMMA RejectIs ==
  ASSUME JobsAssumption, JobsInv, Reject
  PROVE  /\ Loaded.status = "awaiting" /\ pc = "idle" /\ db # NoRecord /\ AllowedPlan /\ db.executed = {}
         /\ db' \in Record /\ db'.executed = db.executed /\ db'.status = "rejected" /\ cache' = db'
         /\ UNCHANGED <<fileVars, plan, preview, journal, lockVars, recoveryVars, blur>>
<1>1. Loaded \in Record /\ Loaded.executed = db.executed /\ Loaded.status = "awaiting" /\ db # NoRecord
  BY LoadedIs DEF JobsInv, Reject
<1>2. db' = [Loaded EXCEPT !.status = "rejected"]
  BY DEF Reject
<1>3. db' \in Record /\ db'.executed = db.executed /\ db'.status = "rejected"
  BY <1>1, <1>2 DEF Record, Statuses
<1>4. AllowedPlan
  BY <1>1 DEF JobsInv, RecordInv, Denied, Loaded, NoRecord
<1> QED
  BY <1>1, <1>3, <1>4 DEF Reject
\* The allowed plan, as the policy saw it.
LEMMA PlanAllowed ==
  ASSUME NEW acts, Allowed(file, {acts[i] : i \in DOMAIN acts}), plan' = acts, preview' = file
  PROVE  AllowedPlan'
<1>1. \A i \in DOMAIN acts : acts[i] \in {acts[j] : j \in DOMAIN acts}
  OBVIOUS
<1> QED
  BY <1>1 DEF Allowed, AllowedPlan

\* The threads' own steps.
ThreadStep ==
  \/ ExecJournal \/ ExecJournalFails \/ ExecApply \/ ExecMarkApplied \/ ExecMarkPending \/ ExecRollback
  \/ ExecMarkRolledBack \/ ExecMarkRollbackFailed \/ UndoRestore \/ UndoAudit
  \/ RecoverRestore \/ RecoverAudit \/ RecoverMark

\* They leave the record alone, and each is of the thread whose turn it is.
LEMMA ThreadStepIs ==
  ASSUME ThreadStep
  PROVE  /\ UNCHANGED <<db, cache, plan, preview>> /\ blur \subseteq blur'
         /\ \/ pc \in ExecSteps /\ pc' \in ExecSteps \cup {"idle"} /\ rpc' = rpc
            \/ pc \in UndoSteps /\ pc' \in UndoSteps \cup {"idle"} /\ rpc' = rpc
            \/ pc' = pc /\ rpc # "idle"
<1>1. CASE ExecJournal \/ ExecJournalFails
  BY <1>1 DEF ExecJournal, ExecJournalFails, Goto, SameRecord, recVars, recoveryVars, AfterFailure, ExecSteps, Forward
<1>2. CASE ExecApply
  BY <1>2 DEF ExecApply, SameRecord, recVars, recoveryVars, AfterFailure, ExecSteps, Forward
<1>3. CASE ExecMarkApplied \/ ExecMarkPending \/ ExecMarkRolledBack \/ ExecMarkRollbackFailed
  BY <1>3 DEF ExecMarkApplied, ExecMarkPending, ExecMarkRolledBack, ExecMarkRollbackFailed, ExecMark, Goto, SameRecord,
              recVars, recoveryVars, ExecSteps, Forward
<1>4. CASE ExecRollback
  BY <1>4 DEF ExecRollback, SameRecord, recVars, recoveryVars, ExecSteps, Forward
<1>5. CASE UndoRestore \/ UndoAudit
  BY <1>5 DEF UndoRestore, UndoAudit, SameRecord, recVars, recoveryVars, UndoSteps
<1>6. CASE RecoverRestore \/ RecoverAudit \/ RecoverMark
  BY <1>6 DEF RecoverRestore, RecoverAudit, RecoverMark, SameRecord, recVars, lockVars
<1> QED
  BY <1>1, <1>2, <1>3, <1>4, <1>5, <1>6 DEF ThreadStep

Other ==
  \/ \E acts \in Plans : Plan(acts)
  \/ \E sel \in (SUBSET (DOMAIN plan)) \ {{}} : Accept(sel)
  \/ Reject \/ Load \/ ExecCommit \/ ExecFinish("finish_rolled_back", "rolled_back")
  \/ ExecFinish("finish_rollback_failed", "rollback_failed") \/ Undo \/ UndoFinish \/ Recover \/ RecoverFinish
  \/ CrashAndRestart
Editing == \E p \in PlanPaths : EditorSave(p) \/ EditorDelete(p)

\* Every step is one of a thread, one that writes the record or starts a
\* thread, or the editor's.
LEMMA StepsAre ==
  ASSUME [Next]_vars
  PROVE  ThreadStep \/ Other \/ Editing \/ UNCHANGED vars
BY Zenon DEF Next, ThreadStep, Other, Editing

\* Every step keeps the record.
LEMMA RecordStep ==
  ASSUME JobsAssumption, JobsInv, [Next]_vars
  PROVE  RecordInv'
<1>1. RecordInv
  BY DEF JobsInv
<1>2. CASE ThreadStep
  <2>1. (pc # "idle" \/ rpc # "idle") /\ (pc' # "idle" => pc # "idle")
    BY <1>2, ThreadStepIs DEF ExecSteps, Forward, UndoSteps
  <2> QED
    BY <1>2, <2>1, ThreadStepIs, WorkRecord
<1>3. CASE Editing
  <2>1. UNCHANGED <<db, cache, plan, preview, journal, pc, rpc>> /\ db # NoRecord
    BY <1>3, EditorIs DEF Editing, recVars, lockVars, recoveryVars
  <2> QED
    BY <1>1, <2>1, RecordFrame
<1>4. CASE UNCHANGED vars
  BY <1>1, <1>4 DEF vars, RecordInv, Unplanned, AllowedPlan, Denied
<1>5. CASE \E acts \in Plans : Plan(acts)
  <2>1. PICK acts \in Plans : Plan(acts)
    BY <1>5
  <2>2. /\ plan' = acts /\ preview' = file /\ db' \in Record /\ cache' = db' /\ Unplanned
        /\ UNCHANGED <<journal, pc, rpc>>
        /\ db'.executed = {} /\ db' # NoRecord
        /\ db'.status = IF Allowed(file, {acts[i] : i \in DOMAIN acts}) THEN "awaiting" ELSE "failed"
    BY <2>1, PlanTypes DEF lockVars, recoveryVars
  <2>3. AllowedPlan' \/ Denied'
    BY <2>2, PlanAllowed DEF Denied, Unplanned
  <2> QED
    BY <2>2, <2>3 DEF RecordInv, Unplanned
<1>6. CASE \E sel \in (SUBSET (DOMAIN plan)) \ {{}} : Accept(sel)
  <2>1. /\ AllowedPlan /\ db' \in Record /\ db'.status = "executing" /\ db'.executed = db.executed
        /\ cache' \in Record /\ cache' # NoRecord /\ cache'.status = "awaiting" /\ cache'.executed = db.executed
        /\ UNCHANGED <<plan, preview>> /\ Loaded.status = "awaiting"
    BY <1>6, AcceptIs DEF Rules
  <2>2. db # NoRecord /\ db.executed \subseteq DOMAIN plan
    BY <1>1, <2>1, LoadedIs DEF RecordInv
  <2> QED
    BY <1>1, <2>1, <2>2, RecordWrite
<1>7. CASE Reject
  <2>1. db.executed \subseteq DOMAIN plan /\ UNCHANGED pc /\ pc = "idle"
    BY <1>1, <1>7, RejectIs DEF RecordInv, lockVars
  <2> QED
    BY <1>1, <1>7, <2>1, RejectIs, RecordWrite
<1>8. CASE Load
  <2>1. cache' = db /\ db # NoRecord /\ UNCHANGED <<db, plan, preview, journal, pc, rpc>>
    BY <1>8 DEF Load, lockVars, recoveryVars
  <2> QED
    BY <1>1, <2>1, RecordWrite DEF RecordInv, Denied
<1>9. CASE ExecCommit \/ ExecFinish("finish_rolled_back", "rolled_back")
           \/ ExecFinish("finish_rollback_failed", "rollback_failed") \/ UndoFinish
  <2>1. /\ pc # "idle" /\ db' \in Record /\ cache' = db' /\ db'.executed \subseteq db.executed \cup DOMAIN plan /\ db'.status # "none"
    BY <1>9, EndIs
  <2>2. UNCHANGED <<plan, preview>> /\ pc' = "idle"
    BY <1>9, SaveIs
  <2>3. db # NoRecord /\ AllowedPlan /\ db.executed \subseteq DOMAIN plan
    BY <1>1, <2>1, WorkIsAllowed DEF Rules, RecordInv
  <2> QED
    BY <1>1, <2>1, <2>2, <2>3, RecordWrite
<1>10. CASE Undo
  <2>1. /\ AllowedPlan /\ cache' = Loaded /\ UNCHANGED <<plan, preview, db>> /\ Loaded \in Record /\ Loaded.status = "committed"
        /\ Loaded.executed = db.executed /\ db # NoRecord /\ Loaded # NoRecord
    BY <1>10, UndoIs DEF Rules
  <2> QED
    BY <1>1, <2>1, RecordWrite DEF RecordInv
<1>11. CASE Recover
  <2>1. AllowedPlan /\ UNCHANGED <<db, cache, plan, preview, pc>> /\ Flagged
    BY <1>11, RecoverIs DEF Rules
  <2> QED
    BY <1>1, <2>1, RecordFrame DEF Flagged, NoRecord
<1>12. CASE RecoverFinish
  <2>1. AllowedPlan /\ db # NoRecord
    BY <1>12, RecoverFinishIs, WorkIsAllowed DEF Rules
  <2> QED
    BY <1>1, <1>12, <2>1, RecoverFinishIs, RecordWrite DEF RecordInv
<1>13. CASE CrashAndRestart
  <2>1. /\ db' \in Record /\ db'.executed = db.executed /\ cache' = NoRecord
        /\ db'.status = (IF db.status = "executing" THEN "recovery_required" ELSE db.status)
        /\ (db = NoRecord <=> db' = NoRecord)
    BY <1>13, CrashRecord
  <2>2. /\ UNCHANGED <<plan, preview, journal, touched>> /\ pc' = "idle" /\ rpc' = "idle"
        /\ ops' = <<>> /\ applied' = <<>> /\ todo' = <<>> /\ rtodo' = <<>>
    BY <1>13 DEF CrashAndRestart
  <2>3. CASE db = NoRecord
    <3>1. Unplanned /\ file' = file
      BY <1>1, <1>13, <2>3 DEF RecordInv, Unplanned, CrashAndRestart, HalfMoves
    <3>2. Unplanned'
      BY <2>1, <2>2, <3>1 DEF Unplanned
    <3>3. AllowedPlan'
      BY <2>2, <3>1 DEF Unplanned, AllowedPlan
    <3>4. cache'.status = "none" /\ cache' \in Record
      BY <2>1 DEF NoRecord, Record, Statuses
    <3> QED
      BY <1>1, <2>1, <2>2, <2>3, <3>2, <3>3, <3>4 DEF RecordInv
  <2>4. CASE db # NoRecord
    <3>1. AllowedPlan' \/ Denied'
      BY <1>1, <2>1, <2>2, PlanKept DEF RecordInv, Denied, NoRecord
    <3>2. NoRecord \in Record
      BY DEF NoRecord, Record, Statuses
    <3> QED
      BY <1>1, <2>1, <2>2, <2>4, <3>1, <3>2 DEF RecordInv
  <2> QED
    BY <2>3, <2>4
<1> QED
  BY <1>2, <1>3, <1>4, <1>5, <1>6, <1>7, <1>8, <1>9, <1>10, <1>11, <1>12, <1>13, StepsAre, Zenon DEF Other
\* The record and the blur only grow, the threads go on or end.
LEMMA StatusFrame ==
  ASSUME StatusInv, UNCHANGED <<db, cache>>, blur \subseteq blur',
         pc' \in {pc, "idle"} \/ (pc \in ExecSteps /\ pc' \in ExecSteps) \/ (pc \in UndoSteps /\ pc' \in UndoSteps),
         rpc' \in {rpc, "idle"} \/ rpc # "idle"
  PROVE  StatusInv'
<1>1. /\ pc' \in ExecSteps => pc \in ExecSteps
      /\ pc' \in UndoSteps => pc \in UndoSteps
      /\ pc' # "idle" => pc # "idle"
      /\ rpc' # "idle" => rpc # "idle"
  BY DEF ExecSteps, UndoSteps, Forward
<1> QED
  BY <1>1 DEF StatusInv

\* Every step keeps the statuses together.
LEMMA StatusStep ==
  ASSUME JobsAssumption, JobsInv, [Next]_vars
  PROVE  StatusInv'
<1>1. StatusInv /\ RecordInv
  BY DEF JobsInv
<1>2. CASE ThreadStep
  BY <1>1, <1>2, ThreadStepIs, StatusFrame
<1>3. CASE Editing
  BY <1>1, <1>3, EditorIs, StatusFrame DEF Editing, recVars, lockVars, recoveryVars
<1>4. CASE UNCHANGED vars
  BY <1>1, <1>4, StatusFrame DEF vars
<1>5. CASE \E acts \in Plans : Plan(acts)
  <2>1. pc' = "idle" /\ rpc' = "idle" /\ cache' = db' /\ db'.status \in {"awaiting", "failed"}
    BY <1>5, PlanTypes DEF Unplanned, lockVars, recoveryVars
  <2> QED
    BY <2>1 DEF StatusInv, ExecSteps, UndoSteps, Forward
<1>6. CASE \E sel \in (SUBSET (DOMAIN plan)) \ {{}} : Accept(sel)
  <2>1. /\ db'.status = "executing" /\ cache'.status = "awaiting" /\ pc' = "journal" /\ rpc' = rpc
        /\ ("raced" \notin blur' => rpc = "idle")
    BY <1>6, AcceptIs DEF recoveryVars
  <2> QED
    BY <2>1 DEF StatusInv, ExecSteps, UndoSteps, Forward
<1>7. CASE Reject
  <2>1. db'.status = "rejected" /\ cache' = db' /\ pc = "idle" /\ UNCHANGED <<pc, rpc, blur>>
    BY <1>7, RejectIs DEF lockVars, recoveryVars
  <2> QED
    BY <1>1, <2>1 DEF StatusInv, ExecSteps, UndoSteps, Forward
<1>8. CASE Load
  <2>1. cache' = db /\ cache = NoRecord /\ UNCHANGED <<db, pc, rpc, blur>>
    BY <1>8 DEF Load, lockVars, recoveryVars
  <2>2. pc = "idle"
    BY <1>1, <2>1 DEF RecordInv
  <2> QED
    BY <1>1, <2>1, <2>2 DEF StatusInv, ExecSteps, UndoSteps, Forward
<1>9. CASE ExecCommit \/ ExecFinish("finish_rolled_back", "rolled_back")
           \/ ExecFinish("finish_rollback_failed", "rollback_failed") \/ UndoFinish
  <2>1. cache' = db' /\ db'.status \in {"committed", "awaiting", "rolled_back", "rollback_failed", "undone"} /\ pc # "idle"
    BY <1>9, EndIs
  <2>2. pc' = "idle" /\ UNCHANGED <<rpc, blur>>
    BY <1>9, SaveIs
  <2> QED
    BY <1>1, <2>1, <2>2 DEF StatusInv, ExecSteps, UndoSteps, Forward
<1>10. CASE Undo
  <2>1. /\ pc = "idle" /\ Loaded.status = "committed" /\ cache' = Loaded /\ db' = db /\ rpc' = rpc
        /\ pc' = "undo_restore" /\ blur \cup {"half_undone"} \subseteq blur'
        /\ ("raced" \notin blur' => rpc = "idle")
    BY <1>10, UndoIs DEF recoveryVars
  <2>2. db.status \in {"committed", "rolled_back", "failed"} /\ ("raced" \notin blur => db.status = "committed")
    BY <1>1, <2>1 DEF StatusInv, Loaded
  <2> QED
    BY <1>1, <2>1, <2>2 DEF StatusInv, ExecSteps, UndoSteps, Forward
<1>11. CASE Recover
  <2>1. Flagged /\ UNCHANGED <<db, cache, pc>> /\ blur \subseteq blur' /\ ("raced" \notin blur' => pc = "idle")
    BY <1>11, RecoverIs
  <2> QED
    BY <1>1, <2>1 DEF StatusInv, Flagged
<1>12. CASE RecoverFinish
  <2>1. db'.status \in {"rolled_back", "failed"} /\ rpc # "idle" /\ rpc' = "idle" /\ UNCHANGED <<cache, pc, blur>>
    BY <1>12, RecoverFinishIs
  <2> QED
    BY <1>1, <2>1 DEF StatusInv, ExecSteps, UndoSteps, Forward
<1>13. CASE CrashAndRestart
  <2>1. cache'.status = "none" /\ db'.status = (IF db.status = "executing" THEN "recovery_required" ELSE db.status)
    BY <1>13, CrashRecord DEF NoRecord
  <2>2. pc' = "idle" /\ rpc' = "idle"
    BY <1>13 DEF CrashAndRestart
  <2> QED
    BY <2>1, <2>2 DEF StatusInv, ExecSteps, UndoSteps, Forward
<1> QED
  BY <1>2, <1>3, <1>4, <1>5, <1>6, <1>7, <1>8, <1>9, <1>10, <1>11, <1>12, <1>13, StepsAre, Zenon DEF Other

(***************************************************************************)
(* Steps and rows of the plan                                              *)
(***************************************************************************)

\* Every step keeps the Vault as the preview saw it or as an action leaves it.
LEMMA FileStep ==
  ASSUME JobsAssumption, JobsInv, [Next]_vars
  PROVE  FileInv'
<1>1. FileInv /\ VaultTypes
  BY DEF JobsInv, TypeInv
<1>2. CASE \E acts \in Plans : Plan(acts)
  <2>1. preview' = file /\ Unplanned /\ UNCHANGED <<file, touched>>
    BY <1>2, PlanTypes DEF fileVars
  <2> QED
    BY <1>1, <2>1 DEF FileInv, Unplanned
<1>3. CASE /\ UNCHANGED <<plan, preview>> /\ Grows
           /\ Same \/ \E i \in DOMAIN plan : Forth(i) \/ Back(i)
  BY <1>1, <1>3, FileKept
<1> QED
  BY <1>2, <1>3, VaultStep

\* The hash of a step that is done.
Hashed(n) == applied[n] = AfterOf(ops[n].action) \/ (ops[n].op # "move" /\ ops[n].path \in touched)
SeenInv == \A n \in DOMAIN applied : Hashed(n) /\ (IsEdit(applied[n]) => applied[n] \in window)
RowsFit == \A s \in DOMAIN journal : Executable(journal[s]) => Fits(journal[s])
StepsFit == \A n \in DOMAIN ops : Fits(ops[n])
TodoFit == (\A n \in DOMAIN todo : Fits(todo[n])) /\ (\A n \in DOMAIN rtodo : Fits(rtodo[n]))

\* The parts of two invariants.
LEMMA FitIs ==
  FitInv /\ LossInv <=> SeenInv /\ RowsFit /\ StepsFit /\ TodoFit /\ OnlyWindowSaves
BY DEF FitInv, LossInv, SeenInv, Hashed, RowsFit, StepsFit, TodoFit

\* Less is done, or as much.
LEMMA CutIs ==
  ASSUME NEW t \in Seq(Content), t # <<>>
  PROVE  LET u == SubSeq(t, 1, Len(t) - 1) IN
         /\ u \in Seq(Content) /\ Len(u) = Len(t) - 1 /\ DOMAIN u = 1 .. (Len(t) - 1) /\ \A n \in DOMAIN u : n \in DOMAIN t /\ u[n] = t[n]
<1> DEFINE u == SubSeq(t, 1, Len(t) - 1)
           N == Len(t)
<1>1. N \in Nat /\ N # 0 /\ DOMAIN t = 1 .. N /\ \A n \in 1 .. N - 1 : t[n] \in Content
  OBVIOUS
<1> HIDE DEF N
<1>2. u = SubSeq(t, 1, N - 1)
  BY DEF N
<1> HIDE DEF u
<1>3. /\ u \in Seq(Content) /\ Len(u) = (IF 1 <= N - 1 THEN N - 1 - 1 + 1 ELSE 0)
      /\ \A n \in 1 .. N - 1 - 1 + 1 : u[n] = t[1 + n - 1]
  BY <1>1, <1>2, SubSeqProperties
<1>4. Len(u) = N - 1 /\ DOMAIN u = 1 .. (N - 1) /\ u \in Seq(Content)
  BY <1>1, <1>3
<1>5. \A n \in 1 .. (N - 1) : n \in 1 .. N /\ u[n] = t[n]
  BY <1>1, <1>3
<1> QED
  BY <1>1, <1>4, <1>5 DEF u, N

\* One more is done.
LEMMA MoreIs ==
  ASSUME NEW t \in Seq(Content), NEW c \in Content
  PROVE  /\ DOMAIN Append(t, c) = 1 .. (Len(t) + 1) /\ Len(Append(t, c)) = Len(t) + 1 /\ Append(t, c)[Len(t) + 1] = c
         /\ \A n \in DOMAIN t : Append(t, c)[n] = t[n] /\ n # Len(t) + 1
         /\ \A n \in 1 .. (Len(t) + 1) : n = Len(t) + 1 \/ n \in DOMAIN t
BY AppendProperties

\* What the hashes tell stays true.
LEMMA SeenStep ==
  ASSUME JobsAssumption, JobsInv, [Next]_vars
  PROVE  SeenInv'
<1>1. SeenInv /\ ThreadTypes /\ StageInv
  BY FitIs DEF JobsInv, TypeInv
<1>2. CASE applied' = <<>>
  BY <1>2 DEF SeenInv
<1>3. ASSUME UNCHANGED <<plan, preview, ops>>, Grows,
             \A n \in DOMAIN applied' : n \in DOMAIN applied /\ applied'[n] = applied[n]
      PROVE  SeenInv'
  <2>1. \A i : AfterOf(i)' = AfterOf(i)
    BY <1>3, PlanKept
  <2> QED
    BY <1>1, <1>3, <2>1 DEF SeenInv, Hashed, Grows
<1>4. CASE ExecApply
  <2>1. PICK m : m = NextStep
    OBVIOUS
  <2>2. /\ UNCHANGED <<plan, preview, ops>> /\ Grows
        /\ \/ applied' = applied
           \/ \E c \in Content : /\ applied' = Append(applied, c)
                                 /\ c = AfterOf(ops[m].action) \/ (ops[m].op # "move" /\ ops[m].path \in touched')
                                 /\ IsEdit(c) => c \in window'
    BY <1>4, <2>1, ExecApplyIs DEF ExecApply
  <2>3. CASE applied' = applied
    BY <1>3, <2>2, <2>3
  <2>4. ASSUME NEW c \in Content, applied' = Append(applied, c),
               c = AfterOf(ops[m].action) \/ (ops[m].op # "move" /\ ops[m].path \in touched'), IsEdit(c) => c \in window'
        PROVE  SeenInv'
    <3>1. /\ DOMAIN applied' = 1 .. (Len(applied) + 1) /\ applied'[m] = c
          /\ \A n \in DOMAIN applied : applied'[n] = applied[n]
          /\ \A n \in 1 .. (Len(applied) + 1) : n = m \/ n \in DOMAIN applied
      BY <1>1, <2>1, <2>4, MoreIs DEF ThreadTypes, NextStep
    <3>2. \A i : AfterOf(i)' = AfterOf(i)
      BY <2>2, PlanKept
    <3>3. \A n \in DOMAIN applied : Hashed(n)' /\ (IsEdit(applied'[n]) => applied'[n] \in window')
      BY <1>1, <2>2, <3>1, <3>2 DEF SeenInv, Hashed, Grows
    <3>4. Hashed(m)' /\ (IsEdit(applied'[m]) => applied'[m] \in window')
      BY <2>2, <2>4, <3>1, <3>2 DEF Hashed
    <3> QED
      BY <3>1, <3>3, <3>4 DEF SeenInv
  <2> QED
    BY <2>2, <2>3, <2>4
<1>5. CASE ExecRollback
  <2>1. /\ UNCHANGED <<plan, preview, ops>> /\ Grows
        /\ applied' = SubSeq(applied, 1, Len(applied) - 1) \/ applied' = applied
    BY <1>5, ExecRollbackIs DEF ExecRollback
  <2>2. applied \in Seq(Content) /\ applied # <<>>
    BY <1>1, <1>5 DEF ThreadTypes, StageInv, ExecRollback
  <2>3. \A n \in DOMAIN applied' : n \in DOMAIN applied /\ applied'[n] = applied[n]
    BY <2>1, <2>2, CutIs
  <2> QED
    BY <1>3, <2>1, <2>3
<1>6. ASSUME UNCHANGED <<ops, applied>>, ~ \E acts \in Plans : Plan(acts)
      PROVE  SeenInv'
  BY <1>3, <1>6, VaultStep
<1>7. CASE \E acts \in Plans : Plan(acts)
  BY <1>2, <1>7, PlanTypes DEF Unplanned, lockVars
<1>8. CASE ThreadStep
  <2>1. CASE ExecJournal \/ ExecJournalFails \/ ExecMarkApplied \/ ExecMarkPending \/ ExecMarkRolledBack \/ ExecMarkRollbackFailed
    BY <1>6, <1>7, <2>1 DEF ExecJournal, ExecJournalFails, ExecMarkApplied, ExecMarkPending, ExecMarkRolledBack,
       ExecMarkRollbackFailed, ExecMark, Goto
  <2>2. CASE UndoRestore \/ UndoAudit \/ RecoverRestore \/ RecoverAudit \/ RecoverMark
    BY <1>6, <1>7, <2>2 DEF UndoRestore, UndoAudit, RecoverRestore, RecoverAudit, RecoverMark, lockVars
  <2> QED
    BY <1>4, <1>5, <1>8, <2>1, <2>2 DEF ThreadStep
<1>9. CASE Other
  <2>1. CASE \E sel \in (SUBSET (DOMAIN plan)) \ {{}} : Accept(sel)
    BY <1>2, <2>1, AcceptIs
  <2>2. CASE Reject \/ Load \/ Undo \/ Recover \/ RecoverFinish
    BY <1>6, <1>7, <2>2 DEF Reject, Load, Undo, Recover, RecoverFinish, lockVars
  <2>3. CASE ExecCommit \/ ExecFinish("finish_rolled_back", "rolled_back")
             \/ ExecFinish("finish_rollback_failed", "rollback_failed") \/ UndoFinish
    BY <1>2, <2>3, SaveIs
  <2>4. CASE CrashAndRestart
    BY <1>2, <2>4 DEF CrashAndRestart
  <2> QED
    BY <1>7, <1>9, <2>1, <2>2, <2>3, <2>4, Zenon DEF Other
<1>10. CASE Editing
  BY <1>6, <1>7, <1>10, EditorIs DEF Editing, lockVars
<1>11. CASE UNCHANGED vars
  BY <1>6, <1>7, <1>11 DEF vars
<1> QED
  BY <1>8, <1>9, <1>10, <1>11, StepsAre
\* A row is put for the next step, or for an inverse that is done.
LEMMA JournalPut ==
  ASSUME JobsAssumption, JobsInv
  PROVE  /\ ExecJournal => /\ Put(Len(applied), RowOf(ops[NextStep])) /\ Len(applied) \in Nat /\ RowOf(ops[NextStep]) \in Row
                           /\ NextStep \in DOMAIN ops /\ Fits(RowOf(ops[NextStep])) /\ Executable(RowOf(ops[NextStep]))
                           /\ RowOf(ops[NextStep]).action = ops[NextStep].action /\ RowOf(ops[NextStep]).state = "pending"
                           /\ pc = "journal" /\ pc' = "apply"
                           /\ UNCHANGED <<fileVars, db, cache, plan, preview, ops, applied, todo, seq, recoveryVars, blur>>
         /\ UndoAudit => /\ Put(seq, AuditRow(Head(todo))) /\ AuditRow(Head(todo)) \in Row /\ ~Executable(AuditRow(Head(todo)))
                         /\ AuditRow(Head(todo)).action = Head(todo).action /\ seq \in Nat /\ seq' = seq + 1
                         /\ pc = "undo_audit" /\ pc' = (IF Tail(todo) = <<>> THEN "undo_finish" ELSE "undo_restore")
                         /\ todo \in Seq(Row) /\ todo # <<>> /\ todo' = Tail(todo)
                         /\ UNCHANGED <<fileVars, db, cache, plan, preview, ops, applied, recoveryVars, blur>>
         /\ RecoverAudit => /\ Put(rseq, AuditRow(Head(rtodo))) /\ AuditRow(Head(rtodo)) \in Row /\ ~Executable(AuditRow(Head(rtodo)))
                            /\ AuditRow(Head(rtodo)).action = Head(rtodo).action /\ rseq \in Nat /\ rseq' = rseq + 1
                            /\ rpc = "audit" /\ rpc' = (IF Tail(rtodo) = <<>> THEN "mark" ELSE "restore")
                            /\ rtodo \in Seq(Row) /\ rtodo # <<>> /\ rtodo' = Tail(rtodo)
                            /\ UNCHANGED <<fileVars, db, cache, plan, preview, pc, ops, applied, todo, seq, blur>>
<1>1. ThreadTypes /\ StageInv /\ StepsFit
  BY FitIs DEF JobsInv, TypeInv
<1>2. ASSUME ExecJournal
      PROVE  /\ Len(applied) \in Nat /\ RowOf(ops[NextStep]) \in Row
             /\ NextStep \in DOMAIN ops /\ Fits(RowOf(ops[NextStep])) /\ Executable(RowOf(ops[NextStep]))
             /\ RowOf(ops[NextStep]).action = ops[NextStep].action /\ RowOf(ops[NextStep]).state = "pending"
  <2>1. NextStep \in DOMAIN ops /\ Len(applied) \in Nat /\ ops[NextStep] \in Step
    BY <1>1, <1>2 DEF ThreadTypes, StageInv, ExecJournal, NextStep
  <2> QED
    BY <1>1, <2>1, RowsAre DEF StepsFit
<1>3. ASSUME UndoAudit
      PROVE  /\ AuditRow(Head(todo)) \in Row /\ ~Executable(AuditRow(Head(todo))) /\ seq \in Nat
             /\ AuditRow(Head(todo)).action = Head(todo).action /\ todo \in Seq(Row) /\ todo # <<>>
  <2>1. todo \in Seq(Row) /\ todo # <<>> /\ seq \in Nat
    BY <1>1, <1>3 DEF ThreadTypes, StageInv, UndoAudit
  <2> QED
    BY <2>1, TodoIs, RowsAre
<1>4. ASSUME RecoverAudit
      PROVE  /\ AuditRow(Head(rtodo)) \in Row /\ ~Executable(AuditRow(Head(rtodo))) /\ rseq \in Nat
             /\ AuditRow(Head(rtodo)).action = Head(rtodo).action /\ rtodo \in Seq(Row) /\ rtodo # <<>>
  <2>1. rtodo \in Seq(Row) /\ rtodo # <<>> /\ rseq \in Nat
    BY <1>1, <1>4 DEF ThreadTypes, StageInv, RecoverAudit
  <2> QED
    BY <2>1, TodoIs, RowsAre
<1>5. ExecJournal => /\ Put(Len(applied), RowOf(ops[NextStep])) /\ pc = "journal" /\ pc' = "apply"
                     /\ UNCHANGED <<fileVars, db, cache, plan, preview, ops, applied, todo, seq, recoveryVars, blur>>
  BY DEF ExecJournal, Goto, SameRecord, recVars
<1>6. UndoAudit => /\ Put(seq, AuditRow(Head(todo))) /\ seq' = seq + 1 /\ todo' = Tail(todo)
                   /\ pc = "undo_audit" /\ pc' = (IF Tail(todo) = <<>> THEN "undo_finish" ELSE "undo_restore")
                   /\ UNCHANGED <<fileVars, db, cache, plan, preview, ops, applied, recoveryVars, blur>>
  BY DEF UndoAudit, SameRecord, recVars
<1>7. RecoverAudit => /\ Put(rseq, AuditRow(Head(rtodo))) /\ rseq' = rseq + 1 /\ rtodo' = Tail(rtodo)
                      /\ rpc = "audit" /\ rpc' = (IF Tail(rtodo) = <<>> THEN "mark" ELSE "restore")
                      /\ UNCHANGED <<fileVars, db, cache, plan, preview, pc, ops, applied, todo, seq, blur>>
  BY DEF RecoverAudit, SameRecord, recVars, lockVars
<1> QED
  BY <1>2, <1>3, <1>4, <1>5, <1>6, <1>7

Marks == ExecMarkApplied \/ ExecMarkPending \/ ExecMarkRolledBack \/ ExecMarkRollbackFailed \/ RecoverMark

\* Every row is marked, and nothing else.
LEMMA MarksAre ==
  ASSUME Marks
  PROVE  /\ UNCHANGED <<fileVars, db, cache, plan, preview, ops, applied, todo, seq, blur>>
         /\ \/ MarkJournal("applied") /\ pc = "mark_applied" /\ pc' = "commit" /\ UNCHANGED recoveryVars
            \/ MarkJournal("pending") /\ pc = "mark_pending" /\ pc' = "idle" /\ UNCHANGED recoveryVars
            \/ /\ MarkJournal("rolled_back") /\ UNCHANGED recoveryVars
               /\ \/ pc = "mark_rolled_back" /\ pc' = "finish_rolled_back"
                  \/ pc = "mark_rollback_failed" /\ pc' = "finish_rollback_failed"
            \/ /\ MarkJournal("rolled_back") /\ UNCHANGED pc /\ rtodo' = <<>> /\ rseq' = 0
               /\ \/ rpc = "mark" /\ rpc' = "finish"
                  \/ rpc = "mark_failed" /\ rpc' = "idle"
<1>1. CASE RecoverMark
  BY <1>1 DEF RecoverMark, SameRecord, recVars, lockVars
<1>2. CASE ~RecoverMark
  BY <1>2 DEF Marks, ExecMarkApplied, ExecMarkPending, ExecMarkRolledBack, ExecMarkRollbackFailed, ExecMark, Goto, SameRecord, recVars
<1> QED
  BY <1>1, <1>2

\* Every other step leaves the journal alone.
LEMMA JournalSame ==
  ASSUME [Next]_vars
  PROVE  ExecJournal \/ UndoAudit \/ RecoverAudit \/ Marks \/ journal' = journal
<1>1. CASE Quiet
  BY <1>1 DEF Quiet, Marks, Accept, Reject, Load, ExecJournalFails, ExecCommit, ExecFinish, UndoFinish, SaveRecord, Undo, Recover, RecoverFinish
<1>2. CASE ExecApply \/ ExecRollback \/ UndoRestore \/ RecoverRestore \/ CrashAndRestart
  BY <1>2 DEF ExecApply, ExecRollback, UndoRestore, RecoverRestore, CrashAndRestart
<1>3. CASE \E p \in PlanPaths : EditorSave(p) \/ EditorDelete(p)
  BY <1>3 DEF EditorSave, EditorDelete
<1>4. CASE UNCHANGED vars \/ \E acts \in Plans : Plan(acts)
  BY <1>4 DEF vars, Plan
<1> QED
  BY <1>1, <1>2, <1>3, <1>4, Zenon DEF Next, Quiet

\* Every step keeps the rows those of the plan.
LEMMA RowsStep ==
  ASSUME JobsAssumption, JobsInv, [Next]_vars
  PROVE  RowsFit'
<1>1. RowsFit /\ JournalTypes
  BY FitIs DEF JobsInv, TypeInv
<1>2. CASE \E acts \in Plans : Plan(acts)
  BY <1>2, PlanTypes DEF Unplanned, RowsFit
<1>3. ASSUME UNCHANGED <<plan, preview>>
      PROVE  RowsFit'
  <2>1. \A s : Fits(s)' <=> Fits(s)
    BY <1>3, PlanKept
  <2>2. ASSUME NEW s \in Nat, NEW row \in Row, Put(s, row), Executable(row) => Fits(row)
        PROVE  RowsFit'
    <3>1. /\ DOMAIN journal' = DOMAIN journal \cup {s} /\ journal'[s] = row
          /\ \A t \in DOMAIN journal : t # s => journal'[t] = journal[t]
      BY <1>1, <2>2, PutIs
    <3> QED
      BY <1>1, <2>1, <2>2, <3>1 DEF RowsFit, Executable
  <2>3. ASSUME NEW state \in {"pending", "applied", "rolled_back"}, MarkJournal(state)
        PROVE  RowsFit'
    <3>1. /\ DOMAIN journal' = DOMAIN journal
          /\ \A s \in DOMAIN journal :
              /\ journal'[s].op = journal[s].op /\ journal'[s].action = journal[s].action
              /\ journal'[s].path = journal[s].path /\ journal'[s].source = journal[s].source
              /\ journal'[s].before = journal[s].before /\ journal'[s].after = journal[s].after
      BY <1>1, <2>3, MarkIs
    <3>2. \A s \in DOMAIN journal : Executable(journal'[s]) => Fits(journal'[s])
      BY <1>1, <3>1 DEF RowsFit, Executable, Fits
    <3> QED
      BY <2>1, <3>1, <3>2 DEF RowsFit, Executable
  <2>4. CASE journal' = journal
    BY <1>1, <2>1, <2>4 DEF RowsFit, Executable
  <2> QED
    BY <2>2, <2>3, <2>4, JournalSame, JournalPut, MarksAre
<1> QED
  BY <1>2, <1>3, VaultStep

\* Every step keeps the steps of an accept, and what is to be undone, those of the plan.
LEMMA StepsStep ==
  ASSUME JobsAssumption, JobsInv, [Next]_vars
  PROVE  StepsFit' /\ TodoFit'
<1>1. StepsFit /\ TodoFit /\ ThreadTypes
  BY FitIs DEF JobsInv, TypeInv
<1>2. CASE \E acts \in Plans : Plan(acts)
  <2>1. ops' = <<>> /\ todo' = <<>> /\ rtodo' = <<>>
    BY <1>2, PlanTypes DEF Unplanned, lockVars, recoveryVars
  <2> QED
    BY <2>1 DEF StepsFit, TodoFit
<1>3. ASSUME UNCHANGED <<plan, preview>>, ops' = <<>> \/ ops' = ops, todo' = <<>> \/ todo' = todo, rtodo' = <<>> \/ rtodo' = rtodo
      PROVE  StepsFit' /\ TodoFit'
  <2>1. \A s : Fits(s)' <=> Fits(s)
    BY <1>3, PlanKept
  <2>2. \A n \in DOMAIN ops' : Fits(ops'[n])
    BY <1>1, <1>3 DEF StepsFit
  <2>3. \A n \in DOMAIN todo' : Fits(todo'[n])
    BY <1>1, <1>3 DEF TodoFit
  <2>4. \A n \in DOMAIN rtodo' : Fits(rtodo'[n])
    BY <1>1, <1>3 DEF TodoFit
  <2> QED
    BY <2>1, <2>2, <2>3, <2>4 DEF StepsFit, TodoFit
<1>4. CASE \E sel \in (SUBSET (DOMAIN plan)) \ {{}} : Accept(sel)
  <2>1. /\ UNCHANGED <<plan, preview, todo, rtodo>> /\ \A n \in DOMAIN ops' : Fits(ops'[n])
    BY <1>4, AcceptIs DEF recoveryVars
  <2> QED
    BY <1>1, <2>1, PlanKept DEF StepsFit, TodoFit
<1>5. CASE Undo
  <2>1. /\ UNCHANGED <<plan, preview, ops, rtodo>> /\ \A n \in DOMAIN todo' : Fits(todo'[n])
    BY <1>5, UndoIs DEF recoveryVars
  <2> QED
    BY <1>1, <2>1, PlanKept DEF StepsFit, TodoFit
<1>6. CASE Recover
  <2>1. /\ UNCHANGED <<plan, preview, ops, todo>> /\ \A n \in DOMAIN rtodo' : Fits(rtodo'[n])
    BY <1>6, RecoverIs
  <2> QED
    BY <1>1, <2>1, PlanKept DEF StepsFit, TodoFit
<1>7. CASE UndoAudit
  <2>1. /\ UNCHANGED <<plan, preview, ops, rtodo>> /\ todo \in Seq(Row) /\ todo # <<>> /\ todo' = Tail(todo)
    BY <1>7, JournalPut DEF recoveryVars
  <2>2. \A n \in DOMAIN todo' : n + 1 \in DOMAIN todo /\ todo'[n] = todo[n + 1]
    BY <2>1, TodoIs
  <2> QED
    BY <1>1, <2>1, <2>2, PlanKept DEF StepsFit, TodoFit
<1>8. CASE RecoverAudit
  <2>1. /\ UNCHANGED <<plan, preview, ops, todo>> /\ rtodo \in Seq(Row) /\ rtodo # <<>> /\ rtodo' = Tail(rtodo)
    BY <1>8, JournalPut
  <2>2. \A n \in DOMAIN rtodo' : n + 1 \in DOMAIN rtodo /\ rtodo'[n] = rtodo[n + 1]
    BY <2>1, TodoIs
  <2> QED
    BY <1>1, <2>1, <2>2, PlanKept DEF StepsFit, TodoFit
<1>9. CASE ThreadStep
  <2>1. CASE ExecJournal \/ ExecJournalFails \/ ExecApply \/ ExecRollback \/ UndoRestore \/ RecoverRestore
    <3>1. UNCHANGED <<plan, preview, ops, todo, rtodo>>
      BY <2>1 DEF ExecJournal, ExecJournalFails, ExecApply, ExecRollback, UndoRestore, RecoverRestore, Goto, SameRecord, lockVars, recoveryVars
    <3> QED
      BY <1>3, <3>1
  <2>2. CASE Marks
    BY <1>3, <2>2, MarksAre DEF recoveryVars
  <2> QED
    BY <1>7, <1>8, <1>9, <2>1, <2>2 DEF ThreadStep, Marks
<1>10. CASE Other
  <2>1. CASE Reject \/ Load
    BY <1>3, <2>1 DEF Reject, Load, lockVars, recoveryVars
  <2>2. CASE ExecCommit \/ ExecFinish("finish_rolled_back", "rolled_back")
             \/ ExecFinish("finish_rollback_failed", "rollback_failed") \/ UndoFinish
    BY <1>3, <2>2, SaveIs
  <2>3. CASE CrashAndRestart
    BY <1>3, <2>3 DEF CrashAndRestart
  <2>4. CASE RecoverFinish
    BY <1>3, <2>4, RecoverFinishIs
  <2> QED
    BY <1>2, <1>4, <1>5, <1>6, <1>10, <2>1, <2>2, <2>3, <2>4, Zenon DEF Other
<1>11. CASE Editing
  BY <1>3, <1>11, EditorIs DEF Editing, lockVars, recoveryVars
<1>12. CASE UNCHANGED vars
  BY <1>3, <1>12 DEF vars
<1> QED
  BY <1>9, <1>10, <1>11, <1>12, StepsAre

\* Every step keeps the rows, the steps and the hashes right.
LEMMA FitStep ==
  ASSUME JobsAssumption, JobsInv, [Next]_vars
  PROVE  FitInv' /\ LossInv'
<1>1. OnlyWindowSaves'
  <2>1. OnlyWindowSaves
    BY DEF JobsInv, LossInv
  <2>2. CASE \E acts \in Plans : Plan(acts)
    BY <2>1, <2>2, PlanTypes DEF fileVars, OnlyWindowSaves
  <2> QED
    BY <2>1, <2>2, VaultStep DEF Grows, OnlyWindowSaves
<1>2. (SeenInv /\ RowsFit /\ StepsFit /\ TodoFit /\ OnlyWindowSaves)'
  BY <1>1, SeenStep, RowsStep, StepsStep
<1>3. (FitInv /\ LossInv <=> SeenInv /\ RowsFit /\ StepsFit /\ TodoFit /\ OnlyWindowSaves)'
  BY FitIs, PTL
<1> QED
  BY <1>2, <1>3

(***************************************************************************)
(* The journal                                                             *)
(***************************************************************************)
Rowed(n) ==
  /\ n - 1 \in DOMAIN journal
  /\ Executable(journal[n - 1]) => journal[n - 1].action = ops[n].action
  /\ "raced" \notin blur =>
       /\ Executable(journal[n - 1])
       /\ pc \notin {"finish_rolled_back", "finish_rollback_failed"} => journal[n - 1].state # "rolled_back"
StepsRowed == pc \in ExecSteps => \A n \in Journaled : Rowed(n)
CommitListed ==
  "committed" \in {db.status, cache.status} =>
    \/ \E s \in DOMAIN journal : ~Executable(journal[s])
    \/ \A i \in DOMAIN plan : \E s \in DOMAIN journal : journal[s].action = i
SeqsLast ==
  "raced" \notin blur =>
    /\ pc \in UndoSteps => \A s \in DOMAIN journal : s < seq
    /\ rpc \in {"restore", "audit"} => \A s \in DOMAIN journal : s < rseq

\* The parts of the journal's invariant.
LEMMA JournalIs == JournalInv <=> StepsRowed /\ CommitListed /\ SeqsLast
BY DEF JournalInv, StepsRowed, Rowed, CommitListed, SeqsLast

\* Which steps are journaled.
LEMMA JournaledIs ==
  ASSUME ThreadTypes
  PROVE  Journaled = IF pc = "apply" THEN 1 .. (Len(applied) + 1) ELSE 1 .. Len(applied)
BY DEF ThreadTypes, Journaled

\* The same after a step.
LEMMA JournaledNext ==
  ThreadTypes' => Journaled' = IF pc' = "apply" THEN 1 .. (Len(applied') + 1) ELSE 1 .. Len(applied')
<1>1. (ThreadTypes => Journaled = IF pc = "apply" THEN 1 .. (Len(applied) + 1) ELSE 1 .. Len(applied))'
  BY JournaledIs, PTL
<1> QED
  BY <1>1

\* A step that leaves the journal alone, journals no more, and goes on.
LEMMA RowedFrame ==
  ASSUME StepsRowed, UNCHANGED <<journal, ops>>, blur \subseteq blur', Journaled' \subseteq Journaled,
         pc \in ExecSteps /\ (pc \in {"finish_rolled_back", "finish_rollback_failed"} => pc' = pc)
  PROVE  StepsRowed'
<1>1. \A n \in Journaled : Rowed(n)
  BY DEF StepsRowed
<1>2. \A n \in Journaled : Rowed(n)'
  BY <1>1 DEF Rowed, Executable
<1> QED
  BY <1>2 DEF StepsRowed

\* Every step keeps a row for each step of the accept.
LEMMA RowedStep ==
  ASSUME JobsAssumption, JobsInv, [Next]_vars
  PROVE  StepsRowed'
<1>1. StepsRowed /\ ThreadTypes /\ ThreadTypes' /\ JournalTypes /\ StatusInv /\ StageInv
  BY JournalIs, TypeStep DEF JobsInv, TypeInv
<1>2. /\ Journaled = IF pc = "apply" THEN 1 .. (Len(applied) + 1) ELSE 1 .. Len(applied)
      /\ Journaled' = IF pc' = "apply" THEN 1 .. (Len(applied') + 1) ELSE 1 .. Len(applied')
      /\ Len(applied) \in Nat
  BY <1>1, JournaledIs, JournaledNext DEF ThreadTypes
<1>3. ASSUME pc' \notin ExecSteps
      PROVE  StepsRowed'
  BY <1>3 DEF StepsRowed
<1>4. ASSUME UNCHANGED <<journal, ops, pc, applied>>, blur \subseteq blur'
      PROVE  StepsRowed'
  BY <1>1, <1>2, <1>3, <1>4, RowedFrame
<1>5. CASE ExecJournal
  <2>1. PICK m : m = NextStep
    OBVIOUS
  <2>2. /\ Put(Len(applied), RowOf(ops[m])) /\ RowOf(ops[m]) \in Row /\ Executable(RowOf(ops[m]))
        /\ RowOf(ops[m]).action = ops[m].action /\ RowOf(ops[m]).state = "pending" /\ Len(applied) = m - 1 /\ m \in Nat
        /\ pc = "journal" /\ pc' = "apply" /\ UNCHANGED <<ops, applied, blur>>
    BY <1>2, <1>5, <2>1, JournalPut DEF NextStep
  <2>3. /\ DOMAIN journal' = DOMAIN journal \cup {m - 1} /\ journal'[m - 1] = RowOf(ops[m])
        /\ \A t \in DOMAIN journal : t # m - 1 => journal'[t] = journal[t]
    BY ZenonT(40), <1>1, <1>2, <2>2, PutIs
  <2>4. Rowed(m)'
    BY <2>2, <2>3 DEF Rowed
  <2>5. ASSUME NEW n \in Journaled
        PROVE  Rowed(n)'
    <3>1. Rowed(n) /\ n - 1 # m - 1
      BY <1>1, <1>2, <2>2, <2>5 DEF StepsRowed, ExecSteps, Forward
    <3>2. n - 1 \in DOMAIN journal /\ journal'[n - 1] = journal[n - 1]
      BY <2>3, <3>1 DEF Rowed
    <3> QED
      BY <2>2, <2>3, <3>1, <3>2 DEF Rowed, Executable
  <2>6. \A n \in Journaled' : n = m \/ n \in Journaled
    BY <1>2, <2>2
  <2> QED
    BY <2>4, <2>5, <2>6 DEF StepsRowed
<1>6. CASE ExecJournalFails
  <2>1. pc = "journal" /\ pc' \in {"mark_pending", "rollback"} /\ UNCHANGED <<journal, ops, applied, blur>>
    BY <1>6 DEF ExecJournalFails, Goto, AfterFailure
  <2> QED
    BY <1>1, <1>2, <2>1, RowedFrame DEF ExecSteps, Forward
<1>7. CASE ExecApply
  <2>1. pc = "apply" /\ UNCHANGED <<journal, ops>> /\ blur \subseteq blur'
    BY <1>7, ThreadStepIs DEF ExecApply, ThreadStep
  <2>2. CASE applied' = applied /\ pc' = AfterFailure
    <3>1. Journaled' \subseteq Journaled
      BY <1>2, <2>1, <2>2 DEF AfterFailure
    <3> QED
      BY <1>1, <2>1, <3>1, RowedFrame DEF ExecSteps, Forward
  <2>3. ASSUME NEW c \in Content, applied' = Append(applied, c), pc' = IF NextStep = Len(ops) THEN "mark_applied" ELSE "journal"
        PROVE  StepsRowed'
    <3>1. Journaled' \subseteq Journaled
      BY <1>1, <1>2, <2>1, <2>3, MoreIs DEF ThreadTypes
    <3> QED
      BY <1>1, <2>1, <3>1, RowedFrame DEF ExecSteps, Forward
  <2> QED
    BY <1>7, <2>2, <2>3, ExecApplyIs
<1>8. CASE ExecRollback
  <2>1. pc = "rollback" /\ UNCHANGED <<journal, ops, blur>>
    BY <1>8 DEF ExecRollback
  <2>2. applied \in Seq(Content) /\ applied # <<>>
    BY <1>1, <2>1 DEF ThreadTypes, StageInv
  <2>3. pc' # "apply" /\ (applied' = applied \/ applied' = SubSeq(applied, 1, Len(applied) - 1))
    BY <1>8, ExecRollbackIs
  <2>4. Len(applied') = Len(applied) \/ Len(applied') = Len(applied) - 1
    BY <2>2, <2>3, CutIs
  <2>5. Journaled' \subseteq Journaled
    BY <1>2, <2>1, <2>3, <2>4
  <2> QED
    BY <1>1, <2>1, <2>5, RowedFrame DEF ExecSteps, Forward
<1>9. CASE Marks
  <2>1. ASSUME NEW state \in {"pending", "applied", "rolled_back"}, MarkJournal(state), UNCHANGED <<ops, applied, blur>>,
               pc \in ExecSteps, pc' # "apply", pc # "apply" \/ pc' = pc, "raced" \in blur \/ state # "rolled_back" \/ pc' \in {"finish_rolled_back", "finish_rollback_failed"}
        PROVE  StepsRowed'
    <3>1. /\ DOMAIN journal' = DOMAIN journal
          /\ \A s \in DOMAIN journal : /\ journal'[s].op = journal[s].op /\ journal'[s].action = journal[s].action
                                       /\ journal'[s].state = state
      BY <1>1, <2>1, MarkIs
    <3>2. Journaled' \subseteq Journaled
      BY <1>2, <2>1
    <3>3. \A n \in Journaled : Rowed(n)'
      BY <1>1, <2>1, <3>1 DEF StepsRowed, Rowed, Executable
    <3> QED
      BY <3>2, <3>3 DEF StepsRowed
  <2>2. CASE ~UNCHANGED pc
    BY <1>3, <1>9, <2>1, <2>2, MarksAre DEF ExecSteps, Forward
  <2>3. ASSUME UNCHANGED pc, MarkJournal("rolled_back"), rpc # "idle", pc \in ExecSteps, UNCHANGED <<ops, applied, blur>>
        PROVE  StepsRowed'
    <3>1. "raced" \in blur
      BY <1>1, <2>3 DEF StatusInv, ExecSteps, Forward
    <3>2. /\ DOMAIN journal' = DOMAIN journal
          /\ \A s \in DOMAIN journal : /\ journal'[s].op = journal[s].op /\ journal'[s].action = journal[s].action
      BY <1>1, <2>3, MarkIs
    <3>3. \A n \in Journaled : Rowed(n)'
      BY <1>1, <2>3, <3>1, <3>2 DEF StepsRowed, Rowed, Executable
    <3>4. Journaled' = Journaled
      BY <1>2, <2>3
    <3> QED
      BY <3>3, <3>4 DEF StepsRowed
  <2> QED
    BY <1>3, <1>9, <2>2, <2>3, MarksAre
<1>10. CASE RecoverAudit
  <2>1. PICK m : m = rseq
    OBVIOUS
  <2>2. PICK row : row = AuditRow(Head(rtodo))
    OBVIOUS
  <2>3. /\ Put(m, row) /\ row \in Row /\ ~Executable(row) /\ m \in Nat
        /\ rpc = "audit" /\ UNCHANGED <<pc, ops, applied, blur>>
    BY <1>10, <2>1, <2>2, JournalPut
  <2>4. CASE pc \in ExecSteps
    <3>1. "raced" \in blur
      BY <1>1, <2>3, <2>4 DEF StatusInv, ExecSteps, Forward
    <3>2. /\ DOMAIN journal' = DOMAIN journal \cup {m} /\ journal'[m] = row
          /\ \A t \in DOMAIN journal : t # m => journal'[t] = journal[t]
      BY <1>1, <2>3, PutIs
    <3>3. \A n \in Journaled : Rowed(n)'
      BY <1>1, <2>3, <2>4, <3>1, <3>2 DEF StepsRowed, Rowed, Executable
    <3>4. Journaled' = Journaled
      BY <1>2, <2>3
    <3> QED
      BY <3>3, <3>4 DEF StepsRowed
  <2> QED
    BY <1>3, <2>3, <2>4
<1>11. CASE ThreadStep
  <2>1. CASE UndoRestore \/ UndoAudit
    <3>1. pc \in UndoSteps
      BY <2>1 DEF UndoRestore, UndoAudit, UndoSteps
    <3>2. pc' \notin ExecSteps
      BY <1>11, <3>1, ThreadStepIs DEF ExecSteps, Forward, UndoSteps
    <3> QED
      BY <1>3, <3>2
  <2>2. CASE RecoverRestore
    BY <1>4, <2>2 DEF RecoverRestore, lockVars
  <2> QED
    BY <1>5, <1>6, <1>7, <1>8, <1>9, <1>10, <1>11, <2>1, <2>2 DEF ThreadStep, Marks
<1>12. CASE Other
  <2>1. CASE \E acts \in Plans : Plan(acts)
    BY <1>3, <2>1, PlanTypes DEF Unplanned, lockVars, ExecSteps, Forward
  <2>2. CASE \E sel \in (SUBSET (DOMAIN plan)) \ {{}} : Accept(sel)
    <3>1. applied' = <<>> /\ pc' = "journal"
      BY <2>2, AcceptIs
    <3>2. Journaled' = {}
      BY <1>2, <3>1
    <3> QED
      BY <3>2 DEF StepsRowed
  <2>3. CASE Reject \/ Load \/ Recover \/ RecoverFinish
    BY <1>4, <2>3 DEF Reject, Load, Recover, RecoverFinish, lockVars
  <2>4. CASE ExecCommit \/ ExecFinish("finish_rolled_back", "rolled_back")
             \/ ExecFinish("finish_rollback_failed", "rollback_failed") \/ UndoFinish
    BY <1>3, <2>4, SaveIs DEF ExecSteps, Forward
  <2>5. CASE Undo
    BY <1>3, <2>5, UndoIs DEF ExecSteps, Forward
  <2>6. CASE CrashAndRestart
    BY <1>3, <2>6 DEF CrashAndRestart, ExecSteps, Forward
  <2> QED
    BY <1>12, <2>1, <2>2, <2>3, <2>4, <2>5, <2>6, Zenon DEF Other
<1>13. CASE Editing
  BY <1>4, <1>13, EditorIs DEF Editing, lockVars
<1>14. CASE UNCHANGED vars
  BY <1>4, <1>14 DEF vars
<1> QED
  BY <1>11, <1>12, <1>13, <1>14, StepsAre
\* What happened stays known.
LEMMA BlurGrows ==
  ASSUME JobsAssumption, JobsInv, [Next]_vars
  PROVE  blur \subseteq blur'
<1>1. CASE ThreadStep
  BY <1>1, ThreadStepIs
<1>2. CASE Editing
  BY <1>2, EditorIs DEF Editing
<1>3. CASE UNCHANGED vars
  BY <1>3 DEF vars
<1>4. CASE Other
  <2>1. CASE \E acts \in Plans : Plan(acts)
    BY <2>1, PlanTypes
  <2>2. CASE \E sel \in (SUBSET (DOMAIN plan)) \ {{}} : Accept(sel)
    BY <2>2, AcceptIs
  <2>3. CASE Reject \/ Load
    BY <2>3 DEF Reject, Load
  <2>4. CASE ExecCommit \/ ExecFinish("finish_rolled_back", "rolled_back")
             \/ ExecFinish("finish_rollback_failed", "rollback_failed") \/ UndoFinish
    BY <2>4, SaveIs
  <2>5. CASE Undo
    BY <2>5, UndoIs
  <2>6. CASE Recover
    BY <2>6, RecoverIs
  <2>7. CASE RecoverFinish
    BY <2>7, RecoverFinishIs
  <2>8. CASE CrashAndRestart
    BY <2>8 DEF CrashAndRestart
  <2> QED
    BY <1>4, <2>1, <2>2, <2>3, <2>4, <2>5, <2>6, <2>7, <2>8, Zenon DEF Other
<1> QED
  BY <1>1, <1>2, <1>3, <1>4, StepsAre

\* A record that says committed is one that said so, or an accept's that commits.
LEMMA CommittedWas ==
  ASSUME JobsAssumption, JobsInv, [Next]_vars, "committed" \in {db'.status, cache'.status}
  PROVE  /\ plan' = plan
         /\ "committed" \in {db.status, cache.status} \/ (ExecCommit /\ Selected = DOMAIN plan)
<1>1. plan' = plan
  <2>1. CASE \E acts \in Plans : Plan(acts)
    BY <2>1, PlanTypes
  <2> QED
    BY <2>1, VaultStep
<1>2. CASE ThreadStep
  BY <1>1, <1>2, ThreadStepIs
<1>3. CASE Editing
  BY <1>1, <1>3, EditorIs DEF Editing, recVars
<1>4. CASE UNCHANGED vars
  BY <1>1, <1>4 DEF vars
<1>5. CASE Other
  <2>1. CASE \E acts \in Plans : Plan(acts)
    BY <2>1, PlanTypes
  <2>2. CASE \E sel \in (SUBSET (DOMAIN plan)) \ {{}} : Accept(sel)
    BY <2>2, AcceptIs
  <2>3. CASE Reject
    BY <2>3, RejectIs
  <2>4. CASE Load
    BY <1>1, <2>4 DEF Load
  <2>5. CASE ExecCommit
    BY <1>1, <2>5, EndIs
  <2>6. CASE ExecFinish("finish_rolled_back", "rolled_back") \/ ExecFinish("finish_rollback_failed", "rollback_failed") \/ UndoFinish
    BY <2>6, EndIs
  <2>7. CASE Undo
    BY <1>1, <2>7, UndoIs DEF Loaded
  <2>8. CASE Recover
    BY <1>1, <2>8, RecoverIs
  <2>9. CASE RecoverFinish
    BY <1>1, <2>9, RecoverFinishIs
  <2>10. CASE CrashAndRestart
    BY <1>1, <2>10, CrashRecord DEF NoRecord
  <2> QED
    BY <1>5, <2>1, <2>2, <2>3, <2>4, <2>5, <2>6, <2>7, <2>8, <2>9, <2>10, Zenon DEF Other
<1> QED
  BY <1>2, <1>3, <1>4, <1>5, StepsAre

\* Every step keeps a row for each action of a committed job.
LEMMA ListedStep ==
  ASSUME JobsAssumption, JobsInv, [Next]_vars
  PROVE  CommitListed'
<1>1. CommitListed /\ StepsRowed /\ JournalTypes /\ ThreadTypes /\ StageInv /\ StatusInv
  BY JournalIs DEF JobsInv, TypeInv
<1> SUFFICES ASSUME "committed" \in {db'.status, cache'.status}
             PROVE  \/ \E s \in DOMAIN journal' : ~Executable(journal'[s])
                    \/ \A i \in DOMAIN plan' : \E s \in DOMAIN journal' : journal'[s].action = i
  BY DEF CommitListed, Executable
<1>2. plan' = plan /\ ("committed" \in {db.status, cache.status} \/ (ExecCommit /\ Selected = DOMAIN plan))
  BY CommittedWas
<1>3. CASE ExecCommit /\ Selected = DOMAIN plan
  <2>1. journal' = journal
    BY <1>3, SaveIs
  <2>2. \A n \in DOMAIN ops : Rowed(n)
    <3>1. pc = "commit" /\ Len(applied) = Len(ops) /\ DOMAIN ops = 1 .. Len(ops)
      BY <1>1, <1>3 DEF StageInv, ExecCommit, ThreadTypes
    <3>2. Journaled = DOMAIN ops
      BY <1>1, <3>1, JournaledIs
    <3> QED
      BY <1>1, <3>1, <3>2 DEF StepsRowed, ExecSteps, Forward
  <2>3. ASSUME NEW i \in DOMAIN plan, \A s \in DOMAIN journal : Executable(journal[s])
        PROVE  \E s \in DOMAIN journal : journal[s].action = i
    <3>1. PICK n \in DOMAIN ops : ops[n].action = i
      BY <1>3 DEF Selected
    <3>2. n - 1 \in DOMAIN journal /\ journal[n - 1].action = i
      BY <2>2, <2>3, <3>1 DEF Rowed
    <3> QED
      BY <3>2
  <2> QED
    BY <1>2, <2>1, <2>3
<1>4. ASSUME "committed" \in {db.status, cache.status}
      PROVE  \/ \E s \in DOMAIN journal' : ~Executable(journal'[s])
             \/ \A i \in DOMAIN plan' : \E s \in DOMAIN journal' : journal'[s].action = i
  <2>1. \/ \E s \in DOMAIN journal : ~Executable(journal[s])
        \/ \A i \in DOMAIN plan : \E s \in DOMAIN journal : journal[s].action = i
    BY <1>1, <1>4 DEF CommitListed
  <2>2. CASE ExecJournal
    BY <1>1, <1>4, <2>2 DEF ExecJournal, StatusInv, ExecSteps, Forward
  <2>3. ASSUME NEW s \in Nat, NEW row \in Row, Put(s, row), ~Executable(row)
        PROVE  \E t \in DOMAIN journal' : ~Executable(journal'[t])
    <3>1. s \in DOMAIN journal' /\ journal'[s] = row
      BY <1>1, <2>3, PutIs
    <3> QED
      BY <2>3, <3>1
  <2>4. CASE UndoAudit \/ RecoverAudit
    BY <2>3, <2>4, JournalPut
  <2>5. CASE Marks
    <3>1. /\ DOMAIN journal' = DOMAIN journal
          /\ \A s \in DOMAIN journal : journal'[s].op = journal[s].op /\ journal'[s].action = journal[s].action
      BY <1>1, <2>5, MarksAre, MarkIs
    <3>2. \A s \in DOMAIN journal : ~Executable(journal[s]) => ~Executable(journal'[s])
      BY <3>1 DEF Executable
    <3> QED
      BY <1>2, <2>1, <3>1, <3>2
  <2>6. CASE journal' = journal
    BY <1>2, <2>1, <2>6
  <2> QED
    BY <2>2, <2>4, <2>5, <2>6, JournalSame
<1> QED
  BY <1>2, <1>3, <1>4

\* Every step keeps the next numbers after the rows.
LEMMA SeqStep ==
  ASSUME JobsAssumption, JobsInv, [Next]_vars
  PROVE  SeqsLast'
<1>1. SeqsLast /\ JournalTypes /\ ThreadTypes /\ StatusInv
  BY JournalIs DEF JobsInv, TypeInv
<1>2. blur \subseteq blur'
  BY BlurGrows
<1>3. CASE "raced" \in blur'
  BY <1>3 DEF SeqsLast
<1>4. CASE "raced" \notin blur'
  <2>1. "raced" \notin blur /\ (pc = "idle" \/ rpc = "idle")
    BY <1>1, <1>2, <1>4 DEF StatusInv
  <2>2. /\ pc \in UndoSteps => \A s \in DOMAIN journal : s < seq
        /\ rpc \in {"restore", "audit"} => \A s \in DOMAIN journal : s < rseq
    BY <1>1, <2>1 DEF SeqsLast
  <2>3. ASSUME DOMAIN journal' = DOMAIN journal, pc' \in UndoSteps => pc \in UndoSteps /\ seq' = seq,
               rpc' \in {"restore", "audit"} => rpc \in {"restore", "audit"} /\ rseq' = rseq
        PROVE  SeqsLast'
    BY <2>2, <2>3 DEF SeqsLast
  <2>4. CASE ExecJournal
    <3>1. pc' = "apply" /\ rpc' = "idle"
      BY <2>1, <2>4, JournalPut DEF recoveryVars
    <3> QED
      BY <3>1 DEF SeqsLast, UndoSteps
  <2>5. CASE UndoAudit
    <3>1. PICK m : m = seq
      OBVIOUS
    <3>2. PICK row : row = AuditRow(Head(todo))
      OBVIOUS
    <3>3. Put(m, row) /\ row \in Row /\ m \in Nat /\ seq' = m + 1 /\ rpc' = "idle" /\ pc \in UndoSteps
      BY <2>1, <2>5, <3>1, <3>2, JournalPut DEF recoveryVars, UndoSteps
    <3>4. DOMAIN journal' = DOMAIN journal \cup {m}
      BY <1>1, <3>3, PutIs
    <3>5. \A s \in DOMAIN journal' : s < seq'
      BY <1>1, <2>2, <3>1, <3>3, <3>4 DEF JournalTypes
    <3> QED
      BY <3>3, <3>5 DEF SeqsLast
  <2>6. CASE RecoverAudit
    <3>1. PICK m : m = rseq
      OBVIOUS
    <3>2. PICK row : row = AuditRow(Head(rtodo))
      OBVIOUS
    <3>3. Put(m, row) /\ row \in Row /\ m \in Nat /\ rseq' = m + 1 /\ pc' = "idle" /\ rpc = "audit"
      BY <2>1, <2>6, <3>1, <3>2, JournalPut
    <3>4. DOMAIN journal' = DOMAIN journal \cup {m}
      BY <1>1, <3>3, PutIs
    <3>5. \A s \in DOMAIN journal' : s < rseq'
      BY <1>1, <2>2, <3>1, <3>3, <3>4 DEF JournalTypes
    <3> QED
      BY <3>3, <3>5 DEF SeqsLast, UndoSteps
  <2>7. CASE Marks
    <3>1. DOMAIN journal' = DOMAIN journal
      BY <1>1, <2>7, MarksAre, MarkIs
    <3> QED
      BY <2>3, <2>7, <3>1, MarksAre DEF recoveryVars, UndoSteps
  <2>8. CASE ThreadStep /\ journal' = journal
    <3>1. CASE ExecJournalFails \/ ExecApply \/ ExecRollback
      <4>1. pc' \notin UndoSteps /\ UNCHANGED <<rpc, rseq>>
        BY <3>1, ExecApplyIs, ExecRollbackIs DEF ExecJournalFails, ExecApply, ExecRollback, Goto, AfterFailure, recoveryVars, UndoSteps
      <4> QED
        BY <2>3, <2>8, <4>1
    <3>2. CASE UndoRestore
      BY <2>3, <2>8, <3>2 DEF UndoRestore, recoveryVars, UndoSteps
    <3>3. CASE RecoverRestore
      BY <2>3, <2>8, <3>3 DEF RecoverRestore, lockVars
    <3> QED
      BY <2>4, <2>5, <2>6, <2>7, <2>8, <3>1, <3>2, <3>3 DEF ThreadStep, Marks
  <2>9. CASE Undo
    <3>1. (\A s \in DOMAIN journal' : s < seq') /\ rpc' = "idle"
      BY <1>4, <2>9, UndoIs DEF recoveryVars
    <3> QED
      BY <3>1 DEF SeqsLast
  <2>10. CASE Recover
    <3>1. /\ rpc' = "restore" => \A s \in DOMAIN journal' : s < rseq'
          /\ rpc' # "audit" /\ pc' = "idle"
      BY <1>4, <2>10, RecoverIs
    <3> QED
      BY <3>1 DEF SeqsLast, UndoSteps
  <2>11. CASE Other
    <3>1. CASE \E acts \in Plans : Plan(acts)
      BY <3>1, PlanTypes DEF Unplanned, lockVars, recoveryVars, SeqsLast, UndoSteps
    <3>2. CASE \E sel \in (SUBSET (DOMAIN plan)) \ {{}} : Accept(sel)
      BY <2>3, <3>2, AcceptIs DEF recoveryVars, UndoSteps
    <3>3. CASE Reject \/ Load
      BY <2>3, <3>3 DEF Reject, Load, lockVars, recoveryVars
    <3>4. CASE ExecCommit \/ ExecFinish("finish_rolled_back", "rolled_back")
               \/ ExecFinish("finish_rollback_failed", "rollback_failed") \/ UndoFinish
      BY <2>3, <3>4, SaveIs DEF UndoSteps
    <3>5. CASE RecoverFinish
      BY <2>3, <3>5, RecoverFinishIs
    <3>6. CASE CrashAndRestart
      BY <2>3, <3>6 DEF CrashAndRestart, UndoSteps
    <3> QED
      BY <2>9, <2>10, <2>11, <3>1, <3>2, <3>3, <3>4, <3>5, <3>6, Zenon DEF Other
  <2>12. CASE Editing \/ UNCHANGED vars
    BY <2>3, <2>12, EditorIs DEF Editing, vars, lockVars, recoveryVars
  <2> QED
    BY <2>4, <2>5, <2>6, <2>7, <2>8, <2>11, <2>12, StepsAre, JournalSame
<1> QED
  BY <1>3, <1>4

\* Every step keeps the journal's invariant.
LEMMA JournalStep ==
  ASSUME JobsAssumption, JobsInv, [Next]_vars
  PROVE  JournalInv'
<1>1. (JournalInv <=> StepsRowed /\ CommitListed /\ SeqsLast)'
  BY JournalIs, PTL
<1> QED
  BY <1>1, RowedStep, ListedStep, SeqStep

(***************************************************************************)
(* An accept on its way                                                    *)
(***************************************************************************)

\* What stands where no editor is still does when nothing changes there.
LEMMA StandsKept ==
  ASSUME UNCHANGED <<plan, preview>>, Grows, Same, NEW i, Ends(i) \subseteq Paths, Stands(i)
  PROVE  Stands(i)'
<1>1. Ends(i)' = Ends(i) /\ \A p : Effect(i, p)' = Effect(i, p)
  BY PlanKept
<1>2. \A p \in Ends(i) \ touched' : file'[p] = Effect(i, p)
  BY DEF Stands, Grows, Same
<1> QED
  BY <1>1, <1>2 DEF Stands

\* What an accept has done is still there.
LEMMA ForwardKept ==
  ASSUME JobsAssumption, JobsInv, UNCHANGED <<plan, preview, ops, applied>>, Grows, Same,
         "raced" \notin blur, pc \in Forward
  PROVE  Shown(Done)' /\ Spread'
<1>1. Shown(Done) /\ Spread
  BY DEF JobsInv, ForwardInv
<1>2. \A n \in DOMAIN applied : n \in DOMAIN ops /\ ops[n].action \in DOMAIN plan
  BY DEF JobsInv, TypeInv, ThreadTypes, FitInv, Fits
<1>3. \A n \in DOMAIN applied : Stands(ops[n].action) /\ Ends(ops[n].action) \subseteq Paths
  BY <1>1, <1>2, PlanIs DEF Shown, Done, JobsInv
<1>4. \A n \in DOMAIN applied : Stands(ops[n].action)'
  <2>1. ASSUME NEW i, Ends(i) \subseteq Paths, Stands(i)
        PROVE  Stands(i)'
    BY <2>1, StandsKept
  <2>2. ASSUME NEW n \in DOMAIN applied
        PROVE  Stands(ops[n].action)'
    <3>1. PICK i : i = ops[n].action
      OBVIOUS
    <3>2. Stands(i)'
      BY <1>3, <2>1, <3>1
    <3>3. ops'[n].action = i
      BY <3>1
    <3> QED
      BY <3>2, <3>3
  <2> QED
    BY <2>2
<1>5. Shown(Done)'
  BY <1>4 DEF Shown, Done
<1>6. \A i : Ends(i)' = Ends(i)
  BY PlanKept
<1>7. \A m, n \in DOMAIN applied' : m # n => Ends(ops'[m].action) \cap Ends(ops'[n].action) \subseteq touched'
  BY <1>1 DEF Spread, Grows
<1>8. Spread'
  BY <1>6, <1>7 DEF Spread
<1> QED
  BY <1>5, <1>8

\* The next step joins those that are done.
LEMMA ForwardMore ==
  ASSUME JobsAssumption, JobsInv, ExecApply, "raced" \notin blur', pc' \in Forward
  PROVE  Shown(Done)' /\ Spread'
<1> DEFINE s == ops[NextStep]
           i == s.action
<1>1. /\ Rules /\ UNCHANGED <<plan, preview, ops>> /\ Grows /\ NextStep \in DOMAIN ops /\ Fits(s) /\ Forth(i)
      /\ pc = "apply"
  BY ExecApplyIs DEF ExecApply
<1>2. PICK c \in Content :
        /\ applied' = Append(applied, c) /\ blur' = blur
        /\ \A p \in Ends(i) : file[p] = preview[p]
        /\ \A p \in Ends(i) \ touched' : file'[p] = Effect(i, p)
  BY ExecApplyIs DEF AfterFailure, Forward
<1>3. Shown(Done) /\ Spread
  BY <1>1, <1>2 DEF JobsInv, ForwardInv, Forward
<1>4. /\ applied \in Seq(Content) /\ NextStep = Len(applied) + 1 /\ DOMAIN applied = 1 .. Len(applied) /\ Len(applied) \in Nat
      /\ \A n \in DOMAIN applied : n \in DOMAIN ops /\ ops[n].action \in DOMAIN plan
  BY DEF JobsInv, TypeInv, ThreadTypes, FitInv, Fits, NextStep
<1>5. i \in DOMAIN plan
  BY <1>1 DEF Fits
<1>6. Done \subseteq DOMAIN plan
  BY <1>4 DEF Done
<1>7. \A j \in Done : \A p \in Ends(j) \ touched' : file'[p] = Effect(j, p)
  BY <1>1, <1>3, <1>5, <1>6, ShownKept
<1> HIDE DEF i, s
<1>8. \A j : Ends(j)' = Ends(j) /\ \A p : Effect(j, p)' = Effect(j, p)
  BY <1>1, PlanKept
<1>9. \A j : (\A p \in Ends(j) \ touched' : file'[p] = Effect(j, p)) => Stands(j)'
  BY <1>8 DEF Stands
<1>10. /\ DOMAIN applied' = 1 .. (Len(applied) + 1) 
       /\ \A n \in DOMAIN applied' : n = Len(applied) + 1 \/ n \in DOMAIN applied
  BY <1>2, <1>4, MoreIs
<1>11. \A n \in DOMAIN applied' : ops'[n].action = i \/ ops'[n].action \in Done
  BY <1>1, <1>4, <1>10 DEF Done, i, s
<1>12. ASSUME NEW n \in DOMAIN applied'
       PROVE  Stands(ops[n].action)'
  <2>1. PICK j : j = ops'[n].action
    OBVIOUS
  <2>2. Stands(j)'
    BY <1>2, <1>7, <1>9, <1>11, <2>1
  <2> QED
    BY <2>1, <2>2
<1>13. Shown(Done)'
  BY <1>12 DEF Shown, Done
<1>14. ASSUME NEW m \in DOMAIN applied
       PROVE  Ends(ops[m].action) \cap Ends(i) \subseteq touched
  <2>1. ops[m].action \in DOMAIN plan /\ Stands(ops[m].action)
    BY <1>3, <1>4 DEF Shown, Done
  <2>2. \A p \in Ends(ops[m].action) : Effect(ops[m].action, p) # preview[p]
    BY <1>1, <2>1, ActionIs DEF Rules
  <2> QED
    BY <1>2, <2>1, <2>2 DEF Stands
<1>15. ops'[Len(applied) + 1].action = i /\ touched \subseteq touched'
  BY <1>1, <1>4 DEF Grows, i, s
<1>16. \A m, n \in DOMAIN applied' : m # n => Ends(ops'[m].action) \cap Ends(ops'[n].action) \subseteq touched'
  <2> SUFFICES ASSUME NEW m \in DOMAIN applied', NEW n \in DOMAIN applied', m # n
               PROVE  Ends(ops'[m].action) \cap Ends(ops'[n].action) \subseteq touched'
    OBVIOUS
  <2>1. CASE m \in DOMAIN applied /\ n \in DOMAIN applied
    BY <1>1, <1>3, <1>15, <2>1 DEF Spread
  <2>2. CASE m = Len(applied) + 1 /\ n \in DOMAIN applied
    BY <1>1, <1>14, <1>15, <2>2
  <2>3. CASE n = Len(applied) + 1 /\ m \in DOMAIN applied
    BY <1>1, <1>14, <1>15, <2>3
  <2> QED
    BY <1>10, <2>1, <2>2, <2>3
<1>17. Spread'
  BY <1>8, <1>16 DEF Spread
<1> QED
  BY <1>13, <1>17

\* Every step keeps what an accept has done.
LEMMA ForwardStep ==
  ASSUME JobsAssumption, JobsInv, [Next]_vars
  PROVE  ForwardInv'
<1> SUFFICES ASSUME "raced" \notin blur', pc' \in Forward
             PROVE  Shown(Done)' /\ Spread'
  BY DEF ForwardInv
<1>1. blur \subseteq blur' /\ "raced" \notin blur /\ StatusInv /\ TypeInv
  BY BlurGrows DEF JobsInv
<1>2. ASSUME applied' = <<>>
      PROVE  Shown(Done)' /\ Spread'
  BY <1>2 DEF Shown, Done, Spread
<1>3. ASSUME UNCHANGED <<plan, preview, ops, applied>>, Grows, Same, pc \in Forward
      PROVE  Shown(Done)' /\ Spread'
  BY <1>1, <1>3, ForwardKept
<1>4. ASSUME UNCHANGED <<fileVars, plan, preview, ops, applied>>, pc \in Forward
      PROVE  Shown(Done)' /\ Spread'
  BY <1>1, <1>3, <1>4, StillIs
<1>5. CASE ThreadStep
  <2>1. CASE ExecApply
    BY <1>1, <2>1, ForwardMore
  <2>2. CASE ExecJournal
    BY <1>4, <2>2, JournalPut DEF Forward
  <2>3. CASE ExecMarkApplied
    BY <1>4, <2>3 DEF ExecMarkApplied, ExecMark, Goto, SameRecord, Forward
  <2>4. CASE ExecJournalFails \/ ExecMarkPending \/ ExecMarkRolledBack \/ ExecMarkRollbackFailed
    BY <2>4 DEF ExecJournalFails, ExecMarkPending, ExecMarkRolledBack, ExecMarkRollbackFailed, ExecMark, Goto, AfterFailure, Forward
  <2>5. CASE ExecRollback
    BY <2>5, ExecRollbackIs DEF Forward
  <2>6. CASE UndoRestore \/ UndoAudit
    BY <2>6 DEF UndoRestore, UndoAudit, Forward
  <2>7. CASE RecoverRestore \/ RecoverAudit \/ RecoverMark
    <3>1. pc' = pc /\ rpc # "idle"
      BY <2>7 DEF RecoverRestore, RecoverAudit, RecoverMark, lockVars
    <3> QED
      BY <1>1, <3>1 DEF StatusInv, Forward
  <2> QED
    BY <1>5, <2>1, <2>2, <2>3, <2>4, <2>5, <2>6, <2>7, Zenon DEF ThreadStep
<1>6. CASE Editing
  <2>1. UNCHANGED <<plan, preview, ops, applied, pc>> /\ Grows /\ Same
    BY <1>6, EditorIs DEF Editing, lockVars
  <2> QED
    BY <1>3, <2>1
<1>7. CASE UNCHANGED vars
  BY <1>4, <1>7 DEF vars, fileVars
<1>8. CASE Other
  <2>1. CASE \E acts \in Plans : Plan(acts)
    BY <2>1, PlanTypes DEF Unplanned, lockVars, Forward
  <2>2. CASE \E sel \in (SUBSET (DOMAIN plan)) \ {{}} : Accept(sel)
    BY <1>2, <2>2, AcceptIs
  <2>3. CASE Reject \/ Load
    BY <1>4, <2>3 DEF Reject, Load, lockVars, Forward
  <2>4. CASE ExecCommit \/ ExecFinish("finish_rolled_back", "rolled_back")
             \/ ExecFinish("finish_rollback_failed", "rollback_failed") \/ UndoFinish
    BY <2>4, SaveIs DEF Forward
  <2>5. CASE Undo
    BY <2>5, UndoIs DEF Forward
  <2>6. CASE Recover
    <3>1. pc' = pc /\ pc = "idle"
      BY <2>6, RecoverIs
    <3> QED
      BY <3>1 DEF Forward
  <2>7. CASE RecoverFinish
    BY <1>4, <2>7, RecoverFinishIs
  <2>8. CASE CrashAndRestart
    BY <2>8 DEF CrashAndRestart, Forward
  <2> QED
    BY <1>8, <2>1, <2>2, <2>3, <2>4, <2>5, <2>6, <2>7, <2>8, Zenon DEF Other
<1> QED
  BY <1>5, <1>6, <1>7, <1>8, StepsAre

(***************************************************************************)
(* A committed job, and its undo                                           *)
(***************************************************************************)

\* A death between two accepts leaves the Vault alone.
LEMMA CrashStill ==
  ASSUME CrashAndRestart, pc = "idle", rpc = "idle"
  PROVE  file' = file /\ UNCHANGED fileVars
BY DEF CrashAndRestart, HalfMoves, fileVars

\* A job is committed by an accept of all its actions.
LEMMA CommittedBy ==
  ASSUME JobsAssumption, JobsInv, [Next]_vars, db'.status = "committed"
  PROVE  db' = db \/ (ExecCommit /\ Selected = DOMAIN plan) \/ CrashAndRestart
<1>1. CASE ThreadStep
  BY <1>1, ThreadStepIs
<1>2. CASE Editing
  BY <1>2, EditorIs DEF Editing, recVars
<1>3. CASE UNCHANGED vars
  BY <1>3 DEF vars
<1>4. CASE Other
  <2>1. CASE \E acts \in Plans : Plan(acts)
    BY <2>1, PlanTypes
  <2>2. CASE \E sel \in (SUBSET (DOMAIN plan)) \ {{}} : Accept(sel)
    BY <2>2, AcceptIs
  <2>3. CASE Reject
    BY <2>3, RejectIs
  <2>4. CASE Load
    BY <2>4 DEF Load
  <2>5. CASE ExecCommit \/ ExecFinish("finish_rolled_back", "rolled_back")
             \/ ExecFinish("finish_rollback_failed", "rollback_failed") \/ UndoFinish
    BY <2>5, EndIs
  <2>6. CASE Undo
    BY <2>6, UndoIs
  <2>7. CASE Recover
    BY <2>7, RecoverIs
  <2>8. CASE RecoverFinish
    BY <2>8, RecoverFinishIs
  <2> QED
    BY <1>4, <2>1, <2>2, <2>3, <2>4, <2>5, <2>6, <2>7, <2>8, Zenon DEF Other
<1> QED
  BY <1>1, <1>2, <1>3, <1>4, StepsAre

\* The commit of an accept of all the actions.
LEMMA CommitIs ==
  ASSUME JobsAssumption, JobsInv, ExecCommit, "raced" \notin blur
  PROVE  /\ Selected = Done /\ Shown(Selected) /\ Apart(Selected) /\ pc' = "idle" /\ rpc = "idle" /\ rpc' = "idle"
         /\ Selected \subseteq DOMAIN plan
<1>1. pc = "commit" /\ Shown(Done) /\ Spread
  BY DEF ExecCommit, JobsInv, ForwardInv, Forward
<1>2. DOMAIN ops = DOMAIN applied
  BY <1>1 DEF JobsInv, TypeInv, ThreadTypes, StageInv
<1>3. Selected = Done
  BY <1>2 DEF Selected, Done
<1>4. Apart(Selected)
  BY <1>1, <1>2 DEF Apart, Selected, Spread
<1>5. rpc = "idle"
  BY <1>1 DEF JobsInv, StatusInv
<1>6. pc' = "idle" /\ rpc' = rpc
  BY SaveIs
<1> QED
  BY <1>1, <1>3, <1>4, <1>5, <1>6, EndIs

\* Sets of actions that show where no editor is.
LEMMA ShownStill ==
  ASSUME JobsAssumption, RecordInv, UNCHANGED <<plan, preview>>, Grows, Same, NEW D \in SUBSET DOMAIN plan, Shown(D), Apart(D)
  PROVE  Shown(D)' /\ Apart(D)'
<1>1. \A i \in D : Ends(i) \subseteq Paths
  BY PlanIs
<1>2. \A i \in D : Stands(i)'
  BY <1>1, StandsKept DEF Shown
<1>3. \A i : Ends(i)' = Ends(i)
  BY PlanKept
<1> QED
  BY <1>2, <1>3 DEF Shown, Apart, Grows

\* Every step keeps a committed job whole.
LEMMA CommittedStep ==
  ASSUME JobsAssumption, JobsInv, [Next]_vars
  PROVE  CommittedInv'
<1> SUFFICES ASSUME db'.status = "committed", blur' \cap {"raced", "half_undone"} = {}
             PROVE  /\ db'.executed = DOMAIN plan' /\ pc' = "idle" /\ rpc' = "idle"
                    /\ Shown(DOMAIN plan)' /\ Apart(DOMAIN plan)'
  BY DEF CommittedInv
<1>1. /\ blur \subseteq blur' /\ "raced" \notin blur' /\ blur \cap {"raced", "half_undone"} = {} /\ "half_undone" \notin blur'
      /\ StatusInv /\ TypeInv /\ RecordInv /\ CommittedInv
  BY BlurGrows DEF JobsInv
<1>2. ASSUME UNCHANGED <<plan, preview>>, Grows, Same, Shown(DOMAIN plan), Apart(DOMAIN plan)
      PROVE  Shown(DOMAIN plan)' /\ Apart(DOMAIN plan)'
  <2>1. PICK D : D = DOMAIN plan
    OBVIOUS
  <2>2. Shown(D)' /\ Apart(D)' /\ D = DOMAIN plan'
    BY <1>1, <1>2, <2>1, ShownStill
  <2> QED
    BY <2>2
<1>3. CASE ExecCommit /\ Selected = DOMAIN plan
  <2>1. Shown(DOMAIN plan) /\ Apart(DOMAIN plan) /\ pc' = "idle" /\ rpc' = "idle"
    BY <1>1, <1>3, CommitIs
  <2>2. UNCHANGED <<fileVars, plan, preview>> /\ Grows /\ Same
    BY <1>1, <1>3, SaveIs, StillIs DEF fileVars
  <2>3. db'.executed = DOMAIN plan
    BY <1>1, <1>3, EndIs DEF RecordInv
  <2> QED
    BY <1>2, <2>1, <2>2, <2>3
<1>4. CASE db.status = "committed"
  <2>1. /\ db.executed = DOMAIN plan /\ pc = "idle" /\ rpc = "idle" /\ Shown(DOMAIN plan) /\ Apart(DOMAIN plan)
        /\ cache.status \in {"none", "committed"} /\ db # NoRecord
    BY <1>1, <1>4 DEF CommittedInv, StatusInv, NoRecord
  <2>2. ASSUME UNCHANGED <<plan, preview, db, pc, rpc>>, Grows, Same
        PROVE  /\ db'.executed = DOMAIN plan' /\ pc' = "idle" /\ rpc' = "idle"
               /\ Shown(DOMAIN plan)' /\ Apart(DOMAIN plan)'
    BY <1>2, <2>1, <2>2
  <2>3. CASE ThreadStep
    BY <2>1, <2>3, ThreadStepIs DEF ExecSteps, Forward, UndoSteps
  <2>4. CASE Editing
    BY <2>2, <2>4, EditorIs DEF Editing, recVars, lockVars, recoveryVars
  <2>5. CASE UNCHANGED vars
    BY <1>1, <2>2, <2>5, StillIs DEF vars, fileVars
  <2>6. CASE Other
    <3>1. CASE \E acts \in Plans : Plan(acts)
      BY <2>1, <3>1 DEF Plan
    <3>2. CASE \E sel \in (SUBSET (DOMAIN plan)) \ {{}} : Accept(sel)
      BY <3>2, AcceptIs
    <3>3. CASE Reject
      BY <3>3, RejectIs
    <3>4. CASE Load
      BY <1>1, <2>2, <3>4, StillIs DEF Load, lockVars, recoveryVars
    <3>5. CASE ExecCommit \/ ExecFinish("finish_rolled_back", "rolled_back")
               \/ ExecFinish("finish_rollback_failed", "rollback_failed") \/ UndoFinish
      BY <2>1, <3>5 DEF ExecCommit, ExecFinish, UndoFinish
    <3>6. CASE Undo
      BY <1>1, <3>6, UndoIs
    <3>7. CASE Recover
      BY <1>4, <3>7, RecoverIs DEF Flagged
    <3>8. CASE RecoverFinish
      BY <2>1, <3>8, RecoverFinishIs
    <3>9. CASE CrashAndRestart
      <4>1. UNCHANGED <<fileVars, plan, preview>> /\ pc' = "idle" /\ rpc' = "idle"
        BY <2>1, <3>9, CrashStill DEF CrashAndRestart
      <4>2. Grows /\ Same
        BY <1>1, <4>1, StillIs
      <4>3. db'.executed = db.executed
        BY <3>9, CrashRecord
      <4> QED
        BY <1>2, <2>1, <4>1, <4>2, <4>3
    <3> QED
      BY <2>6, <3>1, <3>2, <3>3, <3>4, <3>5, <3>6, <3>7, <3>8, <3>9, Zenon DEF Other
  <2> QED
    BY <2>3, <2>4, <2>5, <2>6, StepsAre
<1>5. CASE CrashAndRestart
  <2>1. db.status = "committed"
    BY <1>5, CrashRecord
  <2> QED
    BY <1>4, <2>1
<1>6. CASE db' = db
  BY <1>4, <1>6
<1> QED
  BY <1>3, <1>5, <1>6, CommittedBy

\* Where nothing is done that is not undone.
LEMMA UndoneStep ==
  ASSUME JobsAssumption, JobsInv, [Next]_vars, db # NoRecord, pc # "apply", NEW j \in DOMAIN plan, Undone(j)
  PROVE  Undone(j)'
<1>1. /\ UNCHANGED <<plan, preview>> /\ Grows
      /\ Same \/ (Rules /\ \E i \in DOMAIN plan : Back(i))
  BY VaultStep DEF Plan
<1>2. CASE Rules /\ \E i \in DOMAIN plan : Back(i)
  BY <1>1, <1>2, UndoneKept
<1>3. CASE Same
  <2>1. Ends(j) \subseteq Paths
    BY PlanIs DEF JobsInv
  <2>2. Ends(j)' = Ends(j)
    BY <1>1, PlanKept
  <2>3. \A p \in Ends(j) \ touched' : file'[p] = preview[p]
    BY <1>1, <1>3, <2>1 DEF Undone, Grows, Same
  <2> QED
    BY <1>1, <2>2, <2>3 DEF Undone
<1> QED
  BY <1>1, <1>2, <1>3
\* A step that leaves the undo's list alone.
LEMMA UndoFrame ==
  ASSUME JobsAssumption, JobsInv, [Next]_vars, db # NoRecord, pc # "apply", UNCHANGED <<plan, todo>>,
         pc' # "idle" => pc' = pc, db'.status = "undone" => db.status = "undone"
  PROVE  UndoInv'
<1>1. UndoInv
  BY DEF JobsInv
<1>2. \A j \in DOMAIN plan : Undone(j) => Undone(j)'
  BY UndoneStep
<1> QED
  BY <1>1, <1>2 DEF UndoInv

\* A job is undone by the end of an undo.
LEMMA UndoneBy ==
  ASSUME JobsAssumption, JobsInv, [Next]_vars, db'.status = "undone"
  PROVE  db.status = "undone" \/ UndoFinish
<1>1. CASE ThreadStep
  BY <1>1, ThreadStepIs
<1>2. CASE Editing
  BY <1>2, EditorIs DEF Editing, recVars
<1>3. CASE UNCHANGED vars
  BY <1>3 DEF vars
<1>4. CASE Other
  <2>1. CASE \E acts \in Plans : Plan(acts)
    BY <2>1, PlanTypes
  <2>2. CASE \E sel \in (SUBSET (DOMAIN plan)) \ {{}} : Accept(sel)
    BY <2>2, AcceptIs
  <2>3. CASE Reject
    BY <2>3, RejectIs
  <2>4. CASE Load
    BY <2>4 DEF Load
  <2>5. CASE ExecCommit \/ ExecFinish("finish_rolled_back", "rolled_back")
             \/ ExecFinish("finish_rollback_failed", "rollback_failed") \/ UndoFinish
    BY <2>5, EndIs
  <2>6. CASE Undo
    BY <2>6, UndoIs
  <2>7. CASE Recover
    BY <2>7, RecoverIs
  <2>8. CASE RecoverFinish
    BY <2>8, RecoverFinishIs
  <2>9. CASE CrashAndRestart
    BY <2>9, CrashRecord
  <2> QED
    BY <1>4, <2>1, <2>2, <2>3, <2>4, <2>5, <2>6, <2>7, <2>8, <2>9, Zenon DEF Other
<1> QED
  BY <1>1, <1>2, <1>3, <1>4, StepsAre

\* Every step keeps what undo has behind it undone.
LEMMA UndoStep ==
  ASSUME JobsAssumption, JobsInv, [Next]_vars
  PROVE  UndoInv'
<1>1. UndoInv /\ StatusInv /\ TypeInv /\ RecordInv
  BY DEF JobsInv
<1>2. CASE \E acts \in Plans : Plan(acts)
  <2>1. pc' = "idle" /\ db'.status # "undone"
    BY <1>2, PlanTypes DEF lockVars, Unplanned
  <2> QED
    BY <2>1 DEF UndoInv
<1>3. CASE pc = "apply"
  <2>1. db.status # "undone" /\ ~UndoFinish
    BY <1>1, <1>3 DEF StatusInv, UndoFinish
  <2>2. db'.status # "undone"
    BY <2>1, UndoneBy
  <2>3. pc' \notin UndoSteps
    <3>1. CASE ThreadStep
      BY <1>3, <3>1, ThreadStepIs DEF ExecSteps, Forward, UndoSteps
    <3>2. CASE Editing
      BY <1>3, <3>2, EditorIs DEF Editing, lockVars, UndoSteps
    <3>3. CASE UNCHANGED vars
      BY <1>3, <3>3 DEF vars, UndoSteps
    <3>4. CASE Other
      <4>1. CASE \E sel \in (SUBSET (DOMAIN plan)) \ {{}} : Accept(sel)
        BY <4>1, AcceptIs DEF UndoSteps
      <4>2. CASE Reject \/ Load
        BY <1>3, <4>2 DEF Reject, Load, lockVars, UndoSteps
      <4>3. CASE ExecCommit \/ ExecFinish("finish_rolled_back", "rolled_back")
                 \/ ExecFinish("finish_rollback_failed", "rollback_failed") \/ UndoFinish
        BY <4>3, SaveIs DEF UndoSteps
      <4>4. CASE Undo
        BY <1>3, <4>4, UndoIs
      <4>5. CASE Recover
        BY <1>3, <4>5, RecoverIs DEF UndoSteps
      <4>6. CASE RecoverFinish
        BY <1>3, <4>6, RecoverFinishIs DEF UndoSteps
      <4>7. CASE CrashAndRestart
        BY <4>7 DEF CrashAndRestart, UndoSteps
      <4>8. CASE \E acts \in Plans : Plan(acts)
        BY <1>3, <4>8 DEF Plan
      <4> QED
        BY <3>4, <4>1, <4>2, <4>3, <4>4, <4>5, <4>6, <4>7, <4>8, Zenon DEF Other
    <3> QED
      BY <3>1, <3>2, <3>3, <3>4, StepsAre
  <2> QED
    BY <2>2, <2>3 DEF UndoInv, UndoSteps
<1>4. CASE ThreadStep /\ pc # "apply"
  <2>1. UNCHANGED <<db, plan>> /\ db # NoRecord
    <3>1. pc # "idle" \/ rpc # "idle"
      BY <1>4, ThreadStepIs DEF ExecSteps, Forward, UndoSteps
    <3> QED
      BY <1>4, <3>1, ThreadStepIs, WorkIsAllowed
  <2>2. CASE UndoRestore
    <3> DEFINE s == Head(todo)
    <3>1. /\ pc = "undo_restore" /\ UNCHANGED todo /\ UNCHANGED <<plan, preview>> /\ s = todo[1]
          /\ \/ pc' = "undo_audit" /\ \A p \in Ends(s.action) \ touched' : file'[p] = preview[p]
             \/ pc' = "idle"
      BY <2>2, UndoRestoreIs DEF UndoRestore
    <3>2. CASE pc' = "idle"
      BY <1>4, <2>1, <3>1, <3>2, UndoFrame
    <3>3. CASE pc' = "undo_audit"
      <4>1. \A j : Ends(j)' = Ends(j)
        BY <3>1, PlanKept
      <4>2. PICK i : i = s.action
        OBVIOUS
      <4>3. Undone(i)'
        BY <3>1, <3>3, <4>1, <4>2 DEF Undone
      <4>4. \A j \in DOMAIN plan : Undone(j) => Undone(j)'
        BY <1>4, <2>1, UndoneStep
      <4>5. \A j \in DOMAIN plan : Undone(j)' \/ \E n \in DOMAIN todo : n # 1 /\ todo[n].action = j
        BY <1>1, <3>1, <4>2, <4>3, <4>4 DEF UndoInv
      <4>6. db'.status # "undone"
        BY <1>1, <2>1, <3>1 DEF StatusInv
      <4> QED
        BY <3>1, <3>3, <4>5, <4>6 DEF UndoInv
    <3> QED
      BY <3>1, <3>2, <3>3
  <2>3. CASE UndoAudit
    <3>1. /\ pc = "undo_audit" /\ pc' = (IF Tail(todo) = <<>> THEN "undo_finish" ELSE "undo_restore")
          /\ todo \in Seq(Row) /\ todo # <<>> /\ todo' = Tail(todo)
      BY <2>3, JournalPut
    <3>2. \A n \in DOMAIN todo : n # 1 => n - 1 \in DOMAIN Tail(todo) /\ Tail(todo)[n - 1] = todo[n]
      BY <3>1, TodoIs
    <3>3. \A j \in DOMAIN plan : Undone(j) => Undone(j)'
      BY <1>4, <2>1, UndoneStep
    <3>4. \A j \in DOMAIN plan : Undone(j) \/ \E n \in DOMAIN todo : n # 1 /\ todo[n].action = j
      BY <1>1, <3>1 DEF UndoInv
    <3>5. \A j \in DOMAIN plan : Undone(j)' \/ \E n \in DOMAIN Tail(todo) : Tail(todo)[n].action = j
      <4> SUFFICES ASSUME NEW j \in DOMAIN plan, ~Undone(j)
                   PROVE  \E n \in DOMAIN Tail(todo) : Tail(todo)[n].action = j
        BY <3>3
      <4>1. PICK n \in DOMAIN todo : n # 1 /\ todo[n].action = j
        BY <3>4
      <4> QED
        BY <3>2, <4>1
    <3>6. db'.status # "undone"
      BY <1>1, <2>1, <3>1 DEF StatusInv
    <3>7. CASE Tail(todo) = <<>>
      BY <2>1, <3>1, <3>5, <3>6, <3>7 DEF UndoInv
    <3>8. CASE Tail(todo) # <<>>
      BY <2>1, <3>1, <3>5, <3>6, <3>8 DEF UndoInv
    <3> QED
      BY <3>7, <3>8
  <2>4. CASE pc' \notin UndoSteps
    <3>1. db'.status = "undone" => \A j \in DOMAIN plan' : Undone(j)'
      <4>1. \A j \in DOMAIN plan : Undone(j) => Undone(j)'
        BY <1>4, <2>1, UndoneStep
      <4> QED
        BY <1>1, <2>1, <4>1 DEF UndoInv
    <3> QED
      BY <2>4, <3>1 DEF UndoInv, UndoSteps
  <2>5. CASE pc' = pc /\ todo' = todo
    BY <1>4, <2>1, <2>5, UndoFrame
  <2>6. CASE RecoverRestore \/ RecoverAudit \/ RecoverMark
    BY <2>5, <2>6 DEF RecoverRestore, RecoverAudit, RecoverMark, lockVars
  <2>7. CASE ExecJournal \/ ExecJournalFails \/ ExecApply \/ ExecMarkApplied \/ ExecMarkPending \/ ExecRollback
             \/ ExecMarkRolledBack \/ ExecMarkRollbackFailed
    <3>1. pc \in ExecSteps
      BY <2>7 DEF ExecJournal, ExecJournalFails, ExecApply, ExecMarkApplied, ExecMarkPending, ExecRollback,
                  ExecMarkRolledBack, ExecMarkRollbackFailed, ExecMark, ExecSteps, Forward
    <3>2. pc' = pc \/ pc' \in ExecSteps \cup {"idle"}
      BY <1>4, <3>1, ThreadStepIs DEF ExecSteps, Forward, UndoSteps
    <3> QED
      BY <2>4, <3>1, <3>2 DEF ExecSteps, Forward, UndoSteps
  <2> QED
    BY <1>4, <2>2, <2>3, <2>6, <2>7 DEF ThreadStep
<1>5. CASE Editing /\ pc # "apply"
  BY <1>5, EditorIs, UndoFrame DEF Editing, recVars, lockVars
<1>6. CASE UNCHANGED vars /\ pc # "apply"
  <2>1. UNCHANGED <<file, plan, preview, touched, db, pc, todo>>
    BY <1>6 DEF vars
  <2>2. \A j : Undone(j)' <=> Undone(j)
    BY <2>1, PlanKept DEF Undone
  <2> QED
    BY <1>1, <2>1, <2>2 DEF UndoInv
<1>7. CASE Other /\ pc # "apply"
  <2>1. CASE \E sel \in (SUBSET (DOMAIN plan)) \ {{}} : Accept(sel)
    BY <2>1, AcceptIs DEF UndoInv
  <2>2. CASE Reject
    BY <2>2, RejectIs DEF UndoInv, lockVars
  <2>3. CASE Load
    BY <1>7, <2>3, UndoFrame DEF Load, lockVars
  <2>4. CASE ExecCommit \/ ExecFinish("finish_rolled_back", "rolled_back")
             \/ ExecFinish("finish_rollback_failed", "rollback_failed")
    <3>1. pc' = "idle" /\ db'.status # "undone"
      BY <2>4, SaveIs, EndIs
    <3> QED
      BY <3>1 DEF UndoInv
  <2>5. CASE UndoFinish
    <3>1. pc = "undo_finish" /\ pc' = "idle" /\ UNCHANGED <<file, plan, preview, touched>>
      BY <2>5, SaveIs, EndIs
    <3>2. \A j : Undone(j)' <=> Undone(j)
      BY <3>1, PlanKept DEF Undone
    <3> QED
      BY <1>1, <3>1, <3>2 DEF UndoInv
  <2>6. CASE Undo
    <3>1. /\ Loaded.status = "committed" /\ \A s \in DOMAIN journal : Executable(journal[s])
          /\ \A s \in DOMAIN journal : \E n \in DOMAIN todo' : todo'[n] = journal[s]
          /\ UNCHANGED <<plan, db>> /\ pc' = "undo_restore"
      BY <2>6, UndoIs
    <3>2. "committed" \in {db.status, cache.status}
      BY <3>1 DEF Loaded
    <3>3. \A i \in DOMAIN plan : \E s \in DOMAIN journal : journal[s].action = i
      BY <3>1, <3>2, JournalIs DEF CommitListed, JobsInv
    <3>4. \A i \in DOMAIN plan : \E n \in DOMAIN todo' : todo'[n].action = i
      BY <3>1, <3>3
    <3>5. db'.status # "undone"
      BY <1>1, <3>1, <3>2 DEF StatusInv
    <3> QED
      BY <3>1, <3>4, <3>5 DEF UndoInv
  <2>7. CASE Recover
    BY <1>7, <2>7, RecoverIs, UndoFrame DEF Flagged, NoRecord
  <2>8. CASE RecoverFinish
    <3>1. db # NoRecord /\ db'.status # "undone"
      BY <2>8, RecoverFinishIs, WorkIsAllowed
    <3> QED
      BY <1>7, <2>8, <3>1, RecoverFinishIs, UndoFrame
  <2>9. CASE CrashAndRestart
    <3>1. pc' = "idle" /\ UNCHANGED plan
      BY <2>9 DEF CrashAndRestart
    <3>2. ASSUME db'.status = "undone"
          PROVE  \A j \in DOMAIN plan' : Undone(j)'
      <4>1. db.status = "undone" /\ db # NoRecord
        BY <2>9, <3>2, CrashRecord DEF NoRecord
      <4>2. \A j \in DOMAIN plan : Undone(j) => Undone(j)'
        BY <1>7, <4>1, UndoneStep
      <4> QED
        BY <1>1, <3>1, <4>1, <4>2 DEF UndoInv
    <3> QED
      BY <3>1, <3>2 DEF UndoInv
  <2> QED
    BY <1>2, <1>7, <2>1, <2>2, <2>3, <2>4, <2>5, <2>6, <2>7, <2>8, <2>9, Zenon DEF Other
<1> QED
  BY <1>3, <1>4, <1>5, <1>6, <1>7, StepsAre

(***************************************************************************)
(* What the journal tells                                                  *)
(***************************************************************************)

\* Nothing new is changed, and an action that is done at a changed path stays.
Settles ==
  /\ Changed' \subseteq Changed
  /\ \A n \in DOMAIN plan : \A p \in Ends(n) : p \in Changed' /\ InPlace(n) => InPlace(n)'

\* A step that does nothing where no editor is, or undoes an action.
LEMMA SettlesIs ==
  ASSUME JobsAssumption, RecordInv, UNCHANGED <<plan, preview>>, Grows,
         Same \/ (Rules /\ \E i \in DOMAIN plan : Back(i))
  PROVE  Settles
<1>1. (\A p \in Changed : /\ p \in Paths /\ p \notin touched /\ file[p] # preview[p]
                          /\ \A j \in DOMAIN plan : p \in Ends(j) => \A q \in Ends(j) : q \notin touched)'
  BY ChangedNext
<1>2. \A j : Ends(j)' = Ends(j) /\ PathOf(j)' = PathOf(j) /\ AfterOf(j)' = AfterOf(j)
  BY PlanKept
<1>3. ASSUME NEW p \in Changed', p \notin Changed
      PROVE  file'[p] # file[p]
  <2>1. p \in Paths /\ file'[p] # preview[p] /\ p \notin Theirs
    BY <1>1, <1>3, TheirsGrow DEF Changed
  <2> QED
    BY <1>3, <2>1 DEF Changed
<1>4. CASE Same
  <2>1. Changed' \subseteq Changed
    BY <1>1, <1>3, <1>4 DEF Same
  <2>2. ASSUME NEW n \in DOMAIN plan, NEW p \in Ends(n), p \in Changed', InPlace(n)
        PROVE  InPlace(n)'
    <3>1. PathOf(n) \in Ends(n) /\ PathOf(n) \in Paths
      BY PlanIs
    <3>2. PathOf(n) \notin touched'
      BY <1>1, <1>2, <2>2, <3>1
    <3>3. file'[PathOf(n)] = file[PathOf(n)]
      BY <1>4, <3>1, <3>2 DEF Same
    <3> QED
      BY <1>2, <2>2, <3>3 DEF InPlace
  <2> QED
    BY <2>1, <2>2 DEF Settles
<1>5. CASE Rules /\ \E i \in DOMAIN plan : Back(i)
  <2>1. PICK i \in DOMAIN plan : Back(i)
    BY <1>5
  <2>2. Changed' \subseteq Changed
    BY <1>1, <1>3, <2>1 DEF Back
  <2>3. \A n \in DOMAIN plan : \A p \in Ends(n) : p \in Changed' /\ InPlace(n) => InPlace(n)'
    BY <1>5, <2>1, PlaceKept
  <2> QED
    BY <2>2, <2>3 DEF Settles
<1> QED
  BY <1>4, <1>5

\* Every step but the plan's and a write's.
LEMMA SettlesStep ==
  ASSUME JobsAssumption, JobsInv, [Next]_vars, db # NoRecord, pc = "apply" => pc' = "apply"
  PROVE  Settles /\ UNCHANGED <<plan, preview>>
<1>1. /\ UNCHANGED <<plan, preview>> /\ Grows
      /\ Same \/ (Rules /\ \E i \in DOMAIN plan : Back(i))
  BY VaultStep DEF Plan
<1> QED
  BY <1>1, SettlesIs DEF JobsInv

\* A row or an entry whose action is in its place after the step names its paths.
LEMMA NamesNext ==
  ASSUME JobsAssumption, RecordInv, UNCHANGED <<plan, preview>>, NEW s, Fits(s), NEW p \in Ends(s.action), InPlace(s.action)'
  PROVE  p \in {s.path, s.source} /\ file'[s.path] = s.after
<1>1. s.action \in DOMAIN plan /\ s.path = PathOf(s.action) /\ s.source = plan[s.action].file /\ s.after = AfterOf(s.action)
  BY DEF Fits
<1>2. Ends(s.action) = {PathOf(s.action), plan[s.action].file}
  BY <1>1, PlanIs
<1>3. PathOf(s.action)' = PathOf(s.action) /\ AfterOf(s.action)' = AfterOf(s.action)
  BY PlanKept
<1> QED
  BY <1>1, <1>2, <1>3 DEF InPlace

\* An entry that tells still does.
LEMMA NamesKept ==
  ASSUME JobsAssumption, RecordInv, UNCHANGED <<plan, preview>>, Settles, NEW s, Fits(s), NEW p \in Changed', Names(p, s)
  PROVE  p \in Ends(s.action) /\ p \in {s.path, s.source} /\ file'[s.path] = s.after
<1>1. s.action \in DOMAIN plan /\ p \in Ends(s.action) /\ InPlace(s.action)
  BY NamesIs DEF Fits
<1>2. InPlace(s.action)'
  <2>1. PICK i : i = s.action
    OBVIOUS
  <2>2. InPlace(i)'
    BY <1>1, <2>1 DEF Settles
  <2> QED
    BY <2>1, <2>2
<1> QED
  BY <1>1, <1>2, NamesNext

\* The rows tell as long as they stay, and the open ones stay open or all are closed.
LEMMA RowsKept ==
  ASSUME JobsAssumption, JobsInv, UNCHANGED <<plan, preview>>, Settles, RowsTell,
         \A s \in DOMAIN journal : Executable(journal[s]) =>
           /\ s \in DOMAIN journal' /\ Executable(journal'[s])
           /\ journal'[s].path = journal[s].path /\ journal'[s].source = journal[s].source
           /\ journal'[s].after = journal[s].after,
         Uncertain' # {} => Uncertain # {} /\ Uncertain \subseteq Uncertain'
  PROVE  RowsTell'
<1> SUFFICES ASSUME NEW p \in Changed'
             PROVE  \E s \in DOMAIN journal' :
                      /\ Executable(journal'[s])
                      /\ p \in {journal'[s].path, journal'[s].source} /\ file'[journal'[s].path] = journal'[s].after
                      /\ Uncertain' # {} => s \in Uncertain'
  BY DEF RowsTell, Names, Executable
<1>1. PICK s \in DOMAIN journal : Executable(journal[s]) /\ Names(p, journal[s]) /\ (Uncertain # {} => s \in Uncertain)
  BY DEF RowsTell, Settles
<1>2. Fits(journal[s])
  BY <1>1 DEF JobsInv, FitInv
<1>3. PICK row : row = journal[s]
  OBVIOUS
<1>4. p \in {row.path, row.source} /\ file'[row.path] = row.after
  BY <1>1, <1>2, <1>3, NamesKept DEF JobsInv
<1> QED
  BY <1>1, <1>3, <1>4

\* The rows of the steps that are done tell.
LEMMA StepsRows ==
  TypeInv /\ RecordInv /\ FitInv /\ JournalInv /\ "raced" \notin blur /\ StepsShow
    /\ pc \in ExecSteps \ {"finish_rolled_back", "finish_rollback_failed"} => RowsTell
<1> SUFFICES ASSUME TypeInv, RecordInv, FitInv, JournalInv, "raced" \notin blur, StepsShow,
                    pc \in ExecSteps \ {"finish_rolled_back", "finish_rollback_failed"}, NEW p \in Changed
             PROVE  \E s \in DOMAIN journal :
                      Executable(journal[s]) /\ Names(p, journal[s]) /\ (Uncertain # {} => s \in Uncertain)
  BY DEF RowsTell
<1>1. PICK n \in DOMAIN applied : p \in Ends(ops[n].action) /\ InPlace(ops[n].action)
  BY DEF StepsShow
<1>2. n \in Journaled
  BY JournaledIs DEF TypeInv, ThreadTypes
<1>3. Rowed(n)
  BY <1>2, JournalIs DEF StepsRowed
<1>4. /\ n - 1 \in DOMAIN journal /\ Executable(journal[n - 1]) /\ journal[n - 1].action = ops[n].action
      /\ journal[n - 1].state # "rolled_back" /\ journal[n - 1] \in Row
  BY <1>3 DEF Rowed, TypeInv, JournalTypes
<1>5. Fits(journal[n - 1])
  BY <1>4 DEF FitInv
<1>6. Names(p, journal[n - 1])
  BY <1>1, <1>4, <1>5, NamesIs, JobsAssumption
<1>7. n - 1 \in Uncertain
  BY <1>4 DEF Uncertain, Row
<1> QED
  BY <1>4, <1>6, <1>7

\* Where nothing is changed there is nothing to tell.
LEMMA NothingTold == Changed = {} => Told
BY DEF Told, RowsTell, StepsTell, StepsShow, TodoTells

\* The steps that are done still show.
LEMMA ShowKept ==
  ASSUME JobsAssumption, JobsInv, UNCHANGED <<plan, preview, ops, applied>>, Settles, StepsShow
  PROVE  StepsShow'
<1> SUFFICES ASSUME NEW p \in Changed'
             PROVE  \E n \in DOMAIN applied' : p \in Ends(ops[n].action)' /\ InPlace(ops[n].action)'
  BY DEF StepsShow
<1>1. PICK n \in DOMAIN applied : p \in Ends(ops[n].action) /\ InPlace(ops[n].action)
  BY DEF StepsShow, Settles
<1>2. ops[n].action \in DOMAIN plan
  BY DEF JobsInv, TypeInv, ThreadTypes, FitInv, Fits
<1>3. PICK i : i = ops[n].action
  OBVIOUS
<1>4. i = ops'[n].action /\ InPlace(i)' /\ Ends(i)' = Ends(i)
  BY <1>1, <1>2, <1>3, PlanKept DEF Settles
<1>5. p \in Ends(ops[n].action)' /\ InPlace(ops[n].action)'
  BY <1>1, <1>3, <1>4
<1> QED
  BY <1>5

\* What a recovery has still to restore.
LEMMA TodoKept ==
  ASSUME JobsAssumption, JobsInv, UNCHANGED <<plan, preview, rtodo>>, Settles, TodoTells, rpc' \in {"restore", "audit"} => rpc' = rpc
  PROVE  TodoTells'
<1>1. ASSUME NEW p \in Changed', NEW n \in DOMAIN rtodo, Names(p, rtodo[n])
      PROVE  p \in {rtodo'[n].path, rtodo'[n].source} /\ file'[rtodo'[n].path] = rtodo'[n].after
  <2>1. Fits(rtodo[n])
    BY DEF JobsInv, FitInv
  <2>2. PICK s : s = rtodo[n]
    OBVIOUS
  <2>3. p \in {s.path, s.source} /\ file'[s.path] = s.after
    BY <1>1, <2>1, <2>2, NamesKept DEF JobsInv
  <2> QED
    BY <2>2, <2>3
<1>2. Changed' \subseteq Changed
  BY DEF Settles
<1>3. CASE rpc' = "restore"
  BY <1>1, <1>2, <1>3 DEF TodoTells, Names
<1>4. CASE rpc' = "audit"
  BY <1>1, <1>2, <1>4 DEF TodoTells, Names
<1>5. CASE rpc' \notin {"restore", "audit"}
  BY <1>5 DEF TodoTells
<1> QED
  BY <1>3, <1>4, <1>5

\* A step that leaves the journal and the lists alone.
LEMMA ToldFrame ==
  ASSUME JobsAssumption, JobsInv, Told, Settles, UNCHANGED <<plan, preview, journal, ops, applied, rtodo>>,
         pc' \in Forward \cup {"rollback"} => pc \in Forward \cup {"rollback"},
         rpc' \in {"restore", "audit"} => rpc' = rpc,
         Clean' => Clean
  PROVE  Told'
<1>1. Uncertain' = Uncertain
  BY DEF Uncertain, Executable
<1>2. RowsTell'
  BY <1>1, RowsKept DEF Told
<1>3. StepsTell'
  BY ShowKept DEF Told, StepsTell
<1>4. TodoTells'
  BY TodoKept DEF Told
<1>5. Clean' => Changed' = {}
  BY DEF Told, Settles
<1> QED
  BY <1>2, <1>3, <1>4, <1>5 DEF Told

\* A step after which nothing has changed leaves it told.
LEMMA NothingNext == Changed' = {} => Told'
<1>1. (Changed = {} => Told)'
  BY NothingTold, PTL
<1> QED
  BY <1>1

\* A step after which the steps show leaves the rows telling.
LEMMA StepsRowsNext ==
  (TypeInv /\ RecordInv /\ FitInv /\ JournalInv /\ "raced" \notin blur /\ StepsShow
    /\ pc \in ExecSteps \ {"finish_rolled_back", "finish_rollback_failed"} => RowsTell)'
BY StepsRows, PTL

\* While an accept is on its way its steps tell.
LEMMA ShowTold ==
  ASSUME JobsAssumption, JobsInv, [Next]_vars, "raced" \notin blur', StepsShow',
         pc' \in ExecSteps \ {"finish_rolled_back", "finish_rollback_failed"},
         pc' \in {"mark_pending", "mark_rolled_back"} => applied' = <<>>
  PROVE  Told'
<1>1. TypeInv' /\ RecordInv' /\ FitInv' /\ JournalInv' /\ StatusInv'
  BY TypeStep, RecordStep, FitStep, JournalStep, StatusStep
<1>2. RowsTell'
  BY <1>1, StepsRowsNext
<1>3. rpc' = "idle" /\ db'.status = "executing" /\ pc' # "idle"
  BY <1>1 DEF StatusInv, ExecSteps, Forward
<1>4. StepsTell' /\ TodoTells'
  BY <1>3 DEF StepsTell, TodoTells
<1>5. ASSUME Clean'
      PROVE  Changed' = {}
  <2>1. applied' = <<>>
    BY <1>3, <1>5 DEF Clean
  <2> QED
    BY <2>1 DEF StepsShow
<1> QED
  BY <1>2, <1>4, <1>5 DEF Told

\* The next step takes effect, or nothing of it does.
LEMMA ToldApply ==
  ASSUME JobsAssumption, JobsInv, [Next]_vars, Told, Plain', ExecApply
  PROVE  Told'
<1> DEFINE s == ops[NextStep]
           i == s.action
<1>1. /\ Rules /\ UNCHANGED <<plan, preview, ops>> /\ Grows /\ NextStep \in DOMAIN ops /\ Fits(s) /\ Forth(i)
      /\ pc = "apply" /\ i \in DOMAIN plan /\ "raced" \notin blur'
  BY ExecApplyIs DEF ExecApply, Fits, Plain
<1>2. StepsShow
  BY <1>1 DEF Told, StepsTell, Forward
<1>3. applied \in Seq(Content) /\ NextStep = Len(applied) + 1
  BY DEF JobsInv, TypeInv, ThreadTypes, NextStep
<1>4. \/ applied' = applied /\ pc' = AfterFailure /\ Same
      \/ \E c \in Content : /\ applied' = Append(applied, c)
                            /\ pc' = IF NextStep = Len(ops) THEN "mark_applied" ELSE "journal"
                            /\ \A p \in Ends(i) \ touched' : file'[p] = Effect(i, p)
  <2>1. ~ (blur' = blur \cup {"torn"})
    BY DEF Plain
  <2> QED
    BY <2>1, ExecApplyIs
<1> HIDE DEF i, s
<1>5. CASE applied' = applied /\ pc' = AfterFailure /\ Same
  <2>1. Settles
    BY <1>1, <1>5, SettlesIs DEF Rules
  <2>2. StepsShow'
    BY <1>1, <1>2, <1>5, <2>1, ShowKept
  <2> QED
    BY <1>1, <1>5, <2>2, ShowTold DEF AfterFailure, ExecSteps
<1>6. ASSUME NEW c \in Content, applied' = Append(applied, c),
             pc' = IF NextStep = Len(ops) THEN "mark_applied" ELSE "journal",
             \A p \in Ends(i) \ touched' : file'[p] = Effect(i, p)
      PROVE  Told'
  <2>1. /\ DOMAIN applied' = 1 .. (Len(applied) + 1) /\ DOMAIN applied \subseteq DOMAIN applied'
        /\ Len(applied) + 1 \in DOMAIN applied'
    BY <1>3, <1>6, MoreIs
  <2>2. \A j : Ends(j)' = Ends(j) /\ PathOf(j)' = PathOf(j) /\ AfterOf(j)' = AfterOf(j)
    BY <1>1, PlanKept
  <2>3. ASSUME NEW p \in Changed'
        PROVE  \E n \in DOMAIN applied' : p \in Ends(ops[n].action)' /\ InPlace(ops[n].action)'
    <3>1. /\ p \in Changed \/ p \in Ends(i)
          /\ p \in Ends(i) => PathOf(i) \notin touched'
      <4>1. PathOf(i) \in Ends(i)
        BY <1>1, PlanIs DEF Rules
      <4> QED
        BY <1>1, <4>1, ChangedAfter
    <3>2. CASE p \in Ends(i)
      <4>1. file'[PathOf(i)] = AfterOf(i)
        <5>1. PathOf(i) \in Ends(i)
          BY <1>1, PlanIs DEF Rules
        <5> QED
          BY <1>6, <3>1, <3>2, <5>1 DEF Effect
      <4>2. PICK j : j = i
        OBVIOUS
      <4>3. p \in Ends(j)' /\ InPlace(j)'
        BY <2>2, <3>2, <4>1, <4>2 DEF InPlace
      <4>4. ops'[Len(applied) + 1].action = j
        BY <1>1, <1>3, <4>2 DEF i, s
      <4>5. PICK n : n = Len(applied) + 1
        OBVIOUS
      <4>6. p \in Ends(ops[n].action)' /\ InPlace(ops[n].action)'
        BY <4>3, <4>4, <4>5
      <4> QED
        BY <2>1, <4>5, <4>6
    <3>3. CASE p \in Changed
      <4>1. PICK n \in DOMAIN applied : p \in Ends(ops[n].action) /\ InPlace(ops[n].action)
        BY <1>2, <3>3 DEF StepsShow
      <4>2. PICK j : j = ops[n].action
        OBVIOUS
      <4>3. j \in DOMAIN plan
        BY <4>2 DEF JobsInv, TypeInv, ThreadTypes, FitInv, Fits
      <4>4. InPlace(j)' /\ p \in Ends(j)'
        BY <1>1, <2>2, <2>3, <4>1, <4>2, <4>3, PlaceKept
      <4>5. ops'[n].action = j
        BY <1>1, <4>2
      <4>6. p \in Ends(ops[n].action)' /\ InPlace(ops[n].action)'
        BY <4>4, <4>5
      <4> QED
        BY <2>1, <4>6
    <3> QED
      BY <3>1, <3>2, <3>3
  <2>4. StepsShow'
    BY <2>3 DEF StepsShow
  <2> QED
    BY <1>1, <1>6, <2>4, ShowTold DEF ExecSteps, Forward
<1> QED
  BY <1>4, <1>5, <1>6

\* The last step that is done goes back, or it does not.
LEMMA ToldRollback ==
  ASSUME JobsAssumption, JobsInv, [Next]_vars, Told, Plain', ExecRollback
  PROVE  Told'
<1> DEFINE n == Len(applied)
           s == ops[n]
           i == s.action
<1>1. /\ Rules /\ UNCHANGED <<plan, preview, ops>> /\ Grows /\ n \in DOMAIN applied /\ n \in DOMAIN ops /\ Fits(s) /\ Back(i)
      /\ pc = "rollback" /\ i \in DOMAIN plan /\ "raced" \notin blur'
      /\ \/ /\ applied' = SubSeq(applied, 1, n - 1)
            /\ pc' = IF n = 1 THEN "mark_rolled_back" ELSE "rollback"
            /\ \A p \in Ends(i) \ touched' : file'[p] = preview[p]
         \/ applied' = applied /\ pc' = "mark_rollback_failed"
  BY ExecRollbackIs DEF ExecRollback, Fits, Plain
<1>2. StepsShow
  BY <1>1 DEF Told, StepsTell
<1>3. applied \in Seq(Content) /\ applied # <<>>
  BY <1>1 DEF JobsInv, TypeInv, ThreadTypes, StageInv
<1> HIDE DEF i, s
<1>4. Settles
  BY <1>1, SettlesIs DEF Rules
<1>5. CASE applied' = applied /\ pc' = "mark_rollback_failed"
  <2>1. StepsShow'
    BY <1>1, <1>2, <1>4, <1>5, ShowKept
  <2> QED
    BY <1>1, <1>5, <2>1, ShowTold DEF ExecSteps
<1>6. CASE /\ applied' = SubSeq(applied, 1, n - 1)
           /\ pc' = IF n = 1 THEN "mark_rolled_back" ELSE "rollback"
           /\ \A p \in Ends(i) \ touched' : file'[p] = preview[p]
  <2>1. applied' \in Seq(Content) /\ Len(applied') = n - 1 /\ DOMAIN applied' = 1 .. (n - 1) /\ n \in Nat /\ DOMAIN applied = 1 .. n
    BY <1>3, <1>6, CutIs
  <2>2. (\A p \in Changed : /\ p \in Paths /\ p \notin touched /\ file[p] # preview[p]
                            /\ \A j \in DOMAIN plan : p \in Ends(j) => \A q \in Ends(j) : q \notin touched)'
    BY ChangedNext
  <2>3. ASSUME NEW p \in Changed'
        PROVE  \E m \in DOMAIN applied' : p \in Ends(ops[m].action)' /\ InPlace(ops[m].action)'
    <3>1. PICK m \in DOMAIN applied : p \in Ends(ops[m].action) /\ InPlace(ops[m].action)
      BY <1>2, <1>4 DEF StepsShow, Settles
    <3>2. p \notin Ends(i)
      BY <1>1, <1>6, <2>2
    <3>3. m # n
      BY <3>1, <3>2 DEF i, s
    <3>4. PICK j : j = ops[m].action
      OBVIOUS
    <3>5. j \in DOMAIN plan
      BY <3>1, <3>4 DEF JobsInv, TypeInv, ThreadTypes, FitInv, Fits
    <3>6. InPlace(j)' /\ Ends(j)' = Ends(j)
      BY <1>1, <1>4, <3>1, <3>4, <3>5, PlanKept DEF Settles
    <3>7. ops'[m].action = j
      BY <1>1, <3>4
    <3>8. p \in Ends(ops[m].action)' /\ InPlace(ops[m].action)'
      BY <3>1, <3>4, <3>6, <3>7
    <3>9. m \in DOMAIN applied'
      BY <2>1, <3>3
    <3> QED
      BY <3>8, <3>9
  <2>4. StepsShow'
    BY <2>3 DEF StepsShow
  <2>5. n = 1 => applied' = <<>>
    BY <2>1
  <2> QED
    BY <1>1, <1>6, <2>4, <2>5, ShowTold DEF ExecSteps
<1> QED
  BY <1>1, <1>5, <1>6
\* A row that is put after the others, and is not executable, hides none.
LEMMA PutKept ==
  ASSUME JobsAssumption, JobsInv, UNCHANGED <<plan, preview>>, Settles, RowsTell,
         NEW m \in Nat, NEW row \in Row, ~Executable(row), Put(m, row), \A s \in DOMAIN journal : s < m
  PROVE  RowsTell'
<1>1. JournalTypes
  BY DEF JobsInv, TypeInv
<1>2. /\ DOMAIN journal' = DOMAIN journal \cup {m} /\ journal'[m] = row
      /\ \A t \in DOMAIN journal : journal'[t] = journal[t]
  <2>1. m \notin DOMAIN journal
    OBVIOUS
  <2> QED
    BY <1>1, <2>1, PutIs
<1>3. Uncertain' = Uncertain
  BY <1>2 DEF Uncertain, Executable
<1>4. \A s \in DOMAIN journal : Executable(journal[s]) =>
        /\ s \in DOMAIN journal' /\ Executable(journal'[s])
        /\ journal'[s].path = journal[s].path /\ journal'[s].source = journal[s].source
        /\ journal'[s].after = journal[s].after
  BY <1>2
<1> QED
  BY <1>3, <1>4, RowsKept

\* Rows that are closed together tell.
LEMMA MarkKept ==
  ASSUME JobsAssumption, JobsInv, UNCHANGED <<plan, preview>>, Settles, RowsTell, MarkJournal("rolled_back")
  PROVE  RowsTell'
<1>1. JournalTypes
  BY DEF JobsInv, TypeInv
<1>2. /\ DOMAIN journal' = DOMAIN journal
      /\ \A s \in DOMAIN journal :
           /\ journal'[s].op = journal[s].op /\ journal'[s].path = journal[s].path
           /\ journal'[s].source = journal[s].source /\ journal'[s].after = journal[s].after
           /\ journal'[s].state = "rolled_back"
  BY <1>1, MarkIs
<1>3. Uncertain' = {}
  BY <1>2 DEF Uncertain
<1>4. \A s \in DOMAIN journal : Executable(journal[s]) =>
        /\ s \in DOMAIN journal' /\ Executable(journal'[s])
        /\ journal'[s].path = journal[s].path /\ journal'[s].source = journal[s].source
        /\ journal'[s].after = journal[s].after
  BY <1>2 DEF Executable
<1> QED
  BY <1>3, <1>4, RowsKept

\* A step of the executor.
LEMMA ToldExec ==
  ASSUME JobsAssumption, JobsInv, [Next]_vars, Told, Plain',
         ExecJournal \/ ExecJournalFails \/ ExecApply \/ ExecMarkApplied \/ ExecMarkPending \/ ExecRollback
         \/ ExecMarkRolledBack \/ ExecMarkRollbackFailed
  PROVE  Told'
<1>1. "raced" \notin blur' /\ "raced" \notin blur /\ TypeInv /\ StatusInv
  BY BlurGrows DEF Plain, JobsInv
<1>2. CASE ExecApply
  BY <1>2, ToldApply
<1>3. CASE ExecRollback
  BY <1>3, ToldRollback
<1>4. CASE ~ExecApply /\ ~ExecRollback
  <2>1. /\ pc \in ExecSteps /\ pc # "apply" /\ UNCHANGED <<plan, preview, ops, applied>>
    BY <1>4 DEF ExecJournal, ExecJournalFails, ExecMarkApplied, ExecMarkPending, ExecMarkRolledBack,
                ExecMarkRollbackFailed, ExecMark, Goto, SameRecord, ExecSteps, Forward
  <2>2. db # NoRecord
    BY <2>1, WorkIsAllowed DEF ExecSteps, Forward
  <2>3. Settles
    BY <2>1, <2>2, SettlesStep
  <2>4. CASE ExecJournal \/ ExecJournalFails \/ ExecMarkApplied
    <3>1. /\ pc \in {"journal", "mark_applied"} /\ pc' \in {"apply", "commit", AfterFailure}
      BY <2>4 DEF ExecJournal, ExecJournalFails, ExecMarkApplied, ExecMark, Goto
    <3>2. StepsShow'
      BY <2>1, <2>3, <3>1, ShowKept DEF Told, StepsTell, Forward
    <3> QED
      BY <1>1, <2>1, <3>1, <3>2, ShowTold DEF AfterFailure, ExecSteps, Forward
  <2>5. CASE ExecMarkPending \/ ExecMarkRolledBack
    <3>1. Clean
      BY <2>5 DEF ExecMarkPending, ExecMarkRolledBack, ExecMark, Clean
    <3>2. Changed' = {}
      BY <2>3, <3>1 DEF Told, Settles
    <3> QED
      BY <3>2, NothingNext
  <2>6. CASE ExecMarkRollbackFailed
    <3>1. MarkJournal("rolled_back") /\ pc' = "finish_rollback_failed" /\ UNCHANGED <<rpc, db>>
      BY <2>6 DEF ExecMarkRollbackFailed, ExecMark, Goto, SameRecord, recVars, recoveryVars
    <3>2. RowsTell'
      BY <2>1, <2>3, <3>1, MarkKept DEF Told
    <3>3. rpc = "idle" /\ db.status = "executing"
      BY <1>1, <2>1 DEF StatusInv, ExecSteps, Forward
    <3> QED
      BY <3>1, <3>2, <3>3 DEF Told, StepsTell, TodoTells, Clean, Forward
  <2> QED
    BY <1>4, <2>4, <2>5, <2>6
<1> QED
  BY <1>2, <1>3, <1>4

\* A step of an undo.
LEMMA ToldUndo ==
  ASSUME JobsAssumption, JobsInv, [Next]_vars, Told, Plain', UndoRestore \/ UndoAudit
  PROVE  Told'
<1>1. "raced" \notin blur' /\ "raced" \notin blur /\ TypeInv /\ StatusInv /\ SeqsLast
  BY BlurGrows, JournalIs DEF Plain, JobsInv
<1>2. /\ pc \in UndoSteps /\ UNCHANGED <<plan, preview, db, cache, rpc, rtodo, ops, applied>>
      /\ pc' \in UndoSteps \cup {"idle"}
  BY DEF UndoRestore, UndoAudit, UndoSteps, SameRecord, recVars, recoveryVars
<1>3. /\ rpc = "idle" /\ db.status = "committed" /\ cache.status = "committed" /\ db # NoRecord /\ pc # "apply" /\ pc # "idle"
      /\ pc' \notin Forward \cup {"rollback"}
  BY <1>1, <1>2, WorkIsAllowed DEF StatusInv, UndoSteps, Forward
<1>4. Settles
  BY <1>2, <1>3, SettlesStep
<1>5. ~Clean'
  BY <1>2, <1>3 DEF Clean, Loaded, NoRecord, UndoSteps
<1>6. CASE UndoRestore
  <2>1. UNCHANGED journal
    BY <1>6 DEF UndoRestore
  <2> QED
    BY <1>2, <1>3, <1>4, <1>5, <2>1, ToldFrame
<1>7. CASE UndoAudit
  <2>1. PICK m, row : m = seq /\ row = AuditRow(Head(todo))
    OBVIOUS
  <2>2. Put(m, row) /\ row \in Row /\ ~Executable(row) /\ m \in Nat
    BY <1>7, <2>1, JournalPut
  <2>3. \A s \in DOMAIN journal : s < m
    BY <1>1, <1>2, <2>1 DEF SeqsLast
  <2>4. RowsTell'
    BY <1>2, <1>4, <2>2, <2>3, PutKept DEF Told
  <2> QED
    BY <1>2, <1>3, <1>5, <2>4 DEF Told, StepsTell, TodoTells
<1> QED
  BY <1>6, <1>7

\* A step of a recovery.
LEMMA ToldRecover ==
  ASSUME JobsAssumption, JobsInv, [Next]_vars, Told, Plain', RecoverRestore \/ RecoverAudit \/ RecoverMark
  PROVE  Told'
<1>1. "raced" \notin blur' /\ "raced" \notin blur /\ TypeInv /\ StatusInv /\ SeqsLast
  BY BlurGrows, JournalIs DEF Plain, JobsInv
<1>2. rpc # "idle" /\ UNCHANGED <<plan, preview, db, cache, pc, ops, applied>>
  BY DEF RecoverRestore, RecoverAudit, RecoverMark, SameRecord, recVars, lockVars
<1>3. pc = "idle" /\ db # NoRecord /\ Rules
  BY <1>1, <1>2, WorkIsAllowed DEF StatusInv
<1>4. Settles
  BY <1>2, <1>3, SettlesStep
<1>5. StepsTell'
  BY <1>2, <1>3 DEF StepsTell, Forward
<1>6. CASE RecoverRestore
  <2> DEFINE s == Head(rtodo)
  <2>1. /\ rpc = "restore" /\ UNCHANGED <<rtodo, journal>> /\ 1 \in DOMAIN rtodo /\ s = rtodo[1] /\ Fits(s)
        /\ \/ rpc' = "audit" /\ \A p \in Ends(s.action) \ touched' : file'[p] = preview[p]
           \/ rpc' = "mark_failed"
    BY <1>6, RecoverRestoreIs DEF RecoverRestore
  <2> HIDE DEF s
  <2>2. Uncertain' = Uncertain
    BY <2>1 DEF Uncertain, Executable
  <2>3. RowsTell'
    BY <1>2, <1>4, <2>1, <2>2, RowsKept DEF Told
  <2>4. Clean' => Clean
    BY <1>2, <2>1 DEF Clean, Loaded
  <2>5. Clean' => Changed' = {}
    BY <1>4, <2>4 DEF Told, Settles
  <2>6. TodoTells'
    <3>1. CASE rpc' = "mark_failed"
      BY <3>1 DEF TodoTells
    <3>2. CASE rpc' = "audit" /\ \A p \in Ends(s.action) \ touched' : file'[p] = preview[p]
      <4>1. (\A p \in Changed : /\ p \in Paths /\ p \notin touched /\ file[p] # preview[p]
                                /\ \A j \in DOMAIN plan : p \in Ends(j) => \A q \in Ends(j) : q \notin touched)'
        BY ChangedNext
      <4>2. ASSUME NEW p \in Changed'
            PROVE  \E n \in DOMAIN rtodo' : n # 1 /\ p \in {rtodo'[n].path, rtodo'[n].source}
                                            /\ file'[rtodo'[n].path] = rtodo'[n].after
        <5>1. PICK n \in DOMAIN rtodo : Names(p, rtodo[n])
          BY <1>4, <2>1 DEF Told, TodoTells, Settles
        <5>2. PICK t : t = rtodo[n]
          OBVIOUS
        <5>3. Fits(t)
          BY <5>2 DEF JobsInv, FitInv
        <5>4. p \in Ends(t.action) /\ p \in {t.path, t.source} /\ file'[t.path] = t.after
          BY <1>2, <1>4, <5>1, <5>2, <5>3, NamesKept DEF JobsInv
        <5>5. p \notin Ends(s.action)
          BY <1>2, <3>2, <4>1, <4>2
        <5>6. n # 1
          BY <2>1, <5>2, <5>4, <5>5
        <5> QED
          BY <2>1, <5>2, <5>4, <5>6
      <4> QED
        BY <3>2, <4>2 DEF TodoTells, Names
    <3> QED
      BY <2>1, <3>1, <3>2
  <2> QED
    BY <1>5, <2>3, <2>5, <2>6 DEF Told
<1>7. CASE RecoverAudit
  <2>1. PICK m, row : m = rseq /\ row = AuditRow(Head(rtodo))
    OBVIOUS
  <2>2. /\ Put(m, row) /\ row \in Row /\ ~Executable(row) /\ m \in Nat /\ rpc = "audit"
        /\ rpc' = (IF Tail(rtodo) = <<>> THEN "mark" ELSE "restore")
        /\ rtodo \in Seq(Row) /\ rtodo # <<>> /\ rtodo' = Tail(rtodo)
    BY <1>7, <2>1, JournalPut
  <2>3. \A s \in DOMAIN journal : s < m
    BY <1>1, <2>1, <2>2 DEF SeqsLast
  <2>4. RowsTell'
    BY <1>2, <1>4, <2>2, <2>3, PutKept DEF Told
  <2>5. \A n \in DOMAIN rtodo : n # 1 => n - 1 \in DOMAIN Tail(rtodo) /\ Tail(rtodo)[n - 1] = rtodo[n]
    BY <2>2, TodoIs
  <2>6. ASSUME NEW p \in Changed'
        PROVE  \E n \in DOMAIN rtodo' : p \in {rtodo'[n].path, rtodo'[n].source} /\ file'[rtodo'[n].path] = rtodo'[n].after
    <3>1. PICK n \in DOMAIN rtodo : n # 1 /\ Names(p, rtodo[n])
      BY <1>4, <2>2 DEF Told, TodoTells, Settles
    <3>2. PICK t : t = rtodo[n]
      OBVIOUS
    <3>3. Fits(t)
      BY <3>2 DEF JobsInv, FitInv
    <3>4. p \in {t.path, t.source} /\ file'[t.path] = t.after
      BY <1>2, <1>4, <3>1, <3>2, <3>3, NamesKept DEF JobsInv
    <3> QED
      BY <2>2, <2>5, <3>1, <3>2, <3>4
  <2>7. CASE Tail(rtodo) = <<>>
    <3>1. Changed' = {}
      BY <2>2, <2>6, <2>7
    <3> QED
      BY <3>1, NothingNext
  <2>8. CASE Tail(rtodo) # <<>>
    <3>1. TodoTells'
      BY <2>2, <2>6, <2>8 DEF TodoTells, Names
    <3>2. Clean' => Clean
      BY <1>2, <2>2, <2>8 DEF Clean, Loaded
    <3>3. Clean' => Changed' = {}
      BY <1>4, <3>2 DEF Told, Settles
    <3> QED
      BY <1>5, <2>4, <3>1, <3>3 DEF Told
  <2> QED
    BY <2>7, <2>8
<1>8. CASE RecoverMark
  <2>1. MarkJournal("rolled_back") /\ rpc \in {"mark", "mark_failed"} /\ rpc' = IF rpc = "mark" THEN "finish" ELSE "idle"
    BY <1>8 DEF RecoverMark
  <2>2. CASE rpc = "mark"
    <3>1. Changed' = {}
      BY <1>4, <2>2 DEF Told, Clean, Settles
    <3> QED
      BY <3>1, NothingNext
  <2>3. CASE rpc = "mark_failed"
    <3>1. RowsTell'
      BY <1>2, <1>4, <2>1, MarkKept DEF Told
    <3>2. rpc' = "idle"
      BY <2>1, <2>3
    <3>3. Clean' => Clean
      BY <1>2, <3>2 DEF Clean, Loaded
    <3>4. Clean' => Changed' = {}
      BY <1>4, <3>3 DEF Told, Settles
    <3> QED
      BY <1>5, <3>1, <3>2, <3>4 DEF Told, TodoTells
  <2> QED
    BY <2>1, <2>2, <2>3
<1> QED
  BY <1>6, <1>7, <1>8
\* Only a commit adds to the executed actions.
LEMMA ExecutedGrows ==
  ASSUME JobsAssumption, JobsInv, [Next]_vars
  PROVE  db.executed \subseteq db'.executed /\ (ExecCommit \/ db'.executed = db.executed)
<1>1. CASE ThreadStep
  BY <1>1, ThreadStepIs
<1>2. CASE Editing
  BY <1>2, EditorIs DEF Editing, recVars
<1>3. CASE UNCHANGED vars
  BY <1>3 DEF vars
<1>4. CASE Other
  <2>1. CASE \E acts \in Plans : Plan(acts)
    <3>1. db.executed = {}
      BY <2>1 DEF Plan, NoRecord
    <3> QED
      BY <2>1, <3>1, PlanTypes
  <2>2. CASE \E sel \in (SUBSET (DOMAIN plan)) \ {{}} : Accept(sel)
    BY <2>2, AcceptIs
  <2>3. CASE Reject
    BY <2>3, RejectIs
  <2>4. CASE Load
    BY <2>4 DEF Load
  <2>5. CASE ExecCommit \/ ExecFinish("finish_rolled_back", "rolled_back")
             \/ ExecFinish("finish_rollback_failed", "rollback_failed") \/ UndoFinish
    BY <2>5, EndIs
  <2>6. CASE Undo
    BY <2>6, UndoIs
  <2>7. CASE Recover
    BY <2>7, RecoverIs
  <2>8. CASE RecoverFinish
    BY <2>8, RecoverFinishIs
  <2>9. CASE CrashAndRestart
    BY <2>9, CrashRecord
  <2> QED
    BY <1>4, <2>1, <2>2, <2>3, <2>4, <2>5, <2>6, <2>7, <2>8, <2>9, Zenon DEF Other
<1> QED
  BY <1>1, <1>2, <1>3, <1>4, StepsAre

\* The end of an accept.
LEMMA ToldEnd ==
  ASSUME JobsAssumption, JobsInv, [Next]_vars, Told, Plain', db'.executed = {},
         ExecCommit \/ ExecFinish("finish_rolled_back", "rolled_back")
         \/ ExecFinish("finish_rollback_failed", "rollback_failed") \/ UndoFinish
  PROVE  Told'
<1>1. /\ "raced" \notin blur' /\ "raced" \notin blur /\ TypeInv /\ StatusInv
  BY BlurGrows DEF Plain, JobsInv
<1>2. /\ pc' = "idle" /\ UNCHANGED <<fileVars, plan, preview, journal, rpc, rtodo>> /\ cache' = db'
      /\ pc \in {"commit", "finish_rolled_back", "finish_rollback_failed", "undo_finish"}
  BY SaveIs DEF fileVars, ExecCommit, ExecFinish, UndoFinish
<1>3. rpc = "idle" /\ db # NoRecord
  BY <1>1, <1>2, WorkIsAllowed DEF StatusInv
<1>4. Settles
  BY <1>2, <1>3, SettlesStep
<1>5. ASSUME Changed = {}
      PROVE  Told'
  <2>1. Changed' = {}
    BY <1>4, <1>5 DEF Settles
  <2> QED
    BY <2>1, NothingNext
<1>6. CASE ExecCommit
  <2>1. pc = "commit" /\ Selected = {}
    BY <1>6, EndIs
  <2>2. DOMAIN applied = {}
    <3>1. DOMAIN ops = {}
      BY <2>1 DEF Selected
    <3>2. DOMAIN applied = DOMAIN ops
      BY <1>1, <2>1 DEF TypeInv, ThreadTypes, StageInv
    <3> QED
      BY <3>1, <3>2
  <2>3. Changed = {}
    BY <2>1, <2>2 DEF Told, StepsTell, StepsShow, Forward
  <2> QED
    BY <1>5, <2>3
<1>7. CASE ExecFinish("finish_rolled_back", "rolled_back")
  <2>1. Clean
    BY <1>7 DEF ExecFinish, Clean
  <2> QED
    BY <1>5, <2>1 DEF Told
<1>8. CASE ExecFinish("finish_rollback_failed", "rollback_failed") \/ UndoFinish
  <2>1. db'.status \in {"rollback_failed", "undone"}
    BY <1>8, EndIs
  <2>2. ~Clean'
    BY <1>2, <1>3, <2>1 DEF Clean, Loaded
  <2>3. Uncertain' = Uncertain
    BY <1>2 DEF Uncertain, Executable
  <2>4. RowsTell'
    BY <1>2, <1>4, <2>3, RowsKept DEF Told
  <2> QED
    BY <1>2, <1>3, <2>2, <2>4 DEF Told, StepsTell, TodoTells, Forward
<1> QED
  BY <1>6, <1>7, <1>8

\* The process dies, and the rows tell what it has done.
LEMMA ToldCrash ==
  ASSUME JobsAssumption, JobsInv, [Next]_vars, Told, Plain', CrashAndRestart
  PROVE  Told'
<1>1. /\ "raced" \notin blur' /\ "raced" \notin blur /\ TypeInv /\ StatusInv /\ RecordInv
  BY BlurGrows DEF Plain, JobsInv
<1>2. /\ pc' = "idle" /\ rpc' = "idle" /\ cache' = NoRecord /\ UNCHANGED <<plan, preview, journal>>
      /\ Uncertain' = Uncertain
  BY DEF CrashAndRestart, Uncertain, Executable
<1>3. StepsTell' /\ TodoTells'
  BY <1>2 DEF StepsTell, TodoTells, Forward
<1>4. db'.status = (IF db.status = "executing" THEN "recovery_required" ELSE db.status) /\ (db = NoRecord <=> db' = NoRecord)
  BY CrashRecord
<1>5. CASE db = NoRecord
  <2>1. file' = file /\ Unplanned /\ touched' = touched
    BY <1>1, <1>5, CrashStill DEF RecordInv, Unplanned, fileVars
  <2>2. Changed' = {}
    BY <1>2, <2>1 DEF Changed, Unplanned
  <2> QED
    BY <2>2, NothingNext
<1>6. ASSUME Clean'
      PROVE  Clean /\ pc # "apply"
  <2>1. db'.status \in {"awaiting", "rolled_back"}
    BY <1>2, <1>6 DEF Clean, Loaded, NoRecord
  <2>2. db.status = db'.status
    BY <1>4, <2>1
  <2>3. pc # "apply"
    BY <1>1, <2>1, <2>2 DEF StatusInv, ExecSteps, Forward
  <2>4. db.status = "awaiting" => pc = "idle" /\ Loaded.status = "awaiting"
    BY <1>1 DEF StatusInv, Loaded, RecordInv
  <2> QED
    BY <2>1, <2>2, <2>3, <2>4 DEF Clean
<1>7. CASE db # NoRecord /\ pc # "apply"
  <2>1. Settles
    BY <1>7, SettlesStep
  <2>2. RowsTell'
    BY <1>2, <2>1, RowsKept DEF Told
  <2>3. Clean' => Changed' = {}
    BY <1>6, <2>1 DEF Told, Settles
  <2> QED
    BY <1>3, <2>2, <2>3 DEF Told
<1>8. CASE db # NoRecord /\ pc = "apply"
  <2>1. /\ UNCHANGED <<plan, preview>> /\ Grows
        /\ \/ Same
           \/ Rules /\ \E i \in DOMAIN plan : Back(i)
           \/ LET i == ops[NextStep].action IN
              /\ Rules /\ pc = "apply" /\ NextStep \in DOMAIN ops /\ i \in DOMAIN plan
              /\ Forth(i) /\ file'[PathOf(i)] = AfterOf(i)
    BY CrashIs
  <2>2. ~Clean'
    BY <1>6, <1>8
  <2>3. CASE Same \/ (Rules /\ \E i \in DOMAIN plan : Back(i))
    <3>1. Settles
      BY <1>1, <2>1, <2>3, SettlesIs
    <3>2. RowsTell'
      BY <1>2, <3>1, RowsKept DEF Told
    <3> QED
      BY <1>3, <2>2, <3>2 DEF Told
  <2>4. CASE LET i == ops[NextStep].action IN
             /\ Rules /\ pc = "apply" /\ NextStep \in DOMAIN ops /\ i \in DOMAIN plan
             /\ Forth(i) /\ file'[PathOf(i)] = AfterOf(i)
    <3>1. PICK i : i = ops[NextStep].action
      OBVIOUS
    <3>2. Rules /\ i \in DOMAIN plan /\ Forth(i) /\ file'[PathOf(i)] = AfterOf(i)
      BY <2>4, <3>1
    <3>3. \A j : Ends(j)' = Ends(j) /\ PathOf(j)' = PathOf(j) /\ AfterOf(j)' = AfterOf(j)
      BY <2>1, PlanKept
    <3>4. InPlace(i)'
      BY <3>2, <3>3 DEF InPlace
    <3>5. Len(applied) \in Nat /\ NextStep = Len(applied) + 1 /\ NextStep \in Journaled
      BY <1>1, <1>8, JournaledIs DEF TypeInv, ThreadTypes, NextStep
    <3>6. Rowed(NextStep)
      BY <1>8, <3>5, JournalIs DEF JobsInv, StepsRowed, ExecSteps, Forward
    <3>7. PICK t : t = Len(applied)
      OBVIOUS
    <3>8. /\ t \in DOMAIN journal /\ Executable(journal[t]) /\ journal[t].action = i
          /\ journal[t].state # "rolled_back" /\ journal[t] \in Row
      BY <1>1, <1>8, <3>1, <3>5, <3>6, <3>7 DEF Rowed, TypeInv, JournalTypes
    <3>9. t \in Uncertain /\ Fits(journal[t])
      BY <3>8 DEF Uncertain, Row, JobsInv, FitInv
    <3>10. ASSUME NEW p \in Changed'
           PROVE  \E s \in DOMAIN journal :
                    /\ Executable(journal[s])
                    /\ p \in {journal[s].path, journal[s].source} /\ file'[journal[s].path] = journal[s].after
                    /\ s \in Uncertain
      <4>1. p \in Changed \/ p \in Ends(i)
        BY <2>1, <3>2, <3>10, ChangedAfter
      <4>2. CASE p \in Ends(i)
        <5>1. PICK row : row = journal[t]
          OBVIOUS
        <5>2. Fits(row) /\ row.action = i
          BY <3>8, <3>9, <5>1
        <5>3. p \in {row.path, row.source} /\ file'[row.path] = row.after
          BY <1>1, <2>1, <3>4, <4>2, <5>2, NamesNext
        <5> QED
          BY <3>8, <3>9, <5>1, <5>3
      <4>3. CASE p \in Changed
        <5>1. PICK s \in DOMAIN journal : Executable(journal[s]) /\ Names(p, journal[s]) /\ s \in Uncertain
          BY <3>9, <4>3 DEF Told, RowsTell
        <5>2. PICK row : row = journal[s]
          OBVIOUS
        <5>3. Fits(row) /\ Names(p, row)
          BY <5>1, <5>2 DEF JobsInv, FitInv
        <5>4. row.action \in DOMAIN plan /\ p \in Ends(row.action) /\ InPlace(row.action)
          BY <1>1, <5>3, NamesIs DEF Fits
        <5>5. PICK j : j = row.action
          OBVIOUS
        <5>6. InPlace(j)'
          BY <2>1, <3>2, <3>10, <5>4, <5>5, PlaceKept
        <5>7. p \in {row.path, row.source} /\ file'[row.path] = row.after
          BY <1>1, <2>1, <5>3, <5>4, <5>5, <5>6, NamesNext
        <5> QED
          BY <5>1, <5>2, <5>7
      <4> QED
        BY <4>1, <4>2, <4>3
    <3>11. RowsTell'
      BY <1>2, <3>10 DEF RowsTell, Names, Executable
    <3> QED
      BY <1>3, <2>2, <3>11 DEF Told
  <2> QED
    BY <2>1, <2>3, <2>4
<1> QED
  BY <1>5, <1>7, <1>8

\* A recovery starts.
LEMMA ToldStart ==
  ASSUME JobsAssumption, JobsInv, [Next]_vars, Told, Plain', Recover
  PROVE  Told'
<1>1. /\ "raced" \notin blur' /\ "raced" \notin blur /\ TypeInv /\ StatusInv /\ RecordInv
  BY BlurGrows DEF Plain, JobsInv
<1>2. /\ rpc = "idle" /\ Flagged /\ pc = "idle"
      /\ \A s \in Uncertain : Ours(s) => \E n \in DOMAIN rtodo' : rtodo'[n] = journal[s]
      /\ rpc' \in {"nothing", "mark", "restore"} /\ (rpc' = "nothing" <=> Uncertain = {})
      /\ (rpc' = "mark" => Uncertain # {} /\ rtodo' = <<>>)
      /\ UNCHANGED <<fileVars, db, cache, plan, preview, journal, pc, ops, applied>>
  BY <1>1, RecoverIs
<1>3. db # NoRecord
  BY <1>2 DEF Flagged, NoRecord
<1>4. Settles
  BY <1>2, <1>3, SettlesStep
<1>5. Uncertain' = Uncertain
  BY <1>2 DEF Uncertain, Executable
<1>6. RowsTell' /\ StepsTell'
  BY <1>2, <1>4, <1>5, RowsKept DEF Told, StepsTell, Forward
<1>7. ASSUME NEW p \in Changed', Uncertain # {}
      PROVE  \E n \in DOMAIN rtodo' : p \in {rtodo'[n].path, rtodo'[n].source} /\ file'[rtodo'[n].path] = rtodo'[n].after
  <2>1. PICK s \in DOMAIN journal : Names(p, journal[s]) /\ s \in Uncertain
    BY <1>4, <1>7 DEF Told, RowsTell, Settles
  <2>2. Ours(s) /\ file' = file
    BY <1>2, <2>1 DEF Names, Ours, fileVars
  <2>3. PICK n \in DOMAIN rtodo' : rtodo'[n] = journal[s]
    BY <1>2, <2>1, <2>2
  <2> QED
    BY <2>1, <2>2, <2>3 DEF Names
<1>8. CASE rpc' = "mark"
  <2>1. Changed' = {}
    BY <1>2, <1>7, <1>8
  <2> QED
    BY <2>1, NothingNext
<1>9. CASE rpc' # "mark"
  <2>1. TodoTells'
    BY <1>2, <1>7 DEF TodoTells, Names
  <2>2. Clean' => Clean
    BY <1>2, <1>9 DEF Clean, Loaded
  <2>3. Clean' => Changed' = {}
    BY <1>4, <2>2 DEF Told, Settles
  <2> QED
    BY <1>6, <2>1, <2>3 DEF Told
<1> QED
  BY <1>8, <1>9
\* Every step keeps what the journal tells while nothing is executed.
LEMMA PlainStep ==
  ASSUME JobsAssumption, JobsInv, [Next]_vars
  PROVE  PlainInv'
<1> SUFFICES ASSUME Plain', db'.executed = {}
             PROVE  Told'
  BY DEF PlainInv
<1>1. /\ "raced" \notin blur' /\ "raced" \notin blur /\ TypeInv /\ StatusInv /\ RecordInv
  BY BlurGrows DEF Plain, JobsInv
<1>2. Told
  <2>1. Plain /\ db.executed = {}
    BY BlurGrows, ExecutedGrows DEF Plain
  <2> QED
    BY <2>1 DEF JobsInv, PlainInv
<1>3. CASE ThreadStep
  BY <1>2, <1>3, ToldExec, ToldUndo, ToldRecover DEF ThreadStep
<1>4. CASE Editing
  <2>1. UNCHANGED <<plan, preview, db, cache, journal, pc, rpc, ops, applied, rtodo>> /\ db # NoRecord
    BY <1>4, EditorIs DEF Editing, recVars, lockVars, recoveryVars
  <2>2. Settles
    BY <2>1, SettlesStep
  <2> QED
    BY <1>2, <2>1, <2>2, ToldFrame DEF Clean, Loaded
<1>5. ASSUME UNCHANGED <<fileVars, plan, preview, journal, ops, applied, rtodo>>,
             pc' \in Forward \cup {"rollback"} => pc \in Forward \cup {"rollback"},
             rpc' \in {"restore", "audit"} => rpc' = rpc,
             Clean' => Clean
      PROVE  Told'
  <2>1. Settles
    BY <1>1, <1>5, StillIs, SettlesIs
  <2> QED
    BY <1>2, <1>5, <2>1, ToldFrame
<1>6. CASE UNCHANGED vars
  <2>1. UNCHANGED <<fileVars, plan, preview, journal, ops, applied, rtodo, pc, rpc, db, cache>>
    BY <1>6 DEF vars, fileVars
  <2> QED
    BY <1>5, <2>1 DEF Clean, Loaded
<1>7. ASSUME UNCHANGED <<fileVars, plan, preview>>, Clean
      PROVE  Told'
  <2>1. Settles
    BY <1>1, <1>7, StillIs, SettlesIs
  <2>2. Changed' = {}
    BY <1>2, <1>7, <2>1 DEF Told, Settles
  <2> QED
    BY <2>2, NothingNext
<1>8. CASE Other
  <2>1. CASE \E acts \in Plans : Plan(acts)
    <3>1. UNCHANGED <<file, touched>> /\ preview' = file
      BY <2>1, PlanTypes DEF fileVars
    <3>2. Changed' = {}
      BY <3>1 DEF Changed
    <3> QED
      BY <3>2, NothingNext
  <2>2. CASE \E sel \in (SUBSET (DOMAIN plan)) \ {{}} : Accept(sel)
    BY <1>7, <2>2, AcceptIs DEF Clean
  <2>3. CASE Reject
    BY <1>7, <2>3, RejectIs DEF Clean
  <2>4. CASE Load
    <3>1. UNCHANGED <<fileVars, plan, preview, journal, ops, applied, rtodo, pc, rpc, db>> /\ Loaded' = Loaded
      BY <2>4 DEF Load, Loaded, lockVars, recoveryVars
    <3> QED
      BY <1>5, <3>1 DEF Clean
  <2>5. CASE ExecCommit \/ ExecFinish("finish_rolled_back", "rolled_back")
             \/ ExecFinish("finish_rollback_failed", "rollback_failed") \/ UndoFinish
    BY <1>2, <2>5, ToldEnd
  <2>6. CASE Undo
    <3>1. /\ UNCHANGED <<fileVars, plan, preview, journal, ops, applied, rpc, rtodo, db>> /\ pc' = "undo_restore"
      BY <2>6, UndoIs DEF recoveryVars
    <3>2. Clean' => Clean
      BY <3>1 DEF Clean
    <3> QED
      BY <1>5, <3>1, <3>2 DEF Forward
  <2>7. CASE Recover
    BY <1>2, <2>7, ToldStart
  <2>8. CASE RecoverFinish
    <3>1. /\ UNCHANGED <<fileVars, plan, preview, journal, ops, applied, pc, cache>> /\ rpc' = "idle" /\ rtodo' = <<>>
          /\ rpc \in {"nothing", "finish"} /\ db'.status = IF rpc = "finish" THEN "rolled_back" ELSE "failed"
      BY <2>8, RecoverFinishIs
    <3>2. CASE rpc = "finish"
      BY <1>7, <3>1, <3>2 DEF Clean
    <3>3. CASE rpc = "nothing"
      <4>1. pc = "idle" /\ db # NoRecord
        BY <1>1, <3>3, WorkIsAllowed DEF StatusInv
      <4>2. Settles
        BY <1>1, <3>1, StillIs, SettlesIs
      <4>3. RowsTell'
        <5>1. Uncertain' = Uncertain
          BY <3>1 DEF Uncertain, Executable
        <5> QED
          BY <1>2, <3>1, <4>2, <5>1, RowsKept DEF Told
      <4>4. StepsTell' /\ TodoTells'
        BY <3>1, <4>1 DEF StepsTell, TodoTells, Forward
      <4>5. Clean' => Clean
        BY <3>1, <3>3 DEF Clean, Loaded
      <4>6. Clean' => Changed' = {}
        BY <1>2, <4>2, <4>5 DEF Told, Settles
      <4> QED
        BY <4>3, <4>4, <4>6 DEF Told
    <3> QED
      BY <3>1, <3>2, <3>3
  <2>9. CASE CrashAndRestart
    BY <1>2, <2>9, ToldCrash
  <2> QED
    BY <1>8, <2>1, <2>2, <2>3, <2>4, <2>5, <2>6, <2>7, <2>8, <2>9, Zenon DEF Other
<1> QED
  BY <1>3, <1>4, <1>6, <1>8, StepsAre

(***************************************************************************)
(* Once actions are executed                                               *)
(***************************************************************************)

\* What an accept of a part, or of all the actions, leaves.
PartDone ==
  db.status = "awaiting" =>
    /\ Shown(db.executed) /\ Apart(db.executed)
    /\ \A p \in Changed : \E i \in db.executed : p \in Ends(i)
AllDone ==
  db.status # "awaiting" =>
    /\ db.executed = DOMAIN plan
    /\ \A i \in DOMAIN plan : \E s \in DOMAIN journal : Executable(journal[s]) /\ journal[s].action = i
Resting == db.status \in {"awaiting", "committed", "undone"} /\ rpc = "idle" /\ pc \in {"idle"} \cup UndoSteps

\* The parts of the invariant.
LEMMA ExecutedIs == ExecutedInv <=> (Plain /\ db.executed # {} => Resting /\ PartDone /\ AllDone)
BY DEF ExecutedInv, Resting, PartDone, AllDone

\* The first commit.
LEMMA ExecutedCommit ==
  ASSUME JobsAssumption, JobsInv, [Next]_vars, Plain', db.executed = {}, ExecCommit
  PROVE  Resting' /\ PartDone' /\ AllDone'
<1>1. /\ "raced" \notin blur' /\ "raced" \notin blur /\ TypeInv /\ StatusInv /\ RecordInv /\ StepsRowed /\ Plain
  BY BlurGrows, JournalIs DEF Plain, JobsInv
<1>2. /\ pc = "commit" /\ db'.executed = Selected
      /\ db'.status = IF Selected = DOMAIN plan THEN "committed" ELSE "awaiting"
  BY EndIs
<1>3. UNCHANGED <<fileVars, plan, preview, journal, touched, file>>
  BY SaveIs DEF fileVars
<1>4. Selected = Done /\ Shown(Selected) /\ Apart(Selected) /\ pc' = "idle" /\ rpc' = "idle" /\ Selected \subseteq DOMAIN plan
  BY <1>1, CommitIs
<1>5. Settles /\ Grows /\ Same
  BY <1>1, <1>3, StillIs, SettlesIs
<1>6. Resting'
  BY <1>2, <1>4 DEF Resting
<1>7. PartDone'
  <2>1. PICK D : D = Selected
    OBVIOUS
  <2>2. Shown(D)' /\ Apart(D)'
    BY <1>1, <1>3, <1>4, <1>5, <2>1, ShownStill
  <2>3. StepsShow
    <3>1. Told
      BY <1>1 DEF JobsInv, PlainInv
    <3> QED
      BY <1>2, <3>1 DEF Told, StepsTell, Forward
  <2>4. \A p \in Changed : \E i \in Selected : p \in Ends(i)
    BY <1>4, <2>3 DEF StepsShow, Done
  <2>5. \A i : Ends(i)' = Ends(i)
    BY <1>3, PlanKept
  <2>6. \A p \in Changed' : \E i \in D : p \in Ends(i)'
    BY <1>5, <2>1, <2>4, <2>5 DEF Settles
  <2>7. db'.executed = D
    BY <1>2, <2>1
  <2> QED
    BY <2>2, <2>6, <2>7 DEF PartDone
<1>8. AllDone'
  <2> SUFFICES ASSUME db'.status # "awaiting"
               PROVE  /\ db'.executed = DOMAIN plan'
                      /\ \A i \in DOMAIN plan' : \E s \in DOMAIN journal' : Executable(journal'[s]) /\ journal'[s].action = i
    BY DEF AllDone, Executable
  <2>1. Selected = DOMAIN plan
    BY <1>2
  <2>2. ASSUME NEW i \in DOMAIN plan
        PROVE  \E s \in DOMAIN journal : Executable(journal[s]) /\ journal[s].action = i
    <3>1. PICK n \in DOMAIN applied : ops[n].action = i
      BY <1>4, <2>1, <2>2 DEF Done
    <3>2. n \in Journaled
      BY <1>1, JournaledIs DEF TypeInv, ThreadTypes
    <3>3. Rowed(n)
      BY <1>1, <1>2, <3>2 DEF StepsRowed, ExecSteps, Forward
    <3> QED
      BY <1>1, <3>1, <3>3 DEF Rowed
  <2> QED
    BY <1>2, <1>3, <2>1, <2>2
<1> QED
  BY <1>6, <1>7, <1>8

\* Every step keeps what the executed actions leave.
LEMMA ExecutedStep ==
  ASSUME JobsAssumption, JobsInv, [Next]_vars
  PROVE  ExecutedInv'
<1> SUFFICES ASSUME Plain', db'.executed # {}
             PROVE  Resting' /\ PartDone' /\ AllDone'
  <2>1. (ExecutedInv <=> (Plain /\ db.executed # {} => Resting /\ PartDone /\ AllDone))'
    BY ExecutedIs, PTL
  <2> QED
    BY <2>1
<1>1. /\ "raced" \notin blur' /\ "raced" \notin blur /\ TypeInv /\ StatusInv /\ RecordInv /\ JournalTypes /\ SeqsLast
  BY BlurGrows, JournalIs DEF Plain, JobsInv, TypeInv
<1>2. CASE db.executed = {}
  <2>1. ExecCommit
    BY <1>2, ExecutedGrows
  <2> QED
    BY <1>2, <2>1, ExecutedCommit
<1>3. CASE db.executed # {}
  <2>1. Resting /\ PartDone /\ AllDone
    <3>1. Plain
      BY BlurGrows DEF Plain
    <3> QED
      BY <1>3, <3>1, ExecutedIs DEF JobsInv
  <2>2. db # NoRecord
    BY <1>3 DEF NoRecord
  <2>3. pc # "apply" /\ pc \notin ExecSteps /\ rpc = "idle"
    BY <2>1 DEF Resting, UndoSteps, ExecSteps, Forward
  <2>4. Settles /\ UNCHANGED <<plan, preview>>
    BY <2>2, <2>3, SettlesStep
  <2>5. db.status = "awaiting" => pc = "idle" /\ cache.status \in {"none", "awaiting"}
    BY <1>1 DEF StatusInv
  <2>6. ASSUME UNCHANGED db, Grows, Same
        PROVE  PartDone'
    <3> SUFFICES ASSUME db.status = "awaiting"
                 PROVE  /\ Shown(db.executed)' /\ Apart(db.executed)'
                        /\ \A p \in Changed' : \E i \in db'.executed : p \in Ends(i)'
      BY <2>6 DEF PartDone
    <3>1. PICK D : D = db.executed
      OBVIOUS
    <3>2. D \in SUBSET DOMAIN plan /\ Shown(D) /\ Apart(D) /\ \A p \in Changed : \E i \in D : p \in Ends(i)
      BY <1>1, <2>1, <3>1 DEF RecordInv, PartDone
    <3>3. Shown(D)' /\ Apart(D)'
      BY <1>1, <2>4, <2>6, <3>2, ShownStill
    <3>4. \A i : Ends(i)' = Ends(i)
      BY <2>4, PlanKept
    <3>5. D = db'.executed
      BY <2>6, <3>1
    <3> QED
      BY <2>4, <3>2, <3>3, <3>4, <3>5 DEF Settles
  <2>7. ASSUME db'.executed = db.executed, db'.status # "awaiting" => db.status # "awaiting",
               \A s \in DOMAIN journal : Executable(journal[s]) =>
                 s \in DOMAIN journal' /\ Executable(journal'[s]) /\ journal'[s].action = journal[s].action
        PROVE  AllDone'
    BY <2>1, <2>4, <2>7 DEF AllDone, Executable
  <2>8. ASSUME UNCHANGED <<db, journal>>, Grows, Same, rpc' = "idle", pc' \in {"idle"} \cup UndoSteps
        PROVE  Resting' /\ PartDone' /\ AllDone'
    BY <2>1, <2>6, <2>7, <2>8 DEF Resting
  <2>9. CASE ThreadStep
    <3>1. CASE UndoRestore \/ UndoAudit
      <4>1. pc \in UndoSteps /\ UNCHANGED <<db, rpc>> /\ pc' \in {"idle"} \cup UndoSteps
        BY <3>1 DEF UndoRestore, UndoAudit, UndoSteps, SameRecord, recVars, recoveryVars
      <4>2. db.status = "committed"
        BY <1>1, <4>1 DEF StatusInv
      <4>3. PartDone' /\ Resting'
        BY <2>3, <4>1, <4>2 DEF PartDone, Resting
      <4>4. CASE UndoRestore
        BY <2>7, <4>1, <4>3, <4>4 DEF UndoRestore
      <4>5. CASE UndoAudit
        <5>1. PICK m, row : m = seq /\ row = AuditRow(Head(todo))
          OBVIOUS
        <5>2. Put(m, row) /\ row \in Row /\ m \in Nat
          BY <4>5, <5>1, JournalPut
        <5>3. m \notin DOMAIN journal
          BY <1>1, <4>1, <5>1, <5>2 DEF SeqsLast
        <5>4. \A s \in DOMAIN journal : s \in DOMAIN journal' /\ journal'[s] = journal[s]
          BY <1>1, <5>2, <5>3, PutIs
        <5> QED
          BY <2>7, <4>1, <4>3, <5>4
      <4> QED
        BY <3>1, <4>4, <4>5
    <3>2. CASE RecoverRestore \/ RecoverAudit \/ RecoverMark
      BY <2>3, <3>2 DEF RecoverRestore, RecoverAudit, RecoverMark
    <3>3. CASE ExecJournal \/ ExecJournalFails \/ ExecApply \/ ExecMarkApplied \/ ExecMarkPending \/ ExecRollback
               \/ ExecMarkRolledBack \/ ExecMarkRollbackFailed
      BY <2>3, <3>3 DEF ExecJournal, ExecJournalFails, ExecApply, ExecMarkApplied, ExecMarkPending, ExecRollback,
                        ExecMarkRolledBack, ExecMarkRollbackFailed, ExecMark, ExecSteps, Forward
    <3> QED
      BY <2>9, <3>1, <3>2, <3>3 DEF ThreadStep
  <2>10. CASE Editing
    <3>1. UNCHANGED <<db, journal, pc, rpc>> /\ Grows /\ Same
      BY <2>10, EditorIs DEF Editing, recVars, lockVars, recoveryVars
    <3> QED
      BY <2>1, <2>8, <3>1 DEF Resting
  <2>11. CASE UNCHANGED vars
    <3>1. UNCHANGED <<fileVars, preview, db, journal, pc, rpc>>
      BY <2>11 DEF vars, fileVars
    <3>2. Grows /\ Same
      BY <1>1, <3>1, StillIs
    <3> QED
      BY <2>1, <2>8, <3>1, <3>2 DEF Resting
  <2>12. CASE Other
    <3>1. CASE \E acts \in Plans : Plan(acts)
      BY <2>2, <3>1 DEF Plan
    <3>2. CASE \E sel \in (SUBSET (DOMAIN plan)) \ {{}} : Accept(sel)
      BY <1>3, <3>2, AcceptIs DEF Plain
    <3>3. CASE Reject
      BY <1>3, <3>3, RejectIs
    <3>4. CASE Load
      <4>1. UNCHANGED <<fileVars, preview, db, journal, pc, rpc>>
        BY <3>4 DEF Load, lockVars, recoveryVars
      <4>2. Grows /\ Same
        BY <1>1, <4>1, StillIs
      <4> QED
        BY <2>1, <2>8, <4>1, <4>2 DEF Resting
    <3>5. CASE ExecCommit \/ ExecFinish("finish_rolled_back", "rolled_back")
               \/ ExecFinish("finish_rollback_failed", "rollback_failed")
      BY <2>3, <3>5 DEF ExecCommit, ExecFinish, ExecSteps, Forward
    <3>6. CASE UndoFinish
      <4>1. /\ pc = "undo_finish" /\ db'.executed = db.executed /\ db'.status = "undone" /\ pc' = "idle" /\ rpc' = rpc
            /\ UNCHANGED journal
        BY <3>6, EndIs, SaveIs
      <4>2. db.status = "committed"
        BY <1>1, <4>1 DEF StatusInv, UndoSteps
      <4>3. AllDone'
        BY <2>7, <4>1, <4>2
      <4> QED
        BY <2>3, <4>1, <4>3 DEF Resting, PartDone
    <3>7. CASE Undo
      <4>1. UNCHANGED <<fileVars, preview, db, journal, rpc>> /\ pc' = "undo_restore"
        BY <3>7, UndoIs DEF recoveryVars
      <4>2. Grows /\ Same
        BY <1>1, <4>1, StillIs
      <4> QED
        BY <2>3, <2>8, <4>1, <4>2 DEF UndoSteps
    <3>8. CASE Recover
      BY <2>1, <3>8, RecoverIs DEF Flagged, Resting
    <3>9. CASE RecoverFinish
      BY <2>3, <3>9, RecoverFinishIs
    <3>10. CASE CrashAndRestart
      <4>1. /\ pc' = "idle" /\ rpc' = "idle" /\ UNCHANGED journal /\ db'.executed = db.executed /\ db'.status = db.status
            /\ db' \in Record
        BY <2>1, <3>10, CrashRecord DEF CrashAndRestart, Resting
      <4>2. db' = db
        BY <1>1, <4>1 DEF RecordInv, Record
      <4>3. CASE db.status = "awaiting"
        <5>1. UNCHANGED <<fileVars, preview>>
          BY <2>3, <2>5, <3>10, <4>3, CrashStill DEF CrashAndRestart
        <5>2. Grows /\ Same
          BY <1>1, <5>1, StillIs
        <5> QED
          BY <2>8, <4>1, <4>2, <5>2
      <4>4. CASE db.status # "awaiting"
        <5>1. AllDone'
          BY <2>7, <4>1, <4>2
        <5> QED
          BY <2>1, <4>1, <4>4, <5>1 DEF Resting, PartDone
      <4> QED
        BY <4>3, <4>4
    <3> QED
      BY <2>12, <3>1, <3>2, <3>3, <3>4, <3>5, <3>6, <3>7, <3>8, <3>9, <3>10, Zenon DEF Other
  <2> QED
    BY <2>9, <2>10, <2>11, <2>12, StepsAre
<1> QED
  BY <1>2, <1>3

(***************************************************************************)
(* The invariant                                                           *)
(***************************************************************************)

\* Initially nothing is planned.
LEMMA JobsInit ==
  ASSUME JobsAssumption, Init
  PROVE  JobsInv
<1>1. /\ file \in [Paths -> {Absent} \cup {Original(p) : p \in Paths}] /\ \A p \in Paths : file[p] \in {Absent, Original(p)}
      /\ plan = <<>> /\ preview = file /\ db = NoRecord /\ cache = NoRecord /\ journal = [s \in {} |-> NoRecord]
      /\ pc = "idle" /\ ops = <<>> /\ applied = <<>> /\ todo = <<>> /\ seq = 0
      /\ rpc = "idle" /\ rtodo = <<>> /\ rseq = 0
      /\ edits = 0 /\ touched = {} /\ window = {} /\ lost = {} /\ blur = {}
  BY DEF Init
<1>2. DOMAIN journal = {} /\ DOMAIN plan = {} /\ DOMAIN ops = {} /\ DOMAIN applied = {} /\ DOMAIN todo = {} /\ DOMAIN rtodo = {}
  BY <1>1
<1>3. Changed = {}
  BY <1>1 DEF Changed
<1>4. TypeInv
  <2>1. {Absent} \cup {Original(p) : p \in Paths} \subseteq Content
    BY DEF Original, Content
  <2>2. VaultTypes
    BY <1>1, <2>1 DEF VaultTypes
  <2>3. JournalTypes
    <3>1. IsFiniteSet(DOMAIN journal)
      BY <1>2, FS_EmptySet
    <3> QED
      BY <1>1, <1>2, <3>1 DEF JournalTypes
  <2>4. ThreadTypes
    BY <1>1 DEF ThreadTypes, RecoverySteps
  <2>5. StageInv
    BY <1>1 DEF StageInv
  <2> QED
    BY <2>2, <2>3, <2>4, <2>5 DEF TypeInv
<1>5. RecordInv
  <2>1. NoRecord \in Record
    BY DEF NoRecord, Record, Statuses
  <2> QED
    BY <1>1, <1>2, <2>1 DEF RecordInv, Unplanned, AllowedPlan, NoRecord
<1>6. StatusInv
  BY <1>1 DEF StatusInv, NoRecord, ExecSteps, Forward, UndoSteps
<1>7. FileInv
  BY <1>1 DEF FileInv
<1>8. FitInv /\ LossInv
  BY <1>1, <1>2 DEF FitInv, LossInv, OnlyWindowSaves
<1>9. JournalInv
  BY <1>1, <1>2 DEF JournalInv, NoRecord, ExecSteps, Forward, UndoSteps
<1>10. ForwardInv /\ CommittedInv /\ UndoInv
  BY <1>1, <1>2 DEF ForwardInv, CommittedInv, UndoInv, Forward, NoRecord
<1>11. PlainInv
  BY <1>3, NothingTold DEF PlainInv
<1>12. ExecutedInv
  BY <1>1 DEF ExecutedInv, NoRecord
<1> QED
  BY <1>4, <1>5, <1>6, <1>7, <1>8, <1>9, <1>10, <1>11, <1>12 DEF JobsInv

\* The invariant: every step of an accept, of an undo, of a recovery, of the
\* editor and of the crash keeps its parts together, for any plans and bounds.
THEOREM JobsInvariance == Spec => []JobsInv
<1>1. Init => JobsInv
  BY JobsInit, JobsAssumption
<1>2. JobsInv /\ [Next]_vars => JobsInv'
  <2> SUFFICES ASSUME JobsInv, [Next]_vars
               PROVE  JobsInv'
    OBVIOUS
  <2>1. TypeInv' /\ RecordInv' /\ StatusInv' /\ FileInv' /\ FitInv' /\ LossInv' /\ JournalInv'
    BY TypeStep, RecordStep, StatusStep, FileStep, FitStep, JournalStep, JobsAssumption
  <2>2. ForwardInv' /\ CommittedInv' /\ UndoInv' /\ PlainInv' /\ ExecutedInv'
    BY ForwardStep, CommittedStep, UndoStep, PlainStep, ExecutedStep, JobsAssumption
  <2> QED
    BY <2>1, <2>2 DEF JobsInv
<1> QED
  BY <1>1, <1>2, PTL DEF Spec

\* No step of the job destroys what an editor saved after the preview, but
\* for a save between write_bytes' replace and its read-back: the hash guards
\* of every call, in whatever order the calls come.
THEOREM NothingButWindowSavesIsLost == Spec => []OnlyWindowSaves
<1>1. JobsInv => OnlyWindowSaves
  BY DEF JobsInv, LossInv
<1> QED
  BY <1>1, JobsInvariance, PTL

\* rollback_if_safe never calls the job's own steps changed by someone else,
\* when no editor was there and no two actions share a path.
THEOREM JobsAreRecoverable == Spec => []RecoverableUnlessTouched
<1>1. JobsInv => RecoverableUnlessTouched
  <2> SUFFICES ASSUME JobsInv, touched = {}, Disjoint, NEW s \in Uncertain
               PROVE  Ours(s) \/ Untouched(s)
    BY DEF RecoverableUnlessTouched
  <2>1. s \in DOMAIN journal /\ Fits(journal[s])
    BY DEF Uncertain, JobsInv, FitInv
  <2>2. AllowedPlan /\ RecordInv /\ TypeInv /\ FileInv
    BY <2>1 DEF JobsInv, RecordInv, Denied
  <2>3. PICK a : a = journal[s].action
    OBVIOUS
  <2>4. a \in DOMAIN plan /\ journal[s].path = PathOf(a) /\ journal[s].before = BeforeOf(a) /\ journal[s].after = AfterOf(a)
    BY <2>1, <2>3 DEF Fits
  <2>5. PathOf(a) \in Ends(a) /\ PathOf(a) \in Paths
    BY <2>2, <2>4, PlanIs, JobsAssumption
  <2>6. preview[PathOf(a)] \in {Absent, BeforeOf(a)}
    BY <2>2, <2>4, ActionIs, PlanIs, JobsAssumption
  <2>7. CASE file[PathOf(a)] = preview[PathOf(a)]
    BY <2>4, <2>6, <2>7 DEF Untouched
  <2>8. CASE file[PathOf(a)] # preview[PathOf(a)]
    <3>1. PICK i \in DOMAIN plan : PathOf(a) \in Ends(i) /\ file[PathOf(a)] = Effect(i, PathOf(a))
      BY <2>2, <2>5, <2>8 DEF FileInv
    <3>2. i = a
      BY <2>4, <2>5, <3>1 DEF Disjoint, Ends
    <3> QED
      BY <2>4, <3>1, <3>2 DEF Effect, Ours
  <2> QED
    BY <2>7, <2>8
<1> QED
  BY <1>1, JobsInvariance, PTL

(***************************************************************************)
(* What the record promises                                                *)
(***************************************************************************)

\* A nonempty set of numbers has a least one.
LEMMA LeastIs ==
  ASSUME NEW S, S \subseteq Nat, S # {}
  PROVE  \E m \in S : \A k \in S : m <= k
<1> DEFINE R == OpToRel(<, Nat)
<1>1. IsWellFoundedOn(R, Nat)
  BY NatLessThanWellFounded
<1>2. \A a, b \in Nat : a < b => <<a, b>> \in R
  BY DEF OpToRel
<1> HIDE DEF R
<1>3. PICK m \in S : \A k \in S : <<k, m>> \notin R
  BY <1>1, WFMin
<1>4. \A k \in S : ~(k < m)
  BY <1>2, <1>3
<1>5. \A k \in S : m <= k
  BY <1>3, <1>4
<1> QED
  BY <1>3, <1>5

\* The Vault v after action i, if it is one of D, and the Vaults after the
\* first actions of the plan, as Promised computes them.
Then(i, D, v) ==
  IF i \notin D THEN v
  ELSE IF plan[i].kind = "move"
  THEN [v EXCEPT ![plan[i].target] = v[plan[i].file], ![plan[i].file] = Absent]
  ELSE [v EXCEPT ![plan[i].file] = Written(i)]
Stages(n, D, f) == f = [i \in 0 .. n |-> IF i = 0 THEN preview ELSE Then(i, D, f[i - 1])]
Staged(D) == CHOOSE f : Stages(Len(plan), D, f)

\* The Vaults in a row.
LEMMA StagesAre ==
  ASSUME NEW n \in Nat, NEW D, NEW f
  PROVE  Stages(n, D, f) => DOMAIN f = 0 .. n /\ f[0] = preview /\ \A k \in 1 .. n : f[k] = Then(k, D, f[k - 1])
<1> SUFFICES ASSUME Stages(n, D, f)
             PROVE  DOMAIN f = 0 .. n /\ f[0] = preview /\ \A k \in 1 .. n : f[k] = Then(k, D, f[k - 1])
  OBVIOUS
<1>1. f = [i \in 0 .. n |-> IF i = 0 THEN preview ELSE Then(i, D, f[i - 1])]
  BY DEF Stages
<1>2. \A k \in 0 .. n : f[k] = IF k = 0 THEN preview ELSE Then(k, D, f[k - 1])
  BY <1>1, Zenon
<1>3. DOMAIN f = 0 .. n
  BY <1>1, Zenon
<1> QED
  BY <1>2, <1>3

\* There is such a row for any number of actions.
LEMMA StagesExist ==
  ASSUME NEW D
  PROVE  \A n \in Nat : \E f : Stages(n, D, f)
<1> DEFINE Bad == {n \in Nat : ~ \E f : Stages(n, D, f)}
<1> SUFFICES ASSUME Bad # {}
             PROVE  FALSE
  OBVIOUS
<1>1. PICK m \in Bad : \A k \in Bad : m <= k
  BY LeastIs
<1>2. CASE m = 0
  <2> DEFINE f == [i \in 0 .. 0 |-> preview]
  <2>1. f = [i \in 0 .. 0 |-> IF i = 0 THEN preview ELSE Then(i, D, f[i - 1])]
    OBVIOUS
  <2>2. Stages(0, D, f)
    BY <2>1 DEF Stages
  <2> QED
    BY <1>2, <2>2
<1>3. CASE m # 0
  <2>1. m - 1 \in Nat /\ m - 1 \notin Bad
    BY <1>1, <1>3
  <2>2. PICK g : Stages(m - 1, D, g)
    BY <2>1
  <2>3. DOMAIN g = 0 .. (m - 1) /\ g[0] = preview /\ \A k \in 1 .. (m - 1) : g[k] = Then(k, D, g[k - 1])
    BY <2>1, <2>2, StagesAre
  <2> DEFINE f == [i \in 0 .. m |-> IF i = m THEN Then(m, D, g[m - 1]) ELSE g[i]]
  <2>4. \A i \in 0 .. (m - 1) : f[i] = g[i]
    BY <1>1
  <2>5. ASSUME NEW i \in 0 .. m
        PROVE  f[i] = IF i = 0 THEN preview ELSE Then(i, D, f[i - 1])
    <3>1. CASE i = 0
      BY <1>3, <2>1, <2>3, <2>4, <3>1
    <3>2. CASE i = m
      <4>1. f[m] = Then(m, D, g[m - 1]) /\ f[m - 1] = g[m - 1]
        BY <1>1, <2>1, <2>4
      <4> QED
        BY <1>3, <3>2, <4>1
    <3>3. CASE i \in 1 .. (m - 1)
      <4>1. f[i] = g[i] /\ f[i - 1] = g[i - 1] /\ g[i] = Then(i, D, g[i - 1])
        BY <1>1, <2>3, <2>4, <3>3
      <4> QED
        BY <3>3, <4>1
    <3> QED
      BY <1>1, <3>1, <3>2, <3>3
  <2>6. f = [i \in 0 .. m |-> f[i]]
    OBVIOUS
  <2> HIDE DEF f
  <2>7. f = [i \in 0 .. m |-> IF i = 0 THEN preview ELSE Then(i, D, f[i - 1])]
    BY <2>5, <2>6
  <2>8. Stages(m, D, f)
    BY <2>7 DEF Stages
  <2> QED
    BY <2>8
<1> QED
  BY <1>2, <1>3

\* The promise is the last one.
LEMMA PromisedIs ==
  ASSUME NEW D, Len(plan) \in Nat
  PROVE  Stages(Len(plan), D, Staged(D)) /\ Promised(D) = Staged(D)[Len(plan)]
<1>1. \E f : Stages(Len(plan), D, f)
  BY StagesExist
<1>2. Stages(Len(plan), D, Staged(D))
  BY <1>1 DEF Staged
<1>3. Promised(D) = Staged(D)[Len(plan)]
  BY DEF Promised, Staged, Stages, Then
<1> QED
  BY <1>2, <1>3

\* Action i, if it is one of D, takes the Vault v to w.
Does(i, D, v, w) ==
  /\ w \in [Paths -> Content] /\ (i \notin D => w = v)
  /\ \A q \in Paths \ Ends(i) : w[q] = v[q]
  /\ i \in D /\ (\A q \in Ends(i) : v[q] = preview[q]) => \A q \in Ends(i) : w[q] = Effect(i, q)

\* What one action does to any Vault.
LEMMA ThenIs ==
  ASSUME JobsAssumption, TypeInv, RecordInv, NEW D, NEW j \in DOMAIN plan, NEW v \in [Paths -> Content]
  PROVE  Does(j, D, v, Then(j, D, v))
<1>1. /\ j \in Nat /\ Ends(j) \subseteq Paths /\ PathOf(j) \in Ends(j) /\ plan[j].file \in Ends(j)
      /\ plan[j].kind # "move" => Ends(j) = {PathOf(j)} /\ PathOf(j) = plan[j].file
      /\ plan[j].kind = "move" => /\ PathOf(j) # plan[j].file /\ Ends(j) = {PathOf(j), plan[j].file}
                                 /\ PathOf(j) = plan[j].target
  BY PlanIs
<1>2. Absent \in Content /\ Written(j) \in Content
  BY <1>1 DEF Content, Written
<1>3. CASE j \notin D
  BY <1>3 DEF Then, Does
<1>4. CASE j \in D /\ plan[j].kind = "move"
  <2>1. Then(j, D, v) = [v EXCEPT ![PathOf(j)] = v[plan[j].file], ![plan[j].file] = Absent]
    BY <1>1, <1>4 DEF Then
  <2>2. /\ Then(j, D, v) \in [Paths -> Content]
        /\ Then(j, D, v)[PathOf(j)] = v[plan[j].file] /\ Then(j, D, v)[plan[j].file] = Absent
        /\ \A q \in Paths : q # PathOf(j) /\ q # plan[j].file => Then(j, D, v)[q] = v[q]
    <3>1. PathOf(j) \in Paths /\ plan[j].file \in Paths /\ PathOf(j) # plan[j].file /\ v[plan[j].file] \in Content
      BY <1>1, <1>4
    <3> QED
      BY <1>2, <2>1, <3>1
  <2>3. Effect(j, PathOf(j)) = preview[plan[j].file] /\ Effect(j, plan[j].file) = Absent
    BY <1>1, <1>4 DEF Effect, AfterOf
  <2> QED
    BY <1>1, <1>4, <2>2, <2>3 DEF Does
<1>5. CASE j \in D /\ plan[j].kind # "move"
  <2>1. Then(j, D, v) = [v EXCEPT ![PathOf(j)] = Written(j)]
    BY <1>1, <1>5 DEF Then
  <2>2. /\ Then(j, D, v) \in [Paths -> Content] /\ Then(j, D, v)[PathOf(j)] = Written(j)
        /\ \A q \in Paths : q # PathOf(j) => Then(j, D, v)[q] = v[q]
    BY <1>1, <1>2, <1>5, <2>1
  <2>3. Effect(j, PathOf(j)) = Written(j)
    BY <1>5 DEF Effect, AfterOf
  <2> QED
    BY <1>1, <1>5, <2>2, <2>3 DEF Does
<1> QED
  BY <1>3, <1>4, <1>5

\* The plan is a sequence.
LEMMA PlanLengthIs ==
  ASSUME JobsAssumption, RecordInv
  PROVE  Len(plan) \in Nat /\ DOMAIN plan = 1 .. Len(plan)
<1>1. plan = <<>> \/ plan \in Plans
  BY DEF RecordInv, Unplanned
<1>2. CASE plan = <<>>
  BY <1>2
<1>3. CASE plan \in Plans
  <2>1. plan \in Seq(Actions)
    BY <1>3 DEF JobsAssumption
  <2> QED
    BY <2>1
<1> QED
  BY <1>1, <1>2, <1>3

\* No action of D but i has to do with the paths Q, and Q is what i works on.
Only(i, Q, D) == (\A j \in D : j # i => Ends(j) \cap Q = {}) /\ (i \in D => Q = Ends(i))

\* What a row of Vaults says of them.
InRow(f, i, Q, D) ==
  \A k \in 0 .. Len(plan) :
    /\ f[k] \in [Paths -> Content]
    /\ \A q \in Q : f[k][q] = IF i \in D /\ i <= k THEN Effect(i, q) ELSE preview[q]

\* The Vaults of the row are Vaults; a path that no action of D names stays,
\* and an action of D that shares no path with the others has its effect.
LEMMA StageIs ==
  ASSUME JobsAssumption, TypeInv, RecordInv, NEW D \in SUBSET DOMAIN plan, NEW f, Stages(Len(plan), D, f),
         NEW i, NEW Q \in SUBSET Paths, Only(i, Q, D)
  PROVE  InRow(f, i, Q, D)
<1> DEFINE n == Len(plan)
           Good(k) == /\ f[k] \in [Paths -> Content]
                      /\ \A q \in Q : f[k][q] = IF i \in D /\ i <= k THEN Effect(i, q) ELSE preview[q]
           Bad == {k \in 0 .. n : ~Good(k)}
<1>1. n \in Nat /\ DOMAIN plan = 1 .. n /\ preview \in [Paths -> Content]
  BY PlanLengthIs DEF TypeInv, VaultTypes
<1>2. f[0] = preview /\ \A k \in 1 .. n : f[k] = Then(k, D, f[k - 1])
  BY <1>1, StagesAre
<1> SUFFICES ASSUME Bad # {}
             PROVE  FALSE
  BY DEF InRow
<1>3. PICK m \in Bad : \A k \in Bad : m <= k
  <2>1. Bad \subseteq Nat
    BY <1>1
  <2> QED
    BY <2>1, LeastIs
<1>4. m # 0
  BY <1>1, <1>2, <1>3
<1>5. m \in 1 .. n /\ m - 1 \in 0 .. n /\ m - 1 \notin Bad
  BY <1>1, <1>3, <1>4
<1>6. Good(m - 1)
  BY <1>5
<1>7. /\ f[m] \in [Paths -> Content] /\ (m \notin D => f[m] = f[m - 1])
      /\ \A q \in Paths \ Ends(m) : f[m][q] = f[m - 1][q]
      /\ m \in D /\ (\A q \in Ends(m) : f[m - 1][q] = preview[q]) => \A q \in Ends(m) : f[m][q] = Effect(m, q)
  <2>1. m \in DOMAIN plan /\ f[m] = Then(m, D, f[m - 1]) /\ f[m - 1] \in [Paths -> Content]
    BY <1>1, <1>2, <1>5, <1>6
  <2>2. Does(m, D, f[m - 1], f[m])
    BY <2>1, ThenIs
  <2> QED
    BY <2>2 DEF Does
<1>8. i \in D => i \in 1 .. n
  BY <1>1
<1>9. CASE m \in D /\ m = i
  <2>1. Q = Ends(m)
    BY <1>9 DEF Only
  <2>2. \A q \in Q : f[m - 1][q] = preview[q]
    BY <1>1, <1>5, <1>6, <1>8, <1>9
  <2>3. \A q \in Q : f[m][q] = Effect(m, q)
    BY <1>7, <1>9, <2>1, <2>2
  <2>4. Good(m)
    BY <1>1, <1>5, <1>7, <1>9, <2>3
  <2> QED
    BY <1>3, <2>4
<1>10. CASE m \in D /\ m # i
  <2>1. \A q \in Q : q \notin Ends(m)
    BY <1>10 DEF Only
  <2>2. i \in D => (i <= m <=> i <= m - 1)
    BY <1>1, <1>5, <1>8, <1>10
  <2>3. \A q \in Q : f[m][q] = f[m - 1][q]
    BY <1>7, <2>1
  <2>4. Good(m)
    BY <1>6, <1>7, <2>2, <2>3
  <2> QED
    BY <1>3, <2>4
<1>11. CASE m \notin D
  <2>1. i \in D => (i <= m <=> i <= m - 1)
    BY <1>1, <1>5, <1>8, <1>11
  <2> QED
    BY <1>3, <1>6, <1>7, <1>11, <2>1
<1> QED
  BY <1>9, <1>10, <1>11
\* The Vault v has the effect of action i on the paths Q, if it is one of D.
Shows(v, i, Q, D) == \A q \in Q : v[q] = IF i \in D THEN Effect(i, q) ELSE preview[q]

\* What the record promises of paths that one action at most has to do with.
LEMMA PromiseIs ==
  ASSUME JobsAssumption, TypeInv, RecordInv, NEW D \in SUBSET DOMAIN plan,
         NEW i, NEW Q \in SUBSET Paths, Only(i, Q, D)
  PROVE  Shows(Promised(D), i, Q, D)
<1>1. Len(plan) \in Nat /\ DOMAIN plan = 1 .. Len(plan)
  BY PlanLengthIs
<1>2. Stages(Len(plan), D, Staged(D)) /\ Promised(D) = Staged(D)[Len(plan)]
  BY <1>1, PromisedIs
<1>3. PICK f : f = Staged(D)
  OBVIOUS
<1>4. Stages(Len(plan), D, f) /\ Promised(D) = f[Len(plan)]
  BY <1>2, <1>3
<1>5. InRow(f, i, Q, D)
  BY <1>4, StageIs
<1>6. Len(plan) \in 0 .. Len(plan) /\ (i \in D => i <= Len(plan))
  BY <1>1
<1> QED
  BY <1>4, <1>5, <1>6 DEF InRow, Shows

\* It promises a path that no executed action names as the preview saw it.
LEMMA FarIs ==
  ASSUME JobsAssumption, TypeInv, RecordInv, NEW D \in SUBSET DOMAIN plan,
         NEW p \in Paths, \A j \in D : p \notin Ends(j)
  PROVE  Promised(D)[p] = preview[p]
<1>1. 0 \notin D
  BY PlanLengthIs
<1>2. PICK Q \in SUBSET Paths : Q = {p}
  OBVIOUS
<1>3. Only(0, Q, D)
  BY <1>1, <1>2 DEF Only
<1>4. Shows(Promised(D), 0, Q, D)
  BY <1>3, PromiseIs
<1> QED
  BY <1>1, <1>2, <1>4 DEF Shows

\* A path that is not the editor's belongs to actions that it left alone.
LEMMA AloneIs ==
  ASSUME NEW i \in DOMAIN plan, NEW p \in Ends(i), p \notin Theirs
  PROVE  Ends(i) \cap touched = {}
BY DEF Theirs, Ends

\* It promises the effects of executed actions that share no path.
LEMMA NearIs ==
  ASSUME JobsAssumption, TypeInv, RecordInv, NEW D \in SUBSET DOMAIN plan, Apart(D),
         NEW i \in D, NEW p \in Ends(i), p \notin Theirs
  PROVE  Promised(D)[p] = Effect(i, p)
<1>1. Ends(i) \cap touched = {}
  BY AloneIs
<1>2. \A j \in D : j # i => Ends(j) \cap Ends(i) = {}
  BY <1>1 DEF Apart
<1>3. PICK Q \in SUBSET Paths : Q = Ends(i)
  BY PlanIs
<1>4. Only(i, Q, D)
  BY <1>2, <1>3 DEF Only
<1>5. Shows(Promised(D), i, Q, D)
  BY <1>4, PromiseIs
<1> QED
  BY <1>3, <1>5 DEF Shows

\* What has changed is the effect of an action.
LEMMA ChangedHas ==
  ASSUME FileInv, NEW p \in Changed
  PROVE  \E i \in DOMAIN plan : p \in Ends(i)
BY DEF FileInv, Changed, Theirs

\* When nothing is executed, what is off is what has changed.
LEMMA NothingPromised ==
  ASSUME JobsAssumption, TypeInv, RecordInv
  PROVE  Off({}) = Changed
<1>1. \A p \in Paths : Promised({})[p] = preview[p]
  BY FarIs
<1> QED
  BY <1>1 DEF Off, Changed

\* Nothing is off when the executed actions show and share no path, and
\* nothing else has changed.
LEMMA WholeIs ==
  ASSUME JobsAssumption, TypeInv, RecordInv, NEW D \in SUBSET DOMAIN plan, Shown(D), Apart(D),
         \A p \in Changed : \E i \in D : p \in Ends(i)
  PROVE  Off(D) = {}
<1> SUFFICES ASSUME NEW p \in Off(D)
             PROVE  FALSE
  OBVIOUS
<1>1. p \in Paths /\ p \notin Theirs /\ file[p] # Promised(D)[p] /\ p \notin touched
  BY DEF Off, Theirs
<1>2. CASE \E i \in D : p \in Ends(i)
  <2>1. PICK i \in D : p \in Ends(i)
    BY <1>2
  <2>2. Promised(D)[p] = Effect(i, p)
    BY <1>1, <2>1, NearIs
  <2>3. file[p] = Effect(i, p)
    BY <1>1, <2>1 DEF Shown, Stands
  <2> QED
    BY <1>1, <2>2, <2>3
<1>3. CASE \A i \in D : p \notin Ends(i)
  <2>1. Promised(D)[p] = preview[p]
    BY <1>1, <1>3, FarIs
  <2>2. p \in Changed
    BY <1>1, <2>1 DEF Changed
  <2> QED
    BY <1>3, <2>2
<1> QED
  BY <1>2, <1>3

\* A committed job has executed every action and the Vault shows them, until
\* an undo starts, whatever the editor saved elsewhere (ExecCommit).
THEOREM CommitsAreWhole == Spec => []CommittedIsWhole
<1>1. JobsInv => CommittedIsWhole
  <2> SUFFICES ASSUME JobsInv, db.status = "committed", blur \cap {"raced", "half_undone"} = {}
               PROVE  db.executed = DOMAIN plan /\ Off(db.executed) = {}
    BY DEF CommittedIsWhole
  <2>1. TypeInv /\ RecordInv /\ FileInv
    BY DEF JobsInv
  <2>2. db.executed = DOMAIN plan /\ Shown(DOMAIN plan) /\ Apart(DOMAIN plan)
    BY DEF JobsInv, CommittedInv
  <2>3. \A p \in Changed : \E i \in DOMAIN plan : p \in Ends(i)
    BY <2>1, ChangedHas
  <2> QED
    BY <2>1, <2>2, <2>3, WholeIs, JobsAssumption
<1> QED
  BY <1>1, JobsInvariance, PTL

\* A rolled back job leaves nothing of the accept, by the executor or by a
\* recovery (ExecRollback, RecoverRestore).
THEOREM RollBacksAreClean == Spec => []RolledBackIsClean
<1>1. JobsInv => RolledBackIsClean
  <2> SUFFICES ASSUME JobsInv, db.status = "rolled_back", Plain
               PROVE  Off(db.executed) = {}
    BY DEF RolledBackIsClean, Plain
  <2>1. TypeInv /\ RecordInv
    BY DEF JobsInv
  <2>2. db.executed = {}
    BY DEF JobsInv, ExecutedInv
  <2>3. Changed = {}
    BY <2>2 DEF JobsInv, PlainInv, Told, Clean
  <2> QED
    BY <2>1, <2>2, <2>3, NothingPromised, JobsAssumption
<1> QED
  BY <1>1, JobsInvariance, PTL

\* An undone job leaves the Vault as the preview saw it (UndoRestore).
THEOREM UndosAreClean == Spec => []UndoneIsClean
<1>1. JobsInv => UndoneIsClean
  <2> SUFFICES ASSUME JobsInv, db.status = "undone", NEW p \in Off({})
               PROVE  FALSE
    BY DEF UndoneIsClean
  <2>1. TypeInv /\ RecordInv /\ FileInv
    BY DEF JobsInv
  <2>2. p \in Changed
    BY <2>1, NothingPromised, JobsAssumption
  <2>3. PICK i \in DOMAIN plan : p \in Ends(i)
    BY <2>1, <2>2, ChangedHas
  <2>4. Undone(i)
    BY DEF JobsInv, UndoInv
  <2> QED
    BY <2>2, <2>3, <2>4 DEF Changed, Theirs, Undone
<1> QED
  BY <1>1, JobsInvariance, PTL

\* The journal names whatever the job has changed and not recorded (ExecJournal
\* before ExecApply), also when the process dies in between.
THEOREM JournalIsAhead == Spec => []WriteAheadJournal
<1>1. JobsInv => WriteAheadJournal
  <2> SUFFICES ASSUME JobsInv, Plain, NEW p \in Off(db.executed)
               PROVE  \E s \in DOMAIN journal :
                        Executable(journal[s]) /\ p \in {journal[s].path, journal[s].source}
    BY DEF WriteAheadJournal, Plain
  <2>1. TypeInv /\ RecordInv /\ FileInv /\ FitInv
    BY DEF JobsInv
  <2>2. db.executed \in SUBSET DOMAIN plan
    BY <2>1 DEF RecordInv
  <2>3. CASE db.executed = {}
    <3>1. p \in Changed
      BY <2>1, <2>3, NothingPromised, JobsAssumption
    <3>2. PICK s \in DOMAIN journal : Executable(journal[s]) /\ Names(p, journal[s])
      BY <2>3, <3>1 DEF JobsInv, PlainInv, Told, RowsTell
    <3> QED
      BY <3>2 DEF Names
  <2>4. CASE db.executed # {} /\ db.status = "awaiting"
    <3>1. /\ Shown(db.executed) /\ Apart(db.executed)
          /\ \A q \in Changed : \E i \in db.executed : q \in Ends(i)
      BY <2>4 DEF JobsInv, ExecutedInv
    <3>2. Off(db.executed) = {}
      BY <2>1, <2>2, <3>1, WholeIs, JobsAssumption
    <3> QED
      BY <3>2
  <2>5. CASE db.executed # {} /\ db.status # "awaiting"
    <3>1. \A i \in DOMAIN plan : \E s \in DOMAIN journal : Executable(journal[s]) /\ journal[s].action = i
      BY <2>5 DEF JobsInv, ExecutedInv
    <3>2. PICK i \in DOMAIN plan : p \in Ends(i)
      <4> SUFFICES ASSUME \A i \in DOMAIN plan : p \notin Ends(i)
                   PROVE  FALSE
        OBVIOUS
      <4>1. p \in Paths /\ p \notin Theirs /\ file[p] # Promised(db.executed)[p]
        BY DEF Off
      <4>2. Promised(db.executed)[p] = preview[p]
        BY <2>1, <2>2, <4>1, FarIs, JobsAssumption
      <4>3. p \in Changed
        BY <4>1, <4>2 DEF Changed
      <4> QED
        BY <2>1, <4>3, ChangedHas
    <3>3. PICK s \in DOMAIN journal : Executable(journal[s]) /\ journal[s].action = i
      BY <3>1
    <3>4. journal[s].path = PathOf(i) /\ journal[s].source = plan[i].file
      BY <2>1, <3>3 DEF FitInv, Fits
    <3>5. p \in {PathOf(i), plan[i].file}
      BY <2>1, <3>2, PlanIs, JobsAssumption
    <3> QED
      BY <3>3, <3>4, <3>5
  <2> QED
    BY <2>3, <2>4, <2>5
<1> QED
  BY <1>1, JobsInvariance, PTL
=============================================================================
