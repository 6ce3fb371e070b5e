---------------------------- MODULE VaultProofs -----------------------------
(***************************************************************************)
(* Proofs about VaultFiles and VersionStore: no path shows a file that was *)
(* not written to its end, the system calls of the service implement the   *)
(* guarded store, config.json names the newest commit, and a snapshot is   *)
(* one state of the vault.  Behind them the proofs about Trash.            *)
(***************************************************************************)
EXTENDS VersionStore, Trash, TLAPS

(***************************************************************************)
(* The inductive invariant                                                 *)
(***************************************************************************)

\* Every inode that was made has a version.
Written == \A i \in 1..inodes : body[i] # 0

\* What the stages of a call know of it.
Puts == {"create", "write", "attach"}

CallShape ==
  op.pc # "idle" =>
    /\ op.kind = "move" <=> op.path # op.dest
    /\ op.kind \in {"create", "attach"} <=> op.expected = 0
    /\ op.pc \in {"temp", "sync"} => op.kind \in Puts
    /\ op.pc = "verify" => op.kind \in {"write", "delete"}
    /\ op.pc = "commit" => op.kind # "move"
    /\ op.pc \in {"link", "verifyDest", "verifySource", "drop", "undo"} => op.kind = "move"

\* A temporary file is synced by the time it may get its name.
TempSynced ==
  /\ op.temp \in 0..inodes
  /\ op.pc = "sync" => op.temp \in 1..inodes
  /\ op.pc \in {"verify", "commit"} /\ op.kind \in Puts => op.temp \in whole

\* A claim that nobody touched holds, in the words of the service.
Held == op.pc \notin {"idle", "check"} /\ op.clean => VersionAt(op.path) = op.expected

FilesInv == FilesTypeOK /\ Written /\ CallShape /\ TempSynced /\ VisibleIsWhole /\ Held

\* One lock for both.
OneHolder == shot.pc # "idle" => op.pc = "idle"

\* What the journal and config.json say at every stage of a snapshot: without a
\* journal config.json is the head, a committed journal names the head, and a
\* journal is dropped only where config.json was brought to the head.
Journal ==
  /\ pending[1] = "none" => config = Head0 \/ (config = -1 /\ Head0 = 0)
  /\ pending[1] = "committed" => pending[2] = Head0
  /\ shot.pc \in {"recover", "recovered", "stage", "commit", "mark", "publish", "clear"} => config >= 0
  /\ shot.pc = "recovered" => config = Head0
  /\ shot.pc = "stage" => pending[1] = "none"
  /\ shot.pc \in {"commit", "mark"} => pending[1] = "prepared"
  /\ shot.pc \in {"publish", "clear"} => pending[1] = "committed"
  /\ shot.pc = "clear" => config = Head0

\* A call commits once, so the head never runs ahead of the calls.
HeadBound ==
  /\ Head0 <= shots
  /\ shot.pc \in {"enable", "recover", "recovered", "stage", "commit"} => Head0 < shots
  /\ shot.pc \in {"stage", "commit"} => shot.tree \in Trees

VersionsInv == VersionsTypeOK /\ OneHolder /\ Journal /\ HeadBound /\ SnapshotIsConsistent

VaultInv == FilesInv /\ VersionsInv

-----------------------------------------------------------------------------
(* The files *)

\* Every step of the service and of an editor keeps the type of the call under way.
LEMMA CallTypeStep ==
  ASSUME TreeTypeOK, CallTypeOK, CallShape, TempSynced, FilesNext
  PROVE  CallTypeOK'
<1> USE DEF CallTypeOK
<1>1. ASSUME NEW kind \in {"create", "write", "delete", "move", "attach"}, NEW p \in Paths, NEW q \in Paths,
             Begin(kind, p, q)
      PROVE  CallTypeOK'
  <2>1. VersionAt(p) \in 0..MaxVersions
    BY FilesAssumption DEF TreeTypeOK, VersionAt
  <2>2. op' \in Calls
    BY <1>1, <2>1, FilesAssumption DEF Begin, Calls, Idle
  <2> QED
    BY <2>2 DEF Calls
<1>2. CASE Check
  <2> DEFINE begun == CASE op.kind \in {"create", "write"} -> "temp"
                        [] op.kind = "delete" -> "verify"
                        [] op.kind = "move" -> "link"
  <2>1. op \in Calls /\ op.kind \in {"create", "write", "delete", "move"}
    BY <1>2 DEF Check, Calls
  <2>2. begun \in {"temp", "verify", "link"}
    BY <2>1
  <2>3. op' = Idle \/ op' = [op EXCEPT !.clean = TRUE, !.pc = begun]
    BY <1>2 DEF Check, End
  <2> HIDE DEF begun
  <2>4. ASSUME op' = [op EXCEPT !.clean = TRUE, !.pc = begun]
        PROVE  op' \in Calls
    BY <2>1, <2>2, <2>4 DEF Calls
  <2> QED
    BY <2>3, <2>4 DEF Calls, Idle
<1>3. CASE PickName
  <2>1. op \in Calls
    BY <1>3 DEF PickName
  <2>2. Candidate(op.taken) \subseteq Paths
    BY FilesAssumption DEF Candidate
  <2>3. CASE End
    BY <2>3 DEF End, Idle
  <2>4. ASSUME op.tries < Retries
        PROVE  op.tries + 1 \in 0..Retries
    BY <2>1, <2>4, FilesAssumption DEF Calls
  <2>5. ASSUME NEW p \in Candidate(op.taken), op.tries < Retries,
               op' = [op EXCEPT !.path = p, !.dest = p, !.pc = "temp", !.clean = TRUE, !.tries = @ + 1]
        PROVE  op' \in Calls
    BY <2>1, <2>2, <2>4, <2>5 DEF Calls
  <2>6. ASSUME NEW p \in Candidate(op.taken), op.tries < Retries,
               op' = [op EXCEPT !.taken = @ \union {p}, !.tries = @ + 1]
        PROVE  op' \in Calls
    BY <2>1, <2>2, <2>4, <2>6 DEF Calls
  <2>7. op' \in Calls => CallTypeOK'
    BY DEF Calls
  <2> QED
    BY <1>3, <2>3, <2>5, <2>6, <2>7 DEF PickName
<1>4. CASE OpenTemp
  <2>1. inodes + 1 \in 0..MaxInodes
    BY <1>4, FilesAssumption DEF OpenTemp, NewInode, TreeTypeOK
  <2> QED
    BY <1>4, <2>1 DEF OpenTemp, Calls
<1>5. CASE SyncTemp
  BY <1>5 DEF SyncTemp, Calls
<1>6. CASE FailTemp \/ Replace \/ Unlink \/ UndoMove \/ CrashFiles
  BY <1>6 DEF FailTemp, Replace, Unlink, UndoMove, CrashFiles, End, Idle
<1>7. CASE Verify
  <2>1. op \in Calls
    BY <1>7 DEF Verify
  <2>2. ASSUME op' = [op EXCEPT !.pc = "commit", !.clean = TRUE]
        PROVE  op' \in Calls
    BY <2>1, <2>2 DEF Calls
  <2> QED
    BY <1>7, <2>2 DEF Verify, End, Calls, Idle
<1>8. CASE LinkTemp
  <2>1. op \in Calls
    BY <1>8 DEF LinkTemp
  <2> DEFINE taken == op.taken \union {op.path}
  <2>2. taken \in SUBSET Paths /\ 0 \in 0..MaxInodes
    BY <2>1, FilesAssumption DEF Calls
  <2>3. ASSUME op' = [op EXCEPT !.pc = "check", !.taken = taken, !.temp = 0]
        PROVE  op' \in Calls
    <3> HIDE DEF taken
    <3> QED
      BY <2>1, <2>2, <2>3 DEF Calls
  <2>4. op' = Idle \/ op' = [op EXCEPT !.pc = "check", !.taken = taken, !.temp = 0]
    BY <1>8 DEF LinkTemp, End
  <2> QED
    BY <2>3, <2>4 DEF Calls, Idle
<1>9. CASE LinkDest
  BY <1>9 DEF LinkDest, End, Calls, Idle
<1>10. CASE VerifyMove
  BY <1>10 DEF VerifyMove, Calls
<1>11. CASE DropSource
  BY <1>11 DEF DropSource, End, Calls, Idle
<1>12. ASSUME NEW n, NEW b, op' = Touched(n, b)
       PROVE  CallTypeOK'
  BY <1>12 DEF Touched, Calls
<1>13. CASE EditorStep
  BY <1>12, <1>13 DEF EditorStep, SaveInPlace, SaveByRename, EditorMoves
<1> QED
  BY <1>1, <1>2, <1>3, <1>4, <1>5, <1>6, <1>7, <1>8, <1>9, <1>10, <1>11, <1>13
     DEF FilesNext, ServiceStep

\* A path that takes a synced inode, or none, keeps the tree well formed.
LEMMA Renaming ==
  ASSUME TreeTypeOK, Written, VisibleIsWhole, NEW p, NEW i \in whole \union {0},
         name' = [name EXCEPT ![p] = i],
         UNCHANGED <<body, whole, litter, inodes, versions, ops>>
  PROVE  TreeTypeOK' /\ Written' /\ VisibleIsWhole'
<1>1. i \in 0..inodes
  BY FilesAssumption DEF TreeTypeOK
<1>2. name' \in [Paths -> 0..inodes]
  BY <1>1 DEF TreeTypeOK
<1>3. VisibleIsWhole'
  BY DEF TreeTypeOK, VisibleIsWhole
<1> QED
  BY <1>2, <1>3 DEF TreeTypeOK, Written

\* The tree: its types, that every inode has a version, and that every name is the
\* name of a synced file.
LEMMA TreeStep ==
  ASSUME FilesInv, FilesNext
  PROVE  TreeTypeOK' /\ Written' /\ VisibleIsWhole'
<1> USE FilesAssumption DEF FilesInv, FilesTypeOK, TreeTypeOK, Written, VisibleIsWhole
<1>1. ASSUME NEW kind \in {"create", "write", "delete", "move", "attach"}, NEW p \in Paths, NEW q \in Paths,
             Begin(kind, p, q)
      PROVE  TreeTypeOK' /\ Written' /\ VisibleIsWhole'
  BY <1>1 DEF Begin
<1>2. CASE Check \/ PickName \/ FailTemp \/ Verify \/ VerifyMove
  BY <1>2 DEF Check, PickName, FailTemp, Verify, VerifyMove, counts
<1>3. CASE OpenTemp
  <2>1. body' \in [1..MaxInodes -> 0..versions']
    BY SMTT(20), <1>3 DEF OpenTemp, NewInode
  <2>2. \A i \in 1..inodes' : body'[i] # 0
    BY SMTT(20), <1>3 DEF OpenTemp, NewInode
  <2>3. inodes' \in 1..MaxInodes /\ versions' \in 1..MaxVersions /\ ops' \in 0..MaxOps
    BY <1>3 DEF OpenTemp, NewInode
  <2>4. name' \in [Paths -> 0..inodes'] /\ whole' \subseteq 1..inodes' /\ litter' \subseteq 1..inodes'
    BY SMTT(20), <1>3 DEF OpenTemp, NewInode
  <2> QED
    BY <1>3, <2>1, <2>2, <2>3, <2>4 DEF OpenTemp
<1>4. CASE SyncTemp
  BY <1>4 DEF SyncTemp, TempSynced, counts
<1>5. CASE Replace
  BY <1>5, Renaming DEF Replace, TempSynced, Puts, counts
<1>6. CASE LinkTemp
  BY <1>6, Renaming DEF LinkTemp, TempSynced, Puts, counts
<1>7. CASE Unlink \/ DropSource \/ UndoMove
  BY <1>7, Renaming DEF Unlink, DropSource, UndoMove, counts
<1>8. CASE LinkDest
  BY ZenonT(40), <1>8 DEF LinkDest, CallTypeOK, Calls, counts
<1>9. CASE CrashFiles
  <2>1. {op.temp} \ {0} \subseteq 1..inodes
    BY DEF TempSynced
  <2> QED
    BY <1>9, <2>1 DEF CrashFiles, counts
<1>10. ASSUME NEW p \in Paths, SaveInPlace(p)
       PROVE  TreeTypeOK' /\ Written' /\ VisibleIsWhole'
  BY SMTT(20), <1>10 DEF SaveInPlace
<1>11. ASSUME NEW p \in Paths, SaveByRename(p)
       PROVE  TreeTypeOK' /\ Written' /\ VisibleIsWhole'
  BY SMTT(20), <1>11 DEF SaveByRename, NewInode
<1>12. ASSUME NEW p \in Paths, NEW q \in Paths, EditorMoves(p, q)
       PROVE  TreeTypeOK' /\ Written' /\ VisibleIsWhole'
  <2>1. name[p] \in whole /\ name[p] \in 0..inodes
    BY <1>12 DEF EditorMoves
  <2>2. name' \in [Paths -> 0..inodes] /\ \A r \in Paths : name'[r] # 0 => name'[r] \in whole
    <3>1. CASE p = q
      BY <1>12, <3>1 DEF EditorMoves
    <3>2. CASE p # q
      <4> DEFINE both == [name EXCEPT ![q] = name[p]]
      <4>1. both \in [Paths -> 0..inodes] /\ \A r \in Paths : both[r] # 0 => both[r] \in whole
        BY <2>1
      <4>2. name' = [both EXCEPT ![p] = 0]
        BY <1>12, <3>2 DEF EditorMoves
      <4> HIDE DEF both
      <4> QED
        BY <4>1, <4>2
    <3> QED
      BY <3>1, <3>2
  <2> QED
    BY <1>12, <2>2, Zenon DEF EditorMoves, counts
<1> QED
  BY <1>1, <1>2, <1>3, <1>4, <1>5, <1>6, <1>7, <1>8, <1>9, <1>10, <1>11, <1>12
     DEF FilesNext, ServiceStep, EditorStep

\* What an editor's step leaves of the call under way.
LEMMA TouchedCall ==
  ASSUME CallTypeOK, NEW n, NEW b, op' = Touched(n, b)
  PROVE  /\ op'.pc = op.pc /\ op'.kind = op.kind /\ op'.path = op.path /\ op'.dest = op.dest
         /\ op'.expected = op.expected /\ op'.temp = op.temp
         /\ op.pc # "idle" => IF Untouched(n, b) THEN op'.clean = op.clean ELSE op'.clean = FALSE
<1>1. CASE op' = op
  BY <1>1 DEF Touched, CallTypeOK, Calls
<1>2. CASE op' # op
  <2>1. op \in Calls /\ op' = [op EXCEPT !.clean = FALSE] /\ ~Untouched(n, b)
    BY <1>2 DEF Touched, CallTypeOK
  <2> QED
    BY <2>1 DEF Calls
<1> QED
  BY <1>1, <1>2

\* An editor's step leaves the shape of the call under way and its temporary file.
LEMMA EditorKeepsCall ==
  ASSUME FilesInv, EditorStep
  PROVE  CallShape' /\ TempSynced'
<1>1. PICK n, b : op' = Touched(n, b)
  BY DEF EditorStep, SaveInPlace, SaveByRename, EditorMoves
<1>2. whole \subseteq whole' /\ inodes' \in {inodes, inodes + 1}
  BY DEF EditorStep, SaveInPlace, SaveByRename, EditorMoves, NewInode, counts
<1>3. CallTypeOK
  BY DEF FilesInv, FilesTypeOK
<1>4. /\ op'.pc = op.pc /\ op'.kind = op.kind /\ op'.path = op.path /\ op'.dest = op.dest
      /\ op'.expected = op.expected /\ op'.temp = op.temp
  BY <1>1, <1>3, TouchedCall
<1>5. CallShape'
  BY <1>4 DEF FilesInv, CallShape
<1>6. 0..inodes \subseteq 0..inodes' /\ 1..inodes \subseteq 1..inodes'
  BY <1>2 DEF FilesInv, FilesTypeOK, TreeTypeOK
<1>7. TempSynced'
  BY <1>2, <1>4, <1>6 DEF FilesInv, TempSynced
<1> QED
  BY <1>5, <1>7

\* The shape of the call and its temporary file at every stage.
LEMMA CallStep ==
  ASSUME FilesInv, FilesNext
  PROVE  CallShape' /\ TempSynced'
<1> USE DEF FilesInv, FilesTypeOK
<1>1. ASSUME NEW kind \in {"create", "write", "delete", "move", "attach"}, NEW p \in Paths, NEW q \in Paths,
             Begin(kind, p, q)
      PROVE  CallShape' /\ TempSynced'
  <2>1. kind \in {"write", "delete", "move"} => VersionAt(p) # 0
    BY <1>1, FilesAssumption DEF Begin, VersionAt, Written, TreeTypeOK
  <2>2. CallShape'
    BY <1>1, <2>1 DEF Begin, CallShape
  <2>3. TempSynced'
    BY <1>1 DEF Begin, TempSynced, TreeTypeOK
  <2> QED
    BY <2>2, <2>3
<1>2. CASE op' = Idle /\ inodes' = inodes
  BY <1>2 DEF Idle, CallShape, TempSynced, TreeTypeOK
<1>3. CASE FailTemp \/ Replace \/ Unlink \/ UndoMove \/ CrashFiles
  BY <1>2, <1>3 DEF FailTemp, Replace, Unlink, UndoMove, CrashFiles, End, counts
<1>4. CASE EditorStep
  BY <1>4, EditorKeepsCall
<1>5. CASE Check /\ op' # Idle
  <2> DEFINE begun == CASE op.kind \in {"create", "write"} -> "temp"
                        [] op.kind = "delete" -> "verify"
                        [] op.kind = "move" -> "link"
  <2>1. op \in Calls /\ op.kind \in {"create", "write", "delete", "move"}
    BY <1>5 DEF Check, Calls, CallTypeOK
  <2>2. /\ op.kind \in {"create", "write"} => begun = "temp"
        /\ op.kind = "delete" => begun = "verify"
        /\ op.kind = "move" => begun = "link"
    BY <2>1
  <2>3. op' = [op EXCEPT !.clean = TRUE, !.pc = begun] /\ UNCHANGED inodes
    BY <1>5 DEF Check, End, counts
  <2> HIDE DEF begun
  <2>4. /\ op'.pc = begun /\ op'.kind = op.kind /\ op'.path = op.path /\ op'.dest = op.dest
        /\ op'.expected = op.expected /\ op'.temp = op.temp
    BY <2>1, <2>3 DEF Calls
  <2> QED
    BY <1>5, <2>1, <2>2, <2>3, <2>4 DEF Check, CallShape, TempSynced, Puts
<1>6. CASE PickName /\ op' # Idle
  <2>1. op \in Calls /\ op.kind = "attach" /\ UNCHANGED inodes
    BY <1>6 DEF PickName, CallTypeOK, counts
  <2>2. PICK p : op' = IF name[p] = 0
                       THEN [op EXCEPT !.path = p, !.dest = p, !.pc = "temp", !.clean = TRUE, !.tries = @ + 1]
                       ELSE [op EXCEPT !.taken = @ \union {p}, !.tries = @ + 1]
    BY <1>6, Zenon DEF PickName, End
  <2>3. CASE name[p] = 0
    BY <1>6, <2>1, <2>2, <2>3 DEF Calls, CallShape, TempSynced, Puts, PickName
  <2>4. CASE name[p] # 0
    BY <1>6, <2>1, <2>2, <2>4 DEF Calls, CallShape, TempSynced, Puts, PickName
  <2> QED
    BY <2>3, <2>4
<1>7. CASE OpenTemp
  <2>1. op \in Calls /\ op.kind \in Puts /\ inodes' = inodes + 1 /\ op.pc = "temp"
    BY <1>7 DEF OpenTemp, NewInode, CallTypeOK, CallShape
  <2>2. /\ op'.pc = "sync" /\ op'.kind = op.kind /\ op'.path = op.path /\ op'.dest = op.dest
        /\ op'.expected = op.expected /\ op'.temp = inodes + 1
    BY <1>7, <2>1 DEF OpenTemp, Calls
  <2> QED
    BY <2>1, <2>2 DEF CallShape, TempSynced, TreeTypeOK
<1>8. CASE SyncTemp
  <2>1. op \in Calls /\ op.kind \in Puts /\ op.pc = "sync"
    BY <1>8 DEF SyncTemp, CallTypeOK, CallShape
  <2>2. /\ op'.pc = IF op.kind = "write" THEN "verify" ELSE "commit"
        /\ op'.kind = op.kind /\ op'.path = op.path /\ op'.dest = op.dest
        /\ op'.expected = op.expected /\ op'.temp = op.temp
    BY <1>8, <2>1 DEF SyncTemp, Calls
  <2> QED
    BY <1>8, <2>1, <2>2 DEF SyncTemp, CallShape, TempSynced, Puts, counts
<1>9. CASE Verify /\ op' # Idle
  <2>1. op \in Calls /\ op.pc = "verify" /\ UNCHANGED <<inodes, whole>>
    BY <1>9 DEF Verify, CallTypeOK, counts
  <2>2. op' = [op EXCEPT !.pc = "commit", !.clean = TRUE]
    BY <1>9 DEF Verify, End
  <2>3. /\ op'.pc = "commit" /\ op'.kind = op.kind /\ op'.path = op.path /\ op'.dest = op.dest
        /\ op'.expected = op.expected /\ op'.temp = op.temp
    BY <2>1, <2>2 DEF Calls
  <2> QED
    BY <2>1, <2>3 DEF CallShape, TempSynced, Puts
<1>10. CASE LinkTemp /\ op' # Idle
  <2> DEFINE taken == op.taken \union {op.path}
  <2>1. op \in Calls /\ op.kind = "attach" /\ UNCHANGED inodes
    BY <1>10 DEF LinkTemp, End, CallTypeOK, counts
  <2>2. op' = [op EXCEPT !.pc = "check", !.taken = taken, !.temp = 0]
    BY <1>10 DEF LinkTemp, End
  <2> HIDE DEF taken
  <2>3. /\ op'.pc = "check" /\ op'.kind = op.kind /\ op'.path = op.path /\ op'.dest = op.dest
        /\ op'.expected = op.expected /\ op'.temp = 0
    BY <2>1, <2>2 DEF Calls
  <2> QED
    BY <1>10, <2>1, <2>3 DEF LinkTemp, CallShape, TempSynced, TreeTypeOK
<1>11. CASE (LinkDest \/ VerifyMove \/ DropSource) /\ op' # Idle
  <2>1. op \in Calls /\ op.kind = "move" /\ UNCHANGED inodes
    BY <1>11 DEF LinkDest, VerifyMove, DropSource, CallTypeOK, CallShape, counts
  <2>2. \E s \in {"verifyDest", "verifySource", "drop", "undo"} : op' = [op EXCEPT !.pc = s]
    BY <1>11, Zenon DEF LinkDest, VerifyMove, DropSource, End
  <2>3. /\ op'.pc \in {"verifyDest", "verifySource", "drop", "undo"}
        /\ op'.kind = op.kind /\ op'.path = op.path /\ op'.dest = op.dest
        /\ op'.expected = op.expected /\ op'.temp = op.temp
    BY <2>1, <2>2 DEF Calls
  <2> QED
    BY <1>11, <2>1, <2>3 DEF LinkDest, VerifyMove, DropSource, CallShape, TempSynced, Puts
<1>12. CASE op' = Idle /\ (Check \/ PickName \/ Verify \/ LinkTemp \/ LinkDest \/ VerifyMove \/ DropSource)
  BY <1>2, <1>12 DEF Check, PickName, Verify, LinkTemp, LinkDest, VerifyMove, DropSource, counts
<1> QED
  BY <1>1, <1>2, <1>3, <1>4, <1>5, <1>6, <1>7, <1>8, <1>9, <1>10, <1>11, <1>12
     DEF FilesNext, ServiceStep

\* A temporary file is nobody's file: to open one changes no path's version.
LEMMA TempUnseen ==
  ASSUME TreeTypeOK, OpenTemp, NEW p \in Paths
  PROVE  VersionAt(p)' = VersionAt(p)
<1>1. name[p] # inodes + 1 /\ name' = name
  BY DEF OpenTemp, TreeTypeOK
<1>2. name[p] # 0 => name[p] \in 1..MaxInodes
  BY FilesAssumption DEF TreeTypeOK
<1> QED
  BY <1>1, <1>2 DEF OpenTemp, VersionAt, TreeTypeOK

\* A clean claim is held at every stage: the call's own steps look before they claim,
\* and whoever changes a path of the claim makes it unclean.
LEMMA HeldStep ==
  ASSUME FilesInv, FilesNext
  PROVE  Held'
<1> USE DEF FilesInv, FilesTypeOK
<1>1. ASSUME op'.pc \in {"idle", "check"}
      PROVE  Held'
  BY <1>1 DEF Held
<1>2. CASE op' = Idle
  BY <1>1, <1>2 DEF Idle
<1>3. ASSUME NEW kind \in {"create", "write", "delete", "move", "attach"}, NEW p \in Paths, NEW q \in Paths,
             Begin(kind, p, q)
      PROVE  Held'
  BY <1>1, <1>3 DEF Begin
<1>4. ASSUME op \in Calls, op.pc # "check", op'.path = op.path, op'.expected = op.expected,
             op'.clean = op.clean, VersionAt(op.path)' = VersionAt(op.path)
      PROVE  Held'
  BY <1>4 DEF Held, VersionAt, Calls
<1>5. CASE Check /\ op' # Idle
  <2> DEFINE begun == CASE op.kind \in {"create", "write"} -> "temp"
                        [] op.kind = "delete" -> "verify"
                        [] op.kind = "move" -> "link"
  <2>1. op \in Calls /\ VersionAt(op.path) = op.expected /\ UNCHANGED <<name, body>>
    BY <1>5 DEF Check, End, CallTypeOK
  <2>2. op' = [op EXCEPT !.clean = TRUE, !.pc = begun]
    BY <1>5 DEF Check, End
  <2> HIDE DEF begun
  <2>3. op'.path = op.path /\ op'.expected = op.expected
    BY <2>1, <2>2 DEF Calls
  <2> QED
    BY <2>1, <2>3 DEF Held, VersionAt
<1>6. CASE PickName /\ op' # Idle
  <2>1. op \in Calls /\ op.expected = 0 /\ op.pc = "check" /\ UNCHANGED <<name, body>>
    BY <1>6 DEF PickName, CallTypeOK, CallShape
  <2>2. PICK p : op' = IF name[p] = 0
                       THEN [op EXCEPT !.path = p, !.dest = p, !.pc = "temp", !.clean = TRUE, !.tries = @ + 1]
                       ELSE [op EXCEPT !.taken = @ \union {p}, !.tries = @ + 1]
    BY <1>6, Zenon DEF PickName, End
  <2>3. CASE name[p] = 0
    <3>1. op'.path = p /\ op'.expected = 0
      BY <2>1, <2>2, <2>3 DEF Calls
    <3> QED
      BY <2>1, <2>3, <3>1 DEF Held, VersionAt
  <2>4. CASE name[p] # 0
    <3>1. op'.pc = "check"
      BY <2>1, <2>2, <2>4 DEF Calls
    <3> QED
      BY <1>1, <3>1
  <2> QED
    BY <2>3, <2>4
<1>7. CASE OpenTemp
  <2>1. op \in Calls
    BY <1>7 DEF OpenTemp, CallTypeOK
  <2>2. op'.path = op.path /\ op'.expected = op.expected /\ op'.clean = op.clean
    BY <1>7, <2>1 DEF OpenTemp, Calls
  <2>3. VersionAt(op.path)' = VersionAt(op.path)
    BY <1>7, <2>1, <2>2, TempUnseen DEF Calls, VersionAt
  <2> QED
    BY <1>4, <1>7, <2>1, <2>2, <2>3 DEF OpenTemp
<1>8. CASE SyncTemp
  <2>1. op \in Calls /\ UNCHANGED <<name, body>>
    BY <1>8 DEF SyncTemp, CallTypeOK
  <2>2. op'.path = op.path /\ op'.expected = op.expected /\ op'.clean = op.clean
    BY <1>8, <2>1 DEF SyncTemp, Calls
  <2> QED
    BY <1>4, <1>8, <2>1, <2>2 DEF SyncTemp, VersionAt
<1>9. CASE Verify /\ op' # Idle
  <2>1. op \in Calls /\ VersionAt(op.path) = op.expected /\ UNCHANGED <<name, body>>
    BY <1>9 DEF Verify, End, CallTypeOK
  <2>2. op' = [op EXCEPT !.pc = "commit", !.clean = TRUE]
    BY <1>9 DEF Verify, End
  <2>3. op'.path = op.path /\ op'.expected = op.expected
    BY <2>1, <2>2 DEF Calls
  <2> QED
    BY <2>1, <2>3 DEF Held, VersionAt
<1>10. CASE LinkTemp /\ op' # Idle
  <2> DEFINE taken == op.taken \union {op.path}
  <2>1. op \in Calls /\ op' = [op EXCEPT !.pc = "check", !.taken = taken, !.temp = 0]
    BY <1>10 DEF LinkTemp, End, CallTypeOK
  <2> HIDE DEF taken
  <2>2. op'.pc = "check"
    BY <2>1 DEF Calls
  <2> QED
    BY <1>1, <2>2
<1>11. CASE (LinkDest \/ VerifyMove \/ DropSource) /\ op' # Idle
  <2>1. op \in Calls /\ op.pc # "check" /\ op.path # op.dest /\ UNCHANGED body
    BY <1>11 DEF LinkDest, VerifyMove, DropSource, CallTypeOK, CallShape
  <2>2. \E s \in {"verifyDest", "verifySource", "drop", "undo"} : op' = [op EXCEPT !.pc = s]
    BY <1>11, Zenon DEF LinkDest, VerifyMove, DropSource, End
  <2>3. op'.path = op.path /\ op'.expected = op.expected /\ op'.clean = op.clean
    BY <2>1, <2>2 DEF Calls
  <2>4. name'[op.path] = name[op.path]
    BY <1>11, <2>1 DEF LinkDest, VerifyMove, DropSource, End, Calls, TreeTypeOK
  <2> QED
    BY <1>4, <2>1, <2>3, <2>4 DEF VersionAt
<1>12. CASE EditorStep
  <2>1. op' = Touched(name', body')
    BY <1>12 DEF EditorStep, SaveInPlace, SaveByRename, EditorMoves
  <2>2. /\ op'.pc = op.pc /\ op'.path = op.path /\ op'.expected = op.expected
        /\ op.pc # "idle" => IF Untouched(name', body') THEN op'.clean = op.clean ELSE op'.clean = FALSE
    BY <2>1, TouchedCall
  <2>3. Untouched(name', body') => VersionAt(op.path)' = VersionAt(op.path)
    BY <2>2 DEF Untouched, VersionAt
  <2> QED
    BY <2>2, <2>3 DEF Held
<1>13. CASE FailTemp \/ Replace \/ Unlink \/ UndoMove \/ CrashFiles
  BY <1>2, <1>13 DEF FailTemp, Replace, Unlink, UndoMove, CrashFiles, End
<1> QED
  BY <1>2, <1>3, <1>5, <1>6, <1>7, <1>8, <1>9, <1>10, <1>11, <1>12, <1>13 DEF FilesNext, ServiceStep

\* The files' invariant is inductive, alone and under any step that leaves them.
LEMMA FilesStep ==
  ASSUME FilesInv, FilesNext \/ UNCHANGED fileVars
  PROVE  FilesInv'
<1>1. CASE FilesNext
  BY <1>1, CallTypeStep, TreeStep, CallStep, HeldStep DEF FilesInv, FilesTypeOK
<1>2. CASE UNCHANGED fileVars
  BY <1>2 DEF fileVars, FilesInv, FilesTypeOK, TreeTypeOK, CallTypeOK, Written, VisibleIsWhole,
              CallShape, TempSynced, Held, VersionAt
<1> QED
  BY <1>1, <1>2

\* The Vault starts with whole files and no call under way.
LEMMA FilesStart ==
  ASSUME FilesInit
  PROVE  FilesInv
<1> USE FilesAssumption DEF FilesInit
<1>1. TreeTypeOK /\ Written /\ VisibleIsWhole
  BY DEF TreeTypeOK, Written, VisibleIsWhole
<1>2. CallTypeOK /\ CallShape /\ TempSynced /\ Held
  BY DEF CallTypeOK, CallShape, TempSynced, Held, Idle
<1> QED
  BY <1>1, <1>2 DEF FilesInv, FilesTypeOK

-----------------------------------------------------------------------------
(* The guarded store *)

\* The claim of a call that was granted, field by field.
ClaimShape ==
  /\ Claim \in Abstract!Claims /\ Claim # Abstract!NoClaim
  /\ Claim.path = op.path /\ Claim.dest = op.dest /\ Claim.expected = op.expected
  /\ Claim.clean = op.clean
  /\ op.kind \in Puts => Claim.kind = "put"
  /\ op.kind = "delete" => Claim.kind = "delete"
  /\ op.kind = "move" => Claim.kind = IF op.pc = "link" THEN "move" ELSE "linked"

\* A call that was granted has such a claim.
LEMMA ClaimFields == FilesInv /\ Granted => ClaimShape
<1> SUFFICES ASSUME FilesInv, Granted
             PROVE  ClaimShape
  OBVIOUS
<1>1. op \in Calls /\ op.pc # "idle"
  BY DEF FilesInv, FilesTypeOK, CallTypeOK, Granted
<1>2. /\ op.kind \in Puts => ClaimKind = "put"
      /\ op.kind = "delete" => ClaimKind = "delete"
      /\ op.kind = "move" => ClaimKind = IF op.pc = "link" THEN "move" ELSE "linked"
  BY <1>1 DEF Puts, ClaimKind
<1>3. Claim = [kind |-> ClaimKind, path |-> op.path, dest |-> op.dest, expected |-> op.expected, clean |-> op.clean]
  BY DEF Claim
<1>4. op.kind \in Puts \union {"delete", "move"}
  BY <1>1 DEF Calls, Puts
<1>5. /\ op.kind = "move" <=> op.path # op.dest
      /\ op.kind \notin {"create", "attach"} => op.expected # 0
  BY <1>1 DEF FilesInv, CallShape
<1>6. Claim \in [kind : {"put", "delete", "move", "linked"}, path : Paths, dest : Paths,
                 expected : 0..MaxVersions, clean : BOOLEAN]
  BY <1>1, <1>2, <1>3, <1>4 DEF Calls
<1>7. Claim.kind = ClaimKind /\ Claim.path = op.path /\ Claim.dest = op.dest
      /\ Claim.expected = op.expected /\ Claim.clean = op.clean
  BY <1>3
<1>8. Claim \in Abstract!Claims
  BY <1>2, <1>4, <1>5, <1>6, <1>7 DEF Abstract!Claims, Puts
<1>9. Claim # Abstract!NoClaim
  <2>1. Abstract!NoClaim.kind = "none"
    BY DEF Abstract!NoClaim
  <2> QED
    BY <1>2, <1>4, <1>7, <2>1
<1> QED
  BY <1>2, <1>7, <1>8, <1>9 DEF ClaimShape

\* So it has after a step.
LEMMA ClaimFieldsNext == (FilesInv /\ Granted => ClaimShape)'
BY ClaimFields, PTL

\* A call that was not granted claims nothing.
LEMMA NoClaimYet ==
  ASSUME ~Granted
  PROVE  Claim = Abstract!NoClaim /\ Claim.kind = "none"
BY DEF Claim, Abstract!NoClaim

\* A step of a call that leaves its fields leaves its claim.
LEMMA SameClaim ==
  ASSUME Granted, Granted', op'.kind = op.kind, op'.path = op.path, op'.dest = op.dest,
         op'.expected = op.expected, op.pc = "link" <=> op'.pc = "link"
  PROVE  /\ Claim = [Claim' EXCEPT !.clean = op.clean]
         /\ Claim' = [Claim EXCEPT !.clean = op'.clean]
         /\ op'.clean = op.clean => Claim' = Claim
<1>1. ClaimKind' = ClaimKind
  BY DEF ClaimKind
<1> QED
  BY <1>1 DEF Claim

\* What a path that takes another inode does to the store.
LEMMA StoreRenamed ==
  ASSUME TreeTypeOK, NEW p \in Paths, NEW i, name' = [name EXCEPT ![p] = i], body' = body
  PROVE  Store' = [Store EXCEPT ![p] = IF i = 0 THEN 0 ELSE body[i]]
<1>1. ASSUME NEW r \in Paths
      PROVE  Store'[r] = [Store EXCEPT ![p] = IF i = 0 THEN 0 ELSE body[i]][r]
  BY <1>1 DEF Store, VersionAt, TreeTypeOK
<1> QED
  BY <1>1 DEF Store

\* The store depends on the names and the inodes only.
LEMMA StoreKept ==
  ASSUME UNCHANGED <<name, body>>
  PROVE  Store' = Store
BY DEF Store, VersionAt

\* A call that gives up leaves the store and withdraws whatever it had claimed.
LEMMA GivingUp ==
  ASSUME FilesInv, UNCHANGED <<name, body>>, ~Granted'
  PROVE  Abstract!StoreNext
<1>1. Store' = Store /\ Claim' = Abstract!NoClaim
  BY StoreKept, NoClaimYet DEF Claim, Abstract!NoClaim
<1>2. CASE Claim.kind = "linked"
  BY <1>1, <1>2 DEF Abstract!StoreNext, Abstract!Settle
<1>3. CASE Claim.kind # "linked"
  BY <1>1, <1>3 DEF Abstract!StoreNext, Abstract!Withdraw
<1> QED
  BY <1>2, <1>3

\* A look that finds the version the caller named is a grant.
LEMMA Granting ==
  ASSUME FilesInv, FilesInv', UNCHANGED <<name, body>>, Granted', op'.clean,
         op'.kind = "move" => op'.pc = "link",
         \/ ~Granted
         \/ /\ Granted /\ op'.kind = op.kind /\ op'.path = op.path /\ op'.dest = op.dest
            /\ op'.expected = op.expected /\ (op.pc = "link" <=> op'.pc = "link")
  PROVE  Abstract!Grant
<1>1. Store' = Store
  BY StoreKept
<1>2. op' \in Calls
  BY DEF FilesInv, FilesTypeOK, CallTypeOK, Granted
<1>3. /\ Claim' \in Abstract!Claims /\ Claim'.clean /\ Claim'.kind # "linked"
      /\ Claim'.path = op'.path /\ Claim'.expected = op'.expected
  BY <1>2, ClaimFieldsNext DEF ClaimShape, Calls, Puts
<1>4. Store[Claim'.path] = Claim'.expected
  BY <1>2, <1>3 DEF FilesInv, Held, Granted, Store, VersionAt, Calls
<1>5. Claim \in {Abstract!NoClaim} \union {[Claim' EXCEPT !.clean = b] : b \in BOOLEAN}
  <2>1. CASE ~Granted
    BY <2>1, NoClaimYet
  <2>2. CASE Granted
    <3>1. op \in Calls
      BY <2>2 DEF FilesInv, FilesTypeOK, CallTypeOK, Granted
    <3>2. op.clean \in BOOLEAN
      BY <3>1 DEF Calls
    <3>3. Claim = [Claim' EXCEPT !.clean = op.clean]
      BY <2>2, SameClaim
    <3> QED
      BY <3>2, <3>3
  <2> QED
    BY <2>1, <2>2
<1> QED
  BY <1>1, <1>3, <1>4, <1>5 DEF Abstract!Grant

\* An editor's step is somebody else's write.
LEMMA Editing ==
  ASSUME FilesInv, FilesInv', EditorStep
  PROVE  Abstract!Touch
<1>1. op' = Touched(name', body')
  BY DEF EditorStep, SaveInPlace, SaveByRename, EditorMoves
<1>2. Store' \in [Paths -> 0..MaxVersions]
  <2>1. name' \in [Paths -> 0..inodes'] /\ body' \in [1..MaxInodes -> 0..versions']
        /\ inodes' \in 1..MaxInodes /\ versions' \in 1..MaxVersions
    BY DEF FilesInv, FilesTypeOK, TreeTypeOK
  <2>2. \A p \in Paths : VersionAt(p)' \in 0..MaxVersions
    BY <2>1, FilesAssumption DEF VersionAt
  <2> QED
    BY <2>2 DEF Store
<1>3. CASE ~Granted
  <2>1. ~Granted'
    BY <1>1, <1>3, TouchedCall DEF Granted, FilesInv, FilesTypeOK
  <2> QED
    BY <1>2, <1>3, <2>1, NoClaimYet DEF Abstract!Touch, Claim, Abstract!NoClaim
<1>4. CASE Granted
  <2>1. /\ Granted' /\ op'.kind = op.kind /\ op'.path = op.path /\ op'.dest = op.dest
        /\ op'.expected = op.expected /\ (op.pc = "link" <=> op'.pc = "link")
        /\ IF Untouched(name', body') THEN op'.clean = op.clean ELSE op'.clean = FALSE
    BY <1>1, <1>4, TouchedCall DEF Granted, FilesInv, FilesTypeOK
  <2>2. op \in Calls
    BY <1>4 DEF FilesInv, FilesTypeOK, CallTypeOK, Granted
  <2>3. Claim # Abstract!NoClaim /\ Claim.path = op.path /\ Claim.dest = op.dest
    BY <1>4, ClaimFields DEF ClaimShape
  <2>4. Untouched(name', body') <=> \A p \in {Claim.path, Claim.dest} : Store'[p] = Store[p]
    BY <2>2, <2>3 DEF Untouched, Store, VersionAt, Calls
  <2>5. Untouched(name', body') => Claim' = Claim
    BY <1>4, <2>1, SameClaim
  <2>6. ~Untouched(name', body') => Claim' = [Claim EXCEPT !.clean = FALSE]
    BY <1>4, <2>1, SameClaim
  <2> QED
    BY <1>2, <2>3, <2>4, <2>5, <2>6 DEF Abstract!Touch
<1> QED
  BY <1>3, <1>4

\* Every step of the file operations is a step of the guarded store, or none.
LEMMA StoreStep ==
  ASSUME FilesInv, FilesInv', FilesNext
  PROVE  Abstract!StoreNext \/ UNCHANGED Abstract!storeVars
<1> USE DEF FilesInv, FilesTypeOK
<1>1. ASSUME NEW kind \in {"create", "write", "delete", "move", "attach"}, NEW p \in Paths, NEW q \in Paths,
             Begin(kind, p, q)
      PROVE  Abstract!StoreNext
  BY <1>1, GivingUp DEF Begin, Granted
<1>2. CASE op' = Idle /\ UNCHANGED <<name, body>>
  BY <1>2, GivingUp DEF Idle, Granted
<1>3. CASE FailTemp \/ CrashFiles
  BY <1>2, <1>3 DEF FailTemp, CrashFiles, End
<1>4. CASE Check /\ op' # Idle
  <2> DEFINE begun == CASE op.kind \in {"create", "write"} -> "temp"
                        [] op.kind = "delete" -> "verify"
                        [] op.kind = "move" -> "link"
  <2>1. /\ op \in Calls /\ op.pc = "check" /\ op.kind # "attach" /\ UNCHANGED <<name, body>>
        /\ op' = [op EXCEPT !.clean = TRUE, !.pc = begun]
    BY <1>4 DEF Check, End, CallTypeOK
  <2>2. /\ op.kind \in {"create", "write"} => begun = "temp"
        /\ op.kind = "delete" => begun = "verify"
        /\ op.kind = "move" => begun = "link"
    OBVIOUS
  <2> HIDE DEF begun
  <2>3. op'.pc = begun /\ op'.kind = op.kind /\ op'.clean
    BY <2>1 DEF Calls
  <2>4. Granted' /\ ~Granted /\ (op'.kind = "move" => op'.pc = "link")
    BY <2>1, <2>2, <2>3 DEF Granted, Calls
  <2> QED
    BY <2>1, <2>3, <2>4, Granting DEF Abstract!StoreNext
<1>5. CASE PickName /\ op' # Idle
  <2>1. op \in Calls /\ op.kind = "attach" /\ ~Granted /\ UNCHANGED <<name, body>>
    BY <1>5 DEF PickName, CallTypeOK, Granted
  <2>2. PICK p : op' = IF name[p] = 0
                       THEN [op EXCEPT !.path = p, !.dest = p, !.pc = "temp", !.clean = TRUE, !.tries = @ + 1]
                       ELSE [op EXCEPT !.taken = @ \union {p}, !.tries = @ + 1]
    BY <1>5, Zenon DEF PickName, End
  <2>3. CASE name[p] = 0
    <3>1. op'.pc = "temp" /\ op'.kind = "attach" /\ op'.clean
      BY <2>1, <2>2, <2>3 DEF Calls
    <3> QED
      BY <2>1, <3>1, Granting DEF Abstract!StoreNext, Granted
  <2>4. CASE name[p] # 0
    <3>1. op'.pc = "check"
      BY <1>5, <2>1, <2>2, <2>4 DEF PickName, Calls
    <3> QED
      BY <2>1, <3>1, GivingUp DEF Granted
  <2> QED
    BY <2>3, <2>4
<1>6. CASE OpenTemp
  <2>1. op \in Calls /\ op.pc = "temp"
    BY <1>6 DEF OpenTemp, CallTypeOK
  <2>2. /\ op'.pc = "sync" /\ op'.kind = op.kind /\ op'.path = op.path /\ op'.dest = op.dest
        /\ op'.expected = op.expected /\ op'.clean = op.clean
    BY <1>6, <2>1 DEF OpenTemp, Calls
  <2>3. Claim' = Claim
    BY <2>1, <2>2, SameClaim DEF Granted
  <2>4. Store' = Store
    BY <1>6, TempUnseen DEF Store
  <2> QED
    BY <2>3, <2>4 DEF Abstract!storeVars
<1>7. CASE SyncTemp
  <2>1. op \in Calls /\ op.pc = "sync" /\ UNCHANGED <<name, body>>
    BY <1>7 DEF SyncTemp, CallTypeOK
  <2>2. /\ op'.pc \in {"verify", "commit"} /\ op'.kind = op.kind /\ op'.path = op.path /\ op'.dest = op.dest
        /\ op'.expected = op.expected /\ op'.clean = op.clean
    BY <1>7, <2>1 DEF SyncTemp, Calls
  <2>3. Claim' = Claim
    BY <2>1, <2>2, SameClaim DEF Granted
  <2> QED
    BY <2>1, <2>3, StoreKept DEF Abstract!storeVars
<1>8. CASE Verify /\ op' # Idle
  <2>1. /\ op \in Calls /\ op.pc = "verify" /\ op.kind # "move" /\ UNCHANGED <<name, body>>
        /\ op' = [op EXCEPT !.pc = "commit", !.clean = TRUE]
    BY <1>8 DEF Verify, End, CallTypeOK, CallShape
  <2>2. /\ op'.pc = "commit" /\ op'.kind = op.kind /\ op'.path = op.path /\ op'.dest = op.dest
        /\ op'.expected = op.expected /\ op'.clean
    BY <2>1 DEF Calls
  <2>3. Granted /\ Granted'
    BY <2>1, <2>2 DEF Granted
  <2> QED
    BY <2>1, <2>2, <2>3, Granting DEF Abstract!StoreNext
<1>9. CASE EditorStep
  BY <1>9, Editing DEF Abstract!StoreNext
<1>10. CASE Replace \/ (LinkTemp /\ name' # name)
  <2>1. /\ op \in Calls /\ Granted /\ op.kind \in Puts /\ op.temp \in whole /\ op.pc = "commit"
        /\ op' = Idle /\ UNCHANGED body /\ name' = [name EXCEPT ![op.path] = op.temp]
        /\ op.kind \in {"create", "attach"} => name[op.path] = 0
    BY <1>10 DEF Replace, LinkTemp, End, CallTypeOK, TempSynced, Puts, Granted
  <2>2. /\ op.temp \in 1..inodes /\ inodes \in 1..MaxInodes /\ versions \in 1..MaxVersions
        /\ body \in [1..MaxInodes -> 0..versions]
    BY <2>1 DEF TreeTypeOK
  <2>3. op.temp \in 1..MaxInodes
    BY <2>2, FilesAssumption
  <2>4. body[op.temp] # 0 /\ body[op.temp] \in 0..versions
    BY <2>2, <2>3 DEF Written
  <2>5. body[op.temp] \in (0..MaxVersions) \ {0}
    BY <2>2, <2>4, FilesAssumption
  <2>6. op.path \in Paths /\ op.temp # 0 /\ body[op.temp] \in (0..MaxVersions) \ {0}
    BY <2>1, <2>2, <2>5 DEF Calls
  <2>7. Store' = [Store EXCEPT ![op.path] = body[op.temp]]
    BY <2>1, <2>6, StoreRenamed
  <2>8. Claim.kind = "put" /\ Claim.path = op.path /\ Claim.expected = op.expected
    BY <2>1, ClaimFields DEF ClaimShape
  <2>9. op.expected = 0 => Store[op.path] = 0
    BY <2>1, <2>6 DEF CallShape, Store, VersionAt
  <2>10. Claim' = Abstract!NoClaim
    BY <2>1 DEF Idle, Granted, Claim, Abstract!NoClaim
  <2> QED
    BY <2>6, <2>7, <2>8, <2>9, <2>10 DEF Abstract!StoreNext, Abstract!Put
<1>11. CASE LinkTemp /\ name' = name /\ op' # Idle
  <2> DEFINE taken == op.taken \union {op.path}
  <2>1. op \in Calls /\ op' = [op EXCEPT !.pc = "check", !.taken = taken, !.temp = 0] /\ UNCHANGED body
    BY <1>11 DEF LinkTemp, End, CallTypeOK
  <2> HIDE DEF taken
  <2>2. op'.pc = "check"
    BY <2>1 DEF Calls
  <2> QED
    BY <1>11, <2>1, <2>2, GivingUp DEF Granted
<1>12. CASE Unlink
  <2>1. /\ op \in Calls /\ Granted /\ op.kind = "delete" /\ op' = Idle /\ UNCHANGED body
        /\ name' = [name EXCEPT ![op.path] = 0]
    BY <1>12 DEF Unlink, End, CallTypeOK, Granted
  <2>2. op.path \in Paths
    BY <2>1 DEF Calls
  <2>3. Store' = [Store EXCEPT ![op.path] = 0]
    BY <2>1, <2>2, StoreRenamed
  <2>4. Claim.kind = "delete" /\ Claim.path = op.path
    BY <2>1, ClaimFields DEF ClaimShape
  <2>5. Claim' = Abstract!NoClaim
    BY <2>1 DEF Idle, Granted, Claim, Abstract!NoClaim
  <2> QED
    BY <2>3, <2>4, <2>5 DEF Abstract!StoreNext, Abstract!Delete
<1>13. CASE LinkDest /\ op' # Idle
  <2>1. /\ op \in Calls /\ Granted /\ op.pc = "link" /\ op.kind = "move" /\ UNCHANGED body
        /\ name[op.path] # 0 /\ name[op.dest] = 0 /\ name' = [name EXCEPT ![op.dest] = name[op.path]]
        /\ op' = [op EXCEPT !.pc = "verifyDest"]
    BY <1>13 DEF LinkDest, End, CallTypeOK, CallShape, Granted
  <2>2. op.path \in Paths /\ op.dest \in Paths
    BY <2>1 DEF Calls
  <2>3. name[op.path] \in 1..inodes
    BY <2>1, <2>2 DEF TreeTypeOK
  <2>4. body[name[op.path]] # 0
    BY <2>3 DEF Written
  <2>5. Store' = [Store EXCEPT ![op.dest] = Store[op.path]]
    BY <2>1, <2>2, StoreRenamed DEF Store, VersionAt
  <2>6. Store[op.dest] = 0 /\ Store[op.path] # 0
    BY <2>1, <2>2, <2>4 DEF Store, VersionAt
  <2>7. Claim.kind = "move" /\ Claim.path = op.path /\ Claim.dest = op.dest
    BY <2>1, ClaimFields DEF ClaimShape
  <2>8. Claim' = [Claim EXCEPT !.kind = "linked"]
    <3>1. /\ op'.pc = "verifyDest" /\ op'.kind = op.kind /\ op'.path = op.path /\ op'.dest = op.dest
          /\ op'.expected = op.expected /\ op'.clean = op.clean
      BY <2>1 DEF Calls
    <3>2. ClaimKind' = "linked"
      BY <2>1, <3>1 DEF ClaimKind
    <3> QED
      BY <2>1, <3>1, <3>2 DEF Claim, Granted
  <2> QED
    BY <2>5, <2>6, <2>7, <2>8 DEF Abstract!StoreNext, Abstract!Link
<1>14. CASE VerifyMove \/ (DropSource /\ op' # Idle)
  <2>1. op \in Calls /\ Granted /\ op.pc # "link" /\ UNCHANGED <<name, body>>
    BY <1>14 DEF VerifyMove, DropSource, End, CallTypeOK, Granted
  <2>2. \E s \in {"verifySource", "drop", "undo"} : op' = [op EXCEPT !.pc = s]
    BY <1>14, Zenon DEF VerifyMove, DropSource, End
  <2>3. /\ op'.pc \in {"verifySource", "drop", "undo"} /\ op'.kind = op.kind /\ op'.path = op.path
        /\ op'.dest = op.dest /\ op'.expected = op.expected /\ op'.clean = op.clean
    BY <2>1, <2>2 DEF Calls
  <2>4. Claim' = Claim
    BY <2>1, <2>3, SameClaim DEF Granted
  <2> QED
    BY <2>1, <2>4, StoreKept DEF Abstract!storeVars
<1>15. CASE UndoMove \/ (DropSource /\ op' = Idle)
  <2>1. /\ op \in Calls /\ Granted /\ op.kind = "move" /\ op.pc # "link" /\ op' = Idle /\ UNCHANGED body
        /\ \E p \in {op.path, op.dest} : name' = [name EXCEPT ![p] = 0]
    BY <1>15 DEF UndoMove, DropSource, End, CallTypeOK, CallShape, Granted, Idle
  <2>2. op.path \in Paths /\ op.dest \in Paths
    BY <2>1 DEF Calls
  <2>3. Claim.kind = "linked" /\ Claim.path = op.path /\ Claim.dest = op.dest
    BY <2>1, ClaimFields DEF ClaimShape
  <2>4. \E p \in {op.path, op.dest} : Store' = [Store EXCEPT ![p] = 0]
    BY <2>1, <2>2, StoreRenamed
  <2>5. Claim' = Abstract!NoClaim
    BY <2>1 DEF Idle, Granted, Claim, Abstract!NoClaim
  <2> QED
    BY <2>3, <2>4, <2>5 DEF Abstract!StoreNext, Abstract!Settle
<1>16. CASE op' = Idle /\ (Check \/ PickName \/ Verify \/ (LinkTemp /\ name' = name) \/ LinkDest)
  <2>1. UNCHANGED <<name, body>>
    BY <1>16 DEF Check, PickName, Verify, LinkTemp, LinkDest, Idle, CallTypeOK, Calls
  <2> QED
    BY <1>2, <1>16, <2>1
<1> QED
  BY <1>1, <1>3, <1>4, <1>5, <1>6, <1>7, <1>8, <1>9, <1>10, <1>11, <1>12, <1>13, <1>14, <1>15, <1>16
     DEF FilesNext, ServiceStep

-----------------------------------------------------------------------------
(* The version store *)

\* The version store at rest is in one of its stages.
LEMMA RestingShot == Resting \in Shots /\ Resting.pc = "idle"
BY DEF Resting, Shots

\* A snapshot that only moves from stage to stage.
LEMMA ShotMoves ==
  ASSUME shot \in Shots,
         NEW s \in {"recover", "recovered", "commit", "mark", "publish", "clear"},
         shot' = [shot EXCEPT !.pc = s]
  PROVE  shot' \in Shots /\ shot'.pc = s /\ shot'.tree = shot.tree
BY DEF Shots

\* Every step of a snapshot keeps the invariant of the version store.
LEMMA VersionsStep ==
  ASSUME VersionsInv, TreeTypeOK, VersionsNext, UNCHANGED fileVars
  PROVE  VersionsInv'
<1> USE VersionsAssumption DEF VersionsInv, VersionsTypeOK
<1>1. ASSUME shot' \in Shots, HistoryTypeOK', Journal', HeadBound', shot'.pc # "stage",
             shot'.pc # "idle" => shot.pc # "idle" \/ LockFree
      PROVE  VersionsInv'
  BY <1>1 DEF OneHolder, LockFree, SnapshotIsConsistent, fileVars
<1>2. HistoryTypeOK /\ Journal /\ HeadBound /\ shot \in Shots
  OBVIOUS
<1>3. ASSUME NEW only \in BOOLEAN, StartShot(only)
      PROVE  VersionsInv'
  <2>1. shot' \in Shots /\ shot'.pc = "enable"
    BY <1>3 DEF StartShot, Resting, Shots
  <2>2. HistoryTypeOK' /\ Journal' /\ HeadBound'
    BY <1>2, <1>3, <2>1 DEF StartShot, LockFree, HistoryTypeOK, Journal, HeadBound, Head0
  <2> QED
    BY <1>1, <1>3, <2>1, <2>2 DEF StartShot
<1>4. CASE InitRepo
  BY <1>1, <1>2, <1>4 DEF InitRepo, HistoryTypeOK, Journal, HeadBound, Head0
<1>5. CASE EnsureConfig
  <2>1. shot' \in Shots /\ shot'.pc \in {"idle", "recover"}
    BY <1>2, <1>5, ShotMoves, RestingShot DEF EnsureConfig
  <2>2. HistoryTypeOK' /\ Journal' /\ HeadBound'
    BY <1>2, <1>5, <2>1 DEF EnsureConfig, HistoryTypeOK, Journal, HeadBound, Head0
  <2> QED
    BY <1>1, <1>5, <2>1, <2>2 DEF EnsureConfig
<1>6. CASE Recover
  <2>1. shot' \in Shots /\ shot'.pc \in {"idle", "recovered"}
    BY <1>2, <1>6, ShotMoves, RestingShot DEF Recover
  <2>2. HistoryTypeOK' /\ Journal' /\ HeadBound'
    <3>1. CASE pending[1] = "prepared" /\ commits = <<>> /\ shot' = Resting /\ UNCHANGED config
      BY <1>2, <1>6, <3>1, RestingShot DEF Recover, HistoryTypeOK, Journal, HeadBound, Head0
    <3>2. CASE config' = (IF pending[1] = "prepared" THEN Head0 ELSE pending[2]) /\ shot'.pc = "recovered"
      <4>1. config' = Head0 /\ Head0 \in 0..MaxShots /\ pending[1] # "none"
        BY <1>2, <1>6, <3>2 DEF Recover, HistoryTypeOK, Journal, Head0
      <4>2. shot.pc = "recover" /\ UNCHANGED <<repo, pending, commits, shots>>
        BY <1>6 DEF Recover
      <4> QED
        BY <1>2, <3>2, <4>1, <4>2 DEF HistoryTypeOK, Journal, HeadBound, Head0
    <3> QED
      BY <1>2, <1>6, <3>1, <3>2, ShotMoves DEF Recover
  <2> QED
    BY <1>1, <1>6, <2>1, <2>2 DEF Recover
<1>7. CASE ForgetRecovered
  <2>1. shot' \in Shots /\ shot'.pc = "recover"
    BY <1>2, <1>7, ShotMoves DEF ForgetRecovered
  <2>2. HistoryTypeOK' /\ Journal' /\ HeadBound'
    BY <1>2, <1>7, <2>1 DEF ForgetRecovered, HistoryTypeOK, Journal, HeadBound, Head0
  <2> QED
    BY <1>1, <1>7, <2>1, <2>2 DEF ForgetRecovered
<1>8. CASE BeginStaging
  <2>1. shot' \in Shots /\ shot'.pc = "stage" /\ shot'.todo = Paths /\ shot'.tree \in Trees
    <3> DEFINE copied == [p \in Paths |-> 0]
    <3>1. copied \in Trees
      BY FilesAssumption DEF Trees
    <3>2. shot' = [shot EXCEPT !.pc = "stage", !.todo = Paths, !.tree = copied, !.touched = FALSE]
      BY <1>8 DEF BeginStaging
    <3> HIDE DEF copied
    <3> QED
      BY <1>2, <3>1, <3>2 DEF Shots
  <2>2. HistoryTypeOK' /\ Journal' /\ HeadBound'
    BY <1>2, <1>8, <2>1 DEF BeginStaging, HistoryTypeOK, Journal, HeadBound, Head0
  <2> QED
    BY <1>8, <2>1, <2>2 DEF BeginStaging, OneHolder, SnapshotIsConsistent, fileVars
<1>9. ASSUME NEW p \in Paths, StageFile(p)
      PROVE  VersionsInv'
  <2> DEFINE copied == [shot.tree EXCEPT ![p] = VersionAt(p)]
  <2>1. shot.tree \in Trees /\ VersionAt(p) \in 0..MaxVersions
    BY <1>2, <1>9, FilesAssumption DEF StageFile, HeadBound, VersionAt, TreeTypeOK
  <2>2. copied \in Trees /\ copied[p] = VersionAt(p) /\ \A r \in Paths \ {p} : copied[r] = shot.tree[r]
    BY <2>1 DEF Trees
  <2>3. shot' = [shot EXCEPT !.todo = @ \ {p}, !.tree = copied]
    BY <1>9 DEF StageFile
  <2> HIDE DEF copied
  <2>4. /\ shot' \in Shots /\ shot'.pc = "stage" /\ shot'.todo = shot.todo \ {p} /\ shot'.tree = copied
        /\ shot'.touched = shot.touched
    BY ZenonT(40), <1>2, <1>9, <2>2, <2>3 DEF StageFile, Shots
  <2>5. HistoryTypeOK' /\ Journal' /\ HeadBound'
    BY <1>2, <1>9, <2>2, <2>4 DEF StageFile, HistoryTypeOK, Journal, HeadBound, Head0
  <2>6. SnapshotIsConsistent'
    BY ZenonT(40), <1>9, <2>2, <2>4 DEF StageFile, SnapshotIsConsistent, VersionAt, fileVars
  <2> QED
    BY <1>9, <2>4, <2>5, <2>6 DEF StageFile, OneHolder, fileVars
<1>10. CASE Prepare
  <2>1. shot' \in Shots /\ shot'.pc \in {"idle", "commit"} /\ (shot'.pc = "commit" => shot'.tree = shot.tree)
    BY <1>2, <1>10, ShotMoves, RestingShot DEF Prepare
  <2>2. HistoryTypeOK' /\ Journal' /\ HeadBound'
    BY <1>2, <1>10, <2>1, RestingShot, ShotMoves DEF Prepare, HistoryTypeOK, Journal, HeadBound, Head0
  <2> QED
    BY <1>1, <1>10, <2>1, <2>2 DEF Prepare
<1>11. CASE Commit
  <2>1. shot' \in Shots /\ shot'.pc = "mark"
    BY <1>2, <1>11, ShotMoves DEF Commit
  <2>2. commits' \in Seq(Trees) /\ Len(commits') = Len(commits) + 1
    BY <1>2, <1>11 DEF Commit, HistoryTypeOK, HeadBound
  <2>3. HistoryTypeOK' /\ Journal' /\ HeadBound'
    BY <1>2, <1>11, <2>1, <2>2 DEF Commit, HistoryTypeOK, Journal, HeadBound, Head0
  <2> QED
    BY <1>1, <1>11, <2>1, <2>3 DEF Commit
<1>12. CASE MarkCommitted
  <2>1. shot' \in Shots /\ shot'.pc = "publish"
    BY <1>2, <1>12, ShotMoves DEF MarkCommitted
  <2>2. HistoryTypeOK' /\ Journal' /\ HeadBound'
    BY <1>2, <1>12, <2>1 DEF MarkCommitted, HistoryTypeOK, Journal, HeadBound, Head0
  <2> QED
    BY <1>1, <1>12, <2>1, <2>2 DEF MarkCommitted
<1>13. CASE Publish
  <2>1. shot' \in Shots /\ shot'.pc = "clear"
    BY <1>2, <1>13, ShotMoves DEF Publish
  <2>2. HistoryTypeOK' /\ Journal' /\ HeadBound'
    BY <1>2, <1>13, <2>1 DEF Publish, HistoryTypeOK, Journal, HeadBound, Head0
  <2> QED
    BY <1>1, <1>13, <2>1, <2>2 DEF Publish
<1>14. CASE ClearPending \/ AbandonShot
  <2>1. shot' \in Shots /\ shot'.pc = "idle"
    BY <1>14, RestingShot DEF ClearPending, AbandonShot
  <2>2. HistoryTypeOK' /\ Journal' /\ HeadBound'
    BY <1>2, <1>14, <2>1 DEF ClearPending, AbandonShot, HistoryTypeOK, Journal, HeadBound, Head0
  <2> QED
    BY <1>1, <2>1, <2>2
<1> QED
  BY <1>3, <1>4, <1>5, <1>6, <1>7, <1>8, <1>9, <1>10, <1>11, <1>12, <1>13, <1>14 DEF VersionsNext

-----------------------------------------------------------------------------
(* The theorems *)

\* Both halves together: a snapshot leaves the files, the service waits for the
\* snapshot, and an editor that writes during a copy marks it.
LEMMA VaultStep ==
  ASSUME VaultInv, [VaultNext]_vaultVars
  PROVE  VaultInv'
<1> USE DEF VaultInv
<1>1. CASE UNCHANGED vaultVars
  <2>1. FilesInv'
    BY <1>1, FilesStep DEF vaultVars
  <2>2. VersionsInv'
    BY <1>1 DEF vaultVars, versionVars, fileVars, VersionsInv, VersionsTypeOK, HistoryTypeOK, Head0, OneHolder,
                Journal, HeadBound, SnapshotIsConsistent, VersionAt
  <2> QED
    BY <2>1, <2>2
<1>2. CASE VersionsNext /\ UNCHANGED fileVars
  BY <1>2, FilesStep, VersionsStep DEF FilesInv, FilesTypeOK
<1>3. ASSUME FilesNext, UNCHANGED <<repo, config, pending, commits, shots>>,
             shot' \in Shots, shot'.pc = shot.pc, shot'.tree = shot.tree, OneHolder',
             shot.pc = "stage" => shot'.touched
      PROVE  VaultInv'
  <2>1. FilesInv'
    BY <1>3, FilesStep
  <2>2. VersionsInv'
    BY <1>3 DEF VersionsInv, VersionsTypeOK, HistoryTypeOK, Journal, HeadBound, Head0, SnapshotIsConsistent
  <2> QED
    BY <2>1, <2>2
<1>4. CASE EditorStep /\ shot' = (IF shot.pc = "stage" THEN [shot EXCEPT !.touched = TRUE] ELSE shot)
                      /\ UNCHANGED <<repo, config, pending, commits, shots>>
  <2>1. /\ shot' \in Shots /\ shot'.pc = shot.pc /\ shot'.tree = shot.tree
        /\ shot.pc = "stage" => shot'.touched
    BY <1>4 DEF VersionsInv, VersionsTypeOK, Shots
  <2>2. op' = Touched(name', body')
    BY <1>4 DEF EditorStep, SaveInPlace, SaveByRename, EditorMoves
  <2>3. op'.pc = op.pc
    BY <2>2, TouchedCall DEF FilesInv, FilesTypeOK
  <2> QED
    BY <1>3, <1>4, <2>1, <2>3 DEF FilesNext, VersionsInv, OneHolder
<1>5. CASE (\E kind \in {"create", "write", "delete", "move", "attach"}, p, q \in Paths : Begin(kind, p, q))
           /\ LockFree /\ UNCHANGED versionVars
  <2>1. shot.pc = "idle" /\ FilesNext
    BY <1>5 DEF LockFree, FilesNext
  <2> QED
    BY <1>3, <1>5, <2>1 DEF versionVars, VersionsInv, VersionsTypeOK, OneHolder
<1>6. CASE (ServiceStep \/ CrashFiles) /\ UNCHANGED versionVars
  <2>1. op.pc # "idle"
    BY <1>6 DEF ServiceStep, CrashFiles, Check, PickName, OpenTemp, SyncTemp, FailTemp, Verify, Replace,
                LinkTemp, Unlink, LinkDest, VerifyMove, DropSource, UndoMove
  <2>2. shot.pc = "idle" /\ FilesNext
    BY <1>6, <2>1 DEF VersionsInv, OneHolder, FilesNext
  <2> QED
    BY <1>3, <1>6, <2>2 DEF versionVars, VersionsInv, VersionsTypeOK, OneHolder
<1> QED
  BY <1>1, <1>2, <1>4, <1>5, <1>6 DEF VaultNext

\* A Vault and a version store that have just been opened satisfy the invariant.
LEMMA VaultStart ==
  ASSUME VaultInit
  PROVE  VaultInv
<1>1. FilesInv
  BY FilesStart DEF VaultInit
<1>2. VersionsInv
  <2>1. /\ repo = FALSE /\ config = -1 /\ pending = <<"none", 0>> /\ commits = <<>> /\ shots = 0
        /\ shot \in Shots /\ shot.pc = "idle"
    BY RestingShot DEF VaultInit, VersionsInit
  <2>2. HistoryTypeOK
    <3>1. commits \in Seq(Trees) /\ Head0 = 0
      BY <2>1 DEF Head0
    <3>2. pending \in {"none", "prepared", "committed"} \X (0..MaxShots)
      BY <2>1, VersionsAssumption
    <3>3. config \in -1..MaxShots /\ shots \in 0..MaxShots /\ Head0 <= MaxShots
      BY <2>1, <3>1, VersionsAssumption
    <3>4. repo \in BOOLEAN
      BY <2>1
    <3> QED
      BY <3>1, <3>2, <3>3, <3>4 DEF HistoryTypeOK
  <2>3. Journal /\ HeadBound
    BY <2>1 DEF Journal, HeadBound, Head0
  <2> QED
    BY <2>1, <2>2, <2>3 DEF VersionsInv, VersionsTypeOK, OneHolder, SnapshotIsConsistent
<1> QED
  BY <1>1, <1>2 DEF VaultInv

\* VaultService and VersionStore keep their invariant, whatever the calls, the
\* editors and the crashes between their steps.
THEOREM VaultInvariance == VaultSpec => []VaultInv
BY VaultStart, VaultStep, PTL DEF VaultSpec

\* VaultService and VersionStore keep the types of their state, and the history has
\* at most one commit for every call of snapshot.
THEOREM VaultTypes == VaultSpec => []VaultTypeOK
<1>1. VaultInv => VaultTypeOK
  BY DEF VaultInv, FilesInv, VersionsInv, VaultTypeOK
<1> QED
  BY <1>1, VaultInvariance, PTL

\* atomic_write.py: whatever call is cut short wherever, a path shows only files that
\* were written to their end and synced.
THEOREM VisibleFilesAreWhole == VaultSpec => []VisibleIsWhole
<1>1. VaultInv => VisibleIsWhole
  BY DEF VaultInv, FilesInv
<1> QED
  BY <1>1, VaultInvariance, PTL

\* The double look of write, delete and move (expected_hash, before_replace): a claim
\* no editor touched names the version that is there.
THEOREM ClaimsHold == VaultSpec => []ClaimHolds
<1>1. VaultInv => ClaimHolds
  <2> SUFFICES ASSUME VaultInv, Claim # Abstract!NoClaim, Claim.clean
               PROVE  Store[Claim.path] = Claim.expected
    BY DEF ClaimHolds, Abstract!CleanClaimHolds
  <2>1. Granted
    BY NoClaimYet
  <2>2. op \in Calls /\ op.path \in Paths
    BY <2>1 DEF VaultInv, FilesInv, FilesTypeOK, CallTypeOK, Granted, Calls
  <2>3. Claim.path = op.path /\ Claim.expected = op.expected /\ op.clean
    BY <2>1, ClaimFields DEF VaultInv, ClaimShape
  <2> QED
    BY <2>1, <2>2, <2>3 DEF VaultInv, FilesInv, Held, Granted, Store
<1> QED
  BY <1>1, VaultInvariance, PTL

\* VersionStore.snapshot and _recover_pending: with the journal gone and no call under
\* way config.json names the newest commit.
THEOREM ConfigIsHead == VaultSpec => []ConfigNamesHead
<1>1. VaultInv => ConfigNamesHead
  BY DEF VaultInv, VersionsInv, Journal, ConfigNamesHead
<1> QED
  BY <1>1, VaultInvariance, PTL

\* _stage_locked: a tree that is being copied agrees with the vault as far as it got,
\* unless an editor wrote meanwhile.
THEOREM SnapshotsAreConsistent == VaultSpec => []SnapshotIsConsistent
<1>1. VaultInv => SnapshotIsConsistent
  BY DEF VaultInv, VersionsInv
<1> QED
  BY <1>1, VaultInvariance, PTL

\* The system calls of VaultService, with editors and crashes between any two of them,
\* implement the store of versions its callers are promised.
THEOREM VaultIsGuarded == VaultSpec => Guarded
<1>1. VaultInit => Abstract!StoreInit
  <2> SUFFICES ASSUME VaultInit
               PROVE  Abstract!StoreInit
    OBVIOUS
  <2>1. TreeTypeOK /\ ~Granted
    BY VaultStart DEF VaultInv, FilesInv, FilesTypeOK, VaultInit, FilesInit, Idle, Granted
  <2>2. \A p \in Paths : VersionAt(p) \in 0..MaxVersions
    BY <2>1, FilesAssumption DEF TreeTypeOK, VersionAt
  <2> QED
    BY <2>1, <2>2, NoClaimYet DEF Abstract!StoreInit, Store
<1>2. VaultInv /\ VaultInv' /\ [VaultNext]_vaultVars => [Abstract!StoreNext]_Abstract!storeVars
  <2> SUFFICES ASSUME VaultInv, VaultInv', [VaultNext]_vaultVars
               PROVE  Abstract!StoreNext \/ UNCHANGED Abstract!storeVars
    OBVIOUS
  <2>1. CASE FilesNext
    BY <2>1, StoreStep DEF VaultInv
  <2>2. CASE UNCHANGED fileVars
    BY <2>2 DEF fileVars, Abstract!storeVars, Store, VersionAt, Claim, ClaimKind, Granted
  <2>3. FilesNext \/ UNCHANGED fileVars
    BY DEF VaultNext, FilesNext, vaultVars
  <2> QED
    BY <2>1, <2>2, <2>3
<1> QED
  BY <1>1, <1>2, VaultInvariance, PTL DEF VaultSpec, Guarded, Abstract!StoreSpec

(***************************************************************************)
(* The trash                                                               *)
(*                                                                         *)
(* The safety properties of Trash for any set of paths and notes, any      *)
(* number of entries and any batch size.  The properties are not inductive *)
(* by themselves: they need to know what the thread inside the lock has    *)
(* already done (Working), which entries may lose their payload (Due) and  *)
(* that a note has one home (Homes).                                       *)
(***************************************************************************)

PurgeStages == {"purge_move", "purge_undo", "purge_sweep"}
QuarantineStages == {"quarantine", "quarantine_undo"}
TrashHolds == {"trash_measure", "trash_commit"}

\* What each stage of the lock holder has established.
Working ==
    /\ stage \in PurgeStages =>
          /\ batch \subseteq expired /\ moved \subseteq batch
          /\ \A i \in moved : loc[i] = "purge" /\ i \notin sweeping
    /\ stage \in QuarantineStages =>
          /\ moved \subseteq batch
          /\ \A i \in moved : loc[i] = "delete" /\ i \notin sweeping
    /\ stage \in {"purge_move", "purge_undo", "quarantine", "quarantine_undo"} =>
          batch \subseteq index
    /\ stage \in {"purge_move", "quarantine"} =>
          /\ todo \subseteq batch
          /\ \A i \in batch \ todo : loc[i] # "holder"
    /\ stage = "clean" =>
          /\ moved \subseteq asked \cup expired
          /\ \A i \in moved : loc[i] \in {"gc", "gone"}
    /\ stage \in TrashHolds => cur \in Ids /\ loc[cur] = "holder" /\ cur \notin index
    /\ stage = "restore_move" => cur \in Ids /\ cur \in index /\ loc[cur] = "holder"
    /\ stage = "restore_commit" => cur \in Ids /\ cur \in index /\ loc[cur] = "restored"
    /\ stage = "restore_check" => cur \in Ids
    /\ stage \in {"trash_check", "trash_move"} => fresh < MaxId
    /\ caller = "trash" => fresh < MaxId \/ stage \in TrashHolds
    /\ stage \in {"trash_check", "trash_move"} => caller = "trash"
    /\ caller \in {"restore", "rename"} => cur \in Ids

\* Which entries may lose their payload, and what the index still promises.
Due ==
    /\ \A i \in Ids : loc[i] = "delete" => i \in index \cup asked \cup expired
    /\ \A i \in sweeping : /\ loc[i] \in {"delete", "purge", "gc", "gone"}
                           /\ loc[i] = "delete" => i \notin index
    /\ \A i \in index \ expired : loc[i] \in {"holder", "delete", "restored"}
    /\ \A i \in Ids : loc[i] = "holder" /\ i \notin index =>
          i \in stranded \/ (stage \in TrashHolds /\ i = cur)
    /\ \A i \in Ids : i > fresh => loc[i] = "none" /\ i \notin index

\* One note, one home; and a path the bin is about to rename onto was free.
Homes ==
    /\ \A p, q \in VaultPaths : tree[p] = tree[q] /\ tree[p] # NoNote => p = q
    /\ \A i \in Ids : InBin(i) => payload[i] \in Notes
    /\ \A p \in VaultPaths : tree[p] \in Notes => tree[p] \in used
    /\ \A i \in Ids : payload[i] \in Notes => payload[i] \in used
    /\ stage \in TrashHolds \cup {"restore_move"} =>
          tree[path] = NoNote \/ tree[path] \in racing

IInv == /\ TypeOK /\ Working /\ DoomedOnlyWhenDue /\ Due
        /\ Homes /\ MovedNeverCopied /\ NoteConservation /\ OnlyRacingSaves

----------------------------------------------------------------------------
(* Facts about the operators.                                              *)

USE DEF vars, diskVars, opVars, workVars, histVars

\* The batch a purge collects consists of listed entries past retention.
LEMMA BatchInExpired == ExpiredBatch \subseteq index \cap expired
  BY DEF ExpiredBatch, OldestOf

\* The path that stands for any other is a path.
LEMMA AnyPathType == AnyPath \in VaultPaths
  BY TrashAssumption DEF AnyPath

\* The trash starts with the types of its state.
LEMMA InitTypeOK == Init => TypeOK
  BY AnyPathType, TrashAssumption DEF Init, TypeOK, Present, Stages, Places

\* Every step keeps the types.
LEMMA TypeStep ==
    ASSUME TypeOK, Working, [Next]_vars PROVE TypeOK'
<1> USE AnyPathType, BatchInExpired, TrashAssumption DEF TypeOK, Working,
        Stages, Places, TrashHolds
<1>1. CASE PurgeCommit
  BY <1>1 DEF PurgeCommit, Goto, Unlock
<1>2. CASE PurgeFail
  BY <1>2 DEF PurgeFail, Goto
<1>3. CASE PurgeRaise
  BY <1>3 DEF PurgeRaise, Unlock
<1>4. CASE PurgeReturn
  BY <1>4 DEF PurgeReturn, Goto, AfterPurge
<1>5. CASE TrashCheck
  BY <1>5 DEF TrashCheck, Goto, Unlock
<1>6. CASE TrashMove
  <2>1. CASE Unlock /\ UNCHANGED <<diskVars, fresh>>
    BY <1>6, <2>1, AnyPathType DEF TrashMove, Unlock, TypeOK, Stages
  <2>2. CASE ~(Unlock /\ UNCHANGED <<diskVars, fresh>>)
    <3>1. fresh + 1 \in Ids /\ fresh' = fresh + 1 /\ fresh' \in Nat /\ fresh' <= MaxId
      BY <1>6, <2>2, TrashAssumption DEF TrashMove, TypeOK, Working, Ids
    <3>2. /\ orig' \in [Ids -> VaultPaths] /\ payload' \in [Ids -> Notes \cup {NoNote}]
          /\ loc' \in [Ids -> Places] /\ tree' \in [VaultPaths -> Notes \cup {NoNote}]
      BY <1>6, <2>2, <3>1 DEF TrashMove, TypeOK, Places
    <3>3. QED
      BY <1>6, <2>2, <3>1, <3>2 DEF TrashMove, TypeOK, Stages
  <2>3. QED
    BY <2>1, <2>2
<1>7. CASE TrashMeasure
  <2>1. cur \in Ids
    BY <1>7 DEF TrashMeasure, Working, TrashHolds
  <2>2. /\ tree' \in [VaultPaths -> Notes \cup {NoNote}] /\ loc' \in [Ids -> Places]
        /\ overwritten' \in SUBSET Notes
    BY <1>7, <2>1 DEF TrashMeasure, PayloadToTree, Clobber, TypeOK, Places
  <2>3. /\ stage' \in Stages /\ caller' \in {"none", "trash", "restore", "rename", "list"}
        /\ cur' \in Ids \cup {0} /\ path' \in VaultPaths /\ expect' \in Notes \cup {NoNote}
        /\ batch' \in SUBSET Ids /\ todo' \in SUBSET Ids /\ moved' \in SUBSET Ids
    BY <1>7, AnyPathType DEF TrashMeasure, Goto, Unlock, TypeOK, Stages
  <2>4. QED
    BY <1>7, <2>1, <2>2, <2>3 DEF TrashMeasure, TypeOK
<1>8. CASE TrashCommit
  <2>1. cur \in Ids
    BY <1>8 DEF TrashCommit, Working, TrashHolds
  <2>2. /\ tree' \in [VaultPaths -> Notes \cup {NoNote}] /\ loc' \in [Ids -> Places]
        /\ overwritten' \in SUBSET Notes
    BY <1>8, <2>1 DEF TrashCommit, PayloadToTree, Clobber, TypeOK, Places
  <2>3. /\ stage' \in Stages /\ caller' \in {"none", "trash", "restore", "rename", "list"}
        /\ cur' \in Ids \cup {0} /\ path' \in VaultPaths /\ expect' \in Notes \cup {NoNote}
        /\ batch' \in SUBSET Ids /\ todo' \in SUBSET Ids /\ moved' \in SUBSET Ids
    BY <1>8, AnyPathType DEF TrashCommit, Unlock, TypeOK, Stages
  <2>4. QED
    BY <1>8, <2>1, <2>2, <2>3 DEF TrashCommit, TypeOK
<1>9. CASE RestoreCheck
  BY <1>9 DEF RestoreCheck, Unlock
<1>10. CASE RestoreMove
  <2>1. cur \in Ids
    BY <1>10 DEF RestoreMove, Working, TrashHolds
  <2>2. /\ tree' \in [VaultPaths -> Notes \cup {NoNote}] /\ loc' \in [Ids -> Places]
        /\ overwritten' \in SUBSET Notes
    BY <1>10, <2>1 DEF RestoreMove, PayloadToTree, Clobber, TypeOK, Places
  <2>3. /\ stage' \in Stages /\ caller' \in {"none", "trash", "restore", "rename", "list"}
        /\ cur' \in Ids \cup {0} /\ path' \in VaultPaths /\ expect' \in Notes \cup {NoNote}
        /\ batch' \in SUBSET Ids /\ todo' \in SUBSET Ids /\ moved' \in SUBSET Ids
    BY <1>10, AnyPathType DEF RestoreMove, Goto, Unlock, TypeOK, Stages
  <2>4. QED
    BY <1>10, <2>1, <2>2, <2>3 DEF RestoreMove, TypeOK
<1>11. CASE RestoreCommit
  BY <1>11 DEF RestoreCommit, Unlock
<1>12. CASE QuarantineCommit
  BY <1>12 DEF QuarantineCommit, Unlock
<1>13. CASE QuarantineFail
  BY <1>13 DEF QuarantineFail, Goto
<1>14. CASE QuarantineRaise
  BY <1>14 DEF QuarantineRaise, Unlock
<1>15. CASE CleanReturn
  BY <1>15 DEF CleanReturn, Unlock
<1>16. ASSUME NEW i \in Ids, PurgeMove(i) PROVE TypeOK'
  BY <1>16 DEF PurgeMove, Goto, Relocate
<1>17. ASSUME NEW i \in Ids, PurgeUndo(i) PROVE TypeOK'
  BY <1>17 DEF PurgeUndo, Goto, Relocate
<1>18. ASSUME NEW i \in Ids, PurgeSweep(i) PROVE TypeOK'
  BY <1>18 DEF PurgeSweep, Goto, Relocate
<1>19. ASSUME NEW i \in Ids, Quarantine(i) PROVE TypeOK'
  BY <1>19 DEF Quarantine, Goto, Relocate
<1>20. ASSUME NEW i \in Ids, QuarantineUndo(i) PROVE TypeOK'
  BY <1>20 DEF QuarantineUndo, Goto, Relocate
<1>21. ASSUME NEW i \in Ids, Clean(i) PROVE TypeOK'
  BY <1>21 DEF Clean, Goto, Relocate
<1>22. ASSUME NEW p \in VaultPaths, NEW e \in Notes, BeginTrash(p, e) PROVE TypeOK'
  BY <1>22 DEF BeginTrash, StartPurge, AfterPurge
<1>23. ASSUME NEW i \in Ids, NEW c \in {"restore", "rename"}, BeginRestore(i, c)
       PROVE TypeOK'
  BY <1>23 DEF BeginRestore, StartPurge, AfterPurge
<1>24. ASSUME NEW S \in SUBSET Ids, BeginDelete(S) PROVE TypeOK'
  BY <1>24 DEF BeginDelete
<1>25. CASE BeginList
  BY <1>25 DEF BeginList, CleanBatches, Abandoned, InPlace
<1>26. CASE ListPurge
  BY <1>26 DEF ListPurge, StartPurge, AfterPurge
<1>27. CASE Crash
  BY <1>27 DEF Crash, Unlock
<1>28. CASE Expire
  BY <1>28 DEF Expire
<1>29. ASSUME NEW p \in VaultPaths, NEW n \in Notes, EditorSave(p, n) PROVE TypeOK'
  BY <1>29 DEF EditorSave
<1>30. ASSUME NEW i \in Ids, Sweep(i) PROVE TypeOK'
  BY <1>30 DEF Sweep, Relocate
<1>31. CASE UNCHANGED vars
  BY <1>31
<1>32. QED
  BY <1>1, <1>2, <1>3, <1>4, <1>5, <1>6, <1>7, <1>8, <1>9, <1>10, <1>11,
       <1>12, <1>13, <1>14, <1>15, <1>16, <1>17, <1>18, <1>19, <1>20, <1>21,
       <1>22, <1>23, <1>24, <1>25, <1>26, <1>27, <1>28, <1>29, <1>30, <1>31
       DEF Next, Locked, Request, Environment

\* Every step keeps what the stages have established.
LEMMA WorkingStep ==
    ASSUME TypeOK, Working, DoomedOnlyWhenDue, Due, [Next]_vars PROVE Working'
<1> USE BatchInExpired, TrashAssumption DEF TypeOK, Working,
        DoomedOnlyWhenDue, Due, TrashHolds, PurgeStages,
        QuarantineStages
<1>1. CASE PurgeCommit
  BY <1>1 DEF PurgeCommit, Goto, Unlock
<1>2. CASE PurgeFail
  BY <1>2 DEF PurgeFail, Goto
<1>3. CASE PurgeRaise
  BY <1>3 DEF PurgeRaise, Unlock
<1>4. CASE PurgeReturn
  BY <1>4 DEF PurgeReturn, Goto, AfterPurge
<1>5. CASE TrashCheck
  BY <1>5 DEF TrashCheck, Goto, Unlock
<1>6. CASE TrashMove
  BY <1>6 DEF TrashMove, Unlock, Ids
<1>7. CASE TrashMeasure
  BY <1>7 DEF TrashMeasure, Goto, Unlock, PayloadToTree, Clobber
<1>8. CASE TrashCommit
  BY <1>8 DEF TrashCommit, Unlock, PayloadToTree, Clobber
<1>9. CASE RestoreCheck
  BY <1>9 DEF RestoreCheck, Unlock
<1>10. CASE RestoreMove
  BY <1>10 DEF RestoreMove, Goto, Unlock, PayloadToTree, Clobber
<1>11. CASE RestoreCommit
  BY <1>11 DEF RestoreCommit, Unlock
<1>12. CASE QuarantineCommit
  BY <1>12 DEF QuarantineCommit, Unlock
<1>13. CASE QuarantineFail
  BY <1>13 DEF QuarantineFail, Goto
<1>14. CASE QuarantineRaise
  BY <1>14 DEF QuarantineRaise, Unlock
<1>15. CASE CleanReturn
  BY <1>15 DEF CleanReturn, Unlock
<1>16. ASSUME NEW i \in Ids, PurgeMove(i) PROVE Working'
  <2>1. CASE loc[i] = "holder"
    <3>1. /\ loc'[i] = "purge" /\ \A j \in Ids \ {i} : loc'[j] = loc[j]
          /\ i \notin sweeping
      BY <1>16, <2>1 DEF PurgeMove, Relocate, TypeOK, Due
    <3>2. QED
      BY <1>16, <2>1, <3>1 DEF PurgeMove, Goto, TypeOK, Working,
           DoomedOnlyWhenDue, Due, TrashHolds, PurgeStages, QuarantineStages
  <2>2. CASE loc[i] # "holder"
    BY <1>16, <2>2 DEF PurgeMove, Goto, TypeOK, Working, DoomedOnlyWhenDue,
         Due, TrashHolds, PurgeStages, QuarantineStages
  <2>3. QED
    BY <2>1, <2>2
<1>17. ASSUME NEW i \in Ids, PurgeUndo(i) PROVE Working'
  BY <1>17 DEF PurgeUndo, Goto, Relocate
<1>18. ASSUME NEW i \in Ids, PurgeSweep(i) PROVE Working'
  BY <1>18 DEF PurgeSweep, Goto, Relocate
<1>19. ASSUME NEW i \in Ids, Quarantine(i) PROVE Working'
  <2>1. CASE loc[i] = "holder"
    <3>1. /\ loc'[i] = "delete" /\ \A j \in Ids \ {i} : loc'[j] = loc[j]
          /\ i \notin sweeping
      BY <1>19, <2>1 DEF Quarantine, Relocate, TypeOK, Due
    <3>2. QED
      BY <1>19, <2>1, <3>1 DEF Quarantine, Goto, TypeOK, Working,
           DoomedOnlyWhenDue, Due, TrashHolds, PurgeStages, QuarantineStages
  <2>2. CASE loc[i] # "holder"
    BY <1>19, <2>2 DEF Quarantine, Goto, TypeOK, Working, DoomedOnlyWhenDue,
         Due, TrashHolds, PurgeStages, QuarantineStages
  <2>3. QED
    BY <2>1, <2>2
<1>20. ASSUME NEW i \in Ids, QuarantineUndo(i) PROVE Working'
  BY <1>20 DEF QuarantineUndo, Goto, Relocate
<1>21. ASSUME NEW i \in Ids, Clean(i) PROVE Working'
  <2>1. CASE UNCHANGED <<loc, moved>>
    BY <1>21, <2>1 DEF Clean, Goto, TypeOK, Working, DoomedOnlyWhenDue, Due,
         TrashHolds, PurgeStages, QuarantineStages
  <2>2. CASE /\ loc[i] = "delete" /\ i \in index
            /\ Relocate({i}, "holder") /\ UNCHANGED moved
    <3>1. \A j \in Ids \ {i} : loc'[j] = loc[j]
      BY <2>2 DEF Relocate
    <3>2. i \notin moved
      BY <1>21, <2>2 DEF Clean, Working
    <3>3. QED
      BY <1>21, <2>2, <3>1, <3>2 DEF Clean, Goto, TypeOK, Working,
           DoomedOnlyWhenDue, Due, TrashHolds, PurgeStages, QuarantineStages
  <2>3. CASE /\ loc[i] = "purge" \/ (loc[i] = "delete" /\ i \notin index)
            /\ Relocate({i}, "gc") /\ moved' = moved \cup {i}
    <3>1. loc'[i] = "gc" /\ \A j \in Ids \ {i} : loc'[j] = loc[j]
      BY <2>3 DEF Relocate
    <3>2. i \in asked \cup expired
      BY <2>3 DEF DoomedOnlyWhenDue, Due
    <3>3. QED
      BY <1>21, <2>3, <3>1, <3>2 DEF Clean, Goto, TypeOK, Working,
           DoomedOnlyWhenDue, Due, TrashHolds, PurgeStages, QuarantineStages
  <2>4. QED
    BY <1>21, <2>1, <2>2, <2>3 DEF Clean
<1>22. ASSUME NEW p \in VaultPaths, NEW e \in Notes, BeginTrash(p, e) PROVE Working'
  BY <1>22 DEF BeginTrash, StartPurge, AfterPurge
<1>23. ASSUME NEW i \in Ids, NEW c \in {"restore", "rename"}, BeginRestore(i, c)
       PROVE Working'
  BY <1>23 DEF BeginRestore, StartPurge, AfterPurge
<1>24. ASSUME NEW S \in SUBSET Ids, BeginDelete(S) PROVE Working'
  BY <1>24 DEF BeginDelete
<1>25. CASE BeginList
  BY <1>25 DEF BeginList, CleanBatches, Abandoned, InPlace
<1>26. CASE ListPurge
  BY <1>26 DEF ListPurge, StartPurge, AfterPurge
<1>27. CASE Crash
  BY <1>27 DEF Crash, Unlock
<1>28. CASE Expire
  BY <1>28 DEF Expire
<1>29. ASSUME NEW p \in VaultPaths, NEW n \in Notes, EditorSave(p, n) PROVE Working'
  BY <1>29 DEF EditorSave
<1>30. ASSUME NEW i \in Ids, Sweep(i) PROVE Working'
  BY <1>30 DEF Sweep, Relocate
<1>31. CASE UNCHANGED vars
  BY <1>31 
<1>32. QED
  BY <1>1, <1>2, <1>3, <1>4, <1>5, <1>6, <1>7, <1>8, <1>9, <1>10, <1>11,
       <1>12, <1>13, <1>14, <1>15, <1>16, <1>17, <1>18, <1>19, <1>20, <1>21,
       <1>22, <1>23, <1>24, <1>25, <1>26, <1>27, <1>28, <1>29, <1>30, <1>31,
       SMTT(30)
       DEF Next, Locked, Request, Environment

\* Payloads are only doomed when due, and the index keeps its promise.
LEMMA DueStep ==
    ASSUME TypeOK, Working, DoomedOnlyWhenDue, Due, [Next]_vars
    PROVE  (DoomedOnlyWhenDue /\ Due)'
<1> USE BatchInExpired, TrashAssumption DEF TypeOK, Working,
        DoomedOnlyWhenDue, Due, TrashHolds, PurgeStages,
        QuarantineStages
<1>1. CASE PurgeCommit
  BY <1>1 DEF PurgeCommit, Goto, Unlock
<1>2. CASE PurgeFail
  BY <1>2 DEF PurgeFail, Goto
<1>3. CASE PurgeRaise
  BY <1>3 DEF PurgeRaise, Unlock
<1>4. CASE PurgeReturn
  BY <1>4 DEF PurgeReturn, Goto, AfterPurge
<1>5. CASE TrashCheck
  BY <1>5 DEF TrashCheck, Goto, Unlock
<1>6. CASE TrashMove
  <2>1. CASE Unlock /\ UNCHANGED <<diskVars, fresh>>
    BY <1>6, <2>1 DEF TrashMove, Unlock, TypeOK, Working, DoomedOnlyWhenDue,
         Due, TrashHolds, PurgeStages, QuarantineStages
  <2>2. CASE ~(Unlock /\ UNCHANGED <<diskVars, fresh>>)
    <3>1. /\ fresh + 1 \in Ids /\ fresh' = fresh + 1 /\ cur' = fresh + 1
          /\ stage' = "trash_measure" /\ index' = index
          /\ \A j \in Ids : j > fresh' => j > fresh
      BY <1>6, <2>2, TrashAssumption DEF TrashMove, TypeOK, Working, Ids
    <3>2. loc'[fresh + 1] = "holder" /\ \A j \in Ids \ {fresh + 1} : loc'[j] = loc[j]
      BY <1>6, <2>2, <3>1 DEF TrashMove, TypeOK
    <3>3. loc[fresh + 1] = "none" /\ fresh + 1 \notin index /\ fresh + 1 \notin sweeping
      BY <3>1 DEF Due, TypeOK
    <3>4. \A j \in Ids : j > fresh' => j # fresh + 1
      BY <3>1 DEF TypeOK, Ids
    <3>5. stage = "trash_move" /\ UNCHANGED <<sweeping, expired, asked, stranded>>
      BY <1>6 DEF TrashMove
    <3>6. QED
      BY <3>1, <3>2, <3>3, <3>4, <3>5 DEF TypeOK, DoomedOnlyWhenDue, Due,
           Working, TrashHolds
  <2>3. QED
    BY <2>1, <2>2
<1>7. CASE TrashMeasure
  <2>1. cur \in Ids /\ loc[cur] = "holder" /\ cur \notin index /\ stage \in TrashHolds
    BY <1>7 DEF TrashMeasure, Working, TrashHolds
  <2>2. CASE Goto("trash_commit") /\ UNCHANGED <<loc, stranded>>
    BY <1>7, <2>2 DEF TrashMeasure, Goto, DoomedOnlyWhenDue, Due, TrashHolds
  <2>3. CASE PayloadToTree(cur, path) /\ Unlock /\ UNCHANGED stranded
    <3>1. loc'[cur] = "restored" /\ \A j \in Ids \ {cur} : loc'[j] = loc[j]
      BY <2>1, <2>3 DEF PayloadToTree, TypeOK
    <3>2. cur <= fresh /\ cur \notin sweeping
      BY <2>1, TrashAssumption DEF Due, TypeOK, Ids
    <3>3. QED
      BY <1>7, <2>1, <2>3, <3>1, <3>2 DEF TrashMeasure, Unlock, TypeOK,
           DoomedOnlyWhenDue, Due, TrashHolds
  <2>4. CASE Unlock /\ stranded' = stranded \cup {cur} /\ UNCHANGED loc
    BY <1>7, <2>1, <2>4 DEF TrashMeasure, Unlock, DoomedOnlyWhenDue, Due,
         TrashHolds
  <2>5. QED
    BY <1>7, <2>2, <2>3, <2>4 DEF TrashMeasure
<1>8. CASE TrashCommit
  <2>1. /\ cur \in Ids /\ loc[cur] = "holder" /\ cur \notin index /\ stage \in TrashHolds
        /\ cur \notin sweeping /\ ~(cur > fresh)
    BY <1>8 DEF TrashCommit, Working, TrashHolds, Due
  <2>2. CASE index' = index \cup {cur} /\ UNCHANGED <<loc, stranded>>
    BY <1>8, <2>1, <2>2 DEF TrashCommit, Unlock, TypeOK, DoomedOnlyWhenDue,
         Due, TrashHolds
  <2>3. CASE PayloadToTree(cur, path) /\ UNCHANGED <<index, stranded>>
    <3>1. loc'[cur] = "restored" /\ \A j \in Ids \ {cur} : loc'[j] = loc[j]
      BY <2>1, <2>3 DEF PayloadToTree, TypeOK
    <3>2. QED
      BY <1>8, <2>1, <2>3, <3>1 DEF TrashCommit, Unlock, TypeOK,
           DoomedOnlyWhenDue, Due, TrashHolds
  <2>4. CASE stranded' = stranded \cup {cur} /\ UNCHANGED <<index, loc>>
    BY <1>8, <2>1, <2>4 DEF TrashCommit, Unlock, DoomedOnlyWhenDue, Due,
         TrashHolds
  <2>5. QED
    BY <1>8, <2>2, <2>3, <2>4 DEF TrashCommit
<1>9. CASE RestoreCheck
  BY <1>9 DEF RestoreCheck, Unlock
<1>10. CASE RestoreMove
  BY <1>10 DEF RestoreMove, Goto, Unlock, PayloadToTree, Clobber
<1>11. CASE RestoreCommit
  <2>1. /\ cur \in Ids /\ loc[cur] = "restored" /\ cur \in index
        /\ cur \notin sweeping /\ ~(cur > fresh) /\ stage = "restore_commit"
    BY <1>11 DEF RestoreCommit, Working, Due
  <2>2. CASE index' = index \ {cur} /\ UNCHANGED loc
    BY <1>11, <2>1, <2>2 DEF RestoreCommit, Unlock, TypeOK, DoomedOnlyWhenDue,
         Due, TrashHolds
  <2>3. CASE loc' = [loc EXCEPT ![cur] = "holder"] /\ UNCHANGED index
    <3>1. loc'[cur] = "holder" /\ \A j \in Ids \ {cur} : loc'[j] = loc[j]
      BY <2>1, <2>3 DEF TypeOK
    <3>2. QED
      BY <1>11, <2>1, <2>3, <3>1 DEF RestoreCommit, Unlock, TypeOK,
           DoomedOnlyWhenDue, Due, TrashHolds
  <2>4. CASE UNCHANGED <<index, loc>>
    BY <1>11, <2>1, <2>4 DEF RestoreCommit, Unlock, DoomedOnlyWhenDue, Due,
         TrashHolds
  <2>5. QED
    BY <1>11, <2>2, <2>3, <2>4 DEF RestoreCommit
<1>12. CASE QuarantineCommit
  BY <1>12 DEF QuarantineCommit, Unlock
<1>13. CASE QuarantineFail
  BY <1>13 DEF QuarantineFail, Goto
<1>14. CASE QuarantineRaise
  BY <1>14 DEF QuarantineRaise, Unlock
<1>15. CASE CleanReturn
  BY <1>15 DEF CleanReturn, Unlock
<1>16. ASSUME NEW i \in Ids, PurgeMove(i) PROVE (DoomedOnlyWhenDue /\ Due)'
  BY <1>16 DEF PurgeMove, Goto, Relocate
<1>17. ASSUME NEW i \in Ids, PurgeUndo(i) PROVE (DoomedOnlyWhenDue /\ Due)'
  BY <1>17 DEF PurgeUndo, Goto, Relocate
<1>18. ASSUME NEW i \in Ids, PurgeSweep(i) PROVE (DoomedOnlyWhenDue /\ Due)'
  BY <1>18 DEF PurgeSweep, Goto, Relocate
<1>19. ASSUME NEW i \in Ids, Quarantine(i) PROVE (DoomedOnlyWhenDue /\ Due)'
  BY <1>19 DEF Quarantine, Goto, Relocate
<1>20. ASSUME NEW i \in Ids, QuarantineUndo(i) PROVE (DoomedOnlyWhenDue /\ Due)'
  BY <1>20 DEF QuarantineUndo, Goto, Relocate
<1>21. ASSUME NEW i \in Ids, Clean(i) PROVE (DoomedOnlyWhenDue /\ Due)'
  BY <1>21 DEF Clean, Goto, Relocate
<1>22. ASSUME NEW p \in VaultPaths, NEW e \in Notes, BeginTrash(p, e)
       PROVE (DoomedOnlyWhenDue /\ Due)'
  BY <1>22 DEF BeginTrash, StartPurge, AfterPurge
<1>23. ASSUME NEW i \in Ids, NEW c \in {"restore", "rename"}, BeginRestore(i, c)
       PROVE (DoomedOnlyWhenDue /\ Due)'
  BY <1>23 DEF BeginRestore, StartPurge, AfterPurge
<1>24. ASSUME NEW S \in SUBSET Ids, BeginDelete(S) PROVE (DoomedOnlyWhenDue /\ Due)'
  BY <1>24 DEF BeginDelete
<1>25. CASE BeginList
  BY <1>25 DEF BeginList, CleanBatches, Abandoned, InPlace
<1>26. CASE ListPurge
  BY <1>26 DEF ListPurge, StartPurge, AfterPurge
<1>27. CASE Crash
  BY <1>27 DEF Crash, Unlock
<1>28. CASE Expire
  BY <1>28 DEF Expire
<1>29. ASSUME NEW p \in VaultPaths, NEW n \in Notes, EditorSave(p, n)
       PROVE (DoomedOnlyWhenDue /\ Due)'
  BY <1>29 DEF EditorSave
<1>30. ASSUME NEW i \in Ids, Sweep(i) PROVE (DoomedOnlyWhenDue /\ Due)'
  BY <1>30 DEF Sweep, Relocate
<1>31. CASE UNCHANGED vars
  BY <1>31 
<1>32. QED
  BY <1>1, <1>2, <1>3, <1>4, <1>5, <1>6, <1>7, <1>8, <1>9, <1>10, <1>11,
       <1>12, <1>13, <1>14, <1>15, <1>16, <1>17, <1>18, <1>19, <1>20, <1>21,
       <1>22, <1>23, <1>24, <1>25, <1>26, <1>27, <1>28, <1>29, <1>30, <1>31
       DEF Next, Locked, Request, Environment

\* A note keeps one home, and the bin renames only onto free paths or racing saves.
LEMMA HomesStep ==
    ASSUME IInv, [Next]_vars PROVE (Homes /\ OnlyRacingSaves)'
<1> USE TrashAssumption DEF IInv, TypeOK, Working, Homes, MovedNeverCopied,
        OnlyRacingSaves, InBin, Present, TrashHolds, PurgeStages,
        QuarantineStages
<1>1. CASE PurgeCommit
  BY <1>1 DEF PurgeCommit, Goto, Unlock
<1>2. CASE PurgeFail
  BY <1>2 DEF PurgeFail, Goto
<1>3. CASE PurgeRaise
  BY <1>3 DEF PurgeRaise, Unlock
<1>4. CASE PurgeReturn
  BY <1>4 DEF PurgeReturn, Goto, AfterPurge
<1>5. CASE TrashCheck
  BY <1>5 DEF TrashCheck, Goto, Unlock
<1>6. CASE TrashMove
  BY <1>6 DEF TrashMove, Unlock
<1>7. CASE TrashMeasure
  BY <1>7 DEF TrashMeasure, Goto, Unlock, PayloadToTree, Clobber
<1>8. CASE TrashCommit
  BY <1>8 DEF TrashCommit, Unlock, PayloadToTree, Clobber
<1>9. CASE RestoreCheck
  BY <1>9 DEF RestoreCheck, Unlock
<1>10. CASE RestoreMove
  BY <1>10 DEF RestoreMove, Goto, Unlock, PayloadToTree, Clobber
<1>11. CASE RestoreCommit
  BY <1>11 DEF RestoreCommit, Unlock
<1>12. CASE QuarantineCommit
  BY <1>12 DEF QuarantineCommit, Unlock
<1>13. CASE QuarantineFail
  BY <1>13 DEF QuarantineFail, Goto
<1>14. CASE QuarantineRaise
  BY <1>14 DEF QuarantineRaise, Unlock
<1>15. CASE CleanReturn
  BY <1>15 DEF CleanReturn, Unlock
<1>16. ASSUME NEW i \in Ids, PurgeMove(i) PROVE (Homes /\ OnlyRacingSaves)'
  BY <1>16 DEF PurgeMove, Goto, Relocate
<1>17. ASSUME NEW i \in Ids, PurgeUndo(i) PROVE (Homes /\ OnlyRacingSaves)'
  BY <1>17 DEF PurgeUndo, Goto, Relocate
<1>18. ASSUME NEW i \in Ids, PurgeSweep(i) PROVE (Homes /\ OnlyRacingSaves)'
  BY <1>18 DEF PurgeSweep, Goto, Relocate
<1>19. ASSUME NEW i \in Ids, Quarantine(i) PROVE (Homes /\ OnlyRacingSaves)'
  BY <1>19 DEF Quarantine, Goto, Relocate
<1>20. ASSUME NEW i \in Ids, QuarantineUndo(i) PROVE (Homes /\ OnlyRacingSaves)'
  BY <1>20 DEF QuarantineUndo, Goto, Relocate
<1>21. ASSUME NEW i \in Ids, Clean(i) PROVE (Homes /\ OnlyRacingSaves)'
  BY <1>21 DEF Clean, Goto, Relocate
<1>22. ASSUME NEW p \in VaultPaths, NEW e \in Notes, BeginTrash(p, e)
       PROVE (Homes /\ OnlyRacingSaves)'
  BY <1>22 DEF BeginTrash, StartPurge, AfterPurge
<1>23. ASSUME NEW i \in Ids, NEW c \in {"restore", "rename"}, BeginRestore(i, c)
       PROVE (Homes /\ OnlyRacingSaves)'
  BY <1>23 DEF BeginRestore, StartPurge, AfterPurge
<1>24. ASSUME NEW S \in SUBSET Ids, BeginDelete(S) PROVE (Homes /\ OnlyRacingSaves)'
  BY <1>24 DEF BeginDelete
<1>25. CASE BeginList
  BY <1>25 DEF BeginList, CleanBatches, Abandoned, InPlace
<1>26. CASE ListPurge
  BY <1>26 DEF ListPurge, StartPurge, AfterPurge
<1>27. CASE Crash
  BY <1>27 DEF Crash, Unlock
<1>28. CASE Expire
  BY <1>28 DEF Expire
<1>29. ASSUME NEW p \in VaultPaths, NEW n \in Notes, EditorSave(p, n)
       PROVE (Homes /\ OnlyRacingSaves)'
  BY <1>29 DEF EditorSave
<1>30. ASSUME NEW i \in Ids, Sweep(i) PROVE (Homes /\ OnlyRacingSaves)'
  BY <1>30 DEF Sweep, Relocate
<1>31. CASE UNCHANGED vars
  BY <1>31 
<1>32. QED
  BY <1>1, <1>2, <1>3, <1>4, <1>5, <1>6, <1>7, <1>8, <1>9, <1>10, <1>11,
       <1>12, <1>13, <1>14, <1>15, <1>16, <1>17, <1>18, <1>19, <1>20, <1>21,
       <1>22, <1>23, <1>24, <1>25, <1>26, <1>27, <1>28, <1>29, <1>30, <1>31
       DEF Next, Locked, Request, Environment

\* A note is never in two places.
LEMMA MovedStep ==
    ASSUME IInv, [Next]_vars PROVE MovedNeverCopied'
<1> USE TrashAssumption DEF IInv, TypeOK, Working, Homes, MovedNeverCopied,
        OnlyRacingSaves, InBin, Present, TrashHolds, PurgeStages,
        QuarantineStages
<1>1. CASE PurgeCommit
  BY <1>1 DEF PurgeCommit, Goto, Unlock
<1>2. CASE PurgeFail
  BY <1>2 DEF PurgeFail, Goto
<1>3. CASE PurgeRaise
  BY <1>3 DEF PurgeRaise, Unlock
<1>4. CASE PurgeReturn
  BY <1>4 DEF PurgeReturn, Goto, AfterPurge
<1>5. CASE TrashCheck
  BY <1>5 DEF TrashCheck, Goto, Unlock
<1>6. CASE TrashMove
  BY <1>6 DEF TrashMove, Unlock
<1>7. CASE TrashMeasure
  BY <1>7 DEF TrashMeasure, Goto, Unlock, PayloadToTree, Clobber
<1>8. CASE TrashCommit
  BY <1>8 DEF TrashCommit, Unlock, PayloadToTree, Clobber
<1>9. CASE RestoreCheck
  BY <1>9 DEF RestoreCheck, Unlock
<1>10. CASE RestoreMove
  BY <1>10 DEF RestoreMove, Goto, Unlock, PayloadToTree, Clobber
<1>11. CASE RestoreCommit
  BY <1>11 DEF RestoreCommit, Unlock
<1>12. CASE QuarantineCommit
  BY <1>12 DEF QuarantineCommit, Unlock
<1>13. CASE QuarantineFail
  BY <1>13 DEF QuarantineFail, Goto
<1>14. CASE QuarantineRaise
  BY <1>14 DEF QuarantineRaise, Unlock
<1>15. CASE CleanReturn
  BY <1>15 DEF CleanReturn, Unlock
<1>16. ASSUME NEW i \in Ids, PurgeMove(i) PROVE MovedNeverCopied'
  BY <1>16 DEF PurgeMove, Goto, Relocate
<1>17. ASSUME NEW i \in Ids, PurgeUndo(i) PROVE MovedNeverCopied'
  BY <1>17 DEF PurgeUndo, Goto, Relocate
<1>18. ASSUME NEW i \in Ids, PurgeSweep(i) PROVE MovedNeverCopied'
  BY <1>18 DEF PurgeSweep, Goto, Relocate
<1>19. ASSUME NEW i \in Ids, Quarantine(i) PROVE MovedNeverCopied'
  BY <1>19 DEF Quarantine, Goto, Relocate
<1>20. ASSUME NEW i \in Ids, QuarantineUndo(i) PROVE MovedNeverCopied'
  BY <1>20 DEF QuarantineUndo, Goto, Relocate
<1>21. ASSUME NEW i \in Ids, Clean(i) PROVE MovedNeverCopied'
  BY <1>21 DEF Clean, Goto, Relocate
<1>22. ASSUME NEW p \in VaultPaths, NEW e \in Notes, BeginTrash(p, e)
       PROVE MovedNeverCopied'
  BY <1>22 DEF BeginTrash, StartPurge, AfterPurge
<1>23. ASSUME NEW i \in Ids, NEW c \in {"restore", "rename"}, BeginRestore(i, c)
       PROVE MovedNeverCopied'
  BY <1>23 DEF BeginRestore, StartPurge, AfterPurge
<1>24. ASSUME NEW S \in SUBSET Ids, BeginDelete(S) PROVE MovedNeverCopied'
  BY <1>24 DEF BeginDelete
<1>25. CASE BeginList
  BY <1>25 DEF BeginList, CleanBatches, Abandoned, InPlace
<1>26. CASE ListPurge
  BY <1>26 DEF ListPurge, StartPurge, AfterPurge
<1>27. CASE Crash
  BY <1>27 DEF Crash, Unlock
<1>28. CASE Expire
  BY <1>28 DEF Expire
<1>29. ASSUME NEW p \in VaultPaths, NEW n \in Notes, EditorSave(p, n)
       PROVE MovedNeverCopied'
  BY <1>29 DEF EditorSave
<1>30. ASSUME NEW i \in Ids, Sweep(i) PROVE MovedNeverCopied'
  BY <1>30 DEF Sweep, Relocate
<1>31. CASE UNCHANGED vars
  BY <1>31 
<1>32. QED
  BY <1>1, <1>2, <1>3, <1>4, <1>5, <1>6, <1>7, <1>8, <1>9, <1>10, <1>11,
       <1>12, <1>13, <1>14, <1>15, <1>16, <1>17, <1>18, <1>19, <1>20, <1>21,
       <1>22, <1>23, <1>24, <1>25, <1>26, <1>27, <1>28, <1>29, <1>30, <1>31
       DEF Next, Locked, Request, Environment

\* No step loses a note.
LEMMA ConservationStep ==
    ASSUME IInv, [Next]_vars PROVE NoteConservation'
<1> USE TrashAssumption DEF NoteConservation, DoomedOnlyWhenDue, Due, IInv,
        TypeOK, Working, Homes, MovedNeverCopied, OnlyRacingSaves, InBin,
        Present, TrashHolds, PurgeStages, QuarantineStages
<1>1. CASE PurgeCommit
  BY <1>1 DEF PurgeCommit, Goto, Unlock
<1>2. CASE PurgeFail
  BY <1>2 DEF PurgeFail, Goto
<1>3. CASE PurgeRaise
  BY <1>3 DEF PurgeRaise, Unlock
<1>4. CASE PurgeReturn
  BY <1>4 DEF PurgeReturn, Goto, AfterPurge
<1>5. CASE TrashCheck
  BY <1>5 DEF TrashCheck, Goto, Unlock
<1>6. CASE TrashMove
  <2>1. CASE Unlock /\ UNCHANGED <<diskVars, fresh>>
    BY <1>6, <2>1 DEF TrashMove, IInv, NoteConservation, InBin, Present
  <2>2. CASE ~(Unlock /\ UNCHANGED <<diskVars, fresh>>)
    <3>1. fresh + 1 \in Ids /\ loc[fresh + 1] = "none" /\ tree[path] # NoNote
      BY <1>6, <2>2 DEF TrashMove, IInv, TypeOK, Working, Due, Ids
    <3>2. /\ loc'[fresh + 1] = "holder" /\ payload'[fresh + 1] = tree[path]
          /\ \A j \in Ids \ {fresh + 1} : loc'[j] = loc[j] /\ payload'[j] = payload[j]
          /\ \A q \in VaultPaths \ {path} : tree'[q] = tree[q]
      BY <1>6, <2>2, <3>1 DEF TrashMove, IInv, TypeOK
    <3>3. UNCHANGED <<used, superseded, overwritten, asked, expired>>
      BY <1>6 DEF TrashMove
    <3>4. ASSUME NEW n \in used, tree[path] # n, n \in Present PROVE n \in Present'
      BY <3>2, <3>4 DEF Present, IInv, TypeOK
    <3>5. ASSUME NEW n \in used, tree[path] # n,
                 n \notin Present \cup superseded \cup overwritten
          PROVE  \E j \in Ids : /\ payload'[j] = n
                                /\ InBin(j)' \/ (loc'[j] = "gone" /\ j \in asked \cup expired)
      BY <3>1, <3>2, <3>5 DEF NoteConservation, InBin, IInv
    <3>6. QED
      BY <3>1, <3>2, <3>3, <3>4, <3>5 DEF NoteConservation, InBin, IInv
  <2>3. QED
    BY <2>1, <2>2
<1>7. CASE TrashMeasure
  BY <1>7 DEF TrashMeasure, Goto, Unlock, PayloadToTree, Clobber
<1>8. CASE TrashCommit
  BY <1>8 DEF TrashCommit, Unlock, PayloadToTree, Clobber
<1>9. CASE RestoreCheck
  BY <1>9 DEF RestoreCheck, Unlock
<1>10. CASE RestoreMove
  BY <1>10 DEF RestoreMove, Goto, Unlock, PayloadToTree, Clobber
<1>11. CASE RestoreCommit
  BY <1>11 DEF RestoreCommit, Unlock
<1>12. CASE QuarantineCommit
  BY <1>12 DEF QuarantineCommit, Unlock
<1>13. CASE QuarantineFail
  BY <1>13 DEF QuarantineFail, Goto
<1>14. CASE QuarantineRaise
  BY <1>14 DEF QuarantineRaise, Unlock
<1>15. CASE CleanReturn
  BY <1>15 DEF CleanReturn, Unlock
<1>16. ASSUME NEW i \in Ids, PurgeMove(i) PROVE NoteConservation'
  BY <1>16 DEF PurgeMove, Goto, Relocate
<1>17. ASSUME NEW i \in Ids, PurgeUndo(i) PROVE NoteConservation'
  BY <1>17 DEF PurgeUndo, Goto, Relocate
<1>18. ASSUME NEW i \in Ids, PurgeSweep(i) PROVE NoteConservation'
  BY <1>18 DEF PurgeSweep, Goto, Relocate
<1>19. ASSUME NEW i \in Ids, Quarantine(i) PROVE NoteConservation'
  BY <1>19 DEF Quarantine, Goto, Relocate
<1>20. ASSUME NEW i \in Ids, QuarantineUndo(i) PROVE NoteConservation'
  BY <1>20 DEF QuarantineUndo, Goto, Relocate
<1>21. ASSUME NEW i \in Ids, Clean(i) PROVE NoteConservation'
  BY <1>21 DEF Clean, Goto, Relocate
<1>22. ASSUME NEW p \in VaultPaths, NEW e \in Notes, BeginTrash(p, e)
       PROVE NoteConservation'
  BY <1>22 DEF BeginTrash, StartPurge, AfterPurge
<1>23. ASSUME NEW i \in Ids, NEW c \in {"restore", "rename"}, BeginRestore(i, c)
       PROVE NoteConservation'
  BY <1>23 DEF BeginRestore, StartPurge, AfterPurge
<1>24. ASSUME NEW S \in SUBSET Ids, BeginDelete(S) PROVE NoteConservation'
  BY <1>24 DEF BeginDelete
<1>25. CASE BeginList
  BY <1>25 DEF BeginList, CleanBatches, Abandoned, InPlace
<1>26. CASE ListPurge
  BY <1>26 DEF ListPurge, StartPurge, AfterPurge
<1>27. CASE Crash
  BY <1>27 DEF Crash, Unlock
<1>28. CASE Expire
  BY <1>28 DEF Expire
<1>29. ASSUME NEW p \in VaultPaths, NEW n \in Notes, EditorSave(p, n)
       PROVE NoteConservation'
  BY <1>29 DEF EditorSave
<1>30. ASSUME NEW i \in Ids, Sweep(i) PROVE NoteConservation'
  BY <1>30 DEF Sweep, Relocate
<1>31. CASE UNCHANGED vars
  BY <1>31 
<1>32. QED
  BY <1>1, <1>2, <1>3, <1>4, <1>5, <1>6, <1>7, <1>8, <1>9, <1>10, <1>11,
       <1>12, <1>13, <1>14, <1>15, <1>16, <1>17, <1>18, <1>19, <1>20, <1>21,
       <1>22, <1>23, <1>24, <1>25, <1>26, <1>27, <1>28, <1>29, <1>30, <1>31
       DEF Next, Locked, Request, Environment

----------------------------------------------------------------------------
(* The theorems.                                                           *)

\* An empty trash satisfies the invariant.
LEMMA InitIInv == Init => IInv
  <1> SUFFICES ASSUME Init PROVE IInv
    OBVIOUS
  <1>1. TypeOK
    BY InitTypeOK
  <1>2. Working /\ DoomedOnlyWhenDue /\ Due
    BY <1>1 DEF Init, Working, DoomedOnlyWhenDue, Due, PurgeStages,
              QuarantineStages, TrashHolds
  <1>3. Homes /\ MovedNeverCopied /\ NoteConservation /\ OnlyRacingSaves
    BY <1>1, TrashAssumption DEF Init, TypeOK, Homes, MovedNeverCopied,
              NoteConservation, OnlyRacingSaves, InBin, Present, TrashHolds
  <1>4. QED
    BY <1>1, <1>2, <1>3 DEF IInv

\* The strengthened invariant holds in every reachable state.
THEOREM TrashInvariance == Spec => []IInv
  <1>1. IInv /\ [Next]_vars => IInv'
    <2> SUFFICES ASSUME IInv, [Next]_vars PROVE IInv'
      OBVIOUS
    <2>1. TypeOK' /\ Working' /\ (DoomedOnlyWhenDue /\ Due)'
      BY TypeStep, WorkingStep, DueStep DEF IInv
    <2>2. (Homes /\ OnlyRacingSaves)' /\ MovedNeverCopied' /\ NoteConservation'
      BY HomesStep, MovedStep, ConservationStep
    <2>3. QED
      BY <2>1, <2>2 DEF IInv
  <1>2. QED
    BY InitIInv, <1>1, PTL DEF Spec

\* Every variable keeps its type, whatever crashes and failures happen.
THEOREM TrashTypeCorrect == Spec => []TypeOK
  BY TrashInvariance, PTL DEF IInv

\* No note is lost to the bin (trash.py: a payload leaves the disk only by
\* retention or by a committed permanent delete).
THEOREM ConservationHolds == Spec => []NoteConservation
  BY TrashInvariance, PTL DEF IInv

\* delete, empty, purge_expired and _clean_quarantine doom only due payloads.
THEOREM DoomedHolds == Spec => []DoomedOnlyWhenDue
  BY TrashInvariance, PTL DEF IInv

\* The bin moves and never copies.
THEOREM MovedHolds == Spec => []MovedNeverCopied
  BY TrashInvariance, PTL DEF IInv

\* What the index lists within its retention can be brought back.
THEOREM ListedHolds == Spec => []ListedIsRecoverable
  <1>1. IInv => ListedIsRecoverable
    BY DEF IInv, Due, ListedIsRecoverable
  <1>2. QED
    BY <1>1, TrashInvariance, PTL

\* A payload is unlisted only after a crash or a failed roll back.
THEOREM UnlistedHolds == Spec => []UnlistedIsStranded
  <1>1. IInv => UnlistedIsStranded
    BY DEF IInv, Due, UnlistedIsStranded, TrashHolds
  <1>2. QED
    BY <1>1, TrashInvariance, PTL

\* trash's roll back and restore overwrite nothing but a racing save.
THEOREM RacingHolds == Spec => []OnlyRacingSaves
  BY TrashInvariance, PTL DEF IInv

=============================================================================
