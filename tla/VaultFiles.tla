----------------------------- MODULE VaultFiles -----------------------------
(***************************************************************************)
(* The file operations of VaultService (vault/service.py) on top of        *)
(* atomic_write.py: create, write, delete, move and attachment upload, one *)
(* at a time under the mutation lock, system call by system call, against  *)
(* editors that know no lock and a process that may die anywhere.          *)
(*                                                                         *)
(* A path names an inode and an inode has a version; every write makes a   *)
(* new version.  A hash is as good as the version it was computed from.    *)
(***************************************************************************)
EXTENDS Naturals, FiniteSets, Sequences

CONSTANTS
  Paths,
  Candidates,  \* the paths an upload tries, in order (name, name-2, name-3 ...)
  Retries,     \* how many of them (5)
  MaxInodes,   \* bound: files ever made
  MaxVersions, \* bound: writes
  MaxOps       \* bound: calls of the service

ASSUME FilesAssumption ==
  /\ Candidates \in Seq(Paths) /\ Candidates # <<>>
  /\ Retries \in Nat /\ MaxOps \in Nat
  /\ MaxInodes \in Nat \ {0} /\ MaxVersions \in Nat \ {0}

VARIABLES
  name,     \* the inode of each path, 0 if it is free
  body,     \* the version of each inode
  whole,    \* inodes whose content was written and synced
  litter,   \* inodes of temporary files a crash left behind
  op,       \* the call under way
  inodes, versions, ops   \* how many so far

fileVars == <<name, body, whole, litter, op, inodes, versions, ops>>

Idle == [pc |-> "idle", kind |-> "none", path |-> 0, dest |-> 0, expected |-> 0,
         temp |-> 0, taken |-> {}, tries |-> 0, clean |-> TRUE]

\* Some paths are taken to begin with.
FilesInit ==
  /\ \E P \in SUBSET Paths :
       /\ Cardinality(P) = 1
       /\ name = [p \in Paths |-> IF p \in P THEN 1 ELSE 0]
  /\ body = [i \in 1..MaxInodes |-> IF i = 1 THEN 1 ELSE 0]
  /\ whole = {1} /\ litter = {} /\ op = Idle
  /\ inodes = 1 /\ versions = 1 /\ ops = 0

VersionAt(p) == IF name[p] = 0 THEN 0 ELSE body[name[p]]
NewInode == inodes < MaxInodes /\ versions < MaxVersions /\ inodes' = inodes + 1 /\ versions' = versions + 1
End == op' = Idle
counts == <<inodes, versions, ops>>

\* A request for a path as its caller last read it.  A file to write, delete or
\* move must exist (_resolve_existing_file).
Begin(kind, p, q) ==
  /\ op.pc = "idle" /\ ops < MaxOps
  /\ kind \in {"write", "delete", "move"} => name[p] # 0
  /\ kind = "move" <=> p # q
  /\ kind = "attach" => p = Candidates[1]
  /\ ops' = ops + 1
  /\ op' = [pc |-> "check", kind |-> kind, path |-> p, dest |-> q,
            expected |-> IF kind \in {"create", "attach"} THEN 0 ELSE VersionAt(p), temp |-> 0,
            taken |-> IF kind = "attach" THEN {r \in Paths : name[r] # 0} ELSE {},
            tries |-> 0, clean |-> TRUE]
  /\ UNCHANGED <<name, body, whole, litter, inodes, versions>>

\* safe_attachment_name: the first candidate that is not known to be taken.
Candidate(taken) ==
  {Candidates[k] : k \in {k \in DOMAIN Candidates :
     /\ Candidates[k] \notin taken
     /\ \A j \in 1..(k - 1) : Candidates[j] \in taken}}

\* The first look, under the lock: the file is as the caller said, a target is free.
Check ==
  /\ op.pc = "check" /\ op.kind # "attach"
  /\ IF VersionAt(op.path) = op.expected /\ (op.kind = "move" => name[op.dest] = 0)
     THEN op' = [op EXCEPT !.clean = TRUE,
                   !.pc = CASE op.kind \in {"create", "write"} -> "temp"
                            [] op.kind = "delete" -> "verify"
                            [] op.kind = "move" -> "link"]
     ELSE End
  /\ UNCHANGED <<name, body, whole, litter, counts>>

\* An upload looks at candidate after candidate; one found taken counts as a try.
PickName ==
  /\ op.pc = "check" /\ op.kind = "attach"
  /\ \/ (op.tries = Retries \/ Candidate(op.taken) = {}) /\ End
     \/ /\ op.tries < Retries
        /\ \E p \in Candidate(op.taken) :
             op' = IF name[p] = 0
                   THEN [op EXCEPT !.path = p, !.dest = p, !.pc = "temp", !.clean = TRUE, !.tries = @ + 1]
                   ELSE [op EXCEPT !.taken = @ \union {p}, !.tries = @ + 1]
  /\ UNCHANGED <<name, body, whole, litter, counts>>

\* Mutant: the content is not synced before it gets its name.
OpenTempMut ==
  /\ op.pc = "temp" /\ NewInode
  /\ body' = [body EXCEPT ![inodes + 1] = versions + 1]
  /\ op' = [op EXCEPT !.pc = IF op.kind = "write" THEN "verify" ELSE "commit", !.temp = inodes + 1]
  /\ UNCHANGED <<name, whole, litter, ops>>

\* _write_temp and atomic_create_stream: a hidden file of its own ...
OpenTemp ==
  /\ op.pc = "temp" /\ NewInode
  /\ body' = [body EXCEPT ![inodes + 1] = versions + 1]
  /\ op' = [op EXCEPT !.pc = "sync", !.temp = inodes + 1]
  /\ UNCHANGED <<name, whole, litter, ops>>

\* ... written and synced before it gets its name ...
SyncTemp ==
  /\ op.pc = "sync"
  /\ whole' = whole \union {op.temp}
  /\ op' = [op EXCEPT !.pc = IF op.kind = "write" THEN "verify" ELSE "commit"]
  /\ UNCHANGED <<name, body, litter, counts>>

\* ... or removed: the disk is full, the upload too large, the client gone.
FailTemp ==
  /\ op.pc = "sync" /\ End
  /\ UNCHANGED <<name, body, whole, litter, counts>>

\* Mutant: the second look is taken as granted.
VerifyMut ==
  /\ op.pc = "verify"
  /\ op' = [op EXCEPT !.pc = "commit", !.clean = TRUE]
  /\ UNCHANGED <<name, body, whole, litter, counts>>

\* before_replace, and the second hash of a delete.
Verify ==
  /\ op.pc = "verify"
  /\ IF VersionAt(op.path) = op.expected THEN op' = [op EXCEPT !.pc = "commit", !.clean = TRUE] ELSE End
  /\ UNCHANGED <<name, body, whole, litter, counts>>

\* os.replace takes whatever is there; link(2) refuses a path that is taken, and an
\* upload then tries its next name with the chunks it has kept.
Replace ==
  /\ op.pc = "commit" /\ op.kind = "write"
  /\ name' = [name EXCEPT ![op.path] = op.temp] /\ End
  /\ UNCHANGED <<body, whole, litter, counts>>

\* Mutant: the link overwrites.
LinkTempMut ==
  /\ op.pc = "commit" /\ op.kind \in {"create", "attach"}
  /\ \/ name' = [name EXCEPT ![op.path] = op.temp] /\ End
     \/ /\ name[op.path] # 0 /\ UNCHANGED name
        /\ IF op.kind = "create" THEN End
           ELSE op' = [op EXCEPT !.pc = "check", !.taken = @ \union {op.path}, !.temp = 0]
  /\ UNCHANGED <<body, whole, litter, counts>>

LinkTemp ==
  /\ op.pc = "commit" /\ op.kind \in {"create", "attach"}
  /\ \/ name[op.path] = 0 /\ name' = [name EXCEPT ![op.path] = op.temp] /\ End
     \/ /\ name[op.path] # 0 /\ UNCHANGED name
        /\ IF op.kind = "create" THEN End
           ELSE op' = [op EXCEPT !.pc = "check", !.taken = @ \union {op.path}, !.temp = 0]
  /\ UNCHANGED <<body, whole, litter, counts>>

Unlink ==
  /\ op.pc = "commit" /\ op.kind = "delete"
  /\ name' = [name EXCEPT ![op.path] = 0] /\ End
  /\ UNCHANGED <<body, whole, litter, counts>>

\* move_file: a second name for the inode, a look at both names, then the old name
\* goes; on any failure after the link the new name goes, whatever it names by then.
LinkDest ==
  /\ op.pc = "link"
  /\ \/ /\ name[op.path] # 0 /\ name[op.dest] = 0
        /\ name' = [name EXCEPT ![op.dest] = name[op.path]]
        /\ op' = [op EXCEPT !.pc = "verifyDest"]
     \/ (name[op.path] = 0 \/ name[op.dest] # 0) /\ UNCHANGED name /\ End
  /\ UNCHANGED <<body, whole, litter, counts>>

VerifyMove ==
  /\ op.pc \in {"verifyDest", "verifySource"}
  /\ LET p == IF op.pc = "verifyDest" THEN op.dest ELSE op.path
     IN  op' = [op EXCEPT !.pc = IF VersionAt(p) # op.expected THEN "undo"
                                 ELSE IF op.pc = "verifyDest" THEN "verifySource" ELSE "drop"]
  /\ UNCHANGED <<name, body, whole, litter, counts>>

DropSource ==
  /\ op.pc = "drop"
  /\ \/ name[op.path] # 0 /\ name' = [name EXCEPT ![op.path] = 0] /\ End
     \/ name[op.path] = 0 /\ op' = [op EXCEPT !.pc = "undo"] /\ UNCHANGED name
  /\ UNCHANGED <<body, whole, litter, counts>>

UndoMove ==
  /\ op.pc = "undo"
  /\ name' = [name EXCEPT ![op.dest] = 0] /\ End
  /\ UNCHANGED <<body, whole, litter, counts>>

\* The process dies: its temporary file stays.
CrashFiles ==
  /\ op.pc # "idle" /\ End
  /\ litter' = litter \union ({op.temp} \ {0})
  /\ UNCHANGED <<name, body, whole, counts>>

-----------------------------------------------------------------------------
(* Editors: they save in place or by renaming, delete and rename *)

Untouched(new, newBody) ==
  \A p \in {op.path, op.dest} : (IF new[p] = 0 THEN 0 ELSE newBody[new[p]]) = VersionAt(p)
Touched(new, newBody) ==
  IF op.pc = "idle" \/ Untouched(new, newBody) THEN op ELSE [op EXCEPT !.clean = FALSE]

SaveInPlace(p) ==
  /\ name[p] # 0 /\ versions < MaxVersions
  /\ versions' = versions + 1
  /\ body' = [body EXCEPT ![name[p]] = versions + 1]
  /\ op' = Touched(name, body')
  /\ UNCHANGED <<name, whole, litter, inodes, ops>>

SaveByRename(p) ==
  /\ NewInode
  /\ body' = [body EXCEPT ![inodes + 1] = versions + 1]
  /\ whole' = whole \union {inodes + 1}
  /\ name' = [name EXCEPT ![p] = inodes + 1]
  /\ op' = Touched(name', body')
  /\ UNCHANGED <<litter, ops>>

EditorMoves(p, q) ==
  /\ name[p] # 0
  /\ name' = IF p = q THEN [name EXCEPT ![p] = 0] ELSE [name EXCEPT ![q] = name[p], ![p] = 0]
  /\ op' = Touched(name', body)
  /\ UNCHANGED <<body, whole, litter, counts>>

ServiceStep ==
  \/ Check \/ PickName \/ OpenTemp \/ SyncTemp \/ FailTemp \/ Verify \/ Replace \/ LinkTemp
  \/ Unlink \/ LinkDest \/ VerifyMove \/ DropSource \/ UndoMove
EditorStep ==
  \/ \E p \in Paths : SaveInPlace(p) \/ SaveByRename(p)
  \/ \E p, q \in Paths : EditorMoves(p, q)

FilesNext ==
  \/ \E kind \in {"create", "write", "delete", "move", "attach"}, p, q \in Paths : Begin(kind, p, q)
  \/ ServiceStep \/ EditorStep \/ CrashFiles

FilesSpec == FilesInit /\ [][FilesNext]_fileVars

(***************************************************************************)
(* Properties                                                              *)
(***************************************************************************)
Calls ==
  [pc : {"check", "temp", "sync", "verify", "commit", "link", "verifyDest", "verifySource",
         "drop", "undo"},
   kind : {"create", "write", "delete", "move", "attach"}, path : Paths, dest : Paths,
   expected : 0..MaxVersions, temp : 0..MaxInodes, taken : SUBSET Paths, tries : 0..Retries,
   clean : BOOLEAN]

TreeTypeOK ==
  /\ inodes \in 1..MaxInodes /\ versions \in 1..MaxVersions /\ ops \in 0..MaxOps
  /\ name \in [Paths -> 0..inodes] /\ body \in [1..MaxInodes -> 0..versions]
  /\ whole \subseteq 1..inodes /\ litter \subseteq 1..inodes

CallTypeOK == IF op.pc = "idle" THEN op = Idle ELSE op \in Calls
FilesTypeOK == TreeTypeOK /\ CallTypeOK

\* No path ever shows a file that was not written to its end: a crash, a failing
\* upload or a full disk leaves at most a hidden temporary file, and a name is
\* given only to synced content.
VisibleIsWhole == \A p \in Paths : name[p] # 0 => name[p] \in whole

\* The claim of the call under way, from its first successful look.
Granted == op.pc \notin {"idle", "check"}
ClaimKind ==
  CASE op.kind \in {"create", "write", "attach"} -> "put"
    [] op.kind = "delete" -> "delete"
    [] op.kind = "move" -> IF op.pc = "link" THEN "move" ELSE "linked"
Claim ==
  IF ~Granted THEN [kind |-> "none"]
  ELSE [kind |-> ClaimKind, path |-> op.path, dest |-> op.dest, expected |-> op.expected, clean |-> op.clean]

Store == [p \in Paths |-> VersionAt(p)]

Abstract == INSTANCE GuardedStore WITH
  Versions <- 0..MaxVersions, store <- Store, claim <- Claim

\* The system calls implement the store that its callers are promised: nothing the
\* service changes was not claimed with the version its caller read, and a path
\* that should be free is never overwritten.
Guarded == Abstract!StoreSpec
\* A claim that nobody touched still holds when the call acts on it.
ClaimHolds == Abstract!CleanClaimHolds
=============================================================================
