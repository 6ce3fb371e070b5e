---------------------------- MODULE VersionStore ----------------------------
(***************************************************************************)
(* VersionStore (versions/store.py): snapshots of the vault as commits of  *)
(* a private git repository, under the vault's mutation lock.  The file    *)
(* operations are those of VaultFiles; while a snapshot holds the lock     *)
(* only editors write.  A git command that times out is killed and its     *)
(* effect may or may not be there, so a failing step and a crash leave the *)
(* same thing behind.                                                      *)
(***************************************************************************)
EXTENDS VaultFiles, Integers

CONSTANTS MaxShots   \* bound: calls of enable and snapshot

ASSUME VersionsAssumption == MaxShots \in Nat

VARIABLES
  repo,     \* the bare repository is there
  config,   \* config.json: -1 not there, 0 no snapshot yet, or the last snapshot
  pending,  \* pending.json: "none", "prepared" or the commit it names
  commits,  \* the trees of the history; HEAD is the last one
  shot,     \* the call under way
  shots     \* how many so far

versionVars == <<repo, config, pending, commits, shot, shots>>
vaultVars == <<fileVars, versionVars>>

Resting == [pc |-> "idle", only |-> FALSE, todo |-> {}, tree |-> <<>>, touched |-> FALSE]
Head0 == Len(commits)

VersionsInit ==
  /\ repo = FALSE /\ config = -1 /\ pending = <<"none", 0>> /\ commits = <<>>
  /\ shot = Resting /\ shots = 0

\* Mutant: a snapshot does not wait for the operations of the service.
LockFreeMut == TRUE

\* One lock for both: RLock of the vault, held from the first look to the last.
LockFree == op.pc = "idle" /\ shot.pc = "idle"

StartShot(enableOnly) ==
  /\ LockFree /\ shots < MaxShots
  /\ shots' = shots + 1
  /\ shot' = [Resting EXCEPT !.pc = "enable", !.only = enableOnly]
  /\ UNCHANGED <<repo, config, pending, commits>>

\* enable: git init unless there is a repository, config.json unless there is one.
InitRepo ==
  /\ shot.pc = "enable" /\ ~repo
  /\ repo' = TRUE
  /\ UNCHANGED <<config, pending, commits, shot, shots>>

EnsureConfig ==
  /\ shot.pc = "enable" /\ repo
  /\ config' = IF config < 0 THEN 0 ELSE config
  /\ shot' = IF shot.only THEN Resting ELSE [shot EXCEPT !.pc = "recover"]
  /\ UNCHANGED <<repo, pending, commits, shots>>

\* Mutant: a prepared journal is dropped without looking at HEAD.
RecoverMut ==
  /\ shot.pc = "recover" /\ pending[1] # "none"
  /\ \/ /\ pending[1] = "prepared" /\ commits = <<>>
        /\ shot' = Resting /\ UNCHANGED config
     \/ /\ pending[1] = "committed" \/ commits # <<>>
        /\ config' = IF pending[1] = "prepared" THEN config ELSE pending[2]
        /\ shot' = [shot EXCEPT !.pc = "recovered"]
  /\ UNCHANGED <<repo, pending, commits, shots>>

\* _recover_pending: a prepared journal stands for HEAD, a committed one for the
\* commit it names.  Without a first commit HEAD cannot be resolved and the
\* snapshot fails, now and every later time.
Recover ==
  /\ shot.pc = "recover" /\ pending[1] # "none"
  /\ \/ /\ pending[1] = "prepared" /\ commits = <<>>
        /\ shot' = Resting /\ UNCHANGED config
     \/ /\ pending[1] = "committed" \/ commits # <<>>
        /\ config' = IF pending[1] = "prepared" THEN Head0 ELSE pending[2]
        /\ shot' = [shot EXCEPT !.pc = "recovered"]
  /\ UNCHANGED <<repo, pending, commits, shots>>

ForgetRecovered ==
  /\ shot.pc = "recovered"
  /\ pending' = <<"none", 0>>
  /\ shot' = [shot EXCEPT !.pc = "recover"]
  /\ UNCHANGED <<repo, config, commits, shots>>

\* _stage_locked lists the vault and copies file after file.
BeginStaging ==
  /\ shot.pc = "recover" /\ pending[1] = "none"
  /\ shot' = [shot EXCEPT !.pc = "stage", !.todo = Paths, !.tree = [p \in Paths |-> 0],
                          !.touched = FALSE]
  /\ UNCHANGED <<repo, config, pending, commits, shots>>

StageFile(p) ==
  /\ shot.pc = "stage" /\ p \in shot.todo
  /\ shot' = [shot EXCEPT !.todo = @ \ {p}, !.tree[p] = VersionAt(p)]
  /\ UNCHANGED <<repo, config, pending, commits, shots>>

\* Nothing to commit; or the journal is written before the commit.
Prepare ==
  /\ shot.pc = "stage" /\ shot.todo = {}
  /\ IF (IF commits = <<>> THEN [p \in Paths |-> 0] ELSE commits[Head0]) = shot.tree
     THEN shot' = Resting /\ UNCHANGED pending
     ELSE pending' = <<"prepared", 0>> /\ shot' = [shot EXCEPT !.pc = "commit"]
  /\ UNCHANGED <<repo, config, commits, shots>>

Commit ==
  /\ shot.pc = "commit"
  /\ commits' = Append(commits, shot.tree)
  /\ shot' = [shot EXCEPT !.pc = "mark"]
  /\ UNCHANGED <<repo, config, pending, shots>>

MarkCommitted ==
  /\ shot.pc = "mark"
  /\ pending' = <<"committed", Head0>>
  /\ shot' = [shot EXCEPT !.pc = "publish"]
  /\ UNCHANGED <<repo, config, commits, shots>>

Publish ==
  /\ shot.pc = "publish"
  /\ config' = Head0
  /\ shot' = [shot EXCEPT !.pc = "clear"]
  /\ UNCHANGED <<repo, pending, commits, shots>>

ClearPending ==
  /\ shot.pc = "clear"
  /\ pending' = <<"none", 0>> /\ shot' = Resting
  /\ UNCHANGED <<repo, config, commits, shots>>

\* A step fails, a file vanishes under the copy, or the process dies.
AbandonShot ==
  /\ shot.pc # "idle" /\ shot' = Resting
  /\ UNCHANGED <<repo, config, pending, commits, shots>>

VersionsNext ==
  \/ \E only \in BOOLEAN : StartShot(only)
  \/ InitRepo \/ EnsureConfig \/ Recover \/ ForgetRecovered \/ BeginStaging
  \/ \E p \in Paths : StageFile(p)
  \/ Prepare \/ Commit \/ MarkCommitted \/ Publish \/ ClearPending \/ AbandonShot

VaultInit == FilesInit /\ VersionsInit

VaultNext ==
  \/ VersionsNext /\ UNCHANGED fileVars
  \/ /\ EditorStep
     /\ shot' = IF shot.pc = "stage" THEN [shot EXCEPT !.touched = TRUE] ELSE shot
     /\ UNCHANGED <<repo, config, pending, commits, shots>>
  \/ /\ \/ LockFree /\ \E kind \in {"create", "write", "delete", "move", "attach"}, p, q \in Paths : Begin(kind, p, q)
        \/ ServiceStep \/ CrashFiles
     /\ UNCHANGED versionVars

VaultSpec == VaultInit /\ [][VaultNext]_vaultVars

(***************************************************************************)
(* Properties                                                              *)
(***************************************************************************)
Trees == [Paths -> 0..MaxVersions]

Shots ==
  [pc : {"idle", "enable", "recover", "recovered", "stage", "commit", "mark", "publish", "clear"},
   only : BOOLEAN, todo : SUBSET Paths, tree : {<<>>} \union Trees, touched : BOOLEAN]

HistoryTypeOK ==
  /\ repo \in BOOLEAN /\ config \in -1..MaxShots /\ shots \in 0..MaxShots
  /\ pending \in ({"none", "prepared", "committed"} \X (0..MaxShots))
  /\ commits \in Seq(Trees) /\ Head0 <= MaxShots

VersionsTypeOK == HistoryTypeOK /\ shot \in Shots
VaultTypeOK == FilesTypeOK /\ VersionsTypeOK

\* With no journal left and no call under way, config.json names the newest commit,
\* wherever earlier snapshots died and however their journals were recovered.
ConfigNamesHead ==
  shot.pc = "idle" /\ pending[1] = "none" /\ config >= 0 => config = Head0

\* "Commit a consistent staging tree": unless an editor wrote meanwhile, what is
\* staged is the vault as it is when the copy ends, never a mixture of before and
\* after an operation of the service.
SnapshotIsConsistent ==
  shot.pc = "stage" /\ ~shot.touched => \A p \in Paths \ shot.todo : shot.tree[p] = VersionAt(p)
=============================================================================
