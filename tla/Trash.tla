------------------------------- MODULE Trash -------------------------------
(***************************************************************************)
(* The soft-delete bin of one Vault (server/vault/trash.py).               *)
(*                                                                         *)
(* The durable state is three places that no single system call updates    *)
(* together: the Vault tree, the payload directories below                 *)
(* .localnote/trash/ and the atomically replaced index.json.  Every        *)
(* operation below is a chain of renames followed by one index write, all  *)
(* under the Vault's mutation lock; the recursive deletes come after it.   *)
(* Between any two steps the process may die, an I/O call may fail where   *)
(* the code handles the failure, and an editor outside the service, which  *)
(* knows nothing of the lock, may save a file.                             *)
(*                                                                         *)
(* A note stands for a regular file's content.  Ids stand for the uuid4    *)
(* names; they are handed out in increasing order, so that numeric order   *)
(* is the order of the entries of index.json and of their deleted_at.      *)
(***************************************************************************)
EXTENDS Naturals, FiniteSets

CONSTANTS
    VaultPaths,   \* Vault-relative paths
    Notes,        \* file contents, each written at most once
    NoNote,       \* "no file here"
    MaxId,        \* bound: how many entries are ever created
    BatchSize     \* _DEFAULT_PURGE_BATCH_SIZE

Ids == 1..MaxId

ASSUME TrashAssumption ==
    /\ NoNote \notin Notes
    /\ MaxId \in Nat
    /\ BatchSize \in Nat \ {0}
    /\ IsFiniteSet(VaultPaths)
    /\ VaultPaths # {}

VARIABLES
    \* durable
    tree,         \* [VaultPaths -> Notes or NoNote]: the Vault
    index,        \* ids listed in index.json
    orig,         \* [Ids -> VaultPaths]: original_path of an entry
    payload,      \* [Ids -> Notes or NoNote]: the payload moved under that id
    loc,          \* [Ids -> Places]: where that payload is now
    \* the thread inside the mutation lock
    stage, caller, cur, path, expect,
    batch,        \* the entries the operation is about to drop
    todo,         \* payloads it has still to look at
    moved,        \* payloads it has renamed
    \* threads outside the lock
    sweeping,     \* quarantine trees a live thread is removing
    lister,       \* how far list_entries has come
    \* environment and history
    fresh,        \* number of ids handed out
    expired,      \* ids past deleted_at + retention_days
    asked,        \* ids whose permanent removal a user committed
    stranded,     \* ids left unlisted by a crash or by a failed roll back
    used,         \* notes ever written
    superseded,   \* notes an editor replaced
    racing,       \* notes an editor saved while the lock was held
    overwritten   \* notes a rename of the bin replaced

diskVars == <<tree, index, orig, payload, loc>>
workVars == <<batch, todo, moved>>
opVars == <<stage, caller, cur, path, expect, workVars>>
histVars == <<fresh, expired, asked, stranded, used, superseded,
              racing, overwritten>>
vars == <<diskVars, opVars, sweeping, lister, histVars>>

\* "holder" is <id>/, "delete" .delete-<id>-*, "purge" .purge-<id>-*, "gc"
\* .gc-*; "restored" is back in the tree and "gone" removed for good.
Places == {"none", "holder", "delete", "purge", "gc", "restored", "gone"}
Stages == {"idle", "purge_move", "purge_undo", "purge_sweep", "trash_check",
           "trash_move", "trash_measure", "trash_commit", "restore_check",
           "restore_move", "restore_commit", "quarantine", "quarantine_undo",
           "clean"}

Present == {n \in Notes : \E p \in VaultPaths : tree[p] = n}
OldestOf(S, k) == {i \in S : Cardinality({j \in S : j < i}) < k}

\* Places, stages and the sets of ids and notes keep their types.
TypeOK ==
    /\ tree \in [VaultPaths -> Notes \cup {NoNote}]
    /\ index \in SUBSET Ids
    /\ orig \in [Ids -> VaultPaths]
    /\ payload \in [Ids -> Notes \cup {NoNote}]
    /\ loc \in [Ids -> Places]
    /\ stage \in Stages
    /\ caller \in {"none", "trash", "restore", "rename", "list"}
    /\ cur \in Ids \cup {0}
    /\ path \in VaultPaths
    /\ expect \in Notes \cup {NoNote}
    /\ batch \in SUBSET Ids /\ todo \in SUBSET Ids /\ moved \in SUBSET Ids
    /\ sweeping \in SUBSET Ids
    /\ lister \in {"idle", "cleaning", "purge"}
    /\ fresh \in Nat /\ fresh <= MaxId
    /\ expired \in SUBSET Ids /\ asked \in SUBSET Ids /\ stranded \in SUBSET Ids
    /\ used \in SUBSET Notes /\ superseded \in SUBSET Notes
    /\ racing \in SUBSET Notes /\ overwritten \in SUBSET Notes

AnyPath == CHOOSE p \in VaultPaths : TRUE

Init ==
    /\ tree \in [VaultPaths -> Notes \cup {NoNote}]
    /\ \A p, q \in VaultPaths : (tree[p] = tree[q] /\ tree[p] # NoNote) => p = q
    /\ used = Present
    /\ index = {} /\ loc = [i \in Ids |-> "none"]
    /\ orig = [i \in Ids |-> AnyPath] /\ payload = [i \in Ids |-> NoNote]
    /\ stage = "idle" /\ caller = "none" /\ cur = 0
    /\ path = AnyPath /\ expect = NoNote
    /\ batch = {} /\ todo = {} /\ moved = {}
    /\ sweeping = {} /\ lister = "idle"
    /\ fresh = 0 /\ expired = {} /\ asked = {} /\ stranded = {}
    /\ superseded = {} /\ racing = {} /\ overwritten = {}

----------------------------------------------------------------------------
(* Moving between the stages of the thread that holds the mutation lock.   *)

Goto(s) == stage' = s /\ UNCHANGED <<caller, cur, path, expect>>

\* The lock is released and the handler answers.
Unlock ==
    /\ stage' = "idle" /\ caller' = "none" /\ cur' = 0
    /\ path' = AnyPath /\ expect' = NoNote
    /\ batch' = {} /\ todo' = {} /\ moved' = {}

\* What a rename onto path p destroys: a file an editor put there after the
\* code looked.
Clobber(p) ==
    overwritten' = overwritten \cup ({tree[p]} \ {NoNote})

\* os.rename(payload of i, p)
PayloadToTree(i, p) ==
    /\ tree' = [tree EXCEPT ![p] = payload[i]]
    /\ loc' = [loc EXCEPT ![i] = "restored"]
    /\ Clobber(p)

Relocate(S, place) == loc' = [i \in Ids |-> IF i \in S THEN place ELSE loc[i]]

----------------------------------------------------------------------------
(* purge_expired, called first by trash and restore and by list_entries.   *)

\* The batch the index scan collects: the oldest entries past the window.
ExpiredBatch == OldestOf(index \cap expired, BatchSize)

\* Where the calling handler resumes after the purge.
AfterPurge(c) ==
    IF c = "trash" THEN "trash_check"
    ELSE IF c \in {"restore", "rename"} THEN "restore_check"
    ELSE "idle"

\* Entering purge_expired: with nothing expired it returns at once.
StartPurge(c) ==
    /\ caller' = c
    /\ batch' = ExpiredBatch /\ todo' = ExpiredBatch /\ moved' = {}
    /\ stage' = IF ExpiredBatch = {} THEN AfterPurge(c) ELSE "purge_move"

\* One holder renamed to .purge-<id>-*; a holder that is not there is skipped.
PurgeMove(i) ==
    /\ stage = "purge_move" /\ i \in todo
    /\ todo' = todo \ {i}
    /\ IF loc[i] = "holder"
       THEN Relocate({i}, "purge") /\ moved' = moved \cup {i}
       ELSE UNCHANGED <<loc, moved>>
    /\ Goto("purge_move")
    /\ UNCHANGED <<tree, index, orig, payload, batch, sweeping, lister, histVars>>

\* _write_index(kept).  In list_entries this is the end of the locked part;
\* in trash and restore the purge runs inside their own locked part.
PurgeCommit ==
    /\ stage = "purge_move" /\ todo = {}
    /\ index' = index \ batch
    /\ IF caller = "list"
       THEN /\ sweeping' = sweeping \cup moved
            /\ lister' = "idle"
            /\ Unlock
       ELSE /\ Goto("purge_sweep")
            /\ UNCHANGED <<workVars, sweeping, lister>>
    /\ UNCHANGED <<tree, orig, payload, loc, histVars>>

\* A rename or the index write raised: what was moved goes back.
PurgeFail ==
    /\ stage = "purge_move"
    /\ Goto("purge_undo")
    /\ UNCHANGED <<diskVars, workVars, sweeping, lister, histVars>>

\* suppress(OSError): each rename back is tried once, the exception follows.
PurgeUndo(i) ==
    /\ stage = "purge_undo" /\ i \in moved
    /\ moved' = moved \ {i}
    /\ \/ Relocate({i}, "holder")
       \/ UNCHANGED loc
    /\ Goto("purge_undo")
    /\ UNCHANGED <<tree, index, orig, payload, batch, todo, sweeping, lister, histVars>>

PurgeRaise ==
    /\ stage = "purge_undo" /\ moved = {}
    /\ Unlock
    /\ lister' = IF caller = "list" THEN "idle" ELSE lister
    /\ UNCHANGED <<diskVars, sweeping, histVars>>

\* rmtree of one purged tree inside the caller's lock; a failure leaves it.
PurgeSweep(i) ==
    /\ stage = "purge_sweep" /\ i \in moved
    /\ moved' = moved \ {i}
    /\ \/ Relocate({i}, "gone")
       \/ UNCHANGED loc
    /\ Goto("purge_sweep")
    /\ UNCHANGED <<tree, index, orig, payload, batch, todo, sweeping, lister, histVars>>

PurgeReturn ==
    /\ stage = "purge_sweep" /\ moved = {}
    /\ Goto(AfterPurge(caller))
    /\ UNCHANGED <<diskVars, workVars, sweeping, lister, histVars>>

----------------------------------------------------------------------------
(* trash(relative_path, expected_sha256)                                   *)

BeginTrash(p, e) ==
    /\ stage = "idle" /\ fresh < MaxId
    /\ e \in used
    /\ path' = p /\ expect' = e /\ cur' = 0
    /\ StartPurge("trash")
    /\ UNCHANGED <<diskVars, sweeping, lister, histVars>>

\* resolve, then the expected-hash guard: PathNotFound and FileConflict answer.
TrashCheck ==
    /\ stage = "trash_check"
    /\ IF tree[path] = expect
       THEN Goto("trash_move") /\ UNCHANGED workVars
       ELSE Unlock
    /\ UNCHANGED <<diskVars, sweeping, lister, histVars>>

\* Mutant: the source is copied and left in place.
TrashMoveMut ==
    /\ stage = "trash_move"
    /\ \/ /\ tree[path] # NoNote
          /\ fresh' = fresh + 1
          /\ cur' = fresh + 1
          /\ orig' = [orig EXCEPT ![fresh + 1] = path]
          /\ payload' = [payload EXCEPT ![fresh + 1] = tree[path]]
          /\ loc' = [loc EXCEPT ![fresh + 1] = "holder"]
          /\ tree' = tree
          /\ stage' = "trash_measure"
          /\ UNCHANGED <<index, caller, path, expect, workVars>>
       \/ Unlock /\ UNCHANGED <<diskVars, fresh>>
    /\ UNCHANGED <<sweeping, lister, expired, asked, stranded, used,
                   superseded, racing, overwritten>>

\* mkdir of the holder, then os.rename(source, destination).  An editor may
\* have saved since the hash was taken: the payload is what is there now.
TrashMove ==
    /\ stage = "trash_move"
    /\ \/ /\ tree[path] # NoNote
          /\ fresh' = fresh + 1
          /\ cur' = fresh + 1
          /\ orig' = [orig EXCEPT ![fresh + 1] = path]
          /\ payload' = [payload EXCEPT ![fresh + 1] = tree[path]]
          /\ loc' = [loc EXCEPT ![fresh + 1] = "holder"]
          /\ tree' = [tree EXCEPT ![path] = NoNote]
          /\ stage' = "trash_measure"
          /\ UNCHANGED <<index, caller, path, expect, workVars>>
       \/ Unlock /\ UNCHANGED <<diskVars, fresh>>
    /\ UNCHANGED <<sweeping, lister, expired, asked, stranded, used,
                   superseded, racing, overwritten>>

\* Mutant: a failed measure removes the holder instead of moving it back.
TrashMeasureMut ==
    /\ stage = "trash_measure"
    /\ \/ /\ Goto("trash_commit")
          /\ UNCHANGED <<tree, loc, workVars, overwritten, stranded>>
       \/ Relocate({cur}, "gone") /\ Unlock /\ UNCHANGED <<tree, overwritten, stranded>>
       \/ /\ Unlock
          /\ stranded' = stranded \cup {cur}
          /\ UNCHANGED <<tree, loc, overwritten>>
    /\ UNCHANGED <<index, orig, payload, sweeping, lister, fresh, expired, asked,
                   used, superseded, racing>>

\* _measure and _load_index.  A failed measure moves the payload back; a
\* failed load raises between the two guarded parts and leaves it unlisted.
TrashMeasure ==
    /\ stage = "trash_measure"
    /\ \/ /\ Goto("trash_commit")
          /\ UNCHANGED <<tree, loc, workVars, overwritten, stranded>>
       \/ PayloadToTree(cur, path) /\ Unlock /\ UNCHANGED stranded
       \/ /\ Unlock
          /\ stranded' = stranded \cup {cur}
          /\ UNCHANGED <<tree, loc, overwritten>>
    /\ UNCHANGED <<index, orig, payload, sweeping, lister, fresh, expired, asked,
                   used, superseded, racing>>

\* Mutant: a failed index write is swallowed.
TrashCommitMut ==
    /\ stage = "trash_commit"
    /\ \/ index' = index \cup {cur} /\ UNCHANGED <<tree, loc, overwritten, stranded>>
       \/ UNCHANGED <<index, tree, loc, overwritten, stranded>>
       \/ stranded' = stranded \cup {cur} /\ UNCHANGED <<index, tree, loc, overwritten>>
    /\ Unlock
    /\ UNCHANGED <<orig, payload, sweeping, lister, fresh, expired, asked, used,
                   superseded, racing>>

\* _write_index(items); on failure the payload goes back, errors suppressed.
TrashCommit ==
    /\ stage = "trash_commit"
    /\ \/ index' = index \cup {cur} /\ UNCHANGED <<tree, loc, overwritten, stranded>>
       \/ PayloadToTree(cur, path) /\ UNCHANGED <<index, stranded>>
       \/ stranded' = stranded \cup {cur} /\ UNCHANGED <<index, tree, loc, overwritten>>
    /\ Unlock
    /\ UNCHANGED <<orig, payload, sweeping, lister, fresh, expired, asked, used,
                   superseded, racing>>

----------------------------------------------------------------------------
(* restore(entry_id, rename_if_occupied)                                   *)

BeginRestore(i, c) ==
    /\ stage = "idle" /\ i \in 1..fresh
    /\ c \in {"restore", "rename"}
    /\ cur' = i /\ path' = orig[i] /\ expect' = NoNote
    /\ StartPurge(c)
    /\ UNCHANGED <<diskVars, sweeping, lister, histVars>>

\* Mutant: the occupied test is skipped.
RestoreCheckMut ==
    /\ stage = "restore_check"
    /\ \/ /\ cur \in index /\ loc[cur] = "holder"
          /\ \/ path' = path
             \/ /\ tree[path] # NoNote /\ caller = "rename"
                /\ path' \in {q \in VaultPaths : tree[q] = NoNote}
          /\ stage' = "restore_move"
          /\ UNCHANGED <<caller, cur, expect, workVars>>
       \/ /\ \/ cur \notin index
             \/ loc[cur] # "holder"
             \/ tree[path] # NoNote
          /\ Unlock
    /\ UNCHANGED <<diskVars, sweeping, lister, histVars>>

\* _entry, assert_safe_existing(blob), the occupied test and _free_name.
RestoreCheck ==
    /\ stage = "restore_check"
    /\ \/ /\ cur \in index /\ loc[cur] = "holder"
          /\ \/ tree[path] = NoNote /\ path' = path
             \/ /\ tree[path] # NoNote /\ caller = "rename"
                /\ path' \in {q \in VaultPaths : tree[q] = NoNote}
          /\ stage' = "restore_move"
          /\ UNCHANGED <<caller, cur, expect, workVars>>
       \/ /\ \/ cur \notin index
             \/ loc[cur] # "holder"
             \/ tree[path] # NoNote
          /\ Unlock
    /\ UNCHANGED <<diskVars, sweeping, lister, histVars>>

\* The parent is recreated, then os.rename(blob, target).
RestoreMove ==
    /\ stage = "restore_move"
    /\ \/ /\ PayloadToTree(cur, path) /\ Goto("restore_commit")
          /\ UNCHANGED workVars
       \/ Unlock /\ UNCHANGED <<tree, loc, overwritten>>
    /\ UNCHANGED <<index, orig, payload, sweeping, lister, fresh, expired, asked,
                   stranded, used, superseded, racing>>

\* _write_index(remaining).  On failure the target goes back into the holder,
\* errors suppressed: whatever an editor left at the target is what moves.
RestoreCommit ==
    /\ stage = "restore_commit"
    /\ \/ index' = index \ {cur} /\ UNCHANGED <<tree, payload, loc>>
       \/ /\ tree[path] # NoNote
          /\ payload' = [payload EXCEPT ![cur] = tree[path]]
          /\ loc' = [loc EXCEPT ![cur] = "holder"]
          /\ tree' = [tree EXCEPT ![path] = NoNote]
          /\ UNCHANGED index
       \/ UNCHANGED <<index, tree, payload, loc>>
    /\ Unlock
    /\ UNCHANGED <<orig, sweeping, lister, histVars>>

----------------------------------------------------------------------------
(* delete(entry_id) and empty(): detach the payloads, then drop the entries *)

BeginDelete(S) ==
    /\ stage = "idle"
    /\ \/ S = index                       \* empty
       \/ \E i \in index : S = {i}        \* delete
    /\ S # {}
    /\ stage' = "quarantine" /\ batch' = S /\ todo' = S /\ moved' = {}
    /\ UNCHANGED <<caller, cur, path, expect, diskVars, sweeping, lister, histVars>>

\* Mutant: delete sets payloads aside under the purge prefix.
QuarantineMut(i) ==
    /\ stage = "quarantine" /\ i \in todo
    /\ todo' = todo \ {i}
    /\ IF loc[i] = "holder"
       THEN Relocate({i}, "purge") /\ moved' = moved \cup {i}
       ELSE UNCHANGED <<loc, moved>>
    /\ Goto("quarantine")
    /\ UNCHANGED <<tree, index, orig, payload, batch, sweeping, lister, histVars>>

\* _quarantine_payload; a holder that is not there gives None.
Quarantine(i) ==
    /\ stage = "quarantine" /\ i \in todo
    /\ todo' = todo \ {i}
    /\ IF loc[i] = "holder"
       THEN Relocate({i}, "delete") /\ moved' = moved \cup {i}
       ELSE UNCHANGED <<loc, moved>>
    /\ Goto("quarantine")
    /\ UNCHANGED <<tree, index, orig, payload, batch, sweeping, lister, histVars>>

\* The index write is the commit point; the trees are removed after unlock.
QuarantineCommit ==
    /\ stage = "quarantine" /\ todo = {}
    /\ index' = index \ batch
    /\ asked' = asked \cup batch
    /\ sweeping' = sweeping \cup moved
    /\ Unlock
    /\ UNCHANGED <<tree, orig, payload, loc, lister, fresh, expired, stranded,
                   used, superseded, racing, overwritten>>

QuarantineFail ==
    /\ stage = "quarantine"
    /\ Goto("quarantine_undo")
    /\ UNCHANGED <<diskVars, workVars, sweeping, lister, histVars>>

\* _restore_quarantine, errors suppressed; then the exception goes on.
QuarantineUndo(i) ==
    /\ stage = "quarantine_undo" /\ i \in moved
    /\ moved' = moved \ {i}
    /\ \/ Relocate({i}, "holder")
       \/ UNCHANGED loc
    /\ Goto("quarantine_undo")
    /\ UNCHANGED <<tree, index, orig, payload, batch, todo, sweeping, lister, histVars>>

QuarantineRaise ==
    /\ stage = "quarantine_undo" /\ moved = {}
    /\ Unlock
    /\ UNCHANGED <<diskVars, sweeping, lister, histVars>>

----------------------------------------------------------------------------
(* list_entries: _clean_quarantine, then purge_expired, then the index.     *)

InPlace(p) == {i \in Ids : loc[i] = p}
Abandoned == InPlace("purge") \cup InPlace("delete")

\* sorted(...)[:limit]: .delete-* sort before .purge-*, ids are random.
CleanBatches ==
    {S \in SUBSET Abandoned :
        /\ Cardinality(S) <= BatchSize
        /\ S # Abandoned => Cardinality(S) = BatchSize
        /\ S \cap InPlace("purge") # {} => InPlace("delete") \subseteq S}

\* The scan may also fail and clean nothing.
BeginList ==
    /\ stage = "idle" /\ lister = "idle"
    /\ stage' = "clean" /\ lister' = "cleaning" /\ batch' = {} /\ moved' = {}
    /\ todo' \in CleanBatches \cup {{}}
    /\ UNCHANGED <<caller, cur, path, expect, diskVars, sweeping, histVars>>

\* Mutant: an abandoned .delete-* tree is claimed without asking the index.
CleanMut(i) ==
    /\ stage = "clean" /\ i \in todo
    /\ todo' = todo \ {i}
    /\ \/ /\ loc[i] = "delete" /\ i \in index
          /\ Relocate({i}, "holder") /\ UNCHANGED moved
       \/ /\ loc[i] \in {"purge", "delete"}
          /\ Relocate({i}, "gc") /\ moved' = moved \cup {i}
       \/ UNCHANGED <<loc, moved>>
    /\ Goto("clean")
    /\ UNCHANGED <<tree, index, orig, payload, batch, sweeping, lister, histVars>>

\* A .delete-* tree whose entry is still listed goes back to its holder; any
\* other is claimed under a .gc-* name.  Either rename may fail and is skipped.
Clean(i) ==
    /\ stage = "clean" /\ i \in todo
    /\ todo' = todo \ {i}
    /\ \/ /\ loc[i] = "delete" /\ i \in index
          /\ Relocate({i}, "holder") /\ UNCHANGED moved
       \/ /\ loc[i] = "purge" \/ (loc[i] = "delete" /\ i \notin index)
          /\ Relocate({i}, "gc") /\ moved' = moved \cup {i}
       \/ UNCHANGED <<loc, moved>>
    /\ Goto("clean")
    /\ UNCHANGED <<tree, index, orig, payload, batch, sweeping, lister, histVars>>

CleanReturn ==
    /\ stage = "clean" /\ todo = {}
    /\ sweeping' = sweeping \cup moved
    /\ lister' = "purge"
    /\ Unlock
    /\ UNCHANGED <<diskVars, histVars>>

\* The lister's own claimed trees are removed (or skipped) before it purges.
ListPurge ==
    /\ stage = "idle" /\ lister = "purge"
    /\ sweeping \cap InPlace("gc") = {}
    /\ UNCHANGED <<path, expect, cur>>
    /\ IF ExpiredBatch = {}
       THEN /\ lister' = "idle"
            /\ UNCHANGED <<stage, caller, workVars>>
       ELSE /\ StartPurge("list") /\ UNCHANGED lister
    /\ UNCHANGED <<diskVars, sweeping, histVars>>

\* shutil.rmtree outside the lock.  It fails when the tree was claimed under
\* another name meanwhile, or for any OSError; the tree is then left.
Sweep(i) ==
    /\ i \in sweeping
    /\ sweeping' = sweeping \ {i}
    /\ \/ loc[i] \in {"delete", "purge", "gc"} /\ Relocate({i}, "gone")
       \/ UNCHANGED loc
    /\ UNCHANGED <<tree, index, orig, payload, opVars, lister, histVars>>

----------------------------------------------------------------------------
(* The environment.                                                        *)

\* The process dies: threads and locks go, the disk stays.
Crash ==
    /\ stranded' = IF stage \in {"trash_measure", "trash_commit"}
                   THEN stranded \cup {cur} ELSE stranded
    /\ Unlock
    /\ sweeping' = {} /\ lister' = "idle"
    /\ UNCHANGED <<diskVars, fresh, expired, asked, used, superseded, racing,
                   overwritten>>

\* The retention window of the oldest unexpired entry ends.
Expire ==
    /\ \E i \in index \ expired :
          /\ \A j \in index \ expired : i <= j
          /\ expired' = expired \cup {i}
    /\ UNCHANGED <<diskVars, opVars, sweeping, lister, fresh, asked, stranded,
                   used, superseded, racing, overwritten>>

\* An editor outside the service saves a file.
EditorSave(p, n) ==
    /\ n \notin used
    /\ used' = used \cup {n}
    /\ tree' = [tree EXCEPT ![p] = n]
    /\ superseded' = superseded \cup ({tree[p]} \ {NoNote})
    /\ racing' = IF stage = "idle" THEN racing ELSE racing \cup {n}
    /\ UNCHANGED <<index, orig, payload, loc, opVars, sweeping, lister, fresh,
                   expired, asked, stranded, overwritten>>

----------------------------------------------------------------------------
Locked ==
    \/ PurgeCommit \/ PurgeFail \/ PurgeRaise \/ PurgeReturn
    \/ TrashCheck \/ TrashMove \/ TrashMeasure \/ TrashCommit
    \/ RestoreCheck \/ RestoreMove \/ RestoreCommit
    \/ QuarantineCommit \/ QuarantineFail \/ QuarantineRaise
    \/ CleanReturn
    \/ \E i \in Ids : \/ PurgeMove(i) \/ PurgeUndo(i) \/ PurgeSweep(i)
                      \/ Quarantine(i) \/ QuarantineUndo(i) \/ Clean(i)

Request ==
    \/ \E p \in VaultPaths, e \in Notes : BeginTrash(p, e)
    \/ \E i \in Ids, c \in {"restore", "rename"} : BeginRestore(i, c)
    \/ \E S \in SUBSET Ids : BeginDelete(S)
    \/ BeginList \/ ListPurge

Environment ==
    \/ Crash \/ Expire
    \/ \E p \in VaultPaths, n \in Notes : EditorSave(p, n)

Next == Locked \/ Request \/ Environment \/ \E i \in Ids : Sweep(i)

Spec == Init /\ [][Next]_vars

----------------------------------------------------------------------------
(* Properties.                                                             *)

InBin(i) == loc[i] \in {"holder", "delete", "purge", "gc"}

\* No content is ever lost to the bin: whatever was once in the Vault is in
\* the tree, in a payload directory, replaced by an editor, or was removed
\* because its entry was past retention or permanently deleted.  The one
\* remaining case, a rename onto a file, is bounded by OnlyRacingSaves.
NoteConservation ==
    \A n \in used :
        \/ n \in Present \cup superseded \cup overwritten
        \/ \E i \in Ids :
              /\ payload[i] = n
              /\ InBin(i) \/ (loc[i] = "gone" /\ i \in asked \cup expired)

\* A payload is only ever doomed (set aside by a purge, claimed for removal,
\* being removed, removed) when its retention ended or its user confirmed.
DoomedOnlyWhenDue ==
    \A i \in Ids :
        loc[i] \in {"purge", "gc", "gone"} \/ i \in sweeping => i \in asked \cup expired

\* "the item is moved, not copied": one note never has two homes.
MovedNeverCopied ==
    /\ \A i \in Ids : InBin(i) => payload[i] \notin Present
    /\ \A i, j \in Ids : InBin(i) /\ InBin(j) /\ payload[i] = payload[j] => i = j

\* Between operations an entry the user can see and whose retention runs is
\* backed by a payload that restore, or the next list, can bring back, unless
\* an interrupted restore already put it into the tree.
ListedIsRecoverable ==
    stage = "idle" =>
        \A i \in index \ expired : loc[i] \in {"holder", "delete", "restored"}

\* Between operations every payload in a holder is listed, except after a
\* crash inside trash(), a failed index read or a failed roll back.
UnlistedIsStranded ==
    stage = "idle" =>
        \A i \in Ids : loc[i] = "holder" /\ i \notin index => i \in stranded

\* A rename of the bin never lands on a file that was there when the code
\* looked: only a save made while the operation was running can be hit.
OnlyRacingSaves == overwritten \subseteq racing

=============================================================================
