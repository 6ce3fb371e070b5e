# A TLA+ model of LocalBook

LocalBook keeps a directory of Markdown notes (the *Vault*), edits it through a
local HTTP service (`server/`), indexes it for search, links, a graph and
question answering, lets an AI agent propose changes to it, runs such agents on
a schedule, and keeps the reading data of a companion client (ReadFlow) in sync
between devices. The user's editor, sync clients and other programs write the
same directory at any time and know nothing of the service's locks, and the
service may die between any two system calls. This project models the parts of
the system where that matters, checks them with TLC and proves their safety
properties, for every value of the constants, with TLAPS.

| module | models | run | proofs |
|---|---|---|---|
| `Trash` | the soft-delete bin | `trash` | `VaultProofs` |
| `GuardedStore` | what the file API promises: an abstract store with claims | (refined by `VaultFiles`) | `VaultProofs` |
| `VaultFiles` | create, write, delete, move, upload as system calls | `vault` | `VaultProofs` |
| `VersionStore` (extends `VaultFiles`) | snapshots, their journal and recovery | `vault` | `VaultProofs` |
| `AgentJobs` | plan, accept, roll back, undo and recovery of an agent job | `jobs`, `jobs_nothing_applied` | `AgentJobsProofs` |
| `Scheduler` | the runs of a scheduled task | `scheduler` | `SchedulerProofs` |
| `NoteIndex` | watcher, event buffer, scans of the derived index | `index` | `IndexProofs` |
| `LinkIndex` | what the index holds: links, backlinks, full text, names | `links` | `IndexProofs` |
| `GraphView` (extends `LinkIndex`, `Ordering`) | the graph request | `links` | `IndexProofs` |
| `RagIndex` | the incremental vector index | `rag`, `rag_scan` | `RagProofs` |
| `Ordering` | sorting by a key, and selecting entries of a list | `answer` | `OrderingProofs` |
| `RagAnswer` (extends `Ordering`) | retrieval, fusion, evidence pack, citations | `answer` | `RagProofs` |
| `ReaderSchema` | opening and migrating the reader database | `reader` | `ReaderProofs` |
| `ReaderSync` | outboxes, push, pull, cursors of the devices | `reader` | `ReaderProofs` |
| `Reader` (extends both) | pairing, questions, import, composed with the two above | `reader` | `ReaderProofs` |
| `Runtime` | settings, vault session, transition, vault switch | `runtime` | `RuntimeProofs` |

`MC*.tla` and `*.cfg` instantiate them for TLC. `PROJECT.json` maps every
definition to the lines it models, every property to the mutation of the code
that breaks it, and lists hazards, findings and theorems.

## 1. Inventory

| component | state | operations | who it meets | what is hard |
|---|---|---|---|---|
| Vault file service (`vault/service.py`, `atomic_write.py`) | the directory | create, write, delete, move, each guarded by an expected hash | everyone; an editor | check and write are two system calls; a write may fail after it took effect; a move is link + unlink |
| Trash (`vault/trash.py`) | payload directories, `index.json`, quarantine names | trash, restore, delete, empty, list, purge | Vault mutation lock, editor | three places that no system call updates together; clean-up outside the lock |
| Watcher (`vault/watcher.py`) | pending events with deadlines | emit, debounce, dispatch, flush | OS events, index | dropped and reordered events |
| Derived index (`index/service.py`) | SQLite rows, names in memory, event buffer | refresh, rebuild, handle_event, flush | watcher, API | stale rows, scan beside events |
| Lifecycle, runtime (`vault/lifecycle.py`, `runtime.py`, `config.py`) | the open Vault and its services | open, switch, reconfigure, close | all services | half-done switch and its roll back |
| Agent jobs (`agents/service.py`) | record in memory and in `ai_jobs` | plan, accept, reject, undo | executor, policy, history | stale cache, partial accept |
| Executor, undo, recovery (`recovery/`) | `ai_job_journal` | execute, roll back, undo, rollback_if_safe, startup scan | Vault, history | partial failure, crash, a recovery without the job's lock |
| History (`history/`) | `ai_jobs`, `ai_job_journal`, `scheduler_runs` | save, mark, page, cleanup | jobs, scheduler | retention against rows still needed |
| Policy, actions (`policies/`, `actions/`) | none | evaluate, validate | jobs | pure |
| Scheduler (`scheduler/`) | `scheduler_runs`, `_active_runs`, tasks | trigger, pipeline, timeout, watchdog, pause, stop, recover | four threads, jobs | unlocked read-modify-write, cancellation, late results |
| Search, links, graph (`search/`, `links/`, `graph/`) | none of their own; the link, backlink and full-text tables | search, links panel, graph request | derived index | rows that are stale for other notes, tables that must agree, pages |
| RAG index (`rag/index_service.py`, `rag/vector/`) | documents, chunks, vectors, packed runs, pending paths | handle_event, flush, rebuild, retry, move | watcher, embeddings service, settings | reads, embedding calls and transactions are apart; failing batches; change of model |
| RAG answers (`rag/retrieval/`, `rag/context/`, `rag/service.py`) | none | retrieve, fuse, rerank, pack, answer | RAG index, model | budgets, degraded paths, invented citations |
| Reader server (`reader/`) and ReadFlow (`SyncEngine.swift`, `ReaderDatabase.swift`) | reader database, change log; each device's outbox and cursor | open, pair, push, pull, ask, import | HTTP client with retries, model | half-made schemas, duplicates, lost answers, conflicts, several commits per request |
| Version store (`versions/store.py`) | a private git repository, `pending.json`, `config.json` | enable, snapshot, recover | Vault lock | crash between repository and files |
| Web workspace (`packages/workspace`) | open tabs, dirty buffers, revisions | edit, autosave, conflict | API | late answers, overlapping saves |
| Markdown, AI adapters, export, documents, transcription, API, UI | none or external | conversions and queries | | pure or I/O |

What makes the modelled parts correct:

* **Trash**: no content is ever lost; nothing is removed for good before its
  retention ends or its user confirms; one note has one home; what the user sees
  can be restored; an unlisted payload has an explanation.
* **Agent jobs**: no save of the user made after the preview is destroyed, unless
  it falls into the middle of a Vault call of the job; a
  record that says committed, rolled back or undone tells the truth about the
  Vault; after a crash the journal names everything the job changed.
* **Scheduler**: a running row always has an owner and always ends; a timeout
  mark and a late result never hide a committed execution; a reconfiguration
  starts only when no run can write the Vault or report itself any more.
* **Index**: a path with no event under way has the row and the name of its file,
  whatever order changes, events, timers, scans and restarts came in, unless the
  watcher dropped or reordered its events, a read of it failed, or it is the new name
  of a directory; backlinks, links, names and full text tell the same story even
  then, and a graph is whole.
* **Vault files and versions**: nothing is changed that the caller had not read,
  a half-written file is never visible, a snapshot is one state of the Vault and
  its journal leads back to HEAD.
* **Reader**: an opened database has the schema the code uses; what leaves an
  outbox was committed by the server or is a record it refuses for good; a cursor
  skips nothing; quiet devices agree on the last edit of what the server accepts;
  answers follow their questions.
* **RAG**: a citation leads to an indexed note, a vector is of the content of its
  chunk, a rebuild repairs; links only add evidence, the pack keeps its budgets, of
  the markers the code recognises prose keeps those of sources it was given.
* **Runtime**: no settings edit is lost, no request sees two Vaults, what is saved
  is what is in use but for the two cases of section 4.

## 2. The modules

### Trash

State: the Vault `tree`, the listed ids `index` (`index.json`), and for each
entry its `payload` and the place `loc` of its directory: the holder
`<id>/`, a quarantine name (`.delete-`, `.purge-`, `.gc-`), back in the tree, or
gone. The thread inside the Vault's mutation lock is `stage` with its locals
(`caller`, `cur`, `path`, `expect`, `batch`, `todo`, `moved`); `sweeping` are the
`rmtree`s that run outside it and `lister` is the progress of `list_entries`,
which takes the lock twice.

Each action is the code between two system calls that another party can
separate: `TrashCheck` (resolve and hash guard), `TrashMove` (rename into the
holder), `TrashMeasure`, `TrashCommit` (index write or roll back), and so on.
Where the code catches a failure, the action has a disjunct for it, the failing
roll back included. `Crash` keeps the disk and drops the rest; `EditorSave`
writes a new content anywhere at any time; `Expire` ends a retention window.
Ids are numbered in order of creation, which is also the order of `deleted_at`.
The sets `used`, `superseded`, `racing`, `overwritten`, `asked` and `stranded`
are history: they record which content an editor replaced, which save fell into
an operation and so on, and no action of the code reads them (except that an
editor writes each content once).

### AgentJobs

State: the Vault `file`, the plan and the contents its preview saw, the database
record `db`, the cached record `cache`, the `journal` (a function from seq to
row, since `add_journal` is INSERT OR REPLACE), the thread that holds the job's
lock (`pc`, `ops`, `applied`, `todo`, `seq`) and the thread inside
`rollback_if_safe` (`rpc`, `rtodo`, `rseq`), which takes no lock. A content
stands for a file and its hash; `Written(i)` is what action i writes and each
save of the editor is a content of its own.

A Vault call has the outcomes of `Outcomes`. Undisturbed it fails before the write,
fails after it (directory fsync, verification) or succeeds. `Disturbed` puts one save
of the editor into the middle of it: between the last hash check and the
`os.replace` or `unlink`, where the save is gone; at the new name of a move before
that is checked, where the check fails and removes it; or behind the replace, where
it is read back. One save per call is a bound; `VaultFiles` has the calls as system
calls, with any number. `ExecJournal`, `ExecApply`, `ExecMark*`, `ExecCommit`,
`ExecRollback`, `ExecFinish` are the steps of `_execute_locked` and
`TransactionExecutor`; `Undo*` those of `UndoService`; `Recover*` those of
`rollback_if_safe`. `CrashAndRestart` includes the startup scan and, for a move
in progress, the state between link and unlink.

The history variable `blur` names situations in which a record is known to say
too little: `raced` (a recovery beside a live accept or undo), `leftover` (an
accept after a partial accept), `torn` (a write that failed after it took
effect) and `half_undone`. The properties say precisely which of them they
exclude; they are the code's limits and are listed among the hazards.

### Scheduler

State: the rows of one task (`status`, newest is `last`), the service's memory
(`life`, `paused`, `alive` for `_active_runs`), each run's pipeline (`work`,
`result`, `seen`), each manual caller (`waiter`, `cancelled`), the clock
(`overdue`, `stale`) and the history variable `crossed`. A pipeline ends with `Pop`,
which takes it out of `_active_runs`, and then `CleanUp`, the retention that is run
if due and turns finished rows into `gone`: expired ones but the newest, or, for the
bound on the rows of all tasks together, any. The event loop
interleaves coroutines only at an await, so at most one pipeline is between
`execute` and `pop` (`LoopFree`), while the API thread, the trigger thread and
the thread that stops the service run at any time. `_begin_run` is one action,
since it holds the service lock; `_finalize` is two (`FinalizeRead`,
`FinalizeSave`), since it does not.

### NoteIndex

State: the Vault's `file`s and `dirs`, the `rows` of the notes table, the basename
maps `names`, the watcher's `pending` dict and the `batch` its dispatcher is handing
over, the index's `buffer`, and a scan (`scan`, `listed`, `todo`, `built`) that
holds the index lock from its listing to its commit. A content is the number of the
change that wrote it. A pending event carries its place in the dict (`pos`, the
change that inserted its key) and its deadline (`due`, the change that renewed it
last): `Dispatch` takes the events whose deadlines have passed, a set closed
downwards in `due`, and `Deliver` hands them over in the order of `pos`, as Python's
dict does. `Write`, `Remove` and `Rename` are an editor's; `Folder` and
`RenameFolder` happen to directories, whose events are handed over like those of
files since no handler reads `is_directory`; `Link` is how the service creates and
moves; `Replace`, `Hide` and `Unhide` are renames with a hidden end (an atomic save,
trash, restore), which `emit_moved` drops. `Drops`, `Puts` and `Flushes` give every
outcome of `_apply_delete`, `_apply_create` and `_flush_event`, failed reads and
transactions included; a file that vanishes between `_flush_event`'s two reads is
such a failed read. The history variables `blind` (a change the watcher dropped),
`misled` (a move handed over out of order, or the new name of a directory) and
`failed` name the paths a row or name may be wrong for, and `fresh` those a running
scan will put right: an excuse ends when a scan has passed or the process starts
again.

### GuardedStore and VaultFiles

`GuardedStore` is the promise to a caller who names the version he read: a store
of versions by path; a call first *claims* a path that holds that version (0: a
free path) and then puts, deletes or moves, and others may write at any time. A
claim is `clean` while nobody else touched its paths. `VaultFiles` is the code:
names, inodes and their versions (`name`, `body`), which inodes were written and
synced (`whole`), temporary files a crash left (`litter`), and the call that holds
the mutation lock (`op`, with its `pc` and locals). Each action is a system call
or a check: `OpenTemp`, `SyncTemp`, `Verify`, `Replace`, `LinkTemp`, `Unlink`,
`LinkDest`, `VerifyMove`, `DropSource`, `UndoMove`, `PickName` for an upload.
Editors save in place (the same inode), by rename (a new one), move and remove.
`Abstract` maps names and inodes to the versions they show and `op` to its claim.

### VersionStore

Adds the repository (`repo`, `commits`), `config.json`, `pending.json` and the call
under way (`shot`): enable, recover, stage file by file, prepare, commit, mark,
publish, clear. A git command that times out may have taken effect, so a failing
step and a crash leave the same states (`AbandonShot`). `LockFree` is the lock it
shares with the file operations; editors need none.

### ReaderSchema, ReaderSync, Reader

`ReaderSchema` opens a database of any earlier build: the ledger, the columns and
tables each migration makes, one action per commit, and a death between any two.
`ReaderSync` has the server's rows and change log (`row`, `log`, a clock in
seconds), the push transaction, each device's `local` records, `outbox` and
`cursor`, calls of `performSync` step by step, and pushes their client gave up on
(`late`). An operation is its key, entity and kind. Of the fields of a record three
things are kept. `Unfit` entities are those whose record the server does not insert
(a missing field, a CHECK, a session or highlight that is not there): it refuses
their create and accepts what follows, which changes no row. `Partial` edits leave a
field of the row as it was (COALESCE; a note's update writes its content only): the
row is then `Mixed(k)`, and `LastEdit` is the edit k either way. And a change of a
source by `updateSource` or `deleteSource` writes no outbox row (`EditSource`; the
history variable `aside` has what it changed). A pulled record is stored only if its
source is there (`MayApply`); otherwise the sync ends. `Reader` adds pairing codes,
registration and tokens, questions (`ask`, stored by three commits into `thread`,
of which a crash or a failure may leave one or two), and the import of a session into
the Vault; nothing but the opening runs until the database is open, which one request
does before the others (`get_reader_service` takes no lock: two first requests that
open the database at the same time are not modelled).

### RagIndex

State: the notes, watcher events, `_pending_paths`, the model in use, the four
stores (`doc`, `rows`, `vecs`, `run`: documents, chunks, vectors, the packed run of
each document) and what each thread (two flushes, the watcher thread, a rebuild or
retry) is doing. An action is one read, one embedding call or one transaction, since
nothing holds a lock over them; a batch may fail. `SwapStack` changes the model as a
settings change does. A text is a sequence of chunks and texts share chunks, so that
reuse of vectors happens. Each chunk has a head, the section and tags above it
(`Heads`): the text that is embedded holds path and head (`Above`), the id and the
hash do not, so a vector remembers what it was embedded under. The rows a pass still
has to embed and a packed run are sets whose members carry their place (`Before`,
`Place`), in the order in which the code reads the rows.

### RagAnswer

One question, stage by stage: any ranked lists of the keyword and vector search (or
their failure), link expansion with its weights, reciprocal rank fusion in integers
(ranks scaled by a common multiple), the optional reranker, the evidence pack
(duplicates, merging of neighbours, budgets), generation, citation checks and the
fallback. A marker is the set of numbers in it; the code recognises those of one
number of up to three digits (`Recognised`, `MaxNumber`) and leaves all others. The
operators are the code's functions; they are evaluated on every instance of the
lists. A loop is a recursive function of the number of entries it has been through
(`Merge`, `Admit` are its bodies); a sort with a key is `Ordered` of a set by the
pairs the key puts in order, and a comprehension with a condition is `Entries` of a
list at a set of positions (`Ordering`), which give the same list as Python's and
can be reasoned about for lists of any length.

### Runtime

State: the settings in memory and in the file with their revision, the session,
`changing`, requests and the scheduled task in flight with the session they were
admitted under, the lifecycle in use and its scan, the scheduler in use and the
prepared one, the route the agent's adapter was built with (the flat fields), and
each settings request (`work`). `apart` is a history variable: the retrieval stack
after a failed `apply_rag`, the agent after an edit of the entry in use without
`activate` (`EditsInUse`). A snapshot projects the entry in use onto the flat fields
in place (`Projected`). `Submit` and `Draft` happen before the transition, as in the
code; `Enter` is the admission; `BuildServices`, `SwapStack`, `PrepareVault` and
their failures, `Save`, the assignments, `Publish` and `Exit` are its steps. A
profile is a number that is new for every edit. `MayEnter` uses the scheduler's
pause, whose own guarantee (`PausedIsQuiet`) is proved in `SchedulerProofs`.

### LinkIndex and GraphView

`LinkIndex` holds the index in one record `ix`: names, the notes table with its
rowids, links by note, the backlinks table and the full-text table by rowid.
References are resolved against the names known at the time (by path, by name, by
stem); events, flushes, the startup `refresh` that reuses rows whose digests match,
rebuilds that may fail after the names were replaced (`torn`) and restarts change
it. Which change is reported, and in what order, is `NoteIndex`; here any event may
be lost or overtaken and any read and transaction of `_apply_create` and
`_apply_delete` may fail, so that rows may be of an older text: what is asked is
whether the tables agree with one another all the same, and a rowid's full text with
its row. `GraphView` evaluates a set of graph requests in every state of it. Its
search is a recursive function over the levels (`Visited`, one `Round` for each),
its sorted lists are those of `Ordering`, and `Pages` are what a client reads that
follows `next_offset`. `Reaches`, a walk along the links, is an independent
definition of the distance that the search is compared with. Reading the snapshot is
atomic, as in `graph_snapshot`; fingerprints and vectors are read after it in the
code.

## 3. The runs

| run | bounds | what it shows |
|---|---|---|
| `trash` | 2 paths, 2 contents (symmetric), 2 entries, batch size 1 | the six invariants below hold; a batch of one makes purge and clean-up take several rounds, two entries let one operation meet the leftovers of another |
| `jobs` | 2 paths, four plans, 1 save (between two calls or inside one) or removal, 1 crash, 2 accepts | the six invariants below; the plans contain a step that must fail after another succeeded, so that roll backs of writes and moves happen |
| `jobs_nothing_applied` | the same | finding: "nothing applied" after a failed recovery |
| `scheduler` | 2 rows, 1 restart, fairness | three invariants, one action property, one liveness property |
| `index` | 1 note, 1 attachment, directories at either name, 3 changes, 1 rebuild or restart, fairness | the index is faithful and settles; three changes let a pending key be renewed and overtaken by a move |
| `vault` | 2 paths, 3 inodes, 3 versions, 1 call, 2 snapshots | the refinement and four invariants; three versions are the file, the call's and an editor's, two snapshots are what a recovery needs |
| `reader` | 3 devices (2 paired), a source, a child the server refuses and one it accepts, 2 syncs, page 1, batch 2, 3 edits, 1 second, 1 fault, 1 code, 2 questions | five invariants; a page of one inside one second makes every cursor position happen, a batch of two a partial acknowledgement; three edits are a source, a child and its update (which is partial), or a delete |
| `rag` | 2 notes, 3 texts (one binary, two that share a chunk under other heads), 2 flushes (symmetric), 2 models, batches of 1, 2 edits, 1 swap, 1 rebuild | three invariants; 2 edits let a move meet an older flush |
| `rag_scan` | the same | finding: the packed scan scores chunks by other chunks' vectors |
| `answer` | 6 chunks of 3 notes, 2 link graphs, lists of up to 2, packs of up to 2 blocks, 8 tokens and 3 of a document | three invariants; the chunks contain neighbours, a repeated text, one larger than its share and one without any tokens; the markers are two sources, one that is none, a composite one and one of four digits |
| `runtime` | 2 settings requests, 1 request, 1 task, 2 Vaults, 2 added profiles with room for one, 3 edits, 1 restart, symmetric | two invariants and an action property |
| `links` | 3 notes (two of one name), 1 attachment, 3 texts, 2 edits, 2 stored vectors, 1 rebuild or restart, 9 graph requests | the tables agree and every graph is whole; two edits are a rename and what overtakes it, two vectors make a semantic edge; the scan at every start is a rebuild too, which may fail |

Deadlock is checked in `trash` and `answer`; the other runs reach their bounds and
stop. Each run takes between a few seconds and three minutes.

**Trash.** `NoteConservation`: what was once in the Vault is in the tree, in a
payload directory, replaced by an editor or by a rename (`OnlyRacingSaves`
bounds that case to files saved during the operation), or was removed when due.
`DoomedOnlyWhenDue`: a payload is under a removal name only if its retention
ended or its user confirmed. `MovedNeverCopied`: one home per note.
`ListedIsRecoverable`: between operations a listed, unexpired entry has a payload
to restore. `UnlistedIsStranded`: an unlisted payload is left by a crash or by a
failed roll back.

**AgentJobs.** `OnlyWindowSaves`: a save of the editor is destroyed only if it fell
into the middle of a Vault call of the job. `WriteAheadJournal`: everything the job
changed and its record does not list is named by a journal row. `CommittedIsWhole`,
`RolledBackIsClean`, `UndoneIsClean`: the three final records are true of the Vault.
`RecoverableUnlessTouched`: an interrupted job whose paths no one else touched is
never refused by the recovery.

**Scheduler.** `RunningIsOwned`: a running row of a live service is in
`_active_runs`. `PausedIsQuiet`: while the service is paused no pipeline can write
the Vault or its own row any more (the retention behind it still may delete old
rows). `CommittedIsVisible`: a committed execution is reported as committed or
flagged until the retention deletes its finished row. `LateResultIsFlagged`: a
timed-out run never becomes a success. `RunsEnd`: no row says running for ever.

**NoteIndex.** `SettledIsFaithful`: a path with no event under way has the row and
the name of its file, unless it is blind, misled or failed. `IndexSettles`: from
some point on this holds for every path that is none of these.

**VaultFiles, VersionStore.** `Guarded`: every behaviour of the system calls is one
of `GuardedStore` (a refinement, checked as a property). `ClaimHolds`: a claim
nobody touched still holds when the call acts on it. `VisibleIsWhole`: no path
shows a file that was not written to its end. `ConfigNamesHead`: with no journal
left, `config.json` names HEAD. `SnapshotIsConsistent`: unless an editor wrote, the
staged tree is one state of the Vault.

**Reader.** `OpenedIsConverged`: an opened database has the whole schema.
`AckedIsWritten`: what leaves an outbox was committed by the server, or is the create
of an entity whose record or source it refuses.
`NothingSkipped`: a cursor passes no row the device has not applied. `QuietAgree`:
when every outbox is empty and every device that syncs has pulled to the end, an
entity edited by one device is the same edit on the server and on each of them, unless
the server refuses it, its source was changed aside of the outbox, a late push
overtook a newer one or a device ran two syncs at once. `AnswersFollow`: in a
conversation each question is followed by its answer, unless its commits were cut
short.

**RagIndex.** `CitedIsIndexed`: no chunk without a document. `VectorOfItsText`: a
vector is of the content of its chunk, whichever head it was embedded under.
`RebuildHeals`: an undisturbed rebuild leaves exactly the chunks of the files, each
with the vector of its content under its path and head, whatever was there.

**RagAnswer.** `LinksOnlyAdd`: the fused list begins with what fusion gives without
the links, and behind it is no document a direct path found. `PackWithinBudget`: at
most so many blocks; the tokens, unless one block alone is larger; the share of a
document, unless one block of it is larger and no other one has any tokens (a first
block closes its document only to blocks that have some); no text twice; blocks of a
document further apart than the merge gap. `AnswerIsGrounded`: where citations are
required prose cites the pack; its sources are the recognised markers left in it,
each a block of retrieved chunks; without prose the sources are the whole pack.

**Runtime.** `NoLostEdit` (an action property): what a commit makes the settings is
its own edit of the settings it replaces. `RequestSeesOneVault`: a request or task
under way has the session it was admitted under and meets no swap. `SavedIsLive`:
outside a transition file, memory and Vault agree and the scheduler runs, and so do
the agent's route and the search settings of the retrieval stack, each unless `apart`
names it.

**LinkIndex, GraphView.** `IndexCoheres`: backlinks, links, names and full text
agree, and a search finds the text of the rows; that the rows follow the files is the
question of `index`. `GraphIsFaithful`: distances
are right, the nodes are the notes and tags of the scope, the pages that
`next_offset` leads through show each of them once, no edge leads nowhere unseen, and
a first page not marked truncated is the whole scope.

Fairness is assumed for the watchdog (a periodic coroutine), for the parts of a
pipeline that await nothing, for a stop that has begun and for the restart of a
dead process; in `index` for the dispatcher, the timers and a scan that has begun;
none for the planner, which may never answer, for triggers or for callers.

Every property is checked to be breakable: `PROJECT.json` names for each one a
mutation of a mapped definition (a skipped check, a lost roll back, a wrong name)
under which TLC finds it violated.

## 4. What the code does not do

Findings, each with a run that shows it:

1. `recovery/service.py:148` says a job without open journal rows never wrote;
   after a recovery that failed half-way it may have (`jobs_nothing_applied`).
2. `rag/vector/sqlite.py:1015` says the optimised scan ranks as the reference scan;
   the packed run skips chunks without a vector while the search counts all chunks
   (`rag_scan`).

Exceptions: here too the code does not do what its text says. The models have these
behaviours, and a property that would be false because of one names it as the case it
says nothing about; none is asked on its own.

* Jobs: `recovery/executor.py:6-8` says external modifications are never overwritten.
  A save between the last hash check of a Vault call and its `os.replace` or `unlink`
  is (`window` in `OnlyWindowSaves`).
* Scheduler: `service.py:449` says a pause succeeds only when no pipeline owns the
  runtime; a run leaves `_active_runs` (589-590) before its retention deletes rows
  (592), which is why `PausedIsQuiet` leaves out `clean`. `history/service.py:241-242`
  says the newest run per task is kept; the bound on the number of rows (301-306)
  deletes it too, so a committed execution is visible only until then.
* Index: `index/service.py:930` says directories are ignored; no handler reads
  `is_directory`, and the new name of a renamed directory enters the name maps until a
  rebuild or a start (`misled`).
* Reader: `SyncEngine.swift:189-190` says a rejected operation cannot be deleted
  accidentally. The answer names entities, and line 192 removes the first row of one:
  when the create is refused and an update in the same batch accepted, which changes
  no row, the refused create goes and was never written (`Refused` in
  `AckedIsWritten`).
* RAG: `rag/vector/sqlite.py:552-553` says a vector is reusable when it is of the same
  chunk text; the section and tags embedded with it are not compared, so after a
  change of tags or headings the vector of another text is kept (`VectorOfItsText`
  speaks of the content only). `rag/citations.py:8-9` says unsupported markers are
  removed; those of several numbers (`[S1, S99]`) or of four digits (`[S1000]`) stay
  (`AnswerIsGrounded` speaks of single numbers of up to three digits).
* Runtime: `runtime.py:504` says after a failed `apply_rag` that the previous settings
  are retained; the stack was swapped before the save that failed and keeps the new
  ones (`apart` has "stack"). `config.py:206-213` says every AI consumer reads the
  applied configuration; after an upsert of the active profile without `activate` the
  agent was built from the old flat fields, which the next snapshot changes (`apart`
  has "agent").

Observations made while modelling. The models behave this way too; where a
property would be wrong because of one, it names the exception.

* Trash: a claimed `.gc-*` tree is said to be retained for the next retry
  (`trash.py:629`); no scan looks for such names (598-600).
* Scheduler: `locks.py:3` says a lock per task keeps one instance; it is never
  acquired, and the check of the newest row is defeated by a skip marker
  (`service.py:512`): the third trigger starts a second pipeline.
* Index: an atomic save reaches the watcher as one move from a hidden name, which it
  drops (`watcher.py:267`), although `index/service.py:829-831` expects events to
  merge: after a service save the row stays as it was until a scan. Links of other
  notes stay as they were when a target appears or goes, and the startup comparison
  reuses them. After a rebuild that failed behind its listing, a note re-created
  with the same digest is not entered in the name maps. `[[x.png]]` also matches the
  note `x.md`. An edge between two pages is on neither.
* Vault: a move that fails its second check unlinks whatever the destination names
  by then (`service.py:752-757`). Temporary files a crash left are staged by
  snapshots. A crash between the journal's first state and the very first commit
  makes every later snapshot fail (`store.py:186-190`).
* Reader: a crash inside the script of 001, or between the column of 006 and its
  ledger row, makes every later opening fail. A create whose answer was lost is
  refused when repeated and stays in the outbox; a hundred such rows fill the
  batch. A pulled delete goes through `deleteHighlight`, which queues a delete of its
  own (`ReaderDatabase.swift:946-957`), although 824-826 warn of just that; the
  server accepts and logs the delete of an absent row, so two devices send a delete
  back and forth for as long as they sync (theorem `DeletesAreExchanged`). The
  docstring at `database.py:660-662` speaks of re-registration, which is refused.
  A field an update clears stays on the server, and of a note it takes the content
  only (`database.py:1179-1280`). `updateSource` and `deleteSource` reach no other
  device. A conversation started before its source was synced is left out of the
  import. A
  commit whose `update_device_last_seen` fails is reported as an error.
* RAG: the first substring tier passes a
  minimum coverage of 0 (`keyword.py:323`), which every chunk meets. A failed rerank
  leaves the fused list uncut. Moving a note onto an indexed path fails on the
  primary key and the move is forgotten. An older read may be written after a newer
  one. A note that stops being UTF-8 keeps its rows.
* Runtime: reader routes are not admitted as requests, so a switch may happen under
  them.

## 5. What is proved

The theorems hold for every value of the constants that satisfies the assumption
named in the module (`TrashAssumption`, `FilesAssumption`, `LinkAssumption`, ...):
any paths, contents, plans, devices, models; any page, batch and library size; any
number of steps, crashes, restarts and saves. The assumptions say what the code
relies on (notes are among the paths, a batch is not empty, no content is the mark
of an absent file) and that the bounds of a run are numbers.

Every safety property of the runs is a theorem, except those listed at the end of
this section. Hardly one is inductive alone: it holds of the reachable states,
but says too little about the calls under way to carry over a step. Each proof
module therefore states an inductive invariant, a conjunction of named parts, shows
that it holds at the start and that every action keeps it, and derives the
properties from it. The invariants were model-checked on the runs first.

| module | theorems (property) | inductive invariant |
|---|---|---|
| `SchedulerProofs` | types, `RunningIsOwned`, `PausedIsQuiet`, `CommittedIsVisible`, the action property `LateResultIsFlagged` | `IInv` |
| `VaultProofs` | types and the six properties of `trash`; types, `VisibleIsWhole`, `ClaimHolds`, the refinement `Guarded`, `ConfigNamesHead`, `SnapshotIsConsistent` | `IInv`; `VaultInv` |
| `AgentJobsProofs` | the six properties of `jobs` | `JobsInv` |
| `IndexProofs` | `SettledIsFaithful`; `IndexCoheres`, `GraphIsFaithful` | `IndexInv`; `LinksInv` |
| `ReaderProofs` | the five properties of `reader`, and that deletes never rest | `SchemaInv`, `ThreadInv`, `SyncInv`, `AgreeInv` |
| `RuntimeProofs` | `RequestSeesOneVault`, `SavedIsLive`, the action property `NoLostEdit` | `RuntimeInv` |
| `RagProofs` | the three properties of `rag`; `LinksOnlyAdd`, `PackWithinBudget`, `AnswerIsGrounded` | `RagInv`; `ListsInv`, `PackInv`, `AnswerInv` |
| `OrderingProofs` | lemmas for the others: sorted and selected lists, functions by recursion | |

**Trash.** `Working` is what each stage of the locked thread knows of its locals
(which entries are in `batch`, where the payloads in `moved` are, that `cur` is in
its holder until it is listed); `Due`, that a purge batch is expired and what is
swept is asked for or expired; `Homes`, where a content may be and that each was
written once.

**Scheduler.** `Owned` (a pipeline that may still write belongs to a run in
`_active_runs` until the stop empties it), `Staged` (when a pipeline has a result)
and `Marked` (what the row of a committed pipeline can say, stage by stage).

**Vault.** `FilesInv` ties the stage of a call to its kind (`CallShape`) and to its
temporary file, which is synced by the time it may get a name (`TempSynced`), and
says that an untouched claim holds (`Held`). `VersionsInv` has the lock shared with
the file operations (`OneHolder`), what `pending.json` and `config.json` say at each
stage of a snapshot (`Journal`) and that one call commits at most once
(`HeadBound`). The refinement maps names and inodes to the versions they show: every
initial state is one of `GuardedStore`, and every step of a call, an editor, a crash
or a snapshot is a claim, an effect, a step of the others, or a stutter.

**AgentJobs.** `OutcomeIs` says of every outcome of a Vault call that it leaves the
tree as it was, as the step makes it, or so with one save on top, and what it
destroys. A journal row or step is that of its action (`FitInv`); a path no
editor touched is as the preview saw it or as an action leaves it (`FileInv`);
record, cache and lock agree (`RecordInv`, `StatusInv`); the journal has a row for
every step done (`JournalInv`). On these rest what an accept has in effect
(`ForwardInv`, `CommittedInv`), what an undo has behind it (`UndoInv`), and that
each change still has a row that a roll back or recovery will go through
(`PlainInv`, `ExecutedInv`). The properties keep the exceptions that they name; the
proof shows there are no others.

**NoteIndex.** The heart is `MoveInv`: a rename in the watcher's dict that the disk no
longer shows is followed by an event that will be handed over later, which needs
the order of keys and deadlines (`OrderInv`). `ListInv`, `CheckInv` and `BuildInv` say
the same of a scan's listing, comparison and rows while it reads; `RowInv` and
`NameInv` of what the index serves. A directory's move (`FolderMoves`) is one that
never becomes true of a file: its new name is `misled`.

**LinkIndex.** `Tables` says how the tables mirror one another: a rowid is of one
note, the full-text rows are those of the notes, the backlinks are those of the link
rows. It needs nothing of the Vault or of the events, and so holds whichever are lost
or late and whatever fails. Lemmas state what each operation on the tables does
(`DeleteIs`, `InsertIs`, `CreateIs`, `DropIs`, `RebuiltIs`); each action of the index
is a use of them (`EventStep`).

**GraphView.** The graph is right of any rows, stale or not; of `LinksInv` it needs
only that a row holds a text (`Typed`). `Level` is the invariant of the search: after
n rounds the visited notes are those that a walk over at most n links reaches, and
what is next to a visited note is visited too unless that note is in the frontier
(`RoundKeeps`); `ReachesMore` says the same of walks, and counting the rounds up gives
`VisitedIs`. `PagesShow` is about any list without repetitions and any page size, with
the products of page number and limit as the only arithmetic (`TimesIs`);
`ScopeNodesAre` shows that the nodes are such a list, `ScopeEdgesAre` where an edge
may lead. The assumptions on the constants are that the tags of a text are finitely
many and that a request is one of the three the API has.

**Reader.** `SchemaInv`: what a row of the ledger means (`Recorded`) and what the
migration under way has done (`Underway`). `SyncInv`: the log is ordered and cursors
name rows of it (`CursorInv`); a key names one operation (`KeysInv`); rows of the
server were created by an accepted operation (`RowsInv`); in every outbox, push in
flight and batch still in the transaction a child comes behind its source (`LedInv`),
without which the server would refuse it, provided that it accepts the source; and
each operation of a sync that waits is accepted, refused for good, or still in the
transaction of its batch (`AckInv`).

`AgreeInv` carries `QuietAgree`. It follows an operation from the outbox of its
device through pushes, on the way or given up on, to the log (`OwnInv`); says that
of an entity with one editor, which the server accepts and no change aside of the
outbox touched (`Sole`), the others send nothing but echoed deletes, and that its
newest operation is in its editor's outbox or in the log (`SoleInv`); that the
server's row is of the edit that the last row of the log names, or a delete is in
the log (`TellsInv`); and that a device's copy is that too, or the row is still to
come (`CopyInv`), for which a page must be the gapless continuation of a cursor
(`PageInv`, `StepwiseInv`). In a quiet state nothing is still to come. A delete is
the other case: `EchoInv` says that each one a device applied is followed by a newer
one of its own, so the newest delete of the log always has an answer under way.

**Runtime.** `LockInv` is the admission: one transition, with nothing in flight and
the scheduler paused. `LiveInv` says at which points file, memory and services may
differ. `FreshInv`: a draft is what its edit makes of the settings as long as the
revision is the one the request named; `NoLostEdit` follows. `AgentInv`: the flat
fields are those of the entry in use, and the agent was built with them, but after an
edit of that entry that does not activate it; a request that names the revision in use
has seen them projected (`ProjectedIs`, `EditsProject`). `StackInv`: the search
settings of the stack are those in use or those about to be committed, unless an
`apply_rag` failed.

**RagIndex.** `StoreInv`: a row has its document, a vector its row. Because chunk
ids are digests of the content, a late embedding cannot be of another text.
`HealInv` follows an undisturbed rebuild: which documents are whole, that no vector
is left of before, that each is of the head its chunk has (`Headed`), and that the
packed runs are those of the rows.

**RagAnswer.** The properties are about what loops and sorts compute, for lists of
any length. `OrderingProofs` has what they need: a sorted list holds each member once
and in the order of the key (`OrderedIs`); two sorts agree on the members one has in
front when the order puts them first (`OrderedPrefix`); a selection keeps the order
(`EntriesAre`); and a function defined by recursion over `0 .. n` exists, starts and
steps as its definition says (`StepsExist`), from which a property of every stage
follows by counting up (`CountUp`). Both rest on the least element of a set of
numbers (`LeastIs`), so that no induction theorem with an operator parameter is
needed.

`ListsInv` says that the lists fit together: no link hit is of a document that a
direct path found. `DirectFirst` shows that every direct hit then outscores every link
hit, hence (`LinkAdds`) that fusion without the link list is a prefix of fusion with
it. This needs the strict inequality that the comment beside
`DEFAULT_LINK_RRF_WEIGHT` (`hybrid.py:40-51`) states for the production values, the
weight of the first link hit below that of the last direct one, and the theorem
`LinksOnlyAddHolds` has it as its hypothesis:
`LinkWeight * (K + MaxHits) < 2 * (K + 1)`. The weight is the constant 0.5; with
`rrf_k` 60 the hypothesis holds for lists of up to 61 hits, and `fts_top_k` and
`vector_top_k` are 30. The settings accept up to 200 (`config.py:635-636`): there the
claim of the comment is not made and the theorem says nothing.

`PackInv` says of a pack what `PackWithinBudget` asks, and where its blocks come
from. Under it are what one candidate does to the running totals (`AdmitKeeps`),
what is kept once of repeated chunks and texts (`DeduplicatedIs`), that merging in
line order leaves blocks further apart than the gap (`MergeKeeps`, `MergedOfIs`) and
that no chunk is in two of them (`AccumulateIs`). `AnswerInv` adds what the citation
checks leave of the markers a model wrote: the recognised ones, and of others
whatever was there.

Only model-checked:

* `RunsEnd` and `IndexSettles`, which are liveness under fairness (ENABLED).
* The two findings, which TLC refutes.

## 6. What is not modelled

Directory payloads in the trash are one content; symbolic links and path rules are
left out (`path_safety.py` is a pure checker). The job's policy is reduced to the
rules that read the Vault; previews, wording and redaction are left out, and so is
`plan` with immediate execution, which runs the same executor. The scheduler's task
definitions, cron and backends are left out: a trigger may come at any time; a
`save_run` that fails in `_finalize` is left out too. One task and one job are
modelled, since rows of different ones are not shared; two jobs meet only in the
Vault, where the other one is an editor. Of the file service, directories and
listings are left out; of the version store the queries; of the reader most fields
of its records, its search, the pull limit of 1000 operations, and a second first
request that opens the database beside another; of the RAG index the cutting of
Markdown into chunks and the arithmetic of similarity; of a search its ranking and
snippets; of the runtime the environment and the checks of single fields. The clock
of the reader server never goes back (a step back would skip rows). The web
workspace's autosave and the calendar arithmetic of cron are not modelled.
`PROJECT.json` gives the reason for every component without a module.

## 7. Plan

1. `plan` with immediate execution, the one hazard no property covers.
2. The ranking and the snippets of a search, and the cutting of Markdown into chunks.
