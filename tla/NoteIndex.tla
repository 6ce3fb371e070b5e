----------------------------- MODULE NoteIndex -----------------------------
(***************************************************************************)
(* How the derived note index follows the Vault: the file system watcher   *)
(* (server/vault/watcher.py), the event buffer, the incremental updates    *)
(* and the scans of the index (server/index/service.py) and the order in   *)
(* which the lifecycle starts them (server/vault/lifecycle.py).            *)
(*                                                                         *)
(* A change of the Vault becomes a watchdog event, waits in the watcher's  *)
(* _pending dict for its debounce window, is handed to handle_event by the *)
(* dispatcher thread and, unless it is a move, waits once more in the      *)
(* index's buffer.  Everything the index does is under one lock, which a   *)
(* scan holds from its listing to its commit; the Vault knows nothing of   *)
(* that lock and changes at any time.                                      *)
(*                                                                         *)
(* Directories have events too.  is_directory comes along with them, is no *)
(* part of the key and is read by nobody, so an event here does not carry  *)
(* it.  The files in a directory that moves are paths of their own.        *)
(*                                                                         *)
(* A content is the number of the change that wrote it, and stands for the *)
(* bytes, their digest and the row made of them.  Changes are also the     *)
(* clock: a pending event carries the number of the change that inserted   *)
(* its key (its place in the dict) and of the one that renewed its         *)
(* deadline last.                                                          *)
(***************************************************************************)
EXTENDS Naturals, FiniteSets

CONSTANTS
    Paths,        \* Vault-relative paths the watcher lets through
    Notes,        \* those with a Markdown suffix
    Absent,       \* "no file here", "no row"
    MaxChanges,   \* bound: changes of the Vault, rebuilds and restarts
    MaxScans      \* bound: rebuilds asked for and restarts, together

ASSUME IndexAssumption ==
    /\ Notes \subseteq Paths
    /\ MaxChanges \in Nat /\ MaxScans \in Nat
    /\ Absent \notin Nat

VARIABLES
    file,         \* the Vault's files
    dirs,         \* its directories
    rows,         \* the notes table
    names,        \* the basename maps: paths that wikilinks can resolve to
    up,           \* the process, its watcher and its index exist
    open,         \* _db is not None
    ready,        \* _build_state = "ready"
    started,      \* the startup scan has begun
    pending,      \* VaultWatcher._pending
    batch,        \* due events the dispatcher is handing over
    buffer,       \* DerivedIndexService._pending_events
    \* the thread that scans, holding the index lock
    scan, listed, todo, built,
    \* history
    fresh,        \* paths whose row the running scan will put right
    blind,        \* paths that changed without an event reaching the watcher
    misled,       \* paths hit by a move that was handed over out of order, and
                  \* the new names of directories
    failed,       \* paths whose read or row write failed
    changes, scans, starts

diskVars == <<file, dirs, changes>>
dbVars == <<rows, names, open, ready>>
watchVars == <<pending, batch, buffer>>
scanVars == <<scan, listed, todo, built>>
histVars == <<fresh, blind, misled, failed>>
boundVars == <<scans, starts>>
vars == <<file, dirs, changes, rows, names, open, ready, up, started, pending, batch,
          buffer, scan, listed, todo, built, fresh, blind, misled, failed,
          scans, starts>>

Contents == 0..MaxChanges
Events == [kind : {"create", "modify", "delete", "move"}, path : Paths, to : Paths]
Pending == [ev : Events, pos : 1..MaxChanges, due : 1..MaxChanges]
NoRows == [p \in Paths |-> Absent]
Room == changes + scans + starts < MaxChanges
Existing == {p \in Paths : file[p] # Absent}

\* Rows are for notes; the buffers, the scan and the rest keep their shapes.
TypeOK ==
    /\ file \in [Paths -> Contents \cup {Absent}]
    /\ dirs \subseteq Paths /\ \A p \in dirs : file[p] = Absent
    /\ rows \in [Paths -> Contents \cup {Absent}]
    /\ \A p \in Paths \ Notes : rows[p] = Absent
    /\ names \subseteq Paths
    /\ up \in BOOLEAN /\ open \in BOOLEAN /\ ready \in BOOLEAN /\ started \in BOOLEAN
    /\ pending \subseteq Pending /\ batch \subseteq Pending /\ buffer \subseteq Paths
    /\ scan \in {"idle", "check", "list", "build"}
    /\ listed \subseteq Paths /\ todo \subseteq Notes
    /\ built \in [Paths -> Contents \cup {Absent}]
    /\ \A p \in Paths \ Notes : built[p] = Absent
    /\ fresh \subseteq Paths /\ blind \subseteq Paths
    /\ misled \subseteq Paths /\ failed \subseteq Paths
    /\ changes \in 0..MaxChanges /\ scans \in 0..MaxScans /\ starts \in 0..MaxScans

\* A process has just started on rows of an earlier one.
Init ==
    /\ file \in [Paths -> {0, Absent}] /\ dirs \in SUBSET (Paths \ Existing)
    /\ rows \in [Paths -> {0, Absent}] /\ \A p \in Paths \ Notes : rows[p] = Absent
    /\ names = {} /\ up = TRUE /\ open \in BOOLEAN /\ ready = FALSE /\ started = FALSE
    /\ pending = {} /\ batch = {} /\ buffer = {}
    /\ scan = "idle" /\ listed = {} /\ todo = {} /\ built = NoRows
    /\ fresh = {} /\ blind = {} /\ misled = {} /\ failed = {}
    /\ changes = 0 /\ scans = 0 /\ starts = 0

----------------------------------------------------------------------------
(* Changes of the Vault.  Those the watcher sees are queued; an event that  *)
(* is pending already keeps its place in the dict and gets a new deadline.  *)

Now == changes + 1
Change == Room /\ changes' = Now
FileChange == Change /\ UNCHANGED dirs

\* _queue
Queued(ev) ==
    LET same == {e \in pending : e.ev = ev}
        places == IF same = {} THEN {Now} ELSE {e.pos : e \in same}
    IN  (pending \ same) \cup {[ev |-> ev, pos |-> n, due |-> Now] : n \in places}

Event(kind, p, q) == [kind |-> kind, path |-> p, to |-> q]

\* emit_*: nobody watches while the process is down.
Emit(ev) ==
    /\ pending' = IF up THEN Queued(ev) ELSE pending
    /\ UNCHANGED <<dbVars, up, started, batch, buffer, scanVars, histVars, boundVars>>

\* An editor writes in place.
Write(p) ==
    /\ FileChange /\ p \notin dirs
    /\ file' = [file EXCEPT ![p] = Now]
    /\ Emit(Event(IF file[p] = Absent THEN "create" ELSE "modify", p, p))

Remove(p) ==
    /\ FileChange /\ file[p] # Absent
    /\ file' = [file EXCEPT ![p] = Absent]
    /\ Emit(Event("delete", p, p))

Rename(p, q) ==
    /\ FileChange /\ file[p] # Absent /\ p # q /\ q \notin dirs
    /\ file' = [file EXCEPT ![q] = file[p], ![p] = Absent]
    /\ Emit(Event("move", p, q))

\* The service creates and moves with os.link, which is seen as a create.
Link(p, q) ==
    /\ FileChange /\ file[p] # Absent /\ file[q] = Absent /\ q \notin dirs
    /\ file' = [file EXCEPT ![q] = file[p]]
    /\ Emit(Event("create", q, q))

\* A directory is made or removed, or what is in it changes.
Folder(p) ==
    /\ Change /\ UNCHANGED file
    /\ \/ /\ file[p] = Absent /\ p \notin dirs /\ dirs' = dirs \cup {p}
          /\ Emit(Event("create", p, p))
       \/ /\ p \in dirs /\ dirs' \in {dirs, dirs \ {p}}
          /\ Emit(Event(IF p \in dirs' THEN "modify" ELSE "delete", p, p))

\* A directory is renamed: the move is handed over like that of a file.
RenameFolder(p, q) ==
    /\ Change /\ UNCHANGED file
    /\ p \in dirs /\ q \notin dirs /\ file[q] = Absent
    /\ dirs' = (dirs \ {p}) \cup {q}
    /\ pending' = IF up THEN Queued(Event("move", p, q)) ELSE pending
    /\ LET wrong == IF up THEN {q} \ Notes ELSE {}
       IN  misled' = misled \cup wrong /\ fresh' = fresh \ wrong
    /\ UNCHANGED <<dbVars, up, started, batch, buffer, scanVars, blind, failed, boundVars>>

\* A rename with one end at a hidden name: emit_moved drops the event.
Unseen(p, c) ==
    /\ FileChange
    /\ file' = [file EXCEPT ![p] = c]
    /\ blind' = IF up THEN blind \cup {p} ELSE blind
    /\ fresh' = fresh \ {p}
    /\ UNCHANGED <<dbVars, up, started, watchVars, scanVars, misled, failed,
                   boundVars>>

\* write_bytes: os.replace(.localnote-tmp-*, p)
Replace(p) == file[p] # Absent /\ Unseen(p, Now)

\* The trash takes a file away and brings it back.
Hide(p) == file[p] # Absent /\ Unseen(p, Absent)
Unhide(p) == file[p] = Absent /\ p \notin dirs /\ \E c \in 0..changes : Unseen(p, c)

----------------------------------------------------------------------------
(* What the index does with one path.  A state of it is [rows, names,      *)
(* failed]; an operator gives every state a call can leave behind.         *)

Index == [rows |-> rows, names |-> names, failed |-> failed]

Becomes(s) == rows' = s.rows /\ names' = s.names /\ failed' = s.failed

\* _apply_delete; when the database fails the row stays and the name goes.
Drops(s, p) ==
    LET gone == [s EXCEPT !.names = @ \ {p}]
    IN  {[gone EXCEPT !.rows[p] = Absent]}
        \cup (IF s.rows[p] = Absent THEN {} ELSE {[gone EXCEPT !.failed = @ \cup {p}]})

\* _apply_create.  An attachment has a name only and is not looked at; a row
\* with the digest of the file is left alone, its name included.  The read may
\* fail, and so may the transaction, after the name was entered.
Puts(s, p) ==
    LET named == [s EXCEPT !.names = @ \cup {p}]
        lapse == [s EXCEPT !.failed = @ \cup {p}]
    IN  IF p \notin Notes THEN {named}
        ELSE IF file[p] = Absent THEN {s}
        ELSE {lapse} \cup
             (IF s.rows[p] = file[p] THEN {s}
              ELSE {[named EXCEPT !.rows[p] = file[p]],
                    [named EXCEPT !.failed = @ \cup {p}]})

\* _flush_event: the disk decides.  A read that fails counts as no file.
Flushes(s, p) ==
    IF file[p] = Absent THEN Drops(s, p)
    ELSE Puts(s, p) \cup Drops([s EXCEPT !.failed = @ \cup {p}], p)

----------------------------------------------------------------------------
(* The dispatcher of the watcher and the timers of the index.              *)

Ends(e) == {e.ev.path, e.ev.to}
First(E) == CHOOSE e \in E : \A d \in E : e.pos <= d.pos
Outstanding == buffer \cup UNION {Ends(e) : e \in pending \cup batch}

\* Moves that are handed over after an event that happened later, and the
\* paths where that matters: the old one loses its row whatever is there.
OutOfOrder(D) ==
    UNION {{m.ev.path} \cup ({m.ev.to} \ Notes) :
              m \in {d \in D : /\ d.ev.kind = "move"
                               /\ \E e \in D : /\ e.pos < d.pos /\ e.due > d.due
                                               /\ Ends(e) \cap Ends(d) # {}}}

\* _dispatch_loop takes what is due, in the order of the dict.
Dispatch ==
    /\ up /\ batch = {}
    /\ \E t \in {e.due : e \in pending} :
        LET D == {e \in pending : e.due <= t}
        IN  /\ batch' = D /\ pending' = pending \ D
            /\ misled' = misled \cup OutOfOrder(D)
            /\ fresh' = fresh \ OutOfOrder(D)
    /\ UNCHANGED <<diskVars, dbVars, up, started, buffer, scanVars, blind, failed,
                   boundVars>>

\* Mutant: a move only removes the old row.
DeliverMut ==
    /\ batch # {} /\ scan = "idle"
    /\ LET e == First(batch) IN
        /\ batch' = batch \ {e}
        /\ \/ ~open /\ UNCHANGED <<rows, names, failed, buffer>>
           \/ /\ open /\ e.ev.kind = "move" /\ UNCHANGED buffer
              /\ \E s \in Drops(Index, e.ev.path) : Becomes(s)
           \/ /\ open /\ e.ev.kind # "move"
              /\ buffer' = buffer \cup {e.ev.path}
              /\ UNCHANGED <<rows, names, failed>>
    /\ UNCHANGED <<diskVars, open, ready, up, started, pending, scanVars, fresh,
                   blind, misled, boundVars>>

\* handle_event: a move is applied at once, anything else is buffered;
\* without a database the event is dropped.
Deliver ==
    /\ batch # {} /\ scan = "idle"
    /\ LET e == First(batch) IN
        /\ batch' = batch \ {e}
        /\ \/ ~open /\ UNCHANGED <<rows, names, failed, buffer>>
           \/ /\ open /\ e.ev.kind = "move" /\ UNCHANGED buffer
              /\ \E s \in Drops(Index, e.ev.path) :
                    \E t \in Puts(s, e.ev.to) : Becomes(t)
           \/ /\ open /\ e.ev.kind # "move"
              /\ buffer' = buffer \cup {e.ev.path}
              /\ UNCHANGED <<rows, names, failed>>
    /\ UNCHANGED <<diskVars, open, ready, up, started, pending, scanVars, fresh,
                   blind, misled, boundVars>>

\* The timer of a buffered path fires.
Flush(p) ==
    /\ p \in buffer /\ scan = "idle"
    /\ buffer' = buffer \ {p}
    /\ \E s \in Flushes(Index, p) : Becomes(s)
    /\ UNCHANGED <<diskVars, open, ready, up, started, pending, batch, scanVars,
                   fresh, blind, misled, boundVars>>

----------------------------------------------------------------------------
(* Scans: refresh at startup, rebuild on request.                          *)

Goto(s) == scan' = s /\ listed' = {} /\ todo' = {} /\ built' = NoRows

Listing(s) ==
    /\ scan' = s /\ listed' = Existing /\ todo' = Existing \cap Notes
    /\ built' = NoRows /\ fresh' = Paths \ Outstanding

\* What a finished scan has looked at agrees from now on.
PutRight ==
    /\ fresh' = {} /\ blind' = blind \ fresh /\ misled' = misled \ fresh
    /\ failed' = failed \ fresh

\* refresh up to the comparison of the path sets; a failed listing, or a
\* database that cannot be opened, leads to rebuild.
BeginRefresh ==
    /\ up /\ ~started /\ scan = "idle"
    /\ started' = TRUE
    /\ \/ /\ open' = TRUE
          /\ {p \in Paths : rows[p] # Absent} = Existing \cap Notes
          /\ Listing("check")
       \/ /\ open' \in {open, TRUE}
          /\ Goto("list") /\ UNCHANGED fresh
    /\ UNCHANGED <<diskVars, rows, names, ready, up, watchVars, blind, misled,
                   failed, boundVars>>

\* Mutant: a row is reused without comparing its digest.
CheckReadMut(p) ==
    /\ scan = "check" /\ p \in todo
    /\ todo' = todo \ {p} /\ UNCHANGED <<scan, listed, built>>
    /\ UNCHANGED <<diskVars, dbVars, up, started, watchVars, histVars, boundVars>>

\* One file is read; a difference or a failed read leads to rebuild.
CheckRead(p) ==
    /\ scan = "check" /\ p \in todo
    /\ \/ rows[p] = file[p] /\ todo' = todo \ {p} /\ UNCHANGED <<scan, listed, built>>
       \/ Goto("list")
    /\ UNCHANGED <<diskVars, dbVars, up, started, watchVars, histVars, boundVars>>

CheckEnd ==
    /\ scan = "check" /\ todo = {}
    /\ names' = listed /\ ready' = TRUE /\ Goto("idle") /\ PutRight
    /\ UNCHANGED <<diskVars, rows, open, up, started, watchVars, boundVars>>

BeginRebuild ==
    /\ up /\ scan = "idle" /\ scans + starts < MaxScans /\ Room
    /\ scans' = scans + 1 /\ Goto("list")
    /\ UNCHANGED <<diskVars, dbVars, up, started, watchVars, histVars, starts>>

\* The listing; the maps are replaced before the rows are.
List ==
    /\ scan = "list" /\ open' = TRUE
    /\ Listing("build") /\ names' = Existing
    /\ UNCHANGED <<diskVars, rows, ready, up, started, watchVars, blind, misled,
                   failed, boundVars>>

\* No database or no listing: reads answer 503 until a later rebuild.
ListFails ==
    /\ scan = "list" /\ open' \in {open, TRUE} /\ ready' = FALSE /\ Goto("idle")
    /\ UNCHANGED <<diskVars, rows, names, up, started, watchVars, histVars,
                   boundVars>>

\* _read_and_build_entry; a file that cannot be read is skipped.
BuildRead(p) ==
    /\ scan = "build" /\ p \in todo
    /\ todo' = todo \ {p} /\ UNCHANGED <<scan, listed>>
    /\ \/ built' = [built EXCEPT ![p] = file[p]] /\ UNCHANGED <<fresh, failed>>
       \/ /\ file[p] # Absent /\ UNCHANGED built
          /\ fresh' = fresh \ {p} /\ failed' = failed \cup {p}
    /\ UNCHANGED <<diskVars, dbVars, up, started, watchVars, blind, misled,
                   boundVars>>

BuildCommit ==
    /\ scan = "build" /\ todo = {}
    /\ rows' = built /\ ready' = TRUE /\ Goto("idle") /\ PutRight
    /\ UNCHANGED <<diskVars, names, open, up, started, watchVars, boundVars>>

\* The transaction is rolled back; the maps are not, and a row whose name is
\* missing from them keeps it missing while its digest stays.
BuildFails ==
    /\ scan = "build" /\ Goto("idle")
    /\ fresh' = {}
    /\ failed' = failed \cup {p \in Notes : (rows[p] = Absent) # (p \notin names)}
    /\ UNCHANGED <<diskVars, dbVars, up, started, watchVars, blind, misled,
                   boundVars>>

----------------------------------------------------------------------------
(* The process.                                                            *)

\* startup: the watcher runs before the background scan begins.
Start ==
    /\ ~up /\ starts' = starts + 1
    /\ up' = TRUE /\ open' \in BOOLEAN
    /\ UNCHANGED <<diskVars, rows, names, ready, started, watchVars, scanVars,
                   histVars, scans>>

\* A shutdown or a crash: the rows stay, what was under way is gone.
Stop ==
    /\ up /\ scans + starts < MaxScans /\ Room
    /\ up' = FALSE /\ open' = FALSE /\ ready' = FALSE /\ started' = FALSE /\ names' = {}
    /\ pending' = {} /\ batch' = {} /\ buffer' = {} /\ Goto("idle")
    /\ fresh' = {} /\ blind' = {} /\ misled' = {} /\ failed' = {}
    /\ UNCHANGED <<diskVars, rows, boundVars>>

----------------------------------------------------------------------------

Disk ==
    \E p \in Paths :
        \/ Write(p) \/ Remove(p) \/ Replace(p) \/ Hide(p) \/ Unhide(p) \/ Folder(p)
        \/ \E q \in Paths : Rename(p, q) \/ Link(p, q) \/ RenameFolder(p, q)

Scan ==
    \/ BeginRefresh \/ CheckEnd \/ List \/ ListFails \/ BuildCommit \/ BuildFails
    \/ \E p \in Paths : CheckRead(p) \/ BuildRead(p)

Next ==
    \/ Disk \/ Dispatch \/ Deliver \/ (\E p \in Paths : Flush(p))
    \/ Scan \/ BeginRebuild \/ Start \/ Stop

Spec == Init /\ [][Next]_vars

\* The dispatcher, the timers and a scan that was begun come to their ends.
FairSpec ==
    /\ Spec /\ WF_vars(Dispatch) /\ WF_vars(Deliver) /\ WF_vars(Scan)
    /\ \A p \in Paths : WF_vars(Flush(p))

----------------------------------------------------------------------------
(* Properties.                                                             *)

Serving == up /\ ready /\ scan = "idle"
Agrees(p) == (p \in Notes => rows[p] = file[p]) /\ (p \in names) = (file[p] # Absent)

\* Whatever order changes, events, timers, scans and restarts come in: a path
\* with no event under way has the row and the name of its file.  Excepted
\* are a change the watcher drops, a move handed over after a later event of
\* the same path, the new name of a directory, and a failed read or write,
\* until a scan has passed.
SettledIsFaithful ==
    Serving =>
        \A p \in Paths \ (Outstanding \cup blind \cup misled \cup failed) : Agrees(p)

\* When the Vault comes to rest the index follows it, with the same
\* exceptions: no event waits for ever and no scan brings back what an event
\* had put right.
IndexSettles ==
    <>[](Serving => \A p \in Paths \ (blind \cup misled \cup failed) : Agrees(p))
============================================================================
