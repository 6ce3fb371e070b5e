---------------------------- MODULE ReaderSync ----------------------------
(***************************************************************************)
(* Reading data between devices: the outbox and cursor of each ReadFlow    *)
(* client (SyncEngine, ReaderDatabase.swift) and the push and pull of the  *)
(* LocalBook server (reader/service.py, reader/database.py).               *)
(*                                                                         *)
(* An operation is [key, ent, op]: key is its place in the order of all    *)
(* local edits and stands for the payload too, so a local record is the    *)
(* key of the edit that wrote it, or Absent, and so is a row, unless the   *)
(* edit left fields of the row as they were.  Every entity but Source is a *)
(* child of Source.  The server runs on one event loop, so a push, which   *)
(* is one transaction, meets nothing but its own failure.                  *)
(***************************************************************************)
EXTENDS Naturals, Sequences, FiniteSets, FiniteSetsExt

CONSTANTS
  Devices, Entities, Source,
  Unfit,      \* entities the server does not insert: their record lacks a
              \* required field, breaks a CHECK, or names a session, which no client
              \* sends, or a highlight that is not there
  Partial,    \* edits whose record lacks a field of the row: an update that clears
              \* one, or changes more of a note than its content
  Home,       \* the device that creates an entity (its id is a fresh UUID)
  Syncs,      \* calls of performSync that may be under way
  DeviceOf,   \* the device of each of them
  Batch,      \* operations per push (100)
  Page,       \* operations per pull
  MaxKeys,    \* bound: local edits and echoed deletes
  MaxTicks,   \* bound: seconds that pass
  MaxFaults   \* bound: calls that fail and batches that roll back

ASSUME SyncAssumption ==
  /\ Unfit \subseteq Entities /\ Partial \subseteq Nat
  /\ Source \in Entities /\ Home \in [Entities -> Devices] /\ DeviceOf \in [Syncs -> Devices]
  /\ Batch \in Nat \ {0} /\ Page \in Nat \ {0}
  /\ MaxKeys \in Nat /\ MaxTicks \in Nat /\ MaxFaults \in Nat
  /\ "gone" \notin Syncs /\ "nobody" \notin Syncs

Absent == 0
NoOne == [from |-> "nobody"]

VARIABLES
  row,      \* the server's record of each entity
  log,      \* reader_sync_outbox: [dev, key, ent, op, at], the id is the place
  clock,    \* unixepoch() on the server
  push,     \* the transaction under way, or NoOne
  local,    \* each device's record of each entity
  outbox,   \* each device's sync_outbox, in order
  cursor,   \* each device's last_sync_cursor, <<created_at, id>>
  sync,     \* each performSync: its step and locals
  late,     \* pushes their client gave up on and the server may still receive
  keys,     \* keys given out
  faults,   \* failures so far
  editors,  \* history: devices that edited an entity
  aside,    \* history: entities changed by an edit that no outbox has
  written,  \* history: keys the server accepted and committed
  acked,    \* history: operations taken off an outbox as accepted
  seen,     \* history: rows of the log a device has applied
  overlap   \* history: devices that had two syncs under way at once

serverVars == <<row, log, clock, push>>
deviceVars == <<local, outbox, cursor>>
syncHistory == <<editors, aside, written, acked, seen, overlap>>
syncVars == <<serverVars, deviceVars, sync, late, keys, faults, syncHistory>>

IdleSync == [pc |-> "idle", items |-> <<>>, ok |-> <<>>, at |-> <<0, 0>>, page |-> {}, next |-> <<0, 0>>, more |-> FALSE]

SyncInit ==
  /\ row = [e \in Entities |-> Absent] /\ log = <<>> /\ clock = 0 /\ push = NoOne
  /\ local = [d \in Devices |-> [e \in Entities |-> Absent]]
  /\ outbox = [d \in Devices |-> <<>>] /\ cursor = [d \in Devices |-> <<0, 0>>]
  /\ sync = [s \in Syncs |-> IdleSync] /\ late = {} /\ keys = 0 /\ faults = 0
  /\ editors = [e \in Entities |-> {}] /\ aside = {} /\ written = {} /\ acked = {}
  /\ seen = [d \in Devices |-> {}] /\ overlap = {}

-----------------------------------------------------------------------------
(* The client *)

\* A local change and its outbox row are one transaction.
Enqueue(d, e, op) ==
  /\ keys < MaxKeys
  /\ keys' = keys + 1
  /\ outbox' = [outbox EXCEPT ![d] = Append(@, [key |-> keys + 1, ent |-> e, op |-> op])]

Edit(d, e, op) ==
  /\ \/ op = "create" /\ d = Home[e] /\ editors[e] = {}
        /\ (e = Source \/ local[d][Source] # Absent)
     \/ op \in {"update", "delete"} /\ e # Source /\ local[d][e] # Absent
  /\ Enqueue(d, e, op)
  /\ local' = [local EXCEPT ![d][e] = IF op = "delete" THEN Absent ELSE keys + 1]
  /\ editors' = [editors EXCEPT ![e] = @ \union {d}]
  /\ UNCHANGED <<serverVars, cursor, sync, late, aside, written, acked, seen, overlap, faults>>

\* updateSource and deleteSource write no outbox row; with a source go its records.
EditSource(d) ==
  /\ local[d][Source] # Absent /\ keys < MaxKeys
  /\ \/ /\ local' = [local EXCEPT ![d][Source] = keys + 1]
        /\ aside' = aside \union {Source}
     \/ /\ local' = [local EXCEPT ![d] = [e \in Entities |-> Absent]]
        /\ aside' = Entities
  /\ keys' = keys + 1
  /\ UNCHANGED <<serverVars, outbox, cursor, sync, late, editors, written, acked, seen, overlap, faults>>

\* performSync: the pending rows in order, up to a batch, or straight to the pull.
Pending(d) == SubSeq(outbox[d], 1, IF Len(outbox[d]) < Batch THEN Len(outbox[d]) ELSE Batch)

StartSync(s) ==
  LET d == DeviceOf[s] IN
  /\ sync[s].pc = "idle"
  /\ sync' = [sync EXCEPT ![s] =
                [pc |-> IF outbox[d] = <<>> THEN "pull" ELSE "push", items |-> Pending(d), ok |-> <<>>,
                 at |-> cursor[d], page |-> {}, next |-> <<0, 0>>, more |-> FALSE]]
  /\ overlap' = IF \E t \in Syncs \ {s} : DeviceOf[t] = d /\ sync[t].pc # "idle"
                THEN overlap \union {d} ELSE overlap
  /\ UNCHANGED <<serverVars, deviceVars, late, keys, editors, aside, written, acked, seen, faults>>

\* The first row of the batch for the entity the server names is removed.
FirstOf(items, e) ==
  items[Min({i \in DOMAIN items : items[i].ent = e})]

\* markSyncItemSuccess: by the id of the row, which may be gone already.
Without(box, o) ==
  IF \E i \in DOMAIN box : box[i].key = o.key
  THEN LET i == CHOOSE i \in DOMAIN box : box[i].key = o.key
       IN  SubSeq(box, 1, i - 1) \o SubSeq(box, i + 1, Len(box))
  ELSE box

Acknowledge(s) ==
  LET d == DeviceOf[s]
      item == FirstOf(sync[s].items, Head(sync[s].ok))
  IN
  /\ sync[s].pc = "ack" /\ sync[s].ok # <<>>
  /\ outbox' = [outbox EXCEPT ![d] = Without(@, item)]
  /\ acked' = acked \union {item}
  /\ sync' = [sync EXCEPT ![s].ok = Tail(@)]
  /\ UNCHANGED <<serverVars, local, cursor, late, keys, editors, aside, written, seen, overlap, faults>>

\* Rejected rows stay, with one more failed attempt; the pull starts from the
\* cursor in memory.
EndPush(s) ==
  /\ sync[s].pc = "ack" /\ sync[s].ok = <<>>
  /\ sync' = [sync EXCEPT ![s].pc = "pull", ![s].at = cursor[DeviceOf[s]]]
  /\ UNCHANGED <<serverVars, deviceVars, late, keys, syncHistory, faults>>

\* One pulled operation: create and update save the record as it was sent, if its
\* source is there; a delete goes through deleteHighlight, which queues a delete of
\* its own.
Before(i, j) == log[i].at < log[j].at \/ (log[i].at = log[j].at /\ i < j)
FirstIn(S) == CHOOSE i \in S : \A j \in S \ {i} : Before(i, j)
LastIn(S) == CHOOSE i \in S : \A j \in S \ {i} : Before(j, i)

MayApply(d, o) == o.op = "delete" \/ o.ent = Source \/ local[d][Source] # Absent

ApplyOne(s) ==
  LET d == DeviceOf[s]
      i == FirstIn(sync[s].page)
      o == log[i]
  IN
  /\ sync[s].pc = "apply" /\ sync[s].page # {} /\ MayApply(d, o)
  /\ \/ /\ o.op # "delete"
        /\ local' = [local EXCEPT ![d][o.ent] = o.key]
        /\ UNCHANGED <<outbox, keys>>
     \/ /\ o.op = "delete"
        /\ local' = [local EXCEPT ![d][o.ent] = Absent]
        /\ Enqueue(d, o.ent, "delete")
  /\ seen' = [seen EXCEPT ![d] = @ \union {i}]
  /\ sync' = [sync EXCEPT ![s].page = @ \ {i}]
  /\ UNCHANGED <<serverVars, cursor, late, editors, aside, written, acked, overlap, faults>>

\* The page is applied: its cursor is stored, and the next page asked for.
AdvanceCursor(s) ==
  LET d == DeviceOf[s] IN
  /\ sync[s].pc = "apply" /\ sync[s].page = {}
  /\ cursor' = [cursor EXCEPT ![d] = sync[s].next]
  /\ sync' = [sync EXCEPT ![s] = IF @.more THEN [@ EXCEPT !.pc = "pull", !.at = sync[s].next] ELSE IdleSync]
  /\ UNCHANGED <<serverVars, local, outbox, late, keys, syncHistory, faults>>

\* A call fails, times out or the app quits, or a pulled record is refused: the sync
\* ends where it is.  A push may be lost, already be in the server's hands, or
\* still arrive.
Abandon(s) ==
  /\ sync[s].pc # "idle"
  /\ \/ faults < MaxFaults /\ faults' = faults + 1
     \/ /\ sync[s].pc = "apply" /\ sync[s].page # {}
        /\ ~MayApply(DeviceOf[s], log[FirstIn(sync[s].page)])
        /\ faults' = faults
  /\ sync' = [sync EXCEPT ![s] = IdleSync]
  /\ \/ late' = late
     \/ sync[s].pc = "push" /\ push.from # s
        /\ late' = late \union {[dev |-> DeviceOf[s], items |-> sync[s].items]}
  /\ push' = IF push.from = s THEN [push EXCEPT !.from = "gone"] ELSE push
  /\ UNCHANGED <<row, log, clock, deviceVars, keys, syncHistory>>

-----------------------------------------------------------------------------
(* The server *)

BeginPush(from, d, items) ==
  /\ push = NoOne
  /\ push' = [from |-> from, dev |-> d, todo |-> items, row |-> row, log |-> log,
              ok |-> <<>>, keys |-> {}]

ReceivePush(s) ==
  /\ sync[s].pc = "push"
  /\ BeginPush(s, DeviceOf[s], sync[s].items)
  /\ UNCHANGED <<row, log, clock, deviceVars, sync, late, keys, syncHistory, faults>>

ReceiveLate(m) ==
  /\ BeginPush("gone", m.dev, m.items)
  /\ late' = late \ {m}
  /\ UNCHANGED <<row, log, clock, deviceVars, sync, keys, syncHistory, faults>>

\* _insert_entity needs a new id, a record it can store and, for a child, its
\* source; an update or a delete of a row that is not there changes nothing and is
\* accepted.
Accepts(rows, o) ==
  o.op = "create" =>
    rows[o.ent] = Absent /\ o.ent \notin Unfit /\ (o.ent = Source \/ rows[Source] # Absent)

\* A row that edit k wrote all but some fields of, which are as they were (COALESCE).
Mixed(k) == MaxKeys + k
LastEdit(r) == IF r > MaxKeys THEN r - MaxKeys ELSE r

Wrote(rows, o) ==
  CASE o.op = "create" -> [rows EXCEPT ![o.ent] = o.key]
    [] o.op = "update" /\ rows[o.ent] # Absent ->
         [rows EXCEPT ![o.ent] = IF o.key \in Partial THEN Mixed(o.key) ELSE o.key]
    [] o.op = "update" /\ rows[o.ent] = Absent -> rows
    [] o.op = "delete" -> [rows EXCEPT ![o.ent] = Absent]

\* _add_to_outbox
Entry(d, o, now) == [dev |-> d, key |-> o.key, ent |-> o.ent, op |-> o.op, at |-> now]

\* _apply_sync_operation: the row, then the outbox of the other devices, stamped
\* with the second it is now; what is refused is counted and the batch goes on.
ApplyOperation ==
  LET o == Head(push.todo) IN
  /\ push # NoOne /\ push.todo # <<>>
  /\ \/ /\ Accepts(push.row, o)
        /\ clock' \in {clock, clock + 1} /\ clock' <= IF push.log = <<>> THEN 0 ELSE MaxTicks
        /\ push' = [push EXCEPT !.todo = Tail(@), !.row = Wrote(@, o), !.ok = Append(@, o.ent),
                      !.log = Append(@, Entry(push.dev, o, clock')),
                      !.keys = @ \union {o.key}]
     \/ /\ ~Accepts(push.row, o)
        /\ push' = [push EXCEPT !.todo = Tail(@)]
        /\ UNCHANGED clock
  /\ UNCHANGED <<row, log, deviceVars, sync, late, keys, syncHistory, faults>>

CommitPush ==
  /\ push # NoOne /\ push.todo = <<>>
  /\ row' = push.row /\ log' = push.log
  /\ written' = written \union push.keys
  /\ push' = NoOne
  /\ sync' = IF push.from \in Syncs
             THEN [sync EXCEPT ![push.from].pc = "ack", ![push.from].ok = push.ok] ELSE sync
  /\ UNCHANGED <<clock, deviceVars, late, keys, editors, aside, acked, seen, overlap, faults>>

\* Mutant: the results of a batch that was rolled back are sent.
RollbackPushMut ==
  /\ push # NoOne /\ faults < MaxFaults
  /\ faults' = faults + 1
  /\ push' = NoOne
  /\ sync' = IF push.from \in Syncs
             THEN [sync EXCEPT ![push.from].pc = "ack", ![push.from].ok = push.ok] ELSE sync
  /\ UNCHANGED <<row, log, clock, deviceVars, late, keys, syncHistory>>

\* An exception that is not a ReaderError, or a crash: the batch is rolled back
\* and the client, if it still waits, gets an error.
RollbackPush ==
  /\ push # NoOne /\ faults < MaxFaults
  /\ faults' = faults + 1
  /\ push' = NoOne
  /\ sync' = IF push.from \in Syncs THEN [sync EXCEPT ![push.from] = IdleSync] ELSE sync
  /\ UNCHANGED <<row, log, clock, deviceVars, late, keys, syncHistory>>

\* Mutant: rows of the cursor's own second are passed over.
ChangesMut(d, at) ==
  {i \in DOMAIN log : log[i].dev # d /\ log[i].at > at[1] /\ i > at[2]}

\* pull_sync_changes: rows of the other devices past the cursor, oldest first.
Changes(d, at) ==
  {i \in DOMAIN log : log[i].dev # d /\ log[i].at >= at[1] /\ i > at[2]}

FirstPage(S) == {i \in S : Cardinality({j \in S : Before(j, i)}) < Page}

\* Mutant: the cursor handed out is the newest row's, not the page's last.
PullPageMut(s) ==
  LET d == DeviceOf[s]
      all == Changes(d, sync[s].at)
      page == FirstPage(all)
      last == LastIn(all)
  IN
  /\ sync[s].pc = "pull" /\ push = NoOne
  /\ sync' = [sync EXCEPT ![s] = IF all = {} THEN IdleSync
                ELSE [@ EXCEPT !.pc = "apply", !.page = page, !.more = (all # page),
                               !.next = <<log[last].at, last>>]]
  /\ UNCHANGED <<serverVars, deviceVars, late, keys, syncHistory, faults>>

PullPage(s) ==
  LET d == DeviceOf[s]
      all == Changes(d, sync[s].at)
      page == FirstPage(all)
      last == LastIn(page)
  IN
  /\ sync[s].pc = "pull" /\ push = NoOne
  /\ sync' = [sync EXCEPT ![s] = IF all = {} THEN IdleSync
                ELSE [@ EXCEPT !.pc = "apply", !.page = page, !.more = (all # page),
                               !.next = <<log[last].at, last>>]]
  /\ UNCHANGED <<serverVars, deviceVars, late, keys, syncHistory, faults>>

SyncNext ==
  \/ \E d \in Devices, e \in Entities, op \in {"create", "update", "delete"} : Edit(d, e, op)
  \/ \E d \in Devices : EditSource(d)
  \/ \E s \in Syncs : \/ StartSync(s) \/ Acknowledge(s) \/ EndPush(s) \/ ApplyOne(s)
                      \/ AdvanceCursor(s) \/ Abandon(s) \/ ReceivePush(s) \/ PullPage(s)
  \/ \E m \in late : ReceiveLate(m)
  \/ ApplyOperation \/ CommitPush \/ RollbackPush

SyncSpec == SyncInit /\ [][SyncNext]_syncVars

(***************************************************************************)
(* Properties                                                              *)
(***************************************************************************)
Operation == [key : 1..MaxKeys, ent : Entities, op : {"create", "update", "delete"}]

SyncTypeOK ==
  /\ row \in [Entities -> 0..Mixed(MaxKeys)] /\ clock \in 0..MaxTicks /\ keys \in 0..MaxKeys
  /\ local \in [Devices -> [Entities -> 0..MaxKeys]]
  /\ \A d \in Devices : \A i \in DOMAIN outbox[d] : outbox[d][i] \in Operation
  /\ \A i \in DOMAIN log : log[i].key \in 1..keys /\ log[i].at <= clock
  /\ \A s \in Syncs : sync[s].pc \in {"idle", "push", "ack", "pull", "apply"}

\* What a push can hope for: the server refuses the record of an unfit entity, and
\* with an unfit source all of its children.
Fit(e) == {e, Source} \cap Unfit = {}
Refused(o) == o.op = "create" /\ ~Fit(o.ent)

\* An operation leaves an outbox only when the server accepted and committed it,
\* though the answer names entities and not operations: answers may be lost,
\* batches repeated, and the row removed need not be the one accepted.  Only the
\* create of an entity that is refused for good may be taken for a later operation
\* of that entity.
AckedIsWritten ==
  \A o \in acked : o.key \in written \/ Refused(o)

\* A cursor never passes a row of another device that this device has not
\* applied, whatever pages overlap, fail or are repeated.
NothingSkipped ==
  \A d \in Devices : \A i \in DOMAIN log :
    i <= cursor[d][2] /\ log[i].dev # d => i \in seen[d]

\* Devices that sync; one that never does has nothing to agree with.
Syncing == {DeviceOf[s] : s \in Syncs}

Quiet ==
  /\ \A d \in Devices : outbox[d] = <<>>
  /\ \A d \in Syncing : Changes(d, cursor[d]) = {}
  /\ \A s \in Syncs : sync[s].pc = "idle"

LastIsNewest(e) ==
  LET of == {i \in DOMAIN log : log[i].ent = e}
  IN  of # {} => \A i \in of : log[i].key <= log[Max(of)].key

\* When every outbox is empty and every device that syncs has pulled to the end, an
\* entity that one device edits is the same edit on the server and on each, though
\* the row may keep fields the edit cleared.  Not so if the server refuses its
\* record, if its source was changed aside of the outbox, if a push the client had
\* given up on overtook a newer one, or if a device ran two syncs at once.
QuietAgree ==
  Quiet /\ overlap = {} =>
    \A e \in Entities : Cardinality(editors[e]) < 2 /\ Fit(e) /\ e \notin aside /\ LastIsNewest(e) =>
      \A d \in Syncing : local[d][e] = LastEdit(row[e])
=============================================================================
