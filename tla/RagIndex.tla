------------------------------ MODULE RagIndex ------------------------------
(***************************************************************************)
(* The retrieval index of a vault: the chunks of every Markdown note, one  *)
(* embedding per chunk and, per document, the packed run of those vectors  *)
(* that the vector search scans (server/rag/index_service.py over          *)
(* server/rag/vector/sqlite.py).                                           *)
(*                                                                         *)
(* Several threads write it.  The watcher thread handles a move at once    *)
(* and only buffers every other event; a debounce timer starts a flush     *)
(* thread, and nothing stops a second flush from starting while a slow     *)
(* embedding call keeps the first one busy; a rebuild or a retry holds the *)
(* service's lock, which a flush takes only to empty the buffer.  Every    *)
(* call on the store is one SQLite transaction, and between two of them    *)
(* the other threads, and the user's editor, may run.                      *)
(*                                                                         *)
(* A text is abstracted to the sequence of chunk contents the chunker cuts *)
(* it into, each with its head, the section and the tags that stand above  *)
(* it.  A vector is abstracted to what it was computed from: the content,  *)
(* the path and head that embedding_text puts in front, and the model.     *)
(* Chunks that the code keeps in a list, in order of document and place,   *)
(* are a set here, and their places follow from that order.                *)
(* Left out: the FTS mirror of the chunk rows, the per-document status and *)
(* counters (recomputed whenever they are shown) and the chunk-id cache.   *)
(***************************************************************************)
EXTENDS Naturals, Sequences, FiniteSets, FiniteSetsExt, Functions

CONSTANTS
  Paths,       \* note paths, as numbers: flush and rebuild go in sorted order
  Texts,       \* what a file may hold
  Binary,      \* the text of a file that is not UTF-8
  Pieces,      \* the chunk contents of a text, in order (<<>> for a blank one)
  Heads,       \* the section path and tags of each of those chunks
  Absent,      \* no file, no document
  Flushers,    \* threads a debounce timer may start
  Models,      \* embedding models that produce vectors of the same dimension
  Batch,       \* embed_batch_size
  MaxEdits,    \* bound: changes of the vault's files
  MaxSwaps,    \* bound: changes of the embedding settings
  MaxBuilds    \* bound: rebuilds and retries

ASSUME RagAssumption ==
  /\ Paths \subseteq Nat /\ Binary \in Texts /\ Absent \notin Texts
  /\ {"watch", "job"} \cap Flushers = {}
  /\ \A t \in Texts : Pieces[t] \in Seq(Range(Pieces[t]))
  /\ \A t \in Texts : Heads[t] = [i \in DOMAIN Pieces[t] |-> Heads[t][i]]
  /\ Pieces[Binary] = <<>> /\ Batch \in Nat \ {0}
  /\ {MaxEdits, MaxSwaps, MaxBuilds} \subseteq Nat

VARIABLES
  disk,    \* path -> text, or Absent
  events,  \* watcher events not handled yet, in order
  pend,    \* _pending_paths
  model,   \* the embedding model of the current stack
  doc,     \* rag_documents: path -> text its content_hash is of, or Absent
  rows,    \* rag_chunks
  vecs,    \* rag_embeddings
  run,     \* rag_documents.vec_d<N>: path -> packed vectors
  th,      \* what each thread is doing
  calm,    \* history: an undisturbed rebuild is running or was the last write
  left     \* what remains of the bounds

vars == <<disk, events, pend, model, doc, rows, vecs, run, th, calm, left>>
store == <<doc, rows, vecs, run>>
-----------------------------------------------------------------------------
Threads == Flushers \cup {"watch", "job"}

Idle == [pc |-> "idle", mode |-> "none", todo |-> {}, path |-> 0, from |-> 0,
         text |-> Absent, queue |-> {}, got |-> {}, model |-> "none",
         stored |-> FALSE]

\* Mutant: a chunk is named by its place in the note.
ChunkIdMut(p, i, c) == <<p, i>>

\* The identity of a chunk: the digest of its path and its content, without
\* its head.
ChunkId(p, i, c) == <<p, c>>

\* The order of rows and of the windows of an embedding pass.
Before(c, d) == c.doc < d.doc \/ (c.doc = d.doc /\ c.at < d.at)
Place(c, S) == Cardinality({d \in S : Before(d, c)})

\* chunk_document: the chunks of text t read at path p.
ChunkDocument(p, t) ==
  {[id |-> ChunkId(p, i, Pieces[t][i]), doc |-> p, at |-> i, text |-> Pieces[t][i],
    head |-> Heads[t][i]] : i \in DOMAIN Pieces[t]}

\* embedding_text, in front of the content.
Above(c) == [path |-> c.doc, head |-> c.head]

\* chunks_for_document: the stored rows of p.
ChunksFor(p, rs) == {r \in rs : r.doc = p}

\* existing_embeddings: ids whose stored vector model m can reuse for c, which
\* looks at the content only.
Reusable(c, m) ==
  \E v \in vecs : v.id = c.id /\ v.model = m /\ v.text = c.text

\* The foreign key: a vector goes with its chunk.
Cascade(vs, rs) == {v \in vs : \E r \in rs : r.id = v.id}

\* upsert_chunks: rows of the document that are not among the chunks go, the
\* others are inserted or, when the id exists, overwritten (its document too).
\* A later chunk with the same id overwrites an earlier one.
Upserted(p, chunks) ==
  LET last == {c \in chunks : \A d \in chunks : d.id = c.id => d.at <= c.at}
  IN  {r \in rows : r.doc # p /\ \A c \in last : c.id # r.id} \cup last

UpsertChunks(p, t) ==
  /\ rows' = Upserted(p, ChunkDocument(p, t))
  /\ vecs' = Cascade(vecs, rows')
  /\ doc' = [doc EXCEPT ![p] = t]
  /\ UNCHANGED run

\* Mutant: the chunks of a removed document stay.
DeleteDocumentMut(p) ==
  /\ rows' = rows
  /\ vecs' = Cascade(vecs, rows')
  /\ doc' = [doc EXCEPT ![p] = Absent]
  /\ run' = [run EXCEPT ![p] = {}]

\* _delete_rows: the chunks of the document, their vectors and the document.
DeleteDocument(p) ==
  /\ rows' = {r \in rows : r.doc # p}
  /\ vecs' = Cascade(vecs, rows')
  /\ doc' = [doc EXCEPT ![p] = Absent]
  /\ run' = [run EXCEPT ![p] = {}]

\* rename_document: re-point the rows; the chunk ids keep the old path.
RenameDocument(p, q) ==
  /\ rows' = {[r EXCEPT !.doc = IF @ = p THEN q ELSE @] : r \in rows}
  /\ vecs' = vecs
  /\ doc' = [doc EXCEPT ![p] = Absent, ![q] = doc[p]]
  /\ run' = [run EXCEPT ![p] = {}, ![q] = run[p]]

\* _repack_document: the vectors the document's chunks have, each at its place.
Packed(p, rs, vs) ==
  LET has == {r \in ChunksFor(p, rs) : \E v \in vs : v.id = r.id}
      VecOf(r) == CHOOSE v \in vs : v.id = r.id
  IN  {[at |-> Place(r, has), of |-> VecOf(r).of, model |-> VecOf(r).model] : r \in has}

\* upsert_embeddings: one transaction stores the window's vectors and packs
\* the documents the rows named when their details were read.
UpsertEmbeddings(got, m) ==
  LET new == {[id |-> g.id, text |-> g.text, of |-> g.of, above |-> g.above, model |-> m] : g \in got}
      docs == {g.doc : g \in got}
  IN  /\ vecs' = {v \in vecs : \A n \in new : n.id # v.id} \cup new
      /\ run' = [p \in Paths |-> IF p \in docs /\ doc[p] # Absent
                                   THEN Packed(p, rows, vecs') ELSE run[p]]
      /\ UNCHANGED <<doc, rows>>

\* Mutant: a rebuild starts from what is there.
ResetMut ==
  UNCHANGED store

\* reset: an empty store.
Reset ==
  /\ doc' = [p \in Paths |-> Absent]
  /\ rows' = {} /\ vecs' = {}
  /\ run' = [p \in Paths |-> {}]
-----------------------------------------------------------------------------
\* The service's lock, which only a rebuild or a retry keeps across steps.
LockFree == th["job"].pc = "idle"

\* A thread other than the rebuild changes the store.
Disturbs(t) == calm' = IF t = "job" THEN calm ELSE "no"

Becomes(t, r) == th' = [th EXCEPT ![t] = r]

\* The next document of the loop in flush or rebuild; after the last one a
\* rebuild goes on to the missing vectors and every other caller returns.
NextPath(t) ==
  CASE th[t].todo # {} ->
         [th[t] EXCEPT !.pc = "read", !.path = Min(th[t].todo), !.queue = {},
                       !.todo = @ \ {Min(th[t].todo)}, !.text = Absent,
                       !.got = {}]
    [] th[t].todo = {} /\ t = "job" ->
         [th[t] EXCEPT !.pc = "missing", !.path = 0, !.queue = {},
                       !.text = Absent, !.got = {}]
    [] OTHER -> Idle

\* _embed_chunks: the chunks left to embed, or the end of this document.
EmbedNext(t, q) ==
  IF q = {} THEN NextPath(t)
  ELSE [th[t] EXCEPT !.pc = "embed", !.queue = q, !.got = {}]

\* The exception of a failed transaction ends the thread's whole loop.
Dies(t) == Becomes(t, Idle)
-----------------------------------------------------------------------------
RagInit ==
  /\ disk \in [Paths -> (Texts \ {Binary}) \cup {Absent}]
  /\ events = <<>> /\ pend = {} /\ model \in Models
  /\ doc = [p \in Paths |-> Absent] /\ rows = {} /\ vecs = {}
  /\ run = [p \in Paths |-> {}]
  /\ th = [t \in Threads |-> Idle]
  /\ calm = "no"
  /\ left = [edits |-> MaxEdits, swaps |-> MaxSwaps, builds |-> MaxBuilds]

\* The user's editor or the vault service changes a file; the watcher will
\* report it.
Edit ==
  /\ left.edits > 0 /\ left' = [left EXCEPT !.edits = @ - 1]
  /\ \/ \E p \in Paths, t \in Texts \cup {Absent} :
          /\ t # disk[p]
          /\ disk' = [disk EXCEPT ![p] = t]
          /\ events' = Append(events, [kind |-> "touch", path |-> p, to |-> p])
     \/ \E p, q \in Paths :
          /\ p # q /\ disk[p] # Absent
          /\ disk' = [disk EXCEPT ![p] = Absent, ![q] = disk[p]]
          /\ events' = Append(events, [kind |-> "move", path |-> p, to |-> q])
  /\ calm' = "no"
  /\ UNCHANGED <<pend, model, store, th>>

\* handle_event: a move starts its own work on the watcher thread, any other
\* event waits in the buffer for the debounce timer.
HandleEvent ==
  /\ events # <<>> /\ th["watch"].pc = "idle" /\ LockFree
  /\ events' = Tail(events)
  /\ LET e == Head(events) IN
     \/ /\ e.kind = "touch"
        /\ pend' = pend \cup {e.path}
        /\ UNCHANGED th
     \/ /\ e.kind = "move"
        /\ pend' = pend \ {e.path}
        /\ Becomes("watch", [Idle EXCEPT !.pc = "moving", !.from = e.path,
                                         !.path = e.to, !.model = model])
  /\ UNCHANGED <<disk, model, store, calm, left>>

\* flush: take the whole buffer, then work without the lock.
Flush(t) ==
  /\ pend # {} /\ th[t].pc = "idle" /\ LockFree
  /\ pend' = {}
  /\ Becomes(t, [Idle EXCEPT !.pc = "read", !.mode = "sync", !.path = Min(pend),
                             !.todo = pend \ {Min(pend)}, !.model = model])
  /\ UNCHANGED <<disk, events, model, store, calm, left>>

\* rebuild: empty the store, then list the notes.
Rebuild ==
  /\ th["job"].pc = "idle" /\ left.builds > 0
  /\ left' = [left EXCEPT !.builds = @ - 1]
  /\ Reset
  /\ calm' = IF \A t \in Threads : th[t].pc = "idle" THEN "rebuilding" ELSE "no"
  /\ Becomes("job", [Idle EXCEPT !.pc = "list", !.mode = "build", !.model = model])
  /\ UNCHANGED <<disk, events, pend, model>>

ListPaths ==
  /\ th["job"].pc = "list"
  /\ LET files == {p \in Paths : disk[p] # Absent}
     IN Becomes("job", IF files = {} THEN [th["job"] EXCEPT !.pc = "missing"]
                       ELSE [th["job"] EXCEPT !.pc = "read", !.path = Min(files),
                                              !.todo = files \ {Min(files)}])
  /\ UNCHANGED <<disk, events, pend, model, store, calm, left>>

\* retry_failed: only the pass over the missing vectors.
Retry ==
  /\ th["job"].pc = "idle" /\ left.builds > 0
  /\ left' = [left EXCEPT !.builds = @ - 1]
  /\ Becomes("job", [Idle EXCEPT !.pc = "missing", !.mode = "retry", !.model = model])
  /\ UNCHANGED <<disk, events, pend, model, store, calm>>
-----------------------------------------------------------------------------
\* read_bytes of _sync_path and _reindex_document; what is read may be old by
\* the time it is used.
ReadNote(t) ==
  /\ th[t].pc = "read"
  /\ Becomes(t, [th[t] EXCEPT !.text = disk[th[t].path],
                   !.pc = IF th[t].mode = "sync" /\ disk[th[t].path] \notin {Absent, Binary}
                            THEN "compare" ELSE "write"])
  /\ UNCHANGED <<disk, events, pend, model, store, calm, left>>

\* _sync_path on readable text: an unchanged document only gets the vectors it
\* misses; otherwise remember which vectors can be kept, then replace it.
Compare(t) ==
  /\ th[t].pc = "compare"
  /\ LET p == th[t].path
         Misses(c) == ~Reusable(c, th[t].model)
     IN Becomes(t,
          IF doc[p] = th[t].text
            THEN EmbedNext(t, {c \in ChunksFor(p, rows) : Misses(c)})
            ELSE [th[t] EXCEPT !.pc = "write",
                    !.queue = {c \in ChunkDocument(p, th[t].text) : Misses(c)}])
  /\ UNCHANGED <<disk, events, pend, model, store, calm, left>>

\* The write: a vanished or blank note is removed (a reindex skips a vanished
\* one), one that is not UTF-8 keeps its rows and is marked failed, any other
\* gets its chunks.  Only flush and the move embed here; the rebuild embeds
\* all documents together afterwards.
WriteNote(t) ==
  /\ th[t].pc = "write"
  /\ LET p == th[t].path
         x == th[t].text
         Misses(c) == ~\E v \in vecs' : /\ v.id = c.id
                                        /\ v.model = th[t].model /\ v.text = c.text
     IN \/ /\ x = Binary \/ (x = Absent /\ th[t].mode # "sync")
           /\ Becomes(t, NextPath(t))
           /\ UNCHANGED <<store, calm>>
        \/ /\ x # Binary /\ (x # Absent \/ th[t].mode = "sync")
           /\ x # Absent => Pieces[x] = <<>>
           /\ DeleteDocument(p)
           /\ Becomes(t, NextPath(t)) /\ Disturbs(t)
        \/ /\ x \notin {Absent, Binary} /\ Pieces[x] # <<>>
           /\ UpsertChunks(p, x)
           /\ Becomes(t, CASE t = "job" -> NextPath(t)
                           [] th[t].mode = "sync" -> EmbedNext(t, th[t].queue)
                           [] OTHER -> EmbedNext(t, {c \in ChunkDocument(p, x) : Misses(c)}))
           /\ Disturbs(t)
  /\ UNCHANGED <<disk, events, pend, model, left>>

\* _embed_chunks, one window: the provider answers, and the details of the
\* chunks that still exist are read; or it fails, and the window is skipped.  Of
\* two chunks with one id the later one's vector stays.
Embed(t) ==
  /\ th[t].pc = "embed"
  /\ LET window == {c \in th[t].queue : Place(c, th[t].queue) < Batch}
         rest == th[t].queue \ window
         found == {r \in rows : \E w \in window : w.id = r.id}
         Last(w, S) == w \in S /\ \A v \in S : ~Before(w, v)
     IN \/ \E of \in [found -> window] :
             /\ \A r \in found : Last(of[r], {w \in window : w.id = r.id})
             /\ Becomes(t, [th[t] EXCEPT !.pc = "store", !.queue = rest,
                  !.got = {[id |-> r.id, doc |-> r.doc, text |-> r.text,
                            of |-> of[r].text, above |-> Above(of[r])] : r \in found}])
             /\ UNCHANGED calm
        \/ /\ Becomes(t, EmbedNext(t, rest))
           /\ Disturbs("watch")
  /\ UNCHANGED <<disk, events, pend, model, store, left>>

\* upsert_embeddings: refused by the foreign key when a chunk has gone since
\* its details were read, and then the exception ends the thread's loop.
StoreVectors(t) ==
  /\ th[t].pc = "store"
  /\ LET got == th[t].got
         there == \A g \in got : \E r \in rows : r.id = g.id
     IN \/ /\ there
           /\ UpsertEmbeddings(got, th[t].model)
           /\ Becomes(t, [EmbedNext(t, th[t].queue) EXCEPT !.stored = (t = "job")])
           /\ Disturbs(t)
        \/ /\ ~there /\ Dies(t)
           /\ UNCHANGED <<store, calm>>
  /\ UNCHANGED <<disk, events, pend, model, left>>

\* _embed_pending: the chunks without a current vector, until a pass over
\* them stores nothing.
Missing ==
  /\ th["job"].pc = "missing"
  /\ LET m == th["job"].model
         gap == {r \in rows : ~Reusable(r, m)}
         again == th["job"].stored \/ th["job"].from = 0
     IN \/ /\ gap # {} /\ again
           /\ Becomes("job", [th["job"] EXCEPT !.pc = "embed", !.queue = gap,
                                               !.from = 1, !.stored = FALSE])
           /\ UNCHANGED calm
        \/ /\ gap = {} \/ ~again
           /\ Becomes("job", Idle)
           /\ calm' = IF calm = "rebuilding" THEN "fresh" ELSE calm
  /\ UNCHANGED <<disk, events, pend, model, store, left>>
-----------------------------------------------------------------------------
\* _apply_move: what is to become of the old rows, from the stored hash and
\* the bytes at the new path.
DecideMove ==
  /\ th["watch"].pc = "moving"
  /\ LET p == th["watch"].from
         x == disk[th["watch"].path]
     IN Becomes("watch", [th["watch"] EXCEPT !.pc =
          CASE doc[p] = Absent -> "replace"
            [] doc[p] # Absent /\ x \in {Absent, Binary} -> "drop"
            [] doc[p] # Absent /\ x \notin {Absent, Binary} /\ x = doc[p] -> "rename"
            [] OTHER -> "replace"])
  /\ UNCHANGED <<disk, events, pend, model, store, calm, left>>

DropMoved ==
  /\ th["watch"].pc = "drop"
  /\ DeleteDocument(th["watch"].from)
  /\ Becomes("watch", Idle) /\ calm' = "no"
  /\ UNCHANGED <<disk, events, pend, model, left>>

\* A rename onto a path that has a document violates the primary key; the
\* exception is logged and the move forgotten.
RenameMoved ==
  /\ th["watch"].pc = "rename"
  /\ LET p == th["watch"].from
         q == th["watch"].path
     IN \/ /\ doc[p] # Absent /\ doc[q] = Absent
           /\ RenameDocument(p, q)
           /\ Becomes("watch", Idle) /\ calm' = "no"
        \/ /\ doc[p] # Absent /\ doc[q] # Absent
           /\ Dies("watch") /\ UNCHANGED <<store, calm>>
        \/ /\ doc[p] = Absent
           /\ Becomes("watch", [th["watch"] EXCEPT !.pc = "replace"])
           /\ UNCHANGED <<store, calm>>
  /\ UNCHANGED <<disk, events, pend, model, left>>

\* The fallback: drop the old rows and index the new path from its bytes.
ReplaceMoved ==
  /\ th["watch"].pc = "replace"
  /\ DeleteDocument(th["watch"].from)
  /\ Becomes("watch", [th["watch"] EXCEPT !.pc = "read", !.mode = "reindex"])
  /\ calm' = "no"
  /\ UNCHANGED <<disk, events, pend, model, left>>

\* reconfigure_rag: a new stack over the same tables; closing the old one
\* empties its buffer but does not stop a flush that is under way.
SwapStack ==
  /\ left.swaps > 0 /\ LockFree /\ th["watch"].pc = "idle"
  /\ left' = [left EXCEPT !.swaps = @ - 1]
  /\ model' \in Models \ {model}
  /\ pend' = {} /\ calm' = "no"
  /\ UNCHANGED <<disk, events, store, th>>

RagNext ==
  \/ Edit \/ HandleEvent \/ Rebuild \/ ListPaths \/ Retry \/ Missing
  \/ DecideMove \/ DropMoved \/ RenameMoved \/ ReplaceMoved \/ SwapStack
  \/ \E t \in Flushers : Flush(t)
  \/ \E t \in Threads : \/ ReadNote(t) \/ Compare(t) \/ WriteNote(t)
                        \/ Embed(t) \/ StoreVectors(t)

RagSpec == RagInit /\ [][RagNext]_vars
-----------------------------------------------------------------------------
Quiet == events = <<>> /\ pend = {} /\ \A t \in Threads : th[t].pc = "idle"

\* What the vector search pairs: the i-th vector of a document's run with the
\* i-th of the document's chunks.
ScanPairs(p) ==
  {pair \in ChunksFor(p, rows) \X run[p] :
     Place(pair[1], ChunksFor(p, rows)) = pair[2].at}

\* No orphans in what a search may cite: whatever the flushes, moves, rebuilds
\* and settings changes interleave, every chunk row belongs to a document that
\* the index still lists, so no answer cites a removed note (upsert_chunks,
\* _delete_rows and rename_document, each in one transaction).
CitedIsIndexed ==
  \A r \in rows : doc[r.doc] # Absent

\* The incremental index is safe: a stored vector is of the content its chunk
\* row holds, also when a flush computed it from an older read of the note and
\* another thread has replaced the rows since (upsert_embeddings, _chunk_id).  Of
\* the path and head embedded with the content it says nothing: after a rename,
\* or when tags or a heading above changed, they may be those of an older read.
VectorOfItsText ==
  \A v \in vecs : \E r \in rows : r.id = v.id /\ r.text = v.of

\* A rebuild repairs the index whatever state the races left it in: when
\* nothing disturbed it and the embedding calls succeeded, each note has
\* exactly the chunks of its file, each chunk the vector that the current model
\* gives its content under its path and head, and the packed run pairs each
\* vector with its own chunk (rebuild, _embed_pending, _repack_document).
RebuildHeals ==
  calm = "fresh" =>
    \A p \in Paths :
      LET x == disk[p]
          mine == ChunksFor(p, rows)
      IN IF x # Absent => Pieces[x] = <<>> THEN doc[p] = Absent /\ mine = {}
         ELSE /\ doc[p] = x
              /\ {r.text : r \in mine} = Range(Pieces[x])
              /\ \A r \in mine : \E v \in vecs :
                   v.id = r.id /\ v.model = model /\ v.above = Above(r)
              /\ {e.at : e \in run[p]} = {Place(r, mine) : r \in mine}
              /\ \A pair \in ScanPairs(p) : pair[1].text = pair[2].of

\* The packed scan returns what a scan of the single vectors returns, as the
\* docstring of legacy_vector_scan says: once nothing is under way, the search
\* scores each chunk by its own vector.
ScanAgrees ==
  Quiet => \A p \in Paths : \A pair \in ScanPairs(p) : pair[1].text = pair[2].of
=============================================================================
