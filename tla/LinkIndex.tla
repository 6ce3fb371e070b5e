----------------------------- MODULE LinkIndex -----------------------------
(***************************************************************************)
(* Links, backlinks and the knowledge graph.  The derived index resolves   *)
(* the links of a note against the file names it knows                     *)
(* (server/index/service.py), keeps the backlinks as a table of their own, *)
(* and is updated note by note from watcher events, by a rebuild, or not   *)
(* at all when the fingerprints match at startup.  The graph service       *)
(* (server/graph/service.py) projects one snapshot of those rows.          *)
(*                                                                         *)
(* A text is abstracted to the references and tags the parsers find in it. *)
(* Which change is reported, and in which order, is NoteIndex; here any    *)
(* may be lost and any may overtake another, any read and any transaction  *)
(* may fail, and what is asked is whether the tables agree all the same.   *)
(***************************************************************************)
EXTENDS Naturals, Sequences, FiniteSets, FiniteSetsExt, Functions

CONSTANTS
  Files,       \* files, as numbers in the order of their folded paths
  Markdown,    \* those that are notes
  Full, Stem,  \* basename of a path with and without its extension
  Texts,       \* what a file may hold
  Refs,        \* text -> the references in it, in order
  Tokens,      \* text -> the words the full-text table splits it into
  Holds,       \* text -> the terms that occur in it as substrings
  Unreadable,  \* texts that are not UTF-8
  Plain,       \* terms the full-text path can represent
  Queries,     \* searches: sets of terms
  Missing,     \* no file, no row
  Starts,      \* vaults the program may find
  MaxEdits,    \* bound: changes of the vault
  MaxStores,   \* bound: notes whose vectors are stored
  MaxBuilds    \* bound: rebuilds asked for and restarts, together

ASSUME LinkAssumption ==
  /\ Files \subseteq Nat \ {0} /\ IsFiniteSet(Files)
  /\ Markdown \subseteq Files /\ Missing \notin Texts
  /\ Unreadable \subseteq Texts /\ {} \notin Queries
  /\ Starts \subseteq [Files -> Texts \cup {Missing}]
  /\ {MaxEdits, MaxStores, MaxBuilds} \subseteq Nat

VARIABLES
  disk,       \* path -> text, or Missing
  events,     \* watcher events not handled yet
  pend,       \* _pending_events
  ix,         \* the name maps and the tables of the derived index
  emb,        \* path -> the text its stored vectors are of, or Missing
  indexReady, \* _build_state is "ready"
  building,   \* a rebuild holds the lock
  owed,       \* the startup scan has not run yet
  left        \* what remains of the bounds

linksVars == <<disk, events, pend, ix, emb, indexReady, building, owed, left>>
-----------------------------------------------------------------------------
(* Resolution of references. *)

Nowhere == 0
Present == {p \in Files : disk[p] # Missing}
Readable(names) == {p \in names \cap Markdown : disk[p] # Missing}

\* The files a reference may mean: a whole path with an optional suffix, or a
\* basename with its extension, or the stem of a note.
Candidates(ref, names) ==
  CASE ref.form = "path" -> names \cap ref.paths
    [] ref.form = "name" ->
         {p \in names : Full[p] = ref.name \/ (p \in Markdown /\ Stem[p] = ref.stem)}
    [] OTHER -> {}

\* _resolve_ref: a web link is left alone, an anchor is in the note itself, any
\* other reference means the first candidate in folded order.
ResolveRef(p, ref, names) ==
  LET found == Candidates(ref, names)
      row == [web |-> FALSE, to |-> Nowhere, broken |-> FALSE, ambiguous |-> FALSE]
  IN CASE ref.form = "web" -> [row EXCEPT !.web = TRUE]
       [] ref.form = "anchor" -> [row EXCEPT !.to = p]
       [] OTHER -> IF found = {} THEN [row EXCEPT !.broken = TRUE]
                   ELSE [row EXCEPT !.to = Min(found),
                                    !.ambiguous = Cardinality(found) > 1]

\* _entry_from_text: the link rows of a note.
EntryFromText(p, t, names) ==
  [i \in DOMAIN Refs[t] |-> ResolveRef(p, Refs[t][i], names)]
-----------------------------------------------------------------------------
(* The tables. *)

\* What the link rows of p contribute to the backlinks.
Contribution(links, p) ==
  {<<l.to, p>> : l \in {r \in Range(links) : r.to \notin {Nowhere, p}}}

\* _insert_note_row: the note takes the next rowid, which names its row of the
\* full-text table.
InsertNoteRow(x, p, t) ==
  LET rowid == 1 + Max(Range(x.row))
  IN [x EXCEPT !.note[p] = t, !.links[p] = EntryFromText(p, t, x.names),
               !.row[p] = rowid, !.fts = @ \cup {<<rowid, t>>}]

\* Mutant: the full-text row of a rewritten or removed note stays.
DeleteNoteRowsMut(x, p) ==
  [x EXCEPT !.note[p] = Missing, !.links[p] = <<>>, !.row[p] = 0,
            !.backs = {b \in @ : b[2] # p}]

\* _delete_note_rows: the row with its links, its full-text row and the
\* backlinks it is the source of; rows of other notes that point here stay.
DeleteNoteRows(x, p) ==
  [x EXCEPT !.note[p] = Missing, !.links[p] = <<>>, !.row[p] = 0,
            !.backs = {b \in @ : b[2] # p}, !.fts = {f \in @ : f[1] # x.row[p]}]

SyncOutgoingBacklinks(x, p) == [x EXCEPT !.backs = @ \cup Contribution(x.links[p], p)]

\* _refresh_basenames
RefreshBasenames(x, p) == [x EXCEPT !.names = @ \cup {p}]

\* _apply_create, with its outcomes: an attachment, or whatever else is no note,
\* is only a name; a note that cannot be read, or whose digest is the stored one,
\* is left alone; the transaction fails, or writes the rows of the note.
ApplyCreate(x, p) ==
  LET named == RefreshBasenames(x, p)
  IN IF p \notin Markdown THEN {named}
     ELSE IF disk[p] \in {Missing, x.note[p]} THEN {x}
     ELSE {x, named, SyncOutgoingBacklinks(
                       InsertNoteRow(DeleteNoteRows(named, p), p, disk[p]), p)}

\* _apply_delete: the transaction fails, or removes the rows of the note.
ApplyDelete(x, p) == {[y EXCEPT !.names = @ \ {p}] : y \in {x, DeleteNoteRows(x, p)}}

\* The transaction of rebuild: the rows of the listed notes it could read, then
\* all backlinks at once.
Rebuilt(x, there) ==
  LET links == [p \in Files |-> IF p \in there THEN EntryFromText(p, disk[p], x.names)
                                ELSE <<>>]
      Place(p) == IF p \in there THEN Cardinality({q \in there : q <= p}) ELSE 0
  IN [names |-> x.names, links |-> links, row |-> [p \in Files |-> Place(p)],
      fts |-> {<<Place(p), disk[p]>> : p \in there},
      note |-> [p \in Files |-> IF p \in there THEN disk[p] ELSE Missing],
      backs |-> UNION {Contribution(links[p], p) : p \in Files}]
-----------------------------------------------------------------------------
Empty == [names |-> {}, note |-> [p \in Files |-> Missing],
          row |-> [p \in Files |-> 0], fts |-> {},
          links |-> [p \in Files |-> <<>>], backs |-> {}]

LinksInit ==
  /\ disk \in Starts
  /\ events = {} /\ pend = {}
  /\ ix = Empty
  /\ emb = [p \in Files |-> Missing]
  /\ indexReady = FALSE /\ building = FALSE /\ owed = TRUE
  /\ left = [edits |-> MaxEdits, stores |-> MaxStores, builds |-> MaxBuilds]

\* A file changes and the watcher may report it: what an editor does is, what
\* the service saves, trashes or restores is a rename with a hidden end and is
\* not.  A directory that gets another name is reported as a file that moved.
Edit ==
  /\ left.edits > 0 /\ left' = [left EXCEPT !.edits = @ - 1]
  /\ \/ \E p \in Files, t \in Texts \cup {Missing} :
          /\ t # disk[p] /\ (p \notin Markdown /\ t # Missing => Refs[t] = <<>>)
          /\ disk' = [disk EXCEPT ![p] = t]
          /\ events' \in {events, events \cup {[kind |-> "touch", path |-> p, to |-> p]}}
     \/ \E p, q \in Files :
          /\ p # q /\ disk[p] # Missing /\ (p \in Markdown <=> q \in Markdown)
          /\ disk' = [disk EXCEPT ![p] = Missing, ![q] = disk[p]]
          /\ events' \in {events, events \cup {[kind |-> "move", path |-> p, to |-> q]}}
     \/ \E p, q \in Files \ Present :
          /\ p # q /\ events' = events \cup {[kind |-> "move", path |-> p, to |-> q]}
          /\ UNCHANGED disk
  /\ UNCHANGED <<pend, ix, emb, indexReady, building, owed>>

\* handle_event: a move is applied at once, any other event is buffered.
HandleEvent(e) ==
  /\ e \in events /\ ~building
  /\ events' = events \ {e}
  /\ \/ /\ e.kind = "touch"
        /\ pend' = pend \cup {e.path} /\ UNCHANGED ix
     \/ /\ e.kind = "move"
        /\ \E y \in ApplyDelete(ix, e.path) : ix' \in ApplyCreate(y, e.to)
        /\ UNCHANGED pend
  /\ UNCHANGED <<disk, emb, indexReady, building, owed, left>>

\* _flush_event: what can be read on the disk by now decides.
FlushEvent(p) ==
  /\ p \in pend /\ ~building
  /\ pend' = pend \ {p}
  /\ \/ disk[p] # Missing /\ ix' \in ApplyCreate(ix, p)
     \/ ix' \in ApplyDelete(ix, p)
  /\ UNCHANGED <<disk, events, emb, indexReady, building, owed, left>>

\* refresh: rows whose paths and digests are those of the files, with as many
\* full-text rows, are reused and only the name maps are built; otherwise, or
\* when a file cannot be read, it is a rebuild.
Refresh ==
  /\ owed /\ ~building
  /\ owed' = FALSE
  /\ ix' = [ix EXCEPT !.names = Present]
  /\ \/ /\ \A p \in Markdown : ix.note[p] = disk[p]
        /\ Cardinality(ix.fts) = Cardinality(Present \cap Markdown)
        /\ indexReady' = TRUE /\ UNCHANGED building
     \/ building' = TRUE /\ UNCHANGED indexReady
  /\ UNCHANGED <<disk, events, pend, emb, left>>

\* rebuild, up to the listing.
Rebuild ==
  /\ left.builds > 0 /\ ~building
  /\ left' = [left EXCEPT !.builds = @ - 1]
  /\ ix' = [ix EXCEPT !.names = Present]
  /\ building' = TRUE
  /\ UNCHANGED <<disk, events, pend, emb, indexReady, owed>>

CommitBuild ==
  /\ building /\ building' = FALSE
  /\ \E there \in SUBSET Readable(ix.names) : ix' = Rebuilt(ix, there)
  /\ indexReady' = TRUE
  /\ UNCHANGED <<disk, events, pend, emb, owed, left>>

\* The transaction fails and is rolled back; the name maps are new already.
FailBuild ==
  /\ building /\ building' = FALSE
  /\ UNCHANGED <<disk, events, pend, ix, emb, indexReady, owed, left>>

\* The retrieval index stores the vectors of a note.
StoreVectors(p) ==
  /\ ix.note[p] # Missing /\ emb[p] # ix.note[p]
  /\ left.stores > 0 /\ left' = [left EXCEPT !.stores = @ - 1]
  /\ emb' = [emb EXCEPT ![p] = ix.note[p]]
  /\ UNCHANGED <<disk, events, pend, ix, indexReady, building, owed>>

\* The process dies and starts again: the tables are what was committed.
Restart ==
  /\ left.builds > 0 /\ left' = [left EXCEPT !.builds = @ - 1]
  /\ events' = {} /\ pend' = {}
  /\ ix' = [ix EXCEPT !.names = {}]
  /\ indexReady' = FALSE /\ building' = FALSE /\ owed' = TRUE
  /\ UNCHANGED <<disk, emb>>

LinksNext ==
  \/ Edit \/ Refresh \/ Rebuild \/ CommitBuild \/ FailBuild \/ Restart
  \/ \E e \in events : HandleEvent(e)
  \/ \E p \in Files : FlushEvent(p)
  \/ \E p \in Markdown : StoreVectors(p)

LinksSpec == LinksInit /\ [][LinksNext]_linksVars
-----------------------------------------------------------------------------
(* What the links panel shows of a note. *)

\* outgoing: nothing is found for a path without a row.
Outgoing(p) == IF ix.note[p] = Missing THEN <<>> ELSE ix.links[p]

\* backlinks: for every source of the backlinks table its rows that lead here.
BacklinkSources(p) ==
  UNION {{<<q, i>> : i \in {j \in DOMAIN ix.links[q] : ix.links[q][j].to = p}} :
           q \in {r \in Files \ {p} : <<p, r>> \in ix.backs}}

(* Search. *)

\* fts_search: full-text rows joined to the notes by rowid.
FtsSearch(terms) ==
  {p \in Markdown : /\ ix.note[p] \notin Unreadable \cup {Missing}
                    /\ \E f \in ix.fts : f[1] = ix.row[p] /\ terms \subseteq Tokens[f[2]]}

\* substring_search
SubstringSearch(terms) ==
  {p \in Markdown : /\ ix.note[p] \notin Unreadable \cup {Missing}
                    /\ terms \subseteq Holds[ix.note[p]]}

\* SearchService._search: the full-text path where it can be used and finds
\* something.
Search(terms) ==
  IF terms \subseteq Plain /\ FtsSearch(terms) # {} THEN FtsSearch(terms)
  ELSE SubstringSearch(terms)
-----------------------------------------------------------------------------
(***************************************************************************)
(* The parts of the index agree, at any time and whatever was lost, done   *)
(* out of order or failed: the backlinks of a note are the rows of the     *)
(* other notes' outgoing links that lead to it, whether a row got there by *)
(* an event, a rename, a rebuild or from an earlier process, and no        *)
(* backlink is left of a row that is gone.  Search finds by the full-text  *)
(* table what the rows of the notes hold, although rowids are used again,  *)
(* and falls back to substrings only when no note has all words.  Whether  *)
(* the rows are those of the files is SettledIsFaithful of NoteIndex       *)
(* (service.py _apply_create, _apply_delete, refresh, rebuild,             *)
(* fts_search).                                                            *)
(***************************************************************************)
IndexCoheres ==
  /\ \A p \in Files : BacklinkSources(p) =
       UNION {{<<q, i>> : i \in {j \in DOMAIN Outgoing(q) : Outgoing(q)[j].to = p}} :
                q \in Files \ {p}}
  /\ \A back \in ix.backs : \E source \in BacklinkSources(back[1]) : source[1] = back[2]
  /\ \A terms \in Queries :
       LET With(has) == {p \in Markdown : /\ ix.note[p] \notin Unreadable \cup {Missing}
                                          /\ terms \subseteq has[ix.note[p]]}
           words == IF terms \subseteq Plain THEN With(Tokens) ELSE {}
       IN Search(terms) = IF words # {} THEN words ELSE With(Holds)
=============================================================================
