---------------------------- MODULE IndexProofs ----------------------------
(***************************************************************************)
(* Proofs about the derived index, for any vault and any number of         *)
(* changes, scans, rebuilds and restarts.  Of NoteIndex: a path with no    *)
(* event under way has the row and the name of its file, whatever order    *)
(* the events are handed over in.  Of LinkIndex: the tables of notes,      *)
(* links, backlinks and full text agree with one another, whichever events *)
(* are lost and whichever reads and transactions fail.  Of GraphView: the  *)
(* graph that a client reads page by page is that of the rows.             *)
(***************************************************************************)
EXTENDS NoteIndex, GraphView, OrderingProofs, SequenceTheorems

(***************************************************************************)
(* The invariant                                                           *)
(***************************************************************************)

\* The event e leads the index to look at p, or to drop it: for a move's new
\* name, only while there is a file.
Settles(e, p) == e.ev.path = p \/ (e.ev.to = p /\ file[p] # Absent)
Awaited(p) == p \in buffer \/ \E e \in pending \cup batch : Settles(e, p)

Exempt == blind \cup misled \cup failed
\* The paths that a scan which is looking at the files will put right.
Looked == IF scan \in {"check", "build"} THEN fresh ELSE {}
Odd == (blind \cup misled) \ Looked

\* The process and its scans.
ProcessInv ==
  /\ ready => up /\ open
  /\ scan # "idle" => up
  /\ scan \in {"check", "build"} => open
  /\ ~up => pending = {} /\ batch = {} /\ buffer = {} /\ scans + starts < MaxScans

\* Events have happened, and each pending one has a place of its own.
OrderInv ==
  /\ \A e \in pending \cup batch :
       e.pos <= changes /\ e.due <= changes /\ (e.ev.kind = "move" <=> e.ev.path # e.ev.to)
  /\ \A d, e \in pending : d.pos = e.pos => d = e

\* What the move m does to p is not what the disk shows by now.
Overtaken(m, p) ==
  /\ m.ev.kind = "move" /\ p \in Ends(m) \ Odd
  /\ \/ p = m.ev.path /\ file[p] # Absent
     \/ p = m.ev.to /\ p \notin Notes /\ file[p] = Absent

\* A later event has been put after such a move, and will be handed over after it.
Follows(m, p) == \E e \in pending : e.due > m.due /\ Settles(e, p)
Trails(m, p) ==
  \/ \E e \in pending : Settles(e, p)
  \/ \E e \in batch : e.pos > m.pos /\ Settles(e, p)
MoveInv ==
  /\ \A m \in pending : \A p \in Paths : Overtaken(m, p) => Follows(m, p)
  /\ \A m \in batch : \A p \in Paths : Overtaken(m, p) => Trails(m, p)

\* What a scan has listed and read so far is what is there, but for what an
\* event will still be handed over for.
ListInv ==
  scan \in {"check", "build"} =>
    \A p \in Paths : p \in blind \ fresh \/ Awaited(p) \/ (p \in listed <=> file[p] # Absent)
CheckInv ==
  scan = "check" =>
    /\ \A p \in Paths : rows[p] # Absent <=> p \in listed \cap Notes
    /\ \A p \in Notes \ todo : p \in blind \ fresh \/ Awaited(p) \/ rows[p] = file[p]
BuildInv ==
  scan = "build" =>
    /\ names = listed /\ todo \subseteq listed
    /\ \A p \in Paths : built[p] # Absent => p \in listed
    /\ \A p \in Notes \ todo : p \in (blind \cup failed) \ fresh \/ Awaited(p) \/ built[p] = file[p]

\* The rows the index serves from, also while a scan is under way.
RowInv == ready => \A p \in Notes \ Exempt : Awaited(p) \/ rows[p] = file[p]
\* And the names, when none is.
NameInv ==
  ready /\ scan = "idle" =>
    /\ \A p \in Notes \ failed : rows[p] # Absent => p \in names
    /\ \A p \in Paths \ Exempt : Awaited(p) \/ Agrees(p)

IndexInv ==
  /\ TypeOK /\ ProcessInv /\ OrderInv /\ MoveInv
  /\ ListInv /\ CheckInv /\ BuildInv /\ RowInv /\ NameInv

(***************************************************************************)
(* Events in the watcher                                                   *)
(***************************************************************************)

\* The dispatcher hands over the event whose place comes first.
LEMMA FirstIs ==
  ASSUME IndexAssumption, TypeOK, batch # {}
  PROVE  First(batch) \in batch /\ \A d \in batch : First(batch).pos <= d.pos
<1>1. batch \subseteq Pending
  BY DEF TypeOK
<1> DEFINE S == {e.pos : e \in batch}
<1>2. S \subseteq Nat /\ S # {}
  BY <1>1 DEF Pending
<1>3. PICK m \in S : \A k \in S : m <= k
  BY <1>2, LeastIs
<1>4. PICK e \in batch : e.pos = m
  BY <1>3
<1>5. \A d \in batch : e.pos <= d.pos
  BY <1>3, <1>4
<1> QED
  BY <1>4, <1>5 DEF First

\* What a change with an event does to the Vault.
Seen(ev) ==
  /\ ev \in Events /\ (ev.kind = "move" <=> ev.path # ev.to)
  /\ changes < MaxChanges /\ changes' = changes + 1
  /\ file' \in [Paths -> Contents \cup {Absent}]
  /\ dirs' \subseteq Paths /\ \A p \in dirs' : file'[p] = Absent
  /\ \A p \in Paths : p \notin {ev.path, ev.to} => file'[p] = file[p]
  /\ \A p \in Paths : file'[p] # file[p] /\ p # ev.path => file'[p] # Absent
  /\ ev.kind = "move" => file'[ev.path] = Absent /\ file'[ev.to] # Absent
  /\ pending' = IF up THEN Queued(ev) ELSE pending
  /\ UNCHANGED <<dbVars, up, started, batch, buffer, scanVars, histVars, boundVars>>

\* An editor's changes, the service's links and what happens to a directory
\* that keeps its name are such changes.
LEMMA SeenIs ==
  ASSUME IndexAssumption, TypeOK, NEW p \in Paths, NEW q \in Paths,
         Write(p) \/ Remove(p) \/ Rename(p, q) \/ Link(p, q) \/ Folder(p)
  PROVE  \E ev \in Events : Seen(ev)
<1>1. changes < MaxChanges /\ changes' = changes + 1 /\ Now \in Contents /\ Now # Absent
  <2>1. Change
    BY DEF Write, Remove, Rename, Link, Folder, FileChange
  <2> QED
    BY <2>1 DEF Change, Room, Now, TypeOK, IndexAssumption, Contents
<1>2. \A c \in Contents : c # Absent
  BY DEF IndexAssumption, Contents
<1>3. \A k \in {"create", "modify", "delete", "move"}, r, s \in Paths :
        /\ Event(k, r, s) \in Events
        /\ Event(k, r, s).kind = k /\ Event(k, r, s).path = r /\ Event(k, r, s).to = s
  BY DEF Event, Events
<1>4. file \in [Paths -> Contents \cup {Absent}] /\ dirs \subseteq Paths /\ \A r \in dirs : file[r] = Absent
  BY DEF TypeOK
<1>5. CASE Write(p)
  <2>1. PICK k \in {"create", "modify"} : Emit(Event(k, p, p))
    BY <1>5 DEF Write
  <2>2. file' = [file EXCEPT ![p] = Now] /\ dirs' = dirs /\ p \notin dirs
    BY <1>5 DEF Write, FileChange
  <2>3. PICK ev : ev = Event(k, p, p)
    OBVIOUS
  <2>4. ev \in Events /\ ev.kind # "move" /\ ev.path = p /\ ev.to = p
    BY <1>3, <2>3
  <2>5. Seen(ev)
    BY <1>1, <1>4, <2>1, <2>2, <2>3, <2>4 DEF Seen, Emit
  <2> QED
    BY <2>4, <2>5
<1>6. CASE Remove(p)
  <2>1. PICK ev : ev = Event("delete", p, p)
    OBVIOUS
  <2>2. ev \in Events /\ ev.kind # "move" /\ ev.path = p /\ ev.to = p
    BY <1>3, <2>1
  <2>3. file' = [file EXCEPT ![p] = Absent] /\ dirs' = dirs /\ Emit(ev)
    BY <1>6, <2>1 DEF Remove, FileChange
  <2>4. Seen(ev)
    BY <1>1, <1>4, <2>2, <2>3 DEF Seen, Emit
  <2> QED
    BY <2>2, <2>4
<1>7. CASE Rename(p, q)
  <2>1. PICK ev : ev = Event("move", p, q)
    OBVIOUS
  <2>2. ev \in Events /\ ev.kind = "move" /\ ev.path = p /\ ev.to = q /\ p # q
    BY <1>3, <1>7, <2>1 DEF Rename
  <2>3. /\ file' = [file EXCEPT ![q] = file[p], ![p] = Absent] /\ dirs' = dirs /\ q \notin dirs
        /\ Emit(ev) /\ file[p] # Absent
    BY <1>7, <2>1 DEF Rename, FileChange
  <2>4. /\ file' \in [Paths -> Contents \cup {Absent}]
        /\ file'[q] = file[p] /\ file'[p] = Absent
        /\ \A r \in Paths : r # p /\ r # q => file'[r] = file[r]
        /\ dirs' \subseteq Paths /\ \A r \in dirs' : file'[r] = Absent
    BY <1>4, <2>2, <2>3
  <2>5. Seen(ev)
    BY <1>1, <2>2, <2>3, <2>4 DEF Seen, Emit
  <2> QED
    BY <2>2, <2>5
<1>8. CASE Link(p, q)
  <2>1. PICK ev : ev = Event("create", q, q)
    OBVIOUS
  <2>2. ev \in Events /\ ev.kind # "move" /\ ev.path = q /\ ev.to = q
    BY <1>3, <2>1
  <2>3. file' = [file EXCEPT ![q] = file[p]] /\ dirs' = dirs /\ q \notin dirs /\ Emit(ev) /\ file[p] # Absent
    BY <1>8, <2>1 DEF Link, FileChange
  <2>4. Seen(ev)
    BY <1>1, <1>4, <2>2, <2>3 DEF Seen, Emit
  <2> QED
    BY <2>2, <2>4
<1>9. CASE Folder(p)
  <2>1. PICK k \in {"create", "modify", "delete"} : Emit(Event(k, p, p))
    BY <1>9 DEF Folder
  <2>2. file' = file /\ dirs' \subseteq Paths /\ \A r \in dirs' : file'[r] = Absent
    BY <1>4, <1>9 DEF Folder
  <2>3. PICK ev : ev = Event(k, p, p)
    OBVIOUS
  <2>4. ev \in Events /\ ev.kind # "move" /\ ev.path = p /\ ev.to = p
    BY <1>3, <2>3
  <2>5. Seen(ev)
    BY <1>1, <1>4, <2>1, <2>2, <2>3, <2>4 DEF Seen, Emit
  <2> QED
    BY <2>4, <2>5
<1> QED
  BY <1>5, <1>6, <1>7, <1>8, <1>9
\* _queue: a pending event keeps its place and gets a new deadline, another
\* one takes the next place.
LEMMA QueuedIs ==
  ASSUME TypeOK, OrderInv, changes < MaxChanges, NEW ev \in Events
  PROVE  /\ Queued(ev) \subseteq Pending
         /\ \E e \in Queued(ev) : e.ev = ev
         /\ \A e \in Queued(ev) : \/ e \in pending /\ e.ev # ev
                                  \/ /\ e.ev = ev /\ e.due = Now
                                     /\ e.pos = Now \/ \E d \in pending : d.ev = ev /\ d.pos = e.pos
         /\ \A e \in pending : \E d \in Queued(ev) : d.ev = e.ev /\ e.due <= d.due
         /\ \A d, e \in Queued(ev) : d.pos = e.pos => d = e
<1> DEFINE same == {e \in pending : e.ev = ev}
           places == IF same = {} THEN {Now} ELSE {e.pos : e \in same}
           Record(n) == [ev |-> ev, pos |-> n, due |-> Now]
<1>1. Queued(ev) = (pending \ same) \cup {Record(n) : n \in places}
  BY DEF Queued
<1>2. /\ changes \in Nat /\ Now \in 1 .. MaxChanges /\ Now = changes + 1
      /\ pending \subseteq Pending
      /\ \A e \in pending : e.pos \in 1 .. MaxChanges /\ e.due \in 1 .. MaxChanges
      /\ \A e \in pending : e.pos <= changes /\ e.due <= changes
      /\ \A d, e \in pending : d.pos = e.pos => d = e
  <2>1. changes \in 0 .. MaxChanges /\ MaxChanges \in Nat /\ pending \subseteq Pending
    BY IndexAssumption DEF TypeOK
  <2>2. \A e \in Pending : e.pos \in 1 .. MaxChanges /\ e.due \in 1 .. MaxChanges
    BY DEF Pending
  <2>3. \A e \in pending : e.pos <= changes /\ e.due <= changes
    BY DEF OrderInv
  <2> QED
    BY <2>1, <2>2, <2>3 DEF OrderInv, Now
<1>3. \A n : Record(n).ev = ev /\ Record(n).pos = n /\ Record(n).due = Now
  OBVIOUS
<1>4. \A n \in places : n \in 1 .. MaxChanges /\ (n = Now \/ \E d \in pending : d.ev = ev /\ d.pos = n)
  BY <1>2
<1>5. places # {} /\ \A e \in same : e.pos \in places
  OBVIOUS
<1>6. \A n \in places : Record(n) \in Pending
  BY <1>2, <1>4 DEF Pending
<1>7. \A n \in places, e \in pending \ same : e.pos # n
  <2> SUFFICES ASSUME NEW n \in places, NEW e \in pending \ same, e.pos = n
               PROVE  FALSE
    OBVIOUS
  <2>1. CASE n = Now
    BY <1>2, <2>1
  <2>2. CASE \E d \in pending : d.ev = ev /\ d.pos = n
    BY <1>2, <2>2
  <2> QED
    BY <1>4, <2>1, <2>2
<1> HIDE DEF same, places, Record
<1>8. Queued(ev) \subseteq Pending
  BY <1>1, <1>2, <1>6
<1>9. \E e \in Queued(ev) : e.ev = ev
  BY <1>1, <1>3, <1>5
<1>10. \A e \in Queued(ev) : \/ e \in pending /\ e.ev # ev
                             \/ /\ e.ev = ev /\ e.due = Now
                                /\ e.pos = Now \/ \E d \in pending : d.ev = ev /\ d.pos = e.pos
  <2> SUFFICES ASSUME NEW e \in Queued(ev)
               PROVE  \/ e \in pending /\ e.ev # ev
                      \/ /\ e.ev = ev /\ e.due = Now
                         /\ e.pos = Now \/ \E d \in pending : d.ev = ev /\ d.pos = e.pos
    OBVIOUS
  <2>1. CASE e \in pending \ same
    BY <2>1 DEF same
  <2>2. CASE \E n \in places : e = Record(n)
    BY <1>3, <1>4, <2>2
  <2> QED
    BY <1>1, <2>1, <2>2
<1>11. \A e \in pending : \E d \in Queued(ev) : d.ev = e.ev /\ e.due <= d.due
  <2> SUFFICES ASSUME NEW e \in pending
               PROVE  \E d \in Queued(ev) : d.ev = e.ev /\ e.due <= d.due
    OBVIOUS
  <2>1. CASE e \in same
    <3>1. Record(e.pos) \in Queued(ev) /\ e.ev = ev
      BY <1>1, <1>5, <2>1 DEF same
    <3> QED
      BY <1>2, <1>3, <3>1
  <2>2. CASE e \notin same
    BY <1>1, <1>2, <2>2
  <2> QED
    BY <2>1, <2>2
<1>12. \A d, e \in Queued(ev) : d.pos = e.pos => d = e
  <2> SUFFICES ASSUME NEW d \in Queued(ev), NEW e \in Queued(ev), d.pos = e.pos
               PROVE  d = e
    OBVIOUS
  <2>1. CASE d \in pending \ same /\ e \in pending \ same
    BY <1>2, <2>1
  <2>2. CASE \E m \in places, n \in places : d = Record(m) /\ e = Record(n)
    BY <1>3, <2>2
  <2>3. CASE \E n \in places : d = Record(n) /\ e \in pending \ same
    BY <1>3, <1>7, <2>3
  <2>4. CASE \E n \in places : e = Record(n) /\ d \in pending \ same
    BY <1>3, <1>7, <2>4
  <2> QED
    BY <1>1, <2>1, <2>2, <2>3, <2>4
<1> QED
  BY <1>8, <1>9, <1>10, <1>11, <1>12

\* After such a change, an event still settles what it did, and where the
\* file is another one the new event does.
LEMMA SeenSettles ==
  ASSUME TypeOK, OrderInv, NEW ev \in Events, Seen(ev), up, NEW p \in Paths
  PROVE  /\ \A e : Settles(e, p) /\ file'[p] = file[p] => Settles(e, p)'
         /\ \A e : e.ev = ev /\ file'[p] # file[p] => Settles(e, p)'
         /\ (file'[p] # file[p]) => Awaited(p)'
         /\ Awaited(p) => Awaited(p)'
<1>1. \A e : Settles(e, p) /\ file'[p] = file[p] => Settles(e, p)'
  BY DEF Settles
<1>2. \A e : e.ev = ev /\ file'[p] # file[p] => Settles(e, p)'
  BY DEF Settles, Seen
<1>3. pending' = Queued(ev) /\ batch' = batch /\ buffer' = buffer
  BY DEF Seen
<1>4. (\E e \in Queued(ev) : e.ev = ev) /\ \A e \in pending : \E d \in Queued(ev) : d.ev = e.ev /\ e.due <= d.due
  BY QueuedIs DEF Seen
<1>5. (file'[p] # file[p]) => Awaited(p)'
  BY <1>2, <1>3, <1>4 DEF Awaited
<1>6. ASSUME Awaited(p), file'[p] = file[p]
      PROVE  Awaited(p)'
  <2>1. CASE p \in buffer
    BY <1>3, <2>1 DEF Awaited
  <2>2. CASE \E e \in batch : Settles(e, p)
    BY <1>1, <1>3, <1>6, <2>2 DEF Awaited
  <2>3. CASE \E e \in pending : Settles(e, p)
    <3>1. PICK e \in pending : Settles(e, p)
      BY <2>3
    <3>2. PICK d \in Queued(ev) : d.ev = e.ev
      BY <1>4, <3>1
    <3>3. Settles(d, p)'
      BY <1>6, <3>1, <3>2 DEF Settles
    <3> QED
      BY <1>3, <3>2, <3>3 DEF Awaited
  <2> QED
    BY <1>6, <2>1, <2>2, <2>3 DEF Awaited
<1> QED
  BY <1>1, <1>2, <1>5, <1>6
\* The moves that are not overtaken after such a change were not before, or
\* the new event follows them.
LEMMA SeenMoves ==
  ASSUME IndexAssumption, TypeOK, OrderInv, MoveInv, NEW ev \in Events, Seen(ev), up
  PROVE  MoveInv'
<1>1. /\ pending' = Queued(ev) /\ batch' = batch
      /\ blind' = blind /\ misled' = misled /\ fresh' = fresh /\ scan' = scan
      /\ changes < MaxChanges /\ (ev.kind = "move" <=> ev.path # ev.to)
      /\ ev.kind = "move" => file'[ev.path] = Absent /\ file'[ev.to] # Absent
  BY DEF Seen, histVars, scanVars
<1>2. /\ \E e \in Queued(ev) : e.ev = ev
      /\ \A e \in Queued(ev) : (e \in pending /\ e.ev # ev) \/ (e.ev = ev /\ e.due = Now)
      /\ \A e \in pending : \E d \in Queued(ev) : d.ev = e.ev /\ e.due <= d.due
  <2>1. changes < MaxChanges
    BY <1>1
  <2>2. \E e \in Queued(ev) : e.ev = ev
    BY <2>1, QueuedIs
  <2>3. \A e \in Queued(ev) : (e \in pending /\ e.ev # ev) \/ (e.ev = ev /\ e.due = Now)
    BY <2>1, QueuedIs
  <2>4. \A e \in pending : \E d \in Queued(ev) : d.ev = e.ev /\ e.due <= d.due
    BY <2>1, QueuedIs
  <2> QED
    BY <2>2, <2>3, <2>4
<1>3. /\ \A e \in pending : e.due \in Nat /\ e.due < Now
      /\ \A e \in Queued(ev) : e.due \in Nat
      /\ Now \in Nat
  <2>1. \A e \in pending : e.due \in Nat /\ e.due <= changes
    BY DEF TypeOK, OrderInv, Pending
  <2>2. changes \in Nat /\ Now = changes + 1
    BY DEF TypeOK, Now
  <2> QED
    BY <1>2, <2>1, <2>2
<1>4. Odd' = Odd
  BY <1>1 DEF Odd, Looked
<1>5. \A p \in Paths : \A e : Settles(e, p) /\ file'[p] = file[p] => Settles(e, p)'
  BY SeenSettles
<1>6. \A p \in Paths : \A e : e.ev = ev /\ file'[p] # file[p] => Settles(e, p)'
  BY SeenSettles
<1>7. ASSUME NEW m \in Queued(ev), NEW p \in Paths, Overtaken(m, p)'
      PROVE  \E e \in Queued(ev) : e.due > m.due /\ Settles(e, p)'
  <2>1. m.ev # ev
    BY <1>1, <1>7 DEF Overtaken, Ends
  <2>2. m \in pending
    BY <1>2, <2>1
  <2>3. CASE file'[p] # file[p]
    <3>1. PICK e \in Queued(ev) : e.ev = ev
      BY <1>2
    <3>2. e.due = Now
      BY <1>2, <3>1
    <3>3. Settles(e, p)'
      BY <1>6, <2>3, <3>1
    <3> QED
      BY <1>3, <2>2, <3>2, <3>3
  <2>4. CASE file'[p] = file[p]
    <3>1. Overtaken(m, p)
      BY <1>4, <1>7, <2>4 DEF Overtaken, Ends
    <3>2. PICK e \in pending : e.due > m.due /\ Settles(e, p)
      BY <2>2, <3>1 DEF MoveInv, Follows
    <3>3. PICK d \in Queued(ev) : d.ev = e.ev /\ e.due <= d.due
      BY <1>2
    <3>4. Settles(d, p)'
      BY <2>4, <3>2, <3>3 DEF Settles
    <3> QED
      BY <1>3, <2>2, <3>2, <3>3, <3>4
  <2> QED
    BY <2>3, <2>4
<1>8. ASSUME NEW m \in batch, NEW p \in Paths, Overtaken(m, p)'
      PROVE  \/ \E e \in Queued(ev) : Settles(e, p)'
             \/ \E e \in batch : e.pos > m.pos /\ Settles(e, p)'
  <2>1. CASE file'[p] # file[p]
    <3>1. PICK e \in Queued(ev) : e.ev = ev
      BY <1>2
    <3> QED
      BY <1>6, <2>1, <3>1
  <2>2. CASE file'[p] = file[p]
    <3>1. Overtaken(m, p)
      BY <1>4, <1>8, <2>2 DEF Overtaken, Ends
    <3>2. CASE \E e \in pending : Settles(e, p)
      <4>1. PICK e \in pending : Settles(e, p)
        BY <3>2
      <4>2. PICK d \in Queued(ev) : d.ev = e.ev
        BY <1>2
      <4>3. Settles(d, p)'
        BY <2>2, <4>1, <4>2 DEF Settles
      <4> QED
        BY <4>3
    <3>3. CASE \E e \in batch : e.pos > m.pos /\ Settles(e, p)
      BY <1>5, <2>2, <3>3
    <3> QED
      BY <3>1, <3>2, <3>3 DEF MoveInv, Trails
  <2> QED
    BY <2>1, <2>2
<1> QED
  BY <1>1, <1>7, <1>8 DEF MoveInv, Follows, Trails

\* A change that the watcher sees.
LEMMA SeenStep ==
  ASSUME IndexAssumption, IndexInv, NEW ev \in Events, Seen(ev)
  PROVE  IndexInv'
<1>1. TypeOK /\ OrderInv
  BY DEF IndexInv
<1>2. /\ UNCHANGED <<rows, names, open, ready, up, started, batch, buffer, scan, listed, todo, built>>
      /\ UNCHANGED <<fresh, blind, misled, failed, scans, starts>>
  BY DEF Seen, dbVars, scanVars, histVars, boundVars
<1>3. /\ changes \in Nat /\ MaxChanges \in Nat /\ changes < MaxChanges /\ changes' = changes + 1
      /\ file' \in [Paths -> Contents \cup {Absent}]
      /\ dirs' \subseteq Paths /\ \A p \in dirs' : file'[p] = Absent
      /\ pending' = IF up THEN Queued(ev) ELSE pending
      /\ (ev.kind = "move" <=> ev.path # ev.to)
  BY <1>1 DEF Seen, TypeOK, IndexAssumption
<1>4. /\ Queued(ev) \subseteq Pending
      /\ \A e \in Queued(ev) : \/ e \in pending /\ e.ev # ev
                               \/ /\ e.ev = ev /\ e.due = Now
                                  /\ e.pos = Now \/ \E d \in pending : d.ev = ev /\ d.pos = e.pos
      /\ \A d, e \in Queued(ev) : d.pos = e.pos => d = e
  BY <1>1, <1>3, QueuedIs
<1>5. TypeOK'
  BY <1>1, <1>2, <1>3, <1>4 DEF TypeOK
<1>6. ProcessInv'
  BY <1>2, <1>3 DEF IndexInv, ProcessInv
<1>7. OrderInv'
  <2>1. \A e \in pending \cup batch : e.pos <= changes' /\ e.due <= changes' /\ (e.ev.kind = "move" <=> e.ev.path # e.ev.to)
    <3>1. \A e \in pending \cup batch : e.pos \in Nat /\ e.due \in Nat
      BY <1>1 DEF TypeOK, Pending
    <3>2. \A e \in pending \cup batch : e.pos <= changes /\ e.due <= changes /\ (e.ev.kind = "move" <=> e.ev.path # e.ev.to)
      BY <1>1 DEF OrderInv
    <3> QED
      BY <1>3, <3>1, <3>2
  <2>2. Now = changes' /\ Now <= changes'
    BY <1>3 DEF Now
  <2>3. \A e \in Queued(ev) : e.pos <= changes' /\ e.due <= changes' /\ (e.ev.kind = "move" <=> e.ev.path # e.ev.to)
    BY <1>3, <1>4, <2>1, <2>2
  <2> QED
    BY <1>1, <1>2, <1>3, <1>4, <2>1, <2>3 DEF OrderInv
<1>8. CASE ~up
  <2>1. pending' = {} /\ batch' = {} /\ scan' = "idle" /\ ready' = FALSE
    BY <1>1, <1>2, <1>3, <1>8 DEF IndexInv, ProcessInv, TypeOK
  <2>2. MoveInv' /\ ListInv' /\ CheckInv' /\ BuildInv' /\ RowInv' /\ NameInv'
    BY <2>1 DEF MoveInv, ListInv, CheckInv, BuildInv, RowInv, NameInv
  <2> QED
    BY <1>5, <1>6, <1>7, <2>2 DEF IndexInv
<1>9. CASE up
  <2>1. MoveInv'
    BY <1>9, SeenMoves DEF IndexInv
  <2>2. \A p \in Paths : ((file'[p] # file[p]) => Awaited(p)') /\ (Awaited(p) => Awaited(p)')
    BY <1>1, <1>9, SeenSettles
  <2>3. ListInv'
    BY <1>2, <2>2 DEF IndexInv, ListInv
  <2>4. Notes \subseteq Paths
    BY DEF IndexAssumption
  <2>5. CheckInv'
    BY <1>2, <2>2, <2>4 DEF IndexInv, CheckInv
  <2>6. BuildInv'
    BY <1>2, <2>2, <2>4 DEF IndexInv, BuildInv
  <2>7. RowInv'
    BY <1>2, <2>2, <2>4 DEF IndexInv, RowInv, Exempt
  <2>8. NameInv'
    BY <1>2, <2>2, <2>4 DEF IndexInv, NameInv, Exempt, Agrees
  <2> QED
    BY <1>5, <1>6, <1>7, <2>1, <2>3, <2>5, <2>6, <2>7, <2>8 DEF IndexInv
<1> QED
  BY <1>8, <1>9

\* A directory gets another name.
LEMMA FolderMoves ==
  ASSUME IndexAssumption, IndexInv, NEW p \in Paths, NEW q \in Paths, RenameFolder(p, q)
  PROVE  IndexInv'
<1> DEFINE wrong == IF up THEN {q} \ Notes ELSE {}
<1>1. PICK ev : ev = Event("move", p, q)
  OBVIOUS
<1>2. /\ file' = file /\ changes' = changes + 1 /\ dirs' = (dirs \ {p}) \cup {q} /\ p \in dirs /\ q \notin dirs
      /\ file[q] = Absent
      /\ pending' = (IF up THEN Queued(ev) ELSE pending)
      /\ misled' = misled \cup wrong /\ fresh' = fresh \ wrong
      /\ UNCHANGED <<rows, names, open, ready, up, started, batch, buffer>>
      /\ UNCHANGED <<scan, listed, todo, built, blind, failed, scans, starts>>
  BY <1>1 DEF RenameFolder, Change, Now, dbVars, scanVars, boundVars
<1>3. TypeOK /\ OrderInv /\ ProcessInv
  BY DEF IndexInv
<1>4. /\ changes \in Nat /\ MaxChanges \in Nat /\ changes < MaxChanges /\ Now = changes' /\ Now = changes + 1
      /\ file[p] = Absent /\ p # q
  <2>1. Room => changes < MaxChanges
    BY <1>3 DEF Room, TypeOK, IndexAssumption
  <2> QED
    BY <1>2, <1>3, <2>1 DEF RenameFolder, Change, Now, TypeOK, IndexAssumption
<1>5. ev \in Events /\ ev.kind = "move" /\ ev.path = p /\ ev.to = q
  BY <1>1 DEF Event, Events
<1>6. /\ Queued(ev) \subseteq Pending
      /\ \A e \in Queued(ev) : \/ e \in pending /\ e.ev # ev
                               \/ /\ e.ev = ev /\ e.due = Now
                                  /\ e.pos = Now \/ \E d \in pending : d.ev = ev /\ d.pos = e.pos
      /\ \A d, e \in Queued(ev) : d.pos = e.pos => d = e
  BY <1>3, <1>4, <1>5, QueuedIs
<1>7. \A e \in pending : \E d \in Queued(ev) : d.ev = e.ev /\ e.due <= d.due
  BY <1>3, <1>4, <1>5, QueuedIs
<1>8. wrong \subseteq Paths
  OBVIOUS
<1>9. TypeOK'
  <2>1. dirs' \subseteq Paths /\ \A r \in dirs' : file'[r] = Absent
    BY <1>2, <1>3 DEF TypeOK
  <2>2. changes' \in 0 .. MaxChanges /\ pending' \subseteq Pending
    BY <1>2, <1>3, <1>4, <1>6 DEF TypeOK
  <2> HIDE DEF wrong
  <2> QED
    BY <1>2, <1>3, <1>8, <2>1, <2>2 DEF TypeOK
<1>10. ProcessInv'
  BY <1>2, <1>3 DEF ProcessInv
<1>11. \A e \in pending \cup batch : e.pos \in Nat /\ e.due \in Nat
  BY <1>3 DEF TypeOK, Pending
<1>12. OrderInv'
  <2>1. \A e \in pending \cup batch : e.pos <= changes' /\ e.due <= changes' /\ (e.ev.kind = "move" <=> e.ev.path # e.ev.to)
    BY <1>3, <1>4, <1>11 DEF OrderInv
  <2>2. \A e \in Queued(ev) : e.pos <= changes' /\ e.due <= changes' /\ (e.ev.kind = "move" <=> e.ev.path # e.ev.to)
    BY <1>4, <1>5, <1>6, <2>1
  <2> QED
    BY <1>2, <1>3, <1>6, <2>1, <2>2 DEF OrderInv
<1>13. \A e, r : Settles(e, r)' <=> Settles(e, r)
  BY <1>2 DEF Settles
<1>14. \A e \in pending, r \in Paths : Settles(e, r) /\ up => \E d \in pending' : e.due <= d.due /\ Settles(d, r)'
  BY <1>2, <1>7, <1>13 DEF Settles
<1>15. \A r \in Paths : Awaited(r) /\ up => Awaited(r)'
  BY <1>2, <1>13, <1>14 DEF Awaited
<1>16. CASE ~up
  <2>1. pending' = {} /\ batch' = {} /\ scan' = "idle" /\ ready' = FALSE
    BY <1>2, <1>3, <1>16 DEF ProcessInv, TypeOK
  <2>2. MoveInv' /\ ListInv' /\ CheckInv' /\ BuildInv' /\ RowInv' /\ NameInv'
    BY <2>1 DEF MoveInv, ListInv, CheckInv, BuildInv, RowInv, NameInv
  <2> QED
    BY <1>9, <1>10, <1>12, <2>2 DEF IndexInv
<1>17. CASE up
  <2>1. Odd \subseteq Odd' /\ Exempt \subseteq Exempt' /\ (q \notin Notes => q \in Odd')
        /\ blind \ fresh \subseteq blind' \ fresh'
        /\ (blind \cup failed) \ fresh \subseteq (blind' \cup failed') \ fresh'
    BY <1>2, <1>17 DEF Odd, Looked, Exempt
  <2> HIDE DEF wrong
  <2>2. \A m : \A r \in Paths : Overtaken(m, r)' => Overtaken(m, r) /\ m.ev # ev
    BY <1>2, <1>4, <1>5, <2>1 DEF Overtaken, Ends
  <2>3. MoveInv'
    <3>1. ASSUME NEW m \in Queued(ev), NEW r \in Paths, Overtaken(m, r)'
          PROVE  Follows(m, r)'
      <4>1. m \in pending /\ Overtaken(m, r)
        BY <1>6, <2>2, <3>1
      <4>2. PICK e \in pending : e.due > m.due /\ Settles(e, r)
        BY <4>1 DEF IndexInv, MoveInv, Follows
      <4>3. PICK d \in pending' : e.due <= d.due /\ Settles(d, r)'
        BY <1>14, <1>17, <4>2
      <4>4. d.due \in Nat
        BY <1>9 DEF TypeOK, Pending
      <4>5. d.due > m.due
        BY <1>11, <4>1, <4>2, <4>3, <4>4
      <4> QED
        BY <4>3, <4>5 DEF Follows
    <3>2. ASSUME NEW m \in batch, NEW r \in Paths, Overtaken(m, r)'
          PROVE  Trails(m, r)'
      <4>1. Trails(m, r)
        BY <2>2, <3>2 DEF IndexInv, MoveInv
      <4> QED
        BY <1>2, <1>13, <1>14, <1>17, <4>1 DEF Trails
    <3> QED
      BY <1>2, <1>17, <3>1, <3>2 DEF MoveInv
  <2>4. Notes \subseteq Paths
    BY DEF IndexAssumption
  <2>5. ListInv' /\ CheckInv' /\ BuildInv'
    BY <1>2, <1>15, <1>17, <2>1, <2>4 DEF IndexInv, ListInv, CheckInv, BuildInv
  <2>6. RowInv' /\ NameInv'
    BY <1>2, <1>15, <1>17, <2>1, <2>4 DEF IndexInv, RowInv, NameInv, Agrees
  <2> QED
    BY <1>9, <1>10, <1>12, <2>3, <2>5, <2>6 DEF IndexInv
<1> QED
  BY <1>16, <1>17

\* A change that the watcher drops.
LEMMA UnseenStep ==
  ASSUME IndexAssumption, IndexInv, NEW p \in Paths, NEW c \in Contents \cup {Absent}, Unseen(p, c), p \notin dirs
  PROVE  IndexInv'
<1>1. /\ file' = [file EXCEPT ![p] = c] /\ changes < MaxChanges /\ changes' = changes + 1
      /\ blind' = (IF up THEN blind \cup {p} ELSE blind) /\ fresh' = fresh \ {p}
      /\ UNCHANGED <<rows, names, open, ready, up, started, pending, batch, buffer, scan, listed, todo, built>>
      /\ UNCHANGED <<dirs, misled, failed, scans, starts>>
  <2>1. Room => changes < MaxChanges
    BY DEF Room, IndexInv, TypeOK, IndexAssumption
  <2> QED
    BY <2>1 DEF Unseen, FileChange, Change, Now, dbVars, watchVars, scanVars, boundVars
<1>2. TypeOK /\ changes \in Nat /\ MaxChanges \in Nat
  BY DEF IndexInv, TypeOK, IndexAssumption
<1>3. file' \in [Paths -> Contents \cup {Absent}] /\ \A q \in Paths \ {p} : file'[q] = file[q]
  BY <1>1, <1>2 DEF TypeOK
<1>4. TypeOK'
  BY <1>1, <1>2, <1>3 DEF TypeOK
<1>5. ProcessInv'
  BY <1>1 DEF IndexInv, ProcessInv
<1>6. OrderInv'
  <2>1. \A e \in pending \cup batch : e.pos \in Nat /\ e.due \in Nat
    BY <1>2 DEF TypeOK, Pending
  <2> QED
    BY <1>1, <1>2, <2>1 DEF IndexInv, OrderInv
<1>7. CASE ~up
  <2>1. pending' = {} /\ batch' = {} /\ scan' = "idle" /\ ready' = FALSE
    BY <1>1, <1>2, <1>7 DEF IndexInv, ProcessInv, TypeOK
  <2>2. MoveInv' /\ ListInv' /\ CheckInv' /\ BuildInv' /\ RowInv' /\ NameInv'
    BY <2>1 DEF MoveInv, ListInv, CheckInv, BuildInv, RowInv, NameInv
  <2> QED
    BY <1>4, <1>5, <1>6, <2>2 DEF IndexInv
<1>8. CASE up
  <2>1. \A q \in Paths \ {p} : \A e : Settles(e, q)' <=> Settles(e, q)
    BY <1>3 DEF Settles
  <2>2. \A q \in Paths \ {p} : Awaited(q) => Awaited(q)'
    BY <1>1, <2>1 DEF Awaited
  <2>3. p \in blind' \ fresh' /\ p \in Odd' /\ p \in Exempt' /\ Notes \subseteq Paths
    BY <1>1, <1>8 DEF Odd, Looked, Exempt, IndexAssumption
  <2>4. blind \ fresh \subseteq blind' \ fresh' /\ Odd \subseteq Odd' /\ Exempt \subseteq Exempt'
    BY <1>1, <1>8 DEF Odd, Looked, Exempt
  <2>5. MoveInv'
    <3>1. \A m : \A q \in Paths : Overtaken(m, q)' => q # p /\ Overtaken(m, q)
      BY <1>3, <2>3, <2>4 DEF Overtaken, Ends
    <3>2. \A m \in pending : \A q \in Paths : Overtaken(m, q)' => Follows(m, q)'
      BY <1>1, <2>1, <3>1 DEF IndexInv, MoveInv, Follows
    <3>3. \A m \in batch : \A q \in Paths : Overtaken(m, q)' => Trails(m, q)'
      BY <1>1, <2>1, <3>1 DEF IndexInv, MoveInv, Trails
    <3> QED
      BY <1>1, <3>2, <3>3 DEF MoveInv
  <2>6. ListInv'
    BY <1>1, <1>3, <2>2, <2>3, <2>4 DEF IndexInv, ListInv
  <2>7. CheckInv'
    BY <1>1, <1>3, <2>2, <2>3, <2>4 DEF IndexInv, CheckInv
  <2>8. BuildInv'
    BY <1>1, <1>3, <1>8, <2>2, <2>3, <2>4 DEF IndexInv, BuildInv
  <2>9. RowInv'
    BY <1>1, <1>3, <2>2, <2>3, <2>4 DEF IndexInv, RowInv
  <2>10. NameInv'
    BY <1>1, <1>3, <2>2, <2>3, <2>4 DEF IndexInv, NameInv, Agrees
  <2> QED
    BY <1>4, <1>5, <1>6, <2>5, <2>6, <2>7, <2>8, <2>9, <2>10 DEF IndexInv
<1> QED
  BY <1>7, <1>8

\* The dispatcher takes what is due: a move that is handed over after a later
\* event of the same path is noted, so any other is before the events that
\* overtook it.
LEMMA DispatchStep ==
  ASSUME IndexAssumption, IndexInv, Dispatch
  PROVE  IndexInv'
<1>1. PICK t \in {e.due : e \in pending} :
        LET D == {e \in pending : e.due <= t}
        IN  /\ batch' = D /\ pending' = pending \ D
            /\ misled' = misled \cup OutOfOrder(D)
            /\ fresh' = fresh \ OutOfOrder(D)
  BY DEF Dispatch
<1> DEFINE D == {e \in pending : e.due <= t}
           Out == OutOfOrder(D)
<1>2. batch' = D /\ pending' = pending \ D /\ misled' = misled \cup Out /\ fresh' = fresh \ Out
  BY <1>1
<1>3. /\ up /\ batch = {}
      /\ UNCHANGED <<file, dirs, changes, rows, names, open, ready, up, started, buffer>>
      /\ UNCHANGED <<scan, listed, todo, built, blind, failed, scans, starts>>
  BY DEF Dispatch, diskVars, dbVars, scanVars, boundVars
<1>4. TypeOK /\ OrderInv /\ ProcessInv
  BY DEF IndexInv
<1>5. /\ t \in Nat /\ pending \subseteq Pending
      /\ \A e \in pending : e.pos \in Nat /\ e.due \in Nat /\ e.ev \in Events
  BY <1>4 DEF TypeOK, Pending
<1>6. Out \subseteq Paths
  BY <1>5 DEF OutOfOrder, Events
<1>7. \A m, e \in D : \A p \in Ends(m) \cap Ends(e) :
        m.ev.kind = "move" /\ e.pos < m.pos /\ e.due > m.due => p \notin Paths \ Out \/ (p = m.ev.to /\ p \in Notes /\ p # m.ev.path)
  <2> SUFFICES ASSUME NEW m \in D, NEW e \in D, NEW p \in Ends(m) \cap Ends(e),
                      m.ev.kind = "move", e.pos < m.pos, e.due > m.due,
                      p \in Paths \ Out
               PROVE  p = m.ev.to /\ p \in Notes /\ p # m.ev.path
    OBVIOUS
  <2>1. Ends(e) \cap Ends(m) # {}
    OBVIOUS
  <2>2. {m.ev.path} \cup ({m.ev.to} \ Notes) \subseteq Out
    <3>1. m \in {d \in D : /\ d.ev.kind = "move"
                           /\ \E x \in D : x.pos < d.pos /\ x.due > d.due /\ Ends(x) \cap Ends(d) # {}}
      BY <2>1
    <3> QED
      BY <3>1 DEF OutOfOrder
  <2> QED
    BY <2>2 DEF Ends
<1> HIDE DEF Out
<1>8. D \subseteq pending /\ pending = D \cup (pending \ D)
  OBVIOUS
<1>9. TypeOK'
  BY <1>2, <1>3, <1>4, <1>5, <1>6, <1>8 DEF TypeOK
<1>10. ProcessInv' /\ OrderInv'
  BY <1>2, <1>3, <1>4, <1>8 DEF ProcessInv, OrderInv
<1>11. \A p : \A e : Settles(e, p)' <=> Settles(e, p)
  BY <1>3 DEF Settles
<1>12. \A p : Awaited(p)' <=> Awaited(p)
  BY <1>2, <1>3, <1>8, <1>11 DEF Awaited
<1>13. Odd \subseteq Odd' /\ Exempt \subseteq Exempt' /\ Out \subseteq Odd' /\ blind \ fresh \subseteq blind' \ fresh'
       /\ (blind \cup failed) \ fresh \subseteq (blind' \cup failed') \ fresh'
  BY <1>2, <1>3 DEF Odd, Looked, Exempt
<1>14. \A m : \A p \in Paths : Overtaken(m, p)' => Overtaken(m, p) /\ p \notin Out
  BY <1>3, <1>13 DEF Overtaken, Ends
<1>15. MoveInv'
  <2>1. ASSUME NEW m \in pending \ D, NEW p \in Paths, Overtaken(m, p)'
        PROVE  Follows(m, p)'
    <3>1. PICK e \in pending : e.due > m.due /\ Settles(e, p)
      BY <1>14, <2>1 DEF IndexInv, MoveInv, Follows
    <3>2. e \in pending \ D
      BY <1>5, <2>1, <3>1
    <3> QED
      BY <1>2, <1>11, <3>1, <3>2 DEF Follows
  <2>2. ASSUME NEW m \in D, NEW p \in Paths, Overtaken(m, p)'
        PROVE  Trails(m, p)'
    <3>1. PICK e \in pending : e.due > m.due /\ Settles(e, p)
      BY <1>14, <2>2 DEF IndexInv, MoveInv, Follows
    <3>2. CASE e \notin D
      BY <1>2, <1>11, <3>1, <3>2 DEF Trails
    <3>3. CASE e \in D
      <4>1. p \in Ends(e) /\ p \in Ends(m) /\ m.ev.kind = "move" /\ p \notin Out
            /\ (p = m.ev.path \/ p \notin Notes)
        BY <1>14, <2>2, <3>1 DEF Settles, Ends, Overtaken
      <4>2. ~(e.pos < m.pos)
        BY <1>7, <2>2, <3>1, <3>3, <4>1
      <4>3. e.pos # m.pos
        BY <1>4, <1>5, <2>2, <3>1 DEF OrderInv
      <4>4. e.pos > m.pos
        BY <1>5, <2>2, <3>1, <4>2, <4>3
      <4> QED
        BY <1>2, <1>11, <3>1, <3>3, <4>4 DEF Trails
    <3> QED
      BY <3>2, <3>3
  <2> QED
    BY <1>2, <2>1, <2>2 DEF MoveInv
<1>16. ListInv' /\ CheckInv' /\ BuildInv'
  BY <1>3, <1>12, <1>13 DEF IndexInv, ListInv, CheckInv, BuildInv
<1>17. RowInv' /\ NameInv'
  BY <1>3, <1>12, <1>13 DEF IndexInv, RowInv, NameInv, Agrees
<1> QED
  BY <1>9, <1>10, <1>15, <1>16, <1>17 DEF IndexInv
(***************************************************************************)
(* What the index does with one path                                       *)
(***************************************************************************)
States == [rows : [Paths -> Contents \cup {Absent}], names : SUBSET Paths, failed : SUBSET Paths]

\* A call for p that takes s to t leaves the other paths alone, and forgets no
\* failure.
Local(s, t, p) ==
  /\ t \in States /\ s.failed \subseteq t.failed /\ t.failed \subseteq s.failed \cup {p}
  /\ \A q \in Paths \ {p} : t.rows[q] = s.rows[q] /\ (q \in t.names <=> q \in s.names)
  /\ p \notin Notes /\ s.rows[p] = Absent => t.rows[p] = Absent

\* _apply_delete takes the name and, if it does not fail, the row.
LEMMA DropsIs ==
  ASSUME NEW s \in States, NEW p \in Paths, NEW t \in Drops(s, p)
  PROVE  Local(s, t, p) /\ p \notin t.names /\ (p \in t.failed \/ t.rows[p] = Absent)
<1> DEFINE gone == [s EXCEPT !.names = @ \ {p}]
<1>1. t = [gone EXCEPT !.rows[p] = Absent] \/ (s.rows[p] # Absent /\ t = [gone EXCEPT !.failed = @ \cup {p}])
  BY DEF Drops
<1>2. /\ gone \in States /\ gone.rows = s.rows /\ gone.failed = s.failed /\ gone.names = s.names \ {p}
  BY DEF States
<1>3. CASE t = [gone EXCEPT !.rows[p] = Absent]
  <2>1. t \in States /\ t.rows = [s.rows EXCEPT ![p] = Absent] /\ t.failed = s.failed /\ t.names = s.names \ {p}
    BY <1>2, <1>3 DEF States
  <2>2. s.rows \in [Paths -> Contents \cup {Absent}]
    BY DEF States
  <2> QED
    BY <2>1, <2>2 DEF Local
<1>4. CASE t = [gone EXCEPT !.failed = @ \cup {p}]
  <2>1. t \in States /\ t.rows = s.rows /\ t.failed = s.failed \cup {p} /\ t.names = s.names \ {p}
    BY <1>2, <1>4 DEF States
  <2> QED
    BY <2>1 DEF Local
<1> QED
  BY <1>1, <1>3, <1>4

\* _apply_create gives a file its row and its name, or fails, or has nothing to do.
LEMMA PutsIs ==
  ASSUME TypeOK, NEW s \in States, NEW p \in Paths, NEW t \in Puts(s, p)
  PROVE  /\ Local(s, t, p)
         /\ p \notin Notes => p \in t.names
         /\ p \in Notes /\ file[p] = Absent => t = s
         /\ p \in Notes /\ file[p] # Absent =>
              \/ p \in t.failed
              \/ t.rows[p] = file[p] /\ (p \in t.names \/ t = s)
<1> DEFINE named == [s EXCEPT !.names = @ \cup {p}]
           lapse == [s EXCEPT !.failed = @ \cup {p}]
<1>1. /\ named \in States /\ named.rows = s.rows /\ named.failed = s.failed /\ named.names = s.names \cup {p}
  BY DEF States
<1>2. /\ lapse \in States /\ lapse.rows = s.rows /\ lapse.failed = s.failed \cup {p} /\ lapse.names = s.names
  BY DEF States
<1>3. s \in States /\ s.rows \in [Paths -> Contents \cup {Absent}] /\ file[p] \in Contents \cup {Absent}
  BY DEF States, TypeOK
<1>4. CASE p \notin Notes
  <2>1. t = named
    BY <1>4 DEF Puts
  <2> QED
    BY <1>1, <1>4, <2>1 DEF Local
<1>5. CASE p \in Notes /\ file[p] = Absent
  <2>1. t = s
    BY <1>5 DEF Puts
  <2> QED
    BY <1>3, <1>5, <2>1 DEF Local
<1>6. CASE p \in Notes /\ file[p] # Absent
  <2>1. \/ t = lapse
        \/ t = s /\ s.rows[p] = file[p]
        \/ t = [named EXCEPT !.rows[p] = file[p]]
        \/ t = [named EXCEPT !.failed = @ \cup {p}]
    BY <1>6 DEF Puts
  <2>2. CASE t = lapse
    BY <1>2, <1>6, <2>2 DEF Local
  <2>3. CASE t = s /\ s.rows[p] = file[p]
    BY <1>3, <1>6, <2>3 DEF Local
  <2>4. CASE t = [named EXCEPT !.rows[p] = file[p]]
    <3>1. t \in States /\ t.rows = [s.rows EXCEPT ![p] = file[p]] /\ t.failed = s.failed /\ t.names = s.names \cup {p}
      BY <1>1, <1>3, <2>4 DEF States
    <3> QED
      BY <1>3, <1>6, <3>1 DEF Local
  <2>5. CASE t = [named EXCEPT !.failed = @ \cup {p}]
    <3>1. t \in States /\ t.rows = s.rows /\ t.failed = s.failed \cup {p} /\ t.names = s.names \cup {p}
      BY <1>1, <2>5 DEF States
    <3> QED
      BY <1>6, <3>1 DEF Local
  <2> QED
    BY <2>1, <2>2, <2>3, <2>4, <2>5
<1> QED
  BY <1>4, <1>5, <1>6

\* After _flush_event the path agrees with the disk, or has failed.
LEMMA FlushesIs ==
  ASSUME TypeOK, IndexAssumption, NEW s \in States, NEW p \in Paths, NEW t \in Flushes(s, p)
  PROVE  /\ Local(s, t, p)
         /\ \/ p \in t.failed
            \/ (p \in Notes => t.rows[p] = file[p]) /\ (p \in t.names <=> file[p] # Absent)
            \/ p \in Notes \ s.failed /\ s.rows[p] # Absent /\ p \notin s.names
<1>1. CASE file[p] = Absent
  <2>1. t \in Drops(s, p)
    BY <1>1 DEF Flushes
  <2>2. Local(s, t, p) /\ p \notin t.names /\ (p \in t.failed \/ t.rows[p] = Absent)
    BY <2>1, DropsIs
  <2> QED
    BY <1>1, <2>2
<1>2. CASE file[p] # Absent /\ t \in Puts(s, p)
  <2>1. /\ Local(s, t, p)
        /\ p \notin Notes => p \in t.names
        /\ p \in Notes =>
             \/ p \in t.failed
             \/ t.rows[p] = file[p] /\ (p \in t.names \/ t = s)
    BY <1>2, PutsIs
  <2> QED
    BY <1>2, <2>1
<1>3. CASE file[p] # Absent /\ t \in Drops([s EXCEPT !.failed = @ \cup {p}], p)
  <2>1. PICK r : r = [s EXCEPT !.failed = @ \cup {p}]
    OBVIOUS
  <2>2. r \in States /\ r.rows = s.rows /\ r.names = s.names /\ r.failed = s.failed \cup {p}
    BY <2>1 DEF States
  <2>3. Local(r, t, p)
    BY <1>3, <2>1, <2>2, DropsIs
  <2>4. Local(s, t, p) /\ p \in t.failed
    BY <2>2, <2>3 DEF Local
  <2> QED
    BY <2>4
<1> QED
  BY <1>1, <1>2, <1>3 DEF Flushes

\* The state of the index as such a call sees it and leaves it.
LEMMA IndexIs ==
  ASSUME TypeOK
  PROVE  Index \in States /\ Index.rows = rows /\ Index.names = names /\ Index.failed = failed
BY DEF TypeOK, Index, States
\* The timer of a path fires.
LEMMA FlushStep ==
  ASSUME IndexAssumption, IndexInv, NEW p \in Paths, Flush(p)
  PROVE  IndexInv'
<1>1. /\ p \in buffer /\ scan = "idle" /\ buffer' = buffer \ {p}
      /\ UNCHANGED <<file, dirs, changes, open, ready, up, started, pending, batch>>
      /\ UNCHANGED <<scan, listed, todo, built, fresh, blind, misled, scans, starts>>
  BY DEF Flush, diskVars, scanVars, boundVars
<1>2. PICK t \in Flushes(Index, p) : rows' = t.rows /\ names' = t.names /\ failed' = t.failed
  BY DEF Flush, Becomes
<1>3. TypeOK /\ OrderInv /\ ProcessInv
  BY DEF IndexInv
<1>4. Index \in States /\ Index.rows = rows /\ Index.names = names /\ Index.failed = failed
  BY <1>3, IndexIs
<1>5. /\ Local(Index, t, p)
      /\ \/ p \in failed'
         \/ (p \in Notes => rows'[p] = file[p]) /\ (p \in names' <=> file[p] # Absent)
         \/ p \in Notes \ failed /\ rows[p] # Absent /\ p \notin names
  BY <1>2, <1>3, <1>4, FlushesIs
<1>6. /\ t \in States /\ failed \subseteq failed' /\ failed' \subseteq failed \cup {p}
      /\ \A q \in Paths \ {p} : rows'[q] = rows[q] /\ (q \in names' <=> q \in names)
      /\ p \notin Notes /\ rows[p] = Absent => rows'[p] = Absent
  BY <1>2, <1>4, <1>5 DEF Local
<1>7. TypeOK'
  BY <1>1, <1>2, <1>3, <1>6 DEF TypeOK, States
<1>8. ProcessInv' /\ OrderInv'
  <2>1. ~up => pending = {} /\ batch = {} /\ buffer = {}
    BY <1>3 DEF ProcessInv
  <2> QED
    BY <1>1, <1>3, <2>1 DEF ProcessInv, OrderInv
<1>9. \A q : \A e : Settles(e, q)' <=> Settles(e, q)
  BY <1>1 DEF Settles
<1>10. \A q \in Paths \ {p} : Awaited(q) => Awaited(q)'
  BY <1>1, <1>9 DEF Awaited
<1>11. MoveInv'
  <2>1. \A m : \A q : Overtaken(m, q)' <=> Overtaken(m, q)
    BY <1>1 DEF Overtaken, Odd, Looked, Ends
  <2>2. \A m : \A q : (Follows(m, q)' <=> Follows(m, q)) /\ (Trails(m, q)' <=> Trails(m, q))
    BY <1>1, <1>9 DEF Follows, Trails
  <2> QED
    BY <1>1, <2>1, <2>2 DEF IndexInv, MoveInv
<1>12. ListInv' /\ CheckInv' /\ BuildInv'
  BY <1>1 DEF ListInv, CheckInv, BuildInv
<1>13. NameInv'
  <2> SUFFICES ASSUME ready
               PROVE  /\ \A q \in Notes \ failed' : rows'[q] # Absent => q \in names'
                      /\ \A q \in Paths \ Exempt' : Awaited(q)' \/ Agrees(q)'
    BY <1>1 DEF NameInv
  <2>1. /\ \A q \in Notes \ failed : rows[q] # Absent => q \in names
        /\ \A q \in Paths \ Exempt : Awaited(q) \/ Agrees(q)
    BY <1>1 DEF IndexInv, NameInv
  <2>2. p \in failed' \/ Agrees(p)'
    BY <1>1, <1>5, <2>1 DEF Agrees
  <2>3. Exempt \subseteq Exempt' /\ failed' \subseteq Exempt' /\ Notes \subseteq Paths
    BY <1>1, <1>6 DEF Exempt, IndexAssumption
  <2>4. \A q \in Notes \ failed' : rows'[q] # Absent => q \in names'
    BY <1>1, <1>6, <2>1, <2>2, <2>3 DEF Agrees
  <2>5. \A q \in Paths \ {p} : Agrees(q) => Agrees(q)'
    BY <1>1, <1>6 DEF Agrees
  <2>6. \A q \in Paths \ Exempt' : Awaited(q)' \/ Agrees(q)'
    BY <1>10, <2>1, <2>2, <2>3, <2>5
  <2> QED
    BY <2>4, <2>6
<1>14. RowInv'
  BY <1>1, <1>13 DEF NameInv, RowInv, Agrees, IndexAssumption
<1> QED
  BY <1>7, <1>8, <1>11, <1>12, <1>13, <1>14 DEF IndexInv

\* The dispatcher hands over one event: moves are applied at once, which is
\* right for a path unless another event for it comes after.
LEMMA DeliverStep ==
  ASSUME IndexAssumption, IndexInv, Deliver
  PROVE  IndexInv'
<1>1. PICK e : e = First(batch)
  OBVIOUS
<1>2. /\ batch # {} /\ scan = "idle" /\ batch' = batch \ {e}
      /\ UNCHANGED <<file, dirs, changes, open, ready, up, started, pending>>
      /\ UNCHANGED <<scan, listed, todo, built, fresh, blind, misled, scans, starts>>
      /\ \/ ~open /\ UNCHANGED <<rows, names, failed, buffer>>
         \/ /\ open /\ e.ev.kind = "move" /\ UNCHANGED buffer
            /\ \E s \in Drops(Index, e.ev.path) : \E t \in Puts(s, e.ev.to) : Becomes(t)
         \/ /\ open /\ e.ev.kind # "move"
            /\ buffer' = buffer \cup {e.ev.path} /\ UNCHANGED <<rows, names, failed>>
  BY <1>1 DEF Deliver, diskVars, scanVars, boundVars
<1>3. TypeOK /\ OrderInv /\ ProcessInv
  BY DEF IndexInv
<1>4. /\ e \in batch /\ \A d \in batch : e.pos <= d.pos
      /\ e.ev.path \in Paths /\ e.ev.to \in Paths /\ (e.ev.kind = "move" <=> e.ev.path # e.ev.to)
      /\ \A d \in batch : d.pos \in Nat
  <2>1. e \in batch /\ \A d \in batch : e.pos <= d.pos
    BY <1>1, <1>2, <1>3, FirstIs
  <2>2. batch \subseteq Pending
    BY <1>3 DEF TypeOK
  <2> QED
    BY <1>3, <2>1, <2>2 DEF Pending, Events, OrderInv
<1>5. \A q : \A d : Settles(d, q)' <=> Settles(d, q)
  BY <1>2 DEF Settles
<1>6. /\ Odd' = Odd /\ Odd = blind \cup misled
  BY <1>2 DEF Odd, Looked
<1>7. MoveInv'
  <2>1. \A m : \A q : Overtaken(m, q)' <=> Overtaken(m, q)
    BY <1>2, <1>6 DEF Overtaken, Ends
  <2>2. \A m : \A q : Follows(m, q)' <=> Follows(m, q)
    BY <1>2, <1>5 DEF Follows
  <2>3. \A m \in batch : \A d \in batch : d.pos > m.pos => d # e
    BY <1>4
  <2>4. \A m \in batch : \A q : Trails(m, q) => Trails(m, q)'
    BY <1>2, <1>5, <2>3 DEF Trails
  <2> QED
    BY <1>2, <2>1, <2>2, <2>4 DEF IndexInv, MoveInv
<1>8. \A q : Trails(e, q) => \E d \in pending \cup batch' : Settles(d, q)
  BY <1>2, <1>4 DEF Trails
<1>9. ListInv' /\ CheckInv' /\ BuildInv'
  BY <1>2 DEF ListInv, CheckInv, BuildInv
<1>10. OrderInv'
  BY <1>2, <1>3 DEF OrderInv
<1>11. NameInv' => RowInv'
  BY <1>2 DEF NameInv, RowInv, Agrees, IndexAssumption
<1>12. up
  BY <1>2, <1>3 DEF ProcessInv
<1>13. CASE ~open
  <2>1. ~ready'
    BY <1>2, <1>3, <1>13 DEF ProcessInv
  <2>2. TypeOK' /\ ProcessInv'
    BY <1>2, <1>3, <1>12, <1>13 DEF TypeOK, ProcessInv
  <2> QED
    BY <1>7, <1>9, <1>10, <2>1, <2>2 DEF IndexInv, RowInv, NameInv
<1>14. CASE open /\ e.ev.kind # "move"
  <2>1. buffer' = buffer \cup {e.ev.path} /\ UNCHANGED <<rows, names, failed>>
    BY <1>2, <1>14
  <2>2. TypeOK' /\ ProcessInv'
    BY <1>2, <1>3, <1>4, <1>12, <2>1 DEF TypeOK, ProcessInv
  <2>3. \A q : Awaited(q) => Awaited(q)'
    BY <1>2, <1>4, <1>5, <1>14, <2>1 DEF Awaited, Settles
  <2>4. NameInv'
    BY <1>2, <2>1, <2>3 DEF IndexInv, NameInv, Exempt, Agrees
  <2> QED
    BY <1>7, <1>9, <1>10, <1>11, <2>2, <2>4 DEF IndexInv
<1>15. CASE open /\ e.ev.kind = "move"
  <2>1. PICK p, r : p = e.ev.path /\ r = e.ev.to
    OBVIOUS
  <2>2. p \in Paths /\ r \in Paths /\ p # r /\ buffer' = buffer
    BY <1>2, <1>4, <1>15, <2>1
  <2>3. PICK s \in Drops(Index, p) : \E t \in Puts(s, r) : Becomes(t)
    BY <1>2, <1>15, <2>1
  <2>4. PICK t \in Puts(s, r) : rows' = t.rows /\ names' = t.names /\ failed' = t.failed
    BY <2>3 DEF Becomes
  <2>5. Index \in States /\ Index.rows = rows /\ Index.names = names /\ Index.failed = failed
    BY <1>3, IndexIs
  <2>6. Local(Index, s, p) /\ p \notin s.names /\ (p \in s.failed \/ s.rows[p] = Absent)
    BY <2>2, <2>5, DropsIs
  <2>7. s \in States
    BY <2>6 DEF Local
  <2>8. /\ Local(s, t, r)
        /\ r \notin Notes => r \in names'
        /\ r \in Notes /\ file[r] = Absent => t = s
        /\ r \in Notes /\ file[r] # Absent =>
             \/ r \in failed'
             \/ rows'[r] = file[r] /\ (r \in names' \/ t = s)
    BY <1>3, <2>2, <2>4, <2>7, PutsIs
  <2>9. /\ t \in States /\ failed \subseteq failed'
        /\ \A q \in Paths \ {p, r} : rows'[q] = rows[q] /\ (q \in names' <=> q \in names)
        /\ p \notin names' /\ (p \in failed' \/ rows'[p] = Absent)
        /\ t = s => rows'[r] = rows[r] /\ (r \in names' <=> r \in names)
        /\ \A q \in Paths \ Notes : rows[q] = Absent => rows'[q] = Absent
    BY <2>2, <2>4, <2>5, <2>6, <2>8 DEF Local
  <2>10. TypeOK' /\ ProcessInv'
    BY <1>2, <1>3, <1>12, <2>2, <2>4, <2>9 DEF TypeOK, ProcessInv, States
  <2>11. \A q : (\E d \in pending \cup batch' : Settles(d, q)) => Awaited(q)'
    BY <1>2, <1>5 DEF Awaited
  <2>12. \A q : Awaited(q) /\ ~Settles(e, q) => Awaited(q)'
    BY <1>2, <1>5, <2>2 DEF Awaited
  <2>13. ASSUME ready
         PROVE  /\ \A q \in Notes \ failed' : rows'[q] # Absent => q \in names'
                /\ \A q \in Paths \ Exempt' : Awaited(q)' \/ Agrees(q)'
    <3>1. /\ \A q \in Notes \ failed : rows[q] # Absent => q \in names
          /\ \A q \in Paths \ Exempt : Awaited(q) \/ Agrees(q)
      BY <1>2, <2>13 DEF IndexInv, NameInv
    <3>2. Exempt \subseteq Exempt' /\ failed' \subseteq Exempt' /\ Odd \subseteq Exempt' /\ Notes \subseteq Paths
      BY <1>2, <1>6, <2>9 DEF Exempt, IndexAssumption
    <3>3. \A q \in Paths : Overtaken(e, q) => Awaited(q)'
      BY <1>4, <1>8, <2>11 DEF IndexInv, MoveInv
    <3>4. ASSUME p \notin Exempt'
          PROVE  Awaited(p)' \/ Agrees(p)'
      <4>1. CASE file[p] = Absent
        BY <1>2, <2>9, <3>2, <3>4, <4>1 DEF Agrees
      <4>2. CASE file[p] # Absent
        <5>1. Overtaken(e, p)
          BY <1>15, <2>1, <3>2, <3>4, <4>2 DEF Overtaken, Ends
        <5> QED
          BY <2>2, <3>3, <5>1
      <4> QED
        BY <4>1, <4>2
    <3>5. r \in Notes \ failed' /\ rows'[r] # Absent => r \in names'
      <4>1. CASE t = s
        BY <2>9, <3>1, <4>1
      <4>2. CASE t # s
        BY <2>8, <4>2
      <4> QED
        BY <4>1, <4>2
    <3>6. ASSUME r \notin Exempt'
          PROVE  Awaited(r)' \/ Agrees(r)'
      <4>1. CASE r \in Notes /\ file[r] = Absent
        <5>1. ~Settles(e, r)
          BY <2>1, <2>2, <4>1 DEF Settles
        <5>2. Agrees(r) => Agrees(r)'
          BY <1>2, <2>8, <2>9, <4>1 DEF Agrees
        <5> QED
          BY <2>2, <2>12, <3>1, <3>2, <3>6, <5>1, <5>2
      <4>2. CASE r \in Notes /\ file[r] # Absent
        BY <1>2, <2>8, <3>2, <3>5, <3>6, <4>2 DEF Agrees
      <4>3. CASE r \notin Notes /\ file[r] # Absent
        BY <1>2, <2>8, <4>3 DEF Agrees
      <4>4. CASE r \notin Notes /\ file[r] = Absent
        <5>1. Overtaken(e, r)
          BY <1>15, <2>1, <3>2, <3>6, <4>4 DEF Overtaken, Ends
        <5> QED
          BY <2>2, <3>3, <5>1
      <4> QED
        BY <4>1, <4>2, <4>3, <4>4
    <3>7. ASSUME NEW q \in Paths \ Exempt', q # p, q # r
          PROVE  Awaited(q)' \/ Agrees(q)'
      <4>1. ~Settles(e, q)
        BY <2>1, <3>7 DEF Settles
      <4>2. Agrees(q) => Agrees(q)'
        BY <1>2, <2>9, <3>7 DEF Agrees
      <4> QED
        BY <2>12, <3>1, <3>2, <4>1, <4>2
    <3>8. \A q \in Notes \ failed' : rows'[q] # Absent => q \in names'
      BY <2>9, <3>1, <3>2, <3>5
    <3> QED
      BY <3>4, <3>6, <3>7, <3>8
  <2>14. NameInv'
    BY <1>2, <2>13 DEF NameInv
  <2> QED
    BY <1>7, <1>9, <1>10, <1>11, <2>10, <2>14 DEF IndexInv
<1> QED
  BY <1>2, <1>13, <1>14, <1>15
(***************************************************************************)
(* Scans                                                                   *)
(***************************************************************************)

\* A step that leaves the Vault and the events alone leaves what is awaited.
LEMMA EventsKept ==
  ASSUME UNCHANGED <<file, pending, batch, buffer>>
  PROVE  /\ \A p : Awaited(p)' <=> Awaited(p)
         /\ (\A p \in Odd : p \in Odd' \/ p \notin Outstanding) /\ MoveInv => MoveInv'
<1>1. \A p : \A e : Settles(e, p)' <=> Settles(e, p)
  BY DEF Settles
<1>2. \A p : Awaited(p)' <=> Awaited(p)
  BY <1>1 DEF Awaited
<1>3. ASSUME \A p \in Odd : p \in Odd' \/ p \notin Outstanding, MoveInv
      PROVE  MoveInv'
  <2>1. \A m \in pending \cup batch : \A p \in Ends(m) : p \in Outstanding
    BY DEF Outstanding
  <2>2. \A m \in pending \cup batch : \A p \in Paths : Overtaken(m, p)' => Overtaken(m, p)
    BY <1>3, <2>1 DEF Overtaken, Ends
  <2>3. \A m : \A p : (Follows(m, p)' <=> Follows(m, p)) /\ (Trails(m, p)' <=> Trails(m, p))
    BY <1>1 DEF Follows, Trails
  <2> QED
    BY <1>3, <2>2, <2>3 DEF MoveInv
<1> QED
  BY <1>2, <1>3

\* Nothing is known of a scan that is given up, or has not listed yet.
LEMMA GotoIs ==
  ASSUME IndexAssumption, IndexInv, NEW s \in {"idle", "list"}, Goto(s)
  PROVE  /\ scan' = s /\ listed' \subseteq Paths /\ todo' \subseteq Notes
         /\ built' \in [Paths -> Contents \cup {Absent}] /\ \A p \in Paths \ Notes : built'[p] = Absent
         /\ ListInv' /\ CheckInv' /\ BuildInv' /\ Looked' = {}
BY DEF Goto, NoRows, ListInv, CheckInv, BuildInv, Looked

\* The listing: what is listed is there, and what will be put right has no
\* event under way.
LEMMA ListingIs ==
  ASSUME IndexAssumption, IndexInv, scan \in {"idle", "list"}, NEW s \in {"check", "build"}, Listing(s),
         UNCHANGED <<file, blind, misled, pending, batch, buffer>>
  PROVE  /\ scan' = s /\ listed' = Existing /\ listed' \subseteq Paths /\ todo' = Existing \cap Notes
         /\ built' = NoRows /\ built' \in [Paths -> Contents \cup {Absent}]
         /\ \A p \in Paths : built'[p] = Absent
         /\ fresh' \subseteq Paths
         /\ MoveInv' /\ ListInv'
<1>1. /\ scan' = s /\ listed' = Existing /\ todo' = Existing \cap Notes
      /\ built' = NoRows /\ fresh' = Paths \ Outstanding
  BY DEF Listing
<1>2. built' \in [Paths -> Contents \cup {Absent}] /\ \A p \in Paths : built'[p] = Absent
  BY <1>1 DEF NoRows
<1>3. \A p \in Odd : p \in Odd' \/ p \notin Outstanding
  BY <1>1 DEF Odd, Looked
<1>4. MoveInv'
  BY <1>3, EventsKept DEF IndexInv
<1>5. ListInv'
  BY <1>1 DEF ListInv, Existing
<1>6. listed' \subseteq Paths
  BY <1>1 DEF Existing
<1> QED
  BY <1>1, <1>2, <1>4, <1>5, <1>6

\* refresh begins.
LEMMA BeginRefreshStep ==
  ASSUME IndexAssumption, IndexInv, BeginRefresh
  PROVE  IndexInv'
<1>1. /\ up /\ scan = "idle" /\ started' = TRUE
      /\ UNCHANGED <<file, dirs, changes, rows, names, ready, up, pending, batch, buffer>>
      /\ UNCHANGED <<blind, misled, failed, scans, starts>>
  BY DEF BeginRefresh, diskVars, watchVars, boundVars
<1>2. TypeOK /\ ProcessInv /\ OrderInv /\ MoveInv /\ RowInv
  BY DEF IndexInv
<1>3. OrderInv'
  BY <1>1, <1>2 DEF OrderInv
<1>4. RowInv'
  BY <1>1, <1>2, EventsKept DEF RowInv, Exempt
<1>5. CASE open' = TRUE /\ {p \in Paths : rows[p] # Absent} = Existing \cap Notes /\ Listing("check")
  <2>1. /\ scan' = "check" /\ listed' = Existing /\ listed' \subseteq Paths /\ todo' = Existing \cap Notes
        /\ built' = NoRows /\ built' \in [Paths -> Contents \cup {Absent}]
        /\ \A p \in Paths : built'[p] = Absent
        /\ fresh' \subseteq Paths
        /\ MoveInv' /\ ListInv'
    BY <1>1, <1>5, ListingIs
  <2>2. TypeOK'
    <3>1. todo' \subseteq Notes
      BY <2>1
    <3> QED
      BY <1>1, <1>2, <1>5, <2>1, <3>1 DEF TypeOK
  <2>3. ProcessInv'
    BY <1>1, <1>2, <1>5, <2>1 DEF ProcessInv
  <2>4. CheckInv'
    <3>1. \A p \in Paths : rows[p] # Absent <=> p \in Existing \cap Notes
      BY <1>5
    <3>2. \A p \in Notes \ Existing : rows[p] = Absent /\ file[p] = Absent
      BY <3>1 DEF Existing, IndexAssumption
    <3> QED
      BY <1>1, <2>1, <3>1, <3>2 DEF CheckInv
  <2>5. BuildInv' /\ NameInv'
    BY <2>1 DEF BuildInv, NameInv
  <2> QED
    BY <1>3, <1>4, <2>1, <2>2, <2>4, <2>5, <2>3 DEF IndexInv
<1>6. CASE open' \in {open, TRUE} /\ Goto("list") /\ UNCHANGED fresh
  <2>1. /\ scan' = "list" /\ listed' \subseteq Paths /\ todo' \subseteq Notes
        /\ built' \in [Paths -> Contents \cup {Absent}] /\ \A p \in Paths \ Notes : built'[p] = Absent
        /\ ListInv' /\ CheckInv' /\ BuildInv' /\ Looked' = {}
    BY <1>6, GotoIs
  <2>2. TypeOK' /\ ProcessInv'
    <3>1. open' \in BOOLEAN /\ (open => open') /\ fresh' = fresh
      <4>1. open \in BOOLEAN
        BY <1>2 DEF TypeOK
      <4>2. open' = open \/ open' = TRUE
        BY <1>6
      <4>3. CASE open' = open
        BY <1>6, <4>1, <4>3
      <4>4. CASE open' = TRUE
        BY <1>6, <4>4
      <4> QED
        BY <4>2, <4>3, <4>4
    <3>2. TypeOK'
      BY <1>1, <1>2, <2>1, <3>1 DEF TypeOK
    <3>3. ProcessInv'
      BY <1>1, <1>2, <2>1, <3>1 DEF ProcessInv
    <3> QED
      BY <3>2, <3>3
  <2>3. Odd \subseteq Odd'
    BY <1>1, <2>1 DEF Odd
  <2>4. MoveInv'
    BY <1>1, <1>2, <2>3, EventsKept
  <2>5. NameInv'
    BY <2>1 DEF NameInv
  <2> QED
    BY <1>3, <1>4, <2>1, <2>2, <2>4, <2>5 DEF IndexInv
<1> QED
  BY <1>5, <1>6 DEF BeginRefresh

\* One file is compared.
LEMMA CheckReadStep ==
  ASSUME IndexAssumption, IndexInv, NEW p \in Paths, CheckRead(p)
  PROVE  IndexInv'
<1>1. /\ scan = "check" /\ p \in todo
      /\ UNCHANGED <<file, dirs, changes, rows, names, open, ready, up, started, pending, batch, buffer>>
      /\ UNCHANGED <<fresh, blind, misled, failed, scans, starts>>
  BY DEF CheckRead, diskVars, dbVars, watchVars, histVars, boundVars
<1>2. TypeOK /\ ProcessInv /\ OrderInv /\ MoveInv /\ RowInv /\ ListInv /\ CheckInv
  BY DEF IndexInv
<1>3. OrderInv'
  BY <1>1, <1>2 DEF OrderInv
<1>4. RowInv'
  BY <1>1, <1>2, EventsKept DEF RowInv, Exempt
<1>5. CASE rows[p] = file[p] /\ todo' = todo \ {p} /\ UNCHANGED <<scan, listed, built>>
  <2>1. TypeOK' /\ ProcessInv'
    BY <1>1, <1>2, <1>5 DEF TypeOK, ProcessInv
  <2>2. Odd' = Odd
    BY <1>1, <1>5 DEF Odd, Looked
  <2>3. MoveInv'
    BY <1>1, <1>2, <2>2, EventsKept
  <2>4. ListInv' /\ CheckInv'
    BY <1>1, <1>2, <1>5, EventsKept DEF ListInv, CheckInv
  <2>5. BuildInv' /\ NameInv'
    BY <1>1, <1>5 DEF BuildInv, NameInv
  <2> QED
    BY <1>3, <1>4, <2>1, <2>3, <2>4, <2>5 DEF IndexInv
<1>6. CASE Goto("list")
  <2>1. /\ scan' = "list" /\ listed' \subseteq Paths /\ todo' \subseteq Notes
        /\ built' \in [Paths -> Contents \cup {Absent}] /\ \A q \in Paths \ Notes : built'[q] = Absent
        /\ ListInv' /\ CheckInv' /\ BuildInv' /\ Looked' = {}
    BY <1>6, GotoIs
  <2>2. TypeOK' /\ ProcessInv'
    BY <1>1, <1>2, <2>1 DEF TypeOK, ProcessInv
  <2>3. Odd \subseteq Odd'
    BY <1>1, <2>1 DEF Odd
  <2>4. MoveInv'
    BY <1>1, <1>2, <2>3, EventsKept
  <2>5. NameInv'
    BY <2>1 DEF NameInv
  <2> QED
    BY <1>3, <1>4, <2>1, <2>2, <2>4, <2>5 DEF IndexInv
<1> QED
  BY <1>5, <1>6 DEF CheckRead

\* The end of a comparison: what it has looked at agrees.
LEMMA CheckEndStep ==
  ASSUME IndexAssumption, IndexInv, CheckEnd
  PROVE  IndexInv'
<1>1. /\ scan = "check" /\ todo = {} /\ names' = listed /\ ready' = TRUE /\ Goto("idle")
      /\ fresh' = {} /\ blind' = blind \ fresh /\ misled' = misled \ fresh /\ failed' = failed \ fresh
      /\ UNCHANGED <<file, dirs, changes, rows, open, up, started, pending, batch, buffer, scans, starts>>
  BY DEF CheckEnd, PutRight, diskVars, watchVars, boundVars
<1>2. TypeOK /\ ProcessInv /\ OrderInv /\ MoveInv /\ ListInv /\ CheckInv
  BY DEF IndexInv
<1>3. /\ scan' = "idle" /\ listed' \subseteq Paths /\ todo' \subseteq Notes
      /\ built' \in [Paths -> Contents \cup {Absent}] /\ \A p \in Paths \ Notes : built'[p] = Absent
      /\ ListInv' /\ CheckInv' /\ BuildInv' /\ Looked' = {}
  BY <1>1, GotoIs
<1>4. TypeOK'
  BY <1>1, <1>2, <1>3 DEF TypeOK
<1>5. ProcessInv' /\ OrderInv'
  BY <1>1, <1>2, <1>3 DEF ProcessInv, OrderInv
<1>6. Odd' = Odd
  BY <1>1, <1>3 DEF Odd, Looked
<1>7. MoveInv'
  BY <1>1, <1>2, <1>6, EventsKept
<1>8. Exempt' = Exempt \ fresh /\ blind \ fresh \subseteq Exempt' /\ Notes \subseteq Paths
  BY <1>1 DEF Exempt, IndexAssumption
<1>9. \A p \in Paths \ Exempt' : Awaited(p) \/ Agrees(p)'
  <2>1. \A p \in Paths \ Exempt' : Awaited(p) \/ (p \in listed <=> file[p] # Absent)
    BY <1>1, <1>2, <1>8 DEF ListInv
  <2>2. \A p \in Notes \ Exempt' : Awaited(p) \/ rows[p] = file[p]
    BY <1>1, <1>2, <1>8 DEF CheckInv
  <2> QED
    BY <1>1, <1>8, <2>1, <2>2 DEF Agrees
<1>10. \A p : Awaited(p)' <=> Awaited(p)
  BY <1>1, EventsKept
<1>11. RowInv'
  BY <1>8, <1>9, <1>10 DEF RowInv, Agrees
<1>12. NameInv'
  <2>1. \A p \in Notes : rows[p] # Absent => p \in listed
    BY <1>1, <1>2, <1>8 DEF CheckInv
  <2> QED
    BY <1>1, <1>9, <1>10, <2>1 DEF NameInv
<1> QED
  BY <1>3, <1>4, <1>5, <1>7, <1>11, <1>12 DEF IndexInv
\* A rebuild on request gets the lock.
LEMMA BeginRebuildStep ==
  ASSUME IndexAssumption, IndexInv, BeginRebuild
  PROVE  IndexInv'
<1>1. /\ up /\ scan = "idle" /\ scans + starts < MaxScans /\ scans' = scans + 1 /\ Goto("list")
      /\ UNCHANGED <<file, dirs, changes, rows, names, open, ready, up, started, pending, batch, buffer>>
      /\ UNCHANGED <<fresh, blind, misled, failed, starts>>
  BY DEF BeginRebuild, diskVars, dbVars, watchVars, histVars
<1>2. TypeOK /\ ProcessInv /\ OrderInv /\ MoveInv /\ RowInv /\ MaxScans \in Nat
  BY DEF IndexInv, IndexAssumption
<1>3. /\ scan' = "list" /\ listed' \subseteq Paths /\ todo' \subseteq Notes
      /\ built' \in [Paths -> Contents \cup {Absent}] /\ \A p \in Paths \ Notes : built'[p] = Absent
      /\ ListInv' /\ CheckInv' /\ BuildInv' /\ Looked' = {}
  BY <1>1, GotoIs
<1>4. scans' \in 0 .. MaxScans
  BY <1>1, <1>2 DEF TypeOK
<1>5. TypeOK'
  BY <1>1, <1>2, <1>3, <1>4 DEF TypeOK
<1>6. ProcessInv' /\ OrderInv'
  BY <1>1, <1>2, <1>3 DEF ProcessInv, OrderInv
<1>7. Odd \subseteq Odd'
  BY <1>1, <1>3 DEF Odd
<1>8. MoveInv' /\ RowInv' /\ NameInv'
  BY <1>1, <1>2, <1>3, <1>7, EventsKept DEF RowInv, NameInv, Exempt
<1> QED
  BY <1>3, <1>5, <1>6, <1>8 DEF IndexInv

\* The listing of a rebuild.
LEMMA ListStep ==
  ASSUME IndexAssumption, IndexInv, List
  PROVE  IndexInv'
<1>1. /\ scan = "list" /\ open' = TRUE /\ Listing("build") /\ names' = Existing
      /\ UNCHANGED <<file, dirs, changes, rows, ready, up, started, pending, batch, buffer>>
      /\ UNCHANGED <<blind, misled, failed, scans, starts>>
  BY DEF List, diskVars, watchVars, boundVars
<1>2. TypeOK /\ ProcessInv /\ OrderInv /\ MoveInv /\ RowInv
  BY DEF IndexInv
<1>3. /\ scan' = "build" /\ listed' = Existing /\ listed' \subseteq Paths /\ todo' = Existing \cap Notes
      /\ built' = NoRows /\ built' \in [Paths -> Contents \cup {Absent}]
      /\ \A p \in Paths : built'[p] = Absent
      /\ fresh' \subseteq Paths
      /\ MoveInv' /\ ListInv'
  BY <1>1, ListingIs
<1>4. TypeOK'
  <2>1. todo' \subseteq Notes /\ names' \subseteq Paths
    BY <1>1, <1>3
  <2> QED
    BY <1>1, <1>2, <1>3, <2>1 DEF TypeOK
<1>5. ProcessInv' /\ OrderInv'
  BY <1>1, <1>2, <1>3 DEF ProcessInv, OrderInv
<1>6. BuildInv'
  <2>1. \A p \in Notes \ todo' : p \in Paths /\ file[p] = Absent
    BY <1>3 DEF Existing, IndexAssumption
  <2> QED
    BY <1>1, <1>3, <2>1 DEF BuildInv
<1>7. RowInv' /\ NameInv' /\ CheckInv'
  BY <1>1, <1>2, <1>3, EventsKept DEF RowInv, NameInv, CheckInv, Exempt
<1> QED
  BY <1>3, <1>4, <1>5, <1>6, <1>7 DEF IndexInv

\* No listing: the index says that it is not ready.
LEMMA ListFailsStep ==
  ASSUME IndexAssumption, IndexInv, ListFails
  PROVE  IndexInv'
<1>1. /\ scan = "list" /\ open' \in {open, TRUE} /\ ready' = FALSE /\ Goto("idle")
      /\ UNCHANGED <<file, dirs, changes, rows, names, up, started, pending, batch, buffer>>
      /\ UNCHANGED <<fresh, blind, misled, failed, scans, starts>>
  BY DEF ListFails, diskVars, watchVars, histVars, boundVars
<1>2. TypeOK /\ ProcessInv /\ OrderInv /\ MoveInv
  BY DEF IndexInv
<1>3. /\ scan' = "idle" /\ listed' \subseteq Paths /\ todo' \subseteq Notes
      /\ built' \in [Paths -> Contents \cup {Absent}] /\ \A p \in Paths \ Notes : built'[p] = Absent
      /\ ListInv' /\ CheckInv' /\ BuildInv' /\ Looked' = {}
  BY <1>1, GotoIs
<1>4. open' \in BOOLEAN
  <2>1. open \in BOOLEAN
    BY <1>2 DEF TypeOK
  <2>2. CASE open' = open
    BY <2>1, <2>2
  <2>3. CASE open' = TRUE
    BY <2>3
  <2> QED
    BY <1>1, <2>2, <2>3
<1>5. TypeOK'
  BY <1>1, <1>2, <1>3, <1>4 DEF TypeOK
<1>6. ProcessInv' /\ OrderInv'
  BY <1>1, <1>2, <1>3 DEF ProcessInv, OrderInv
<1>7. Odd \subseteq Odd'
  BY <1>1, <1>3 DEF Odd
<1>8. MoveInv' /\ RowInv' /\ NameInv'
  BY <1>1, <1>2, <1>7, EventsKept DEF RowInv, NameInv
<1> QED
  BY <1>3, <1>5, <1>6, <1>8 DEF IndexInv

\* One file is read into the new rows, or skipped.
LEMMA BuildReadStep ==
  ASSUME IndexAssumption, IndexInv, NEW p \in Paths, BuildRead(p)
  PROVE  IndexInv'
<1>1. /\ scan = "build" /\ p \in todo /\ todo' = todo \ {p} /\ scan' = scan /\ listed' = listed
      /\ UNCHANGED <<file, dirs, changes, rows, names, open, ready, up, started, pending, batch, buffer>>
      /\ UNCHANGED <<blind, misled, scans, starts>>
      /\ \/ built' = [built EXCEPT ![p] = file[p]] /\ fresh' = fresh /\ failed' = failed
         \/ built' = built /\ fresh' = fresh \ {p} /\ failed' = failed \cup {p}
  BY DEF BuildRead, diskVars, dbVars, watchVars, boundVars
<1>2. TypeOK /\ ProcessInv /\ OrderInv /\ MoveInv /\ RowInv /\ ListInv /\ BuildInv /\ p \in Notes
  BY <1>1 DEF IndexInv, TypeOK
<1>3. /\ built' \in [Paths -> Contents \cup {Absent}] /\ \A q \in Paths : q # p => built'[q] = built[q]
      /\ built'[p] = file[p] \/ p \in failed' \ fresh'
      /\ built'[p] # Absent => built'[p] = built[p] \/ p \in todo
  BY <1>1, <1>2 DEF TypeOK
<1>4. fresh' \subseteq fresh /\ failed \subseteq failed' /\ failed' \subseteq failed \cup {p}
  BY <1>1
<1>5. TypeOK'
  <2>1. fresh' \subseteq Paths /\ failed' \subseteq Paths /\ todo' \subseteq Notes
    BY <1>1, <1>2 DEF TypeOK
  <2>2. \A q \in Paths \ Notes : built'[q] = Absent
    BY <1>2, <1>3 DEF TypeOK
  <2> QED
    BY <1>1, <1>2, <1>3, <2>1, <2>2 DEF TypeOK
<1>6. ProcessInv' /\ OrderInv'
  BY <1>1, <1>2 DEF ProcessInv, OrderInv
<1>7. Odd \subseteq Odd' /\ Exempt \subseteq Exempt'
  BY <1>1, <1>4 DEF Odd, Looked, Exempt
<1>8. \A q : Awaited(q)' <=> Awaited(q)
  BY <1>1, EventsKept
<1>9. MoveInv'
  BY <1>1, <1>2, <1>7, EventsKept
<1>10. ListInv' /\ RowInv'
  BY <1>1, <1>2, <1>4, <1>7, <1>8 DEF ListInv, RowInv
<1>11. BuildInv'
  <2>1. \A q \in Paths : built'[q] # Absent => q \in listed
    BY <1>1, <1>2, <1>3 DEF BuildInv
  <2>2. ASSUME NEW q \in Notes \ todo'
        PROVE  q \in (blind \cup failed') \ fresh' \/ Awaited(q) \/ built'[q] = file[q]
    <3>1. CASE q = p
      BY <1>3, <3>1
    <3>2. CASE q # p
      <4>1. q \in Paths /\ built'[q] = built[q] /\ q \notin todo
        BY <1>1, <1>3, <2>2, <3>2 DEF IndexAssumption
      <4> QED
        BY <1>1, <1>2, <1>4, <4>1 DEF BuildInv
    <3> QED
      BY <3>1, <3>2
  <2>3. names = listed /\ todo' \subseteq listed
    BY <1>1, <1>2 DEF BuildInv
  <2> QED
    BY <1>1, <1>8, <2>1, <2>2, <2>3 DEF BuildInv
<1>12. CheckInv' /\ NameInv'
  BY <1>1 DEF CheckInv, NameInv
<1> QED
  BY <1>5, <1>6, <1>9, <1>10, <1>11, <1>12 DEF IndexInv

\* The new rows are committed: what the rebuild has looked at agrees.
LEMMA BuildCommitStep ==
  ASSUME IndexAssumption, IndexInv, BuildCommit
  PROVE  IndexInv'
<1>1. /\ scan = "build" /\ todo = {} /\ rows' = built /\ ready' = TRUE /\ Goto("idle")
      /\ fresh' = {} /\ blind' = blind \ fresh /\ misled' = misled \ fresh /\ failed' = failed \ fresh
      /\ UNCHANGED <<file, dirs, changes, names, open, up, started, pending, batch, buffer, scans, starts>>
  BY DEF BuildCommit, PutRight, diskVars, watchVars, boundVars
<1>2. TypeOK /\ ProcessInv /\ OrderInv /\ MoveInv /\ ListInv /\ BuildInv
  BY DEF IndexInv
<1>3. /\ scan' = "idle" /\ listed' \subseteq Paths /\ todo' \subseteq Notes
      /\ built' \in [Paths -> Contents \cup {Absent}] /\ \A p \in Paths \ Notes : built'[p] = Absent
      /\ ListInv' /\ CheckInv' /\ BuildInv' /\ Looked' = {}
  BY <1>1, GotoIs
<1>4. TypeOK'
  BY <1>1, <1>2, <1>3 DEF TypeOK
<1>5. ProcessInv' /\ OrderInv'
  BY <1>1, <1>2, <1>3 DEF ProcessInv, OrderInv
<1>6. Odd' = Odd
  BY <1>1, <1>3 DEF Odd, Looked
<1>7. MoveInv'
  BY <1>1, <1>2, <1>6, EventsKept
<1>8. /\ Exempt' = Exempt \ fresh /\ Notes \subseteq Paths
      /\ blind \ fresh \subseteq Exempt' /\ (blind \cup failed) \ fresh \subseteq Exempt'
  BY <1>1 DEF Exempt, IndexAssumption
<1>9. \A p \in Paths \ Exempt' : Awaited(p) \/ Agrees(p)'
  <2>1. \A p \in Paths \ Exempt' : Awaited(p) \/ (p \in listed <=> file[p] # Absent)
    BY <1>1, <1>2, <1>8 DEF ListInv
  <2>2. /\ names = listed
        /\ \A p \in Notes \ Exempt' : Awaited(p) \/ built[p] = file[p]
    BY <1>1, <1>2, <1>8 DEF BuildInv
  <2> QED
    BY <1>1, <1>8, <2>1, <2>2 DEF Agrees
<1>10. \A p : Awaited(p)' <=> Awaited(p)
  BY <1>1, EventsKept
<1>11. RowInv'
  BY <1>8, <1>9, <1>10 DEF RowInv, Agrees
<1>12. NameInv'
  <2>1. \A p \in Notes : built[p] # Absent => p \in names
    BY <1>1, <1>2, <1>8 DEF BuildInv
  <2> QED
    BY <1>1, <1>9, <1>10, <2>1 DEF NameInv
<1> QED
  BY <1>3, <1>4, <1>5, <1>7, <1>11, <1>12 DEF IndexInv

\* The transaction fails: the old rows stay with the new names, and a note for
\* which they do not go together has failed.
LEMMA BuildFailsStep ==
  ASSUME IndexAssumption, IndexInv, BuildFails
  PROVE  IndexInv'
<1>1. /\ scan = "build" /\ Goto("idle") /\ fresh' = {}
      /\ failed' = failed \cup {p \in Notes : (rows[p] = Absent) # (p \notin names)}
      /\ UNCHANGED <<file, dirs, changes, rows, names, open, ready, up, started, pending, batch, buffer>>
      /\ UNCHANGED <<blind, misled, scans, starts>>
  BY DEF BuildFails, diskVars, dbVars, watchVars, boundVars
<1>2. TypeOK /\ ProcessInv /\ OrderInv /\ MoveInv /\ ListInv /\ BuildInv /\ RowInv /\ Notes \subseteq Paths
  BY DEF IndexInv, IndexAssumption
<1>3. /\ scan' = "idle" /\ listed' \subseteq Paths /\ todo' \subseteq Notes
      /\ built' \in [Paths -> Contents \cup {Absent}] /\ \A p \in Paths \ Notes : built'[p] = Absent
      /\ ListInv' /\ CheckInv' /\ BuildInv' /\ Looked' = {}
  BY <1>1, GotoIs
<1>4. /\ failed' \subseteq Paths
      /\ \A p \in Notes \ failed' : rows[p] = Absent <=> p \notin names
  <2>1. failed \subseteq Paths
    BY <1>2 DEF TypeOK
  <2> QED
    BY <1>1, <1>2, <2>1
<1>5. TypeOK'
  BY <1>1, <1>2, <1>3, <1>4 DEF TypeOK
<1>6. ProcessInv' /\ OrderInv'
  BY <1>1, <1>2, <1>3 DEF ProcessInv, OrderInv
<1>7. Odd \subseteq Odd' /\ Exempt \subseteq Exempt' /\ blind \subseteq Exempt' /\ failed' \subseteq Exempt'
  BY <1>1, <1>3 DEF Odd, Exempt
<1>8. MoveInv'
  BY <1>1, <1>2, <1>7, EventsKept
<1>9. \A p : Awaited(p)' <=> Awaited(p)
  BY <1>1, EventsKept
<1>10. RowInv'
  BY <1>1, <1>2, <1>7, <1>9 DEF RowInv
<1>11. NameInv'
  <2> SUFFICES ASSUME ready
               PROVE  /\ \A p \in Notes \ failed' : rows[p] # Absent => p \in names
                      /\ \A p \in Paths \ Exempt' : Awaited(p) \/ Agrees(p)
    BY <1>1, <1>9 DEF NameInv, Agrees
  <2>1. \A p \in Notes \ Exempt' : Awaited(p) \/ Agrees(p)
    BY <1>2, <1>4, <1>7 DEF RowInv, Agrees
  <2>2. \A p \in Paths \ Notes : p \notin Exempt' => Awaited(p) \/ Agrees(p)
    BY <1>1, <1>2, <1>7 DEF ListInv, BuildInv, Agrees
  <2> QED
    BY <1>2, <1>4, <2>1, <2>2
<1> QED
  BY <1>3, <1>5, <1>6, <1>8, <1>10, <1>11 DEF IndexInv

(***************************************************************************)
(* The process                                                             *)
(***************************************************************************)

\* A process starts, or ends.
LEMMA ProcessStep ==
  ASSUME IndexAssumption, IndexInv, Start \/ Stop
  PROVE  IndexInv'
<1>1. TypeOK /\ ProcessInv /\ OrderInv /\ ListInv /\ CheckInv /\ BuildInv /\ MaxScans \in Nat
  BY DEF IndexInv, IndexAssumption
<1>2. CASE Start
  <2>1. /\ ~up /\ starts' = starts + 1 /\ up' = TRUE /\ open' \in BOOLEAN
        /\ UNCHANGED <<file, dirs, changes, rows, names, ready, started, pending, batch, buffer>>
        /\ UNCHANGED <<scan, listed, todo, built, fresh, blind, misled, failed, scans>>
    BY <1>2 DEF Start, diskVars, watchVars, scanVars, histVars
  <2>2. pending = {} /\ batch = {} /\ scan = "idle" /\ ~ready /\ scans + starts < MaxScans
    BY <1>1, <2>1 DEF ProcessInv, TypeOK
  <2>3. starts' \in 0 .. MaxScans
    BY <1>1, <2>1, <2>2 DEF TypeOK
  <2>4. TypeOK'
    BY <1>1, <2>1, <2>3 DEF TypeOK
  <2>5. ProcessInv' /\ OrderInv'
    BY <2>1, <2>2 DEF ProcessInv, OrderInv
  <2>6. MoveInv' /\ ListInv' /\ CheckInv' /\ BuildInv' /\ RowInv' /\ NameInv'
    BY <2>1, <2>2 DEF MoveInv, ListInv, CheckInv, BuildInv, RowInv, NameInv
  <2> QED
    BY <2>4, <2>5, <2>6 DEF IndexInv
<1>3. CASE Stop
  <2>1. /\ scans + starts < MaxScans
        /\ up' = FALSE /\ open' = FALSE /\ ready' = FALSE /\ started' = FALSE /\ names' = {}
        /\ pending' = {} /\ batch' = {} /\ buffer' = {} /\ Goto("idle")
        /\ fresh' = {} /\ blind' = {} /\ misled' = {} /\ failed' = {}
        /\ UNCHANGED <<file, dirs, changes, rows, scans, starts>>
    BY <1>3 DEF Stop, diskVars, boundVars
  <2>2. /\ scan' = "idle" /\ listed' \subseteq Paths /\ todo' \subseteq Notes
        /\ built' \in [Paths -> Contents \cup {Absent}] /\ \A p \in Paths \ Notes : built'[p] = Absent
        /\ ListInv' /\ CheckInv' /\ BuildInv' /\ Looked' = {}
    BY <2>1, GotoIs
  <2>3. TypeOK'
    BY <1>1, <2>1, <2>2 DEF TypeOK
  <2>4. ProcessInv' /\ OrderInv' /\ MoveInv' /\ RowInv' /\ NameInv'
    BY <2>1, <2>2 DEF ProcessInv, OrderInv, MoveInv, RowInv, NameInv
  <2> QED
    BY <2>2, <2>3, <2>4 DEF IndexInv
<1> QED
  BY <1>2, <1>3

\* A process that has just started knows of no event and serves nothing.
LEMMA IndexStart ==
  ASSUME IndexAssumption, Init
  PROVE  IndexInv
<1>1. TypeOK
  <2>1. /\ 0 \in Contents /\ NoRows \in [Paths -> Contents \cup {Absent}]
        /\ \A p \in Paths : NoRows[p] = Absent
    BY DEF NoRows, Contents, IndexAssumption
  <2>2. /\ file \in [Paths -> Contents \cup {Absent}] /\ rows \in [Paths -> Contents \cup {Absent}]
        /\ dirs \subseteq Paths /\ \A p \in dirs : file[p] = Absent
        /\ \A p \in Paths \ Notes : rows[p] = Absent
    BY <2>1 DEF Init, Existing
  <2>3. changes \in 0 .. MaxChanges /\ scans \in 0 .. MaxScans /\ starts \in 0 .. MaxScans
    BY DEF Init, IndexAssumption
  <2>4. /\ names \subseteq Paths /\ pending \subseteq Pending /\ batch \subseteq Pending
        /\ buffer \subseteq Paths /\ listed \subseteq Paths /\ todo \subseteq Notes
        /\ fresh \subseteq Paths /\ blind \subseteq Paths /\ misled \subseteq Paths
        /\ failed \subseteq Paths
    BY DEF Init
  <2>5. /\ up \in BOOLEAN /\ open \in BOOLEAN /\ ready \in BOOLEAN /\ started \in BOOLEAN
        /\ scan \in {"idle", "check", "list", "build"}
    BY DEF Init
  <2>6. built \in [Paths -> Contents \cup {Absent}] /\ \A p \in Paths \ Notes : built[p] = Absent
    BY <2>1 DEF Init
  <2> QED
    BY <2>2, <2>3, <2>4, <2>5, <2>6 DEF TypeOK
<1>2. ProcessInv /\ OrderInv /\ MoveInv
  BY DEF Init, ProcessInv, OrderInv, MoveInv
<1>3. ListInv /\ CheckInv /\ BuildInv /\ RowInv /\ NameInv
  BY DEF Init, ListInv, CheckInv, BuildInv, RowInv, NameInv
<1> QED
  BY <1>1, <1>2, <1>3 DEF IndexInv

\* A step that changes nothing.
LEMMA IndexStutter ==
  ASSUME IndexInv, UNCHANGED vars
  PROVE  IndexInv'
<1>1. /\ UNCHANGED <<file, dirs, changes, rows, names, open, ready, up, started, pending, batch, buffer>>
      /\ UNCHANGED <<scan, listed, todo, built, fresh, blind, misled, failed, scans, starts>>
  BY DEF vars
<1>2. TypeOK' /\ ProcessInv' /\ OrderInv'
  BY <1>1 DEF IndexInv, TypeOK, ProcessInv, OrderInv
<1>3. Odd' = Odd /\ Exempt' = Exempt
  BY <1>1 DEF Odd, Looked, Exempt
<1>4. MoveInv'
  BY <1>1, <1>3, EventsKept DEF IndexInv
<1>5. \A p : Awaited(p)' <=> Awaited(p)
  BY <1>1, EventsKept
<1>6. ListInv' /\ CheckInv' /\ BuildInv' /\ RowInv' /\ NameInv'
  BY <1>1, <1>3, <1>5 DEF IndexInv, ListInv, CheckInv, BuildInv, RowInv, NameInv, Agrees
<1> QED
  BY <1>2, <1>4, <1>6 DEF IndexInv

\* The watcher, the buffer, the scans and the process keep the invariant,
\* whatever changes of the Vault they meet.
THEOREM IndexInvariance == Spec => []IndexInv
<1>1. Init => IndexInv
  BY IndexStart, IndexAssumption
<1>2. IndexInv /\ [Next]_vars => IndexInv'
  <2> SUFFICES ASSUME IndexInv, [Next]_vars
               PROVE  IndexInv'
    OBVIOUS
  <2>1. ASSUME NEW p \in Paths, NEW q \in Paths, Write(p) \/ Remove(p) \/ Rename(p, q) \/ Link(p, q) \/ Folder(p)
        PROVE  IndexInv'
    <3>1. PICK ev \in Events : Seen(ev)
      BY <2>1, SeenIs, IndexAssumption DEF IndexInv
    <3> QED
      BY <3>1, SeenStep, IndexAssumption
  <2>2. ASSUME NEW p \in Paths, Replace(p) \/ Hide(p) \/ Unhide(p)
        PROVE  IndexInv'
    <3>1. p \notin dirs /\ \E c \in Contents \cup {Absent} : Unseen(p, c)
      <4>1. Room => Now \in Contents
        <5>1. changes \in 0 .. MaxChanges /\ scans \in 0 .. MaxScans /\ starts \in 0 .. MaxScans
          BY DEF IndexInv, TypeOK
        <5>2. MaxChanges \in Nat /\ MaxScans \in Nat
          BY IndexAssumption DEF IndexAssumption
        <5> QED
          BY <5>1, <5>2 DEF Room, Now, Contents
      <4>2. \A c \in 0 .. changes : c \in Contents
        BY IndexAssumption DEF IndexInv, TypeOK, Contents, IndexAssumption
      <4>3. CASE Replace(p)
        BY <4>1, <4>3 DEF Replace, Unseen, FileChange, Change, IndexInv, TypeOK
      <4>4. CASE Hide(p)
        BY <4>4 DEF Hide, IndexInv, TypeOK
      <4>5. CASE Unhide(p)
        BY <4>2, <4>5 DEF Unhide
      <4> QED
        BY <2>2, <4>3, <4>4, <4>5
    <3> QED
      BY <3>1, UnseenStep, IndexAssumption
  <2>3. CASE Disk
    BY <2>1, <2>2, <2>3, FolderMoves, IndexAssumption DEF Disk
  <2>4. CASE Dispatch \/ Deliver \/ \E p \in Paths : Flush(p)
    BY <2>4, DispatchStep, DeliverStep, FlushStep, IndexAssumption
  <2>5. CASE Scan
    BY <2>5, BeginRefreshStep, CheckEndStep, ListStep, ListFailsStep, BuildCommitStep, BuildFailsStep,
       CheckReadStep, BuildReadStep, IndexAssumption DEF Scan
  <2>6. CASE BeginRebuild \/ Start \/ Stop
    BY <2>6, BeginRebuildStep, ProcessStep, IndexAssumption
  <2>7. CASE UNCHANGED vars
    BY <2>7, IndexStutter
  <2> QED
    BY <2>3, <2>4, <2>5, <2>6, <2>7 DEF Next
<1> QED
  BY <1>1, <1>2, PTL DEF Spec

\* The state of the watcher and of the index has its types.
THEOREM IndexTypes == Spec => []TypeOK
<1>1. IndexInv => TypeOK
  BY DEF IndexInv
<1> QED
  BY <1>1, IndexInvariance, PTL

\* A path with no event under way has the row and the name of its file
\* (watcher.py _dispatch_loop, service.py handle_event, refresh and rebuild).
THEOREM SettledPathsAreFaithful == Spec => []SettledIsFaithful
<1>1. IndexInv => SettledIsFaithful
  <2> SUFFICES ASSUME IndexInv, Serving, NEW p \in Paths \ (Outstanding \cup blind \cup misled \cup failed)
               PROVE  Agrees(p)
    BY DEF SettledIsFaithful
  <2>1. ~Awaited(p)
    BY DEF Awaited, Settles, Outstanding, Ends
  <2> QED
    BY <2>1 DEF IndexInv, NameInv, Serving, Exempt
<1> QED
  BY <1>1, IndexInvariance, PTL
-----------------------------------------------------------------------------
(***************************************************************************)
(* What the index holds: links, backlinks, full text and names             *)
(***************************************************************************)

\* The tables have their shapes, and a note has a rowid.
Shaped(x) ==
  /\ x = [names |-> x.names, note |-> x.note, row |-> x.row, fts |-> x.fts,
          links |-> x.links, backs |-> x.backs]
  /\ x.names \subseteq Files /\ x.links = [p \in Files |-> x.links[p]]
  /\ x.note \in [Files -> Texts \cup {Missing}] /\ x.row \in [Files -> Nat]
  /\ \A p \in Files : x.note[p] = Missing <=> x.row[p] = 0
  /\ \A p \in Files \ Markdown : x.note[p] = Missing
  /\ \A p \in Files : x.note[p] = Missing => x.links[p] = <<>>

\* A rowid is of one note, whose text is in the full-text table and nothing else.
TextsMatch(x) ==
  /\ \A p, q \in Files : x.row[p] = x.row[q] /\ x.row[p] # 0 => p = q
  /\ x.fts = {<<x.row[p], x.note[p]>> : p \in {q \in Files : x.note[q] # Missing}}

\* The backlinks are those of the link rows.
BacksMatch(x) == x.backs = UNION {Contribution(x.links[p], p) : p \in Files}

Tables(x) == Shaped(x) /\ TextsMatch(x) /\ BacksMatch(x)

LinksInv ==
  /\ disk \in [Files -> Texts \cup {Missing}]
  /\ \A e \in events : {e.path, e.to} \subseteq Files
  /\ pend \subseteq Files
  /\ Tables(ix)

(***************************************************************************)
(* The tables                                                              *)
(***************************************************************************)

\* A nonempty finite set of numbers has a greatest one.
LEMMA GreatestIs ==
  ASSUME NEW S, S \subseteq Nat, IsFiniteSet(S), S # {}
  PROVE  Max(S) \in S /\ \A k \in S : k <= Max(S)
<1> DEFINE Greatest(T) == \E m \in T : \A k \in T : k <= m
           Without == {Cardinality(T) : T \in {U \in SUBSET S : U # {} /\ ~Greatest(U)}}
<1>1. \A T \in SUBSET S : IsFiniteSet(T) /\ Cardinality(T) \in Nat
  BY FS_Subset, FS_CardinalityType
<1>2. ASSUME Without # {}
      PROVE  FALSE
  <2>1. Without \subseteq Nat
    BY <1>1
  <2>2. PICK n \in Without : \A k \in Without : n <= k
    BY <1>2, <2>1, LeastIs
  <2>3. PICK T \in SUBSET S : T # {} /\ ~Greatest(T) /\ Cardinality(T) = n
    BY <2>2
  <2>4. PICK a \in T : TRUE
    BY <2>3
  <2>5. Cardinality(T \ {a}) = Cardinality(T) - 1 /\ T \ {a} \in SUBSET S
    BY <1>1, <2>3, <2>4, FS_RemoveElement
  <2>6. CASE T \ {a} = {}
    BY <2>3, <2>4, <2>6
  <2>7. CASE T \ {a} # {}
    <3>1. Cardinality(T \ {a}) \notin Without
      BY <1>1, <2>2, <2>3, <2>5, SMTT(40)
    <3>2. PICK m \in T \ {a} : \A k \in T \ {a} : k <= m
      BY <2>5, <2>7, <3>1
    <3>3. a \in Nat /\ m \in Nat /\ \A k \in T : k \in Nat
      BY <2>3, <2>4, <3>2
    <3>4. CASE a <= m
      BY <2>3, <3>2, <3>4
    <3>5. CASE m <= a
      BY <2>3, <2>4, <3>2, <3>3, <3>5
    <3> QED
      BY <3>3, <3>4, <3>5
  <2> QED
    BY <2>6, <2>7
<1>3. PICK m \in S : \A k \in S : k <= m
  BY <1>2
<1>4. \A k \in S : m >= k
  BY <1>3
<1>5. Max(S) \in S /\ \A k \in S : Max(S) >= k
  BY <1>4 DEF Max
<1> QED
  BY <1>5

\* What a note contributes to the backlinks: those of its references that lead
\* to another note.
LEMMA ContributionIs ==
  ASSUME NEW l, NEW p
  PROVE  /\ \A b : b \in Contribution(l, p) <=>
                     \E i \in DOMAIN l : l[i].to \notin {Nowhere, p} /\ b = <<l[i].to, p>>
         /\ \A b \in Contribution(l, p) : b[2] = p
         /\ Contribution(<<>>, p) = {}
<1>1. \A b : b \in Contribution(l, p) <=>
               \E i \in DOMAIN l : l[i].to \notin {Nowhere, p} /\ b = <<l[i].to, p>>
  BY DEF Contribution, Range
<1>2. \A b \in Contribution(l, p) : b[2] = p
  BY <1>1
<1>3. Contribution(<<>>, p) = {}
  BY DEF Contribution, Range
<1> QED
  BY <1>1, <1>2, <1>3

\* The rows of a note go with its texts and its backlinks.
LEMMA DeleteIs ==
  ASSUME LinkAssumption, NEW x, Tables(x), NEW p \in Files, NEW y, y = DeleteNoteRows(x, p)
  PROVE  /\ Tables(y)
         /\ y.names = x.names /\ y.note[p] = Missing
         /\ \A q \in Files : q # p => y.note[q] = x.note[q]
<1>1. /\ y = [names |-> x.names, note |-> [x.note EXCEPT ![p] = Missing], row |-> [x.row EXCEPT ![p] = 0],
              fts |-> {f \in x.fts : f[1] # x.row[p]}, links |-> [x.links EXCEPT ![p] = <<>>],
              backs |-> {b \in x.backs : b[2] # p}]
  <2>1. x = [names |-> x.names, note |-> x.note, row |-> x.row, fts |-> x.fts,
             links |-> x.links, backs |-> x.backs]
    BY DEF Tables, Shaped
  <2> QED
    BY <2>1 DEF DeleteNoteRows
<1>2. /\ y.names = x.names /\ y.note = [x.note EXCEPT ![p] = Missing] /\ y.row = [x.row EXCEPT ![p] = 0]
      /\ y.fts = {f \in x.fts : f[1] # x.row[p]} /\ y.links = [x.links EXCEPT ![p] = <<>>]
      /\ y.backs = {b \in x.backs : b[2] # p}
      /\ y = [names |-> y.names, note |-> y.note, row |-> y.row, fts |-> y.fts,
              links |-> y.links, backs |-> y.backs]
  BY <1>1
<1>3. /\ x.note \in [Files -> Texts \cup {Missing}] /\ x.row \in [Files -> Nat]
      /\ x.links = [q \in Files |-> x.links[q]]
  BY DEF Tables, Shaped
<1>4. /\ y.links[p] = <<>> /\ y.row[p] = 0 /\ y.note[p] = Missing
      /\ \A q \in Files : q # p => y.links[q] = x.links[q] /\ y.row[q] = x.row[q] /\ y.note[q] = x.note[q]
      /\ y.links = [q \in Files |-> y.links[q]]
  BY <1>2, <1>3
<1>5. Shaped(y)
  <2>1. y.note \in [Files -> Texts \cup {Missing}] /\ y.row \in [Files -> Nat] /\ y.names \subseteq Files
    BY <1>2, <1>3 DEF Tables, Shaped
  <2>2. \A q \in Files : y.note[q] = Missing <=> y.row[q] = 0
    BY <1>4 DEF Tables, Shaped
  <2>3. \A q \in Files \ Markdown : y.note[q] = Missing
    BY <1>4 DEF Tables, Shaped
  <2>4. \A q \in Files : y.note[q] = Missing => y.links[q] = <<>>
    BY <1>4 DEF Tables, Shaped
  <2> QED
    BY <1>2, <1>4, <2>1, <2>2, <2>3, <2>4 DEF Shaped
<1>6. TextsMatch(y)
  <2>1. \A q, r \in Files : y.row[q] = y.row[r] /\ y.row[q] # 0 => q = r
    BY <1>4 DEF Tables, TextsMatch
  <2>2. \A f \in x.fts : f[1] # x.row[p] => \E q \in Files \ {p} : x.note[q] # Missing /\ f = <<x.row[q], x.note[q]>>
    BY DEF Tables, TextsMatch
  <2>3. \A q \in Files \ {p} : x.note[q] # Missing => <<x.row[q], x.note[q]>> \in x.fts /\ x.row[q] # x.row[p]
    BY DEF Tables, TextsMatch, Shaped
  <2>4. y.fts = {<<y.row[q], y.note[q]>> : q \in {r \in Files : y.note[r] # Missing}}
    <3>1. ASSUME NEW f \in y.fts
          PROVE  \E q \in Files : y.note[q] # Missing /\ f = <<y.row[q], y.note[q]>>
      <4>1. f \in x.fts /\ f[1] # x.row[p]
        BY <1>2
      <4>2. PICK q \in Files \ {p} : x.note[q] # Missing /\ f = <<x.row[q], x.note[q]>>
        BY <2>2, <4>1
      <4> QED
        BY <1>4, <4>2
    <3>2. ASSUME NEW q \in Files, y.note[q] # Missing
          PROVE  <<y.row[q], y.note[q]>> \in y.fts
      BY <1>2, <1>4, <2>3, <3>2
    <3> QED
      BY <3>1, <3>2
  <2> QED
    BY <2>1, <2>4 DEF TextsMatch
<1>7. BacksMatch(y)
  <2>1. x.backs = UNION {Contribution(x.links[q], q) : q \in Files}
    BY DEF Tables, BacksMatch
  <2>2. \A q \in Files : \A b \in Contribution(x.links[q], q) : b[2] = q
    BY ContributionIs
  <2>3. Contribution(y.links[p], p) = {}
    BY <1>4, ContributionIs
  <2>4. \A b : b \in y.backs <=> \E q \in Files \ {p} : b \in Contribution(x.links[q], q)
    BY <1>2, <2>1, <2>2
  <2>5. \A b : b \in y.backs <=> \E q \in Files : b \in Contribution(y.links[q], q)
    BY <1>4, <2>3, <2>4
  <2> QED
    BY <2>5 DEF BacksMatch
<1> QED
  BY <1>2, <1>4, <1>5, <1>6, <1>7 DEF Tables

\* A new row has a rowid of its own; with it come its text and its backlinks.
LEMMA InsertIs ==
  ASSUME LinkAssumption, NEW x, Tables(x), NEW p \in Markdown, NEW t \in Texts, x.note[p] = Missing,
         NEW y, y = SyncOutgoingBacklinks(InsertNoteRow(x, p, t), p)
  PROVE  /\ Tables(y)
         /\ y.names = x.names /\ y.note[p] = t
         /\ \A q \in Files : q # p => y.note[q] = x.note[q]
<1> DEFINE new == 1 + Max(Range(x.row))
           links == EntryFromText(p, t, x.names)
<1>1. /\ x.note \in [Files -> Texts \cup {Missing}] /\ x.row \in [Files -> Nat]
      /\ x.links = [q \in Files |-> x.links[q]] /\ p \in Files /\ t # Missing
  BY DEF Tables, Shaped, LinkAssumption
<1>2. new \in Nat /\ new # 0 /\ \A q \in Files : x.row[q] < new
  <2>1. Range(x.row) = {x.row[q] : q \in Files}
    BY <1>1 DEF Range
  <2>2. Range(x.row) \subseteq Nat /\ Range(x.row) # {}
    BY <1>1, <2>1, ZenonT(40)
  <2>3. IsFiniteSet(Range(x.row))
    <3>1. x.row \in Surjection(Files, Range(x.row))
      BY <1>1, <2>1 DEF Surjection
    <3> QED
      BY <3>1, FS_Surjection DEF LinkAssumption
  <2>4. Max(Range(x.row)) \in Nat /\ \A k \in Range(x.row) : k <= Max(Range(x.row))
    BY <2>2, <2>3, GreatestIs
  <2>5. \A q \in Files : x.row[q] \in Nat /\ x.row[q] <= Max(Range(x.row))
    BY <1>1, <2>1, <2>4
  <2> QED
    BY <2>4, <2>5
<1> HIDE DEF new, links
<1>3. y = [names |-> x.names, note |-> [x.note EXCEPT ![p] = t], row |-> [x.row EXCEPT ![p] = new],
           fts |-> x.fts \cup {<<new, t>>}, links |-> [x.links EXCEPT ![p] = links],
           backs |-> x.backs \cup Contribution(links, p)]
  <2>1. x = [names |-> x.names, note |-> x.note, row |-> x.row, fts |-> x.fts,
             links |-> x.links, backs |-> x.backs]
    BY DEF Tables, Shaped
  <2>2. InsertNoteRow(x, p, t) =
          [names |-> x.names, note |-> [x.note EXCEPT ![p] = t], row |-> [x.row EXCEPT ![p] = new],
           fts |-> x.fts \cup {<<new, t>>}, links |-> [x.links EXCEPT ![p] = links], backs |-> x.backs]
    <3>1. InsertNoteRow(x, p, t) = [x EXCEPT !.note[p] = t, !.links[p] = links, !.row[p] = new,
                                             !.fts = @ \cup {<<new, t>>}]
      BY DEF InsertNoteRow, new, links
    <3> QED
      BY <2>1, <3>1
  <2>3. InsertNoteRow(x, p, t).links[p] = links
    BY <1>1, <2>2
  <2> DEFINE w == InsertNoteRow(x, p, t)
  <2>4. y = [w EXCEPT !.backs = @ \cup Contribution(w.links[p], p)]
    BY DEF SyncOutgoingBacklinks
  <2> HIDE DEF w
  <2>5. w = [names |-> x.names, note |-> [x.note EXCEPT ![p] = t], row |-> [x.row EXCEPT ![p] = new],
             fts |-> x.fts \cup {<<new, t>>}, links |-> [x.links EXCEPT ![p] = links], backs |-> x.backs]
    BY <2>2 DEF w
  <2>6. w.links[p] = links
    BY <2>3 DEF w
  <2> QED
    BY <2>4, <2>5, <2>6
<1>4. /\ y.names = x.names /\ y.fts = x.fts \cup {<<new, t>>}
      /\ y.backs = x.backs \cup Contribution(links, p)
      /\ y.note = [x.note EXCEPT ![p] = t] /\ y.row = [x.row EXCEPT ![p] = new]
      /\ y.links = [x.links EXCEPT ![p] = links]
      /\ y = [names |-> y.names, note |-> y.note, row |-> y.row, fts |-> y.fts,
              links |-> y.links, backs |-> y.backs]
  BY <1>3
<1>5. /\ y.links[p] = links /\ y.row[p] = new /\ y.note[p] = t
      /\ \A q \in Files : q # p => y.links[q] = x.links[q] /\ y.row[q] = x.row[q] /\ y.note[q] = x.note[q]
      /\ y.links = [q \in Files |-> y.links[q]]
  BY <1>1, <1>4
<1>6. Shaped(y)
  <2>1. y.note \in [Files -> Texts \cup {Missing}] /\ y.row \in [Files -> Nat] /\ y.names \subseteq Files
    BY <1>1, <1>2, <1>4 DEF Tables, Shaped
  <2>2. \A q \in Files : y.note[q] = Missing <=> y.row[q] = 0
    BY <1>1, <1>2, <1>5 DEF Tables, Shaped
  <2>3. \A q \in Files \ Markdown : y.note[q] = Missing
    BY <1>5 DEF Tables, Shaped
  <2>4. \A q \in Files : y.note[q] = Missing => y.links[q] = <<>>
    BY <1>1, <1>5 DEF Tables, Shaped
  <2> QED
    BY <1>4, <1>5, <2>1, <2>2, <2>3, <2>4 DEF Shaped
<1>7. TextsMatch(y)
  <2>1. \A q, r \in Files : y.row[q] = y.row[r] /\ y.row[q] # 0 => q = r
    <3>1. \A q \in Files : x.row[q] # new
      BY <1>1, <1>2
    <3>2. \A q, r \in Files : x.row[q] = x.row[r] /\ x.row[q] # 0 => q = r
      BY DEF Tables, TextsMatch
    <3> QED
      BY <1>5, <3>1, <3>2
  <2>2. \A f : f \in x.fts <=> \E q \in Files : x.note[q] # Missing /\ f = <<x.row[q], x.note[q]>>
    BY DEF Tables, TextsMatch
  <2>3. \A f : f \in y.fts <=> \E q \in Files : y.note[q] # Missing /\ f = <<y.row[q], y.note[q]>>
    <3>1. ASSUME NEW f \in y.fts
          PROVE  \E q \in Files : y.note[q] # Missing /\ f = <<y.row[q], y.note[q]>>
      <4>1. CASE f = <<new, t>>
        BY <1>1, <1>5, <4>1
      <4>2. CASE f \in x.fts
        <5>1. PICK q \in Files : x.note[q] # Missing /\ f = <<x.row[q], x.note[q]>>
          BY <2>2, <4>2
        <5>2. q # p
          BY <5>1
        <5> QED
          BY <1>5, <5>1, <5>2
      <4> QED
        BY <1>4, <4>1, <4>2
    <3>2. ASSUME NEW q \in Files, y.note[q] # Missing
          PROVE  <<y.row[q], y.note[q]>> \in y.fts
      BY <1>4, <1>5, <2>2, <3>2
    <3> QED
      BY <3>1, <3>2
  <2>4. y.fts = {<<y.row[q], y.note[q]>> : q \in {r \in Files : y.note[r] # Missing}}
    BY <2>3
  <2> QED
    BY <2>1, <2>4 DEF TextsMatch
<1>8. BacksMatch(y)
  <2>1. x.backs = UNION {Contribution(x.links[q], q) : q \in Files}
    BY DEF Tables, BacksMatch
  <2>2. x.links[p] = <<>>
    BY <1>1 DEF Tables, Shaped
  <2>3. Contribution(x.links[p], p) = {}
    BY <2>2, ContributionIs
  <2>4. \A b : b \in x.backs <=> \E q \in Files : b \in Contribution(x.links[q], q)
    BY <2>1
  <2>5. \A b : b \in x.backs <=> \E q \in Files : q # p /\ b \in Contribution(y.links[q], q)
    BY <1>5, <2>3, <2>4
  <2>6. \A b : b \in y.backs <=> b \in x.backs \/ b \in Contribution(y.links[p], p)
    BY <1>4, <1>5
  <2>7. \A b : b \in y.backs <=> \E q \in Files : b \in Contribution(y.links[q], q)
    BY <1>1, <2>5, <2>6
  <2>8. y.backs = UNION {Contribution(y.links[q], q) : q \in Files}
    BY <2>7, ZenonT(40)
  <2> QED
    BY <2>8 DEF BacksMatch
<1> QED
  BY <1>4, <1>5, <1>6, <1>7, <1>8 DEF Tables

\* A name more or less concerns no table.
LEMMA NamesAre ==
  ASSUME NEW x, Tables(x), NEW N, N \subseteq Files, NEW y, y = [x EXCEPT !.names = N]
  PROVE  Tables(y) /\ y.names = N /\ y.note = x.note
<1>1. x = [names |-> x.names, note |-> x.note, row |-> x.row, fts |-> x.fts,
           links |-> x.links, backs |-> x.backs]
  BY DEF Tables, Shaped
<1>2. y = [names |-> N, note |-> x.note, row |-> x.row, fts |-> x.fts,
           links |-> x.links, backs |-> x.backs]
  BY <1>1
<1>3. /\ y.names = N /\ y.note = x.note /\ y.row = x.row /\ y.fts = x.fts /\ y.links = x.links
      /\ y.backs = x.backs
      /\ y = [names |-> y.names, note |-> y.note, row |-> y.row, fts |-> y.fts,
              links |-> y.links, backs |-> y.backs]
  BY <1>2
<1>4. Shaped(y)
  BY <1>3 DEF Tables, Shaped
<1>5. TextsMatch(y) /\ BacksMatch(y)
  BY <1>3 DEF Tables, TextsMatch, BacksMatch
<1> QED
  BY <1>3, <1>4, <1>5 DEF Tables

\* Whatever comes of an event that finds a file, the tables agree.
LEMMA CreateIs ==
  ASSUME LinkAssumption, disk \in [Files -> Texts \cup {Missing}], NEW x, Tables(x), NEW p \in Files,
         NEW y \in ApplyCreate(x, p)
  PROVE  Tables(y)
<1> DEFINE z == RefreshBasenames(x, p)
<1>1. x.names \cup {p} \subseteq Files
  BY DEF Tables, Shaped
<1>2. z = [x EXCEPT !.names = x.names \cup {p}]
  <2>1. x = [names |-> x.names, note |-> x.note, row |-> x.row, fts |-> x.fts,
             links |-> x.links, backs |-> x.backs]
    BY DEF Tables, Shaped
  <2> QED
    BY <2>1 DEF RefreshBasenames
<1> HIDE DEF z
<1>3. Tables(z) /\ z.note = x.note
  <2> DEFINE N == x.names \cup {p}
  <2>1. N \subseteq Files /\ z = [x EXCEPT !.names = N]
    BY <1>1, <1>2
  <2> HIDE DEF N
  <2> QED
    BY <2>1, NamesAre
<1>4. CASE y \in {x, z}
  BY <1>3, <1>4
<1>5. CASE y \notin {x, z}
  <2> DEFINE w == DeleteNoteRows(z, p)
  <2>1. w = DeleteNoteRows(z, p) /\ Tables(z)
    BY <1>3
  <2>2. p \in Markdown /\ disk[p] # Missing /\ y = SyncOutgoingBacklinks(InsertNoteRow(w, p, disk[p]), p)
    BY <1>5 DEF ApplyCreate, z
  <2> HIDE DEF w
  <2>3. Tables(w) /\ w.note[p] = Missing
    BY <2>1, DeleteIs
  <2>4. disk[p] \in Texts
    BY <2>2
  <2> QED
    BY <2>2, <2>3, <2>4, InsertIs
<1> QED
  BY <1>4, <1>5

\* Whatever comes of one that finds none, they do.
LEMMA DropIs ==
  ASSUME LinkAssumption, NEW x, Tables(x), NEW p \in Files, NEW y \in ApplyDelete(x, p)
  PROVE  Tables(y)
<1>1. PICK z \in {x, DeleteNoteRows(x, p)} : y = [z EXCEPT !.names = @ \ {p}]
  BY DEF ApplyDelete
<1>2. Tables(DeleteNoteRows(x, p))
  BY DeleteIs
<1>3. Tables(z)
  BY <1>1, <1>2
<1>4. y = [z EXCEPT !.names = z.names \ {p}] /\ z.names \ {p} \subseteq Files
  <2>1. z = [names |-> z.names, note |-> z.note, row |-> z.row, fts |-> z.fts,
             links |-> z.links, backs |-> z.backs] /\ z.names \subseteq Files
    BY <1>3 DEF Tables, Shaped
  <2> QED
    BY <1>1, <2>1
<1> QED
  BY <1>3, <1>4, NamesAre

\* A rebuild numbers the notes it could read.
LEMMA RebuiltIs ==
  ASSUME LinkAssumption, disk \in [Files -> Texts \cup {Missing}], NEW x, x.names \subseteq Files,
         NEW there \in SUBSET Readable(x.names), NEW y, y = Rebuilt(x, there)
  PROVE  Tables(y)
<1> DEFINE Upto(p) == {q \in there : q <= p}
           Place(p) == IF p \in there THEN Cardinality(Upto(p)) ELSE 0
           links == [p \in Files |-> IF p \in there THEN EntryFromText(p, disk[p], x.names) ELSE <<>>]
           note == [p \in Files |-> IF p \in there THEN disk[p] ELSE Missing]
<1>1. y = [names |-> x.names, links |-> links, row |-> [p \in Files |-> Place(p)],
           fts |-> {<<Place(p), disk[p]>> : p \in there}, note |-> note,
           backs |-> UNION {Contribution(links[p], p) : p \in Files}]
  BY DEF Rebuilt
<1>2. /\ there \subseteq Files /\ IsFiniteSet(there) /\ there \subseteq Nat /\ there \subseteq Markdown
      /\ \A p \in there : disk[p] \in Texts /\ disk[p] # Missing
  <2>1. there \subseteq Files /\ there \subseteq Markdown /\ \A p \in there : disk[p] # Missing
    BY DEF Readable
  <2>2. IsFiniteSet(there) /\ there \subseteq Nat
    BY <2>1, FS_Subset DEF LinkAssumption
  <2> QED
    BY <2>1, <2>2
<1>3. \A p \in there : p \in Upto(p) /\ Upto(p) \in SUBSET there
  BY <1>2
<1>4. ASSUME NEW p \in there
      PROVE  Cardinality(Upto(p)) \in Nat /\ Cardinality(Upto(p)) # 0
  <2>1. IsFiniteSet(Upto(p)) /\ Upto(p) # {}
    BY <1>2, <1>3, FS_Subset
  <2> HIDE DEF Upto
  <2> QED
    BY <2>1, FS_CardinalityType, FS_EmptySet
<1>5. ASSUME NEW p \in there, NEW q \in there, p < q
      PROVE  Cardinality(Upto(p)) # Cardinality(Upto(q))
  <2>1. Upto(p) \in SUBSET Upto(q) /\ q \in Upto(q) /\ q \notin Upto(p)
    <3>1. p \in Nat /\ q \in Nat /\ \A k \in there : k \in Nat
      BY <1>2
    <3>2. q <= q /\ ~(q <= p) /\ \A k \in there : k <= p => k <= q
      BY <1>5, <3>1
    <3> QED
      BY <3>2
  <2>2. IsFiniteSet(Upto(q))
    BY <1>2, <1>3, FS_Subset
  <2> HIDE DEF Upto
  <2>3. Cardinality(Upto(p)) = Cardinality(Upto(q)) => Upto(p) = Upto(q)
    BY <2>1, <2>2, FS_Subset
  <2> QED
    BY <2>1, <2>3
<1> HIDE DEF Upto
<1>6. \A p, q \in there : Place(p) = Place(q) => p = q
  <2> SUFFICES ASSUME NEW p \in there, NEW q \in there, p # q
               PROVE  Cardinality(Upto(p)) # Cardinality(Upto(q))
    OBVIOUS
  <2>1. p < q \/ q < p
    BY <1>2
  <2> QED
    BY <1>5, <2>1
<1>7. /\ \A p \in Files : Place(p) \in Nat /\ (Place(p) = 0 <=> p \notin there)
      /\ \A p, q \in Files : Place(p) = Place(q) /\ Place(p) # 0 => p = q
  BY <1>4, <1>6
<1> HIDE DEF Place
<1>8. /\ y.names = x.names /\ y.links = links /\ y.row = [p \in Files |-> Place(p)]
      /\ y.fts = {<<Place(p), disk[p]>> : p \in there} /\ y.note = note
      /\ y.backs = UNION {Contribution(links[p], p) : p \in Files}
      /\ y = [names |-> y.names, note |-> y.note, row |-> y.row, fts |-> y.fts,
              links |-> y.links, backs |-> y.backs]
  BY <1>1
<1>9. \A p \in Files : /\ y.row[p] = Place(p) /\ y.note[p] = IF p \in there THEN disk[p] ELSE Missing
                       /\ p \notin there => y.links[p] = <<>>
  BY <1>8
<1>10. Shaped(y)
  <2>1. y.note \in [Files -> Texts \cup {Missing}] /\ y.row \in [Files -> Nat]
    BY <1>2, <1>7, <1>8
  <2>2. y.links = [p \in Files |-> y.links[p]] /\ y.names \subseteq Files
    BY <1>8
  <2> HIDE DEF links, note
  <2>4. \A p \in Files : y.note[p] = Missing <=> y.row[p] = 0
    BY <1>2, <1>7, <1>9
  <2>5. \A p \in Files \ Markdown : y.note[p] = Missing
    BY <1>2, <1>9
  <2>6. \A p \in Files : y.note[p] = Missing => y.links[p] = <<>>
    BY <1>2, <1>9
  <2> QED
    BY <1>8, <2>1, <2>2, <2>4, <2>5, <2>6 DEF Shaped
<1> HIDE DEF links, note
<1>11. TextsMatch(y)
  <2>1. \A p, q \in Files : y.row[p] = y.row[q] /\ y.row[p] # 0 => p = q
    BY <1>7, <1>9
  <2>2. \A p \in Files : y.note[p] # Missing <=> p \in there
    BY <1>2, <1>9
  <2>3. \A p \in there : <<y.row[p], y.note[p]>> = <<Place(p), disk[p]>>
    BY <1>2, <1>9
  <2>4. y.fts = {<<y.row[p], y.note[p]>> : p \in {q \in Files : y.note[q] # Missing}}
    BY <1>2, <1>8, <2>2, <2>3, SMTT(40)
  <2> QED
    BY <2>1, <2>4 DEF TextsMatch
<1>12. BacksMatch(y)
  BY <1>8 DEF BacksMatch
<1> QED
  BY <1>10, <1>11, <1>12 DEF Tables

(***************************************************************************)
(* The steps                                                               *)
(***************************************************************************)

\* A change of the vault leaves the tables behind, but in agreement.
LEMMA EditStep ==
  ASSUME LinksInv, Edit
  PROVE  LinksInv'
<1>1. disk \in [Files -> Texts \cup {Missing}] /\ UNCHANGED <<pend, ix>>
  BY DEF LinksInv, Edit
<1>2. disk' \in [Files -> Texts \cup {Missing}] /\ \A e \in events' \ events : {e.path, e.to} \subseteq Files
  <2>1. CASE \E p \in Files, t \in Texts \cup {Missing} :
               /\ disk' = [disk EXCEPT ![p] = t]
               /\ events' \in {events, events \cup {[kind |-> "touch", path |-> p, to |-> p]}}
    BY <1>1, <2>1
  <2>2. CASE \E p, q \in Files :
               /\ disk' = [disk EXCEPT ![p] = Missing, ![q] = disk[p]]
               /\ events' \in {events, events \cup {[kind |-> "move", path |-> p, to |-> q]}}
    BY <1>1, <2>2
  <2>3. CASE \E p, q \in Files :
               disk' = disk /\ events' = events \cup {[kind |-> "move", path |-> p, to |-> q]}
    BY <1>1, <2>3
  <2> QED
    BY <2>1, <2>2, <2>3 DEF Edit
<1>3. ASSUME NEW e \in events'
      PROVE  {e.path, e.to} \subseteq Files
  <2>1. \A d \in events : {d.path, d.to} \subseteq Files
    BY DEF LinksInv
  <2> QED
    BY <1>2, <2>1
<1>4. pend' \subseteq Files /\ Tables(ix)'
  BY <1>1 DEF LinksInv
<1> QED
  BY <1>2, <1>3, <1>4 DEF LinksInv

\* An event that is handed over, or was buffered, and what it does to the rows.
LEMMA EventStep ==
  ASSUME LinkAssumption, LinksInv, (\E e \in events : HandleEvent(e)) \/ (\E p \in Files : FlushEvent(p))
  PROVE  LinksInv'
<1>1. disk \in [Files -> Texts \cup {Missing}] /\ Tables(ix) /\ UNCHANGED disk /\ events' \subseteq events
  BY DEF LinksInv, HandleEvent, FlushEvent
<1>2. pend' \subseteq Files
  <2>1. pend \subseteq Files /\ \A e \in events : e.path \in Files
    BY DEF LinksInv
  <2>2. (\E e \in events : pend' \in {pend, pend \cup {e.path}}) \/ (\E p \in Files : pend' = pend \ {p})
    BY DEF HandleEvent, FlushEvent
  <2>3. CASE \E e \in events : pend' \in {pend, pend \cup {e.path}}
    BY <2>1, <2>3
  <2>4. CASE \E p \in Files : pend' = pend \ {p}
    BY <2>1, <2>4
  <2> QED
    BY <2>2, <2>3, <2>4
<1>3. Tables(ix')
  <2>1. CASE ix' = ix
    BY <1>1, <2>1
  <2>2. CASE \E p \in Files : ix' \in ApplyCreate(ix, p)
    <3> DEFINE y == ix'
    <3>1. PICK p \in Files : y \in ApplyCreate(ix, p)
      BY <2>2
    <3> HIDE DEF y
    <3>2. Tables(y)
      BY <1>1, <3>1, CreateIs
    <3> QED
      BY <3>2 DEF y
  <2>3. CASE \E p \in Files : ix' \in ApplyDelete(ix, p)
    <3> DEFINE y == ix'
    <3>1. PICK p \in Files : y \in ApplyDelete(ix, p)
      BY <2>3
    <3> HIDE DEF y
    <3>2. Tables(y)
      BY <1>1, <3>1, DropIs
    <3> QED
      BY <3>2 DEF y
  <2>4. CASE \E p, q \in Files : \E z \in ApplyDelete(ix, p) : ix' \in ApplyCreate(z, q)
    <3> DEFINE y == ix'
    <3>1. PICK p \in Files, q \in Files : \E z \in ApplyDelete(ix, p) : y \in ApplyCreate(z, q)
      BY <2>4
    <3>2. PICK z \in ApplyDelete(ix, p) : y \in ApplyCreate(z, q)
      BY <3>1
    <3> HIDE DEF y
    <3>3. Tables(z)
      BY <1>1, DropIs
    <3>4. Tables(y)
      BY <1>1, <3>2, <3>3, CreateIs
    <3> QED
      BY <3>4 DEF y
  <2> QED
    BY <2>1, <2>2, <2>3, <2>4 DEF LinksInv, HandleEvent, FlushEvent
<1> QED
  BY <1>1, <1>2, <1>3 DEF LinksInv

\* The names of a scan are the files it finds.
LEMMA ScanStep ==
  ASSUME LinksInv, Refresh \/ Rebuild
  PROVE  LinksInv'
<1>1. UNCHANGED <<disk, events, pend>> /\ ix' = [ix EXCEPT !.names = Present] /\ Present \subseteq Files
  BY DEF Refresh, Rebuild, Present
<1>2. Tables(ix')
  <2> DEFINE N == Present
             y == ix'
  <2>1. N \subseteq Files /\ y = [ix EXCEPT !.names = N] /\ Tables(ix)
    BY <1>1 DEF LinksInv
  <2> HIDE DEF N, y
  <2>2. Tables(y)
    BY <2>1, NamesAre
  <2> QED
    BY <2>2 DEF y
<1> QED
  BY <1>1, <1>2 DEF LinksInv

\* A rebuild has the rows of what it could read.
LEMMA CommitStep ==
  ASSUME LinkAssumption, LinksInv, CommitBuild
  PROVE  LinksInv'
<1>1. /\ disk \in [Files -> Texts \cup {Missing}] /\ ix.names \subseteq Files
      /\ UNCHANGED <<disk, events, pend>>
  BY DEF LinksInv, CommitBuild, Tables, Shaped
<1>2. Tables(ix')
  <2> DEFINE y == ix'
  <2>1. PICK there \in SUBSET Readable(ix.names) : y = Rebuilt(ix, there)
    BY DEF CommitBuild
  <2> HIDE DEF y
  <2>2. Tables(y)
    BY <1>1, <2>1, RebuiltIs
  <2> QED
    BY <2>2 DEF y
<1> QED
  BY <1>1, <1>2 DEF LinksInv

\* Steps that leave the vault and the tables alone.
LEMMA OtherStep ==
  ASSUME LinksInv, FailBuild \/ Restart \/ (\E p \in Markdown : StoreVectors(p)) \/ UNCHANGED linksVars
  PROVE  LinksInv'
<1>1. CASE Restart
  <2>1. UNCHANGED disk /\ events' = {} /\ pend' = {} /\ ix' = [ix EXCEPT !.names = {}]
    BY <1>1 DEF Restart
  <2>2. Tables(ix')
    BY <2>1, NamesAre DEF LinksInv
  <2> QED
    BY <2>1, <2>2 DEF LinksInv
<1>2. CASE UNCHANGED <<disk, events, pend, ix>>
  BY <1>2 DEF LinksInv
<1> QED
  BY <1>1, <1>2 DEF FailBuild, StoreVectors, linksVars

\* The tables start empty.
LEMMA LinksStart ==
  ASSUME LinkAssumption, LinksInit
  PROVE  LinksInv
<1>1. /\ ix.names = {} /\ ix.note = [p \in Files |-> Missing] /\ ix.row = [p \in Files |-> 0]
      /\ ix.fts = {} /\ ix.links = [p \in Files |-> <<>>] /\ ix.backs = {}
      /\ ix = [names |-> ix.names, note |-> ix.note, row |-> ix.row, fts |-> ix.fts,
               links |-> ix.links, backs |-> ix.backs]
  BY DEF LinksInit, Empty
<1>2. Shaped(ix)
  BY <1>1 DEF Shaped
<1>3. TextsMatch(ix)
  BY <1>1 DEF TextsMatch
<1>4. BacksMatch(ix)
  <2>1. \A p \in Files : Contribution(ix.links[p], p) = {}
    BY <1>1, ContributionIs
  <2> QED
    BY <1>1, <2>1 DEF BacksMatch
<1>5. disk \in [Files -> Texts \cup {Missing}] /\ events = {} /\ pend = {}
  BY DEF LinksInit, LinkAssumption
<1> QED
  BY <1>2, <1>3, <1>4, <1>5 DEF LinksInv, Tables

\* The tables of the index tell one story, through events that are lost, late or
\* out of order, reads and transactions that fail, rebuilds and restarts
\* (server/index/service.py _apply_create, _apply_delete, rebuild).
THEOREM LinksInvariance == LinksSpec => []LinksInv
<1>1. LinksInit => LinksInv
  BY LinksStart, LinkAssumption
<1>2. LinksInv /\ [LinksNext]_linksVars => LinksInv'
  <2> SUFFICES ASSUME LinksInv, [LinksNext]_linksVars
               PROVE  LinksInv'
    OBVIOUS
  <2>1. CASE Edit
    BY <2>1, EditStep
  <2>2. CASE (\E e \in events : HandleEvent(e)) \/ (\E p \in Files : FlushEvent(p))
    BY <2>2, EventStep, LinkAssumption
  <2>3. CASE Refresh \/ Rebuild
    BY <2>3, ScanStep
  <2>4. CASE CommitBuild
    BY <2>4, CommitStep, LinkAssumption
  <2>5. CASE FailBuild \/ Restart \/ (\E p \in Markdown : StoreVectors(p)) \/ UNCHANGED linksVars
    BY <2>5, OtherStep
  <2> QED
    BY <2>1, <2>2, <2>3, <2>4, <2>5 DEF LinksNext
<1> QED
  BY <1>1, <1>2, PTL DEF LinksSpec

\* The backlinks of a note are the rows of other notes that lead to it.
LEMMA BacklinksAre ==
  ASSUME LinkAssumption, Shaped(ix), BacksMatch(ix)
  PROVE  /\ \A p \in Files : BacklinkSources(p) =
              UNION {{<<q, i>> : i \in {j \in DOMAIN Outgoing(q) : Outgoing(q)[j].to = p}} :
                       q \in Files \ {p}}
         /\ \A back \in ix.backs : \E source \in BacklinkSources(back[1]) : source[1] = back[2]
<1>1. \A q \in Files : Outgoing(q) = ix.links[q]
  BY DEF Outgoing, Shaped
<1>2. \A b : b \in ix.backs <=>
        \E q \in Files : \E i \in DOMAIN ix.links[q] :
          ix.links[q][i].to \notin {Nowhere, q} /\ b = <<ix.links[q][i].to, q>>
  <2>1. \A b : b \in ix.backs <=> \E q \in Files : b \in Contribution(ix.links[q], q)
    BY DEF BacksMatch
  <2>2. ASSUME NEW b
        PROVE  \A q : b \in Contribution(ix.links[q], q) <=>
                 \E i \in DOMAIN ix.links[q] : ix.links[q][i].to \notin {Nowhere, q} /\ b = <<ix.links[q][i].to, q>>
    BY ContributionIs
  <2> QED
    BY <2>1, <2>2, ZenonT(40)
<1> DEFINE Rows(p, q) == {<<q, i>> : i \in {j \in DOMAIN ix.links[q] : ix.links[q][j].to = p}}
<1>3. \A p : \A s : s \in BacklinkSources(p) <=>
                      \E q \in Files \ {p} : <<p, q>> \in ix.backs /\ s \in Rows(p, q)
  <2> TAKE p
  <2>1. BacklinkSources(p) = UNION {Rows(p, q) : q \in {r \in Files \ {p} : <<p, r>> \in ix.backs}}
    BY DEF BacklinkSources
  <2> HIDE DEF Rows
  <2> QED
    BY <2>1
<1>4. ASSUME NEW p \in Files
      PROVE  BacklinkSources(p) =
               UNION {{<<q, i>> : i \in {j \in DOMAIN Outgoing(q) : Outgoing(q)[j].to = p}} :
                        q \in Files \ {p}}
  <2>1. \A q \in Files \ {p} : \A i \in DOMAIN ix.links[q] : ix.links[q][i].to = p => <<p, q>> \in ix.backs
    BY <1>2 DEF LinkAssumption, Nowhere
  <2>2. \A q \in Files \ {p} : \A s \in Rows(p, q) : <<p, q>> \in ix.backs
    BY <2>1
  <2>3. \A q \in Files \ {p} :
          {<<q, i>> : i \in {j \in DOMAIN Outgoing(q) : Outgoing(q)[j].to = p}} = Rows(p, q)
    BY <1>1
  <2> HIDE DEF Rows
  <2>4. \A s : s \in BacklinkSources(p) <=> \E q \in Files \ {p} : s \in Rows(p, q)
    BY <1>3, <2>2
  <2>5. BacklinkSources(p) = UNION {Rows(p, q) : q \in Files \ {p}}
    BY <2>4
  <2> QED
    BY <2>3, <2>5
<1>5. ASSUME NEW back \in ix.backs
      PROVE  \E source \in BacklinkSources(back[1]) : source[1] = back[2]
  <2>1. PICK q \in Files : \E i \in DOMAIN ix.links[q] :
          ix.links[q][i].to \notin {Nowhere, q} /\ back = <<ix.links[q][i].to, q>>
    BY <1>2
  <2>2. PICK i \in DOMAIN ix.links[q] :
          ix.links[q][i].to \notin {Nowhere, q} /\ back = <<ix.links[q][i].to, q>>
    BY <2>1
  <2>3. <<q, i>> \in Rows(back[1], q) /\ back = <<back[1], q>> /\ q \in Files \ {back[1]}
    BY <2>2
  <2> HIDE DEF Rows
  <2>4. <<q, i>> \in BacklinkSources(back[1])
    BY <1>3, <2>3
  <2> QED
    BY <2>2, <2>4
<1> QED
  BY <1>4, <1>5

\* The full-text table finds the notes that have the words.
LEMMA FullTextIs ==
  ASSUME LinkAssumption, Shaped(ix), TextsMatch(ix), NEW terms
  PROVE  FtsSearch(terms) = {p \in Markdown : /\ ix.note[p] \notin Unreadable \cup {Missing}
                                             /\ terms \subseteq Tokens[ix.note[p]]}
<1>1. \A f : f \in ix.fts <=> \E q \in Files : ix.note[q] # Missing /\ f = <<ix.row[q], ix.note[q]>>
  BY DEF TextsMatch
<1>2. ASSUME NEW p \in Markdown, ix.note[p] # Missing
      PROVE  (\E f \in ix.fts : f[1] = ix.row[p] /\ terms \subseteq Tokens[f[2]])
               <=> terms \subseteq Tokens[ix.note[p]]
  <2>1. p \in Files /\ ix.row[p] # 0
    BY <1>2 DEF Shaped, LinkAssumption
  <2>2. <<ix.row[p], ix.note[p]>> \in ix.fts
    BY <1>1, <1>2, <2>1
  <2>3. \A f \in ix.fts : f[1] = ix.row[p] => f[2] = ix.note[p]
    BY <1>1, <2>1 DEF TextsMatch
  <2> QED
    BY <2>2, <2>3
<1> QED
  BY <1>2 DEF FtsSearch

\* IndexCoheres: the links panel and the search show rows that agree, at any
\* time (server/index/service.py _apply_create, _apply_delete, refresh, rebuild,
\* fts_search).
THEOREM LinksCohere == LinksSpec => []IndexCoheres
<1>1. LinksInv => IndexCoheres
  <2> SUFFICES ASSUME LinksInv
               PROVE  IndexCoheres
    OBVIOUS
  <2> USE LinkAssumption
  <2>1. Shaped(ix) /\ TextsMatch(ix) /\ BacksMatch(ix) /\ Markdown \subseteq Files
    BY DEF LinksInv, Tables, LinkAssumption
  <2>2. ASSUME NEW terms \in Queries
        PROVE  LET With(has) == {p \in Markdown : /\ ix.note[p] \notin Unreadable \cup {Missing}
                                                  /\ terms \subseteq has[ix.note[p]]}
                   words == IF terms \subseteq Plain THEN With(Tokens) ELSE {}
               IN Search(terms) = IF words # {} THEN words ELSE With(Holds)
    BY <2>1, FullTextIs DEF Search, SubstringSearch
  <2> QED
    BY <2>1, <2>2, BacklinksAre DEF IndexCoheres
<1> QED
  BY <1>1, LinksInvariance, PTL

(***************************************************************************)
(* The graph: distances                                                    *)
(***************************************************************************)

\* From p to q over one link, in the direction asked for.
Along(p, q, direction) ==
  \/ direction # "incoming" /\ \E l \in Range(ix.links[p]) : l.to = q
  \/ direction # "outgoing" /\ \E l \in Range(ix.links[q]) : l.to = p

\* _note_adjacency: the neighbours of a note are the other notes one link away.
LEMMA NeighboursAre ==
  ASSUME NEW p \in NoteRows, NEW direction
  PROVE  \A q : q \in Neighbours(p, direction) <=> q \in NoteRows /\ q # p /\ Along(p, q, direction)
<1>1. \A q : q \in Forward(p) <=> q \in NoteRows /\ q # p /\ \E l \in Range(ix.links[p]) : l.to = q
  BY DEF Forward
<1>2. \A q : q \in Backward(p) <=> q \in NoteRows /\ q # p /\ \E l \in Range(ix.links[q]) : l.to = p
  BY DEF Forward, Backward
<1> QED
  BY <1>1, <1>2 DEF Neighbours, Along

\* A walk of m notes from the root to p.
Walk(w, m, root, p, direction) ==
  /\ w \in [1 .. m -> NoteRows] /\ w[1] = root /\ w[m] = p
  /\ \A i \in 1 .. m - 1 : Along(w[i], w[i + 1], direction)

\* What is reached is what a walk leads to.
LEMMA ReachesIs ==
  ASSUME NEW root, NEW p, NEW n \in Nat, NEW direction
  PROVE  Reaches(root, p, n, direction) <=> \E m \in 1 .. n + 1 : \E w : Walk(w, m, root, p, direction)
<1>1. ASSUME NEW m \in 1 .. n + 1, NEW w \in [1 .. m -> NoteRows]
      PROVE  Len(w) = m
  BY <1>1
<1>2. \A w : w \in UNION {[1 .. m -> NoteRows] : m \in 1 .. n + 1}
              <=> \E m \in 1 .. n + 1 : w \in [1 .. m -> NoteRows]
  OBVIOUS
<1>3. \A m \in 1 .. n + 1 : \A w \in [1 .. m -> NoteRows] :
        Walk(w, m, root, p, direction) <=>
          /\ w[1] = root /\ w[Len(w)] = p
          /\ \A i \in 1 .. Len(w) - 1 : Along(w[i], w[i + 1], direction)
  BY <1>1 DEF Walk
<1>4. \A m, w : Walk(w, m, root, p, direction) => w \in [1 .. m -> NoteRows]
  BY DEF Walk
<1>5. Reaches(root, p, n, direction) <=>
        \E w \in UNION {[1 .. m -> NoteRows] : m \in 1 .. n + 1} :
          /\ w[1] = root /\ w[Len(w)] = p
          /\ \A i \in 1 .. Len(w) - 1 : Along(w[i], w[i + 1], direction)
  BY Zenon DEF Reaches, Along
<1>6. ASSUME NEW w \in UNION {[1 .. m -> NoteRows] : m \in 1 .. n + 1},
             w[1] = root /\ w[Len(w)] = p, \A i \in 1 .. Len(w) - 1 : Along(w[i], w[i + 1], direction)
      PROVE  \E m \in 1 .. n + 1 : Walk(w, m, root, p, direction)
  BY <1>2, <1>3, <1>6
<1>7. ASSUME NEW m \in 1 .. n + 1, NEW w, Walk(w, m, root, p, direction)
      PROVE  /\ w \in UNION {[1 .. k -> NoteRows] : k \in 1 .. n + 1}
             /\ w[1] = root /\ w[Len(w)] = p
             /\ \A i \in 1 .. Len(w) - 1 : Along(w[i], w[i + 1], direction)
  BY <1>2, <1>3, <1>4, <1>7
<1> QED
  BY <1>5, <1>6, <1>7

\* Over no link only the root is reached.
LEMMA ReachesRoot ==
  ASSUME NEW root \in NoteRows, NEW p, NEW direction
  PROVE  Reaches(root, p, 0, direction) <=> p = root
<1>1. \A w : Walk(w, 1, root, p, direction) => p = root
  BY DEF Walk
<1>2. Walk([i \in 1 .. 1 |-> root], 1, root, root, direction)
  BY DEF Walk
<1>3. \A m : m \in 1 .. 0 + 1 <=> m = 1
  OBVIOUS
<1> QED
  BY <1>1, <1>2, <1>3, ReachesIs

\* Over one link more the notes next to what was reached before are reached.
LEMMA ReachesMore ==
  ASSUME NEW root \in NoteRows, NEW p \in NoteRows, NEW n \in Nat, NEW direction
  PROVE  Reaches(root, p, n + 1, direction) <=>
           \/ Reaches(root, p, n, direction)
           \/ \E q \in NoteRows : Reaches(root, q, n, direction) /\ Along(q, p, direction)
<1>1. ASSUME NEW m \in 1 .. n + 2, NEW w, Walk(w, m, root, p, direction)
      PROVE  \/ Reaches(root, p, n, direction)
             \/ \E q \in NoteRows : Reaches(root, q, n, direction) /\ Along(q, p, direction)
  <2>1. CASE m <= n + 1
    BY <1>1, <2>1, ReachesIs
  <2>2. CASE m = n + 2
    <3> DEFINE v == [i \in 1 .. n + 1 |-> w[i]]
               q == w[n + 1]
    <3>1. /\ w \in [1 .. n + 2 -> NoteRows] /\ w[1] = root /\ w[n + 2] = p
          /\ \A i \in 1 .. n + 1 : Along(w[i], w[i + 1], direction)
      BY <1>1, <2>2 DEF Walk
    <3>2. q \in NoteRows /\ Along(q, p, direction)
      BY <3>1
    <3>3. /\ v \in [1 .. n + 1 -> NoteRows] /\ v[1] = root /\ v[n + 1] = q
          /\ \A i \in 1 .. (n + 1) - 1 : v[i] = w[i] /\ v[i + 1] = w[i + 1] /\ i \in 1 .. n + 1
      BY <3>1
    <3> HIDE DEF v, q
    <3>4. Walk(v, n + 1, root, q, direction)
      BY <3>1, <3>3 DEF Walk
    <3> QED
      BY <3>2, <3>4, ReachesIs
  <2> QED
    BY <1>1, <2>1, <2>2
<1>2. ASSUME Reaches(root, p, n, direction)
      PROVE  \E m \in 1 .. n + 2 : \E w : Walk(w, m, root, p, direction)
  BY <1>2, ReachesIs
<1>3. ASSUME NEW q \in NoteRows, Reaches(root, q, n, direction), Along(q, p, direction)
      PROVE  \E m \in 1 .. n + 2 : \E w : Walk(w, m, root, p, direction)
  <2>1. PICK m \in 1 .. n + 1 : \E w : Walk(w, m, root, q, direction)
    BY <1>3, ReachesIs
  <2>2. PICK w : Walk(w, m, root, q, direction)
    BY <2>1
  <2> DEFINE v == [i \in 1 .. m + 1 |-> IF i = m + 1 THEN p ELSE w[i]]
  <2>3. /\ w \in [1 .. m -> NoteRows] /\ w[1] = root /\ w[m] = q
        /\ \A i \in 1 .. m - 1 : Along(w[i], w[i + 1], direction)
    BY <2>2 DEF Walk
  <2>4. /\ v \in [1 .. m + 1 -> NoteRows] /\ v[1] = root /\ v[m] = q /\ v[m + 1] = p
        /\ \A i \in 1 .. m - 1 : v[i] = w[i] /\ v[i + 1] = w[i + 1]
    BY <2>3
  <2> HIDE DEF v
  <2>5. ASSUME NEW i \in 1 .. (m + 1) - 1
        PROVE  Along(v[i], v[i + 1], direction)
    <3>1. CASE i = m
      BY <1>3, <2>4, <3>1
    <3>2. CASE i \in 1 .. m - 1
      BY <2>3, <2>4, <3>2
    <3> QED
      BY <3>1, <3>2
  <2>6. Walk(v, m + 1, root, p, direction)
    BY <2>4, <2>5 DEF Walk
  <2> QED
    BY <2>6
<1>4. Reaches(root, p, n + 1, direction) <=> \E m \in 1 .. n + 2 : \E w : Walk(w, m, root, p, direction)
  BY ReachesIs
<1> QED
  BY <1>1, <1>2, <1>3, <1>4

\* The notes within n links.
Reached(root, n, direction) == {p \in NoteRows : Reaches(root, p, n, direction)}

\* What the search has between two rounds.
Levels == [visited : SUBSET NoteRows, frontier : SUBSET NoteRows]

\* After n levels: what is visited is what n links reach, and whatever is next to
\* it but not to the frontier is visited too.
Level(s, root, n, direction) ==
  /\ s \in Levels /\ s.visited = Reached(root, n, direction) /\ s.frontier \subseteq s.visited
  /\ \A p \in s.visited \ s.frontier : Neighbours(p, direction) \subseteq s.visited

\* A round stays among the notes.
LEMMA RoundType ==
  ASSUME NEW s \in Levels, NEW direction
  PROVE  Round(s, direction) \in Levels
<1>1. \A p \in NoteRows : Neighbours(p, direction) \subseteq NoteRows
  BY NeighboursAre
<1>2. UNION {Neighbours(p, direction) : p \in s.frontier} \subseteq NoteRows
  BY <1>1 DEF Levels
<1> QED
  BY <1>2 DEF Round, Levels

\* One round is one link more.
LEMMA RoundKeeps ==
  ASSUME NEW root \in NoteRows, NEW n \in Nat, NEW direction, NEW s, Level(s, root, n, direction)
  PROVE  Level(Round(s, direction), root, n + 1, direction)
<1> DEFINE around == UNION {Neighbours(p, direction) : p \in s.frontier}
           next == around \ s.visited
           t == Round(s, direction)
<1>1. s \in Levels /\ s.visited \subseteq NoteRows /\ s.frontier \subseteq s.visited
  BY DEF Level, Levels
<1>2. t = [visited |-> s.visited \cup next, frontier |-> next]
  BY Zenon DEF Round
<1>3. \A q : q \in around <=> \E p \in s.frontier : q \in Neighbours(p, direction)
  BY Zenon
<1> HIDE DEF around
<1>4. \A q : q \in next <=> q \notin s.visited /\ \E p \in s.frontier : q \in Neighbours(p, direction)
  BY <1>3
<1> HIDE DEF next
<1>5. t.visited = s.visited \cup next /\ t.frontier = next
  BY <1>2
<1>6. \A p \in s.visited : Neighbours(p, direction) \subseteq t.visited
  BY <1>1, <1>4, <1>5 DEF Level
<1>7. ASSUME NEW q \in NoteRows
      PROVE  q \in t.visited <=> Reaches(root, q, n + 1, direction)
  <2>1. \A p \in NoteRows : p \in s.visited <=> Reaches(root, p, n, direction)
    BY DEF Level, Reached
  <2>2. ASSUME q \in next
        PROVE  \E p \in NoteRows : Reaches(root, p, n, direction) /\ Along(p, q, direction)
    <3>1. PICK p \in s.frontier : q \in Neighbours(p, direction)
      BY <1>4, <2>2
    <3> QED
      BY <1>1, <2>1, <3>1, NeighboursAre
  <2>3. ASSUME NEW p \in NoteRows, Reaches(root, p, n, direction), Along(p, q, direction)
        PROVE  q \in t.visited
    <3>1. p \in s.visited
      BY <2>1, <2>3
    <3>2. q = p \/ q \in Neighbours(p, direction)
      BY <2>3, NeighboursAre
    <3> QED
      BY <1>5, <1>6, <3>1, <3>2
  <2>4. Reaches(root, q, n + 1, direction) <=>
          \/ Reaches(root, q, n, direction)
          \/ \E p \in NoteRows : Reaches(root, p, n, direction) /\ Along(p, q, direction)
    BY ReachesMore
  <2> QED
    BY <1>5, <2>1, <2>2, <2>3, <2>4
<1>8. t \in Levels
  BY <1>1, RoundType
<1>9. t.visited = Reached(root, n + 1, direction)
  <2>1. t.visited \subseteq NoteRows
    BY <1>8 DEF Levels
  <2> HIDE DEF t
  <2> QED
    BY <1>7, <2>1 DEF Reached
<1>10. \A p \in t.visited \ t.frontier : p \in s.visited
  BY <1>5
<1> HIDE DEF t
<1> QED
  BY <1>5, <1>6, <1>8, <1>9, <1>10 DEF Level, t

\* local_graph: the search visits the notes within the distance asked for.
LEMMA VisitedIs ==
  ASSUME NEW root \in NoteRows, NEW depth \in Nat, NEW direction
  PROVE  Visited(root, depth, direction) = Reached(root, depth, direction)
<1> DEFINE a == [visited |-> {root}, frontier |-> {root}]
           T == [x \in Levels \X (1 .. depth) |-> Round(x[1], direction)]
           P(g) == g = [n \in 0 .. depth |-> IF n = 0 THEN a ELSE Round(g[n - 1], direction)]
           round == CHOOSE g : P(g)
<1>1. Visited(root, depth, direction) = round[depth].visited
  BY DEF Visited
<1>2. a \in Levels /\ a.visited = {root} /\ a.frontier = {root}
  BY DEF Levels
<1>3. Level(a, root, 0, direction)
  <2>1. Reached(root, 0, direction) = {root}
    BY ReachesRoot DEF Reached
  <2> QED
    BY <1>2, <2>1 DEF Level
<1> HIDE DEF a
<1>4. T \in [Levels \X (1 .. depth) -> Levels]
  BY RoundType
<1>5. \E f : Steps(f, depth, Levels, a, T)
  <2> HIDE DEF T
  <2> QED
    BY <1>2, <1>4, StepsExist
<1>6. PICK f \in [0 .. depth -> Levels] : f[0] = a /\ \A i \in 1 .. depth : f[i] = T[<<f[i - 1], i>>]
  BY <1>5 DEF Steps
<1>7. \A i \in 1 .. depth : i - 1 \in 0 .. depth /\ f[i] = Round(f[i - 1], direction)
  <2> TAKE i \in 1 .. depth
  <2>1. i - 1 \in 0 .. depth
    OBVIOUS
  <2>2. <<f[i - 1], i>> \in Levels \X (1 .. depth)
    BY <1>6, <2>1
  <2>3. T[<<f[i - 1], i>>] = Round(f[i - 1], direction)
    BY <2>2
  <2> QED
    BY <1>6, <2>1, <2>3
<1>8. P(f)
  BY <1>6, <1>7
<1>9. P(round)
  <2>1. \E g : P(g)
    BY <1>8
  <2> HIDE DEF P
  <2> QED
    BY <2>1
<1> HIDE DEF round
<1>10. round[0] = a /\ \A i \in 1 .. depth : round[i] = Round(round[i - 1], direction)
  BY <1>9
<1> DEFINE S == {n \in 0 .. depth : Level(round[n], root, n, direction)}
<1>11. depth \in S
  <2>1. 0 \in S
    BY <1>3, <1>10
  <2>2. ASSUME NEW i \in 1 .. depth, i - 1 \in S
        PROVE  i \in S
    <3>1. i - 1 \in Nat /\ (i - 1) + 1 = i /\ Level(round[i - 1], root, i - 1, direction)
      BY <2>2
    <3>2. Level(Round(round[i - 1], direction), root, i, direction)
      BY <3>1, RoundKeeps
    <3> QED
      BY <1>10, <3>2
  <2> HIDE DEF S
  <2>3. 0 .. depth \subseteq S
    BY <2>1, <2>2, CountUp
  <2> QED
    BY <2>3
<1> QED
  BY <1>1, <1>11 DEF Level

(***************************************************************************)
(* The graph: pages                                                        *)
(***************************************************************************)

\* The offsets of the pages.
LEMMA TimesIs ==
  ASSUME NEW limit \in Nat \ {0}, NEW k \in Nat
  PROVE  /\ k * limit \in Nat /\ k <= k * limit
         /\ (k + 1) * limit = k * limit + limit
         /\ \A m \in Nat : k < m => k * limit + limit <= m * limit
<1>1. k * limit \in Nat /\ (k + 1) * limit = k * limit + limit
  OBVIOUS
<1>2. k <= k * limit
  <2>1. limit >= 1 /\ k >= 0
    OBVIOUS
  <2>2. k * (limit - 1) \in Nat /\ k * limit = k * (limit - 1) + k
    BY <2>1
  <2> QED
    BY <2>2
<1>3. ASSUME NEW m \in Nat, k < m
      PROVE  k * limit + limit <= m * limit
  <2>1. PICK d \in Nat : m = (k + 1) + d
    <3>1. m - (k + 1) \in Nat /\ m = (k + 1) + (m - (k + 1))
      BY <1>3
    <3> QED
      BY <3>1
  <2>2. m * limit = (k + 1) * limit + d * limit /\ d * limit \in Nat
    BY <2>1
  <2> QED
    BY <1>1, <2>2
<1> QED
  BY <1>1, <1>2, <1>3

\* A part of a list.
LEMMA SliceIs ==
  ASSUME NEW A, NEW list \in Seq(A), NEW offset \in 0 .. Len(list), NEW n \in offset .. Len(list)
  PROVE  /\ DOMAIN SubSeq(list, offset + 1, n) = 1 .. n - offset
         /\ \A i \in 1 .. n - offset : /\ offset + i \in DOMAIN list
                                       /\ SubSeq(list, offset + 1, n)[i] = list[offset + i]
<1> DEFINE total == Len(list)
           slice == SubSeq(list, offset + 1, n)
<1>1. total \in Nat /\ DOMAIN list = 1 .. total /\ offset \in Nat /\ n \in Nat /\ offset <= n /\ n <= total
  OBVIOUS
<1>2. \A i \in 1 .. total : list[i] \in A
  OBVIOUS
<1> HIDE DEF total
<1>3. n \in Int /\ offset + 1 \in Int /\ (\A i \in offset + 1 .. n : list[i] \in A)
  BY <1>1, <1>2
<1>4. /\ slice \in Seq(A)
      /\ Len(slice) = IF offset + 1 <= n THEN n - (offset + 1) + 1 ELSE 0
      /\ \A i \in 1 .. n - (offset + 1) + 1 : slice[i] = list[(offset + 1) + i - 1]
  BY <1>3, SubSeqProperties
<1> HIDE DEF slice
<1>5. Len(slice) = n - offset
  BY <1>1, <1>4
<1>6. DOMAIN slice = 1 .. n - offset
  BY <1>4, <1>5
<1>7. ASSUME NEW i \in 1 .. n - offset
      PROVE  offset + i \in DOMAIN list /\ slice[i] = list[offset + i]
  <2>1. i \in 1 .. n - (offset + 1) + 1 /\ (offset + 1) + i - 1 = offset + i
    BY <1>1
  <2>2. offset + i \in 1 .. total
    BY <1>1
  <2> QED
    BY <1>1, <1>4, <2>1, <2>2
<1> QED
  BY <1>6, <1>7 DEF slice

\* _page_response: the fields of a page.
LEMMA PageIs ==
  ASSUME NEW g, NEW offset, NEW limit
  PROVE  LET page == Page(g, offset, limit)
         IN  /\ page.nodes = SubSeq(g.nodes, offset + 1, Min({offset + limit, Len(g.nodes)}))
             /\ page.next = IF offset + limit < Len(g.nodes) THEN offset + limit ELSE 0
             /\ page.truncated = (page.next # 0 \/ Cardinality(page.edges) > MaxEdges)
<1> DEFINE nodes == SubSeq(g.nodes, offset + 1, Min({offset + limit, Len(g.nodes)}))
           edges == {e \in g.edges : Adjacent(e, Range(nodes))}
           next == IF offset + limit < Len(g.nodes) THEN offset + limit ELSE 0
           truncated == next # 0 \/ Cardinality(edges) > MaxEdges
<1>1. Page(g, offset, limit) = [nodes |-> nodes, edges |-> edges, next |-> next, truncated |-> truncated]
  BY Zenon DEF Page
<1> HIDE DEF nodes, edges, next, truncated
<1>2. /\ Page(g, offset, limit).nodes = nodes /\ Page(g, offset, limit).edges = edges
      /\ Page(g, offset, limit).next = next /\ Page(g, offset, limit).truncated = truncated
  BY <1>1
<1> QED
  BY <1>2, Zenon DEF nodes, next, truncated

\* Its edges are those of the scope between its nodes.
LEMMA PageEdgesAre ==
  ASSUME NEW g, NEW offset, NEW limit
  PROVE  LET page == Page(g, offset, limit)
         IN  \A e : e \in page.edges <=> e \in g.edges /\ Adjacent(e, Range(page.nodes))
  BY DEF Page

\* No entry stands twice in the list.
Injective(list) == \A i, j \in DOMAIN list : list[i] = list[j] => i = j

\* The pages a list is cut into.
PageNumbers(list, limit) == {n \in 0 .. Len(list) : n = 0 \/ n * limit < Len(list)}

\* _page_response: the pages show each entry once, and next leads to the next one.
LEMMA PagesShow ==
  ASSUME NEW A, NEW g, g.nodes \in Seq(A), Injective(g.nodes), NEW limit \in Nat \ {0}
  PROVE  /\ DOMAIN Pages(g, limit) = PageNumbers(g.nodes, limit)
         /\ ShownOnce(g.nodes, Pages(g, limit))
         /\ \A k \in PageNumbers(g.nodes, limit) :
              Pages(g, limit)[k].next =
                IF k + 1 \in PageNumbers(g.nodes, limit) THEN (k + 1) * limit ELSE 0
<1> DEFINE list == g.nodes
           total == Len(list)
           D == PageNumbers(list, limit)
           pages == Pages(g, limit)
           At(k) == k * limit
           Size(k) == IF limit <= total - At(k) THEN limit ELSE total - At(k)
<1>1. total \in Nat /\ DOMAIN list = 1 .. total /\ list \in Seq(A)
  OBVIOUS
<1>2. DOMAIN pages = D /\ \A k \in D : pages[k] = Page(g, At(k), limit)
  BY DEF Pages, PageNumbers
<1>3. \A k \in Nat : At(k) \in Nat /\ k <= At(k)
  BY TimesIs
<1>4. \A k \in Nat : At(k + 1) = At(k) + limit
  BY TimesIs
<1>5. \A k, m \in Nat : k < m => At(k) + limit <= At(m)
  BY TimesIs
<1>6. At(0) = 0
  OBVIOUS
<1>7. \A k : k \in D <=> k \in 0 .. total /\ (k = 0 \/ At(k) < total)
  BY DEF PageNumbers
<1> HIDE DEF D, At
<1>8. \A k \in D : At(k) \in 0 .. total /\ k \in Nat
  <2> HIDE DEF total
  <2> TAKE k \in D
  <2>1. k \in Nat /\ At(k) \in Nat /\ (At(k) < total \/ At(k) = 0)
    BY <1>1, <1>3, <1>6, <1>7
  <2> QED
    BY <1>1, <2>1
<1>9. ASSUME NEW k \in D
      PROVE  /\ DOMAIN pages[k].nodes = 1 .. Size(k)
             /\ \A i \in 1 .. Size(k) : At(k) + i \in DOMAIN list /\ pages[k].nodes[i] = list[At(k) + i]
  <2>1. pages[k].nodes = SubSeq(list, At(k) + 1, Min({At(k) + limit, total}))
    BY <1>2, PageIs
  <2>2. At(k) \in 0 .. total
    BY <1>8
  <2> DEFINE n == Min({At(k) + limit, total})
             slice == SubSeq(list, At(k) + 1, n)
  <2> HIDE DEF pages
  <2>3. pages[k].nodes = slice
    BY <2>1
  <2> HIDE DEF list, slice
  <2>4. n = At(k) + Size(k) /\ n \in At(k) .. total
    <3>1. At(k) + limit \in Nat
      BY <2>2
    <3>2. n = IF At(k) + limit <= total THEN At(k) + limit ELSE total
      BY <1>1, <3>1, LesserIs
    <3> HIDE DEF n, total
    <3> QED
      BY <1>1, <2>2, <3>2
  <2> HIDE DEF n
  <2>5. /\ DOMAIN slice = 1 .. n - At(k)
        /\ \A i \in 1 .. n - At(k) : At(k) + i \in DOMAIN list /\ slice[i] = list[At(k) + i]
    <3>1. list \in Seq(A) /\ At(k) \in 0 .. Len(list) /\ n \in At(k) .. Len(list)
      BY <1>1, <2>2, <2>4
    <3> HIDE DEF At
    <3> QED
      BY <3>1, SliceIs, Zenon DEF slice
  <2>6. n - At(k) = Size(k)
    <3> HIDE DEF total
    <3> QED
      BY <1>1, <2>2, <2>4
  <2> HIDE DEF Size
  <2> QED
    BY <2>3, <2>5, <2>6
<1>10. ASSUME NEW k \in D
      PROVE  pages[k].next = IF At(k) + limit < total THEN At(k) + limit ELSE 0
  <2>1. pages[k] = Page(g, At(k), limit)
    BY <1>2
  <2>2. Page(g, At(k), limit).next = IF At(k) + limit < total THEN At(k) + limit ELSE 0
    BY PageIs
  <2> HIDE DEF pages
  <2> QED
    BY <2>1, <2>2
<1> HIDE DEF pages, list
<1>11. ASSUME NEW k \in D
      PROVE  pages[k].next = IF k + 1 \in D THEN At(k + 1) ELSE 0
  <2>1. k \in Nat /\ At(k + 1) = At(k) + limit /\ k + 1 <= At(k + 1) /\ k + 1 # 0 /\ At(k + 1) \in Nat
    <3>1. k \in Nat /\ k + 1 \in Nat
      BY <1>8
    <3> QED
      BY <1>3, <1>4, <3>1
  <2> HIDE DEF total
  <2>2. k + 1 \in D <=> At(k + 1) < total
    BY <1>1, <1>7, <2>1
  <2> QED
    BY <1>10, <2>1, <2>2
<1> HIDE DEF total
\* Where an entry is shown.
<1>12. ASSUME NEW j \in 1 .. total
      PROVE  \E k \in D : \E i \in 1 .. Size(k) : At(k) + i = j
  <2> DEFINE Until == {k \in Nat : j <= At(k) + limit}
  <2>1. j \in Until /\ Until \in SUBSET Nat
    <3>1. j \in Nat
      BY <1>1
    <3>2. At(j) \in Nat /\ j <= At(j)
      BY <1>3, <3>1
    <3> QED
      BY <3>1, <3>2
  <2>2. PICK k \in Until : \A m \in Until : k <= m
    BY <2>1, LeastIs
  <2>3. k = 0 \/ At(k) < j
    <3>1. CASE k # 0
      <4>1. k - 1 \in Nat /\ (k - 1) + 1 = k /\ k - 1 \notin Until
        BY <2>2, <3>1
      <4>2. At(k) = At(k - 1) + limit /\ At(k - 1) \in Nat
        BY <1>3, <1>4, <4>1
      <4> QED
        BY <4>1, <4>2
    <3> QED
      BY <3>1
  <2>4. At(k) < j /\ At(k) \in Nat /\ k \in Nat /\ k <= At(k) /\ j <= At(k) + limit
    BY <1>3, <1>6, <2>2, <2>3
  <2> HIDE DEF Until
  <2>5. k \in D
    BY <1>1, <1>7, <2>4
  <2>6. j - At(k) \in 1 .. Size(k) /\ At(k) + (j - At(k)) = j
    BY <1>1, <2>4
  <2> QED
    BY <2>5, <2>6
<1>13. ASSUME NEW k \in D, NEW m \in D, NEW i \in 1 .. Size(k), NEW h \in 1 .. Size(m),
              At(k) + i = At(m) + h
       PROVE  k = m /\ i = h
  <2>1. /\ k \in Nat /\ m \in Nat /\ At(k) \in Nat /\ At(m) \in Nat
        /\ i \in Nat /\ h \in Nat /\ 1 <= i /\ 1 <= h /\ i <= limit /\ h <= limit
    <3> HIDE DEF Size
    <3>1. k \in Nat /\ m \in Nat /\ At(k) \in 0 .. total /\ At(m) \in 0 .. total
      BY <1>8
    <3> USE DEF Size
    <3> QED
      BY <1>1, <3>1
  <2>2. ~ k < m
    BY <1>13, <1>5, <2>1
  <2>3. ~ m < k
    BY <1>13, <1>5, <2>1
  <2> QED
    BY <1>13, <2>1, <2>2, <2>3
<1> DEFINE spots == UNION {{k} \X DOMAIN pages[k].nodes : k \in DOMAIN pages}
           Shown(spot) == pages[spot[1]].nodes[spot[2]]
<1> HIDE DEF Size
<1>14. \A spot : spot \in spots <=> \E k \in D : \E i \in 1 .. Size(k) : spot = <<k, i>>
  <2> TAKE spot
  <2>1. spot \in spots <=> \E k \in DOMAIN pages : spot \in {k} \X DOMAIN pages[k].nodes
    OBVIOUS
  <2>2. \A k \in D : DOMAIN pages[k].nodes = 1 .. Size(k)
    BY <1>9
  <2> HIDE DEF spots
  <2>3. ASSUME NEW k \in D
        PROVE  spot \in {k} \X DOMAIN pages[k].nodes <=> \E i \in 1 .. Size(k) : spot = <<k, i>>
    <3>1. DOMAIN pages[k].nodes = 1 .. Size(k)
      BY <2>2
    <3> QED
      BY <3>1
  <2> QED
    BY <1>2, <2>1, <2>3
<1>15. \A k \in D : \A i \in 1 .. Size(k) : Shown(<<k, i>>) = list[At(k) + i]
  BY <1>9
<1> HIDE DEF spots, Shown
<1>16. {Shown(spot) : spot \in spots} = Range(list)
  <2>1. \A x : x \in Range(list) <=> \E j \in 1 .. total : x = list[j]
    BY <1>1 DEF Range
  <2>2. ASSUME NEW spot \in spots
        PROVE  Shown(spot) \in Range(list)
    BY <1>1, <1>9, <1>14, <1>15, <2>1
  <2>3. ASSUME NEW j \in 1 .. total
        PROVE  \E spot \in spots : list[j] = Shown(spot)
    <3>1. PICK k \in D : \E i \in 1 .. Size(k) : At(k) + i = j
      BY <1>12
    <3>2. PICK i \in 1 .. Size(k) : At(k) + i = j
      BY <3>1
    <3>3. <<k, i>> \in spots /\ Shown(<<k, i>>) = list[j]
      BY <1>14, <1>15, <3>2
    <3> QED
      BY <3>3
  <2> QED
    BY <2>1, <2>2, <2>3
<1>17. ASSUME NEW r \in spots, NEW s \in spots, Shown(r) = Shown(s)
       PROVE  r = s
  <2>1. PICK k \in D : \E i \in 1 .. Size(k) : r = <<k, i>>
    BY <1>14
  <2>2. PICK i \in 1 .. Size(k) : r = <<k, i>>
    BY <2>1
  <2>3. PICK m \in D : \E h \in 1 .. Size(m) : s = <<m, h>>
    BY <1>14
  <2>4. PICK h \in 1 .. Size(m) : s = <<m, h>>
    BY <2>3
  <2>5. list[At(k) + i] = list[At(m) + h]
    BY <1>15, <1>17, <2>2, <2>4
  <2>6. At(k) + i \in DOMAIN list /\ At(m) + h \in DOMAIN list
    BY <1>9
  <2>7. At(k) + i = At(m) + h
    BY <2>5, <2>6 DEF Injective, list
  <2> QED
    BY <1>13, <2>2, <2>4, <2>7
<1>18. ShownOnce(list, pages)
  BY <1>16, <1>17 DEF ShownOnce, spots, Shown
<1> QED
  BY <1>2, <1>11, <1>18 DEF pages, D, list, At

(***************************************************************************)
(* The graph: the nodes and edges of a scope                               *)
(***************************************************************************)

\* A row holds a text.
Typed == ix.note \in [Files -> Texts \cup {Missing}]

\* The notes with a row are finitely many numbers, and so are their tags.
LEMMA NotesAre ==
  ASSUME LinkAssumption, GraphAssumption, Typed
  PROVE  /\ IsFiniteSet(NoteRows) /\ NoteRows \subseteq Nat \ {0}
         /\ \A p \in NoteRows : Tagged(p) \subseteq Nat \ {0} /\ IsFiniteSet(Tagged(p))
<1>1. NoteRows \subseteq Markdown /\ NoteRows \subseteq Files
  BY DEF NoteRows, LinkAssumption
<1>2. IsFiniteSet(NoteRows)
  BY <1>1, FS_Subset DEF LinkAssumption
<1>3. \A p \in NoteRows : ix.note[p] \in Texts
  BY <1>1 DEF NoteRows, Typed
<1> QED
  BY <1>1, <1>2, <1>3 DEF LinkAssumption, GraphAssumption, Tagged

\* The tags of a scope are finitely many numbers.
LEMMA ScopeTagsAre ==
  ASSUME LinkAssumption, GraphAssumption, Typed, NEW notes \in SUBSET NoteRows, NEW tag
  PROVE  IsFiniteSet(ScopeTags(notes, tag)) /\ ScopeTags(notes, tag) \subseteq Nat \ {0}
<1> DEFINE f == [p \in notes |-> Tagged(p)]
           sets == {Tagged(p) : p \in notes}
<1>1. IsFiniteSet(notes)
  BY NotesAre, FS_Subset
<1>2. \A p \in notes : Tagged(p) \subseteq Nat \ {0} /\ IsFiniteSet(Tagged(p))
  BY NotesAre
<1>3. f \in Surjection(notes, sets)
  <2> HIDE DEF Tagged
  <2> QED
    BY DEF Surjection
<1>4. IsFiniteSet(sets)
  <2> HIDE DEF f, sets
  <2> QED
    BY <1>1, <1>3, FS_Surjection
<1>5. \A S \in sets : S \subseteq Nat \ {0} /\ IsFiniteSet(S)
  BY <1>2
<1>6. ScopeTags(notes, tag) \subseteq UNION sets
  BY DEF ScopeTags
<1> HIDE DEF sets
<1>7. IsFiniteSet(UNION sets)
  BY <1>4, <1>5, FS_UNION
<1>8. UNION sets \subseteq Nat \ {0}
  BY <1>5
<1> QED
  BY <1>6, <1>7, <1>8, FS_Subset

\* _scope_nodes_and_edges: the nodes are the notes and the tags, each once.
LEMMA ScopeNodesAre ==
  ASSUME LinkAssumption, GraphAssumption, Typed, NEW notes \in SUBSET NoteRows, NEW tag
  PROVE  /\ ScopeNodes(notes, tag) \in Seq({"note", "tag"} \X Nat)
         /\ Range(ScopeNodes(notes, tag)) = ({"note"} \X notes) \cup ({"tag"} \X ScopeTags(notes, tag))
         /\ Injective(ScopeNodes(notes, tag))
<1> DEFINE tags == ScopeTags(notes, tag)
           a == Ascending(notes)
           b == Ascending(tags)
           m == Cardinality(notes)
           n == Cardinality(tags)
           u == [i \in DOMAIN a |-> <<"note", a[i]>>]
           v == [i \in DOMAIN b |-> <<"tag", b[i]>>]
           A == {"note", "tag"} \X Nat
           s == ScopeNodes(notes, tag)
<1>1. s = u \o v
  BY Zenon DEF ScopeNodes
<1>2. notes \in SUBSET Nat /\ IsFiniteSet(notes)
  BY NotesAre, FS_Subset
<1>3. tags \in SUBSET Nat /\ IsFiniteSet(tags)
  BY ScopeTagsAre
<1> HIDE DEF tags
<1>4. /\ m \in Nat /\ a \in [1 .. m -> notes]
      /\ \A x \in notes : \E i \in 1 .. m : a[i] = x
      /\ \A i, j \in 1 .. m : i < j => a[i] < a[j]
  BY <1>2, AscendingIs
<1>5. /\ n \in Nat /\ b \in [1 .. n -> tags]
      /\ \A x \in tags : \E i \in 1 .. n : b[i] = x
      /\ \A i, j \in 1 .. n : i < j => b[i] < b[j]
  BY <1>3, AscendingIs
<1> HIDE DEF a, b, m, n, s
<1>6. u \in Seq(A) /\ Len(u) = m /\ \A i \in 1 .. m : u[i] = <<"note", a[i]>>
  <2>1. \A i \in 1 .. m : <<"note", a[i]>> \in A
    BY <1>2, <1>4
  <2>2. DOMAIN a = 1 .. m
    BY <1>4
  <2> HIDE DEF A
  <2> QED
    BY <1>4, <2>1, <2>2
<1>7. v \in Seq(A) /\ Len(v) = n /\ \A i \in 1 .. n : v[i] = <<"tag", b[i]>>
  <2>1. \A i \in 1 .. n : <<"tag", b[i]>> \in A
    BY <1>3, <1>5
  <2>2. DOMAIN b = 1 .. n
    BY <1>5
  <2> HIDE DEF A
  <2> QED
    BY <1>5, <2>1, <2>2
<1> HIDE DEF u, v
<1>8. /\ s \in Seq(A) /\ Len(s) = m + n
      /\ \A i \in 1 .. m + n : s[i] = IF i <= m THEN u[i] ELSE v[i - m]
  <2> HIDE DEF A
  <2>1. /\ u \o v \in Seq(A) /\ Len(u \o v) = Len(u) + Len(v)
        /\ \A i \in 1 .. Len(u) + Len(v) : (u \o v)[i] = IF i <= Len(u) THEN u[i] ELSE v[i - Len(u)]
    <3>1. u \in Seq(A) /\ v \in Seq(A)
      BY <1>6, <1>7
    <3> QED
      BY <3>1, ConcatProperties
  <2> QED
    BY <1>1, <1>6, <1>7, <2>1
<1> HIDE DEF A
<1>9. DOMAIN s = 1 .. m + n
  BY <1>4, <1>5, <1>8
<1>10. \A i \in 1 .. m : i \in 1 .. m + n /\ s[i] = <<"note", a[i]>>
  <2> TAKE i \in 1 .. m
  <2>1. i \in 1 .. m + n /\ i <= m
    BY <1>4, <1>5
  <2> QED
    BY <1>6, <1>8, <2>1
<1>11. \A i \in 1 .. n : m + i \in 1 .. m + n /\ s[m + i] = <<"tag", b[i]>>
  <2> TAKE i \in 1 .. n
  <2>1. m + i \in 1 .. m + n /\ ~ m + i <= m /\ (m + i) - m = i
    BY <1>4, <1>5
  <2> QED
    BY <1>7, <1>8, <2>1
<1>12. \A i \in 1 .. m + n : i \in 1 .. m \/ \E j \in 1 .. n : i = m + j
  <2> TAKE i \in 1 .. m + n
  <2>1. i \in 1 .. m \/ (i - m \in 1 .. n /\ i = m + (i - m))
    BY <1>4, <1>5
  <2> QED
    BY <2>1
<1>13. Range(s) = ({"note"} \X notes) \cup ({"tag"} \X tags)
  <2>1. \A x : x \in Range(s) <=> \E i \in 1 .. m + n : x = s[i]
    BY <1>9 DEF Range
  <2>2. ASSUME NEW x \in Range(s)
        PROVE  x \in ({"note"} \X notes) \cup ({"tag"} \X tags)
    <3>1. PICK i \in 1 .. m + n : x = s[i]
      BY <2>1
    <3>2. CASE i \in 1 .. m
      <4>1. a[i] \in notes /\ x = <<"note", a[i]>>
        BY <1>4, <1>10, <3>1, <3>2
      <4> QED
        BY <4>1
    <3>3. ASSUME NEW j \in 1 .. n, i = m + j
          PROVE  x \in {"tag"} \X tags
      <4>1. b[j] \in tags /\ x = <<"tag", b[j]>>
        BY <1>5, <1>11, <3>1, <3>3
      <4> QED
        BY <4>1
    <3> QED
      BY <1>12, <3>2, <3>3
  <2>3. ASSUME NEW p \in notes
        PROVE  <<"note", p>> \in Range(s)
    BY <1>4, <1>10, <2>1
  <2>4. ASSUME NEW t \in tags
        PROVE  <<"tag", t>> \in Range(s)
    <3>1. PICK i \in 1 .. n : b[i] = t
      BY <1>5
    <3> QED
      BY <1>11, <2>1, <3>1
  <2> QED
    BY <2>2, <2>3, <2>4
<1>14. \A i, j \in 1 .. m : a[i] = a[j] => i = j
  <2> TAKE i, j \in 1 .. m
  <2>1. a[i] \in Nat /\ a[j] \in Nat /\ m \in Nat
    BY <1>2, <1>4
  <2>2. (i < j => a[i] < a[j]) /\ (j < i => a[j] < a[i])
    BY <1>4
  <2> QED
    BY <2>1, <2>2
<1>15. \A i, j \in 1 .. n : b[i] = b[j] => i = j
  <2> TAKE i, j \in 1 .. n
  <2>1. b[i] \in Nat /\ b[j] \in Nat /\ n \in Nat
    BY <1>3, <1>5
  <2>2. (i < j => b[i] < b[j]) /\ (j < i => b[j] < b[i])
    BY <1>5
  <2> QED
    BY <2>1, <2>2
<1>16. ASSUME NEW i \in DOMAIN s, NEW j \in DOMAIN s, s[i] = s[j]
       PROVE  i = j
  <2>1. CASE i \in 1 .. m /\ j \in 1 .. m
    BY <1>10, <1>14, <1>16, <2>1
  <2>2. ASSUME NEW h \in 1 .. n, NEW k \in 1 .. n, i = m + h, j = m + k
        PROVE  i = j
    <3>1. b[h] = b[k]
      BY <1>11, <1>16, <2>2
    <3> QED
      BY <1>15, <2>2, <3>1
  <2>3. ASSUME NEW h \in 1 .. m, NEW k \in 1 .. n
        PROVE  s[h] # s[m + k]
    BY <1>10, <1>11
  <2> QED
    BY <1>9, <1>12, <1>16, <2>1, <2>2, <2>3
<1> QED
  BY <1>8, <1>13, <1>16 DEF Injective, s, tags, A

\* The edges of a scope leave a note of it, and lead to a note or a tag of it or
\* nowhere.
LEMMA ScopeEdgesAre ==
  ASSUME NEW q, NEW notes, NEW pairs, NEW e \in Scope(q, notes, pairs).edges
  PROVE  /\ e.from \in {"note"} \X notes
         /\ e.to \in ({"note"} \X notes) \cup ({"tag"} \X ScopeTags(notes, q.tag)) \cup {<<"none", Nowhere>>}
<1>1. e \in LinkEdges(notes, q.broken) \cup TagEdges(notes, q.tag) \cup SemanticEdges(notes, pairs)
  BY DEF Scope
<1>2. CASE e \in LinkEdges(notes, q.broken)
  <2>1. PICK p \in notes : \E i \in DOMAIN ix.links[p] :
          e = [type |-> "link", from |-> <<"note", p>>, seq |-> i,
               to |-> IF ix.links[p][i].to \in notes THEN <<"note", ix.links[p][i].to>>
                      ELSE <<"none", Nowhere>>]
    BY <1>2 DEF LinkEdges
  <2> QED
    BY <2>1
<1>3. CASE e \in TagEdges(notes, q.tag)
  <2>1. PICK p \in notes : \E t \in ScopeTags(notes, q.tag) :
          e = [type |-> "tag", from |-> <<"note", p>>, seq |-> 0, to |-> <<"tag", t>>]
    BY <1>3 DEF TagEdges
  <2> QED
    BY <2>1
<1>4. CASE e \in SemanticEdges(notes, pairs)
  <2>1. PICK x \in pairs : /\ x[1] \in notes /\ x[2] \in notes
                           /\ e = [type |-> "semantic", from |-> <<"note", x[1]>>, seq |-> 0,
                                   to |-> <<"note", x[2]>>]
    BY <1>4 DEF SemanticEdges
  <2> QED
    BY <2>1
<1> QED
  BY <1>1, <1>2, <1>3, <1>4

\* Every answer is the scope of some notes with a row.
LEMMA GraphIsScope ==
  ASSUME GraphAssumption, NEW q \in Requests, Answerable(q)
  PROVE  \E notes \in SUBSET NoteRows : \E pairs : Graph(q) = Scope(q, notes, pairs)
<1>1. CASE q.scope = "global"
  <2>1. Graph(q) = GlobalGraph(q)
    BY <1>1 DEF Graph
  <2> QED
    BY <2>1, Zenon DEF GlobalGraph
<1>2. CASE q.scope = "tag"
  <2>1. Graph(q) = TagGraph(q)
    BY <1>2 DEF Graph
  <2> QED
    BY <2>1, Zenon DEF TagGraph
<1>3. CASE q.scope = "local"
  <2> DEFINE pairs == SemanticPairs(SemanticCandidates(q.root), q.semantic)
             near == {p \in NoteRows : <<p, q.root>> \in pairs \/ <<q.root, p>> \in pairs}
             linked == Visited(q.root, q.depth, q.direction)
             notes == {p \in linked \cup near : p = q.root \/ HasTag(p, q.tag)}
  <2>1. Graph(q) = LocalGraph(q)
    BY <1>3 DEF Graph
  <2>2. Graph(q) = Scope(q, notes, pairs)
    BY <2>1, Zenon DEF LocalGraph
  <2>3. q.root \in NoteRows /\ q.depth \in Nat
    BY <1>3 DEF Answerable, Valid, GraphAssumption
  <2>4. linked \subseteq NoteRows
    BY <2>3, VisitedIs DEF Reached
  <2> HIDE DEF linked
  <2>5. notes \in SUBSET NoteRows
    BY <2>4
  <2> HIDE DEF notes
  <2> QED
    BY <2>2, <2>5
<1> QED
  BY <1>1, <1>2, <1>3 DEF GraphAssumption

\* Without semantic edges, a local scope is what the links reach.
LEMMA LocalNotesAre ==
  ASSUME GraphAssumption, NEW q \in Requests, Answerable(q), q.scope = "local", ~q.semantic
  PROVE  Graph(q).notes = {p \in NoteRows : /\ p = q.root \/ HasTag(p, q.tag)
                                            /\ Reaches(q.root, p, q.depth, q.direction)}
<1> DEFINE pairs == SemanticPairs(SemanticCandidates(q.root), q.semantic)
           near == {p \in NoteRows : <<p, q.root>> \in pairs \/ <<q.root, p>> \in pairs}
           linked == Visited(q.root, q.depth, q.direction)
           notes == {p \in linked \cup near : p = q.root \/ HasTag(p, q.tag)}
<1>1. Graph(q) = LocalGraph(q)
  BY DEF Graph
<1>2. Graph(q) = Scope(q, notes, pairs)
  BY <1>1, Zenon DEF LocalGraph
<1>3. q.root \in NoteRows /\ q.depth \in Nat
  BY DEF Answerable, Valid, GraphAssumption
<1>4. linked = Reached(q.root, q.depth, q.direction)
  BY <1>3, VisitedIs
<1>5. near = {}
  BY DEF SemanticPairs
<1> HIDE DEF linked, near, pairs
<1>6. notes = {p \in NoteRows : /\ p = q.root \/ HasTag(p, q.tag)
                                /\ Reaches(q.root, p, q.depth, q.direction)}
  BY <1>4, <1>5 DEF Reached
<1> HIDE DEF notes
<1>7. Scope(q, notes, pairs).notes = notes
  BY DEF Scope
<1> QED
  BY <1>2, <1>6, <1>7

\* Whatever the rows are, stale or not, the graph of them is right.
LEMMA GraphCorrect ==
  ASSUME LinkAssumption, GraphAssumption, Typed
  PROVE  GraphIsFaithful
<1> SUFFICES ASSUME NEW q \in Requests, Answerable(q)
             PROVE  LET g == Graph(q)
                        first == Page(g, 0, q.limit)
                        pages == Pages(g, q.limit)
                    IN /\ q.scope = "local" /\ ~q.semantic =>
                            g.notes = {p \in NoteRows : /\ p = q.root \/ HasTag(p, q.tag)
                                                        /\ Reaches(q.root, p, q.depth, q.direction)}
                       /\ Range(g.nodes) = ({"note"} \X g.notes) \cup ({"tag"} \X ScopeTags(g.notes, q.tag))
                       /\ ShownOnce(g.nodes, pages)
                       /\ \A k \in DOMAIN pages :
                            LET ends == Range(pages[k].nodes) \cup {<<"none", Nowhere>>}
                            IN /\ pages[k].next = IF k + 1 \in DOMAIN pages THEN (k + 1) * q.limit ELSE 0
                               /\ \A e \in pages[k].edges : /\ {e.from, e.to} \subseteq ends
                                                            /\ e.to[1] = "note" => e.to[2] \in NoteRows
                       /\ ~first.truncated => first.edges = g.edges /\ first.nodes = g.nodes
  BY Zenon DEF GraphIsFaithful
<1> DEFINE g == Graph(q)
           limit == q.limit
           first == Page(g, 0, limit)
           pages == Pages(g, limit)
           A == {"note", "tag"} \X Nat
<1>1. PICK notes \in SUBSET NoteRows : \E pairs : g = Scope(q, notes, pairs)
  BY GraphIsScope
<1>2. PICK pairs : g = Scope(q, notes, pairs)
  BY <1>1
<1> DEFINE tags == ScopeTags(notes, q.tag)
<1>3. limit \in Nat \ {0}
  BY DEF Answerable, Valid, GraphAssumption
<1>4. g.notes = notes /\ g.nodes = ScopeNodes(notes, q.tag)
  BY <1>2 DEF Scope
<1>5. q.scope = "local" /\ ~q.semantic =>
        g.notes = {p \in NoteRows : /\ p = q.root \/ HasTag(p, q.tag)
                                    /\ Reaches(q.root, p, q.depth, q.direction)}
  BY LocalNotesAre
<1> HIDE DEF g, limit
<1>6. g.nodes \in Seq(A) /\ Range(g.nodes) = ({"note"} \X notes) \cup ({"tag"} \X tags) /\ Injective(g.nodes)
  <2>1. /\ ScopeNodes(notes, q.tag) \in Seq({"note", "tag"} \X Nat)
        /\ Range(ScopeNodes(notes, q.tag)) = ({"note"} \X notes) \cup ({"tag"} \X ScopeTags(notes, q.tag))
        /\ Injective(ScopeNodes(notes, q.tag))
    BY ScopeNodesAre
  <2> HIDE DEF A, tags
  <2> QED
    BY <1>4, <2>1 DEF A, tags
<1> HIDE DEF A
<1>7. /\ DOMAIN pages = PageNumbers(g.nodes, limit)
      /\ ShownOnce(g.nodes, pages)
      /\ \A k \in PageNumbers(g.nodes, limit) :
           pages[k].next = IF k + 1 \in PageNumbers(g.nodes, limit) THEN (k + 1) * limit ELSE 0
  BY <1>3, <1>6, PagesShow
<1>8. ASSUME NEW e \in g.edges
      PROVE  /\ e.from \in {"note"} \X notes
             /\ e.to \in ({"note"} \X notes) \cup ({"tag"} \X tags) \cup {<<"none", Nowhere>>}
  BY <1>2, <1>8, ScopeEdgesAre
<1> HIDE DEF tags
<1>9. ASSUME NEW k \in DOMAIN pages, NEW e \in pages[k].edges
      PROVE  /\ {e.from, e.to} \subseteq Range(pages[k].nodes) \cup {<<"none", Nowhere>>}
             /\ e.to[1] = "note" => e.to[2] \in NoteRows
  <2>1. pages[k] = Page(g, k * limit, limit)
    BY DEF Pages
  <2> HIDE DEF pages
  <2> DEFINE page == Page(g, k * limit, limit)
  <2>2. \A x : x \in page.edges <=> x \in g.edges /\ Adjacent(x, Range(page.nodes))
    BY PageEdgesAre
  <2> HIDE DEF page
  <2>3. e \in g.edges /\ Adjacent(e, Range(pages[k].nodes))
    <3>1. page = pages[k]
      BY <2>1 DEF page
    <3>2. e \in page.edges
      BY <1>9, <3>1
    <3>3. e \in g.edges /\ Adjacent(e, Range(page.nodes))
      BY <2>2, <3>2
    <3> QED
      BY <3>1, <3>3
  <2>4. /\ e.from \in {"note"} \X notes
        /\ e.to \in ({"note"} \X notes) \cup ({"tag"} \X tags) \cup {<<"none", Nowhere>>}
    BY <1>8, <2>3
  <2>5. e.to[1] = "none" => e.to = <<"none", Nowhere>>
    BY <2>4
  <2>6. e.to[1] = "note" => e.to[2] \in notes
    BY <2>4
  <2> QED
    BY <2>3, <2>5, <2>6 DEF Adjacent
<1>10. ASSUME ~first.truncated
       PROVE  first.edges = g.edges /\ first.nodes = g.nodes
  <2> DEFINE total == Len(g.nodes)
  <2>1. /\ first.nodes = SubSeq(g.nodes, 0 + 1, Min({0 + limit, total}))
        /\ first.next = IF 0 + limit < total THEN 0 + limit ELSE 0
        /\ first.truncated = (first.next # 0 \/ Cardinality(first.edges) > MaxEdges)
    BY PageIs
  <2>2. \A e : e \in first.edges <=> e \in g.edges /\ Adjacent(e, Range(first.nodes))
    BY PageEdgesAre
  <2>3. total \in Nat
    BY <1>6
  <2> HIDE DEF first
  <2>4. first.next = 0
    BY <1>10, <2>1
  <2>5. total <= limit
    <3> HIDE DEF total
    <3> QED
      BY <1>3, <2>1, <2>3, <2>4
  <2>6. Min({0 + limit, total}) = total
    <3> HIDE DEF total
    <3>1. 0 + limit \in Nat /\ (0 + limit <= total => 0 + limit = total)
      BY <1>3, <2>3, <2>5
    <3> QED
      BY <2>3, <3>1, LesserIs
  <2>7. first.nodes = g.nodes
    <3>1. SubSeq(g.nodes, 1, total) = g.nodes
      BY <1>6, SubSeqFull
    <3> QED
      BY <2>1, <2>6, <3>1
  <2>8. \A e \in g.edges : Adjacent(e, Range(g.nodes))
    BY <1>6, <1>8 DEF Adjacent
  <2>9. first.edges \subseteq g.edges /\ g.edges \subseteq first.edges
    BY <2>7, <2>8, <2>2
  <2>10. first.edges = g.edges
    BY <2>9
  <2> QED
    BY <2>7, <2>10
<1> HIDE DEF pages, first
<1>11. \A k \in DOMAIN pages :
         LET ends == Range(pages[k].nodes) \cup {<<"none", Nowhere>>}
         IN /\ pages[k].next = IF k + 1 \in DOMAIN pages THEN (k + 1) * limit ELSE 0
            /\ \A e \in pages[k].edges : /\ {e.from, e.to} \subseteq ends
                                         /\ e.to[1] = "note" => e.to[2] \in NoteRows
  BY <1>7, <1>9
<1> QED
  BY <1>4, <1>5, <1>6, <1>7, <1>10, <1>11 DEF g, limit, tags, pages, first

\* GraphIsFaithful: the graph a client puts together from the pages of its
\* request is that of the rows: the notes within the distance, their tags, each
\* node once, no edge into the void, nothing left out unmarked
\* (server/graph/service.py local_graph, _scope_nodes_and_edges, _page_response).
THEOREM GraphsAreFaithful == LinksSpec => []GraphIsFaithful
<1>1. LinksInv => Typed
  BY DEF LinksInv, Tables, Shaped, Typed
<1>2. LinksInv => GraphIsFaithful
  BY <1>1, GraphCorrect, LinkAssumption, GraphAssumption
<1> QED
  BY <1>2, LinksInvariance, PTL
=============================================================================
