------------------------------ MODULE RagProofs ------------------------------
(***************************************************************************)
(* Proofs about the retrieval index and the answers.  The index: whatever  *)
(* its threads interleave, no answer can cite a removed note, every vector *)
(* is of the text of its chunk, and a rebuild nothing disturbed leaves the *)
(* index whole.  The answers: links only add to what was found directly,   *)
(* the evidence fits its budgets, and prose is grounded in it.             *)
(***************************************************************************)
EXTENDS RagIndex, RagAnswer, OrderingProofs, SequenceTheorems

(***************************************************************************)
(* Numbers and places                                                      *)
(***************************************************************************)

\* A bounded set of numbers has a greatest one.
LEMMA GreatestIs ==
  ASSUME NEW n \in Nat, NEW S \in SUBSET (1 .. n), S # {}
  PROVE  \E m \in S : \A k \in S : k <= m
<1> DEFINE T == {n - k : k \in S}
<1>1. T \in SUBSET Nat /\ T # {}
  <2>1. \A k \in S : n - k \in Nat
    OBVIOUS
  <2> QED
    BY <2>1
<1>2. PICK d \in T : \A e \in T : d <= e
  BY <1>1, LeastIs
<1>3. PICK m \in S : d = n - m
  BY <1>2
<1>4. \A k \in S : n - m <= n - k
  BY <1>2, <1>3
<1>5. \A k \in S : k \in Int /\ m \in Int
  BY <1>3
<1>6. \A k \in S : k <= m
  BY <1>4, <1>5
<1> QED
  BY <1>3, <1>6

\* The next path of a loop is one of those left.
LEMMA MinIs ==
  ASSUME NEW S \in SUBSET Nat, S # {}
  PROVE  Min(S) \in S /\ \A y \in S : Min(S) <= y
<1>1. \E x \in S : \A y \in S : x <= y
  BY LeastIs
<1> QED
  BY <1>1 DEF Min

(***************************************************************************)
(* Types                                                                   *)
(***************************************************************************)
Note == Texts \cup {Absent}
Piece == UNION {Range(Pieces[t]) : t \in Texts}
AnyHead == UNION {Range(Heads[t]) : t \in Texts}
Id == Paths \X Piece
Heading == [path : Paths, head : AnyHead]

\* Rows and vectors: the identity of a chunk tells its content.
Row == [id : Id, doc : Paths, at : Nat, text : Piece, head : AnyHead]
Chunk == {c \in Row : c.id[2] = c.text}
Vector == {v \in [id : Id, text : Piece, of : Piece, above : Heading, model : Models] :
             v.id[2] = v.text /\ v.id[2] = v.of}
Detail == {g \in [id : Id, doc : Paths, text : Piece, of : Piece, above : Heading] :
             g.id[2] = g.text /\ g.id[2] = g.of}

Event == [kind : {"touch", "move"}, path : Paths, to : Paths]
Walking == {"read", "compare", "write"}
Moving == {"moving", "drop", "rename", "replace"}
Thread == [pc : {"idle", "embed", "store", "missing", "list"} \cup Walking \cup Moving,
           mode : {"none", "sync", "reindex", "build", "retry"}, todo : SUBSET Paths, path : Nat, from : Nat,
           text : Note, queue : SUBSET Chunk, got : SUBSET Detail, model : Models \cup {"none"}, stored : BOOLEAN]

\* Who walks has a path, who works has a model, who compares has a text.
Placed(r) ==
  /\ r.pc \in Walking \cup Moving => r.path \in Paths
  /\ r.pc \in Moving => r.from \in Paths
  /\ r.pc # "idle" => r.model \in Models
  /\ r.pc = "compare" => r.text \in Texts

StoreTypes ==
  /\ doc \in [Paths -> Note] /\ rows \subseteq Chunk /\ vecs \subseteq Vector
  /\ run = [p \in Paths |-> run[p]]

ThreadTypes == th \in [Threads -> Thread] /\ \A t \in Threads : Placed(th[t])

TypeInv ==
  /\ StoreTypes /\ ThreadTypes
  /\ disk \in [Paths -> Note] /\ events \in Seq(Event) /\ pend \subseteq Paths /\ model \in Models
  /\ calm \in {"no", "rebuilding", "fresh"}

(***************************************************************************)
(* What the races leave intact                                             *)
(***************************************************************************)

\* Every row has its document, every vector its row.
StoreInv ==
  /\ CitedIsIndexed
  /\ \A v \in vecs : \E r \in rows : r.id = v.id

(***************************************************************************)
(* What an undisturbed rebuild builds                                      *)
(***************************************************************************)
Blank(x) == x # Absent => Pieces[x] = <<>>

\* Of several chunks with one identity the last remains.
Kept(chunks) == {c \in chunks : \A d \in chunks : d.id = c.id => d.at <= c.at}

Empty(p) == doc[p] = Absent /\ ChunksFor(p, rows) = {}
Whole(p) == IF Blank(disk[p]) THEN Empty(p)
            ELSE doc[p] = disk[p] /\ ChunksFor(p, rows) = Kept(ChunkDocument(p, disk[p]))

\* The packed runs are those of the rows and vectors, all of the current model.
Repacked ==
  /\ \A v \in vecs : v.model = model
  /\ \A p \in Paths : run[p] = Packed(p, rows, vecs)

\* Each vector was embedded under the path and head its chunk has now.
Headed == \A v \in vecs : \E r \in rows : r.id = v.id /\ v.above = Above(r)

\* While the rebuild is undisturbed it is alone.
RebuildingInv ==
  LET j == th["job"] IN
  /\ \A t \in Flushers \cup {"watch"} : th[t].pc = "idle"
  /\ j.mode = "build" /\ j.model = model
  /\ j.pc \in {"list", "read", "write", "missing", "embed", "store"}
  /\ Repacked /\ Headed
  /\ j.pc = "list" => (\A p \in Paths : Empty(p)) /\ vecs = {} /\ j.from = 0 /\ j.todo = {}
  /\ j.pc \in {"read", "write"} =>
       /\ \A p \in Paths : IF p \in j.todo \cup {j.path} THEN Empty(p) ELSE Whole(p)
       /\ vecs = {} /\ j.from = 0 /\ j.path \notin j.todo
  /\ j.pc = "write" => j.text = disk[j.path]
  /\ j.pc \in {"missing", "embed", "store"} => (\A p \in Paths : Whole(p)) /\ j.todo = {}
  /\ j.pc = "missing" => j.stored \/ j.from = 0
  /\ j.pc \in {"embed", "store"} => j.queue \subseteq rows
  /\ j.pc = "store" => \A g \in j.got : \E r \in rows : r.id = g.id /\ r.doc = g.doc /\ g.above = Above(r)

\* Afterwards a retry finds nothing to do.
FreshInv ==
  /\ \A p \in Paths : Whole(p)
  /\ \A r \in rows : \E v \in vecs : v.id = r.id
  /\ Repacked /\ Headed
  /\ th["job"].pc \in {"idle", "missing"}
  /\ th["job"].pc = "missing" => th["job"].model = model

HealInv ==
  /\ calm = "rebuilding" => RebuildingInv
  /\ calm = "fresh" => FreshInv

RagInv == TypeInv /\ StoreInv /\ HealInv

(***************************************************************************)
(* Chunks                                                                  *)
(***************************************************************************)

\* The pieces of a text have numbered places.
LEMMA PiecesAre ==
  ASSUME RagAssumption, NEW x \in Texts
  PROVE  /\ DOMAIN Pieces[x] = 1 .. Len(Pieces[x]) /\ Len(Pieces[x]) \in Nat
         /\ \A i \in DOMAIN Pieces[x] : i \in Nat /\ Pieces[x][i] \in Piece
         /\ Pieces[x] = <<>> <=> DOMAIN Pieces[x] = {}
<1>1. Pieces[x] \in Seq(Range(Pieces[x]))
  BY DEF RagAssumption
<1>2. \A i \in DOMAIN Pieces[x] : Pieces[x][i] \in Range(Pieces[x])
  BY DEF Range
<1>3. \A i \in DOMAIN Pieces[x] : Pieces[x][i] \in Piece
  BY <1>2 DEF Piece
<1> QED
  BY <1>1, <1>3

\* Each piece has its head.
LEMMA HeadsAre ==
  ASSUME RagAssumption, NEW x \in Texts, NEW i \in DOMAIN Pieces[x]
  PROVE  Heads[x][i] \in AnyHead
<1>1. Heads[x] = [k \in DOMAIN Pieces[x] |-> Heads[x][k]]
  BY DEF RagAssumption
<1>2. i \in DOMAIN Heads[x]
  BY <1>1
<1>3. Heads[x][i] \in Range(Heads[x])
  BY <1>2 DEF Range
<1> QED
  BY <1>3 DEF AnyHead

\* A chunk is named by its path and its content.
LEMMA ChunkDocumentIs ==
  ASSUME RagAssumption, NEW p \in Paths, NEW x \in Texts
  PROVE  /\ ChunkDocument(p, x) \subseteq Chunk
         /\ \A c \in ChunkDocument(p, x) : c.doc = p /\ c.id = <<p, c.text>>
         /\ \A c, d \in ChunkDocument(p, x) : c.at = d.at => c = d
         /\ {c.text : c \in ChunkDocument(p, x)} = Range(Pieces[x])
         /\ \A c \in ChunkDocument(p, x) : c.at \in 1 .. Len(Pieces[x])
<1> DEFINE C(i) == [id |-> <<p, Pieces[x][i]>>, doc |-> p, at |-> i, text |-> Pieces[x][i], head |-> Heads[x][i]]
<1>1. ChunkDocument(p, x) = {C(i) : i \in DOMAIN Pieces[x]}
  BY DEF ChunkDocument, ChunkId
<1>2. ASSUME NEW i \in DOMAIN Pieces[x]
      PROVE  /\ C(i) \in Row /\ C(i).id = <<p, Pieces[x][i]>> /\ C(i).text = Pieces[x][i] /\ C(i).doc = p /\ C(i).at = i
             /\ C(i).id[2] = C(i).text
  BY PiecesAre, HeadsAre DEF Row, Id
<1> HIDE DEF C
<1>3. \A i \in DOMAIN Pieces[x] : C(i) \in Chunk
  BY <1>2 DEF Chunk
<1>4. {c.text : c \in ChunkDocument(p, x)} = Range(Pieces[x])
  BY <1>1, <1>2 DEF Range
<1>5. ASSUME NEW c \in ChunkDocument(p, x)
      PROVE  c \in Chunk /\ c.doc = p /\ c.id = <<p, c.text>> /\ c.at \in DOMAIN Pieces[x] /\ c = C(c.at)
  BY <1>1, <1>2, <1>3
<1> QED
  BY <1>4, <1>5, PiecesAre

\* The pieces that remain of repeated ones.
LEMMA KeptIs ==
  ASSUME RagAssumption, NEW p \in Paths, NEW x \in Texts
  PROVE  /\ Kept(ChunkDocument(p, x)) \subseteq ChunkDocument(p, x)
         /\ {c.text : c \in Kept(ChunkDocument(p, x))} = Range(Pieces[x])
<1> DEFINE D == ChunkDocument(p, x)
<1>1. /\ D \subseteq Chunk /\ (\A c \in D : c.doc = p /\ c.id = <<p, c.text>> /\ c.at \in 1 .. Len(Pieces[x]))
      /\ {c.text : c \in D} = Range(Pieces[x]) /\ Len(Pieces[x]) \in Nat
  BY ChunkDocumentIs, PiecesAre
<1> HIDE DEF D
<1>2. ASSUME NEW c \in D
      PROVE  \E d \in Kept(D) : d.text = c.text
  <2> DEFINE S == {d.at : d \in {e \in D : e.id = c.id}}
  <2>1. S \in SUBSET (1 .. Len(Pieces[x])) /\ S # {}
    BY <1>1
  <2>2. PICK m \in S : \A k \in S : k <= m
    BY <1>1, <2>1, GreatestIs
  <2>3. PICK d \in D : d.id = c.id /\ d.at = m
    BY <2>2
  <2>4. \A e \in D : e.id = d.id => e.at <= d.at
    BY <2>2, <2>3
  <2>5. d.text = c.text
    BY <1>1, <2>3
  <2> QED
    BY <2>4, <2>5 DEF Kept
<1>3. Kept(D) \subseteq D
  BY DEF Kept
<1>4. {c.text : c \in Kept(D)} = {c.text : c \in D}
  BY <1>2, <1>3
<1> QED
  BY <1>1, <1>3, <1>4 DEF D

\* Among chunks of one document with different places, the rank tells the chunk.
LEMMA PlaceTells ==
  ASSUME NEW S, IsFiniteSet(S), NEW p \in Nat, \A c \in S : c.doc = p /\ c.at \in Nat,
         \A c, d \in S : c.at = d.at => c = d,
         NEW a \in S, NEW b \in S, Place(a, S) = Place(b, S)
  PROVE  a = b
<1> DEFINE Below(c) == {d \in S : Before(d, c)}
<1>1. \A c, d \in S : Before(d, c) <=> d.at < c.at
  BY DEF Before
<1>2. ASSUME NEW c \in S, NEW d \in S, c.at < d.at
      PROVE  Place(c, S) # Place(d, S)
  <2>1. Below(c) \in SUBSET Below(d) /\ c \in Below(d) /\ c \notin Below(c)
    BY <1>1, <1>2
  <2>2. IsFiniteSet(Below(d))
    BY FS_Subset
  <2> HIDE DEF Below
  <2>3. Cardinality(Below(d)) # Cardinality(Below(c))
    BY <2>1, <2>2, FS_Subset
  <2> QED
    BY <2>3 DEF Place, Below
<1>3. ~ (a.at < b.at) /\ ~ (b.at < a.at)
  BY <1>2
<1>4. a.at = b.at
  BY <1>3
<1> QED
  BY <1>4

(***************************************************************************)
(* Threads                                                                 *)
(***************************************************************************)

\* A thread goes on with a record of its own.
LEMMA BecomesIs ==
  ASSUME TypeInv, NEW t \in Threads, NEW c, Becomes(t, c)
  PROVE  /\ th'[t] = c /\ \A u \in Threads \ {t} : th'[u] = th[u]
         /\ c \in Thread /\ Placed(c) => ThreadTypes'
BY DEF Becomes, TypeInv, ThreadTypes

\* A thread at rest.
LEMMA IdleIs == Idle \in Thread /\ Placed(Idle) /\ Idle.pc = "idle"
BY DEF Idle, Thread, Placed, Note, Walking, Moving

\* The next document, the pass over the missing vectors, or the end.
LEMMA NextPathIs ==
  ASSUME RagAssumption, TypeInv, NEW t \in Threads, th[t].pc # "idle"
  PROVE  LET r == th[t]
             n == NextPath(t)
         IN  /\ n \in Thread /\ Placed(n)
             /\ r.todo # {} => /\ n.pc = "read" /\ n.path \in r.todo /\ n.todo = r.todo \ {n.path}
                              /\ n.mode = r.mode /\ n.model = r.model /\ n.from = r.from
             /\ r.todo = {} /\ t = "job" => /\ n.pc = "missing" /\ n.todo = {} /\ n.mode = r.mode
                                            /\ n.model = r.model /\ n.from = r.from /\ n.stored = r.stored
                                            /\ n.queue = {}
             /\ r.todo = {} /\ t # "job" => n = Idle
<1> DEFINE r == th[t]
           n == NextPath(t)
           m == Min(r.todo)
           rest == r.todo \ {m}
<1>1. r \in Thread /\ Placed(r) /\ r.todo \in SUBSET Paths /\ rest \in SUBSET Paths /\ Paths \subseteq Nat
      /\ r.model \in Models /\ Absent \in Note
  BY DEF TypeInv, ThreadTypes, Thread, Placed, RagAssumption, Note
<1>2. CASE r.todo # {}
  <2>1. m \in r.todo
    BY <1>1, <1>2, MinIs
  <2>2. n = [r EXCEPT !.pc = "read", !.path = m, !.queue = {}, !.todo = rest, !.text = Absent, !.got = {}]
    BY <1>2 DEF NextPath
  <2> HIDE DEF r, n, m, rest
  <2>3. /\ n \in Thread /\ n.pc = "read" /\ n.path = m /\ n.todo = rest
        /\ n.mode = r.mode /\ n.model = r.model /\ n.from = r.from
    BY <1>1, <2>1, <2>2 DEF Thread, Walking
  <2>4. Placed(n)
    BY <1>1, <2>1, <2>3 DEF Placed, Moving
  <2> QED
    BY <1>2, <2>1, <2>3, <2>4 DEF r, n, m, rest
<1>3. CASE r.todo = {} /\ t = "job"
  <2>1. n = [r EXCEPT !.pc = "missing", !.path = 0, !.queue = {}, !.text = Absent, !.got = {}]
    BY <1>3 DEF NextPath
  <2> HIDE DEF r, n, m, rest
  <2>2. /\ n \in Thread /\ n.pc = "missing" /\ n.todo = r.todo
        /\ n.mode = r.mode /\ n.model = r.model /\ n.from = r.from /\ n.stored = r.stored
        /\ n.queue = {}
    BY <1>1, <2>1 DEF Thread
  <2>3. Placed(n)
    BY <1>1, <2>2 DEF Placed, Moving, Walking
  <2> QED
    BY <1>3, <2>2, <2>3 DEF r, n
<1>4. CASE r.todo = {} /\ t # "job"
  BY <1>4, IdleIs DEF NextPath
<1> QED
  BY <1>2, <1>3, <1>4

\* The chunks left of this document, or what comes after it.
LEMMA EmbedNextIs ==
  ASSUME RagAssumption, TypeInv, NEW t \in Threads, th[t].pc # "idle", NEW q \in SUBSET Chunk
  PROVE  LET r == th[t]
             n == EmbedNext(t, q)
         IN  /\ n \in Thread /\ Placed(n)
             /\ q = {} => n = NextPath(t)
             /\ q # {} => /\ n.pc = "embed" /\ n.queue = q /\ n.mode = r.mode /\ n.model = r.model
                         /\ n.from = r.from /\ n.todo = r.todo
<1> DEFINE r == th[t]
           n == EmbedNext(t, q)
<1>1. r \in Thread /\ Placed(r) /\ r.model \in Models
  BY DEF TypeInv, ThreadTypes, Placed
<1>2. CASE q = {}
  BY <1>2, NextPathIs DEF EmbedNext
<1>3. CASE q # {}
  <2>1. n = [r EXCEPT !.pc = "embed", !.queue = q, !.got = {}]
    BY <1>3 DEF EmbedNext
  <2> HIDE DEF r, n
  <2>2. /\ n \in Thread /\ n.pc = "embed" /\ n.queue = q /\ n.mode = r.mode /\ n.model = r.model
        /\ n.from = r.from /\ n.todo = r.todo
    BY <1>1, <2>1 DEF Thread
  <2>3. Placed(n)
    BY <1>1, <2>2 DEF Placed, Moving, Walking
  <2> QED
    BY <1>3, <2>2, <2>3 DEF r, n
<1> QED
  BY <1>2, <1>3

(***************************************************************************)
(* Transactions                                                            *)
(***************************************************************************)

\* A document gets other chunks; vectors without a chunk go.
LEMMA UpsertIs ==
  ASSUME RagAssumption, TypeInv, StoreInv, NEW p \in Paths, NEW x \in Texts, UpsertChunks(p, x)
  PROVE  StoreTypes' /\ StoreInv'
<1> DEFINE D == ChunkDocument(p, x)
<1>1. D \subseteq Chunk /\ \A c \in D : c.doc = p
  BY ChunkDocumentIs
<1>2. /\ rows' = {r \in rows : r.doc # p /\ \A c \in Kept(D) : c.id # r.id} \cup Kept(D)
      /\ vecs' = {v \in vecs : \E r \in rows' : r.id = v.id}
      /\ doc' = [doc EXCEPT ![p] = x] /\ run' = run
  BY DEF UpsertChunks, Upserted, Kept, Cascade
<1> HIDE DEF D
<1>3. Kept(D) \subseteq D
  BY DEF Kept
<1>4. doc \in [Paths -> Note] /\ rows \subseteq Chunk /\ vecs \subseteq Vector /\ run = [q \in Paths |-> run[q]]
      /\ x \in Note /\ x # Absent
  BY DEF TypeInv, StoreTypes, RagAssumption, Note
<1>5. StoreTypes'
  BY <1>1, <1>2, <1>3, <1>4 DEF StoreTypes
<1>6. ASSUME NEW r \in rows'
      PROVE  doc'[r.doc] # Absent
  <2>1. r.doc \in Paths
    BY <1>1, <1>2, <1>3, <1>4, <1>6 DEF Chunk, Row
  <2>2. r \in rows \/ r.doc = p
    BY <1>1, <1>2, <1>3, <1>6
  <2> QED
    BY <1>2, <1>4, <2>1, <2>2 DEF StoreInv, CitedIsIndexed
<1> QED
  BY <1>2, <1>5, <1>6 DEF StoreInv, CitedIsIndexed

\* A document goes with its chunks and their vectors.
LEMMA DeleteIs ==
  ASSUME TypeInv, StoreInv, NEW p \in Paths, DeleteDocument(p)
  PROVE  StoreTypes' /\ StoreInv'
<1>1. /\ rows' = {r \in rows : r.doc # p} /\ vecs' = {v \in vecs : \E r \in rows' : r.id = v.id}
      /\ doc' = [doc EXCEPT ![p] = Absent] /\ run' = [run EXCEPT ![p] = {}]
  BY DEF DeleteDocument, Cascade
<1>2. doc \in [Paths -> Note] /\ rows \subseteq Chunk /\ vecs \subseteq Vector /\ run = [q \in Paths |-> run[q]]
      /\ Absent \in Note
  BY DEF TypeInv, StoreTypes, Note
<1>3. run' = [q \in Paths |-> run'[q]]
  BY <1>1, <1>2
<1>4. StoreTypes'
  BY <1>1, <1>2, <1>3 DEF StoreTypes
<1>5. \A r \in rows' : doc'[r.doc] # Absent
  BY <1>1, <1>2 DEF StoreInv, CitedIsIndexed, Chunk, Row
<1> QED
  BY <1>1, <1>4, <1>5 DEF StoreInv, CitedIsIndexed

\* A renamed document keeps its chunks and their names.
LEMMA RenameIs ==
  ASSUME TypeInv, StoreInv, NEW p \in Paths, NEW q \in Paths, doc[p] # Absent, RenameDocument(p, q)
  PROVE  StoreTypes' /\ StoreInv'
<1> DEFINE D(r) == IF r.doc = p THEN q ELSE r.doc
           N(r) == [r EXCEPT !.doc = D(r)]
<1>1. /\ rows' = {N(r) : r \in rows} /\ vecs' = vecs
      /\ doc' = [doc EXCEPT ![p] = Absent, ![q] = doc[p]] /\ run' = [run EXCEPT ![p] = {}, ![q] = run[p]]
  BY DEF RenameDocument
<1>2. doc \in [Paths -> Note] /\ rows \subseteq Chunk /\ vecs \subseteq Vector /\ run = [o \in Paths |-> run[o]]
      /\ Absent \in Note
  BY DEF TypeInv, StoreTypes, Note
<1>3. run' = [o \in Paths |-> run'[o]]
  BY <1>1, <1>2
<1>4. ASSUME NEW r \in rows
      PROVE  N(r) \in Chunk /\ N(r).id = r.id /\ N(r).doc = D(r) /\ doc'[D(r)] # Absent
  <2>1. r \in Row /\ r.id[2] = r.text /\ D(r) \in Paths
    BY <1>2, <1>4 DEF Chunk, Row
  <2>2. N(r) = [r EXCEPT !.doc = D(r)]
    OBVIOUS
  <2>3. doc[r.doc] # Absent
    BY <1>4 DEF StoreInv, CitedIsIndexed
  <2>4. doc'[D(r)] # Absent
    BY <1>1, <1>2, <2>1, <2>3
  <2> HIDE DEF D, N
  <2>5. N(r) \in Row /\ N(r).id = r.id /\ N(r).doc = D(r) /\ N(r).text = r.text
    BY <2>1, <2>2 DEF Row
  <2> QED
    BY <2>1, <2>4, <2>5 DEF Chunk
<1> HIDE DEF D, N
<1>5. StoreTypes'
  BY <1>1, <1>2, <1>3, <1>4 DEF StoreTypes
<1>6. \A r \in rows' : doc'[r.doc] # Absent
  BY <1>1, <1>4
<1>7. \A v \in vecs' : \E r \in rows' : r.id = v.id
  BY <1>1, <1>4 DEF StoreInv
<1> QED
  BY <1>5, <1>6, <1>7 DEF StoreInv, CitedIsIndexed

\* Vectors are stored for chunks that are there.
LEMMA EmbeddingsIs ==
  ASSUME TypeInv, StoreInv, NEW got \in SUBSET Detail, NEW m \in Models, UpsertEmbeddings(got, m),
         \A g \in got : \E r \in rows : r.id = g.id
  PROVE  StoreTypes' /\ StoreInv'
<1> DEFINE V(g) == [id |-> g.id, text |-> g.text, of |-> g.of, above |-> g.above, model |-> m]
<1>1. /\ rows' = rows /\ doc' = doc /\ DOMAIN run' = Paths /\ run' = [p \in Paths |-> run'[p]]
      /\ \A v \in vecs' : v \in vecs \/ \E g \in got : v = V(g)
  BY DEF UpsertEmbeddings
<1>2. \A g \in got : V(g) \in Vector /\ V(g).id = g.id
  BY DEF Vector, Detail
<1> HIDE DEF V
<1>3. doc \in [Paths -> Note] /\ rows \subseteq Chunk /\ vecs \subseteq Vector
  BY DEF TypeInv, StoreTypes
<1>4. StoreTypes'
  BY <1>1, <1>2, <1>3 DEF StoreTypes
<1> QED
  BY <1>1, <1>2, <1>4 DEF StoreInv, CitedIsIndexed

\* An empty store.
LEMMA ResetIs ==
  ASSUME Reset
  PROVE  StoreTypes' /\ StoreInv'
<1>1. rows' = {} /\ vecs' = {} /\ doc' \in [Paths -> Note] /\ run' = [p \in Paths |-> {}]
  BY DEF Reset, Note
<1>2. run' = [p \in Paths |-> run'[p]]
  BY <1>1
<1> QED
  BY <1>1, <1>2 DEF StoreTypes, StoreInv, CitedIsIndexed

(***************************************************************************)
(* Steps                                                                   *)
(***************************************************************************)

\* Every transaction keeps rows under their documents and vectors under their rows.
LEMMA StoreStep ==
  ASSUME RagAssumption, TypeInv, StoreInv, RagNext
  PROVE  StoreTypes' /\ StoreInv'
<1>1. ASSUME UNCHANGED store
      PROVE  StoreTypes' /\ StoreInv'
  BY <1>1 DEF store, TypeInv, StoreTypes, StoreInv, CitedIsIndexed
<1>2. CASE Edit \/ HandleEvent \/ ListPaths \/ Retry \/ Missing \/ DecideMove \/ SwapStack \/ \E t \in Flushers : Flush(t)
  BY <1>1, <1>2 DEF Edit, HandleEvent, ListPaths, Retry, Missing, DecideMove, SwapStack, Flush
<1>3. CASE \E t \in Threads : ReadNote(t) \/ Compare(t) \/ Embed(t)
  BY <1>1, <1>3 DEF ReadNote, Compare, Embed
<1>4. CASE Rebuild
  BY <1>4, ResetIs DEF Rebuild
<1>5. CASE DropMoved \/ RenameMoved \/ ReplaceMoved
  <2> DEFINE w == th["watch"]
  <2>1. Placed(w) /\ w.pc \in Moving
    BY <1>5 DEF TypeInv, ThreadTypes, Threads, Moving, DropMoved, RenameMoved, ReplaceMoved
  <2>2. w.from \in Paths /\ w.path \in Paths
    BY <2>1 DEF Placed
  <2>3. DeleteDocument(w.from) \/ (doc[w.from] # Absent /\ RenameDocument(w.from, w.path)) \/ UNCHANGED store
    BY <1>5 DEF DropMoved, RenameMoved, ReplaceMoved
  <2> HIDE DEF w
  <2> QED
    BY <1>1, <2>2, <2>3, DeleteIs, RenameIs
<1>6. ASSUME NEW t \in Threads, WriteNote(t)
      PROVE  StoreTypes' /\ StoreInv'
  <2> DEFINE r == th[t]
  <2>1. r \in Thread /\ r.path \in Paths
    BY <1>6 DEF TypeInv, ThreadTypes, Placed, Walking, WriteNote
  <2>2. r.text # Absent => r.text \in Texts
    BY <2>1 DEF Thread, Note
  <2>3. UNCHANGED store \/ DeleteDocument(r.path) \/ (r.text # Absent /\ UpsertChunks(r.path, r.text))
    BY <1>6 DEF WriteNote
  <2> HIDE DEF r
  <2> QED
    BY <1>1, <2>1, <2>2, <2>3, DeleteIs, UpsertIs
<1>7. ASSUME NEW t \in Threads, StoreVectors(t)
      PROVE  StoreTypes' /\ StoreInv'
  <2> DEFINE r == th[t]
  <2>1. r \in Thread /\ r.model \in Models
    BY <1>7 DEF TypeInv, ThreadTypes, Placed, StoreVectors
  <2>2. r.got \in SUBSET Detail
    BY <2>1 DEF Thread
  <2>3. UNCHANGED store \/ (UpsertEmbeddings(r.got, r.model) /\ \A g \in r.got : \E o \in rows : o.id = g.id)
    BY <1>7 DEF StoreVectors
  <2> HIDE DEF r
  <2> QED
    BY <1>1, <2>1, <2>2, <2>3, EmbeddingsIs
<1> QED
  BY <1>2, <1>3, <1>4, <1>5, <1>6, <1>7 DEF RagNext

\* What the threads carry keeps its types.
LEMMA ThreadStep ==
  ASSUME RagAssumption, TypeInv, RagNext
  PROVE  ThreadTypes'
<1>1. ASSUME NEW t \in Threads, NEW c \in Thread, Placed(c), Becomes(t, c)
      PROVE  ThreadTypes'
  BY <1>1, BecomesIs
<1>2. /\ disk \in [Paths -> Note] /\ pend \in SUBSET Paths /\ model \in Models /\ Paths \subseteq Nat /\ rows \subseteq Chunk
      /\ {"watch", "job"} \subseteq Threads /\ Flushers \subseteq Threads
  BY DEF TypeInv, StoreTypes, RagAssumption, Threads
<1>3. \A t \in Threads : th[t] \in Thread /\ Placed(th[t]) /\ (th[t].pc # "idle" => th[t].model \in Models)
  BY DEF TypeInv, ThreadTypes, Placed
<1>4. Idle \in Thread /\ Placed(Idle) /\ Idle.path = 0 /\ Idle.from = 0
  BY IdleIs DEF Idle
<1>5. CASE UNCHANGED th
  BY <1>5 DEF TypeInv, ThreadTypes, Placed
<1>6. CASE HandleEvent
  <2> DEFINE e == Head(events)
             c == [Idle EXCEPT !.pc = "moving", !.from = e.path, !.path = e.to, !.model = model]
  <2>1. UNCHANGED th \/ Becomes("watch", c)
    BY <1>6 DEF HandleEvent
  <2>2. e \in Event
    BY <1>6 DEF HandleEvent, TypeInv
  <2>3. e.path \in Paths /\ e.to \in Paths
    BY <2>2 DEF Event
  <2>4. c \in Thread /\ Placed(c)
    BY <1>2, <1>4, <2>3 DEF Thread, Placed, Walking, Moving
  <2> HIDE DEF c
  <2> QED
    BY <1>1, <1>2, <1>5, <2>1, <2>4
<1>7. ASSUME NEW t \in Flushers, Flush(t)
      PROVE  ThreadTypes'
  <2> DEFINE m == Min(pend)
             rest == pend \ {m}
             c == [Idle EXCEPT !.pc = "read", !.mode = "sync", !.path = m, !.todo = rest, !.model = model]
  <2>1. Becomes(t, c)
    BY <1>7 DEF Flush
  <2>2. m \in Paths /\ rest \in SUBSET Paths
    BY <1>2, <1>7, MinIs DEF Flush
  <2> HIDE DEF m, rest
  <2>3. c \in Thread /\ Placed(c)
    BY <1>2, <1>4, <2>2 DEF Thread, Placed, Walking, Moving
  <2> HIDE DEF c
  <2> QED
    BY <1>1, <1>2, <2>1, <2>3
<1>8. CASE Rebuild \/ Retry
  <2> DEFINE c(pc, mode) == [Idle EXCEPT !.pc = pc, !.mode = mode, !.model = model]
  <2>1. Becomes("job", c("list", "build")) \/ Becomes("job", c("missing", "retry"))
    BY <1>8 DEF Rebuild, Retry
  <2>2. ASSUME NEW pc \in {"list", "missing"}, NEW mode \in {"build", "retry"}
        PROVE  c(pc, mode) \in Thread /\ Placed(c(pc, mode))
    BY <1>2, <1>4 DEF Thread, Placed, Walking, Moving
  <2> HIDE DEF c
  <2> QED
    BY <1>1, <1>2, <2>1, <2>2
<1>9. CASE ListPaths
  <2> DEFINE files == {p \in Paths : disk[p] # Absent}
             m == Min(files)
             rest == files \ {m}
             r == th["job"]
             c == [r EXCEPT !.pc = "missing"]
             d == [r EXCEPT !.pc = "read", !.path = m, !.todo = rest]
  <2>1. Becomes("job", IF files = {} THEN c ELSE d) /\ r.pc = "list" /\ rest \in SUBSET Paths
    BY <1>9 DEF ListPaths
  <2>2. files # {} => m \in Paths
    BY <1>2, MinIs
  <2>3. r \in Thread /\ Placed(r) /\ r.model \in Models
    BY <1>2, <1>3, <2>1
  <2> HIDE DEF files, m, rest, r
  <2>4. c \in Thread /\ c.pc = "missing" /\ c.model = r.model
    BY <2>3 DEF Thread
  <2>5. files # {} => d \in Thread /\ d.pc = "read" /\ d.model = r.model /\ d.path = m
    BY <1>2, <2>1, <2>2, <2>3 DEF Thread, Walking
  <2> HIDE DEF c, d
  <2>6. Placed(c) /\ (files # {} => Placed(d))
    BY <2>2, <2>3, <2>4, <2>5 DEF Placed, Walking, Moving
  <2> QED
    BY <1>1, <1>2, <2>1, <2>4, <2>5, <2>6
<1>10. ASSUME NEW t \in Threads, ReadNote(t)
       PROVE  ThreadTypes'
  <2> DEFINE r == th[t]
             x == disk[r.path]
             pc == IF r.mode = "sync" /\ x \notin {Absent, Binary} THEN "compare" ELSE "write"
             c == [r EXCEPT !.text = x, !.pc = pc]
  <2>1. Becomes(t, c) /\ r.pc = "read"
    BY <1>10 DEF ReadNote
  <2>2. r \in Thread /\ r.path \in Paths /\ r.model \in Models /\ x \in Note /\ pc \in {"compare", "write"}
    BY <1>2, <1>3, <2>1 DEF Placed, Walking
  <2> HIDE DEF x, pc, r
  <2>3. c \in Thread /\ c.pc = pc /\ c.path = r.path /\ c.model = r.model /\ c.text = x
    BY <2>2 DEF Thread, Walking
  <2>4. pc = "compare" => x \in Texts
    BY <2>2 DEF pc, Note
  <2> HIDE DEF c
  <2>5. Placed(c)
    BY <2>2, <2>3, <2>4 DEF Placed, Moving
  <2> QED
    BY <1>1, <2>1, <2>3, <2>5
<1>11. ASSUME NEW t \in Threads, NEW p \in Paths, NEW x \in Texts
       PROVE  ChunkDocument(p, x) \in SUBSET Chunk
  BY ChunkDocumentIs
<1>12. ASSUME NEW t \in Threads, Compare(t)
       PROVE  ThreadTypes'
  <2> DEFINE r == th[t]
             Misses(c) == ~Reusable(c, r.model)
             q == {c \in ChunksFor(r.path, rows) : Misses(c)}
             s == {c \in ChunkDocument(r.path, r.text) : Misses(c)}
             d == [r EXCEPT !.pc = "write", !.queue = s]
  <2>1. Becomes(t, IF doc[r.path] = r.text THEN EmbedNext(t, q) ELSE d) /\ r.pc = "compare"
    BY <1>12 DEF Compare
  <2>2. r \in Thread /\ r.path \in Paths /\ r.model \in Models
    BY <1>2, <1>3, <2>1 DEF Placed, Walking
  <2>3. q \in SUBSET Chunk
    BY <1>2 DEF ChunksFor
  <2>4. EmbedNext(t, q) \in Thread /\ Placed(EmbedNext(t, q))
    BY <2>1, <2>3, EmbedNextIs
  <2>5. s \in SUBSET Chunk
    <3>1. r.text \in Texts
      BY <1>3, <2>1 DEF Placed
    <3> QED
      BY <1>11, <2>2, <3>1
  <2> HIDE DEF q, s, r
  <2>6. d \in Thread /\ d.pc = "write" /\ d.path = r.path /\ d.model = r.model
    BY <2>2, <2>5 DEF Thread, Walking
  <2> HIDE DEF d
  <2>7. Placed(d)
    BY <2>2, <2>6 DEF Placed, Moving
  <2> QED
    BY <1>1, <2>1, <2>4, <2>6, <2>7
<1>13. ASSUME NEW t \in Threads, WriteNote(t)
       PROVE  ThreadTypes'
  <2> DEFINE r == th[t]
             Misses(c) == ~\E v \in vecs' : v.id = c.id /\ v.model = r.model /\ v.text = c.text
             s == {c \in ChunkDocument(r.path, r.text) : Misses(c)}
  <2>1. /\ r.pc = "write"
        /\ \/ Becomes(t, NextPath(t))
           \/ r.text \notin {Absent, Binary} /\ Becomes(t, EmbedNext(t, r.queue))
           \/ r.text \notin {Absent, Binary} /\ Becomes(t, EmbedNext(t, s))
    BY <1>13 DEF WriteNote
  <2>2. r \in Thread /\ r.path \in Paths /\ r.queue \in SUBSET Chunk
    BY <1>3, <2>1 DEF Placed, Walking, Thread
  <2>3. NextPath(t) \in Thread /\ Placed(NextPath(t))
    BY <2>1, NextPathIs
  <2>4. EmbedNext(t, r.queue) \in Thread /\ Placed(EmbedNext(t, r.queue))
    BY <2>1, <2>2, EmbedNextIs
  <2>5. r.text # Absent => EmbedNext(t, s) \in Thread /\ Placed(EmbedNext(t, s))
    <3>1. r.text # Absent => r.text \in Texts
      BY <2>2 DEF Thread, Note
    <3>2. r.text # Absent => s \in SUBSET Chunk
      BY <1>11, <2>2, <3>1
    <3> HIDE DEF s
    <3> QED
      BY <2>1, <3>2, EmbedNextIs
  <2> HIDE DEF r, s
  <2> QED
    BY <1>1, <2>1, <2>3, <2>4, <2>5
<1>14. ASSUME NEW t \in Threads, Embed(t)
       PROVE  ThreadTypes'
  <2> DEFINE r == th[t]
             window == {c \in r.queue : Place(c, r.queue) < Batch}
             rest == r.queue \ window
             found == {o \in rows : \E w \in window : w.id = o.id}
             G(of, o) == [id |-> o.id, doc |-> o.doc, text |-> o.text, of |-> of[o].text, above |-> Above(of[o])]
             Got(of) == {G(of, o) : o \in found}
             C(of) == [r EXCEPT !.pc = "store", !.queue = rest, !.got = Got(of)]
  <2>1. /\ r.pc = "embed"
        /\ \/ Becomes(t, EmbedNext(t, rest))
           \/ \E of \in [found -> window] : (\A o \in found : of[o].id = o.id) /\ Becomes(t, C(of))
    BY <1>14 DEF Embed
  <2>2. r \in Thread /\ r.model \in Models /\ r.queue \in SUBSET Chunk
    BY <1>3, <2>1 DEF Thread
  <2>3. window \in SUBSET Chunk /\ rest \in SUBSET Chunk
    BY <2>2
  <2>4. EmbedNext(t, rest) \in Thread /\ Placed(EmbedNext(t, rest))
    BY <2>1, <2>3, EmbedNextIs
  <2>5. found \subseteq rows
    OBVIOUS
  <2> HIDE DEF window, rest, found
  <2>6. ASSUME NEW of \in [found -> window], \A o \in found : of[o].id = o.id, Becomes(t, C(of))
        PROVE  ThreadTypes'
    <3>1. ASSUME NEW o \in found
          PROVE  G(of, o) \in Detail
      <4> DEFINE w == of[o]
      <4>1. w \in Chunk /\ w.id = o.id /\ o \in Chunk
        BY <1>2, <2>3, <2>5, <2>6
      <4> HIDE DEF w
      <4>2. Above(w) \in Heading
        BY <4>1 DEF Above, Heading, Chunk, Row
      <4>3. G(of, o) = [id |-> o.id, doc |-> o.doc, text |-> o.text, of |-> w.text, above |-> Above(w)]
        BY DEF w
      <4> QED
        BY <4>1, <4>2, <4>3 DEF Detail, Chunk, Row
    <3> HIDE DEF G
    <3>2. Got(of) \in SUBSET Detail
      BY <3>1
    <3> HIDE DEF Got, r
    <3>3. C(of) \in Thread /\ C(of).pc = "store" /\ C(of).model = r.model
      BY <2>2, <2>3, <3>2 DEF Thread
    <3> HIDE DEF C
    <3>4. Placed(C(of))
      BY <2>2, <3>3 DEF Placed, Walking, Moving
    <3> QED
      BY <1>1, <2>6, <3>3, <3>4
  <2> QED
    BY <1>1, <2>1, <2>4, <2>6
<1>15. ASSUME NEW t \in Threads, StoreVectors(t)
       PROVE  ThreadTypes'
  <2> DEFINE e == EmbedNext(t, th[t].queue)
             b == (t = "job")
             c == [e EXCEPT !.stored = b]
  <2>1. th[t].pc = "store" /\ (Becomes(t, c) \/ Becomes(t, Idle))
    BY <1>15 DEF StoreVectors, Dies
  <2>2. th[t].queue \in SUBSET Chunk
    BY <1>3, <2>1 DEF Thread
  <2>3. e \in Thread /\ Placed(e) /\ b \in BOOLEAN
    BY <2>1, <2>2, EmbedNextIs
  <2> HIDE DEF e, b
  <2>4. /\ c \in Thread /\ c.pc = e.pc /\ c.path = e.path /\ c.from = e.from /\ c.model = e.model
        /\ c.text = e.text
    BY <2>3 DEF Thread
  <2> HIDE DEF c
  <2>5. Placed(c)
    BY <2>3, <2>4 DEF Placed
  <2> QED
    BY <1>1, <1>4, <2>1, <2>4, <2>5
<1>16. CASE Missing
  <2> DEFINE r == th["job"]
             gap == {o \in rows : ~Reusable(o, r.model)}
             c == [r EXCEPT !.pc = "embed", !.queue = gap, !.from = 1, !.stored = FALSE]
  <2>1. r.pc = "missing" /\ (Becomes("job", c) \/ Becomes("job", Idle))
    BY <1>16 DEF Missing
  <2>2. r \in Thread /\ r.model \in Models /\ gap \in SUBSET Chunk
    BY <1>2, <1>3, <2>1
  <2> HIDE DEF gap, r
  <2>3. c \in Thread /\ c.pc = "embed" /\ c.model = r.model
    BY <2>2 DEF Thread
  <2> HIDE DEF c
  <2>4. Placed(c)
    BY <2>2, <2>3 DEF Placed, Walking, Moving
  <2> QED
    BY <1>1, <1>2, <1>4, <2>1, <2>3, <2>4
<1>17. CASE DecideMove \/ DropMoved \/ RenameMoved \/ ReplaceMoved
  <2> DEFINE r == th["watch"]
             c(pc) == [r EXCEPT !.pc = pc]
             d == [r EXCEPT !.pc = "read", !.mode = "reindex"]
  <2>1. /\ r.pc \in Moving
        /\ Becomes("watch", Idle) \/ (\E pc \in {"replace", "drop", "rename"} : Becomes("watch", c(pc))) \/ Becomes("watch", d)
    BY <1>17 DEF DecideMove, DropMoved, RenameMoved, ReplaceMoved, Moving, Dies
  <2>2. r \in Thread /\ r.model \in Models /\ r.path \in Paths /\ r.from \in Paths
    BY <1>2, <1>3, <2>1 DEF Placed, Moving
  <2> HIDE DEF r
  <2>3. \A pc \in {"replace", "drop", "rename"} :
          c(pc) \in Thread /\ c(pc).pc = pc /\ c(pc).model = r.model /\ c(pc).path = r.path /\ c(pc).from = r.from
    BY <2>2 DEF Thread, Moving
  <2>4. d \in Thread /\ d.pc = "read" /\ d.model = r.model /\ d.path = r.path
    BY <2>2 DEF Thread, Walking
  <2> HIDE DEF c, d
  <2>5. Placed(d) /\ \A pc \in {"replace", "drop", "rename"} : Placed(c(pc))
    BY <2>2, <2>3, <2>4 DEF Placed, Walking, Moving
  <2> QED
    BY <1>1, <1>2, <1>4, <2>1, <2>3, <2>4, <2>5
<1>18. CASE Edit \/ SwapStack
  BY <1>5, <1>18 DEF Edit, SwapStack
<1> QED
  BY <1>6, <1>7, <1>8, <1>9, <1>10, <1>12, <1>13, <1>14, <1>15, <1>16, <1>17, <1>18 DEF RagNext

\* The rest of the types.
LEMMA TypeStep ==
  ASSUME RagAssumption, TypeInv, StoreInv, RagNext
  PROVE  TypeInv'
<1>1. StoreTypes' /\ ThreadTypes'
  BY StoreStep, ThreadStep
<1>2. disk' \in [Paths -> Note] /\ events' \in Seq(Event)
  <2>1. CASE Edit
    <3>1. PICK e \in Event : events' = Append(events, e)
      BY <2>1 DEF Edit, Event
    <3>2. disk' \in [Paths -> Note]
      BY <2>1 DEF Edit, TypeInv, Note
    <3> QED
      BY <3>1, <3>2 DEF TypeInv
  <2>2. CASE HandleEvent
    BY <2>2 DEF HandleEvent, TypeInv
  <2>3. CASE ~Edit /\ ~HandleEvent
    <3>1. UNCHANGED <<disk, events>>
      BY <2>3 DEF RagNext, Rebuild, ListPaths, Retry, Missing, DecideMove, DropMoved, RenameMoved, ReplaceMoved, SwapStack,
                  Flush, ReadNote, Compare, WriteNote, Embed, StoreVectors
    <3> QED
      BY <3>1 DEF TypeInv
  <2> QED
    BY <2>1, <2>2, <2>3
<1>3. pend' \subseteq Paths
  <2>1. CASE HandleEvent
    <3>1. Head(events) \in Event /\ (pend' = pend \cup {Head(events).path} \/ pend' = pend \ {Head(events).path})
      BY <2>1 DEF HandleEvent, TypeInv
    <3> QED
      BY <3>1 DEF Event, TypeInv
  <2>2. CASE ~HandleEvent
    <3>1. pend' = pend \/ pend' = {}
      BY <2>2 DEF RagNext, Edit, Rebuild, ListPaths, Retry, Missing, DecideMove, DropMoved, RenameMoved, ReplaceMoved, SwapStack,
                  Flush, ReadNote, Compare, WriteNote, Embed, StoreVectors
    <3> QED
      BY <3>1 DEF TypeInv
  <2> QED
    BY <2>1, <2>2
<1>4. model' \in Models
  <2>1. model' = model \/ model' \in Models \ {model}
    BY DEF RagNext, Edit, HandleEvent, Rebuild, ListPaths, Retry, Missing, DecideMove, DropMoved, RenameMoved, ReplaceMoved,
           SwapStack, Flush, ReadNote, Compare, WriteNote, Embed, StoreVectors
  <2> QED
    BY <2>1 DEF TypeInv
<1>5. calm' \in {"no", "rebuilding", "fresh"}
  <2>1. calm' \in {calm, "no", "rebuilding", "fresh"}
    BY DEF RagNext, Edit, HandleEvent, Rebuild, ListPaths, Retry, Missing, DecideMove, DropMoved, RenameMoved, ReplaceMoved,
           SwapStack, Flush, ReadNote, Compare, WriteNote, Embed, StoreVectors, Disturbs
  <2> QED
    BY <2>1 DEF TypeInv
<1> QED
  BY <1>1, <1>2, <1>3, <1>4, <1>5 DEF TypeInv

(***************************************************************************)
(* The rebuild                                                             *)
(***************************************************************************)

\* In a store of whole and empty documents a row is named by its own document
\* and content, and no two rows share a name.
LEMMA WholeRows ==
  ASSUME RagAssumption, TypeInv, \A p \in Paths : Whole(p) \/ Empty(p)
  PROVE  /\ \A r \in rows : r.id = <<r.doc, r.text>>
         /\ \A r, s \in rows : r.id = s.id => r = s
<1>1. ASSUME NEW r \in rows
      PROVE  /\ r.doc \in Paths /\ disk[r.doc] \in Texts
             /\ ChunksFor(r.doc, rows) = Kept(ChunkDocument(r.doc, disk[r.doc])) /\ r \in ChunksFor(r.doc, rows)
  <2>1. r.doc \in Paths
    BY DEF TypeInv, StoreTypes, Chunk, Row
  <2>2. r \in ChunksFor(r.doc, rows)
    BY DEF ChunksFor
  <2>3. ~Empty(r.doc)
    BY <2>2 DEF Empty
  <2>4. Whole(r.doc) /\ ~Blank(disk[r.doc])
    BY <2>1, <2>3 DEF Whole
  <2>5. disk[r.doc] # Absent /\ disk[r.doc] \in Note
    BY <2>1, <2>4 DEF Blank, TypeInv
  <2> QED
    BY <2>1, <2>2, <2>4, <2>5 DEF Whole, Note
<1>2. ASSUME NEW r \in rows
      PROVE  r \in ChunkDocument(r.doc, disk[r.doc]) /\ r.id = <<r.doc, r.text>>
  <2> DEFINE q == r.doc
             D == ChunkDocument(q, disk[q])
  <2>1. q \in Paths /\ disk[q] \in Texts /\ r \in Kept(D)
    BY <1>1, <1>2
  <2> DEFINE x == disk[q]
  <2>2. Kept(D) \subseteq D /\ \A c \in D : c.id = <<q, c.text>>
    <3> HIDE DEF q, x
    <3>1. Kept(ChunkDocument(q, x)) \subseteq ChunkDocument(q, x)
      BY <2>1, KeptIs DEF x
    <3>2. \A c \in ChunkDocument(q, x) : c.id = <<q, c.text>>
      BY <2>1, ChunkDocumentIs DEF x
    <3> QED
      BY <3>1, <3>2 DEF x
  <2>3. r \in D
    BY <2>1, <2>2
  <2>4. r.id = <<q, r.text>>
    <3> HIDE DEF D
    <3> QED
      BY <2>2, <2>3
  <2> QED
    BY <2>3, <2>4
<1>3. ASSUME NEW r \in rows, NEW s \in rows, r.id = s.id
      PROVE  r = s
  <2>1. r.doc = s.doc
    BY <1>2, <1>3
  <2>2. r \in Kept(ChunkDocument(r.doc, disk[r.doc])) /\ s \in Kept(ChunkDocument(r.doc, disk[r.doc]))
    BY <1>1, <2>1
  <2>3. r.at <= s.at /\ s.at <= r.at /\ r.at \in Nat /\ s.at \in Nat
    <3>1. r.at \in Nat /\ s.at \in Nat
      BY <1>3 DEF TypeInv, StoreTypes, Chunk, Row
    <3> QED
      BY <1>3, <2>2, <3>1 DEF Kept
  <2>4. r.at = s.at
    BY <2>3
  <2> QED
    <3> DEFINE D == ChunkDocument(r.doc, disk[r.doc])
    <3>1. r \in D /\ s \in D
      BY <1>2, <2>1
    <3>2. \A c, d \in D : c.at = d.at => c = d
      BY <1>1, ChunkDocumentIs
    <3> HIDE DEF D
    <3> QED
      BY <2>4, <3>1, <3>2
<1> QED
  BY <1>2, <1>3

\* The chunks of a document that have a vector.
Embedded(p, rs, vs) == {r \in ChunksFor(p, rs) : \E v \in vs : v.id = r.id}

\* A run of the chunks S by the model m.
RunOf(S, m) == {[at |-> Place(r, S), of |-> r.text, model |-> m] : r \in S}

\* A run holds the texts of those chunks, each at its place among them.
LEMMA PackedIs ==
  ASSUME NEW p, NEW rs \in SUBSET Chunk, NEW vs \in SUBSET Vector, NEW m, \A v \in vs : v.model = m
  PROVE  Packed(p, rs, vs) = RunOf(Embedded(p, rs, vs), m)
<1> DEFINE VecOf(r) == CHOOSE v \in vs : v.id = r.id
           H == Embedded(p, rs, vs)
<1>1. ASSUME NEW r \in H
      PROVE  VecOf(r).of = r.text /\ VecOf(r).model = m
  <2>1. VecOf(r) \in vs /\ VecOf(r).id = r.id /\ r \in rs
    BY DEF Embedded, ChunksFor
  <2> HIDE DEF VecOf
  <2> QED
    BY <2>1 DEF Chunk, Vector
<1>2. Packed(p, rs, vs) = {[at |-> Place(r, H), of |-> VecOf(r).of, model |-> VecOf(r).model] : r \in H}
  BY DEF Packed, Embedded
<1> HIDE DEF VecOf, H
<1>3. {[at |-> Place(r, H), of |-> VecOf(r).of, model |-> VecOf(r).model] : r \in H} = RunOf(H, m)
  BY <1>1 DEF RunOf
<1> QED
  BY <1>2, <1>3 DEF H

\* Nothing that a whole store is made of changes.
LEMMA StillWhole ==
  ASSUME UNCHANGED <<disk, model, store>>
  PROVE  /\ \A p \in Paths : (Whole(p)' <=> Whole(p)) /\ (Empty(p)' <=> Empty(p))
         /\ Repacked' <=> Repacked
         /\ Headed' <=> Headed
<1>1. disk' = disk /\ model' = model /\ doc' = doc /\ rows' = rows /\ vecs' = vecs /\ run' = run
  BY DEF store
<1>2. \A p \in Paths : (Empty(p)' <=> Empty(p))
  BY <1>1 DEF Empty
<1>3. \A p \in Paths : (Whole(p)' <=> Whole(p))
  BY <1>1, <1>2 DEF Whole
<1> QED
  BY <1>1, <1>2, <1>3 DEF Repacked, Headed

\* A rebuild that starts alone starts right.
LEMMA RebuildStarts ==
  ASSUME RagAssumption, TypeInv, Rebuild, calm' = "rebuilding"
  PROVE  RebuildingInv'
<1> DEFINE c == [Idle EXCEPT !.pc = "list", !.mode = "build", !.model = model]
<1>1. /\ rows' = {} /\ vecs' = {} /\ doc' = [p \in Paths |-> Absent] /\ run' = [p \in Paths |-> {}]
      /\ model' = model /\ Becomes("job", c) /\ \A t \in Threads : th[t].pc = "idle"
  BY DEF Rebuild, Reset
<1>2. "job" \in Threads /\ Flushers \cup {"watch"} \subseteq Threads \ {"job"}
  BY DEF Threads, RagAssumption
<1>3. c.pc = "list" /\ c.mode = "build" /\ c.model = model /\ c.from = 0 /\ c.todo = {}
  BY DEF Idle
<1> HIDE DEF c
<1>4. th'["job"] = c /\ \A t \in Flushers \cup {"watch"} : th'[t].pc = "idle"
  BY <1>1, <1>2, BecomesIs
<1>5. \A p \in Paths : Empty(p)'
  BY <1>1 DEF Empty, ChunksFor
<1>6. Repacked'
  <2>1. \A p \in Paths : Packed(p, {}, {}) = {}
    BY DEF Packed, ChunksFor
  <2> QED
    BY <1>1, <2>1 DEF Repacked
<1> QED
  BY <1>1, <1>3, <1>4, <1>5, <1>6 DEF RebuildingInv, Walking, Headed

\* Once it is over, each chunk has its vector and each run is that of its chunks.
LEMMA FreshHeals ==
  ASSUME RagAssumption, TypeInv, FreshInv
  PROVE  \A p \in Paths :
           LET x == disk[p]
               mine == ChunksFor(p, rows)
           IN IF x # Absent => Pieces[x] = <<>> THEN doc[p] = Absent /\ mine = {}
              ELSE /\ doc[p] = x
                   /\ {r.text : r \in mine} = Range(Pieces[x])
                   /\ \A r \in mine : \E v \in vecs :
                        v.id = r.id /\ v.model = model /\ v.above = Above(r)
                   /\ {e.at : e \in run[p]} = {Place(r, mine) : r \in mine}
                   /\ \A pair \in ScanPairs(p) : pair[1].text = pair[2].of
<1> SUFFICES ASSUME NEW p \in Paths
             PROVE  LET x == disk[p]
                        mine == ChunksFor(p, rows)
                    IN IF x # Absent => Pieces[x] = <<>> THEN doc[p] = Absent /\ mine = {}
                       ELSE /\ doc[p] = x
                            /\ {r.text : r \in mine} = Range(Pieces[x])
                            /\ \A r \in mine : \E v \in vecs :
                                 v.id = r.id /\ v.model = model /\ v.above = Above(r)
                            /\ {e.at : e \in run[p]} = {Place(r, mine) : r \in mine}
                            /\ \A pair \in ScanPairs(p) : pair[1].text = pair[2].of
  OBVIOUS
<1> DEFINE x == disk[p]
           mine == ChunksFor(p, rows)
<1>1. Whole(p) /\ (\A r \in rows : \E v \in vecs : v.id = r.id) /\ (\A v \in vecs : v.model = model)
      /\ run[p] = Packed(p, rows, vecs) /\ Headed /\ \A q \in Paths : Whole(q)
  BY DEF FreshInv, Repacked
<1>2. CASE Blank(x)
  BY <1>1, <1>2 DEF Whole, Empty, Blank
<1>3. CASE ~Blank(x)
  <2>1. x # Absent /\ Pieces[x] # <<>> /\ x \in Texts
    BY <1>3 DEF Blank, TypeInv, Note
  <2>2. doc[p] = x /\ mine = Kept(ChunkDocument(p, x))
    BY <1>1, <1>3 DEF Whole
  <2>3. {r.text : r \in mine} = Range(Pieces[x])
    BY <2>1, <2>2, KeptIs
  <2>4. \A r \in mine : \E v \in vecs : v.id = r.id /\ v.model = model /\ v.above = Above(r)
    <3>1. \A r, o \in rows : r.id = o.id => r = o
      BY <1>1, WholeRows
    <3> SUFFICES ASSUME NEW r \in mine
                 PROVE  \E v \in vecs : v.id = r.id /\ v.model = model /\ v.above = Above(r)
      OBVIOUS
    <3>2. PICK v \in vecs : v.id = r.id
      BY <1>1 DEF ChunksFor
    <3>3. PICK o \in rows : o.id = v.id /\ v.above = Above(o)
      BY <1>1 DEF Headed
    <3>4. o = r
      BY <3>1, <3>2, <3>3 DEF ChunksFor
    <3> QED
      BY <1>1, <3>2, <3>3, <3>4
  <2>5. run[p] = {[at |-> Place(r, mine), of |-> r.text, model |-> model] : r \in mine}
    <3>1. Embedded(p, rows, vecs) = mine
      BY <2>4 DEF Embedded
    <3>2. rows \in SUBSET Chunk /\ vecs \in SUBSET Vector
      BY DEF TypeInv, StoreTypes
    <3>3. Packed(p, rows, vecs) = RunOf(Embedded(p, rows, vecs), model)
      BY <1>1, <3>2, PackedIs
    <3> HIDE DEF mine
    <3> QED
      BY <1>1, <3>1, <3>3 DEF RunOf
  <2>6. /\ \A r, s \in mine : r.at = s.at => r = s
        /\ \A r \in mine : r.doc = p /\ r.at \in Nat /\ r.at \in 1 .. Len(Pieces[x])
    <3> DEFINE D == ChunkDocument(p, x)
    <3>1. mine \subseteq D
      BY <2>1, <2>2, KeptIs
    <3>2. /\ \A r, s \in D : r.at = s.at => r = s
          /\ \A r \in D : r.doc = p /\ r.at \in 1 .. Len(Pieces[x])
      BY <2>1, ChunkDocumentIs
    <3>3. Len(Pieces[x]) \in Nat
      BY <2>1, PiecesAre
    <3> HIDE DEF D, mine, x
    <3> QED
      BY <3>1, <3>2, <3>3
  <2> HIDE DEF mine, x
  <2>7. IsFiniteSet(mine)
    <3> DEFINE n == Len(Pieces[x])
               f == [r \in mine |-> r.at]
    <3>1. n \in Nat
      BY <2>1, PiecesAre
    <3>2. IsFiniteSet(1 .. n)
      <4> HIDE DEF n
      <4> QED
        BY <3>1, FS_Interval
    <3>3. f \in Injection(mine, 1 .. n)
      BY <2>6 DEF Injection, IsInjective
    <3> QED
      BY <3>2, <3>3, FS_Injection
  <2>8. {e.at : e \in run[p]} = {Place(r, mine) : r \in mine}
    <3> DEFINE E(r) == [at |-> Place(r, mine), of |-> r.text, model |-> model]
    <3>1. run[p] = {E(r) : r \in mine} /\ \A r \in mine : E(r).at = Place(r, mine)
      BY <2>5
    <3> HIDE DEF E
    <3> QED
      BY <3>1
  <2>9. \A pair \in ScanPairs(p) : pair[1].text = pair[2].of
    <3> SUFFICES ASSUME NEW pair \in ScanPairs(p)
                 PROVE  pair[1].text = pair[2].of
      OBVIOUS
    <3>1. pair[1] \in mine /\ pair[2] \in run[p] /\ Place(pair[1], mine) = pair[2].at
      BY DEF ScanPairs, mine
    <3>2. PICK r \in mine : pair[2] = [at |-> Place(r, mine), of |-> r.text, model |-> model]
      BY <2>5, <3>1
    <3>3. p \in Nat
      BY DEF RagAssumption
    <3>4. r = pair[1]
      BY <2>6, <2>7, <3>1, <3>2, <3>3, PlaceTells
    <3> QED
      BY <3>2, <3>4
  <2> QED
    BY <1>3, <2>1, <2>2, <2>3, <2>4, <2>8, <2>9 DEF x, mine
<1> QED
  BY <1>2, <1>3

\* What is left of an undisturbed rebuild after a step.
LEMMA RebuildingStep ==
  ASSUME RagAssumption, TypeInv, StoreInv, RagNext, calm = "rebuilding", RebuildingInv, calm' # "no"
  PROVE  \/ calm' = "rebuilding" /\ RebuildingInv'
         \/ calm' = "fresh" /\ FreshInv'
<1> DEFINE j == th["job"]
           Others == \A t \in Flushers \cup {"watch"} : th'[t].pc = "idle"
<1>1. /\ \A t \in Flushers \cup {"watch"} : th[t].pc = "idle"
      /\ j.mode = "build" /\ j.model = model /\ j.pc \in {"list", "read", "write", "missing", "embed", "store"}
      /\ Repacked /\ Headed
      /\ j.pc = "list" => (\A p \in Paths : Empty(p)) /\ vecs = {} /\ j.from = 0 /\ j.todo = {}
      /\ j.pc \in {"read", "write"} =>
           /\ \A p \in Paths : IF p \in j.todo \cup {j.path} THEN Empty(p) ELSE Whole(p)
           /\ vecs = {} /\ j.from = 0 /\ j.path \notin j.todo
      /\ j.pc = "write" => j.text = disk[j.path]
      /\ j.pc \in {"missing", "embed", "store"} => (\A p \in Paths : Whole(p)) /\ j.todo = {}
      /\ j.pc = "missing" => j.stored \/ j.from = 0
      /\ j.pc \in {"embed", "store"} => j.queue \subseteq rows
      /\ j.pc = "store" => \A g \in j.got : \E r \in rows : r.id = g.id /\ r.doc = g.doc /\ g.above = Above(r)
  BY DEF RebuildingInv
<1>2. /\ "job" \in Threads /\ Flushers \cup {"watch"} \subseteq Threads \ {"job"} /\ Threads = Flushers \cup {"watch", "job"}
      /\ j \in Thread /\ Placed(j) /\ disk \in [Paths -> Note]
  BY DEF Threads, RagAssumption, TypeInv, ThreadTypes
<1>3. ASSUME NEW c, Becomes("job", c)
      PROVE  th'["job"] = c /\ Others
  BY <1>1, <1>2, <1>3, BecomesIs
<1>4. CASE ListPaths
  <2> DEFINE files == {p \in Paths : disk[p] # Absent}
             m == Min(files)
             rest == files \ {m}
             c == [j EXCEPT !.pc = "missing"]
             d == [j EXCEPT !.pc = "read", !.path = m, !.todo = rest]
  <2>1. /\ Becomes("job", IF files = {} THEN c ELSE d) /\ j.pc = "list" /\ UNCHANGED <<disk, model, store, calm>>
        /\ rest \in SUBSET Paths
    BY <1>4 DEF ListPaths
  <2>2. \A p \in Paths : Empty(p) /\ Empty(p)' /\ (p \notin files => Whole(p)')
    <3>1. \A p \in Paths : p \notin files => Whole(p)
      BY <1>1, <2>1 DEF Whole, Blank
    <3> QED
      BY <1>1, <2>1, <3>1, StillWhole
  <2>3. vecs' = {} /\ Repacked' /\ Headed'
    BY <1>1, <2>1, StillWhole DEF store
  <2>4. CASE files = {}
    <3>1. c.pc = "missing" /\ c.mode = j.mode /\ c.model = j.model /\ c.from = j.from /\ c.todo = j.todo
      BY <1>2 DEF Thread
    <3> HIDE DEF c
    <3>2. th'["job"] = c /\ Others
      BY <1>3, <2>1, <2>4
    <3> HIDE DEF files
    <3> QED
      BY <1>1, <2>1, <2>2, <2>3, <2>4, <3>1, <3>2 DEF RebuildingInv, Walking
  <2>5. CASE files # {}
    <3>1. m \in files
      BY <2>5, MinIs DEF RagAssumption
    <3> HIDE DEF m, rest
    <3>2. d.pc = "read" /\ d.mode = j.mode /\ d.model = j.model /\ d.from = j.from /\ d.todo = rest /\ d.path = m
      BY <1>2, <2>1, <3>1 DEF Thread
    <3> HIDE DEF d
    <3>3. th'["job"] = d /\ Others
      BY <1>3, <2>1, <2>5
    <3>4. \A p \in Paths : IF p \in rest \cup {m} THEN Empty(p)' ELSE Whole(p)'
      BY <2>2 DEF rest
    <3>5. m \notin rest
      BY DEF rest
    <3> HIDE DEF files
    <3> QED
      BY <1>1, <2>1, <2>3, <3>2, <3>3, <3>4, <3>5 DEF RebuildingInv, Walking
  <2> QED
    BY <2>4, <2>5
<1>5. CASE ReadNote("job")
  <2> DEFINE x == disk[j.path]
             c == [j EXCEPT !.text = x, !.pc = "write"]
  <2>1. Becomes("job", c) /\ j.pc = "read" /\ UNCHANGED <<disk, model, store, calm>>
    BY <1>1, <1>5 DEF ReadNote
  <2>2. /\ c.pc = "write" /\ c.text = x /\ c.mode = j.mode /\ c.model = j.model /\ c.from = j.from
        /\ c.todo = j.todo /\ c.path = j.path
    BY <1>2 DEF Thread
  <2> HIDE DEF c
  <2>3. th'["job"] = c /\ Others
    BY <1>3, <2>1
  <2>4. /\ \A p \in Paths : IF p \in j.todo \cup {j.path} THEN Empty(p)' ELSE Whole(p)'
        /\ vecs' = {} /\ Repacked' /\ Headed'
    BY <1>1, <2>1, StillWhole DEF store
  <2> QED
    BY <1>1, <2>1, <2>2, <2>3, <2>4 DEF RebuildingInv, Walking
<1>6. CASE WriteNote("job")
  <2> DEFINE x == j.text
             n == NextPath("job")
  <2>1. PICK p \in Paths : p = j.path
    BY <1>2, <1>6 DEF WriteNote, Placed, Walking
  <2>2. /\ j.pc = "write" /\ Becomes("job", n) /\ UNCHANGED <<disk, model>> /\ calm' = calm
        /\ \/ (x = Binary \/ x = Absent) /\ UNCHANGED store
           \/ x \notin {Binary, Absent} /\ Pieces[x] = <<>> /\ DeleteDocument(p)
           \/ x \notin {Binary, Absent} /\ Pieces[x] # <<>> /\ UpsertChunks(p, x)
    BY <1>1, <1>6, <2>1 DEF WriteNote, Disturbs
  <2>3. /\ p \in Paths /\ x = disk[p] /\ Empty(p) /\ vecs = {} /\ p \notin j.todo /\ j.from = 0 /\ j.todo \in SUBSET Paths
        /\ \A q \in Paths : IF q \in j.todo \cup {p} THEN Empty(q) ELSE Whole(q)
    BY <1>1, <1>2, <2>2, <2>1 DEF Thread
  <2>4. x # Absent => x \in Texts
    BY <1>2, <2>3 DEF Note
  <2>5. /\ th'["job"] = n /\ Others /\ n.mode = j.mode /\ n.model = j.model /\ n.from = j.from
        /\ j.todo # {} => n.pc = "read" /\ n.path \in j.todo /\ n.todo = j.todo \ {n.path}
        /\ j.todo = {} => n.pc = "missing" /\ n.todo = {}
    BY <1>2, <1>3, <2>2, NextPathIs
  <2>6. Whole(p)' /\ vecs' = {} /\ (\A q \in Paths \ {p} : doc'[q] = doc[q] /\ ChunksFor(q, rows') = ChunksFor(q, rows))
        /\ Repacked'
    <3>1. p \in Nat /\ disk' = disk /\ model' = model /\ doc \in [Paths -> Note] /\ run = [q \in Paths |-> run[q]]
          /\ rows \subseteq Chunk
      BY <2>2, <2>3 DEF TypeInv, StoreTypes, RagAssumption
    <3>2. \A r \in rows : r.doc # p /\ r.id = <<r.doc, r.text>>
      <4>1. \A q \in Paths : Whole(q) \/ Empty(q)
        BY <2>3
      <4>2. \A r \in rows : r.doc # p
        BY <2>3 DEF Empty, ChunksFor
      <4> QED
        BY <4>1, <4>2, WholeRows
    <3>3. \A q \in Paths, rs \in SUBSET Chunk : Packed(q, rs, {}) = {}
      BY DEF Packed
    <3>4. \A q \in Paths : run[q] = {}
      BY <1>1, <2>3, <3>1, <3>3 DEF Repacked
    <3> HIDE DEF n, x
    <3>5. CASE x \in {Binary, Absent} /\ UNCHANGED store
      <4>1. Blank(x)
        BY <3>5 DEF Blank, RagAssumption
      <4>2. Whole(p)
        BY <2>3, <4>1 DEF Whole
      <4> QED
        BY <1>1, <2>2, <2>3, <3>5, <4>2, StillWhole DEF store
    <3>6. CASE x \notin {Binary, Absent} /\ Pieces[x] = <<>> /\ DeleteDocument(p)
      <4>1. rows' = rows /\ vecs' = {} /\ doc' = [doc EXCEPT ![p] = Absent] /\ run' = [run EXCEPT ![p] = {}]
        BY <2>3, <3>2, <3>6 DEF DeleteDocument, Cascade
      <4>2. Blank(x)
        BY <3>6 DEF Blank
      <4>3. doc'[p] = Absent /\ \A q \in Paths : run'[q] = {}
        BY <2>3, <3>1, <3>4, <4>1
      <4>4. Whole(p)'
        BY <2>3, <3>1, <4>1, <4>2, <4>3 DEF Whole, Empty
      <4>5. Repacked'
        BY <3>1, <3>3, <4>1, <4>3 DEF Repacked
      <4> QED
        BY <3>1, <4>1, <4>4, <4>5
    <3>7. CASE x \notin {Binary, Absent} /\ Pieces[x] # <<>> /\ UpsertChunks(p, x)
      <4> DEFINE New == Kept(ChunkDocument(p, x))
      <4>1. /\ rows' = {r \in rows : r.doc # p /\ \A c \in New : c.id # r.id} \cup New
            /\ vecs' = {v \in vecs : \E r \in rows' : r.id = v.id} /\ doc' = [doc EXCEPT ![p] = x] /\ run' = run
        BY <3>7 DEF UpsertChunks, Upserted, Kept, Cascade
      <4>2. New \subseteq ChunkDocument(p, x)
        BY <2>3, <2>4, <3>7, KeptIs
      <4>3. ChunkDocument(p, x) \subseteq Chunk /\ \A c \in ChunkDocument(p, x) : c.doc = p /\ c.id = <<p, c.text>>
        BY <2>3, <2>4, <3>7, ChunkDocumentIs
      <4> HIDE DEF New
      <4>4. \A c \in New : c.doc = p /\ c.id = <<p, c.text>> /\ c \in Chunk
        BY <4>2, <4>3
      <4>5. \A r \in rows, c \in New : c.id # r.id
        BY <3>2, <4>4
      <4>6. rows' = rows \cup New
        BY <3>2, <4>1, <4>5
      <4>7. ChunksFor(p, rows') = New /\ \A q \in Paths \ {p} : ChunksFor(q, rows') = ChunksFor(q, rows)
        BY <3>2, <4>4, <4>6 DEF ChunksFor
      <4>8. vecs' = {} /\ rows' \in SUBSET Chunk
        BY <2>3, <3>1, <4>1, <4>4, <4>6
      <4>9. Whole(p)'
        <5>1. ~Blank(x) /\ doc'[p] = x /\ disk'[p] = x
          BY <2>3, <3>1, <3>7, <4>1 DEF Blank
        <5> QED
          BY <4>7, <5>1 DEF Whole, New
      <4>10. Repacked'
        BY <3>1, <3>3, <3>4, <4>1, <4>8 DEF Repacked
      <4>11. \A q \in Paths \ {p} : doc'[q] = doc[q]
        BY <3>1, <4>1
      <4> QED
        BY <4>7, <4>8, <4>9, <4>10, <4>11
    <3> QED
      BY <2>2, <3>5, <3>6, <3>7
  <2>7. \A q \in Paths \ {p} : (Whole(q)' <=> Whole(q)) /\ (Empty(q)' <=> Empty(q))
    BY <2>2, <2>6 DEF Whole, Empty
  <2> HIDE DEF n, x
  <2>8. CASE j.todo # {}
    <3>1. \A q \in Paths : IF q \in n.todo \cup {n.path} THEN Empty(q)' ELSE Whole(q)'
      BY <2>3, <2>5, <2>6, <2>7, <2>8
    <3>2. /\ th'["job"] = n /\ Others /\ n.mode = "build" /\ n.model = model' /\ n.from = 0
          /\ n.pc = "read" /\ n.path \notin n.todo /\ vecs' = {} /\ Repacked' /\ calm' = "rebuilding"
      BY <1>1, <2>2, <2>3, <2>5, <2>6, <2>8
    <3> QED
      BY <3>1, <3>2 DEF RebuildingInv, Headed
  <2>9. CASE j.todo = {}
    <3>1. \A q \in Paths : Whole(q)'
      BY <2>3, <2>6, <2>7, <2>9
    <3>2. /\ th'["job"] = n /\ Others /\ n.mode = "build" /\ n.model = model' /\ n.from = 0
          /\ n.pc = "missing" /\ n.todo = {} /\ Repacked' /\ calm' = "rebuilding" /\ Headed'
      BY <1>1, <2>2, <2>3, <2>5, <2>6, <2>9 DEF Headed
    <3> QED
      BY <3>1, <3>2 DEF RebuildingInv
  <2> QED
    BY <2>8, <2>9
<1>7. CASE Missing
  <2> DEFINE gap == {r \in rows : ~Reusable(r, j.model)}
             c == [j EXCEPT !.pc = "embed", !.queue = gap, !.from = 1, !.stored = FALSE]
  <2>1. /\ j.pc = "missing" /\ UNCHANGED <<disk, model, store>>
        /\ \/ Becomes("job", c) /\ calm' = calm
           \/ gap = {} /\ Becomes("job", Idle) /\ calm' = "fresh"
    BY <1>1, <1>7 DEF Missing
  <2>2. (\A p \in Paths : Whole(p)') /\ Repacked' /\ Headed' /\ j.todo = {} /\ rows' = rows
    BY <1>1, <2>1, StillWhole DEF store
  <2>3. CASE Becomes("job", c) /\ calm' = calm
    <3>1. gap \in SUBSET Chunk /\ gap \subseteq rows
      BY DEF TypeInv, StoreTypes
    <3> HIDE DEF gap
    <3>2. c.pc = "embed" /\ c.mode = j.mode /\ c.model = j.model /\ c.todo = j.todo /\ c.queue = gap
      BY <1>2, <3>1 DEF Thread
    <3> HIDE DEF c
    <3>3. th'["job"] = c /\ Others
      BY <1>3, <2>3
    <3> QED
      BY <1>1, <2>1, <2>2, <2>3, <3>1, <3>2, <3>3 DEF RebuildingInv, Walking
  <2>4. CASE gap = {} /\ Becomes("job", Idle) /\ calm' = "fresh"
    <3>1. th'["job"].pc = "idle"
      BY <1>3, <2>4, IdleIs
    <3>2. \A r \in rows : \E v \in vecs : v.id = r.id
      BY <2>4 DEF Reusable
    <3> QED
      BY <2>1, <2>2, <2>4, <3>1, <3>2 DEF FreshInv, store
  <2> QED
    BY <2>1, <2>3, <2>4
<1>8. CASE Embed("job")
  <2> DEFINE window == {c \in j.queue : Place(c, j.queue) < Batch}
             rest == j.queue \ window
             found == {o \in rows : \E w \in window : w.id = o.id}
             G(of, o) == [id |-> o.id, doc |-> o.doc, text |-> o.text, of |-> of[o].text, above |-> Above(of[o])]
             Got(of) == {G(of, o) : o \in found}
             C(of) == [j EXCEPT !.pc = "store", !.queue = rest, !.got = Got(of)]
  <2>1. /\ j.pc = "embed" /\ UNCHANGED <<disk, model, store, calm>>
        /\ \E of \in [found -> window] : (\A o \in found : of[o].id = o.id) /\ Becomes("job", C(of))
    BY <1>8 DEF Embed, Disturbs
  <2>2. PICK of \in [found -> window] : (\A o \in found : of[o].id = o.id) /\ Becomes("job", C(of))
    BY <2>1
  <2>3. \A o, r \in rows : o.id = r.id => o = r
    BY <1>1, <2>1, WholeRows
  <2>4. j.queue \subseteq rows /\ window \subseteq rows /\ rest \subseteq rows
    BY <1>1, <2>1
  <2>5. found \subseteq rows
    OBVIOUS
  <2> HIDE DEF window, rest, found
  <2>6. \A o \in found : of[o] = o
    BY <2>2, <2>3, <2>4, <2>5
  <2>7. \A g \in Got(of) : \E o \in rows : o.id = g.id /\ o.doc = g.doc /\ g.above = Above(o)
    BY <2>5, <2>6
  <2> DEFINE got == Got(of)
             c == C(of)
  <2> HIDE DEF Got
  <2>8. c.pc = "store" /\ c.mode = j.mode /\ c.model = j.model /\ c.todo = j.todo /\ c.got = got /\ c.queue = rest
    BY <1>2 DEF Thread
  <2> HIDE DEF C
  <2>9. th'["job"] = c /\ Others
    BY <1>3, <2>2
  <2>10. (\A p \in Paths : Whole(p)') /\ Repacked' /\ Headed' /\ j.todo = {} /\ rows' = rows /\ model' = model
    BY <1>1, <2>1, StillWhole DEF store
  <2> HIDE DEF c, got
  <2>11. \A g \in c.got : \E o \in rows' : o.id = g.id /\ o.doc = g.doc /\ (g.above = Above(o))'
    BY <2>7, <2>8, <2>10 DEF Above, got
  <2> QED
    BY <1>1, <2>1, <2>4, <2>8, <2>9, <2>10, <2>11 DEF RebuildingInv
<1>9. CASE StoreVectors("job")
  <2> DEFINE got == j.got
             V(g) == [id |-> g.id, text |-> g.text, of |-> g.of, above |-> g.above, model |-> j.model]
             new == {V(g) : g \in got}
             docs == {g.doc : g \in got}
             e == EmbedNext("job", j.queue)
             c == [e EXCEPT !.stored = TRUE]
  <2>1. /\ j.pc = "store" /\ j.todo = {} /\ (\A p \in Paths : Whole(p)) /\ j.queue \subseteq rows
        /\ \A g \in got : \E r \in rows : r.id = g.id /\ r.doc = g.doc /\ g.above = Above(r)
    BY <1>1, <1>9 DEF StoreVectors
  <2>2. UpsertEmbeddings(got, j.model) /\ Becomes("job", c) /\ UNCHANGED <<disk, model>> /\ calm' = calm
    BY <1>9, <2>1 DEF StoreVectors, Disturbs
  <2>3. /\ vecs' = {v \in vecs : \A n \in new : n.id # v.id} \cup new
        /\ run' = [p \in Paths |-> IF p \in docs /\ doc[p] # Absent THEN Packed(p, rows, vecs') ELSE run[p]]
        /\ doc' = doc /\ rows' = rows
    BY <2>2 DEF UpsertEmbeddings
  <2>4. got \in SUBSET Detail /\ j.queue \in SUBSET Chunk /\ rows \in SUBSET Chunk /\ vecs \in SUBSET Vector
    BY <1>2 DEF Thread, TypeInv, StoreTypes
  <2>5. \A g \in got : V(g).id = g.id /\ V(g).model = model /\ V(g).above = g.above
    BY <1>1
  <2> HIDE DEF V
  <2>6. \A v \in vecs' : v.model = model
    BY <1>1, <2>3, <2>5 DEF Repacked
  <2>7. vecs' \in SUBSET Vector
    BY <1>9, StoreStep DEF StoreTypes
  <2>8. Repacked'
    <3>1. ASSUME NEW p \in Paths
          PROVE  run'[p] = Packed(p, rows, vecs')
      <4>1. CASE p \in docs
        <5>1. PICK r \in rows : r.doc = p
          BY <2>1, <4>1
        <5>2. doc[p] # Absent
          BY <5>1 DEF StoreInv, CitedIsIndexed
        <5> QED
          BY <2>3, <4>1, <5>2
      <4>2. CASE p \notin docs
        <5>1. \A r, s \in rows : r.id = s.id => r = s
          BY <2>1, WholeRows
        <5>2. ASSUME NEW r \in ChunksFor(p, rows)
              PROVE  (\E v \in vecs' : v.id = r.id) <=> (\E v \in vecs : v.id = r.id)
          <6>1. r \in rows /\ r.doc = p
            BY DEF ChunksFor
          <6>2. \A g \in got : g.id # r.id
            BY <2>1, <4>2, <5>1, <6>1
          <6>3. \A n \in new : n.id # r.id
            BY <2>5, <6>2
          <6> HIDE DEF new
          <6> QED
            BY <2>3, <6>3
        <5>3. Embedded(p, rows, vecs') = Embedded(p, rows, vecs)
          BY <5>2 DEF Embedded
        <5>4. Packed(p, rows, vecs') = RunOf(Embedded(p, rows, vecs'), model)
          BY <2>4, <2>6, <2>7, PackedIs
        <5>5. Packed(p, rows, vecs) = RunOf(Embedded(p, rows, vecs), model)
          BY <1>1, <2>4, PackedIs DEF Repacked
        <5>6. run[p] = Packed(p, rows, vecs)
          BY <1>1 DEF Repacked
        <5> HIDE DEF docs
        <5> QED
          BY <2>3, <4>2, <5>3, <5>4, <5>5, <5>6
      <4> QED
        BY <4>1, <4>2
    <3> QED
      BY <2>2, <2>3, <2>6, <3>1 DEF Repacked
  <2>9. /\ e \in Thread /\ e.mode = j.mode /\ e.model = j.model /\ e.todo = {} /\ e.pc \in {"embed", "missing"}
        /\ e.queue \subseteq rows
    <3> DEFINE n == NextPath("job")
    <3>1. CASE j.queue = {}
      <4>1. /\ n \in Thread /\ n.mode = j.mode /\ n.model = j.model /\ n.todo = {} /\ n.pc = "missing"
            /\ n.queue = {}
        BY <1>2, <2>1, NextPathIs
      <4>2. e = n
        BY <1>2, <2>1, <2>4, <3>1, EmbedNextIs
      <4> HIDE DEF e, n
      <4> QED
        BY <4>1, <4>2
    <3>2. CASE j.queue # {}
      <4>1. /\ e \in Thread /\ e.mode = j.mode /\ e.model = j.model /\ e.todo = j.todo /\ e.pc = "embed"
            /\ e.queue = j.queue
        <5> DEFINE q == j.queue
        <5>1. q \in SUBSET Chunk /\ q # {} /\ "job" \in Threads /\ j.pc # "idle"
          BY <1>2, <2>1, <2>4, <3>2
        <5> HIDE DEF q
        <5>2. LET step == EmbedNext("job", q)
              IN /\ step \in Thread /\ step.pc = "embed" /\ step.queue = q /\ step.mode = j.mode
                 /\ step.model = j.model /\ step.todo = j.todo
          BY <5>1, EmbedNextIs
        <5> QED
          BY <5>2 DEF q
      <4> HIDE DEF e
      <4> QED
        BY <2>1, <4>1
    <3> QED
      BY <3>1, <3>2
  <2> HIDE DEF e
  <2>10. c.pc = e.pc /\ c.mode = e.mode /\ c.model = e.model /\ c.todo = e.todo /\ c.stored = TRUE /\ c.queue = e.queue
    BY <2>9 DEF Thread
  <2> HIDE DEF c
  <2>11. th'["job"] = c /\ Others
    BY <1>3, <2>2
  <2>12. \A p \in Paths : Whole(p)'
    BY <2>1, <2>2, <2>3 DEF Whole, Empty
  <2>13. Headed'
    <3>1. ASSUME NEW v \in vecs'
          PROVE  \E r \in rows : r.id = v.id /\ v.above = Above(r)
      <4>1. CASE v \in vecs
        BY <1>1, <4>1 DEF Headed
      <4>2. CASE v \in new
        <5>1. PICK g \in got : v = V(g)
          BY <4>2
        <5> QED
          BY <2>1, <2>5, <5>1
      <4> QED
        BY <2>3, <4>1, <4>2
    <3> QED
      BY <2>3, <3>1 DEF Headed, Above
  <2> QED
    BY <1>1, <2>2, <2>3, <2>8, <2>9, <2>10, <2>11, <2>12, <2>13 DEF RebuildingInv
<1>10. CASE ~ (ListPaths \/ Missing \/ ReadNote("job") \/ WriteNote("job") \/ Embed("job") \/ StoreVectors("job"))
  <2>1. ~Edit /\ ~SwapStack
    BY DEF Edit, SwapStack
  <2>2. ~HandleEvent /\ (\A t \in Flushers : ~Flush(t)) /\ ~Rebuild /\ ~Retry
    BY <1>1 DEF HandleEvent, Flush, Rebuild, Retry, LockFree
  <2>3. ~DecideMove /\ ~DropMoved /\ ~RenameMoved /\ ~ReplaceMoved
    BY <1>1 DEF DecideMove, DropMoved, RenameMoved, ReplaceMoved
  <2>4. \A t \in Threads : ~Compare(t)
    BY <1>1, <1>2 DEF Compare
  <2>5. \A t \in Flushers \cup {"watch"} : ~ReadNote(t) /\ ~WriteNote(t) /\ ~Embed(t) /\ ~StoreVectors(t)
    BY <1>1 DEF ReadNote, WriteNote, Embed, StoreVectors
  <2> QED
    BY <1>2, <1>10, <2>1, <2>2, <2>3, <2>4, <2>5 DEF RagNext
<1> QED
  BY <1>4, <1>5, <1>6, <1>7, <1>8, <1>9, <1>10
\* Once healed the index stays so until something other than a retry touches it.
LEMMA FreshStep ==
  ASSUME RagAssumption, TypeInv, StoreInv, RagNext, calm = "fresh", FreshInv, calm' # "no"
  PROVE  \/ calm' = "rebuilding" /\ RebuildingInv'
         \/ calm' = "fresh" /\ FreshInv'
<1> DEFINE j == th["job"]
<1>1. /\ \A p \in Paths : Whole(p)
      /\ \A r \in rows : \E v \in vecs : v.id = r.id
      /\ Repacked /\ Headed /\ j.pc \in {"idle", "missing"} /\ (j.pc = "missing" => j.model = model)
  BY DEF FreshInv
<1>2. /\ "job" \in Threads /\ "watch" \in Threads /\ Flushers \subseteq Threads /\ "job" \notin Flushers \cup {"watch"}
      /\ Threads = Flushers \cup {"watch", "job"}
  BY DEF Threads, RagAssumption
<1>3. ASSUME UNCHANGED <<disk, model, store, calm>>, \/ th'["job"] = j
                                                     \/ th'["job"].pc = "idle"
                                                     \/ th'["job"].pc = "missing" /\ th'["job"].model = model
      PROVE  calm' = "fresh" /\ FreshInv'
  <2>1. /\ \A p \in Paths : Whole(p)'
        /\ \A r \in rows' : \E v \in vecs' : v.id = r.id
        /\ Repacked' /\ Headed'
    BY <1>1, <1>3, StillWhole DEF store
  <2>2. th'["job"].pc \in {"idle", "missing"} /\ (th'["job"].pc = "missing" => th'["job"].model = model')
    BY <1>1, <1>3
  <2> QED
    BY <1>3, <2>1, <2>2 DEF FreshInv
<1>4. ASSUME NEW t \in Threads \ {"job"}, NEW c, Becomes(t, c)
      PROVE  th'["job"] = j
  BY <1>2, <1>4, BecomesIs
<1>5. CASE Rebuild
  <2>1. calm' = "rebuilding"
    BY <1>5 DEF Rebuild
  <2> QED
    BY <1>5, <2>1, RebuildStarts
<1>6. CASE Retry
  <2> DEFINE c == [Idle EXCEPT !.pc = "missing", !.mode = "retry", !.model = model]
  <2>1. Becomes("job", c) /\ UNCHANGED <<disk, model, store, calm>>
    BY <1>6 DEF Retry
  <2>2. c.pc = "missing" /\ c.model = model
    BY DEF Idle
  <2> HIDE DEF c
  <2>3. th'["job"] = c
    BY <1>2, <2>1, BecomesIs
  <2> QED
    BY <1>3, <2>1, <2>2, <2>3
<1>7. CASE Missing
  <2> DEFINE gap == {r \in rows : ~Reusable(r, j.model)}
  <2>1. j.pc = "missing" /\ j.model = model
    BY <1>1, <1>7 DEF Missing
  <2>2. ASSUME NEW r \in rows
        PROVE  Reusable(r, j.model)
    <3>1. PICK v \in vecs : v.id = r.id
      BY <1>1
    <3>2. v \in Vector /\ r \in Chunk
      BY DEF TypeInv, StoreTypes
    <3>3. v.text = r.text
      BY <3>1, <3>2 DEF Vector, Chunk
    <3>4. v.model = model
      BY <1>1 DEF Repacked
    <3> QED
      BY <2>1, <3>1, <3>3, <3>4 DEF Reusable
  <2>3. gap = {}
    BY <2>2
  <2>4. Becomes("job", Idle) /\ UNCHANGED <<disk, model, store, calm>>
    BY <1>7, <2>3 DEF Missing
  <2>5. th'["job"].pc = "idle"
    BY <1>2, <2>4, BecomesIs, IdleIs
  <2> QED
    BY <1>3, <2>4, <2>5
<1>8. CASE HandleEvent
  <2>1. UNCHANGED <<disk, model, store, calm>> /\ (UNCHANGED th \/ \E c : Becomes("watch", c))
    BY <1>8 DEF HandleEvent
  <2> QED
    BY <1>2, <1>3, <1>4, <2>1
<1>9. ASSUME NEW t \in Flushers, Flush(t)
      PROVE  calm' = "fresh" /\ FreshInv'
  <2>1. UNCHANGED <<disk, model, store, calm>> /\ \E c : Becomes(t, c)
    BY <1>9 DEF Flush
  <2> QED
    BY <1>2, <1>3, <1>4, <2>1
<1>10. CASE DecideMove
  <2>1. UNCHANGED <<disk, model, store, calm>> /\ \E c : Becomes("watch", c)
    BY <1>10 DEF DecideMove
  <2> QED
    BY <1>2, <1>3, <1>4, <2>1
<1>11. CASE RenameMoved
  <2>1. UNCHANGED <<disk, model, store, calm>> /\ \E c : Becomes("watch", c)
    BY <1>11 DEF RenameMoved, Dies
  <2> QED
    BY <1>2, <1>3, <1>4, <2>1
<1>12. ASSUME NEW t \in Threads, ReadNote(t) \/ Compare(t) \/ WriteNote(t) \/ Embed(t) \/ StoreVectors(t)
       PROVE  calm' = "fresh" /\ FreshInv'
  <2>1. t # "job"
    BY <1>1, <1>12 DEF ReadNote, Compare, WriteNote, Embed, StoreVectors
  <2>2. UNCHANGED <<disk, model>> /\ \E c : Becomes(t, c)
    <3>1. CASE ReadNote(t)
      BY <3>1 DEF ReadNote
    <3>2. CASE Compare(t)
      BY <3>2 DEF Compare
    <3>3. CASE WriteNote(t)
      BY <3>3 DEF WriteNote
    <3>4. CASE Embed(t)
      BY <3>4 DEF Embed
    <3>5. CASE StoreVectors(t)
      BY <3>5 DEF StoreVectors, Dies
    <3> QED
      BY <1>12, <3>1, <3>2, <3>3, <3>4, <3>5
  <2>3. UNCHANGED <<store, calm>>
    <3>1. CASE ReadNote(t)
      BY <3>1 DEF ReadNote
    <3>2. CASE Compare(t)
      BY <3>2 DEF Compare
    <3>3. CASE WriteNote(t)
      BY <2>1, <3>3 DEF WriteNote, Disturbs
    <3>4. CASE Embed(t)
      BY <3>4 DEF Embed, Disturbs
    <3>5. CASE StoreVectors(t)
      BY <2>1, <3>5 DEF StoreVectors, Disturbs
    <3> QED
      BY <1>12, <3>1, <3>2, <3>3, <3>4, <3>5
  <2> QED
    BY <1>3, <1>4, <2>1, <2>2, <2>3
<1>13. ~Edit /\ ~SwapStack /\ ~DropMoved /\ ~ReplaceMoved /\ ~ListPaths
  BY <1>1 DEF Edit, SwapStack, DropMoved, ReplaceMoved, ListPaths
<1> QED
  BY <1>5, <1>6, <1>7, <1>8, <1>9, <1>10, <1>11, <1>12, <1>13 DEF RagNext

\* Only a rebuild that finds every other thread at rest begins to heal.
LEMMA HealStep ==
  ASSUME RagAssumption, TypeInv, StoreInv, HealInv, RagNext
  PROVE  HealInv'
<1>1. CASE calm = "no"
  <2>1. CASE Rebuild
    <3>1. calm' \in {"rebuilding", "no"}
      BY <2>1 DEF Rebuild
    <3> QED
      BY <2>1, <3>1, RebuildStarts DEF HealInv
  <2>2. CASE ~Rebuild
    <3>1. /\ Edit => calm' = "no"
          /\ HandleEvent => calm' = "no"
          /\ ListPaths => calm' = "no"
          /\ Retry => calm' = "no"
      BY <1>1 DEF Edit, HandleEvent, ListPaths, Retry
    <3>2. /\ Missing => calm' = "no"
          /\ DecideMove => calm' = "no"
          /\ DropMoved => calm' = "no"
          /\ RenameMoved => calm' = "no"
          /\ ReplaceMoved => calm' = "no"
          /\ SwapStack => calm' = "no"
      BY <1>1 DEF Missing, DecideMove, DropMoved, RenameMoved, ReplaceMoved, SwapStack
    <3>3. \A t \in Flushers : Flush(t) => calm' = "no"
      BY <1>1 DEF Flush
    <3>4. ASSUME NEW t \in Threads
          PROVE  /\ ReadNote(t) => calm' = "no"
                 /\ Compare(t) => calm' = "no"
                 /\ WriteNote(t) => calm' = "no"
                 /\ Embed(t) => calm' = "no"
                 /\ StoreVectors(t) => calm' = "no"
      <4>1. (ReadNote(t) => calm' = "no") /\ (Compare(t) => calm' = "no")
        BY <1>1 DEF ReadNote, Compare
      <4>2. WriteNote(t) => calm' = "no"
        BY <1>1 DEF WriteNote, Disturbs
      <4>3. Embed(t) => calm' = "no"
        BY <1>1 DEF Embed, Disturbs
      <4>4. StoreVectors(t) => calm' = "no"
        BY <1>1 DEF StoreVectors, Disturbs
      <4> QED
        BY <4>1, <4>2, <4>3, <4>4
    <3>5. calm' = "no"
      BY <2>2, <3>1, <3>2, <3>3, <3>4 DEF RagNext
    <3> QED
      BY <3>5 DEF HealInv
  <2> QED
    BY <2>1, <2>2
<1>2. CASE calm = "rebuilding"
  <2>1. CASE calm' = "no"
    BY <2>1 DEF HealInv
  <2>2. CASE calm' # "no"
    <3>1. RebuildingInv
      BY <1>2 DEF HealInv
    <3> QED
      BY <1>2, <2>2, <3>1, RebuildingStep DEF HealInv
  <2> QED
    BY <2>1, <2>2
<1>3. CASE calm = "fresh"
  <2>1. CASE calm' = "no"
    BY <2>1 DEF HealInv
  <2>2. CASE calm' # "no"
    <3>1. FreshInv
      BY <1>3 DEF HealInv
    <3> QED
      BY <1>3, <2>2, <3>1, FreshStep DEF HealInv
  <2> QED
    BY <2>1, <2>2
<1> QED
  BY <1>1, <1>2, <1>3 DEF TypeInv

(***************************************************************************)
(* Behaviours                                                              *)
(***************************************************************************)

\* An empty index is intact.
LEMMA RagStarts ==
  ASSUME RagAssumption, RagInit
  PROVE  RagInv
<1>1. /\ disk \in [Paths -> Note] /\ events \in Seq(Event) /\ pend \subseteq Paths /\ model \in Models /\ calm = "no"
  BY DEF RagInit, Note
<1>2. rows = {} /\ vecs = {} /\ run = [p \in Paths |-> {}] /\ doc \in [Paths -> Note]
  BY DEF RagInit, Note
<1>3. StoreTypes
  BY <1>2 DEF StoreTypes
<1>4. ThreadTypes
  <2>1. th = [t \in Threads |-> Idle]
    BY DEF RagInit
  <2> QED
    BY <2>1, IdleIs DEF ThreadTypes
<1> QED
  BY <1>1, <1>2, <1>3, <1>4 DEF RagInv, TypeInv, StoreInv, CitedIsIndexed, HealInv

\* A step that changes nothing keeps the invariant.
LEMMA RagStutters ==
  ASSUME RagInv, UNCHANGED vars
  PROVE  RagInv'
<1>1. UNCHANGED <<disk, events, pend, model, doc, rows, vecs, run, th, calm>>
  BY DEF vars
<1>2. TypeInv'
  BY <1>1 DEF RagInv, TypeInv, StoreTypes, ThreadTypes
<1>3. StoreInv'
  BY <1>1 DEF RagInv, StoreInv, CitedIsIndexed
<1>4. /\ \A p \in Paths : (Whole(p)' <=> Whole(p)) /\ (Empty(p)' <=> Empty(p))
      /\ Repacked' <=> Repacked
      /\ Headed' <=> Headed
  BY <1>1, StillWhole DEF store
<1>5. (RebuildingInv => RebuildingInv') /\ (FreshInv => FreshInv')
  BY <1>1, <1>4 DEF RebuildingInv, FreshInv
<1> QED
  BY <1>1, <1>2, <1>3, <1>5 DEF RagInv, HealInv

\* Whatever flushes, moves, rebuilds, retries, edits and changes of the model
\* interleave: the rows are under documents the index lists, the vectors under
\* rows, and a rebuild that was alone built what the files say (RagIndexService
\* and SqliteVectorStore).
THEOREM RagInvariance == RagSpec => []RagInv
<1>1. RagInit => RagInv
  BY RagAssumption, RagStarts
<1>2. RagInv /\ [RagNext]_vars => RagInv'
  <2> SUFFICES ASSUME RagInv, [RagNext]_vars
               PROVE  RagInv'
    OBVIOUS
  <2>1. CASE RagNext
    <3>1. TypeInv /\ StoreInv /\ HealInv
      BY DEF RagInv
    <3>2. TypeInv'
      BY <2>1, <3>1, RagAssumption, TypeStep
    <3>3. StoreInv'
      BY <2>1, <3>1, RagAssumption, StoreStep
    <3>4. HealInv'
      BY <2>1, <3>1, RagAssumption, HealStep
    <3> QED
      BY <3>2, <3>3, <3>4 DEF RagInv
  <2>2. CASE UNCHANGED vars
    BY <2>2, RagStutters
  <2> QED
    BY <2>1, <2>2
<1> QED
  BY <1>1, <1>2, PTL DEF RagSpec

\* No orphans in what a search may cite: every chunk row belongs to a document
\* the index still lists (upsert_chunks, _delete_rows, rename_document).
THEOREM CitationsAreIndexed == RagSpec => []CitedIsIndexed
<1>1. RagInv => CitedIsIndexed
  BY DEF RagInv, StoreInv
<1> QED
  BY <1>1, RagInvariance, PTL

\* A stored vector is of the text its chunk row holds, however old the read it
\* was computed from (upsert_embeddings, _chunk_id).
THEOREM VectorsAreOfTheirText == RagSpec => []VectorOfItsText
<1>1. RagInv => VectorOfItsText
  <2> SUFFICES ASSUME RagInv, NEW v \in vecs
               PROVE  \E r \in rows : r.id = v.id /\ r.text = v.of
    BY DEF VectorOfItsText
  <2>1. PICK r \in rows : r.id = v.id
    BY DEF RagInv, StoreInv
  <2>2. v \in Vector /\ r \in Chunk
    BY DEF RagInv, TypeInv, StoreTypes
  <2>3. r.text = v.of
    BY <2>1, <2>2 DEF Vector, Chunk
  <2> QED
    BY <2>1, <2>3
<1> QED
  BY <1>1, RagInvariance, PTL

\* An undisturbed rebuild repairs the index: each note has the chunks of its
\* file, each chunk the vector of the current model, and the packed run pairs
\* each vector with its own chunk (rebuild, _embed_pending, _repack_document).
THEOREM RebuildsHeal == RagSpec => []RebuildHeals
<1>1. RagInv => RebuildHeals
  <2> SUFFICES ASSUME RagInv, calm = "fresh"
               PROVE  RebuildHeals
    BY DEF RebuildHeals
  <2>1. TypeInv /\ FreshInv
    BY DEF RagInv, HealInv
  <2> QED
    BY <2>1, RagAssumption, FreshHeals DEF RebuildHeals
<1> QED
  BY <1>1, RagInvariance, PTL

(***************************************************************************)
(* Answers: votes and fusion                                               *)
(***************************************************************************)

\* The larger one of two numbers.
LEMMA GreaterIs ==
  ASSUME NEW a \in Nat, NEW b \in Nat
  PROVE  Max({a, b}) = IF a <= b THEN b ELSE a
<1>1. \E x \in {a, b} : \A y \in {a, b} : x >= y
  OBVIOUS
<1>2. Max({a, b}) \in {a, b} /\ \A y \in {a, b} : Max({a, b}) >= y
  BY <1>1 DEF Max
<1> QED
  BY <1>2

\* The head of a list.
LEMMA TopIs ==
  ASSUME NEW A, NEW s \in Seq(A), NEW n \in Nat
  PROVE  /\ Top(s, n) \in Seq(A) /\ Len(Top(s, n)) = IF n <= Len(s) THEN n ELSE Len(s)
         /\ \A i \in DOMAIN Top(s, n) : i \in DOMAIN s /\ Top(s, n)[i] = s[i]
<1> DEFINE m == Min({n, Len(s)})
<1>1. m = IF n <= Len(s) THEN n ELSE Len(s)
  BY LesserIs
<1>2. m \in 0 .. Len(s) /\ Top(s, n) = SubSeq(s, 1, m)
  BY <1>1 DEF Top
<1> HIDE DEF m
<1>3. /\ Top(s, n) \in Seq(A) /\ Len(Top(s, n)) = m
      /\ \A i \in 1 .. m : Top(s, n)[i] = s[i]
  BY <1>2, SubSeqProperties
<1>4. \A i \in DOMAIN Top(s, n) : i \in 1 .. m /\ i \in DOMAIN s
  BY <1>2, <1>3
<1> QED
  BY <1>1, <1>3, <1>4

\* Every contribution of a rank is an integer.
LEMMA ScaleIs ==
  Scale \in Nat \ {0} /\ \A r \in 1 .. MaxHits : \E q \in Nat \ {0} : Scale = q * (K + r)
<1> DEFINE A == Nat \ {0}
           T == [x \in A \X (1 .. MaxHits) |-> x[1] * (K + x[2])]
           P(g) == g = [n \in 0 .. MaxHits |-> IF n = 0 THEN 1 ELSE g[n - 1] * (K + n)]
           product == CHOOSE g : P(g)
<1>1. MaxHits \in Nat \ {0} /\ K \in Nat \ {0}
  BY AnswerAssumption
<1>2. \A a, b \in A : a * b \in A
  OBVIOUS
<1>3. T \in [A \X (1 .. MaxHits) -> A]
  BY <1>1, <1>2
<1>4. \E f : Steps(f, MaxHits, A, 1, T)
  <2>1. 1 \in A /\ MaxHits \in Nat
    BY <1>1
  <2> HIDE DEF A, T
  <2> QED
    BY <1>3, <2>1, StepsExist
<1>5. PICK f \in [0 .. MaxHits -> A] : f[0] = 1 /\ \A i \in 1 .. MaxHits : f[i] = T[<<f[i - 1], i>>]
  BY <1>4 DEF Steps
<1>6. \A i \in 1 .. MaxHits : i - 1 \in 0 .. MaxHits /\ f[i - 1] \in A /\ f[i] = f[i - 1] * (K + i)
  <2> TAKE i \in 1 .. MaxHits
  <2>1. i - 1 \in 0 .. MaxHits
    BY <1>1
  <2>2. f[i - 1] \in A /\ <<f[i - 1], i>> \in A \X (1 .. MaxHits)
    <3> HIDE DEF A, T
    <3> QED
      BY <1>5, <2>1
  <2>3. T[<<f[i - 1], i>>] = f[i - 1] * (K + i)
    BY <2>2
  <2> QED
    BY <1>5, <2>1, <2>2, <2>3
<1>7. P(f)
  BY <1>1, <1>5, <1>6
<1>8. P(product)
  <2>1. \E g : P(g)
    BY <1>7
  <2> HIDE DEF P
  <2> QED
    BY <2>1
<1>9. Scale = product[MaxHits]
  BY DEF Scale
<1> HIDE DEF product
<1>10. /\ product[0] = 1
       /\ \A i \in 1 .. MaxHits : product[i] = product[i - 1] * (K + i)
  BY <1>1, <1>8
<1> DEFINE S == {n \in 0 .. MaxHits : product[n] \in A /\ \A r \in 1 .. n : \E q \in A : product[n] = q * (K + r)}
<1>11. 0 \in S
  BY <1>1, <1>10
<1>12. \A n \in 1 .. MaxHits : n - 1 \in S => n \in S
  <2> SUFFICES ASSUME NEW n \in 1 .. MaxHits, n - 1 \in S
               PROVE  n \in S
    OBVIOUS
  <2>1. K + n \in A /\ product[n - 1] \in A /\ product[n] = product[n - 1] * (K + n)
    BY <1>1, <1>10
  <2>2. product[n] \in A
    BY <1>2, <2>1
  <2>3. ASSUME NEW r \in 1 .. n
        PROVE  \E q \in A : product[n] = q * (K + r)
    <3>1. CASE r = n
      BY <2>1, <3>1
    <3>2. CASE r # n
      <4>1. r \in 1 .. n - 1 /\ K + r \in A
        BY <1>1, <3>2
      <4>2. PICK q \in A : product[n - 1] = q * (K + r)
        BY <4>1
      <4>3. \A a, b, c \in A : (a * b) * c = (a * c) * b
        OBVIOUS
      <4>4. product[n] = (q * (K + n)) * (K + r)
        BY <2>1, <4>1, <4>2, <4>3
      <4>5. q * (K + n) \in A
        BY <1>2, <2>1
      <4> QED
        BY <4>4, <4>5
    <3> QED
      BY <3>1, <3>2
  <2> QED
    BY <2>2, <2>3
<1> HIDE DEF S
<1>13. MaxHits \in S
  <2>1. 0 .. MaxHits \subseteq S
    BY <1>1, <1>11, <1>12, CountUp
  <2> QED
    BY <1>1, <2>1
<1> QED
  BY <1>9, <1>13 DEF S

\* The share of a rank.
Share(r) == Scale \div (K + r)

\* The share of a rank is a number, and no remainder is lost.
LEMMA ShareIs ==
  ASSUME NEW r \in 1 .. MaxHits
  PROVE  Share(r) \in Nat \ {0} /\ Share(r) * (K + r) = Scale
<1>1. PICK q \in Nat \ {0} : Scale = q * (K + r)
  BY ScaleIs
<1>2. K + r \in Nat \ {0}
  BY AnswerAssumption
<1>3. \A a, b \in Nat \ {0} : (a * b) \div b = a
  OBVIOUS
<1>4. Share(r) = q
  BY <1>1, <1>2, <1>3 DEF Share
<1> QED
  BY <1>1, <1>4

\* Ranked lists of hits.
Ranks == {s \in Seq(Hits) : Len(s) <= MaxHits}

\* A list that has the chunk.
Holds(list, id) == \E i \in DOMAIN list : list[i].id = id

\* A list votes for its hits and for nothing else.
LEMMA VoteIs ==
  ASSUME NEW list \in Ranks, NEW flat \in BOOLEAN, NEW id, NEW w \in Nat
  PROVE  IF Holds(list, id)
           THEN \E r \in 1 .. MaxHits : Vote(list, flat, id, w) = w * Share(r)
           ELSE Vote(list, flat, id, w) = 0
<1> DEFINE at == {i \in DOMAIN list : list[i].id = id}
           rank == IF flat THEN 1 ELSE Min(at)
<1>1. Vote(list, flat, id, w) = IF at = {} THEN 0 ELSE w * Share(rank)
  BY DEF Vote, Share
<1>2. CASE at = {}
  BY <1>1, <1>2 DEF Holds
<1>3. CASE at # {}
  <2>1. at \in SUBSET Nat /\ MaxHits \in Nat \ {0} /\ \A i \in at : i \in 1 .. MaxHits
    BY AnswerAssumption DEF Ranks
  <2>2. Min(at) \in at
    BY <1>3, <2>1, MinIs
  <2>3. rank \in 1 .. MaxHits
    BY <2>1, <2>2
  <2>4. Vote(list, flat, id, w) = w * Share(rank)
    BY <1>1, <1>3
  <2>5. Holds(list, id)
    BY <1>3 DEF Holds
  <2> HIDE DEF rank
  <2> QED
    BY <2>3, <2>4, <2>5
<1> QED
  BY <1>2, <1>3

\* A list has finitely many entries.
LEMMA RangeIs ==
  ASSUME NEW A, NEW s \in Seq(A)
  PROVE  IsFiniteSet(Range(s)) /\ Range(s) \in SUBSET A
<1>1. Len(s) \in Nat /\ DOMAIN s = 1 .. Len(s) /\ \A i \in DOMAIN s : s[i] \in A
  OBVIOUS
<1>2. IsFiniteSet(1 .. Len(s))
  <2> DEFINE n == Len(s)
  <2>1. 1 \in Int /\ n \in Int
    BY <1>1
  <2> HIDE DEF n
  <2>2. IsFiniteSet(1 .. n)
    BY <2>1, FS_Interval
  <2> QED
    BY <2>2 DEF n
<1>3. s \in Surjection(DOMAIN s, Range(s))
  BY <1>1 DEF Surjection, Range
<1>4. IsFiniteSet(Range(s))
  BY <1>1, <1>2, <1>3, FS_Surjection
<1> QED
  BY <1>1, <1>4 DEF Range

\* The lists a question is answered from.
Fit(ls) ==
  /\ ls \in [keyword : Ranks, flat : BOOLEAN, vector : Ranks, link : Ranks]
  /\ \A h \in Range(ls.link), d \in Direct(ls) : h.path # d.path

\* A ranked list is a finite list of hits.
LEMMA RanksAre ==
  ASSUME NEW s \in Ranks
  PROVE  s \in Seq(Hits) /\ IsFiniteSet(Range(s)) /\ Range(s) \in SUBSET Hits
BY RangeIs DEF Ranks

\* A weighted share is a number.
LEMMA SharesAre ==
  ASSUME NEW r \in 1 .. MaxHits, NEW w \in Nat
  PROVE  w * Share(r) \in Nat
BY ShareIs

\* The score of a chunk is a number, whichever lists hold it.
LEMMA ScoreIs ==
  ASSUME NEW ls, Fit(ls), NEW id
  PROVE  Score(ls, id) \in Nat
<1>1. ls.keyword \in Ranks /\ ls.vector \in Ranks /\ ls.link \in Ranks /\ ls.flat \in BOOLEAN
  BY DEF Fit
<1>2. LinkWeight \in Nat
  BY AnswerAssumption
<1>3. Vote(ls.keyword, ls.flat, id, 2) \in Nat /\ Vote(ls.vector, FALSE, id, 2) \in Nat /\ Vote(ls.link, FALSE, id, LinkWeight) \in Nat
  <2>1. \A list \in Ranks, flat \in BOOLEAN, w \in Nat : Vote(list, flat, id, w) \in Nat
    BY VoteIs, SharesAre
  <2> QED
    BY <1>1, <1>2, <2>1
<1> DEFINE a == Vote(ls.keyword, ls.flat, id, 2)
           b == Vote(ls.vector, FALSE, id, 2)
           c == Vote(ls.link, FALSE, id, LinkWeight)
<1>4. Score(ls, id) = a + b + c
  BY DEF Score
<1> HIDE DEF a, b, c
<1>5. a \in Nat /\ b \in Nat /\ c \in Nat
  BY <1>3 DEF a, b, c
<1> QED
  BY <1>4, <1>5

\* Fusion ranks finitely many hits, those of the direct paths among them.
LEMMA CandidatesAre ==
  ASSUME NEW ls, Fit(ls)
  PROVE  /\ IsFiniteSet(Candidates(ls)) /\ Candidates(ls) \in SUBSET Hits
         /\ Direct(ls) \in SUBSET Candidates(ls)
<1>1. ls.keyword \in Ranks /\ ls.vector \in Ranks /\ ls.link \in Ranks
  BY DEF Fit
<1>2. /\ IsFiniteSet(Range(ls.keyword)) /\ IsFiniteSet(Range(ls.vector))
      /\ IsFiniteSet(IF LinkWeight > 0 THEN Range(ls.link) ELSE {})
  BY <1>1, RanksAre, FS_EmptySet
<1>3. IsFiniteSet(Range(ls.keyword) \cup Range(ls.vector))
  BY <1>2, FS_Union
<1>4. IsFiniteSet(Candidates(ls))
  BY <1>2, <1>3, FS_Union DEF Candidates
<1>5. Range(ls.keyword) \in SUBSET Hits /\ Range(ls.vector) \in SUBSET Hits /\ Range(ls.link) \in SUBSET Hits
  BY <1>1, RanksAre
<1> QED
  BY <1>4, <1>5 DEF Candidates, Direct

\* The ranking orders the hits it is given.
LEMMA RankingOrders ==
  ASSUME NEW ls, Fit(ls), NEW S \in SUBSET Hits
  PROVE  /\ Orders(Ranking(ls, S), S)
         /\ \A x, y \in S : <<x, y>> \in Ranking(ls, S)
              <=> \/ Score(ls, x.id) > Score(ls, y.id)
                  \/ Score(ls, x.id) = Score(ls, y.id) /\ x.id < y.id
<1> DEFINE score == [h \in S |-> Score(ls, h.id)]
           R == Ranking(ls, S)
<1>1. \A h \in S : score[h] \in Nat /\ h.id \in Nat /\ score[h] = Score(ls, h.id)
  BY ScoreIs, AnswerAssumption
<1>2. \A x, y \in S : <<x, y>> \in R <=> score[x] > score[y] \/ (score[x] = score[y] /\ x.id < y.id)
  BY DEF Ranking
<1>3. \A x, y \in S : x.id = y.id => x = y
  BY AnswerAssumption
<1> HIDE DEF score, R
<1>4. \A x \in S : <<x, x>> \notin R
  BY <1>1, <1>2
<1>5. \A x, y \in S : x # y => <<x, y>> \in R \/ <<y, x>> \in R
  BY <1>1, <1>2, <1>3
<1>6. \A x, y, z \in S : <<x, y>> \in R /\ <<y, z>> \in R => <<x, z>> \in R
  BY <1>1, <1>2
<1>7. Orders(R, S)
  BY <1>4, <1>5, <1>6 DEF Orders
<1> QED
  BY <1>1, <1>2, <1>7 DEF R

\* Of two shares of one scale, the one of the smaller divisor is the larger,
\* also against a lighter weight.
LEMMA Outweighs ==
  ASSUME NEW a \in Nat \ {0}, NEW b \in Nat \ {0}, NEW x \in Nat \ {0}, NEW y \in Nat \ {0},
         NEW w \in 0 .. 2, a * x = b * y, w * x < 2 * y
  PROVE  w * b < 2 * a
<1>1. CASE w = 0
  BY <1>1
<1>2. ASSUME w = 1, 2 * a <= b
      PROVE  FALSE
  <2>1. (2 * a) * x <= b * x
    BY <1>2
  <2>2. b * x < b * (2 * y)
    BY <1>2
  <2> QED
    BY <2>1, <2>2
<1>3. ASSUME w = 2, a <= b
      PROVE  FALSE
  <2>1. a * x < a * y
    BY <1>3
  <2>2. a * y <= b * y
    BY <1>3
  <2> QED
    BY <2>1, <2>2
<1> QED
  BY <1>1, <1>2, <1>3

\* A direct hit has more votes than one that only the link path found.
LEMMA DirectFirst ==
  ASSUME NEW ls, Fit(ls), LinkWeight * (K + MaxHits) < 2 * (K + 1),
         NEW d \in Direct(ls), NEW h \in Candidates(ls), h \notin Direct(ls)
  PROVE  Score(ls, d.id) > Score(ls, h.id)
<1> DEFINE VK(id) == Vote(ls.keyword, ls.flat, id, 2)
           VV(id) == Vote(ls.vector, FALSE, id, 2)
           VL(id) == Vote(ls.link, FALSE, id, LinkWeight)
<1>1. /\ ls.keyword \in Ranks /\ ls.vector \in Ranks /\ ls.link \in Ranks /\ ls.flat \in BOOLEAN
      /\ LinkWeight \in 0 .. 2 /\ LinkWeight \in Nat
  BY AnswerAssumption DEF Fit
<1>2. \A id : Score(ls, id) = VK(id) + VV(id) + VL(id)
  BY DEF Score
<1>3. \A list \in Ranks : \A id : Holds(list, id) <=> \E g \in Range(list) : g.id = id
  BY DEF Range, Holds
<1>4. /\ h \in Hits /\ d \in Hits
      /\ Range(ls.keyword) \in SUBSET Hits /\ Range(ls.vector) \in SUBSET Hits
  BY <1>1, CandidatesAre, RanksAre
<1>5. ~ Holds(ls.keyword, h.id) /\ ~ Holds(ls.vector, h.id)
  <2>1. \A g \in Hits : g.id = h.id => g = h
    BY <1>4, AnswerAssumption
  <2>2. h \notin Range(ls.keyword) /\ h \notin Range(ls.vector)
    BY DEF Direct
  <2> QED
    BY <1>1, <1>3, <1>4, <2>1, <2>2
<1>6. Holds(ls.keyword, d.id) \/ Holds(ls.vector, d.id)
  BY <1>1, <1>3 DEF Direct
<1>7. ASSUME NEW id
      PROVE  /\ IF Holds(ls.keyword, id) THEN \E r \in 1 .. MaxHits : VK(id) = 2 * Share(r) ELSE VK(id) = 0
             /\ IF Holds(ls.vector, id) THEN \E r \in 1 .. MaxHits : VV(id) = 2 * Share(r) ELSE VV(id) = 0
             /\ IF Holds(ls.link, id) THEN \E r \in 1 .. MaxHits : VL(id) = LinkWeight * Share(r) ELSE VL(id) = 0
  BY <1>1, VoteIs
<1> HIDE DEF VK, VV, VL
<1>8. VK(h.id) = 0 /\ VV(h.id) = 0
  BY <1>5, <1>7
<1>9. VL(h.id) = 0 \/ \E r \in 1 .. MaxHits : VL(h.id) = LinkWeight * Share(r)
  BY <1>7
<1>10. \A id : VK(id) \in Nat /\ VV(id) \in Nat /\ VL(id) \in Nat
  BY <1>1, <1>7, SharesAre
<1>11. \E r \in 1 .. MaxHits : VK(d.id) = 2 * Share(r) \/ VV(d.id) = 2 * Share(r)
  BY <1>6, <1>7
<1>12. PICK q \in 1 .. MaxHits : VK(d.id) = 2 * Share(q) \/ VV(d.id) = 2 * Share(q)
  BY <1>11
<1>13. Score(ls, d.id) >= 2 * Share(q)
  BY <1>2, <1>10, <1>12, ShareIs
<1>14. Score(ls, h.id) = VL(h.id)
  BY <1>2, <1>8, <1>10
<1>15. VL(h.id) < 2 * Share(q)
  <2>1. CASE VL(h.id) = 0
    BY <2>1, ShareIs
  <2>2. ASSUME NEW r \in 1 .. MaxHits, VL(h.id) = LinkWeight * Share(r)
        PROVE  VL(h.id) < 2 * Share(q)
    <3> DEFINE x == K + q
               y == K + r
    <3>1. x \in Nat \ {0} /\ y \in Nat \ {0} /\ x <= K + MaxHits /\ y >= K + 1 /\ K + MaxHits \in Nat /\ K + 1 \in Nat
      BY AnswerAssumption
    <3>2. Share(q) \in Nat \ {0} /\ Share(r) \in Nat \ {0} /\ Share(q) * x = Share(r) * y
      BY ShareIs
    <3>3. LinkWeight * x < 2 * y
      <4> HIDE DEF x, y
      <4>1. LinkWeight * x <= LinkWeight * (K + MaxHits)
        BY <1>1, <3>1
      <4>2. LinkWeight * x \in Nat /\ LinkWeight * (K + MaxHits) \in Nat /\ 2 * (K + 1) <= 2 * y
        BY <1>1, <3>1
      <4> QED
        BY <3>1, <4>1, <4>2
    <3> HIDE DEF x, y
    <3> QED
      BY <1>1, <2>2, <3>1, <3>2, <3>3, Outweighs
  <2> QED
    BY <1>9, <2>1, <2>2
<1> QED
  BY <1>10, <1>13, <1>14, <1>15, ScoreIs, ShareIs

\* The fused list is the head of the ordered candidates.
LEMMA FusedIs ==
  ASSUME NEW ls, Fit(ls), NEW top \in Nat
  PROVE  LET found == Candidates(ls)
             size == Cardinality(found)
         IN /\ size \in Nat /\ Orders(Ranking(ls, found), found)
            /\ Fused(ls, top) \in Seq(Hits)
            /\ Len(Fused(ls, top)) = IF top <= size THEN top ELSE size
            /\ \A i \in 1 .. Len(Fused(ls, top)) :
                 i \in 1 .. size /\ Fused(ls, top)[i] = Ordered(found, Ranking(ls, found))[i]
            /\ Ordered(found, Ranking(ls, found)) \in [1 .. size -> found]
<1> DEFINE found == Candidates(ls)
           size == Cardinality(found)
           s == Ordered(found, Ranking(ls, found))
<1>1. IsFiniteSet(found) /\ found \in SUBSET Hits
  BY CandidatesAre
<1>2. Orders(Ranking(ls, found), found)
  BY <1>1, RankingOrders
<1>3. size \in Nat /\ s \in [1 .. size -> found]
  BY <1>1, <1>2, OrderedIs
<1>4. s \in Seq(Hits) /\ Len(s) = size /\ DOMAIN s = 1 .. size
  <2> HIDE DEF s, found, size
  <2>1. s \in [1 .. size -> Hits]
    BY <1>1, <1>3
  <2> QED
    BY <1>3, <2>1
<1>5. Fused(ls, top) = Top(s, top)
  BY DEF Fused
<1> HIDE DEF s, found, size
<1>6. /\ Top(s, top) \in Seq(Hits) /\ Len(Top(s, top)) = IF top <= Len(s) THEN top ELSE Len(s)
      /\ \A i \in DOMAIN Top(s, top) : i \in DOMAIN s /\ Top(s, top)[i] = s[i]
  BY <1>4, TopIs
<1>7. DOMAIN Top(s, top) = 1 .. Len(Top(s, top))
  BY <1>6
<1> QED
  BY <1>2, <1>3, <1>4, <1>5, <1>6, <1>7 DEF s, found, size

\* The question without the link path.
LEMMA AloneIs ==
  ASSUME NEW ls, Fit(ls)
  PROVE  LET alone == [ls EXCEPT !.link = <<>>]
         IN /\ Fit(alone) /\ Candidates(alone) = Direct(ls)
            /\ \A d \in Direct(ls) : Score(alone, d.id) = Score(ls, d.id)
<1> DEFINE alone == [ls EXCEPT !.link = <<>>]
<1>1. /\ ls.keyword \in Ranks /\ ls.vector \in Ranks /\ ls.link \in Ranks /\ ls.flat \in BOOLEAN
      /\ LinkWeight \in Nat /\ MaxHits \in Nat
  BY AnswerAssumption DEF Fit
<1>2. <<>> \in Ranks /\ Range(<<>>) = {} /\ \A id : ~ Holds(<<>>, id)
  BY <1>1 DEF Ranks, Range, Holds
<1>3. /\ alone \in [keyword : Ranks, flat : BOOLEAN, vector : Ranks, link : Ranks]
      /\ alone.keyword = ls.keyword /\ alone.flat = ls.flat /\ alone.vector = ls.vector /\ alone.link = <<>>
  BY <1>1, <1>2 DEF Fit
<1> HIDE DEF alone
<1>4. Fit(alone)
  BY <1>2, <1>3 DEF Fit
<1>5. Candidates(alone) = Direct(ls)
  BY <1>2, <1>3 DEF Candidates, Direct
<1>6. ASSUME NEW d \in Direct(ls)
      PROVE  Score(alone, d.id) = Score(ls, d.id)
  <2>1. ~ Holds(ls.link, d.id)
    <3>1. d \in Hits /\ Range(ls.link) \in SUBSET Hits /\ d \notin Range(ls.link)
      BY <1>1, CandidatesAre, RanksAre DEF Fit
    <3>2. \A g \in Hits : g.id = d.id => g = d
      BY <3>1, AnswerAssumption
    <3>3. Holds(ls.link, d.id) => \E g \in Range(ls.link) : g.id = d.id
      BY DEF Holds, Range
    <3> QED
      BY <3>1, <3>2, <3>3
  <2>2. Vote(ls.link, FALSE, d.id, LinkWeight) = 0 /\ Vote(<<>>, FALSE, d.id, LinkWeight) = 0
    BY <1>1, <1>2, <2>1, VoteIs
  <2> QED
    BY <1>3, <2>2 DEF Score
<1> QED
  BY <1>4, <1>5, <1>6 DEF alone

\* A link only adds, when one vote of the last direct rank outweighs the best
\* vote of the link path.
LEMMA LinkAdds ==
  ASSUME NEW ls, Fit(ls), LinkWeight * (K + MaxHits) < 2 * (K + 1), NEW top \in Nat
  PROVE  LET whole == Fused(ls, top)
             alone == Fused([ls EXCEPT !.link = <<>>], top)
         IN /\ Len(alone) <= Len(whole)
            /\ \A i \in 1 .. Len(whole) :
                 IF i <= Len(alone) THEN whole[i] = alone[i]
                 ELSE \A d \in Direct(ls) : whole[i] # d /\ whole[i].path # d.path
<1> DEFINE S == Candidates(ls)
           D == Direct(ls)
           bare == [ls EXCEPT !.link = <<>>]
           R == Ranking(ls, S)
           Q == Ranking(bare, D)
           whole == Fused(ls, top)
           alone == Fused(bare, top)
<1>1. IsFiniteSet(S) /\ S \in SUBSET Hits /\ D \in SUBSET S
  BY CandidatesAre
<1>2. Fit(bare) /\ Candidates(bare) = D /\ \A d \in D : Score(bare, d.id) = Score(ls, d.id)
  BY AloneIs
<1>3. Orders(R, S) /\ \A x, y \in S : <<x, y>> \in R
        <=> \/ Score(ls, x.id) > Score(ls, y.id)
            \/ Score(ls, x.id) = Score(ls, y.id) /\ x.id < y.id
  BY <1>1, RankingOrders
<1>4. Orders(Q, D) /\ \A x, y \in D : <<x, y>> \in Q
        <=> \/ Score(bare, x.id) > Score(bare, y.id)
            \/ Score(bare, x.id) = Score(bare, y.id) /\ x.id < y.id
  <2>1. D \in SUBSET Hits
    BY <1>1
  <2> HIDE DEF bare, D
  <2> QED
    BY <1>2, <2>1, RankingOrders
<1>5. \A x \in D, y \in S \ D : <<x, y>> \in R
  <2> SUFFICES ASSUME NEW x \in D, NEW y \in S \ D
               PROVE  <<x, y>> \in R
    OBVIOUS
  <2>1. Score(ls, x.id) > Score(ls, y.id)
    BY DirectFirst
  <2> QED
    BY <1>1, <1>3, <2>1
<1>6. /\ Cardinality(D) \in Nat /\ Cardinality(D) <= Cardinality(S)
      /\ \A i \in 1 .. Cardinality(D) : Ordered(D, Q)[i] = Ordered(S, R)[i]
      /\ \A i \in 1 .. Cardinality(S) : i > Cardinality(D) => Ordered(S, R)[i] \notin D
  <2>1. \A x, y \in D : <<x, y>> \in Q <=> <<x, y>> \in R
    <3> HIDE DEF D, Q, S, R, bare
    <3> TAKE x, y \in D
    <3>1. Score(bare, x.id) = Score(ls, x.id) /\ Score(bare, y.id) = Score(ls, y.id) /\ x \in S /\ y \in S
      BY <1>1, <1>2
    <3> QED
      BY <1>3, <1>4, <3>1
  <2> HIDE DEF D, Q, S, R
  <2>2. Leads(D, Q, S, R)
    BY <1>1, <1>5, <2>1 DEF Leads
  <2> QED
    BY <1>1, <1>3, <2>2, OrderedPrefix
<1>7. /\ Cardinality(S) \in Nat /\ Len(whole) = IF top <= Cardinality(S) THEN top ELSE Cardinality(S)
      /\ \A i \in 1 .. Len(whole) : i \in 1 .. Cardinality(S) /\ whole[i] = Ordered(S, R)[i]
      /\ Ordered(S, R) \in [1 .. Cardinality(S) -> S]
  BY FusedIs
<1>8. /\ Len(alone) = IF top <= Cardinality(D) THEN top ELSE Cardinality(D)
      /\ \A i \in 1 .. Len(alone) : i \in 1 .. Cardinality(D) /\ alone[i] = Ordered(D, Q)[i]
  <2> HIDE DEF bare, D
  <2> QED
    BY <1>2, FusedIs
<1>9. \A x \in S \ D : \A d \in D : x.path # d.path
  <2>1. S \ D \in SUBSET Range(ls.link)
    BY DEF Candidates, Direct
  <2> QED
    BY <2>1 DEF Fit
<1> HIDE DEF S, D, R, Q, whole, alone
<1>10. Len(alone) <= Len(whole)
  BY <1>6, <1>7, <1>8
<1>11. ASSUME NEW i \in 1 .. Len(whole), i <= Len(alone)
       PROVE  whole[i] = alone[i]
  <2>1. i \in 1 .. Len(alone)
    BY <1>11, <1>6, <1>7, <1>8
  <2> QED
    BY <1>6, <1>7, <1>8, <2>1
<1>12. ASSUME NEW i \in 1 .. Len(whole), ~ (i <= Len(alone)), NEW d \in D
       PROVE  whole[i] # d /\ whole[i].path # d.path
  <2>1. i \in 1 .. Cardinality(S) /\ i > Cardinality(D) /\ whole[i] = Ordered(S, R)[i]
    BY <1>6, <1>7, <1>8, <1>12
  <2>2. whole[i] \in S \ D
    BY <1>6, <1>7, <2>1
  <2> QED
    BY <1>9, <2>2
<1> QED
  BY <1>10, <1>11, <1>12 DEF whole, alone, D
(***************************************************************************)
(* The lists of a question.                                                *)
(***************************************************************************)

\* The expansion lists notes of the graph.
LEMMA ExpansionIs ==
  ASSUME NEW g \in Graphs, NEW seeds, IsFiniteSet(seeds)
  PROVE  Expansion(g, seeds) \in Seq(g.notes)
<1> DEFINE strength == [p \in g.notes |-> Strength(g, seeds, p)]
           found == {p \in g.notes \ seeds : strength[p] > 0}
           R == {x \in found \X found :
                   \/ strength[x[1]] > strength[x[2]]
                   \/ strength[x[1]] = strength[x[2]] /\ x[1] < x[2]}
<1>1. g.notes \in SUBSET Nat /\ IsFiniteSet(g.notes) /\ found \in SUBSET g.notes
  BY AnswerAssumption
<1>2. \A p \in g.notes : strength[p] \in Nat
  <2> SUFFICES ASSUME NEW p \in g.notes
               PROVE  Strength(g, seeds, p) \in Nat
    OBVIOUS
  <2> DEFINE Near(s) == p \notin OneHop(g, s) /\ \E h \in OneHop(g, s) : p \in OneHop(g, h)
             A == {s \in seeds : p \in Outgoing(g, s)}
             B == {s \in seeds : p \in Incoming(g, s)}
             C == {s \in seeds : g.tags[s] \cap g.tags[p] # {}}
             N == {s \in seeds : Near(s)}
  <2>1. \A s \in SUBSET seeds : Cardinality(s) \in Nat
    BY FS_Subset, FS_CardinalityType
  <2>2. A \in SUBSET seeds /\ B \in SUBSET seeds /\ C \in SUBSET seeds /\ N \in SUBSET seeds
    OBVIOUS
  <2>3. Strength(g, seeds, p) = 10 * Cardinality(A) + 8 * Cardinality(B) + 6 * Cardinality(C) + 4 * Cardinality(N)
    BY DEF Strength
  <2> HIDE DEF A, B, C, N
  <2> QED
    BY <2>1, <2>2, <2>3
<1>3. \A x, y \in found : <<x, y>> \in R <=> strength[x] > strength[y] \/ (strength[x] = strength[y] /\ x < y)
  OBVIOUS
<1>4. Expansion(g, seeds) = Ordered(found, R)
  BY DEF Expansion
<1>5. IsFiniteSet(found)
  BY <1>1, FS_Subset
<1>6. \A x \in found : x \in Nat /\ strength[x] \in Nat
  BY <1>1, <1>2
<1> HIDE DEF strength, found, R
<1>7. Orders(R, found)
  BY <1>3, <1>6 DEF Orders
<1>8. Cardinality(found) \in Nat /\ Ordered(found, R) \in [1 .. Cardinality(found) -> found]
  BY <1>5, <1>7, OrderedIs
<1>9. Ordered(found, R) \in [1 .. Cardinality(found) -> g.notes]
  BY <1>1, <1>8
<1> QED
  BY <1>4, <1>8, <1>9

\* Selected entries are a list, no longer than the one they come from.
LEMMA EntriesSeq ==
  ASSUME NEW A, NEW s \in Seq(A), NEW I \in SUBSET (DOMAIN s)
  PROVE  /\ Entries(s, I) \in Seq(A) /\ Len(Entries(s, I)) <= Len(s)
         /\ \A n \in DOMAIN Entries(s, I) : \E i \in I : Entries(s, I)[n] = s[i]
<1>1. /\ Cardinality(I) \in Nat /\ Cardinality(I) <= Len(s)
      /\ Entries(s, I) \in [1 .. Cardinality(I) -> A]
      /\ Ascending(I) \in [1 .. Cardinality(I) -> I]
      /\ \A n \in 1 .. Cardinality(I) : Entries(s, I)[n] = s[Ascending(I)[n]]
  BY EntriesAre
<1>2. Entries(s, I) \in Seq(A) /\ Len(Entries(s, I)) = Cardinality(I) /\ DOMAIN Entries(s, I) = 1 .. Cardinality(I)
  BY <1>1
<1> QED
  BY <1>1, <1>2

\* The link expansion gives a ranked list.
LEMMA LinkHitsAre ==
  ASSUME graph \in Graphs, NEW keyword \in Ranks, NEW best \in BestChunks
  PROVE  LinkHits(keyword, best) \in Ranks
<1> DEFINE seeds == {keyword[i].path : i \in 1 .. Min({SeedTopK, Len(keyword)})}
           notes == Expansion(graph, seeds)
           I == {i \in DOMAIN notes : notes[i] \in DOMAIN best}
           found == Entries(notes, I)
           s == [i \in DOMAIN found |-> best[found[i]]]
<1>1. MaxHits \in Nat /\ SeedTopK \in Nat /\ keyword \in Seq(Hits) /\ Len(keyword) \in Nat
  BY AnswerAssumption DEF Ranks
<1>2. IsFiniteSet(seeds)
  <2> DEFINE m == Min({SeedTopK, Len(keyword)})
             f == [i \in 1 .. m |-> keyword[i].path]
  <2>1. m \in Nat
    BY <1>1, LesserIs
  <2> HIDE DEF m
  <2>2. IsFiniteSet(1 .. m)
    BY <2>1, FS_Interval
  <2>3. f \in Surjection(1 .. m, {keyword[i].path : i \in 1 .. m})
    BY DEF Surjection
  <2>4. IsFiniteSet({keyword[i].path : i \in 1 .. m})
    BY <2>2, <2>3, FS_Surjection
  <2> QED
    BY <2>4 DEF m
<1> HIDE DEF seeds
<1>3. notes \in Seq(graph.notes)
  BY <1>2, ExpansionIs
<1> HIDE DEF notes
<1>4. I \in SUBSET (DOMAIN notes)
  OBVIOUS
<1>5. found \in Seq(graph.notes) /\ \A n \in DOMAIN found : \E i \in I : found[n] = notes[i]
  <2> HIDE DEF I
  <2> QED
    BY <1>3, <1>4, EntriesSeq
<1>6. \A n \in DOMAIN found : best[found[n]] \in Hits
  BY <1>5 DEF BestChunks
<1>7. s \in Seq(Hits)
  <2> HIDE DEF found
  <2>1. DOMAIN found = 1 .. Len(found) /\ Len(found) \in Nat
    BY <1>5
  <2> QED
    BY <1>6, <2>1
<1>8. LinkHits(keyword, best) = IF seeds = {} THEN <<>> ELSE Top(s, MaxHits)
  BY DEF LinkHits, seeds, notes
<1> HIDE DEF s
<1>9. Top(s, MaxHits) \in Ranks
  BY <1>1, <1>7, TopIs DEF Ranks
<1> QED
  BY <1>1, <1>8, <1>9 DEF Ranks

\* What a retriever may answer is a ranked list.
LEMMA RankedAre == RankedLists \subseteq Ranks
<1>1. MaxHits \in Nat
  BY AnswerAssumption
<1>2. ASSUME NEW n \in 0 .. MaxHits, NEW s \in [1 .. n -> Hits]
      PROVE  s \in Ranks
  BY <1>1 DEF Ranks
<1> QED
  BY <1>2 DEF RankedLists

\* _new_link_candidates leaves no document of a direct hit in the link list.
LEMMA NewLinksFit ==
  ASSUME NEW keyword \in Ranks, NEW flat \in BOOLEAN, NEW vector \in Ranks, NEW link \in Ranks
  PROVE  Fit([keyword |-> keyword, flat |-> flat, vector |-> vector,
              link |-> NewLinkCandidates([keyword |-> keyword, vector |-> vector, link |-> link])])
<1> DEFINE ls == [keyword |-> keyword, vector |-> vector, link |-> link]
           covered == {h.path : h \in Range(keyword) \cup Range(vector)}
           I == {i \in DOMAIN link : link[i].path \notin covered}
           new == Entries(link, I)
           all == [keyword |-> keyword, flat |-> flat, vector |-> vector, link |-> new]
<1>1. NewLinkCandidates(ls) = new
  BY DEF NewLinkCandidates
<1>2. link \in Seq(Hits) /\ Len(link) <= MaxHits /\ MaxHits \in Nat
  BY AnswerAssumption DEF Ranks
<1>3. new \in Seq(Hits) /\ Len(new) <= Len(link) /\ \A n \in DOMAIN new : \E i \in I : new[n] = link[i]
  <2>1. I \in SUBSET (DOMAIN link)
    OBVIOUS
  <2> HIDE DEF I
  <2> QED
    BY <1>2, <2>1, EntriesSeq
<1>4. \A h \in Range(new) : h.path \notin covered
  BY <1>3 DEF Range
<1> HIDE DEF new
<1>5. new \in Ranks
  BY <1>2, <1>3 DEF Ranks
<1>6. all \in [keyword : Ranks, flat : BOOLEAN, vector : Ranks, link : Ranks]
  BY <1>5
<1>7. \A h \in Range(all.link), d \in Direct(all) : h.path # d.path
  BY <1>4 DEF Direct
<1>8. Fit(all)
  BY <1>6, <1>7 DEF Fit
<1> QED
  BY <1>1, <1>8

\* The lists of every question, whatever the graph.
ListsInv == graph \in Graphs /\ Fit(lists)

\* Without lists there is nothing to collide.
LEMMA NoListsFit == Fit(NoLists)
<1>1. <<>> \in Ranks /\ Range(<<>>) = {}
  BY AnswerAssumption DEF Ranks, Range
<1> QED
  BY <1>1 DEF Fit, NoLists

\* Every step of a question leaves lists that fit together.
LEMMA ListsInvSteps ==
  ASSUME ListsInv, AnswerNext
  PROVE  ListsInv'
<1>1. CASE Retrieve
  <2>1. PICK keyword \in KeywordLists, vector \in VectorLists, best \in BestChunks :
          \E link \in {<<>>, LinkHits(keyword.hits, best)} :
            lists' = [keyword |-> keyword.hits, flat |-> keyword.flat, vector |-> vector,
                      link |-> NewLinkCandidates([keyword |-> keyword.hits,
                                                  vector |-> vector, link |-> link])]
    BY <1>1 DEF Retrieve
  <2>2. PICK link \in {<<>>, LinkHits(keyword.hits, best)} :
            lists' = [keyword |-> keyword.hits, flat |-> keyword.flat, vector |-> vector,
                      link |-> NewLinkCandidates([keyword |-> keyword.hits,
                                                  vector |-> vector, link |-> link])]
    BY <2>1
  <2>3. keyword.hits \in Ranks /\ keyword.flat \in BOOLEAN /\ vector \in Ranks
    BY RankedAre DEF KeywordLists, VectorLists
  <2>4. link \in Ranks
    <3>1. <<>> \in Ranks
      BY AnswerAssumption DEF Ranks
    <3> QED
      BY <2>3, <3>1, LinkHitsAre DEF ListsInv
  <2>5. Fit(lists')
    BY <2>2, <2>3, <2>4, NewLinksFit
  <2>6. graph' = graph
    BY <1>1 DEF Retrieve
  <2> QED
    BY <2>5, <2>6 DEF ListsInv, Fit, Direct
<1>2. CASE BuildPack
  BY <1>2, NoListsFit DEF BuildPack, ListsInv, Fit, Direct
<1>3. CASE UNCHANGED <<graph, lists>>
  BY <1>3 DEF ListsInv, Fit, Direct
<1>4. AnswerNext => Retrieve \/ BuildPack \/ UNCHANGED <<graph, lists>>
  BY DEF AnswerNext, Disabled, RetrieveFails, Fuse, Rerank, GenerateFails, Generate, Answered
<1> QED
  BY <1>1, <1>2, <1>3, <1>4

(***************************************************************************)
(* The lists a question is fused from fit together                         *)
(* (HybridRetriever.search, _new_link_candidates): each is a ranked list,  *)
(* and no hit of the link path is of a document a direct path found.       *)
(***************************************************************************)
THEOREM ListsInvHolds == AnswerSpec => []ListsInv
<1>1. AnswerInit => ListsInv
  BY NoListsFit DEF AnswerInit, ListsInv
<1>2. ListsInv /\ [AnswerNext]_answerVars => ListsInv'
  <2>1. ASSUME ListsInv, UNCHANGED answerVars
        PROVE  ListsInv'
    BY <2>1 DEF answerVars, ListsInv, Fit, Direct
  <2> QED
    BY <2>1, ListsInvSteps
<1> QED
  BY <1>1, <1>2, PTL DEF AnswerSpec

(***************************************************************************)
(* The link path only adds (rrf.py reciprocal_rank_fusion, hybrid.py       *)
(* search): the fused list begins with what it is without links, in that   *)
(* order, and no later hit is of a document the direct paths found. The    *)
(* hypothesis is the strict inequality the weight of the link list is      *)
(* chosen for (hybrid.py, DEFAULT_LINK_RRF_WEIGHT): even the first link    *)
(* hit scores less than the last direct one. The weight 0.5 with rrf_k 60  *)
(* meets it while no list is longer than 61 hits, as with the default of   *)
(* 30; a weight of 1.0 does not meet it.                                   *)
(***************************************************************************)
THEOREM LinksOnlyAddHolds ==
  ASSUME LinkWeight * (K + MaxHits) < 2 * (K + 1)
  PROVE  AnswerSpec => []LinksOnlyAdd
<1>1. ListsInv => LinksOnlyAdd
  <2>1. 3 * MaxHits \in Nat
    BY AnswerAssumption
  <2> QED
    BY <2>1, LinkAdds DEF ListsInv, LinksOnlyAdd
<1> QED
  BY <1>1, ListsInvHolds, PTL
(***************************************************************************)
(* The tokens of a list.                                                   *)
(***************************************************************************)

\* What an evidence block can be of.
BlockPaths == {h.path : h \in Hits}
Blocks == [path : BlockPaths, from : Nat, to : Nat, tok : Nat,
           texts : SUBSET {h.text : h \in Hits}, ids : SUBSET {h.id : h \in Hits}]

\* The sums of the first blocks.
LEMMA TokensAre ==
  ASSUME NEW s \in Seq(Blocks), NEW I
  PROVE  \E f \in [0 .. Len(s) -> Nat] :
           /\ f[0] = 0
           /\ \A i \in 1 .. Len(s) : f[i] = f[i - 1] + (IF i \in I THEN s[i].tok ELSE 0)
           /\ Tokens(s, I) = f[Len(s)]
<1> DEFINE N == Len(s)
           Add(i) == IF i \in I THEN s[i].tok ELSE 0
           T == [x \in Nat \X (1 .. N) |-> x[1] + Add(x[2])]
           P(g) == g = [n \in 0 .. N |-> IF n = 0 THEN 0 ELSE g[n - 1] + Add(n)]
           sum == CHOOSE g : P(g)
<1>1. N \in Nat /\ \A i \in 1 .. N : Add(i) \in Nat
  <2>1. \A i \in 1 .. N : s[i] \in Blocks
    OBVIOUS
  <2>2. \A b \in Blocks : b.tok \in Nat
    BY DEF Blocks
  <2> QED
    BY <2>1, <2>2
<1>2. Tokens(s, I) = sum[N]
  BY DEF Tokens
<1> HIDE DEF N, Add
<1>3. T \in [Nat \X (1 .. N) -> Nat]
  BY <1>1
<1>4. \E f : Steps(f, N, Nat, 0, T)
  <2> HIDE DEF T
  <2> QED
    BY <1>1, <1>3, StepsExist
<1>5. PICK f \in [0 .. N -> Nat] : f[0] = 0 /\ \A i \in 1 .. N : f[i] = T[<<f[i - 1], i>>]
  BY <1>4 DEF Steps
<1>6. \A i \in 1 .. N : i - 1 \in 0 .. N /\ f[i - 1] \in Nat /\ f[i] = f[i - 1] + Add(i)
  <2> TAKE i \in 1 .. N
  <2>1. i - 1 \in 0 .. N
    BY <1>1
  <2>2. f[i - 1] \in Nat /\ <<f[i - 1], i>> \in Nat \X (1 .. N)
    BY <1>5, <2>1
  <2>3. T[<<f[i - 1], i>>] = f[i - 1] + Add(i)
    BY <2>2
  <2> QED
    BY <1>5, <2>1, <2>2, <2>3
<1>7. P(f)
  BY <1>1, <1>5, <1>6
<1>8. P(sum)
  <2>1. \E g : P(g)
    BY <1>7
  <2> HIDE DEF P
  <2> QED
    BY <2>1
<1> HIDE DEF sum
<1>9. sum[0] = 0 /\ \A i \in 1 .. N : sum[i] = sum[i - 1] + Add(i)
  BY <1>1, <1>8
<1> DEFINE S == {n \in 0 .. N : sum[n] \in Nat}
<1>10. \A n \in 0 .. N : sum[n] \in Nat
  <2>1. 0 \in S
    BY <1>1, <1>9
  <2>2. \A i \in 1 .. N : i - 1 \in S => i \in S
    BY <1>1, <1>9
  <2> HIDE DEF S
  <2>3. 0 .. N \subseteq S
    BY <1>1, <2>1, <2>2, CountUp
  <2> QED
    BY <2>3 DEF S
<1>11. sum \in [0 .. N -> Nat]
  BY <1>8, <1>10
<1> QED
  BY <1>2, <1>9, <1>11 DEF N, Add

\* One block more.
LEMMA TokensAppend ==
  ASSUME NEW s \in Seq(Blocks), NEW b \in Blocks, NEW I, NEW J,
         \A i \in 1 .. Len(s) : i \in I <=> i \in J
  PROVE  /\ Tokens(s, I) \in Nat
         /\ Tokens(Append(s, b), J) = Tokens(s, I) + (IF Len(s) + 1 \in J THEN b.tok ELSE 0)
<1> DEFINE t == Append(s, b)
           N == Len(s)
<1>1. t \in Seq(Blocks) /\ Len(t) = N + 1 /\ N \in Nat /\ t[N + 1] = b /\ \A i \in 1 .. N : t[i] = s[i]
  OBVIOUS
<1>2. PICK f \in [0 .. N -> Nat] :
        /\ f[0] = 0
        /\ \A i \in 1 .. N : f[i] = f[i - 1] + (IF i \in I THEN s[i].tok ELSE 0)
        /\ Tokens(s, I) = f[N]
  BY TokensAre
<1> HIDE DEF t
<1>3. PICK g \in [0 .. Len(t) -> Nat] :
        /\ g[0] = 0
        /\ \A i \in 1 .. Len(t) : g[i] = g[i - 1] + (IF i \in J THEN t[i].tok ELSE 0)
        /\ Tokens(t, J) = g[Len(t)]
  BY <1>1, TokensAre
<1> HIDE DEF N
<1> DEFINE S == {n \in 0 .. N : f[n] = g[n]}
<1>4. f[N] = g[N]
  <2>1. 0 \in S
    BY <1>1, <1>2, <1>3
  <2>2. ASSUME NEW i \in 1 .. N, i - 1 \in S
        PROVE  i \in S
    <3>1. i \in 1 .. N + 1 /\ f[i - 1] = g[i - 1] /\ t[i] = s[i] /\ (i \in I <=> i \in J)
      BY <1>1, <2>2 DEF N
    <3>2. f[i] = g[i]
      BY <1>1, <1>2, <1>3, <3>1
    <3> QED
      BY <3>2
  <2> HIDE DEF S
  <2>3. 0 .. N \subseteq S
    BY <1>1, <2>1, <2>2, CountUp
  <2> QED
    BY <1>1, <2>3 DEF S
<1>5. N + 1 \in 1 .. Len(t) /\ (N + 1) - 1 = N
  BY <1>1
<1>6. g[N + 1] = g[N] + (IF N + 1 \in J THEN b.tok ELSE 0)
  BY <1>1, <1>3, <1>5
<1>7. f[N] \in Nat
  BY <1>1, <1>2
<1> QED
  BY <1>1, <1>2, <1>3, <1>4, <1>6, <1>7 DEF N, t

\* An empty list has no tokens.
LEMMA TokensNone == ASSUME NEW I PROVE Tokens(<<>>, I) = 0
<1>1. <<>> \in Seq(Blocks) /\ Len(<<>>) = 0
  OBVIOUS
<1>2. PICK f \in [0 .. Len(<<>>) -> Nat] : f[0] = 0 /\ Tokens(<<>>, I) = f[Len(<<>>)]
  <2>1. PICK s \in Seq(Blocks) : s = <<>>
    BY <1>1
  <2>2. \E f \in [0 .. Len(s) -> Nat] : f[0] = 0 /\ Tokens(s, I) = f[Len(s)]
    BY TokensAre
  <2> QED
    BY <2>1, <2>2
<1> QED
  BY <1>1, <1>2
(***************************************************************************)
(* The blocks a pack takes.                                                *)
(***************************************************************************)

\* What build carries from candidate to candidate.
Taking == [taken : Seq(Blocks), used : Nat, spent : [BlockPaths -> Nat], full : BOOLEAN]

\* What a document has taken of its share.
ShareKept(acc, d) ==
  LET share == OfDocument(acc.taken, d)
      sum == Tokens(acc.taken, share)
  IN \/ acc.spent[d] = sum /\ sum <= PerDocument
     \/ acc.spent[d] = PerDocument + 1 /\ \E j \in share : sum = acc.taken[j].tok

\* What a pack keeps to while it takes the first n of the blocks offered.
Keeping(acc, offered, n) ==
  /\ acc \in Taking
  /\ Len(acc.taken) <= MaxChunks
  /\ \A i \in DOMAIN acc.taken : \E k \in 1 .. n : acc.taken[i] = offered[k]
  /\ \A i, j \in DOMAIN acc.taken : i # j => acc.taken[i] # acc.taken[j]
  /\ Tokens(acc.taken, DOMAIN acc.taken) = acc.used
  /\ acc.used <= MaxTokens \/ Len(acc.taken) = 1
  /\ \A d \in BlockPaths : ShareKept(acc, d)

\* One block more for a document, and none for the others.
LEMMA ShareAppend ==
  ASSUME NEW s \in Seq(Blocks), NEW b \in Blocks, NEW d
  PROVE  /\ Tokens(s, OfDocument(s, d)) \in Nat
         /\ Tokens(Append(s, b), OfDocument(Append(s, b), d))
              = Tokens(s, OfDocument(s, d)) + (IF b.path = d THEN b.tok ELSE 0)
         /\ OfDocument(s, d) \subseteq OfDocument(Append(s, b), d)
         /\ Len(s) + 1 \in OfDocument(Append(s, b), d) <=> b.path = d
<1> DEFINE t == Append(s, b)
           I == OfDocument(s, d)
           J == OfDocument(t, d)
<1>1. Len(s) \in Nat /\ DOMAIN s = 1 .. Len(s) /\ DOMAIN t = 1 .. Len(s) + 1 /\ t[Len(s) + 1] = b /\ \A i \in 1 .. Len(s) : t[i] = s[i]
  OBVIOUS
<1>2. \A i \in 1 .. Len(s) : i \in I <=> i \in J
  BY <1>1 DEF OfDocument
<1>3. Len(s) + 1 \in J <=> b.path = d
  BY <1>1 DEF OfDocument
<1>4. I \subseteq J
  BY <1>1, <1>2 DEF OfDocument
<1> HIDE DEF I, J
<1>5. /\ Tokens(s, I) \in Nat
      /\ Tokens(Append(s, b), J) = Tokens(s, I) + (IF Len(s) + 1 \in J THEN b.tok ELSE 0)
  BY <1>2, TokensAppend
<1> QED
  BY <1>3, <1>4, <1>5 DEF I, J

\* build: one candidate more keeps the budgets of what is taken.
LEMMA AdmitKeeps ==
  ASSUME NEW offered \in Seq(Blocks), NEW n \in 1 .. Len(offered),
         \A i, j \in DOMAIN offered : i # j => offered[i] # offered[j],
         NEW acc, Keeping(acc, offered, n - 1)
  PROVE  Keeping(Admit(acc, offered[n]), offered, n)
<1> DEFINE b == offered[n]
           new == Admit(acc, b)
           s == acc.taken
           spent == acc.spent[b.path]
           charge == IF spent = 0 /\ b.tok > PerDocument THEN PerDocument + 1 ELSE spent + b.tok
           overShare == spent > 0 /\ spent + b.tok > PerDocument
           overBudget == acc.used + b.tok > MaxTokens /\ acc.taken # <<>>
           full == [acc EXCEPT !.full = TRUE]
           more == [taken |-> Append(s, b), used |-> acc.used + b.tok,
                    spent |-> [acc.spent EXCEPT ![b.path] = charge], full |-> FALSE]
<1>1. b \in Blocks /\ b.path \in BlockPaths /\ b.tok \in Nat /\ n \in Nat
  <2>1. b \in Blocks /\ n \in Nat
    OBVIOUS
  <2> QED
    BY <2>1 DEF Blocks
<1>2. /\ acc \in Taking /\ s \in Seq(Blocks) /\ acc.used \in Nat /\ spent \in Nat
      /\ PerDocument \in Nat /\ MaxTokens \in Nat /\ MaxChunks \in Nat \ {0}
  BY <1>1, AnswerAssumption DEF Keeping, Taking
<1>3. new = IF acc.full \/ Len(s) >= MaxChunks THEN full
            ELSE IF overShare THEN acc ELSE IF overBudget THEN full ELSE more
  BY DEF Admit
<1>4. \A i \in DOMAIN s : \E k \in 1 .. n : s[i] = offered[k]
  BY <1>1 DEF Keeping
<1>5. Keeping(acc, offered, n)
  BY <1>4 DEF Keeping
<1>6. Keeping(full, offered, n)
  <2>1. full \in Taking /\ full.taken = acc.taken /\ full.used = acc.used /\ full.spent = acc.spent
    BY <1>2 DEF Taking
  <2> HIDE DEF full
  <2> QED
    BY <1>5, <2>1 DEF Keeping, ShareKept
<1>7. ASSUME ~ (Len(s) >= MaxChunks), ~ overShare, ~ overBudget
      PROVE  Keeping(more, offered, n)
  <2> DEFINE t == Append(s, b)
  <2>2. /\ Len(s) \in Nat /\ DOMAIN s = 1 .. Len(s) /\ Len(t) = Len(s) + 1 /\ DOMAIN t = 1 .. Len(s) + 1
        /\ t[Len(s) + 1] = b /\ \A i \in 1 .. Len(s) : t[i] = s[i]
    <3> HIDE DEF s, b
    <3> QED
      BY <1>1, <1>2
  <2>1. more \in Taking /\ more.taken = t /\ more.used = acc.used + b.tok /\ more.spent = [acc.spent EXCEPT ![b.path] = charge]
    <3>1. charge \in Nat /\ acc.spent \in [BlockPaths -> Nat]
      BY <1>1, <1>2 DEF Taking
    <3> HIDE DEF charge
    <3>2. [acc.spent EXCEPT ![b.path] = charge] \in [BlockPaths -> Nat]
      BY <3>1
    <3>3. t \in Seq(Blocks) /\ acc.used + b.tok \in Nat
      BY <1>1, <1>2
    <3> HIDE DEF t
    <3> QED
      BY <3>2, <3>3 DEF Taking, t
  <2>14. t \in Seq(Blocks)
    BY <1>1, <1>2
  <2>15. Tokens(t, DOMAIN t) = acc.used + b.tok
    <3> DEFINE I == DOMAIN s
               J == DOMAIN t
    <3>1. \A i \in 1 .. Len(s) : i \in I <=> i \in J
      BY <2>2
    <3>2. Len(s) + 1 \in J
      BY <2>2
    <3>3. Tokens(s, I) = acc.used
      BY DEF Keeping
    <3> HIDE DEF I, J
    <3>4. Tokens(t, J) = Tokens(s, I) + (IF Len(s) + 1 \in J THEN b.tok ELSE 0)
      BY <1>1, <1>2, <3>1, TokensAppend
    <3> QED
      BY <3>2, <3>3, <3>4 DEF J
  <2>16. \A d : /\ Tokens(s, OfDocument(s, d)) \in Nat
                /\ Tokens(t, OfDocument(t, d)) = Tokens(s, OfDocument(s, d)) + (IF b.path = d THEN b.tok ELSE 0)
                /\ OfDocument(s, d) \subseteq OfDocument(t, d)
                /\ Len(s) + 1 \in OfDocument(t, d) <=> b.path = d
    BY <1>1, <1>2, ShareAppend
  <2> HIDE DEF t
  <2>3. Len(t) <= MaxChunks
    BY <1>2, <1>7, <2>2
  <2>4. \A i \in DOMAIN t : \E k \in 1 .. n : t[i] = offered[k]
    <3> TAKE i \in DOMAIN t
    <3>1. CASE i = Len(s) + 1
      BY <1>1, <2>2, <3>1
    <3>2. CASE i \in 1 .. Len(s)
      BY <1>4, <2>2, <3>2
    <3> QED
      BY <2>2, <3>1, <3>2
  <2>5. \A i \in 1 .. Len(s) : s[i] # b
    <3> TAKE i \in 1 .. Len(s)
    <3>1. PICK k \in 1 .. n - 1 : s[i] = offered[k]
      BY <2>2 DEF Keeping
    <3>2. k \in DOMAIN offered /\ n \in DOMAIN offered /\ k # n
      BY <1>1
    <3> QED
      BY <3>1, <3>2
  <2>6. \A i, j \in DOMAIN t : i # j => t[i] # t[j]
    <3>1. \A i, j \in 1 .. Len(s) : i # j => s[i] # s[j]
      BY <2>2 DEF Keeping
    <3>2. \A i \in DOMAIN t : i \in 1 .. Len(s) \/ i = Len(s) + 1
      BY <2>2
    <3> QED
      BY <2>2, <2>5, <3>1, <3>2
  <2>8. more.used <= MaxTokens \/ Len(t) = 1
    <3>1. CASE s = <<>>
      BY <2>2, <3>1
    <3>2. CASE s # <<>>
      <4>1. acc.used + b.tok \in Nat /\ ~ (acc.used + b.tok > MaxTokens)
        BY <1>1, <1>2, <1>7, <3>2
      <4> HIDE DEF more
      <4> QED
        BY <1>2, <2>1, <4>1
    <3> QED
      BY <3>1, <3>2
  <2>9. ASSUME NEW d \in BlockPaths
        PROVE  ShareKept(more, d)
    <3> DEFINE I == OfDocument(s, d)
               J == OfDocument(t, d)
    <3>1. Tokens(s, I) \in Nat /\ Tokens(t, J) = Tokens(s, I) + (IF b.path = d THEN b.tok ELSE 0)
          /\ I \subseteq J /\ (Len(s) + 1 \in J <=> b.path = d) /\ I \subseteq 1 .. Len(s)
      <4>1. I \subseteq 1 .. Len(s)
        BY <2>2 DEF OfDocument
      <4> QED
        BY <2>16, <4>1
    <3>2. \/ acc.spent[d] = Tokens(s, I) /\ Tokens(s, I) <= PerDocument
          \/ acc.spent[d] = PerDocument + 1 /\ \E j \in I : Tokens(s, I) = s[j].tok
      BY DEF Keeping, ShareKept
    <3>3. acc.spent \in [BlockPaths -> Nat]
      BY <1>2 DEF Taking
    <3> HIDE DEF I, J, more, new, full
    <3>4. CASE b.path # d
      <4>1. more.spent[d] = acc.spent[d]
        BY <2>1, <3>3, <3>4
      <4>2. Tokens(t, J) = Tokens(s, I)
        BY <3>1, <3>4
      <4>3. \A j \in I : j \in J /\ t[j] = s[j]
        BY <2>2, <3>1
      <4> QED
        BY <2>1, <3>2, <4>1, <4>2, <4>3 DEF ShareKept, J
    <3>5. CASE b.path = d
      <4>1. more.spent[d] = charge /\ spent = acc.spent[d]
        BY <2>1, <3>3, <3>5
      <4>2. Tokens(t, J) = Tokens(s, I) + b.tok /\ Len(s) + 1 \in J
        BY <3>1, <3>5
      <4>3. spent = Tokens(s, I) /\ Tokens(s, I) <= PerDocument
        <5>1. spent <= PerDocument
          <6> HIDE DEF spent, b
          <6>1. spent = 0 \/ spent + b.tok <= PerDocument
            BY <1>1, <1>2, <1>7
          <6> QED
            BY <1>1, <1>2, <6>1
        <5> QED
          BY <1>2, <3>2, <4>1, <5>1
      <4>4. CASE spent = 0 /\ b.tok > PerDocument
        <5>1. charge = PerDocument + 1 /\ Tokens(t, J) = t[Len(s) + 1].tok
          BY <1>1, <2>2, <4>2, <4>3, <4>4
        <5> QED
          BY <2>1, <4>1, <4>2, <5>1 DEF ShareKept, J
      <4>5. CASE ~ (spent = 0 /\ b.tok > PerDocument)
        <5>1. charge = spent + b.tok /\ spent + b.tok <= PerDocument
          BY <1>1, <1>2, <1>7, <4>3, <4>5
        <5> QED
          BY <2>1, <4>1, <4>2, <4>3, <5>1 DEF ShareKept, J
      <4> QED
        BY <4>4, <4>5
    <3> QED
      BY <3>4, <3>5
  <2> HIDE DEF more
  <2> QED
    BY <2>1, <2>3, <2>4, <2>6, <2>8, <2>9, <2>15 DEF Keeping
<1> HIDE DEF full, more, overShare, overBudget
<1> QED
  BY <1>3, <1>5, <1>6, <1>7

\* build: the accumulator keeps its type.
LEMMA AdmitType ==
  ASSUME NEW acc \in Taking, NEW b \in Blocks
  PROVE  Admit(acc, b) \in Taking
<1> DEFINE spent == acc.spent[b.path]
           charge == IF spent = 0 /\ b.tok > PerDocument THEN PerDocument + 1 ELSE spent + b.tok
           full == [acc EXCEPT !.full = TRUE]
           more == [taken |-> Append(acc.taken, b), used |-> acc.used + b.tok,
                    spent |-> [acc.spent EXCEPT ![b.path] = charge], full |-> FALSE]
<1>1. /\ b.path \in BlockPaths /\ b.tok \in Nat /\ PerDocument \in Nat
      /\ acc.taken \in Seq(Blocks) /\ acc.used \in Nat /\ acc.spent \in [BlockPaths -> Nat]
  BY AnswerAssumption DEF Blocks, Taking
<1>2. spent \in Nat
  BY <1>1
<1>3. charge \in Nat
  BY <1>1, <1>2
<1>4. full \in Taking /\ more \in Taking
  <2>1. full \in Taking
    BY DEF Taking
  <2> HIDE DEF charge
  <2>2. /\ Append(acc.taken, b) \in Seq(Blocks) /\ acc.used + b.tok \in Nat
        /\ [acc.spent EXCEPT ![b.path] = charge] \in [BlockPaths -> Nat]
    BY <1>1, <1>3
  <2> QED
    BY <2>1, <2>2 DEF Taking
<1>5. Admit(acc, b) \in {acc, full, more}
  BY DEF Admit
<1> QED
  BY <1>4, <1>5

\* No entry twice.
Distinct(s) == \A i, j \in DOMAIN s : i # j => s[i] # s[j]

\* build starts within its budgets.
LEMMA NothingKept ==
  ASSUME NEW offered
  PROVE  Nothing \in Taking /\ Keeping(Nothing, offered, 0)
<1>1. Nothing \in Taking /\ Nothing.taken = <<>> /\ Nothing.used = 0 /\ \A d \in BlockPaths : Nothing.spent[d] = 0
  BY DEF Nothing, Taking, BlockPaths
<1>2. MaxChunks \in Nat /\ MaxTokens \in Nat /\ PerDocument \in Nat
  BY AnswerAssumption
<1>3. Len(<<>>) = 0 /\ DOMAIN <<>> = {} /\ \A I : Tokens(<<>>, I) = 0
  BY TokensNone
<1> HIDE DEF Nothing
<1>4. \A d \in BlockPaths : ShareKept(Nothing, d)
  BY <1>1, <1>2, <1>3 DEF ShareKept
<1> QED
  BY <1>1, <1>2, <1>3, <1>4 DEF Keeping

\* The pack is what the candidates, admitted one after the other, leave.
LEMMA BuildKeeps ==
  ASSUME NEW hits, Accumulate(hits) \in Seq(Blocks), Distinct(Accumulate(hits))
  PROVE  \E acc : Keeping(acc, Accumulate(hits), Len(Accumulate(hits))) /\ Build(hits) = acc.taken
<1> DEFINE o == Accumulate(hits)
           N == Len(o)
           T == [x \in Taking \X (1 .. N) |-> Admit(x[1], o[x[2]])]
           P(g) == g = [n \in 0 .. N |-> IF n = 0 THEN Nothing ELSE Admit(g[n - 1], o[n])]
           acc == CHOOSE g : P(g)
<1>1. Build(hits) = acc[N].taken
  BY DEF Build
<1> HIDE DEF o
<1>2. o \in Seq(Blocks) /\ Distinct(o) /\ N \in Nat /\ \A i \in 1 .. N : o[i] \in Blocks
  BY DEF o
<1> HIDE DEF N
<1>3. T \in [Taking \X (1 .. N) -> Taking]
  BY <1>2, AdmitType
<1>4. \E f : Steps(f, N, Taking, Nothing, T)
  <2> HIDE DEF T
  <2> QED
    BY <1>2, <1>3, NothingKept, StepsExist
<1>5. PICK f \in [0 .. N -> Taking] : f[0] = Nothing /\ \A i \in 1 .. N : f[i] = T[<<f[i - 1], i>>]
  BY <1>4 DEF Steps
<1>6. \A i \in 1 .. N : i - 1 \in 0 .. N /\ f[i] = Admit(f[i - 1], o[i])
  <2> TAKE i \in 1 .. N
  <2>1. i - 1 \in 0 .. N
    BY <1>2
  <2>2. <<f[i - 1], i>> \in Taking \X (1 .. N)
    BY <1>5, <2>1
  <2>3. T[<<f[i - 1], i>>] = Admit(f[i - 1], o[i])
    BY <2>2
  <2> QED
    BY <1>5, <2>1, <2>3
<1>7. P(f)
  BY <1>2, <1>5, <1>6
<1>8. P(acc)
  <2>1. \E g : P(g)
    BY <1>7
  <2> HIDE DEF P
  <2> QED
    BY <2>1
<1> HIDE DEF acc
<1>9. acc[0] = Nothing /\ \A i \in 1 .. N : acc[i] = Admit(acc[i - 1], o[i])
  BY <1>2, <1>8
<1> DEFINE S == {n \in 0 .. N : Keeping(acc[n], o, n)}
<1>10. N \in S
  <2>1. 0 \in S
    BY <1>2, <1>9, NothingKept
  <2>2. ASSUME NEW i \in 1 .. N, i - 1 \in S
        PROVE  i \in S
    <3>1. Keeping(acc[i - 1], o, i - 1)
      BY <2>2
    <3>2. Keeping(Admit(acc[i - 1], o[i]), o, i)
      BY <1>2, <3>1, AdmitKeeps DEF Distinct, N
    <3> QED
      BY <1>9, <3>2
  <2> HIDE DEF S
  <2>3. 0 .. N \subseteq S
    BY <1>2, <2>1, <2>2, CountUp
  <2> QED
    BY <1>2, <2>3
<1>11. Keeping(acc[N], o, N)
  BY <1>10
<1> QED
  BY <1>1, <1>11 DEF o, N
(***************************************************************************)
(* The blocks a pack is offered.                                           *)
(***************************************************************************)

\* Blocks without a chunk or a text in common.
Disjoint(a, b) == a.ids \cap b.ids = {} /\ a.texts \cap b.texts = {}

Single(blocks) ==
  /\ blocks \in Seq(Blocks)
  /\ \A i \in DOMAIN blocks : blocks[i].from <= blocks[i].to /\ blocks[i].ids # {}
  /\ \A i, j \in DOMAIN blocks : i # j => Disjoint(blocks[i], blocks[j])

\* The block of a single chunk.
LEMMA BlockIs ==
  ASSUME NEW h \in Hits
  PROVE  Block(h) \in Blocks /\ Block(h).from <= Block(h).to /\ Block(h).ids = {h.id} /\ Block(h).texts = {h.text}
<1>1. h.path \in BlockPaths /\ h.from \in Nat /\ h.to \in Nat /\ h.tok \in Nat /\ h.from <= h.to
  BY AnswerAssumption DEF BlockPaths
<1> QED
  BY <1>1 DEF Block, Blocks

\* No chunk and no text is in two blocks.
LEMMA DeduplicatedIs ==
  ASSUME NEW hits \in Seq(Hits)
  PROVE  Single(Deduplicated(hits))
<1> DEFINE First(i) == \A j \in 1 .. i - 1 : hits[j].id # hits[i].id /\ hits[j].text # hits[i].text
           I == {i \in DOMAIN hits : First(i)}
           kept == Entries(hits, I)
           at == Ascending(I)
           N == Cardinality(I)
           blocks == [n \in DOMAIN kept |-> Block(kept[n])]
<1>1. Deduplicated(hits) = blocks
  BY DEF Deduplicated
<1>2. I \in SUBSET (DOMAIN hits) /\ I \in SUBSET Nat /\ \A i \in I : First(i) /\ hits[i] \in Hits
  OBVIOUS
<1> HIDE DEF I
<1>3. /\ N \in Nat /\ kept \in [1 .. N -> Hits] /\ at \in [1 .. N -> I]
      /\ \A n \in 1 .. N : kept[n] = hits[at[n]]
      /\ \A m, n \in 1 .. N : m < n => at[m] < at[n]
  BY <1>2, EntriesAre
<1> HIDE DEF N, at, kept
<1>4. DOMAIN blocks = 1 .. N /\ \A n \in 1 .. N : kept[n] \in Hits /\ blocks[n] = Block(kept[n])
  BY <1>3
<1>5. blocks \in Seq(Blocks)
  <2>1. blocks \in [1 .. N -> Blocks]
    BY <1>3, <1>4, BlockIs
  <2> QED
    BY <1>3, <2>1
<1>6. ASSUME NEW m \in 1 .. N, NEW n \in 1 .. N, m < n
      PROVE  kept[m].id # kept[n].id /\ kept[m].text # kept[n].text
  <2>1. at[m] \in I /\ at[n] \in I /\ at[m] < at[n]
    BY <1>3, <1>6
  <2>2. at[m] \in 1 .. at[n] - 1 /\ First(at[n])
    <3>1. at[m] \in Nat /\ at[n] \in Nat /\ at[m] >= 1
      BY <1>2, <2>1
    <3> QED
      BY <1>2, <2>1, <3>1
  <2> QED
    BY <1>3, <2>2
<1> HIDE DEF First, blocks
<1>7. ASSUME NEW m \in 1 .. N, NEW n \in 1 .. N, m # n
      PROVE  Disjoint(blocks[m], blocks[n])
  <2>1. kept[m].id # kept[n].id /\ kept[m].text # kept[n].text
    <3>1. m < n \/ n < m
      BY <1>3, <1>7
    <3> QED
      BY <1>6, <3>1
  <2>2. /\ blocks[m].ids = {kept[m].id} /\ blocks[m].texts = {kept[m].text}
        /\ blocks[n].ids = {kept[n].id} /\ blocks[n].texts = {kept[n].text}
    BY <1>4, BlockIs
  <2> QED
    BY <2>1, <2>2 DEF Disjoint
<1>8. \A i \in 1 .. N : blocks[i].from <= blocks[i].to /\ blocks[i].ids # {}
  <2> TAKE i \in 1 .. N
  <2>1. kept[i] \in Hits /\ blocks[i] = Block(kept[i])
    BY <1>4
  <2> QED
    BY <2>1, BlockIs
<1>9. Single(blocks)
  BY <1>4, <1>5, <1>7, <1>8 DEF Single
<1> QED
  BY <1>1, <1>9

\* The positions of a document's blocks, by line.
LEMMA LineOrderIs ==
  ASSUME NEW blocks, Single(blocks), NEW path
  PROVE  /\ LineOrder(blocks, path) \in Seq(OfDocument(blocks, path))
         /\ \A m, n \in DOMAIN LineOrder(blocks, path) : m < n =>
              /\ LineOrder(blocks, path)[m] # LineOrder(blocks, path)[n]
              /\ blocks[LineOrder(blocks, path)[m]].from <= blocks[LineOrder(blocks, path)[n]].from
         /\ \A i \in DOMAIN blocks : blocks[i].path = path =>
              \E n \in DOMAIN LineOrder(blocks, path) : LineOrder(blocks, path)[n] = i
<1> DEFINE mine == OfDocument(blocks, path)
           Earlier(a, b) == a.from < b.from \/ (a.from = b.from /\ a.to < b.to)
           Equal(a, b) == a.from = b.from /\ a.to = b.to
           R == {x \in mine \X mine : \/ Earlier(blocks[x[1]], blocks[x[2]])
                                      \/ Equal(blocks[x[1]], blocks[x[2]]) /\ x[1] < x[2]}
           N == Cardinality(mine)
           L == Ordered(mine, R)
<1>1. blocks \in Seq(Blocks) /\ Len(blocks) \in Nat /\ DOMAIN blocks = 1 .. Len(blocks)
  BY DEF Single
<1>2. \A i \in mine : i \in Nat /\ blocks[i].from \in Nat /\ blocks[i].to \in Nat
  <2>1. \A i \in mine : i \in Nat /\ blocks[i] \in Blocks
    BY <1>1 DEF OfDocument
  <2> QED
    BY <2>1 DEF Blocks
<1>3. IsFiniteSet(mine)
  <2>1. 1 \in Int /\ Len(blocks) \in Int
    BY <1>1
  <2>2. IsFiniteSet(1 .. Len(blocks))
    <3> DEFINE k == Len(blocks)
    <3> HIDE DEF k
    <3>1. k \in Int
      BY <2>1 DEF k
    <3>2. IsFiniteSet(1 .. k)
      BY <3>1, FS_Interval
    <3> QED
      BY <3>2 DEF k
  <2>3. mine \in SUBSET (1 .. Len(blocks))
    BY <1>1 DEF OfDocument
  <2> HIDE DEF mine
  <2> QED
    BY <2>2, <2>3, FS_Subset
<1>4. LineOrder(blocks, path) = L
  BY DEF LineOrder
<1> DEFINE from == [i \in mine |-> blocks[i].from]
           to == [i \in mine |-> blocks[i].to]
<1>5. \A x, y \in mine : <<x, y>> \in R <=>
        \/ from[x] < from[y] \/ (from[x] = from[y] /\ to[x] < to[y])
        \/ (from[x] = from[y] /\ to[x] = to[y]) /\ x < y
  OBVIOUS
<1>6. \A x \in mine : x \in Nat /\ from[x] \in Nat /\ to[x] \in Nat /\ from[x] = blocks[x].from
  BY <1>2
<1>7. Orders(R, mine)
  <2> HIDE DEF mine, R, from, to
  <2>1. \A x \in mine : <<x, x>> \notin R
    BY <1>5, <1>6
  <2>2. \A x, y \in mine : x # y => <<x, y>> \in R \/ <<y, x>> \in R
    BY <1>5, <1>6
  <2>3. \A x, y, z \in mine : <<x, y>> \in R /\ <<y, z>> \in R => <<x, z>> \in R
    BY <1>5, <1>6
  <2> QED
    BY <2>1, <2>2, <2>3 DEF Orders
<1> HIDE DEF R, from, to
<1>8. /\ N \in Nat /\ L \in [1 .. N -> mine]
      /\ \A x \in mine : Cardinality({y \in mine : <<y, x>> \in R}) + 1 \in 1 .. N
      /\ \A x \in mine, i \in 1 .. N : L[i] = x <=> Cardinality({y \in mine : <<y, x>> \in R}) = i - 1
      /\ \A i, j \in 1 .. N : i < j => <<L[i], L[j]>> \in R
  <2> HIDE DEF mine
  <2> QED
    BY <1>3, <1>7, OrderedIs
<1>9. \A x \in mine : \E n \in 1 .. N : L[n] = x
  <2> HIDE DEF mine, L
  <2> TAKE x \in mine
  <2> DEFINE c == Cardinality({y \in mine : <<y, x>> \in R})
  <2>1. c \in Nat
    <3>1. {y \in mine : <<y, x>> \in R} \in SUBSET mine
      OBVIOUS
    <3> QED
      BY <1>3, <3>1, FS_Subset, FS_CardinalityType
  <2>2. c + 1 \in 1 .. N /\ \A i \in 1 .. N : L[i] = x <=> c = i - 1
    BY <1>8
  <2> HIDE DEF c
  <2> QED
    BY <2>1, <2>2
<1> HIDE DEF L, N
<1>10. L \in Seq(mine) /\ DOMAIN L = 1 .. N
  <2> HIDE DEF mine
  <2> QED
    BY <1>8
<1>11. ASSUME NEW m \in DOMAIN L, NEW n \in DOMAIN L, m < n
       PROVE  L[m] # L[n] /\ blocks[L[m]].from <= blocks[L[n]].from
  <2>1. L[m] \in mine /\ L[n] \in mine /\ <<L[m], L[n]>> \in R
    BY <1>8, <1>10, <1>11
  <2> HIDE DEF mine
  <2> QED
    BY <1>5, <1>6, <2>1
<1>12. \A i \in DOMAIN blocks : blocks[i].path = path => \E n \in DOMAIN L : L[n] = i
  BY <1>9, <1>10 DEF OfDocument
<1> QED
  BY <1>4, <1>10, <1>11, <1>12

\* Of the first n blocks of a document, in line order.
Merged(d, blocks, L, path, n) ==
  LET ids == UNION {blocks[L[k]].ids : k \in 1 .. n}
      texts == UNION {blocks[L[k]].texts : k \in 1 .. n}
  IN /\ d \in Seq(Blocks)
     /\ \A i \in DOMAIN d :
          /\ d[i].path = path /\ d[i].from <= d[i].to
          /\ d[i].ids \subseteq ids /\ d[i].texts \subseteq texts
          /\ \E k \in 1 .. n : blocks[L[k]].ids \subseteq d[i].ids
          /\ d[i].from <= blocks[L[n]].from
     /\ \A i, j \in DOMAIN d : i < j => Disjoint(d[i], d[j]) /\ d[i].to + MergeGap < d[j].from

\* _join: the joined block spans both, and holds the chunks and texts of both.
LEMMA JoinIs ==
  ASSUME NEW l \in Blocks, NEW r \in Blocks, l.from <= r.from, l.from <= l.to
  PROVE  /\ Join(l, r) \in Blocks /\ Join(l, r).path = l.path /\ Join(l, r).from = l.from
         /\ Join(l, r).from <= Join(l, r).to
         /\ Join(l, r).ids = l.ids \cup r.ids /\ Join(l, r).texts = l.texts \cup r.texts
<1>1. /\ l.from \in Nat /\ l.to \in Nat /\ r.from \in Nat /\ r.to \in Nat /\ l.tok \in Nat /\ r.tok \in Nat
      /\ l.path \in BlockPaths
      /\ l.ids \cup r.ids \subseteq {h.id : h \in Hits} /\ l.texts \cup r.texts \subseteq {h.text : h \in Hits}
  BY DEF Blocks
<1>2. Min({l.from, r.from}) = l.from
  BY <1>1, LesserIs
<1>3. Max({l.to, r.to}) \in Nat /\ l.to <= Max({l.to, r.to})
  BY <1>1, GreaterIs
<1>4. Join(l, r) = [path |-> l.path, from |-> l.from, to |-> Max({l.to, r.to}), tok |-> l.tok + r.tok,
                    texts |-> l.texts \cup r.texts, ids |-> l.ids \cup r.ids]
  BY <1>2 DEF Join
<1> DEFINE m == Max({l.to, r.to})
           t == l.tok + r.tok
<1>5. t \in Nat
  BY <1>1
<1> HIDE DEF m, t
<1>6. Join(l, r) = [path |-> l.path, from |-> l.from, to |-> m, tok |-> t,
                    texts |-> l.texts \cup r.texts, ids |-> l.ids \cup r.ids]
  BY <1>4 DEF m, t
<1>7. m \in Nat /\ l.to <= m
  BY <1>3 DEF m
<1>8. Join(l, r) \in Blocks
  BY <1>1, <1>5, <1>6, <1>7 DEF Blocks
<1>9. l.from <= m
  BY <1>1, <1>7
<1> QED
  BY <1>6, <1>8, <1>9

\* _accumulate: one block more, in line order, leaves merged blocks that are
\* apart and that hold exactly what came so far.
LEMMA MergeKeeps ==
  ASSUME NEW blocks, Single(blocks), NEW path,
         NEW L \in Seq(OfDocument(blocks, path)),
         \A m, k \in DOMAIN L : m < k => L[m] # L[k] /\ blocks[L[m]].from <= blocks[L[k]].from,
         NEW n \in 1 .. Len(L), NEW d, Merged(d, blocks, L, path, n - 1)
  PROVE  Merged(Merge(d, blocks[L[n]]), blocks, L, path, n)
<1> DEFINE b == blocks[L[n]]
           ids(k) == UNION {blocks[L[i]].ids : i \in 1 .. k}
           texts(k) == UNION {blocks[L[i]].texts : i \in 1 .. k}
           last == d[Len(d)]
           new == Merge(d, b)
<1>1. \A k \in 1 .. n : L[k] \in DOMAIN blocks /\ blocks[L[k]] \in Blocks /\ blocks[L[k]].path = path
  BY DEF Single, OfDocument
<1>2. /\ n \in Nat /\ b \in Blocks /\ b.path = path /\ b.from \in Nat /\ b.to \in Nat /\ b.from <= b.to
      /\ MergeGap \in Nat
  <2>1. n \in Nat /\ MergeGap \in Nat /\ n \in 1 .. n
    BY AnswerAssumption
  <2>2. L[n] \in DOMAIN blocks /\ b \in Blocks /\ b.path = path
    BY <1>1, <2>1
  <2>3. b.from <= b.to
    BY <2>2 DEF Single
  <2> HIDE DEF b
  <2> QED
    BY <2>1, <2>2, <2>3 DEF Blocks
<1>3. /\ d \in Seq(Blocks) /\ Len(d) \in Nat /\ DOMAIN d = 1 .. Len(d)
      /\ \A i \in DOMAIN d : d[i] \in Blocks /\ d[i].from \in Nat /\ d[i].to \in Nat
  <2>1. d \in Seq(Blocks)
    BY DEF Merged
  <2>2. \A x \in Blocks : x.from \in Nat /\ x.to \in Nat
    BY DEF Blocks
  <2> QED
    BY <2>1, <2>2
<1>4. \A i \in DOMAIN d :
        /\ d[i].path = path /\ d[i].from <= d[i].to
        /\ d[i].ids \subseteq ids(n - 1) /\ d[i].texts \subseteq texts(n - 1)
        /\ \E k \in 1 .. n - 1 : blocks[L[k]].ids \subseteq d[i].ids
        /\ d[i].from <= blocks[L[n - 1]].from
  BY DEF Merged
<1>5. \A i, j \in DOMAIN d : i < j => Disjoint(d[i], d[j]) /\ d[i].to + MergeGap < d[j].from
  BY DEF Merged
<1>6. /\ \A x \in ids(n - 1) : x \in ids(n)
      /\ \A x \in texts(n - 1) : x \in texts(n)
      /\ b.ids \subseteq ids(n) /\ b.texts \subseteq texts(n)
  <2>1. \A k \in 1 .. n - 1 : k \in 1 .. n
    BY <1>2
  <2>2. n \in 1 .. n
    BY <1>2
  <2> QED
    BY <2>1, <2>2
<1>7. \A k \in 1 .. n - 1 : Disjoint(blocks[L[k]], b)
  <2> TAKE k \in 1 .. n - 1
  <2>1. k \in DOMAIN L /\ n \in DOMAIN L /\ k < n /\ k \in 1 .. n
    BY <1>2
  <2>2. L[k] # L[n] /\ L[k] \in DOMAIN blocks /\ L[n] \in DOMAIN blocks
    BY <1>1, <2>1
  <2> QED
    BY <2>2 DEF Single
<1>8. \A i \in DOMAIN d : Disjoint(d[i], b)
  <2> TAKE i \in DOMAIN d
  <2>1. \A x \in ids(n - 1) : x \notin b.ids
    BY <1>7 DEF Disjoint
  <2>2. \A x \in texts(n - 1) : x \notin b.texts
    BY <1>7 DEF Disjoint
  <2> HIDE DEF ids, texts, b
  <2> QED
    BY <1>4, <2>1, <2>2 DEF Disjoint
<1>9. \A i \in DOMAIN d : d[i].from <= b.from
  <2> TAKE i \in DOMAIN d
  <2>1. PICK k \in 1 .. n - 1 : blocks[L[k]].ids \subseteq d[i].ids
    BY <1>4
  <2>2. n - 1 \in 1 .. n /\ n - 1 \in DOMAIN L /\ n \in DOMAIN L /\ n - 1 < n
    BY <1>2
  <2>3. blocks[L[n - 1]].from <= b.from /\ blocks[L[n - 1]] \in Blocks
    BY <1>1, <2>2
  <2>4. blocks[L[n - 1]].from \in Nat
    BY <2>3 DEF Blocks
  <2>5. d[i].from <= blocks[L[n - 1]].from /\ d[i].from \in Nat
    BY <1>3, <1>4
  <2> HIDE DEF b
  <2> QED
    BY <1>2, <2>3, <2>4, <2>5
<1>10. CASE d # <<>> /\ b.from <= last.to + MergeGap
  <2> DEFINE j == Join(last, b)
             z == Len(d)
  <2>1. z \in DOMAIN d /\ z \in Nat /\ last \in Blocks /\ last.from <= last.to /\ last.from <= b.from
    <3>1. z \in DOMAIN d /\ z \in Nat
      BY <1>3, <1>10
    <3> QED
      BY <1>3, <1>4, <1>9, <3>1
  <2>2. /\ j \in Blocks /\ j.path = last.path /\ j.from = last.from /\ j.from <= j.to
        /\ j.ids = last.ids \cup b.ids /\ j.texts = last.texts \cup b.texts
    <3> HIDE DEF b
    <3> QED
      BY <1>2, <2>1, JoinIs
  <2> HIDE DEF j
  <2>3. new = [d EXCEPT ![z] = j]
    BY <1>10 DEF Merge, j
  <2>4. /\ new \in Seq(Blocks) /\ DOMAIN new = DOMAIN d /\ new[z] = j
        /\ \A i \in DOMAIN d : i # z => new[i] = d[i]
    BY <1>3, <2>1, <2>2, <2>3
  <2> HIDE DEF new, z, b, ids, texts
  <2>5. ASSUME NEW i \in DOMAIN new
        PROVE  /\ new[i].path = path /\ new[i].from <= new[i].to
               /\ new[i].ids \subseteq ids(n) /\ new[i].texts \subseteq texts(n)
               /\ \E k \in 1 .. n : blocks[L[k]].ids \subseteq new[i].ids
               /\ new[i].from <= b.from
    <3>1. \A k \in 1 .. n - 1 : k \in 1 .. n
      BY <1>2
    <3>2. CASE i # z
      BY <1>4, <1>6, <1>9, <2>4, <3>1, <3>2
    <3>3. CASE i = z
      <4>1. new[i] = j /\ last.path = path /\ last.ids \subseteq ids(n - 1) /\ last.texts \subseteq texts(n - 1)
            /\ \E k \in 1 .. n - 1 : blocks[L[k]].ids \subseteq last.ids
        BY <1>4, <2>1, <2>4, <3>3 DEF z
      <4>2. j.ids \subseteq ids(n) /\ j.texts \subseteq texts(n)
        BY <1>6, <2>2, <4>1
      <4> QED
        BY <2>1, <2>2, <3>1, <4>1, <4>2
    <3> QED
      BY <3>2, <3>3
  <2>6. ASSUME NEW i \in DOMAIN new, NEW m \in DOMAIN new, i < m
        PROVE  Disjoint(new[i], new[m]) /\ new[i].to + MergeGap < new[m].from
    <3>1. i # z /\ i \in DOMAIN d /\ m \in DOMAIN d /\ new[i] = d[i] /\ Disjoint(d[i], d[m]) /\ d[i].to + MergeGap < d[m].from
      BY <1>3, <1>5, <2>4, <2>6 DEF z
    <3>2. CASE m # z
      BY <2>4, <3>1, <3>2
    <3>3. CASE m = z
      <4>1. new[m] = j /\ Disjoint(d[i], last) /\ Disjoint(d[i], b) /\ d[i].to + MergeGap < last.from
        BY <1>8, <2>4, <3>1, <3>3 DEF z
      <4>2. Disjoint(d[i], j)
        BY <2>2, <4>1 DEF Disjoint
      <4> QED
        BY <2>2, <3>1, <4>1, <4>2
    <3> QED
      BY <3>2, <3>3
  <2> QED
    BY <2>4, <2>5, <2>6 DEF Merged, new, b, ids, texts
<1>11. CASE ~ (d # <<>> /\ b.from <= last.to + MergeGap)
  <2> DEFINE z == Len(d) + 1
  <2>1. new = Append(d, b)
    BY <1>11 DEF Merge
  <2>2. /\ new \in Seq(Blocks) /\ DOMAIN new = 1 .. z /\ new[z] = b /\ z \in Nat
        /\ \A i \in 1 .. Len(d) : new[i] = d[i]
    BY <1>2, <1>3, <2>1
  <2>3. \A i \in DOMAIN new : i = z \/ (i \in DOMAIN d /\ i # z /\ new[i] = d[i])
    BY <1>3, <2>2
  <2> HIDE DEF new, b, ids, texts
  <2>4. ASSUME NEW i \in DOMAIN new
        PROVE  /\ new[i].path = path /\ new[i].from <= new[i].to
               /\ new[i].ids \subseteq ids(n) /\ new[i].texts \subseteq texts(n)
               /\ \E k \in 1 .. n : blocks[L[k]].ids \subseteq new[i].ids
               /\ new[i].from <= b.from
    <3>1. (\A k \in 1 .. n - 1 : k \in 1 .. n) /\ n \in 1 .. n
      BY <1>2
    <3>2. CASE i # z
      BY <1>4, <1>6, <1>9, <2>3, <3>1, <3>2
    <3>3. CASE i = z
      BY <1>2, <1>6, <2>2, <3>1, <3>3 DEF b
    <3> QED
      BY <3>2, <3>3
  <2>5. ASSUME NEW i \in DOMAIN new, NEW m \in DOMAIN new, i < m
        PROVE  Disjoint(new[i], new[m]) /\ new[i].to + MergeGap < new[m].from
    <3>1. i # z /\ i \in DOMAIN d /\ new[i] = d[i]
      BY <1>3, <2>2, <2>3, <2>5
    <3>2. CASE m # z
      BY <1>5, <2>3, <2>5, <3>1, <3>2
    <3>3. CASE m = z
      <4>1. Disjoint(d[i], b) /\ new[m] = b
        BY <1>8, <2>2, <3>1, <3>3
      <4>2. Len(d) \in DOMAIN d /\ ~ (b.from <= last.to + MergeGap) /\ last.to \in Nat /\ last.from \in Nat /\ last.from <= last.to
        <5>1. Len(d) \in DOMAIN d /\ d # <<>>
          BY <1>3, <3>1
        <5> QED
          BY <1>3, <1>4, <1>11, <5>1
      <4>3. d[i].to + MergeGap < b.from
        <5>1. CASE i = Len(d)
          BY <1>2, <1>3, <4>2, <5>1
        <5>2. CASE i # Len(d)
          <6>1. d[i].to + MergeGap < last.from /\ d[i].to \in Nat
            <7>1. i < Len(d)
              BY <1>3, <3>1, <5>2
            <7> QED
              BY <1>3, <1>5, <3>1, <4>2, <7>1
          <6> DEFINE x == d[i].to
                     y == last.from
                     hi == last.to
                     c == b.from
          <6>2. /\ x \in Nat /\ y \in Nat /\ hi \in Nat /\ c \in Nat /\ MergeGap \in Nat
                /\ x + MergeGap < y /\ y <= hi /\ ~ (c <= hi + MergeGap)
            BY <1>2, <4>2, <6>1
          <6> HIDE DEF x, y, hi, c
          <6>3. x + MergeGap < c
            BY <6>2
          <6> QED
            BY <6>3 DEF x, c
        <5> QED
          BY <5>1, <5>2
      <4> QED
        BY <3>1, <4>1, <4>3
    <3> QED
      BY <3>2, <3>3
  <2> QED
    BY <2>2, <2>4, <2>5 DEF Merged, new, b, ids, texts
<1> QED
  BY <1>10, <1>11

\* _accumulate: merging gives a list of blocks.
LEMMA MergeType ==
  ASSUME NEW d \in Seq(Blocks), NEW b \in Blocks
  PROVE  Merge(d, b) \in Seq(Blocks)
<1>1. CASE d # <<>>
  <2> DEFINE z == Len(d)
             l == d[z]
             lo == Min({l.from, b.from})
             hi == Max({l.to, b.to})
             tok == l.tok + b.tok
  <2>1. z \in DOMAIN d /\ l \in Blocks
    BY <1>1
  <2> HIDE DEF l
  <2>2. /\ l.from \in Nat /\ l.to \in Nat /\ b.from \in Nat /\ b.to \in Nat /\ l.tok \in Nat /\ b.tok \in Nat
        /\ l.path \in BlockPaths
        /\ l.ids \cup b.ids \subseteq {h.id : h \in Hits} /\ l.texts \cup b.texts \subseteq {h.text : h \in Hits}
    BY <2>1 DEF Blocks
  <2>3. lo \in Nat /\ hi \in Nat /\ tok \in Nat
    <3>1. \A x, y \in Nat : Min({x, y}) \in Nat /\ Max({x, y}) \in Nat /\ x + y \in Nat
      BY LesserIs, GreaterIs
    <3> QED
      BY <2>2, <3>1
  <2>4. Join(l, b) = [path |-> l.path, from |-> lo, to |-> hi, tok |-> tok,
                      texts |-> l.texts \cup b.texts, ids |-> l.ids \cup b.ids]
    BY DEF Join
  <2> HIDE DEF lo, hi, tok
  <2>5. Join(l, b) \in Blocks
    BY <2>2, <2>3, <2>4 DEF Blocks
  <2> DEFINE j == Join(l, b)
  <2> HIDE DEF j
  <2>6. [d EXCEPT ![z] = j] \in Seq(Blocks) /\ Append(d, b) \in Seq(Blocks)
    BY <2>1, <2>5 DEF j
  <2>7. Merge(d, b) \in {[d EXCEPT ![z] = j], Append(d, b)}
    BY DEF Merge, j, l
  <2> QED
    BY <2>6, <2>7
<1>2. CASE d = <<>>
  BY <1>2 DEF Merge
<1> QED
  BY <1>1, <1>2

\* The blocks of one document: made of its own chunks, and apart.
LEMMA MergedOfIs ==
  ASSUME NEW blocks, Single(blocks), NEW path
  PROVE  LET d == MergedOf(blocks, path)
         IN /\ d \in Seq(Blocks)
            /\ \A i \in DOMAIN d :
                 /\ d[i].path = path
                 /\ \A x \in d[i].ids : \E k \in DOMAIN blocks : blocks[k].path = path /\ x \in blocks[k].ids
                 /\ \A x \in d[i].texts : \E k \in DOMAIN blocks : blocks[k].path = path /\ x \in blocks[k].texts
                 /\ \E k \in DOMAIN blocks : blocks[k].path = path /\ blocks[k].ids \subseteq d[i].ids
            /\ \A i, j \in DOMAIN d : i < j => Disjoint(d[i], d[j]) /\ d[i].to + MergeGap < d[j].from
<1> DEFINE L == LineOrder(blocks, path)
           N == Len(L)
           A == Seq(Blocks)
           mine == OfDocument(blocks, path)
           T == [x \in A \X (1 .. N) |-> Merge(x[1], blocks[L[x[2]]])]
           P(g) == g = [n \in 0 .. N |-> IF n = 0 THEN <<>> ELSE Merge(g[n - 1], blocks[L[n]])]
           done == CHOOSE g : P(g)
<1>1. MergedOf(blocks, path) = done[N]
  BY DEF MergedOf
<1>2. /\ L \in Seq(mine)
      /\ \A m, n \in DOMAIN L : m < n => L[m] # L[n] /\ blocks[L[m]].from <= blocks[L[n]].from
  <2> HIDE DEF L
  <2> QED
    BY LineOrderIs DEF L
<1> HIDE DEF L
<1>3. N \in Nat /\ DOMAIN L = 1 .. N /\ \A n \in 1 .. N : L[n] \in mine
  BY <1>2
<1>4. \A n \in 1 .. N : blocks[L[n]] \in Blocks
  BY <1>3 DEF Single, OfDocument
<1> HIDE DEF N
<1>5. T \in [A \X (1 .. N) -> A]
  BY <1>4, MergeType
<1>6. \E f : Steps(f, N, A, <<>>, T)
  <2>1. <<>> \in A
    OBVIOUS
  <2> HIDE DEF T, A
  <2> QED
    BY <1>3, <1>5, <2>1, StepsExist
<1>7. PICK f \in [0 .. N -> A] : f[0] = <<>> /\ \A i \in 1 .. N : f[i] = T[<<f[i - 1], i>>]
  BY <1>6 DEF Steps
<1>8. \A i \in 1 .. N : i - 1 \in 0 .. N /\ f[i] = Merge(f[i - 1], blocks[L[i]])
  <2> TAKE i \in 1 .. N
  <2>1. i - 1 \in 0 .. N
    BY <1>3
  <2>2. <<f[i - 1], i>> \in A \X (1 .. N)
    <3> HIDE DEF A
    <3> QED
      BY <1>7, <2>1
  <2>3. T[<<f[i - 1], i>>] = Merge(f[i - 1], blocks[L[i]])
    BY <2>2
  <2> QED
    BY <1>7, <2>1, <2>3
<1>9. P(f)
  BY <1>3, <1>7, <1>8
<1>10. P(done)
  <2>1. \E g : P(g)
    BY <1>9
  <2> HIDE DEF P
  <2> QED
    BY <2>1
<1> HIDE DEF done
<1>11. done[0] = <<>> /\ \A i \in 1 .. N : done[i] = Merge(done[i - 1], blocks[L[i]])
  <2>1. done = [n \in 0 .. N |-> IF n = 0 THEN <<>> ELSE Merge(done[n - 1], blocks[L[n]])]
    BY <1>10
  <2>2. 0 \in 0 .. N /\ \A i \in 1 .. N : i \in 0 .. N /\ i # 0
    BY <1>3
  <2> QED
    BY <2>1, <2>2
<1> DEFINE S == {n \in 0 .. N : Merged(done[n], blocks, L, path, n)}
<1>12. 0 \in S
  <2>1. <<>> \in Seq(Blocks) /\ DOMAIN <<>> = {}
    OBVIOUS
  <2>2. Merged(<<>>, blocks, L, path, 0)
    BY <2>1 DEF Merged
  <2> QED
    BY <1>3, <1>11, <2>2
<1>13. ASSUME NEW n \in 1 .. N, n - 1 \in S
       PROVE  n \in S
  <2>1. Merged(done[n - 1], blocks, L, path, n - 1)
    BY <1>13
  <2>2. n \in 1 .. Len(L)
    BY DEF N
  <2>3. Merged(Merge(done[n - 1], blocks[L[n]]), blocks, L, path, n)
    BY <1>2, <2>1, <2>2, MergeKeeps
  <2> QED
    BY <1>11, <2>3
<1> HIDE DEF S
<1>14. N \in S
  <2>1. 0 .. N \subseteq S
    BY <1>3, <1>12, <1>13, CountUp
  <2> QED
    BY <1>3, <2>1
<1> DEFINE d == done[N]
<1>15. Merged(d, blocks, L, path, N)
  BY <1>14 DEF S
<1> HIDE DEF d
<1>16. \A k \in 1 .. N : L[k] \in DOMAIN blocks /\ blocks[L[k]].path = path
  BY <1>3 DEF OfDocument
<1>17. /\ d \in Seq(Blocks)
       /\ \A i \in DOMAIN d : /\ d[i].path = path
                              /\ d[i].ids \subseteq UNION {blocks[L[k]].ids : k \in 1 .. N}
                              /\ d[i].texts \subseteq UNION {blocks[L[k]].texts : k \in 1 .. N}
                              /\ \E k \in 1 .. N : blocks[L[k]].ids \subseteq d[i].ids
       /\ \A i, j \in DOMAIN d : i < j => Disjoint(d[i], d[j]) /\ d[i].to + MergeGap < d[j].from
  BY <1>15 DEF Merged
<1>18. \A i \in DOMAIN d :
         /\ d[i].path = path
         /\ \A x \in d[i].ids : \E k \in DOMAIN blocks : blocks[k].path = path /\ x \in blocks[k].ids
         /\ \A x \in d[i].texts : \E k \in DOMAIN blocks : blocks[k].path = path /\ x \in blocks[k].texts
         /\ \E k \in DOMAIN blocks : blocks[k].path = path /\ blocks[k].ids \subseteq d[i].ids
  <2> TAKE i \in DOMAIN d
  <2>3. /\ d[i].ids \subseteq UNION {blocks[L[k]].ids : k \in 1 .. N}
        /\ d[i].texts \subseteq UNION {blocks[L[k]].texts : k \in 1 .. N}
    BY <1>17
  <2>1. \A x \in d[i].ids : \E k \in 1 .. N : x \in blocks[L[k]].ids
    BY <2>3
  <2>2. \A x \in d[i].texts : \E k \in 1 .. N : x \in blocks[L[k]].texts
    BY <2>3
  <2> QED
    BY <1>16, <1>17, <2>1, <2>2
<1> QED
  BY <1>1, <1>17, <1>18 DEF d

\* What a pack is offered: blocks of retrieved chunks, each one apart from all others.
Offer(o) ==
  /\ o \in Seq(Blocks)
  /\ \A i \in DOMAIN o : o[i].ids # {}
  /\ \A i, j \in DOMAIN o : i # j => o[i] # o[j] /\ Separate(o[i], o[j])

\* What is offered to build: blocks of distinct texts, apart from each other.
LEMMA AccumulateIs ==
  ASSUME NEW hits \in Seq(Hits)
  PROVE  Offer(Accumulate(hits))
<1> DEFINE blocks == Deduplicated(hits)
           M == UNION {Range(MergedOf(blocks, blocks[i].path)) : i \in DOMAIN blocks}
           At(m) == {i \in DOMAIN blocks : blocks[i].ids \subseteq m.ids}
           Spot(m) == Min(At(m))
           R == {x \in M \X M : Spot(x[1]) < Spot(x[2])}
           N == Cardinality(M)
           o == Ordered(M, R)
<1>1. Accumulate(hits) = o
  BY DEF Accumulate
<1>2. Single(blocks)
  BY DeduplicatedIs
<1> HIDE DEF blocks
<1>3. blocks \in Seq(Blocks) /\ DOMAIN blocks = 1 .. Len(blocks) /\ Len(blocks) \in Nat
  BY <1>2 DEF Single
<1>4. ASSUME NEW m \in M
      PROVE  /\ m \in Blocks
             /\ \A x \in m.ids : \E k \in DOMAIN blocks : blocks[k].path = m.path /\ x \in blocks[k].ids
             /\ \A x \in m.texts : \E k \in DOMAIN blocks : blocks[k].path = m.path /\ x \in blocks[k].texts
             /\ \E k \in DOMAIN blocks : blocks[k].path = m.path /\ blocks[k].ids \subseteq m.ids
             /\ m \in Range(MergedOf(blocks, m.path))
  <2>1. PICK p : m \in Range(MergedOf(blocks, p))
    OBVIOUS
  <2> DEFINE d == MergedOf(blocks, p)
  <2>2. PICK i \in DOMAIN d : m = d[i]
    BY <2>1 DEF Range
  <2>3. /\ d \in Seq(Blocks) /\ d[i].path = p
        /\ \A x \in d[i].ids : \E k \in DOMAIN blocks : blocks[k].path = p /\ x \in blocks[k].ids
        /\ \A x \in d[i].texts : \E k \in DOMAIN blocks : blocks[k].path = p /\ x \in blocks[k].texts
        /\ \E k \in DOMAIN blocks : blocks[k].path = p /\ blocks[k].ids \subseteq d[i].ids
    BY <1>2, MergedOfIs
  <2>4. d[i] \in Blocks
    BY <2>3
  <2> QED
    BY <2>1, <2>2, <2>3, <2>4
<1>5. ASSUME NEW a \in M, NEW b \in M, a # b, a.path = b.path
      PROVE  Disjoint(a, b) /\ (a.to + MergeGap < b.from \/ b.to + MergeGap < a.from)
  <2> DEFINE d == MergedOf(blocks, a.path)
  <2>1. a \in Range(d) /\ b \in Range(d)
    BY <1>4, <1>5
  <2>2. PICK i \in DOMAIN d, j \in DOMAIN d : a = d[i] /\ b = d[j]
    BY <2>1 DEF Range
  <2>3. /\ d \in Seq(Blocks)
        /\ \A k, l \in DOMAIN d : k < l => Disjoint(d[k], d[l]) /\ d[k].to + MergeGap < d[l].from
    BY <1>2, MergedOfIs
  <2> HIDE DEF d
  <2>4. i \in Nat /\ j \in Nat /\ i # j
    BY <1>5, <2>2, <2>3
  <2>5. CASE i < j
    BY <2>2, <2>3, <2>5
  <2>6. CASE j < i
    <3>1. Disjoint(b, a) /\ b.to + MergeGap < a.from
      BY <2>2, <2>3, <2>6
    <3> QED
      BY <3>1 DEF Disjoint
  <2> QED
    BY <2>4, <2>5, <2>6
<1>6. ASSUME NEW a \in M, NEW b \in M, a.path # b.path
      PROVE  Disjoint(a, b)
  <2>1. \A k, l \in DOMAIN blocks : blocks[k].path # blocks[l].path => Disjoint(blocks[k], blocks[l])
    BY <1>2 DEF Single
  <2>2. ASSUME NEW x \in a.ids, x \in b.ids
        PROVE  FALSE
    <3>1. PICK k \in DOMAIN blocks : blocks[k].path = a.path /\ x \in blocks[k].ids
      BY <1>4
    <3>2. PICK l \in DOMAIN blocks : blocks[l].path = b.path /\ x \in blocks[l].ids
      BY <1>4, <2>2
    <3> QED
      BY <1>6, <2>1, <3>1, <3>2 DEF Disjoint
  <2>3. ASSUME NEW x \in a.texts, x \in b.texts
        PROVE  FALSE
    <3>1. PICK k \in DOMAIN blocks : blocks[k].path = a.path /\ x \in blocks[k].texts
      BY <1>4
    <3>2. PICK l \in DOMAIN blocks : blocks[l].path = b.path /\ x \in blocks[l].texts
      BY <1>4, <2>3
    <3> QED
      BY <1>6, <2>1, <3>1, <3>2 DEF Disjoint
  <2> QED
    BY <2>2, <2>3 DEF Disjoint
<1> HIDE DEF M
<1>7. ASSUME NEW m \in M
      PROVE  /\ Spot(m) \in DOMAIN blocks /\ Spot(m) \in Nat
             /\ blocks[Spot(m)].ids \subseteq m.ids /\ blocks[Spot(m)].ids # {} /\ m.ids # {}
  <2>1. At(m) \in SUBSET Nat /\ At(m) # {}
    BY <1>3, <1>4
  <2>2. Spot(m) \in At(m)
    <3> HIDE DEF At
    <3> QED
      BY <2>1, MinIs
  <2> HIDE DEF Spot
  <2>3. Spot(m) \in DOMAIN blocks /\ blocks[Spot(m)].ids \subseteq m.ids
    BY <2>2
  <2>4. blocks[Spot(m)].ids # {}
    BY <1>2, <2>3 DEF Single
  <2> QED
    BY <1>3, <2>3, <2>4
<1> HIDE DEF Spot
<1>8. ASSUME NEW a \in M, NEW b \in M, Spot(a) = Spot(b)
      PROVE  a = b
  <2>1. ~ Disjoint(a, b)
    BY <1>7, <1>8 DEF Disjoint
  <2> QED
    BY <1>5, <1>6, <2>1
<1> DEFINE spot == [m \in M |-> Spot(m)]
<1>9. IsFiniteSet(M)
  <2>1. spot \in Injection(M, DOMAIN blocks)
    BY <1>7, <1>8 DEF Injection, IsInjective
  <2>2. IsFiniteSet(DOMAIN blocks)
    <3> DEFINE k == Len(blocks)
    <3>1. k \in Int /\ DOMAIN blocks = 1 .. k
      BY <1>3
    <3> HIDE DEF k
    <3> QED
      BY <3>1, FS_Interval
  <2> QED
    BY <2>1, <2>2, FS_Injection
<1>10. \A x, y \in M : <<x, y>> \in R <=> Spot(x) < Spot(y)
  OBVIOUS
<1> HIDE DEF R, N
<1>11. Orders(R, M)
  BY <1>7, <1>8, <1>10 DEF Orders
<1>12. N \in Nat /\ o \in [1 .. N -> M] /\ \A i, j \in 1 .. N : i < j => <<o[i], o[j]>> \in R
  BY <1>9, <1>11, OrderedIs DEF N
<1> HIDE DEF o
<1>13. o \in Seq(Blocks) /\ DOMAIN o = 1 .. N
  <2>1. o \in [1 .. N -> Blocks]
    BY <1>4, <1>12
  <2> QED
    BY <1>12, <2>1
<1>14. \A i, j \in 1 .. N : i # j => o[i] # o[j]
  <2> SUFFICES ASSUME NEW i \in 1 .. N, NEW j \in 1 .. N, i < j
               PROVE  o[i] # o[j]
    BY <1>12
  <2>1. o[i] \in M /\ o[j] \in M /\ Spot(o[i]) < Spot(o[j])
    BY <1>10, <1>12
  <2> QED
    BY <1>7, <2>1
<1>15. ASSUME NEW i \in 1 .. N, NEW j \in 1 .. N, i # j
       PROVE  Separate(o[i], o[j])
  <2>1. o[i] \in M /\ o[j] \in M /\ o[i] # o[j]
    BY <1>12, <1>14, <1>15
  <2> DEFINE a == o[i]
             b == o[j]
  <2>2. a \in Blocks /\ b \in Blocks /\ MergeGap \in Nat
    BY <1>4, <2>1, AnswerAssumption
  <2>3. a.from \in Nat /\ a.to \in Nat /\ b.from \in Nat /\ b.to \in Nat
    BY <2>2 DEF Blocks
  <2> HIDE DEF a, b
  <2>4. Disjoint(a, b)
    BY <1>5, <1>6, <2>1 DEF a, b
  <2>5. a.path = b.path => a.to + MergeGap < b.from \/ b.to + MergeGap < a.from
    BY <1>5, <2>1 DEF a, b
  <2>6. Separate(a, b)
    BY <2>2, <2>3, <2>4, <2>5 DEF Separate, Disjoint
  <2> QED
    BY <2>6 DEF a, b
<1>16. Offer(o)
  BY <1>7, <1>12, <1>13, <1>14, <1>15 DEF Offer
<1> QED
  BY <1>1, <1>16
(***************************************************************************)
(* The pack of a question and its answer.                                  *)
(***************************************************************************)

\* The budgets of a pack, and where its blocks come from.
Good(p) ==
  /\ p \in Seq(Blocks)
  /\ \A i \in DOMAIN p : p[i].ids # {}
  /\ Len(p) <= MaxChunks
  /\ Tokens(p, DOMAIN p) <= MaxTokens \/ Len(p) = 1
  /\ \A i \in DOMAIN p :
       LET share == OfDocument(p, p[i].path)
       IN Tokens(p, share) <= PerDocument \/ \E j \in share : Tokens(p, share) = p[j].tok
  /\ \A i, j \in DOMAIN p : i # j => Separate(p[i], p[j])

\* The pack build makes of any list of hits keeps all its promises.
LEMMA BuildIs ==
  ASSUME NEW hits \in Seq(Hits)
  PROVE  Good(Build(hits))
<1> DEFINE o == Accumulate(hits)
<1>1. Offer(o)
  BY AccumulateIs
<1>2. o \in Seq(Blocks) /\ Distinct(o) /\ Len(o) \in Nat /\ DOMAIN o = 1 .. Len(o)
  BY <1>1 DEF Offer, Distinct
<1>3. PICK acc : Keeping(acc, o, Len(o)) /\ Build(hits) = acc.taken
  BY <1>2, BuildKeeps
<1> HIDE DEF o
<1> DEFINE p == acc.taken
<1>4. /\ p \in Seq(Blocks) /\ Len(p) <= MaxChunks
      /\ \A i \in DOMAIN p : \E k \in DOMAIN o : p[i] = o[k]
      /\ \A i, j \in DOMAIN p : i # j => p[i] # p[j]
      /\ Tokens(p, DOMAIN p) <= MaxTokens \/ Len(p) = 1
      /\ \A d \in BlockPaths : ShareKept(acc, d)
  BY <1>2, <1>3 DEF Keeping, Taking
<1>5. ASSUME NEW i \in DOMAIN p
      PROVE  LET share == OfDocument(p, p[i].path)
             IN Tokens(p, share) <= PerDocument \/ \E j \in share : Tokens(p, share) = p[j].tok
  <2>1. p[i].path \in BlockPaths
    <3>1. p[i] \in Blocks
      BY <1>4
    <3> QED
      BY <3>1 DEF Blocks
  <2> QED
    BY <1>4, <2>1 DEF ShareKept
<1>6. ASSUME NEW i \in DOMAIN p, NEW j \in DOMAIN p, i # j
      PROVE  Separate(p[i], p[j])
  <2>1. PICK k \in DOMAIN o, l \in DOMAIN o : p[i] = o[k] /\ p[j] = o[l]
    BY <1>4
  <2>2. k # l
    BY <1>4, <1>6, <2>1
  <2> QED
    BY <1>1, <2>1, <2>2 DEF Offer
<1>7. \A i \in DOMAIN p : p[i].ids # {}
  BY <1>1, <1>4 DEF Offer
<1> HIDE DEF p
<1>8. Good(p)
  BY <1>4, <1>5, <1>6, <1>7 DEF Good
<1> QED
  BY <1>3, <1>8 DEF p

\* The reranked list is a list of hits.
LEMMA RerankedAre ==
  ASSUME NEW fused \in Seq(Hits), NEW n \in Nat, NEW order \in [1 .. n -> DOMAIN fused]
  PROVE  Reranked(fused, order) \in Seq(Hits)
<1> DEFINE seen == {fused[i].id : i \in Range(order)}
           unseen == {i \in DOMAIN fused : fused[i].id \notin seen}
           head == [i \in DOMAIN order |-> fused[order[i]]]
           tail == Entries(fused, unseen)
<1>1. tail \in Seq(Hits)
  <2>1. unseen \in SUBSET (DOMAIN fused)
    OBVIOUS
  <2> HIDE DEF unseen
  <2> QED
    BY <2>1, EntriesSeq
<1>2. head \in Seq(Hits)
  <2>1. head \in [1 .. n -> Hits]
    OBVIOUS
  <2> QED
    BY <2>1
<1>3. Reranked(fused, order) = IF order = <<>> THEN fused ELSE head \o tail
  BY DEF Reranked
<1> HIDE DEF head, tail
<1> QED
  BY <1>1, <1>2, <1>3

\* The results are hits, and the pack keeps its promises.
PackInv == results \in Seq(Hits) /\ Good(pack)

\* An empty pack keeps its promises.
LEMMA GoodNothing == Good(<<>>)
<1>1. <<>> \in Seq(Blocks) /\ DOMAIN <<>> = {} /\ Len(<<>>) = 0 /\ Tokens(<<>>, {}) = 0
  BY TokensNone
<1> QED
  BY <1>1, AnswerAssumption DEF Good

\* Every step of a question leaves a list of hits and a pack within its budgets.
LEMMA PackInvSteps ==
  ASSUME ListsInv, PackInv, AnswerNext
  PROVE  PackInv'
<1>1. TopK \in Nat /\ RerankTopK \in Nat /\ Fit(lists)
  BY AnswerAssumption DEF ListsInv
<1>2. CASE Fuse
  <2>1. Fused(lists, TopK) \in Seq(Hits)
    BY <1>1, FusedIs
  <2> QED
    BY <1>2, <2>1 DEF Fuse, PackInv
<1>3. CASE Rerank
  <2> DEFINE fused == Fused(lists, Max({TopK, RerankTopK}))
             seen == 1 .. Min({2 * RerankTopK, Len(fused)})
             orders == UNION {[1 .. n -> seen] : n \in 0 .. Min({RerankTopK, Len(fused)})}
  <2>1. PICK order \in {o \in orders : IsInjective(o)} :
          results' = IF order = <<>> THEN fused ELSE Top(Reranked(fused, order), TopK)
    BY <1>3 DEF Rerank
  <2>2. fused \in Seq(Hits) /\ Len(fused) \in Nat
    <3>1. Max({TopK, RerankTopK}) \in Nat
      BY <1>1, GreaterIs
    <3> QED
      BY <1>1, <3>1, FusedIs
  <2> HIDE DEF fused
  <2>3. seen \subseteq DOMAIN fused
    <3>1. 2 * RerankTopK \in Nat
      BY <1>1
    <3>2. Min({2 * RerankTopK, Len(fused)}) <= Len(fused) /\ Min({2 * RerankTopK, Len(fused)}) \in Nat
      BY <2>2, <3>1, LesserIs
    <3> QED
      BY <2>2, <3>2
  <2>4. PICK n \in Nat : order \in [1 .. n -> DOMAIN fused]
    <3>1. Min({RerankTopK, Len(fused)}) \in Nat
      BY <1>1, <2>2, LesserIs
    <3> HIDE DEF seen
    <3>2. PICK n \in 0 .. Min({RerankTopK, Len(fused)}) : order \in [1 .. n -> seen]
      BY <2>1
    <3> QED
      BY <2>3, <3>1, <3>2
  <2>5. Reranked(fused, order) \in Seq(Hits)
    BY <2>2, <2>4, RerankedAre
  <2>6. Top(Reranked(fused, order), TopK) \in Seq(Hits)
    BY <1>1, <2>5, TopIs
  <2>7. pack' = pack
    BY <1>3 DEF Rerank
  <2> QED
    BY <2>1, <2>2, <2>6, <2>7 DEF PackInv
<1>4. CASE BuildPack
  <2>1. Good(Build(results))
    BY BuildIs DEF PackInv
  <2>2. pack' = Build(results) /\ results' = <<>>
    BY <1>4 DEF BuildPack
  <2> QED
    BY <2>1, <2>2 DEF PackInv
<1>5. CASE Answered
  BY <1>5, GoodNothing DEF Answered, PackInv
<1>6. CASE UNCHANGED <<results, pack>>
  BY <1>6 DEF PackInv
<1>7. AnswerNext => Fuse \/ Rerank \/ BuildPack \/ Answered \/ UNCHANGED <<results, pack>>
  BY DEF AnswerNext, Disabled, Retrieve, RetrieveFails, GenerateFails, Generate
<1> QED
  BY <1>2, <1>3, <1>4, <1>5, <1>6, <1>7

(***************************************************************************)
(* What the pack is built of and what is in it (builder.py build): the     *)
(* results are hits, and the pack keeps all that Good says.                *)
(***************************************************************************)
THEOREM PackInvHolds == AnswerSpec => []PackInv
<1>1. AnswerInit => PackInv
  BY GoodNothing DEF AnswerInit, PackInv
<1>2. ListsInv /\ PackInv /\ [AnswerNext]_answerVars => PackInv'
  <2>1. ASSUME PackInv, UNCHANGED answerVars
        PROVE  PackInv'
    BY <2>1 DEF answerVars, PackInv
  <2> QED
    BY <2>1, PackInvSteps
<1> QED
  BY <1>1, <1>2, ListsInvHolds, PTL DEF AnswerSpec

(***************************************************************************)
(* The evidence fits its budgets (builder.py build, _accumulate) for every *)
(* list of hits and every limit: the number of blocks, the tokens, the     *)
(* share of a document, no text twice, and blocks of a document further    *)
(* apart than the merge gap.                                               *)
(***************************************************************************)
THEOREM PackWithinBudgetHolds == AnswerSpec => []PackWithinBudget
<1>1. PackInv => PackWithinBudget
  BY DEF PackInv, Good, PackWithinBudget, Numbers
<1> QED
  BY <1>1, PackInvHolds, PTL

\* There is no answer before there is one, and it is grounded.
AnswerInv ==
  /\ stage \in {"asked", "retrieved", "ranked", "packed", "done"}
  /\ stage = "packed" => pack # <<>>
  /\ stage # "done" => reply = Pending
  /\ AnswerIsGrounded

\* ensure_grounded_answer: the refusal, or prose whose recognised markers are its
\* sources.
LEMMA MarkersAre ==
  ASSUME NEW marks, \A n \in DOMAIN pack : pack[n].ids # {}
  PROVE  LET given == EnsureGroundedAnswer(marks)
         IN given = Refusal \/
            /\ given.kind = "prose"
            /\ RequireCitation => given.cites # {}
            /\ ExtractCitations(given.marks) = given.cites
            /\ \A n \in given.cites : n \in Numbers /\ pack[n].ids # {}
            /\ \A m \in given.marks, n \in UNION given.marks :
                 m = {n} /\ n <= MaxNumber => n \in Numbers
<1> DEFINE cites == ExtractCitations(marks) \cap Numbers
           kept == {m \in marks : Recognised(m) => m \subseteq cites}
<1>1. ASSUME NEW n
      PROVE  n \in cites <=> n \in ExtractCitations(kept)
  <2>1. ASSUME n \in cites
        PROVE  n \in ExtractCitations(kept)
    <3>1. PICK m \in marks : Recognised(m) /\ n \in m
      BY <2>1 DEF ExtractCitations
    <3>2. m = {n}
      BY <3>1 DEF Recognised
    <3>3. m \in kept
      BY <2>1, <3>1, <3>2
    <3> QED
      BY <3>1, <3>3 DEF ExtractCitations
  <2>2. ASSUME n \in ExtractCitations(kept)
        PROVE  n \in cites
    <3>1. PICK m \in kept : Recognised(m) /\ n \in m
      BY <2>2 DEF ExtractCitations
    <3> QED
      BY <3>1
  <2> QED
    BY <2>1, <2>2
<1>2. ExtractCitations(kept) = cites
  BY <1>1
<1>3. \A m \in kept : \A n : m = {n} /\ n <= MaxNumber => n \in Numbers
  BY DEF Recognised
<1> HIDE DEF cites, kept
<1>4. ValidateCitations(marks) = [kind |-> "prose", cites |-> cites, marks |-> kept]
  BY DEF ValidateCitations, cites, kept
<1>5. \A n \in cites : n \in Numbers /\ pack[n].ids # {}
  BY DEF cites, Numbers
<1> QED
  BY <1>2, <1>3, <1>4, <1>5 DEF EnsureGroundedAnswer

\* Every step of a question leaves an answer grounded in its pack.
LEMMA AnswerInvSteps ==
  ASSUME PackInv, AnswerInv, AnswerNext
  PROVE  AnswerInv'
<1>1. \A n \in DOMAIN pack : pack[n].ids # {}
  BY DEF PackInv, Good
<1>2. CASE Disabled
  BY <1>2 DEF Disabled, AnswerInv, AnswerIsGrounded, Refusal
<1>3. CASE BuildPack
  BY <1>3 DEF BuildPack, AnswerInv, AnswerIsGrounded, Refusal, Pending
<1>4. CASE GenerateFails
  BY <1>4 DEF GenerateFails, AnswerInv, AnswerIsGrounded, EvidenceFallback, Numbers
<1>5. CASE Generate
  <2>1. PICK marks : reply' = EnsureGroundedAnswer(marks)
    BY <1>5 DEF Generate
  <2>2. reply' = Refusal \/
          /\ reply'.kind = "prose"
          /\ RequireCitation => reply'.cites # {}
          /\ ExtractCitations(reply'.marks) = reply'.cites
          /\ \A n \in reply'.cites : n \in Numbers /\ pack[n].ids # {}
          /\ \A m \in reply'.marks, n \in UNION reply'.marks :
               m = {n} /\ n <= MaxNumber => n \in Numbers
    BY <1>1, <2>1, MarkersAre
  <2>3. pack' = pack /\ stage' = "done"
    BY <1>5 DEF Generate
  <2>4. Refusal.kind = "refusal"
    BY DEF Refusal
  <2> QED
    BY <2>2, <2>3, <2>4 DEF AnswerInv, AnswerIsGrounded, Numbers
<1>6. CASE Answered
  BY <1>6 DEF Answered, AnswerInv, AnswerIsGrounded, Pending
<1>7. CASE stage = "asked" /\ stage' \in {"retrieved", "ranked"} /\ UNCHANGED <<pack, reply>>
  BY <1>7 DEF AnswerInv, AnswerIsGrounded, Numbers
<1>8. CASE stage = "retrieved" /\ stage' = "ranked" /\ UNCHANGED <<pack, reply>>
  BY <1>8 DEF AnswerInv, AnswerIsGrounded, Numbers
<1>9. \/ Disabled \/ BuildPack \/ GenerateFails \/ Generate \/ Answered
      \/ stage = "asked" /\ stage' \in {"retrieved", "ranked"} /\ UNCHANGED <<pack, reply>>
      \/ stage = "retrieved" /\ stage' = "ranked" /\ UNCHANGED <<pack, reply>>
  BY DEF AnswerNext, Retrieve, RetrieveFails, Fuse, Rerank
<1> QED
  BY <1>2, <1>3, <1>4, <1>5, <1>6, <1>7, <1>8, <1>9

(***************************************************************************)
(* Prose that reaches the client is grounded in the pack (citations.py     *)
(* validate_citations, ensure_grounded_answer; service.py query), whatever *)
(* the model wrote.                                                        *)
(***************************************************************************)
THEOREM AnswerIsGroundedHolds == AnswerSpec => []AnswerIsGrounded
<1>1. AnswerInit => AnswerInv
  BY DEF AnswerInit, AnswerInv, AnswerIsGrounded, Pending
<1>2. PackInv /\ AnswerInv /\ [AnswerNext]_answerVars => AnswerInv'
  <2>1. ASSUME AnswerInv, UNCHANGED answerVars
        PROVE  AnswerInv'
    BY <2>1 DEF answerVars, AnswerInv, AnswerIsGrounded, Numbers
  <2> QED
    BY <2>1, AnswerInvSteps
<1>3. AnswerInv => AnswerIsGrounded
  BY DEF AnswerInv
<1> QED
  BY <1>1, <1>2, <1>3, PackInvHolds, PTL DEF AnswerSpec
==============================================================================
