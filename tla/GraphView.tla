----------------------------- MODULE GraphView -----------------------------
(***************************************************************************)
(* The note and tag graph the client sees (server/graph/service.py),       *)
(* computed for each request from one snapshot of the tables of LinkIndex: *)
(* the scope of the request, its nodes and edges, the semantic edges, and  *)
(* the page that is sent.  Numbers stand for paths and tags, so that their *)
(* order is that of the identifiers.                                       *)
(***************************************************************************)
EXTENDS LinkIndex, Ordering

CONSTANTS
  TagsOf,      \* text -> its tags, as numbers
  Score,       \* pair of texts -> similarity of their vectors, in percent
  Threshold,   \* least similarity of a semantic edge
  Top,         \* semantic neighbours of a note
  MaxSemantic, \* notes the semantic projection takes
  MaxEdges, MaxLimit, MaxDepth, \* limits of a response
  Requests     \* what a client may ask

ASSUME GraphAssumption ==
  /\ {Top, MaxSemantic, MaxEdges, MaxLimit, MaxDepth} \subseteq Nat \ {0}
  /\ \A text \in Texts : TagsOf[text] \subseteq Nat \ {0} /\ IsFiniteSet(TagsOf[text])
  /\ \A q \in Requests : q.scope \in {"global", "tag", "local"}

\* _validated_limit, _validated_depth, _validated_direction
Valid(q) ==
  /\ q.limit \in 1 .. MaxLimit
  /\ q.depth \in 0 .. MaxDepth
  /\ q.direction \in {"both", "outgoing", "incoming"}

\* graph_snapshot
NoteRows == {p \in Markdown : ix.note[p] # Missing}
Tagged(p) == TagsOf[ix.note[p]]
HasTag(p, tag) == tag = Nowhere \/ tag \in Tagged(p)

\* _note_adjacency
Forward(p) == {l.to : l \in Range(ix.links[p])} \cap (NoteRows \ {p})
Backward(p) == {q \in NoteRows \ {p} : p \in Forward(q)}

\* Mutant: every request follows the links forward.
NeighboursMut(p, direction) == Forward(p)

Neighbours(p, direction) ==
  (IF direction # "incoming" THEN Forward(p) ELSE {})
    \cup (IF direction # "outgoing" THEN Backward(p) ELSE {})

\* One level more: what is next to the frontier and not visited yet.
Round(s, direction) ==
  LET next == (UNION {Neighbours(p, direction) : p \in s.frontier}) \ s.visited
  IN [visited |-> s.visited \cup next, frontier |-> next]

\* local_graph: breadth first from the root, one level per round.
Visited(root, depth, direction) ==
  LET round[n \in 0 .. depth] ==
        IF n = 0 THEN [visited |-> {root}, frontier |-> {root}]
        ELSE Round(round[n - 1], direction)
  IN round[depth].visited
-----------------------------------------------------------------------------
(* Semantic edges. *)

\* The notes whose stored vectors are of the text in the index.
Covered(paths) == {p \in paths \cap NoteRows : emb[p] = ix.note[p]}

Foremost(s, n) == SubSeq(s, 1, Min({n, Len(s)}))

\* The best matches of a note among the covered ones.
Nearest(p, covered) ==
  LET S(q) == Score[<<ix.note[p], ix.note[q]>>]
      close == {q \in covered \ {p} : S(q) >= Threshold}
      Closer(a, b) == S(a) > S(b) \/ (S(a) = S(b) /\ a < b)
  IN Range(Foremost(Ordered(close, {x \in close \X close : Closer(x[1], x[2])}), Top))

\* _semantic_projection: pairs that are each among the other's best.  A request
\* that does not want them, or takes in too many notes, has none; a store of
\* another model is one that holds no vectors yet.
SemanticPairs(paths, wanted) ==
  LET covered == Covered(paths)
  IN IF ~wanted \/ Cardinality(paths) > MaxSemantic THEN {}
     ELSE {x \in covered \X covered :
             /\ x[1] < x[2]
             /\ x[2] \in Nearest(x[1], covered) /\ x[1] \in Nearest(x[2], covered)}

\* The root with the first others, as many as the projection takes.
SemanticCandidates(root) ==
  {root} \cup Range(Foremost(Ascending(NoteRows \ {root}), MaxSemantic - 1))
-----------------------------------------------------------------------------
(* The nodes and edges of a set of notes (_scope_nodes_and_edges). *)

ScopeTags(notes, tag) == {t \in UNION {Tagged(p) : p \in notes} : tag \in {Nowhere, t}}

\* Notes before tags, each in order.
ScopeNodes(notes, tag) ==
  LET Nodes(type, ids) ==
        LET order == Ascending(ids) IN [i \in DOMAIN order |-> <<type, order[i]>>]
  IN Nodes("note", notes) \o Nodes("tag", ScopeTags(notes, tag))

TagEdges(notes, tag) ==
  UNION {{[type |-> "tag", from |-> <<"note", p>>, seq |-> 0, to |-> <<"tag", t>>] :
            t \in Tagged(p) \cap ScopeTags(notes, tag)} : p \in notes}

\* A row whose target is in the scope is an edge; a broken one, or an ambiguous
\* one that leads elsewhere, an edge without a target; a row that leads to an
\* attachment, or to a note outside, is none.
LinkEdges(notes, broken) ==
  LET Inside(l) == l.to \in notes
      Drawn(l) == ~l.web /\ (Inside(l) \/ (broken /\ (l.broken \/ l.ambiguous)))
      Edge(p, i) == [type |-> "link", from |-> <<"note", p>>, seq |-> i,
                     to |-> IF Inside(ix.links[p][i]) THEN <<"note", ix.links[p][i].to>>
                            ELSE <<"none", Nowhere>>]
  IN UNION {{Edge(p, i) : i \in {j \in DOMAIN ix.links[p] : Drawn(ix.links[p][j])}} :
              p \in notes}

SemanticEdges(notes, pairs) ==
  {[type |-> "semantic", from |-> <<"note", pair[1]>>, seq |-> 0, to |-> <<"note", pair[2]>>] :
     pair \in {x \in pairs : {x[1], x[2]} \subseteq notes}}

Scope(q, notes, pairs) ==
  [notes |-> notes, nodes |-> ScopeNodes(notes, q.tag),
   edges |-> LinkEdges(notes, q.broken) \cup TagEdges(notes, q.tag)
               \cup SemanticEdges(notes, pairs)]
-----------------------------------------------------------------------------
(* The three requests. *)

GlobalGraph(q) ==
  LET notes == {p \in NoteRows : HasTag(p, q.tag)}
  IN Scope(q, notes, SemanticPairs(notes, q.semantic))

\* A tag no note carries is not found.
TagGraph(q) ==
  LET notes == {p \in NoteRows : q.tag \in Tagged(p)}
  IN Scope(q, notes, SemanticPairs(notes, q.semantic))

\* The root stays although it does not carry the tag, and brings its semantic
\* neighbours.
LocalGraph(q) ==
  LET pairs == SemanticPairs(SemanticCandidates(q.root), q.semantic)
      near == {p \in NoteRows : <<p, q.root>> \in pairs \/ <<q.root, p>> \in pairs}
      linked == Visited(q.root, q.depth, q.direction)
  IN Scope(q, {p \in linked \cup near : p = q.root \/ HasTag(p, q.tag)}, pairs)

\* Anything else is refused or not found.
Answerable(q) ==
  /\ Valid(q)
  /\ CASE q.scope = "global" -> TRUE
       [] q.scope = "tag" -> \E p \in NoteRows : q.tag \in Tagged(p)
       [] q.scope = "local" -> q.root \in NoteRows

Graph(q) ==
  CASE q.scope = "global" -> GlobalGraph(q)
    [] q.scope = "tag" -> TagGraph(q)
    [] q.scope = "local" -> LocalGraph(q)

\* An edge belongs to a page that has both its ends, or its only one.
Adjacent(e, nodes) == e.from \in nodes /\ (e.to[1] = "none" \/ e.to \in nodes)

\* _page_response; which edges the limit cuts is left open.
Page(g, offset, limit) ==
  LET total == Len(g.nodes)
      nodes == SubSeq(g.nodes, offset + 1, Min({offset + limit, total}))
      shown == Range(nodes)
      edges == {e \in g.edges : Adjacent(e, shown)}
      next == IF offset + limit < total THEN offset + limit ELSE 0
  IN [nodes |-> nodes, edges |-> edges, next |-> next,
      truncated |-> next # 0 \/ Cardinality(edges) > MaxEdges]

\* The pages a client reads that follows next_offset.
Pages(g, limit) ==
  [k \in {n \in 0 .. Len(g.nodes) : n = 0 \/ n * limit < Len(g.nodes)} |-> Page(g, k * limit, limit)]
-----------------------------------------------------------------------------
\* Reference: p is reached from the root over at most n links.
Reaches(root, p, n, direction) ==
  \E walk \in UNION {[1 .. m -> NoteRows] : m \in 1 .. n + 1} :
    /\ walk[1] = root /\ walk[Len(walk)] = p
    /\ \A i \in 1 .. Len(walk) - 1 :
         \/ direction # "incoming" /\ \E l \in Range(ix.links[walk[i]]) : l.to = walk[i + 1]
         \/ direction # "outgoing" /\ \E l \in Range(ix.links[walk[i + 1]]) : l.to = walk[i]

\* Each entry of the list is shown by one page, at one place, and nothing else is.
ShownOnce(list, pages) ==
  LET spots == UNION {{k} \X DOMAIN pages[k].nodes : k \in DOMAIN pages}
      At(spot) == pages[spot[1]].nodes[spot[2]]
  IN /\ {At(spot) : spot \in spots} = Range(list)
     /\ \A r, s \in spots : At(r) = At(s) => r = s

(***************************************************************************)
(* The graph a client puts together is right, also while rows of the index *)
(* are stale: the linked notes of a local scope are those within the asked *)
(* distance; the nodes are the notes of the scope and their tags, those of *)
(* the filter only; following next_offset leads from page to page and      *)
(* shows every node exactly once; every edge joins nodes of its page or    *)
(* visibly dangles, and leads to no note without a row; a first page that  *)
(* is not marked truncated is the whole scope (service.py local_graph,     *)
(* _scope_nodes_and_edges, _page_response).                                *)
(***************************************************************************)
GraphIsFaithful ==
  indexReady /\ ~building => \A q \in {r \in Requests : Answerable(r)} :
    LET g == Graph(q)
        first == Page(g, 0, q.limit)
        pages == Pages(g, q.limit)
    IN /\ q.scope = "local" /\ ~q.semantic =>
            g.notes = {p \in NoteRows : /\ p = q.root \/ HasTag(p, q.tag)
                                        /\ Reaches(q.root, p, q.depth, q.direction)}
       /\ Range(g.nodes) = ({"note"} \X g.notes) \cup ({"tag"} \X ScopeTags(g.notes, q.tag))
       /\ ShownOnce(g.nodes, pages)
       /\ \A k \in DOMAIN pages :
            LET ends == Range(pages[k].nodes) \cup {<<"none", Nowhere>>}
            IN /\ pages[k].next = IF k + 1 \in DOMAIN pages THEN (k + 1) * q.limit ELSE 0
               /\ \A e \in pages[k].edges : /\ {e.from, e.to} \subseteq ends
                                            /\ e.to[1] = "note" => e.to[2] \in NoteRows
       /\ ~first.truncated => first.edges = g.edges /\ first.nodes = g.nodes
=============================================================================
