------------------------------ MODULE RagAnswer ------------------------------
(***************************************************************************)
(* One question to the knowledge base, from the ranked lists of the        *)
(* retrievers to the answer the client sees: the link expansion            *)
(* (server/rag/retrieval/link.py), reciprocal rank fusion and the optional *)
(* reranker (hybrid.py, rrf.py), the evidence pack with its budgets        *)
(* (server/rag/context/builder.py), the generation and the validation of   *)
(* its citations (server/rag/service.py, citations.py).                    *)
(*                                                                         *)
(* A hit is a record of what those stages look at: its id, document, the   *)
(* hash of its text, its line range and its size in tokens.  Scores are    *)
(* integers: every rank contribution 1/(k + rank) is scaled by a common    *)
(* multiple, the weights 1.0 and 0.5 by two, and the weights of the link   *)
(* signals by ten.                                                         *)
(***************************************************************************)
EXTENDS Ordering, Sequences, FiniteSetsExt, Functions

CONSTANTS
  Hits,          \* chunks a retriever may return: [id, path, text, from, to, tok]
  Graphs,        \* link graphs of the vault: [notes, links, tags]
  MaxHits,       \* fts_top_k, vector_top_k and link_top_k
  SeedTopK,      \* seed_top_k, the keyword hits the link expansion starts from
  K,             \* rrf_k
  LinkWeight,    \* twice link_rrf_weight
  TopK,          \* fusion_top_k, the cut of the fused list
  RerankTopK,    \* rerank_top_k
  MaxChunks,     \* context_top_k
  MaxTokens,     \* context_max_tokens
  PerDocument,   \* context_max_tokens_per_document
  MergeGap,      \* context_merge_gap_lines
  Marks,         \* what a model may write in brackets: sets of source numbers,
                 \* real or not, such as [S1], [S1, S9] or [S1000]; a number
                 \* spelled with more than three digits is one over MaxNumber
  RequireCitation

\* An id is of one chunk; a text of nothing but signs has no tokens.
ASSUME AnswerAssumption ==
  /\ \A h \in Hits : {h.id, h.path, h.from, h.to, h.tok} \subseteq Nat /\ h.from <= h.to
  /\ \A g, h \in Hits : g.id = h.id => g = h
  /\ \A g \in Graphs : g.notes \subseteq Nat /\ IsFiniteSet(g.notes)
  /\ {MaxHits, SeedTopK, K, TopK, RerankTopK, MaxChunks} \subseteq Nat \ {0}
  /\ {MaxTokens, PerDocument, MergeGap} \subseteq Nat
  /\ LinkWeight \in 0 .. 2 /\ RequireCitation \in BOOLEAN

VARIABLES
  graph,     \* the derived link graph the question is asked over
  stage,     \* how far the question is
  lists,     \* the lists of the keyword, vector and link retrievers
  results,   \* the fused and reranked hits
  pack,      \* the evidence blocks, numbered from one
  reply      \* what the client gets

answerVars == <<graph, stage, lists, results, pack, reply>>
-----------------------------------------------------------------------------
(* The link expansion. *)

\* _build_graph_view: an edge needs an existing target and is no self-link.
Outgoing(g, d) == {t \in g.notes : t # d /\ <<d, t>> \in g.links}
Incoming(g, d) == {s \in g.notes : d \in Outgoing(g, s)}
OneHop(g, d) == Outgoing(g, d) \cup Incoming(g, d)

\* _connections: how much leads from the seeds to note p, each signal once per
\* seed.  The cap of fifty neighbours per tag lies outside the instances.
Strength(g, seeds, p) ==
  LET Near(s) == p \notin OneHop(g, s) /\ \E h \in OneHop(g, s) : p \in OneHop(g, h)
  IN 10 * Cardinality({s \in seeds : p \in Outgoing(g, s)})
       + 8 * Cardinality({s \in seeds : p \in Incoming(g, s)})
       + 6 * Cardinality({s \in seeds : g.tags[s] \cap g.tags[p] # {}})
       + 4 * Cardinality({s \in seeds : Near(s)})

\* retrieve: every connected note that is no seed, strongest first, then by path.
Expansion(g, seeds) ==
  LET strength == [p \in g.notes |-> Strength(g, seeds, p)]
      found == {p \in g.notes \ seeds : strength[p] > 0}
  IN Ordered(found, {x \in found \X found :
       \/ strength[x[1]] > strength[x[2]]
       \/ strength[x[1]] = strength[x[2]] /\ x[1] < x[2]})
-----------------------------------------------------------------------------
(* Fusion. *)

RankedLists == {s \in UNION {[1 .. n -> Hits] : n \in 0 .. MaxHits} : IsInjective(s)}

\* KeywordRetriever.retrieve: hits of the chunk table in their order, or one
\* chunk for each document the derived index finds, or substring hits.
KeywordLists ==
  LET PerDocumentOnly(s) == IsInjective([i \in DOMAIN s |-> s[i].path])
  IN [hits : RankedLists, flat : {FALSE}]
       \cup [hits : {s \in RankedLists : PerDocumentOnly(s)}, flat : {TRUE}]

\* VectorRetriever.retrieve: hits above the floor; none without a provider, a
\* vector of the question, or a store.
VectorLists == RankedLists

\* The multiple of all K + rank that makes every contribution an integer.
Scale ==
  LET product[n \in 0 .. MaxHits] == IF n = 0 THEN 1 ELSE product[n - 1] * (K + n)
  IN product[MaxHits]

\* effective_rank and the contribution of one list to one chunk.  The hits of
\* the document-level keyword path all carry rank 1.
Vote(list, flat, id, weight) ==
  LET at == {i \in DOMAIN list : list[i].id = id}
      rank == IF flat THEN 1 ELSE Min(at)
  IN IF at = {} THEN 0 ELSE weight * (Scale \div (K + rank))

Score(ls, id) ==
  Vote(ls.keyword, ls.flat, id, 2) + Vote(ls.vector, FALSE, id, 2)
    + Vote(ls.link, FALSE, id, LinkWeight)

\* reciprocal_rank_fusion: best score first, ties by chunk id, then the cut.
\* A list without weight contributes no candidates.
Ranking(ls, found) ==
  LET score == [h \in found |-> Score(ls, h.id)]
  IN {x \in found \X found :
        \/ score[x[1]] > score[x[2]]
        \/ score[x[1]] = score[x[2]] /\ x[1].id < x[2].id}

Candidates(ls) ==
  Range(ls.keyword) \cup Range(ls.vector) \cup (IF LinkWeight > 0 THEN Range(ls.link) ELSE {})

Top(s, n) == SubSeq(s, 1, Min({n, Len(s)}))

Fused(ls, top) ==
  LET found == Candidates(ls)
  IN Top(Ordered(found, Ranking(ls, found)), top)

\* Mutant: links into documents the direct paths found are kept.
NewLinkCandidatesMut(ls) == ls.link

\* _new_link_candidates: only hits of documents the direct paths missed.
NewLinkCandidates(ls) ==
  LET covered == {h.path : h \in Range(ls.keyword) \cup Range(ls.vector)}
  IN Entries(ls.link, {i \in DOMAIN ls.link : ls.link[i].path \notin covered})

\* _rerank: the shortlist in the reranker's order, then the fused tail; no
\* usable answer leaves the fused order.
Reranked(fused, order) ==
  LET seen == {fused[i].id : i \in Range(order)}
      unseen == {i \in DOMAIN fused : fused[i].id \notin seen}
  IN IF order = <<>> THEN fused
     ELSE [i \in DOMAIN order |-> fused[order[i]]] \o Entries(fused, unseen)
-----------------------------------------------------------------------------
(* The evidence pack. *)

Block(h) == [path |-> h.path, from |-> h.from, to |-> h.to, tok |-> h.tok,
             texts |-> {h.text}, ids |-> {h.id}]

\* _accumulate, first half: the same chunk, or the same text reached twice, is
\* taken once.
Deduplicated(hits) ==
  LET First(i) == \A j \in 1 .. i - 1 : hits[j].id # hits[i].id /\ hits[j].text # hits[i].text
      kept == Entries(hits, {i \in DOMAIN hits : First(i)})
  IN [n \in DOMAIN kept |-> Block(kept[n])]

\* _join
Join(l, r) ==
  [path |-> l.path, from |-> Min({l.from, r.from}), to |-> Max({l.to, r.to}),
   tok |-> l.tok + r.tok, texts |-> l.texts \cup r.texts, ids |-> l.ids \cup r.ids]

OfDocument(s, d) == {i \in DOMAIN s : s[i].path = d}

\* _accumulate, second half: blocks of one document in line order, equal ones as
\* they came.
LineOrder(blocks, path) ==
  LET mine == OfDocument(blocks, path)
      Before(a, b) == a.from < b.from \/ (a.from = b.from /\ a.to < b.to)
      Equal(a, b) == a.from = b.from /\ a.to = b.to
  IN Ordered(mine, {x \in mine \X mine :
       \/ Before(blocks[x[1]], blocks[x[2]])
       \/ Equal(blocks[x[1]], blocks[x[2]]) /\ x[1] < x[2]})

\* A block near the last one is joined with it.
Merge(done, b) ==
  IF done # <<>> /\ b.from <= done[Len(done)].to + MergeGap
    THEN [done EXCEPT ![Len(done)] = Join(@, b)]
    ELSE Append(done, b)

MergedOf(blocks, path) ==
  LET order == LineOrder(blocks, path)
      done[n \in 0 .. Len(order)] ==
        IF n = 0 THEN <<>> ELSE Merge(done[n - 1], blocks[order[n]])
  IN done[Len(order)]

\* Each merged block stands where its first member stood.
Accumulate(hits) ==
  LET blocks == Deduplicated(hits)
      merged == UNION {Range(MergedOf(blocks, blocks[i].path)) : i \in DOMAIN blocks}
      Place(m) == Min({i \in DOMAIN blocks : blocks[i].ids \subseteq m.ids})
  IN Ordered(merged, {x \in merged \X merged : Place(x[1]) < Place(x[2])})

\* Mutant: a document may take more than its share.
AdmitMut(acc, b) ==
  LET spent == acc.spent[b.path]
      charge == IF spent = 0 /\ b.tok > PerDocument THEN PerDocument + 1
                ELSE spent + b.tok
      overShare == spent > 0 /\ spent + b.tok > PerDocument
      overBudget == acc.used + b.tok > MaxTokens /\ acc.taken # <<>>
  IN IF acc.full \/ Len(acc.taken) >= MaxChunks THEN [acc EXCEPT !.full = TRUE]
     ELSE IF overBudget THEN [acc EXCEPT !.full = TRUE]
     ELSE [taken |-> Append(acc.taken, b), used |-> acc.used + b.tok,
           spent |-> [acc.spent EXCEPT ![b.path] = charge], full |-> FALSE]

\* build, one candidate: refused for good once the pack is full or over its
\* tokens, skipped when its document has had its share, else taken.  The first
\* block of a document is always taken, and closes it when it exceeds the share.
Admit(acc, b) ==
  LET spent == acc.spent[b.path]
      charge == IF spent = 0 /\ b.tok > PerDocument THEN PerDocument + 1
                ELSE spent + b.tok
      overShare == spent > 0 /\ spent + b.tok > PerDocument
      overBudget == acc.used + b.tok > MaxTokens /\ acc.taken # <<>>
  IN IF acc.full \/ Len(acc.taken) >= MaxChunks THEN [acc EXCEPT !.full = TRUE]
     ELSE IF overShare THEN acc
     ELSE IF overBudget THEN [acc EXCEPT !.full = TRUE]
     ELSE [taken |-> Append(acc.taken, b), used |-> acc.used + b.tok,
           spent |-> [acc.spent EXCEPT ![b.path] = charge], full |-> FALSE]

Nothing == [taken |-> <<>>, used |-> 0, spent |-> [d \in {h.path : h \in Hits} |-> 0],
            full |-> FALSE]

Build(hits) ==
  LET offered == Accumulate(hits)
      acc[n \in 0 .. Len(offered)] ==
        IF n = 0 THEN Nothing ELSE Admit(acc[n - 1], offered[n])
  IN acc[Len(offered)].taken
-----------------------------------------------------------------------------
(* The answer. *)

NoLists == [keyword |-> <<>>, flat |-> FALSE, vector |-> <<>>, link |-> <<>>]
Pending == [kind |-> "none", marks |-> {}, cites |-> {}]
Refusal == [kind |-> "refusal", marks |-> {}, cites |-> {}]

Numbers == DOMAIN pack

\* _UNSUPPORTED_MARKERS: \d{1,3}, one number to a marker.  A marker of several
\* numbers, or of one with more digits, is neither a citation nor removed.
MaxNumber == 999
Recognised(mark) == \E n \in mark : mark = {n} /\ n <= MaxNumber

\* extract_citations
ExtractCitations(marks) == UNION {m \in marks : Recognised(m)}

\* Mutant: markers of sources that are not in the pack stay.
ValidateCitationsMut(marks) ==
  [kind |-> "prose", marks |-> marks, cites |-> ExtractCitations(marks) \cap Numbers]

\* validate_citations: markers of real sources stay and name the sources the
\* client gets; the other recognised ones are removed from the text.  What is not
\* recognised is left as it is.
ValidateCitations(marks) ==
  LET cites == ExtractCitations(marks) \cap Numbers
  IN [kind |-> "prose", cites |-> cites,
      marks |-> {m \in marks : Recognised(m) => m \subseteq cites}]

\* ensure_grounded_answer: prose that cites nothing real is replaced by the
\* refusal, unless the settings do not ask for citations.
EnsureGroundedAnswer(marks) ==
  LET checked == ValidateCitations(marks)
  IN IF RequireCitation /\ checked.cites = {} THEN Refusal ELSE checked

\* _evidence_fallback: no prose, the retrieved evidence listed with its numbers.
EvidenceFallback ==
  [kind |-> "fallback", marks |-> {{n} : n \in Numbers}, cites |-> Numbers]
-----------------------------------------------------------------------------
(* RagService.query *)

AnswerInit ==
  /\ graph \in Graphs
  /\ stage = "asked"
  /\ lists = NoLists
  /\ results = <<>>
  /\ pack = <<>>
  /\ reply = Pending

\* RAG is switched off in the settings.
Disabled ==
  /\ stage = "asked"
  /\ stage' = "done"
  /\ reply' = [Refusal EXCEPT !.kind = "disabled"]
  /\ UNCHANGED <<graph, lists, results, pack>>

\* The seeds of the expansion are the documents of the best keyword hits, and
\* each note found that has a chunk is materialised as its best one.
LinkHits(keyword, best) ==
  LET seeds == {keyword[i].path : i \in 1 .. Min({SeedTopK, Len(keyword)})}
      notes == Expansion(graph, seeds)
      found == Entries(notes, {i \in DOMAIN notes : notes[i] \in DOMAIN best})
  IN IF seeds = {} THEN <<>> ELSE Top([i \in DOMAIN found |-> best[found[i]]], MaxHits)

BestChunks ==
  {f \in [{h.path : h \in Hits} -> Hits] : \A d \in DOMAIN f : f[d].path = d}

\* HybridRetriever.search, the three paths.  An unavailable path gives nothing
\* and never fails the question.
Retrieve ==
  /\ stage = "asked"
  /\ \E keyword \in KeywordLists, vector \in VectorLists, best \in BestChunks :
       \E link \in {<<>>, LinkHits(keyword.hits, best)} :
         lists' = [keyword |-> keyword.hits, flat |-> keyword.flat, vector |-> vector,
                   link |-> NewLinkCandidates([keyword |-> keyword.hits,
                                               vector |-> vector, link |-> link])]
  /\ stage' = "retrieved"
  /\ UNCHANGED <<graph, results, pack, reply>>

\* RagService._retrieve: the store or the provider fails the whole search, which
\* is answered like one that found nothing.
RetrieveFails ==
  /\ stage = "asked"
  /\ stage' = "ranked"
  /\ UNCHANGED <<graph, lists, results, pack, reply>>

\* Fusion without a reranker.
Fuse ==
  /\ stage = "retrieved"
  /\ results' = Fused(lists, TopK)
  /\ stage' = "ranked"
  /\ UNCHANGED <<graph, lists, pack, reply>>

\* Fusion for the reranker, which sees at least its own shortlist and answers
\* with any order of some of its candidates.  Without a usable answer the fused
\* list stays, uncut.
Rerank ==
  /\ stage = "retrieved"
  /\ LET fused == Fused(lists, Max({TopK, RerankTopK}))
         seen == 1 .. Min({2 * RerankTopK, Len(fused)})
         orders == UNION {[1 .. n -> seen] : n \in 0 .. Min({RerankTopK, Len(fused)})}
     IN \E order \in {o \in orders : IsInjective(o)} :
          results' = IF order = <<>> THEN fused ELSE Top(Reranked(fused, order), TopK)
  /\ stage' = "ranked"
  /\ UNCHANGED <<graph, lists, pack, reply>>

\* The evidence pack; without evidence the model is never asked.
BuildPack ==
  /\ stage = "ranked"
  /\ pack' = Build(results)
  /\ IF pack' = <<>> THEN stage' = "done" /\ reply' = Refusal
     ELSE stage' = "packed" /\ UNCHANGED reply
  /\ lists' = NoLists
  /\ results' = <<>>
  /\ UNCHANGED graph

\* No generator, a failing one, or an empty answer.
GenerateFails ==
  /\ stage = "packed"
  /\ stage' = "done"
  /\ reply' = EvidenceFallback
  /\ UNCHANGED <<graph, lists, results, pack>>

\* _generate_answer and the final gate: the markers of the prose together with
\* the sources the model listed beside it.
Generate ==
  /\ stage = "packed"
  /\ \E prose \in SUBSET Marks, used \in SUBSET UNION Marks :
       reply' = EnsureGroundedAnswer(prose \cup {{n} : n \in used})
  /\ stage' = "done"
  /\ UNCHANGED <<graph, lists, results, pack>>

\* The client has its answer and asks again.
Answered ==
  /\ stage = "done"
  /\ stage' = "asked"
  /\ pack' = <<>>
  /\ reply' = Pending
  /\ UNCHANGED <<graph, lists, results>>

AnswerNext ==
  \/ Disabled \/ Retrieve \/ RetrieveFails \/ Fuse \/ Rerank \/ BuildPack
  \/ GenerateFails \/ Generate \/ Answered

AnswerSpec == AnswerInit /\ [][AnswerNext]_answerVars
-----------------------------------------------------------------------------
Direct(ls) == Range(ls.keyword) \cup Range(ls.vector)

(***************************************************************************)
(* The link path only adds.  The fused list begins with what fusion gives  *)
(* without the link path, in that order; behind it are hits only the link  *)
(* path found, and no document of a direct hit is there a second time      *)
(* through a link (hybrid.py, rrf.py).                                     *)
(***************************************************************************)
LinksOnlyAdd ==
  LET whole == Fused(lists, 3 * MaxHits)
      alone == Fused([lists EXCEPT !.link = <<>>], 3 * MaxHits)
  IN /\ Len(alone) <= Len(whole)
     /\ \A i \in 1 .. Len(whole) :
          IF i <= Len(alone) THEN whole[i] = alone[i]
          ELSE \A d \in Direct(lists) : whole[i] # d /\ whole[i].path # d.path

\* The tokens of the blocks of list s at the positions I.
Tokens(s, I) ==
  LET sum[n \in 0 .. Len(s)] ==
        IF n = 0 THEN 0 ELSE sum[n - 1] + (IF n \in I THEN s[n].tok ELSE 0)
  IN sum[Len(s)]

\* No text is in both, and blocks of one document are further apart than the gap.
Separate(a, b) ==
  /\ a.texts \cap b.texts = {}
  /\ a.path = b.path => a.from > b.to + MergeGap \/ b.from > a.to + MergeGap

(***************************************************************************)
(* The evidence fits its budgets (builder.py build and _accumulate): at    *)
(* most MaxChunks blocks, at most MaxTokens unless one block alone is      *)
(* larger, at most the share of a document unless one block of it alone is *)
(* larger and no other one has any tokens, no text in two blocks, and      *)
(* blocks of a document further apart than the merge gap.                  *)
(***************************************************************************)
PackWithinBudget ==
  /\ Len(pack) <= MaxChunks
  /\ Tokens(pack, Numbers) <= MaxTokens \/ Len(pack) = 1
  /\ \A i \in Numbers :
       LET share == OfDocument(pack, pack[i].path)
       IN Tokens(pack, share) <= PerDocument \/ \E j \in share : Tokens(pack, share) = pack[j].tok
  /\ \A i, j \in Numbers : i # j => Separate(pack[i], pack[j])

(***************************************************************************)
(* Prose that reaches the client is grounded, as far as the marker pattern *)
(* reaches (citations.py, service.py query).  Where citations are asked    *)
(* for it cites at least one block of the pack; the listed sources are     *)
(* those of the recognised markers left in the text, each a block made of  *)
(* retrieved chunks; a marker left of one number of up to three digits     *)
(* names a block, of others nothing is said.  Without prose the sources    *)
(* are the whole pack, which is not empty.                                 *)
(***************************************************************************)
AnswerIsGrounded ==
  /\ reply.kind = "prose" =>
       /\ RequireCitation => reply.cites # {}
       /\ ExtractCitations(reply.marks) = reply.cites
       /\ \A n \in reply.cites : n \in Numbers /\ pack[n].ids # {}
       /\ \A m \in reply.marks, n \in UNION reply.marks :
            m = {n} /\ n <= MaxNumber => n \in Numbers
  /\ reply.kind = "fallback" => reply.cites = Numbers /\ pack # <<>>
=============================================================================
