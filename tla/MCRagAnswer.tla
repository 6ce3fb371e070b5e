----------------------------- MODULE MCRagAnswer -----------------------------
(* Six chunks of three notes and two link graphs over them.                *)
EXTENDS RagAnswer

Hit(id, path, text, from, to, tok) ==
  [id |-> id, path |-> path, text |-> text, from |-> from, to |-> to, tok |-> tok]

\* Document 1 has two neighbouring chunks and a distant one, document 2 repeats
\* a text of document 1 and has a chunk larger than its share, document 3 is
\* reached by links only or directly.
MCHits == {Hit(1, 1, 1, 1, 3, 2), Hit(2, 1, 2, 4, 6, 2), Hit(3, 1, 3, 30, 31, 0),
           Hit(4, 2, 1, 1, 2, 2), Hit(5, 2, 5, 20, 29, 6), Hit(6, 3, 6, 1, 4, 2)}

Graph(links, tagged) ==
  [notes |-> 1 .. 3, links |-> links,
   tags |-> [d \in 1 .. 3 |-> IF d \in tagged THEN {"t"} ELSE {}]]

MCGraphs == {Graph({<<1, 2>>, <<2, 3>>, <<3, 9>>}, {}), Graph({<<2, 1>>, <<3, 1>>}, {2, 3})}
=============================================================================
