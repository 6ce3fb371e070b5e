----------------------------- MODULE MCRagIndex -----------------------------
(* Two notes whose texts share a chunk under different heads, and one text *)
(* that is not UTF-8.                                                      *)
EXTENDS RagIndex, TLC

MCTexts == {"one", "two", "binary"}
MCPieces == [one |-> <<"x">>, two |-> <<"y", "x">>, binary |-> <<>>]
MCHeads == [one |-> <<"a">>, two |-> <<"a", "b">>, binary |-> <<>>]
MCSymmetry == Permutations(Flushers) \cup Permutations(Models)
=============================================================================
