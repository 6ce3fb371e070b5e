------------------------------ MODULE MCRuntime ------------------------------
(* Two settings requests at once; workers, vaults and profiles are alike.  *)
EXTENDS Runtime, TLC

Symmetry == Permutations(Workers) \cup Permutations(Roots) \cup Permutations(Extra)
=============================================================================
