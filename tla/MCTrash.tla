------------------------------ MODULE MCTrash ------------------------------
(* Small instances of Trash: paths are interchangeable model values.       *)
EXTENDS Trash, TLC

CONSTANTS p1, p2, n1, n2

MCPaths == {p1, p2}
MCNotes == {n1, n2}

MCSymmetry == Permutations(MCNotes)
=============================================================================
