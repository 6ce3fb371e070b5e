---------------------------- MODULE MCNoteIndex ----------------------------
(* Instances of NoteIndex for TLC.                                         *)
EXTENDS NoteIndex, TLC

CONSTANTS p1, p2

MCPaths == {p1, p2}
============================================================================
