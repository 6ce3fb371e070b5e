------------------------------ MODULE MCReader ------------------------------
(* Two paired devices and a third that registers; a source with a child the  *)
(* server refuses and one that it accepts.                                   *)
EXTENDS Reader, TLC

CONSTANTS a, b, c, s, h, g, q1, q2

\* Everything is created on one device; the other reads and edits it.
MCHome == [e \in Entities |-> a]
MCDeviceOf == [t \in Syncs |-> IF t = "b1" THEN b ELSE a]
MCSymmetry == Permutations(Asks)
=============================================================================
