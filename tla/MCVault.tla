------------------------------ MODULE MCVault -------------------------------
(* Two paths: enough for a move and for an upload whose name is taken.     *)
EXTENDS VersionStore

\* An upload to "a" falls back to "b".
MCCandidates == <<"a", "b">>
=============================================================================
