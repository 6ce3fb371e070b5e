---------------------------- MODULE MCScheduler ----------------------------
(* The instance of Scheduler for TLC: two runs and one restart, enough for *)
(* a trigger that meets a live, a stale, a timed out, a flagged and a      *)
(* crashed predecessor.                                                    *)
EXTENDS Scheduler
============================================================================
