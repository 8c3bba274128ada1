---------------------------- MODULE MCScheduler ----------------------------
(* Scheduler for TLC: oids and task objects are interchangeable. *)
EXTENDS Scheduler, TLC

Symmetric == Permutations(Oids) \cup Permutations(Cells)
=============================================================================
