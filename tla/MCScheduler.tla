---------------------------- MODULE MCScheduler ----------------------------
(* Scheduler for TLC. *)
EXTENDS Scheduler, TLC

Symmetry == Permutations(Workers) \cup Permutations(Fibers \ {Root})
=============================================================================
