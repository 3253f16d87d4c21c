------------------------------ MODULE MCRingBuf ------------------------------
(* RingBuf for TLC. *)
EXTENDS RingBuf, TLC

Symmetry == Permutations(Threads)
=============================================================================
