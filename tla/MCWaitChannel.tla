---------------------------- MODULE MCWaitChannel ----------------------------
(* Bounds for TLC.  Two processes, that share a channel or wait on different
   ones; two channels, so that a wake can be for the wrong one. *)
EXTENDS WaitChannel, TLC

Symmetry == Permutations(Proc) \cup Permutations(Chan)
=============================================================================
