---------------------------- MODULE MCResource ----------------------------
(* Small instances of Resource. *)
EXTENDS Resource, TLC

Symmetry == Permutations(Proc)
=============================================================================
