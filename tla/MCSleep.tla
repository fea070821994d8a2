------------------------------ MODULE MCSleep ------------------------------
(* Three processes, so that a bucket can lose a middle entry; two channels in
   one bucket, so that a walk passes registrations for the other channel, and
   a third in a bucket of its own, which the walk must leave alone. *)
EXTENDS Sleep, TLC

CONSTANTS b1, b2, c3

Hash == [a \in Chan |-> IF a = c3 THEN b2 ELSE b1]

Symmetry == Permutations(Proc)
=============================================================================
