------------------------------ MODULE MCSched ------------------------------
(* Small instances of Sched. *)
EXTENDS Sched, TLC

Ordinary == {<<"OTHER", 0>>}
RoundRobin == {<<"OTHER", 0>>, <<"RR", 1>>}
RealTime == {<<"OTHER", 0>>, <<"FIFO", 1>>, <<"RR", 1>>}
Symmetry == Permutations(Proc)
=============================================================================
