------------------------------- MODULE ListOps -------------------------------
(***************************************************************************)
(* The kernel's linked lists as sequences.  Their elements are Range(s) of *)
(* module Functions, and IsInjective(s) says that nothing is on s twice.   *)
(* SequencesExt has the two operators below as well, but it also brings    *)
(* Bags and TLC into the context of every proof about a list.              *)
(***************************************************************************)
EXTENDS Integers, Sequences, FiniteSets, Functions

\* s without its i-th element.
RemoveAt(s, i) == SubSeq(s, 1, i - 1) \o SubSeq(s, i + 1, Len(s))

\* The lists that have each element of the finite set S once.
Arrangements(S) == Injection(1 .. Cardinality(S), S)
=============================================================================
