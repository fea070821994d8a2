--------------------------- MODULE MCAgfsJournal ---------------------------
(* Instances of AgfsJournal for TLC. *)
EXTENDS AgfsJournal, TLC

CONSTANTS p1, p2, p3

Env(ps, ss, tx, cr, li) == [procs |-> ps, syncers |-> ss, MaxTx |-> tx, MaxCrashes |-> cr,
                            MaxLives |-> li, WriteBack |-> FALSE]

\* One process that also calls sync(), and three crashes, in the replay too;
\* two that join each other's transactions.
Atomic == {Env({p3}, {p3}, 4, 3, 1), Env({p1, p2}, {}, 4, 1, 2)}

\* Everything at once: overflow, write-through, wrap, sync(), write-back.
Everything == {[Env({p1, p2}, {p1}, 2, 1, 2) EXCEPT !.WriteBack = TRUE]}

\* Transactions of one process, for a log that wraps.
Wrapping == {Env({p1}, {}, 3, 1, 2)}

Symmetry == Permutations({p1, p2}) \cup Permutations(Block)
=============================================================================
