------------------------------ MODULE MCPipe ------------------------------
(* Small instances of Pipe. *)
EXTENDS Pipe, TLC

CONSTANTS r1, r2, r3, w1, w2, w3, s1

AllProc == Reader \cup Writer \cup Poller

\* Only the bytes of w3 are told apart.
SomeLabels == [w \in Writer |-> IF w = w3 THEN PIPE_BUF + 1 ELSE 1]

Plain(ps) == [procs |-> ps, nonblock |-> {}, counts |-> {1, PIPE_BUF}, faults |-> FALSE,
              fifo |-> FALSE, reopen |-> FALSE]

\* Two readers and two writers; one of each and a poller, with all the rest;
\* a FIFO.
Crowd == Plain({r1, r2, w1, w2})
Single == [Plain({r3, w3, s1}) EXCEPT !.nonblock = {r3, w3}, !.counts = 1 .. PIPE_BUF, !.faults = TRUE]
Fifo == [Plain({r3, w3}) EXCEPT !.nonblock = {r3, w3}, !.fifo = TRUE]
All == {Crowd, Single, Fifo}

\* The instances are ones for which module PipeProofs proves the properties.
ASSUME \A e \in All : Orderly(e)

OnlySingle == {[Plain({r3, w3}) EXCEPT !.counts = {2, PIPE_BUF}]}

Symmetry == Permutations({r1, r2}) \cup Permutations({w1, w2})
=============================================================================
