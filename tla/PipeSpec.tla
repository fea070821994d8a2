----------------------------- MODULE PipeSpec -----------------------------
(***************************************************************************)
(* What a pipe promises: the bytes come out in the order in which they     *)
(* went in, each once, and at most PIPE_BUF of them are inside.  A read    *)
(* takes some of the oldest bytes; a write adds some of its own.           *)
(***************************************************************************)
EXTENDS Integers, Sequences

CONSTANTS Writer, PIPE_BUF,
          Labels          \* byte number i of writer p carries i % Labels[p]

VARIABLES q,              \* the bytes in the pipe, oldest first
          out,            \* the bytes the last read returned
          sent            \* how many bytes each writer sent, modulo Labels

Bytes(p, from, n) == [i \in 1 .. n |-> <<p, (from + i - 1) % Labels[p]>>]

Init == q = <<>> /\ out = <<>> /\ sent = [p \in Writer |-> 0]

Put(p, n) == /\ Len(q) + n <= PIPE_BUF
             /\ q' = q \o Bytes(p, sent[p], n)
             /\ sent' = [sent EXCEPT ![p] = (@ + n) % Labels[p]]
             /\ UNCHANGED out

Get(n) == /\ out' = SubSeq(q, 1, n)
          /\ q' = SubSeq(q, n + 1, Len(q))
          /\ UNCHANGED sent

Next == \/ \E p \in Writer, n \in 1 .. PIPE_BUF : Put(p, n)
        \/ \E n \in 1 .. Len(q) : Get(n)

Spec == Init /\ [][Next]_<<q, out, sent>>
=============================================================================
