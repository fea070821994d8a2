----------------------------- MODULE BlkQueue -----------------------------
(***************************************************************************)
(* The request queue of a block device (drivers/block/blk_queue.c) and the *)
(* interrupt side of the ATA driver that serves it.  A request is the      *)
(* process that waits for it, what it asks for and whether the driver has  *)
(* started it; one that is completed is off the queue.                     *)
(*                                                                         *)
(* fn() answers 0 when the drive has taken the command and an interrupt    *)
(* will tell the end, or an error when the drive is not ready.  A transfer *)
(* that takes several interrupts is one, and so is one that the timeout    *)
(* ends.  Groups of requests (gbread()) are left out.                      *)
(***************************************************************************)
EXTENDS Integers, Sequences

\* The struct blk_request of do_blk_request().
Request(p, op, b) == [proc |-> p, op |-> op, buffer |-> b, started |-> FALSE]

add_blk_request(queue, br) == Append(queue, br)

\* How many requests fn() may refuse before it takes one.
Refusals(queue, refuses) ==
    IF refuses /\ queue # <<>> /\ ~Head(queue).started THEN 0 .. Len(queue) ELSE {0}

\* run_blk_request(): m requests are refused and completed, the next started.
run_blk_request(queue, m) ==
    [i \in 1 .. Len(queue) - m |->
        IF i = 1 THEN [queue[m + 1] EXCEPT !.started = TRUE] ELSE queue[i + m]]

\* (wrong: the interrupts are on again whatever run_blk_request() did.)
FlagsAlwaysRestored(queue) == TRUE

\* RESTORE_FLAGS() is reached only once the queue is empty: while a request is
\* with the drive, run_blk_request() returns with the interrupts off.
FlagsRestored(queue) == queue = <<>>

\* The processes whose requests are the first m.
Owners(queue, m) == {queue[i].proc : i \in 1 .. m}

\* ata_end_request() of the request at the head: the next one is started,
\* unless this one failed.
ata_end_request(queue, ok, m) == IF ok THEN run_blk_request(Tail(queue), m) ELSE Tail(queue)
=============================================================================
