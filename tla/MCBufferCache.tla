--------------------------- MODULE MCBufferCache ---------------------------
(* Small instances of BufferCache. *)
EXTENDS BufferCache

CONSTANTS p1, p2

AllProc == {p1, p2, kbdflushd}
AllChan == {"buffer_wait", "get_free_buffer", "sync_resource", "kbdflushd"} \cup AllProc

Users(u) == [users |-> u, syncers |-> {}, selectors |-> {}, flusher |-> FALSE,
             refuses |-> FALSE, fails |-> FALSE,
             pool |-> CHOOSE l \in Arrangements(Buffer) : TRUE]

Rivals == Users({p1, p2})
Scarce == [Rivals EXCEPT !.pool = <<Head(@)>>]
Flusher == [Users({p1}) EXCEPT !.flusher = TRUE, !.refuses = TRUE]
Syncer == [Users({p1}) EXCEPT !.syncers = {p2}, !.flusher = TRUE]
Journal == [Users({p1}) EXCEPT !.syncers = {p1}, !.selectors = {p1}]
Errors == [Users({p1}) EXCEPT !.syncers = {p1}, !.refuses = TRUE, !.fails = TRUE]

\* Two processes that compete for two buffers, or for one; one with kbdflushd,
\* on a drive that may refuse; one with kbdflushd and another that calls
\* sync(); the journal; and one on a drive with all errors.
Apart == {Rivals, Scarce, Flusher, Syncer, Journal, Errors}

\* They are all such that the cache is coherent.
ASSUME ApartIsCareful == \A e \in Apart : Careful(e)

\* A process that runs the journal's barrier, and another.
Barrier == {[Users({p1, p2}) EXCEPT !.selectors = {p1}]}
=============================================================================
