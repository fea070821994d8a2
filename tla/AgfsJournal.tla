---------------------------- MODULE AgfsJournal ----------------------------
(***************************************************************************)
(* The AGFS journal: transactions, the group commit with its three-phase   *)
(* barrier, the wrap of the log, the drain of agfs_write_superblock(),     *)
(* sync(), crashes at any block write, and the replay of the next mount.   *)
(*                                                                         *)
(* disk is what a crash leaves, cache the buffer cache over it, dirty the  *)
(* dirty list, which is written in order.  A block is                      *)
(*   a metadata block   <<"meta", t>>  as transaction t left it            *)
(*   a log block        <<"zero">>, <<"runs", s>> (a run array for the     *)
(*                      blocks of s), or a copy of a metadata block        *)
(*   the superblock     <<"super", log_start, log_end>>                    *)
(* The free-space bitmap, which travels with the superblock, is left out,  *)
(* and so are I/O errors.  A metadata write changes the cached block in    *)
(* place; inside a transaction it does not make the buffer dirty.          *)
(***************************************************************************)
EXTENDS ListOps

CONSTANTS Proc, Block,
          SB,              \* block 0, the superblock
          LOG_LEN,         \* the length of the log, in blocks
          LOG_MAX_BLOCKS,  \* AGFS_LOG_MAX_BLOCKS
          LOG_BATCH,       \* AGFS_LOG_BATCH_BLOCKS
          Envs             \* the environments, see env

ASSUME Sizes == {LOG_LEN, LOG_MAX_BLOCKS, LOG_BATCH} \subseteq Nat
ASSUME FiniteProc == IsFiniteSet(Proc)

VARIABLES disk, cache, dirty,
          j,               \* the journal's part of struct agfs_sb_info
          sb_dirty,        \* SUPERBLOCK_DIRTY
          pc,
          after,           \* where each process goes when its commit is done
          ret,             \* where it goes when the barrier is done
          up,              \* "up", "replay", "down" or "refused"
          pos,             \* how far the barrier's phase A, or the replay, is
          txno,            \* the transactions started so far
          crashes,
          hist,            \* the committed states since the last sync()
          env              \* chosen at the start: the processes, those of them that
                           \* call sync(), how many transactions are started, how
                           \* often the machine crashes, in how many lives there are
                           \* transactions, and if kbdflushd writes blocks on its own

vars == <<disk, cache, dirty, j, sb_dirty, pc, after, ret, up, pos, txno, crashes, hist, env>>

buffers == <<disk, cache, dirty>>
machine == <<up, crashes, env>>

LogPos == 0 .. LOG_LEN - 1
Addr == {SB} \cup LogPos \cup Block

ASSUME Layout == /\ SB \notin LogPos \cup Block /\ Block \cap LogPos = {}
                 /\ IsFiniteSet(Block)

Zero == <<"zero">>
Meta(t) == <<"meta", t>>
Runs(s) == <<"runs", s>>
Super(start, end) == <<"super", start, end>>

Idle == [start |-> 0, end |-> 0, pending |-> FALSE, pend_blocks |-> 0,
         depth |-> 0, tx |-> <<>>, poisoned |-> FALSE, locked |-> FALSE]

(* "op"     in a transaction            "room"    agfs_log_commit(), lock held
   "A" "B" "C"  in the barrier          "wrap"    writing the empty log out
   "through" "blocks"  writing through  "done"    about to unlock
   "drain" "zero" "super" "clean"  in agfs_write_superblock()
   "inodes" "flush" "flushed" "buffers"      in sync(), after it           *)
PC == {"user", "op", "room", "A", "B", "C", "wrap", "through", "blocks", "done",
       "drain", "zero", "super", "clean", "inodes", "flush", "flushed", "buffers"}

TypeOK == /\ DOMAIN disk = Addr /\ DOMAIN cache = Addr
          /\ dirty \in Seq(Addr) /\ IsInjective(dirty)
          /\ j.start \in 0 .. LOG_LEN /\ j.end \in 0 .. LOG_LEN
          /\ j.pend_blocks \in Nat /\ j.depth \in 0 .. Cardinality(Proc)
          /\ {j.pending, j.poisoned, j.locked, sb_dirty} \subseteq BOOLEAN
          /\ Len(j.tx) <= LOG_MAX_BLOCKS /\ Range(j.tx) \subseteq Block
          /\ pc \in [Proc -> PC]
          /\ up \in {"up", "replay", "down", "refused"}

\* A volume as mkagfs leaves it, mounted.
Init == /\ env \in Envs
        /\ disk = [a \in Addr |-> IF a = SB THEN Super(0, 0)
                                  ELSE IF a \in Block THEN Meta(0) ELSE Zero]
        /\ cache = disk
        /\ dirty = <<>>
        /\ j = Idle
        /\ sb_dirty = TRUE
        /\ pc = [p \in Proc |-> "user"]
        /\ after = [p \in Proc |-> "user"]
        /\ ret = [p \in Proc |-> "user"]
        /\ up = "up" /\ pos = 0 /\ txno = 0 /\ crashes = 0
        /\ hist = <<[b \in Block |-> disk[b]]>>

-----------------------------------------------------------------------------
(* The buffer cache. *)

\* (wrong: a buffer that is on the list loses its place.)
DirtiedTwice(list, s) == list \o s

\* bwrite() of the blocks of the sequence s, one after the other: a buffer that
\* is on the list stays where it is.
Dirtied(list, s) ==
    LET bwrite[i \in 0 .. Len(s)] ==
            IF i = 0 THEN list
            ELSE LET l == bwrite[i - 1] IN IF s[i] \in Range(l) THEN l ELSE Append(l, s[i])
    IN bwrite[Len(s)]

\* One turn of the loop of sync_buffers() or of kbdflushd().
WriteFirst == /\ dirty # <<>>
              /\ disk' = [disk EXCEPT ![Head(dirty)] = cache[Head(dirty)]]
              /\ dirty' = Tail(dirty)

At(p, l) == up = "up" /\ pc[p] = l
Goto(p, l) == pc' = [pc EXCEPT ![p] = l]

-----------------------------------------------------------------------------
(* Replay: agfs_log_replay() as a function of what is on the disk. *)

REFUSED == [b \in Block |-> Meta(-1)]

\* A run array whose data blocks are inside the log.
ValidEntry(d, i) == /\ d[i][1] = "runs"
                    /\ i + 1 + Len(d[i][2]) <= LOG_LEN

\* The metadata m after the entry at log position i of d.
Applied(d, m, i) ==
    [b \in DOMAIN m |-> IF b \in Range(d[i][2])
                          THEN d[i + CHOOSE n \in DOMAIN d[i][2] : d[i][2][n] = b] ELSE m[b]]

\* The walk over the log of d, after n entries: where it is, and the metadata.
Replayed(d) ==
    LET walk[n \in 0 .. LOG_LEN] ==
            IF n = 0 THEN <<d[SB][2], [b \in Block |-> d[b]]>>
            ELSE LET w == walk[n - 1]
                     i == w[1]
                 IN IF i >= d[SB][3] \/ i >= LOG_LEN \/ d[i] = Zero THEN w
                    ELSE IF ~ValidEntry(d, i) THEN <<LOG_LEN, REFUSED>>
                    ELSE <<i + 1 + Len(d[i][2]), Applied(d, w[2], i)>>
    IN walk[LOG_LEN][2]

\* The metadata the next mount finds, if the machine stops now.
Recovered == IF disk[SB][2] = disk[SB][3] THEN [b \in Block |-> disk[b]] ELSE Replayed(disk)

-----------------------------------------------------------------------------
(* Transactions. *)

\* agfs_log_begin(): the outermost takes the lock, any other joins it.
Begin(p) ==
    /\ p \in env.procs /\ (At(p, "user") \/ At(p, "inodes"))
    /\ \/ /\ j.depth = 0 /\ ~j.locked /\ txno < env.MaxTx /\ crashes < env.MaxLives
          /\ j' = [j EXCEPT !.locked = TRUE, !.tx = <<>>, !.depth = 1]
          /\ txno' = txno + 1
       \/ /\ j.depth > 0
          /\ j' = [j EXCEPT !.depth = @ + 1]
          /\ UNCHANGED txno
    /\ Goto(p, "op") /\ after' = [after EXCEPT ![p] = pc[p]]
    /\ UNCHANGED <<buffers, sb_dirty, ret, pos, machine, hist>>

\* agfs_log_record() of block b: the transaction takes it, or has it already.
Recordable(b) == b \in Range(j.tx) \/ Len(j.tx) < LOG_MAX_BLOCKS

\* agfs_log_write_block(): recorded, or, once the transaction has overflowed,
\* written through with all that it had recorded.
WriteBlock(p, b) ==
    /\ At(p, "op")
    /\ cache' = [cache EXCEPT ![b] = Meta(txno)]
    /\ \/ /\ ~j.poisoned /\ Recordable(b)
          /\ j' = [j EXCEPT !.tx = IF b \in Range(@) THEN @ ELSE Append(@, b)]
          /\ UNCHANGED dirty
       \/ /\ j.poisoned \/ ~Recordable(b)
          /\ j' = [j EXCEPT !.tx = <<>>, !.poisoned = TRUE]
          /\ dirty' = Dirtied(dirty, Append(j.tx, b))
    /\ UNCHANGED <<disk, sb_dirty, pc, after, ret, pos, txno, machine, hist>>

n == Len(j.tx)
Unlocked == [j EXCEPT !.locked = FALSE, !.tx = <<>>, !.poisoned = FALSE]
SuperInto(c, jj) == [c EXCEPT ![SB] = Super(jj.start, jj.end)]

\* agfs_log_commit() of a process that joined.
CommitInner(p) == /\ At(p, "op") /\ j.depth > 1
                  /\ j' = [j EXCEPT !.depth = @ - 1]
                  /\ Goto(p, after[p])
                  /\ UNCHANGED <<buffers, sb_dirty, after, ret, pos, txno, machine, hist>>

\* The outermost one: the transaction is what the cache now holds.
Commit(p) ==
    /\ At(p, "op") /\ j.depth = 1
    /\ hist' = IF n > 0 \/ j.poisoned THEN Append(hist, [b \in Block |-> cache[b]]) ELSE hist
    /\ \/ /\ j.poisoned \/ n = 0
          /\ j' = [Unlocked EXCEPT !.depth = 0]
          /\ Goto(p, after[p])
          /\ UNCHANGED <<cache, dirty, sb_dirty>>
       \/ /\ ~j.poisoned /\ n > 0 /\ n + 1 > LOG_LEN
          /\ j' = [j EXCEPT !.depth = 0]
          /\ cache' = SuperInto(cache, j) /\ dirty' = Dirtied(dirty, <<SB>>)
          /\ sb_dirty' = TRUE
          /\ Goto(p, "through")
       \/ /\ ~j.poisoned /\ n > 0 /\ n + 1 <= LOG_LEN
          /\ j' = [j EXCEPT !.depth = 0]
          /\ Goto(p, "room")
          /\ UNCHANGED <<cache, dirty, sb_dirty>>
    /\ UNCHANGED <<disk, after, ret, pos, txno, machine>>

\* The superblock is out; now the blocks of a transaction larger than the log.
Through(p) == /\ At(p, "through") /\ dirty = <<>>
              /\ dirty' = j.tx
              /\ Goto(p, "blocks")
              /\ UNCHANGED <<disk, cache, j, sb_dirty, after, ret, pos, txno, machine, hist>>

Fits == j.end + n + 1 <= LOG_LEN
BatchFull == j.pending /\ j.pend_blocks + n + 1 > LOG_BATCH

\* The pending batch is closed when the entry would wrap or exceed the cap.
BarrierFirst(p) == /\ At(p, "room") /\ j.pending /\ (~Fits \/ BatchFull)
                   /\ Goto(p, "A") /\ ret' = [ret EXCEPT ![p] = "room"] /\ pos' = j.start
                   /\ UNCHANGED <<buffers, j, sb_dirty, after, txno, machine, hist>>

\* The empty log is written out before an entry lands at its start again.
Wrap(p) == /\ At(p, "room") /\ ~j.pending /\ ~Fits
           /\ j' = [j EXCEPT !.start = 0, !.end = 0]
           /\ cache' = SuperInto(cache, j') /\ dirty' = Dirtied(dirty, <<SB>>)
           /\ sb_dirty' = TRUE
           /\ Goto(p, "wrap")
           /\ UNCHANGED <<disk, after, ret, pos, txno, machine, hist>>

\* The entry goes to the log and the blocks to their places, in the cache.
Enqueue(p) ==
    /\ At(p, "room") /\ Fits /\ ~BatchFull
    /\ cache' = [a \in Addr |-> IF a = j.end THEN Runs(j.tx)
                                ELSE IF a \in j.end + 1 .. j.end + n THEN cache[j.tx[a - j.end]]
                                ELSE cache[a]]
    /\ dirty' = Dirtied(dirty, [i \in 1 .. n + 1 |-> j.end + i - 1] \o j.tx)
    /\ j' = [j EXCEPT !.start = IF j.pending THEN @ ELSE j.end, !.pending = TRUE,
                      !.end = @ + n + 1, !.pend_blocks = @ + n + 1]
    /\ IF j'.pend_blocks >= LOG_BATCH
         THEN Goto(p, "A") /\ ret' = [ret EXCEPT ![p] = "done"] /\ pos' = j'.start
         ELSE Goto(p, "done") /\ UNCHANGED <<ret, pos>>
    /\ UNCHANGED <<disk, sb_dirty, after, txno, machine, hist>>

Done(p) == /\ At(p, "done")
           /\ j' = Unlocked
           /\ Goto(p, after[p])
           /\ UNCHANGED <<buffers, sb_dirty, after, ret, pos, txno, machine, hist>>
-----------------------------------------------------------------------------
(* agfs_log_flush_locked(), the barrier. *)


\* Phase A, one block of the batch at a time: sync_buffers_select().
PhaseA(p) == /\ At(p, "A") /\ pos < j.start + j.pend_blocks /\ pos < LOG_LEN
             /\ disk' = [disk EXCEPT ![pos] = cache[pos]]
             /\ pos' = pos + 1
             /\ UNCHANGED <<cache, dirty, j, sb_dirty, pc, after, ret, txno, machine, hist>>

\* The superblock that publishes the batch is made ...
PhaseB(p) == /\ At(p, "A") /\ ~(pos < j.start + j.pend_blocks /\ pos < LOG_LEN)
             /\ cache' = SuperInto(cache, j) /\ dirty' = Dirtied(dirty, <<SB>>)
             /\ sb_dirty' = TRUE
             /\ Goto(p, "B")
             /\ UNCHANGED <<disk, j, after, ret, pos, txno, machine, hist>>

\* (wrong: the superblock is left to phase C.)
PublishLate(p) == /\ At(p, "B")
                  /\ Goto(p, "C")
                  /\ UNCHANGED <<buffers, j, sb_dirty, after, ret, pos, txno, machine, hist>>

\* ... and written.
Publish(p) == /\ At(p, "B")
              /\ disk' = [disk EXCEPT ![SB] = cache[SB]]
              /\ Goto(p, "C")
              /\ UNCHANGED <<cache, dirty, j, sb_dirty, after, ret, pos, txno, machine, hist>>

\* After phase C, the full sync_buffers().
BarrierDone(p) == /\ At(p, "C") /\ dirty = <<>>
                  /\ j' = [j EXCEPT !.pending = FALSE, !.pend_blocks = 0]
                  /\ Goto(p, ret[p])
                  /\ UNCHANGED <<buffers, sb_dirty, after, ret, pos, txno, machine, hist>>

\* sync_buffers(), wherever it is called, writes the dirty list ...
SyncBuffers(p) == /\ up = "up" /\ pc[p] \in {"C", "wrap", "through", "blocks", "clean", "buffers"}
                  /\ WriteFirst
                  /\ UNCHANGED <<cache, j, sb_dirty, pc, after, ret, pos, txno, machine, hist>>

\* ... and returns to the commit when it is empty.
CommitSynced(p) == /\ At(p, "wrap") \/ At(p, "blocks")
                   /\ dirty = <<>>
                   /\ Goto(p, IF pc[p] = "wrap" THEN "room" ELSE "done")
                   /\ UNCHANGED <<buffers, j, sb_dirty, after, ret, pos, txno, machine, hist>>

\* (wrong: agfs_log_flush() without the lock.)
FlushUnlocked(p, l) == /\ j.pending
                       /\ j' = [j EXCEPT !.locked = TRUE]
                       /\ Goto(p, "A") /\ ret' = [ret EXCEPT ![p] = l] /\ pos' = j.start

\* agfs_log_flush(): lock, barrier if there is a batch, unlock (at l).
FlushBatch(p, l) == /\ j.pending /\ ~j.locked
                    /\ j' = [j EXCEPT !.locked = TRUE]
                    /\ Goto(p, "A") /\ ret' = [ret EXCEPT ![p] = l] /\ pos' = j.start

-----------------------------------------------------------------------------
(* sync(): sync_superblocks(), sync_inodes(), agfs_flush_all() and
   sync_buffers(). *)

Sync(p) == /\ At(p, "user") /\ p \in env.syncers
           /\ Goto(p, IF sb_dirty THEN "drain" ELSE "inodes")
           /\ UNCHANGED <<buffers, j, sb_dirty, after, ret, pos, txno, machine, hist>>

\* p is in agfs_write_superblock(), with the superblock lock.
HasSuper(p) == pc[p] \in {"zero", "super", "clean"} \/ (pc[p] \in {"A", "B", "C"} /\ ret[p] = "zero")

\* agfs_write_superblock() closes the batch first, if there is one (between
\* the unlock of agfs_log_flush() and the lock of the drain nobody else runs) ...
DrainFlush(p) == /\ At(p, "drain") /\ \A q \in Proc : ~HasSuper(q)
                 /\ \/ FlushBatch(p, "zero")
                    \/ /\ ~j.pending /\ ~j.locked
                       /\ j' = [j EXCEPT !.locked = TRUE]
                       /\ Goto(p, "zero") /\ UNCHANGED <<ret, pos>>
                 /\ UNCHANGED <<buffers, sb_dirty, after, txno, machine, hist>>

\* ... then, with the lock, empties the log ...
DrainZero(p) == /\ At(p, "zero")
                /\ cache' = [a \in Addr |-> IF a \in LogPos THEN Zero ELSE cache[a]]
                /\ dirty' = Dirtied(dirty, [i \in 1 .. LOG_LEN |-> i - 1])
                /\ j' = [j EXCEPT !.start = 0, !.end = 0, !.locked = FALSE]
                /\ Goto(p, "super")
                /\ UNCHANGED <<disk, sb_dirty, after, ret, pos, txno, machine, hist>>

\* ... and, without it, writes the superblock and everything else.
DrainSuper(p) == /\ At(p, "super")
                 /\ cache' = SuperInto(cache, j) /\ dirty' = Dirtied(dirty, <<SB>>)
                 /\ Goto(p, "clean")
                 /\ UNCHANGED <<disk, j, sb_dirty, after, ret, pos, txno, machine, hist>>

DrainClean(p) == /\ At(p, "clean") /\ dirty = <<>>
                 /\ sb_dirty' = FALSE
                 /\ Goto(p, "inodes")
                 /\ UNCHANGED <<buffers, j, after, ret, pos, txno, machine, hist>>

\* sync_inodes() has no more inode to write (each is a transaction, see Begin).
InodesSynced(p) == /\ At(p, "inodes")
                   /\ Goto(p, "flush")
                   /\ UNCHANGED <<buffers, j, sb_dirty, after, ret, pos, txno, machine, hist>>

FlushAll(p) == /\ At(p, "flush")
               /\ \/ FlushBatch(p, "flushed")
                  \/ ~j.pending /\ Goto(p, "buffers") /\ UNCHANGED <<j, ret, pos>>
               /\ UNCHANGED <<buffers, sb_dirty, after, txno, machine, hist>>

Flushed(p) == /\ At(p, "flushed")
              /\ j' = [j EXCEPT !.locked = FALSE]
              /\ Goto(p, "buffers")
              /\ UNCHANGED <<buffers, sb_dirty, after, ret, pos, txno, machine, hist>>

\* The metadata as of the last committed transaction.
Latest == hist[Len(hist)]

\* sync() returns.  Transactions still under way are not its business.
SyncReturns(p) == /\ At(p, "buffers") /\ dirty = <<>>
                  /\ Goto(p, "user")
                  /\ hist' = IF j.locked THEN hist ELSE <<Latest>>
                  /\ UNCHANGED <<buffers, j, sb_dirty, after, ret, pos, txno, machine>>

-----------------------------------------------------------------------------
(* The rest of the machine. *)

\* kbdflushd() writes a block out.  It is left out while the barrier runs, where
\* it can meet a buffer that phase A or B has cleaned but left on the list.
WritesBack == /\ env.WriteBack /\ up = "up" /\ \A p \in Proc : pc[p] \notin {"A", "B", "C"}
              /\ WriteFirst
              /\ UNCHANGED <<cache, j, sb_dirty, pc, after, ret, pos, txno, machine, hist>>

Crash == /\ up \in {"up", "replay"} /\ crashes < env.MaxCrashes
         /\ up' = "down" /\ crashes' = crashes + 1
         /\ cache' = disk /\ dirty' = <<>>
         /\ j' = Idle /\ sb_dirty' = FALSE /\ pos' = 0
         /\ pc' = [p \in Proc |-> "user"] /\ after' = pc' /\ ret' = pc'
         /\ hist' = <<Recovered>>
         /\ UNCHANGED <<disk, txno, env>>

\* agfs_read_superblock(): the log may be empty.
Mount == /\ up = "down"
         /\ j' = [Idle EXCEPT !.start = disk[SB][2], !.end = disk[SB][3]]
         /\ pos' = disk[SB][2]
         /\ up' = IF j'.start = j'.end \/ pos' >= LOG_LEN THEN "up" ELSE "replay"
         /\ sb_dirty' = TRUE
         /\ UNCHANGED <<buffers, pc, after, ret, txno, crashes, hist, env>>


Walking == pos < j.end /\ pos < LOG_LEN /\ cache[pos] # Zero

\* One entry of agfs_log_replay(); a bad one refuses the mount.
ReplayEntry == /\ up = "replay" /\ Walking
               /\ \/ /\ ValidEntry(cache, pos)
                     /\ cache' = [a \in Addr |-> IF a \in Block
                                                   THEN Applied(cache, cache, pos)[a] ELSE cache[a]]
                     /\ dirty' = Dirtied(dirty, cache[pos][2])
                     /\ pos' = pos + 1 + Len(cache[pos][2])
                     /\ UNCHANGED up
                  \/ /\ ~ValidEntry(cache, pos)
                     /\ up' = "refused"
                     /\ UNCHANGED <<cache, dirty, pos>>
               /\ UNCHANGED <<disk, j, sb_dirty, pc, after, ret, txno, crashes, hist, env>>

ReplaySync == /\ up = "replay" /\ ~Walking
              /\ WriteFirst
              /\ UNCHANGED <<cache, j, sb_dirty, pc, after, ret, pos, txno, machine, hist>>

\* The log is cleared, in memory; the superblock is left to a later sync().
ReplayDone == /\ up = "replay" /\ ~Walking /\ dirty = <<>>
              /\ j' = [j EXCEPT !.start = 0, !.end = 0]
              /\ up' = "up"
              /\ UNCHANGED <<buffers, sb_dirty, pc, after, ret, pos, txno, crashes, hist, env>>

CommitStep(p) == \/ CommitInner(p) \/ Commit(p) \/ Through(p) \/ BarrierFirst(p)
                 \/ Wrap(p) \/ Enqueue(p) \/ Done(p) \/ CommitSynced(p)

BarrierStep(p) == PhaseA(p) \/ PhaseB(p) \/ Publish(p) \/ BarrierDone(p) \/ SyncBuffers(p)

SyncStep(p) == \/ DrainFlush(p) \/ DrainZero(p) \/ DrainSuper(p)
               \/ DrainClean(p) \/ InodesSynced(p) \/ FlushAll(p) \/ Flushed(p) \/ SyncReturns(p)

Next == \/ \E p \in Proc : \/ Begin(p) \/ Sync(p)
                           \/ \E b \in Block : WriteBlock(p, b)
                           \/ CommitStep(p) \/ BarrierStep(p) \/ SyncStep(p)
        \/ WritesBack \/ Crash \/ Mount \/ ReplayEntry \/ ReplaySync \/ ReplayDone

Spec == Init /\ [][Next]_vars

-----------------------------------------------------------------------------
(* Properties. *)

\* p is in a commit, a barrier or the drain, with the lock.
InJournal(p) == pc[p] \in {"room", "A", "B", "C", "wrap", "through", "blocks", "done",
                           "zero", "flushed"}

\* The journal lock is taken by the process that opens a transaction and
\* given back by the one that closes it, which may be another.  Whatever the
\* joins: one process at most is in a commit, a barrier or the drain; no
\* transaction is open then; and the lock is held exactly while there is one
\* or the other (tx_depth counts the processes inside).
JournalOwned == /\ j.depth = Cardinality({p \in Proc : pc[p] = "op"})
                /\ \A p, q \in Proc : InJournal(p) /\ InJournal(q) => p = q
                /\ (\E p \in Proc : InJournal(p)) => j.depth = 0
                /\ j.locked <=> (j.depth > 0 \/ \E p \in Proc : InJournal(p))


\* The journal is an atomic store: whatever block write a crash cuts off, the
\* next mount finds the metadata as some committed transaction left it, not
\* older than the last completed sync(), and a crash during the replay
\* changes nothing.
Store == INSTANCE AtomicStore WITH
             Content <- {Meta(t) : t \in UNION {0 .. e.MaxTx : e \in Envs}},
             store <- Latest, saved <- Range(hist)

ImplementsStore == Store!Spec

=============================================================================
