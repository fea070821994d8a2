---------------------------- MODULE BufferCache ----------------------------
(***************************************************************************)
(* The buffer cache of fs/buffer.c over the request queue of BlkQueue:     *)
(* getblk(), bread(), bwrite(), brelse(), sync_buffers(),                  *)
(* sync_buffers_select() and kbdflushd().                                  *)
(*                                                                         *)
(* One device, one block size, and a pool that has stopped growing.  A     *)
(* process keeps the CPU from one sleep() to the next, which is one step;  *)
(* only do_blk_request() is cut in two, between the test of the status and *)
(* the sleep() that follows it, where an interrupt may come: falling is    *)
(* then the process in between, and intr says if interrupts are on.  cpu   *)
(* is the process that goes on from one step of ours to its next.          *)
(*                                                                         *)
(* Contents are told apart by being the last that were written to their    *)
(* block or not: c.current has the buffers that hold these, disk the       *)
(* blocks for which the disk does.                                         *)
(*                                                                         *)
(* env, chosen at the start, says which buffers there are, in the order of *)
(* the free list, and who does what: the users, those that call sync(),    *)
(* those that run the barrier of the journal, whether kbdflushd runs,      *)
(* whether the drive may refuse a command and whether a transfer it has    *)
(* begun may fail.                                                         *)
(***************************************************************************)
EXTENDS SleepOps, BlkQueue, ListOps

CONSTANTS Buffer, Block,
          kbdflushd,          \* the process of kbdflushd()
          Envs,               \* the environments
          MaxDirty,           \* kstat.max_dirty_buffers
          NR_BUF_RECLAIM

ASSUME Sizes == /\ kbdflushd \in Proc /\ NULL \notin Buffer \cup Block
                /\ MaxDirty \in Nat /\ NR_BUF_RECLAIM \in Nat \ {0}
                /\ \A e \in Envs : e.pool \in Seq(Buffer) /\ IsInjective(e.pool)
ASSUME Channels == /\ Chan = {"buffer_wait", "get_free_buffer", "sync_resource", "kbdflushd"} \cup Proc
                   /\ Proc \cap {"buffer_wait", "get_free_buffer", "sync_resource", "kbdflushd"} = {}

VARIABLES k,                  \* the processes (see SleepOps)
          c,                  \* the buffers: their fields, flags and lists
          queue, res,         \* the requests, and how each process's ended
          disk,               \* the blocks whose last contents are on the disk
          pc,
          want, mine,         \* the block and the buffer of each process
          lock,               \* the holder of sync_resource, or NULL
          flushed, first,     \* the locals of the two flush loops
          cpu, falling, intr,
          owed,               \* the blocks a sync() owes to its caller
          env

vars == <<k, c, queue, res, disk, pc, want, mine, lock, flushed, first, cpu, falling, intr, owed, env>>

blk == <<queue, res, disk>>
turn == <<cpu, falling, intr>>
flush == <<lock, flushed, first>>
ghost == <<owed, env>>

(* "getblk"  its loop head                "getfree" in get_free_buffer()
   "evict"   writing a dirty free buffer  "read"    reading the block
   "hold"    bread() has returned         "select"  in sync_buffers_select()
   "lock" "dirty" "write"     in sync_buffers()
   "klock" "kdirty" "kwrite"  in kbdflushd(), "ksleep" at its head         *)
PC == {"user", "getblk", "getfree", "evict", "read", "hold", "select",
       "lock", "dirty", "write", "ksleep", "klock", "kdirty", "kwrite"}

TypeOK == /\ k \in KType
          /\ c \in [block : [Buffer -> Block \cup {NULL}], current : SUBSET Buffer,
                    VALID : SUBSET Buffer, LOCKED : SUBSET Buffer, DIRTY : SUBSET Buffer,
                    free : Seq(Buffer), dirty : Seq(Buffer)]
          /\ IsInjective(c.free) /\ IsInjective(c.dirty)
          /\ queue \in Seq([proc : Proc, op : {"read_block", "write_block"}, buffer : Buffer,
                            started : BOOLEAN])
          /\ res \in [Proc -> {"none", "ok", "err"}]
          /\ disk \subseteq Block
          /\ pc \in [Proc -> PC]
          /\ want \in [Proc -> Block \cup {NULL}]
          /\ mine \in [Proc -> Buffer \cup {NULL}]
          /\ lock \in Proc \cup {NULL} /\ cpu \in Proc \cup {NULL}
          /\ flushed \in [Proc -> Nat]
          /\ first \in Buffer \cup {NULL}
          /\ falling \in Proc \cup {NULL} /\ intr \in BOOLEAN
          /\ owed \in [Proc -> SUBSET Block]

\* A pool of buffers nobody has used.
Init == /\ env \in Envs
        /\ k = KInit
        /\ c = [block |-> [b \in Buffer |-> NULL], current |-> {}, VALID |-> {}, LOCKED |-> {},
                DIRTY |-> {}, free |-> env.pool, dirty |-> <<>>]
        /\ queue = <<>>
        /\ res = [p \in Proc |-> "none"]
        /\ disk = Block
        /\ pc = [p \in Proc |-> IF p = kbdflushd THEN "ksleep" ELSE "user"]
        /\ want = [p \in Proc |-> NULL] /\ mine = [p \in Proc |-> NULL]
        /\ lock = NULL
        /\ flushed = [p \in Proc |-> 0] /\ first = NULL
        /\ cpu = NULL /\ falling = NULL /\ intr = TRUE
        /\ owed = [p \in Proc |-> {}]

-----------------------------------------------------------------------------
(* The lists. *)

\* (wrong: it may be on the list already.)
AppendedAgain(s, b) == Append(s, b)

Appended(s, b) == IF b \in Range(s) THEN s ELSE Append(s, b)

\* The list without b, which is on it once or not at all.
Unlinked(s, b) == IF b \in Range(s) THEN RemoveAt(s, CHOOSE i \in DOMAIN s : s[i] = b) ELSE s

insert_on_dirty_list(cc, b) == [cc EXCEPT !.dirty = Appended(@, b)]
remove_from_dirty_list(cc, b) == [cc EXCEPT !.dirty = Unlinked(@, b)]

\* One that is not valid goes to the front.
insert_on_free_list(cc, b) ==
    [cc EXCEPT !.free = IF b \in cc.VALID THEN Append(@, b) ELSE <<b>> \o @]

Locked(cc, b) == [cc EXCEPT !.LOCKED = @ \cup {b}]
Unlocked(cc, b) == [cc EXCEPT !.LOCKED = @ \ {b}]
Cleaned(cc, b) == [cc EXCEPT !.DIRTY = @ \ {b}]

brelse(cc, b) ==
    Unlocked(insert_on_free_list(IF b \in cc.DIRTY THEN insert_on_dirty_list(cc, b) ELSE cc, b), b)

\* insert_on_dirty_list() wakes kbdflushd when there are too many.
WakeFlusher(kk, cc) == IF Len(cc.dirty) > MaxDirty THEN wakeup(kk, "kbdflushd") ELSE kk

\* (wrong: those who wait for this buffer are left asleep.)
brelse_wakes_free(kk, cc) == WakeFlusher(wakeup(kk, "get_free_buffer"), cc)

brelse_wakes(kk, cc) == WakeFlusher(wakeup(wakeup(kk, "get_free_buffer"), "buffer_wait"), cc)

\* search_buffer_hash().
Found(b) == {x \in Buffer : c.block[x] = b}

-----------------------------------------------------------------------------
(* Processes and requests. *)

\* p is at l and it is its turn.
At(p, l) == pc[p] = l /\ k.state[p] = "RUNNING" /\ cpu \in {NULL, p} /\ falling = NULL

Goto(p, l) == pc' = [pc EXCEPT ![p] = l]
LeavesCPU == cpu' = NULL /\ intr' = TRUE /\ UNCHANGED falling
KeepsCPU(p) == cpu' = p /\ UNCHANGED <<intr, falling>>

Sleeps(p, a) == k' = sleep(k, p, a, FALSE) /\ LeavesCPU

\* The first m requests of q have ended with r, and their processes are woken.
Ended(q, m, r) == [p \in Proc |-> IF p \in Owners(q, m) THEN r ELSE res[p]]
Woken(kk, q, m) ==
    LET up == {p \in Owners(q, m) : kk.sleep_address[p] = p}
    IN [state |-> [p \in Proc |-> IF p \in up THEN "RUNNING" ELSE kk.state[p]],
        sleep_address |-> [p \in Proc |-> IF p \in up THEN NULL ELSE kk.sleep_address[p]],
        notint |-> kk.notint \ up]

\* do_blk_request() up to its test: p, now at l, goes on or is about to sleep.
do_blk_request(p, op, b, l) ==
    LET q == add_blk_request(queue, Request(p, op, b)) IN
    \E m \in Refusals(q, env.refuses) :
        /\ queue' = run_blk_request(q, m)
        /\ res' = [Ended(q, m, "err") EXCEPT ![p] = IF p \in Owners(q, m) THEN "err" ELSE "none"]
        /\ k' = Woken(k, q, m)
        /\ Goto(p, l) /\ cpu' = p
        /\ falling' = IF res'[p] = "none" THEN p ELSE NULL
        /\ intr' = (intr /\ FlagsRestored(queue'))
        /\ UNCHANGED disk

\* The sleep() of do_blk_request().
FallsAsleep(p) == /\ falling = p
                  /\ k' = sleep(k, p, p, FALSE)
                  /\ falling' = NULL /\ cpu' = NULL /\ intr' = TRUE
                  /\ UNCHANGED <<c, blk, pc, want, mine, flush, ghost>>

\* The set S with x in it, or not.
Put(S, x, in) == IF in THEN S \cup {x} ELSE S \ {x}

\* kfree() of the request of p, which has seen how it ended.
Freed(p) == res' = [res EXCEPT ![p] = "none"] /\ UNCHANGED <<queue, disk>>

\* The interrupt at the end of a transfer: ata_end_request().
Interrupt(ok) ==
    LET br == Head(queue) IN
    /\ intr /\ queue # <<>> /\ br.started /\ (ok \/ env.fails)
    /\ disk' = IF ok /\ br.op = "write_block"
                 THEN Put(disk, c.block[br.buffer], br.buffer \in c.current) ELSE disk
    /\ c' = IF ok /\ br.op = "read_block"
              THEN [c EXCEPT !.current = Put(@, br.buffer, c.block[br.buffer] \in disk)] ELSE c
    /\ \E m \in IF ok THEN Refusals(Tail(queue), env.refuses) ELSE {0} :
          /\ queue' = ata_end_request(queue, ok, m)
          /\ res' = [Ended(Tail(queue), m, "err") EXCEPT ![br.proc] = IF ok THEN "ok" ELSE "err"]
          /\ k' = Woken(k, queue, m + 1)
    /\ UNCHANGED <<pc, want, mine, flush, turn, ghost>>
-----------------------------------------------------------------------------
(* getblk() and bread(). *)

\* A user asks for a block.
bread(p, b) == /\ At(p, "user") /\ p \in env.users
               /\ want' = [want EXCEPT ![p] = b]
               /\ Goto(p, "getblk") /\ KeepsCPU(p)
               /\ UNCHANGED <<k, c, blk, mine, flush, ghost>>

\* The block is in the cache, and somebody has it.
GetblkWaits(p) == /\ At(p, "getblk") /\ \E b \in Found(want[p]) : b \in c.LOCKED
                  /\ Sleeps(p, "buffer_wait")
                  /\ UNCHANGED <<c, blk, pc, want, mine, flush, ghost>>

\* What bread() does with the buffer b of getblk(), the cache being cc.
Reads(p, b, cc) ==
    /\ c' = cc
    /\ mine' = [mine EXCEPT ![p] = b]
    /\ \/ /\ b \in cc.VALID
          /\ Goto(p, "hold") /\ LeavesCPU /\ UNCHANGED <<k, blk>>
       \/ /\ b \notin cc.VALID
          /\ do_blk_request(p, "read_block", b, "read")

GetblkHits(p) ==
    /\ At(p, "getblk")
    /\ \E b \in Found(want[p]) \ c.LOCKED : Reads(p, b, Locked([c EXCEPT !.free = Unlinked(@, b)], b))
    /\ UNCHANGED <<want, flush, ghost>>

\* p is in the loop of get_free_buffer(); it has not looked for the block since.
InGetFree(p) == At(p, "getfree") \/ (At(p, "getblk") /\ Found(want[p]) = {})

\* No free buffer: sleep on get_free_buffer, and look for the block again.
NoFree(p) == /\ InGetFree(p) /\ c.free = <<>>
             /\ Sleeps(p, "get_free_buffer")
             /\ Goto(p, "getblk")
             /\ UNCHANGED <<c, blk, want, mine, flush, ghost>>

\* The one at the head is being flushed.
FreeIsLocked(p) == /\ InGetFree(p) /\ c.free # <<>> /\ Head(c.free) \in c.LOCKED
                   /\ Sleeps(p, "buffer_wait")
                   /\ Goto(p, "getfree")
                   /\ UNCHANGED <<c, blk, want, mine, flush, ghost>>

Taken == Locked([c EXCEPT !.free = Tail(@)], Head(c.free))

\* A dirty one is written first ...
Evicts(p) == /\ InGetFree(p) /\ c.free # <<>> /\ Head(c.free) \in c.DIRTY \ c.LOCKED
             /\ c' = Taken
             /\ mine' = [mine EXCEPT ![p] = Head(c.free)]
             /\ do_blk_request(p, "write_block", Head(c.free), "evict")
             /\ UNCHANGED <<want, flush, ghost>>

\* (wrong: it stays on the dirty list.)
EvictedListed(p) ==
    /\ At(p, "evict")
    /\ LET b == mine[p] IN
       /\ c' = brelse(IF res[p] = "err" THEN c ELSE Cleaned(c, b), b)
       /\ k' = brelse_wakes(k, c')
    /\ mine' = [mine EXCEPT ![p] = NULL]
    /\ Goto(p, "getblk") /\ KeepsCPU(p) /\ Freed(p)
    /\ UNCHANGED <<want, flush, ghost>>

\* ... and goes back to the list, clean if the write went well.
Evicted(p) ==
    /\ At(p, "evict")
    /\ LET b == mine[p] IN
       /\ c' = brelse(IF res[p] = "err" THEN c ELSE remove_from_dirty_list(Cleaned(c, b), b), b)
       /\ k' = brelse_wakes(k, c')
    /\ mine' = [mine EXCEPT ![p] = NULL]
    /\ Goto(p, "getblk") /\ KeepsCPU(p) /\ Freed(p)
    /\ UNCHANGED <<want, flush, ghost>>

\* It becomes the buffer of the block b: what is in it is another block's.
Renamed(b) == [Taken EXCEPT !.block[Head(c.free)] = b, !.current = @ \ {Head(c.free)}]

\* (wrong: what was in the buffer stays valid.)
TakesValid(p) ==
    /\ InGetFree(p) /\ c.free # <<>> /\ Head(c.free) \notin c.DIRTY \cup c.LOCKED
    /\ Reads(p, Head(c.free), Renamed(want[p]))
    /\ UNCHANGED <<want, flush, ghost>>

\* A clean one becomes the buffer of the wanted block.
Takes(p) ==
    /\ InGetFree(p) /\ c.free # <<>> /\ Head(c.free) \notin c.DIRTY \cup c.LOCKED
    /\ Reads(p, Head(c.free), [Renamed(want[p]) EXCEPT !.VALID = @ \ {Head(c.free)}])
    /\ UNCHANGED <<want, flush, ghost>>

\* The read has ended; if badly, bread() returns NULL.
ReadDone(p) ==
    /\ At(p, "read")
    /\ \/ /\ res[p] = "ok"
          /\ c' = [c EXCEPT !.VALID = @ \cup {mine[p]}]
          /\ Goto(p, "hold") /\ UNCHANGED <<k, want, mine>>
       \/ /\ res[p] # "ok"
          /\ c' = brelse(c, mine[p]) /\ k' = brelse_wakes(k, c')
          /\ Goto(p, "user")
          /\ mine' = [mine EXCEPT ![p] = NULL] /\ want' = [want EXCEPT ![p] = NULL]
    /\ LeavesCPU /\ Freed(p)
    /\ UNCHANGED <<flush, ghost>>

\* The holder changes the block, and bwrite(); or only looks, and brelse().
Releases(p, writes) ==
    /\ At(p, "hold")
    /\ LET b == mine[p]
           B == c.block[b]
           cc == IF writes THEN [c EXCEPT !.current = (@ \ Found(B)) \cup {b},
                                          !.DIRTY = @ \cup {b}, !.VALID = @ \cup {b}]
                 ELSE c
       IN /\ c' = brelse(cc, b)
          /\ k' = brelse_wakes(k, c')
          /\ disk' = IF writes THEN disk \ {B} ELSE disk
          /\ owed' = IF writes THEN [q \in Proc |-> owed[q] \ {B}] ELSE owed
    /\ Goto(p, "user") /\ LeavesCPU
    /\ mine' = [mine EXCEPT ![p] = NULL] /\ want' = [want EXCEPT ![p] = NULL]
    /\ UNCHANGED <<queue, res, flush, env>>

-----------------------------------------------------------------------------
(* sync_buffers() and sync_buffers_select(). *)

\* (wrong: sync_resource is not taken.)
TakeSyncBoth(p, l) == lock' = p /\ Goto(p, l) /\ KeepsCPU(p) /\ UNCHANGED k

\* lock_resource(&sync_resource): to l, or asleep.
TakeSync(p, l) ==
    \/ lock = NULL /\ lock' = p /\ Goto(p, l) /\ KeepsCPU(p) /\ UNCHANGED k
    \/ lock # NULL /\ Sleeps(p, "sync_resource") /\ UNCHANGED <<lock, pc>>

sync_buffers(p) == /\ At(p, "user") /\ p \in env.syncers
                   /\ owed' = [owed EXCEPT ![p] = Block]
                   /\ Goto(p, "lock") /\ KeepsCPU(p)
                   /\ UNCHANGED <<k, c, blk, want, mine, flush, env>>

SyncLocks(p) == /\ At(p, "lock") /\ TakeSync(p, "dirty")
                /\ UNCHANGED <<c, blk, want, mine, flushed, first, ghost>>

\* get_dirty_buffer(), here and in kbdflushd(), waits for the one at the head.
DirtyIsLocked(p) == /\ At(p, "dirty") \/ At(p, "kdirty")
                    /\ c.dirty # <<>> /\ Head(c.dirty) \in c.LOCKED
                    /\ Sleeps(p, "buffer_wait")
                    /\ UNCHANGED <<c, blk, pc, want, mine, flush, ghost>>

FirstDirty == Head(c.dirty)
DirtyFound == c.dirty # <<>> /\ FirstDirty \notin c.LOCKED
\* (wrong: BUFFER_LOCKED is not set.)
DirtyTakenUnlocked == [c EXCEPT !.dirty = Tail(@)]

DirtyTaken == Locked([c EXCEPT !.dirty = Tail(@)], FirstDirty)

SyncWrites(p) == /\ At(p, "dirty") /\ DirtyFound
                 /\ c' = DirtyTaken
                 /\ mine' = [mine EXCEPT ![p] = FirstDirty]
                 /\ do_blk_request(p, "write_block", FirstDirty, "write")
                 /\ UNCHANGED <<want, flush, ghost>>

\* (wrong: one that could not be written stays locked.)
SyncWrittenLocked(p) ==
    /\ At(p, "write")
    /\ LET b == mine[p] IN
       c' = IF res[p] = "err" THEN insert_on_dirty_list(c, b) ELSE Unlocked(Cleaned(c, b), b)
    /\ k' = IF res[p] = "err" THEN WakeFlusher(k, c') ELSE k
    /\ flushed' = IF res[p] = "err" THEN flushed ELSE [flushed EXCEPT ![p] = 1]
    /\ mine' = [mine EXCEPT ![p] = NULL]
    /\ Goto(p, "dirty") /\ KeepsCPU(p) /\ Freed(p)
    /\ UNCHANGED <<want, lock, first, ghost>>

\* Unlocked without a wakeup; one that could not be written is put back.
SyncWritten(p) ==
    /\ At(p, "write")
    /\ LET b == mine[p] IN
       c' = Unlocked(IF res[p] = "err" THEN insert_on_dirty_list(c, b) ELSE Cleaned(c, b), b)
    /\ k' = IF res[p] = "err" THEN WakeFlusher(k, c') ELSE k
    /\ flushed' = IF res[p] = "err" THEN flushed ELSE [flushed EXCEPT ![p] = 1]
    /\ mine' = [mine EXCEPT ![p] = NULL]
    /\ Goto(p, "dirty") /\ KeepsCPU(p) /\ Freed(p)
    /\ UNCHANGED <<want, lock, first, ghost>>

\* The wakeups at the end.
sync_wakes(p) ==
    wakeup(IF flushed[p] > 0 THEN wakeup(k, "buffer_wait") ELSE k, "sync_resource")

SyncDone(p) == /\ At(p, "dirty") /\ c.dirty = <<>>
               /\ k' = sync_wakes(p)
               /\ lock' = NULL
               /\ flushed' = [flushed EXCEPT ![p] = 0] /\ owed' = [owed EXCEPT ![p] = {}]
               /\ Goto(p, "user") /\ LeavesCPU
               /\ UNCHANGED <<c, blk, want, mine, first, env>>

\* The journal's barrier writes a block, whose buffer it does not lock.
sync_buffers_select(p, b) ==
    /\ At(p, "user") /\ p \in env.selectors
    /\ \E x \in Found(b) : /\ x \in c.DIRTY \ c.LOCKED
                           /\ mine' = [mine EXCEPT ![p] = x]
                           /\ want' = [want EXCEPT ![p] = b]
                           /\ do_blk_request(p, "write_block", x, "select")
    /\ UNCHANGED <<c, flush, ghost>>

Selected(p) == /\ At(p, "select")
               /\ c' = IF res[p] = "err" THEN c ELSE Cleaned(c, mine[p])
               /\ mine' = [mine EXCEPT ![p] = NULL] /\ want' = [want EXCEPT ![p] = NULL]
               /\ Goto(p, "user") /\ LeavesCPU /\ Freed(p)
               /\ UNCHANGED <<k, flush, ghost>>

-----------------------------------------------------------------------------
(* kbdflushd(). *)

FlusherSleeps == /\ At(kbdflushd, "ksleep") /\ env.flusher
                 /\ Sleeps(kbdflushd, "kbdflushd")
                 /\ Goto(kbdflushd, "klock")
                 /\ UNCHANGED <<c, blk, want, mine, flush, ghost>>

FlusherLocks == /\ At(kbdflushd, "klock") /\ TakeSync(kbdflushd, "kdirty")
                /\ UNCHANGED <<c, blk, want, mine, flushed, first, ghost>>

\* unlock_resource(), at the end of the round.
FlusherEnds == /\ lock' = NULL /\ first' = NULL
               /\ flushed' = [flushed EXCEPT ![kbdflushd] = 0]
               /\ Goto(kbdflushd, "ksleep") /\ LeavesCPU

\* The list is empty, or the round is back at the first one.
FlusherDone ==
    /\ At(kbdflushd, "kdirty")
    /\ \/ c.dirty = <<>> /\ UNCHANGED c /\ k' = wakeup(k, "sync_resource")
       \/ /\ DirtyFound /\ FirstDirty \in c.DIRTY /\ FirstDirty = first
          /\ c' = Unlocked(insert_on_dirty_list(DirtyTaken, first), first)
          /\ k' = WakeFlusher(wakeup(wakeup(k, "buffer_wait"), "sync_resource"), c')
    /\ FlusherEnds
    /\ UNCHANGED <<blk, want, mine, ghost>>

\* One that is not dirty is warned of, and stays locked and off the list.
FlusherWrites == /\ At(kbdflushd, "kdirty") /\ DirtyFound
                 /\ FirstDirty \in c.DIRTY => FirstDirty # first
                 /\ c' = DirtyTaken
                 /\ IF FirstDirty \in c.DIRTY
                      THEN /\ mine' = [mine EXCEPT ![kbdflushd] = FirstDirty]
                           /\ first' = IF first = NULL THEN FirstDirty ELSE first
                           /\ do_blk_request(kbdflushd, "write_block", FirstDirty, "kwrite")
                      ELSE KeepsCPU(kbdflushd) /\ UNCHANGED <<k, blk, pc, mine, first>>
                 /\ UNCHANGED <<want, lock, flushed, ghost>>

\* After NR_BUF_RECLAIM buffers: enough, or do_sched() and on.
FlusherWritten ==
    /\ At(kbdflushd, "kwrite")
    /\ mine' = [mine EXCEPT ![kbdflushd] = NULL]
    /\ LET b == mine[kbdflushd]
           n == flushed[kbdflushd] + 1
       IN \/ /\ res[kbdflushd] = "err"
             /\ c' = Unlocked(insert_on_dirty_list(c, b), b)
             /\ k' = WakeFlusher(wakeup(k, "buffer_wait"), c')
             /\ Goto(kbdflushd, "kdirty") /\ KeepsCPU(kbdflushd)
             /\ UNCHANGED flush
          \/ /\ res[kbdflushd] # "err"
             /\ c' = Unlocked(Cleaned(c, b), b)
             /\ IF n >= NR_BUF_RECLAIM /\ Len(c.dirty) < MaxDirty
                  THEN k' = wakeup(wakeup(k, "buffer_wait"), "sync_resource") /\ FlusherEnds
                  ELSE /\ k' = wakeup(k, "buffer_wait")
                       /\ flushed' = [flushed EXCEPT ![kbdflushd] = IF n < NR_BUF_RECLAIM THEN n ELSE NR_BUF_RECLAIM]
                       /\ Goto(kbdflushd, "kdirty") /\ UNCHANGED <<lock, first>>
                       /\ IF n >= NR_BUF_RECLAIM THEN LeavesCPU ELSE KeepsCPU(kbdflushd)
    /\ Freed(kbdflushd)
    /\ UNCHANGED <<want, ghost>>

-----------------------------------------------------------------------------
GetblkStep(p) == \/ GetblkWaits(p) \/ GetblkHits(p) \/ NoFree(p) \/ FreeIsLocked(p)
                 \/ Evicts(p) \/ Evicted(p) \/ Takes(p) \/ ReadDone(p)

SyncStep(p) == SyncLocks(p) \/ SyncWrites(p) \/ SyncWritten(p) \/ SyncDone(p) \/ Selected(p)

FlusherStep == FlusherSleeps \/ FlusherLocks \/ FlusherDone \/ FlusherWrites \/ FlusherWritten

\* What a process in the kernel does next.
Step(p) == \/ FallsAsleep(p) \/ DirtyIsLocked(p) \/ GetblkStep(p) \/ SyncStep(p)
           \/ \E w \in BOOLEAN : Releases(p, w)

Next == \/ \E p \in Proc : \/ Step(p) \/ sync_buffers(p)
                           \/ \E b \in Block : bread(p, b) \/ sync_buffers_select(p, b)
        \/ FlusherStep
        \/ \E ok \in BOOLEAN : Interrupt(ok)

Spec == Init /\ [][Next]_vars

\* A process in the kernel gets the CPU again, and the drive answers.
FairSpec == /\ Spec
            /\ \A p \in Proc : SF_vars(Step(p))
            /\ SF_vars(FlusherStep)
            /\ WF_vars(\E ok \in BOOLEAN : Interrupt(ok))

-----------------------------------------------------------------------------
(* Properties. *)

\* The process that has locked b, in getblk() or from the dirty list.
Owns(p, b) == mine[p] = b /\ pc[p] \in {"evict", "read", "hold", "write", "kwrite"}

\* BUFFER_LOCKED excludes: a buffer that a process has got from getblk() or
\* get_dirty_buffer() is locked, and is no other process's, until it unlocks.
OneOwner ==
    \A b \in Buffer : \A p \in Proc : Owns(p, b) =>
        b \in c.LOCKED /\ \A q \in Proc : Owns(q, b) => q = p

\* BUFFER_LOCKED means that somebody will unlock: no path of getblk(), of
\* sync_buffers() or of kbdflushd() leaves a buffer locked behind.
LockedIsOwned == \A b \in c.LOCKED : \E p \in Proc : Owns(p, b)

\* do_blk_request() loses no wakeup: between its test of br->status and its
\* sleep() the interrupts are off (run_blk_request() has left them so), and who
\* sleeps for the end of a transfer has its request in the queue.
NoTransferMissed ==
    /\ falling # NULL => ~intr /\ falling \in Owners(queue, Len(queue))
    /\ \A p \in Proc : k.state[p] = "SLEEPING" /\ k.sleep_address[p] = p =>
           p \in Owners(queue, Len(queue))

\* A buffer is on the free list, once, exactly unless getblk() has taken it;
\* and a buffer that is not locked is on the dirty list exactly when it is
\* dirty, which is what kbdflushd() warns of (the journal's barrier, which
\* leaves its clean buffers there, runs without kbdflushd here).
ListsExact ==
    /\ \A b \in Range(env.pool) : b \in Range(c.free) <=>
          ~\E p \in Proc : mine[p] = b /\ pc[p] \in {"evict", "read", "hold"}
    /\ c.DIRTY \ c.LOCKED \subseteq Range(c.dirty)
    /\ env.flusher => Range(c.dirty) \subseteq c.DIRTY

\* At most one process calls bread().
OneUser(e) == \A p, q \in e.users : p = q

\* Where the cache is coherent: several users have nobody who flushes beside
\* them (get_free_buffer(), woken, does not look for the block again), and the
\* journal's barrier, which does not lock, has the cache and a drive without
\* errors to itself.
Careful(e) ==
    /\ OneUser(e) \/ (e.syncers = {} /\ ~e.flusher)
    /\ e.selectors = {} \/ /\ \A p, q \in e.users \cup e.syncers \cup e.selectors : p = q
                           /\ ~e.flusher /\ ~e.refuses /\ ~e.fails

\* The cache is the disk: bread() returns the buffer of the block that was
\* asked for, with what was last written to it, whatever evictions, flushes
\* and failed transfers there were; and what is not on the disk yet is in a
\* dirty buffer of that block.
Coherent ==
    /\ \A p \in Proc : pc[p] = "hold" =>
          mine[p] \in c.VALID \cap c.current /\ c.block[mine[p]] = want[p]
    /\ \A b \in Block \ disk : Found(b) \cap c.DIRTY \cap c.VALID \cap c.current # {}

\* sync_buffers() returns when everything written before the call is on the
\* disk, also what another flush had taken off the dirty list when it began.
SyncIsDurable ==
    [][\A p \in Proc : pc[p] = "dirty" /\ pc'[p] = "user" =>
           owed[p] \subseteq disk]_vars

\* A process that is not in the kernel, or kbdflushd with nothing to do.
Idle(p) == pc[p] = "user" \/ (p = kbdflushd /\ (~env.flusher \/ k.sleep_address[p] = "kbdflushd"))

\* No more calls, and no more errors of the device.
Calm == <>[][\A p \in Proc : (pc[p] = "user" => pc'[p] = "user") /\ res'[p] # "err"]_vars

\* Every call ends, once no new ones come in its way: no process is left
\* asleep, for a buffer, a free buffer, sync_resource or the end of a transfer,
\* and neither getblk() nor a flush goes round for ever.
EveryCallEnds == Calm => \A p \in Proc : []<>Idle(p)

\* sync_buffers_select() works "leaving every other dirty buffer untouched":
\* it never takes the dirty mark of a buffer of another block.
OthersUntouched ==
    [][\A p \in Proc : pc[p] = "select" /\ pc'[p] = "user" =>
           \A b \in c.DIRTY \ c'.DIRTY : c.block[b] = want[p]]_vars
=============================================================================
