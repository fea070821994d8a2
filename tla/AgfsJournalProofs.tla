------------------------- MODULE AgfsJournalProofs -------------------------
(***************************************************************************)
(* The journal lock has exactly one reason to be held, for any number of   *)
(* processes, blocks and crashes and any size of the log.                  *)
(***************************************************************************)
EXTENDS AgfsJournal, FiniteSetTheorems, TLAPS

InOp == {p \in Proc : pc[p] = "op"}

JShape == /\ DOMAIN j = {"start", "end", "pending", "pend_blocks", "depth", "tx", "poisoned", "locked"}
          /\ j.depth \in Nat /\ j.locked \in BOOLEAN

\* What the ownership of the lock rests on: a commit returns to where its
\* process began, a barrier returns to somebody who will unlock, and nobody is
\* in the kernel when the machine is down or replays its log.
Shape == /\ JShape
         /\ pc \in [Proc -> PC]
         /\ after \in [Proc -> {"user", "inodes"}]
         /\ ret \in [Proc -> {"user", "room", "done", "zero", "flushed"}]
         /\ \A p \in Proc : pc[p] \in {"A", "B", "C"} => ret[p] # "user"
         /\ up # "up" => \A p \in Proc : pc[p] = "user"

IInv == Shape /\ JournalOwned

USE DEF PC, JShape

\* A process that enters a transaction, or leaves one, changes the number of
\* those inside by one; any other move leaves it as it is.
LEMMA Entering ==
    ASSUME pc \in [Proc -> PC], NEW p \in Proc, pc[p] # "op", pc' = [pc EXCEPT ![p] = "op"]
    PROVE  Cardinality(InOp') = Cardinality(InOp) + 1
<1>1. IsFiniteSet(InOp)
  BY FiniteProc, FS_Subset DEF InOp
<1>2. InOp' = InOp \cup {p} /\ p \notin InOp
  BY DEF InOp
<1>. QED
  BY <1>1, <1>2, FS_AddElement

\* One process leaves an operation.
LEMMA Leaving ==
    ASSUME pc \in [Proc -> PC], NEW p \in Proc, pc[p] = "op", NEW l \in PC \ {"op"},
           pc' = [pc EXCEPT ![p] = l]
    PROVE  Cardinality(InOp') = Cardinality(InOp) - 1
<1>1. IsFiniteSet(InOp)
  BY FiniteProc, FS_Subset DEF InOp
<1>2. InOp' = InOp \ {p} /\ p \in InOp
  BY DEF InOp
<1>. QED
  BY <1>1, <1>2, FS_RemoveElement

\* A process moves without entering or leaving one.
LEMMA Elsewhere ==
    ASSUME pc \in [Proc -> PC], NEW p \in Proc, pc[p] # "op", NEW l \in PC \ {"op"},
           pc' = [pc EXCEPT ![p] = l]
    PROVE  InOp' = InOp
BY DEF InOp

\* With everyone outside, journal_begin() has counted nobody.
LEMMA NobodyIn == ASSUME \A p \in Proc : pc[p] = "user" PROVE Cardinality(InOp) = 0
<1>1. InOp = {}
  BY DEF InOp
<1>. QED
  BY <1>1, FS_EmptySet

-----------------------------------------------------------------------------
(* The four ways in which a process that is in no transaction moves. *)

Inside == {"room", "A", "B", "C", "wrap", "through", "blocks", "done", "zero", "flushed"}
Outside == PC \ (Inside \cup {"op"})

\* The owner of the lock goes on.
LEMMA Within ==
    ASSUME IInv, NEW p \in Proc, pc[p] \in Inside, NEW l \in Inside,
           pc' = [pc EXCEPT ![p] = l], j'.depth = j.depth, j'.locked = j.locked
    PROVE  JournalOwned'
<1>1. InOp' = InOp
  BY Elsewhere DEF IInv, Shape, Inside
<1>. QED
  BY <1>1 DEF IInv, Shape, JournalOwned, InJournal, Inside, InOp

\* The owner unlocks.
LEMMA Unlocks ==
    ASSUME IInv, NEW p \in Proc, pc[p] \in Inside, NEW l \in Outside,
           pc' = [pc EXCEPT ![p] = l], j'.depth = j.depth, j'.locked = FALSE
    PROVE  JournalOwned'
<1>1. InOp' = InOp
  BY Elsewhere DEF IInv, Shape, Inside, Outside
<1>. QED
  BY <1>1 DEF IInv, Shape, JournalOwned, InJournal, Inside, Outside, InOp

\* A process finds the lock free and takes it.
LEMMA Locks ==
    ASSUME IInv, NEW p \in Proc, pc[p] \in Outside, NEW l \in Inside, ~j.locked,
           pc' = [pc EXCEPT ![p] = l], j'.depth = j.depth, j'.locked = TRUE
    PROVE  JournalOwned'
<1>1. InOp' = InOp
  BY Elsewhere DEF IInv, Shape, Inside, Outside
<1>. QED
  BY <1>1 DEF IInv, Shape, JournalOwned, InJournal, Inside, Outside, InOp

\* A process that has not got the lock goes on.
LEMMA Without ==
    ASSUME IInv, NEW p \in Proc, pc[p] \in Outside, NEW l \in Outside,
           pc' = [pc EXCEPT ![p] = l], j'.depth = j.depth, j'.locked = j.locked
    PROVE  JournalOwned'
<1>1. InOp' = InOp
  BY Elsewhere DEF IInv, Shape, Inside, Outside
<1>. QED
  BY <1>1 DEF IInv, Shape, JournalOwned, InJournal, Inside, Outside, InOp

\* Nobody moves.
LEMMA Still ==
    ASSUME IInv, pc' = pc, j'.depth = j.depth, j'.locked = j.locked
    PROVE  JournalOwned'
BY DEF IInv, JournalOwned, InJournal

\* Nobody is in the kernel.
LEMMA Empty ==
    ASSUME pc' = [p \in Proc |-> "user"], j'.depth = 0, j'.locked = FALSE
    PROVE  JournalOwned'
<1>1. InOp' = {}
  BY DEF InOp
<1>. QED
  BY <1>1, FS_EmptySet DEF JournalOwned, InJournal, InOp

-----------------------------------------------------------------------------
\* A journal just mounted satisfies the invariant.
THEOREM InitIInv == Init => IInv
<1> SUFFICES ASSUME Init PROVE IInv
  OBVIOUS
<1>1. Shape
  BY DEF Init, Shape, Idle
<1>2. Cardinality(InOp) = 0
  BY NobodyIn DEF Init
<1>. QED
  BY <1>1, <1>2 DEF IInv, Init, Idle, JournalOwned, InJournal, InOp

\* One step per action of Next.
THEOREM NextIInv == IInv /\ [Next]_vars => IInv'
<1> SUFFICES ASSUME IInv, [Next]_vars PROVE IInv'
  OBVIOUS
<1> USE DEF Shape, At, Goto, Inside, Outside, machine
<1>0. Shape /\ JournalOwned
  BY DEF IInv
<1>1. ASSUME NEW p \in Proc, Begin(p) PROVE IInv'
  <2>0. pc[p] \in {"user", "inodes"} /\ pc' = [pc EXCEPT ![p] = "op"]
    BY <1>0, <1>1 DEF Begin
  <2>a. JShape' /\ j'.depth = j.depth + 1 /\ j'.locked
    <3>1. CASE j.depth = 0
      <4>1. j' = [j EXCEPT !.locked = TRUE, !.tx = <<>>, !.depth = 1]
        BY <1>1, <3>1 DEF Begin
      <4>. QED
        BY <1>0, <3>1, <4>1
    <3>2. CASE j.depth > 0
      <4>1. j' = [j EXCEPT !.depth = @ + 1] /\ j.locked
        BY <1>0, <1>1, <3>2 DEF Begin, JournalOwned
      <4>2. DOMAIN j' = DOMAIN j /\ j'.depth = j.depth + 1 /\ j'.locked = j.locked
        BY <1>0, <4>1
      <4>3. j'.depth \in Nat
        BY <1>0, <4>2
      <4>4. j'.locked /\ j'.locked \in BOOLEAN
        BY <1>0, <4>1, <4>2, Zenon
      <4>. QED
        BY <1>0, <4>2, <4>3, <4>4, Zenon
    <3>. QED
      BY <1>0, <3>1, <3>2
  <2>1. Shape'
    BY <1>0, <1>1, <2>0, <2>a DEF Begin
  <2>2. Cardinality(InOp') = Cardinality(InOp) + 1
    BY <1>0, <2>0, Entering
  <2>3. \A q \in Proc : ~InJournal(q)
    BY <1>0, <1>1 DEF Begin, JournalOwned
  <2>4. \A q \in Proc : ~InJournal(q)'
    BY <1>0, <2>0, <2>3 DEF InJournal
  <2>. QED
    BY <1>0, <2>a, <2>1, <2>2, <2>4 DEF IInv, JournalOwned, InOp
<1>2. ASSUME NEW p \in Proc, NEW b \in Block, WriteBlock(p, b) PROVE IInv'
  <2>1. Shape'
    BY <1>0, <1>2 DEF WriteBlock
  <2>2. JournalOwned'
    BY <1>0, <1>2, Still DEF WriteBlock
  <2>. QED
    BY <2>1, <2>2 DEF IInv
<1>3. ASSUME NEW p \in Proc, CommitInner(p) PROVE IInv'
  <2>1. Shape'
    BY <1>0, <1>3 DEF CommitInner
  <2>2. Cardinality(InOp') = Cardinality(InOp) - 1
    BY <1>0, <1>3, Leaving DEF CommitInner
  <2>3. j'.depth = j.depth - 1 /\ j'.depth > 0 /\ j'.locked /\ \A q \in Proc : ~InJournal(q)'
    BY <1>0, <1>3 DEF CommitInner, JournalOwned, InJournal
  <2>. QED
    BY <1>0, <2>1, <2>2, <2>3 DEF IInv, JournalOwned, InOp
<1>4. ASSUME NEW p \in Proc, Commit(p) PROVE IInv'
  <2>0. pc[p] = "op" /\ j.depth = 1 /\ \A q \in Proc : ~InJournal(q)
    BY <1>0, <1>4 DEF Commit, JournalOwned
  <2>2. PICK l \in Outside \cup {"through", "room"} :
             /\ pc' = [pc EXCEPT ![p] = l]
             /\ JShape' /\ j'.depth = 0 /\ (j'.locked <=> l \notin Outside)
    <3>1. CASE j.poisoned \/ n = 0
      <4>1. pc' = [pc EXCEPT ![p] = after[p]] /\ j' = [Unlocked EXCEPT !.depth = 0]
        BY <1>4, <3>1 DEF Commit
      <4>. QED
        BY <1>0, <4>1 DEF Unlocked
    <3>2. CASE ~(j.poisoned \/ n = 0)
      <4>1. j' = [j EXCEPT !.depth = 0]
            /\ (pc' = [pc EXCEPT ![p] = "through"] \/ pc' = [pc EXCEPT ![p] = "room"])
        BY <1>4, <3>2 DEF Commit
      <4>2. j.locked
        BY <1>0, <2>0 DEF JournalOwned
      <4>. QED
        BY <1>0, <4>1, <4>2
    <3>. QED
      BY <3>1, <3>2
  <2>1. Shape'
    BY <1>0, <1>4, <2>0, <2>2 DEF Commit
  <2>3. Cardinality(InOp') = Cardinality(InOp) - 1
    BY <1>0, <2>0, <2>2, Leaving
  <2>4. \A q \in Proc : InJournal(q)' <=> q = p /\ l \notin Outside
    BY <1>0, <2>0, <2>2 DEF InJournal
  <2>. QED
    BY <1>0, <2>0, <2>1, <2>2, <2>3, <2>4 DEF IInv, JournalOwned, InOp
<1>5. ASSUME NEW p \in Proc, Through(p) PROVE IInv'
  <2>1. Shape'
    BY <1>0, <1>5 DEF Through
  <2>2. JournalOwned'
    BY <1>5, <1>0, Within DEF Through
  <2>. QED
    BY <2>1, <2>2 DEF IInv
<1>6. ASSUME NEW p \in Proc, BarrierFirst(p) PROVE IInv'
  <2>1. Shape'
    BY <1>0, <1>6 DEF BarrierFirst
  <2>2. JournalOwned'
    BY <1>6, <1>0, Within DEF BarrierFirst
  <2>. QED
    BY <2>1, <2>2 DEF IInv
<1>7. ASSUME NEW p \in Proc, Wrap(p) PROVE IInv'
  <2>1. Shape'
    BY <1>0, <1>7 DEF Wrap
  <2>2. JournalOwned'
    BY <1>7, <1>0, Within DEF Wrap
  <2>. QED
    BY <2>1, <2>2 DEF IInv
<1>8. ASSUME NEW p \in Proc, Enqueue(p) PROVE IInv'
  <2>1. Shape'
    BY <1>0, <1>8 DEF Enqueue
  <2>2. JournalOwned'
    BY <1>8, <1>0, Within DEF Enqueue
  <2>. QED
    BY <2>1, <2>2 DEF IInv
<1>9. ASSUME NEW p \in Proc, Done(p) PROVE IInv'
  <2>1. Shape'
    BY <1>0, <1>9 DEF Done, Unlocked
  <2>2. JournalOwned'
    BY <1>9, <1>0, Unlocks DEF Done, Unlocked
  <2>. QED
    BY <2>1, <2>2 DEF IInv
<1>10. ASSUME NEW p \in Proc, CommitSynced(p) PROVE IInv'
  <2>1. Shape'
    BY <1>0, <1>10 DEF CommitSynced
  <2>2. JournalOwned'
    BY <1>10, <1>0, Within DEF CommitSynced
  <2>. QED
    BY <2>1, <2>2 DEF IInv
<1>11. ASSUME NEW p \in Proc, PhaseA(p) PROVE IInv'
  <2>1. Shape'
    BY <1>0, <1>11 DEF PhaseA
  <2>2. JournalOwned'
    BY <1>11, <1>0, Still DEF PhaseA
  <2>. QED
    BY <2>1, <2>2 DEF IInv
<1>12. ASSUME NEW p \in Proc, PhaseB(p) PROVE IInv'
  <2>1. Shape'
    BY <1>0, <1>12 DEF PhaseB
  <2>2. JournalOwned'
    BY <1>12, <1>0, Within DEF PhaseB
  <2>. QED
    BY <2>1, <2>2 DEF IInv
<1>13. ASSUME NEW p \in Proc, Publish(p) PROVE IInv'
  <2>1. Shape'
    BY <1>0, <1>13 DEF Publish
  <2>2. JournalOwned'
    BY <1>13, <1>0, Within DEF Publish
  <2>. QED
    BY <2>1, <2>2 DEF IInv
<1>14. ASSUME NEW p \in Proc, BarrierDone(p) PROVE IInv'
  <2>1. Shape'
    BY <1>0, <1>14 DEF BarrierDone
  <2>2. JournalOwned'
    BY <1>14, <1>0, Within DEF BarrierDone
  <2>. QED
    BY <2>1, <2>2 DEF IInv
<1>15. ASSUME NEW p \in Proc, SyncBuffers(p) PROVE IInv'
  <2>1. Shape'
    BY <1>0, <1>15 DEF SyncBuffers, WriteFirst
  <2>2. JournalOwned'
    BY <1>15, <1>0, Still DEF SyncBuffers, WriteFirst
  <2>. QED
    BY <2>1, <2>2 DEF IInv
<1>16. ASSUME NEW p \in Proc, Sync(p) PROVE IInv'
  <2>1. Shape'
    BY <1>0, <1>16 DEF Sync
  <2>2. JournalOwned'
    BY <1>16, <1>0, Without DEF Sync
  <2>. QED
    BY <2>1, <2>2 DEF IInv
<1>17. ASSUME NEW p \in Proc, DrainFlush(p) PROVE IInv'
  <2>a. JShape'
    BY <1>0, <1>17 DEF DrainFlush, FlushBatch
  <2>1. Shape'
    BY <1>0, <1>17, <2>a DEF DrainFlush, FlushBatch
  <2>2. JournalOwned'
    BY <1>17, <1>0, Locks DEF DrainFlush, FlushBatch
  <2>. QED
    BY <2>1, <2>2 DEF IInv
<1>18. ASSUME NEW p \in Proc, DrainZero(p) PROVE IInv'
  <2>1. Shape'
    BY <1>0, <1>18 DEF DrainZero
  <2>2. JournalOwned'
    BY <1>18, <1>0, Unlocks DEF DrainZero
  <2>. QED
    BY <2>1, <2>2 DEF IInv
<1>19. ASSUME NEW p \in Proc, DrainSuper(p) PROVE IInv'
  <2>1. Shape'
    BY <1>0, <1>19 DEF DrainSuper
  <2>2. JournalOwned'
    BY <1>19, <1>0, Without DEF DrainSuper
  <2>. QED
    BY <2>1, <2>2 DEF IInv
<1>20. ASSUME NEW p \in Proc, DrainClean(p) PROVE IInv'
  <2>1. Shape'
    BY <1>0, <1>20 DEF DrainClean
  <2>2. JournalOwned'
    BY <1>20, <1>0, Without DEF DrainClean
  <2>. QED
    BY <2>1, <2>2 DEF IInv
<1>21. ASSUME NEW p \in Proc, InodesSynced(p) PROVE IInv'
  <2>1. Shape'
    BY <1>0, <1>21 DEF InodesSynced
  <2>2. JournalOwned'
    BY <1>21, <1>0, Without DEF InodesSynced
  <2>. QED
    BY <2>1, <2>2 DEF IInv
<1>22. ASSUME NEW p \in Proc, FlushAll(p) PROVE IInv'
  <2>a. JShape'
    BY <1>0, <1>22 DEF FlushAll, FlushBatch
  <2>1. Shape'
    BY <1>0, <1>22, <2>a DEF FlushAll, FlushBatch
  <2>2. JournalOwned'
    BY <1>22, <1>0, Locks, Without DEF FlushAll, FlushBatch
  <2>. QED
    BY <2>1, <2>2 DEF IInv
<1>23. ASSUME NEW p \in Proc, Flushed(p) PROVE IInv'
  <2>1. Shape'
    BY <1>0, <1>23 DEF Flushed
  <2>2. JournalOwned'
    BY <1>23, <1>0, Unlocks DEF Flushed
  <2>. QED
    BY <2>1, <2>2 DEF IInv
<1>24. ASSUME NEW p \in Proc, SyncReturns(p) PROVE IInv'
  <2>1. Shape'
    BY <1>0, <1>24 DEF SyncReturns
  <2>2. JournalOwned'
    BY <1>24, <1>0, Without DEF SyncReturns
  <2>. QED
    BY <2>1, <2>2 DEF IInv
<1>30. CASE WritesBack
  BY <1>0, <1>30, Still DEF WritesBack, IInv
<1>31. CASE Crash
  BY <1>31, Empty DEF Crash, Idle, IInv
<1>32. CASE Mount
  <2>1. Shape'
    BY <1>0, <1>32 DEF Mount, Idle
  <2>2. pc' = [q \in Proc |-> "user"] /\ j'.depth = 0 /\ j'.locked = FALSE
    BY <1>0, <1>32 DEF Mount, Idle
  <2>. QED
    BY <2>1, <2>2, Empty DEF IInv
<1>33. CASE ReplayEntry
  BY <1>0, <1>33, Still DEF ReplayEntry, IInv
<1>34. CASE ReplaySync
  BY <1>0, <1>34, Still DEF ReplaySync, IInv
<1>35. CASE ReplayDone
  BY <1>0, <1>35, Still DEF ReplayDone, IInv
<1>36. CASE UNCHANGED vars
  BY <1>0, <1>36, Still DEF vars, IInv
<1>. QED
  BY <1>1, <1>2, <1>3, <1>4, <1>5, <1>6, <1>7, <1>8, <1>9, <1>10, <1>11, <1>12, <1>13, <1>14, <1>15, <1>16, <1>17, <1>18, <1>19, <1>20, <1>21, <1>22, <1>23, <1>24,
     <1>30, <1>31, <1>32, <1>33, <1>34, <1>35, <1>36
     DEF Next, CommitStep, BarrierStep, SyncStep

\* agfs_log_begin() and agfs_log_commit() keep the lock consistent whatever the
\* joins, barriers, drains and crashes.
THEOREM JournalOwnedHolds == Spec => []JournalOwned
<1>1. IInv => JournalOwned
  BY DEF IInv
<1>. QED
  BY <1>1, InitIInv, NextIInv, PTL DEF Spec

=============================================================================
