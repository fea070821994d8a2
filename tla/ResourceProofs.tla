--------------------------- MODULE ResourceProofs ---------------------------
(***************************************************************************)
(* lock_resource() excludes, and unlock_resource() knows of every waiter,  *)
(* for any number of processes and resources.                              *)
(***************************************************************************)
EXTENDS Resource, TLAPS

\* What makes the two properties inductive: where a process is agrees with
\* its state and its registration, and nothing but a wakeup() of the resource
\* takes a waiter out of its sleep.
WhereItIs ==
    \A p \in Proc :
        /\ pc[p] = "out" <=> res[p] = NULL
        /\ k.state[p] \in {"RUNNING", "SLEEPING"}
        /\ k.state[p] = "SLEEPING" <=> p \in k.notint
        /\ k.state[p] = "SLEEPING" => \/ pc[p] = "wait" /\ k.sleep_address[p] = res[p]
                                      \/ pc[p] = "io" /\ k.sleep_address[p] \in Chan \ Res
        /\ k.state[p] = "RUNNING" => k.sleep_address[p] = NULL

IInv == TypeOK /\ WhereItIs /\ MutualExclusion /\ WaitersAreKnown

USE DEF PState, KType, PC

\* A resource nobody has locked satisfies the invariant.
THEOREM InitIInv == Init => IInv
BY NullIsNoChan, ResAreChannels
   DEF Init, IInv, TypeOK, WhereItIs, MutualExclusion, WaitersAreKnown, Holds, KInit

\* One step per action of Next.
THEOREM NextIInv == IInv /\ [Next]_vars => IInv'
<1> SUFFICES ASSUME IInv, [Next]_vars PROVE IInv'
  OBVIOUS
<1> USE NullIsNoChan, ResAreChannels
    DEF IInv, TypeOK, WhereItIs, MutualExclusion, WaitersAreKnown, Holds, At, Goto
<1>1. ASSUME NEW p \in Proc, NEW r \in Res, Lock(p, r) PROVE IInv'
  BY <1>1 DEF Lock, Tries
<1>2. ASSUME NEW p \in Proc, NEW r \in Res, LockBlocks(p, r) PROVE IInv'
  BY <1>2 DEF LockBlocks, Tries, sleep
<1>3. ASSUME NEW p \in Proc, Unlock(p) PROVE IInv'
  <2>1. CASE res[p] \in wanted
    <3>1. k' = wakeup(k, res[p])
      BY <1>3, <2>1 DEF Unlock
    <3>. QED
      BY <1>3, <3>1 DEF Unlock, wakeup, Registered
  <2>2. CASE res[p] \notin wanted
    <3>1. k' = k
      BY <1>3, <2>2 DEF Unlock
    <3>. QED
      BY <1>3, <2>2, <3>1 DEF Unlock
  <2>. QED
    BY <2>1, <2>2
<1>4. ASSUME NEW p \in Proc, NEW e \in Chan \ Res, Wait(p, e) PROVE IInv'
  BY <1>4 DEF Wait, sleep
<1>5. ASSUME NEW p \in Proc, WaitReturns(p) PROVE IInv'
  BY <1>5 DEF WaitReturns
<1>6. ASSUME NEW p \in Proc, Disturb(p) PROVE IInv'
  BY <1>6 DEF Disturb, wakeup_proc, CanWakeProc
<1>7. ASSUME NEW e \in Chan \ Res, Event(e) PROVE IInv'
  BY <1>7 DEF Event, wakeup, Registered
<1>8. CASE UNCHANGED vars
  BY <1>8 DEF vars
<1> HIDE DEF IInv, TypeOK, WhereItIs, MutualExclusion, WaitersAreKnown
<1>. QED
  BY <1>1, <1>2, <1>3, <1>4, <1>5, <1>6, <1>7, <1>8 DEF Next

\* locked and wanted of each resource, and the process table, keep their types.
THEOREM ResourceTyped == Spec => []TypeOK
<1>1. IInv => TypeOK
  BY DEF IInv
<1>. QED
  BY InitIInv, NextIInv, <1>1, PTL DEF Spec

\* At most one process is between lock_resource() and unlock_resource().
THEOREM MutualExclusionHolds == Spec => []MutualExclusion
<1>1. IInv => MutualExclusion
  BY DEF IInv
<1>. QED
  BY InitIInv, NextIInv, <1>1, PTL DEF Spec

\* locked and wanted are exact: nobody sleeps for a resource whose holder
\* does not know that it must call wakeup().
THEOREM WaitersAreKnownHolds == Spec => []WaitersAreKnown
<1>1. IInv => WaitersAreKnown
  BY DEF IInv
<1>. QED
  BY InitIInv, NextIInv, <1>1, PTL DEF Spec
=============================================================================
