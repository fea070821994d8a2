------------------------- MODULE WaitChannelProofs -------------------------
(***************************************************************************)
(* No wake is lost and every sleeper can be found, for any number of       *)
(* processes and channels.                                                 *)
(***************************************************************************)
EXTENDS WaitChannel, TLAPS

\* The strengthening of NoLostWakeup: it must already hold of a waiter that
\* has looked and not yet committed, and only while no wake took its
\* registration away.
LookedStaysCovered ==
    \A p \in Proc :
        pc[p] \in {"looked", "asleep"} /\ k.sleep_address[p] # NULL /\ chan[p] \in ready
            => chan[p] \in posting

\* A registration is always for the channel of the wait in progress.
RegistrationIsCurrent ==
    \A p \in Proc :
        /\ pc[p] # "user" => chan[p] \in Chan
        /\ k.sleep_address[p] \in {NULL, chan[p]}

IInv == TypeOK /\ LookedStaysCovered /\ RegistrationIsCurrent /\ SleepersAreFindable

USE DEF PState, KType, PC

\* The abstract operators keep the process table well-typed.
LEMMA OpsType ==
    ASSUME NEW kk \in KType, NEW p \in Proc, NEW a \in Chan, NEW i \in BOOLEAN
    PROVE  /\ sleep(kk, p, a, i) \in KType
           /\ sleep_arm(kk, p, a) \in KType
           /\ sleep_disarm(kk, p) \in KType
           /\ sleep_commit(kk, p, i) \in KType
           /\ wakeup(kk, a) \in KType
           /\ wakeup_proc(kk, p) \in KType
           /\ not_runnable(kk, p, "STOPPED") \in KType
BY DEF sleep, sleep_arm, sleep_disarm, sleep_commit, wakeup, wakeup_proc,
       not_runnable, Registered, CanWakeProc

\* Nobody is registered at the start.
THEOREM InitIInv == Init => IInv
BY NullIsNoChan DEF Init, IInv, TypeOK, LookedStaysCovered, RegistrationIsCurrent,
       SleepersAreFindable, KInit, Executing

\* One step per action of Next.
THEOREM NextIInv == IInv /\ [Next]_vars => IInv'
<1> SUFFICES ASSUME IInv, [Next]_vars PROVE IInv'
  OBVIOUS
<1> USE NullIsNoChan DEF IInv, TypeOK, LookedStaysCovered, RegistrationIsCurrent,
                         SleepersAreFindable, At, Goto, Leave, Executing
<1>1. ASSUME NEW p \in Proc, NEW a \in Chan, Arm(p, a) PROVE IInv'
  BY <1>1 DEF Arm, sleep_arm
<1>2. ASSUME NEW p \in Proc, LookFinds(p) PROVE IInv'
  BY <1>2 DEF LookFinds, sleep_disarm
<1>3. ASSUME NEW p \in Proc, LookMisses(p) PROVE IInv'
  BY <1>3 DEF LookMisses
<1>4. ASSUME NEW p \in Proc, CommitWoken(p) PROVE IInv'
  BY <1>4 DEF CommitWoken, CommitReturnsAtOnce
<1>5. ASSUME NEW p \in Proc, CommitSignalled(p) PROVE IInv'
  BY <1>5 DEF CommitSignalled, sleep_disarm, CommitReturnsAtOnce
<1>6. ASSUME NEW p \in Proc, CommitBlocks(p) PROVE IInv'
  BY <1>6 DEF CommitBlocks, sleep_commit, CommitReturnsAtOnce
<1>7. ASSUME NEW p \in Proc, CommitReturns(p) PROVE IInv'
  <2>1. CASE p \in sig
    BY <1>7, <2>1 DEF CommitReturns, sleep_disarm
  <2>2. CASE p \notin sig
    <3>1. /\ At(p, "asleep")
          /\ Goto(p, "loop")
          /\ UNCHANGED <<k, chan, sig, ready, posting>>
      BY <1>7, <2>2 DEF CommitReturns
    <3>. QED
      BY <3>1
  <2>. QED
    BY <2>1, <2>2
<1>8. ASSUME NEW p \in Proc, NEW a \in Chan, NEW i \in BOOLEAN, Sleep(p, a, i) PROVE IInv'
  BY <1>8 DEF Sleep, sleep
<1>9. ASSUME NEW p \in Proc, SleepReturns(p) PROVE IInv'
  BY <1>9 DEF SleepReturns
<1>10. ASSUME NEW p \in Proc, SendSig(p) PROVE IInv'
  BY <1>10 DEF SendSig, wakeup_proc, CanWakeProc
<1>11. ASSUME NEW p \in Proc, Timeout(p) PROVE IInv'
  BY <1>11 DEF Timeout, wakeup_proc, CanWakeProc
<1>12. ASSUME NEW p \in Proc, TakeSignal(p) PROVE IInv'
  BY <1>12 DEF TakeSignal, not_runnable
<1>13. ASSUME NEW a \in Chan, Post(a) PROVE IInv'
  BY <1>13 DEF Post
<1>14. ASSUME NEW a \in Chan, Wake(a) PROVE IInv'
  BY <1>14 DEF Wake, wakeup, Registered
<1>15. CASE UNCHANGED vars
  BY <1>15 DEF vars
<1> HIDE DEF IInv, TypeOK, LookedStaysCovered, RegistrationIsCurrent, SleepersAreFindable
<1>. QED
  BY <1>1, <1>2, <1>3, <1>4, <1>5, <1>6, <1>7, <1>8, <1>9, <1>10, <1>11, <1>12, <1>13, <1>14, <1>15 DEF Next

\* The process table and the program counters of the waiters keep their types.
THEOREM WaitChannelTyped == Spec => []TypeOK
<1>1. IInv => TypeOK
  BY DEF IInv
<1>. QED
  BY InitIInv, NextIInv, <1>1, PTL DEF Spec

\* sleep_arm()/sleep_commit() lose no wakeup.
THEOREM NoLostWakeupHolds == Spec => []NoLostWakeup
<1>1. IInv => NoLostWakeup
  BY NullIsNoChan DEF IInv, TypeOK, LookedStaysCovered, SleepersAreFindable, NoLostWakeup
<1>. QED
  BY InitIInv, NextIInv, <1>1, PTL DEF Spec

\* Every sleeper is registered on its own channel, and PF_NOTINTERRUPT does
\* not outlive the sleep it was set for.
THEOREM SleepersAreFindableHolds == Spec => []SleepersAreFindable
<1>1. IInv => SleepersAreFindable
  BY DEF IInv
<1>. QED
  BY InitIInv, NextIInv, <1>1, PTL DEF Spec

\* Only wakeup() on its own channel ends an uninterruptible sleep, and it
\* releases everyone registered there.
THEOREM UninterruptibleHolds == Spec => UninterruptibleUntilWakeup
<1> DEFINE A(p) == p \in k.notint /\ k'.state[p] # "SLEEPING"
                     => /\ chan[p] \in posting /\ chan[p] \notin posting'
                        /\ \A q \in Proc : k.sleep_address[q] = chan[p]
                                               => k'.sleep_address[q] = NULL
<1>1. IInv /\ [Next]_vars => [\A p \in Proc : A(p)]_vars
  <2> SUFFICES ASSUME IInv, Next, NEW r \in Proc,
                      r \in k.notint, k'.state[r] # "SLEEPING"
               PROVE  A(r)
    BY DEF vars
  <2>1. k.state[r] = "SLEEPING" /\ pc[r] = "plain" /\ k.sleep_address[r] = chan[r]
    BY DEF IInv, SleepersAreFindable
  <2>2. k \in KType
    BY DEF IInv, TypeOK
  <2>3. PICK a \in Chan : Wake(a)
    <3> USE <2>1, <2>2 DEF At, Executing
    <3>1. ASSUME NEW p \in Proc, k' = wakeup_proc(k, p) PROVE FALSE
      BY <3>1 DEF wakeup_proc, CanWakeProc
    <3>2. ASSUME NEW p \in Proc, p # r, NEW s, k' = not_runnable(k, p, s) PROVE FALSE
      BY <3>2 DEF not_runnable
    <3>3. ASSUME NEW p \in Proc, NEW a \in Chan, Arm(p, a) PROVE FALSE
      BY <3>3 DEF Arm, sleep_arm
    <3>4. ASSUME NEW p \in Proc, LookFinds(p) \/ CommitSignalled(p) PROVE FALSE
      BY <3>4 DEF LookFinds, CommitSignalled, sleep_disarm
    <3>5. ASSUME NEW p \in Proc,
                 LookMisses(p) \/ CommitWoken(p) \/ SleepReturns(p) PROVE FALSE
      BY <3>5 DEF LookMisses, CommitWoken, SleepReturns
    <3>6. ASSUME NEW p \in Proc, CommitBlocks(p) PROVE FALSE
      BY <3>6 DEF CommitBlocks, sleep_commit
    <3>7. ASSUME NEW p \in Proc, CommitReturns(p) PROVE FALSE
      <4>1. k' = k \/ k' = sleep_disarm(k, p)
        BY <3>7 DEF CommitReturns
      <4>. QED
        BY <4>1 DEF sleep_disarm
    <3>8. ASSUME NEW p \in Proc, NEW a \in Chan, NEW i \in BOOLEAN, Sleep(p, a, i)
          PROVE FALSE
      BY <3>8 DEF Sleep, sleep
    <3>9. ASSUME NEW p \in Proc, SendSig(p) \/ Timeout(p) PROVE FALSE
      BY <3>9, <3>1 DEF SendSig, Timeout
    <3>10. ASSUME NEW p \in Proc, TakeSignal(p) PROVE FALSE
      <4>1. p # r
        BY <3>10 DEF TakeSignal
      <4>2. k' = k \/ k' = not_runnable(k, p, "STOPPED")
        BY <3>10 DEF TakeSignal
      <4>. QED
        BY <4>1, <4>2, <3>2
    <3>11. ASSUME NEW a \in Chan, Post(a) PROVE FALSE
      BY <3>11 DEF Post
    <3>. QED
      BY <3>3, <3>4, <3>5, <3>6, <3>7, <3>8, <3>9, <3>10, <3>11 DEF Next
  <2>4. chan[r] = a
    BY <2>1, <2>2, <2>3 DEF Wake, wakeup, Registered
  <2>. QED
    BY <2>2, <2>3, <2>4 DEF Wake, wakeup, Registered
<1>. QED
  BY InitIInv, NextIInv, <1>1, PTL DEF Spec, UninterruptibleUntilWakeup


\* SleepSpec has the same primitives.
LEMMA SameOps ==
    /\ Contract!KInit = KInit
    /\ \A kk, p : Contract!CommitReturnsAtOnce(kk, p) <=> CommitReturnsAtOnce(kk, p)
    /\ \A kk, p, s : Contract!not_runnable(kk, p, s) = not_runnable(kk, p, s)
    /\ \A kk, p, a, i : Contract!sleep(kk, p, a, i) = sleep(kk, p, a, i)
    /\ \A kk, p, a : Contract!sleep_arm(kk, p, a) = sleep_arm(kk, p, a)
    /\ \A kk, p : Contract!sleep_disarm(kk, p) = sleep_disarm(kk, p)
    /\ \A kk, p, i : Contract!sleep_commit(kk, p, i) = sleep_commit(kk, p, i)
    /\ \A kk, a : Contract!wakeup(kk, a) = wakeup(kk, a)
    /\ \A kk, p : Contract!wakeup_proc(kk, p) = wakeup_proc(kk, p)
BY Zenon DEF KInit, Contract!KInit, CommitReturnsAtOnce, Contract!CommitReturnsAtOnce,
       not_runnable, Contract!not_runnable, sleep, Contract!sleep,
       sleep_arm, Contract!sleep_arm, sleep_disarm, Contract!sleep_disarm,
       sleep_commit, Contract!sleep_commit, wakeup, Contract!wakeup,
       Registered, Contract!Registered, wakeup_proc, Contract!wakeup_proc,
       CanWakeProc, Contract!CanWakeProc

\* The waiters keep to the contract of sleep.c: every step of the protocol is
\* a step SleepSpec allows, or leaves the process table alone.
THEOREM ContractHolds == Spec => ObeysTheContract
<1>1. Init => Contract!Init
  BY SameOps DEF Init, Contract!Init
<1>2. IInv /\ [Next]_vars => [Contract!Next]_k
  <2> SUFFICES ASSUME IInv, Next PROVE Contract!Next \/ UNCHANGED k
    BY DEF vars
  <2> USE SameOps DEF At, Executing, Contract!Executing, Contract!Unarmed
  <2>1. ASSUME NEW p \in Proc, NEW a \in Chan, Arm(p, a) PROVE Contract!Next
    BY <2>1 DEF Arm, Contract!Arm, Contract!Next
  <2>2. ASSUME NEW p \in Proc, LookFinds(p) \/ CommitSignalled(p) PROVE Contract!Next
    BY <2>2 DEF LookFinds, CommitSignalled, Contract!Disarm, Contract!Next
  <2>3. ASSUME NEW p \in Proc, LookMisses(p) \/ CommitWoken(p) \/ SleepReturns(p)
        PROVE  UNCHANGED k
    BY <2>3 DEF LookMisses, CommitWoken, SleepReturns
  <2>4. ASSUME NEW p \in Proc, CommitBlocks(p) PROVE Contract!Next
    BY <2>4 DEF CommitBlocks, Contract!Commit, Contract!Next
  <2>5. ASSUME NEW p \in Proc, CommitReturns(p) PROVE Contract!Next \/ UNCHANGED k
    <3>1. At(p, "asleep") /\ (k' = sleep_disarm(k, p) \/ k' = k)
      BY <2>5 DEF CommitReturns
    <3>. QED
      BY <3>1 DEF Contract!Disarm, Contract!Next
  <2>6. ASSUME NEW p \in Proc, NEW a \in Chan, NEW i \in BOOLEAN, Sleep(p, a, i)
        PROVE  Contract!Next
    BY <2>6 DEF IInv, SleepersAreFindable, Sleep, Contract!Sleep, Contract!Next
  <2>7. ASSUME NEW p \in Proc, SendSig(p) \/ Timeout(p) PROVE Contract!Next
    BY <2>7 DEF SendSig, Timeout, Contract!WakeupProc, Contract!Next
  <2>8. ASSUME NEW p \in Proc, TakeSignal(p) PROVE Contract!Next \/ UNCHANGED k
    BY <2>8 DEF IInv, SleepersAreFindable, TakeSignal, Contract!Stop, Contract!Next
  <2>9. ASSUME NEW a \in Chan, Post(a) \/ Wake(a) PROVE Contract!Next \/ UNCHANGED k
    BY <2>9 DEF Post, Wake, Contract!Wakeup, Contract!Next
  <2>. QED
    BY <2>1, <2>2, <2>3, <2>4, <2>5, <2>6, <2>7, <2>8, <2>9 DEF Next
<1>. QED
  BY InitIInv, NextIInv, <1>1, <1>2, PTL DEF Spec, ObeysTheContract, Contract!Spec
=============================================================================
