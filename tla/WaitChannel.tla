---------------------------- MODULE WaitChannel ----------------------------
(***************************************************************************)
(* The contract of the kernel's wait channels: processes that wait for a   *)
(* condition with sleep_arm / look / sleep_commit, processes that block in *)
(* a plain sleep(), and the interrupt handlers, bottom halves and other    *)
(* processes that make a condition true and then call wakeup().            *)
(*                                                                         *)
(* The waiter is the loop the comment above sleep_arm() prescribes:        *)
(*     sleep_arm(&channel);                                                *)
(*     if(ready()) { sleep_disarm(); break; }                              *)
(*     if(sleep_commit(&channel, PROC_INTERRUPTIBLE)) {                    *)
(*             sleep_disarm(); return -EINTR; }                            *)
(* with an interrupt possible between any two of its steps (kswapd and     *)
(* kbdflushd run with interrupts on).  ready holds the channels whose      *)
(* condition is true.  A waker first changes the state and then calls      *)
(* wakeup(): posting holds the channels between those two.                 *)
(***************************************************************************)
EXTENDS SleepOps

VARIABLES k,         \* the scheduler-visible process table (see SleepOps)
          pc,        \* where each process is in its wait
          chan,      \* the channel of that wait
          sig,       \* the processes for which issig() returns a signal
          ready,     \* the channels whose condition holds
          posting    \* channels whose condition was set, wakeup() to come

vars == <<k, pc, chan, sig, ready, posting>>

(* "user"    outside any wait            "looked"   missed, about to commit
   "loop"    about to arm again          "asleep"   off the CPU in the commit
   "armed"   armed, about to look        "plain"    off the CPU in sleep()  *)
PC == {"user", "loop", "armed", "looked", "asleep", "plain"}

TypeOK == /\ k \in KType
          /\ pc \in [Proc -> PC]
          /\ chan \in [Proc -> Chan \cup {NULL}]
          /\ sig \in SUBSET Proc
          /\ ready \in SUBSET Chan
          /\ posting \in SUBSET Chan

Init == /\ k = KInit
        /\ pc = [p \in Proc |-> "user"]
        /\ chan = [p \in Proc |-> NULL]
        /\ sig = {}
        /\ ready = {}
        /\ posting = {}

\* p can execute.  A process that took its stop signal on the way out of a
\* system call goes on in user mode, and may enter the kernel again, until
\* the next interrupt: syscall_entry64 does not look at need_resched.
Executing(p) == k.state[p] \in {"RUNNING", "STOPPED"}

At(p, l) == pc[p] = l /\ Executing(p)
Goto(p, l) == pc' = [pc EXCEPT ![p] = l]
Leave(p) == Goto(p, "user") /\ chan' = [chan EXCEPT ![p] = NULL]

-----------------------------------------------------------------------------
(* The armed wait. *)

Arm(p, a) == /\ \/ At(p, "user")
                \/ At(p, "loop") /\ chan[p] = a
             /\ k' = sleep_arm(k, p, a)
             /\ chan' = [chan EXCEPT ![p] = a]
             /\ Goto(p, "armed")
             /\ UNCHANGED <<sig, ready, posting>>

\* The look succeeds: the condition is consumed and the registration dropped.
LookFinds(p) == /\ At(p, "armed") /\ chan[p] \in ready
                /\ ready' = ready \ {chan[p]}
                /\ k' = sleep_disarm(k, p)
                /\ Leave(p)
                /\ UNCHANGED <<sig, posting>>

LookMisses(p) == /\ At(p, "armed") /\ chan[p] \notin ready
                 /\ Goto(p, "looked")
                 /\ UNCHANGED <<k, chan, sig, ready, posting>>

\* A wake came since the arm: sleep_commit() returns 0, the loop goes around.
CommitWoken(p) == /\ At(p, "looked") /\ CommitReturnsAtOnce(k, p)
                  /\ Goto(p, "loop")
                  /\ UNCHANGED <<k, chan, sig, ready, posting>>

\* sleep_commit() returns the signal, still registered; the caller disarms.
CommitSignalled(p) == /\ At(p, "looked") /\ ~CommitReturnsAtOnce(k, p) /\ p \in sig
                      /\ k' = sleep_disarm(k, p)
                      /\ Leave(p)
                      /\ UNCHANGED <<sig, ready, posting>>

CommitBlocks(p) == /\ At(p, "looked") /\ ~CommitReturnsAtOnce(k, p) /\ p \notin sig
                   /\ k' = sleep_commit(k, p, TRUE)
                   /\ Goto(p, "asleep")
                   /\ UNCHANGED <<chan, sig, ready, posting>>

\* Back from do_sched() inside sleep_commit().
CommitReturns(p) == /\ At(p, "asleep")
                    /\ k' = IF p \in sig THEN sleep_disarm(k, p) ELSE k
                    /\ IF p \in sig THEN Leave(p) ELSE Goto(p, "loop") /\ UNCHANGED chan
                    /\ UNCHANGED <<sig, ready, posting>>

-----------------------------------------------------------------------------
(* The plain sleep(). *)

Sleep(p, a, interruptible) == /\ At(p, "user")
                              /\ interruptible => p \notin sig
                              /\ k' = sleep(k, p, a, interruptible)
                              /\ chan' = [chan EXCEPT ![p] = a]
                              /\ Goto(p, "plain")
                              /\ UNCHANGED <<sig, ready, posting>>

SleepReturns(p) == /\ At(p, "plain")
                   /\ Leave(p)
                   /\ UNCHANGED <<k, sig, ready, posting>>

-----------------------------------------------------------------------------
(* Wakers, signals and timeouts. *)

Post(a) == /\ a \notin posting
           /\ ready' = ready \cup {a}
           /\ posting' = posting \cup {a}
           /\ UNCHANGED <<k, pc, chan, sig>>

Wake(a) == /\ a \in posting
           /\ k' = wakeup(k, a)
           /\ posting' = posting \ {a}
           /\ UNCHANGED <<pc, chan, sig, ready>>

\* send_sig() of an unblocked signal: made pending, then the process is woken.
SendSig(p) == /\ sig' = sig \cup {p}
              /\ k' = wakeup_proc(k, p)
              /\ UNCHANGED <<pc, chan, ready, posting>>

\* irq_timer_bh(): p->timeout ran out.
Timeout(p) == /\ CanWakeProc(k, p)
              /\ k' = wakeup_proc(k, p)
              /\ UNCHANGED <<pc, chan, sig, ready, posting>>

\* (wrong: the process stops wherever it is in its wait.)
TakeSignalAtOnce(p) == /\ Executing(p) /\ p \in sig
                       /\ sig' = sig \ {p}
                       /\ k' = not_runnable(k, p, "STOPPED")
                       /\ UNCHANGED <<pc, chan, ready, posting>>

\* psig() on the way to user mode: a handler runs, or the process stops.
TakeSignal(p) == /\ At(p, "user") /\ p \in sig
                 /\ sig' = sig \ {p}
                 /\ \/ UNCHANGED k
                    \/ k' = not_runnable(k, p, "STOPPED")
                 /\ UNCHANGED <<pc, chan, ready, posting>>

Next == \/ \E p \in Proc : \/ \E a \in Chan : Arm(p, a)
                           \/ LookFinds(p)
                           \/ LookMisses(p)
                           \/ CommitWoken(p)
                           \/ CommitSignalled(p)
                           \/ CommitBlocks(p)
                           \/ CommitReturns(p)
                           \/ \E a \in Chan, i \in BOOLEAN : Sleep(p, a, i)
                           \/ SleepReturns(p)
                           \/ SendSig(p)
                           \/ Timeout(p)
                           \/ TakeSignal(p)
        \/ \E a \in Chan : Post(a) \/ Wake(a)

Spec == Init /\ [][Next]_vars

\* A waker that changed the state gets to its wakeup(): both are in one
\* handler.  A process that runs reaches the end of its wait.
Fairness == /\ \A a \in Chan : WF_vars(Wake(a))
            /\ \A p \in Proc : WF_vars(\/ LookFinds(p) \/ LookMisses(p)
                                       \/ CommitWoken(p) \/ CommitReturns(p)
                                       \/ CommitSignalled(p) \/ CommitBlocks(p)
                                       \/ (pc[p] = "loop" /\ Arm(p, chan[p])))

FairSpec == Spec /\ Fairness

-----------------------------------------------------------------------------
(* Properties. *)

\* sleep_arm()/sleep_commit(), "THE WAIT THAT CANNOT LOSE A WAKEUP": a waiter
\* that is off the CPU in sleep_commit() while its condition holds still has
\* the wakeup() of the waker that made it hold ahead of it.
NoLostWakeup ==
    \A p \in Proc :
        pc[p] = "asleep" /\ k.state[p] = "SLEEPING" /\ chan[p] \in ready
            => chan[p] \in posting

\* A process that is off the CPU is registered on the channel of its own wait,
\* so that wakeup() can find it, and PF_NOTINTERRUPT never outlives the sleep
\* it was set for (wakeup_proc() would then refuse every later signal).
SleepersAreFindable ==
    \A p \in Proc :
        /\ k.state[p] = "SLEEPING" => /\ pc[p] \in {"asleep", "plain"}
                                      /\ k.sleep_address[p] = chan[p]
                                      /\ chan[p] # NULL
        /\ p \in k.notint => k.state[p] = "SLEEPING" /\ pc[p] = "plain"
        /\ pc[p] \in {"user", "loop", "asleep", "plain"} /\ Executing(p)
               => k.sleep_address[p] = NULL

\* Only the wakeup() of its own channel ends an uninterruptible sleep, and
\* that wakeup() releases every process registered there with it: no signal
\* and no timeout takes a process out of lock_resource() or a block transfer.
UninterruptibleUntilWakeup ==
    [][\A p \in Proc :
          p \in k.notint /\ k'.state[p] # "SLEEPING"
             => /\ chan[p] \in posting /\ chan[p] \notin posting'
                /\ \A q \in Proc : k.sleep_address[q] = chan[p]
                                       => k'.sleep_address[q] = NULL]_vars

\* A waiter asleep on a channel whose condition was posted is made runnable:
\* one wakeup() reaches all the waiters, however many share the channel.
PostedWaitersWake ==
    \A p \in Proc :
        (pc[p] = "asleep" /\ chan[p] \in ready) ~> (pc[p] # "asleep" \/ chan[p] \notin ready)

\* The waiters keep to the rules of sleep.c's callers (module SleepSpec): none
\* calls sleep() while armed or stops while registered, whatever wakes it and
\* however its wait ends.
Contract == INSTANCE SleepSpec

ObeysTheContract == Contract!Spec
=============================================================================
