----------------------------- MODULE SleepSpec -----------------------------
(***************************************************************************)
(* What kernel/sleep.c promises to its callers: a process is registered on *)
(* at most one channel, wakeup() reaches everybody registered on its       *)
(* channel, wakeup_proc() one interruptible process.  The callers are      *)
(* arbitrary, except for what the kernel guarantees of them: only a        *)
(* process that executes calls sleep() and its relatives, it does not call *)
(* sleep() while it is armed, and it is not armed when it returns to user  *)
(* mode (where it may stop).                                               *)
(***************************************************************************)
EXTENDS SleepOps

VARIABLE k

\* A process that took its stop signal on the way out of a system call goes
\* on in user mode, and may enter the kernel again, until the next interrupt:
\* syscall_entry64 does not look at need_resched.
Executing(p) == k.state[p] \in {"RUNNING", "STOPPED"}

Unarmed(p) == k.sleep_address[p] = NULL

Init == k = KInit

Sleep(p, a, interruptible) == /\ Executing(p) /\ Unarmed(p)
                              /\ k' = sleep(k, p, a, interruptible)

Arm(p, a) == Executing(p) /\ k' = sleep_arm(k, p, a)

Disarm(p) == Executing(p) /\ k' = sleep_disarm(k, p)

Commit(p, interruptible) == /\ Executing(p) /\ ~CommitReturnsAtOnce(k, p)
                            /\ k' = sleep_commit(k, p, interruptible)

Stop(p) == /\ Executing(p) /\ Unarmed(p)
           /\ k' = not_runnable(k, p, "STOPPED")

Wakeup(a) == k' = wakeup(k, a)

WakeupProc(p) == k' = wakeup_proc(k, p)

Next == \/ \E p \in Proc : \/ \E a \in Chan : Arm(p, a)
                           \/ \E a \in Chan, i \in BOOLEAN : Sleep(p, a, i)
                           \/ Disarm(p)
                           \/ \E i \in BOOLEAN : Commit(p, i)
                           \/ Stop(p)
                           \/ WakeupProc(p)
        \/ \E a \in Chan : Wakeup(a)

Spec == Init /\ [][Next]_k
=============================================================================
