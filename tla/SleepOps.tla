------------------------------ MODULE SleepOps ------------------------------
(***************************************************************************)
(* What the primitives of kernel/sleep.c do to the processes, without the  *)
(* linked lists they do it with.  The scheduler-visible part of the        *)
(* process table is one record k:                                          *)
(*   k.state          p->state                                             *)
(*   k.sleep_address  the channel p is registered on, or NULL              *)
(*   k.notint         the processes with PF_NOTINTERRUPT in their flags    *)
(* Every primitive is an operator from k to k, so that a system call which *)
(* makes several calls before it sleeps or returns is one composition of   *)
(* them.  A process never loses the CPU inside the kernel except in        *)
(* do_sched(), so that composition is one atomic step.                     *)
(*                                                                         *)
(* Module Sleep shows that the lists of sleep.c implement these operators. *)
(***************************************************************************)

CONSTANTS Proc,      \* the slots of proc_table, IDLE excluded
          Chan,      \* the addresses processes sleep on
          NULL       \* no address

ASSUME NullIsNoChan == NULL \notin Chan

PState == {"UNUSED", "RUNNING", "SLEEPING", "ZOMBIE", "STOPPED", "IDLE"}

KType == [state : [Proc -> PState],
          sleep_address : [Proc -> Chan \cup {NULL}],
          notint : SUBSET Proc]

\* Every process on the run queue, nobody registered (sleep_init).
KInit == [state |-> [p \in Proc |-> "RUNNING"],
          sleep_address |-> [p \in Proc |-> NULL],
          notint |-> {}]

runnable(k, p) ==
    [state |-> [k.state EXCEPT ![p] = "RUNNING"],
     sleep_address |-> k.sleep_address,
     notint |-> k.notint]

not_runnable(k, p, s) ==
    [state |-> [k.state EXCEPT ![p] = s],
     sleep_address |-> k.sleep_address,
     notint |-> k.notint]

\* (wrong: the kind of sleep is stored as the state)
sleep_kind(k, p, a, interruptible) ==
    [state |-> [k.state EXCEPT ![p] = "INTERRUPTIBLE"],
     sleep_address |-> [k.sleep_address EXCEPT ![p] = a],
     notint |-> IF interruptible THEN k.notint ELSE k.notint \cup {p}]

\* sleep() past its early returns: register, note the kind, leave the CPU.
sleep(k, p, a, interruptible) ==
    [state |-> [k.state EXCEPT ![p] = "SLEEPING"],
     sleep_address |-> [k.sleep_address EXCEPT ![p] = a],
     notint |-> IF interruptible THEN k.notint ELSE k.notint \cup {p}]

\* Registers a process that goes on running; idempotent.
sleep_arm(k, p, a) ==
    [state |-> k.state,
     sleep_address |-> [k.sleep_address EXCEPT ![p] = IF @ = NULL THEN a ELSE @],
     notint |-> k.notint]

sleep_disarm(k, p) ==
    [state |-> k.state,
     sleep_address |-> [k.sleep_address EXCEPT ![p] = NULL],
     notint |-> k.notint]

\* (wrong: the registration is not looked at)
CommitNeverReturnsAtOnce(k, p) == FALSE

\* sleep_commit() returns without sleeping once a wake took the registration.
CommitReturnsAtOnce(k, p) == k.sleep_address[p] = NULL

\* (wrong: the kind of sleep is stored as the state)
sleep_commit_kind(k, p, interruptible) ==
    [state |-> [k.state EXCEPT ![p] = "INTERRUPTIBLE"],
     sleep_address |-> k.sleep_address,
     notint |-> IF interruptible THEN k.notint ELSE k.notint \cup {p}]

\* sleep_commit() past its early returns.
sleep_commit(k, p, interruptible) ==
    [state |-> [k.state EXCEPT ![p] = "SLEEPING"],
     sleep_address |-> k.sleep_address,
     notint |-> IF interruptible THEN k.notint ELSE k.notint \cup {p}]

Registered(k, a) == {p \in Proc : k.sleep_address[p] = a}

\* (wrong: the first process found ends the walk of the bucket)
wakeup_one(k, a) ==
    LET p == CHOOSE p \in Proc : Registered(k, a) = {} \/ p \in Registered(k, a)
    IN IF Registered(k, a) = {} THEN k
       ELSE [state |-> [k.state EXCEPT ![p] = "RUNNING"],
             sleep_address |-> [k.sleep_address EXCEPT ![p] = NULL],
             notint |-> k.notint \ {p}]

\* Everyone registered on a is unregistered; those asleep become runnable.
wakeup(k, a) ==
    LET woken == Registered(k, a)
    IN [state |-> [p \in Proc |-> IF p \in woken /\ k.state[p] = "SLEEPING"
                                    THEN "RUNNING" ELSE k.state[p]],
        sleep_address |-> [p \in Proc |-> IF p \in woken THEN NULL ELSE k.sleep_address[p]],
        notint |-> k.notint \ woken]

\* (wrong: PF_NOTINTERRUPT is not looked at)
CanWakeAny(k, p) == k.state[p] \in {"SLEEPING", "STOPPED"}

CanWakeProc(k, p) == k.state[p] \in {"SLEEPING", "STOPPED"} /\ p \notin k.notint

\* (wrong: the process stays registered)
wakeup_proc_registered(k, p) ==
    [state |-> [k.state EXCEPT ![p] = IF CanWakeProc(k, p) THEN "RUNNING" ELSE @],
     sleep_address |-> k.sleep_address,
     notint |-> k.notint]

\* The wake of a signal or of a timeout: one process, if it is interruptible.
wakeup_proc(k, p) ==
    [state |-> [k.state EXCEPT ![p] = IF CanWakeProc(k, p) THEN "RUNNING" ELSE @],
     sleep_address |-> [k.sleep_address EXCEPT ![p] = IF CanWakeProc(k, p) THEN NULL ELSE @],
     notint |-> k.notint]
=============================================================================
