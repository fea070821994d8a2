------------------------------- MODULE Sched -------------------------------
(***************************************************************************)
(* Who gets the CPU: do_sched() and sched_yield(), the quantum accounting  *)
(* of the timer interrupt, the places that look at need_resched, and the   *)
(* idle loop.  The run queue is a sequence (module Sleep shows that the    *)
(* linked list is one).                                                    *)
(*                                                                         *)
(* need_resched is looked at when a PIC interrupt, an int 0x80 or a fault  *)
(* returns to user mode (isr64_dispatch), by the idle loop and by          *)
(* tty_write.  An MSI-X interrupt returns without looking, and so does a   *)
(* system call through syscall_entry64, which only takes the signals.      *)
(***************************************************************************)
EXTENDS ListOps

CONSTANTS Proc,
          IDLE,            \* proc_table[IDLE], never on the run queue
          Quanta,          \* the quanta nice values stand for, in ticks
          DEF_PRIORITY,    \* the one of nice 0
          SchedParams      \* the <<policy, rt_priority>> pairs asked for

ASSUME ProcTable == IsFiniteSet(Proc) /\ IDLE \notin Proc

\* The longest quantum is the one of the lowest nice value.
ASSUME QuantaAreBounded == /\ Quanta \subseteq Nat \ {0}
                           /\ {1, DEF_PRIORITY} \subseteq Quanta
                           /\ \E m \in Quanta : \A q \in Quanta : q <= m

ASSUME ParamsAreRight == SchedParams \subseteq {"OTHER", "FIFO", "RR"} \X (0 .. 99)

Longest == CHOOSE m \in Quanta : \A q \in Quanta : q <= m

VARIABLES state,           \* p->state
          queue,           \* the run queue, head first
          current,
          need_resched,
          cpu_count,       \* ticks left of each quantum
          priority,        \* the quantum of each process
          policy,
          rt_priority,
          mode,            \* "user" or "kernel", where each process is
          idle             \* "check", "tohlt" or "hlt" in the idle loop

sched == <<state, queue, current, need_resched, cpu_count, priority,
           policy, rt_priority>>
vars == <<sched, mode, idle>>

\* The scheduler's state as one record, so that a handler is a composition.
S == [state |-> state, queue |-> queue, current |-> current,
      need_resched |-> need_resched, cpu_count |-> cpu_count,
      priority |-> priority, policy |-> policy, rt_priority |-> rt_priority]

\* The handler leaves the scheduler's state as r.
Becomes(r) ==
    \E s \in {r} :
        /\ state' = s.state /\ queue' = s.queue /\ current' = s.current
        /\ need_resched' = s.need_resched /\ cpu_count' = s.cpu_count
        /\ priority' = s.priority /\ policy' = s.policy
        /\ rt_priority' = s.rt_priority

TypeOK == /\ state \in [Proc -> {"RUNNING", "SLEEPING", "STOPPED"}]
          /\ queue \in Seq(Proc)
          /\ current \in Proc \cup {IDLE}
          /\ need_resched \in BOOLEAN
          /\ cpu_count \in [Proc -> 0 .. Longest]
          /\ priority \in [Proc -> Quanta]
          /\ policy \in [Proc -> {"OTHER", "FIFO", "RR"}]
          /\ rt_priority \in [Proc -> 0 .. 99]
          /\ mode \in [Proc -> {"user", "kernel"}]
          /\ idle \in {"check", "tohlt", "hlt"}

Init == /\ state = [p \in Proc |-> "RUNNING"]
        /\ queue \in Arrangements(Proc)
        /\ current = IDLE
        /\ need_resched = TRUE
        /\ cpu_count = [p \in Proc |-> DEF_PRIORITY]
        /\ priority = [p \in Proc |-> DEF_PRIORITY]
        /\ policy = [p \in Proc |-> "OTHER"]
        /\ rt_priority = [p \in Proc |-> 0]
        /\ mode = [p \in Proc |-> "user"]
        /\ idle = "check"

-----------------------------------------------------------------------------
(* The operations on the scheduler's state. *)

\* not_runnable().
Unlinked(q, p) == IF p \in Range(q) THEN RemoveAt(q, CHOOSE i \in DOMAIN q : q[i] = p)
                  ELSE q
Off(r, p, s) == [r EXCEPT !.state[p] = s, !.queue = Unlinked(@, p)]

\* (wrong: the state is not looked at.)
WakenedAgain(r, p) == [r EXCEPT !.state[p] = "RUNNING", !.queue = <<p>> \o @]

\* (wrong: need_resched is not set.)
WakenedUnseen(r, p) ==
    IF r.state[p] = "RUNNING" THEN r
    ELSE [r EXCEPT !.state[p] = "RUNNING", !.queue = <<p>> \o @,
                   !.cpu_count[p] = r.priority[p]]

\* wakeup() or wakeup_proc() of p: a new quantum, the head of the queue.
Wakened(r, p) ==
    IF r.state[p] = "RUNNING" THEN r
    ELSE [r EXCEPT !.state[p] = "RUNNING",
                   !.queue = <<p>> \o @,
                   !.cpu_count[p] = r.priority[p],
                   !.need_resched = TRUE]

\* The wakeup of the one process of P, if there is one.
WakenedIn(r, P) == IF P = {} THEN r ELSE Wakened(r, CHOOSE p \in P : TRUE)

\* (wrong: the quantum goes below zero.)
TickedBelow(r) ==
    IF r.current = IDLE THEN r
    ELSE [r EXCEPT !.cpu_count[r.current] = @ - 1,
                   !.need_resched = @ \/ r.cpu_count[r.current] <= 1]


\* The end of irq_timer_bh().
Ticked(r) ==
    IF r.current = IDLE THEN r
    ELSE [r EXCEPT !.cpu_count[r.current] = IF @ <= 1 THEN 0 ELSE @ - 1,
                   !.need_resched = @ \/ r.cpu_count[r.current] <= 1]

\* psig() stops the running process, and wakes its parent if that waits.
Stopped(r, parent) ==
    [WakenedIn(Off(r, r.current, "STOPPED"), parent) EXCEPT !.need_resched = TRUE]

\* check_signals64(): no signal that stops (no parent to tell), or one.
Signalled(r, stop, parent) == IF stop THEN Stopped(r, parent) ELSE r

\* The processes of T on q that no other beats (beats is a relation): the loops
\* of do_sched() pass over the others, and replace the selected process by a
\* strictly better one only, so that the first of the best is selected.
Unbeaten(q, T, beats) ==
    {i \in DOMAIN q : q[i] \in T /\ \A j \in DOMAIN q : q[j] \in T => <<q[j], q[i]>> \notin beats}
FirstBest(q, T, beats) ==
    LET best == Unbeaten(q, T, beats)
    IN q[CHOOSE i \in best : \A j \in best : i <= j]

\* (wrong: a process that has just gone to sleep goes on.)
GoesOnAsleep(r) == r.current # IDLE /\ r.cpu_count[r.current] > 0

\* The early return of do_sched(): current consumes its time slice.
GoesOn(r) == /\ r.current # IDLE /\ r.state[r.current] = "RUNNING"
             /\ r.cpu_count[r.current] > 0

\* current goes on if it has quantum left.  Otherwise the best real-time
\* process; failing that the ordinary process with most quantum, after a new
\* quantum for all when none has any; failing that IDLE.
do_sched(r) ==
    LET rt == {p \in Range(r.queue) : r.policy[p] # "OTHER"}
        urgent == {b \in Proc \X Proc :
                      \/ r.rt_priority[b[1]] > r.rt_priority[b[2]]
                      \/ /\ r.rt_priority[b[1]] = r.rt_priority[b[2]]
                         /\ r.cpu_count[b[1]] > r.cpu_count[b[2]]}
        best == FirstBest(r.queue, rt, urgent)
        spent == \A p \in Range(r.queue) : r.cpu_count[p] = 0
        quantum == [p \in Proc |-> IF spent /\ p \in Range(r.queue)
                                     THEN r.priority[p] ELSE r.cpu_count[p]]
        more == {b \in Proc \X Proc : quantum[b[1]] > quantum[b[2]]}
    IN IF GoesOn(r) THEN r
       ELSE IF rt # {}
         THEN [r EXCEPT !.need_resched = FALSE, !.current = best,
                        !.cpu_count[best] = IF r.policy[best] = "RR" /\ @ = 0
                                              THEN r.priority[best] ELSE @]
       ELSE IF r.queue # <<>>
         THEN [r EXCEPT !.need_resched = FALSE, !.cpu_count = quantum,
                        !.current = FirstBest(r.queue, Proc, more)]
       ELSE [r EXCEPT !.need_resched = FALSE, !.current = IDLE]

\* The tail of isr64_dispatch(): need_resched is cleared, then do_sched().
Resched(r) == IF r.need_resched THEN do_sched([r EXCEPT !.need_resched = FALSE]) ELSE r

-----------------------------------------------------------------------------
(* Processes. *)

Enter(p) == /\ current = p /\ mode[p] = "user"
            /\ mode' = [mode EXCEPT ![p] = "kernel"]
            /\ UNCHANGED <<sched, idle>>

\* sleep() or sleep_commit(): off the queue, and another process runs.
Block(p) == /\ current = p /\ mode[p] = "kernel"
            /\ Becomes(do_sched(Off(S, p, "SLEEPING")))
            /\ UNCHANGED <<mode, idle>>

\* A system call wakes another process.
Wake(p, q) == /\ current = p /\ mode[p] = "kernel" /\ p # q
              /\ state[q] # "RUNNING"
              /\ Becomes(Wakened(S, q))
              /\ UNCHANGED <<mode, idle>>

\* SIGCONT (or SIGKILL) to a stopped process: runnable(), the quantum kept.
Continue(p, q) == /\ current = p /\ mode[p] = "kernel" /\ p # q
                  /\ state[q] = "STOPPED"
                  /\ Becomes([S EXCEPT !.state[q] = "RUNNING",
                                       !.queue = <<q>> \o @,
                                       !.need_resched = TRUE])
                  /\ UNCHANGED <<mode, idle>>

\* The end of a system call made with the syscall instruction.
SyscallReturn(p, stop, parent) ==
    /\ current = p /\ mode[p] = "kernel" /\ p \notin parent
    /\ mode' = [mode EXCEPT ![p] = "user"]
    /\ Becomes(Signalled(S, stop, parent))
    /\ UNCHANGED idle

\* The end of an int 0x80, of a page fault or of another fault.
TrapReturn(p, stop, parent) ==
    /\ current = p /\ mode[p] = "kernel" /\ p \notin parent
    /\ mode' = [mode EXCEPT ![p] = "user"]
    /\ \E r \in {Signalled(S, stop, parent)} : Becomes(Resched(r))
    /\ UNCHANGED idle

sched_yield(p) == /\ current = p /\ mode[p] = "kernel"
                  /\ Becomes(do_sched([S EXCEPT !.cpu_count[p] = 0,
                                                !.need_resched = TRUE]))
                  /\ UNCHANGED <<mode, idle>>

\* tty_write() between two fills of the output queue.
tty_write(p) == /\ current = p /\ mode[p] = "kernel" /\ need_resched
                /\ Becomes(do_sched(S))
                /\ UNCHANGED <<mode, idle>>

\* The superuser gives process q a policy and a real-time priority.
sched_setscheduler(p, q, pol, prio) ==
    /\ current = p /\ mode[p] = "kernel"
    /\ Becomes([S EXCEPT !.policy[q] = pol,
                         !.rt_priority[q] = IF pol = "OTHER" THEN 0 ELSE prio,
                         !.priority[q] = IF pol = "OTHER" THEN DEF_PRIORITY ELSE 1,
                         !.cpu_count[q] = IF pol = "OTHER" THEN @ ELSE 1])
    /\ UNCHANGED <<mode, idle>>

\* nice_to_priority() of the new nice value, for real-time processes too.
setpriority(p, q, quantum) ==
    /\ current = p /\ mode[p] = "kernel"
    /\ Becomes([S EXCEPT !.priority[q] = quantum])
    /\ UNCHANGED <<mode, idle>>

-----------------------------------------------------------------------------
(* Interrupts: the handler and its bottom halves wake some processes, the
   timer's also accounts the tick. *)

Handled(timer, woken) ==
    LET r == WakenedIn(S, woken)
    IN IF timer THEN Ticked(r) ELSE r

\* A PIC interrupt in user mode: signals are taken, then need_resched.
UserIRQ(timer, woken, stop) ==
    /\ current # IDLE /\ mode[current] = "user"
    /\ \E r \in {Signalled(Handled(timer, woken), stop, {})} : Becomes(Resched(r))
    /\ UNCHANGED <<mode, idle>>

\* An interrupt in kernel mode (a kernel thread), or an MSI-X one.
QuietIRQ(timer, woken) == /\ current # IDLE
                          /\ timer => mode[current] = "kernel"
                          /\ Becomes(Handled(timer, woken))
                          /\ UNCHANGED <<mode, idle>>

\* An interrupt in the idle loop ends a hlt.  One that comes between the look
\* at need_resched and the hlt does not keep the CPU from halting.
IdleIRQ(timer, woken) == /\ current = IDLE
                         /\ Becomes(Handled(timer, woken))
                         /\ idle' = IF idle = "hlt" THEN "check" ELSE idle
                         /\ UNCHANGED mode

\* cpu_idle(): when IDLE is switched to again it goes on to the hlt.
IdleLoop == /\ current = IDLE /\ idle = "check"
            /\ Becomes(IF need_resched THEN do_sched(S) ELSE S)
            /\ idle' = "tohlt"
            /\ UNCHANGED mode

IdleHalt == /\ current = IDLE /\ idle = "tohlt"
            /\ idle' = "hlt"
            /\ UNCHANGED <<sched, mode>>

AtMostOne == {{}} \cup {{p} : p \in Proc}

Next == \/ \E p \in Proc : \/ Enter(p)
                           \/ Block(p)
                           \/ \E q \in Proc : Wake(p, q) \/ Continue(p, q)
                           \/ \E stop \in BOOLEAN, parent \in AtMostOne :
                                 \/ SyscallReturn(p, stop, parent)
                                 \/ TrapReturn(p, stop, parent)
                           \/ sched_yield(p)
                           \/ tty_write(p)
                           \/ \E q \in Proc, quantum \in Quanta : setpriority(p, q, quantum)
                           \/ \E q \in Proc, s \in SchedParams :
                                  sched_setscheduler(p, q, s[1], s[2])
        \/ \E timer \in BOOLEAN, woken \in AtMostOne :
              \/ \E stop \in BOOLEAN : UserIRQ(timer, woken, stop)
              \/ QuietIRQ(timer, woken)
              \/ IdleIRQ(timer, woken)
        \/ IdleLoop
        \/ IdleHalt

Spec == Init /\ [][Next]_vars

\* A timer interrupt changes something by itself.  (Where it does not, the
\* fairness of the timer must not stand for a signal or a wakeup with it.)
TickCounts == current # IDLE /\ mode[current] = "user" /\ Resched(Ticked(S)) # S

\* System calls end or sleep.  The timer ticks for ever: with interrupts off in
\* system calls, a pending tick is taken as soon as user mode is back.
FairSpec ==
    /\ Spec
    /\ \A p \in Proc : WF_vars(Block(p) \/ \E stop \in BOOLEAN, parent \in AtMostOne :
                                                SyscallReturn(p, stop, parent))
    /\ SF_vars(TickCounts /\ \E woken \in AtMostOne, stop \in BOOLEAN : UserIRQ(TRUE, woken, stop))
    /\ WF_vars(\E woken \in AtMostOne : IdleIRQ(TRUE, woken))
    /\ WF_vars(IdleLoop)
    /\ WF_vars(IdleHalt)

-----------------------------------------------------------------------------
(* Properties. *)

\* The run queue holds the runnable processes, each once, whatever mix of
\* sleeps, stops, wakeups and SIGCONTs came in whatever order: a process listed
\* twice, or stopped and still listed, would be run by do_sched().
QueueIsTheRunnable == /\ IsInjective(queue)
                      /\ Range(queue) = {p \in Proc : state[p] = "RUNNING"}

\* The CPU never goes on executing a process that has gone to sleep: do_sched()
\* does not come back to a sleeper before a wakeup.
SleepersAreOffTheCPU == current # IDLE => state[current] # "SLEEPING"

\* The CPU idles while a process is runnable only with need_resched set, so
\* that cpu_idle() gives the CPU away the next time around its loop.
IdleKnowsOfWork == current = IDLE /\ queue # <<>> => need_resched

\* An idle CPU is given to a process that becomes runnable, even when the
\* wakeup comes between the look at need_resched and the hlt.
IdleGivesWay == (current = IDLE /\ queue # <<>>) ~> current # IDLE


\* No runnable real-time process has a claim to the CPU before the running one.
MostUrgent ==
    \A p \in Proc : state[p] = "RUNNING" /\ policy[p] # "OTHER"
                       => /\ current # IDLE /\ policy[current] # "OTHER"
                          /\ rt_priority[current] >= rt_priority[p]

\* Whenever the CPU changes hands, by a sleep, a yield, an interrupt or out of
\* the idle loop, and whatever was woken or stopped on the way, it goes to a
\* real-time process of the highest rt_priority if one is runnable.
SwitchesToTheMostUrgent == [][current' # current => MostUrgent']_vars

\* sched.c: "SCHED_OTHER runs only when no RT process is runnable".  Whenever
\* a pending need_resched has been dealt with, the running process is a
\* real-time one if any is runnable.
RealTimeDominates ==
    [][ /\ need_resched /\ ~need_resched'
        /\ \E p \in Proc : state'[p] = "RUNNING" /\ policy'[p] # "OTHER"
        => current' # IDLE /\ policy'[current'] # "OTHER" ]_vars

\* rt_sched.c: "SCHED_FIFO (1, runs to completion)".  In user mode a FIFO
\* process loses the CPU only by stopping or to a higher rt_priority.
FIFORunsToCompletion ==
    [][ \A p \in Proc :
          /\ current = p /\ policy[p] = "FIFO" /\ mode[p] = "user"
          /\ current' # p
          => \/ state'[p] # "RUNNING"
             \/ current' # IDLE /\ rt_priority[current'] > rt_priority[p] ]_vars

\* idt64.c: the tail that deals with need_resched "covers syscalls".  A process
\* stopped by a signal leaves the CPU, and so stays stopped until it is woken.
StoppedStaysStopped ==
    [][ \A p \in Proc : state[p] = "STOPPED" => state'[p] \in {"STOPPED", "RUNNING"} ]_vars
=============================================================================
