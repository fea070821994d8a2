---------------------------- MODULE ProcessLife ----------------------------
(***************************************************************************)
(* The life of a process: fork() and clone() (kernel/syscalls/fork.c),     *)
(* exit (exit.c), wait4() (wait4.c), the signals that end, stop, continue  *)
(* or interrupt it (kernel/signal.c) and the process table they work on    *)
(* (kernel/process.c).                                                     *)
(*                                                                         *)
(* The kernel is entered by one process at a time and is left only in      *)
(* do_sched(), so a call is one step from one sleep to the next.  wait4()  *)
(* sleeps between two scans of the table.  do_exit() may sleep in the      *)
(* closing of its descriptors and inodes, after its children were given    *)
(* to INIT and before it becomes a zombie.                                 *)
(*                                                                         *)
(* Four signals are told apart: SIGKILL, SIGCHLD, SIGCONT and SIGSTOP, in  *)
(* the order of their numbers.  Nobody changes session or process group.   *)
(***************************************************************************)
EXTENDS SleepOps, Integers, FiniteSets, SequencesExt

CONSTANTS init,           \* the slot of the process INIT, never exiting
          sys_wait4,      \* the address waiting parents sleep on
          ANY,            \* the pid argument -1 of wait4()
          MaxCounted,     \* bound: no thread is created once so many are counted
          Envs            \* the surroundings to check, see EnvType

ASSUME PidsSuffice == \A e \in Envs : e.MAX_PID_VALUE \in Nat /\ e.MAX_PID_VALUE >= Cardinality(e.slots)

VARIABLES s,        \* the process table
          lastpid,
          pc,       \* where a process is: user mode, wait4() or do_exit()
          want,     \* the arguments of the wait4() it is in
          env       \* what the processes of this behaviour do; rigid

vars == <<s, lastpid, pc, want, env>>

Pid == Nat
Signal == {"SIGKILL", "SIGCHLD", "SIGCONT", "SIGSTOP"}
Want == [pid : Pid \cup {ANY}, WNOHANG : BOOLEAN, WUNTRACED : BOOLEAN]
NoWant == [pid |-> ANY, WNOHANG |-> FALSE, WUNTRACED |-> FALSE]

\* slots: the part of the table there is; forkers: the slots whose processes
\* fork; signals: those sent by kill(); handlers: the dispositions given to
\* SIGCHLD; threads: whether processes create threads; threadsfork: whether
\* threads fork; wants: the wait4() calls made.
EnvType == [slots : SUBSET Proc, MAX_PID_VALUE : Nat, forkers : SUBSET Proc,
            signals : SUBSET Signal, handlers : SUBSET {"DFL", "IGN", "HANDLER"},
            threads : BOOLEAN, threadsfork : BOOLEAN, wants : SUBSET Want]

TableType == [k : KType,
              table : Seq(Proc),
              pid : [Proc -> Pid], tgid : [Proc -> Pid],
              ppid : [Proc -> Proc \cup {NULL}],
              children : [Proc -> Int],
              PF_THREAD : SUBSET Proc,
              reportable : SUBSET Proc,
              sigpending : [Proc -> SUBSET Signal],
              sigchld : [Proc -> {"DFL", "IGN", "HANDLER"}],
              sigblocked : SUBSET Proc, sigexecuting : SUBSET Proc]

TypeOK == /\ s \in TableType
          /\ lastpid \in Pid
          /\ pc \in [Proc -> {"user", "wait", "asleep", "exit"}]
          /\ want \in [Proc -> Want]
          /\ env \in Envs

\* INIT runs; every other slot is free (proc_init, init_init).
Init == /\ env \in Envs
        /\ s = [k |-> [KInit EXCEPT !.state = [p \in Proc |-> IF p = init THEN "RUNNING" ELSE "UNUSED"]],
                table |-> <<init>>,
                pid |-> [p \in Proc |-> IF p = init THEN 1 ELSE 0],
                tgid |-> [p \in Proc |-> IF p = init THEN 1 ELSE 0],
                ppid |-> [p \in Proc |-> NULL],
                children |-> [p \in Proc |-> 0],
                PF_THREAD |-> {}, reportable |-> {},
                sigpending |-> [p \in Proc |-> {}],
                sigchld |-> [p \in Proc |-> "DFL"],
                sigblocked |-> {}, sigexecuting |-> {}]
        /\ lastpid = 1
        /\ pc = [p \in Proc |-> "user"]
        /\ want = [p \in Proc |-> NoWant]

-----------------------------------------------------------------------------
(* The process table (kernel/process.c). *)

Used(r) == ToSet(r.table)

\* The slots of S are cleared and are free again.
Released(r, S) ==
    [k |-> [r.k EXCEPT !.state = [p \in Proc |-> IF p \in S THEN "UNUSED" ELSE @[p]]],
     table |-> SelectSeq(r.table, LAMBDA p : p \notin S),
     pid |-> [p \in Proc |-> IF p \in S THEN 0 ELSE r.pid[p]],
     tgid |-> [p \in Proc |-> IF p \in S THEN 0 ELSE r.tgid[p]],
     ppid |-> [p \in Proc |-> IF p \in S THEN NULL ELSE r.ppid[p]],
     children |-> [p \in Proc |-> IF p \in S THEN 0 ELSE r.children[p]],
     PF_THREAD |-> r.PF_THREAD \ S, reportable |-> r.reportable \ S,
     sigpending |-> [p \in Proc |-> IF p \in S THEN {} ELSE r.sigpending[p]],
     sigchld |-> [p \in Proc |-> IF p \in S THEN "DFL" ELSE r.sigchld[p]],
     sigblocked |-> r.sigblocked \ S, sigexecuting |-> r.sigexecuting \ S]

release_proc(r, p) == Released(r, {p})

\* remove_zombie() of each process of S: the parent counts one child less.
Reaped(r, S) ==
    LET freed == Released(r, S)
    IN [freed EXCEPT !.children =
            [p \in Proc |-> @[p] - Cardinality({q \in S : r.ppid[q] = p})]]

\* The pid after last, cyclically from INIT's, that no process has.
get_unused_pid(r, last) ==
    LET cyclic == [i \in 1 .. env.MAX_PID_VALUE |-> ((last + i - 1) % env.MAX_PID_VALUE) + 1]
        free == {i \in 1 .. env.MAX_PID_VALUE : \A p \in Used(r) : r.pid[p] # cyclic[i]}
    IN cyclic[CHOOSE i \in free : \A j \in free : i <= j]

-----------------------------------------------------------------------------
(* wait4(): whose children, and which of them. *)

\* The thread group leader, if it still exists.
Owner(r, p) ==
    LET leader == {q \in Used(r) : r.pid[q] = r.tgid[p]}
    IN IF leader = {} THEN p ELSE CHOOSE q \in leader : TRUE

IsChild(r, owner, q) == r.ppid[q] # NULL /\ r.tgid[r.ppid[q]] = r.tgid[owner]

Matches(r, q, w) == w.pid = ANY \/ w.pid = r.pid[q]

\* A stopped child the scan passes over; `flag' is then left as it is.
SkippedStopped(r, q, w) == /\ r.k.state[q] = "STOPPED"
                           /\ ~w.WUNTRACED \/ q \notin r.reportable

\* `flag' at the i-th process of the table: set by its own pid, or left over
\* from a stopped child before it.
Flagged(r, owner, w, i) ==
    /\ IsChild(r, owner, r.table[i])
    /\ \/ Matches(r, r.table[i], w)
       \/ \E j \in 1 .. i - 1 :
            /\ IsChild(r, owner, r.table[j]) /\ Matches(r, r.table[j], w)
            /\ \A m \in j .. i - 1 : IsChild(r, owner, r.table[m]) => SkippedStopped(r, r.table[m], w)

\* The positions at which a scan ends with a child to return.
Found(r, owner, w) ==
    {i \in DOMAIN r.table :
        /\ Flagged(r, owner, w, i)
        /\ \/ r.k.state[r.table[i]] = "ZOMBIE"
           \/ r.k.state[r.table[i]] = "STOPPED" /\ ~SkippedStopped(r, r.table[i], w)}

\* What a scan returns: the first one found is reaped, or its stop reported.
Take(r, owner, w) ==
    LET found == Found(r, owner, w)
        q == r.table[CHOOSE i \in found : \A j \in found : i <= j]
    IN IF r.k.state[q] = "ZOMBIE" THEN Reaped(r, {q})
       ELSE [r EXCEPT !.reportable = @ \ {q}]

\* while(sys_waitpid(-1, NULL, WNOHANG) > 0): the zombies in the order of the
\* table, as long as the leader counts children.
ReapAll(r, cur) ==
    LET owner == Owner(r, cur)
        zombie(i) == r.k.state[r.table[i]] = "ZOMBIE" /\ IsChild(r, owner, r.table[i])
        own(i) == {j \in 1 .. i - 1 : zombie(j) /\ r.ppid[r.table[j]] = owner}
    IN Reaped(r, {r.table[i] : i \in {j \in DOMAIN r.table :
                      zombie(j) /\ Cardinality(own(j)) < r.children[owner]}})

-----------------------------------------------------------------------------
(* Signals (kernel/signal.c).  cur is the process that runs. *)

\* SIGKILL and SIGCONT resume a stopped process and cancel a pending stop.
Resumed(r, p, sig) ==
    IF sig \in {"SIGKILL", "SIGCONT"}
      THEN [r EXCEPT !.k = IF @.state[p] = "STOPPED" THEN runnable(@, p) ELSE @,
                     !.sigpending[p] = @ \ {"SIGSTOP"}]
      ELSE r

\* Whether sig reaches p: SIGCONT and SIGCHLD do nothing by default.
Dropped(r, p, sig) == sig = "SIGCONT" \/ (sig = "SIGCHLD" /\ r.sigchld[p] # "HANDLER")

Blocked(r, p) == IF p \in r.sigblocked THEN {"SIGCHLD"} ELSE {}

\* A SIGCHLD that p ignores makes cur, not p, reap its children.
send_sig(r, cur, p, sig) ==
    LET t == Resumed(r, p, sig)
    IN IF Dropped(t, p, sig)
         THEN IF sig = "SIGCHLD" /\ t.sigchld[p] = "IGN" THEN ReapAll(t, cur) ELSE t
         ELSE [t EXCEPT !.sigpending[p] = @ \cup {sig},
                        !.k = IF sig \in Blocked(t, p) THEN @ ELSE wakeup_proc(@, p)]

\* The signal issig() returns to p, the lowest pending one that is not ignored.
issig(r, p) ==
    IF r.sigpending[p] \subseteq Blocked(r, p) THEN "none"
    ELSE IF "SIGKILL" \in r.sigpending[p] THEN "SIGKILL"
    ELSE IF "SIGCHLD" \in r.sigpending[p] /\ r.sigchld[p] = "HANDLER" THEN "SIGCHLD"
    ELSE IF "SIGSTOP" \in r.sigpending[p] THEN "SIGSTOP"
    ELSE "none"

\* What issig() does on the way: a SIGCHLD without a handler is taken back,
\* and when it is ignored the zombies are removed.
AfterIssig(r, p) ==
    LET meets == /\ ~(r.sigpending[p] \subseteq Blocked(r, p))
                 /\ "SIGKILL" \notin r.sigpending[p] /\ "SIGCHLD" \in r.sigpending[p]
        zombies == {q \in Used(r) : r.ppid[q] = p /\ r.k.state[q] = "ZOMBIE"}
        t == IF r.sigchld[p] = "IGN" THEN Reaped(r, zombies) ELSE r
    IN IF meets /\ r.sigchld[p] # "HANDLER" THEN [t EXCEPT !.sigpending[p] = @ \ {"SIGCHLD"}] ELSE r

\* psig() enters the handler, with SIGCHLD blocked until it returns.
Handles(r, p) == [r EXCEPT !.sigpending[p] = @ \ {"SIGCHLD"},
                           !.sigexecuting = @ \cup {p}, !.sigblocked = @ \cup {p}]

\* psig() stops the process and tells its parent.
Stops(r, p) ==
    LET t == [r EXCEPT !.sigpending[p] = @ \ {"SIGSTOP"},
                       !.reportable = @ \cup {p},
                       !.k = not_runnable(@, p, "STOPPED")]
        u == send_sig(t, p, t.ppid[p], "SIGCHLD")
    IN [u EXCEPT !.k = wakeup(@, sys_wait4)]

-----------------------------------------------------------------------------
(* do_exit(). *)

\* (wrong: only living children are given away.)
InheritedLiving(r, p) ==
    LET kids == {q \in Used(r) : r.ppid[q] = p /\ r.k.state[q] # "ZOMBIE"}
    IN [r EXCEPT !.ppid = [q \in Proc |-> IF q \in kids THEN init ELSE @[q]],
                 !.children = [@ EXCEPT ![init] = @ + Cardinality(kids), ![p] = @ - Cardinality(kids)]]

\* INIT inherits the children of p, and learns of the zombies among them.  If
\* it ignores SIGCHLD, p reaps the zombies that follow the first one.
Inherited(r, p) ==
    LET zombies == {i \in DOMAIN r.table : r.ppid[r.table[i]] = p /\ r.k.state[r.table[i]] = "ZOMBIE"}
        reaped == IF r.sigchld[init] # "IGN" THEN {}
                  ELSE {r.table[i] : i \in {j \in zombies : \E l \in zombies : l < j}}
        t == Reaped(r, reaped)
        kids == {q \in Used(t) : t.ppid[q] = p}
        u == [t EXCEPT !.ppid = [q \in Proc |-> IF q \in kids THEN init ELSE @[q]],
                       !.children = [@ EXCEPT ![init] = @ + Cardinality(kids),
                                              ![p] = @ - Cardinality(kids)]]
        v == IF u.sigchld[init] = "IGN" THEN u ELSE send_sig(u, p, init, "SIGCHLD")
    IN IF zombies = {} THEN u
       ELSE [v EXCEPT !.k = IF @.sleep_address[init] = sys_wait4 THEN wakeup_proc(@, init) ELSE @]

\* (wrong: only the task that forked is woken.)
ZombieWakesParent(r, p) ==
    LET z == [r EXCEPT !.k = not_runnable(@, p, "ZOMBIE"),
                       !.sigpending[p] = {}, !.sigchld[p] = "IGN",
                       !.sigblocked = @ \ {p}, !.sigexecuting = @ \ {p}]
        t == send_sig(z, p, z.ppid[p], "SIGCHLD")
    IN [t EXCEPT !.k = IF @.sleep_address[t.ppid[p]] = sys_wait4 THEN wakeup_proc(@, t.ppid[p]) ELSE @]

\* A zombie first, then the parent's SIGCHLD, then every process in wait4().
Zombie(r, p) ==
    LET z == [r EXCEPT !.k = not_runnable(@, p, "ZOMBIE"),
                       !.sigpending[p] = {}, !.sigchld[p] = "IGN",
                       !.sigblocked = @ \ {p}, !.sigexecuting = @ \ {p}]
        t == send_sig(z, p, z.ppid[p], "SIGCHLD")
    IN [t EXCEPT !.k = wakeup(@, sys_wait4)]

\* do_exit() to its first sleep.  A thread gives its slot back at once.
do_exit(r, p) ==
    IF p \in r.PF_THREAD
      THEN /\ s' = release_proc(r, p)
           /\ pc' = [pc EXCEPT ![p] = "user"]
      ELSE /\ s' = Inherited(r, p)
           /\ pc' = [pc EXCEPT ![p] = "exit"]

-----------------------------------------------------------------------------
(* The steps. *)

At(p, l) == pc[p] = l /\ s.k.state[p] = "RUNNING"

\* fork() when thread is FALSE, clone(CLONE_VM | CLONE_THREAD) when it is TRUE.
\* INIT has no threads.  The exit of a thread leaves `children' as it is, so the
\* count grows with every thread: hence the bound.
Fork(p, thread) ==
    /\ At(p, "user") /\ ~(env.slots \subseteq Used(s))
    /\ IF p \in s.PF_THREAD THEN env.threadsfork ELSE p \in env.forkers
    /\ thread => /\ env.threads /\ p # init
                 /\ s.children[p] < MaxCounted /\ s.children[init] < MaxCounted
    /\ LET c == CHOOSE q \in env.slots \ Used(s) : TRUE
           id == get_unused_pid(s, lastpid)
       IN /\ s' = [s EXCEPT !.table = Append(@, c),
                            !.k = runnable(@, c),
                            !.pid[c] = id,
                            !.tgid[c] = IF thread THEN s.tgid[p] ELSE id,
                            !.ppid[c] = p,
                            !.PF_THREAD = IF thread THEN @ \cup {c} ELSE @,
                            !.sigchld[c] = s.sigchld[p],
                            !.sigblocked = IF p \in @ THEN @ \cup {c} ELSE @,
                            !.children[p] = @ + 1]
          /\ lastpid' = id
    /\ UNCHANGED <<pc, want, env>>

Exit(p) == /\ At(p, "user") /\ p # init
           /\ do_exit(s, p)
           /\ UNCHANGED <<lastpid, want, env>>

ExitEnds(p) == /\ At(p, "exit")
               /\ s' = Zombie(s, p)
               /\ pc' = [pc EXCEPT ![p] = "user"]
               /\ UNCHANGED <<lastpid, want, env>>

Wait4(p, w) == /\ At(p, "user") /\ w \in env.wants
               /\ pc' = [pc EXCEPT ![p] = "wait"]
               /\ want' = [want EXCEPT ![p] = w]
               /\ UNCHANGED <<s, lastpid, env>>

Returns(p) == /\ pc' = [pc EXCEPT ![p] = "user"]
              /\ want' = [want EXCEPT ![p] = NoWant]
              /\ UNCHANGED <<lastpid, env>>

\* sigpending &= ~SIG_MASK(SIGCHLD): SIG_MASK is the complement of the signal's
\* bit, so SIGCHLD is all that is kept.
OnlySigchldLeft(r, p) == [r EXCEPT !.sigpending[p] = @ \cap {"SIGCHLD"}]

Interrupted(r, p) == s' = OnlySigchldLeft(AfterIssig(r, p), p) /\ Returns(p)

\* (wrong: under WNOHANG the first living child ends the scan.)
ScanReturnsEarly(r, p) ==
    LET owner == Owner(r, p)
        found == Found(r, owner, want[p])
        living == \E i \in DOMAIN r.table :
                     /\ IsChild(r, owner, r.table[i]) /\ r.k.state[r.table[i]] # "ZOMBIE"
                     /\ \A j \in found : i < j
        none == r.children[owner] = 0 \/ (want[p].WNOHANG /\ living)
    IN /\ none \/ found # {} \/ want[p].WNOHANG
       /\ s' = IF ~none /\ found # {} THEN Take(r, owner, want[p]) ELSE r
       /\ Returns(p)

\* A scan that ends with a child, without children, or without a match.
ScanReturns(r, p) ==
    LET owner == Owner(r, p)
        found == Found(r, owner, want[p])
        none == r.children[owner] = 0
    IN /\ none \/ found # {} \/ want[p].WNOHANG
       /\ s' = IF ~none /\ found # {} THEN Take(r, owner, want[p]) ELSE r
       /\ Returns(p)

\* A scan that finds nothing to return sleeps, unless a signal is pending.
ScanSleeps(r, p) ==
    LET owner == Owner(r, p)
    IN /\ r.children[owner] # 0 /\ Found(r, owner, want[p]) = {} /\ ~want[p].WNOHANG
       /\ IF issig(r, p) # "none" THEN Interrupted(r, p)
          ELSE /\ s' = [AfterIssig(r, p) EXCEPT !.k = sleep(@, p, sys_wait4, TRUE)]
               /\ pc' = [pc EXCEPT ![p] = "asleep"]
               /\ UNCHANGED <<lastpid, want, env>>

Scan(r, p) == ScanReturns(r, p) \/ ScanSleeps(r, p)

FirstScan(p) == At(p, "wait") /\ Scan(s, p)

\* sleep() returned: with a signal to report, or to scan again.
Wakes(p) ==
    /\ At(p, "asleep")
    /\ IF issig(s, p) # "none" THEN Interrupted(s, p)
       ELSE LET r == OnlySigchldLeft(AfterIssig(s, p), p) IN Scan(r, p)

\* kill() of a process that is not a zombie.
Kill(p, sig) == /\ p \in Used(s) \ {init} /\ s.k.state[p] # "ZOMBIE"
                /\ sig \in env.signals
                /\ s' = send_sig(s, p, p, sig)
                /\ UNCHANGED <<lastpid, pc, want, env>>

\* A return to user mode with signals pending: issig(), psig().
check_signals(p) ==
    /\ At(p, "user")
    /\ LET r == AfterIssig(s, p)
           sig == issig(s, p)
       IN \/ /\ sig = "SIGKILL"
             /\ do_exit([r EXCEPT !.sigpending[p] = @ \ {sig}], p)
          \/ sig = "SIGCHLD" /\ s' = Handles(r, p) /\ UNCHANGED pc
          \/ sig = "SIGSTOP" /\ s' = Stops(r, p) /\ UNCHANGED pc
          \/ sig = "none" /\ r # s /\ s' = r /\ UNCHANGED pc
    /\ UNCHANGED <<lastpid, want, env>>

rt_sigaction(p, h) == /\ At(p, "user") /\ h \in env.handlers /\ h # s.sigchld[p]
                      /\ s' = [s EXCEPT !.sigchld[p] = h]
                      /\ UNCHANGED <<lastpid, pc, want, env>>

rt_sigreturn(p) == /\ At(p, "user") /\ p \in s.sigexecuting
                   /\ s' = [s EXCEPT !.sigexecuting = @ \ {p}, !.sigblocked = @ \ {p}]
                   /\ UNCHANGED <<lastpid, pc, want, env>>

Next == \E p \in Proc : \/ \E thread \in BOOLEAN : Fork(p, thread)
                        \/ Exit(p) \/ ExitEnds(p)
                        \/ \E w \in env.wants : Wait4(p, w)
                        \/ FirstScan(p) \/ Wakes(p)
                        \/ \E sig \in env.signals : Kill(p, sig)
                        \/ check_signals(p)
                        \/ \E h \in env.handlers : rt_sigaction(p, h)
                        \/ rt_sigreturn(p)

Spec == Init /\ [][Next]_vars

-----------------------------------------------------------------------------
(* Properties. *)

ChildrenOf(r, p) == {q \in Used(r) : r.ppid[q] = p}

\* do_exit(), fork(), remove_zombie(): every process has a parent that exists
\* and has not exited, and that counts at least its children, so that no zombie
\* is out of reach of every wait4().  Without threads the count is exact.
FamiliesHold ==
    \A p \in Used(s) :
        /\ p # init => /\ s.ppid[p] \in Used(s)
                       /\ s.k.state[s.ppid[p]] # "ZOMBIE"
        /\ s.children[p] >= Cardinality(ChildrenOf(s, p))
        /\ ~env.threads => s.children[p] = Cardinality(ChildrenOf(s, p))

\* The children p's wait4() asks about that it can return.
Ready(p) ==
    {q \in Used(s) :
        /\ IsChild(s, Owner(s, p), q) /\ Matches(s, q, want[p])
        /\ \/ s.k.state[q] = "ZOMBIE"
           \/ s.k.state[q] = "STOPPED" /\ want[p].WUNTRACED /\ q \in s.reportable}

\* do_exit(), psig(): nobody, neither the parent nor another thread of its
\* process nor the INIT that inherits a zombie, is left asleep in wait4() while
\* a child it asked about can be returned.  (INIT learns of a stopped child it
\* inherits only when the exit that gave it the child is over.)
NoChildMissed ==
    \A p \in Proc : s.k.state[p] = "SLEEPING" =>
        \A q \in Ready(p) : s.k.state[q] = "STOPPED" /\ p = init /\ \E x \in Proc : pc[x] = "exit"

\* wait4(): a call that returns takes a child it asked about whenever there was
\* one, unless a signal interrupted it; and it takes nothing else.
WaitAnswersRight ==
    [][\A p \in Proc :
         pc[p] \in {"wait", "asleep"} /\ pc'[p] = "user" =>
            LET taken == (Used(s) \ Used(s')) \cup (s.reportable \ s'.reportable)
            IN \/ taken = {} /\ (Ready(p) = {} \/ (pc[p] = "asleep" /\ issig(s, p) # "none"))
               \/ \E q \in Ready(p) : taken = {q}]_vars

\* wait4(): what a waiting process gives up of its pending signals is SIGCHLD.
OnlySigchldConsumed ==
    [][\A p \in Proc : pc[p] \in {"wait", "asleep"} =>
         s.sigpending[p] \ {"SIGCHLD", "SIGSTOP"} \subseteq s'.sigpending[p]]_vars
=============================================================================
