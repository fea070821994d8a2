------------------------------- MODULE Sleep -------------------------------
(***************************************************************************)
(* kernel/sleep.c with the data structures it uses: the run queue (a       *)
(* doubly linked list threaded through next_run and prev_run) and the      *)
(* sleep table (hash buckets of lists threaded through next_sleep and      *)
(* prev_sleep).  The callers are those of module SleepSpec, which this     *)
(* module implements.  Each call is one step but wakeup(), each iteration  *)
(* of whose loop is one: interrupts are off, so that nothing else happens  *)
(* until it ends.  Which runnable process gets the CPU is the business of  *)
(* module Sched.                                                           *)
(***************************************************************************)
EXTENDS ListOps

CONSTANTS Proc, Chan, NULL,
          Bucket,          \* the buckets of sleep_hash_table
          SLEEP_HASH       \* the bucket of each channel

ASSUME ProcTable == IsFiniteSet(Proc) /\ NULL \notin Proc \cup Chan

ASSUME HashIsRight == SLEEP_HASH \in [Chan -> Bucket]

VARIABLES m,         \* the processes, the run queue and the sleep table
          waking,    \* the channel of the wakeup() in progress, or NULL
          h          \* where its loop keeps the pointer to the process it looks
                     \* at: NULL for the bucket itself, q for q->next_sleep

vars == <<m, waking, h>>

Link == Proc \cup {NULL}

MType == [state : [Proc -> {"RUNNING", "SLEEPING", "STOPPED"}],
          sleep_address : [Proc -> Chan \cup {NULL}],
          notint : SUBSET Proc,
          next_run : [Proc -> Link], prev_run : [Proc -> Link],
          proc_run_head : Link,
          next_sleep : [Proc -> Link], prev_sleep : [Proc -> Link],
          sleep_hash_table : [Bucket -> Link]]

-----------------------------------------------------------------------------
(* The lists. *)

\* p leaves the list: its neighbours are joined.  (Its own links are kept.)
Joined(next, prev, p) == [q \in Proc |-> IF q = prev[p] THEN next[p] ELSE next[q]]

runnable(r, p) ==
    IF r.state[p] = "RUNNING" THEN r
    ELSE [r EXCEPT !.next_run[p] = IF r.proc_run_head # NULL THEN r.proc_run_head ELSE @,
                   !.prev_run = [q \in Proc |-> IF q = r.proc_run_head THEN p ELSE @[q]],
                   !.proc_run_head = p,
                   !.state[p] = "RUNNING"]

\* (wrong: the head of the queue is not moved on.)
not_runnable_keeps_head(r, p, s) ==
    [r EXCEPT !.prev_run = [Joined(r.prev_run, r.next_run, p) EXCEPT ![p] = NULL],
              !.next_run = [Joined(r.next_run, r.prev_run, p) EXCEPT ![p] = NULL],
              !.state[p] = s]

not_runnable(r, p, s) ==
    [r EXCEPT !.prev_run = [Joined(r.prev_run, r.next_run, p) EXCEPT ![p] = NULL],
              !.next_run = [Joined(r.next_run, r.prev_run, p) EXCEPT ![p] = NULL],
              !.proc_run_head = IF @ = p THEN r.next_run[p] ELSE @,
              !.state[p] = s]

\* p becomes the head of the bucket of channel a.
Register(r, p, a) ==
    LET b == SLEEP_HASH[a]
        first == r.sleep_hash_table[b]
    IN [r EXCEPT !.next_sleep[p] = first,
                 !.prev_sleep = [q \in Proc |-> IF q = p THEN NULL
                                                ELSE IF q = first THEN p ELSE @[q]],
                 !.sleep_hash_table[b] = p,
                 !.sleep_address[p] = a]

\* The two assignments that join the neighbours of p in its bucket.
UnlinkSleep(r, p) ==
    [r EXCEPT !.prev_sleep = Joined(r.prev_sleep, r.next_sleep, p),
              !.next_sleep = Joined(r.next_sleep, r.prev_sleep, p)]

\* (wrong: a process that is armed already is registered again.)
sleep_arm_again(r, p, a) == IF r.state[p] = "SLEEPING" THEN r ELSE Register(r, p, a)

sleep_arm(r, p, a) ==
    IF r.sleep_address[p] # NULL \/ r.state[p] = "SLEEPING" THEN r ELSE Register(r, p, a)

\* The walk to p through the bucket ends with *h = p->next_sleep.
sleep_disarm(r, p) ==
    IF r.sleep_address[p] = NULL THEN r
    ELSE LET b == SLEEP_HASH[r.sleep_address[p]]
             u == UnlinkSleep(r, p)
         IN [u EXCEPT !.sleep_hash_table[b] = IF @ = p THEN r.next_sleep[p] ELSE @,
                      !.sleep_address[p] = NULL,
                      !.next_sleep[p] = NULL,
                      !.prev_sleep[p] = NULL]

\* p, which the loop of wakeup() has found, is unregistered and woken.
Found(r, p) ==
    LET b == SLEEP_HASH[r.sleep_address[p]]
        asleep == r.state[p] = "SLEEPING"
        r1 == [r EXCEPT !.sleep_address[p] = NULL, !.notint = @ \ {p}]
        r2 == UnlinkSleep(IF asleep THEN runnable(r1, p) ELSE r1, p)
    IN [r2 EXCEPT !.sleep_hash_table[b] = IF h = NULL THEN r2.next_sleep[p] ELSE @]

\* (wrong: PF_NOTINTERRUPT is not looked at.)
wakeup_proc_any(r, p) ==
    IF r.state[p] \notin {"SLEEPING", "STOPPED"} THEN r
    ELSE LET b == SLEEP_HASH[r.sleep_address[p]]
             u == IF r.sleep_address[p] = NULL THEN r
                  ELSE [UnlinkSleep(r, p) EXCEPT !.sleep_hash_table[b] =
                                                     IF @ = p THEN r.next_sleep[p] ELSE @]
         IN runnable([u EXCEPT !.sleep_address[p] = NULL], p)

wakeup_proc(r, p) ==
    IF r.state[p] \notin {"SLEEPING", "STOPPED"} \/ p \in r.notint THEN r
    ELSE LET b == SLEEP_HASH[r.sleep_address[p]]
             u == IF r.sleep_address[p] = NULL THEN r
                  ELSE [UnlinkSleep(r, p) EXCEPT !.sleep_hash_table[b] =
                                                     IF @ = p THEN r.next_sleep[p] ELSE @]
         IN runnable([u EXCEPT !.sleep_address[p] = NULL], p)

-----------------------------------------------------------------------------
(* The calls. *)

\* After boot: the processes were made runnable one after the other.
Init ==
    /\ \E order \in Arrangements(Proc) :
          LET at(p) == CHOOSE i \in DOMAIN order : order[i] = p
          IN m = [state |-> [p \in Proc |-> "RUNNING"],
                  sleep_address |-> [p \in Proc |-> NULL],
                  notint |-> {},
                  next_run |-> [p \in Proc |-> IF at(p) = Len(order) THEN NULL ELSE order[at(p) + 1]],
                  prev_run |-> [p \in Proc |-> IF at(p) = 1 THEN NULL ELSE order[at(p) - 1]],
                  proc_run_head |-> IF order = <<>> THEN NULL ELSE order[1],
                  next_sleep |-> [p \in Proc |-> NULL],
                  prev_sleep |-> [p \in Proc |-> NULL],
                  sleep_hash_table |-> [b \in Bucket |-> NULL]]
    /\ waking = NULL /\ h = NULL

Executing(p) == m.state[p] \in {"RUNNING", "STOPPED"}

Unarmed(p) == m.sleep_address[p] = NULL

Sleep(p, a, interruptible) ==
    /\ Executing(p) /\ Unarmed(p)
    /\ LET r == Register(m, p, a)
           f == [r EXCEPT !.notint = IF interruptible THEN @ ELSE @ \cup {p}]
       IN m' = not_runnable(f, p, "SLEEPING")

Arm(p, a) == Executing(p) /\ m' = sleep_arm(m, p, a)

Disarm(p) == Executing(p) /\ m' = sleep_disarm(m, p)

\* (wrong: the kind of sleep is stored as the state.)
Commit_kind(p, interruptible) ==
    /\ Executing(p) /\ ~Unarmed(p)
    /\ m' = not_runnable(m, p, IF interruptible THEN "INTERRUPTIBLE" ELSE "SLEEPING")

Commit(p, interruptible) ==
    /\ Executing(p) /\ ~Unarmed(p)
    /\ LET f == [m EXCEPT !.notint = IF interruptible THEN @ ELSE @ \cup {p}]
       IN m' = not_runnable(f, p, "SLEEPING")

\* psig() stops the process.
Stop(p) == /\ Executing(p) /\ Unarmed(p)
           /\ m' = not_runnable(m, p, "STOPPED")

WakeupProc(p) == m' = wakeup_proc(m, p)

Calls == \E p \in Proc : \/ \E a \in Chan : Arm(p, a)
                         \/ \E a \in Chan, i \in BOOLEAN : Sleep(p, a, i)
                         \/ Disarm(p)
                         \/ \E i \in BOOLEAN : Commit(p, i)
                         \/ Stop(p)
                         \/ WakeupProc(p)

\* wakeup(a) begins at the head of the bucket.
Wakeup(a) == /\ waking = NULL
             /\ waking' = a
             /\ UNCHANGED <<m, h>>

\* The process the loop looks at: *h.
Met == IF h = NULL THEN m.sleep_hash_table[SLEEP_HASH[waking]] ELSE m.next_sleep[h]

\* It is registered on the channel: the next one comes to *h.
WakeupFinds == /\ waking # NULL /\ Met # NULL
               /\ m.sleep_address[Met] = waking
               /\ m' = Found(m, Met)
               /\ UNCHANGED <<waking, h>>

\* It is registered on another channel of the bucket: h moves on.
WakeupPasses == /\ waking # NULL /\ Met # NULL
                /\ m.sleep_address[Met] # waking
                /\ h' = Met
                /\ UNCHANGED <<m, waking>>

WakeupEnds == /\ waking # NULL /\ Met = NULL
              /\ waking' = NULL /\ h' = NULL
              /\ UNCHANGED m

Next == \/ waking = NULL /\ Calls /\ UNCHANGED <<waking, h>>
        \/ \E a \in Chan : Wakeup(a)
        \/ WakeupFinds
        \/ WakeupPasses
        \/ WakeupEnds

Spec == Init /\ [][Next]_vars

-----------------------------------------------------------------------------
(* Properties. *)

TypeOK == m \in MType /\ waking \in Chan \cup {NULL} /\ h \in Link

\* l is the list from head along next, and prev leads back along it.
IsList(l, head, next, prev) ==
    /\ head = IF l = <<>> THEN NULL ELSE l[1]
    /\ \A i \in DOMAIN l : /\ next[l[i]] = IF i = Len(l) THEN NULL ELSE l[i + 1]
                           /\ prev[l[i]] = IF i = 1 THEN NULL ELSE l[i - 1]

\* runnable()/not_runnable(): the run queue holds each RUNNING process once
\* and nobody else, although wakeup() also meets processes that are armed and
\* still running, and a stopped process is off the queue while it executes.
RunQueueExact ==
    \E l \in Arrangements({p \in Proc : m.state[p] = "RUNNING"}) :
        IsList(l, m.proc_run_head, m.next_run, m.prev_run)

\* The processes registered on the channels of bucket b.
InBucket(b) == {p \in Proc : m.sleep_address[p] # NULL /\ SLEEP_HASH[m.sleep_address[p]] = b}

\* sleep(), sleep_arm(), sleep_disarm(), wakeup(), wakeup_proc(): each bucket
\* lists exactly the processes registered on its channels, once, so that no
\* walk of a bucket loops, and no process is woken from two places.
SleepTableExact ==
    \A b \in Bucket : \E l \in Arrangements(InBucket(b)) :
        IsList(l, m.sleep_hash_table[b], m.next_sleep, m.prev_sleep)

Ops == INSTANCE SleepOps

\* The linked lists implement the contract of module SleepSpec.  A wakeup() has
\* happened when its loop begins: until it ends nobody sees the difference.
Visible == LET k == [state |-> m.state, sleep_address |-> m.sleep_address, notint |-> m.notint]
           IN IF waking = NULL THEN k ELSE Ops!wakeup(k, waking)

Contract == INSTANCE SleepSpec WITH k <- Visible

ImplementsSleepSpec == Contract!Spec
=============================================================================
