---------------------------- MODULE SchedProofs ----------------------------
(***************************************************************************)
(* Proofs about Sched, for any number of processes, quanta and policies:   *)
(* the run queue holds the runnable processes once each, no sleeper has    *)
(* the CPU, and the CPU does not idle in ignorance of work.                *)
(*                                                                         *)
(* Every handler is a composition of operators on the record S, so that    *)
(* the invariant is a predicate on such records: Sane says that the queue  *)
(* is right, which not_runnable() and the wakeups keep wherever they are   *)
(* called; Settled adds what must hold when the handler ends.  do_sched()  *)
(* makes of a sane record a settled one.                                   *)
(***************************************************************************)
EXTENDS Sched, ListLemmas, FiniteSetTheorems, WellFoundedInduction

\* TypeOK, of a record of the scheduler's state.
Typed(r) == /\ DOMAIN r = {"state", "queue", "current", "need_resched", "cpu_count",
                           "priority", "policy", "rt_priority"}
            /\ r.state \in [Proc -> {"RUNNING", "SLEEPING", "STOPPED"}]
            /\ r.queue \in Seq(Proc)
            /\ r.current \in Proc \cup {IDLE}
            /\ r.need_resched \in BOOLEAN
            /\ r.cpu_count \in [Proc -> 0 .. Longest]
            /\ r.priority \in [Proc -> Quanta]
            /\ r.policy \in [Proc -> {"OTHER", "FIFO", "RR"}]
            /\ r.rt_priority \in [Proc -> 0 .. 99]

Sane(r) == /\ Typed(r)
           /\ IsInjective(r.queue)
           /\ Range(r.queue) = {p \in Proc : r.state[p] = "RUNNING"}

Settled(r) == /\ Sane(r)
              /\ r.current # IDLE => r.state[r.current] # "SLEEPING"
              /\ r.current = IDLE /\ r.queue # <<>> => r.need_resched

\* MostUrgent, of a record.
Urgent(r) == \A p \in Proc : r.state[p] = "RUNNING" /\ r.policy[p] # "OTHER"
                               => /\ r.current # IDLE /\ r.policy[r.current] # "OTHER"
                                  /\ r.rt_priority[r.current] >= r.rt_priority[p]

\* In r, the CPU is still given to c, or has been to the most urgent process.
Given(r, c) == r.current = c \/ Urgent(r)

IInv == Settled(S) /\ mode \in [Proc -> {"user", "kernel"}] /\ idle \in {"check", "tohlt", "hlt"}

-----------------------------------------------------------------------------
(* Numbers. *)

\* A set of numbers has a least one.
LEMMA LeastIn ==
    ASSUME NEW U \in SUBSET Nat, U # {}
    PROVE  \E m \in U : \A u \in U : m <= u
<1>1. PICK m \in U : \A u \in U : <<u, m>> \notin OpToRel(<, Nat)
  BY NatLessThanWellFounded, WFMin, Zenon
<1>2. \A u \in U : ~(u < m)
  BY <1>1, Zenon DEF OpToRel
<1>. QED
  BY <1>2

\* The longest quantum.
LEMMA LongestIsLongest == Longest \in Nat /\ Quanta \subseteq 0 .. Longest /\ Quanta \subseteq 1 .. Longest
<1>1. Longest \in Quanta /\ \A q \in Quanta : q <= Longest
  BY QuantaAreBounded, Zenon DEF Longest
<1>. QED
  BY <1>1, QuantaAreBounded

-----------------------------------------------------------------------------
(* The operations. *)

\* not_runnable() leaves the rest of the queue.
LEMMA UnlinkedIs ==
    ASSUME NEW q \in Seq(Proc), IsInjective(q), NEW p \in Proc
    PROVE  /\ Unlinked(q, p) \in Seq(Proc) /\ IsInjective(Unlinked(q, p))
           /\ Range(Unlinked(q, p)) = Range(q) \ {p}
<1>1. CASE p \in Range(q)
  <2> DEFINE d == CHOOSE i \in DOMAIN q : q[i] = p
  <2>1. d \in DOMAIN q /\ q[d] = p
    BY <1>1, Zenon DEF Range
  <2> HIDE DEF d
  <2>2. Unlinked(q, p) = RemoveAt(q, d)
    BY <1>1, Zenon DEF Unlinked, d
  <2>. QED
    BY <2>1, <2>2, Removing
<1>2. CASE p \notin Range(q)
  BY <1>2, Zenon DEF Unlinked
<1>. QED
  BY <1>1, <1>2, Zenon

\* A process goes to sleep or is stopped.
LEMMA OffIs ==
    ASSUME NEW r, Sane(r), NEW p \in Proc, NEW s \in {"SLEEPING", "STOPPED"}
    PROVE  /\ Sane(Off(r, p, s)) /\ Off(r, p, s).state = [r.state EXCEPT ![p] = s]
           /\ Off(r, p, s).current = r.current
<1> DEFINE q == Unlinked(r.queue, p)
           t == [r.state EXCEPT ![p] = s]
           x == Off(r, p, s)
<1>1. q \in Seq(Proc) /\ IsInjective(q) /\ Range(q) = Range(r.queue) \ {p}
  BY UnlinkedIs, Zenon DEF Sane, Typed
<1> HIDE DEF q
<1>2. x.state = t /\ x.queue = q /\ x.current = r.current
  BY Zenon DEF Off, q, Sane, Typed
<1>3. Typed(x)
  BY <1>1, Zenon DEF Off, q, Sane, Typed
<1>4. Range(q) = {o \in Proc : t[o] = "RUNNING"}
  BY <1>1, Zenon DEF Sane, Typed
<1>. QED
  BY <1>1, <1>2, <1>3, <1>4, Zenon DEF Sane

\* A wakeup keeps the queue right, and tells of the work there is.
LEMMA WakenedIs ==
    ASSUME NEW r, Sane(r), NEW p \in Proc
    PROVE  /\ Sane(Wakened(r, p)) /\ Wakened(r, p).current = r.current
           /\ Wakened(r, p).state = [r.state EXCEPT ![p] = "RUNNING"]
           /\ Settled(r) => Settled(Wakened(r, p))
<1> DEFINE x == Wakened(r, p)
           t == [r.state EXCEPT ![p] = "RUNNING"]
<1>1. CASE r.state[p] = "RUNNING"
  BY <1>1, Zenon DEF Wakened, Sane, Typed
<1>2. CASE r.state[p] # "RUNNING"
  <2> DEFINE q == <<p>> \o r.queue
  <2>1. q \in Seq(Proc) /\ IsInjective(q) /\ Range(q) = Range(r.queue) \cup {p}
    BY <1>2, Prepending DEF Sane, Typed
  <2> HIDE DEF q
  <2>0. x = [r EXCEPT !.state[p] = "RUNNING", !.queue = q, !.cpu_count[p] = r.priority[p],
                      !.need_resched = TRUE]
    BY <1>2, Zenon DEF Wakened, q
  <2>2. x.state = t /\ x.queue = q /\ x.current = r.current /\ x.need_resched
    BY <2>0, Zenon DEF Sane, Typed
  <2>3. r.priority[p] \in 0 .. Longest
    <3>1. r.priority[p] \in Quanta
      BY Zenon DEF Sane, Typed
    <3>. QED
      BY <3>1, LongestIsLongest, Zenon
  <2>4. Typed(x)
    BY <2>0, <2>1, <2>3 DEF Sane, Typed
  <2>5. Range(q) = {o \in Proc : t[o] = "RUNNING"}
    BY <2>1 DEF Sane, Typed
  <2> HIDE DEF x
  <2>6. Sane(x)
    BY <2>1, <2>2, <2>4, <2>5 DEF Sane
  <2>7. Settled(r) => Settled(x)
    <3>1. ASSUME r.current # IDLE, r.state[r.current] # "SLEEPING"
          PROVE  t[r.current] # "SLEEPING"
      BY <3>1 DEF Sane, Typed
    <3>. QED
      BY <2>2, <2>6, <3>1, Zenon DEF Settled
  <2>. QED
    BY <2>2, <2>6, <2>7, Zenon DEF x
<1>. QED
  BY <1>1, <1>2, Zenon

\* The wakeup of at most one process.
LEMMA WakenedInIs ==
    ASSUME NEW r, Sane(r), NEW P \in AtMostOne
    PROVE  /\ Sane(WakenedIn(r, P)) /\ WakenedIn(r, P).current = r.current
           /\ \A p \in Proc : WakenedIn(r, P).state[p] = r.state[p] \/ WakenedIn(r, P).state[p] = "RUNNING"
           /\ Settled(r) => Settled(WakenedIn(r, P))
<1>1. CASE P = {}
  BY <1>1, Zenon DEF WakenedIn
<1>2. CASE P # {}
  <2>1. PICK p \in Proc : P = {p}
    BY <1>2, Zenon DEF AtMostOne
  <2>2. WakenedIn(r, P) = Wakened(r, p)
    BY <2>1, Zenon DEF WakenedIn
  <2>3. \A o \in Proc : LET t == [r.state EXCEPT ![p] = "RUNNING"]
                        IN t[o] = r.state[o] \/ t[o] = "RUNNING"
    BY Zenon DEF Sane, Typed
  <2>4. /\ Sane(Wakened(r, p)) /\ Wakened(r, p).current = r.current
        /\ Wakened(r, p).state = [r.state EXCEPT ![p] = "RUNNING"]
        /\ Settled(r) => Settled(Wakened(r, p))
    BY WakenedIs, Zenon
  <2>. QED
    BY <2>2, <2>3, <2>4, Zenon
<1>. QED
  BY <1>1, <1>2, Zenon

\* The tick leaves all but the quantum and need_resched.
LEMMA TickedIs ==
    ASSUME NEW r, Settled(r) PROVE Settled(Ticked(r))
<1> DEFINE x == Ticked(r)
<1>1. CASE r.current = IDLE
  BY <1>1, Zenon DEF Ticked
<1>2. CASE r.current # IDLE
  <2> DEFINE c == r.cpu_count[r.current]
             m == IF c <= 1 THEN 0 ELSE c - 1
             b == r.need_resched \/ c <= 1
  <2>1. r.current \in Proc /\ c \in 0 .. Longest /\ Longest \in Nat
    BY <1>2, LongestIsLongest, Zenon DEF Settled, Sane, Typed
  <2>2. x = [r EXCEPT !.cpu_count[r.current] = m, !.need_resched = b]
    BY <1>2, Zenon DEF Ticked
  <2>3. m \in 0 .. Longest
    BY <2>1
  <2>4. b \in BOOLEAN
    BY Zenon
  <2> HIDE DEF c, m, b
  <2>5. x.state = r.state /\ x.queue = r.queue /\ x.current = r.current
    BY <2>2, Zenon DEF Settled, Sane, Typed
  <2>6. Typed(x)
    <3>1. r.current \in Proc
      BY <2>1, Zenon
    <3>2. /\ x.cpu_count = [r.cpu_count EXCEPT ![r.current] = m] /\ x.need_resched = b
          /\ DOMAIN x = DOMAIN r /\ x.priority = r.priority /\ x.policy = r.policy
          /\ x.rt_priority = r.rt_priority
      BY <2>2, Zenon DEF Settled, Sane, Typed
    <3>3. [r.cpu_count EXCEPT ![r.current] = m] \in [Proc -> 0 .. Longest]
      BY <2>3, <3>1, Zenon DEF Settled, Sane, Typed
    <3> HIDE DEF x
    <3>. QED
      BY <2>4, <2>5, <3>2, <3>3, Zenon DEF Settled, Sane, Typed
  <2> HIDE DEF x
  <2>. QED
    BY <1>2, <2>5, <2>6, Zenon DEF Settled, Sane, x
<1>. QED
  BY <1>1, <1>2, Zenon

\* A process that a signal stops is off the queue, and stopped unless the parent
\* that is woken is itself.
LEMMA SignalledIs ==
    ASSUME NEW r, Settled(r), r.current # IDLE, NEW stop \in BOOLEAN, NEW P \in AtMostOne
    PROVE  Settled(Signalled(r, stop, P)) /\ Signalled(r, stop, P).current = r.current
<1>1. CASE ~stop
  BY <1>1, Zenon DEF Signalled
<1>2. CASE stop
  <2> DEFINE y == Off(r, r.current, "STOPPED")
             z == WakenedIn(y, P)
             x == [z EXCEPT !.need_resched = TRUE]
  <2>1. r.current \in Proc
    BY Zenon DEF Settled, Sane, Typed
  <2>2. Sane(y) /\ y.state = [r.state EXCEPT ![r.current] = "STOPPED"] /\ y.current = r.current
    BY <2>1, OffIs, Zenon DEF Settled
  <2>3. y.state[r.current] = "STOPPED"
    BY <2>1, <2>2 DEF Settled, Sane, Typed
  <2> HIDE DEF y
  <2>4. Sane(z) /\ z.current = r.current /\ z.state[r.current] # "SLEEPING"
    BY <2>1, <2>2, <2>3, WakenedInIs
  <2> HIDE DEF z
  <2>5. x.state = z.state /\ x.queue = z.queue /\ x.current = z.current
    BY <2>4, Zenon DEF Sane, Typed
  <2>6. Typed(x)
    BY <2>4, Zenon DEF Sane, Typed
  <2>7. Signalled(r, stop, P) = x
    BY <1>2, Zenon DEF Signalled, Stopped, y, z
  <2> HIDE DEF x
  <2>. QED
    BY <2>4, <2>5, <2>6, <2>7 DEF Settled, Sane
<1>. QED
  BY <1>1, <1>2, Zenon

-----------------------------------------------------------------------------
(* The choice of do_sched(). *)

\* Where a process is beaten only by one of a smaller rank, or of the same rank
\* and a smaller second rank, the loops find one of T that no other of T beats.
LEMMA FirstBestIs ==
    ASSUME NEW q \in Seq(Proc), NEW T, NEW k \in DOMAIN q, q[k] \in T, NEW beats,
           NEW f \in [Proc -> Nat], NEW g \in [Proc -> Nat],
           \A o, p \in Proc : <<o, p>> \in beats => f[o] < f[p] \/ (f[o] = f[p] /\ g[o] < g[p])
    PROVE  /\ FirstBest(q, T, beats) \in Range(q) \cap T
           /\ \A p \in Range(q) \cap T : <<p, FirstBest(q, T, beats)>> \notin beats
<1> DEFINE D == {i \in DOMAIN q : q[i] \in T}
           F == {f[q[i]] : i \in D}
           B == Unbeaten(q, T, beats)
<1>1. DOMAIN q \subseteq Nat /\ \A i \in DOMAIN q : q[i] \in Proc
  OBVIOUS
<1>2. PICK m \in F : \A u \in F : m <= u
  <2>1. F \in SUBSET Nat /\ F # {}
    BY <1>1, Zenon
  <2> HIDE DEF F
  <2>. QED
    BY <2>1, LeastIn, Zenon
<1> DEFINE G == {g[q[i]] : i \in {i \in D : f[q[i]] = m}}
<1>3. PICK n \in G : \A u \in G : n <= u
  <2>1. G \in SUBSET Nat /\ G # {}
    BY <1>1, <1>2
  <2> HIDE DEF G
  <2>. QED
    BY <2>1, LeastIn, Zenon
<1>4. PICK b \in D : f[q[b]] = m /\ g[q[b]] = n
  BY <1>3, Zenon
<1>5. ASSUME NEW j \in D PROVE <<q[j], q[b]>> \notin beats
  <2>1. f[q[j]] \in F /\ f[q[j]] \in Nat /\ m \in Nat /\ m <= f[q[j]]
    <3>1. q[j] \in Proc
      BY <1>1, Zenon
    <3>2. f[q[j]] \in F
      BY Zenon
    <3>3. m \in Nat
      BY <1>1
    <3> HIDE DEF F, D
    <3>. QED
      BY <1>2, <3>1, <3>2, <3>3
  <2>2. f[q[j]] = m => g[q[j]] \in Nat /\ n \in Nat /\ n <= g[q[j]]
    <3> SUFFICES ASSUME f[q[j]] = m PROVE g[q[j]] \in Nat /\ n \in Nat /\ n <= g[q[j]]
      BY Zenon
    <3>1. q[j] \in Proc
      BY <1>1, Zenon
    <3>2. g[q[j]] \in G
      BY Zenon
    <3>3. n \in Nat
      BY <1>1
    <3> HIDE DEF G, D
    <3>. QED
      BY <1>3, <3>1, <3>2, <3>3, Zenon
  <2>3. q[j] \in Proc /\ q[b] \in Proc
    BY <1>1, Zenon
  <2>4. ASSUME <<q[j], q[b]>> \in beats
        PROVE  f[q[j]] < m \/ (f[q[j]] = m /\ g[q[j]] < n)
    <3> HIDE DEF D, F, G
    <3>. QED
      BY <1>4, <2>3, <2>4, Zenon
  <2> DEFINE x == f[q[j]]  y == g[q[j]]
  <2> HIDE DEF D, F, G, x, y
  <2>. QED
    BY <2>1, <2>2, <2>4 DEF x, y
<1>6. B \in SUBSET Nat /\ B # {}
  BY <1>1, <1>5, Zenon DEF Unbeaten
<1> HIDE DEF B
<1>7. PICK l \in B : \A j \in B : l <= j
  BY <1>6, LeastIn, Zenon
<1> DEFINE c == CHOOSE i \in B : \A j \in B : i <= j
<1>8. c \in B
  BY <1>7, Zenon
<1>9. FirstBest(q, T, beats) = q[c]
  BY Zenon DEF FirstBest, B
<1>10. /\ c \in DOMAIN q /\ q[c] \in T
       /\ \A j \in DOMAIN q : q[j] \in T => <<q[j], q[c]>> \notin beats
  BY <1>8, Zenon DEF B, Unbeaten
<1> HIDE DEF c
<1>. QED
  BY <1>9, <1>10, Zenon DEF Range

\* From r to x, another process has been given the CPU.
Switched(r, x) == /\ DOMAIN x = DOMAIN r /\ x.state = r.state /\ x.queue = r.queue
                  /\ x.need_resched = FALSE /\ x.priority = r.priority
                  /\ x.policy = r.policy /\ x.rt_priority = r.rt_priority

\* The process that do_sched() switches to is runnable.
LEMMA SwitchedTo ==
    ASSUME NEW r, Sane(r), NEW x, Switched(r, x), x.current \in Range(r.queue),
           x.cpu_count \in [Proc -> 0 .. Longest]
    PROVE  Settled(x)
<1>1. x.current \in Proc /\ r.state[x.current] = "RUNNING" /\ x.current # IDLE
  BY ProcTable, Zenon DEF Sane
<1>2. Typed(x)
  BY <1>1, Zenon DEF Sane, Typed, Switched
<1>. QED
  BY <1>1, <1>2, Zenon DEF Settled, Sane, Switched

\* do_sched() of a sane record is settled, and the CPU goes to the most urgent.
LEMMA do_schedIs ==
    ASSUME NEW r, Sane(r) PROVE Settled(do_sched(r)) /\ Given(do_sched(r), r.current)
<1> DEFINE rt == {p \in Range(r.queue) : r.policy[p] # "OTHER"}
           urgent == {b \in Proc \X Proc :
                        \/ r.rt_priority[b[1]] > r.rt_priority[b[2]]
                        \/ /\ r.rt_priority[b[1]] = r.rt_priority[b[2]]
                           /\ r.cpu_count[b[1]] > r.cpu_count[b[2]]}
           best == FirstBest(r.queue, rt, urgent)
           spent == \A p \in Range(r.queue) : r.cpu_count[p] = 0
           quantum == [p \in Proc |-> IF spent /\ p \in Range(r.queue)
                                        THEN r.priority[p] ELSE r.cpu_count[p]]
           more == {b \in Proc \X Proc : quantum[b[1]] > quantum[b[2]]}
<1>1. r.queue \in Seq(Proc) /\ DOMAIN r.queue \subseteq Nat /\ Range(r.queue) \subseteq Proc
  BY DEF Sane, Typed
<1>2. /\ r.cpu_count \in [Proc -> Nat] /\ \A p \in Proc : r.cpu_count[p] <= Longest
      /\ r.rt_priority \in [Proc -> Nat] /\ \A p \in Proc : r.rt_priority[p] <= 99
      /\ Longest \in Nat
  <2>1. r.cpu_count \in [Proc -> 0 .. Longest] /\ r.rt_priority \in [Proc -> 0 .. 99] /\ Longest \in Nat
    BY LongestIsLongest, Zenon DEF Sane, Typed
  <2>. QED
    BY <2>1
<1>3. CASE GoesOn(r)
  <2>1. do_sched(r) = r
    BY <1>3, Zenon DEF do_sched
  <2>. QED
    BY <1>3, <2>1, Zenon DEF GoesOn, Settled, Given
<1>4. CASE ~GoesOn(r) /\ rt # {}
  <2> DEFINE f == [p \in Proc |-> 99 - r.rt_priority[p]]
             g == [p \in Proc |-> Longest - r.cpu_count[p]]
             n == IF r.policy[best] = "RR" /\ r.cpu_count[best] = 0
                    THEN r.priority[best] ELSE r.cpu_count[best]
  <2>1. PICK k \in DOMAIN r.queue : r.queue[k] \in rt
    BY <1>4, Zenon DEF Range
  <2>2. f \in [Proc -> Nat] /\ g \in [Proc -> Nat]
    BY <1>2
  <2>3. ASSUME NEW o \in Proc, NEW p \in Proc, <<o, p>> \in urgent
        PROVE  f[o] < f[p] \/ (f[o] = f[p] /\ g[o] < g[p])
    BY <1>2, <2>3
  <2>4. best \in rt /\ best \in Range(r.queue) /\ \A p \in rt : <<p, best>> \notin urgent
    <3>1. rt \subseteq Range(r.queue)
      BY Zenon
    <3> HIDE DEF f, g, urgent, rt
    <3>2. /\ best \in Range(r.queue) \cap rt
          /\ \A p \in Range(r.queue) \cap rt : <<p, best>> \notin urgent
      BY <1>1, <2>1, <2>2, <2>3, FirstBestIs, Zenon
    <3> HIDE DEF best
    <3>. QED
      BY <3>1, <3>2, Zenon
  <2>5. do_sched(r) = [r EXCEPT !.need_resched = FALSE, !.current = best, !.cpu_count[best] = n]
    BY <1>4, Zenon DEF do_sched
  <2> HIDE DEF best
  <2>a. ASSUME NEW p \in Proc, r.state[p] = "RUNNING", r.policy[p] # "OTHER"
        PROVE  r.policy[best] # "OTHER" /\ r.rt_priority[best] >= r.rt_priority[p]
    <3>1. p \in rt /\ best \in Proc
      BY <1>1, <2>a, <2>4, Zenon DEF Sane
    <3>2. r.rt_priority[p] \in Nat /\ r.rt_priority[best] \in Nat
      BY <1>2, <3>1, Zenon
    <3>3. <<p, best>> \in Proc \X Proc /\ <<p, best>>[1] = p /\ <<p, best>>[2] = best
      BY <3>1, Zenon
    <3>4. ~(r.rt_priority[p] > r.rt_priority[best])
      <4>1. <<p, best>> \notin urgent
        BY <2>4, <3>1, Zenon
      <4>. QED
        BY <3>3, <4>1, Zenon
    <3>. QED
      BY <2>4, <3>2, <3>4
  <2>6. r.priority[best] \in 0 .. Longest /\ r.cpu_count[best] \in 0 .. Longest /\ best \in Proc
    <3>1. r.priority[best] \in Quanta /\ r.cpu_count[best] \in 0 .. Longest /\ best \in Proc
      BY <1>1, <2>4, Zenon DEF Sane, Typed
    <3>. QED
      BY <3>1, LongestIsLongest, Zenon
  <2>7. n \in 0 .. Longest
    BY <2>6, Zenon
  <2> HIDE DEF n
  <2>8. [r.cpu_count EXCEPT ![best] = n] \in [Proc -> 0 .. Longest]
    BY <2>6, <2>7, Zenon DEF Sane, Typed
  <2> DEFINE x == do_sched(r)
  <2>9. Switched(r, x) /\ x.current = best /\ x.cpu_count = [r.cpu_count EXCEPT ![best] = n]
    BY <2>5, Zenon DEF Switched, Sane, Typed
  <2> HIDE DEF x, rt, urgent
  <2>10. Urgent(x)
    BY <2>a, <2>6, <2>9, ProcTable, Zenon DEF Urgent, Switched
  <2>. QED
    BY <2>4, <2>8, <2>9, <2>10, SwitchedTo, Zenon DEF x, Given
<1>n. ASSUME rt = {}, NEW p \in Proc, r.state[p] = "RUNNING" PROVE r.policy[p] = "OTHER"
  BY <1>n, Zenon DEF Sane
<1>5. CASE ~GoesOn(r) /\ rt = {} /\ r.queue # <<>>
  <2> DEFINE f == [p \in Proc |-> Longest - quantum[p]]
             b == FirstBest(r.queue, Proc, more)
  <2>1. quantum \in [Proc -> 0 .. Longest]
    BY <1>2, LongestIsLongest, Zenon DEF Sane, Typed
  <2>2. do_sched(r) = [r EXCEPT !.need_resched = FALSE, !.cpu_count = quantum, !.current = b]
    BY <1>5, Zenon DEF do_sched
  <2> HIDE DEF quantum
  <2>3. f \in [Proc -> Nat] /\ \A p \in Proc : quantum[p] \in 0 .. Longest
    BY <1>2, <2>1
  <2>4. ASSUME NEW o \in Proc, NEW p \in Proc, <<o, p>> \in more
        PROVE  f[o] < f[p]
    BY <1>2, <2>3, <2>4
  <2>5. 1 \in DOMAIN r.queue /\ r.queue[1] \in Proc
    BY <1>1, <1>5
  <2>6. b \in Range(r.queue)
    <3> HIDE DEF f, more
    <3>. QED
      BY <1>1, <2>3, <2>4, <2>5, FirstBestIs
  <2> HIDE DEF b
  <2> DEFINE x == do_sched(r)
  <2>7. Switched(r, x) /\ x.current = b /\ x.cpu_count = quantum
    BY <2>2, Zenon DEF Switched, Sane, Typed
  <2> HIDE DEF x, rt
  <2>8. Urgent(x)
    BY <1>5, <1>n, <2>7, Zenon DEF Urgent, Switched
  <2>. QED
    BY <2>1, <2>6, <2>7, <2>8, SwitchedTo DEF x, Given
<1>6. CASE ~GoesOn(r) /\ rt = {} /\ r.queue = <<>>
  <2> DEFINE x == [r EXCEPT !.need_resched = FALSE, !.current = IDLE]
  <2>1. do_sched(r) = x
    BY <1>6, Zenon DEF do_sched
  <2>2. x.state = r.state /\ x.queue = r.queue /\ x.current = IDLE /\ x.policy = r.policy
    BY Zenon DEF Sane, Typed
  <2>3. Typed(x)
    BY Zenon DEF Sane, Typed
  <2> HIDE DEF x, rt
  <2>4. Urgent(x)
    BY <1>6, <1>n, <2>2, Zenon DEF Urgent
  <2>. QED
    BY <1>6, <2>1, <2>2, <2>3, <2>4, Zenon DEF Settled, Sane, Given
<1>. QED
  BY <1>3, <1>4, <1>5, <1>6, Zenon

-----------------------------------------------------------------------------
(* The invariant, and the steps. *)

\* The fields of S.
LEMMA Fields ==
    /\ S.state = state /\ S.queue = queue /\ S.current = current /\ S.need_resched = need_resched
    /\ S.cpu_count = cpu_count /\ S.priority = priority /\ S.policy = policy
    /\ S.rt_priority = rt_priority
    /\ DOMAIN S = {"state", "queue", "current", "need_resched", "cpu_count",
                   "priority", "policy", "rt_priority"}
BY Zenon DEF S

\* The invariant implies what is wanted.
LEMMA InvariantImplies ==
    IInv => TypeOK /\ QueueIsTheRunnable /\ SleepersAreOffTheCPU /\ IdleKnowsOfWork
BY Fields, Zenon DEF IInv, Settled, Sane, Typed, TypeOK, QueueIsTheRunnable, SleepersAreOffTheCPU,
              IdleKnowsOfWork

\* What a step does right: the invariant, and the process it gives the CPU to.
Right == IInv' /\ (current' # current => MostUrgent')

\* A handler that leaves the state settled, and switches to the most urgent.
LEMMA Settles ==
    ASSUME IInv, NEW r, Settled(r), Given(r, current), Becomes(r), mode' \in [Proc -> {"user", "kernel"}],
           idle' \in {"check", "tohlt", "hlt"}
    PROVE  Right
<1> DEFINE x == S'
<1>1. /\ state' = r.state /\ queue' = r.queue /\ current' = r.current
      /\ need_resched' = r.need_resched /\ cpu_count' = r.cpu_count
      /\ priority' = r.priority /\ policy' = r.policy /\ rt_priority' = r.rt_priority
  BY Zenon DEF Becomes
<1>2. /\ x.state = r.state /\ x.queue = r.queue /\ x.current = r.current
      /\ x.need_resched = r.need_resched /\ x.cpu_count = r.cpu_count
      /\ x.priority = r.priority /\ x.policy = r.policy /\ x.rt_priority = r.rt_priority
      /\ DOMAIN x = {"state", "queue", "current", "need_resched", "cpu_count",
                     "priority", "policy", "rt_priority"}
  BY <1>1, Zenon DEF S
<1> HIDE DEF x
<1>3. Typed(x)
  BY <1>2, Zenon DEF Settled, Sane, Typed
<1>4. Settled(x)
  BY <1>2, <1>3 DEF Settled, Sane
<1>5. IInv'
  BY <1>4, Zenon DEF IInv, x
<1>6. Urgent(r) => MostUrgent'
  BY <1>1, Zenon DEF Urgent, MostUrgent
<1>. QED
  BY <1>1, <1>5, <1>6, Zenon DEF Given, Right

\* A step that leaves the scheduler's state alone.
LEMMA Untouched ==
    ASSUME IInv, UNCHANGED sched, mode' \in [Proc -> {"user", "kernel"}],
           idle' \in {"check", "tohlt", "hlt"}
    PROVE  Right
<1>1. S' = S /\ current' = current
  BY Zenon DEF sched, S
<1>. QED
  BY <1>1, Zenon DEF IInv, Right

\* The tail of isr64_dispatch() leaves a settled state settled.
LEMMA ReschedIs ==
    ASSUME NEW r, Settled(r) PROVE Settled(Resched(r)) /\ Given(Resched(r), r.current)
<1>1. CASE r.need_resched
  <2> DEFINE x == [r EXCEPT !.need_resched = FALSE]
  <2>1. x.state = r.state /\ x.queue = r.queue /\ x.current = r.current /\ Typed(x)
    BY Zenon DEF Settled, Sane, Typed
  <2>2. Resched(r) = do_sched(x)
    BY <1>1, Zenon DEF Resched
  <2> HIDE DEF x
  <2>3. Sane(x)
    BY <2>1, Zenon DEF Settled, Sane
  <2>. QED
    BY <2>1, <2>2, <2>3, do_schedIs, Zenon
<1>2. CASE ~r.need_resched
  BY <1>2, Zenon DEF Resched, Given
<1>. QED
  BY <1>1, <1>2, Zenon

\* A handler and its bottom halves do, too, and leave the CPU to whom it was.
LEMMA HandledIs ==
    ASSUME IInv, NEW timer \in BOOLEAN, NEW woken \in AtMostOne
    PROVE  Settled(Handled(timer, woken)) /\ Handled(timer, woken).current = current
<1> DEFINE y == WakenedIn(S, woken)
<1>1. Settled(S) /\ Sane(S)
  BY Zenon DEF IInv, Settled
<1>2. Settled(y) /\ y.current = current
  BY <1>1, WakenedInIs, Fields, Zenon
<1> HIDE DEF y
<1>3. Settled(Ticked(y))
  BY <1>2, TickedIs, Zenon
<1>4. Ticked(y).current = y.current
  <2>1. CASE y.current = IDLE
    BY <2>1, Zenon DEF Ticked
  <2>2. CASE y.current # IDLE
    BY <1>2, <2>2, Zenon DEF Ticked, Settled, Sane, Typed
  <2>. QED
    BY <2>1, <2>2, Zenon
<1>5. Handled(timer, woken) = IF timer THEN Ticked(y) ELSE y
  BY Zenon DEF Handled, y
<1>. QED
  BY <1>2, <1>3, <1>4, <1>5, Zenon

\* The modes and the place in the idle loop keep their types.
LEMMA ModeOf ==
    ASSUME IInv
    PROVE  /\ S.current = current /\ Given(S, current) /\ Settled(S) /\ Sane(S) /\ idle \in {"check", "tohlt", "hlt"}
           /\ mode \in [Proc -> {"user", "kernel"}]
           /\ \A p \in Proc : \A m \in {"user", "kernel"} :
                 [mode EXCEPT ![p] = m] \in [Proc -> {"user", "kernel"}]
BY Fields, Zenon DEF IInv, Settled, Given

\* A process goes to sleep, yields, or finds need_resched set in tty_write().
LEMMA StepSwitches ==
    ASSUME IInv, NEW p \in Proc, Block(p) \/ sched_yield(p) \/ tty_write(p)
    PROVE  Right
<1>1. CASE Block(p)
  <2> DEFINE x == Off(S, p, "SLEEPING")
  <2>1. Sane(x) /\ x.current = current
    BY ModeOf, OffIs, Zenon
  <2>2. Becomes(do_sched(x)) /\ mode' = mode /\ idle' = idle
    BY <1>1, Zenon DEF Block
  <2> HIDE DEF x
  <2>. QED
    BY <2>1, <2>2, ModeOf, do_schedIs, Settles, Zenon
<1>2. CASE sched_yield(p)
  <2> DEFINE x == [S EXCEPT !.cpu_count[p] = 0, !.need_resched = TRUE]
  <2>1. Sane(S) /\ S.current = current /\ 0 \in 0 .. Longest
    BY ModeOf, LongestIsLongest
  <2>2. x.state = S.state /\ x.queue = S.queue /\ x.current = current /\ Typed(x)
    BY <2>1, Zenon DEF Sane, Typed
  <2>3. Becomes(do_sched(x)) /\ mode' = mode /\ idle' = idle
    BY <1>2, Zenon DEF sched_yield
  <2> HIDE DEF x
  <2>4. Sane(x)
    BY <2>1, <2>2, Zenon DEF Sane
  <2>. QED
    BY <2>2, <2>3, <2>4, ModeOf, do_schedIs, Settles
<1>3. CASE tty_write(p)
  BY <1>3, ModeOf, do_schedIs, Settles DEF tty_write
<1>. QED
  BY <1>1, <1>2, <1>3, Zenon

\* A wakeup, or SIGCONT to a stopped process, by a system call.
LEMMA StepWakes ==
    ASSUME IInv, NEW p \in Proc, NEW q \in Proc, Wake(p, q) \/ Continue(p, q)
    PROVE  Right
<1>1. CASE Wake(p, q)
  <2>1. Settled(Wakened(S, q)) /\ Given(Wakened(S, q), current)
    BY ModeOf, WakenedIs, Zenon DEF Given
  <2>. QED
    BY <1>1, <2>1, ModeOf, Settles, Zenon DEF Wake
<1>2. CASE Continue(p, q)
  <2> DEFINE l == <<q>> \o queue
             x == [S EXCEPT !.state[q] = "RUNNING", !.queue = l, !.need_resched = TRUE]
             t == [state EXCEPT ![q] = "RUNNING"]
  <2>1. Becomes(x) /\ mode' = mode /\ idle' = idle /\ current = p /\ p # q /\ state[q] = "STOPPED"
    BY <1>2, Fields, Zenon DEF Continue
  <2>2. Settled(S) /\ Sane(S) /\ S.queue = queue /\ S.state = state /\ S.current = current
    BY ModeOf, Fields, Zenon
  <2>3. l \in Seq(Proc) /\ IsInjective(l) /\ Range(l) = Range(queue) \cup {q}
    BY <2>1, <2>2, Prepending DEF Sane, Typed
  <2> HIDE DEF l
  <2>4. x.state = t /\ x.queue = l /\ x.current = p /\ x.need_resched
    BY <2>1, <2>2, Zenon DEF Sane, Typed
  <2>5. Typed(x)
    BY <2>2, <2>3, Zenon DEF Sane, Typed
  <2>6. Range(l) = {o \in Proc : t[o] = "RUNNING"} /\ t[p] = state[p]
    BY <2>1, <2>2, <2>3 DEF Sane, Typed
  <2>7. state[p] # "SLEEPING"
    BY <2>1, <2>2, ProcTable, Zenon DEF Settled
  <2> HIDE DEF x, t
  <2>8. Settled(x) /\ Given(x, current)
    BY <2>1, <2>3, <2>4, <2>5, <2>6, <2>7 DEF Settled, Sane, Given
  <2>. QED
    BY <2>1, <2>8, ModeOf, Settles, Zenon
<1>. QED
  BY <1>1, <1>2, Zenon

\* The ends of system calls and of faults.
LEMMA StepReturns ==
    ASSUME IInv, NEW p \in Proc, NEW stop \in BOOLEAN, NEW parent \in AtMostOne,
           SyscallReturn(p, stop, parent) \/ TrapReturn(p, stop, parent)
    PROVE  Right
<1>1. S.current # IDLE /\ idle' = idle /\ mode' = [mode EXCEPT ![p] = "user"]
  BY Fields, ProcTable, Zenon DEF SyscallReturn, TrapReturn
<1> DEFINE r == Signalled(S, stop, parent)
<1>2. Settled(r) /\ r.current = current
  BY <1>1, ModeOf, SignalledIs, Zenon
<1> HIDE DEF r
<1>3. Settled(Resched(r)) /\ Given(Resched(r), current)
  BY <1>2, ReschedIs, Zenon
<1>4. Becomes(r) \/ Becomes(Resched(r))
  BY Zenon DEF SyscallReturn, TrapReturn, r
<1>5. Given(r, current)
  BY <1>2, Zenon DEF Given
<1>. QED
  BY <1>1, <1>2, <1>3, <1>4, <1>5, ModeOf, Settles

\* A new policy, or a new nice value, changes no queue.
LEMMA StepParameters ==
    ASSUME IInv, NEW p \in Proc, NEW q \in Proc,
           \/ \E quantum \in Quanta : setpriority(p, q, quantum)
           \/ \E s \in SchedParams : sched_setscheduler(p, q, s[1], s[2])
    PROVE  Right
<1>1. Settled(S) /\ Sane(S) /\ mode' = mode /\ idle' = idle
  BY ModeOf, Zenon DEF setpriority, sched_setscheduler
<1>2. ASSUME NEW x, Becomes(x), Typed(x), x.state = S.state, x.queue = S.queue,
             x.current = S.current, x.need_resched = S.need_resched
      PROVE  Right
  <2>1. Settled(x) /\ Given(x, current)
    BY <1>1, <1>2, ModeOf DEF Settled, Sane, Given
  <2>. QED
    BY <1>1, <1>2, <2>1, ModeOf, Settles
<1>3. ASSUME NEW quantum \in Quanta, setpriority(p, q, quantum) PROVE Right
  <2> DEFINE x == [S EXCEPT !.priority[q] = quantum]
  <2>1. Becomes(x)
    BY <1>3, Zenon DEF setpriority
  <2>2. /\ Typed(x) /\ x.state = S.state /\ x.queue = S.queue /\ x.current = S.current
        /\ x.need_resched = S.need_resched
    BY <1>1, Zenon DEF Sane, Typed
  <2> HIDE DEF x
  <2>. QED
    BY <1>2, <2>1, <2>2, Zenon
<1>4. ASSUME NEW s \in SchedParams, sched_setscheduler(p, q, s[1], s[2]) PROVE Right
  <2> DEFINE a == IF s[1] = "OTHER" THEN 0 ELSE s[2]
             b == IF s[1] = "OTHER" THEN DEF_PRIORITY ELSE 1
             c == IF s[1] = "OTHER" THEN S.cpu_count[q] ELSE 1
             x == [S EXCEPT !.policy[q] = s[1], !.rt_priority[q] = a, !.priority[q] = b,
                            !.cpu_count[q] = c]
  <2>1. Becomes(x)
    BY <1>4, Zenon DEF sched_setscheduler
  <2>2. s[1] \in {"OTHER", "FIFO", "RR"} /\ s[2] \in 0 .. 99
    BY ParamsAreRight, Zenon
  <2>3. S.cpu_count[q] \in 0 .. Longest /\ 1 \in 0 .. Longest
    BY <1>1, LongestIsLongest, QuantaAreBounded, Zenon DEF Sane, Typed
  <2>4. a \in 0 .. 99 /\ b \in Quanta /\ c \in 0 .. Longest
    BY <2>2, <2>3, QuantaAreBounded
  <2> HIDE DEF a, b, c
  <2>5. /\ Typed(x) /\ x.state = S.state /\ x.queue = S.queue /\ x.current = S.current
        /\ x.need_resched = S.need_resched
    BY <1>1, <2>2, <2>4 DEF Sane, Typed
  <2> HIDE DEF x
  <2>. QED
    BY <1>2, <2>1, <2>5
<1>. QED
  BY <1>3, <1>4, Zenon

\* Interrupts, in user mode, in the kernel and in the idle loop.
LEMMA StepInterrupts ==
    ASSUME IInv, NEW timer \in BOOLEAN, NEW woken \in AtMostOne,
           \/ \E stop \in BOOLEAN : UserIRQ(timer, woken, stop)
           \/ QuietIRQ(timer, woken)
           \/ IdleIRQ(timer, woken)
    PROVE  Right
<1> DEFINE h == Handled(timer, woken)
<1>1. Settled(h) /\ h.current = current /\ Given(h, current)
  BY HandledIs, Zenon DEF Given
<1> HIDE DEF h
<1>2. ASSUME NEW stop \in BOOLEAN, UserIRQ(timer, woken, stop) PROVE Right
  <2>1. h.current # IDLE /\ {} \in AtMostOne
    BY <1>1, <1>2, Zenon DEF UserIRQ, AtMostOne
  <2>2. /\ Settled(Resched(Signalled(h, stop, {})))
        /\ Given(Resched(Signalled(h, stop, {})), current)
    BY <1>1, <2>1, SignalledIs, ReschedIs, Zenon
  <2>3. Becomes(Resched(Signalled(h, stop, {}))) /\ mode' = mode /\ idle' = idle
    BY <1>2, Zenon DEF UserIRQ, h
  <2>. QED
    BY <2>2, <2>3, ModeOf, Settles, Zenon
<1>3. CASE QuietIRQ(timer, woken)
  <2>1. Becomes(h) /\ mode' = mode /\ idle' = idle
    BY <1>3, Zenon DEF QuietIRQ, h
  <2>. QED
    BY <1>1, <2>1, ModeOf, Settles, Zenon
<1>4. CASE IdleIRQ(timer, woken)
  <2>1. Becomes(h) /\ mode' = mode /\ idle' \in {"check", idle}
    BY <1>4, Zenon DEF IdleIRQ, h
  <2>. QED
    BY <1>1, <2>1, ModeOf, Settles, Zenon
<1>. QED
  BY <1>2, <1>3, <1>4, Zenon

\* The steps of a process from user mode, and the idle loop.
LEMMA StepIdles ==
    ASSUME IInv, IdleLoop \/ IdleHalt \/ \E p \in Proc : Enter(p)
    PROVE  Right
<1>1. CASE IdleLoop
  <2> DEFINE x == IF need_resched THEN do_sched(S) ELSE S
  <2>1. Settled(x) /\ Given(x, current)
    BY ModeOf, do_schedIs
  <2>2. Becomes(x) /\ mode' = mode /\ idle' = "tohlt"
    BY <1>1, Zenon DEF IdleLoop
  <2> HIDE DEF x
  <2>. QED
    BY <2>1, <2>2, ModeOf, Settles, Zenon
<1>2. CASE IdleHalt
  BY <1>2, ModeOf, Untouched, Zenon DEF IdleHalt
<1>3. ASSUME NEW p \in Proc, Enter(p) PROVE Right
  BY <1>3, ModeOf, Untouched, Zenon DEF Enter
<1>. QED
  BY <1>1, <1>2, <1>3, Zenon

\* At boot everybody is on the queue, and IDLE is about to give the CPU away.
LEMMA Initially == Init => IInv
<1> SUFFICES ASSUME Init PROVE IInv
  BY Zenon
<1> DEFINE n == Cardinality(Proc)
<1>a. n \in Nat /\ IsFiniteSet(1 .. n) /\ Cardinality(1 .. n) = n
  <2>1. n \in Nat
    BY ProcTable, FS_CardinalityType, Zenon
  <2>. QED
    BY <2>1, FS_Interval
<1>b. queue \in [1 .. n -> Proc] /\ IsInjective(queue)
  BY Zenon DEF Init, Arrangements, Injection
<1>c. queue \in Injection(1 .. n, Proc)
  BY <1>b, Zenon DEF Injection
<1>d. queue \in Surjection(1 .. n, Proc)
  BY <1>a, <1>c, ProcTable, FS_Injection, Zenon
<1>e. \A p \in Proc : \E i \in 1 .. n : queue[i] = p
  BY <1>d, Zenon DEF Surjection
<1> HIDE DEF n
<1>1. queue \in Seq(Proc) /\ IsInjective(queue) /\ Range(queue) = Proc
  BY <1>a, <1>b, <1>e DEF Range
<1>2. DEF_PRIORITY \in Quanta /\ DEF_PRIORITY \in 0 .. Longest
  BY LongestIsLongest, QuantaAreBounded, Zenon
<1>3. Typed(S)
  BY <1>1, <1>2, Fields DEF Init, Typed
<1>4. Settled(S)
  BY <1>1, <1>3, Fields DEF Init, Settled, Sane
<1>. QED
  BY <1>4, Zenon DEF Init, IInv

\* Every step keeps the invariant, and gives the CPU to the most urgent process.
LEMMA EveryStep == IInv /\ [Next]_vars => Right
<1> SUFFICES ASSUME IInv, [Next]_vars PROVE Right
  BY Zenon
<1>1. CASE UNCHANGED vars
  BY <1>1, ModeOf, Untouched, Zenon DEF vars
<1>2. ASSUME NEW p \in Proc, Block(p) \/ sched_yield(p) \/ tty_write(p) PROVE Right
  BY <1>2, StepSwitches, Zenon
<1>3. ASSUME NEW p \in Proc, NEW q \in Proc, Wake(p, q) \/ Continue(p, q) PROVE Right
  BY <1>3, StepWakes, Zenon
<1>4. ASSUME NEW p \in Proc, NEW stop \in BOOLEAN, NEW parent \in AtMostOne,
             SyscallReturn(p, stop, parent) \/ TrapReturn(p, stop, parent)
      PROVE  Right
  BY <1>4, StepReturns, Zenon
<1>5. ASSUME NEW p \in Proc, NEW q \in Proc,
             \/ \E quantum \in Quanta : setpriority(p, q, quantum)
             \/ \E s \in SchedParams : sched_setscheduler(p, q, s[1], s[2])
      PROVE  Right
  BY <1>5, StepParameters, Zenon
<1>6. ASSUME NEW timer \in BOOLEAN, NEW woken \in AtMostOne,
             \/ \E stop \in BOOLEAN : UserIRQ(timer, woken, stop)
             \/ QuietIRQ(timer, woken)
             \/ IdleIRQ(timer, woken)
      PROVE  Right
  BY <1>6, StepInterrupts, Zenon
<1>7. ASSUME IdleLoop \/ IdleHalt \/ \E p \in Proc : Enter(p) PROVE Right
  BY <1>7, StepIdles, Zenon
<1>. QED
  BY <1>1, <1>2, <1>3, <1>4, <1>5, <1>6, <1>7, Zenon DEF Next

\* The invariant holds in every reachable state of the scheduler.
THEOREM SchedInvariant == Spec => []IInv
<1>1. Init => IInv
  BY Initially, Zenon
<1>2. IInv /\ [Next]_vars => IInv'
  BY EveryStep, Zenon DEF Right
<1>. QED
  BY <1>1, <1>2, PTL DEF Spec

\* The scheduler's variables keep their types: no quantum goes below zero or
\* above the longest one, whatever is set and woken when.
THEOREM SchedTyped == Spec => []TypeOK
<1>1. IInv => TypeOK
  BY InvariantImplies, Zenon
<1>. QED
  BY <1>1, SchedInvariant, PTL

\* The run queue holds the runnable processes, each once, after any mix of
\* sleeps, stops, wakeups and SIGCONTs.
THEOREM RunQueueIsExact == Spec => []QueueIsTheRunnable
<1>1. IInv => QueueIsTheRunnable
  BY InvariantImplies, Zenon
<1>. QED
  BY <1>1, SchedInvariant, PTL

\* do_sched() never leaves the CPU to a process that has gone to sleep.
THEOREM NoSleeperRuns == Spec => []SleepersAreOffTheCPU
<1>1. IInv => SleepersAreOffTheCPU
  BY InvariantImplies, Zenon
<1>. QED
  BY <1>1, SchedInvariant, PTL

\* cpu_idle() is never left to halt for good while a process is runnable:
\* need_resched is set by then.
THEOREM IdleSeesWork == Spec => []IdleKnowsOfWork
<1>1. IInv => IdleKnowsOfWork
  BY InvariantImplies, Zenon
<1>. QED
  BY <1>1, SchedInvariant, PTL

\* Whenever the CPU changes hands it goes to a real-time process of the highest
\* rt_priority if one is runnable, for any number of processes and any
\* priorities: do_sched() finds it wherever it is on the queue, and what the
\* handler woke is on the queue, what it stopped off it, by then.
THEOREM UrgentFirst == Spec => SwitchesToTheMostUrgent
<1>1. IInv /\ [Next]_vars => (current' # current => MostUrgent')
  BY EveryStep, Zenon DEF Right
<1>. QED
  BY <1>1, SchedInvariant, PTL DEF Spec, SwitchesToTheMostUrgent
=============================================================================
