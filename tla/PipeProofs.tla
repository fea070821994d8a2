---------------------------- MODULE PipeProofs ----------------------------
(***************************************************************************)
(* Proofs about Pipe, for any number of readers, writers and pollers, any  *)
(* PIPE_BUF and counts of any size: in an orderly environment the ring of  *)
(* pipefs_read() and pipefs_write() is the queue of PipeSpec, and nobody   *)
(* sleeps for what is there.                                               *)
(*                                                                         *)
(* The inductive invariant says that the offsets and the size of the ring  *)
(* agree (Shape), that the n computed before lock_resource() is still      *)
(* right when the lock has been taken (Keeps), that the lock goes with the *)
(* copy (Locks), and that where a process sleeps, and for what, goes with  *)
(* its place in the code (InPlace, Sleeps, HasCause).                      *)
(***************************************************************************)
EXTENDS Pipe, TLAPS

Byte == {NULL} \cup (Writer \X Nat)

\* The bytes are in one piece, or they go on at the start of the ring.
Shape(r) ==
    /\ r \in [data : [0 .. PIPE_BUF - 1 -> Byte], readoff : 0 .. PIPE_BUF,
              writeoff : 0 .. PIPE_BUF, size : 0 .. PIPE_BUF]
    /\ \/ r.size = 0 /\ r.readoff = 0 /\ r.writeoff = 0
       \/ r.size > 0 /\ r.writeoff = r.readoff + r.size
       \/ r.size > 0 /\ r.writeoff = r.readoff + r.size - PIPE_BUF /\ r.readoff > 0

\* Where a process of each kind may be; one inside has its end open.
InPlace(p) ==
    /\ p \in Reader => pc[p] \in {"user", "open", "read", "rlock", "rcopy"}
    /\ p \in Writer => pc[p] \in {"user", "open", "write", "wlock", "wcopy"}
    /\ p \in Poller => pc[p] \in {"user", "poll"}
    /\ p \notin Poller /\ pc[p] # "user" => p \in open
    /\ p \in Poller /\ pc[p] # "user" => p \in env.procs
    /\ pc[p] = "open" => env.fifo

\* The lock is held by the one that copies; without faults, only as long as it
\* has the CPU.
Locks(p) == /\ pc[p] \in {"rcopy", "wcopy"} <=> lock = p
            /\ ~env.faults => /\ pc[p] \in {"rcopy", "wcopy"} => cpu = p
                              /\ pc[p] \notin {"rlock", "wlock"}

\* What was computed for the copy still holds.
Keeps(p) == /\ pc[p] \in {"rlock", "rcopy"} => n[p] \in 1 .. ReadLimit /\ ring.size > 0
            /\ pc[p] \in {"write", "wlock", "wcopy"} => left[p] > 0
            /\ pc[p] \in {"wlock", "wcopy"} => n[p] \in 1 .. WriteLimit /\ n[p] <= left[p]

\* The channel of a sleeper.
ChannelAt(p) == CASE pc[p] = "read" -> "pipefs_read"
                  [] pc[p] = "write" -> "pipefs_write"
                  [] pc[p] = "open" -> OwnChan(p)
                  [] pc[p] = "poll" -> "do_select"
                  [] OTHER -> "pipe_resource"

IsRunning(p) == k.state[p] = "RUNNING" /\ k.sleep_address[p] = NULL /\ p \notin k.notint
IsSleeping(p) == /\ k.state[p] = "SLEEPING" /\ k.sleep_address[p] = ChannelAt(p)
                 /\ pc[p] \notin {"user", "rcopy", "wcopy"}
                 /\ pc[p] \in {"rlock", "wlock"} => p \in k.notint
Sleeps(p) == IsRunning(p) \/ IsSleeping(p)

Domains == /\ DOMAIN asked = Proc
           /\ sent \in [Writer -> Nat]
           /\ env \in Envs

Fine(p) == InPlace(p) /\ Locks(p) /\ Keeps(p) /\ Sleeps(p) /\ HasCause(p)

IInv == /\ TypeOK /\ Domains /\ Shape(ring) /\ open \subseteq env.procs
        /\ \A p \in Proc : Fine(p)

-----------------------------------------------------------------------------
(* The ring. *)

\* What makes a ring of the right shape.
LEMMA Shaped ==
    ASSUME NEW d \in [0 .. PIPE_BUF - 1 -> Byte], NEW R \in 0 .. PIPE_BUF,
           NEW W \in 0 .. PIPE_BUF, NEW S \in 0 .. PIPE_BUF,
           \/ S = 0 /\ R = 0 /\ W = 0
           \/ S > 0 /\ W = R + S
           \/ S > 0 /\ W = R + S - PIPE_BUF /\ R > 0
    PROVE  Shape([data |-> d, readoff |-> R, writeoff |-> W, size |-> S])
BY Zenon DEF Shape

\* The limits of a ring of the right shape are numbers.
LEMMA Limits ==
    /\ Shape(ring) => ReadLimit \in 0 .. PIPE_BUF /\ WriteLimit \in 0 .. PIPE_BUF
    /\ Shape(ring') => ReadLimit' \in 0 .. PIPE_BUF /\ WriteLimit' \in 0 .. PIPE_BUF
<1>1. PIPE_BUF \in Nat \ {0}
  BY Sizes, Zenon
<1>2. ASSUME NEW r, Shape(r) PROVE r.readoff \in 0 .. PIPE_BUF /\ r.writeoff \in 0 .. PIPE_BUF
  BY <1>2, Zenon DEF Shape
<1>3. ASSUME Shape(ring) PROVE ReadLimit \in 0 .. PIPE_BUF /\ WriteLimit \in 0 .. PIPE_BUF
  <2>1. ring.readoff \in 0 .. PIPE_BUF /\ ring.writeoff \in 0 .. PIPE_BUF
    BY <1>2, <1>3, Zenon
  <2>. QED
    BY <1>1, <2>1 DEF ReadLimit, WriteLimit
<1>4. ASSUME Shape(ring') PROVE ReadLimit' \in 0 .. PIPE_BUF /\ WriteLimit' \in 0 .. PIPE_BUF
  <2>1. ring'.readoff \in 0 .. PIPE_BUF /\ ring'.writeoff \in 0 .. PIPE_BUF
    BY <1>2, <1>4, Zenon
  <2>. QED
    BY <1>1, <2>1 DEF ReadLimit, WriteLimit
<1>. QED
  BY <1>3, <1>4, Zenon

\* A read of what is there in one piece keeps the shape of the ring, and leaves
\* the writers no less room.
LEMMA Reading ==
    ASSUME Shape(ring), ring.size > 0, NEW m \in 1 .. ReadLimit, ring' = AfterRead(m)
    PROVE  /\ Shape(ring') /\ ring'.size = ring.size - m /\ m <= ring.size
           /\ ring'.data = ring.data
           /\ ring'.size > 0 => ring'.readoff = ring.readoff + m
           /\ WriteLimit' >= WriteLimit
<1> DEFINE R == ring.readoff  W == ring.writeoff  S == ring.size
           W1 == IF W >= PIPE_BUF THEN 0 ELSE W
<1>1. /\ PIPE_BUF \in Nat \ {0} /\ m \in Nat \ {0} /\ m <= ReadLimit
      /\ S \in 1 .. PIPE_BUF /\ R \in 0 .. PIPE_BUF /\ W \in 0 .. PIPE_BUF
      /\ \/ W = R + S
         \/ W = R + S - PIPE_BUF /\ R > 0
  BY Sizes DEF Shape, ReadLimit
<1>2. /\ S - m = 0 => ring' = [data |-> ring.data, readoff |-> 0, writeoff |-> 0, size |-> 0]
      /\ S - m # 0 => ring' = [data |-> ring.data, readoff |-> R + m, writeoff |-> W1, size |-> S - m]
  BY <1>1, Zenon DEF AfterRead, Rewound
<1>3. ring.data \in [0 .. PIPE_BUF - 1 -> Byte]
  BY Zenon DEF Shape
<1>4. ReadLimit = IF W # 0 /\ R < W THEN W - R ELSE PIPE_BUF - R
  BY Zenon DEF ReadLimit
<1>5. WriteLimit = (IF R # 0 /\ W <= R THEN R ELSE PIPE_BUF) - W
  BY Zenon DEF WriteLimit
<1>6. WriteLimit' = (IF ring'.readoff # 0 /\ ring'.writeoff <= ring'.readoff
                       THEN ring'.readoff ELSE PIPE_BUF) - ring'.writeoff
  BY Zenon DEF WriteLimit
<1>7. CASE S - m = 0
  <2>1. /\ ring'.data = ring.data /\ ring'.size = 0 /\ ring'.readoff = 0 /\ ring'.writeoff = 0
    BY <1>2, <1>7
  <2> HIDE DEF R, W, S
  <2>. QED
    BY <1>1, <1>2, <1>3, <1>4, <1>5, <1>6, <1>7, <2>1 DEF Shape, S
<1>8. CASE S - m # 0
  <2>1. /\ ring'.data = ring.data /\ ring'.size = S - m /\ ring'.readoff = R + m /\ ring'.writeoff = W1
    BY <1>2, <1>8
  <2> HIDE DEF R, W, S
  <2>2. /\ S - m \in 0 .. PIPE_BUF /\ R + m \in 1 .. PIPE_BUF /\ W1 \in 0 .. PIPE_BUF /\ S - m > 0
        /\ \/ W1 = (R + m) + (S - m)
           \/ W1 = (R + m) + (S - m) - PIPE_BUF
    BY <1>1, <1>4, <1>8
  <2>3. Shape(ring')
    <3>1. Shape([data |-> ring.data, readoff |-> R + m, writeoff |-> W1, size |-> S - m])
      <4> HIDE DEF W1
      <4>. QED
        BY <1>3, <2>2, Shaped
    <3>. QED
      BY <1>2, <1>8, <3>1, Zenon
  <2>4. WriteLimit' >= WriteLimit
    <3>1. WriteLimit' = (IF R + m # 0 /\ W1 <= R + m THEN R + m ELSE PIPE_BUF) - W1
      BY <1>6, <2>1, Zenon
    <3>. QED
      BY <1>1, <1>4, <1>5, <1>8, <3>1
  <2>. QED
    BY <1>1, <2>1, <2>2, <2>3, <2>4 DEF S, R
<1>. QED
  BY <1>7, <1>8, Zenon

\* A write into the room that is there in one piece keeps the shape of the ring,
\* and leaves the readers no less to read.
LEMMA Writing ==
    ASSUME Shape(ring), sent \in [Writer -> Nat], NEW p \in Writer, NEW m \in 1 .. WriteLimit, ring' = Written(ring, p, m)
    PROVE  /\ Shape(ring') /\ ring'.size = ring.size + m
           /\ ring.size > 0 /\ ReadLimit > 0 => ReadLimit' >= ReadLimit
<1> DEFINE R == ring.readoff  W == ring.writeoff  S == ring.size
           R1 == IF R >= PIPE_BUF THEN 0 ELSE R
<1>1. /\ PIPE_BUF \in Nat \ {0} /\ m \in Nat \ {0} /\ m <= WriteLimit
      /\ S \in 0 .. PIPE_BUF /\ R \in 0 .. PIPE_BUF /\ W \in 0 .. PIPE_BUF
      /\ \/ S = 0 /\ R = 0 /\ W = 0
         \/ S > 0 /\ W = R + S
         \/ S > 0 /\ W = R + S - PIPE_BUF /\ R > 0
  BY Sizes DEF Shape, WriteLimit
<1> DEFINE D == ring'.data
<1>2. /\ ring' = [data |-> D, readoff |-> R1, writeoff |-> W + m, size |-> S + m]
      /\ D = [i \in DOMAIN ring.data |->
                IF i \in W .. W + m - 1 THEN <<p, (sent[p] + i - W) % Labels[p]>>
                ELSE ring.data[i]]
  BY Zenon DEF Written
<1>4. ReadLimit = IF W # 0 /\ R < W THEN W - R ELSE PIPE_BUF - R
  BY Zenon DEF ReadLimit
<1>5. WriteLimit = (IF R # 0 /\ W <= R THEN R ELSE PIPE_BUF) - W
  BY Zenon DEF WriteLimit
<1>6. ReadLimit' = IF ring'.writeoff # 0 /\ ring'.readoff < ring'.writeoff
                     THEN ring'.writeoff - ring'.readoff ELSE PIPE_BUF - ring'.readoff
  BY Zenon DEF ReadLimit
<1>7. /\ ring'.data = D /\ ring'.size = S + m /\ ring'.readoff = R1 /\ ring'.writeoff = W + m
  BY <1>2
<1>8. D \in [0 .. PIPE_BUF - 1 -> Byte]
  <2>1. ring.data \in [0 .. PIPE_BUF - 1 -> Byte]
    BY Zenon DEF Shape
  <2>2. \A i \in W .. W + m - 1 : (sent[p] + i - W) % Labels[p] \in Nat
    BY <1>1, Sizes
  <2>3. ASSUME NEW i \in 0 .. PIPE_BUF - 1 PROVE D[i] \in Byte
    <3>1. CASE i \in W .. W + m - 1
      <4>1. D[i] = <<p, (sent[p] + i - W) % Labels[p]>>
        BY <1>2, <2>1, <3>1, Zenon
      <4>. QED
        BY <2>2, <3>1, <4>1 DEF Byte
    <3>2. CASE i \notin W .. W + m - 1
      BY <1>2, <2>1, <3>2, Zenon
    <3>. QED
      BY <3>1, <3>2, Zenon
  <2>. QED
    BY <1>2, <2>1, <2>3, Zenon
<1> HIDE DEF R, W, S, D
<1>9. /\ S + m \in 1 .. PIPE_BUF /\ R1 \in 0 .. PIPE_BUF /\ W + m \in 0 .. PIPE_BUF
      /\ \/ W + m = R1 + (S + m)
         \/ W + m = R1 + (S + m) - PIPE_BUF /\ R1 > 0
  BY <1>1, <1>5
<1>10. Shape(ring')
  <2>1. Shape([data |-> D, readoff |-> R1, writeoff |-> W + m, size |-> S + m])
    <3> HIDE DEF R1
    <3>. QED
      BY <1>1, <1>8, <1>9, Shaped
  <2>. QED
    BY <1>2, <2>1, Zenon
<1>11. S > 0 /\ ReadLimit > 0 => ReadLimit' >= ReadLimit
  BY <1>1, <1>4, <1>5, <1>6, <1>7
<1>. QED
  BY <1>7, <1>10, <1>11, Zenon DEF S

\* The read offset at the end of the ring goes to the start of it.
LEMMA Unwrapping ==
    ASSUME Shape(ring), ring.size > 0, ring.readoff >= PIPE_BUF,
           ring' = [ring EXCEPT !.readoff = 0]
    PROVE  Shape(ring') /\ ring'.size = ring.size
<1>1. /\ ring.readoff = PIPE_BUF /\ ring.writeoff = ring.size /\ ring.size \in 0 .. PIPE_BUF
      /\ ring.data \in [0 .. PIPE_BUF - 1 -> Byte] /\ PIPE_BUF \in Nat
  BY Sizes DEF Shape
<1>2. ring' = [data |-> ring.data, readoff |-> 0, writeoff |-> ring.size, size |-> ring.size]
  BY <1>1, Zenon DEF Shape
<1>3. Shape([data |-> ring.data, readoff |-> 0, writeoff |-> ring.size, size |-> ring.size])
  BY <1>1, Shaped
<1>. QED
  BY <1>2, <1>3, Zenon

\* An empty ring has its offsets at 0.
LEMMA NothingToRewind ==
    ASSUME Shape(ring) PROVE Rewound(ring) = ring
<1>1. CASE ring.size = 0
  <2>1. ring = [data |-> ring.data, readoff |-> 0, writeoff |-> 0, size |-> 0]
    BY <1>1, Sizes DEF Shape
  <2>. QED
    BY <1>1, <2>1, Zenon DEF Rewound
<1>2. CASE ring.size # 0
  BY <1>2, Zenon DEF Rewound
<1>. QED
  BY <1>1, <1>2, Zenon

\* The first open of a FIFO with nothing in it changes neither offsets nor size.
LEMMA OpeningFirst ==
    ASSUME Shape(ring), ring.size = 0, ring' = FirstOpen(ring)
    PROVE  /\ Shape(ring') /\ ring'.size = ring.size /\ ring'.readoff = ring.readoff
           /\ ring'.writeoff = ring.writeoff
<1> DEFINE d == [i \in DOMAIN ring.data |-> NULL]
<1>1. ring.readoff = 0 /\ ring.writeoff = 0 /\ DOMAIN ring.data = 0 .. PIPE_BUF - 1
  BY Sizes DEF Shape
<1>2. d \in [0 .. PIPE_BUF - 1 -> Byte]
  BY <1>1, Zenon DEF Byte
<1>3. ring' = [data |-> d, readoff |-> 0, writeoff |-> 0, size |-> 0]
  BY Zenon DEF FirstOpen
<1> HIDE DEF d
<1>4. Shape(ring')
  BY <1>2, <1>3, Shaped, Sizes
<1>. QED
  BY <1>1, <1>3, <1>4

-----------------------------------------------------------------------------
(* The processes. *)

\* From k1 to k2, the processes of Q that were registered on a channel of A have
\* been woken, and nothing else has happened to those of Q.
WokenOn(Q, k1, k2, A) ==
    /\ k2 \in KType
    /\ \A q \in Q :
          IF k1.sleep_address[q] \in A
            THEN /\ k1.state[q] \in {"RUNNING", "SLEEPING"} => k2.state[q] = "RUNNING"
                 /\ k2.sleep_address[q] = NULL /\ q \notin k2.notint
            ELSE /\ k2.state[q] = k1.state[q] /\ k2.sleep_address[q] = k1.sleep_address[q]
                 /\ q \in k2.notint <=> q \in k1.notint

\* Without a wakeup nobody is woken.
LEMMA NobodyWoken ==
    ASSUME NEW k1 \in KType PROVE WokenOn(Proc, k1, k1, {})
BY Zenon DEF WokenOn

\* wakeup() after other wakeups.
LEMMA Waking ==
    ASSUME NEW k1 \in KType, NEW k2, NEW A, NEW Q \in SUBSET Proc, WokenOn(Q, k1, k2, A),
           NEW a \in Chan
    PROVE  WokenOn(Q, k1, wakeup(k2, a), A \cup {a})
<1> DEFINE k3 == wakeup(k2, a)
<1>1. /\ k2 \in KType
      /\ k3.state = [p \in Proc |-> IF p \in Registered(k2, a) /\ k2.state[p] = "SLEEPING"
                                      THEN "RUNNING" ELSE k2.state[p]]
      /\ k3.sleep_address = [p \in Proc |-> IF p \in Registered(k2, a) THEN NULL
                                              ELSE k2.sleep_address[p]]
      /\ k3.notint = k2.notint \ Registered(k2, a)
      /\ k3 = [state |-> k3.state, sleep_address |-> k3.sleep_address, notint |-> k3.notint]
  BY Zenon DEF wakeup, WokenOn
<1>2. \A p \in Proc : p \in Registered(k2, a) <=> k2.sleep_address[p] = a
  BY Zenon DEF Registered
<1> HIDE DEF k3
<1>3. k3 \in KType
  BY <1>1, NullIsNoChan DEF KType, PState
<1>4. ASSUME NEW q \in Q
      PROVE  IF k1.sleep_address[q] \in A \cup {a}
               THEN /\ k1.state[q] \in {"RUNNING", "SLEEPING"} => k3.state[q] = "RUNNING"
                    /\ k3.sleep_address[q] = NULL /\ q \notin k3.notint
               ELSE /\ k3.state[q] = k1.state[q] /\ k3.sleep_address[q] = k1.sleep_address[q]
                    /\ q \in k3.notint <=> q \in k1.notint
  BY <1>1, <1>2, <1>4, NullIsNoChan DEF WokenOn
<1>. QED
  BY <1>3, <1>4, Zenon DEF WokenOn, k3

\* The two wakeups with which pipefs_write() and pipefs_close() begin.
LEMMA WakingReaders ==
    ASSUME NEW k1 \in KType, NEW a \in Chan, "do_select" \in Chan
    PROVE  WokenOn(Proc, k1, wakeup(wakeup(k1, "do_select"), a), {"do_select", a})
<1>1. WokenOn(Proc, k1, wakeup(k1, "do_select"), {} \cup {"do_select"})
  BY NobodyWoken, Waking, Zenon
<1>2. WokenOn(Proc, k1, wakeup(wakeup(k1, "do_select"), a), ({} \cup {"do_select"}) \cup {a})
  BY <1>1, Waking, Zenon
<1>3. ({} \cup {"do_select"}) \cup {a} = {"do_select", a}
  BY Zenon
<1>. QED
  BY <1>2, <1>3, Zenon

\* The wakeups with which a copy ends.
LEMMA Unlocking ==
    ASSUME NEW k1 \in KType, NEW a \in Chan, {"pipe_resource", "do_select"} \subseteq Chan
    PROVE  WokenOn(Proc, k1, unlock_and_wakeup(k1, a), {"pipe_resource", "do_select", a})
<1> DEFINE k2 == wakeup(k1, "pipe_resource")
           k3 == wakeup(k2, "do_select")
<1>1. WokenOn(Proc, k1, k2, {} \cup {"pipe_resource"})
  BY NobodyWoken, Waking, Zenon
<1> HIDE DEF k2
<1>2. WokenOn(Proc, k1, k3, ({} \cup {"pipe_resource"}) \cup {"do_select"})
  BY <1>1, Waking, Zenon
<1> HIDE DEF k3
<1>3. WokenOn(Proc, k1, wakeup(k3, a), (({} \cup {"pipe_resource"}) \cup {"do_select"}) \cup {a})
  BY <1>2, Waking, Zenon
<1>4. (({} \cup {"pipe_resource"}) \cup {"do_select"}) \cup {a} = {"pipe_resource", "do_select", a}
  BY Zenon
<1>. QED
  BY <1>3, <1>4, Zenon DEF unlock_and_wakeup, k2, k3

\* sleep() after wakeups, for the others and for the one that sleeps.
LEMMA FallingAsleep ==
    ASSUME NEW k1 \in KType, NEW k2, NEW A, WokenOn(Proc, k1, k2, A),
           NEW p \in Proc, NEW a \in Chan, NEW i \in BOOLEAN
    PROVE  /\ WokenOn(Proc \ {p}, k1, sleep(k2, p, a, i), A)
           /\ sleep(k2, p, a, i).state[p] = "SLEEPING"
           /\ sleep(k2, p, a, i).sleep_address[p] = a
           /\ ~i => p \in sleep(k2, p, a, i).notint
BY Zenon DEF WokenOn, KType, PState, sleep

\* The wake of one process.
LEMMA TakingOut ==
    ASSUME NEW k1 \in KType, NEW p \in Proc, CanWakeProc(k1, p)
    PROVE  /\ WokenOn(Proc \ {p}, k1, wakeup_proc(k1, p), {})
           /\ wakeup_proc(k1, p).state[p] = "RUNNING"
           /\ wakeup_proc(k1, p).sleep_address[p] = NULL
           /\ p \notin wakeup_proc(k1, p).notint
BY Zenon DEF WokenOn, KType, PState, wakeup_proc, CanWakeProc

\* A step of p changes the place and the numbers of p only.
Local(p) ==
    /\ pc' \in [Proc -> PC] /\ left' \in [Proc -> Nat] /\ n' \in [Proc -> 0 .. PIPE_BUF]
    /\ DOMAIN asked' = Proc /\ cpu' \in {NULL, p}
    /\ \A q \in Proc \ {p} : /\ pc'[q] = pc[q] /\ left'[q] = left[q]
                              /\ n'[q] = n[q] /\ asked'[q] = asked[q]

\* A step of p in which the sleepers on A are woken, and p may fall asleep.
Moves(p, A) == Local(p) /\ WokenOn(Proc \ {p}, k, k', A) /\ Sleeps(p)'

\* One that runs goes on running,
LEMMA GoesOn ==
    ASSUME TypeOK, NEW p \in Proc, NEW A \in SUBSET Chan, Local(p), IsRunning(p),
           WokenOn(Proc, k, k', A)
    PROVE  Moves(p, A)
BY NullIsNoChan, Zenon DEF Moves, WokenOn, Sleeps, IsRunning

\* or falls asleep.
LEMMA FallsAsleep ==
    ASSUME TypeOK, NEW p \in Proc, NEW A, Local(p), NEW k2, WokenOn(Proc, k, k2, A),
           NEW a \in Chan, NEW i \in BOOLEAN, k' = sleep(k2, p, a, i),
           a = ChannelAt(p)', pc'[p] \notin {"user", "rcopy", "wcopy"},
           pc'[p] \in {"rlock", "wlock"} => ~i
    PROVE  Moves(p, A)
<1>1. /\ WokenOn(Proc \ {p}, k, k', A) /\ k'.state[p] = "SLEEPING"
      /\ k'.sleep_address[p] = a /\ (~i => p \in k'.notint)
  <2>1. k \in KType
    BY Zenon DEF TypeOK
  <2>. QED
    BY <2>1, FallingAsleep
<1>. QED
  BY <1>1, Zenon DEF Moves, Sleeps, IsSleeping

\* The step does not take from q what q keeps or sleeps for, unless it wakes q.
Harmless(q, A) ==
    /\ Shape(ring') /\ env' = env
    /\ q \in open => q \in open'
    /\ lock' = q <=> lock = q
    /\ pc[q] \in {"rlock", "rcopy"} => ReadLimit' >= ReadLimit /\ ring'.size > 0
    /\ pc[q] \in {"wlock", "wcopy"} => WriteLimit' >= WriteLimit
    /\ \/ "pipefs_read" \in A
       \/ pc[q] = "read" /\ ring.size = 0 /\ writers # {} => ring'.size = 0 /\ writers' # {}
    /\ \/ "pipefs_write" \in A
       \/ pc[q] = "write" /\ WriteLimit = 0 /\ readers # {} => WriteLimit' = 0 /\ readers' # {}
    /\ pc[q] = "open" => OwnChan(q) \in A \/ (OtherEnd(q) = {} => OtherEnd(q)' = {})
    /\ pc[q] = "poll" => "do_select" \in A \/ (pipefs_select(asked[q])' => pipefs_select(asked[q]))
    /\ "pipe_resource" \in A \/ lock' = lock \/ lock' # NULL

\* The others, in a step of p.
LEMMA Others ==
    ASSUME IInv, NEW p \in Proc, NEW A, Moves(p, A), cpu \in {NULL, p},
           NEW q \in Proc \ {p}, Harmless(q, A)
    PROVE  Fine(q)'
<1>1. /\ Fine(q) /\ q \in Proc /\ p # q /\ NULL \notin Proc
      /\ pc'[q] = pc[q] /\ left'[q] = left[q] /\ n'[q] = n[q] /\ asked'[q] = asked[q]
  BY Roles, Zenon DEF IInv, Moves, Local
<1>2. InPlace(q)'
  BY <1>1, Zenon DEF Fine, InPlace, Harmless
<1>3. Locks(q)'
  BY <1>1, Zenon DEF Fine, Locks, Harmless
<1>4. Keeps(q)'
  <2>1. n[q] \in Nat
    BY <1>1, Sizes DEF IInv, TypeOK
  <2>2. /\ ReadLimit \in Int /\ WriteLimit \in Int
        /\ ReadLimit' \in Int /\ WriteLimit' \in Int
    BY Limits DEF IInv, Harmless
  <2>. QED
    BY <1>1, <2>1, <2>2 DEF Fine, Keeps, Harmless
<1>5. ChannelAt(q)' = ChannelAt(q)
  BY <1>1, Zenon DEF ChannelAt, OwnChan
<1>6. Sleeps(q)'
  BY <1>1, <1>5, Zenon DEF Fine, Sleeps, IsRunning, IsSleeping, Moves, WokenOn
<1>7. ASSUME k'.state[q] = "SLEEPING"
      PROVE  /\ k.state[q] = "SLEEPING" /\ k'.sleep_address[q] = k.sleep_address[q]
             /\ k.sleep_address[q] = ChannelAt(q) /\ ChannelAt(q) \notin A
  BY <1>1, <1>7, Zenon DEF Fine, Sleeps, IsRunning, IsSleeping, Moves, WokenOn
<1>8. HasCause(q)'
  <2> SUFFICES ASSUME k'.state[q] = "SLEEPING" PROVE HasCause(q)'
    BY Zenon DEF HasCause, Asleep
  <2>1. HasCause(q) /\ k.state[q] = "SLEEPING"
    BY <1>1, <1>7, Zenon DEF Fine
  <2>2. k.sleep_address[q] = ChannelAt(q) /\ k'.sleep_address[q] = ChannelAt(q) /\ ChannelAt(q) \notin A
    BY <1>7, Zenon
  <2>3. CASE pc[q] = "read"
    BY <1>1, <2>1, <2>2, <2>3, Zenon DEF Harmless, HasCause, Asleep, ChannelAt
  <2>4. CASE pc[q] = "write"
    BY <1>1, <2>1, <2>2, <2>4, Zenon DEF Harmless, HasCause, Asleep, ChannelAt
  <2>5. CASE pc[q] = "open"
    BY <1>1, <2>1, <2>2, <2>5, Zenon DEF Harmless, HasCause, Asleep, ChannelAt, OwnChan
  <2>6. CASE pc[q] = "poll"
    BY <1>1, <2>1, <2>2, <2>6, Zenon DEF Harmless, HasCause, Asleep, ChannelAt
  <2>7. CASE pc[q] \notin {"read", "write", "open", "poll"}
    BY <1>1, <2>1, <2>2, <2>7, Zenon DEF Harmless, HasCause, Asleep, ChannelAt
  <2>. QED
    BY <2>3, <2>4, <2>5, <2>6, <2>7, Zenon
<1>. QED
  BY <1>2, <1>3, <1>4, <1>6, <1>8, Zenon DEF Fine

\* A step of p that leaves the ring and the ends alone.
LEMMA QuietStep ==
    ASSUME IInv, NEW p \in Proc, NEW A, Moves(p, A), cpu \in {NULL, p},
           UNCHANGED <<ring, open, sent, env>>,
           lock' = lock \/ (lock = NULL /\ lock' = p),
           InPlace(p)', Locks(p)', Keeps(p)', HasCause(p)'
    PROVE  IInv'
<1>1. NULL \notin Proc /\ ring' = ring /\ open' = open /\ sent' = sent /\ env' = env
  BY Roles, Zenon
<1>2. /\ readers' = readers /\ writers' = writers
      /\ ReadLimit' = ReadLimit /\ WriteLimit' = WriteLimit
  BY <1>1, Zenon DEF readers, writers, ReadLimit, WriteLimit
<1>3. ASSUME NEW q \in Proc \ {p} PROVE Fine(q)'
  <2>1. /\ ReadLimit \in Int /\ WriteLimit \in Int /\ Shape(ring) /\ Fine(q)
    BY Limits DEF IInv
  <2>2. asked'[q] = asked[q]
    BY Zenon DEF Moves, Local
  <2>3. OtherEnd(q)' = OtherEnd(q) /\ (pipefs_select(asked[q])' => pipefs_select(asked[q]))
    BY <1>1, <1>2, <2>2, Zenon DEF OtherEnd, pipefs_select
  <2>4. pc[q] \in {"rlock", "rcopy"} => ring.size > 0
    BY <2>1, Zenon DEF Fine, Keeps
  <2>5. Harmless(q, A)
    BY <1>1, <1>2, <2>1, <2>3, <2>4 DEF Harmless
  <2>. QED
    BY <2>5, Others, Zenon
<1>4. Fine(p)'
  BY Zenon DEF Moves, Fine
<1>5. TypeOK'
  BY <1>1, Zenon DEF IInv, TypeOK, Moves, Local, WokenOn
<1>6. Domains' /\ Shape(ring') /\ (open \subseteq env.procs)'
  BY <1>1, Zenon DEF IInv, Domains, Moves, Local
<1>. QED
  BY <1>3, <1>4, <1>5, <1>6, Zenon DEF IInv

\* One whose turn it is runs, and the invariant holds for it.
LEMMA Acting ==
    ASSUME IInv, NEW p \in Proc, NEW l, At(p, l)
    PROVE  /\ IsRunning(p) /\ Fine(p) /\ pc[p] = l /\ cpu \in {NULL, p} /\ NULL \notin Proc
           /\ k \in KType /\ TypeOK /\ DOMAIN asked = Proc
BY Roles, Zenon DEF IInv, At, Fine, Sleeps, IsSleeping, TypeOK, Domains

\* One that runs needs no cause.
LEMMA Awake ==
    ASSUME NEW p, IsRunning(p)' PROVE HasCause(p)'
BY Zenon DEF HasCause, Asleep, IsRunning

\* p goes on, and wakes nobody.
LEMMA GoesOnAlone ==
    ASSUME IInv, NEW p \in Proc, Local(p), IsRunning(p), k' = k
    PROVE  Moves(p, {}) /\ HasCause(p)'
<1>1. TypeOK /\ k \in KType
  BY Zenon DEF IInv, TypeOK
<1>2. Moves(p, {})
  BY <1>1, NobodyWoken, GoesOn
<1>3. IsRunning(p)'
  BY Zenon DEF IsRunning
<1>. QED
  BY <1>2, <1>3, Awake, Zenon

-----------------------------------------------------------------------------
(* The steps that leave the ring alone. *)

\* The step from the user's side into the loop of pipefs_read().
LEMMA StepRead ==
    ASSUME IInv, NEW p \in Reader, NEW c \in env.counts, Read(p, c)
    PROVE  IInv'
<1>1. p \in Proc /\ c \in Nat
  BY Roles, Environments, Zenon DEF IInv, Domains
<1>2. /\ IsRunning(p) /\ Fine(p) /\ pc[p] = "user" /\ cpu \in {NULL, p} /\ NULL \notin Proc
      /\ k \in KType /\ TypeOK /\ DOMAIN asked = Proc
  BY <1>1, Acting, Zenon DEF Read
<1>3. Local(p) /\ pc'[p] = "read" /\ k' = k
  BY <1>1, <1>2, Zenon DEF Read, Local, Goto, KeepsCPU, TypeOK, PC
<1>4. Moves(p, {}) /\ HasCause(p)'
  BY <1>1, <1>2, <1>3, GoesOnAlone, Zenon
<1>5. UNCHANGED <<ring, open, sent, env>> /\ lock' = lock /\ p \in open
  BY Zenon DEF Read, readers
<1>6. InPlace(p)' /\ Locks(p)' /\ Keeps(p)'
  BY <1>2, <1>3, <1>5, Roles, Zenon DEF Fine, InPlace, Locks, Keeps
<1>. QED
  BY <1>1, <1>2, <1>4, <1>5, <1>6, QuietStep, Zenon

\* The same for pipefs_write().
LEMMA StepWrite ==
    ASSUME IInv, NEW p \in Writer, NEW c \in env.counts, Write(p, c)
    PROVE  IInv'
<1>1. p \in Proc /\ c \in Nat \ {0}
  BY Roles, Environments, Zenon DEF IInv, Domains
<1>2. /\ IsRunning(p) /\ Fine(p) /\ pc[p] = "user" /\ cpu \in {NULL, p} /\ NULL \notin Proc
      /\ k \in KType /\ TypeOK /\ DOMAIN asked = Proc
  BY <1>1, Acting, Zenon DEF Write
<1>3. Local(p) /\ pc'[p] = "write" /\ k' = k /\ left'[p] > 0
  BY <1>1, <1>2 DEF Write, Local, Goto, KeepsCPU, TypeOK, PC
<1>4. Moves(p, {}) /\ HasCause(p)'
  BY <1>1, <1>2, <1>3, GoesOnAlone, Zenon
<1>5. UNCHANGED <<ring, open, sent, env>> /\ lock' = lock /\ p \in open
  BY Zenon DEF Write, writers
<1>6. InPlace(p)' /\ Locks(p)' /\ Keeps(p)'
  BY <1>2, <1>3, <1>5, Roles, Zenon DEF Fine, InPlace, Locks, Keeps
<1>. QED
  BY <1>1, <1>2, <1>4, <1>5, <1>6, QuietStep, Zenon

\* A step in which p goes back to the user's side, having held no lock.
LEMMA Leaving ==
    ASSUME IInv, NEW p \in Proc, NEW A \in SUBSET Chan, Local(p), IsRunning(p),
           WokenOn(Proc, k, k', A), cpu \in {NULL, p}, pc'[p] = "user", lock # p,
           UNCHANGED <<ring, open, lock, sent, env>>
    PROVE  IInv'
<1>1. TypeOK /\ NULL \notin Proc
  BY Roles, Zenon DEF IInv
<1>2. Moves(p, A)
  BY <1>1, GoesOn, Zenon
<1>3. IsRunning(p)'
  BY NullIsNoChan, Zenon DEF WokenOn, IsRunning
<1>4. HasCause(p)'
  BY <1>3, Awake, Zenon
<1>5. InPlace(p)' /\ Locks(p)' /\ Keeps(p)'
  BY Roles, Zenon DEF InPlace, Locks, Keeps
<1>. QED
  BY <1>2, <1>4, <1>5, QuietStep, Zenon

\* -EAGAIN from pipefs_read().
LEMMA StepReadWouldBlock ==
    ASSUME IInv, NEW p \in Reader, ReadWouldBlock(p)
    PROVE  IInv'
<1>1. p \in Proc
  BY Roles, Zenon
<1>2. /\ IsRunning(p) /\ Fine(p) /\ pc[p] = "read" /\ cpu \in {NULL, p} /\ NULL \notin Proc
      /\ k \in KType /\ TypeOK /\ DOMAIN asked = Proc
  BY <1>1, Acting, Zenon DEF ReadWouldBlock, NothingToRead
<1>3. Local(p) /\ pc'[p] = "user"
  BY <1>1, <1>2, Zenon DEF ReadWouldBlock, Local, Goto, LeavesCPU, TypeOK, PC
<1>4. UNCHANGED <<k, ring, open, lock, sent, env>> /\ lock # p
  BY <1>1, <1>2, Zenon DEF ReadWouldBlock, Fine, Locks
<1>5. WokenOn(Proc, k, k', {})
  BY <1>2, <1>4, NobodyWoken, Zenon
<1>. QED
  BY <1>1, <1>2, <1>3, <1>4, <1>5, Leaving

\* -EPIPE from pipefs_write().
LEMMA StepWriteNoReader ==
    ASSUME IInv, NEW p \in Writer, WriteNoReader(p)
    PROVE  IInv'
<1>1. p \in Proc
  BY Roles, Zenon
<1>2. /\ IsRunning(p) /\ Fine(p) /\ pc[p] = "write" /\ cpu \in {NULL, p} /\ NULL \notin Proc
      /\ k \in KType /\ TypeOK /\ DOMAIN asked = Proc
  BY <1>1, Acting, Zenon DEF WriteNoReader
<1>3. Local(p) /\ pc'[p] = "user"
  BY <1>1, <1>2, Zenon DEF WriteNoReader, Local, Goto, LeavesCPU, TypeOK, PC
<1>4. UNCHANGED <<k, ring, open, lock, sent, env>> /\ lock # p
  BY <1>1, <1>2, Zenon DEF WriteNoReader, Fine, Locks
<1>5. WokenOn(Proc, k, k', {})
  BY <1>2, <1>4, NobodyWoken, Zenon
<1>. QED
  BY <1>1, <1>2, <1>3, <1>4, <1>5, Leaving

\* A poll that returns.
LEMMA StepPollReturns ==
    ASSUME IInv, NEW p \in Poller, PollReturns(p)
    PROVE  IInv'
<1>1. p \in Proc
  BY Roles, Zenon
<1>2. /\ IsRunning(p) /\ Fine(p) /\ pc[p] = "poll" /\ cpu \in {NULL, p} /\ NULL \notin Proc
      /\ k \in KType /\ TypeOK /\ DOMAIN asked = Proc
  BY <1>1, Acting, Zenon DEF PollReturns
<1>3. Local(p) /\ pc'[p] = "user"
  BY <1>1, <1>2, Zenon DEF PollReturns, Local, Goto, LeavesCPU, TypeOK, PC
<1>4. UNCHANGED <<k, ring, open, lock, sent, env>> /\ lock # p
  BY <1>1, <1>2, Zenon DEF PollReturns, Fine, Locks
<1>5. WokenOn(Proc, k, k', {})
  BY <1>2, <1>4, NobodyWoken, Zenon
<1>. QED
  BY <1>1, <1>2, <1>3, <1>4, <1>5, Leaving

\* -EAGAIN from pipefs_write(), which wakes the readers and the pollers.
LEMMA StepWriteWouldBlock ==
    ASSUME IInv, NEW p \in Writer, WriteWouldBlock(p)
    PROVE  IInv'
<1>1. p \in Proc /\ {"do_select", "pipefs_read"} \subseteq Chan
  BY Roles, Channels, Zenon
<1>2. /\ IsRunning(p) /\ Fine(p) /\ pc[p] = "write" /\ cpu \in {NULL, p} /\ NULL \notin Proc
      /\ k \in KType /\ TypeOK /\ DOMAIN asked = Proc
  BY <1>1, Acting, Zenon DEF WriteWouldBlock
<1>3. Local(p) /\ pc'[p] = "user"
  BY <1>1, <1>2, Zenon DEF WriteWouldBlock, Local, Goto, LeavesCPU, TypeOK, PC
<1>4. UNCHANGED <<ring, open, lock, sent, env>> /\ lock # p
  BY <1>1, <1>2, Zenon DEF WriteWouldBlock, Fine, Locks
<1>5. WokenOn(Proc, k, k', {"do_select", "pipefs_read"})
  BY <1>1, <1>2, WakingReaders, Zenon DEF WriteWouldBlock
<1>. QED
  BY <1>1, <1>2, <1>3, <1>4, <1>5, Leaving

\* lock_resource(): without faults the lock is free, and n is fresh.
LEMMA Taking ==
    ASSUME IInv, NEW p \in Proc, NEW l \in {"rlock", "wlock"}, NEW c \in {"rcopy", "wcopy"},
           IsRunning(p), cpu \in {NULL, p}, pc[p] \notin {"rcopy", "wcopy"}, p \in open,
           TakeLock(p, l, c), UNCHANGED <<ring, open, left, asked, sent, env>>,
           n' \in [Proc -> 0 .. PIPE_BUF], \A q \in Proc \ {p} : n'[q] = n[q],
           \/ p \in Reader /\ l = "rlock" /\ c = "rcopy" /\ n'[p] \in 1 .. ReadLimit /\ ring.size > 0
           \/ /\ p \in Writer /\ l = "wlock" /\ c = "wcopy" /\ n'[p] \in 1 .. WriteLimit
              /\ n'[p] <= left[p] /\ left[p] > 0
    PROVE  IInv'
<1>1. /\ TypeOK /\ NULL \notin Proc /\ Fine(p) /\ k \in KType /\ DOMAIN asked = Proc
      /\ "pipe_resource" \in Chan /\ NULL \notin Chan
  BY Roles, Channels, NullIsNoChan, Zenon DEF IInv, TypeOK, Domains
<1>2. ReadLimit' = ReadLimit /\ WriteLimit' = WriteLimit
  BY Zenon DEF ReadLimit, WriteLimit
<1>3. CASE lock = NULL
  <2>1. lock' = p /\ k' = k /\ pc' = [pc EXCEPT ![p] = c] /\ Copying(p)
    BY <1>3, Zenon DEF TakeLock, Goto
  <2>2. Local(p) /\ pc'[p] = c
    BY <1>1, <2>1, Zenon DEF Local, Copying, KeepsCPU, LeavesCPU, TypeOK, PC
  <2>3. Moves(p, {}) /\ HasCause(p)'
    BY <2>1, <2>2, GoesOnAlone, Zenon
  <2>4. ~env.faults => cpu' = p
    BY <2>1, Zenon DEF Copying, KeepsCPU
  <2>5. Locks(p)'
    BY <2>1, <2>2, <2>4, Zenon DEF Locks
  <2>6. InPlace(p)' /\ Keeps(p)'
    BY <1>2, <2>2, Roles, Zenon DEF InPlace, Keeps
  <2>. QED
    BY <1>3, <2>1, <2>3, <2>5, <2>6, QuietStep
<1>4. CASE lock # NULL
  <2>1. lock' = lock /\ k' = sleep(k, p, "pipe_resource", FALSE) /\ pc' = [pc EXCEPT ![p] = l] /\ cpu' = NULL
    BY <1>4, Zenon DEF TakeLock, Goto, LeavesCPU
  <2>2. Local(p) /\ pc'[p] = l
    BY <1>1, <2>1, Zenon DEF Local, TypeOK, PC
  <2>3. env.faults
    <3>1. lock \in Proc /\ Fine(lock) /\ lock # p
      BY <1>1, <1>4, Zenon DEF IInv, TypeOK, Fine, Locks
    <3>. QED
      BY <1>1, <3>1, Zenon DEF Fine, Locks
  <2>4. Moves(p, {})
    <3>1. WokenOn(Proc, k, k, {})
      BY <1>1, NobodyWoken, Zenon
    <3>2. ChannelAt(p)' = "pipe_resource"
      BY <2>2, Zenon DEF ChannelAt
    <3>. QED
      BY <1>1, <2>1, <2>2, <3>1, <3>2, FallsAsleep, Zenon
  <2>5. k'.state[p] = "SLEEPING" /\ k'.sleep_address[p] = "pipe_resource"
    BY <1>1, <2>1, Zenon DEF sleep, KType
  <2>6. HasCause(p)'
    BY <1>4, <2>1, <2>2, <2>5, Zenon DEF HasCause, Asleep
  <2>7. InPlace(p)' /\ Keeps(p)'
    BY <1>2, <2>2, Roles, Zenon DEF InPlace, Keeps
  <2>8. Locks(p)'
    BY <1>1, <2>1, <2>2, <2>3, Zenon DEF Fine, Locks
  <2>. QED
    BY <2>1, <2>4, <2>6, <2>7, <2>8, QuietStep, Zenon
<1>. QED
  BY <1>3, <1>4, Zenon

\* The bytes that pipefs_read() finds.
LEMMA StepReadTakes ==
    ASSUME IInv, NEW p \in Reader, ReadTakes(p)
    PROVE  IInv'
<1>1. p \in Proc
  BY Roles, Zenon
<1>2. /\ IsRunning(p) /\ Fine(p) /\ pc[p] = "read" /\ cpu \in {NULL, p} /\ NULL \notin Proc
      /\ k \in KType /\ TypeOK /\ DOMAIN asked = Proc
  BY <1>1, Acting, Zenon DEF ReadTakes
<1>3. ReadLimit \in 0 .. PIPE_BUF /\ left[p] \in Nat /\ PIPE_BUF \in Nat
  BY <1>1, <1>2, Limits, Sizes DEF IInv, TypeOK
<1>4. ReadN(p) \in 1 .. ReadLimit /\ ReadN(p) <= left[p] /\ ReadN(p) \in 0 .. PIPE_BUF
  BY <1>3 DEF ReadTakes, ReadN, Least
<1>5. /\ n' \in [Proc -> 0 .. PIPE_BUF] /\ n'[p] = ReadN(p)
      /\ \A q \in Proc \ {p} : n'[q] = n[q]
  BY <1>1, <1>2, <1>4, Zenon DEF ReadTakes, TypeOK
<1>6. p \in open /\ ring.size > 0
  BY <1>1, <1>2, Roles, Zenon DEF Fine, InPlace, Keeps, ReadTakes
<1>7. TakeLock(p, "rlock", "rcopy") /\ UNCHANGED <<ring, open, left, asked, sent, env>>
  BY Zenon DEF ReadTakes
<1>. QED
  BY <1>1, <1>2, <1>4, <1>5, <1>6, <1>7, Taking

\* After the sleep for the lock, n is what it was.
LEMMA StepReadTakesLater ==
    ASSUME IInv, NEW p \in Reader, ReadTakesLater(p)
    PROVE  IInv'
<1>1. p \in Proc
  BY Roles, Zenon
<1>2. /\ IsRunning(p) /\ Fine(p) /\ pc[p] = "rlock" /\ cpu \in {NULL, p} /\ NULL \notin Proc
      /\ k \in KType /\ TypeOK /\ DOMAIN asked = Proc
  BY <1>1, Acting, Zenon DEF ReadTakesLater
<1>3. n' = n /\ n \in [Proc -> 0 .. PIPE_BUF]
  BY <1>2, Zenon DEF ReadTakesLater, TypeOK
<1>4. p \in open /\ n[p] \in 1 .. ReadLimit /\ ring.size > 0
  BY <1>1, <1>2, Roles, Zenon DEF Fine, InPlace, Keeps
<1>5. TakeLock(p, "rlock", "rcopy") /\ UNCHANGED <<ring, open, left, asked, sent, env>>
  BY Zenon DEF ReadTakesLater
<1>. QED
  BY <1>1, <1>2, <1>3, <1>4, <1>5, Taking

\* The room that pipefs_write() finds.
LEMMA StepWriteTakes ==
    ASSUME IInv, NEW p \in Writer, WriteTakes(p)
    PROVE  IInv'
<1>1. p \in Proc
  BY Roles, Zenon
<1>2. /\ IsRunning(p) /\ Fine(p) /\ pc[p] = "write" /\ cpu \in {NULL, p} /\ NULL \notin Proc
      /\ k \in KType /\ TypeOK /\ DOMAIN asked = Proc
  BY <1>1, Acting, Zenon DEF WriteTakes
<1>3. WriteLimit \in 0 .. PIPE_BUF /\ left[p] \in Nat /\ PIPE_BUF \in Nat
  BY <1>1, <1>2, Limits, Sizes, Zenon DEF IInv, TypeOK
<1>4. WriteN(p) \in 1 .. WriteLimit /\ WriteN(p) <= left[p] /\ WriteN(p) \in 0 .. PIPE_BUF
  BY <1>3 DEF WriteTakes, WriteN, Least
<1>5. /\ n' \in [Proc -> 0 .. PIPE_BUF] /\ n'[p] = WriteN(p)
      /\ \A q \in Proc \ {p} : n'[q] = n[q]
  BY <1>1, <1>2, <1>4, Zenon DEF WriteTakes, TypeOK
<1>6. p \in open /\ left[p] > 0
  BY <1>1, <1>2, Roles, Zenon DEF Fine, InPlace, Keeps, WriteTakes
<1>7. TakeLock(p, "wlock", "wcopy") /\ UNCHANGED <<ring, open, left, asked, sent, env>>
  BY Zenon DEF WriteTakes
<1>. QED
  BY <1>1, <1>2, <1>4, <1>5, <1>6, <1>7, Taking

\* The same for the writer.
LEMMA StepWriteTakesLater ==
    ASSUME IInv, NEW p \in Writer, WriteTakesLater(p)
    PROVE  IInv'
<1>1. p \in Proc
  BY Roles, Zenon
<1>2. /\ IsRunning(p) /\ Fine(p) /\ pc[p] = "wlock" /\ cpu \in {NULL, p} /\ NULL \notin Proc
      /\ k \in KType /\ TypeOK /\ DOMAIN asked = Proc
  BY <1>1, Acting, Zenon DEF WriteTakesLater
<1>3. n' = n /\ n \in [Proc -> 0 .. PIPE_BUF]
  BY <1>2, Zenon DEF WriteTakesLater, TypeOK
<1>4. p \in open /\ n[p] \in 1 .. WriteLimit /\ left[p] > 0 /\ n[p] <= left[p]
  BY <1>1, <1>2, Roles, Zenon DEF Fine, InPlace, Keeps
<1>5. TakeLock(p, "wlock", "wcopy") /\ UNCHANGED <<ring, open, left, asked, sent, env>>
  BY Zenon DEF WriteTakesLater
<1>. QED
  BY <1>1, <1>2, <1>3, <1>4, <1>5, Taking

\* A step in which p falls asleep where it waits for something of the pipe.
LEMMA Dozing ==
    ASSUME IInv, NEW p \in Proc, NEW A, NEW k2, WokenOn(Proc, k, k2, A), Local(p),
           NEW a \in Chan, k' = sleep(k2, p, a, TRUE), a = ChannelAt(p)',
           pc'[p] \in {"open", "read", "write", "poll"}, cpu \in {NULL, p}, lock # p,
           UNCHANGED <<ring, open, lock, sent, env>>, InPlace(p)', Keeps(p)', HasCause(p)'
    PROVE  IInv'
<1>1. TypeOK
  BY Zenon DEF IInv
<1>2. Moves(p, A)
  <2>1. pc'[p] \notin {"user", "rcopy", "wcopy"} /\ (pc'[p] \in {"rlock", "wlock"} => ~TRUE)
    BY Zenon
  <2>. QED
    BY <1>1, <2>1, FallsAsleep, Zenon
<1>3. Locks(p)'
  BY Zenon DEF Locks
<1>. QED
  BY <1>2, <1>3, QuietStep, Zenon

\* A reader sleeps for bytes.
LEMMA StepReadSleeps ==
    ASSUME IInv, NEW p \in Reader, ReadSleeps(p)
    PROVE  IInv'
<1>1. p \in Proc /\ "pipefs_read" \in Chan
  BY Roles, Channels, Zenon
<1>2. /\ IsRunning(p) /\ Fine(p) /\ pc[p] = "read" /\ cpu \in {NULL, p} /\ NULL \notin Proc
      /\ k \in KType /\ TypeOK /\ DOMAIN asked = Proc
  BY <1>1, Acting, Zenon DEF ReadSleeps, NothingToRead
<1>3. /\ Local(p) /\ pc'[p] = "read" /\ k' = sleep(k, p, "pipefs_read", TRUE)
      /\ UNCHANGED <<ring, open, lock, sent, env>>
  BY <1>1, <1>2, Zenon DEF ReadSleeps, Local, LeavesCPU, TypeOK
<1>4. ChannelAt(p)' = "pipefs_read"
  BY <1>3, Zenon DEF ChannelAt
<1>5. ring'.size = 0 /\ writers' # {}
  BY Zenon DEF ReadSleeps, writers
<1>6. k'.sleep_address[p] = "pipefs_read"
  BY <1>1, <1>2, <1>3, Zenon DEF sleep, KType
<1>7. HasCause(p)'
  BY <1>3, <1>5, <1>6, Zenon DEF HasCause, Asleep
<1>8. lock # p /\ InPlace(p)' /\ Keeps(p)'
  BY <1>1, <1>2, <1>3, Roles DEF Fine, Locks, InPlace, Keeps
<1>9. WokenOn(Proc, k, k, {})
  BY <1>2, NobodyWoken, Zenon
<1>. QED
  BY <1>1, <1>2, <1>3, <1>4, <1>7, <1>8, <1>9, Dozing, Zenon

\* A reader that finds bytes only past the end of the ring stays where it is.
LEMMA StepReadLooksAgain ==
    ASSUME IInv, NEW p \in Reader, ReadLooksAgain(p)
    PROVE  IInv'
<1>1. p \in Proc
  BY Roles, Zenon
<1>2. /\ IsRunning(p) /\ Fine(p) /\ pc[p] = "read" /\ cpu \in {NULL, p} /\ NULL \notin Proc
      /\ k \in KType /\ TypeOK /\ DOMAIN asked = Proc
  BY <1>1, Acting, Zenon DEF ReadLooksAgain, NothingToRead
<1>3. Local(p) /\ pc'[p] = "read" /\ UNCHANGED <<k, ring, open, lock, sent, env>>
  BY <1>1, <1>2, Zenon DEF ReadLooksAgain, Local, KeepsCPU, TypeOK
<1>4. Moves(p, {}) /\ HasCause(p)'
  BY <1>1, <1>2, <1>3, GoesOnAlone, Zenon
<1>5. InPlace(p)' /\ Locks(p)' /\ Keeps(p)'
  BY <1>1, <1>2, <1>3, Roles, Zenon DEF Fine, Locks, InPlace, Keeps
<1>. QED
  BY <1>1, <1>2, <1>3, <1>4, <1>5, QuietStep

\* A writer wakes the readers and sleeps for room.
LEMMA StepWriteSleeps ==
    ASSUME IInv, NEW p \in Writer, WriteSleeps(p)
    PROVE  IInv'
<1> DEFINE k2 == wakeup(wakeup(k, "do_select"), "pipefs_read")
<1>1. p \in Proc /\ {"pipefs_read", "pipefs_write", "do_select"} \subseteq Chan
  BY Roles, Channels, Zenon
<1>2. /\ IsRunning(p) /\ Fine(p) /\ pc[p] = "write" /\ cpu \in {NULL, p} /\ NULL \notin Proc
      /\ k \in KType /\ TypeOK /\ DOMAIN asked = Proc
  BY <1>1, Acting, Zenon DEF WriteSleeps
<1>3. /\ Local(p) /\ pc'[p] = "write" /\ left'[p] = left[p]
      /\ UNCHANGED <<ring, open, lock, sent, env>>
  BY <1>1, <1>2, Zenon DEF WriteSleeps, Local, LeavesCPU, TypeOK
<1>4. k' = sleep(k2, p, "pipefs_write", TRUE)
  BY Zenon DEF WriteSleeps
<1>5. WokenOn(Proc, k, k2, {"do_select", "pipefs_read"})
  BY <1>1, <1>2, WakingReaders, Zenon
<1> HIDE DEF k2
<1>6. ChannelAt(p)' = "pipefs_write"
  BY <1>3, Zenon DEF ChannelAt
<1>7. k'.sleep_address[p] = "pipefs_write"
  <2>1. k2 \in KType
    BY <1>5, Zenon DEF WokenOn
  <2>. QED
    BY <1>1, <1>4, <2>1, Zenon DEF sleep, KType
<1>8. WriteLimit' = 0 /\ readers' # {}
  <2>1. left[p] > 0 /\ left[p] \in Nat /\ WriteLimit \in 0 .. PIPE_BUF /\ PIPE_BUF \in Nat
    BY <1>1, <1>2, Limits, Sizes DEF Fine, Keeps, TypeOK, IInv
  <2>2. WriteLimit = 0 /\ readers # {}
    BY <2>1 DEF WriteSleeps, WriteN, Least
  <2>. QED
    BY <1>3, <2>2, Zenon DEF WriteLimit, readers
<1>9. HasCause(p)'
  BY <1>3, <1>7, <1>8, Zenon DEF HasCause, Asleep
<1>10. lock # p /\ InPlace(p)' /\ Keeps(p)'
  BY <1>1, <1>2, <1>3, Roles DEF Fine, Locks, InPlace, Keeps
<1>. QED
  BY <1>1, <1>2, <1>3, <1>4, <1>5, <1>6, <1>9, <1>10, Dozing, Zenon

\* A poller sleeps while pipefs_select() says no.
LEMMA StepPoll ==
    ASSUME IInv, NEW p \in Poller, NEW f, Poll(p, f)
    PROVE  IInv'
<1>1. p \in Proc /\ "do_select" \in Chan
  BY Roles, Channels, Zenon
<1>2. /\ IsRunning(p) /\ Fine(p) /\ pc[p] \in {"user", "poll"} /\ cpu \in {NULL, p}
      /\ NULL \notin Proc /\ k \in KType /\ TypeOK /\ DOMAIN asked = Proc
  BY <1>1, Acting, Zenon DEF Poll
<1>3. /\ Local(p) /\ pc'[p] = "poll" /\ asked'[p] = f /\ k' = sleep(k, p, "do_select", TRUE)
      /\ UNCHANGED <<ring, open, lock, sent, env>>
  BY <1>1, <1>2, Zenon DEF Poll, Local, LeavesCPU, Goto, TypeOK, PC
<1>4. ChannelAt(p)' = "do_select"
  BY <1>3, Zenon DEF ChannelAt
<1>5. ~pipefs_select(asked[p])'
  BY <1>3, Zenon DEF Poll, pipefs_select, readers, writers
<1>6. k'.sleep_address[p] = "do_select"
  BY <1>1, <1>2, <1>3, Zenon DEF sleep, KType
<1>7. HasCause(p)'
  BY <1>3, <1>5, <1>6, Zenon DEF HasCause, Asleep
<1>8. lock # p /\ InPlace(p)' /\ Keeps(p)'
  <2>1. p \in env.procs
    BY <1>2, Zenon DEF Poll, At, Fine, InPlace
  <2>. QED
    BY <1>1, <1>2, <1>3, <2>1, Roles, Zenon DEF Fine, Locks, InPlace, Keeps
<1>9. WokenOn(Proc, k, k, {})
  BY <1>2, NobodyWoken, Zenon
<1>. QED
  BY <1>1, <1>2, <1>3, <1>4, <1>7, <1>8, <1>9, Dozing, Zenon

\* fifo_open() goes on when the other end is there, and sleeps again if not.
LEMMA StepFifoOpening ==
    ASSUME IInv, NEW p \in Reader \cup Writer, FifoOpening(p)
    PROVE  IInv'
<1>1. p \in Proc /\ OwnChan(p) \in Chan /\ OwnChan(p) \in {"pipefs_read", "pipefs_write"}
  BY Roles, Channels, Zenon DEF OwnChan
<1>2. /\ IsRunning(p) /\ Fine(p) /\ pc[p] = "open" /\ cpu \in {NULL, p} /\ NULL \notin Proc
      /\ k \in KType /\ TypeOK /\ DOMAIN asked = Proc
  BY <1>1, Acting, Zenon DEF FifoOpening
<1>3. WokenOn(Proc, k, k, {})
  BY <1>2, NobodyWoken, Zenon
<1>4. UNCHANGED <<ring, open, lock, sent, env>> /\ lock # p
  BY <1>1, <1>2, Zenon DEF FifoOpening, Fine, Locks
<1>5. CASE Goto(p, "user") /\ LeavesCPU /\ UNCHANGED k
  <2>1. Local(p) /\ pc'[p] = "user" /\ k' = k
    BY <1>1, <1>2, <1>5, Zenon DEF FifoOpening, Local, LeavesCPU, Goto, TypeOK, PC
  <2>. QED
    BY <1>1, <1>2, <1>3, <1>4, <2>1, Leaving
<1>6. CASE OtherEnd(p) = {} /\ k' = sleep(k, p, OwnChan(p), TRUE) /\ LeavesCPU /\ UNCHANGED pc
  <2>1. Local(p) /\ pc'[p] = "open"
    BY <1>1, <1>2, <1>6, Zenon DEF FifoOpening, Local, LeavesCPU, TypeOK
  <2>2. ChannelAt(p)' = OwnChan(p)
    BY <2>1, Zenon DEF ChannelAt, OwnChan
  <2>3. k'.sleep_address[p] = OwnChan(p)
    BY <1>1, <1>2, <1>6, Zenon DEF sleep, KType
  <2>4. OtherEnd(p)' = {}
    BY <1>4, <1>6, Zenon DEF OtherEnd, readers, writers
  <2>5. HasCause(p)'
    BY <1>1, <2>1, <2>3, <2>4, Zenon DEF HasCause, Asleep
  <2>6. InPlace(p)' /\ Keeps(p)'
    BY <1>1, <1>2, <1>4, <2>1, Roles, Zenon DEF Fine, InPlace, Keeps
  <2>. QED
    BY <1>1, <1>2, <1>3, <1>4, <1>6, <2>1, <2>2, <2>5, <2>6, Dozing, Zenon
<1>. QED
  BY <1>5, <1>6, Zenon DEF FifoOpening

-----------------------------------------------------------------------------
(* The steps that change the ring. *)

\* In an orderly environment nobody of p's kind is at the lock or in a copy
\* while p is on the move.
LEMMA Alone ==
    ASSUME IInv, OrderlyEnvs, NEW p \in Proc, NEW q \in Proc \ {p}, cpu \in {NULL, p},
           {p, q} \subseteq Reader \/ {p, q} \subseteq Writer, p \in open
    PROVE  pc[q] \notin {"rlock", "rcopy", "wlock", "wcopy"}
<1>1. /\ Orderly(env) /\ open \subseteq env.procs /\ InPlace(q) /\ Locks(q)
      /\ NULL \notin Proc /\ q \notin Poller
  BY Roles, Zenon DEF IInv, Domains, OrderlyEnvs, Fine
<1>2. CASE env.faults
  BY <1>1, <1>2, Zenon DEF Orderly, InPlace
<1>3. CASE ~env.faults
  BY <1>1, <1>3, Zenon DEF Locks
<1>. QED
  BY <1>2, <1>3, Zenon

\* A step of p that does no harm to the others.
LEMMA HarmlessStep ==
    ASSUME IInv, NEW p \in Proc, NEW A, Moves(p, A), cpu \in {NULL, p},
           \A q \in Proc \ {p} : Harmless(q, A),
           Shape(ring'), env' = env, open' \subseteq env.procs, open' \subseteq Proc,
           lock' \in Proc \cup {NULL}, sent' \in [Writer -> Nat],
           InPlace(p)', Locks(p)', Keeps(p)', HasCause(p)'
    PROVE  IInv'
<1>1. ASSUME NEW q \in Proc \ {p} PROVE Fine(q)'
  BY Others, Zenon
<1>2. Fine(p)'
  BY Zenon DEF Moves, Fine
<1>3. TypeOK'
  <2>1. /\ k' \in KType /\ pc' \in [Proc -> PC] /\ left' \in [Proc -> Nat]
        /\ n' \in [Proc -> 0 .. PIPE_BUF] /\ cpu' \in Proc \cup {NULL}
    BY Zenon DEF Moves, Local, WokenOn
  <2>2. /\ ring'.readoff \in 0 .. PIPE_BUF /\ ring'.writeoff \in 0 .. PIPE_BUF
        /\ ring'.size \in 0 .. PIPE_BUF /\ DOMAIN ring'.data = 0 .. PIPE_BUF - 1
    BY Zenon DEF Shape
  <2>. QED
    BY <2>1, <2>2, Zenon DEF TypeOK
<1>4. Domains' /\ (open \subseteq env.procs)'
  BY Zenon DEF IInv, Domains, Moves, Local
<1>. QED
  BY <1>1, <1>2, <1>3, <1>4, Zenon DEF IInv

\* The copy of pipefs_read().
LEMMA StepReadCopies ==
    ASSUME IInv, OrderlyEnvs, NEW p \in Reader, ReadCopies(p)
    PROVE  IInv'
<1> DEFINE A == {"pipe_resource", "do_select", "pipefs_write"}
<1>1. p \in Proc /\ A \subseteq Chan
  BY Roles, Channels, Zenon
<1>2. /\ IsRunning(p) /\ Fine(p) /\ pc[p] = "rcopy" /\ cpu \in {NULL, p} /\ NULL \notin Proc
      /\ k \in KType /\ TypeOK /\ DOMAIN asked = Proc
  BY <1>1, Acting, Zenon DEF ReadCopies
<1>3. /\ lock = p /\ n[p] \in 1 .. ReadLimit /\ ring.size > 0 /\ p \in open
  BY <1>1, <1>2, Roles, Zenon DEF Fine, Locks, Keeps, InPlace
<1>4. /\ Local(p) /\ pc'[p] = "user" /\ lock' = NULL /\ UNCHANGED <<open, sent, env>>
      /\ ring' = AfterRead(n[p])
  BY <1>1, <1>2, Sizes DEF ReadCopies, Local, Goto, LeavesCPU, TypeOK, PC
<1>5. Shape(ring') /\ WriteLimit' >= WriteLimit
  BY <1>3, <1>4, Reading, Zenon DEF IInv
<1>6. WokenOn(Proc, k, k', A)
  BY <1>1, <1>2, Unlocking, Zenon DEF ReadCopies
<1>7. Moves(p, A)
  BY <1>1, <1>2, <1>4, <1>6, GoesOn, Zenon
<1>8. ASSUME NEW q \in Proc \ {p} PROVE Harmless(q, A)
  <2>1. pc[q] \notin {"rlock", "rcopy"}
    BY <1>1, <1>2, <1>3, <1>8, Alone, Roles DEF IInv, Fine, InPlace
  <2>2. OtherEnd(q)' = OtherEnd(q)
    BY <1>4, Zenon DEF OtherEnd, readers, writers
  <2>. QED
    BY <1>1, <1>2, <1>3, <1>4, <1>5, <2>1, <2>2 DEF Harmless
<1>9. InPlace(p)' /\ Locks(p)' /\ Keeps(p)'
  BY <1>1, <1>2, <1>4, Roles, Zenon DEF InPlace, Locks, Keeps
<1>10. HasCause(p)'
  <2>1. IsRunning(p)'
    BY <1>1, <1>2, <1>6, NullIsNoChan DEF WokenOn, IsRunning
  <2>. QED
    BY <2>1, Awake, Zenon
<1>11. open \subseteq env.procs /\ open \subseteq Proc /\ sent \in [Writer -> Nat]
  BY Zenon DEF IInv, TypeOK, Domains
<1>. QED
  BY <1>1, <1>2, <1>4, <1>5, <1>7, <1>8, <1>9, <1>10, <1>11, HarmlessStep

\* The copy of pipefs_write().
LEMMA StepWriteCopies ==
    ASSUME IInv, OrderlyEnvs, NEW p \in Writer, WriteCopies(p)
    PROVE  IInv'
<1> DEFINE A == {"pipe_resource", "do_select", "pipefs_read"}
<1>1. p \in Proc /\ A \subseteq Chan
  BY Roles, Channels, Zenon
<1>2. /\ IsRunning(p) /\ Fine(p) /\ pc[p] = "wcopy" /\ cpu \in {NULL, p} /\ NULL \notin Proc
      /\ k \in KType /\ TypeOK /\ DOMAIN asked = Proc
  BY <1>1, Acting, Zenon DEF WriteCopies
<1>3. /\ lock = p /\ n[p] \in 1 .. WriteLimit /\ n[p] <= left[p] /\ p \in open
      /\ n[p] \in Nat /\ left[p] \in Nat /\ n[p] > 0
  BY <1>1, <1>2, Roles, Sizes DEF Fine, Locks, Keeps, InPlace, TypeOK
<1>4. /\ lock' = NULL /\ UNCHANGED <<open, env>> /\ ring' = Written(ring, p, n[p])
      /\ left' \in [Proc -> Nat] /\ left'[p] = left[p] - n[p]
      /\ \A q \in Proc \ {p} : left'[q] = left[q]
  BY <1>1, <1>2, <1>3 DEF WriteCopies, TypeOK
<1>5. \/ pc' = [pc EXCEPT ![p] = "user"] /\ cpu' = NULL
      \/ pc' = [pc EXCEPT ![p] = "write"] /\ cpu' = p /\ left'[p] # 0
  BY Zenon DEF WriteCopies, Goto, LeavesCPU, KeepsCPU
<1>6. Local(p) /\ (pc'[p] = "user" \/ (pc'[p] = "write" /\ left'[p] > 0))
  <2>1. DOMAIN asked' = Proc /\ \A q \in Proc \ {p} : asked'[q] = asked[q]
    BY <1>2, Zenon DEF WriteCopies
  <2>2. n' \in [Proc -> 0 .. PIPE_BUF] /\ \A q \in Proc \ {p} : n'[q] = n[q]
    BY <1>1, <1>2, Sizes, SMTT(30) DEF WriteCopies, TypeOK
  <2>3. pc' \in [Proc -> PC] /\ \A q \in Proc \ {p} : pc'[q] = pc[q]
    BY <1>1, <1>2, <1>5, Zenon DEF TypeOK, PC
  <2>. QED
    BY <1>1, <1>2, <1>4, <1>5, <2>1, <2>2, <2>3 DEF Local, TypeOK
<1>7. /\ Shape(ring') /\ ring'.size = ring.size + n[p]
      /\ ring.size > 0 /\ ReadLimit > 0 => ReadLimit' >= ReadLimit
  BY <1>3, <1>4, Writing DEF IInv, Domains
<1>8. WokenOn(Proc, k, k', A)
  BY <1>1, <1>2, Unlocking, Zenon DEF WriteCopies
<1>9. Moves(p, A)
  BY <1>1, <1>2, <1>6, <1>8, GoesOn
<1>10. WriteLimit > 0
  BY <1>3, Limits, Sizes DEF IInv
<1>11. ASSUME NEW q \in Proc \ {p} PROVE Harmless(q, A)
  <2>1. pc[q] \notin {"wlock", "wcopy"}
    BY <1>1, <1>2, <1>3, <1>11, Alone, Roles DEF IInv, Fine, InPlace
  <2>2. pc[q] \in {"rlock", "rcopy"} => ReadLimit' >= ReadLimit /\ ring'.size > 0
    <3> SUFFICES ASSUME pc[q] \in {"rlock", "rcopy"} PROVE ReadLimit' >= ReadLimit /\ ring'.size > 0
      BY Zenon
    <3>1. ring.size > 0 /\ n[q] \in 1 .. ReadLimit /\ ring.size \in Nat /\ ReadLimit \in Int
      BY Limits, Sizes, SMTT(30) DEF IInv, Fine, Keeps, Shape
    <3>. QED
      BY <1>3, <1>7, <3>1
  <2>3. OtherEnd(q)' = OtherEnd(q)
    BY <1>4, Zenon DEF OtherEnd, readers, writers
  <2>. QED
    BY <1>1, <1>2, <1>3, <1>4, <1>7, <1>10, <2>1, <2>2, <2>3 DEF Harmless
<1>12. InPlace(p)' /\ Locks(p)' /\ Keeps(p)'
  BY <1>1, <1>2, <1>3, <1>4, <1>6, Roles DEF InPlace, Locks, Keeps
<1>13. HasCause(p)'
  <2>1. IsRunning(p)'
    BY <1>1, <1>2, <1>8, NullIsNoChan, Zenon DEF WokenOn, IsRunning
  <2>. QED
    BY <2>1, Awake, Zenon
<1>14. open \subseteq env.procs /\ open \subseteq Proc
  BY Zenon DEF IInv, TypeOK
<1>15. sent' \in [Writer -> Nat]
  <2>1. sent \in [Writer -> Nat] /\ Labels[p] \in Nat \ {0}
    BY Sizes, Zenon DEF IInv, Domains
  <2>2. (sent[p] + n[p]) % Labels[p] \in Nat
    BY <1>3, <2>1
  <2>. QED
    BY <2>1, <2>2, Zenon DEF WriteCopies
<1>. QED
  BY <1>1, <1>2, <1>4, <1>7, <1>9, <1>11, <1>12, <1>13, <1>14, <1>15, HarmlessStep

\* pipefs_read() when nobody writes: the wrapped bytes, or the end of the file.
LEMMA StepReadNoWriter ==
    ASSUME IInv, OrderlyEnvs, NEW p \in Reader, ReadNoWriter(p)
    PROVE  IInv'
<1>1. p \in Proc
  BY Roles, Zenon
<1>2. /\ IsRunning(p) /\ Fine(p) /\ pc[p] = "read" /\ cpu \in {NULL, p} /\ NULL \notin Proc
      /\ k \in KType /\ TypeOK /\ DOMAIN asked = Proc
  BY <1>1, Acting, Zenon DEF ReadNoWriter, NothingToRead
<1>3. /\ lock # p /\ p \in open /\ writers = {} /\ UNCHANGED <<k, open, lock, sent, env>>
  BY <1>1, <1>2, Roles, Zenon DEF Fine, Locks, InPlace, ReadNoWriter
<1>4. CASE ring.size > 0 /\ ring.readoff >= PIPE_BUF
  <2>1. /\ Local(p) /\ pc'[p] = "read" /\ ring' = [ring EXCEPT !.readoff = 0]
    BY <1>1, <1>2, <1>4 DEF ReadNoWriter, Local, KeepsCPU, TypeOK
  <2>2. Moves(p, {}) /\ HasCause(p)'
    BY <1>1, <1>2, <1>3, <2>1, GoesOnAlone
  <2>3. Shape(ring') /\ ring'.size = ring.size
    BY <1>4, <2>1, Unwrapping, Zenon DEF IInv
  <2>4. ASSUME NEW q \in Proc \ {p} PROVE Harmless(q, {})
    <3>1. pc[q] \notin {"rlock", "rcopy"}
      BY <1>1, <1>2, <1>3, <2>4, Alone, Roles DEF IInv, Fine, InPlace
    <3>2. pc[q] \notin {"write", "wlock", "wcopy"}
      BY <1>3, <2>4, Roles DEF IInv, Fine, InPlace, writers
    <3>3. /\ OtherEnd(q)' = OtherEnd(q) /\ asked'[q] = asked[q]
          /\ writers' = writers /\ readers' = readers
      BY <1>3, <2>1, <2>4 DEF OtherEnd, readers, writers, Local
    <3>4. pipefs_select(asked[q])' => pipefs_select(asked[q])
      BY <2>3, <3>3, Zenon DEF pipefs_select
    <3>. QED
      BY <1>2, <1>3, <2>3, <3>1, <3>2, <3>3, <3>4 DEF Harmless
  <2>5. InPlace(p)' /\ Locks(p)' /\ Keeps(p)'
    BY <1>1, <1>2, <1>3, <2>1, Roles DEF Fine, InPlace, Locks, Keeps
  <2>6. open \subseteq env.procs /\ open \subseteq Proc /\ sent \in [Writer -> Nat]
        /\ lock \in Proc \cup {NULL}
    BY Zenon DEF IInv, TypeOK, Domains
  <2>. QED
    BY <1>1, <1>2, <1>3, <2>2, <2>3, <2>4, <2>5, <2>6, HarmlessStep
<1>5. CASE ~(ring.size > 0 /\ ring.readoff >= PIPE_BUF)
  <2>0. /\ ring' = Rewound(ring) /\ left' = [left EXCEPT ![p] = 0]
        /\ pc' = [pc EXCEPT ![p] = "user"] /\ cpu' = NULL /\ n' = n /\ asked' = asked
    BY <1>5, Zenon DEF ReadNoWriter, Goto, LeavesCPU
  <2>1. Local(p) /\ pc'[p] = "user" /\ ring' = Rewound(ring)
    BY <1>1, <1>2, <2>0 DEF Local, TypeOK, PC
  <2>2. ring' = ring
    BY <2>1, NothingToRewind, Zenon DEF IInv
  <2>3. WokenOn(Proc, k, k', {})
    BY <1>2, <1>3, NobodyWoken, Zenon
  <2>. QED
    BY <1>1, <1>2, <1>3, <2>1, <2>2, <2>3, Leaving
<1>. QED
  BY <1>4, <1>5, Zenon

-----------------------------------------------------------------------------
(* The steps that open and close the ends. *)

\* The ends of the pipe, seen from a process.
LEMMA Ends ==
    ASSUME NEW p \in Reader \cup Writer
    PROVE  /\ p \in Proc /\ p \notin Poller
           /\ OwnChan(p) \in Chan /\ OtherChan(p) \in Chan
           /\ p \in Reader => /\ p \notin Writer /\ OwnChan(p) = "pipefs_read"
                              /\ OtherChan(p) = "pipefs_write"
                              /\ EndOf(p) = readers /\ OtherEnd(p) = writers
           /\ p \in Writer => /\ p \notin Reader /\ OwnChan(p) = "pipefs_write"
                              /\ OtherChan(p) = "pipefs_read"
                              /\ EndOf(p) = writers /\ OtherEnd(p) = readers
BY Roles, Channels, Zenon DEF OwnChan, OtherChan, EndOf, OtherEnd

\* pipefs_close().
LEMMA StepClose ==
    ASSUME IInv, NEW p \in Proc, Close(p)
    PROVE  IInv'
<1> DEFINE A == IF readers = {p} THEN {"do_select", "pipefs_write"}
                ELSE IF writers = {p} THEN {"do_select", "pipefs_read"} ELSE {}
<1>1. /\ {"do_select", "pipefs_read", "pipefs_write"} \subseteq Chan /\ A \subseteq Chan
      /\ p \in Reader \cup Writer /\ p \in open
  BY Roles, Channels, Zenon DEF Close
<1>2. /\ IsRunning(p) /\ Fine(p) /\ pc[p] = "user" /\ cpu \in {NULL, p} /\ NULL \notin Proc
      /\ k \in KType /\ TypeOK /\ DOMAIN asked = Proc
  BY Acting, Zenon DEF Close
<1>3. /\ Local(p) /\ pc'[p] = "user" /\ open' = open \ {p}
      /\ UNCHANGED <<ring, lock, sent, env>>
  BY <1>2, Zenon DEF Close, Local, TypeOK
<1>4. WokenOn(Proc, k, k', A)
  <2>1. CASE readers = {p}
    BY <1>1, <1>2, <2>1, WakingReaders, Zenon DEF Close
  <2>2. CASE readers # {p} /\ writers = {p}
    BY <1>1, <1>2, <2>2, WakingReaders DEF Close
  <2>3. CASE readers # {p} /\ writers # {p}
    BY <1>2, <2>3, NobodyWoken, Zenon DEF Close
  <2>. QED
    BY <2>1, <2>2, <2>3, Zenon
<1>5. /\ readers' = readers \ {p} /\ writers' = writers \ {p}
      /\ ReadLimit' = ReadLimit /\ WriteLimit' = WriteLimit
      /\ ReadLimit \in Int /\ WriteLimit \in Int /\ Shape(ring)
  BY <1>3, Limits DEF readers, writers, ReadLimit, WriteLimit, IInv
<1>6. /\ readers # {} => readers' # {} \/ {"do_select", "pipefs_write"} \subseteq A
      /\ writers # {} => writers' # {} \/ {"do_select", "pipefs_read"} \subseteq A
  BY <1>1, <1>5, Roles DEF readers, writers
<1> HIDE DEF A
<1>7. Moves(p, A)
  BY <1>1, <1>2, <1>3, <1>4, GoesOn, Zenon
<1>8. ASSUME NEW q \in Proc \ {p} PROVE Harmless(q, A)
  <2>1. Fine(q) /\ asked'[q] = asked[q]
    BY <1>3, Zenon DEF IInv, Local
  <2>2. pc[q] \in {"rlock", "rcopy"} => ring.size > 0
    BY <2>1, Zenon DEF Fine, Keeps
  <2>3. OtherEnd(q) = {} => OtherEnd(q)' = {}
    BY <1>5, Zenon DEF OtherEnd
  <2>4. "do_select" \in A \/ (pipefs_select(asked[q])' => pipefs_select(asked[q]))
    BY <1>3, <1>5, <1>6, <2>1, Zenon DEF pipefs_select
  <2>. QED
    BY <1>3, <1>5, <1>6, <2>2, <2>3, <2>4 DEF Harmless
<1>9. InPlace(p)' /\ Locks(p)' /\ Keeps(p)'
  BY <1>2, <1>3, Roles, Zenon DEF Fine, InPlace, Locks, Keeps
<1>10. HasCause(p)'
  <2>1. IsRunning(p)'
    BY <1>1, <1>2, <1>4, NullIsNoChan DEF WokenOn, IsRunning
  <2>. QED
    BY <2>1, Awake, Zenon
<1>11. open' \subseteq env.procs /\ open' \subseteq Proc /\ sent \in [Writer -> Nat]
       /\ lock \in Proc \cup {NULL}
  BY <1>3, Zenon DEF IInv, TypeOK, Domains
<1>. QED
  BY <1>2, <1>3, <1>5, <1>7, <1>8, <1>9, <1>10, <1>11, HarmlessStep

\* fifo_open() counts its end, wakes the other, and may wait for it.
LEMMA StepFifoOpen ==
    ASSUME IInv, OrderlyEnvs, NEW p \in Proc, FifoOpen(p)
    PROVE  IInv'
<1>1. /\ env.fifo /\ p \in env.procs /\ p \in Reader \cup Writer /\ ~env.reopen /\ p \notin open
      /\ open' = open \cup {p} /\ UNCHANGED <<lock, left, n, asked, sent, env>>
  BY Roles, Zenon DEF FifoOpen, IInv, Domains, OrderlyEnvs, Orderly
<1>2. /\ IsRunning(p) /\ Fine(p) /\ pc[p] = "user" /\ cpu \in {NULL, p} /\ NULL \notin Proc
      /\ k \in KType /\ TypeOK /\ DOMAIN asked = Proc
  BY Acting, Zenon DEF FifoOpen
<1>3. /\ Shape(ring') /\ ring'.size = ring.size /\ ring'.readoff = ring.readoff
      /\ ring'.writeoff = ring.writeoff
  <2>1. CASE open = {}
    <3>1. ring.size = 0 /\ ring' = FirstOpen(ring)
      BY <1>1, <2>1, Sizes, Zenon DEF FifoOpen, IInv, Shape
    <3>. QED
      BY <3>1, OpeningFirst, Zenon DEF IInv
  <2>2. CASE open # {}
    BY <2>2, Zenon DEF FifoOpen, IInv
  <2>. QED
    BY <2>1, <2>2, Zenon
<1> DEFINE A == {} \cup {OtherChan(p)}
           k2 == wakeup(k, OtherChan(p))
<1>4. WokenOn(Proc, k, k2, A) /\ A \subseteq Chan
  BY <1>1, <1>2, NobodyWoken, Waking, Ends
<1>5. \/ pc' = pc /\ cpu' = NULL /\ k' = k2
      \/ /\ OtherEnd(p) = {} /\ k' = sleep(k2, p, OwnChan(p), TRUE)
         /\ pc' = [pc EXCEPT ![p] = "open"] /\ cpu' = NULL
  BY Zenon DEF FifoOpen, Goto, LeavesCPU
<1> HIDE DEF k2
<1>6. Local(p) /\ pc'[p] \in {"user", "open"}
  BY <1>1, <1>2, <1>5, Zenon DEF Local, TypeOK, PC
<1>7. /\ readers' = readers \cup ({p} \cap Reader) /\ writers' = writers \cup ({p} \cap Writer)
      /\ ReadLimit' = ReadLimit /\ WriteLimit' = WriteLimit
      /\ ReadLimit \in Int /\ WriteLimit \in Int
  BY <1>1, <1>3, Limits DEF readers, writers, ReadLimit, WriteLimit, IInv
<1>8. Moves(p, A) /\ HasCause(p)'
  <2>1. CASE pc' = pc /\ cpu' = NULL /\ k' = k2
    <3>1. Moves(p, A)
      BY <1>2, <1>4, <1>6, <2>1, GoesOn
    <3>2. IsRunning(p)'
      BY <1>2, <1>4, <2>1, NullIsNoChan DEF WokenOn, IsRunning
    <3>. QED
      BY <3>1, <3>2, Awake
  <2>2. CASE /\ OtherEnd(p) = {} /\ k' = sleep(k2, p, OwnChan(p), TRUE)
             /\ pc' = [pc EXCEPT ![p] = "open"] /\ cpu' = NULL
    <3>1. pc'[p] = "open" /\ OwnChan(p) \in Chan
      BY <1>1, <1>2, <2>2, Ends DEF TypeOK
    <3>2. ChannelAt(p)' = OwnChan(p)
      BY <3>1, Zenon DEF ChannelAt, OwnChan
    <3>3. Moves(p, A)
      BY <1>2, <1>4, <1>6, <2>2, <3>1, <3>2, FallsAsleep, Zenon
    <3>4. OtherEnd(p)' = {}
      BY <1>1, <1>7, <2>2, Roles DEF OtherEnd
    <3>5. k2 \in KType
      BY <1>4, Zenon DEF WokenOn
    <3>6. k'.sleep_address[p] = OwnChan(p) /\ OwnChan(p) \in {"pipefs_read", "pipefs_write"}
      BY <1>1, <2>2, <3>5, Ends DEF sleep, KType
    <3>. QED
      BY <3>1, <3>3, <3>4, <3>6 DEF HasCause, Asleep
  <2>. QED
    BY <1>5, <2>1, <2>2, Zenon
<1>9. ASSUME NEW q \in Proc \ {p} PROVE Harmless(q, A)
  <2>1. Fine(q) /\ asked'[q] = asked[q]
    BY <1>1, Zenon DEF IInv
  <2>2. pc[q] \in {"rlock", "rcopy"} => ring.size > 0
    BY <2>1, Zenon DEF Fine, Keeps
  <2>3. pc[q] = "open" => OwnChan(q) \in A \/ OtherEnd(q)' = OtherEnd(q)
    <3> SUFFICES ASSUME pc[q] = "open" PROVE OwnChan(q) \in A \/ OtherEnd(q)' = OtherEnd(q)
      BY Zenon
    <3>1. q \in Reader \cup Writer
      BY <2>1, Roles, Zenon DEF Fine, InPlace
    <3>2. CASE p \in Reader
      BY <1>7, <3>1, <3>2, Roles DEF OwnChan, OtherChan, OtherEnd
    <3>3. CASE p \in Writer
      BY <1>7, <3>1, <3>3, Roles, Zenon DEF OwnChan, OtherChan, OtherEnd
    <3>. QED
      BY <1>1, <3>2, <3>3
  <2>4. pipefs_select(asked[q])' => pipefs_select(asked[q])
    BY <1>3, <1>7, <2>1, Zenon DEF pipefs_select
  <2>. QED
    BY <1>1, <1>3, <1>7, <2>2, <2>3, <2>4 DEF Harmless
<1>10. InPlace(p)' /\ Locks(p)' /\ Keeps(p)'
  BY <1>1, <1>2, <1>6, Roles DEF Fine, InPlace, Locks, Keeps
<1>11. open' \subseteq env.procs /\ open' \subseteq Proc /\ sent \in [Writer -> Nat]
       /\ lock \in Proc \cup {NULL}
  BY <1>1, Zenon DEF IInv, TypeOK, Domains
<1>. QED
  BY <1>1, <1>2, <1>3, <1>8, <1>9, <1>10, <1>11, HarmlessStep, Zenon

\* A signal.
LEMMA StepInterrupt ==
    ASSUME IInv, OrderlyEnvs, NEW p \in Proc, Interrupt(p)
    PROVE  IInv'
<1>1. /\ TypeOK /\ k \in KType /\ Fine(p) /\ NULL \notin Proc /\ DOMAIN asked = Proc
      /\ CanWakeProc(k, p) /\ cpu = NULL /\ IsSleeping(p)
  BY Roles, Zenon DEF IInv, TypeOK, Domains, Interrupt, Fine, Sleeps, IsRunning
<1>2. lock # p /\ pc[p] \in {"open", "read", "write", "poll"}
  BY <1>1, Zenon DEF Fine, Locks, IsSleeping, CanWakeProc, TypeOK, PC
<1>3. Local(p) /\ pc'[p] = "user" /\ UNCHANGED <<ring, lock, sent, env>>
  BY <1>1, Zenon DEF Interrupt, Local, Goto, TypeOK, PC
<1> DEFINE k2 == wakeup_proc(k, p)
<1>4. /\ WokenOn(Proc \ {p}, k, k2, {}) /\ k2 \in KType
      /\ k2.state[p] = "RUNNING" /\ k2.sleep_address[p] = NULL /\ p \notin k2.notint
  BY <1>1, TakingOut, Zenon DEF WokenOn
<1>5. InPlace(p)' /\ Locks(p)' /\ Keeps(p)'
  BY <1>2, <1>3, Roles DEF InPlace, Locks, Keeps
<1>6. CASE pc[p] # "open"
  <2>1. open' = open /\ k' = k2
    BY <1>6, Zenon DEF Interrupt
  <2>2. IsRunning(p)'
    BY <1>4, <2>1, Zenon DEF IsRunning
  <2>3. Moves(p, {}) /\ HasCause(p)'
    BY <1>3, <1>4, <2>1, <2>2, Awake DEF Moves, Sleeps
  <2>. QED
    BY <1>1, <1>3, <1>5, <2>1, <2>3, QuietStep
<1>7. CASE pc[p] = "open"
  <2> DEFINE A == IF EndOf(p) = {p} THEN {} \cup {OtherChan(p)} ELSE {}
  <2>1. /\ p \in Reader \cup Writer /\ p \in open /\ open' = open \ {p} /\ env.fifo
        /\ k' = IF EndOf(p) = {p} THEN wakeup(k2, OtherChan(p)) ELSE k2
    BY <1>1, <1>7, Roles DEF Interrupt, Fine, InPlace
  <2> HIDE DEF k2
  <2>2. WokenOn(Proc \ {p}, k, k', A) /\ IsRunning(p)'
    <3>1. CASE EndOf(p) = {p}
      <4>1. k' = wakeup(k2, OtherChan(p)) /\ OtherChan(p) \in Chan
        BY <2>1, <3>1, Ends, Zenon
      <4>2. WokenOn(Proc \ {p}, k, k', {} \cup {OtherChan(p)})
        BY <1>1, <1>4, <4>1, Waking, Zenon
      <4>3. WokenOn(Proc, k2, k', {} \cup {OtherChan(p)})
        BY <1>4, <4>1, NobodyWoken, Waking, Zenon
      <4>4. IsRunning(p)'
        BY <1>4, <4>1, <4>3, NullIsNoChan DEF WokenOn, IsRunning
      <4>. QED
        BY <3>1, <4>2, <4>4, Zenon
    <3>2. CASE EndOf(p) # {p}
      BY <1>4, <2>1, <3>2, Zenon DEF IsRunning
    <3>. QED
      BY <3>1, <3>2, Zenon
  <2>3. /\ readers' = readers \ {p} /\ writers' = writers \ {p}
        /\ ReadLimit' = ReadLimit /\ WriteLimit' = WriteLimit
        /\ ReadLimit \in Int /\ WriteLimit \in Int /\ Shape(ring)
    BY <1>3, <2>1, Limits DEF readers, writers, ReadLimit, WriteLimit, IInv
  <2>4. /\ readers # {} => readers' # {} \/ "pipefs_write" \in A
        /\ writers # {} => writers' # {} \/ "pipefs_read" \in A
    <3>1. CASE p \in Reader
      BY <2>1, <2>3, <3>1, Roles DEF EndOf, OtherChan, readers, writers
    <3>2. CASE p \in Writer
      BY <2>1, <2>3, <3>2, Roles DEF EndOf, OtherChan, readers, writers
    <3>. QED
      BY <2>1, <3>1, <3>2
  <2> HIDE DEF A
  <2>5. Moves(p, A) /\ HasCause(p)'
    BY <1>3, <2>2, Awake, Zenon DEF Moves, Sleeps
  <2>6. ASSUME NEW q \in Proc \ {p} PROVE Harmless(q, A)
    <3>1. Fine(q) /\ Orderly(env)
      BY Zenon DEF IInv, Domains, OrderlyEnvs
    <3>2. pc[q] \in {"rlock", "rcopy"} => ring.size > 0
      BY <3>1, Zenon DEF Fine, Keeps
    <3>3. OtherEnd(q) = {} => OtherEnd(q)' = {}
      BY <2>3, Zenon DEF OtherEnd
    <3>4. pc[q] # "poll"
      BY <2>1, <3>1, Roles, Zenon DEF Orderly, Fine, InPlace
    <3>. QED
      BY <1>3, <2>1, <2>3, <2>4, <3>2, <3>3, <3>4 DEF Harmless
  <2>7. open' \subseteq env.procs /\ open' \subseteq Proc /\ sent \in [Writer -> Nat]
        /\ lock \in Proc \cup {NULL}
    BY <2>1, Zenon DEF IInv, TypeOK, Domains
  <2>. QED
    BY <1>1, <1>3, <1>5, <2>3, <2>5, <2>6, <2>7, HarmlessStep
<1>. QED
  BY <1>6, <1>7, Zenon

-----------------------------------------------------------------------------
(* The theorems. *)

\* A pipe as do_pipe() makes it.
LEMMA Initially == Init => IInv
<1> SUFFICES ASSUME Init PROVE IInv
  BY Zenon
<1>1. /\ PIPE_BUF \in Nat \ {0} /\ NULL \notin Proc /\ NULL \notin Chan
      /\ env \in Envs /\ env.procs \subseteq Proc
      /\ open = IF env.fifo THEN {} ELSE env.procs
      /\ lock = NULL /\ cpu = NULL /\ pc = [p \in Proc |-> "user"] /\ k = KInit
      /\ left = [p \in Proc |-> 0] /\ n = [p \in Proc |-> 0] /\ asked = [p \in Proc |-> 0]
      /\ sent = [p \in Writer |-> 0]
  BY Sizes, Roles, NullIsNoChan, Environments, Zenon DEF Init
<1>2. Shape(ring)
  <2> DEFINE d == [i \in 0 .. PIPE_BUF - 1 |-> NULL]
  <2>1. d \in [0 .. PIPE_BUF - 1 -> Byte]
    BY Zenon DEF Byte
  <2>2. ring = [data |-> d, readoff |-> 0, writeoff |-> 0, size |-> 0]
    BY Zenon DEF Init
  <2> HIDE DEF d
  <2>3. Shape([data |-> d, readoff |-> 0, writeoff |-> 0, size |-> 0])
    BY <2>1, Sizes, Shaped
  <2>. QED
    BY <2>2, <2>3, Zenon
<1>3. k \in KType /\ \A p \in Proc : IsRunning(p)
  BY <1>1, Zenon DEF KInit, KType, PState, IsRunning
<1>4. TypeOK /\ Domains /\ open \subseteq env.procs
  BY <1>1, <1>2, <1>3, SMTT(30) DEF TypeOK, Domains, Shape, PC
<1>5. ASSUME NEW p \in Proc PROVE Fine(p)
  BY <1>1, <1>3, Zenon DEF Fine, InPlace, Locks, Keeps, Sleeps, IsRunning, HasCause, Asleep
<1>. QED
  BY <1>2, <1>4, <1>5 DEF IInv

\* A step that changes nothing.
LEMMA Stuttering ==
    ASSUME IInv, UNCHANGED vars PROVE IInv'
<1>1. /\ k' = k /\ ring' = ring /\ open' = open /\ lock' = lock /\ cpu' = cpu /\ pc' = pc
      /\ left' = left /\ n' = n /\ asked' = asked /\ out' = out /\ sent' = sent /\ env' = env
  BY Zenon DEF vars
<1>2. ASSUME NEW p \in Proc PROVE Fine(p)'
  <2>1. Fine(p)
    BY Zenon DEF IInv
  <2>2. InPlace(p)' /\ Locks(p)' /\ Keeps(p)'
    BY <1>1, <2>1, Zenon DEF Fine, InPlace, Locks, Keeps, ReadLimit, WriteLimit
  <2>3. Sleeps(p)'
    BY <1>1, <2>1, Zenon DEF Fine, Sleeps, IsRunning, IsSleeping, ChannelAt, OwnChan
  <2>4. HasCause(p)'
    BY <1>1, <2>1 DEF Fine, HasCause, Asleep, WriteLimit, readers, writers, OtherEnd, pipefs_select
  <2>. QED
    BY <2>2, <2>3, <2>4, Zenon DEF Fine
<1>3. TypeOK' /\ Domains' /\ Shape(ring') /\ (open \subseteq env.procs)'
  BY <1>1, Zenon DEF IInv, TypeOK, Domains
<1>. QED
  BY <1>2, <1>3, Zenon DEF IInv

\* Every step keeps the invariant.
LEMMA Inductive ==
    ASSUME OrderlyEnvs, IInv, [Next]_vars PROVE IInv'
<1>1. ASSUME NEW p \in Reader, NEW c \in env.counts, Read(p, c) PROVE IInv'
  BY <1>1, StepRead, Zenon
<1>2. ASSUME NEW p \in Reader, ReadStep(p) PROVE IInv'
  <2>1. CASE FifoOpening(p)
    BY <2>1, StepFifoOpening, Zenon
  <2>2. CASE ReadTakes(p)
    BY <2>2, StepReadTakes, Zenon
  <2>3. CASE ReadTakesLater(p)
    BY <2>3, StepReadTakesLater, Zenon
  <2>4. CASE ReadCopies(p)
    BY <2>4, StepReadCopies, Zenon
  <2>5. CASE ReadWouldBlock(p)
    BY <2>5, StepReadWouldBlock, Zenon
  <2>6. CASE ReadSleeps(p)
    BY <2>6, StepReadSleeps, Zenon
  <2>7. CASE ReadLooksAgain(p)
    BY <2>7, StepReadLooksAgain, Zenon
  <2>8. CASE ReadNoWriter(p)
    BY <2>8, StepReadNoWriter, Zenon
  <2>. QED
    BY <1>2, <2>1, <2>2, <2>3, <2>4, <2>5, <2>6, <2>7, <2>8 DEF ReadStep
<1>3. ASSUME NEW p \in Writer, NEW c \in env.counts, Write(p, c) PROVE IInv'
  BY <1>3, StepWrite, Zenon
<1>4. ASSUME NEW p \in Writer, WriteStep(p) PROVE IInv'
  <2>1. CASE FifoOpening(p)
    BY <2>1, StepFifoOpening, Zenon
  <2>2. CASE WriteNoReader(p)
    BY <2>2, StepWriteNoReader, Zenon
  <2>3. CASE WriteTakes(p)
    BY <2>3, StepWriteTakes, Zenon
  <2>4. CASE WriteTakesLater(p)
    BY <2>4, StepWriteTakesLater, Zenon
  <2>5. CASE WriteCopies(p)
    BY <2>5, StepWriteCopies, Zenon
  <2>6. CASE WriteWouldBlock(p)
    BY <2>6, StepWriteWouldBlock, Zenon
  <2>7. CASE WriteSleeps(p)
    BY <2>7, StepWriteSleeps, Zenon
  <2>. QED
    BY <1>4, <2>1, <2>2, <2>3, <2>4, <2>5, <2>6, <2>7 DEF WriteStep
<1>5. ASSUME NEW p \in Poller, NEW f \in {"SEL_R", "SEL_W"}, Poll(p, f) PROVE IInv'
  BY <1>5, StepPoll, Zenon
<1>6. ASSUME NEW p \in Poller, PollReturns(p) PROVE IInv'
  BY <1>6, StepPollReturns, Zenon
<1>7. ASSUME NEW p \in Proc, Interrupt(p) PROVE IInv'
  BY <1>7, StepInterrupt, Zenon
<1>8. ASSUME NEW p \in Proc, Close(p) PROVE IInv'
  BY <1>8, StepClose, Zenon
<1>9. ASSUME NEW p \in Proc, FifoOpen(p) PROVE IInv'
  BY <1>9, StepFifoOpen, Zenon
<1>10. ASSUME UNCHANGED vars PROVE IInv'
  BY <1>10, Stuttering, Zenon
<1>. QED
  BY <1>1, <1>2, <1>3, <1>4, <1>5, <1>6, <1>7, <1>8, <1>9, <1>10 DEF Next

\* The inductive invariant holds of every pipe in an orderly environment.
THEOREM PipeInvariant == ASSUME OrderlyEnvs PROVE Spec => []IInv
<1>1. Init => IInv
  BY Initially, Zenon
<1>2. IInv /\ [Next]_vars => IInv'
  BY Inductive, Zenon
<1>. QED
  BY <1>1, <1>2, PTL DEF Spec

\* In an orderly environment the variables of the pipe keep their types: the
\* offsets stay in the page, and size between 0 and PIPE_BUF.
THEOREM PipeTyped == ASSUME OrderlyEnvs PROVE Spec => []TypeOK
<1>1. IInv => TypeOK
  BY Zenon DEF IInv
<1>. QED
  BY <1>1, PipeInvariant, PTL

\* In an orderly environment no reader, writer, poller or opener of a pipe
\* sleeps for what is there: no wakeup of pipe.c, fifo.c or of the lock is lost.
THEOREM NoPipeWakeupLost == ASSUME OrderlyEnvs PROVE Spec => []SleepersHaveCause
<1>1. IInv => SleepersHaveCause
  BY Zenon DEF IInv, Fine, SleepersHaveCause
<1>. QED
  BY <1>1, PipeInvariant, PTL

-----------------------------------------------------------------------------
(* The queue. *)

\* A function on 1 .. m is a sequence of length m.
LEMMA Listed ==
    ASSUME NEW S, NEW m \in Nat, NEW f \in [1 .. m -> S]
    PROVE  f \in Seq(S) /\ Len(f) = m
<1>1. f \in Seq(S)
  OBVIOUS
<1>. QED
  BY <1>1

\* A piece of a sequence.
LEMMA Piece ==
    ASSUME NEW S, NEW s \in Seq(S), NEW a \in 1 .. Len(s) + 1, NEW b \in 0 .. Len(s), a <= b + 1
    PROVE  /\ SubSeq(s, a, b) \in Seq(S) /\ Len(SubSeq(s, a, b)) = b - a + 1
           /\ \A i \in 1 .. b - a + 1 : SubSeq(s, a, b)[i] = s[a + i - 1]
<1>1. SubSeq(s, a, b) \in Seq(S) /\ Len(SubSeq(s, a, b)) = b - a + 1
  OBVIOUS
<1>2. ASSUME NEW i \in 1 .. b - a + 1 PROVE SubSeq(s, a, b)[i] = s[a + i - 1]
  OBVIOUS
<1>. QED
  BY <1>1, <1>2, Zenon

\* One sequence after another.
LEMMA Joined ==
    ASSUME NEW S, NEW s \in Seq(S), NEW t \in Seq(S)
    PROVE  /\ s \o t \in Seq(S) /\ Len(s \o t) = Len(s) + Len(t)
           /\ \A i \in 1 .. Len(s) + Len(t) : (s \o t)[i] = IF i <= Len(s) THEN s[i] ELSE t[i - Len(s)]
<1>1. s \o t \in Seq(S) /\ Len(s \o t) = Len(s) + Len(t)
  OBVIOUS
<1>2. ASSUME NEW i \in 1 .. Len(s) + Len(t)
      PROVE  (s \o t)[i] = IF i <= Len(s) THEN s[i] ELSE t[i - Len(s)]
  OBVIOUS
<1>. QED
  BY <1>1, <1>2, Zenon

\* Sequences with the same elements are the same.
LEMMA SameElements ==
    ASSUME NEW S, NEW s \in Seq(S), NEW t \in Seq(S),
           Len(s) = Len(t), \A i \in 1 .. Len(s) : s[i] = t[i]
    PROVE  s = t
OBVIOUS

\* An offset past the end of the ring is one at its start.
LEMMA Modulo ==
    ASSUME NEW x \in 0 .. 2 * PIPE_BUF - 1
    PROVE  x % PIPE_BUF = IF x < PIPE_BUF THEN x ELSE x - PIPE_BUF
<1>1. PIPE_BUF \in Nat \ {0}
  BY Sizes, Zenon
<1>2. CASE x < PIPE_BUF
  BY <1>1, <1>2
<1>3. CASE x >= PIPE_BUF
  BY <1>1, <1>3
<1>. QED
  BY <1>1, <1>2, <1>3

\* The bytes of a ring, oldest first (Content is Held(ring)).
Held(r) == [i \in 1 .. r.size |-> r.data[(r.readoff + i - 1) % PIPE_BUF]]

\* Where the ring keeps the bytes of the queue.
LEMMA HeldAt ==
    ASSUME NEW r, Shape(r)
    PROVE  /\ Held(r) \in Seq(Byte) /\ Len(Held(r)) = r.size
           /\ \A i \in 1 .. r.size :
                 Held(r)[i] = r.data[IF r.readoff + i - 1 < PIPE_BUF
                                          THEN r.readoff + i - 1
                                          ELSE r.readoff + i - 1 - PIPE_BUF]
<1>1. /\ PIPE_BUF \in Nat \ {0} /\ r.size \in 0 .. PIPE_BUF /\ r.readoff \in 0 .. PIPE_BUF
      /\ r.data \in [0 .. PIPE_BUF - 1 -> Byte]
  BY Sizes, Zenon DEF Shape
<1> DEFINE at(i) == IF r.readoff + i - 1 < PIPE_BUF THEN r.readoff + i - 1
                    ELSE r.readoff + i - 1 - PIPE_BUF
<1>2. ASSUME NEW i \in 1 .. r.size
      PROVE  (r.readoff + i - 1) % PIPE_BUF = at(i) /\ at(i) \in 0 .. PIPE_BUF - 1
  <2> DEFINE x == r.readoff + i - 1
  <2>1. x \in 0 .. 2 * PIPE_BUF - 1 /\ at(i) \in 0 .. PIPE_BUF - 1
    BY <1>1, <1>2
  <2>2. at(i) = IF x < PIPE_BUF THEN x ELSE x - PIPE_BUF
    BY <1>1, <1>2
  <2> HIDE DEF x, at
  <2>3. x % PIPE_BUF = at(i)
    BY <2>1, <2>2, Modulo, Zenon
  <2>. QED
    BY <2>1, <2>3, Zenon DEF x
<1> DEFINE byte(i) == r.data[(r.readoff + i - 1) % PIPE_BUF]
<1>3. \A i \in 1 .. r.size : byte(i) = r.data[at(i)] /\ byte(i) \in Byte
  <2> HIDE DEF at
  <2>. QED
    BY <1>1, <1>2, Zenon
<1>4. Held(r) = [i \in 1 .. r.size |-> byte(i)]
  BY Zenon DEF Held
<1> HIDE DEF byte, at
<1>5. /\ Held(r) \in Seq(Byte) /\ Len(Held(r)) = r.size
      /\ \A i \in 1 .. r.size : Held(r)[i] = r.data[at(i)]
  <2>1. Held(r) \in [1 .. r.size -> Byte] /\ r.size \in Nat
    BY <1>1, <1>3, <1>4
  <2>2. Held(r) \in Seq(Byte) /\ Len(Held(r)) = r.size
    BY <2>1, Listed, Zenon
  <2>. QED
    BY <1>3, <1>4, <2>2, Zenon
<1>. QED
  BY <1>5, Zenon DEF at

\* A read takes the oldest bytes of the queue.
LEMMA Gets ==
    ASSUME Shape(ring), ring.size > 0, NEW m \in 1 .. ReadLimit, ring' = AfterRead(m)
    PROVE  /\ m \in 1 .. Len(Content)
           /\ Content' = SubSeq(Content, m + 1, Len(Content))
           /\ [i \in 1 .. m |-> ring.data[ring.readoff + i - 1]] = SubSeq(Content, 1, m)
<1>1. /\ PIPE_BUF \in Nat \ {0} /\ ring.size \in 0 .. PIPE_BUF /\ ring.readoff \in 0 .. PIPE_BUF
      /\ ring.data \in [0 .. PIPE_BUF - 1 -> Byte] /\ m \in Nat \ {0}
      /\ ring.readoff + m <= PIPE_BUF
  BY Sizes DEF Shape, ReadLimit
<1>2. /\ Shape(ring') /\ ring'.size = ring.size - m /\ m <= ring.size /\ ring'.data = ring.data
      /\ ring'.size > 0 => ring'.readoff = ring.readoff + m
  BY Reading, Zenon
<1>3. /\ Content \in Seq(Byte) /\ Len(Content) = ring.size
      /\ \A i \in 1 .. ring.size :
            Content[i] = ring.data[IF ring.readoff + i - 1 < PIPE_BUF
                                     THEN ring.readoff + i - 1
                                     ELSE ring.readoff + i - 1 - PIPE_BUF]
  BY HeldAt, Zenon DEF Content, Held
<1>4. Content' = SubSeq(Content, m + 1, Len(Content))
  <2>1. Content' = [i \in 1 .. ring'.size |-> ring'.data[(ring'.readoff + i - 1) % PIPE_BUF]]
    BY Zenon DEF Content
  <2> DEFINE t == SubSeq(Content, m + 1, ring.size)
  <2>2. ASSUME NEW i \in 1 .. ring.size - m
        PROVE  /\ ring'.data[(ring'.readoff + i - 1) % PIPE_BUF] = Content[m + i]
               /\ Content[m + i] \in Byte
    <3>1. ring'.size > 0 /\ ring'.readoff + i - 1 = ring.readoff + (m + i) - 1 /\ m + i \in 1 .. ring.size
      <4> DEFINE S == ring.size  R == ring.readoff  S1 == ring'.size  R1 == ring'.readoff
      <4>1. S \in Nat /\ R \in Nat /\ m \in Nat /\ S1 = S - m /\ (S1 > 0 => R1 = R + m) /\ i \in 1 .. S - m
        BY <1>1, <1>2
      <4> HIDE DEF S, R, S1, R1
      <4>2. i \in Nat /\ S1 > 0 /\ R1 = R + m /\ m + i \in 1 .. S
        BY <4>1
      <4>3. R1 + i - 1 = R + (m + i) - 1
        BY <4>1, <4>2
      <4>. QED
        BY <4>2, <4>3, Zenon DEF S, R, S1, R1
    <3>2. Content[m + i] = ring.data[(ring.readoff + (m + i) - 1) % PIPE_BUF]
      BY <3>1, Zenon DEF Content
    <3>3. Content[m + i] \in Byte
      BY <1>3, <3>1
    <3>. QED
      BY <1>2, <3>1, <3>2, <3>3, Zenon
  <2>3. t \in Seq(Byte) /\ Len(t) = ring.size - m /\ \A i \in 1 .. ring.size - m : t[i] = Content[m + i]
    <3>1. m + 1 \in 1 .. Len(Content) + 1 /\ ring.size \in 0 .. Len(Content) /\ m + 1 <= ring.size + 1
      BY <1>1, <1>2, <1>3
    <3>3. /\ t \in Seq(Byte) /\ Len(t) = ring.size - (m + 1) + 1
          /\ \A i \in 1 .. ring.size - (m + 1) + 1 : t[i] = Content[(m + 1) + i - 1]
      BY <1>3, <3>1, Piece, ZenonT(30)
    <3> HIDE DEF t
    <3>4. Len(t) = ring.size - m
      BY <1>1, <1>2, <3>3
    <3>5. \A i \in 1 .. ring.size - m : t[i] = Content[m + i]
      <4>1. ring.size - (m + 1) + 1 = ring.size - m /\ \A i \in Int : (m + 1) + i - 1 = m + i
        BY <1>1, <1>2, SMTT(30)
      <4>2. 1 .. ring.size - m \subseteq Int
        BY <1>1, <1>2
      <4>. QED
        BY <3>3, <4>1, <4>2, Zenon
    <3>. QED
      BY <3>3, <3>4, <3>5
  <2> HIDE DEF t
  <2>4. t = [i \in 1 .. ring.size - m |-> Content[m + i]]
    <3>1. t = [i \in 1 .. Len(t) |-> t[i]]
      BY <2>3
    <3>. QED
      BY <2>3, <3>1, Zenon
  <2>5. Content' = [i \in 1 .. ring.size - m |-> Content[m + i]]
    BY <1>2, <2>1, <2>2, Zenon
  <2>. QED
    BY <1>3, <2>4, <2>5, Zenon DEF t
<1>5. [i \in 1 .. m |-> ring.data[ring.readoff + i - 1]] = SubSeq(Content, 1, m)
  <2> DEFINE t == SubSeq(Content, 1, m)
  <2>1. ASSUME NEW i \in 1 .. m PROVE Content[i] = ring.data[ring.readoff + i - 1] /\ Content[i] \in Byte
    <3>1. i \in 1 .. ring.size /\ ring.readoff + i - 1 < PIPE_BUF
      BY <1>1, <1>2, <2>1
    <3>2. Content[i] = ring.data[ring.readoff + i - 1]
      BY <1>3, <3>1, Zenon
    <3>. QED
      BY <1>3, <3>1, <3>2
  <2>2. /\ t \in Seq(Byte) /\ Len(t) = m - 1 + 1
        /\ \A i \in 1 .. m - 1 + 1 : t[i] = Content[1 + i - 1]
    <3>1. 1 \in 1 .. Len(Content) + 1 /\ m \in 0 .. Len(Content) /\ 1 <= m + 1
      BY <1>1, <1>2, <1>3
    <3>. QED
      BY <1>3, <3>1, Piece
  <2> HIDE DEF t
  <2>3. Len(t) = m /\ \A i \in 1 .. m : t[i] = Content[i]
    BY <1>1, <2>2
  <2>4. t = [i \in 1 .. m |-> Content[i]]
    BY <1>1, <2>2, <2>3
  <2>. QED
    BY <2>1, <2>4, Zenon DEF t
<1>. QED
  BY <1>1, <1>2, <1>3, <1>4, <1>5

\* A write adds the bytes of its writer to the queue.
LEMMA Puts ==
    ASSUME Shape(ring), sent \in [Writer -> Nat], NEW p \in Writer, NEW m \in 1 .. WriteLimit,
           ring' = Written(ring, p, m)
    PROVE  /\ Len(Content) + m <= PIPE_BUF /\ m \in 1 .. PIPE_BUF
           /\ Content' = Content \o Queue!Bytes(p, sent[p], m)
<1> DEFINE R == ring.readoff  W == ring.writeoff  S == ring.size  N == PIPE_BUF
           R1 == IF R >= N THEN 0 ELSE R
           B == Queue!Bytes(p, sent[p], m)
           new(i) == <<p, (sent[p] + i - 1) % Labels[p]>>
<1>1. /\ N \in Nat \ {0} /\ m \in Nat \ {0} /\ m <= WriteLimit
      /\ S \in 0 .. N /\ R \in 0 .. N /\ W \in 0 .. N
      /\ \/ S = 0 /\ R = 0 /\ W = 0
         \/ S > 0 /\ W = R + S
         \/ S > 0 /\ W = R + S - N /\ R > 0
      /\ WriteLimit = (IF R # 0 /\ W <= R THEN R ELSE N) - W
      /\ DOMAIN ring.data = 0 .. N - 1
  BY Sizes DEF Shape, WriteLimit
<1>2. /\ Shape(ring') /\ ring'.size = S + m /\ ring'.readoff = R1
      /\ ring'.data = [i \in DOMAIN ring.data |->
                          IF i \in W .. W + m - 1 THEN <<p, (sent[p] + i - W) % Labels[p]>>
                          ELSE ring.data[i]]
  BY Writing, Zenon DEF Written
<1> HIDE DEF R, W, S, N
<1>3. S + m <= N /\ W + m <= N /\ R1 \in 0 .. N - 1
  BY <1>1
<1>4. /\ Content \in Seq(Byte) /\ Len(Content) = S
      /\ \A i \in 1 .. S : Content[i] = ring.data[IF R + i - 1 < N THEN R + i - 1 ELSE R + i - 1 - N]
  <2>1. Content = Held(ring)
    BY Zenon DEF Content, Held
  <2>. QED
    BY <2>1, HeldAt, Zenon DEF R, S, N
<1>5. B = [i \in 1 .. m |-> new(i)]
  BY Zenon DEF Queue!Bytes
<1>6. B \in Seq(Byte) /\ Len(B) = m /\ \A i \in 1 .. m : B[i] = new(i)
  <2>1. \A i \in 1 .. m : new(i) \in Byte
    <3> SUFFICES ASSUME NEW i \in 1 .. m PROVE new(i) \in Byte
      BY Zenon
    <3>1. sent[p] + i - 1 \in Nat /\ Labels[p] \in Nat \ {0}
      BY <1>1, Sizes
    <3>2. (sent[p] + i - 1) % Labels[p] \in Nat
      BY <3>1
    <3>. QED
      BY <3>2, Zenon DEF Byte
  <2> HIDE DEF new, B
  <2>2. B \in [1 .. m -> Byte]
    BY <1>5, <2>1, Zenon
  <2>3. B \in Seq(Byte) /\ Len(B) = m
    BY <1>1, <2>2, Listed
  <2>. QED
    BY <1>5, <2>3, Zenon
<1> HIDE DEF B
<1>7. /\ Content \o B \in Seq(Byte) /\ Len(Content \o B) = S + m
      /\ \A i \in 1 .. S : (Content \o B)[i] = Content[i]
      /\ \A i \in 1 .. m : (Content \o B)[S + i] = B[i]
  <2>1. /\ Content \o B \in Seq(Byte) /\ Len(Content \o B) = Len(Content) + Len(B)
        /\ \A i \in 1 .. Len(Content) + Len(B) :
              (Content \o B)[i] = IF i <= Len(Content) THEN Content[i] ELSE B[i - Len(Content)]
    BY <1>4, <1>6, Joined, Zenon
  <2> DEFINE C == Content \o B
  <2> HIDE DEF C
  <2>2. C \in Seq(Byte) /\ Len(C) = S + m /\ \A i \in 1 .. S + m : C[i] = IF i <= S THEN Content[i] ELSE B[i - S]
    BY <1>4, <1>6, <2>1 DEF C
  <2>3. \A i \in 1 .. S : C[i] = Content[i]
    BY <1>1, <2>2
  <2>4. ASSUME NEW i \in 1 .. m PROVE C[S + i] = B[i]
    <3>1. S + i \in 1 .. S + m /\ ~(S + i <= S) /\ (S + i) - S = i
      BY <1>1, <2>4
    <3>. QED
      BY <2>2, <3>1, Zenon
  <2>. QED
    BY <2>2, <2>3, <2>4, Zenon DEF C
<1>8. /\ Content' \in Seq(Byte) /\ Len(Content') = S + m
      /\ \A i \in 1 .. S + m :
            Content'[i] = ring'.data[IF R1 + i - 1 < N THEN R1 + i - 1 ELSE R1 + i - 1 - N]
  <2>1. Content' = Held(ring')
    BY Zenon DEF Content, Held
  <2>2. /\ Held(ring') \in Seq(Byte) /\ Len(Held(ring')) = ring'.size
        /\ \A i \in 1 .. ring'.size :
              Held(ring')[i] = ring'.data[IF ring'.readoff + i - 1 < PIPE_BUF THEN ring'.readoff + i - 1
                                          ELSE ring'.readoff + i - 1 - PIPE_BUF]
    <3>1. Shape(ring')
      BY <1>2, Zenon
    <3>. QED
      BY <3>1, HeldAt
  <2>3. /\ Content' \in Seq(Byte) /\ Len(Content') = ring'.size
        /\ \A i \in 1 .. ring'.size :
              Content'[i] = ring'.data[IF ring'.readoff + i - 1 < PIPE_BUF THEN ring'.readoff + i - 1
                                       ELSE ring'.readoff + i - 1 - PIPE_BUF]
    BY <2>1, <2>2, Zenon
  <2> HIDE DEF R1
  <2>. QED
    BY <1>2, <2>3, Zenon DEF N
<1>9. ASSUME NEW i \in 1 .. S PROVE Content'[i] = Content[i]
  <2> DEFINE x == IF R + i - 1 < N THEN R + i - 1 ELSE R + i - 1 - N
             y == IF R1 + i - 1 < N THEN R1 + i - 1 ELSE R1 + i - 1 - N
  <2>1. x = y /\ x \in 0 .. N - 1 /\ x \notin W .. W + m - 1
    BY <1>1, <1>9
  <2>2. Content[i] = ring.data[x] /\ Content'[i] = ring'.data[y]
    <3>1. i \in 1 .. S /\ i \in 1 .. S + m
      BY <1>1, <1>9
    <3>. QED
      BY <1>4, <1>8, <3>1
  <2> HIDE DEF x, y
  <2>. QED
    BY <1>1, <1>2, <2>1, <2>2
<1>10. ASSUME NEW i \in 1 .. m PROVE Content'[S + i] = B[i]
  <2> DEFINE j == S + i
             y == IF R1 + j - 1 < N THEN R1 + j - 1 ELSE R1 + j - 1 - N
  <2>1. y = W + i - 1 /\ y \in 0 .. N - 1 /\ y \in W .. W + m - 1 /\ y - W = i - 1 /\ j \in 1 .. S + m
    BY <1>1, <1>10
  <2> HIDE DEF j
  <2>2. Content'[j] = ring'.data[y]
    BY <1>8, <2>1
  <2> HIDE DEF y
  <2>3. ring'.data[y] = <<p, (sent[p] + y - W) % Labels[p]>>
    BY <1>1, <1>2, <2>1
  <2>4. sent[p] + y - W = sent[p] + i - 1
    BY <1>1, <2>1, Zenon
  <2>. QED
    BY <1>6, <2>2, <2>3, <2>4 DEF j
<1>11. \A i \in 1 .. S + m : Content'[i] = (Content \o B)[i]
  <2> SUFFICES ASSUME NEW i \in 1 .. S + m PROVE Content'[i] = (Content \o B)[i]
    BY Zenon
  <2>0. i \in Nat \ {0} /\ S \in Nat /\ m \in Nat
    BY <1>1
  <2>1. CASE i <= S
    BY <1>1, <1>7, <1>9, <2>1
  <2>2. CASE ~(i <= S)
    <3>1. i - S \in 1 .. m /\ S + (i - S) = i
      BY <2>0, <2>2
    <3>. QED
      BY <1>7, <1>10, <3>1, Zenon
  <2>. QED
    BY <2>1, <2>2, Zenon
<1>12. Content' = Content \o B
  <2>1. Len(Content') = Len(Content \o B) /\ \A i \in 1 .. Len(Content') : Content'[i] = (Content \o B)[i]
    BY <1>7, <1>8, <1>11, Zenon
  <2>. QED
    BY <1>7, <1>8, <2>1, SameElements, Zenon
<1>. QED
  BY <1>1, <1>3, <1>4, <1>12 DEF B, N

\* An empty ring holds nothing, and the wrap of the read offset moves nothing.
LEMMA NothingMoved ==
    ASSUME Shape(ring), Shape(ring'), ring'.size = ring.size,
           \/ ring.size = 0
           \/ ring.readoff = PIPE_BUF /\ ring'.readoff = 0 /\ ring'.data = ring.data
    PROVE  Content' = Content
<1> DEFINE S == ring.size  N == PIPE_BUF
           C == Content  D == Content'
<1>1. N \in Nat \ {0} /\ S \in 0 .. N
  BY Sizes, Zenon DEF Shape
<1>2. Content = Held(ring) /\ Content' = Held(ring')
  BY Zenon DEF Content, Held
<1>3. /\ C \in Seq(Byte) /\ Len(C) = S
      /\ \A i \in 1 .. S :
            C[i] = ring.data[IF ring.readoff + i - 1 < N THEN ring.readoff + i - 1
                             ELSE ring.readoff + i - 1 - N]
  BY <1>2, HeldAt, Zenon
<1>4. /\ Held(ring') \in Seq(Byte) /\ Len(Held(ring')) = ring'.size
      /\ \A i \in 1 .. ring'.size :
            Held(ring')[i] = ring'.data[IF ring'.readoff + i - 1 < N THEN ring'.readoff + i - 1
                                        ELSE ring'.readoff + i - 1 - N]
  BY HeldAt, Zenon
<1>5. /\ D \in Seq(Byte) /\ Len(D) = S
      /\ \A i \in 1 .. S :
            D[i] = ring'.data[IF ring'.readoff + i - 1 < N THEN ring'.readoff + i - 1
                              ELSE ring'.readoff + i - 1 - N]
  BY <1>2, <1>4, Zenon
<1> HIDE DEF C, D
<1>6. ASSUME NEW i \in 1 .. S PROVE D[i] = C[i]
  <2>1. S > 0
    BY <1>1, <1>6
  <2>2. ring.readoff = N /\ ring'.readoff = 0 /\ ring'.data = ring.data
    BY <2>1
  <2>3. D[i] = ring.data[i - 1]
    BY <1>1, <1>5, <2>2
  <2>4. C[i] = ring.data[i - 1]
    BY <1>1, <1>3, <2>2
  <2>. QED
    BY <2>3, <2>4, Zenon
<1>7. D = C
  BY <1>3, <1>5, <1>6, SameElements
<1>. QED
  BY <1>7, Zenon DEF C, D

\* What the queue may do, seen from the pipe.
QueueStep == [Queue!Next]_<<Content, out, sent>>

\* A step that touches none of the ring, out and sent is none of the queue's.
LEMMA QueueWaits ==
    ASSUME UNCHANGED <<ring, out, sent>> PROVE QueueStep
BY Zenon DEF QueueStep, Content

\* The copy of a reader is a Get of the queue.
LEMMA QueueGets ==
    ASSUME IInv, NEW p \in Reader, ReadCopies(p) PROVE QueueStep
<1>1. p \in Proc
  BY Roles, Zenon
<1>2. Shape(ring) /\ n[p] \in 1 .. ReadLimit /\ ring.size > 0
  BY <1>1, Zenon DEF ReadCopies, At, IInv, Fine, Keeps
<1>3. /\ ring' = AfterRead(n[p]) /\ UNCHANGED sent
      /\ out' = [i \in 1 .. n[p] |-> ring.data[ring.readoff + i - 1]]
  BY Zenon DEF ReadCopies
<1>4. /\ n[p] \in 1 .. Len(Content)
      /\ Content' = SubSeq(Content, n[p] + 1, Len(Content))
      /\ out' = SubSeq(Content, 1, n[p])
  BY <1>2, <1>3, Gets, Zenon
<1>5. Queue!Get(n[p])
  BY <1>3, <1>4, Zenon DEF Queue!Get
<1>. QED
  BY <1>4, <1>5, Zenon DEF QueueStep, Queue!Next

\* The copy of a writer is a Put of the queue.
LEMMA QueuePuts ==
    ASSUME IInv, NEW p \in Writer, WriteCopies(p) PROVE QueueStep
<1>1. p \in Proc
  BY Roles, Zenon
<1>2. Shape(ring) /\ n[p] \in 1 .. WriteLimit /\ sent \in [Writer -> Nat]
  BY <1>1 DEF WriteCopies, At, IInv, Fine, Keeps, Domains
<1>3. /\ ring' = Written(ring, p, n[p]) /\ UNCHANGED out
      /\ sent' = [sent EXCEPT ![p] = (@ + n[p]) % Labels[p]]
  BY Zenon DEF WriteCopies
<1>4. /\ Len(Content) + n[p] <= PIPE_BUF /\ n[p] \in 1 .. PIPE_BUF
      /\ Content' = Content \o Queue!Bytes(p, sent[p], n[p])
  BY <1>2, <1>3, Puts, Zenon
<1>5. Queue!Put(p, n[p])
  BY <1>3, <1>4, Zenon DEF Queue!Put
<1>. QED
  BY <1>4, <1>5, Zenon DEF QueueStep, Queue!Next

\* The end of a file, or the wrap that finds the rest of it, moves no byte.
LEMMA QueueWraps ==
    ASSUME IInv, NEW p \in Reader, ReadNoWriter(p) PROVE QueueStep
<1>1. Shape(ring) /\ UNCHANGED <<out, sent>>
  BY Zenon DEF IInv, ReadNoWriter
<1>2. CASE ring.size > 0 /\ ring.readoff >= PIPE_BUF /\ ring' = [ring EXCEPT !.readoff = 0]
  <2>1. Shape(ring') /\ ring'.size = ring.size
    BY <1>1, <1>2, Unwrapping
  <2>2. ring.readoff = PIPE_BUF /\ ring'.readoff = 0 /\ ring'.data = ring.data
    BY <1>1, <1>2, Sizes DEF Shape
  <2>3. Content' = Content
    BY <1>1, <2>1, <2>2, NothingMoved
  <2>. QED
    BY <1>1, <2>3, Zenon DEF QueueStep
<1>3. CASE ring' = Rewound(ring)
  <2>1. ring' = ring
    BY <1>1, <1>3, NothingToRewind, Zenon
  <2>. QED
    BY <1>1, <2>1, QueueWaits, Zenon
<1>. QED
  BY <1>2, <1>3 DEF ReadNoWriter

\* The first open of a FIFO finds it empty.
LEMMA QueueOpens ==
    ASSUME OrderlyEnvs, IInv, NEW p \in Proc, FifoOpen(p) PROVE QueueStep
<1>1. /\ Shape(ring) /\ UNCHANGED <<out, sent>> /\ ~env.reopen
      /\ ring.size \in Nat
  <2>1. Shape(ring) /\ env \in Envs /\ UNCHANGED <<out, sent>>
    BY Zenon DEF IInv, Domains, FifoOpen
  <2>2. ~env.reopen
    BY <2>1, Zenon DEF OrderlyEnvs, Orderly
  <2>. QED
    BY <2>1, <2>2, Sizes DEF Shape
<1>2. CASE open = {}
  <2>1. ring.size = 0 /\ ring' = FirstOpen(ring)
    <3>1. (ring.size > 0 => env.reopen) /\ ring' = FirstOpen(ring)
      BY <1>2, Zenon DEF FifoOpen
    <3>. QED
      BY <1>1, <3>1
  <2>2. Shape(ring') /\ ring'.size = ring.size
    BY <1>1, <2>1, OpeningFirst, Zenon
  <2>3. Content' = Content
    BY <1>1, <2>1, <2>2, NothingMoved
  <2>. QED
    BY <1>1, <2>3, Zenon DEF QueueStep
<1>3. CASE open # {}
  BY <1>1, <1>3, QueueWaits, Zenon DEF FifoOpen
<1>. QED
  BY <1>2, <1>3, Zenon

\* Every step of the pipe is one of the queue, or none.
LEMMA QueueSteps ==
    ASSUME OrderlyEnvs, IInv, [Next]_vars PROVE QueueStep
<1>1. ASSUME NEW p \in Reader, NEW c \in env.counts, Read(p, c) PROVE QueueStep
  BY <1>1, QueueWaits, Zenon DEF Read
<1>2. ASSUME NEW p \in Reader, ReadStep(p) PROVE QueueStep
  <2>1. CASE ReadCopies(p)
    BY <2>1, QueueGets, Zenon
  <2>2. CASE ReadNoWriter(p)
    BY <2>2, QueueWraps, Zenon
  <2>3. CASE ~ReadCopies(p) /\ ~ReadNoWriter(p)
    BY <1>2, <2>3, QueueWaits, Zenon
       DEF ReadStep, FifoOpening, ReadTakes, ReadTakesLater, ReadWouldBlock, ReadSleeps, ReadLooksAgain
  <2>. QED
    BY <2>1, <2>2, <2>3, Zenon
<1>3. ASSUME NEW p \in Writer, NEW c \in env.counts, Write(p, c) PROVE QueueStep
  BY <1>3, QueueWaits, Zenon DEF Write
<1>4. ASSUME NEW p \in Writer, WriteStep(p) PROVE QueueStep
  <2>1. CASE WriteCopies(p)
    BY <2>1, QueuePuts, Zenon
  <2>2. CASE ~WriteCopies(p)
    BY <1>4, <2>2, QueueWaits, Zenon
       DEF WriteStep, FifoOpening, WriteNoReader, WriteTakes, WriteTakesLater, WriteWouldBlock, WriteSleeps
  <2>. QED
    BY <2>1, <2>2, Zenon
<1>5. ASSUME NEW p \in Poller, NEW f \in {"SEL_R", "SEL_W"}, Poll(p, f) PROVE QueueStep
  BY <1>5, QueueWaits, Zenon DEF Poll
<1>6. ASSUME NEW p \in Poller, PollReturns(p) PROVE QueueStep
  BY <1>6, QueueWaits, Zenon DEF PollReturns
<1>7. ASSUME NEW p \in Proc, Interrupt(p) PROVE QueueStep
  BY <1>7, QueueWaits, Zenon DEF Interrupt
<1>8. ASSUME NEW p \in Proc, Close(p) PROVE QueueStep
  BY <1>8, QueueWaits, Zenon DEF Close
<1>9. ASSUME NEW p \in Proc, FifoOpen(p) PROVE QueueStep
  BY <1>9, QueueOpens, Zenon
<1>10. ASSUME UNCHANGED vars PROVE QueueStep
  BY <1>10, QueueWaits, Zenon DEF vars
<1>. QED
  BY <1>1, <1>2, <1>3, <1>4, <1>5, <1>6, <1>7, <1>8, <1>9, <1>10 DEF Next

\* In an orderly environment the ring is a queue: what pipefs_read() returns is
\* what pipefs_write() was given, in order and once, whatever the interleaving,
\* the sizes of the calls and of the page, and wherever the offsets wrap.
THEOREM PipeIsQueue == ASSUME OrderlyEnvs PROVE Spec => ImplementsQueue
<1>1. Init => Queue!Init
  <2> SUFFICES ASSUME Init PROVE Queue!Init
    BY Zenon
  <2>1. ring.size = 0 /\ out = <<>> /\ sent = [p \in Writer |-> 0]
    BY Zenon DEF Init
  <2>2. Content = <<>>
    <3>1. 1 .. ring.size = {}
      BY <2>1
    <3>2. Content \in [{} -> Byte]
      BY <3>1, Zenon DEF Content
    <3>3. Content \in [1 .. 0 -> Byte]
      BY <2>1, <3>1, <3>2
    <3>4. Content \in Seq(Byte) /\ Len(Content) = 0
      BY <3>3, Listed, Zenon
    <3>. QED
      BY <3>4
  <2>. QED
    BY <2>1, <2>2, Zenon DEF Queue!Init
<1>2. IInv /\ [Next]_vars => [Queue!Next]_<<Content, out, sent>>
  BY QueueSteps, Zenon DEF QueueStep
<1>. QED
  BY <1>1, <1>2, PipeInvariant, PTL DEF Spec, ImplementsQueue, Queue!Spec
=============================================================================
