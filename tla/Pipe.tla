------------------------------- MODULE Pipe -------------------------------
(***************************************************************************)
(* A pipe of fs/pipefs: the ring buffer with its two offsets, the loops of *)
(* pipefs_read() and pipefs_write(), the closing of its ends, the          *)
(* processes that poll() it, and the opens of a FIFO.                      *)
(*                                                                         *)
(* A process in the kernel goes on until it sleeps or returns: cpu is the  *)
(* process in the middle of a system call, and nobody else moves while     *)
(* there is one.  When a copy to or from user memory meets a page that is  *)
(* not there, the process sleeps holding pipe_resource.                    *)
(*                                                                         *)
(* env, chosen at the start, says who has the pipe (procs), for whom       *)
(* O_NONBLOCK may be set (nonblock: fcntl(F_SETFL) changes it at any time),*)
(* which counts are asked for, whether copies may fault, and whether it is *)
(* a FIFO, which nobody has open at first.                                 *)
(***************************************************************************)
EXTENDS SleepOps, Integers, Sequences

CONSTANTS Reader, Writer, Poller, PIPE_BUF,
          Labels,         \* see PipeSpec
          Envs            \* the environments

ASSUME Roles == /\ Proc = Reader \cup Writer \cup Poller
                /\ Reader \cap Writer = {} /\ (Reader \cup Writer) \cap Poller = {}
                /\ NULL \notin Proc
ASSUME Channels == Chan = {"pipefs_read", "pipefs_write", "do_select", "pipe_resource"}
ASSUME Sizes == PIPE_BUF \in Nat \ {0} /\ Labels \in [Writer -> Nat \ {0}]
\* (sys_read() and sys_write() return at once when count <= 0.)
ASSUME Environments == \A e \in Envs : e.procs \subseteq Proc /\ e.counts \subseteq Nat \ {0}

VARIABLES k,              \* the processes (see SleepOps)
          ring,           \* i_data, i_readoff, i_writeoff and i_size
          open,           \* the processes that have their end open
          lock,           \* the holder of pipe_resource, or NULL
          cpu, pc,
          left,           \* what is left of count, for each process
          n,              \* the n of the loop, for each process
          asked,          \* the count of the write, or the flag of the poll
          out, sent,      \* see PipeSpec
          env

vars == <<k, ring, open, lock, cpu, pc, left, n, asked, out, sent, env>>

(* The loop heads are "read", "write" and "poll".  "rlock" and "wlock" are
   inside lock_resource(), "rcopy" and "wcopy" inside memcpy_b(), "open" is in
   the loop of fifo_open(). *)
PC == {"user", "open", "read", "rlock", "rcopy", "write", "wlock", "wcopy", "poll"}

readers == Reader \cap open
writers == Writer \cap open

TypeOK == /\ k \in KType
          /\ ring.readoff \in 0 .. PIPE_BUF /\ ring.writeoff \in 0 .. PIPE_BUF
          /\ ring.size \in 0 .. PIPE_BUF
          /\ DOMAIN ring.data = 0 .. PIPE_BUF - 1
          /\ open \in SUBSET Proc
          /\ lock \in Proc \cup {NULL} /\ cpu \in Proc \cup {NULL}
          /\ pc \in [Proc -> PC]
          /\ left \in [Proc -> Nat] /\ n \in [Proc -> 0 .. PIPE_BUF]

\* do_pipe() and the forks that share its ends.
Init == /\ env \in Envs
        /\ k = KInit
        /\ ring = [data |-> [i \in 0 .. PIPE_BUF - 1 |-> NULL],
                   readoff |-> 0, writeoff |-> 0, size |-> 0]
        /\ open = IF env.fifo THEN {} ELSE env.procs
        /\ lock = NULL /\ cpu = NULL
        /\ pc = [p \in Proc |-> "user"]
        /\ left = [p \in Proc |-> 0]
        /\ n = [p \in Proc |-> 0]
        /\ asked = [p \in Proc |-> 0]
        /\ out = <<>>
        /\ sent = [p \in Writer |-> 0]

-----------------------------------------------------------------------------
Least(a, b) == IF a <= b THEN a ELSE b

\* (wrong: the read offset is not looked at.)
WriteLimitStraight == PIPE_BUF - ring.writeoff

\* The bytes pipefs_read() finds in one piece, and pipefs_write() the room.
ReadLimit == IF ring.writeoff # 0 /\ ring.readoff < ring.writeoff
               THEN ring.writeoff - ring.readoff
               ELSE PIPE_BUF - ring.readoff
WriteLimit == (IF ring.readoff # 0 /\ ring.writeoff <= ring.readoff
                 THEN ring.readoff ELSE PIPE_BUF) - ring.writeoff

ReadN(p) == Least(ReadLimit, left[p])
WriteN(p) == Least(WriteLimit, left[p])

\* p is at l and it is its turn.
At(p, l) == pc[p] = l /\ k.state[p] = "RUNNING" /\ cpu \in {NULL, p}

Goto(p, l) == pc' = [pc EXCEPT ![p] = l]
KeepsCPU(p) == cpu' = p
LeavesCPU == cpu' = NULL

\* The copy may fault and sleep.
Copying(p) == KeepsCPU(p) \/ (env.faults /\ LeavesCPU)

unlock_and_wakeup(kk, a) == wakeup(wakeup(wakeup(kk, "pipe_resource"), "do_select"), a)

\* lock_resource(): the lock, or a sleep on it.
TakeLock(p, l, copy) ==
    \/ /\ lock = NULL
       /\ lock' = p
       /\ Goto(p, copy) /\ Copying(p)
       /\ UNCHANGED k
    \/ /\ lock # NULL
       /\ k' = sleep(k, p, "pipe_resource", FALSE)
       /\ Goto(p, l) /\ LeavesCPU
       /\ UNCHANGED lock

-----------------------------------------------------------------------------
(* pipefs_read(). *)

Read(p, count) == /\ At(p, "user") /\ p \in readers
                  /\ left' = [left EXCEPT ![p] = count]
                  /\ Goto(p, "read") /\ KeepsCPU(p)
                  /\ UNCHANGED <<k, ring, open, lock, n, asked, out, sent, env>>

\* n and limit are computed before lock_resource(), and kept across it.
ReadTakes(p) == /\ At(p, "read") /\ ring.size > 0 /\ ReadN(p) > 0
                /\ n' = [n EXCEPT ![p] = ReadN(p)]
                /\ TakeLock(p, "rlock", "rcopy")
                /\ UNCHANGED <<ring, open, left, asked, out, sent, env>>

ReadTakesLater(p) == /\ At(p, "rlock")
                     /\ TakeLock(p, "rlock", "rcopy")
                     /\ UNCHANGED <<ring, open, left, n, asked, out, sent, env>>

\* (wrong: the write offset is forgotten.)
RewoundHalf(r) == IF r.size = 0 THEN [r EXCEPT !.readoff = 0] ELSE r

\* The offsets of an empty pipe go back to 0.
Rewound(r) == IF r.size = 0
                THEN [data |-> r.data, readoff |-> 0, writeoff |-> 0, size |-> 0] ELSE r

AfterRead(m) ==
    Rewound([data |-> ring.data,
             readoff |-> ring.readoff + m,
             writeoff |-> IF ring.writeoff >= PIPE_BUF THEN 0 ELSE ring.writeoff,
             size |-> ring.size - m])

ReadCopies(p) ==
    /\ At(p, "rcopy")
    /\ out' = [i \in 1 .. n[p] |-> ring.data[ring.readoff + i - 1]]
    /\ ring' = AfterRead(n[p])
    /\ lock' = NULL
    /\ k' = unlock_and_wakeup(k, "pipefs_write")
    /\ left' = [left EXCEPT ![p] = 0] /\ n' = [n EXCEPT ![p] = 0]
    /\ Goto(p, "user") /\ LeavesCPU
    /\ UNCHANGED <<open, asked, sent, env>>

NothingToRead(p) == At(p, "read") /\ ~(ring.size > 0 /\ ReadN(p) > 0)

\* -EAGAIN, before any look at what is in the pipe.
ReadWouldBlock(p) == /\ NothingToRead(p) /\ writers # {} /\ p \in env.nonblock
                     /\ left' = [left EXCEPT ![p] = 0]
                     /\ Goto(p, "user") /\ LeavesCPU
                     /\ UNCHANGED <<k, ring, open, lock, n, asked, out, sent, env>>

\* Armed, the look finds the pipe empty: sleep_commit().
ReadSleeps(p) == /\ NothingToRead(p) /\ writers # {} /\ ring.size = 0
                 /\ k' = sleep(k, p, "pipefs_read", TRUE)
                 /\ LeavesCPU
                 /\ UNCHANGED <<ring, open, lock, pc, left, n, asked, out, sent, env>>

\* Armed, the look finds bytes: sleep_disarm(), and around the loop.
ReadLooksAgain(p) == /\ NothingToRead(p) /\ writers # {} /\ ring.size > 0
                     /\ KeepsCPU(p)
                     /\ UNCHANGED <<k, ring, open, lock, pc, left, n, asked, out, sent, env>>

\* Nobody writes any more: the end of the file, or the wrapped bytes.
ReadNoWriter(p) ==
    /\ NothingToRead(p) /\ writers = {}
    /\ \/ /\ ring.size > 0 /\ ring.readoff >= PIPE_BUF
          /\ ring' = [ring EXCEPT !.readoff = 0]
          /\ KeepsCPU(p)
          /\ UNCHANGED <<pc, left>>
       \/ /\ ~(ring.size > 0 /\ ring.readoff >= PIPE_BUF)
          /\ ring' = Rewound(ring)
          /\ left' = [left EXCEPT ![p] = 0]
          /\ Goto(p, "user") /\ LeavesCPU
    /\ UNCHANGED <<k, open, lock, n, asked, out, sent, env>>

-----------------------------------------------------------------------------
(* pipefs_write(). *)

Write(p, count) == /\ At(p, "user") /\ p \in writers
                   /\ left' = [left EXCEPT ![p] = count]
                   /\ asked' = [asked EXCEPT ![p] = count]
                   /\ Goto(p, "write") /\ KeepsCPU(p)
                   /\ UNCHANGED <<k, ring, open, lock, n, out, sent, env>>

\* SIGPIPE and -EPIPE.
WriteNoReader(p) == /\ At(p, "write") /\ readers = {}
                    /\ left' = [left EXCEPT ![p] = 0]
                    /\ asked' = [asked EXCEPT ![p] = 0]
                    /\ Goto(p, "user") /\ LeavesCPU
                    /\ UNCHANGED <<k, ring, open, lock, n, out, sent, env>>

WriteTakes(p) == /\ At(p, "write") /\ readers # {} /\ WriteN(p) > 0
                 /\ n' = [n EXCEPT ![p] = WriteN(p)]
                 /\ TakeLock(p, "wlock", "wcopy")
                 /\ UNCHANGED <<ring, open, left, asked, out, sent, env>>

WriteTakesLater(p) == /\ At(p, "wlock")
                      /\ TakeLock(p, "wlock", "wcopy")
                      /\ UNCHANGED <<ring, open, left, n, asked, out, sent, env>>

Written(r, p, m) ==
    [data |-> [i \in DOMAIN r.data |->
                  IF i \in r.writeoff .. r.writeoff + m - 1
                    THEN <<p, (sent[p] + i - r.writeoff) % Labels[p]>> ELSE r.data[i]],
     readoff |-> IF r.readoff >= PIPE_BUF THEN 0 ELSE r.readoff,
     writeoff |-> r.writeoff + m,
     size |-> r.size + m]

WriteCopies(p) ==
    /\ At(p, "wcopy")
    /\ ring' = Written(ring, p, n[p])
    /\ sent' = [sent EXCEPT ![p] = (@ + n[p]) % Labels[p]]
    /\ lock' = NULL
    /\ k' = unlock_and_wakeup(k, "pipefs_read")
    /\ left' = [left EXCEPT ![p] = @ - n[p]] /\ n' = [n EXCEPT ![p] = 0]
    /\ IF left'[p] = 0 THEN Goto(p, "user") /\ LeavesCPU /\ asked' = [asked EXCEPT ![p] = 0]
                       ELSE Goto(p, "write") /\ KeepsCPU(p) /\ UNCHANGED asked
    /\ UNCHANGED <<open, out, env>>

\* -EAGAIN, however much of the count has gone in already.
WriteWouldBlock(p) == /\ At(p, "write") /\ readers # {} /\ WriteN(p) = 0 /\ p \in env.nonblock
                      /\ k' = wakeup(wakeup(k, "do_select"), "pipefs_read")
                      /\ left' = [left EXCEPT ![p] = 0]
                      /\ asked' = [asked EXCEPT ![p] = 0]
                      /\ Goto(p, "user") /\ LeavesCPU
                      /\ UNCHANGED <<ring, open, lock, n, out, sent, env>>

WriteSleeps(p) == /\ At(p, "write") /\ readers # {} /\ WriteN(p) = 0
                  /\ k' = sleep(wakeup(wakeup(k, "do_select"), "pipefs_read"),
                                p, "pipefs_write", TRUE)
                  /\ LeavesCPU
                  /\ UNCHANGED <<ring, open, lock, pc, left, n, asked, out, sent, env>>

-----------------------------------------------------------------------------
(* fifo_open(). *)

\* The end p opens, the other end, and the channels on which they sleep.
EndOf(p) == IF p \in Reader THEN readers ELSE writers
OtherEnd(p) == IF p \in Reader THEN writers ELSE readers
OwnChan(p) == IF p \in Reader THEN "pipefs_read" ELSE "pipefs_write"
OtherChan(p) == IF p \in Reader THEN "pipefs_write" ELSE "pipefs_read"

\* The first open has a new page and resets the offsets, not i_size.
FirstOpen(r) == [data |-> [i \in DOMAIN r.data |-> NULL],
                 readoff |-> 0, writeoff |-> 0, size |-> r.size]

\* The count of its end goes up before it waits for the other one.  (Without
\* reopen, a FIFO is opened for the first time again only when it is empty.)
FifoOpen(p) ==
    /\ At(p, "user") /\ env.fifo /\ p \in env.procs \ open
    /\ open = {} => (ring.size > 0 => env.reopen)
    /\ ring' = IF open = {} THEN FirstOpen(ring) ELSE ring
    /\ open' = open \cup {p}
    /\ \/ /\ OtherEnd(p) # {} \/ (p \in env.nonblock \cap Reader)
          /\ k' = wakeup(k, OtherChan(p))
          /\ LeavesCPU /\ UNCHANGED pc
       \/ /\ OtherEnd(p) = {}
          /\ k' = sleep(wakeup(k, OtherChan(p)), p, OwnChan(p), TRUE)
          /\ Goto(p, "open") /\ LeavesCPU
    /\ UNCHANGED <<lock, left, n, asked, out, sent, env>>

\* The loop, after a wakeup.
FifoOpening(p) ==
    /\ At(p, "open")
    /\ \/ OtherEnd(p) # {} /\ Goto(p, "user") /\ LeavesCPU /\ UNCHANGED k
       \/ OtherEnd(p) = {} /\ k' = sleep(k, p, OwnChan(p), TRUE) /\ LeavesCPU /\ UNCHANGED pc
    /\ UNCHANGED <<ring, open, lock, left, n, asked, out, sent, env>>

-----------------------------------------------------------------------------
(* pipefs_select(), poll(), signals and close(). *)

pipefs_select(flag) == \/ flag = "SEL_R" /\ (ring.size > 0 \/ writers = {})
                       \/ flag = "SEL_W" /\ (ring.size < PIPE_BUF \/ readers = {})

\* sleep_arm(), the scan finds nothing, sleep_commit().
Poll(p, flag) == /\ \/ At(p, "user") /\ p \in Poller \cap env.procs
                    \/ At(p, "poll") /\ asked[p] = flag
                 /\ ~pipefs_select(flag)
                 /\ asked' = [asked EXCEPT ![p] = flag]
                 /\ k' = sleep(k, p, "do_select", TRUE)
                 /\ Goto(p, "poll") /\ LeavesCPU
                 /\ UNCHANGED <<ring, open, lock, left, n, out, sent, env>>

PollReturns(p) == /\ At(p, "poll") /\ pipefs_select(asked[p])
                  /\ asked' = [asked EXCEPT ![p] = 0]
                  /\ Goto(p, "user") /\ LeavesCPU
                  /\ UNCHANGED <<k, ring, open, lock, left, n, out, sent, env>>

\* A signal takes an interruptible sleeper out: -EINTR; from fifo_open() the
\* end that it had counted is taken back.
Interrupt(p) == /\ cpu = NULL
                /\ k.state[p] = "SLEEPING" /\ CanWakeProc(k, p)
                /\ \/ pc[p] # "open" /\ k' = wakeup_proc(k, p) /\ UNCHANGED open
                   \/ /\ pc[p] = "open"
                      /\ open' = open \ {p}
                      /\ k' = IF EndOf(p) = {p} THEN wakeup(wakeup_proc(k, p), OtherChan(p))
                              ELSE wakeup_proc(k, p)
                /\ left' = [left EXCEPT ![p] = 0]
                /\ asked' = [asked EXCEPT ![p] = 0]
                /\ Goto(p, "user")
                /\ UNCHANGED <<ring, lock, cpu, n, out, sent, env>>

\* (wrong: the last reader does not wake the writers.)
CloseQuietly(p) == /\ At(p, "user") /\ p \in open
                   /\ open' = open \ {p}
                   /\ k' = IF writers = {p} THEN wakeup(wakeup(k, "do_select"), "pipefs_read")
                           ELSE k
                   /\ UNCHANGED <<ring, lock, cpu, pc, left, n, asked, out, sent, env>>

\* pipefs_close(): the last one of its end wakes the other.
Close(p) == /\ At(p, "user") /\ p \in open \ Poller
            /\ open' = open \ {p}
            /\ k' = IF readers = {p} THEN wakeup(wakeup(k, "do_select"), "pipefs_write")
                    ELSE IF writers = {p} THEN wakeup(wakeup(k, "do_select"), "pipefs_read")
                    ELSE k
            /\ UNCHANGED <<ring, lock, cpu, pc, left, n, asked, out, sent, env>>

ReadStep(p) == \/ FifoOpening(p) \/ ReadTakes(p) \/ ReadTakesLater(p) \/ ReadCopies(p)
               \/ ReadWouldBlock(p) \/ ReadSleeps(p) \/ ReadLooksAgain(p) \/ ReadNoWriter(p)

WriteStep(p) == \/ FifoOpening(p) \/ WriteNoReader(p) \/ WriteTakes(p) \/ WriteTakesLater(p)
                \/ WriteCopies(p) \/ WriteWouldBlock(p) \/ WriteSleeps(p)

Next == \/ \E p \in Reader : (\E c \in env.counts : Read(p, c)) \/ ReadStep(p)
        \/ \E p \in Writer : (\E c \in env.counts : Write(p, c)) \/ WriteStep(p)
        \/ \E p \in Poller : (\E f \in {"SEL_R", "SEL_W"} : Poll(p, f)) \/ PollReturns(p)
        \/ \E p \in Proc : Interrupt(p) \/ Close(p) \/ FifoOpen(p)

Spec == Init /\ [][Next]_vars

\* A process in the kernel goes on; one that is woken gets the CPU.
FairSpec == /\ Spec
            /\ \A p \in Reader : SF_vars(ReadStep(p))
            /\ \A p \in Writer : SF_vars(WriteStep(p))

-----------------------------------------------------------------------------
(* Properties. *)

\* The environments in which the pipe is a queue: where copies may fault there
\* is one reader and one writer (n is kept across the sleep for the lock), a
\* FIFO with bytes in it is not opened for the first time again, and who polls
\* has an end of a pipe (one who polls a FIFO would count in readers or writers).
Orderly(e) == /\ ~e.reopen
              /\ e.faults => \A p, q \in e.procs :
                                 {p, q} \subseteq Reader \/ {p, q} \subseteq Writer => p = q
              /\ e.fifo => e.procs \cap Poller = {}
OrderlyEnvs == \A e \in Envs : Orderly(e)

\* The bytes of the ring, oldest first.
Content == [i \in 1 .. ring.size |-> ring.data[(ring.readoff + i - 1) % PIPE_BUF]]

\* The ring of pipefs_read() and pipefs_write() is the queue of PipeSpec: no
\* byte is lost, repeated or overtaken, across the wraps of both offsets and
\* whatever the readers and writers do while one sleeps in its copy.
Queue == INSTANCE PipeSpec WITH q <- Content

ImplementsQueue == Queue!Spec

Asleep(p, a) == k.state[p] = "SLEEPING" /\ k.sleep_address[p] = a

\* A reader sleeps only while the pipe is empty and can still fill, a writer
\* only while it finds no room and somebody may still read, a poller only while
\* pipefs_select() says no, and fifo_open() only while nobody has the other end.
HasCause(p) ==
    /\ Asleep(p, "pipefs_read") /\ pc[p] = "read" => ring.size = 0 /\ writers # {}
    /\ Asleep(p, "pipefs_write") /\ pc[p] = "write" => WriteLimit = 0 /\ readers # {}
    /\ k.state[p] = "SLEEPING" /\ pc[p] = "open" => OtherEnd(p) = {}
    /\ Asleep(p, "do_select") => ~pipefs_select(asked[p])
    /\ Asleep(p, "pipe_resource") => lock # NULL

\* Nobody sleeps for what is there.
SleepersHaveCause == \A p \in Proc : HasCause(p)

\* A poll() that returns tells the truth: the read or the write it announces
\* does not sleep.
PollIsRight ==
    [][ \A p \in Poller : pc[p] = "poll" /\ k.state[p] = "RUNNING" /\ pc'[p] = "user" =>
            /\ asked[p] = "SEL_R" => ReadLimit > 0 \/ writers = {}
            /\ asked[p] = "SEL_W" => WriteLimit > 0 \/ readers = {} ]_vars

\* The two ends of a FIFO meet: one that waits in fifo_open() gets out when
\* the other end is opened.
OpensMeet == \A p \in Proc : (pc[p] = "open" /\ OtherEnd(p) # {}) ~> pc[p] # "open"

\* "`continue` is the whole re-look: the loop head re-derives limit and n from
\* the offsets": a reader that finds bytes in the pipe gets out of its loop.
ReaderGetsOut == \A p \in Reader : (pc[p] = "read" /\ ring.size > 0) ~> pc[p] = "user"

\* "any write operation involving less than or equal to PIPE_BUF bytes, must
\* be automatically executed and finished without being interleaved with write
\* operations of other processes": nobody writes in the middle of a write.
WritesAreWhole ==
    [][ \A p, w \in Writer : p # w /\ left[w] \in 1 .. asked[w] - 1 => sent'[p] = sent[p] ]_vars
=============================================================================
