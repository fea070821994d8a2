----------------------------- MODULE Resource -----------------------------
(***************************************************************************)
(* lock_resource() and unlock_resource() of kernel/sleep.c: the sleeping   *)
(* locks that guard the file descriptors, the process slots, the pipes,    *)
(* the file locks, the AGFS log and the sync operations.  A resource is    *)
(* the channel its waiters sleep on.  The holder may sleep for something   *)
(* else (a block, an inode) while it holds the resource.                   *)
(*                                                                         *)
(* Only processes lock and unlock resources, and a process loses the CPU   *)
(* only in sleep(): the test of locked and the sleep() that follows it are *)
(* one step, although interrupts are on between them.                      *)
(***************************************************************************)
EXTENDS SleepOps

CONSTANT Res         \* the resources; the other channels are events

ASSUME ResAreChannels == Res \subseteq Chan

VARIABLES k,         \* the processes (see SleepOps)
          locked,    \* the resources with locked set
          wanted,    \* the resources with wanted set
          pc,        \* where each process is
          res        \* the resource it waits for or holds

vars == <<k, locked, wanted, pc, res>>

(* "out"   outside          "wait"  in the sleep() of lock_resource()
   "in"    holds res        "io"    holds res, asleep for an event       *)
PC == {"out", "wait", "in", "io"}

TypeOK == /\ k \in KType
          /\ locked \in SUBSET Res
          /\ wanted \in SUBSET Res
          /\ pc \in [Proc -> PC]
          /\ res \in [Proc -> Res \cup {NULL}]

Init == /\ k = KInit
        /\ locked = {}
        /\ wanted = {}
        /\ pc = [p \in Proc |-> "out"]
        /\ res = [p \in Proc |-> NULL]

At(p, l) == pc[p] = l /\ k.state[p] = "RUNNING"
Goto(p, l) == pc' = [pc EXCEPT ![p] = l]

\* p enters lock_resource(r), or goes around its loop after a wakeup.
Tries(p, r) == At(p, "out") \/ (At(p, "wait") /\ res[p] = r)

\* (wrong: locked is not looked at again after the wakeup.)
LockTrusting(p, r) == /\ Tries(p, r) /\ (pc[p] = "out" => r \notin locked)
                      /\ locked' = locked \cup {r}
                      /\ res' = [res EXCEPT ![p] = r]
                      /\ Goto(p, "in")
                      /\ UNCHANGED <<k, wanted>>

Lock(p, r) == /\ Tries(p, r) /\ r \notin locked
              /\ locked' = locked \cup {r}
              /\ res' = [res EXCEPT ![p] = r]
              /\ Goto(p, "in")
              /\ UNCHANGED <<k, wanted>>

\* (wrong: the holder is not told.)
LockBlocksUnseen(p, r) == /\ Tries(p, r) /\ r \in locked
                          /\ k' = sleep(k, p, r, FALSE)
                          /\ res' = [res EXCEPT ![p] = r]
                          /\ Goto(p, "wait")
                          /\ UNCHANGED <<locked, wanted>>

LockBlocks(p, r) == /\ Tries(p, r) /\ r \in locked
                    /\ wanted' = wanted \cup {r}
                    /\ k' = sleep(k, p, r, FALSE)
                    /\ res' = [res EXCEPT ![p] = r]
                    /\ Goto(p, "wait")
                    /\ UNCHANGED locked

\* (wrong: wanted is cleared and the waiters are left asleep.)
UnlockQuietly(p) == /\ At(p, "in")
                    /\ locked' = locked \ {res[p]}
                    /\ wanted' = wanted \ {res[p]}
                    /\ res' = [res EXCEPT ![p] = NULL]
                    /\ Goto(p, "out")
                    /\ UNCHANGED k

Unlock(p) == /\ At(p, "in")
             /\ locked' = locked \ {res[p]}
             /\ wanted' = wanted \ {res[p]}
             /\ k' = IF res[p] \in wanted THEN wakeup(k, res[p]) ELSE k
             /\ res' = [res EXCEPT ![p] = NULL]
             /\ Goto(p, "out")

\* The holder sleeps for an event of the critical section.
Wait(p, e) == /\ At(p, "in")
              /\ k' = sleep(k, p, e, FALSE)
              /\ Goto(p, "io")
              /\ UNCHANGED <<locked, wanted, res>>

WaitReturns(p) == /\ At(p, "io")
                  /\ Goto(p, "in")
                  /\ UNCHANGED <<k, locked, wanted, res>>

\* The event, from an interrupt.
Event(e) == /\ k' = wakeup(k, e)
            /\ UNCHANGED <<locked, wanted, pc, res>>

\* A signal or a timeout, for whomever.
Disturb(p) == /\ k' = wakeup_proc(k, p)
              /\ UNCHANGED <<locked, wanted, pc, res>>

Next == \/ \E p \in Proc : \/ \E r \in Res : Lock(p, r) \/ LockBlocks(p, r)
                           \/ Unlock(p)
                           \/ \E e \in Chan \ Res : Wait(p, e)
                           \/ WaitReturns(p)
                           \/ Disturb(p)
        \/ \E e \in Chan \ Res : Event(e)

Spec == Init /\ [][Next]_vars

\* A process that runs gets to its next call; block transfers complete.
FairSpec == /\ Spec
            /\ \A p \in Proc : /\ WF_vars(At(p, "wait") /\ \E r \in Res : Lock(p, r) \/ LockBlocks(p, r))
                               /\ WF_vars(WaitReturns(p))
                               /\ SF_vars(Unlock(p))
            /\ \A e \in Chan \ Res : WF_vars(Event(e))

-----------------------------------------------------------------------------
(* Properties. *)

Holds(p, r) == pc[p] \in {"in", "io"} /\ res[p] = r

\* lock_resource(): at most one process is between lock and unlock of a
\* resource, although every waiter is woken by one unlock and newcomers may
\* take the resource before any of them runs.
MutualExclusion ==
    \A p, q \in Proc, r \in Res : Holds(p, r) /\ Holds(q, r) => p = q

\* locked and wanted tell the truth: a resource is locked exactly while
\* somebody holds it, and while somebody sleeps for it, it is locked and the
\* holder knows that it must wake the sleepers.
WaitersAreKnown ==
    /\ \A r \in Res : r \in locked <=> \E p \in Proc : Holds(p, r)
    /\ \A p \in Proc : pc[p] = "wait" /\ k.state[p] = "SLEEPING"
           => res[p] \in locked /\ res[p] \in wanted

\* A process in the queue of a resource is woken each time the resource is
\* freed: nobody sleeps on for ever while others come and go.
WaitersGetTheirTry ==
    \A p \in Proc : (pc[p] = "wait" /\ k.state[p] = "SLEEPING") ~> k.state[p] = "RUNNING"
=============================================================================
