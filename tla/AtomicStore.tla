---------------------------- MODULE AtomicStore ----------------------------
(***************************************************************************)
(* What a journal promises of the metadata it guards: transactions take    *)
(* effect one after the other and whole, a crash falls back to the state   *)
(* after some committed transaction, and never behind a completed sync().  *)
(***************************************************************************)
CONSTANTS Block,     \* the metadata blocks
          Content      \* what may be in one

VARIABLES store,     \* the metadata as of the last committed transaction
          saved      \* the states a crash may fall back to

Init == /\ store \in [Block -> Content]
        /\ saved = {store}

Commit == /\ store' \in [Block -> Content]
          /\ saved' = saved \cup {store'}

Sync == saved' = {store} /\ UNCHANGED store

Crash == store' \in saved /\ saved' = {store'}

Next == Commit \/ Sync \/ Crash

Spec == Init /\ [][Next]_<<store, saved>>
=============================================================================
