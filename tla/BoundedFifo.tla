----------------------------- MODULE BoundedFifo -----------------------------
(***************************************************************************)
(* What the shared buffer of the thread-based stock server promises        *)
(* (Project0x02/task_2/stockserver.c:64, "an empty, bounded, shared FIFO   *)
(* buffer with n slots"), stated without semaphores, indices or locks:     *)
(* descriptors leave in the order in which they entered, each exactly      *)
(* once, and never more than n wait inside.                                *)
(***************************************************************************)
EXTENDS Naturals, Sequences

CONSTANTS Consumers, \* threads that call sbuf_remove
          Values,    \* what is stored: connected descriptors
          N          \* number of slots

VARIABLES queue,     \* the values waiting, oldest first
          got        \* got[c]: the value consumer c removed last, <<>> if none

vars == <<queue, got>>

Init == /\ queue = <<>>
        /\ got = [c \in Consumers |-> <<>>]

Insert(v) == /\ Len(queue) < N
             /\ queue' = Append(queue, v)
             /\ UNCHANGED got

Remove(c) == /\ queue # <<>>
             /\ got' = [got EXCEPT ![c] = <<Head(queue)>>]
             /\ queue' = Tail(queue)

Next == \/ \E v \in Values : Insert(v)
        \/ \E c \in Consumers : Remove(c)

Spec == Init /\ [][Next]_vars
==============================================================================
