-------------------------------- MODULE SBuf ---------------------------------
(***************************************************************************)
(* The shared buffer of the thread-based stock server, sbuf_t and its      *)
(* operations (Project0x02/task_2/stockserver.c:27-100), at the grain of   *)
(* one semaphore operation or one access to front / rear per step.         *)
(*                                                                         *)
(* Simplifications:                                                        *)
(*  - front and rear only grow, as in the code; the model stops inserting  *)
(*    at MaxInserts, far below the INT_MAX at which ++rear overflows;      *)
(*  - a stored descriptor is a member of Values;                           *)
(*  - Calloc and Free of buf are left out: the server never frees it.      *)
(***************************************************************************)
EXTENDS Integers, Sequences, FiniteSets, Counting

CONSTANTS Producers,  \* threads that call sbuf_insert
          Consumers,  \* threads that call sbuf_remove
          Values,     \* descriptors
          N,          \* number of slots (SBUF_SIZE)
          MaxInserts  \* bound of the model: calls of sbuf_insert

ASSUME SBufAssumption ==
    /\ N \in Nat \ {0}
    /\ MaxInserts \in Nat
    /\ IsFiniteSet(Producers)
    /\ IsFiniteSet(Consumers)
    /\ Producers \cap Consumers = {}

Threads == Producers \cup Consumers

VARIABLES buf,      \* the array, indices 0 .. N-1; <<>> before the first write
          front,    \* buf[(front+1) % N] is the first item
          rear,     \* buf[rear % N] is the last item
          mutex,    \* semaphore: protects buf, front and rear
          slots,    \* semaphore: counts free slots
          items,    \* semaphore: counts available items
          pc,       \* pc[t]: where thread t is in sbuf_insert / sbuf_remove
          item,     \* item[t]: the parameter or the result, <<>> if none
          reg,      \* reg[t]: front or rear as t loaded it
          inserts   \* number of calls of sbuf_insert so far (bounds the model)

vars == <<buf, front, rear, mutex, slots, items, pc, item, reg, inserts>>

(* sbuf_init: n free slots, no item, the lock open; every thread idle.     *)
Init == /\ buf = [k \in 0 .. N-1 |-> <<>>]
        /\ front = 0
        /\ rear = 0
        /\ mutex = 1
        /\ slots = N
        /\ items = 0
        /\ pc = [t \in Threads |-> "idle"]
        /\ item = [t \in Threads |-> <<>>]
        /\ reg = [t \in Threads |-> 0]
        /\ inserts = 0

Goto(t, from, to) == /\ pc[t] = from
                     /\ pc' = [pc EXCEPT ![t] = to]

(* P: sem_wait blocks until the semaphore is positive, then takes one.     *)
P(sem) == sem > 0 /\ sem' = sem - 1

(* V: sem_post.                                                            *)
V(sem) == sem' = sem + 1

----------------------------------------------------------------------------
(* sbuf_insert *)

CallInsert(t, v) == /\ inserts < MaxInserts
                    /\ Goto(t, "idle", "ins_slot")
                    /\ item' = [item EXCEPT ![t] = <<v>>]
                    /\ inserts' = inserts + 1
                    /\ UNCHANGED <<buf, front, rear, mutex, slots, items, reg>>

InsertSlot(t) == /\ Goto(t, "ins_slot", "ins_lock")
                 /\ P(slots)
                 /\ UNCHANGED <<buf, front, rear, mutex, items, item, reg, inserts>>

(* Mutation: the lock is not waited for, as if P(&sp->mutex) were missing. *)
InsertLockUnguarded(t) ==
    /\ Goto(t, "ins_lock", "ins_load")
    /\ mutex' = 0
    /\ UNCHANGED <<buf, front, rear, slots, items, item, reg, inserts>>

InsertLock(t) == /\ Goto(t, "ins_lock", "ins_load")
                 /\ P(mutex)
                 /\ UNCHANGED <<buf, front, rear, slots, items, item, reg, inserts>>

(* ++sp->rear reads rear here and writes it in the next step.              *)
InsertLoad(t) == /\ Goto(t, "ins_load", "ins_store")
                 /\ reg' = [reg EXCEPT ![t] = rear]
                 /\ UNCHANGED <<buf, front, rear, mutex, slots, items, item, inserts>>

InsertStore(t) == /\ Goto(t, "ins_store", "ins_unlock")
                  /\ rear' = reg[t] + 1
                  /\ buf' = [buf EXCEPT ![(reg[t] + 1) % N] = item[t]]
                  /\ UNCHANGED <<front, mutex, slots, items, item, reg, inserts>>

InsertUnlock(t) == /\ Goto(t, "ins_unlock", "ins_announce")
                   /\ V(mutex)
                   /\ UNCHANGED <<buf, front, rear, slots, items, item, reg, inserts>>


InsertAnnounce(t) == /\ Goto(t, "ins_announce", "idle")
                     /\ V(items)
                     /\ UNCHANGED <<buf, front, rear, mutex, slots, item, reg, inserts>>

----------------------------------------------------------------------------
(* sbuf_remove; a consumer calls it again and again *)

RemoveItem(t) == /\ Goto(t, "idle", "rem_lock")
                 /\ P(items)
                 /\ UNCHANGED <<buf, front, rear, mutex, slots, item, reg, inserts>>

RemoveLock(t) == /\ Goto(t, "rem_lock", "rem_load")
                 /\ P(mutex)
                 /\ UNCHANGED <<buf, front, rear, slots, items, item, reg, inserts>>

RemoveLoad(t) == /\ Goto(t, "rem_load", "rem_store")
                 /\ reg' = [reg EXCEPT ![t] = front]
                 /\ UNCHANGED <<buf, front, rear, mutex, slots, items, item, inserts>>

RemoveStore(t) == /\ Goto(t, "rem_store", "rem_unlock")
                  /\ front' = reg[t] + 1
                  /\ item' = [item EXCEPT ![t] = buf[(reg[t] + 1) % N]]
                  /\ UNCHANGED <<buf, rear, mutex, slots, items, reg, inserts>>

RemoveUnlock(t) == /\ Goto(t, "rem_unlock", "rem_announce")
                   /\ V(mutex)
                   /\ UNCHANGED <<buf, front, rear, slots, items, item, reg, inserts>>

(* Mutation: the wrong semaphore is posted, mutex for slots.               *)
RemoveAnnounceMutex(t) ==
    /\ Goto(t, "rem_announce", "idle")
    /\ V(mutex)
    /\ UNCHANGED <<buf, front, rear, slots, items, item, reg, inserts>>

RemoveAnnounce(t) == /\ Goto(t, "rem_announce", "idle")
                     /\ V(slots)
                     /\ UNCHANGED <<buf, front, rear, mutex, items, item, reg, inserts>>

(* The worker that called sbuf_remove served its client and found connfdcnt *)
(* zero: thread() returns (l.230-233), whatever the buffer holds by then.    *)
Retire(t) == /\ item[t] # <<>>
             /\ Goto(t, "idle", "gone")
             /\ UNCHANGED <<buf, front, rear, mutex, slots, items, item, reg, inserts>>

----------------------------------------------------------------------------

InsertStep(t) == \/ InsertSlot(t)
                 \/ InsertLock(t)
                 \/ InsertLoad(t)
                 \/ InsertStore(t)
                 \/ InsertUnlock(t)
                 \/ InsertAnnounce(t)

RemoveStep(t) == \/ RemoveItem(t)
                 \/ RemoveLock(t)
                 \/ RemoveLoad(t)
                 \/ RemoveStore(t)
                 \/ RemoveUnlock(t)
                 \/ RemoveAnnounce(t)

Next == \/ \E t \in Producers : \/ \E v \in Values : CallInsert(t, v)
                                \/ InsertStep(t)
        \/ \E t \in Consumers : RemoveStep(t) \/ Retire(t)

Spec == Init /\ [][Next]_vars

(* The kernel schedules every runnable thread: a started operation goes on, *)
(* and a worker that is not gone calls sbuf_remove again, since its client  *)
(* leaves in the end. Nothing obliges a worker to return, nor not to.       *)
Fairness == /\ \A t \in Producers : WF_vars(InsertStep(t))
            /\ \A t \in Consumers : WF_vars(RemoveStep(t))

FairSpec == Spec /\ Fairness

----------------------------------------------------------------------------
(* Properties *)

(* The control points of the two operations, by what they hold.            *)
Reserving  == {"ins_lock", "ins_load", "ins_store"}    \* a free slot, not filled yet
Announcing == {"ins_unlock", "ins_announce"}           \* a filled slot, not in items yet
Claiming   == {"rem_lock", "rem_load", "rem_store"}    \* an item, not taken yet
Releasing  == {"rem_unlock", "rem_announce"}           \* an emptied slot, not in slots yet
Critical   == {"ins_load", "ins_store", "ins_unlock",
               "rem_load", "rem_store", "rem_unlock"}  \* the lock

InsertPC == {"idle", "ins_slot"} \cup Reserving \cup Announcing
RemovePC == {"idle", "gone"} \cup Claiming \cup Releasing

Cells == {<<v>> : v \in Values}

(* Type invariant. A producer inside sbuf_insert carries its descriptor.   *)
TypeOK == /\ buf \in [0 .. N-1 -> Cells \cup {<<>>}]
          /\ front \in Nat
          /\ rear \in Nat
          /\ mutex \in {0, 1}
          /\ slots \in Nat
          /\ items \in Nat
          /\ pc \in [Threads -> InsertPC \cup RemovePC]
          /\ \A t \in Producers : pc[t] \in InsertPC
          /\ \A t \in Consumers : pc[t] \in RemovePC
          /\ item \in [Threads -> Cells \cup {<<>>}]
          /\ \A t \in Producers : pc[t] # "idle" => item[t] \in Cells
          /\ reg \in [Threads -> Nat]
          /\ inserts \in Nat

(* How many of the threads S stand at one of the points L.                 *)
Count(S, L) == HowMany(S, pc, L)

(* Every one of the N slots is free, reserved, filled or being released:   *)
(* the semaphore never promises a slot that is still in use.               *)
SlotBalance ==
    slots + Count(Producers, Reserving) + (rear - front) + Count(Consumers, Releasing) = N

(* Every stored item is announced in items, claimed, or about to be        *)
(* announced: no consumer wakes up for an item that is not there.          *)
ItemBalance ==
    items + Count(Consumers, Claiming) + Count(Producers, Announcing) = rear - front

(* The lock is free, or exactly one thread is between P(mutex) and         *)
(* V(mutex), and what that thread loaded is still current.                 *)
LockBalance == /\ mutex + Count(Threads, Critical) = 1
               /\ \A t \in Threads : /\ pc[t] = "ins_store" => reg[t] = rear
                                     /\ pc[t] = "rem_store" => reg[t] = front

(* The three semaphores of sbuf_t account for every slot, item and thread  *)
(* at every point between two calls of P and V (sbuf_insert, sbuf_remove). *)
SemaphoresBalance == SlotBalance /\ ItemBalance /\ LockBalance

(* A consumer only takes slots that a producer has filled: every slot      *)
(* between front and rear holds a descriptor, and so does what a consumer  *)
(* in the second half of sbuf_remove carries.                              *)
OnlyFilledTaken ==
    /\ \A k \in 1 .. rear - front : buf[(front + k) % N] \in Cells
    /\ \A t \in Consumers : pc[t] \in Releasing => item[t] \in Cells

(* The occupied part of the ring, oldest first.                            *)
Contents == [k \in 1 .. rear - front |-> buf[(front + k) % N][1]]

Fifo == INSTANCE BoundedFifo
            WITH queue <- Contents, got <- [c \in Consumers |-> item[c]]

(* sbuf_t is "an empty, bounded, shared FIFO buffer with n slots" (l.64):  *)
(* every interleaving of the semaphore steps implements the atomic queue,  *)
(* the store of rear (front) being the step at which the operation happens.*)
ImplementsFifo == Fifo!Spec

==============================================================================
