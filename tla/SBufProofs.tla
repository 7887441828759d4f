------------------------------ MODULE SBufProofs -----------------------------
(***************************************************************************)
(* Proofs about the shared buffer for any number of threads, slots and     *)
(* values: the semaphores account for every slot, item and thread, and the *)
(* steps between them implement the atomic queue of module BoundedFifo.    *)
(***************************************************************************)
EXTENDS SBuf, CountingProofs, SequenceTheorems

USE SBufAssumption DEF Threads

(* The inductive invariant.                                                *)
IInv == TypeOK /\ SemaphoresBalance /\ OnlyFilledTaken

----------------------------------------------------------------------------
(* Lemmas *)

LEMMA ThreadsFinite == IsFiniteSet(Threads)
  BY FS_Union

(* The effect of one program-counter step on a count of threads.           *)
LEMMA GotoCount ==
  ASSUME TypeOK, NEW t \in Threads, NEW from, NEW to, Goto(t, from, to),
         NEW S, S \subseteq Threads, NEW L
  PROVE  /\ Count(S, L) \in Nat
         /\ t \in S => Count(S, L)' = Count(S, L) + Share(to, L) - Share(from, L)
         /\ t \notin S => Count(S, L)' = Count(S, L)
  <1>1. IsFiniteSet(S)
    BY ThreadsFinite, FS_Subset
  <1>2. /\ pc[t] = from
        /\ pc'[t] = to
        /\ \A x \in Threads : x # t => pc'[x] = pc[x]
    BY DEF Goto, TypeOK
  <1>3. Count(S, L) = HowMany(S, pc, L) /\ Count(S, L)' = HowMany(S, pc', L)
    BY DEF Count
  <1>4. Count(S, L) \in Nat
    BY <1>1, HowManyType DEF Count
  <1>5. ASSUME t \in S
        PROVE  Count(S, L)' = Count(S, L) + Share(to, L) - Share(from, L)
    <2>1. \A x \in S : x # t => pc'[x] = pc[x]
      BY <1>2
    <2>2. HowMany(S, pc', L) = HowMany(S, pc, L) + Share(pc'[t], L) - Share(pc[t], L)
      BY ONLY <1>1, <1>5, <2>1, HowManyMove
    <2> QED
      BY <1>2, <1>3, <2>2
  <1>6. ASSUME t \notin S
        PROVE  Count(S, L)' = Count(S, L)
    BY <1>2, <1>3, <1>6, HowManyStay
  <1> QED
    BY <1>4, <1>5, <1>6

(* All five counts are natural numbers.                                    *)
LEMMA CountTypes ==
  /\ Count(Producers, Reserving) \in Nat
  /\ Count(Producers, Announcing) \in Nat
  /\ Count(Consumers, Claiming) \in Nat
  /\ Count(Consumers, Releasing) \in Nat
  /\ Count(Threads, Critical) \in Nat
  BY ThreadsFinite, HowManyType DEF Count

(* A step of a producer moves the counts of producers and of the lock.     *)
LEMMA ProducerCounts ==
  ASSUME TypeOK, NEW t \in Producers, NEW from, NEW to, Goto(t, from, to)
  PROVE  /\ Count(Producers, Reserving)'
              = Count(Producers, Reserving) + Share(to, Reserving) - Share(from, Reserving)
         /\ Count(Producers, Announcing)'
              = Count(Producers, Announcing) + Share(to, Announcing) - Share(from, Announcing)
         /\ Count(Consumers, Claiming)' = Count(Consumers, Claiming)
         /\ Count(Consumers, Releasing)' = Count(Consumers, Releasing)
         /\ Count(Threads, Critical)'
              = Count(Threads, Critical) + Share(to, Critical) - Share(from, Critical)
  <1>1. t \in Threads /\ t \notin Consumers
    OBVIOUS
  <1>2. Producers \subseteq Threads /\ Consumers \subseteq Threads /\ Threads \subseteq Threads
    OBVIOUS
  <1> HIDE DEF Threads
  <1> QED
    BY <1>1, <1>2, GotoCount

(* A step of a consumer moves the counts of consumers and of the lock.     *)
LEMMA ConsumerCounts ==
  ASSUME TypeOK, NEW t \in Consumers, NEW from, NEW to, Goto(t, from, to)
  PROVE  /\ Count(Producers, Reserving)' = Count(Producers, Reserving)
         /\ Count(Producers, Announcing)' = Count(Producers, Announcing)
         /\ Count(Consumers, Claiming)'
              = Count(Consumers, Claiming) + Share(to, Claiming) - Share(from, Claiming)
         /\ Count(Consumers, Releasing)'
              = Count(Consumers, Releasing) + Share(to, Releasing) - Share(from, Releasing)
         /\ Count(Threads, Critical)'
              = Count(Threads, Critical) + Share(to, Critical) - Share(from, Critical)
  <1>1. t \in Threads /\ t \notin Producers
    OBVIOUS
  <1>2. Producers \subseteq Threads /\ Consumers \subseteq Threads /\ Threads \subseteq Threads
    OBVIOUS
  <1> HIDE DEF Threads
  <1> QED
    BY <1>1, <1>2, GotoCount

(* Somebody at one of the points L makes the number positive.              *)
LEMMA SomebodyThere ==
  ASSUME NEW S, S \subseteq Threads, NEW L, NEW t \in S, pc[t] \in L
  PROVE  Count(S, L) >= 1
  <1>1. IsFiniteSet(S)
    BY ThreadsFinite, FS_Subset
  <1>2. Count(S, L) # 0
    BY <1>1, HowManyZero DEF Count
  <1>3. Count(S, L) \in Nat
    BY <1>1, HowManyType DEF Count
  <1> QED
    BY <1>2, <1>3

(* Mutual exclusion: two threads inside the lock are the same thread.      *)
LEMMA Exclusive ==
  ASSUME TypeOK, LockBalance, NEW t \in Threads, NEW u \in Threads,
         pc[t] \in Critical, pc[u] \in Critical
  PROVE  t = u
  <1>1. Count(Threads, Critical) <= 1
    BY CountTypes DEF TypeOK, LockBalance
  <1> QED
    BY <1>1, ThreadsFinite, HowManyUnique DEF Count

----------------------------------------------------------------------------
(* The inductive invariant *)

(* What the balances say at the points where buf is about to be accessed:  *)
(* a producer finds a free slot and a consumer finds an item.              *)
LEMMA RoomAndItem ==
  ASSUME IInv
  PROVE  /\ rear - front \in 0 .. N
         /\ \A t \in Producers : pc[t] \in Reserving => rear - front < N
         /\ \A t \in Consumers : pc[t] \in Claiming => rear - front > 0
  <1>1. /\ front \in Nat /\ rear \in Nat /\ slots \in Nat /\ items \in Nat
        /\ slots + Count(Producers, Reserving) + (rear - front)
             + Count(Consumers, Releasing) = N
        /\ items + Count(Consumers, Claiming) + Count(Producers, Announcing)
             = rear - front
    BY DEF IInv, TypeOK, SemaphoresBalance, SlotBalance, ItemBalance
  <1>2. \A t \in Producers : pc[t] \in Reserving => Count(Producers, Reserving) >= 1
    BY SomebodyThere
  <1>3. \A t \in Consumers : pc[t] \in Claiming => Count(Consumers, Claiming) >= 1
    BY SomebodyThere
  <1> QED
    BY <1>1, <1>2, <1>3, CountTypes

(* Type correctness is kept by every step, given what the balances say     *)
(* about the lock and about the items a consumer finds.                    *)
LEMMA TypeStep ==
  ASSUME IInv, [Next]_vars
  PROVE  TypeOK'
  <1> USE DEF InsertPC, RemovePC, Reserving, Announcing, Claiming, Releasing
  <1>1. TypeOK
    BY DEF IInv
  <1>2. ASSUME NEW t \in Producers, NEW v \in Values, CallInsert(t, v)
        PROVE  TypeOK'
    BY <1>1, <1>2 DEF TypeOK, CallInsert, Goto, Cells
  <1>3. ASSUME NEW t \in Producers, InsertSlot(t)
        PROVE  TypeOK'
    BY <1>1, <1>3 DEF TypeOK, InsertSlot, Goto, P
  <1>4. ASSUME NEW t \in Producers, InsertLock(t)
        PROVE  TypeOK'
    BY <1>1, <1>4 DEF TypeOK, InsertLock, Goto, P
  <1>5. ASSUME NEW t \in Producers, InsertLoad(t)
        PROVE  TypeOK'
    BY <1>1, <1>5 DEF TypeOK, InsertLoad, Goto
  <1>6. ASSUME NEW t \in Producers, InsertStore(t)
        PROVE  TypeOK'
    BY <1>1, <1>6 DEF TypeOK, InsertStore, Goto
  <1>7. ASSUME NEW t \in Producers, InsertUnlock(t)
        PROVE  TypeOK'
    <2>1. mutex' \in {0, 1}
      <3>1. Count(Threads, Critical) >= 1
        BY <1>7, SomebodyThere DEF InsertUnlock, Goto, Critical
      <3> QED
        BY <1>1, <1>7, <3>1, CountTypes
           DEF IInv, SemaphoresBalance, LockBalance, InsertUnlock, V, TypeOK
    <2> QED
      BY <1>1, <1>7, <2>1 DEF TypeOK, InsertUnlock, Goto
  <1>8. ASSUME NEW t \in Producers, InsertAnnounce(t)
        PROVE  TypeOK'
    BY <1>1, <1>8 DEF TypeOK, InsertAnnounce, Goto, V
  <1>9. ASSUME NEW t \in Consumers, RemoveItem(t)
        PROVE  TypeOK'
    BY <1>1, <1>9 DEF TypeOK, RemoveItem, Goto, P
  <1>10. ASSUME NEW t \in Consumers, RemoveLock(t)
         PROVE  TypeOK'
    BY <1>1, <1>10 DEF TypeOK, RemoveLock, Goto, P
  <1>11. ASSUME NEW t \in Consumers, RemoveLoad(t)
         PROVE  TypeOK'
    BY <1>1, <1>11 DEF TypeOK, RemoveLoad, Goto
  <1>12. ASSUME NEW t \in Consumers, RemoveStore(t)
         PROVE  TypeOK'
    <2>1. (reg[t] + 1) % N \in 0 .. N-1
      BY <1>1 DEF TypeOK
    <2>2. buf[(reg[t] + 1) % N] \in Cells \cup {<<>>}
      BY <1>1, <2>1 DEF TypeOK
    <2> QED
      BY <1>1, <1>12, <2>2 DEF TypeOK, RemoveStore, Goto
  <1>13. ASSUME NEW t \in Consumers, RemoveUnlock(t)
         PROVE  TypeOK'
    <2>1. mutex' \in {0, 1}
      <3>1. Count(Threads, Critical) >= 1
        BY <1>13, SomebodyThere DEF RemoveUnlock, Goto, Critical
      <3> QED
        BY <1>1, <1>13, <3>1, CountTypes
           DEF IInv, SemaphoresBalance, LockBalance, RemoveUnlock, V, TypeOK
    <2> QED
      BY <1>1, <1>13, <2>1 DEF TypeOK, RemoveUnlock, Goto
  <1>14. ASSUME NEW t \in Consumers, RemoveAnnounce(t)
         PROVE  TypeOK'
    BY <1>1, <1>14 DEF TypeOK, RemoveAnnounce, Goto, V
  <1>15. ASSUME NEW t \in Consumers, Retire(t)
         PROVE  TypeOK'
    BY <1>1, <1>15 DEF TypeOK, Retire, Goto
  <1>16. CASE UNCHANGED vars
    BY <1>1, <1>16 DEF TypeOK, vars
  <1> QED
    BY <1>2, <1>3, <1>4, <1>5, <1>6, <1>7, <1>8, <1>9, <1>10, <1>11, <1>12, <1>13,
       <1>14, <1>15, <1>16 DEF Next, InsertStep, RemoveStep

(* What each point of sbuf_insert contributes to the counts.               *)
LEMMA InsertHits ==
  /\ Share("ins_lock", Reserving) = 1 /\ Share("ins_load", Reserving) = 1
     /\ Share("ins_store", Reserving) = 1
     /\ Share("idle", Reserving) = 0 /\ Share("ins_slot", Reserving) = 0
     /\ Share("ins_unlock", Reserving) = 0 /\ Share("ins_announce", Reserving) = 0
  /\ Share("ins_unlock", Announcing) = 1 /\ Share("ins_announce", Announcing) = 1
     /\ Share("idle", Announcing) = 0 /\ Share("ins_slot", Announcing) = 0
     /\ Share("ins_lock", Announcing) = 0 /\ Share("ins_load", Announcing) = 0
     /\ Share("ins_store", Announcing) = 0
  /\ Share("ins_load", Critical) = 1 /\ Share("ins_store", Critical) = 1
     /\ Share("ins_unlock", Critical) = 1
     /\ Share("idle", Critical) = 0 /\ Share("ins_slot", Critical) = 0
     /\ Share("ins_lock", Critical) = 0 /\ Share("ins_announce", Critical) = 0
  BY DEF Share, Reserving, Announcing, Critical

(* What each point of sbuf_remove contributes to the counts.               *)
LEMMA RemoveHits ==
  /\ Share("rem_lock", Claiming) = 1 /\ Share("rem_load", Claiming) = 1
     /\ Share("rem_store", Claiming) = 1
     /\ Share("idle", Claiming) = 0 /\ Share("rem_unlock", Claiming) = 0
     /\ Share("rem_announce", Claiming) = 0 /\ Share("gone", Claiming) = 0
  /\ Share("rem_unlock", Releasing) = 1 /\ Share("rem_announce", Releasing) = 1
     /\ Share("idle", Releasing) = 0 /\ Share("rem_lock", Releasing) = 0
     /\ Share("rem_load", Releasing) = 0 /\ Share("rem_store", Releasing) = 0
     /\ Share("gone", Releasing) = 0
  /\ Share("rem_load", Critical) = 1 /\ Share("rem_store", Critical) = 1
     /\ Share("rem_unlock", Critical) = 1
     /\ Share("idle", Critical) = 0 /\ Share("rem_lock", Critical) = 0
     /\ Share("rem_announce", Critical) = 0 /\ Share("gone", Critical) = 0
  BY DEF Share, Claiming, Releasing, Critical

(* The three balances are kept by every step.                              *)
LEMMA BalanceStep ==
  ASSUME IInv, [Next]_vars
  PROVE  SemaphoresBalance'
  <1> DEFINE cR == Count(Producers, Reserving)
             cA == Count(Producers, Announcing)
             cC == Count(Consumers, Claiming)
             cL == Count(Consumers, Releasing)
             cX == Count(Threads, Critical)
  <1>1. TypeOK /\ LockBalance
    BY DEF IInv, SemaphoresBalance
  <1>2. /\ front \in Nat /\ rear \in Nat /\ slots \in Nat /\ items \in Nat /\ mutex \in Nat
        /\ cR \in Nat /\ cA \in Nat /\ cC \in Nat /\ cL \in Nat /\ cX \in Nat
        /\ slots + cR + (rear - front) + cL = N
        /\ items + cC + cA = rear - front
        /\ mutex + cX = 1
    BY CountTypes DEF IInv, TypeOK, SemaphoresBalance, SlotBalance, ItemBalance, LockBalance
  <1>3. ASSUME NEW t \in Producers, NEW v \in Values, CallInsert(t, v)
        PROVE  SemaphoresBalance'
    <2>1. Goto(t, "idle", "ins_slot")
      BY <1>3 DEF CallInsert
    <2>2. cR' = cR /\ cA' = cA /\ cC' = cC /\ cL' = cL /\ cX' = cX
      <3>1. /\ cR' = cR + Share("ins_slot", Reserving) - Share("idle", Reserving)
            /\ cA' = cA + Share("ins_slot", Announcing) - Share("idle", Announcing)
            /\ cX' = cX + Share("ins_slot", Critical) - Share("idle", Critical)
            /\ cC' = cC /\ cL' = cL
        BY <1>1, <2>1, ProducerCounts
      <3> QED
        BY <1>2, <3>1, InsertHits
    <2> HIDE DEF cR, cA, cC, cL, cX
    <2>3. SlotBalance' /\ ItemBalance' /\ mutex' + cX' = 1
      BY <1>2, <1>3, <2>2 DEF SlotBalance, ItemBalance, CallInsert, cR, cA, cC, cL
    <2>4. LockBalance'
      BY <1>1, <1>3, <2>3 DEF LockBalance, CallInsert, Goto, TypeOK, cX
    <2> QED
      BY <2>3, <2>4 DEF SemaphoresBalance
  <1>4. ASSUME NEW t \in Producers, InsertSlot(t)
        PROVE  SemaphoresBalance'
    <2>1. Goto(t, "ins_slot", "ins_lock")
      BY <1>4 DEF InsertSlot
    <2>2. cR' = cR + 1 /\ cA' = cA /\ cC' = cC /\ cL' = cL /\ cX' = cX
      <3>1. /\ cR' = cR + Share("ins_lock", Reserving) - Share("ins_slot", Reserving)
            /\ cA' = cA + Share("ins_lock", Announcing) - Share("ins_slot", Announcing)
            /\ cX' = cX + Share("ins_lock", Critical) - Share("ins_slot", Critical)
            /\ cC' = cC /\ cL' = cL
        BY <1>1, <2>1, ProducerCounts
      <3> QED
        BY <1>2, <3>1, InsertHits
    <2> HIDE DEF cR, cA, cC, cL, cX
    <2>3. SlotBalance' /\ ItemBalance' /\ mutex' + cX' = 1
      BY <1>2, <1>4, <2>2 DEF SlotBalance, ItemBalance, InsertSlot, P, cR, cA, cC, cL
    <2>4. LockBalance'
      BY <1>1, <1>4, <2>3 DEF LockBalance, InsertSlot, Goto, TypeOK, cX
    <2> QED
      BY <2>3, <2>4 DEF SemaphoresBalance
  <1>5. ASSUME NEW t \in Producers, InsertLock(t)
        PROVE  SemaphoresBalance'
    <2>1. Goto(t, "ins_lock", "ins_load")
      BY <1>5 DEF InsertLock
    <2>2. cR' = cR /\ cA' = cA /\ cC' = cC /\ cL' = cL /\ cX' = cX + 1
      <3>1. /\ cR' = cR + Share("ins_load", Reserving) - Share("ins_lock", Reserving)
            /\ cA' = cA + Share("ins_load", Announcing) - Share("ins_lock", Announcing)
            /\ cX' = cX + Share("ins_load", Critical) - Share("ins_lock", Critical)
            /\ cC' = cC /\ cL' = cL
        BY <1>1, <2>1, ProducerCounts
      <3> QED
        BY <1>2, <3>1, InsertHits
    <2> HIDE DEF cR, cA, cC, cL, cX
    <2>3. SlotBalance' /\ ItemBalance' /\ mutex' + cX' = 1
      BY <1>2, <1>5, <2>2 DEF SlotBalance, ItemBalance, InsertLock, P, cR, cA, cC, cL
    <2>4. LockBalance'
      BY <1>1, <1>5, <2>3 DEF LockBalance, InsertLock, Goto, TypeOK, cX
    <2> QED
      BY <2>3, <2>4 DEF SemaphoresBalance
  <1>6. ASSUME NEW t \in Producers, InsertLoad(t)
        PROVE  SemaphoresBalance'
    <2>1. Goto(t, "ins_load", "ins_store")
      BY <1>6 DEF InsertLoad
    <2>2. cR' = cR /\ cA' = cA /\ cC' = cC /\ cL' = cL /\ cX' = cX
      <3>1. /\ cR' = cR + Share("ins_store", Reserving) - Share("ins_load", Reserving)
            /\ cA' = cA + Share("ins_store", Announcing) - Share("ins_load", Announcing)
            /\ cX' = cX + Share("ins_store", Critical) - Share("ins_load", Critical)
            /\ cC' = cC /\ cL' = cL
        BY <1>1, <2>1, ProducerCounts
      <3> QED
        BY <1>2, <3>1, InsertHits
    <2> HIDE DEF cR, cA, cC, cL, cX
    <2>3. SlotBalance' /\ ItemBalance' /\ mutex' + cX' = 1
      BY <1>2, <1>6, <2>2 DEF SlotBalance, ItemBalance, InsertLoad, cR, cA, cC, cL
    <2>4. LockBalance'
      BY <1>1, <1>6, <2>3 DEF LockBalance, InsertLoad, Goto, TypeOK, cX
    <2> QED
      BY <2>3, <2>4 DEF SemaphoresBalance
  <1>7. ASSUME NEW t \in Producers, InsertStore(t)
        PROVE  SemaphoresBalance'
    <2>1. Goto(t, "ins_store", "ins_unlock")
      BY <1>7 DEF InsertStore
    <2>2. cR' = cR - 1 /\ cA' = cA + 1 /\ cC' = cC /\ cL' = cL /\ cX' = cX
      <3>1. /\ cR' = cR + Share("ins_unlock", Reserving) - Share("ins_store", Reserving)
            /\ cA' = cA + Share("ins_unlock", Announcing) - Share("ins_store", Announcing)
            /\ cX' = cX + Share("ins_unlock", Critical) - Share("ins_store", Critical)
            /\ cC' = cC /\ cL' = cL
        BY <1>1, <2>1, ProducerCounts
      <3> QED
        BY <1>2, <3>1, InsertHits
    <2> HIDE DEF cR, cA, cC, cL, cX
    <2>3. SlotBalance' /\ ItemBalance' /\ mutex' + cX' = 1
      <3>1. rear' = rear + 1
        BY <1>1, <1>7, <2>1 DEF LockBalance, InsertStore, Goto
      <3> QED
        BY <1>2, <1>7, <2>2, <3>1 DEF SlotBalance, ItemBalance, InsertStore, cR, cA, cC, cL
    <2>4. \A u \in Threads : pc[u] \in Critical => u = t
      <3>1. t \in Threads /\ pc[t] \in Critical
        BY <2>1 DEF Goto, Critical
      <3> HIDE DEF Threads
      <3> QED
        BY <1>1, <3>1, Exclusive
    <2>5. \A u \in Threads : pc'[u] \notin {"ins_store", "rem_store"}
      BY <1>1, <2>1, <2>4 DEF Goto, TypeOK, Critical
    <2>6. LockBalance'
      BY <2>3, <2>5 DEF LockBalance, cX
    <2> QED
      BY <2>3, <2>6 DEF SemaphoresBalance
  <1>8. ASSUME NEW t \in Producers, InsertUnlock(t)
        PROVE  SemaphoresBalance'
    <2>1. Goto(t, "ins_unlock", "ins_announce")
      BY <1>8 DEF InsertUnlock
    <2>2. cR' = cR /\ cA' = cA /\ cC' = cC /\ cL' = cL /\ cX' = cX - 1
      <3>1. /\ cR' = cR + Share("ins_announce", Reserving) - Share("ins_unlock", Reserving)
            /\ cA' = cA + Share("ins_announce", Announcing) - Share("ins_unlock", Announcing)
            /\ cX' = cX + Share("ins_announce", Critical) - Share("ins_unlock", Critical)
            /\ cC' = cC /\ cL' = cL
        BY <1>1, <2>1, ProducerCounts
      <3> QED
        BY <1>2, <3>1, InsertHits
    <2> HIDE DEF cR, cA, cC, cL, cX
    <2>3. SlotBalance' /\ ItemBalance' /\ mutex' + cX' = 1
      BY <1>2, <1>8, <2>2 DEF SlotBalance, ItemBalance, InsertUnlock, V, cR, cA, cC, cL
    <2>4. LockBalance'
      BY <1>1, <1>8, <2>3 DEF LockBalance, InsertUnlock, Goto, TypeOK, cX
    <2> QED
      BY <2>3, <2>4 DEF SemaphoresBalance
  <1>9. ASSUME NEW t \in Producers, InsertAnnounce(t)
        PROVE  SemaphoresBalance'
    <2>1. Goto(t, "ins_announce", "idle")
      BY <1>9 DEF InsertAnnounce
    <2>2. cR' = cR /\ cA' = cA - 1 /\ cC' = cC /\ cL' = cL /\ cX' = cX
      <3>1. /\ cR' = cR + Share("idle", Reserving) - Share("ins_announce", Reserving)
            /\ cA' = cA + Share("idle", Announcing) - Share("ins_announce", Announcing)
            /\ cX' = cX + Share("idle", Critical) - Share("ins_announce", Critical)
            /\ cC' = cC /\ cL' = cL
        BY <1>1, <2>1, ProducerCounts
      <3> QED
        BY <1>2, <3>1, InsertHits
    <2> HIDE DEF cR, cA, cC, cL, cX
    <2>3. SlotBalance' /\ ItemBalance' /\ mutex' + cX' = 1
      BY <1>2, <1>9, <2>2 DEF SlotBalance, ItemBalance, InsertAnnounce, V, cR, cA, cC, cL
    <2>4. LockBalance'
      BY <1>1, <1>9, <2>3 DEF LockBalance, InsertAnnounce, Goto, TypeOK, cX
    <2> QED
      BY <2>3, <2>4 DEF SemaphoresBalance
  <1>10. ASSUME NEW t \in Consumers, RemoveItem(t)
        PROVE  SemaphoresBalance'
    <2>1. Goto(t, "idle", "rem_lock")
      BY <1>10 DEF RemoveItem
    <2>2. cR' = cR /\ cA' = cA /\ cC' = cC + 1 /\ cL' = cL /\ cX' = cX
      <3>1. /\ cC' = cC + Share("rem_lock", Claiming) - Share("idle", Claiming)
            /\ cL' = cL + Share("rem_lock", Releasing) - Share("idle", Releasing)
            /\ cX' = cX + Share("rem_lock", Critical) - Share("idle", Critical)
            /\ cR' = cR /\ cA' = cA
        BY <1>1, <2>1, ConsumerCounts
      <3> QED
        BY <1>2, <3>1, RemoveHits
    <2> HIDE DEF cR, cA, cC, cL, cX
    <2>3. SlotBalance' /\ ItemBalance' /\ mutex' + cX' = 1
      BY <1>2, <1>10, <2>2 DEF SlotBalance, ItemBalance, RemoveItem, P, cR, cA, cC, cL
    <2>4. LockBalance'
      BY <1>1, <1>10, <2>3 DEF LockBalance, RemoveItem, Goto, TypeOK, cX
    <2> QED
      BY <2>3, <2>4 DEF SemaphoresBalance
  <1>11. ASSUME NEW t \in Consumers, RemoveLock(t)
        PROVE  SemaphoresBalance'
    <2>1. Goto(t, "rem_lock", "rem_load")
      BY <1>11 DEF RemoveLock
    <2>2. cR' = cR /\ cA' = cA /\ cC' = cC /\ cL' = cL /\ cX' = cX + 1
      <3>1. /\ cC' = cC + Share("rem_load", Claiming) - Share("rem_lock", Claiming)
            /\ cL' = cL + Share("rem_load", Releasing) - Share("rem_lock", Releasing)
            /\ cX' = cX + Share("rem_load", Critical) - Share("rem_lock", Critical)
            /\ cR' = cR /\ cA' = cA
        BY <1>1, <2>1, ConsumerCounts
      <3> QED
        BY <1>2, <3>1, RemoveHits
    <2> HIDE DEF cR, cA, cC, cL, cX
    <2>3. SlotBalance' /\ ItemBalance' /\ mutex' + cX' = 1
      BY <1>2, <1>11, <2>2 DEF SlotBalance, ItemBalance, RemoveLock, P, cR, cA, cC, cL
    <2>4. LockBalance'
      BY <1>1, <1>11, <2>3 DEF LockBalance, RemoveLock, Goto, TypeOK, cX
    <2> QED
      BY <2>3, <2>4 DEF SemaphoresBalance
  <1>12. ASSUME NEW t \in Consumers, RemoveLoad(t)
        PROVE  SemaphoresBalance'
    <2>1. Goto(t, "rem_load", "rem_store")
      BY <1>12 DEF RemoveLoad
    <2>2. cR' = cR /\ cA' = cA /\ cC' = cC /\ cL' = cL /\ cX' = cX
      <3>1. /\ cC' = cC + Share("rem_store", Claiming) - Share("rem_load", Claiming)
            /\ cL' = cL + Share("rem_store", Releasing) - Share("rem_load", Releasing)
            /\ cX' = cX + Share("rem_store", Critical) - Share("rem_load", Critical)
            /\ cR' = cR /\ cA' = cA
        BY <1>1, <2>1, ConsumerCounts
      <3> QED
        BY <1>2, <3>1, RemoveHits
    <2> HIDE DEF cR, cA, cC, cL, cX
    <2>3. SlotBalance' /\ ItemBalance' /\ mutex' + cX' = 1
      BY <1>2, <1>12, <2>2 DEF SlotBalance, ItemBalance, RemoveLoad, cR, cA, cC, cL
    <2>4. LockBalance'
      BY <1>1, <1>12, <2>3 DEF LockBalance, RemoveLoad, Goto, TypeOK, cX
    <2> QED
      BY <2>3, <2>4 DEF SemaphoresBalance
  <1>13. ASSUME NEW t \in Consumers, RemoveStore(t)
        PROVE  SemaphoresBalance'
    <2>1. Goto(t, "rem_store", "rem_unlock")
      BY <1>13 DEF RemoveStore
    <2>2. cR' = cR /\ cA' = cA /\ cC' = cC - 1 /\ cL' = cL + 1 /\ cX' = cX
      <3>1. /\ cC' = cC + Share("rem_unlock", Claiming) - Share("rem_store", Claiming)
            /\ cL' = cL + Share("rem_unlock", Releasing) - Share("rem_store", Releasing)
            /\ cX' = cX + Share("rem_unlock", Critical) - Share("rem_store", Critical)
            /\ cR' = cR /\ cA' = cA
        BY <1>1, <2>1, ConsumerCounts
      <3> QED
        BY <1>2, <3>1, RemoveHits
    <2> HIDE DEF cR, cA, cC, cL, cX
    <2>3. SlotBalance' /\ ItemBalance' /\ mutex' + cX' = 1
      <3>1. front' = front + 1
        BY <1>1, <1>13, <2>1 DEF LockBalance, RemoveStore, Goto
      <3> QED
        BY <1>2, <1>13, <2>2, <3>1 DEF SlotBalance, ItemBalance, RemoveStore, cR, cA, cC, cL
    <2>4. \A u \in Threads : pc[u] \in Critical => u = t
      <3>1. t \in Threads /\ pc[t] \in Critical
        BY <2>1 DEF Goto, Critical
      <3> HIDE DEF Threads
      <3> QED
        BY <1>1, <3>1, Exclusive
    <2>5. \A u \in Threads : pc'[u] \notin {"ins_store", "rem_store"}
      BY <1>1, <2>1, <2>4 DEF Goto, TypeOK, Critical
    <2>6. LockBalance'
      BY <2>3, <2>5 DEF LockBalance, cX
    <2> QED
      BY <2>3, <2>6 DEF SemaphoresBalance
  <1>14. ASSUME NEW t \in Consumers, RemoveUnlock(t)
        PROVE  SemaphoresBalance'
    <2>1. Goto(t, "rem_unlock", "rem_announce")
      BY <1>14 DEF RemoveUnlock
    <2>2. cR' = cR /\ cA' = cA /\ cC' = cC /\ cL' = cL /\ cX' = cX - 1
      <3>1. /\ cC' = cC + Share("rem_announce", Claiming) - Share("rem_unlock", Claiming)
            /\ cL' = cL + Share("rem_announce", Releasing) - Share("rem_unlock", Releasing)
            /\ cX' = cX + Share("rem_announce", Critical) - Share("rem_unlock", Critical)
            /\ cR' = cR /\ cA' = cA
        BY <1>1, <2>1, ConsumerCounts
      <3> QED
        BY <1>2, <3>1, RemoveHits
    <2> HIDE DEF cR, cA, cC, cL, cX
    <2>3. SlotBalance' /\ ItemBalance' /\ mutex' + cX' = 1
      BY <1>2, <1>14, <2>2 DEF SlotBalance, ItemBalance, RemoveUnlock, V, cR, cA, cC, cL
    <2>4. LockBalance'
      BY <1>1, <1>14, <2>3 DEF LockBalance, RemoveUnlock, Goto, TypeOK, cX
    <2> QED
      BY <2>3, <2>4 DEF SemaphoresBalance
  <1>15. ASSUME NEW t \in Consumers, RemoveAnnounce(t)
        PROVE  SemaphoresBalance'
    <2>1. Goto(t, "rem_announce", "idle")
      BY <1>15 DEF RemoveAnnounce
    <2>2. cR' = cR /\ cA' = cA /\ cC' = cC /\ cL' = cL - 1 /\ cX' = cX
      <3>1. /\ cC' = cC + Share("idle", Claiming) - Share("rem_announce", Claiming)
            /\ cL' = cL + Share("idle", Releasing) - Share("rem_announce", Releasing)
            /\ cX' = cX + Share("idle", Critical) - Share("rem_announce", Critical)
            /\ cR' = cR /\ cA' = cA
        BY <1>1, <2>1, ConsumerCounts
      <3> QED
        BY <1>2, <3>1, RemoveHits
    <2> HIDE DEF cR, cA, cC, cL, cX
    <2>3. SlotBalance' /\ ItemBalance' /\ mutex' + cX' = 1
      BY <1>2, <1>15, <2>2 DEF SlotBalance, ItemBalance, RemoveAnnounce, V, cR, cA, cC, cL
    <2>4. LockBalance'
      BY <1>1, <1>15, <2>3 DEF LockBalance, RemoveAnnounce, Goto, TypeOK, cX
    <2> QED
      BY <2>3, <2>4 DEF SemaphoresBalance
  <1>16. ASSUME NEW t \in Consumers, Retire(t)
        PROVE  SemaphoresBalance'
    <2>1. Goto(t, "idle", "gone")
      BY <1>16 DEF Retire
    <2>2. cR' = cR /\ cA' = cA /\ cC' = cC /\ cL' = cL /\ cX' = cX
      <3>1. /\ cC' = cC + Share("gone", Claiming) - Share("idle", Claiming)
            /\ cL' = cL + Share("gone", Releasing) - Share("idle", Releasing)
            /\ cX' = cX + Share("gone", Critical) - Share("idle", Critical)
            /\ cR' = cR /\ cA' = cA
        BY <1>1, <2>1, ConsumerCounts
      <3> QED
        BY <1>2, <3>1, RemoveHits
    <2> HIDE DEF cR, cA, cC, cL, cX
    <2>3. SlotBalance' /\ ItemBalance' /\ mutex' + cX' = 1
      BY <1>2, <1>16, <2>2 DEF SlotBalance, ItemBalance, Retire, cR, cA, cC, cL
    <2>4. LockBalance'
      BY <1>1, <1>16, <2>3 DEF LockBalance, Retire, Goto, TypeOK, cX
    <2> QED
      BY <2>3, <2>4 DEF SemaphoresBalance
  <1>17. CASE UNCHANGED vars
    BY <1>17 DEF vars, IInv, SemaphoresBalance, SlotBalance, ItemBalance, LockBalance, Count
  <1> QED
    BY <1>3, <1>4, <1>5, <1>6, <1>7, <1>8, <1>9, <1>10, <1>11, <1>12, <1>13, <1>14, <1>15,
       <1>16, <1>17 DEF Next, InsertStep, RemoveStep

(* The steps that touch neither the ring nor what a consumer carries.      *)
LEMMA RingUntouched ==
  ASSUME IInv, UNCHANGED <<buf, front, rear>>,
         \A t \in Consumers : /\ item'[t] = item[t]
                              /\ pc'[t] \in Releasing => pc[t] \in Releasing
  PROVE  OnlyFilledTaken'
  BY DEF IInv, OnlyFilledTaken

(* Every slot between front and rear is filled, before and after a step.   *)
LEMMA FilledStep ==
  ASSUME IInv, [Next]_vars
  PROVE  OnlyFilledTaken'
  <1>1. TypeOK /\ LockBalance /\ OnlyFilledTaken
    BY DEF IInv, SemaphoresBalance
  <1>2. ASSUME NEW t \in Producers, NEW v \in Values, CallInsert(t, v)
        PROVE  OnlyFilledTaken'
    BY <1>1, <1>2, RingUntouched DEF CallInsert, Goto, TypeOK
  <1>3. ASSUME NEW t \in Producers,
               \/ InsertSlot(t) \/ InsertLock(t) \/ InsertLoad(t)
               \/ InsertUnlock(t) \/ InsertAnnounce(t)
        PROVE  OnlyFilledTaken'
    <2>1. /\ UNCHANGED <<buf, front, rear, item>>
          /\ \A u \in Consumers : pc'[u] = pc[u]
      BY <1>1, <1>3 DEF InsertSlot, InsertLock, InsertLoad, InsertUnlock, InsertAnnounce,
                        Goto, TypeOK
    <2> QED
      BY <2>1, RingUntouched
  <1>4. ASSUME NEW t \in Producers, InsertStore(t)
        PROVE  OnlyFilledTaken'
    <2>1. /\ front' = front /\ rear' = rear + 1 /\ item' = item
          /\ buf' = [buf EXCEPT ![(rear + 1) % N] = item[t]]
          /\ item[t] \in Cells
      BY <1>1, <1>4 DEF InsertStore, Goto, LockBalance, TypeOK
    <2>2. ASSUME NEW k \in 1 .. rear' - front'
          PROVE  buf'[(front' + k) % N] \in Cells
      <3>1. front \in Nat /\ rear \in Nat /\ N \in Nat \ {0} /\ DOMAIN buf = 0 .. N-1
        BY <1>1 DEF TypeOK
      <3>2. (front + k) % N \in 0 .. N-1
        BY <2>1, <3>1
      <3>3. CASE k \in 1 .. rear - front
        BY <1>1, <2>1, <3>1, <3>2, <3>3 DEF OnlyFilledTaken
      <3>4. CASE front + k = rear + 1
        BY <2>1, <3>1, <3>2, <3>4
      <3> QED
        BY <2>1, <3>1, <3>3, <3>4
    <2>3. \A u \in Consumers : pc'[u] = pc[u]
      BY <1>1, <1>4 DEF InsertStore, Goto, TypeOK
    <2> QED
      BY <1>1, <2>1, <2>2, <2>3 DEF OnlyFilledTaken
  <1>5. ASSUME NEW t \in Consumers,
               \/ RemoveItem(t) \/ RemoveLock(t) \/ RemoveLoad(t)
               \/ RemoveUnlock(t) \/ RemoveAnnounce(t) \/ Retire(t)
        PROVE  OnlyFilledTaken'
    <2>1. /\ UNCHANGED <<buf, front, rear, item>>
          /\ \A u \in Consumers : pc'[u] \in Releasing => pc[u] \in Releasing
      BY <1>1, <1>5 DEF RemoveItem, RemoveLock, RemoveLoad, RemoveUnlock, RemoveAnnounce,
                        Retire, Goto, TypeOK, Releasing
    <2> QED
      BY <2>1, RingUntouched
  <1>6. ASSUME NEW t \in Consumers, RemoveStore(t)
        PROVE  OnlyFilledTaken'
    <2>1. /\ front' = front + 1 /\ rear' = rear /\ buf' = buf
          /\ item' = [item EXCEPT ![t] = buf[(front + 1) % N]]
      BY <1>1, <1>6 DEF RemoveStore, Goto, LockBalance
    <2>2. front \in Nat /\ rear \in Nat /\ rear - front > 0
      BY <1>1, <1>6, RoomAndItem DEF TypeOK, RemoveStore, Goto, Claiming
    <2>3. buf[(front + 1) % N] \in Cells
      BY <1>1, <2>2 DEF OnlyFilledTaken
    <2>4. ASSUME NEW k \in 1 .. rear' - front'
          PROVE  buf'[(front' + k) % N] \in Cells
      <3>1. k + 1 \in 1 .. rear - front /\ front' + k = front + (k + 1)
        BY <2>1, <2>2
      <3> QED
        BY <1>1, <2>1, <3>1 DEF OnlyFilledTaken
    <2>5. ASSUME NEW u \in Consumers, pc'[u] \in Releasing
          PROVE  item'[u] \in Cells
      BY <1>1, <1>6, <2>1, <2>3, <2>5 DEF OnlyFilledTaken, RemoveStore, Goto, TypeOK
    <2> QED
      BY <2>4, <2>5 DEF OnlyFilledTaken
  <1>7. CASE UNCHANGED vars
    BY <1>7, RingUntouched DEF vars
  <1> QED
    BY <1>2, <1>3, <1>4, <1>5, <1>6, <1>7 DEF Next, InsertStep, RemoveStep

LEMMA InitIInv == Init => IInv
  <1> SUFFICES ASSUME Init PROVE IInv
    OBVIOUS
  <1>1. TypeOK
    BY DEF Init, TypeOK, InsertPC, RemovePC
  <1>2. /\ Count(Producers, Reserving) = 0 /\ Count(Producers, Announcing) = 0
        /\ Count(Consumers, Claiming) = 0 /\ Count(Consumers, Releasing) = 0
        /\ Count(Threads, Critical) = 0
    <2>1. \A t \in Threads : pc[t] \notin Reserving \cup Announcing \cup Claiming
                                            \cup Releasing \cup Critical
      BY DEF Init, Reserving, Announcing, Claiming, Releasing, Critical
    <2> QED
      BY <2>1, ThreadsFinite, HowManyZero DEF Count
  <1>3. SemaphoresBalance
    BY <1>2 DEF Init, SemaphoresBalance, SlotBalance, ItemBalance, LockBalance
  <1>4. OnlyFilledTaken
    BY DEF Init, OnlyFilledTaken, Releasing
  <1> QED
    BY <1>1, <1>3, <1>4 DEF IInv

----------------------------------------------------------------------------
(* Theorems *)

(* The inductive invariant holds in every reachable state of the buffer.   *)
THEOREM IInvHolds == Spec => []IInv
  <1>1. IInv /\ [Next]_vars => IInv'
    BY TypeStep, BalanceStep, FilledStep DEF IInv
  <1> QED
    BY InitIInv, <1>1, PTL DEF Spec

(* Type correctness of sbuf_t and of the threads inside its operations.    *)
THEOREM TypeCorrect == Spec => []TypeOK
  BY IInvHolds, PTL DEF IInv

(* For any number of threads and slots, the semaphores of sbuf_insert and  *)
(* sbuf_remove account for every slot, item and thread at every point.     *)
THEOREM Balanced == Spec => []SemaphoresBalance
  BY IInvHolds, PTL DEF IInv

(* sbuf_remove returns nothing that no sbuf_insert has stored.             *)
THEOREM FilledTaken == Spec => []OnlyFilledTaken
  BY IInvHolds, PTL DEF IInv

(* The ring never holds more than its N slots, nor less than nothing:      *)
(* rear stays within N of front, so no waiting item is overwritten.        *)
THEOREM NeverOverfull == Spec => [](rear - front \in 0 .. N)
  <1>1. IInv => rear - front \in 0 .. N
    BY RoomAndItem
  <1> QED
    BY IInvHolds, <1>1, PTL

----------------------------------------------------------------------------
(* Refinement of the atomic queue *)

(* Two indices less than n apart address different slots of the ring.      *)
LEMMA ModDistinct ==
  ASSUME NEW n \in Nat \ {0}, NEW a \in Nat, NEW b \in Nat, a < b, b < a + n
  PROVE  a % n # b % n
  <1>1. SUFFICES ASSUME a % n = b % n PROVE FALSE
    OBVIOUS
  <1> DEFINE qa == a \div n
             qb == b \div n
             ra == a % n
  <1>2. qa \in Int /\ qb \in Int /\ ra \in 0 .. n-1
    OBVIOUS
  <1>3. a = n * qa + ra /\ b = n * qb + ra
    BY <1>1
  <1> HIDE DEF qa, qb, ra
  <1>4. b - a = n * (qb - qa)
    <2>1. n * (qb - qa) = n * qb - n * qa
      BY <1>2
    <2>2. n * qa \in Int /\ n * qb \in Int
      BY <1>2
    <2> QED
      BY <1>2, <1>3, <2>1, <2>2
  <1>5. n * (qb - qa) > 0 /\ n * (qb - qa) < n
    BY <1>4
  <1>6. CASE qb - qa >= 1
    BY <1>2, <1>5, <1>6
  <1>7. CASE qb - qa <= 0
    BY <1>2, <1>5, <1>7
  <1> QED
    BY <1>2, <1>6, <1>7

(* The occupied part of the ring is a sequence of descriptors.             *)
LEMMA ContentsType ==
  ASSUME IInv
  PROVE  /\ Contents \in Seq(Values)
         /\ Len(Contents) = rear - front
         /\ \A k \in 1 .. rear - front : <<Contents[k]>> = buf[(front + k) % N]
  <1>1. rear - front \in Nat
    BY RoomAndItem
  <1>2. \A k \in 1 .. rear - front : buf[(front + k) % N] \in Cells
    BY DEF IInv, OnlyFilledTaken
  <1>3. \A k \in 1 .. rear - front :
           buf[(front + k) % N][1] \in Values /\ <<buf[(front + k) % N][1]>> = buf[(front + k) % N]
    BY <1>2 DEF Cells
  <1> DEFINE n == rear - front
  <1>4. Contents = [k \in 1 .. n |-> buf[(front + k) % N][1]]
    BY DEF Contents
  <1>5. \A k \in 1 .. n : Contents[k] = buf[(front + k) % N][1]
    BY <1>4
  <1>6. Contents \in [1 .. n -> Values]
    BY <1>3, <1>4
  <1>7. Contents \in Seq(Values) /\ Len(Contents) = n
    <2>1. n \in Nat
      BY <1>1
    <2> HIDE DEF n
    <2> QED
      BY <1>6, <2>1
  <1> QED
    BY <1>3, <1>5, <1>7

(* Steps outside the two stores leave the abstract queue alone.            *)
LEMMA StutterStep ==
  ASSUME UNCHANGED <<buf, front, rear>>, \A c \in Consumers : item'[c] = item[c]
  PROVE  UNCHANGED Fifo!vars
  BY DEF Fifo!vars, Contents

(* The store in sbuf_insert is the abstract Insert.                        *)
LEMMA InsertStoreStep ==
  ASSUME IInv, NEW t \in Producers, InsertStore(t)
  PROVE  \E v \in Values : Fifo!Insert(v)
  <1> DEFINE n == rear - front
  <1>1. /\ TypeOK /\ front \in Nat /\ rear \in Nat /\ N \in Nat \ {0}
        /\ buf \in [0 .. N-1 -> Cells \cup {<<>>}]
    BY DEF IInv, TypeOK
  <1>2. n \in 0 .. N-1
    BY <1>1, RoomAndItem DEF InsertStore, Goto, Reserving
  <1>3. /\ front' = front /\ rear' = rear + 1
        /\ buf' = [buf EXCEPT ![(rear + 1) % N] = item[t]]
        /\ item' = item
    BY DEF IInv, SemaphoresBalance, LockBalance, InsertStore, Goto
  <1>4. PICK v \in Values : item[t] = <<v>>
    BY <1>1 DEF TypeOK, InsertStore, Goto, Cells
  <1>5. (rear + 1) % N \in 0 .. N-1
    BY <1>1
  <1>6. \A k \in 1 .. n : (front + k) % N # (rear + 1) % N
    <2> TAKE k \in 1 .. n
    <2>1. /\ front + k \in Nat /\ rear + 1 \in Nat
          /\ front + k < rear + 1 /\ rear + 1 < (front + k) + N
      BY <1>1, <1>2
    <2> QED
      BY <1>1, <2>1, ModDistinct
  <1>7. \A k \in 1 .. n : buf'[(front + k) % N] = buf[(front + k) % N]
    <2> TAKE k \in 1 .. n
    <2>1. (front + k) % N \in 0 .. N-1
      BY <1>1, <1>2
    <2> QED
      BY <1>1, <1>3, <1>5, <1>6, <2>1
  <1>8. buf'[(front + (n + 1)) % N] = <<v>>
    <2>1. front + (n + 1) = rear + 1
      BY <1>1
    <2> QED
      BY <1>1, <1>3, <1>4, <1>5, <2>1
  <1>9. Contents' = Append(Contents, v)
    <2>1. Contents' = [k \in 1 .. n + 1 |-> buf'[(front + k) % N][1]]
      <3>1. rear' - front' = n + 1
        BY <1>1, <1>3
      <3> QED
        BY <1>3, <3>1 DEF Contents
    <2>2. Contents \in Seq(Values) /\ Len(Contents) = n
      BY ContentsType
    <2>3. \A k \in 1 .. n : Contents[k] = buf[(front + k) % N][1]
      BY DEF Contents
    <2>4. \A k \in 1 .. n : Contents'[k] = Contents[k]
      BY <1>2, <1>7, <2>1, <2>3
    <2>5. Contents'[n + 1] = v
      BY <1>2, <1>8, <2>1
    <2>6. Contents' \in Seq(Values) /\ Len(Contents') = n + 1
      <3>1. \A k \in 1 .. n + 1 : Contents'[k] \in Values
        <4>1. \A k \in 1 .. n : Contents[k] \in Values
          BY <2>2, ElementOfSeq
        <4> QED
          BY <1>2, <2>4, <2>5, <4>1
      <3>2. DOMAIN Contents' = 1 .. n + 1 /\ Contents' = [k \in 1 .. n + 1 |-> Contents'[k]]
        BY <2>1
      <3>3. Contents' \in [1 .. n + 1 -> Values]
        BY <3>1, <3>2
      <3>4. n + 1 \in Nat
        BY <1>2
      <3> QED
        BY <3>3, <3>4
    <2>7. /\ Append(Contents, v) \in Seq(Values)
          /\ Len(Append(Contents, v)) = n + 1
          /\ \A k \in 1 .. n : Append(Contents, v)[k] = Contents[k]
          /\ Append(Contents, v)[n + 1] = v
      BY <2>2, AppendProperties
    <2>8. \A k \in 1 .. n + 1 : Contents'[k] = Append(Contents, v)[k]
      BY <1>2, <2>4, <2>5, <2>7
    <2> HIDE DEF n
    <2> QED
      BY <2>6, <2>7, <2>8, SeqEqual
  <1>10. Len(Contents) < N
    BY <1>2, ContentsType
  <1>11. [c \in Consumers |-> item[c]]' = [c \in Consumers |-> item[c]]
    BY <1>3
  <1> QED
    BY <1>9, <1>10, <1>11 DEF Fifo!Insert

(* The store in sbuf_remove is the abstract Remove.                        *)
LEMMA RemoveStoreStep ==
  ASSUME IInv, NEW t \in Consumers, RemoveStore(t)
  PROVE  Fifo!Remove(t)
  <1> DEFINE n == rear - front
  <1>1. TypeOK /\ front \in Nat /\ rear \in Nat
    BY DEF IInv, TypeOK
  <1>2. n \in 1 .. N
    BY <1>1, RoomAndItem DEF RemoveStore, Goto, Claiming
  <1>3. /\ front' = front + 1 /\ rear' = rear /\ buf' = buf
        /\ item' = [item EXCEPT ![t] = buf[(front + 1) % N]]
    BY DEF IInv, SemaphoresBalance, LockBalance, RemoveStore, Goto
  <1>4. /\ Contents \in Seq(Values) /\ Len(Contents) = n
        /\ <<Contents[1]>> = buf[(front + 1) % N]
    BY <1>2, ContentsType
  <1>5. Contents # <<>>
    BY <1>2, <1>4
  <1>6. Contents' = Tail(Contents)
    <2>1. Contents' = [k \in 1 .. n - 1 |-> buf[(front + 1 + k) % N][1]]
      <3>1. rear' - front' = n - 1
        BY <1>1, <1>3
      <3> QED
        BY <1>3, <3>1 DEF Contents
    <2>2. \A k \in 1 .. n : Contents[k] = buf[(front + k) % N][1]
      BY DEF Contents
    <2>3. \A k \in 1 .. n - 1 : Contents'[k] = Contents[k + 1]
      <3> TAKE k \in 1 .. n - 1
      <3>1. k + 1 \in 1 .. n /\ front + 1 + k = front + (k + 1)
        BY <1>1, <1>2
      <3> QED
        BY <2>1, <2>2, <3>1
    <2>4. /\ Tail(Contents) \in Seq(Values) /\ Len(Tail(Contents)) = n - 1
          /\ \A k \in 1 .. n - 1 : Tail(Contents)[k] = Contents[k + 1]
      BY <1>4, <1>5, HeadTailProperties
    <2>5. Contents' \in Seq(Values) /\ Len(Contents') = n - 1
      <3>1. \A k \in 1 .. n - 1 : Contents'[k] \in Values
        <4>1. \A k \in 1 .. n : Contents[k] \in Values
          BY <1>4, ElementOfSeq
        <4> QED
          BY <1>2, <2>3, <4>1
      <3>2. Contents' = [k \in 1 .. n - 1 |-> Contents'[k]]
        BY <2>1
      <3>3. Contents' \in [1 .. n - 1 -> Values]
        BY <3>1, <3>2
      <3>4. n - 1 \in Nat
        BY <1>2
      <3> QED
        BY <3>3, <3>4
    <2> HIDE DEF n
    <2> QED
      BY <2>3, <2>4, <2>5, SeqEqual
  <1>7. Head(Contents) = Contents[1]
    BY <1>4, <1>5
  <1>8. [c \in Consumers |-> item[c]]'
          = [[c \in Consumers |-> item[c]] EXCEPT ![t] = <<Head(Contents)>>]
    BY <1>1, <1>3, <1>4, <1>7 DEF TypeOK
  <1> QED
    BY <1>5, <1>6, <1>8 DEF Fifo!Remove

(* Every step of the buffer is a step of the atomic queue or leaves it.    *)
LEMMA StepRefines ==
  ASSUME IInv, [Next]_vars
  PROVE  [Fifo!Next]_(Fifo!vars)
  <1>1. TypeOK
    BY DEF IInv
  <1>2. ASSUME NEW t \in Producers, NEW v \in Values, CallInsert(t, v)
        PROVE  UNCHANGED Fifo!vars
    BY <1>1, <1>2, StutterStep DEF CallInsert, TypeOK
  <1>3. ASSUME NEW t \in Producers,
               \/ InsertSlot(t) \/ InsertLock(t) \/ InsertLoad(t)
               \/ InsertUnlock(t) \/ InsertAnnounce(t)
        PROVE  UNCHANGED Fifo!vars
    BY <1>3, StutterStep
       DEF InsertSlot, InsertLock, InsertLoad, InsertUnlock, InsertAnnounce
  <1>4. ASSUME NEW t \in Producers, InsertStore(t)
        PROVE  Fifo!Next
    BY <1>4, InsertStoreStep DEF Fifo!Next
  <1>5. ASSUME NEW t \in Consumers,
               \/ RemoveItem(t) \/ RemoveLock(t) \/ RemoveLoad(t)
               \/ RemoveUnlock(t) \/ RemoveAnnounce(t) \/ Retire(t)
        PROVE  UNCHANGED Fifo!vars
    BY <1>5, StutterStep
       DEF RemoveItem, RemoveLock, RemoveLoad, RemoveUnlock, RemoveAnnounce, Retire
  <1>6. ASSUME NEW t \in Consumers, RemoveStore(t)
        PROVE  Fifo!Next
    BY <1>6, RemoveStoreStep DEF Fifo!Next
  <1>7. CASE UNCHANGED vars
    BY <1>7, StutterStep DEF vars
  <1> QED
    BY <1>2, <1>3, <1>4, <1>5, <1>6, <1>7 DEF Next, InsertStep, RemoveStep

(* The empty ring is the empty queue.                                      *)
LEMMA InitRefines == Init => Fifo!Init
  <1> SUFFICES ASSUME Init PROVE Fifo!Init
    OBVIOUS
  <1>1. Contents = <<>>
    BY DEF Init, Contents
  <1>2. [c \in Consumers |-> item[c]] = [c \in Consumers |-> <<>>]
    BY DEF Init
  <1> QED
    BY <1>1, <1>2 DEF Fifo!Init

(* The semaphore program implements the bounded FIFO queue the comment on  *)
(* sbuf_init promises, for any number of threads, slots and values.        *)
THEOREM Refinement == Spec => ImplementsFifo
  <1>1. IInv /\ [Next]_vars => [Fifo!Next]_(Fifo!vars)
    BY StepRefines
  <1> QED
    BY IInvHolds, InitRefines, <1>1, PTL DEF Spec, ImplementsFifo, Fifo!Spec
==============================================================================
