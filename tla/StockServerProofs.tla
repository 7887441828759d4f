--------------------------- MODULE StockServerProofs --------------------------
(***************************************************************************)
(* Proofs about the thread-based server for any number of clients, workers,*)
(* stock entries, orders and places in the queue: the locks of the table   *)
(* exclude each other, connfdcnt counts the connections although it is     *)
(* incremented and decremented in two steps, every open connection has one *)
(* owner, no purchase takes more than there is, and the trades are those   *)
(* of an exchange that executes whole orders.                              *)
(***************************************************************************)
EXTENDS StockServer, CountingProofs, SequenceTheorems

USE ServerAssumption, NobodyAssumption

(* main has a connection in connfd that is not in the queue yet.           *)
Holding == mpc \in {"lock", "insert"}

Connected == {"open", "leaving"}

(* OneOwner without counting: no two of main, the places of the queue and  *)
(* the workers have the same connection, and together they have the open   *)
(* ones.                                                                   *)
Handed ==
    /\ \A w \in Workers : pc[w] \in Serving <=> connfd[w] \in Clients
    /\ \A v, w \in Workers : connfd[v] \in Clients /\ connfd[v] = connfd[w] => v = w
    /\ \A j, k \in 1 .. Len(queue) : queue[j] = queue[k] => j = k
    /\ \A k \in 1 .. Len(queue), w \in Workers : queue[k] # connfd[w]
    /\ Holding => /\ \A k \in 1 .. Len(queue) : queue[k] # mfd
                  /\ \A w \in Workers : connfd[w] # mfd
    /\ \A c \in Clients : conn[c] \in Connected <=>
          \/ Holding /\ mfd = c
          \/ \E k \in 1 .. Len(queue) : queue[k] = c
          \/ \E w \in Workers : connfd[w] = c

(* The order in hand stays the same while a worker trades, and a buy that  *)
(* passed the test is covered by the amount it loaded.                     *)
InHand ==
    /\ \A w \in Workers : pc[w] \in Trading => Order(w) \in Orders
    /\ \A w \in Workers : pc[w] = "sell_lock" => idx[w] <= NumItem
    /\ \A w \in Workers : pc[w] = "buy_store" => reg[w] >= Order(w).cnt

(* What was loaded of connfdcnt is still its value when it is written.     *)
Loaded ==
    /\ mpc = "count" => mreg = connfdcnt
    /\ \A w \in Workers : pc[w] = "close_count" => reg[w] = connfdcnt

(* The inductive invariant.                                                *)
IInv == TypeOK /\ LocksExclude /\ ConnectionsCounted /\ Handed /\ InHand /\ Loaded

----------------------------------------------------------------------------
(* Lemmas *)

(* A worker moves from one point of its code to another.                   *)
LEMMA Moved ==
  ASSUME TypeOK, NEW w \in Workers, NEW from, NEW to, Goto(w, from, to)
  PROVE  /\ pc[w] = from
         /\ pc'[w] = to
         /\ \A v \in Workers : v # w => pc'[v] = pc[v]
         /\ \A v \in Workers : v = w \/ v # w
  BY DEF Goto, TypeOK

(* The counts of ConnectionsCounted are natural numbers.                   *)
LEMMA CountTypes ==
  /\ HowMany(Workers, pc, Closing) \in Nat
  /\ HowMany(Workers, pc, {"close_count"}) \in Nat
  /\ HowMany(Clients, conn, Connected) \in Nat
  BY HowManyType

(* fd_mutex is held by one thread at most.                                 *)
LEMMA OneCounter ==
  ASSUME TypeOK, ConnectionsCounted
  PROVE  /\ \A v, w \in Workers : pc[v] \in Closing /\ pc[w] \in Closing => v = w
         /\ \A w \in Workers : pc[w] \in Closing => mpc \notin Opening /\ fd_mutex = 0
         /\ mpc \in Opening => fd_mutex = 0
  <1>1. HowMany(Workers, pc, Closing) \in Nat
    BY CountTypes
  <1>2. fd_mutex + HowMany(Workers, pc, Closing) + Share(mpc, Opening) = 1
    BY DEF ConnectionsCounted
  <1>3. fd_mutex \in {0, 1} /\ Share(mpc, Opening) \in {0, 1}
    BY DEF TypeOK, Share
  <1>4. HowMany(Workers, pc, Closing) <= 1
    BY <1>1, <1>2, <1>3
  <1>5. \A v, w \in Workers : pc[v] \in Closing /\ pc[w] \in Closing => v = w
    BY <1>4, HowManyUnique
  <1>6. ASSUME NEW w \in Workers, pc[w] \in Closing
        PROVE  mpc \notin Opening /\ fd_mutex = 0
    <2>1. HowMany(Workers, pc, Closing) # 0
      BY <1>6, HowManyZero
    <2>2. fd_mutex = 0 /\ Share(mpc, Opening) = 0
      BY <1>1, <1>2, <1>3, <2>1
    <2> QED
      BY <2>2 DEF Share
  <1>7. mpc \in Opening => fd_mutex = 0
    <2>1. mpc \in Opening => Share(mpc, Opening) = 1
      BY DEF Share
    <2> QED
      BY <1>1, <1>2, <1>3, <2>1
  <1> QED
    BY <1>5, <1>6, <1>7

(* A worker that is about to decrement connfdcnt finds it positive.        *)
LEMMA SomethingCounted ==
  ASSUME TypeOK, ConnectionsCounted, Handed, NEW w \in Workers, pc[w] = "close_count"
  PROVE  connfdcnt >= 1
  <1> DEFINE nOpen == HowMany(Clients, conn, Connected)
             nClose == HowMany(Workers, pc, {"close_count"})
  <1>0. /\ connfdcnt \in Nat /\ nOpen \in Nat /\ nClose \in Nat
        /\ connfdcnt + Share(mpc, Uncounted) = nOpen + nClose
    BY CountTypes DEF TypeOK, ConnectionsCounted, Connected
  <1>1. nClose # 0
    BY HowManyZero
  <1>2. mpc \notin Opening
    BY OneCounter DEF Closing
  <1>3. CASE mpc = "lock"
    <2>1. mfd \in Clients /\ conn[mfd] \in Connected
      BY <1>3 DEF Handed, Holding, TypeOK
    <2>2. nOpen # 0
      BY <2>1, HowManyZero
    <2>3. Share(mpc, Uncounted) = 1
      BY <1>3 DEF Share, Uncounted
    <2> HIDE DEF nOpen, nClose
    <2> QED
      BY <1>0, <1>1, <2>2, <2>3
  <1>4. CASE mpc # "lock"
    <2>1. Share(mpc, Uncounted) = 0
      BY <1>2, <1>4 DEF Share, Uncounted, Opening
    <2> HIDE DEF nOpen, nClose
    <2> QED
      BY <1>0, <1>1, <2>1
  <1> QED
    BY <1>3, <1>4

(* The stock as the file holds it is a sequence.                           *)
LEMMA TableIsSeq == Initial \in Seq(Int) /\ Initial \in [Items -> Int]
  BY DEF Items

----------------------------------------------------------------------------
(* Initially *)

LEMMA InitIInv == Init => IInv
  <1> SUFFICES ASSUME Init PROVE IInv
    OBVIOUS
  <1>1. TypeOK
    <2>1. /\ lock \in [Items -> {0, 1}]
          /\ idx \in [Workers -> 1 .. NumItem + 1]
          /\ reg \in [Workers -> Int]
      BY DEF Init
    <2>2. queue \in Seq(Clients) /\ file \in Seq(Int) /\ left \in [Items -> Int]
      BY TableIsSeq DEF Init
    <2>3. snap \in [Workers -> Seq(Int)]
      BY DEF Init
    <2>4. pc \in [Workers -> WorkerPC] /\ \A w \in Workers : pc[w] \notin Serving
      BY DEF Init, WorkerPC, Serving, Trading, Buying, Selling
    <2>5. todo \in [Clients -> Nat]
      BY LoadsAssumption DEF Init
    <2> QED
      BY <2>1, <2>2, <2>3, <2>4, <2>5 DEF Init, TypeOK, MainPC
  <1>2. LocksExclude
    BY DEF Init, LocksExclude, Locking
  <1>3. ConnectionsCounted
    <2>1. \A w \in Workers : pc[w] \notin Closing /\ pc[w] \notin {"close_count"}
      BY DEF Init, Closing
    <2>2. \A c \in Clients : conn[c] \notin {"open", "leaving"}
      BY DEF Init
    <2>3. /\ HowMany(Workers, pc, Closing) = 0
          /\ HowMany(Workers, pc, {"close_count"}) = 0
          /\ HowMany(Clients, conn, {"open", "leaving"}) = 0
      BY <2>1, <2>2, HowManyZero
    <2>4. Share(mpc, Opening) = 0 /\ Share(mpc, Uncounted) = 0
      BY DEF Init, Share, Opening, Uncounted
    <2> QED
      BY <2>3, <2>4 DEF Init, ConnectionsCounted
  <1>4. Handed
    BY DEF Init, Handed, Holding, Connected, Serving, Trading, Buying, Selling
  <1>5. InHand /\ Loaded
    BY DEF Init, InHand, Loaded, Trading, Buying, Selling
  <1> QED
    BY <1>1, <1>2, <1>3, <1>4, <1>5 DEF IInv

----------------------------------------------------------------------------
(* TypeOK *)

LEMMA ClientTypes ==
  ASSUME TypeOK, NEW c \in Clients, Client(c)
  PROVE  TypeOK'
  <1>1. CASE Connect(c)
    BY <1>1 DEF TypeOK, Connect, mainVars, countVars, stockVars, workerVars
  <1>2. ASSUME NEW o \in Orders, Send(c, o)
        PROVE  TypeOK'
    <2>1. /\ request' \in [Clients -> Orders \cup {NoOrder}]
          /\ todo' \in [Clients -> Nat]
      BY <1>2 DEF TypeOK, Send
    <2> QED
      BY <1>2, <2>1 DEF TypeOK, Send, mainVars, countVars, stockVars, workerVars
  <1>3. CASE Leave(c)
    BY <1>3 DEF TypeOK, Leave, mainVars, countVars, stockVars, workerVars
  <1> QED
    BY <1>1, <1>2, <1>3 DEF Client

LEMMA MainTypes ==
  ASSUME TypeOK, ConnectionsCounted, Main
  PROVE  TypeOK'
  <1> USE DEF MainPC, Uncounted, Opening, MainGoto, clientVars, countVars, stockVars, workerVars
  <1>1. ASSUME NEW c \in Clients, Accept(c)
        PROVE  TypeOK'
    BY <1>1 DEF TypeOK, Accept
  <1>2. CASE MainLock
    BY <1>2 DEF TypeOK, MainLock, P
  <1>3. CASE MainInsert
    BY <1>3 DEF TypeOK, MainInsert
  <1>4. CASE MainLoad
    BY <1>4 DEF TypeOK, MainLoad
  <1>5. CASE MainCount
    BY <1>5 DEF TypeOK, MainCount
  <1>6. CASE MainUnlock
    <2>1. fd_mutex = 0
      BY <1>6, OneCounter DEF MainUnlock
    <2> QED
      BY <1>6, <2>1 DEF TypeOK, MainUnlock, V
  <1> QED
    BY <1>1, <1>2, <1>3, <1>4, <1>5, <1>6 DEF Main

(* P and V of the lock of an entry.                                        *)
LEMMA EntrySemaphore ==
  ASSUME lock \in [Items -> {0, 1}], NEW i \in Items
  PROVE  /\ PItem(i) => lock[i] = 1 /\ lock' = [lock EXCEPT ![i] = 0]
         /\ lock[i] = 0 /\ VItem(i) => lock' = [lock EXCEPT ![i] = 1]
         /\ PItem(i) \/ (lock[i] = 0 /\ VItem(i)) => lock' \in [Items -> {0, 1}]
  BY DEF PItem, VItem

LEMMA EchoTypes ==
  ASSUME TypeOK, NEW w \in Workers, Remove(w) \/ Echo(w)
  PROVE  TypeOK'
  <1> USE DEF WorkerPC, Serving, Trading, Buying, Selling, Closing, Saving,
              clientVars, mainVars, countVars, stockVars, workerVars
  <1>0. TypeOK
    OBVIOUS
  <1>1. CASE Remove(w)
    <2>1. queue \in Seq(Clients) /\ queue # <<>>
      BY <1>1 DEF Remove, TypeOK
    <2>2. Head(queue) \in Clients /\ Tail(queue) \in Seq(Clients)
      BY <2>1
    <2> QED
      BY <1>1, <2>2 DEF TypeOK, Remove, Goto
  <1>2. CASE ReadBuy(w)
    BY <1>2 DEF TypeOK, ReadBuy, Goto
  <1>3. CASE ReadSell(w)
    <2>1. PICK i \in Items : idx' = [idx EXCEPT ![w] = i] /\ Goto(w, "read", "sell_lock")
      BY <1>3 DEF ReadSell
    <2>2. idx' \in [Workers -> 1 .. NumItem + 1]
      BY <2>1 DEF TypeOK, Items
    <2> QED
      BY <1>3, <2>1, <2>2 DEF TypeOK, ReadSell, Goto
  <1>4. CASE ReadSellUnlisted(w)
    BY <1>4 DEF TypeOK, ReadSellUnlisted, Goto
  <1>5. CASE ReadShow(w)
    BY <1>5 DEF TypeOK, ReadShow, Goto
  <1>6. CASE ReadEnd(w)
    BY <1>6 DEF TypeOK, ReadEnd, Goto
  <1>7. CASE Write(w)
    BY <1>7 DEF TypeOK, Write, Goto
  <1> QED
    BY <1>1, <1>2, <1>3, <1>4, <1>5, <1>6, <1>7 DEF Echo

LEMMA TradeTypes ==
  ASSUME TypeOK, LocksExclude, InHand, NEW w \in Workers, BuySteps(w) \/ SellSteps(w)
  PROVE  TypeOK'
  <1> USE DEF WorkerPC, Serving, Trading, Buying, Selling, Closing, Saving,
              clientVars, mainVars, countVars, workerVars
  <1>1. pc[w] \in Locking => idx[w] \in Items /\ lock[idx[w]] = 0
    BY DEF LocksExclude, Items, TypeOK
  <1>2. pc[w] \in Trading => Order(w).cnt \in Int
    BY DEF InHand
  <1>3. CASE BuyLock(w)
    <2>1. idx[w] \in Items
      BY <1>3 DEF TypeOK, BuyLock, Items
    <2>2. lock' \in [Items -> {0, 1}]
      BY <1>3, <2>1, EntrySemaphore DEF TypeOK, BuyLock
    <2> QED
      BY <1>3, <2>2 DEF TypeOK, BuyLock, Goto
  <1>4. CASE BuyAccept(w)
    BY <1>1, <1>4 DEF TypeOK, BuyAccept, Goto, stockVars, Locking
  <1>5. CASE BuyStore(w)
    <2>1. reg[w] - Order(w).cnt \in Int
      BY <1>2, <1>5 DEF BuyStore, Goto, TypeOK
    <2> QED
      BY <1>5, <2>1 DEF TypeOK, BuyStore, Goto
  <1>6. CASE BuyUnlock(w)
    <2>1. lock' \in [Items -> {0, 1}]
      BY <1>1, <1>6, EntrySemaphore DEF TypeOK, BuyUnlock, Goto, Locking
    <2> QED
      BY <1>6, <2>1 DEF TypeOK, BuyUnlock, Goto
  <1>7. CASE BuyReject(w)
    BY <1>7 DEF TypeOK, BuyReject, Goto, stockVars
  <1>8. CASE BuyPass(w)
    <2>1. lock' \in [Items -> {0, 1}]
      BY <1>1, <1>8, EntrySemaphore DEF TypeOK, BuyPass, Goto, Locking
    <2>2. idx' \in [Workers -> 1 .. NumItem + 1]
      <3>1. idx[w] + 1 \in 1 .. NumItem + 1
        BY <1>1, <1>8 DEF BuyPass, Goto, Locking, Items
      <3> QED
        BY <1>8, <3>1 DEF TypeOK, BuyPass
    <2> QED
      BY <1>8, <2>1, <2>2 DEF TypeOK, BuyPass, Goto
  <1>9. CASE BuyEnd(w)
    BY <1>9 DEF TypeOK, BuyEnd, Goto, stockVars
  <1>10. CASE SellLock(w)
    <2>1. idx[w] \in Items
      BY <1>10 DEF TypeOK, SellLock, Goto, InHand, Items
    <2>2. lock' \in [Items -> {0, 1}]
      BY <1>10, <2>1, EntrySemaphore DEF TypeOK, SellLock
    <2> QED
      BY <1>10, <2>2 DEF TypeOK, SellLock, Goto
  <1>11. CASE SellLoad(w)
    BY <1>1, <1>11 DEF TypeOK, SellLoad, Goto, stockVars, Locking
  <1>12. CASE SellStore(w)
    <2>1. reg[w] + Order(w).cnt \in Int
      BY <1>2, <1>12 DEF SellStore, Goto, TypeOK
    <2> QED
      BY <1>12, <2>1 DEF TypeOK, SellStore, Goto
  <1>13. CASE SellUnlock(w)
    <2>1. lock' \in [Items -> {0, 1}]
      BY <1>1, <1>13, EntrySemaphore DEF TypeOK, SellUnlock, Goto, Locking
    <2> QED
      BY <1>13, <2>1 DEF TypeOK, SellUnlock, Goto
  <1> QED
    BY <1>3, <1>4, <1>5, <1>6, <1>7, <1>8, <1>9, <1>10, <1>11, <1>12, <1>13
       DEF BuySteps, SellSteps

LEMMA EndTypes ==
  ASSUME TypeOK, ConnectionsCounted, Handed, Loaded,
         NEW w \in Workers, CloseSteps(w) \/ SaveSteps(w)
  PROVE  TypeOK'
  <1> USE DEF WorkerPC, Serving, Trading, Buying, Selling, Closing, Saving,
              clientVars, mainVars, countVars, stockVars, workerVars
  <1>1. CASE CloseLock(w)
    <2>1. fd_mutex' \in {0, 1}
      BY <1>1 DEF TypeOK, CloseLock, P
    <2>2. pc' \in [Workers -> WorkerPC]
      BY <1>1 DEF TypeOK, CloseLock, Goto
    <2>3. \A v \in Workers : pc'[v] \in Serving => connfd'[v] \in Clients
      BY <1>1 DEF TypeOK, CloseLock, Goto
    <2> QED
      BY <1>1, <2>1, <2>2, <2>3 DEF TypeOK, CloseLock
  <1>2. CASE Close(w)
    <2>1. /\ conn' \in [Clients -> {"absent", "away", "waiting", "open", "leaving", "closed"}]
          /\ pc' \in [Workers -> WorkerPC]
      BY <1>2 DEF TypeOK, Close, Goto
    <2>2. \A v \in Workers : pc'[v] \in Serving => connfd'[v] \in Clients
      BY <1>2 DEF TypeOK, Close, Goto
    <2>3. connfd' \in [Workers -> Clients \cup {Nobody}] /\ reg' \in [Workers -> Int]
      <3>1. /\ connfd \in [Workers -> Clients \cup {Nobody}]
            /\ reg \in [Workers -> Int] /\ connfdcnt \in Nat
        BY DEF TypeOK
      <3>2. connfd' = [connfd EXCEPT ![w] = Nobody] /\ reg' = [reg EXCEPT ![w] = connfdcnt]
        BY <1>2 DEF Close
      <3> QED
        BY <3>1, <3>2
    <2> QED
      BY <1>2, <2>1, <2>2, <2>3 DEF TypeOK, Close
  <1>3. CASE CloseCount(w)
    <2>1. reg[w] - 1 \in Nat
      <3>1. pc[w] = "close_count" /\ reg[w] = connfdcnt
        BY <1>3 DEF CloseCount, Goto, Loaded
      <3>2. connfdcnt \in Nat
        BY DEF TypeOK
      <3>3. connfdcnt >= 1
        BY <3>1, SomethingCounted
      <3> QED
        BY <3>1, <3>2, <3>3
    <2> QED
      BY <1>3, <2>1 DEF TypeOK, CloseCount, Goto
  <1>4. CASE CloseUnlock(w)
    <2>1. fd_mutex = 0
      BY <1>4, OneCounter DEF CloseUnlock, Goto
    <2> QED
      BY <1>4, <2>1 DEF TypeOK, CloseUnlock, Goto, V
  <1>5. CASE NotLast(w)
    BY <1>5 DEF TypeOK, NotLast, Goto
  <1>6. CASE Last(w)
    BY <1>6 DEF TypeOK, Last, Goto
  <1>7. CASE SaveOpen(w)
    <2>1. <<>> \in Seq(Int)
      OBVIOUS
    <2> QED
      BY <1>7, <2>1 DEF TypeOK, SaveOpen, Goto
  <1>8. CASE SaveOpenFails(w)
    BY <1>8 DEF TypeOK, SaveOpenFails, Goto
  <1>9. CASE SaveItem(w)
    <2>1. snap[w] \in Seq(Int) /\ Len(snap[w]) + 1 \in Items
      BY <1>9 DEF TypeOK, SaveItem, Items
    <2>2. Append(snap[w], left[Len(snap[w]) + 1]) \in Seq(Int)
      BY <2>1 DEF TypeOK
    <2> QED
      BY <1>9, <2>2 DEF TypeOK, SaveItem
  <1>10. CASE SaveClose(w)
    BY <1>10 DEF TypeOK, SaveClose, Goto
  <1> QED
    BY <1>1, <1>2, <1>3, <1>4, <1>5, <1>6, <1>7, <1>8, <1>9, <1>10
       DEF CloseSteps, SaveSteps

(* Every step keeps the types: the semaphores stay 0 or 1 and the number   *)
(* of connections does not become negative.                                *)
LEMMA TypeStep ==
  ASSUME IInv, [Next]_vars
  PROVE  TypeOK'
  <1> USE DEF IInv
  <1>1. ASSUME NEW c \in Clients, Client(c)
        PROVE  TypeOK'
    BY <1>1, ClientTypes
  <1>2. CASE Main
    BY <1>2, MainTypes
  <1>3. ASSUME NEW w \in Workers, Worker(w)
        PROVE  TypeOK'
    BY <1>3, EchoTypes, TradeTypes, EndTypes DEF Worker
  <1>4. CASE UNCHANGED vars
    BY <1>4 DEF TypeOK, vars, clientVars, mainVars, countVars, stockVars, workerVars
  <1> QED
    BY <1>1, <1>2, <1>3, <1>4 DEF Next

----------------------------------------------------------------------------
(* LocksExclude *)

Storing == {"buy_store", "sell_store"}

(* A step of w outside the locks.                                          *)
LEMMA LocksApart ==
  ASSUME TypeOK, LocksExclude, NEW w \in Workers, pc[w] \notin Locking, pc'[w] \notin Locking,
         \A v \in Workers : v # w => pc'[v] = pc[v] /\ idx'[v] = idx[v] /\ reg'[v] = reg[v],
         lock' = lock, left' = left
  PROVE  LocksExclude'
  <1>1. Storing \subseteq Locking
    BY DEF Storing, Locking
  <1>2. \A v \in Workers : pc'[v] \in Locking => v # w
    OBVIOUS
  <1>3. \A v \in Workers : pc'[v] \in Storing => v # w
    BY <1>1
  <1> HIDE DEF Locking
  <1> QED
    BY <1>1, <1>2, <1>3 DEF LocksExclude, Storing

(* A step of w, which holds the lock of an entry and keeps it.             *)
LEMMA LocksHeld ==
  ASSUME TypeOK, LocksExclude, NEW w \in Workers, pc[w] \in Locking, pc'[w] \in Locking,
         idx' = idx, lock' = lock,
         \A v \in Workers : v # w => pc'[v] = pc[v] /\ reg'[v] = reg[v],
         \A i \in Items : i # idx[w] => left'[i] = left[i],
         pc'[w] \in Storing => reg'[w] = left'[idx[w]]
  PROVE  LocksExclude'
  <1>1. Storing \subseteq Locking
    BY DEF Storing, Locking
  <1>2. \A v \in Workers : pc[v] \in Locking => idx[v] \in Items /\ lock[idx[v]] = 0
    BY DEF LocksExclude, TypeOK, Items
  <1>3. \A v \in Workers : pc'[v] \in Locking <=> pc[v] \in Locking
    OBVIOUS
  <1>4. \A v \in Workers : pc'[v] \in Storing => reg'[v] = left'[idx'[v]]
    <2> SUFFICES ASSUME NEW v \in Workers, pc'[v] \in Storing, v # w
                 PROVE  reg'[v] = left'[idx[v]]
      OBVIOUS
    <2>1. pc[v] \in Storing /\ reg[v] = left[idx[v]]
      BY DEF LocksExclude, Storing
    <2>2. idx[v] # idx[w] /\ idx[v] \in Items
      BY <1>1, <1>2, <2>1 DEF LocksExclude
    <2> QED
      BY <2>1, <2>2
  <1> HIDE DEF Locking
  <1> QED
    BY <1>2, <1>3, <1>4 DEF LocksExclude, Storing, Items

(* P of the lock of entry idx[w].                                          *)
LEMMA LocksTaken ==
  ASSUME TypeOK, LocksExclude, NEW w \in Workers, pc[w] \notin Locking,
         pc'[w] \in Locking \ Storing, idx[w] \in Items, lock[idx[w]] = 1,
         lock' = [lock EXCEPT ![idx[w]] = 0], idx' = idx, left' = left, reg' = reg,
         \A v \in Workers : v # w => pc'[v] = pc[v]
  PROVE  LocksExclude'
  <1>1. Storing \subseteq Locking
    BY DEF Storing, Locking
  <1>2. \A v \in Workers : v # w /\ pc[v] \in Locking =>
           idx[v] \in Items /\ lock[idx[v]] = 0 /\ idx[v] # idx[w]
    BY DEF LocksExclude, TypeOK, Items
  <1>3. \A v \in Workers : pc'[v] \in Locking => idx'[v] \in Items /\ lock'[idx'[v]] = 0
    BY <1>2 DEF TypeOK
  <1>4. \A u, v \in Workers :
           pc'[u] \in Locking /\ pc'[v] \in Locking /\ idx'[u] = idx'[v] => u = v
    BY <1>2 DEF LocksExclude
  <1>5. \A i \in Items : lock'[i] = 0 => \E v \in Workers : pc'[v] \in Locking /\ idx'[v] = i
    <2> SUFFICES ASSUME NEW i \in Items, lock'[i] = 0, i # idx[w]
                 PROVE  \E v \in Workers : pc'[v] \in Locking /\ idx'[v] = i
      OBVIOUS
    <2>1. lock[i] = 0
      BY DEF TypeOK
    <2>2. PICK v \in Workers : pc[v] \in Locking /\ idx[v] = i
      BY <2>1 DEF LocksExclude
    <2> QED
      BY <2>2
  <1>6. \A v \in Workers : pc'[v] \in Storing => reg'[v] = left'[idx'[v]]
    BY DEF LocksExclude, Storing
  <1> HIDE DEF Locking
  <1> QED
    BY <1>3, <1>4, <1>5, <1>6 DEF LocksExclude, Storing, Items

(* V of the lock of entry idx[w].                                          *)
LEMMA LocksFreed ==
  ASSUME TypeOK, LocksExclude, NEW w \in Workers, pc[w] \in Locking, pc'[w] \notin Locking,
         lock' = [lock EXCEPT ![idx[w]] = 1], left' = left,
         \A v \in Workers : v # w => pc'[v] = pc[v] /\ idx'[v] = idx[v] /\ reg'[v] = reg[v]
  PROVE  LocksExclude'
  <1>1. Storing \subseteq Locking
    BY DEF Storing, Locking
  <1>2. \A v \in Workers : pc[v] \in Locking => idx[v] \in Items /\ lock[idx[v]] = 0
    BY DEF LocksExclude, TypeOK, Items
  <1>3. \A v \in Workers : pc'[v] \in Locking =>
           v # w /\ pc[v] \in Locking /\ idx'[v] = idx[v] /\ idx[v] # idx[w]
    BY DEF LocksExclude
  <1>4. \A v \in Workers : pc'[v] \in Locking => idx'[v] \in Items /\ lock'[idx'[v]] = 0
    BY <1>2, <1>3 DEF TypeOK
  <1>5. \A i \in Items : lock'[i] = 0 => \E v \in Workers : pc'[v] \in Locking /\ idx'[v] = i
    <2> SUFFICES ASSUME NEW i \in Items, lock'[i] = 0
                 PROVE  \E v \in Workers : pc'[v] \in Locking /\ idx'[v] = i
      OBVIOUS
    <2>1. lock[i] = 0 /\ i # idx[w]
      BY DEF TypeOK
    <2>2. PICK v \in Workers : pc[v] \in Locking /\ idx[v] = i
      BY <2>1 DEF LocksExclude
    <2> QED
      BY <2>1, <2>2
  <1>6. \A v \in Workers : pc'[v] \in Storing => reg'[v] = left'[idx'[v]]
    BY <1>1, <1>3 DEF LocksExclude, Storing
  <1>7. \A u, v \in Workers :
           pc'[u] \in Locking /\ pc'[v] \in Locking /\ idx'[u] = idx'[v] => u = v
    BY <1>3 DEF LocksExclude
  <1> HIDE DEF Locking
  <1> QED
    BY <1>4, <1>5, <1>6, <1>7 DEF LocksExclude, Storing, Items

(* The steps of a worker that involve no lock of the table.                *)
LEMMA ApartSteps ==
  ASSUME TypeOK, LocksExclude, NEW w \in Workers,
         \/ Remove(w) \/ Echo(w) \/ BuyEnd(w) \/ CloseSteps(w) \/ SaveSteps(w)
  PROVE  LocksExclude'
  <1>1. /\ pc[w] \notin Locking /\ pc'[w] \notin Locking
        /\ \A v \in Workers : v # w => pc'[v] = pc[v] /\ idx'[v] = idx[v] /\ reg'[v] = reg[v]
        /\ lock' = lock /\ left' = left
    <2>0. /\ pc \in [Workers -> WorkerPC] /\ idx \in [Workers -> 1 .. NumItem + 1]
          /\ reg \in [Workers -> Int]
      BY DEF TypeOK
    <2> USE <2>0 DEF Goto, Locking, stockVars, workerVars
    <2>1. CASE Remove(w) \/ ReadBuy(w) \/ ReadSell(w) \/ ReadSellUnlisted(w) \/ ReadShow(w)
      BY <2>1 DEF Remove, ReadBuy, ReadSell, ReadSellUnlisted, ReadShow
    <2>2. CASE ReadEnd(w) \/ Write(w) \/ BuyEnd(w) \/ CloseLock(w) \/ Close(w)
      BY <2>2 DEF ReadEnd, Write, BuyEnd, CloseLock, Close
    <2>3. CASE CloseCount(w) \/ CloseUnlock(w) \/ NotLast(w) \/ Last(w)
      BY <2>3 DEF CloseCount, CloseUnlock, NotLast, Last
    <2>4. CASE SaveOpen(w) \/ SaveOpenFails(w) \/ SaveItem(w) \/ SaveClose(w)
      BY <2>4 DEF SaveOpen, SaveOpenFails, SaveItem, SaveClose
    <2> HIDE DEF Goto, Locking, stockVars, workerVars
    <2> QED
      BY <2>1, <2>2, <2>3, <2>4 DEF Echo, CloseSteps, SaveSteps
  <1> QED
    BY <1>1, LocksApart

(* Every step keeps the locks exclusive.                                   *)
LEMMA LockStep ==
  ASSUME IInv, [Next]_vars
  PROVE  LocksExclude'
  <1>0. TypeOK /\ LocksExclude /\ InHand
    BY DEF IInv
  <1>1. ASSUME pc' = pc, idx' = idx, lock' = lock, left' = left, reg' = reg
        PROVE  LocksExclude'
    BY <1>0, <1>1 DEF LocksExclude
  <1>2. ASSUME NEW c \in Clients, Client(c)
        PROVE  LocksExclude'
    BY <1>1, <1>2 DEF Client, Connect, Send, Leave, stockVars, workerVars
  <1>3. CASE Main
    BY <1>1, <1>3 DEF Main, Accept, MainLock, MainInsert, MainLoad, MainCount, MainUnlock,
                      stockVars, workerVars
  <1>4. ASSUME NEW w \in Workers, BuySteps(w) \/ SellSteps(w), ~BuyEnd(w)
        PROVE  LocksExclude'
    <2> USE <1>0 DEF workerVars, stockVars
    <2>0. pc[w] \in Locking => idx[w] \in Items /\ lock[idx[w]] = 0
      BY DEF LocksExclude, Items, TypeOK
    <2>1. CASE BuyLock(w)
      <3>1. Goto(w, "buy_scan", "buy_test") /\ idx[w] \in Items /\ PItem(idx[w])
        BY <2>1 DEF BuyLock, TypeOK, Items
      <3>2. lock[idx[w]] = 1 /\ lock' = [lock EXCEPT ![idx[w]] = 0]
        BY <3>1, EntrySemaphore DEF TypeOK
      <3>3. /\ pc[w] \notin Locking /\ pc'[w] \in Locking \ Storing
            /\ idx' = idx /\ left' = left /\ reg' = reg
            /\ \A v \in Workers : v # w => pc'[v] = pc[v]
        BY <2>1, <3>1, Moved DEF BuyLock, Locking, Storing
      <3> QED
        BY <3>1, <3>2, <3>3, LocksTaken
    <2>2. CASE BuyAccept(w)
      <3>1. Goto(w, "buy_test", "buy_store") /\ reg'[w] = left[idx[w]]
        BY <2>2 DEF BuyAccept, TypeOK
      <3>2. \A v \in Workers : v # w => reg'[v] = reg[v]
        BY <2>2 DEF BuyAccept, TypeOK
      <3> QED
        BY <2>2, <3>1, <3>2, Moved, LocksHeld DEF BuyAccept, Locking
    <2>3. CASE BuyStore(w)
      <3>1. Goto(w, "buy_store", "buy_unlock")
        BY <2>3 DEF BuyStore
      <3>2. \A i \in Items : i # idx[w] => left'[i] = left[i]
        BY <2>3 DEF BuyStore, TypeOK
      <3> QED
        BY <2>3, <3>1, <3>2, Moved, LocksHeld DEF BuyStore, Locking, Storing
    <2>4. CASE BuyUnlock(w)
      <3>1. Goto(w, "buy_unlock", "write")
        BY <2>4 DEF BuyUnlock
      <3>2. lock' = [lock EXCEPT ![idx[w]] = 1]
        BY <2>0, <2>4, <3>1, EntrySemaphore DEF BuyUnlock, Goto, Locking, TypeOK
      <3>3. /\ pc[w] \in Locking /\ pc'[w] \notin Locking /\ left' = left
            /\ \A v \in Workers : v # w => pc'[v] = pc[v] /\ idx'[v] = idx[v] /\ reg'[v] = reg[v]
        BY <2>4, <3>1, Moved DEF BuyUnlock, Locking
      <3> QED
        BY <3>2, <3>3, LocksFreed
    <2>5. CASE BuyReject(w)
      <3>1. Goto(w, "buy_test", "buy_pass")
        BY <2>5 DEF BuyReject
      <3> QED
        BY <2>5, <3>1, Moved, LocksHeld DEF BuyReject, Locking, Storing
    <2>6. CASE BuyPass(w)
      <3>1. Goto(w, "buy_pass", "buy_scan")
        BY <2>6 DEF BuyPass
      <3>2. lock' = [lock EXCEPT ![idx[w]] = 1]
        BY <2>0, <2>6, <3>1, EntrySemaphore DEF BuyPass, Goto, Locking, TypeOK
      <3>3. \A v \in Workers : v # w => idx'[v] = idx[v]
        BY <2>6 DEF BuyPass, TypeOK
      <3>4. /\ pc[w] \in Locking /\ pc'[w] \notin Locking /\ left' = left
            /\ \A v \in Workers : v # w => pc'[v] = pc[v] /\ idx'[v] = idx[v] /\ reg'[v] = reg[v]
        BY <2>6, <3>1, <3>3, Moved DEF BuyPass, Locking
      <3> QED
        BY <3>2, <3>4, LocksFreed
    <2>7. CASE SellLock(w)
      <3>1. Goto(w, "sell_lock", "sell_load") /\ idx[w] \in Items /\ PItem(idx[w])
        BY <2>7 DEF SellLock, Goto, InHand, TypeOK, Items
      <3>2. lock[idx[w]] = 1 /\ lock' = [lock EXCEPT ![idx[w]] = 0]
        BY <3>1, EntrySemaphore DEF TypeOK
      <3>3. /\ pc[w] \notin Locking /\ pc'[w] \in Locking \ Storing
            /\ idx' = idx /\ left' = left /\ reg' = reg
            /\ \A v \in Workers : v # w => pc'[v] = pc[v]
        BY <2>7, <3>1, Moved DEF SellLock, Locking, Storing
      <3> QED
        BY <3>1, <3>2, <3>3, LocksTaken
    <2>8. CASE SellLoad(w)
      <3>1. Goto(w, "sell_load", "sell_store") /\ reg'[w] = left[idx[w]]
        BY <2>8 DEF SellLoad, TypeOK
      <3>2. \A v \in Workers : v # w => reg'[v] = reg[v]
        BY <2>8 DEF SellLoad, TypeOK
      <3> QED
        BY <2>8, <3>1, <3>2, Moved, LocksHeld DEF SellLoad, Locking
    <2>9. CASE SellStore(w)
      <3>1. Goto(w, "sell_store", "sell_unlock")
        BY <2>9 DEF SellStore
      <3>2. \A i \in Items : i # idx[w] => left'[i] = left[i]
        BY <2>9 DEF SellStore, TypeOK
      <3> QED
        BY <2>9, <3>1, <3>2, Moved, LocksHeld DEF SellStore, Locking, Storing
    <2>10. CASE SellUnlock(w)
      <3>1. Goto(w, "sell_unlock", "write")
        BY <2>10 DEF SellUnlock
      <3>2. lock' = [lock EXCEPT ![idx[w]] = 1]
        BY <2>0, <2>10, <3>1, EntrySemaphore DEF SellUnlock, Goto, Locking, TypeOK
      <3>3. /\ pc[w] \in Locking /\ pc'[w] \notin Locking /\ left' = left
            /\ \A v \in Workers : v # w => pc'[v] = pc[v] /\ idx'[v] = idx[v] /\ reg'[v] = reg[v]
        BY <2>10, <3>1, Moved DEF SellUnlock, Locking
      <3> QED
        BY <3>2, <3>3, LocksFreed
    <2> QED
      BY <1>4, <2>1, <2>2, <2>3, <2>4, <2>5, <2>6, <2>7, <2>8, <2>9, <2>10
         DEF BuySteps, SellSteps
  <1>5. ASSUME NEW w \in Workers, Worker(w)
        PROVE  LocksExclude'
    BY <1>0, <1>4, <1>5, ApartSteps DEF Worker
  <1>6. CASE UNCHANGED vars
    BY <1>1, <1>6 DEF vars, stockVars, workerVars
  <1> QED
    BY <1>2, <1>3, <1>5, <1>6 DEF Next

----------------------------------------------------------------------------
(* Handed: from main to the queue to a worker *)

(* A step that hands no connection over.                                   *)
LEMMA HandedStay ==
  ASSUME Handed, queue' = queue, connfd' = connfd, mfd' = mfd, Holding' <=> Holding,
         \A c \in Clients : conn'[c] \in Connected <=> conn[c] \in Connected,
         \A w \in Workers : pc'[w] \in Serving <=> pc[w] \in Serving
  PROVE  Handed'
  <1> HIDE DEF Connected, Holding, Serving
  <1> QED
    BY DEF Handed

(* The connection main has just accepted was held by nobody.               *)
LEMMA AcceptHands ==
  ASSUME TypeOK, Handed, NEW c \in Clients, Accept(c)
  PROVE  Handed'
  <1>1. /\ ~Holding /\ Holding' /\ mfd' = c
        /\ queue' = queue /\ connfd' = connfd /\ pc' = pc
        /\ conn[c] \notin Connected /\ conn'[c] \in Connected
        /\ \A d \in Clients : d # c => conn'[d] = conn[d]
    BY DEF Accept, MainGoto, Holding, Connected, TypeOK, workerVars
  <1>2. /\ \A k \in 1 .. Len(queue) : queue[k] # c
        /\ \A w \in Workers : connfd[w] # c
    BY <1>1 DEF Handed
  <1> HIDE DEF Connected, Holding, Serving
  <1> QED
    BY <1>1, <1>2 DEF Handed

(* sbuf_insert hands it to the queue.                                      *)
LEMMA InsertHands ==
  ASSUME TypeOK, Handed, MainInsert
  PROVE  Handed'
  <1> DEFINE n == Len(queue)
  <1>1. /\ Holding /\ ~Holding' /\ mfd' = mfd /\ mfd \in Clients
        /\ queue' = Append(queue, mfd) /\ connfd' = connfd /\ pc' = pc /\ conn' = conn
    BY DEF MainInsert, MainGoto, Holding, TypeOK, clientVars, workerVars
  <1>2. /\ n \in Nat /\ Len(queue') = n + 1
        /\ \A k \in 1 .. n : queue'[k] = queue[k] /\ k \in 1 .. n + 1
        /\ queue'[n + 1] = mfd
        /\ \A k \in 1 .. n + 1 : k = n + 1 \/ k \in 1 .. n
    BY <1>1 DEF TypeOK
  <1>3. n + 1 \in 1 .. n + 1
    BY <1>2
  <1>4. \A w \in Workers : pc'[w] \in Serving <=> connfd'[w] \in Clients
    BY <1>1 DEF Handed
  <1>5. \A v, w \in Workers : connfd'[v] \in Clients /\ connfd'[v] = connfd'[w] => v = w
    BY <1>1 DEF Handed
  <1>6. \A k \in 1 .. n : queue[k] # mfd
    BY <1>1 DEF Handed
  <1>7. \A j, k \in 1 .. Len(queue') : queue'[j] = queue'[k] => j = k
    BY <1>2, <1>6 DEF Handed
  <1>8. \A k \in 1 .. Len(queue'), w \in Workers : queue'[k] # connfd'[w]
    BY <1>1, <1>2 DEF Handed
  <1>9. ASSUME NEW c \in Clients
        PROVE  conn'[c] \in Connected <=>
                  (\E k \in 1 .. Len(queue') : queue'[k] = c) \/ (\E w \in Workers : connfd'[w] = c)
    <2>1. (\E k \in 1 .. Len(queue') : queue'[k] = c) <=> mfd = c \/ (\E k \in 1 .. n : queue[k] = c)
      BY <1>2, <1>3
    <2> HIDE DEF Connected
    <2> QED
      BY <1>1, <2>1 DEF Handed
  <1> HIDE DEF Connected, Holding, Serving, n
  <1> QED
    BY <1>1, <1>4, <1>5, <1>7, <1>8, <1>9 DEF Handed

(* sbuf_remove hands the oldest one to the worker.                         *)
LEMMA RemoveHands ==
  ASSUME TypeOK, Handed, NEW w \in Workers, Remove(w)
  PROVE  Handed'
  <1> DEFINE n == Len(queue)
             q == queue[1]
  <1>1. Goto(w, "remove", "read") /\ queue \in Seq(Clients) /\ queue # <<>>
    BY DEF Remove, TypeOK
  <1>2. /\ n \in Nat /\ n >= 1 /\ q \in Clients /\ Head(queue) = q /\ 1 \in 1 .. n
        /\ queue' = Tail(queue) /\ Len(queue') = n - 1
        /\ \A k \in 1 .. n - 1 : queue'[k] = queue[k + 1] /\ k + 1 \in 1 .. n /\ k + 1 # 1
        /\ \A k \in 1 .. n : k # 1 => k - 1 \in 1 .. n - 1 /\ queue'[k - 1] = queue[k]
    BY <1>1 DEF Remove
  <1>3. /\ connfd[w] \notin Clients /\ connfd'[w] = q
        /\ \A v \in Workers : v # w => connfd'[v] = connfd[v]
    <2>1. pc[w] \notin Serving
      BY <1>1 DEF Goto, Serving, Trading, Buying, Selling
    <2>2. connfd[w] \notin Clients
      BY <2>1 DEF Handed
    <2>3. connfd' = [connfd EXCEPT ![w] = q]
      BY <1>2 DEF Remove
    <2> HIDE DEF q
    <2> QED
      BY <2>2, <2>3 DEF TypeOK
  <1>4. /\ pc'[w] \in Serving
        /\ \A v \in Workers : v # w => pc'[v] = pc[v]
        /\ conn' = conn /\ mfd' = mfd /\ Holding' = Holding
    BY <1>1, Moved DEF Remove, Serving, clientVars, mainVars, Holding
  <1>5. \A v \in Workers : pc'[v] \in Serving <=> connfd'[v] \in Clients
    BY <1>2, <1>3, <1>4 DEF Handed
  <1>6. \A v \in Workers : connfd[v] # q
    BY <1>2 DEF Handed
  <1>7. \A u, v \in Workers : connfd'[u] \in Clients /\ connfd'[u] = connfd'[v] => u = v
    BY <1>3, <1>6 DEF Handed
  <1>8. \A j, k \in 1 .. n - 1 : queue'[j] = queue'[k] => j = k
    <2> SUFFICES ASSUME NEW j \in 1 .. n - 1, NEW k \in 1 .. n - 1, queue'[j] = queue'[k]
                 PROVE  j = k
      OBVIOUS
    <2>1. queue[j + 1] = queue[k + 1] /\ j + 1 \in 1 .. n /\ k + 1 \in 1 .. n
      BY <1>2
    <2>2. j + 1 = k + 1
      BY <2>1 DEF Handed
    <2> QED
      BY <1>2, <2>2
  <1>9. \A k \in 1 .. n - 1 : queue'[k] # q
    BY <1>2 DEF Handed
  <1>10. \A k \in 1 .. n - 1, v \in Workers : queue'[k] # connfd'[v]
    BY <1>2, <1>3, <1>9 DEF Handed
  <1>11. ASSUME Holding
         PROVE  /\ \A k \in 1 .. n - 1 : queue'[k] # mfd
                /\ \A v \in Workers : connfd'[v] # mfd
    <2>1. /\ \A k \in 1 .. n : queue[k] # mfd
          /\ \A v \in Workers : connfd[v] # mfd
      BY <1>11 DEF Handed
    <2>2. \A k \in 1 .. n - 1 : queue'[k] # mfd
      BY <1>2, <2>1
    <2>3. q # mfd
      BY <1>2, <2>1
    <2> HIDE DEF q
    <2> QED
      BY <1>3, <2>1, <2>2, <2>3
  <1>12. ASSUME NEW c \in Clients
         PROVE  conn[c] \in Connected <=>
                   \/ Holding /\ mfd = c
                   \/ \E k \in 1 .. n - 1 : queue'[k] = c
                   \/ \E v \in Workers : connfd'[v] = c
    <2>1. (\E k \in 1 .. n : queue[k] = c) <=> q = c \/ (\E k \in 1 .. n - 1 : queue'[k] = c)
      <3>1. ASSUME NEW k \in 1 .. n, queue[k] = c
            PROVE  q = c \/ (\E j \in 1 .. n - 1 : queue'[j] = c)
        <4>1. CASE k = 1
          BY <3>1, <4>1
        <4>2. CASE k # 1
          BY <1>2, <3>1, <4>2
        <4> QED
          BY <4>1, <4>2
      <3>2. ASSUME NEW k \in 1 .. n - 1, queue'[k] = c
            PROVE  \E j \in 1 .. n : queue[j] = c
        BY <1>2, <3>2
      <3>3. q = c => \E j \in 1 .. n : queue[j] = c
        BY <1>2
      <3> HIDE DEF q
      <3> QED
        BY <3>1, <3>2, <3>3
    <2>2. (\E v \in Workers : connfd'[v] = c) <=> q = c \/ (\E v \in Workers : connfd[v] = c)
      BY <1>3
    <2> HIDE DEF Connected, Holding
    <2> QED
      BY <2>1, <2>2 DEF Handed
  <1> HIDE DEF Connected, Holding, Serving, n, q
  <1> QED
    BY <1>2, <1>4, <1>5, <1>7, <1>8, <1>10, <1>11, <1>12 DEF Handed

(* Close(connfd): nobody has the connection any more.                      *)
LEMMA CloseHands ==
  ASSUME TypeOK, Handed, NEW w \in Workers, Close(w)
  PROVE  Handed'
  <1> DEFINE c == connfd[w]
  <1>1. Goto(w, "close", "close_count")
    BY DEF Close
  <1>2. c \in Clients
    BY <1>1 DEF TypeOK, Goto, Serving
  <1>3. /\ connfd'[w] = Nobody /\ connfd'[w] \notin Clients
        /\ \A v \in Workers : v # w => connfd'[v] = connfd[v] /\ connfd[v] # c
    BY <1>2 DEF Close, TypeOK, Handed
  <1>4. /\ conn'[c] \notin Connected
        /\ \A d \in Clients : d # c => conn'[d] = conn[d]
        /\ queue' = queue /\ mfd' = mfd /\ Holding' = Holding
    BY <1>2 DEF Close, TypeOK, Connected, mainVars, Holding
  <1>5. /\ pc'[w] \notin Serving
        /\ \A v \in Workers : v # w => pc'[v] = pc[v]
    BY <1>1, Moved DEF Serving, Trading, Buying, Selling
  <1>6. \A k \in 1 .. Len(queue) : queue[k] \in Clients /\ queue[k] # c
    BY <1>2 DEF Handed, TypeOK
  <1>7. Holding => mfd # c /\ mfd \in Clients
    BY <1>2 DEF Handed, Holding, TypeOK
  <1>8. \A v \in Workers : pc'[v] \in Serving <=> connfd'[v] \in Clients
    BY <1>3, <1>5 DEF Handed
  <1>9. \A u, v \in Workers : connfd'[u] \in Clients /\ connfd'[u] = connfd'[v] => u = v
    BY <1>3 DEF Handed
  <1>10. \A k \in 1 .. Len(queue), v \in Workers : queue[k] # connfd'[v]
    BY <1>3, <1>6 DEF Handed
  <1>11. Holding => /\ \A k \in 1 .. Len(queue) : queue[k] # mfd
                    /\ \A v \in Workers : connfd'[v] # mfd
    BY <1>3, <1>7 DEF Handed
  <1>12. ASSUME NEW d \in Clients
         PROVE  conn'[d] \in Connected <=>
                   \/ Holding /\ mfd = d
                   \/ \E k \in 1 .. Len(queue) : queue[k] = d
                   \/ \E v \in Workers : connfd'[v] = d
    <2> HIDE DEF Connected, Holding
    <2>1. CASE d = c
      BY <1>3, <1>4, <1>6, <1>7, <2>1
    <2>2. CASE d # c
      <3>1. (\E v \in Workers : connfd'[v] = d) <=> (\E v \in Workers : connfd[v] = d)
        BY <1>3, <2>2
      <3> QED
        BY <1>4, <2>2, <3>1 DEF Handed
    <2> QED
      BY <2>1, <2>2
  <1> HIDE DEF Connected, Holding, Serving, c
  <1> QED
    BY <1>4, <1>8, <1>9, <1>10, <1>11, <1>12 DEF Handed

(* All other steps of a worker leave the connections where they are.       *)
LEMMA OtherHands ==
  ASSUME TypeOK, Handed, NEW w \in Workers,
         \/ Echo(w) \/ BuySteps(w) \/ SellSteps(w) \/ SaveSteps(w)
         \/ CloseLock(w) \/ CloseCount(w) \/ CloseUnlock(w) \/ NotLast(w) \/ Last(w)
  PROVE  Handed'
  <1>1. /\ \A v \in Workers : pc'[v] \in Serving <=> pc[v] \in Serving
        /\ connfd' = connfd /\ queue' = queue /\ conn' = conn /\ mfd' = mfd /\ mpc' = mpc
    <2>0. pc \in [Workers -> WorkerPC]
      BY DEF TypeOK
    <2> USE <2>0 DEF Goto, Serving, Trading, Buying, Selling, clientVars, mainVars, workerVars
    <2>1. CASE ReadBuy(w) \/ ReadSell(w) \/ ReadSellUnlisted(w) \/ ReadShow(w)
      BY <2>1 DEF ReadBuy, ReadSell, ReadSellUnlisted, ReadShow
    <2>2. CASE ReadEnd(w) \/ Write(w) \/ BuyLock(w) \/ BuyAccept(w) \/ BuyStore(w)
      BY <2>2 DEF ReadEnd, Write, BuyLock, BuyAccept, BuyStore
    <2>3. CASE BuyUnlock(w) \/ BuyReject(w) \/ BuyPass(w) \/ BuyEnd(w)
      BY <2>3 DEF BuyUnlock, BuyReject, BuyPass, BuyEnd
    <2>4. CASE SellSteps(w)
      BY <2>4 DEF SellSteps, SellLock, SellLoad, SellStore, SellUnlock
    <2>5. CASE SaveOpen(w) \/ SaveOpenFails(w)
      BY <2>5 DEF SaveOpen, SaveOpenFails
    <2>6. CASE SaveItem(w)
      BY <2>6 DEF SaveItem
    <2>7. CASE SaveClose(w)
      BY <2>7 DEF SaveClose
    <2>8. CASE CloseLock(w) \/ CloseCount(w)
      BY <2>8 DEF CloseLock, CloseCount
    <2>9. CASE CloseUnlock(w) \/ NotLast(w) \/ Last(w)
      BY <2>9 DEF CloseUnlock, NotLast, Last
    <2> HIDE DEF Goto, Serving, Trading, Buying, Selling, clientVars, mainVars, workerVars
    <2> QED
      BY <2>1, <2>2, <2>3, <2>4, <2>5, <2>6, <2>7, <2>8, <2>9 DEF Echo, BuySteps, SaveSteps
  <1> QED
    BY <1>1, HandedStay DEF Holding

(* Every step keeps one owner for every open connection.                   *)
LEMMA HandStep ==
  ASSUME IInv, [Next]_vars
  PROVE  Handed'
  <1>0. TypeOK /\ Handed
    BY DEF IInv
  <1>1. ASSUME NEW c \in Clients, Client(c)
        PROVE  Handed'
    <2>1. /\ \A d \in Clients : conn'[d] \in Connected <=> conn[d] \in Connected
          /\ pc' = pc /\ connfd' = connfd /\ queue' = queue /\ mfd' = mfd /\ mpc' = mpc
      BY <1>0, <1>1 DEF Client, Connect, Send, Leave, TypeOK, Connected, mainVars, workerVars
    <2> QED
      BY <1>0, <2>1, HandedStay DEF Holding
  <1>2. ASSUME NEW c \in Clients, Accept(c)
        PROVE  Handed'
    BY <1>0, <1>2, AcceptHands
  <1>3. CASE MainInsert
    BY <1>0, <1>3, InsertHands
  <1>4. CASE MainLock \/ MainLoad \/ MainCount \/ MainUnlock
    <2>1. /\ Holding' <=> Holding
          /\ conn' = conn /\ pc' = pc /\ connfd' = connfd /\ queue' = queue /\ mfd' = mfd
      BY <1>4 DEF MainLock, MainLoad, MainCount, MainUnlock, MainGoto, Holding, clientVars,
                  workerVars
    <2> QED
      BY <1>0, <2>1, HandedStay
  <1>5. ASSUME NEW w \in Workers, Worker(w)
        PROVE  Handed'
    BY <1>0, <1>5, RemoveHands, CloseHands, OtherHands DEF Worker, CloseSteps
  <1>6. CASE UNCHANGED vars
    BY <1>0, <1>6, HandedStay DEF vars, clientVars, mainVars, workerVars, Holding
  <1> QED
    BY <1>1, <1>2, <1>3, <1>4, <1>5, <1>6 DEF Next, Main

----------------------------------------------------------------------------
(* InHand: the order a worker trades *)

(* A step of w changes nothing of what another worker has in hand.         *)
LEMMA InHandOthers ==
  ASSUME TypeOK, Handed, InHand, NEW w \in Workers,
         \A v \in Workers : v # w => /\ pc'[v] = pc[v] /\ connfd'[v] = connfd[v]
                                     /\ idx'[v] = idx[v] /\ reg'[v] = reg[v],
         \A c \in Clients : c # connfd[w] => request'[c] = request[c],
         pc'[w] \in Trading => request'[connfd'[w]] \in Orders,
         pc'[w] = "sell_lock" => idx'[w] <= NumItem,
         pc'[w] = "buy_store" => reg'[w] >= request'[connfd'[w]].cnt
  PROVE  InHand'
  <1>1. \A v \in Workers : v # w /\ pc[v] \in Trading => request'[connfd[v]] = request[connfd[v]]
    <2> SUFFICES ASSUME NEW v \in Workers, v # w, pc[v] \in Trading
                 PROVE  connfd[v] \in Clients /\ connfd[v] # connfd[w]
      OBVIOUS
    <2>1. connfd[v] \in Clients
      BY DEF TypeOK, Serving
    <2> QED
      BY <2>1 DEF Handed
  <1>2. \A v \in Workers : pc'[v] \in Trading => request'[connfd'[v]] \in Orders
    BY <1>1 DEF InHand, Order
  <1>3. \A v \in Workers : pc'[v] = "sell_lock" => idx'[v] <= NumItem
    BY DEF InHand
  <1>4. \A v \in Workers : pc'[v] = "buy_store" => reg'[v] >= request'[connfd'[v]].cnt
    <2>1. "buy_store" \in Trading
      BY DEF Trading, Buying
    <2> QED
      BY <1>1, <2>1 DEF InHand, Order
  <1> QED
    BY <1>2, <1>3, <1>4 DEF InHand, Order

(* The steps after which w has no order in hand.                           *)
LEMMA EmptyHands ==
  ASSUME TypeOK, Handed, InHand, NEW w \in Workers,
         \/ Remove(w) \/ ReadSellUnlisted(w) \/ ReadShow(w) \/ ReadEnd(w) \/ Write(w)
         \/ BuyUnlock(w) \/ BuyEnd(w) \/ SellUnlock(w) \/ CloseSteps(w) \/ SaveSteps(w)
  PROVE  InHand'
  <1> DEFINE Frame == /\ \A v \in Workers : v # w => /\ pc'[v] = pc[v] /\ connfd'[v] = connfd[v]
                                                     /\ idx'[v] = idx[v] /\ reg'[v] = reg[v]
                      /\ \A c \in Clients : c # connfd[w] => request'[c] = request[c]
                      /\ pc'[w] \notin Trading
  <1>1. Frame
    <2>0. /\ pc \in [Workers -> WorkerPC] /\ connfd \in [Workers -> Clients \cup {Nobody}]
          /\ idx \in [Workers -> 1 .. NumItem + 1] /\ reg \in [Workers -> Int]
          /\ request \in [Clients -> Orders \cup {NoOrder}]
      BY DEF TypeOK
    <2> USE <2>0 DEF Goto, Trading, Buying, Selling, clientVars, stockVars, workerVars
    <2>1. CASE Remove(w) \/ ReadSellUnlisted(w) \/ ReadShow(w) \/ ReadEnd(w) \/ Write(w)
      BY <2>1 DEF Remove, ReadSellUnlisted, ReadShow, ReadEnd, Write
    <2>2. CASE BuyUnlock(w) \/ BuyEnd(w) \/ SellUnlock(w)
      BY <2>2 DEF BuyUnlock, BuyEnd, SellUnlock
    <2>3. CASE CloseSteps(w)
      BY <2>3 DEF CloseSteps, CloseLock, Close, CloseCount, CloseUnlock, NotLast, Last
    <2>4. CASE SaveSteps(w)
      BY <2>4 DEF SaveSteps, SaveOpen, SaveOpenFails, SaveItem, SaveClose
    <2> QED
      BY <2>1, <2>2, <2>3, <2>4
  <1>2. pc'[w] # "sell_lock" /\ pc'[w] # "buy_store"
    BY <1>1 DEF Trading, Buying, Selling
  <1> QED
    BY <1>1, <1>2, InHandOthers

(* The steps before which it trades already, and keeps trading.            *)
LEMMA FullHands ==
  ASSUME TypeOK, LocksExclude, Handed, InHand, NEW w \in Workers,
         \/ BuyLock(w) \/ BuyAccept(w) \/ BuyStore(w) \/ BuyReject(w) \/ BuyPass(w)
         \/ SellLock(w) \/ SellLoad(w) \/ SellStore(w)
  PROVE  InHand'
  <1>1. /\ \A v \in Workers : v # w => /\ pc'[v] = pc[v] /\ connfd'[v] = connfd[v]
                                       /\ idx'[v] = idx[v] /\ reg'[v] = reg[v]
        /\ request' = request /\ connfd'[w] = connfd[w]
        /\ pc[w] \in Trading /\ pc'[w] # "sell_lock"
    <2> USE DEF TypeOK, Goto, Trading, Buying, Selling, clientVars, stockVars, workerVars
    <2>1. CASE BuyLock(w) \/ BuyAccept(w) \/ BuyStore(w) \/ BuyReject(w) \/ BuyPass(w)
      BY <2>1 DEF BuyLock, BuyAccept, BuyStore, BuyReject, BuyPass
    <2>2. CASE SellLock(w) \/ SellLoad(w) \/ SellStore(w)
      BY <2>2 DEF SellLock, SellLoad, SellStore
    <2> QED
      BY <2>1, <2>2
  <1>2. request'[connfd'[w]] = Order(w) /\ Order(w) \in Orders
    BY <1>1 DEF InHand, Order
  <1>3. pc'[w] = "buy_store" => reg'[w] >= Order(w).cnt
    <2> SUFFICES ASSUME pc'[w] = "buy_store" PROVE reg'[w] >= Order(w).cnt
      OBVIOUS
    <2>1. BuyAccept(w)
      BY DEF BuyLock, BuyAccept, BuyStore, BuyReject, BuyPass, SellLock, SellLoad, SellStore,
             Goto, TypeOK
    <2> QED
      BY <2>1 DEF BuyAccept, Enough, TypeOK
  <1> QED
    BY <1>1, <1>2, <1>3, InHandOthers

(* The steps that take an order up.                                        *)
LEMMA TakeUp ==
  ASSUME TypeOK, Handed, InHand, NEW w \in Workers, ReadBuy(w) \/ ReadSell(w)
  PROVE  InHand'
  <1>1. pc[w] = "read" /\ Order(w) # NoOrder
    BY DEF ReadBuy, ReadSell, Asked
  <1>2. Order(w) \in Orders
    BY <1>1 DEF TypeOK, Order, Serving
  <1>3. /\ \A v \in Workers : v # w => /\ pc'[v] = pc[v] /\ connfd'[v] = connfd[v]
                                       /\ idx'[v] = idx[v] /\ reg'[v] = reg[v]
        /\ request' = request /\ connfd'[w] = connfd[w]
    <2>1. /\ pc \in [Workers -> WorkerPC] /\ idx \in [Workers -> 1 .. NumItem + 1]
          /\ reg \in [Workers -> Int]
      BY DEF TypeOK
    <2>2. CASE ReadBuy(w)
      BY <2>1, <2>2 DEF Goto, ReadBuy, clientVars
    <2>3. CASE ReadSell(w)
      BY <2>1, <2>3 DEF Goto, ReadSell, clientVars
    <2> QED
      BY <2>2, <2>3
  <1>4. pc'[w] # "buy_store" /\ (pc'[w] = "sell_lock" => idx'[w] <= NumItem)
    <2>1. pc \in [Workers -> WorkerPC] /\ idx \in [Workers -> 1 .. NumItem + 1]
      BY DEF TypeOK
    <2>2. CASE ReadBuy(w)
      BY <2>1, <2>2 DEF Goto, ReadBuy
    <2>3. CASE ReadSell(w)
      BY <2>1, <2>3 DEF Goto, ReadSell, Items
    <2> QED
      BY <2>2, <2>3
  <1>5. request'[connfd'[w]] = Order(w)
    BY <1>3 DEF Order
  <1> QED
    BY <1>2, <1>3, <1>4, <1>5, InHandOthers

LEMMA InHandStep ==
  ASSUME IInv, [Next]_vars
  PROVE  InHand'
  <1>0. TypeOK /\ LocksExclude /\ Handed /\ InHand
    BY DEF IInv
  <1>1. ASSUME pc' = pc, connfd' = connfd, idx' = idx, reg' = reg, request' = request
        PROVE  InHand'
    BY <1>0, <1>1 DEF InHand, Order
  <1>2. ASSUME NEW c \in Clients, Client(c)
        PROVE  InHand'
    <2>1. CASE Connect(c) \/ Leave(c)
      BY <1>1, <2>1 DEF Connect, Leave, workerVars
    <2>2. ASSUME NEW o \in Orders, Send(c, o)
          PROVE  InHand'
      <3>1. /\ pc' = pc /\ connfd' = connfd /\ idx' = idx /\ reg' = reg
            /\ request[c] = NoOrder
            /\ \A d \in Clients : d # c => request'[d] = request[d]
        BY <1>0, <2>2 DEF Send, TypeOK, workerVars
      <3>2. NoOrder \notin Orders
        BY DEF NoOrder
      <3>3. \A w \in Workers : pc[w] \in Trading =>
               connfd[w] \in Clients /\ request'[connfd[w]] = request[connfd[w]]
        <4> SUFFICES ASSUME NEW w \in Workers, pc[w] \in Trading
                     PROVE  connfd[w] \in Clients /\ connfd[w] # c
          BY <3>1
        <4>1. connfd[w] \in Clients
          BY <1>0 DEF TypeOK, Serving
        <4>2. request[connfd[w]] \in Orders
          BY <1>0 DEF InHand, Order
        <4> QED
          BY <3>1, <3>2, <4>1, <4>2
      <3>4. "buy_store" \in Trading
        BY DEF Trading, Buying
      <3> QED
        BY <1>0, <3>1, <3>3, <3>4 DEF InHand, Order
    <2> QED
      BY <1>2, <2>1, <2>2 DEF Client
  <1>3. CASE Main
    BY <1>1, <1>3 DEF Main, Accept, MainLock, MainInsert, MainLoad, MainCount, MainUnlock,
                      clientVars, workerVars
  <1>4. ASSUME NEW w \in Workers, Worker(w)
        PROVE  InHand'
    BY <1>0, <1>4, EmptyHands, FullHands, TakeUp DEF Worker, Echo, BuySteps, SellSteps
  <1>5. CASE UNCHANGED vars
    BY <1>1, <1>5 DEF vars, clientVars, workerVars
  <1> QED
    BY <1>2, <1>3, <1>4, <1>5 DEF Next

----------------------------------------------------------------------------
(* ConnectionsCounted and Loaded *)

Counted == ConnectionsCounted /\ Loaded

(* HowManyMove as one formula.                                             *)
LEMMA AnyMove ==
  \A S : IsFiniteSet(S) => \A at, after, t, L :
     t \in S /\ (\A x \in S : x # t => after[x] = at[x]) =>
        HowMany(S, after, L) = HowMany(S, at, L) + Share(after[t], L) - Share(at[t], L)
  BY HowManyMove

(* A step of w moves the counts of workers, a new state of a connection    *)
(* the counts of connections.                                              *)
LEMMA WorkerCount ==
  ASSUME TypeOK, NEW w \in Workers, NEW from, NEW to, Goto(w, from, to), NEW L
  PROVE  HowMany(Workers, pc', L) = HowMany(Workers, pc, L) + Share(to, L) - Share(from, L)
  <1>1. pc[w] = from /\ pc'[w] = to /\ \A v \in Workers : v # w => pc'[v] = pc[v]
    BY Moved
  <1>2. HowMany(Workers, pc', L) = HowMany(Workers, pc, L) + Share(pc'[w], L) - Share(pc[w], L)
    <2>1. IsFiniteSet(Workers)
      OBVIOUS
    <2>2. w \in Workers
      OBVIOUS
    <2>3. \A v \in Workers : v # w => pc'[v] = pc[v]
      BY <1>1
    <2> QED
      BY <2>1, <2>2, <2>3, AnyMove
  <1> QED
    BY <1>1, <1>2

LEMMA ConnectedCount ==
  ASSUME TypeOK, NEW c \in Clients, NEW x, conn' = [conn EXCEPT ![c] = x]
  PROVE  HowMany(Clients, conn', Connected)
           = HowMany(Clients, conn, Connected) + Share(x, Connected) - Share(conn[c], Connected)
  <1>1. conn'[c] = x /\ \A d \in Clients : d # c => conn'[d] = conn[d]
    BY DEF TypeOK
  <1>2. HowMany(Clients, conn', Connected)
          = HowMany(Clients, conn, Connected) + Share(conn'[c], Connected) - Share(conn[c], Connected)
    <2>1. IsFiniteSet(Clients)
      OBVIOUS
    <2>2. c \in Clients
      OBVIOUS
    <2>3. \A d \in Clients : d # c => conn'[d] = conn[d]
      BY <1>1
    <2> QED
      BY ONLY <2>1, <2>2, <2>3, AnyMove
  <1> QED
    BY <1>1, <1>2

LEMMA SameCount ==
  ASSUME NEW S, NEW at, NEW after, NEW L, \A x \in S : after[x] \in L <=> at[x] \in L
  PROVE  HowMany(S, after, L) = HowMany(S, at, L)
  <1>1. {x \in S : after[x] \in L} = {x \in S : at[x] \in L}
    OBVIOUS
  <1> QED
    BY <1>1 DEF HowMany

(* A step outside accept, the two critical sections and Close.             *)
LEMMA CountedStay ==
  ASSUME Counted, fd_mutex' = fd_mutex, connfdcnt' = connfdcnt, mpc' = mpc, mreg' = mreg,
         \A w \in Workers : /\ pc'[w] \in Closing <=> pc[w] \in Closing
                            /\ pc'[w] = "close_count" <=> pc[w] = "close_count"
                            /\ pc[w] = "close_count" => reg'[w] = reg[w],
         \A c \in Clients : conn'[c] \in Connected <=> conn[c] \in Connected
  PROVE  Counted'
  <1>1. HowMany(Workers, pc', Closing) = HowMany(Workers, pc, Closing)
    BY SameCount
  <1>2. HowMany(Workers, pc', {"close_count"}) = HowMany(Workers, pc, {"close_count"})
    BY SameCount
  <1>3. HowMany(Clients, conn', {"open", "leaving"}) = HowMany(Clients, conn, {"open", "leaving"})
    BY SameCount DEF Connected
  <1>4. ConnectionsCounted'
    BY <1>1, <1>2, <1>3 DEF Counted, ConnectionsCounted
  <1>5. Loaded'
    BY DEF Counted, Loaded
  <1> QED
    BY <1>4, <1>5 DEF Counted

(* The two equations of ConnectionsCounted with names for the numbers.     *)
LEMMA Balance ==
  /\ ConnectionsCounted <=>
        /\ fd_mutex + HowMany(Workers, pc, Closing) + Share(mpc, Opening) = 1
        /\ connfdcnt + Share(mpc, Uncounted)
             = HowMany(Clients, conn, Connected) + HowMany(Workers, pc, {"close_count"})
  /\ ConnectionsCounted' <=>
        /\ fd_mutex' + HowMany(Workers, pc', Closing) + Share(mpc', Opening) = 1
        /\ connfdcnt' + Share(mpc', Uncounted)
             = HowMany(Clients, conn', Connected) + HowMany(Workers, pc', {"close_count"})
  BY DEF ConnectionsCounted, Connected

(* The steps of main.                                                      *)
LEMMA MainCounts ==
  ASSUME TypeOK, Counted, Main
  PROVE  Counted'
  <1> DEFINE nC  == HowMany(Workers, pc, Closing)
             nC1 == HowMany(Workers, pc', Closing)
             nD  == HowMany(Workers, pc, {"close_count"})
             nD1 == HowMany(Workers, pc', {"close_count"})
             nO  == HowMany(Clients, conn, Connected)
             nO1 == HowMany(Clients, conn', Connected)
  <1>0. /\ nC \in Nat /\ nD \in Nat /\ nO \in Nat
        /\ fd_mutex \in {0, 1} /\ connfdcnt \in Nat
        /\ fd_mutex + nC + Share(mpc, Opening) = 1
        /\ connfdcnt + Share(mpc, Uncounted) = nO + nD
    BY CountTypes, Balance DEF Counted, TypeOK
  <1>1. pc' = pc /\ reg' = reg /\ nC1 = nC /\ nD1 = nD
    BY DEF Main, Accept, MainLock, MainInsert, MainLoad, MainCount, MainUnlock, workerVars
  <1>2. ASSUME NEW c \in Clients, Accept(c)
        PROVE  Counted'
    <2>1. nO1 = nO + 1
      <3>1. nO1 = nO + Share("open", Connected) - Share(conn[c], Connected)
        BY <1>2, ConnectedCount DEF Accept
      <3>2. Share("open", Connected) = 1 /\ Share(conn[c], Connected) = 0
        BY <1>2 DEF Share, Connected, Accept
      <3> QED
        BY <1>0, <3>1, <3>2
    <2>2. /\ mpc = "accept" /\ mpc' = "lock" /\ fd_mutex' = fd_mutex /\ connfdcnt' = connfdcnt
          /\ mreg' = mreg
          /\ Share(mpc, Opening) = 0 /\ Share(mpc', Opening) = 0
          /\ Share(mpc, Uncounted) = 0 /\ Share(mpc', Uncounted) = 1
      BY <1>2 DEF Accept, MainGoto, Share, Opening, Uncounted, countVars
    <2>3. ConnectionsCounted'
      <3> HIDE DEF nC, nC1, nD, nD1, nO, nO1
      <3>1. /\ fd_mutex' + nC1 + Share(mpc', Opening) = 1
            /\ connfdcnt' + Share(mpc', Uncounted) = nO1 + nD1
        BY <1>0, <1>1, <2>1, <2>2
      <3> QED
        BY <3>1, Balance DEF nC1, nD1, nO1
    <2> QED
      BY <1>1, <2>2, <2>3 DEF Counted, Loaded
  <1>3. ASSUME MainLock \/ MainInsert \/ MainLoad \/ MainCount \/ MainUnlock
        PROVE  nO1 = nO
    BY <1>3 DEF MainLock, MainInsert, MainLoad, MainCount, MainUnlock, clientVars
  <1>4. CASE MainLock
    <2>1. /\ mpc = "lock" /\ mpc' = "insert" /\ fd_mutex' = fd_mutex - 1
          /\ connfdcnt' = connfdcnt
          /\ Share(mpc, Opening) = 0 /\ Share(mpc', Opening) = 1
          /\ Share(mpc, Uncounted) = 1 /\ Share(mpc', Uncounted) = 1
      BY <1>4 DEF MainLock, MainGoto, Share, Opening, Uncounted, P
    <2>2. ConnectionsCounted'
      <3> HIDE DEF nC, nC1, nD, nD1, nO, nO1
      <3>1. /\ fd_mutex' + nC1 + Share(mpc', Opening) = 1
            /\ connfdcnt' + Share(mpc', Uncounted) = nO1 + nD1
        BY <1>0, <1>1, <1>3, <1>4, <2>1
      <3> QED
        BY <3>1, Balance DEF nC1, nD1, nO1
    <2> QED
      BY <1>1, <2>1, <2>2 DEF Counted, Loaded
  <1>5. CASE MainInsert \/ MainLoad
    <2>1. /\ mpc' \in {"load", "count"} /\ fd_mutex' = fd_mutex /\ connfdcnt' = connfdcnt
          /\ Share(mpc, Opening) = 1 /\ Share(mpc', Opening) = 1
          /\ Share(mpc, Uncounted) = 1 /\ Share(mpc', Uncounted) = 1
          /\ mpc' = "count" => mreg' = connfdcnt
      BY <1>5 DEF MainInsert, MainLoad, MainGoto, Share, Opening, Uncounted, countVars
    <2>2. ConnectionsCounted'
      <3> HIDE DEF nC, nC1, nD, nD1, nO, nO1
      <3>1. /\ fd_mutex' + nC1 + Share(mpc', Opening) = 1
            /\ connfdcnt' + Share(mpc', Uncounted) = nO1 + nD1
        BY <1>0, <1>1, <1>3, <1>5, <2>1
      <3> QED
        BY <3>1, Balance DEF nC1, nD1, nO1
    <2> QED
      BY <1>1, <2>1, <2>2 DEF Counted, Loaded
  <1>6. CASE MainCount
    <2>1. /\ mpc = "count" /\ mpc' = "unlock" /\ fd_mutex' = fd_mutex
          /\ connfdcnt' = connfdcnt + 1
          /\ Share(mpc, Opening) = 1 /\ Share(mpc', Opening) = 1
          /\ Share(mpc, Uncounted) = 1 /\ Share(mpc', Uncounted) = 0
      BY <1>6 DEF MainCount, MainGoto, Share, Opening, Uncounted, Counted, Loaded
    <2>2. ConnectionsCounted'
      <3> HIDE DEF nC, nC1, nD, nD1, nO, nO1
      <3>1. /\ fd_mutex' + nC1 + Share(mpc', Opening) = 1
            /\ connfdcnt' + Share(mpc', Uncounted) = nO1 + nD1
        BY <1>0, <1>1, <1>3, <1>6, <2>1
      <3> QED
        BY <3>1, Balance DEF nC1, nD1, nO1
    <2>3. \A w \in Workers : pc'[w] # "close_count"
      <3>1. \A w \in Workers : pc[w] \notin Closing
        BY <2>1, OneCounter DEF Counted, Opening
      <3> QED
        BY <1>1, <3>1 DEF Closing
    <2> QED
      BY <2>1, <2>2, <2>3 DEF Counted, Loaded
  <1>7. CASE MainUnlock
    <2>1. /\ mpc = "unlock" /\ mpc' = "accept" /\ fd_mutex' = fd_mutex + 1
          /\ connfdcnt' = connfdcnt
          /\ Share(mpc, Opening) = 1 /\ Share(mpc', Opening) = 0
          /\ Share(mpc, Uncounted) = 0 /\ Share(mpc', Uncounted) = 0
      BY <1>7 DEF MainUnlock, MainGoto, Share, Opening, Uncounted, V
    <2>2. ConnectionsCounted'
      <3> HIDE DEF nC, nC1, nD, nD1, nO, nO1
      <3>1. /\ fd_mutex' + nC1 + Share(mpc', Opening) = 1
            /\ connfdcnt' + Share(mpc', Uncounted) = nO1 + nD1
        BY <1>0, <1>1, <1>3, <1>7, <2>1
      <3> QED
        BY <3>1, Balance DEF nC1, nD1, nO1
    <2> QED
      BY <1>1, <2>1, <2>2 DEF Counted, Loaded
  <1> QED
    BY <1>2, <1>4, <1>5, <1>6, <1>7 DEF Main

(* The critical section of a worker that closes its connection.            *)
LEMMA CloseCounts ==
  ASSUME TypeOK, Handed, Counted, NEW w \in Workers,
         CloseLock(w) \/ Close(w) \/ CloseCount(w) \/ CloseUnlock(w)
  PROVE  Counted'
  <1> DEFINE nC  == HowMany(Workers, pc, Closing)
             nC1 == HowMany(Workers, pc', Closing)
             nD  == HowMany(Workers, pc, {"close_count"})
             nD1 == HowMany(Workers, pc', {"close_count"})
             nO  == HowMany(Clients, conn, Connected)
             nO1 == HowMany(Clients, conn', Connected)
  <1>0. /\ nC \in Nat /\ nD \in Nat /\ nO \in Nat
        /\ fd_mutex \in {0, 1} /\ connfdcnt \in Nat
        /\ fd_mutex + nC + Share(mpc, Opening) = 1
        /\ connfdcnt + Share(mpc, Uncounted) = nO + nD
        /\ Share(mpc, Opening) \in {0, 1} /\ Share(mpc, Uncounted) \in {0, 1}
    BY CountTypes, Balance DEF Counted, TypeOK, Share
  <1>1. mpc' = mpc /\ mreg' = mreg
    BY DEF CloseLock, Close, CloseCount, CloseUnlock, mainVars
  <1>8. Share(mpc', Opening) = Share(mpc, Opening) /\ Share(mpc', Uncounted) = Share(mpc, Uncounted)
    BY <1>1
  <1>2. /\ Share("close_lock", Closing) = 0 /\ Share("close", Closing) = 1
        /\ Share("close_count", Closing) = 1 /\ Share("close_unlock", Closing) = 1
        /\ Share("last_test", Closing) = 0
        /\ Share("close_lock", {"close_count"}) = 0 /\ Share("close", {"close_count"}) = 0
        /\ Share("close_count", {"close_count"}) = 1 /\ Share("close_unlock", {"close_count"}) = 0
        /\ Share("last_test", {"close_count"}) = 0
    BY DEF Share, Closing
  <1>3. CASE CloseLock(w)
    <2>1. Goto(w, "close_lock", "close") /\ nO1 = nO
      BY <1>3 DEF CloseLock, clientVars
    <2>2. nC1 = nC + 1 /\ nD1 = nD
      <3>1. /\ nC1 = nC + Share("close", Closing) - Share("close_lock", Closing)
            /\ nD1 = nD + Share("close", {"close_count"}) - Share("close_lock", {"close_count"})
        BY <2>1, WorkerCount
      <3> HIDE DEF nC, nC1, nD, nD1
      <3> QED
        BY <1>0, <1>2, <3>1
    <2>3. fd_mutex' = fd_mutex - 1 /\ connfdcnt' = connfdcnt /\ reg' = reg
      BY <1>3 DEF CloseLock, P, workerVars
    <2>4. ConnectionsCounted'
      <3> HIDE DEF nC, nC1, nD, nD1, nO, nO1
      <3>1. /\ fd_mutex' + nC1 + Share(mpc', Opening) = 1
            /\ connfdcnt' + Share(mpc', Uncounted) = nO1 + nD1
        BY <1>0, <1>8, <2>1, <2>2, <2>3
      <3> QED
        BY <3>1, Balance DEF nC1, nD1, nO1
    <2>5. \A v \in Workers : pc'[v] = "close_count" => pc[v] = "close_count"
      BY <2>1, Moved
    <2> QED
      BY <1>1, <2>3, <2>4, <2>5 DEF Counted, Loaded
  <1>4. CASE Close(w)
    <2>1. Goto(w, "close", "close_count") /\ fd_mutex' = fd_mutex /\ connfdcnt' = connfdcnt
      BY <1>4 DEF Close, countVars
    <2>2. nC1 = nC /\ nD1 = nD + 1
      <3>1. /\ nC1 = nC + Share("close_count", Closing) - Share("close", Closing)
            /\ nD1 = nD + Share("close_count", {"close_count"}) - Share("close", {"close_count"})
        BY <2>1, WorkerCount
      <3> HIDE DEF nC, nC1, nD, nD1
      <3> QED
        BY <1>0, <1>2, <3>1
    <2>3. nO1 = nO - 1
      <3>1. connfd[w] \in Clients
        BY <2>1 DEF Goto, TypeOK, Serving
      <3>2. conn[connfd[w]] \in Connected
        BY <3>1 DEF Handed
      <3>3. conn' = [conn EXCEPT ![connfd[w]] = "closed"]
        BY <1>4 DEF Close
      <3>4. nO1 = nO + Share("closed", Connected) - Share(conn[connfd[w]], Connected)
        BY <3>1, <3>3, ConnectedCount
      <3>5. Share("closed", Connected) = 0 /\ Share(conn[connfd[w]], Connected) = 1
        BY <3>2 DEF Share, Connected
      <3> HIDE DEF nO, nO1
      <3> QED
        BY <1>0, <3>4, <3>5
    <2>4. ConnectionsCounted'
      <3> HIDE DEF nC, nC1, nD, nD1, nO, nO1
      <3>1. /\ fd_mutex' + nC1 + Share(mpc', Opening) = 1
            /\ connfdcnt' + Share(mpc', Uncounted) = nO1 + nD1
        BY <1>0, <1>8, <2>1, <2>2, <2>3
      <3> QED
        BY <3>1, Balance DEF nC1, nD1, nO1
    <2>5. \A v \in Workers : pc'[v] = "close_count" => reg'[v] = connfdcnt'
      <3>1. reg'[w] = connfdcnt /\ \A v \in Workers : v # w => reg'[v] = reg[v]
        BY <1>4 DEF Close, TypeOK
      <3>2. \A v \in Workers : v # w /\ pc'[v] = "close_count" => reg[v] = connfdcnt
        BY <2>1, Moved DEF Counted, Loaded
      <3> QED
        BY <2>1, <3>1, <3>2
    <2> QED
      BY <1>1, <2>1, <2>4, <2>5 DEF Counted, Loaded
  <1>5. CASE CloseCount(w)
    <2>1. /\ Goto(w, "close_count", "close_unlock") /\ fd_mutex' = fd_mutex /\ nO1 = nO
          /\ connfdcnt' = connfdcnt - 1
      BY <1>5 DEF CloseCount, clientVars, Counted, Loaded, Goto
    <2>2. nC1 = nC /\ nD1 = nD - 1
      <3>1. /\ nC1 = nC + Share("close_unlock", Closing) - Share("close_count", Closing)
            /\ nD1 = nD + Share("close_unlock", {"close_count"})
                        - Share("close_count", {"close_count"})
        BY <2>1, WorkerCount
      <3> HIDE DEF nC, nC1, nD, nD1
      <3> QED
        BY <1>0, <1>2, <3>1
    <2>3. ConnectionsCounted'
      <3> HIDE DEF nC, nC1, nD, nD1, nO, nO1
      <3>1. /\ fd_mutex' = fd_mutex /\ nO1 = nO /\ connfdcnt' = connfdcnt - 1
            /\ nC1 = nC /\ nD1 = nD - 1
        BY <2>1, <2>2
      <3>2. fd_mutex' + nC1 + Share(mpc', Opening) = 1
        BY <1>0, <1>8, <3>1
      <3>3. connfdcnt' + Share(mpc', Uncounted) = nO1 + nD1
        BY <1>0, <1>8, <3>1
      <3> QED
        BY <3>2, <3>3, Balance DEF nC1, nD1, nO1
    <2>4. mpc' # "count" /\ \A v \in Workers : pc'[v] # "close_count"
      <3>1. pc[w] \in Closing
        BY <2>1 DEF Goto, Closing
      <3>2. mpc \notin Opening /\ \A v \in Workers : pc[v] \in Closing => v = w
        BY <3>1, OneCounter DEF Counted
      <3>3. \A v \in Workers : v # w => pc[v] # "close_count"
        BY <3>2 DEF Closing
      <3> QED
        BY <1>1, <2>1, <3>2, <3>3, Moved DEF Opening
    <2> QED
      BY <2>3, <2>4 DEF Counted, Loaded
  <1>6. CASE CloseUnlock(w)
    <2>1. Goto(w, "close_unlock", "last_test") /\ nO1 = nO
      BY <1>6 DEF CloseUnlock, clientVars
    <2>2. nC1 = nC - 1 /\ nD1 = nD
      <3>1. /\ nC1 = nC + Share("last_test", Closing) - Share("close_unlock", Closing)
            /\ nD1 = nD + Share("last_test", {"close_count"}) - Share("close_unlock", {"close_count"})
        BY <2>1, WorkerCount
      <3> HIDE DEF nC, nC1, nD, nD1
      <3> QED
        BY <1>0, <1>2, <3>1
    <2>3. fd_mutex' = fd_mutex + 1 /\ connfdcnt' = connfdcnt /\ reg' = reg
      BY <1>6 DEF CloseUnlock, V, workerVars
    <2>4. ConnectionsCounted'
      <3> HIDE DEF nC, nC1, nD, nD1, nO, nO1
      <3>1. /\ fd_mutex' + nC1 + Share(mpc', Opening) = 1
            /\ connfdcnt' + Share(mpc', Uncounted) = nO1 + nD1
        BY <1>0, <1>8, <2>1, <2>2, <2>3
      <3> QED
        BY <3>1, Balance DEF nC1, nD1, nO1
    <2>5. \A v \in Workers : pc'[v] = "close_count" => pc[v] = "close_count"
      BY <2>1, Moved
    <2> QED
      BY <1>1, <2>3, <2>4, <2>5 DEF Counted, Loaded
  <1> QED
    BY <1>3, <1>4, <1>5, <1>6

(* All other steps of a worker leave fd_mutex and connfdcnt alone.         *)
LEMMA OtherCounts ==
  ASSUME TypeOK, Counted, NEW w \in Workers,
         \/ Remove(w) \/ Echo(w) \/ BuySteps(w) \/ SellSteps(w) \/ SaveSteps(w)
         \/ NotLast(w) \/ Last(w)
  PROVE  Counted'
  <1>1. /\ fd_mutex' = fd_mutex /\ connfdcnt' = connfdcnt /\ conn' = conn
        /\ mpc' = mpc /\ mreg' = mreg
        /\ \A v \in Workers : v # w => pc'[v] = pc[v] /\ reg'[v] = reg[v]
        /\ pc[w] \notin Closing /\ pc'[w] \notin Closing
    <2> USE DEF TypeOK, Goto, Closing, clientVars, mainVars, countVars, workerVars
    <2>1. CASE Remove(w) \/ ReadBuy(w) \/ ReadSell(w) \/ ReadSellUnlisted(w) \/ ReadShow(w)
      BY <2>1 DEF Remove, ReadBuy, ReadSell, ReadSellUnlisted, ReadShow
    <2>2. CASE ReadEnd(w) \/ Write(w) \/ BuyLock(w) \/ BuyAccept(w) \/ BuyStore(w)
      BY <2>2 DEF ReadEnd, Write, BuyLock, BuyAccept, BuyStore
    <2>3. CASE BuyUnlock(w) \/ BuyReject(w) \/ BuyPass(w) \/ BuyEnd(w)
      BY <2>3 DEF BuyUnlock, BuyReject, BuyPass, BuyEnd
    <2>4. CASE SellSteps(w)
      BY <2>4 DEF SellSteps, SellLock, SellLoad, SellStore, SellUnlock
    <2>5. CASE SaveSteps(w) \/ NotLast(w) \/ Last(w)
      BY <2>5 DEF SaveSteps, SaveOpen, SaveOpenFails, SaveItem, SaveClose, NotLast, Last
    <2> QED
      BY <2>1, <2>2, <2>3, <2>4, <2>5 DEF Echo, BuySteps
  <1>2. \A v \in Workers : /\ pc'[v] \in Closing <=> pc[v] \in Closing
                           /\ pc'[v] = "close_count" <=> pc[v] = "close_count"
                           /\ pc[v] = "close_count" => reg'[v] = reg[v]
    BY <1>1 DEF Closing
  <1> QED
    BY <1>1, <1>2, CountedStay

LEMMA CountStep ==
  ASSUME IInv, [Next]_vars
  PROVE  Counted'
  <1>0. TypeOK /\ Handed /\ Counted
    BY DEF IInv, Counted
  <1>1. ASSUME NEW c \in Clients, Client(c)
        PROVE  Counted'
    <2>1. /\ \A d \in Clients : conn'[d] \in Connected <=> conn[d] \in Connected
          /\ pc' = pc /\ reg' = reg /\ mpc' = mpc /\ mreg' = mreg
          /\ fd_mutex' = fd_mutex /\ connfdcnt' = connfdcnt
      BY <1>0, <1>1 DEF Client, Connect, Send, Leave, TypeOK, Connected, mainVars, countVars,
                        workerVars
    <2> QED
      BY <1>0, <2>1, CountedStay
  <1>2. CASE Main
    BY <1>0, <1>2, MainCounts
  <1>3. ASSUME NEW w \in Workers, Worker(w)
        PROVE  Counted'
    BY <1>0, <1>3, CloseCounts, OtherCounts DEF Worker, CloseSteps
  <1>4. CASE UNCHANGED vars
    BY <1>0, <1>4, CountedStay DEF vars, clientVars, mainVars, countVars, workerVars
  <1> QED
    BY <1>1, <1>2, <1>3, <1>4 DEF Next

----------------------------------------------------------------------------
(* Theorems *)

(* The inductive invariant: the types, the locks of the table, who has     *)
(* which connection, and what each thread has loaded.                      *)
THEOREM IInvHolds == Spec => []IInv
  <1>1. IInv /\ [Next]_vars => IInv'
    BY TypeStep, LockStep, HandStep, InHandStep, CountStep DEF IInv, Counted
  <1> QED
    BY InitIInv, <1>1, PTL DEF Spec

(* Type correctness: in particular no semaphore exceeds 1 and connfdcnt    *)
(* never becomes negative, whatever the workers do at the same time.       *)
THEOREM TypeCorrect == Spec => []TypeOK
  <1>1. IInv => TypeOK
    BY DEF IInv
  <1> QED
    BY IInvHolds, <1>1, PTL

(* P and V on the mutex of an entry keep every other trader away, what is  *)
(* written back was computed from the value it replaces, and a purchase is *)
(* still covered by the entry when it is written.                          *)
THEOREM LocksHold == Spec => []EntryLocks
  <1>1. IInv => EntryLocks
    BY DEF IInv, TypeOK, InHand, LocksExclude, BuysCovered, EntryLocks
  <1> QED
    BY IInvHolds, <1>1, PTL

(* connfdcnt loses no increment and no decrement.                          *)
THEOREM CountExact == Spec => []ConnectionsCounted
  <1>1. IInv => ConnectionsCounted
    BY DEF IInv
  <1> QED
    BY IInvHolds, <1>1, PTL

(* The owners of a connection, when the connections are handed on.         *)
LEMMA HandedOneOwner ==
  ASSUME TypeOK, Handed
  PROVE  OneOwner
  <1> SUFFICES ASSUME NEW c \in Clients
               PROVE  Cardinality(Owners(c)) = IF conn[c] \in Connected THEN 1 ELSE 0
    BY DEF OneOwner, Connected
  <1>1. DOMAIN queue = 1 .. Len(queue)
    BY DEF TypeOK
  <1>2. \A o : o \in Owners(c) <=> \/ o = <<"main", 0>> /\ Holding /\ mfd = c
                                   \/ \E k \in 1 .. Len(queue) : o = <<"queue", k>> /\ queue[k] = c
                                   \/ \E w \in Workers : o = <<"worker", w>> /\ connfd[w] = c
    BY <1>1 DEF Owners, Holding
  <1>3. CASE conn[c] \notin Connected
    <2>1. Owners(c) = {}
      BY <1>2, <1>3 DEF Handed
    <2> QED
      BY <1>3, <2>1, FS_EmptySet
  <1>4. CASE conn[c] \in Connected
    <2>1. \E o : Owners(c) = {o}
      <3>1. CASE Holding /\ mfd = c
        <4>1. /\ \A k \in 1 .. Len(queue) : queue[k] # c
              /\ \A w \in Workers : connfd[w] # c
          BY <3>1 DEF Handed
        <4>2. \A o : o \in Owners(c) <=> o = <<"main", 0>>
          BY <1>2, <3>1, <4>1
        <4>3. Owners(c) = {<<"main", 0>>}
          BY <4>2
        <4> QED
          BY <4>3
      <3>2. ASSUME NEW k \in 1 .. Len(queue), queue[k] = c
            PROVE  Owners(c) = {<<"queue", k>>}
        <4>1. /\ ~(Holding /\ mfd = c)
              /\ \A w \in Workers : connfd[w] # c
              /\ \A j \in 1 .. Len(queue) : queue[j] = c => j = k
          BY <3>2 DEF Handed
        <4> QED
          BY <1>2, <3>2, <4>1
      <3>3. ASSUME NEW w \in Workers, connfd[w] = c
            PROVE  Owners(c) = {<<"worker", w>>}
        <4>1. /\ ~(Holding /\ mfd = c)
              /\ \A k \in 1 .. Len(queue) : queue[k] # c
              /\ \A v \in Workers : connfd[v] = c => v = w
          BY <3>3 DEF Handed
        <4> QED
          BY <1>2, <3>3, <4>1
      <3> QED
        BY <1>4, <3>1, <3>2, <3>3 DEF Handed
    <2> QED
      BY <1>4, <2>1, FS_Singleton
  <1> QED
    BY <1>3, <1>4

(* No connection is dropped between accept and the worker that serves it,  *)
(* none is served by two workers or closed twice.                          *)
THEOREM ConnectionsOwned == Spec => []OneOwner
  <1>1. IInv => OneOwner
    BY HandedOneOwner DEF IInv
  <1> QED
    BY IInvHolds, <1>1, PTL

----------------------------------------------------------------------------
(***************************************************************************)
(* The thread-based server implements module StockExchange: whatever the   *)
(* number of clients, workers, entries and orders, and however the workers *)
(* interleave, every order takes effect in one step between the moment it  *)
(* is sent and the moment it is answered.                                  *)
(***************************************************************************)


(* What a worker knows of the order it serves at each point of its code.   *)
Ready(w) ==
    /\ pc[w] \in Buying => Order(w).op = "buy"
    /\ pc[w] \in Selling => /\ Order(w).op = "sell"
                            /\ idx[w] \in Items /\ ID[idx[w]] = Order(w).id
    /\ pc[w] \in {"buy_store", "buy_unlock"} => ID[idx[w]] = Order(w).id
    /\ pc[w] = "write" => Order(w) \in Orders /\ ret[w] # "none"

AllReady == \A w \in Workers : Ready(w)

RInv == IInv /\ AllReady

(* The answers of the exchange as the server stands.                       *)
Answers == [c \in Clients |-> IF \E w \in Workers : connfd[w] = c
                              THEN Outcome(CHOOSE w \in Workers : connfd[w] = c)
                              ELSE "none"]

Scanning == {"buy_scan", "buy_test", "buy_pass"}
\* Where an order may have taken effect without being answered.
Settling == Scanning \cup {"write", "buy_unlock", "sell_unlock"}

----------------------------------------------------------------------------
(* What a step of w leaves alone *)

(* The other workers, and the orders they serve, stay as they are.         *)
Others(w) == \A v \in Workers : v # w =>
    /\ pc'[v] = pc[v] /\ connfd'[v] = connfd[v] /\ idx'[v] = idx[v] /\ ret'[v] = ret[v]
    /\ connfd[v] \in Clients => request'[connfd[v]] = request[connfd[v]]

LEMMA WorkerFrame ==
  ASSUME TypeOK, Handed, NEW w \in Workers, Worker(w)
  PROVE  Others(w)
  <1> DEFINE Frame == \A v \in Workers : v # w =>
                 pc'[v] = pc[v] /\ connfd'[v] = connfd[v] /\ idx'[v] = idx[v] /\ ret'[v] = ret[v]
  <1>1. Frame
    <2> USE DEF TypeOK, Goto, stockVars, workerVars
    <2>1. CASE Remove(w) \/ ReadBuy(w) \/ ReadSell(w) \/ ReadSellUnlisted(w) \/ ReadShow(w)
      BY <2>1 DEF Remove, ReadBuy, ReadSell, ReadSellUnlisted, ReadShow
    <2>2. CASE ReadEnd(w) \/ Write(w) \/ BuyLock(w) \/ BuyAccept(w) \/ BuyStore(w)
      BY <2>2 DEF ReadEnd, Write, BuyLock, BuyAccept, BuyStore
    <2>3. CASE BuyUnlock(w) \/ BuyReject(w) \/ BuyPass(w) \/ BuyEnd(w)
      BY <2>3 DEF BuyUnlock, BuyReject, BuyPass, BuyEnd
    <2>4. CASE SellSteps(w)
      BY <2>4 DEF SellSteps, SellLock, SellLoad, SellStore, SellUnlock
    <2>5. CASE CloseLock(w) \/ Close(w) \/ CloseCount(w)
      BY <2>5 DEF CloseLock, Close, CloseCount
    <2>6. CASE CloseUnlock(w) \/ NotLast(w) \/ Last(w)
      BY <2>6 DEF CloseUnlock, NotLast, Last
    <2>7. CASE SaveOpen(w) \/ SaveOpenFails(w)
      BY <2>7 DEF SaveOpen, SaveOpenFails
    <2>8. CASE SaveItem(w) \/ SaveClose(w)
      BY <2>8 DEF SaveItem, SaveClose
    <2> QED
      BY <2>1, <2>2, <2>3, <2>4, <2>5, <2>6, <2>7, <2>8
         DEF Worker, Echo, BuySteps, CloseSteps, SaveSteps
  <1>2. CASE Write(w)
    <2>1. request' = [request EXCEPT ![connfd[w]] = NoOrder]
      BY <1>2 DEF Write
    <2>2. \A v \in Workers : v # w /\ connfd[v] \in Clients => connfd[v] # connfd[w]
      BY DEF Handed
    <2>3. \A v \in Workers : v # w /\ connfd[v] \in Clients =>
             request'[connfd[v]] = request[connfd[v]]
      BY <2>1, <2>2 DEF TypeOK
    <2> QED
      BY <1>1, <2>3 DEF Others
  <1>3. CASE ~Write(w)
    <2>1. request' = request
      <3> USE DEF clientVars
      <3>1. CASE Remove(w) \/ Echo(w)
        BY <1>3, <3>1 DEF Remove, Echo, ReadBuy, ReadSell, ReadSellUnlisted, ReadShow, ReadEnd
      <3>2. CASE BuySteps(w)
        BY <3>2 DEF BuySteps, BuyLock, BuyAccept, BuyStore, BuyUnlock, BuyReject, BuyPass, BuyEnd
      <3>3. CASE SellSteps(w)
        BY <3>3 DEF SellSteps, SellLock, SellLoad, SellStore, SellUnlock
      <3>4. CASE CloseSteps(w)
        BY <3>4 DEF CloseSteps, CloseLock, Close, CloseCount, CloseUnlock, NotLast, Last
      <3>5. CASE SaveSteps(w)
        BY <3>5 DEF SaveSteps, SaveOpen, SaveOpenFails, SaveItem, SaveClose
      <3> QED
        BY <3>1, <3>2, <3>3, <3>4, <3>5 DEF Worker
    <2> QED
      BY <1>1, <2>1 DEF Others
  <1> QED
    BY <1>2, <1>3

(* What holds of the order of another worker goes on holding, and the      *)
(* exchange sees the same outcome.                                         *)
LEMMA OthersReady ==
  ASSUME TypeOK, Handed, NEW w, Others(w), NEW v \in Workers, v # w
  PROVE  /\ Ready(v) => Ready(v)'
         /\ Outcome(v)' = Outcome(v)
  <1>1. pc'[v] = pc[v] /\ connfd'[v] = connfd[v] /\ idx'[v] = idx[v] /\ ret'[v] = ret[v]
    BY DEF Others
  <1>2. pc[v] \in Serving => Order(v)' = Order(v)
    BY DEF Others, Handed, Order
  <1>3. Trading \subseteq Serving /\ "write" \in Serving
    BY DEF Serving
  <1>4. Ready(v) => Ready(v)'
    <2>1. pc[v] \in Buying \/ pc[v] \in Selling \/ pc[v] = "write" => Order(v)' = Order(v)
      BY <1>2, <1>3 DEF Trading
    <2>2. pc[v] \in {"buy_store", "buy_unlock"} => pc[v] \in Buying
      BY DEF Buying
    <2> HIDE DEF Buying, Selling
    <2> QED
      BY <1>1, <2>1, <2>2 DEF Ready
  <1>5. Outcome(v)' = Outcome(v)
    <2>1. pc[v] \in Scanning => (Hopeless(v)' <=> Hopeless(v))
      <3>1. pc[v] \in Scanning => pc[v] \in Serving
        BY <1>3 DEF Scanning, Trading, Buying
      <3> QED
        BY <1>1, <1>2, <3>1 DEF Hopeless
    <2> QED
      BY <1>1, <2>1 DEF Outcome, Scanning
  <1> QED
    BY <1>4, <1>5

----------------------------------------------------------------------------
(* AllReady is inductive *)

LEMMA EchoReady ==
  ASSUME RInv, NEW w \in Workers, Remove(w) \/ Echo(w)
  PROVE  Ready(w)'
  <1> USE DEF Buying, Selling
  <1>0. TypeOK
    BY DEF RInv, IInv
  <1>1. pc[w] = "read" /\ Order(w) # NoOrder => Order(w) \in Orders
    BY <1>0 DEF TypeOK, Order, Serving
  <1>2. CASE Remove(w) \/ ReadEnd(w) \/ Write(w)
    <2>1. pc'[w] \in {"read", "close_lock"}
      BY <1>0, <1>2 DEF Remove, ReadEnd, Write, Goto, TypeOK
    <2> QED
      BY <2>1 DEF Ready
  <1>3. CASE ReadBuy(w)
    <2>1. pc'[w] = "buy_scan" /\ Order(w)' = Order(w) /\ Order(w).op = "buy"
      BY <1>0, <1>3 DEF ReadBuy, Goto, TypeOK, Order, clientVars
    <2> QED
      BY <2>1 DEF Ready
  <1>4. CASE ReadSell(w)
    <2>1. PICK i \in Items : /\ ID[i] = Order(w).id /\ Goto(w, "read", "sell_lock")
                             /\ idx' = [idx EXCEPT ![w] = i]
      BY <1>4 DEF ReadSell
    <2>2. pc'[w] = "sell_lock" /\ idx'[w] = i
      BY <1>0, <2>1 DEF Goto, TypeOK
    <2>3. Order(w)' = Order(w) /\ Order(w).op = "sell"
      BY <1>4 DEF ReadSell, Order, clientVars
    <2> QED
      BY <2>1, <2>2, <2>3 DEF Ready
  <1>5. CASE ReadSellUnlisted(w) \/ ReadShow(w)
    <2>1. /\ pc[w] = "read" /\ Order(w) # NoOrder /\ pc'[w] = "write" /\ ret'[w] # "none"
          /\ Order(w)' = Order(w)
      BY <1>0, <1>5 DEF ReadSellUnlisted, ReadShow, Asked, Goto, TypeOK, Order, clientVars
    <2> QED
      BY <1>1, <2>1 DEF Ready
  <1> QED
    BY <1>2, <1>3, <1>4, <1>5 DEF Echo

LEMMA TradeReady ==
  ASSUME RInv, NEW w \in Workers, BuySteps(w) \/ SellSteps(w)
  PROVE  Ready(w)'
  <1> USE DEF Buying, Selling
  <1>0. TypeOK /\ InHand /\ Ready(w)
    BY DEF RInv, IInv, AllReady
  <1>1. connfd' = connfd /\ request' = request
    BY DEF BuySteps, BuyLock, BuyAccept, BuyStore, BuyUnlock, BuyReject, BuyPass, BuyEnd,
           SellSteps, SellLock, SellLoad, SellStore, SellUnlock, clientVars, workerVars
  <1>2. Order(w)' = Order(w)
    BY <1>1 DEF Order
  <1>3. CASE BuyLock(w) \/ BuyReject(w) \/ BuyPass(w)
    <2>1. pc[w] \in Buying /\ pc'[w] \in Scanning
      BY <1>0, <1>3 DEF BuyLock, BuyReject, BuyPass, Goto, TypeOK, Scanning
    <2> QED
      BY <1>0, <1>2, <2>1 DEF Ready, Scanning
  <1>4. CASE BuyAccept(w)
    <2>1. /\ pc[w] = "buy_test" /\ pc'[w] = "buy_store" /\ idx' = idx
          /\ ID[idx[w]] = Order(w).id
      BY <1>0, <1>4 DEF BuyAccept, Enough, Goto, TypeOK
    <2> QED
      BY <1>0, <1>2, <2>1 DEF Ready
  <1>5. CASE BuyStore(w)
    <2>1. pc[w] = "buy_store" /\ pc'[w] = "buy_unlock" /\ idx' = idx
      BY <1>0, <1>5 DEF BuyStore, Goto, TypeOK, workerVars
    <2> QED
      BY <1>0, <1>2, <2>1 DEF Ready
  <1>6. CASE BuyUnlock(w) \/ BuyEnd(w) \/ SellUnlock(w)
    <2>1. pc[w] \in Trading /\ pc'[w] = "write" /\ ret'[w] # "none"
      BY <1>0, <1>6 DEF BuyUnlock, BuyEnd, SellUnlock, Goto, TypeOK, Trading
    <2>2. Order(w) \in Orders
      BY <1>0, <2>1 DEF InHand
    <2> QED
      BY <1>2, <2>1, <2>2 DEF Ready
  <1>7. CASE SellLock(w) \/ SellLoad(w) \/ SellStore(w)
    <2>1. pc[w] \in Selling /\ pc'[w] \in Selling /\ idx' = idx
      BY <1>0, <1>7 DEF SellLock, SellLoad, SellStore, Goto, TypeOK, workerVars
    <2> QED
      BY <1>0, <1>2, <2>1 DEF Ready
  <1> QED
    BY <1>3, <1>4, <1>5, <1>6, <1>7 DEF BuySteps, SellSteps

LEMMA EndReady ==
  ASSUME RInv, NEW w \in Workers, CloseSteps(w) \/ SaveSteps(w)
  PROVE  Ready(w)'
  <1>1. pc'[w] \notin Settling /\ pc'[w] \notin Trading /\ pc'[w] # "write"
    <2> USE DEF RInv, IInv, TypeOK, Goto, Settling, Scanning, Trading, Buying, Selling
    <2>1. CASE CloseLock(w) \/ Close(w) \/ CloseCount(w)
      BY <2>1 DEF CloseLock, Close, CloseCount
    <2>2. CASE CloseUnlock(w) \/ NotLast(w) \/ Last(w)
      BY <2>2 DEF CloseUnlock, NotLast, Last
    <2>3. CASE SaveOpen(w) \/ SaveOpenFails(w)
      BY <2>3 DEF SaveOpen, SaveOpenFails
    <2>4. CASE SaveItem(w) \/ SaveClose(w)
      BY <2>4 DEF SaveItem, SaveClose
    <2> QED
      BY <2>1, <2>2, <2>3, <2>4 DEF CloseSteps, SaveSteps
  <1> QED
    BY <1>1 DEF Ready, Trading, Buying

LEMMA ReadyStep ==
  ASSUME RInv, [Next]_vars
  PROVE  AllReady'
  <1>0. TypeOK /\ Handed /\ InHand /\ AllReady
    BY DEF RInv, IInv
  <1>1. ASSUME pc' = pc, connfd' = connfd, idx' = idx, ret' = ret, request' = request
        PROVE  AllReady'
    BY <1>0, <1>1 DEF AllReady, Ready, Order
  <1>2. ASSUME NEW c \in Clients, NEW o \in Orders, Send(c, o)
        PROVE  AllReady'
    <2> SUFFICES ASSUME NEW w \in Workers PROVE Ready(w)'
      BY DEF AllReady
    <2>1. pc' = pc /\ connfd' = connfd /\ idx' = idx /\ ret' = ret
      BY <1>2 DEF Send, workerVars
    <2>2. CASE pc[w] \in Trading \/ pc[w] = "write"
      <3>1. connfd[w] \in Clients /\ Order(w) \in Orders
        BY <1>0, <2>2 DEF TypeOK, Serving, InHand, AllReady, Ready
      <3>2. connfd[w] # c
        <4>1. request[c] = NoOrder /\ NoOrder \notin Orders
          BY <1>2 DEF Send, NoOrder
        <4> QED
          BY <3>1, <4>1 DEF Order
      <3>3. Order(w)' = Order(w)
        BY <1>0, <1>2, <2>1, <3>1, <3>2 DEF Send, Order, TypeOK
      <3>4. Ready(w)
        BY <1>0 DEF AllReady
      <3> QED
        BY <2>1, <3>3, <3>4 DEF Ready
    <2>3. CASE pc[w] \notin Trading /\ pc[w] # "write"
      BY <2>1, <2>3 DEF Ready, Trading, Buying
    <2> QED
      BY <2>2, <2>3
  <1>3. ASSUME NEW c \in Clients, Client(c)
        PROVE  AllReady'
    BY <1>1, <1>2, <1>3 DEF Client, Connect, Leave, workerVars
  <1>4. CASE Main
    BY <1>1, <1>4 DEF Main, Accept, MainLock, MainInsert, MainLoad, MainCount, MainUnlock,
                      clientVars, workerVars
  <1>5. ASSUME NEW w \in Workers, Worker(w)
        PROVE  AllReady'
    <2>1. Ready(w)'
      BY <1>5, EchoReady, TradeReady, EndReady DEF Worker
    <2>2. \A v \in Workers : v # w => Ready(v)'
      BY <1>0, <1>5, WorkerFrame, OthersReady DEF AllReady
    <2> QED
      BY <2>1, <2>2 DEF AllReady
  <1>6. CASE UNCHANGED vars
    BY <1>1, <1>6 DEF vars, clientVars, workerVars
  <1> QED
    BY <1>3, <1>4, <1>5, <1>6 DEF Next

----------------------------------------------------------------------------
(* What the exchange sees *)

(* A function that takes the value f[w] nowhere else points back to w.     *)
LEMMA Chosen ==
  ASSUME NEW S, NEW f, NEW w \in S, NEW c, f[w] = c, \A v \in S : f[v] = c => v = w
  PROVE  (CHOOSE v \in S : f[v] = c) = w
  OBVIOUS

Outcomes == [w \in Workers |-> Outcome(w)]

(* The answer for a client is the outcome its worker stands at.            *)
LEMMA AnswersNow ==
  ASSUME Handed
  PROVE  /\ \A w \in Workers : connfd[w] \in Clients => Answers[connfd[w]] = Outcome(w)
         /\ \A c \in Clients : (\A w \in Workers : connfd[w] # c) => Answers[c] = "none"
  <1>1. Answers = [c \in Clients |-> IF \E w \in Workers : connfd[w] = c
                                     THEN Outcomes[CHOOSE w \in Workers : connfd[w] = c]
                                     ELSE "none"]
    BY DEF Answers, Outcomes
  <1>2. ASSUME NEW w \in Workers, connfd[w] \in Clients
        PROVE  Answers[connfd[w]] = Outcome(w)
    <2>1. (CHOOSE v \in Workers : connfd[v] = connfd[w]) = w
      BY <1>2, Chosen DEF Handed
    <2>2. Outcomes[w] = Outcome(w)
      BY DEF Outcomes
    <2> QED
      BY <1>1, <1>2, <2>1, <2>2
  <1> QED
    BY <1>1, <1>2

LEMMA AnswersNext ==
  ASSUME Handed'
  PROVE  /\ \A w \in Workers : connfd'[w] \in Clients => Answers'[connfd'[w]] = Outcome(w)'
         /\ \A c \in Clients : (\A w \in Workers : connfd'[w] # c) => Answers'[c] = "none"
  <1>1. Answers' = [c \in Clients |-> IF \E w \in Workers : connfd'[w] = c
                                      THEN Outcomes'[CHOOSE w \in Workers : connfd'[w] = c]
                                      ELSE "none"]
    BY DEF Answers, Outcomes
  <1>2. ASSUME NEW w \in Workers, connfd'[w] \in Clients
        PROVE  Answers'[connfd'[w]] = Outcome(w)'
    <2>1. (CHOOSE v \in Workers : connfd'[v] = connfd'[w]) = w
      BY <1>2, Chosen DEF Handed
    <2>2. Outcomes'[w] = Outcome(w)'
      BY DEF Outcomes
    <2> QED
      BY <1>1, <1>2, <2>1, <2>2
  <1> QED
    BY <1>1, <1>2

LEMMA AnswersDomain ==
  /\ Answers = [c \in Clients |-> Answers[c]]
  /\ Answers' = [c \in Clients |-> Answers'[c]]
  BY DEF Answers

(* A step of w that keeps its connection changes at most the answer of the *)
(* client it serves.                                                       *)
LEMMA OwnAnswer ==
  ASSUME TypeOK, Handed, Handed', NEW w \in Workers, Worker(w),
         connfd' = connfd, connfd[w] \in Clients
  PROVE  /\ Answers[connfd[w]] = Outcome(w)
         /\ Answers' = [Answers EXCEPT ![connfd[w]] = Outcome(w)']
  <1>1. Answers[connfd[w]] = Outcome(w) /\ Answers'[connfd[w]] = Outcome(w)'
    BY AnswersNow, AnswersNext
  <1>2. ASSUME NEW d \in Clients, d # connfd[w]
        PROVE  Answers'[d] = Answers[d]
    <2>1. CASE \E v \in Workers : connfd[v] = d
      <3>1. PICK v \in Workers : connfd[v] = d
        BY <2>1
      <3>2. v # w
        BY <1>2, <3>1
      <3>3. Outcome(v)' = Outcome(v)
        BY <3>2, WorkerFrame, OthersReady
      <3>4. Answers[d] = Outcome(v) /\ Answers'[d] = Outcome(v)'
        BY <3>1, AnswersNow, AnswersNext
      <3> QED
        BY <3>3, <3>4
    <2>2. CASE ~ \E v \in Workers : connfd[v] = d
      BY <2>2, AnswersNow, AnswersNext
    <2> QED
      BY <2>1, <2>2
  <1> QED
    BY <1>1, <1>2, AnswersDomain

(* The steps of the exchange in terms of the server.                       *)
LEMMA ExchangeAsk ==
  ASSUME NEW c \in Clients, NEW o \in Orders, request[c] = NoOrder,
         request' = [request EXCEPT ![c] = o], left' = left, Answers' = Answers
  PROVE  Exchange!Next
  BY DEF Exchange!Next, Exchange!Ask, Exchange!NoOrder, NoOrder, Answers

LEMMA ExchangeExecute ==
  ASSUME NEW c \in Clients, request[c] # NoOrder, Answers[c] = "none", request' = request,
         NEW out, Answers' = [Answers EXCEPT ![c] = out],
         \/ \E i \in Items : /\ request[c].op = "buy" /\ out = "bought"
                             /\ ID[i] = request[c].id /\ left[i] >= request[c].cnt
                             /\ left' = [left EXCEPT ![i] = @ - request[c].cnt]
         \/ \E i \in Items : /\ request[c].op = "sell" /\ out = "sold"
                             /\ ID[i] = request[c].id
                             /\ left' = [left EXCEPT ![i] = @ + request[c].cnt]
         \/ /\ request[c].op = "buy" /\ out = "not_enough" /\ left' = left
            /\ \A i \in Items : ID[i] = request[c].id => left[i] < request[c].cnt
         \/ /\ request[c].op = "sell" /\ out = "sold" /\ left' = left
            /\ \A i \in Items : ID[i] # request[c].id
         \/ request[c].op = "show" /\ out = "shown" /\ left' = left
  PROVE  Exchange!Next
  <1>1. Exchange!Execute(c)
    BY DEF Exchange!Execute, Exchange!Buy, Exchange!Sell, Exchange!Refuse, Exchange!SellUnlisted,
           Exchange!Show, Exchange!NoOrder, NoOrder, Answers
  <1> QED
    BY <1>1 DEF Exchange!Next

LEMMA ExchangeReply ==
  ASSUME NEW c \in Clients, Answers[c] # "none", left' = left,
         request' = [request EXCEPT ![c] = NoOrder], Answers' = [Answers EXCEPT ![c] = "none"]
  PROVE  Exchange!Next
  BY DEF Exchange!Next, Exchange!Reply, Exchange!NoOrder, NoOrder, Answers

LEMMA ExchangeStutter ==
  ASSUME left' = left, request' = request, Answers' = Answers
  PROVE  UNCHANGED Exchange!vars
  BY DEF Exchange!vars, Answers

----------------------------------------------------------------------------
(* Every step of the server is a step of the exchange or leaves it *)

(* A step of w that leaves stock, lines and the outcome of w alone.        *)
LEMMA QuietStep ==
  ASSUME TypeOK, Handed, Handed', NEW w \in Workers, Worker(w), left' = left,
         request' = request, connfd' = connfd, Outcome(w)' = Outcome(w)
  PROVE  UNCHANGED Exchange!vars
  <1>1. Answers' = Answers
    <2>1. CASE connfd[w] \in Clients
      <3>1. Answers' = [Answers EXCEPT ![connfd[w]] = Answers[connfd[w]]]
        BY <2>1, OwnAnswer
      <3> QED
        BY <3>1, AnswersDomain
    <2>2. CASE connfd[w] \notin Clients
      <3>1. ASSUME NEW d \in Clients
            PROVE  Answers'[d] = Answers[d]
        <4>1. CASE \E v \in Workers : connfd[v] = d
          <5>1. PICK v \in Workers : connfd[v] = d
            BY <4>1
          <5>2. v # w
            BY <2>2, <5>1
          <5>3. Outcome(v)' = Outcome(v)
            BY <5>2, WorkerFrame, OthersReady
          <5>4. Answers[d] = Outcome(v) /\ Answers'[d] = Outcome(v)'
            BY <5>1, AnswersNow, AnswersNext
          <5> QED
            BY <5>3, <5>4
        <4>2. CASE ~ \E v \in Workers : connfd[v] = d
          BY <4>2, AnswersNow, AnswersNext
        <4> QED
          BY <4>1, <4>2
      <3> QED
        BY <3>1, AnswersDomain
    <2> QED
      BY <2>1, <2>2
  <1> QED
    BY <1>1, ExchangeStutter

(* A worker takes a connection, or gives it up: there is no answer yet, or *)
(* none any more.                                                          *)
LEMMA HandOverStep ==
  ASSUME RInv, Handed', NEW w \in Workers, Remove(w) \/ Close(w)
  PROVE  UNCHANGED Exchange!vars
  <1>0. TypeOK /\ Handed /\ Worker(w)
    BY DEF RInv, IInv, Worker, CloseSteps
  <1>1. left' = left /\ request' = request
    BY DEF Remove, Close, clientVars, stockVars
  <1>2. Outcome(w) = "none" /\ Outcome(w)' = "none"
    BY <1>0 DEF Remove, Close, Goto, TypeOK, Outcome
  <1>3. ASSUME NEW d \in Clients
        PROVE  Answers'[d] = Answers[d]
    <2>1. CASE \E v \in Workers : v # w /\ connfd[v] = d
      <3>1. PICK v \in Workers : v # w /\ connfd[v] = d
        BY <2>1
      <3>2. Outcome(v)' = Outcome(v) /\ connfd'[v] = connfd[v]
        BY <1>0, <3>1, WorkerFrame, OthersReady DEF Others
      <3>3. Answers[d] = Outcome(v) /\ Answers'[d] = Outcome(v)'
        BY <1>0, <3>1, <3>2, AnswersNow, AnswersNext
      <3> QED
        BY <3>2, <3>3
    <2>2. CASE \A v \in Workers : v # w => connfd[v] # d
      <3>1. Answers[d] = "none"
        BY <1>0, <1>2, <2>2, AnswersNow
      <3>2. \A v \in Workers : v # w => connfd'[v] # d
        BY <1>0, <2>2, WorkerFrame DEF Others
      <3>3. Answers'[d] = "none"
        BY <1>2, <3>2, AnswersNext
      <3> QED
        BY <3>1, <3>3
    <2> QED
      BY <2>1, <2>2
  <1>4. Answers' = Answers
    BY <1>3, AnswersDomain
  <1> QED
    BY <1>1, <1>4, ExchangeStutter

(* A step of w that settles the order of its client.                       *)
LEMMA SettleStep ==
  ASSUME RInv, Handed', NEW w \in Workers, Worker(w), connfd' = connfd, request' = request,
         pc[w] \in {"read"} \cup Trading, Order(w) \in Orders, Outcome(w) = "none",
         \/ \E i \in Items : /\ Order(w).op = "buy" /\ Outcome(w)' = "bought"
                             /\ ID[i] = Order(w).id /\ left[i] >= Order(w).cnt
                             /\ left' = [left EXCEPT ![i] = @ - Order(w).cnt]
         \/ \E i \in Items : /\ Order(w).op = "sell" /\ Outcome(w)' = "sold"
                             /\ ID[i] = Order(w).id
                             /\ left' = [left EXCEPT ![i] = @ + Order(w).cnt]
         \/ /\ Order(w).op = "buy" /\ Outcome(w)' = "not_enough" /\ left' = left
            /\ \A i \in Items : ID[i] = Order(w).id => left[i] < Order(w).cnt
         \/ /\ Order(w).op = "sell" /\ Outcome(w)' = "sold" /\ left' = left
            /\ \A i \in Items : ID[i] # Order(w).id
         \/ Order(w).op = "show" /\ Outcome(w)' = "shown" /\ left' = left
  PROVE  Exchange!Next
  <1> DEFINE c == connfd[w]
             out == Outcome(w)'
  <1>0. TypeOK /\ Handed
    BY DEF RInv, IInv
  <1>1. c \in Clients
    BY <1>0 DEF TypeOK, Serving
  <1>2. Answers[c] = "none" /\ Answers' = [Answers EXCEPT ![c] = out]
    BY <1>0, <1>1, OwnAnswer
  <1>3. request[c] # NoOrder
    <2>1. NoOrder \notin Orders
      BY DEF NoOrder
    <2> QED
      BY <2>1 DEF Order
  <1>4. \/ \E i \in Items : /\ request[c].op = "buy" /\ out = "bought"
                            /\ ID[i] = request[c].id /\ left[i] >= request[c].cnt
                            /\ left' = [left EXCEPT ![i] = @ - request[c].cnt]
        \/ \E i \in Items : /\ request[c].op = "sell" /\ out = "sold"
                            /\ ID[i] = request[c].id
                            /\ left' = [left EXCEPT ![i] = @ + request[c].cnt]
        \/ /\ request[c].op = "buy" /\ out = "not_enough" /\ left' = left
           /\ \A i \in Items : ID[i] = request[c].id => left[i] < request[c].cnt
        \/ /\ request[c].op = "sell" /\ out = "sold" /\ left' = left
           /\ \A i \in Items : ID[i] # request[c].id
        \/ request[c].op = "show" /\ out = "shown" /\ left' = left
    BY DEF Order
  <1> HIDE DEF c, out
  <1> QED
    BY <1>1, <1>2, <1>3, <1>4, ExchangeExecute

LEMMA EchoRefines ==
  ASSUME RInv, RInv', NEW w \in Workers, Remove(w) \/ Echo(w)
  PROVE  Exchange!Next \/ UNCHANGED Exchange!vars
  <1>0. TypeOK /\ Handed /\ Handed' /\ Ready(w) /\ Worker(w)
    BY DEF RInv, IInv, AllReady, Worker
  <1>1. pc[w] = "read" /\ Order(w) # NoOrder => Order(w) \in Orders
    BY <1>0 DEF TypeOK, Order, Serving
  <1>2. CASE Remove(w)
    BY <1>0, <1>2, HandOverStep
  <1>3. CASE ReadBuy(w)
    <2>1. /\ pc[w] = "read" /\ Order(w) \in Orders /\ Order(w).op = "buy"
          /\ pc'[w] = "buy_scan" /\ idx'[w] = 1
          /\ connfd' = connfd /\ request' = request /\ left' = left
      BY <1>0, <1>1, <1>3 DEF ReadBuy, Asked, Goto, TypeOK, clientVars, stockVars
    <2>2. Outcome(w) = "none" /\ Order(w)' = Order(w)
      BY <2>1 DEF Outcome, Order
    <2>3. CASE \E i \in Items : ID[i] = Order(w).id
      <3>1. Outcome(w)' = "none"
        <4>1. ~ Hopeless(w)'
          BY <2>1, <2>2, <2>3 DEF Hopeless, Items
        <4> QED
          BY <2>1, <4>1 DEF Outcome
      <3> QED
        BY <1>0, <2>1, <2>2, <3>1, QuietStep
    <2>4. CASE \A i \in Items : ID[i] # Order(w).id
      <3>1. Outcome(w)' = "not_enough"
        <4>1. Hopeless(w)'
          BY <2>2, <2>4 DEF Hopeless
        <4> QED
          BY <2>1, <4>1 DEF Outcome
      <3> QED
        BY <1>0, <2>1, <2>2, <2>4, <3>1, SettleStep
    <2> QED
      BY <2>3, <2>4
  <1>4. CASE ReadSell(w) \/ ReadEnd(w)
    <2>1. /\ pc[w] = "read" /\ pc'[w] \in {"sell_lock", "close_lock"}
          /\ connfd' = connfd /\ request' = request /\ left' = left
      BY <1>0, <1>4 DEF ReadSell, ReadEnd, Goto, TypeOK, clientVars, stockVars, workerVars
    <2>2. Outcome(w) = "none" /\ Outcome(w)' = "none"
      BY <2>1 DEF Outcome
    <2> QED
      BY <1>0, <2>1, <2>2, QuietStep
  <1>5. CASE ReadSellUnlisted(w) \/ ReadShow(w)
    <2>1. /\ pc[w] = "read" /\ Order(w) \in Orders /\ pc'[w] = "write"
          /\ connfd' = connfd /\ request' = request /\ left' = left
          /\ \/ /\ Order(w).op = "sell" /\ ret'[w] = "sold"
                /\ \A i \in Items : ID[i] # Order(w).id
             \/ Order(w).op = "show" /\ ret'[w] = "shown"
      BY <1>0, <1>1, <1>5
         DEF ReadSellUnlisted, ReadShow, Asked, Goto, TypeOK, clientVars, stockVars
    <2>2. Outcome(w) = "none" /\ Outcome(w)' = ret'[w]
      BY <2>1 DEF Outcome
    <2> QED
      BY <1>0, <2>1, <2>2, SettleStep
  <1>6. CASE Write(w)
    <2>1. /\ pc[w] = "write" /\ pc'[w] = "read" /\ connfd' = connfd /\ left' = left
          /\ request' = [request EXCEPT ![connfd[w]] = NoOrder]
      BY <1>0, <1>6 DEF Write, Goto, TypeOK, stockVars
    <2>2. connfd[w] \in Clients
      BY <1>0, <2>1 DEF TypeOK, Serving
    <2>3. Outcome(w) # "none" /\ Outcome(w)' = "none"
      BY <1>0, <2>1 DEF Outcome, Ready
    <2>4. Answers[connfd[w]] # "none" /\ Answers' = [Answers EXCEPT ![connfd[w]] = "none"]
      BY <1>0, <2>1, <2>2, <2>3, OwnAnswer
    <2> QED
      BY <2>1, <2>2, <2>4, ExchangeReply
  <1> QED
    BY <1>2, <1>3, <1>4, <1>5, <1>6 DEF Echo

LEMMA BuyRefines ==
  ASSUME RInv, RInv', NEW w \in Workers, BuySteps(w)
  PROVE  Exchange!Next \/ UNCHANGED Exchange!vars
  <1>0. TypeOK /\ LocksExclude /\ Handed /\ Handed' /\ InHand /\ Ready(w) /\ Worker(w)
    BY DEF RInv, IInv, AllReady, Worker
  <1>1. /\ connfd' = connfd /\ request' = request
        /\ pc[w] \in Buying /\ Order(w)' = Order(w)
    BY DEF BuySteps, BuyLock, BuyAccept, BuyStore, BuyUnlock, BuyReject, BuyPass, BuyEnd,
           clientVars, workerVars, Goto, Buying, Order
  <1>2. Order(w) \in Orders /\ Order(w).op = "buy" /\ Order(w).cnt \in Int /\ Order(w).id \in Int
    BY <1>0, <1>1 DEF Ready, InHand, Trading
  <1>3. idx[w] \in Nat /\ (pc[w] \in Locking => idx[w] \in Items)
    BY <1>0 DEF TypeOK, LocksExclude, Items
  <1>4. CASE BuyLock(w)
    <2>1. pc[w] = "buy_scan" /\ pc'[w] = "buy_test" /\ idx' = idx /\ left' = left
      BY <1>0, <1>4 DEF BuyLock, Goto, TypeOK, workerVars
    <2>2. Hopeless(w)' <=> Hopeless(w)
      BY <1>1, <2>1 DEF Hopeless
    <2>3. Outcome(w)' = Outcome(w)
      BY <2>1, <2>2 DEF Outcome
    <2> QED
      BY <1>0, <1>1, <2>1, <2>3, QuietStep
  <1>5. CASE BuyAccept(w)
    <2>1. /\ pc[w] = "buy_test" /\ pc'[w] = "buy_store" /\ left' = left
          /\ ID[idx[w]] = Order(w).id
      BY <1>0, <1>5 DEF BuyAccept, Enough, Goto, TypeOK, stockVars
    <2>2. ~ Hopeless(w)
      BY <1>3, <2>1 DEF Hopeless, Locking
    <2>3. Outcome(w)' = Outcome(w)
      BY <2>1, <2>2 DEF Outcome
    <2> QED
      BY <1>0, <1>1, <2>1, <2>3, QuietStep
  <1>6. CASE BuyStore(w)
    <2>1. /\ pc[w] = "buy_store" /\ pc'[w] = "buy_unlock"
          /\ left' = [left EXCEPT ![idx[w]] = reg[w] - Order(w).cnt]
      BY <1>0, <1>6 DEF BuyStore, Goto, TypeOK
    <2>2. /\ idx[w] \in Items /\ ID[idx[w]] = Order(w).id
          /\ reg[w] = left[idx[w]] /\ reg[w] >= Order(w).cnt
      BY <1>0, <1>3, <2>1 DEF Ready, LocksExclude, InHand, Locking
    <2>3. Outcome(w) = "none" /\ Outcome(w)' = "bought"
      BY <2>1 DEF Outcome
    <2>4. \E i \in Items : /\ Order(w).op = "buy" /\ Outcome(w)' = "bought"
                           /\ ID[i] = Order(w).id /\ left[i] >= Order(w).cnt
                           /\ left' = [left EXCEPT ![i] = @ - Order(w).cnt]
      BY <1>2, <2>1, <2>2, <2>3
    <2> QED
      BY <1>0, <1>1, <1>2, <2>3, <2>4, SettleStep DEF Trading
  <1>7. CASE BuyUnlock(w)
    <2>1. pc[w] = "buy_unlock" /\ pc'[w] = "write" /\ ret'[w] = "bought" /\ left' = left
      BY <1>0, <1>7 DEF BuyUnlock, Goto, TypeOK
    <2>2. Outcome(w)' = Outcome(w)
      BY <2>1 DEF Outcome
    <2> QED
      BY <1>0, <1>1, <2>1, <2>2, QuietStep
  <1>8. CASE BuyReject(w)
    <2>1. /\ pc[w] = "buy_test" /\ pc'[w] = "buy_pass" /\ idx' = idx /\ left' = left
          /\ ~Enough(w)
      BY <1>0, <1>8 DEF BuyReject, Goto, TypeOK, stockVars, workerVars
    <2>2. idx[w] \in Items /\ left[idx[w]] \in Int
      BY <1>0, <1>3, <2>1 DEF Locking, TypeOK
    <2>3. CASE ID[idx[w]] # Order(w).id
      <3>1. Hopeless(w)' <=> Hopeless(w)
        BY <1>1, <2>1, <2>3 DEF Hopeless
      <3>2. Outcome(w)' = Outcome(w)
        BY <2>1, <3>1 DEF Outcome
      <3> QED
        BY <1>0, <1>1, <2>1, <3>2, QuietStep
    <2>4. CASE ID[idx[w]] = Order(w).id
      <3>1. left[idx[w]] < Order(w).cnt
        BY <1>2, <2>1, <2>2, <2>4 DEF Enough
      <3>2. \A i \in Items : ID[i] = Order(w).id => i = idx[w]
        BY <2>2, <2>4
      <3>3. ~Hopeless(w) /\ Hopeless(w)'
        BY <1>1, <1>3, <2>1, <2>2, <2>4, <3>2 DEF Hopeless
      <3>4. Outcome(w) = "none" /\ Outcome(w)' = "not_enough"
        BY <2>1, <3>3 DEF Outcome
      <3>5. \A i \in Items : ID[i] = Order(w).id => left[i] < Order(w).cnt
        BY <3>1, <3>2
      <3> QED
        BY <1>0, <1>1, <1>2, <2>1, <3>4, <3>5, SettleStep DEF Trading
    <2> QED
      BY <2>3, <2>4
  <1>9. CASE BuyPass(w)
    <2>1. pc[w] = "buy_pass" /\ pc'[w] = "buy_scan" /\ idx'[w] = idx[w] + 1 /\ left' = left
      BY <1>0, <1>9 DEF BuyPass, Goto, TypeOK
    <2>2. Hopeless(w)' <=> Hopeless(w)
      <3>1. \A i \in Items : i < idx[w] + 1 <=> i < idx[w] \/ i = idx[w]
        BY <1>3 DEF Items
      <3>2. Hopeless(w) <=> \A i \in Items : ID[i] = Order(w).id => i < idx[w] \/ i = idx[w]
        BY <2>1 DEF Hopeless
      <3>3. Hopeless(w)' <=> \A i \in Items : ID[i] = Order(w).id => i < idx[w] + 1
        BY <1>1, <2>1 DEF Hopeless
      <3> QED
        BY <3>1, <3>2, <3>3
    <2>3. Outcome(w)' = Outcome(w)
      BY <2>1, <2>2 DEF Outcome
    <2> QED
      BY <1>0, <1>1, <2>1, <2>3, QuietStep
  <1>10. CASE BuyEnd(w)
    <2>1. /\ pc[w] = "buy_scan" /\ pc'[w] = "write" /\ ret'[w] = "not_enough" /\ left' = left
          /\ idx[w] > NumItem
      BY <1>0, <1>10 DEF BuyEnd, Goto, TypeOK, stockVars
    <2>2. Hopeless(w)
      BY <1>3, <2>1 DEF Hopeless, Items
    <2>3. Outcome(w)' = Outcome(w)
      BY <2>1, <2>2 DEF Outcome
    <2> QED
      BY <1>0, <1>1, <2>1, <2>3, QuietStep
  <1> QED
    BY <1>4, <1>5, <1>6, <1>7, <1>8, <1>9, <1>10 DEF BuySteps

LEMMA SellRefines ==
  ASSUME RInv, RInv', NEW w \in Workers, SellSteps(w)
  PROVE  Exchange!Next \/ UNCHANGED Exchange!vars
  <1>0. TypeOK /\ LocksExclude /\ Handed /\ Handed' /\ InHand /\ Ready(w) /\ Worker(w)
    BY DEF RInv, IInv, AllReady, Worker
  <1>1. connfd' = connfd /\ request' = request /\ pc[w] \in Selling
    BY DEF SellSteps, SellLock, SellLoad, SellStore, SellUnlock, clientVars, workerVars, Goto,
           Selling
  <1>2. CASE SellLock(w) \/ SellLoad(w) \/ SellUnlock(w)
    <2>1. /\ left' = left
          /\ \/ pc[w] \in {"sell_lock", "sell_load"} /\ pc'[w] \in {"sell_load", "sell_store"}
             \/ pc[w] = "sell_unlock" /\ pc'[w] = "write" /\ ret'[w] = "sold"
      BY <1>0, <1>2 DEF SellLock, SellLoad, SellUnlock, Goto, TypeOK, stockVars
    <2>2. Outcome(w)' = Outcome(w)
      BY <2>1 DEF Outcome
    <2> QED
      BY <1>0, <1>1, <2>1, <2>2, QuietStep
  <1>3. CASE SellStore(w)
    <2>1. /\ pc[w] = "sell_store" /\ pc'[w] = "sell_unlock"
          /\ left' = [left EXCEPT ![idx[w]] = reg[w] + Order(w).cnt]
      BY <1>0, <1>3 DEF SellStore, Goto, TypeOK
    <2>2. /\ idx[w] \in Items /\ ID[idx[w]] = Order(w).id /\ Order(w).op = "sell"
          /\ reg[w] = left[idx[w]] /\ Order(w) \in Orders
      BY <1>0, <1>1, <2>1 DEF Ready, LocksExclude, InHand, Trading
    <2>3. Outcome(w) = "none" /\ Outcome(w)' = "sold"
      BY <2>1 DEF Outcome
    <2>4. \E i \in Items : /\ Order(w).op = "sell" /\ Outcome(w)' = "sold"
                           /\ ID[i] = Order(w).id
                           /\ left' = [left EXCEPT ![i] = @ + Order(w).cnt]
      BY <2>1, <2>2, <2>3
    <2> QED
      BY <1>0, <1>1, <2>2, <2>3, <2>4, SettleStep DEF Trading
  <1> QED
    BY <1>2, <1>3 DEF SellSteps

LEMMA EndRefines ==
  ASSUME RInv, RInv', NEW w \in Workers, CloseSteps(w) \/ SaveSteps(w)
  PROVE  UNCHANGED Exchange!vars
  <1>0. TypeOK /\ Handed /\ Handed' /\ Worker(w)
    BY DEF RInv, IInv, Worker
  <1>1. CASE Close(w)
    BY <1>0, <1>1, HandOverStep
  <1>2. CASE ~Close(w)
    <2>1. /\ left' = left /\ request' = request /\ connfd' = connfd
          /\ pc[w] \notin Settling /\ pc'[w] \notin Settling
      <3> USE <1>0, <1>2
          DEF TypeOK, Goto, Settling, Scanning, clientVars, stockVars, workerVars
      <3>1. CASE CloseLock(w) \/ CloseCount(w) \/ CloseUnlock(w)
        BY <3>1 DEF CloseLock, CloseCount, CloseUnlock
      <3>2. CASE NotLast(w) \/ Last(w)
        BY <3>2 DEF NotLast, Last
      <3>3. CASE SaveOpen(w) \/ SaveOpenFails(w)
        BY <3>3 DEF SaveOpen, SaveOpenFails
      <3>4. CASE SaveItem(w) \/ SaveClose(w)
        BY <3>4 DEF SaveItem, SaveClose
      <3> QED
        BY <3>1, <3>2, <3>3, <3>4 DEF CloseSteps, SaveSteps
    <2>2. Outcome(w) = "none" /\ Outcome(w)' = "none"
      BY <2>1 DEF Outcome, Settling, Scanning
    <2> QED
      BY <1>0, <2>1, <2>2, QuietStep
  <1> QED
    BY <1>1, <1>2

(* Clients and main: a line that is sent has no outcome yet.               *)
LEMMA SendRefines ==
  ASSUME RInv, RInv', NEW c \in Clients, NEW o \in Orders, Send(c, o)
  PROVE  Exchange!Next
  <1>0. TypeOK /\ Handed /\ Handed' /\ InHand /\ AllReady
    BY DEF RInv, IInv
  <1>1. /\ request[c] = NoOrder /\ request' = [request EXCEPT ![c] = o]
        /\ pc' = pc /\ connfd' = connfd /\ idx' = idx /\ ret' = ret /\ left' = left
    BY DEF Send, stockVars, workerVars
  <1>2. ASSUME NEW w \in Workers, connfd[w] \in Clients
        PROVE  Outcome(w)' = Outcome(w)
    <2>1. CASE connfd[w] = c
      <3>1. Order(w) \notin Orders
        BY <1>1, <2>1 DEF Order, NoOrder
      <3>2. pc[w] \notin Trading /\ pc[w] # "write"
        BY <1>0, <3>1 DEF InHand, AllReady, Ready
      <3> QED
        BY <1>1, <3>2 DEF Outcome, Trading, Buying, Selling
    <2>2. CASE connfd[w] # c
      <3>1. Order(w)' = Order(w)
        BY <1>0, <1>1, <1>2, <2>2 DEF Order, TypeOK
      <3>2. Hopeless(w)' <=> Hopeless(w)
        BY <1>1, <3>1 DEF Hopeless
      <3> QED
        BY <1>1, <3>2 DEF Outcome
    <2> QED
      BY <2>1, <2>2
  <1>3. ASSUME NEW d \in Clients
        PROVE  Answers'[d] = Answers[d]
    <2>1. CASE \E w \in Workers : connfd[w] = d
      <3>1. PICK w \in Workers : connfd[w] = d
        BY <2>1
      <3>2. Answers[d] = Outcome(w) /\ Answers'[d] = Outcome(w)'
        BY <1>0, <1>1, <3>1, AnswersNow, AnswersNext
      <3> QED
        BY <1>2, <3>1, <3>2
    <2>2. CASE ~ \E w \in Workers : connfd[w] = d
      BY <1>0, <1>1, <2>2, AnswersNow, AnswersNext
    <2> QED
      BY <2>1, <2>2
  <1>4. Answers' = Answers
    BY <1>3, AnswersDomain
  <1> QED
    BY <1>1, <1>4, ExchangeAsk

LEMMA SameRefines ==
  ASSUME pc' = pc, connfd' = connfd, idx' = idx, ret' = ret, request' = request, left' = left
  PROVE  UNCHANGED Exchange!vars
  <1>1. \A w : Outcome(w)' = Outcome(w)
    BY DEF Outcome, Hopeless, Order
  <1>2. Answers' = Answers
    BY <1>1 DEF Answers, Outcome, Hopeless, Order
  <1> QED
    BY <1>2, ExchangeStutter

LEMMA StepRefines ==
  ASSUME RInv, RInv', [Next]_vars
  PROVE  Exchange!Next \/ UNCHANGED Exchange!vars
  <1>1. ASSUME NEW c \in Clients, Client(c)
        PROVE  Exchange!Next \/ UNCHANGED Exchange!vars
    BY <1>1, SendRefines, SameRefines DEF Client, Connect, Leave, stockVars, workerVars
  <1>2. CASE Main
    BY <1>2, SameRefines DEF Main, Accept, MainLock, MainInsert, MainLoad, MainCount, MainUnlock,
                             clientVars, stockVars, workerVars
  <1>3. ASSUME NEW w \in Workers, Worker(w)
        PROVE  Exchange!Next \/ UNCHANGED Exchange!vars
    BY <1>3, EchoRefines, BuyRefines, SellRefines, EndRefines DEF Worker
  <1>4. CASE UNCHANGED vars
    BY <1>4, SameRefines DEF vars, clientVars, stockVars, workerVars
  <1> QED
    BY <1>1, <1>2, <1>3, <1>4 DEF Next

----------------------------------------------------------------------------
(* Theorems *)

LEMMA InitReady == Init => AllReady
  BY DEF Init, AllReady, Ready, Buying, Selling

LEMMA InitRefines == Init => Exchange!Init
  <1> SUFFICES ASSUME Init PROVE Exchange!Init
    OBVIOUS
  <1>1. Handed /\ \A w \in Workers : connfd[w] \notin Clients
    BY InitIInv DEF IInv, Init
  <1>2. \A c \in Clients : Answers[c] = "none"
    BY <1>1, AnswersNow
  <1>3. Answers = [c \in Clients |-> "none"]
    BY <1>2, AnswersDomain
  <1> QED
    BY <1>3 DEF Init, Exchange!Init, Exchange!NoOrder, NoOrder, Answers

(* With it, every answer that a worker has in its hand is the one that was *)
(* due when the request was executed.                                      *)
THEOREM RInvHolds == Spec => []RInv
  <1>1. RInv /\ [Next]_vars => AllReady'
    BY ReadyStep
  <1> QED
    BY IInvHolds, InitReady, <1>1, PTL DEF Spec, RInv

(* However the workers interleave, what the clients and the stock see is a *)
(* sequence of whole orders: the threaded server is linearizable.          *)
THEOREM ServerImplementsExchange == Spec => ImplementsExchange
  <1>1. RInv /\ RInv' /\ [Next]_vars => [Exchange!Next]_(Exchange!vars)
    BY StepRefines
  <1> QED
    BY RInvHolds, InitRefines, <1>1, PTL DEF Spec, ImplementsExchange, Exchange!Spec
==============================================================================
