----------------------------- MODULE StockServer -----------------------------
(***************************************************************************)
(* The thread-based stock server, Project0x02/task_2/stockserver.c: the    *)
(* main thread that accepts connections, the pool of worker threads that   *)
(* serve them, the stock table with one lock per entry, and stock.txt.     *)
(*                                                                         *)
(* One step is one semaphore operation or one access to data that another  *)
(* thread may access at the same time.                                     *)
(*                                                                         *)
(* Simplifications:                                                        *)
(*  - sbuf is the atomic bounded queue that module SBuf is shown to        *)
(*    implement;                                                           *)
(*  - a connection is named by its client; a client that connects twice is *)
(*    two members of Clients;                                              *)
(*  - a client sends its next line after the answer to the last one, as    *)
(*    stockclient.c and multiclient.c do, and only as many lines as the    *)
(*    load says; connections do not break, so the wrappers of csapp.c that *)
(*    end the whole server on a socket error are not taken;                *)
(*  - numbers are integers, negative ones included (sscanf reads %d and    *)
(*    nothing refuses them), and stay far from INT_MIN and INT_MAX;        *)
(*  - stock.txt holds the left_stock column, all snapshots having the same *)
(*    length in bytes, and reaches the disk when fclose flushes it.        *)
(***************************************************************************)
EXTENDS Integers, Sequences, FiniteSets, Counting

CONSTANTS Clients,
          Workers,   \* the THREADNUM threads of the pool
          NumItem,   \* stock.num_item
          ID,        \* ID[i]: stock.root[i]->ID
          Initial,   \* Initial[i]: left_stock as load_tree read it
          Orders,    \* lines a client may send, parsed
          Capacity,  \* SBUF_SIZE
          Loads,     \* bound of the model: which clients come, the lines each may
                     \* send, and which workers have not returned yet
          DiskFails  \* whether fopen may fail

Items == 1 .. NumItem

ASSUME ServerAssumption ==
    /\ IsFiniteSet(Clients)
    /\ IsFiniteSet(Workers)
    /\ NumItem \in Nat
    /\ ID \in [Items -> Int]
    /\ \A i, j \in Items : ID[i] = ID[j] => i = j
    /\ Initial \in [Items -> Int]
    /\ Orders \subseteq [op : {"buy", "sell", "show"}, id : Int, cnt : Int]
    /\ Capacity \in Nat \ {0}
    /\ DiskFails \in BOOLEAN

ASSUME LoadsAssumption ==
    \A load \in Loads : load.lines \in [load.clients -> Nat]

NoOrder == [op |-> "none"]
Nobody  == "nobody"     \* no connection
ASSUME NobodyAssumption == Nobody \notin Clients

VARIABLES
    \* the clients and the network
    conn,       \* conn[c]: absent (never comes), away, waiting (in the backlog), open,
                \* leaving, closed
    request,    \* request[c]: the line c waits to see answered, NoOrder if none
    todo,       \* todo[c]: lines c may still send (bounds the model)
    \* the main thread
    mpc,        \* where main is in its loop
    mfd,        \* connfd of main: the connection accepted last
    mreg,       \* connfdcnt as main loaded it
    \* shared by main and the workers
    queue,      \* sbuf
    fd_mutex,   \* semaphore: protects connfdcnt
    connfdcnt,  \* number of connections
    left,       \* left[i]: stock.root[i]->left_stock
    lock,       \* lock[i]: stock.root[i]->mutex
    file,       \* contents of stock.txt
    \* the workers
    pc,         \* pc[w]: where worker w is
    connfd,     \* connfd[w]: the connection w serves
    idx,        \* idx[w]: loop index of request_buy, request_sell, savestock
    reg,        \* reg[w]: left_stock or connfdcnt as w loaded it
    ret,        \* ret[w]: ret_buf, the answer about to be written
    snap        \* snap[w]: what w has printed into its FILE buffer

clientVars == <<conn, request, todo>>
mainVars   == <<mpc, mfd, mreg>>
countVars  == <<fd_mutex, connfdcnt>>
stockVars  == <<left, lock>>
workerVars == <<connfd, idx, reg, ret, snap>>
vars == <<clientVars, mainVars, queue, countVars, stockVars, file, pc, workerVars>>

(* After load_tree, sbuf_init, Pthread_create and Sem_init(&fd_mutex): no  *)
(* worker can reach fd_mutex before main has queued a connection. Or later *)
(* and idle again, after earlier clients came and left and some workers    *)
(* returned with connfdcnt at 0, the table saved.                          *)
Init == /\ \E load \in Loads :
              /\ conn = [c \in Clients |-> IF c \in load.clients THEN "away" ELSE "absent"]
              /\ todo = [c \in Clients |-> IF c \in load.clients THEN load.lines[c] ELSE 0]
              /\ pc = [w \in Workers |-> IF w \in load.workers THEN "remove" ELSE "gone"]
        /\ request = [c \in Clients |-> NoOrder]
        /\ mpc = "accept"
        /\ mfd = Nobody
        /\ mreg = 0
        /\ queue = <<>>
        /\ fd_mutex = 1
        /\ connfdcnt = 0
        /\ left = Initial
        /\ lock = [i \in Items |-> 1]
        /\ file = Initial
        /\ connfd = [w \in Workers |-> Nobody]
        /\ idx = [w \in Workers |-> 1]
        /\ reg = [w \in Workers |-> 0]
        /\ ret = [w \in Workers |-> "none"]
        /\ snap = [w \in Workers |-> <<>>]

Goto(w, from, to) == /\ pc[w] = from
                     /\ pc' = [pc EXCEPT ![w] = to]

(* P and V on a semaphore, and on the semaphore of a stock entry.          *)
P(sem) == sem > 0 /\ sem' = sem - 1
V(sem) == sem' = sem + 1
(* Mutation: the lock of the entry is taken without waiting for it.        *)
PItemNoWait(i) == lock' = [lock EXCEPT ![i] = 0]

PItem(i) == lock[i] > 0 /\ lock' = [lock EXCEPT ![i] = @ - 1]
VItem(i) == lock' = [lock EXCEPT ![i] = @ + 1]

----------------------------------------------------------------------------
(* Clients (stockclient.c, multiclient.c) *)

Connect(c) == /\ conn[c] = "away"
              /\ conn' = [conn EXCEPT ![c] = "waiting"]
              /\ UNCHANGED <<request, todo, mainVars, queue, countVars, stockVars,
                             file, pc, workerVars>>

Send(c, o) == /\ conn[c] \in {"waiting", "open"}
              /\ request[c] = NoOrder
              /\ todo[c] > 0
              /\ request' = [request EXCEPT ![c] = o]
              /\ todo' = [todo EXCEPT ![c] = @ - 1]
              /\ UNCHANGED <<conn, mainVars, queue, countVars, stockVars, file,
                             pc, workerVars>>

(* The client sends "exit" or closes its end.                              *)
Leave(c) == /\ conn[c] = "open"
            /\ request[c] = NoOrder
            /\ conn' = [conn EXCEPT ![c] = "leaving"]
            /\ UNCHANGED <<request, todo, mainVars, queue, countVars, stockVars,
                           file, pc, workerVars>>

----------------------------------------------------------------------------
(* main *)

MainGoto(from, to) == mpc = from /\ mpc' = to

Accept(c) == /\ MainGoto("accept", "lock")
             /\ conn[c] = "waiting"
             /\ conn' = [conn EXCEPT ![c] = "open"]
             /\ mfd' = c
             /\ UNCHANGED <<request, todo, mreg, queue, countVars, stockVars, file,
                            pc, workerVars>>

MainLock == /\ MainGoto("lock", "insert")
            /\ P(fd_mutex)
            /\ UNCHANGED <<clientVars, mfd, mreg, queue, connfdcnt, stockVars, file,
                           pc, workerVars>>

(* sbuf_insert waits for a slot with fd_mutex held.                        *)
MainInsert == /\ MainGoto("insert", "load")
              /\ Len(queue) < Capacity
              /\ queue' = Append(queue, mfd)
              /\ UNCHANGED <<clientVars, mfd, mreg, countVars, stockVars, file, pc,
                             workerVars>>

(* connfdcnt++ reads connfdcnt here and writes it in the next step.        *)
MainLoad == /\ MainGoto("load", "count")
            /\ mreg' = connfdcnt
            /\ UNCHANGED <<clientVars, mfd, queue, countVars, stockVars, file, pc,
                           workerVars>>

MainCount == /\ MainGoto("count", "unlock")
             /\ connfdcnt' = mreg + 1
             /\ UNCHANGED <<clientVars, mfd, mreg, queue, fd_mutex, stockVars, file,
                            pc, workerVars>>

MainUnlock == /\ MainGoto("unlock", "accept")
              /\ V(fd_mutex)
              /\ UNCHANGED <<clientVars, mfd, mreg, queue, connfdcnt, stockVars, file,
                             pc, workerVars>>

Main == \/ \E c \in Clients : Accept(c)
        \/ MainLock
        \/ MainInsert
        \/ MainLoad
        \/ MainCount
        \/ MainUnlock

----------------------------------------------------------------------------
(* thread and echo_cnt: one connection after the other *)

(* Mutation: the connection stays in the queue, as if front did not advance.*)
RemoveKeeping(w) == /\ Goto(w, "remove", "read")
                    /\ queue # <<>>
                    /\ connfd' = [connfd EXCEPT ![w] = Head(queue)]
                    /\ UNCHANGED <<clientVars, mainVars, queue, countVars, stockVars,
                                   file, idx, reg, ret, snap>>

(* sbuf_remove                                                             *)
Remove(w) == /\ Goto(w, "remove", "read")
             /\ queue # <<>>
             /\ connfd' = [connfd EXCEPT ![w] = Head(queue)]
             /\ queue' = Tail(queue)
             /\ UNCHANGED <<clientVars, mainVars, countVars, stockVars, file, idx,
                            reg, ret, snap>>

Order(w) == request[connfd[w]]

(* Rio_readlineb has a line for the worker.                                *)
Asked(w) == /\ pc[w] = "read"
            /\ Order(w) # NoOrder

ReadBuy(w) == /\ Asked(w)
              /\ Goto(w, "read", "buy_scan")
              /\ Order(w).op = "buy"
              /\ idx' = [idx EXCEPT ![w] = 1]
              /\ UNCHANGED <<clientVars, mainVars, queue, countVars, stockVars,
                             file, connfd, reg, ret, snap>>

(* request_sell looks for the entry without a lock: an ID never changes.   *)
ReadSell(w) ==
    /\ Asked(w)
    /\ Order(w).op = "sell"
    /\ \E i \in Items :
          /\ ID[i] = Order(w).id
          /\ Goto(w, "read", "sell_lock")
          /\ idx' = [idx EXCEPT ![w] = i]
    /\ UNCHANGED <<clientVars, mainVars, queue, countVars, stockVars, file, connfd,
                   reg, ret, snap>>

ReadSellUnlisted(w) ==
    /\ Asked(w)
    /\ Goto(w, "read", "write")
    /\ Order(w).op = "sell"
    /\ \A i \in Items : ID[i] # Order(w).id
    /\ ret' = [ret EXCEPT ![w] = "sold"]
    /\ UNCHANGED <<clientVars, mainVars, queue, countVars, stockVars, file, connfd,
                   idx, reg, snap>>

(* show, and every line that is no command: the table is not consulted.    *)
ReadShow(w) == /\ Asked(w)
               /\ Goto(w, "read", "write")
               /\ Order(w).op = "show"
               /\ ret' = [ret EXCEPT ![w] = "shown"]
               /\ UNCHANGED <<clientVars, mainVars, queue, countVars, stockVars,
                              file, connfd, idx, reg, snap>>

(* End of file or "exit".                                                  *)
ReadEnd(w) == /\ Goto(w, "read", "close_lock")
              /\ conn[connfd[w]] = "leaving"
              /\ UNCHANGED <<clientVars, mainVars, queue, countVars, stockVars, file,
                             workerVars>>

(* Rio_writen: the client has its answer and may send the next line.       *)
Write(w) == /\ Goto(w, "write", "read")
            /\ request' = [request EXCEPT ![connfd[w]] = NoOrder]
            /\ ret' = [ret EXCEPT ![w] = "none"]
            /\ UNCHANGED <<conn, todo, mainVars, queue, countVars, stockVars, file,
                           connfd, idx, reg, snap>>

----------------------------------------------------------------------------
(* request_buy: lock, test and unlock one entry after the other *)

BuyLock(w) == /\ Goto(w, "buy_scan", "buy_test")
              /\ idx[w] <= NumItem
              /\ PItem(idx[w])
              /\ UNCHANGED <<clientVars, mainVars, queue, countVars, left, file,
                             workerVars>>

(* Mutation: the amount is not tested.                                     *)
EnoughUntested(w) == ID[idx[w]] = Order(w).id

Enough(w) == /\ ID[idx[w]] = Order(w).id
             /\ left[idx[w]] >= Order(w).cnt

BuyAccept(w) == /\ Goto(w, "buy_test", "buy_store")
                /\ Enough(w)
                /\ reg' = [reg EXCEPT ![w] = left[idx[w]]]
                /\ UNCHANGED <<clientVars, mainVars, queue, countVars, stockVars,
                               file, connfd, idx, ret, snap>>

BuyStore(w) == /\ Goto(w, "buy_store", "buy_unlock")
               /\ left' = [left EXCEPT ![idx[w]] = reg[w] - Order(w).cnt]
               /\ UNCHANGED <<clientVars, mainVars, queue, countVars, lock, file,
                              workerVars>>

BuyUnlock(w) == /\ Goto(w, "buy_unlock", "write")
                /\ VItem(idx[w])
                /\ ret' = [ret EXCEPT ![w] = "bought"]
                /\ UNCHANGED <<clientVars, mainVars, queue, countVars, left, file,
                               connfd, idx, reg, snap>>

BuyReject(w) == /\ Goto(w, "buy_test", "buy_pass")
                /\ ~Enough(w)
                /\ UNCHANGED <<clientVars, mainVars, queue, countVars, stockVars,
                               file, workerVars>>

(* Mutation: the early unlock of an entry that is not bought is forgotten. *)
BuyPassLocked(w) == /\ Goto(w, "buy_pass", "buy_scan")
                    /\ idx' = [idx EXCEPT ![w] = @ + 1]
                    /\ UNCHANGED <<clientVars, mainVars, queue, countVars, stockVars,
                                   file, connfd, reg, ret, snap>>

BuyPass(w) == /\ Goto(w, "buy_pass", "buy_scan")
              /\ VItem(idx[w])
              /\ idx' = [idx EXCEPT ![w] = @ + 1]
              /\ UNCHANGED <<clientVars, mainVars, queue, countVars, left, file,
                             connfd, reg, ret, snap>>

BuyEnd(w) == /\ Goto(w, "buy_scan", "write")
             /\ idx[w] > NumItem
             /\ ret' = [ret EXCEPT ![w] = "not_enough"]
             /\ UNCHANGED <<clientVars, mainVars, queue, countVars, stockVars, file,
                            connfd, idx, reg, snap>>

----------------------------------------------------------------------------
(* request_sell, once the entry is found *)

(* Mutation: request_sell works without P(&stock.root[i]->mutex).          *)
SellLockUnguarded(w) == /\ Goto(w, "sell_lock", "sell_load")
                        /\ UNCHANGED <<clientVars, mainVars, queue, countVars,
                                       stockVars, file, workerVars>>

SellLock(w) == /\ Goto(w, "sell_lock", "sell_load")
               /\ PItem(idx[w])
               /\ UNCHANGED <<clientVars, mainVars, queue, countVars, left, file,
                              workerVars>>

SellLoad(w) == /\ Goto(w, "sell_load", "sell_store")
               /\ reg' = [reg EXCEPT ![w] = left[idx[w]]]
               /\ UNCHANGED <<clientVars, mainVars, queue, countVars, stockVars,
                              file, connfd, idx, ret, snap>>

SellStore(w) == /\ Goto(w, "sell_store", "sell_unlock")
                /\ left' = [left EXCEPT ![idx[w]] = reg[w] + Order(w).cnt]
                /\ UNCHANGED <<clientVars, mainVars, queue, countVars, lock, file,
                               workerVars>>

SellUnlock(w) == /\ Goto(w, "sell_unlock", "write")
                 /\ VItem(idx[w])
                 /\ ret' = [ret EXCEPT ![w] = "sold"]
                 /\ UNCHANGED <<clientVars, mainVars, queue, countVars, left, file,
                                connfd, idx, reg, snap>>

----------------------------------------------------------------------------
(* thread, after echo_cnt has returned *)

(* Mutation: connfdcnt-- without P(&fd_mutex).                             *)
CloseLockUnguarded(w) == /\ Goto(w, "close_lock", "close")
                         /\ UNCHANGED <<clientVars, mainVars, queue, countVars,
                                        stockVars, file, workerVars>>

CloseLock(w) == /\ Goto(w, "close_lock", "close")
                /\ P(fd_mutex)
                /\ UNCHANGED <<clientVars, mainVars, queue, connfdcnt, stockVars,
                               file, workerVars>>

(* Close(connfd), and connfdcnt-- reads connfdcnt.                         *)
Close(w) == /\ Goto(w, "close", "close_count")
            /\ conn' = [conn EXCEPT ![connfd[w]] = "closed"]
            /\ connfd' = [connfd EXCEPT ![w] = Nobody]
            /\ reg' = [reg EXCEPT ![w] = connfdcnt]
            /\ UNCHANGED <<request, todo, mainVars, queue, countVars, stockVars, file,
                           idx, ret, snap>>

CloseCount(w) == /\ Goto(w, "close_count", "close_unlock")
                 /\ connfdcnt' = reg[w] - 1
                 /\ UNCHANGED <<clientVars, mainVars, queue, fd_mutex, stockVars,
                                file, workerVars>>

(* Mutation: V(&fd_mutex) is forgotten.                                    *)
CloseUnlockMissing(w) == /\ Goto(w, "close_unlock", "last_test")
                         /\ UNCHANGED <<clientVars, mainVars, queue, countVars,
                                        stockVars, file, workerVars>>

CloseUnlock(w) == /\ Goto(w, "close_unlock", "last_test")
                  /\ V(fd_mutex)
                  /\ UNCHANGED <<clientVars, mainVars, queue, connfdcnt, stockVars,
                                 file, workerVars>>

(* connfdcnt is read again after fd_mutex was released.                    *)
NotLast(w) == /\ Goto(w, "last_test", "remove")
              /\ connfdcnt # 0
              /\ UNCHANGED <<clientVars, mainVars, queue, countVars, stockVars, file,
                             workerVars>>

Last(w) == /\ Goto(w, "last_test", "save_open")
           /\ connfdcnt = 0
           /\ UNCHANGED <<clientVars, mainVars, queue, countVars, stockVars, file,
                          workerVars>>

----------------------------------------------------------------------------
(* savestock, after which the worker returns *)

(* fopen with mode "w" truncates the file.                                 *)
SaveOpen(w) == /\ Goto(w, "save_open", "save_item")
               /\ file' = <<>>
               /\ snap' = [snap EXCEPT ![w] = <<>>]
               /\ UNCHANGED <<clientVars, mainVars, queue, countVars, stockVars,
                              connfd, idx, reg, ret>>

SaveOpenFails(w) == /\ DiskFails
                    /\ Goto(w, "save_open", "gone")
                    /\ UNCHANGED <<clientVars, mainVars, queue, countVars, stockVars,
                                   file, workerVars>>

(* fprintf of the next entry, read without its lock.                       *)
SaveItem(w) == /\ pc[w] = "save_item"
               /\ Len(snap[w]) < NumItem
               /\ snap' = [snap EXCEPT ![w] = Append(@, left[Len(@) + 1])]
               /\ UNCHANGED <<clientVars, mainVars, queue, countVars, stockVars,
                              file, pc, connfd, idx, reg, ret>>

(* fclose writes the whole buffer, from the beginning of the file.         *)
SaveClose(w) == /\ Goto(w, "save_item", "gone")
                /\ Len(snap[w]) = NumItem
                /\ file' = snap[w]
                /\ UNCHANGED <<clientVars, mainVars, queue, countVars, stockVars,
                               workerVars>>

----------------------------------------------------------------------------

Echo(w) == \/ ReadBuy(w) \/ ReadSell(w) \/ ReadSellUnlisted(w) \/ ReadShow(w)
           \/ ReadEnd(w) \/ Write(w)
BuySteps(w) == \/ BuyLock(w) \/ BuyAccept(w) \/ BuyStore(w) \/ BuyUnlock(w)
               \/ BuyReject(w) \/ BuyPass(w) \/ BuyEnd(w)
SellSteps(w) == SellLock(w) \/ SellLoad(w) \/ SellStore(w) \/ SellUnlock(w)
CloseSteps(w) == \/ CloseLock(w) \/ Close(w) \/ CloseCount(w) \/ CloseUnlock(w)
                 \/ NotLast(w) \/ Last(w)
SaveSteps(w) == SaveOpen(w) \/ SaveOpenFails(w) \/ SaveItem(w) \/ SaveClose(w)

Worker(w) == \/ Remove(w) \/ Echo(w) \/ BuySteps(w) \/ SellSteps(w)
             \/ CloseSteps(w) \/ SaveSteps(w)

Client(c) == Connect(c) \/ (\E o \in Orders : Send(c, o)) \/ Leave(c)

Next == \/ \E c \in Clients : Client(c)
        \/ Main
        \/ \E w \in Workers : Worker(w)

Spec == Init /\ [][Next]_vars

(* The kernel schedules every thread that can run; clients owe nothing.    *)
Fairness == /\ WF_vars(Main)
            /\ \A w \in Workers : WF_vars(Worker(w))

FairSpec == Spec /\ Fairness

(* Clients that do not stay for ever.                                      *)
PoliteSpec == FairSpec /\ \A c \in Clients : WF_vars(Leave(c))

----------------------------------------------------------------------------
(* Properties *)

Buying  == {"buy_scan", "buy_test", "buy_store", "buy_unlock", "buy_pass"}
Selling == {"sell_lock", "sell_load", "sell_store", "sell_unlock"}
Trading == Buying \cup Selling
Saving  == {"save_open", "save_item"}
\* The worker has a connection.
Serving == {"read", "write", "close_lock", "close"} \cup Trading
\* The worker holds the lock of entry idx[w].
Locking == {"buy_test", "buy_store", "buy_unlock", "buy_pass",
            "sell_load", "sell_store", "sell_unlock"}
\* The worker, or main, holds fd_mutex.
Closing == {"close", "close_count", "close_unlock"}
Opening == {"insert", "load", "count", "unlock"}
\* main has a connection that connfdcnt does not include yet.
Uncounted == {"lock", "insert", "load", "count"}

WorkerPC == Serving \cup Closing \cup Saving \cup {"remove", "last_test", "gone"}
MainPC   == {"accept"} \cup Uncounted \cup Opening

(* Type invariant: no semaphore is posted by a thread that did not wait    *)
(* for it, connfdcnt never counts below zero, and a thread that is serving *)
(* or queueing a connection has one. An entry may hold a negative number.  *)
TypeOK ==
    /\ conn \in [Clients -> {"absent", "away", "waiting", "open", "leaving", "closed"}]
    /\ request \in [Clients -> Orders \cup {NoOrder}]
    /\ todo \in [Clients -> Nat]
    /\ mpc \in MainPC
    /\ mfd \in Clients \cup {Nobody}
    /\ mpc \in {"lock", "insert"} => mfd \in Clients
    /\ mreg \in Nat
    /\ queue \in Seq(Clients)
    /\ fd_mutex \in {0, 1}
    /\ connfdcnt \in Nat
    /\ left \in [Items -> Int]
    /\ lock \in [Items -> {0, 1}]
    /\ file \in Seq(Int)
    /\ pc \in [Workers -> WorkerPC]
    /\ connfd \in [Workers -> Clients \cup {Nobody}]
    /\ \A w \in Workers : pc[w] \in Serving => connfd[w] \in Clients
    /\ idx \in [Workers -> 1 .. NumItem + 1]
    /\ reg \in [Workers -> Int]
    /\ ret \in [Workers -> {"none", "bought", "not_enough", "sold", "shown"}]
    /\ snap \in [Workers -> Seq(Int)]

(* The lock of an entry excludes every other trader of that entry, from    *)
(* the moment left_stock is tested or loaded until it has been written: no *)
(* worker writes back a value another one has changed in the meantime.     *)
LocksExclude ==
    /\ \A w \in Workers : pc[w] \in Locking => idx[w] <= NumItem /\ lock[idx[w]] = 0
    /\ \A v, w \in Workers :
          pc[v] \in Locking /\ pc[w] \in Locking /\ idx[v] = idx[w] => v = w
    /\ \A i \in Items : lock[i] = 0 => \E w \in Workers : pc[w] \in Locking /\ idx[w] = i
    /\ \A w \in Workers :
          pc[w] \in {"buy_store", "sell_store"} => reg[w] = left[idx[w]]

(* A purchase that passed the test is still covered when it is written:    *)
(* only a sale of a negative count leaves less than nothing in an entry.   *)
BuysCovered == \A w \in Workers :
    pc[w] = "buy_store" => left[idx[w]] >= Order(w).cnt

(* The locks of the table do what request_buy and request_sell take them   *)
(* for: nobody trades an entry meanwhile, and nothing is sold twice.       *)
EntryLocks == LocksExclude /\ BuysCovered

(* How a connection can be held: by main between Accept and sbuf_insert,   *)
(* at a place of the queue, by a worker until it calls Close.              *)
Owners(c) ==
    {<<"main", 0>> : m \in {m \in {mpc} : m \in {"lock", "insert"} /\ mfd = c}}
    \cup {<<"queue", k>> : k \in {k \in DOMAIN queue : queue[k] = c}}
    \cup {<<"worker", w>> : w \in {w \in Workers : connfd[w] = c}}

(* An open connection is held by exactly one of them, any other by none:   *)
(* none is served twice, closed twice or dropped on the way.               *)
OneOwner == \A c \in Clients :
    Cardinality(Owners(c)) = IF conn[c] \in {"open", "leaving"} THEN 1 ELSE 0

(* connfdcnt is the number of open connections whenever fd_mutex is free,  *)
(* up to the one main has accepted but not yet counted.                    *)
ConnectionsCounted ==
    /\ fd_mutex + HowMany(Workers, pc, Closing) + Share(mpc, Opening) = 1
    /\ connfdcnt + Share(mpc, Uncounted)
         = HowMany(Clients, conn, {"open", "leaving"}) + HowMany(Workers, pc, {"close_count"})

(* The order a worker is serving has taken effect, and how.                *)
Hopeless(w) == \A i \in Items : ID[i] = Order(w).id =>
                   i < idx[w] \/ (i = idx[w] /\ pc[w] = "buy_pass")
Outcome(w) == CASE pc[w] = "write" -> ret[w]
                [] pc[w] = "buy_unlock" -> "bought"
                [] pc[w] = "sell_unlock" -> "sold"
                [] pc[w] \in {"buy_scan", "buy_test", "buy_pass"} /\ Hopeless(w) -> "not_enough"
                [] OTHER -> "none"

Exchange == INSTANCE StockExchange
    WITH stock <- left,
         asked <- request,
         answer <- [c \in Clients |-> IF \E w \in Workers : connfd[w] = c
                                      THEN Outcome(CHOOSE w \in Workers : connfd[w] = c)
                                      ELSE "none"]

(* However the workers interleave, every order takes effect atomically:    *)
(* the trades are those of some sequence of whole orders.                  *)
ImplementsExchange == Exchange!Spec

Served(c) == \E w \in Workers : connfd[w] = c

(* A worker answers every line of the client it serves, whatever the other *)
(* workers do with the locks of the table.                                 *)
EveryLineAnswered == \A c \in Clients :
    (Served(c) /\ request[c] # NoOrder) ~> request[c] = NoOrder

(* main waits for a slot of the buffer with fd_mutex held, and no worker   *)
(* will ever make room: each is gone, or serves a client, after which it   *)
(* waits for fd_mutex.                                                     *)
Jammed == /\ mpc = "insert"
          /\ Len(queue) = Capacity
          /\ \A w \in Workers : pc[w] \notin {"remove", "last_test"}

(* A connection is closed once its client has left (thread, l.225-229),    *)
(* unless main (l.329-332) and the workers wait for each other for good:   *)
(* that is the only way to lose it, and neither a worker that returns nor  *)
(* a buffer that is full for a while is.                                   *)
ClosedOnceLeft == \A c \in Clients :
    (Served(c) /\ conn[c] = "leaving") ~> (conn[c] = "closed" \/ []Jammed)

(* "the master thread manages many simultaneous connections and gives each *)
(* one to a suitable worker thread" (README.md:19-20, in Korean), provided *)
(* every client leaves some time (PoliteSpec).                             *)
EveryConnectionServed == \A c \in Clients : (conn[c] = "open") ~> Served(c)

(* "Save the current state of the stock to the file" (l.102): when all     *)
(* connections are closed and no worker is saving, stock.txt is the stock. *)
SavedWhenQuiet ==
    (/\ mpc = "accept"
     /\ \A c \in Clients : conn[c] \notin {"open", "leaving"}
     /\ \A w \in Workers : pc[w] \in {"remove", "gone"})
    => file = left
==============================================================================
