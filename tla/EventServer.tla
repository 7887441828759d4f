----------------------------- MODULE EventServer -----------------------------
(***************************************************************************)
(* The event-based stock server, Project0x02/task_1/stockserver.c: one     *)
(* thread that waits in select, accepts at most one connection per round   *)
(* and then scans its pool of clients for descriptors that are ready.      *)
(*                                                                         *)
(* Clients act between any two steps of the server; the server's own data  *)
(* is private, so a step is a call of select, accept or one client served. *)
(*                                                                         *)
(* Simplifications:                                                        *)
(*  - descriptors are numbers above listenfd, the kernel handing out the   *)
(*    lowest free one; the descriptor savestock opens and closes within a  *)
(*    step is left out;                                                    *)
(*  - a line arrives in one piece and fits the buffer of rio_t; connections*)
(*    do not break; a client leaves once accepted, after its last answer;  *)
(*  - a client has at most Window lines unanswered (1: stockclient.c and   *)
(*    multiclient.c), and only as many are sent as the load says;          *)
(*  - numbers are integers, negative ones included (nothing refuses them), *)
(*    and stay far from INT_MIN and INT_MAX;                               *)
(*  - stock.txt holds the left_stock column; savestock is one step.        *)
(***************************************************************************)
EXTENDS Integers, Sequences, FiniteSets, FiniteSetsExt

CONSTANTS Clients,
          NumItem,   \* stock.num_item
          ID,        \* ID[i]: stock.root[i]->ID
          Initial,   \* Initial[i]: left_stock as load_tree read it
          Orders,    \* lines a client may send, parsed
          SetSize,   \* FD_SETSIZE: number of slots of the pool
          Loads,     \* bound of the model: which clients come, and how many lines
                     \* they send, all together
          Window,    \* lines a client sends before it waits for an answer
          DiskFails  \* whether fopen may fail

Items == 1 .. NumItem

ASSUME EventAssumption ==
    /\ IsFiniteSet(Clients)
    /\ NumItem \in Nat
    /\ ID \in [Items -> Int]
    /\ \A i, j \in Items : ID[i] = ID[j] => i = j
    /\ Initial \in [Items -> Int]
    /\ Orders \subseteq [op : {"buy", "sell", "show", "cut"}, id : Int, cnt : Int]
    /\ SetSize \in Nat \ {0}
    /\ Window \in Nat \ {0}
    /\ DiskFails \in BOOLEAN

ASSUME LoadsAssumption == \A load \in Loads : load.lines \in Nat

NoOrder  == [op |-> "none"]
ExitLine == [op |-> "exit"]
EndOfFile == [op |-> "eof"]

listenfd == 3
Slots    == 0 .. SetSize - 1

VARIABLES
    \* the clients and the network
    conn,      \* conn[c]: absent (never comes), away, waiting (in the backlog), open,
               \* closed
    fd,        \* fd[c]: descriptor of c's connection in the server, -1 if none
    inbox,     \* inbox[c]: what has arrived from c and no read has taken
    pending,   \* pending[c]: the lines c has sent and not seen answered
    todo,      \* lines the clients may still send (bounds the model)
    parting,   \* parting[c]: c has sent "exit" or closed its end
    \* the pool
    clientfd,  \* clientfd[i]: descriptor in slot i, -1 if free
    read_set,  \* descriptors select watches
    ready_set, \* descriptors the last select found readable
    nready,    \* how many of them are still to be served
    maxi,      \* high water index into clientfd
    maxfd,     \* largest descriptor in read_set
    \* the rest of the server
    pc,        \* select, accept, scan, write, exited, crashed
    scan,      \* loop index of check_clients
    ret,       \* ret_buf, the answer about to be written
    left,      \* left[i]: stock.root[i]->left_stock
    file,      \* contents of stock.txt
    unsaved    \* history: the last close_connection could not open stock.txt

stockVars == <<left, file, unsaved>>
netVars  == <<conn, fd, inbox, pending, todo, parting>>
poolVars == <<clientfd, read_set, ready_set, nready, maxi, maxfd>>
vars == <<netVars, poolVars, pc, scan, ret, stockVars>>

(* load_tree and init_pool.                                                *)
Init == /\ \E load \in Loads :
              /\ conn = [c \in Clients |-> IF c \in load.clients THEN "away" ELSE "absent"]
              /\ todo = load.lines
        /\ fd = [c \in Clients |-> -1]
        /\ inbox = [c \in Clients |-> <<>>]
        /\ pending = [c \in Clients |-> <<>>]
        /\ parting = [c \in Clients |-> FALSE]
        /\ clientfd = [i \in Slots |-> -1]
        /\ read_set = {listenfd}
        /\ ready_set = {}
        /\ nready = 0
        /\ maxi = -1
        /\ maxfd = listenfd
        /\ pc = "select"
        /\ scan = 0
        /\ ret = "none"
        /\ left = Initial
        /\ file = Initial
        /\ unsaved = FALSE

----------------------------------------------------------------------------
(* Clients (stockclient.c, multiclient.c) *)

serverVars == <<poolVars, pc, scan, ret, stockVars>>

Connect(c) == /\ conn[c] = "away"
              /\ conn' = [conn EXCEPT ![c] = "waiting"]
              /\ UNCHANGED <<fd, inbox, pending, todo, parting, serverVars>>

Send(c, o) == /\ conn[c] \in {"waiting", "open"}
              /\ ~parting[c]
              /\ Len(pending[c]) < Window
              /\ todo > 0
              /\ inbox' = [inbox EXCEPT ![c] = Append(@, o)]
              /\ pending' = [pending EXCEPT ![c] = Append(@, o)]
              /\ todo' = todo - 1
              /\ UNCHANGED <<conn, fd, parting, serverVars>>

(* The client types exit, or closes its end of the connection.             *)
Leave(c, line) == /\ conn[c] = "open"
                  /\ ~parting[c]
                  /\ pending[c] = <<>>
                  /\ parting' = [parting EXCEPT ![c] = TRUE]
                  /\ inbox' = [inbox EXCEPT ![c] = Append(@, line)]
                  /\ UNCHANGED <<conn, fd, pending, todo, serverVars>>

----------------------------------------------------------------------------
(* main *)

Backlog == {c \in Clients : conn[c] = "waiting"}

(* What select finds readable at the moment it returns.                    *)
Readable == {d \in read_set : IF d = listenfd
                              THEN Backlog # {}
                              ELSE \E c \in Clients : fd[c] = d /\ inbox[c] # <<>>}

Select == /\ pc = "select"
          /\ Readable # {}
          /\ ready_set' = Readable
          /\ nready' = Cardinality(Readable)
          /\ pc' = IF listenfd \in Readable THEN "accept" ELSE "scan"
          /\ scan' = 0
          /\ UNCHANGED <<netVars, clientfd, read_set, maxi, maxfd, ret, stockVars>>

Higher(a, b) == IF a > b THEN a ELSE b

(* The lowest descriptor not in use.                                       *)
NextFd == CHOOSE d \in (listenfd + 1) .. (listenfd + 1 + Cardinality(Clients)) :
             /\ \A c \in Clients : fd[c] # d
             /\ \A e \in (listenfd + 1) .. (d - 1) : \E c \in Clients : fd[c] = e

FreeSlots == {i \in Slots : clientfd[i] < 0}

(* Mutation: maxi is not raised, so the scan never reaches the new slot.   *)
AddClientLow(d) == LET i == Min(FreeSlots)
                   IN  /\ clientfd' = [clientfd EXCEPT ![i] = d]
                       /\ read_set' = read_set \cup {d}
                       /\ maxfd' = Higher(maxfd, d)
                       /\ nready' = nready - 1
                       /\ UNCHANGED maxi

(* Mutation: p->nready-- is in the loop over the slots too.                *)
AddClientTwice(d) == LET i == Min(FreeSlots)
                     IN  /\ clientfd' = [clientfd EXCEPT ![i] = d]
                         /\ read_set' = read_set \cup {d}
                         /\ maxfd' = Higher(maxfd, d)
                         /\ maxi' = Higher(maxi, i)
                         /\ nready' = nready - 2

(* Mutation: p->nready-- is missing.                                       *)
AddClientUncounted(d) == LET i == Min(FreeSlots)
                         IN  /\ clientfd' = [clientfd EXCEPT ![i] = d]
                             /\ read_set' = read_set \cup {d}
                             /\ maxfd' = Higher(maxfd, d)
                             /\ maxi' = Higher(maxi, i)
                             /\ UNCHANGED nready

(* add_client: the first free slot of the pool.                            *)
AddClient(d) == LET i == Min(FreeSlots)
                IN  /\ clientfd' = [clientfd EXCEPT ![i] = d]
                    /\ read_set' = read_set \cup {d}
                    /\ maxfd' = Higher(maxfd, d)
                    /\ maxi' = Higher(maxi, i)
                    /\ nready' = nready - 1

Accept(c) == /\ pc = "accept"
             /\ c \in Backlog
             /\ FreeSlots # {}
             /\ conn' = [conn EXCEPT ![c] = "open"]
             /\ fd' = [fd EXCEPT ![c] = NextFd]
             /\ AddClient(NextFd)
             /\ pc' = "scan"
             /\ UNCHANGED <<inbox, pending, todo, parting, ready_set, scan, ret, stockVars>>

(* "Too many clients": app_error ends the server, and with it all          *)
(* connections.                                                            *)
AcceptTooMany(c) == /\ pc = "accept"
                    /\ c \in Backlog
                    /\ FreeSlots = {}
                    /\ nready' = nready - 1
                    /\ pc' = "exited"
                    /\ UNCHANGED <<netVars, clientfd, read_set, ready_set, maxi, maxfd,
                                   scan, ret, stockVars>>

----------------------------------------------------------------------------
(* check_clients *)

Scanning == pc = "scan" /\ scan <= maxi /\ nready > 0

ScanEnd == /\ pc = "scan"
           /\ ~Scanning
           /\ pc' = "select"
           /\ UNCHANGED <<netVars, poolVars, scan, ret, stockVars>>

Hit(i) == clientfd[i] > 0 /\ clientfd[i] \in ready_set

ScanSkip == /\ Scanning
            /\ ~Hit(scan)
            /\ scan' = scan + 1
            /\ UNCHANGED <<netVars, poolVars, pc, ret, stockVars>>

(* Rio_readlineb on a copy of clientrio[scan] fetches all that has arrived *)
(* and returns the first line; the copy, with the rest, is overwritten.    *)
Read(c, line) == /\ Scanning
                 /\ Hit(scan)
                 /\ fd[c] = clientfd[scan]
                 /\ inbox[c] # <<>>
                 /\ line = Head(inbox[c])
                 /\ inbox' = [inbox EXCEPT ![c] = <<>>]
                 /\ nready' = nready - 1

Entry(o) == {i \in Items : ID[i] = o.id}

Serve(c, o) == /\ Read(c, o)
               /\ pc' = "write"
               /\ UNCHANGED <<conn, fd, pending, todo, parting, clientfd, read_set,
                              ready_set, maxi, maxfd, scan, file, unsaved>>

Buy(c, o) == /\ Serve(c, o)
             /\ o.op = "buy"
             /\ \E i \in Entry(o) :
                   /\ left[i] >= o.cnt
                   /\ left' = [left EXCEPT ![i] = @ - o.cnt]
             /\ ret' = "bought"

(* Mutation: a buy goes through although it is refused.                    *)
BuyRefusedWrongly(c, o) == /\ Serve(c, o)
                           /\ o.op = "buy"
                           /\ \A i \in Entry(o) : left[i] < o.cnt
                           /\ ret' = "not_enough"
                           /\ left' = [i \in Items |-> IF i \in Entry(o) THEN left[i] - o.cnt
                                                       ELSE left[i]]

BuyRefused(c, o) == /\ Serve(c, o)
                    /\ o.op = "buy"
                    /\ \A i \in Entry(o) : left[i] < o.cnt
                    /\ ret' = "not_enough"
                    /\ UNCHANGED left

(* A stock that is not listed is "sold" without any effect.                *)
Sell(c, o) == /\ Serve(c, o)
              /\ o.op = "sell"
              /\ left' = [i \in Items |-> IF i \in Entry(o) THEN left[i] + o.cnt ELSE left[i]]
              /\ ret' = "sold"

(* A buy or sell that is cut short: strtok finds no number, atoi(NULL)     *)
(* reads address 0 (l.226-227, 237-238), and the server dies.              *)
CutShort(c, o) == /\ Read(c, o)
                  /\ o.op = "cut"
                  /\ pc' = "crashed"
                  /\ UNCHANGED <<conn, fd, pending, todo, parting, clientfd, read_set,
                                 ready_set, maxi, maxfd, scan, ret, stockVars>>

(* show, which lists the table, and a line whose first word is neither     *)
(* buy nor sell, which process_client_request passes over.                 *)
Show(c, o) == /\ Serve(c, o)
              /\ o.op = "show"
              /\ ret' = "shown"
              /\ UNCHANGED left

process_client_request(c, o) ==
    Buy(c, o) \/ BuyRefused(c, o) \/ Sell(c, o) \/ CutShort(c, o)

(* Rio_writen, and on to the next slot.                                    *)
Write(c) == /\ pc = "write"
            /\ fd[c] = clientfd[scan]
            /\ pending' = [pending EXCEPT ![c] = Tail(@)]
            /\ pc' = "scan"
            /\ scan' = scan + 1
            /\ ret' = "none"
            /\ UNCHANGED <<conn, fd, inbox, todo, parting, poolVars, stockVars>>

(* Mutation: savestock runs only while other clients stay connected, as if *)
(* the test of check_connection were inverted and the first call missing.  *)
CloseConnectionUnsaved(c, i) ==
    /\ conn' = [conn EXCEPT ![c] = "closed"]
    /\ fd' = [fd EXCEPT ![c] = -1]
    /\ read_set' = read_set \ {fd[c]}
    /\ clientfd' = [clientfd EXCEPT ![i] = -1]
    /\ file' = IF Cardinality({j \in Slots : clientfd[j] >= 0}) > 1 THEN left ELSE file
    /\ unsaved' = FALSE

(* Mutation: FD_CLR is forgotten.                                          *)
CloseConnectionWatched(c, i) ==
    /\ conn' = [conn EXCEPT ![c] = "closed"]
    /\ fd' = [fd EXCEPT ![c] = -1]
    /\ clientfd' = [clientfd EXCEPT ![i] = -1]
    /\ file' = left
    /\ unsaved' = FALSE
    /\ UNCHANGED read_set

(* stock.txt is written afresh, or cannot be opened and stays as it is.    *)
savestock == \/ /\ file' = left
                /\ unsaved' = FALSE
             \/ /\ DiskFails
                /\ unsaved' = TRUE
                /\ UNCHANGED file

(* close_connection. When nobody is left savestock runs a second time: the *)
(* table is saved if one of the two can open the file.                     *)
CloseConnection(c, i) == /\ conn' = [conn EXCEPT ![c] = "closed"]
                         /\ fd' = [fd EXCEPT ![c] = -1]
                         /\ read_set' = read_set \ {fd[c]}
                         /\ clientfd' = [clientfd EXCEPT ![i] = -1]
                         /\ savestock

(* "exit" ends the whole scan, end of file only this client's turn.        *)
ReadExit(c) == /\ Read(c, ExitLine)
               /\ CloseConnection(c, scan)
               /\ pc' = "select"
               /\ UNCHANGED <<pending, todo, parting, ready_set, maxi, maxfd, scan, ret, left>>

ReadEndOfFile(c) == /\ Read(c, EndOfFile)
                    /\ CloseConnection(c, scan)
                    /\ scan' = scan + 1
                    /\ UNCHANGED <<pending, todo, parting, ready_set, maxi, maxfd, pc, ret, left>>

----------------------------------------------------------------------------

Client(c) == \/ Connect(c)
             \/ \E o \in Orders : Send(c, o)
             \/ \E line \in {ExitLine, EndOfFile} : Leave(c, line)

CheckClients == \/ ScanEnd
                \/ ScanSkip
                \/ \E c \in Clients :
                      \/ \E o \in Orders : process_client_request(c, o) \/ Show(c, o)
                      \/ Write(c)
                      \/ ReadExit(c)
                      \/ ReadEndOfFile(c)

Server == \/ Select
          \/ \E c \in Clients : Accept(c) \/ AcceptTooMany(c)
          \/ CheckClients

Next == (\E c \in Clients : Client(c)) \/ Server

Spec == Init /\ [][Next]_vars

(* The server thread runs whenever it can; clients owe nothing.            *)
FairSpec == Spec /\ WF_vars(Server)

----------------------------------------------------------------------------
(* Properties *)

Lines == Orders \cup {ExitLine, EndOfFile}

(* Type invariant: nready never counts below zero, and maxi and the scan   *)
(* stay within clientfd. An entry may hold a negative number: no purchase  *)
(* leaves less than nothing, but the sale of a negative count may.         *)
TypeOK ==
    /\ conn \in [Clients -> {"absent", "away", "waiting", "open", "closed"}]
    /\ fd \in [Clients -> Int]
    /\ inbox \in [Clients -> Seq(Lines)]
    /\ pending \in [Clients -> Seq(Orders)]
    /\ todo \in Nat
    /\ parting \in [Clients -> BOOLEAN]
    /\ clientfd \in [Slots -> Int]
    /\ read_set \subseteq Nat
    /\ ready_set \subseteq Nat
    /\ nready \in Nat
    /\ maxi \in -1 .. SetSize - 1
    /\ maxfd \in Nat
    /\ pc \in {"select", "accept", "scan", "write", "exited", "crashed"}
    /\ scan \in 0 .. SetSize
    /\ ret \in {"none", "bought", "not_enough", "sold", "shown"}
    /\ left \in [Items -> Int]
    /\ file \in [Items -> Int]
    /\ unsaved \in BOOLEAN

Open == {c \in Clients : conn[c] = "open"}
Used == {i \in Slots : clientfd[i] >= 0}

(* The five fields of the pool agree with one another and with the open    *)
(* connections: each is in one slot, watched by select and below maxfd,    *)
(* and no slot in use is above the high water mark.                        *)
PoolConsistent ==
    /\ \A i, j \in Used : clientfd[i] = clientfd[j] => i = j
    /\ {clientfd[i] : i \in Used} = {fd[c] : c \in Open}
    /\ read_set = {listenfd} \cup {fd[c] : c \in Open}
    /\ \A d \in read_set : d <= maxfd
    /\ \A i \in Used : i <= maxi

(* The slots this round still has to serve.                                *)
ToServe == {i \in Slots : Hit(i) /\ (i > scan \/ (i = scan /\ pc # "write"))}

(* nready counts exactly the clients that check_clients has yet to serve,  *)
(* so the loop neither stops early nor scans for nothing; and a descriptor *)
(* in ready_set still has data when its turn comes, though connections are *)
(* opened and closed in between: neither accept nor read can block.        *)
ReadyAccounted ==
    /\ pc \in {"scan", "write"} => nready = Cardinality(ToServe)
    /\ pc = "accept" => nready = Cardinality(ToServe) + 1 /\ Backlog # {}
    /\ pc \in {"accept", "scan", "write"} =>
          \A i \in ToServe : \E c \in Clients : fd[c] = clientfd[i] /\ inbox[c] # <<>>

(* "Save the current state of the stock to the file" (l.47): as soon as no *)
(* connection is open, stock.txt holds the stock, unless the close of the  *)
(* last one could not open it; an earlier failure does no harm.            *)
SavedWhenQuiet == Open = {} /\ ~unsaved => file = left

(* Each order takes effect atomically and gets its own outcome.            *)
Exchange == INSTANCE StockExchange
    WITH stock <- left,
         asked <- [c \in Clients |-> IF pending[c] = <<>> THEN NoOrder ELSE Head(pending[c])],
         answer <- [c \in Clients |-> IF pc = "write" /\ fd[c] = clientfd[scan]
                                      THEN ret ELSE "none"]
ImplementsExchange == Exchange!Spec

(* The server has ended, by app_error or on a line that was cut short.     *)
Ended == pc \in {"exited", "crashed"}

(* "when data arrives from a client, the server reads it and responds      *)
(* appropriately" (README.md:12-13, in Korean): no line stays unanswered   *)
(* while other clients keep the server busy, unless the server ends.       *)
EveryLineAnswered == \A c \in Clients :
    pending[c] # <<>> ~> pending[c] = <<>> \/ Ended

(* A client that leaves has its connection closed, be it with "exit", which*)
(* cuts the round short, or with end of file.                              *)
ClosedOnceLeft == \A c \in Clients :
    parting[c] ~> conn[c] = "closed" \/ Ended
==============================================================================
