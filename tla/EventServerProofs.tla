-------------------------- MODULE EventServerProofs ---------------------------
(***************************************************************************)
(* Proofs about the event-based server for any number of clients, slots,   *)
(* stock entries and orders, and for any number of lines a client sends    *)
(* ahead: the fields of its pool agree, nready counts the clients a scan   *)
(* has yet to serve, and stock.txt is current whenever nobody is connected *)
(* and the last to leave could open it.                                    *)
(* For clients that wait for each answer it implements StockExchange.      *)
(***************************************************************************)
EXTENDS EventServer, CountingProofs, SequenceTheorems

USE EventAssumption DEF stockVars

(* PoolConsistent, one slot and one connection at a time.                  *)
Slotted ==
    /\ \A c \in Clients : IF conn[c] = "open" THEN fd[c] > listenfd ELSE fd[c] = -1
    /\ \A c, d \in Clients : fd[c] = fd[d] /\ fd[c] # -1 => c = d
    /\ \A i \in Slots : clientfd[i] # -1 =>
          /\ clientfd[i] > listenfd
          /\ i <= maxi
          /\ \E c \in Clients : fd[c] = clientfd[i]
    /\ \A i, j \in Slots : clientfd[i] = clientfd[j] /\ clientfd[i] # -1 => i = j
    /\ \A c \in Clients : fd[c] # -1 => \E i \in Slots : clientfd[i] = fd[c]
    /\ \A d : d \in read_set <=> d = listenfd \/ \E c \in Clients : fd[c] = d /\ d # -1
    /\ \A d \in read_set : d <= maxfd

(* An answer is being written to c.                                        *)
Answering(c) == pc = "write" /\ fd[c] = clientfd[scan]
UnderWay(c) == IF Answering(c) THEN 1 ELSE 0

(* Whatever is read from a client, a line it waits for or its last one:    *)
(* of what it sent only unanswered lines can still arrive, and one less if *)
(* an answer is under way.                                                 *)
Answerable == \A c \in Clients :
    /\ conn[c] \in {"away", "closed"} => inbox[c] = <<>>
    /\ IF parting[c]
       THEN /\ pending[c] = <<>>
            /\ inbox[c] \in {<<>>, <<ExitLine>>, <<EndOfFile>>}
            /\ ~Answering(c)
       ELSE /\ inbox[c] \in Seq(Orders)
            /\ Len(inbox[c]) + UnderWay(c) <= Len(pending[c])

(* Where the server stands in a round.                                     *)
Round ==
    /\ pc = "accept" => ready_set \subseteq read_set
    /\ pc = "write" => scan <= maxi /\ clientfd[scan] # -1

(* The inductive invariant.                                                *)
IInv == TypeOK /\ Slotted /\ Answerable /\ Round /\ ReadyAccounted /\ SavedWhenQuiet

----------------------------------------------------------------------------
(* Lemmas *)

(* Sets of slots are finite, and have a least element.                     *)
LEMMA SlotSets ==
  ASSUME NEW S, S \subseteq Slots
  PROVE  /\ IsFiniteSet(S) /\ Cardinality(S) \in Nat
         /\ S # {} => Min(S) \in S /\ \A i \in S : Min(S) <= i
  <1>1. IsFiniteSet(Slots)
    BY FS_Interval DEF Slots
  <1>2. Slots \subseteq Nat
    BY DEF Slots
  <1> QED
    BY <1>1, <1>2, FS_Subset, FS_CardinalityType, MinIsLeast

(* The kernel has a free descriptor: there are more numbers to choose from *)
(* than clients.                                                           *)
LEMMA NextFdFree ==
  ASSUME TypeOK
  PROVE  NextFd \in Nat /\ NextFd > listenfd /\ \A c \in Clients : fd[c] # NextFd
  <1> DEFINE n == Cardinality(Clients)
             range == (listenfd + 1) .. (listenfd + 1 + n)
             taken == {fd[c] : c \in Clients}
             free == {d \in range : \A c \in Clients : fd[c] # d}
  <1>1. n \in Nat
    BY FS_CardinalityType
  <1>2. IsFiniteSet(range) /\ Cardinality(range) = n + 1
    <2> DEFINE low == listenfd + 1
               high == listenfd + 1 + n
    <2>1. low \in Int /\ high \in Int /\ low <= high /\ high - low + 1 = n + 1
      BY <1>1 DEF listenfd
    <2> HIDE DEF low, high
    <2>2. IsFiniteSet(low .. high) /\ Cardinality(low .. high) = IF low > high THEN 0 ELSE high - low + 1
      BY <2>1, FS_Interval
    <2>3. Cardinality(low .. high) = n + 1
      BY <2>1, <2>2
    <2> QED
      BY <2>2, <2>3 DEF low, high
  <1>3. IsFiniteSet(taken) /\ Cardinality(taken) \in Nat /\ Cardinality(taken) <= n
    <2>1. fd \in Surjection(Clients, taken)
      BY DEF TypeOK, Surjection
    <2> QED
      BY <2>1, FS_Surjection, FS_CardinalityType
  <1>4. free # {}
    <2>1. SUFFICES ASSUME range \subseteq taken PROVE FALSE
      OBVIOUS
    <2>2. Cardinality(range) <= Cardinality(taken)
      BY <1>3, <2>1, FS_Subset
    <2> QED
      BY <1>1, <1>2, <1>3, <2>2
  <1>5. free \subseteq Nat
    BY <1>1 DEF listenfd
  <1> DEFINE m == Min(free)
  <1>6. m \in free /\ \A d \in free : m <= d
    BY <1>4, <1>5, MinIsLeast
  <1>7. \A e \in (listenfd + 1) .. (m - 1) : \E c \in Clients : fd[c] = e
    <2>1. SUFFICES ASSUME NEW e \in (listenfd + 1) .. (m - 1), e \notin taken
                   PROVE  FALSE
      OBVIOUS
    <2>2. m \in Int /\ m <= listenfd + 1 + n
      BY <1>1, <1>6 DEF listenfd
    <2>3. e \in range /\ e < m
      BY <1>1, <2>2 DEF listenfd
    <2>4. e \in free
      BY <2>1, <2>3
    <2> HIDE DEF free, m
    <2> QED
      BY <1>6, <2>2, <2>3, <2>4 DEF listenfd
  <1>8. NextFd \in free
    <2> HIDE DEF m
    <2> QED
      BY <1>6, <1>7 DEF NextFd
  <1> QED
    BY <1>1, <1>8 DEF listenfd

(* A line is added to what a client has sent.                              *)
LEMMA Appended ==
  ASSUME NEW S, NEW s \in Seq(S), NEW x \in S
  PROVE  /\ Append(s, x) \in Seq(S) /\ Append(s, x) # <<>>
         /\ Len(Append(s, x)) = Len(s) + 1
  BY AppendProperties

(* A line that ends a connection is no order.                              *)
LEMMA LastLines ==
  /\ ExitLine \notin Orders /\ EndOfFile \notin Orders /\ NoOrder \notin Orders
  /\ ExitLine # EndOfFile
  BY DEF ExitLine, EndOfFile, NoOrder

(* ReadyAccounted holds after a step that leaves the round where it is and *)
(* takes nothing that a client sent or is waiting for.                     *)
LEMMA AccountsStay ==
  ASSUME ReadyAccounted,
         clientfd' = clientfd, ready_set' = ready_set, nready' = nready,
         pc' = pc, scan' = scan, fd' = fd,
         \A c \in Clients : inbox[c] # <<>> => inbox'[c] # <<>>,
         Backlog # {} => Backlog' # {}
  PROVE  ReadyAccounted'
  <1>1. ToServe' = ToServe
    BY DEF ToServe, Hit
  <1> HIDE DEF ToServe
  <1> QED
    BY <1>1 DEF ReadyAccounted

----------------------------------------------------------------------------
(* The clients *)

LEMMA ConnectStep ==
  ASSUME IInv, NEW c \in Clients, Connect(c)
  PROVE  IInv'
  <1> USE DEF Connect, serverVars, poolVars
  <1>1. TypeOK'
    BY DEF IInv, TypeOK
  <1>2. \A d \in Clients : conn'[d] = IF d = c THEN "waiting" ELSE conn[d]
    BY DEF IInv, TypeOK
  <1>3. Slotted'
    BY <1>2 DEF IInv, Slotted
  <1>4. Answerable'
    BY <1>2 DEF IInv, Answerable, UnderWay, Answering
  <1>5. Round'
    BY DEF IInv, Round
  <1>6. ReadyAccounted'
    BY <1>2, AccountsStay DEF IInv, Backlog
  <1>7. SavedWhenQuiet'
    BY <1>2 DEF IInv, SavedWhenQuiet, Open
  <1> QED
    BY <1>1, <1>3, <1>4, <1>5, <1>6, <1>7 DEF IInv

LEMMA SendStep ==
  ASSUME IInv, NEW c \in Clients, NEW o \in Orders, Send(c, o)
  PROVE  IInv'
  <1> USE DEF Send, serverVars, poolVars
  <1>1. inbox[c] \in Seq(Lines) /\ pending[c] \in Seq(Orders) /\ todo \in Nat
    BY DEF IInv, TypeOK
  <1>2. /\ Append(inbox[c], o) \in Seq(Lines) /\ Len(Append(inbox[c], o)) = Len(inbox[c]) + 1
        /\ Append(pending[c], o) \in Seq(Orders) /\ Len(Append(pending[c], o)) = Len(pending[c]) + 1
        /\ Append(inbox[c], o) # <<>>
    <2> HIDE DEF Send
    <2>1. /\ Append(inbox[c], o) \in Seq(Lines) /\ Append(inbox[c], o) # <<>>
          /\ Len(Append(inbox[c], o)) = Len(inbox[c]) + 1
      <3>1. o \in Lines
        BY DEF Lines
      <3> QED
        BY <1>1, <3>1, Appended
    <2>2. /\ Append(pending[c], o) \in Seq(Orders)
          /\ Len(Append(pending[c], o)) = Len(pending[c]) + 1
      BY <1>1, Appended
    <2> QED
      BY <2>1, <2>2
  <1>3. TypeOK'
    <2>1. inbox' \in [Clients -> Seq(Lines)] /\ pending' \in [Clients -> Seq(Orders)]
      BY <1>2 DEF IInv, TypeOK
    <2>2. todo' \in Nat
      BY <1>1 DEF IInv, TypeOK
    <2> QED
      BY <2>1, <2>2 DEF IInv, TypeOK
  <1>4. \A d \in Clients : /\ inbox'[d] = IF d = c THEN Append(inbox[c], o) ELSE inbox[d]
                           /\ pending'[d] = IF d = c THEN Append(pending[c], o) ELSE pending[d]
    BY DEF IInv, TypeOK
  <1>5. Slotted'
    BY DEF IInv, Slotted
  <1>6. Answerable'
    <2> SUFFICES ASSUME NEW d \in Clients
                 PROVE  /\ conn[d] \in {"away", "closed"} => inbox'[d] = <<>>
                        /\ IF parting[d]
                           THEN /\ pending'[d] = <<>>
                                /\ inbox'[d] \in {<<>>, <<ExitLine>>, <<EndOfFile>>}
                                /\ ~Answering(d)
                           ELSE /\ inbox'[d] \in Seq(Orders)
                                /\ Len(inbox'[d]) + UnderWay(d) <= Len(pending'[d])
      BY DEF Answerable, UnderWay, Answering
    <2>1. CASE d # c
      BY <1>4, <2>1 DEF IInv, Answerable
    <2>2. CASE d = c
      <3>1. ~parting[c] /\ conn[c] \in {"waiting", "open"}
        OBVIOUS
      <3>2. /\ inbox[c] \in Seq(Orders)
            /\ Len(inbox[c]) + UnderWay(c) <= Len(pending[c])
        BY <3>1 DEF IInv, Answerable
      <3>3. Append(inbox[c], o) \in Seq(Orders)
        BY <3>2
      <3>4. Len(inbox[c]) \in Nat /\ Len(pending[c]) \in Nat /\ UnderWay(c) \in {0, 1}
        BY <1>1 DEF UnderWay
      <3>5. inbox'[c] = Append(inbox[c], o) /\ pending'[c] = Append(pending[c], o)
        BY <1>4
      <3>6. Len(inbox'[c]) + UnderWay(c) <= Len(pending'[c])
        <4> HIDE DEF Send
        <4>1. Len(inbox'[c]) = Len(inbox[c]) + 1 /\ Len(pending'[c]) = Len(pending[c]) + 1
          BY <1>2, <3>5
        <4> QED
          BY <3>2, <3>4, <4>1
      <3> QED
        BY <2>2, <3>1, <3>3, <3>5, <3>6
    <2> QED
      BY <2>1, <2>2
  <1>7. Round'
    BY DEF IInv, Round
  <1>8. \A d \in Clients : inbox[d] # <<>> => inbox'[d] # <<>>
    BY <1>1, <1>2, <1>4
  <1>9. ReadyAccounted'
    BY <1>8, AccountsStay DEF IInv, Backlog
  <1>10. SavedWhenQuiet'
    BY DEF IInv, SavedWhenQuiet, Open
  <1> QED
    BY <1>3, <1>5, <1>6, <1>7, <1>9, <1>10 DEF IInv

LEMMA LeaveStep ==
  ASSUME IInv, NEW c \in Clients, NEW line \in {ExitLine, EndOfFile}, Leave(c, line)
  PROVE  IInv'
  <1> USE DEF Leave, serverVars, poolVars
  <1>1. inbox[c] \in Seq(Orders) /\ inbox[c] = <<>> /\ ~Answering(c)
    <2>1. inbox[c] \in Seq(Orders) /\ Len(inbox[c]) + UnderWay(c) <= 0
      BY DEF IInv, Answerable
    <2>2. Len(inbox[c]) \in Nat /\ UnderWay(c) \in {0, 1}
      BY <2>1 DEF UnderWay
    <2>3. Len(inbox[c]) = 0 /\ UnderWay(c) = 0
      BY <2>1, <2>2
    <2> QED
      BY <2>1, <2>3, EmptySeq DEF UnderWay
  <1>2. Append(inbox[c], line) = <<line>> /\ <<line>> \in Seq(Lines) /\ <<line>> # <<>>
    BY <1>1, AppendProperties DEF Lines
  <1>3. TypeOK'
    <2>1. inbox' \in [Clients -> Seq(Lines)]
      BY <1>2 DEF IInv, TypeOK
    <2> QED
      BY <2>1 DEF IInv, TypeOK
  <1>4. \A d \in Clients : /\ inbox'[d] = IF d = c THEN <<line>> ELSE inbox[d]
                           /\ parting'[d] = IF d = c THEN TRUE ELSE parting[d]
    BY <1>2 DEF IInv, TypeOK
  <1>5. Slotted'
    BY DEF IInv, Slotted
  <1>6. Answerable'
    <2> SUFFICES ASSUME NEW d \in Clients
                 PROVE  /\ conn[d] \in {"away", "closed"} => inbox'[d] = <<>>
                        /\ IF parting'[d]
                           THEN /\ pending[d] = <<>>
                                /\ inbox'[d] \in {<<>>, <<ExitLine>>, <<EndOfFile>>}
                                /\ ~Answering(d)
                           ELSE /\ inbox'[d] \in Seq(Orders)
                                /\ Len(inbox'[d]) + UnderWay(d) <= Len(pending[d])
      BY DEF Answerable, UnderWay, Answering
    <2>1. CASE d # c
      BY <1>4, <2>1 DEF IInv, Answerable
    <2>2. CASE d = c
      BY <1>1, <1>4, <2>2
    <2> QED
      BY <2>1, <2>2
  <1>7. Round'
    BY DEF IInv, Round
  <1>8. \A d \in Clients : inbox[d] # <<>> => inbox'[d] # <<>>
    BY <1>2, <1>4
  <1>9. ReadyAccounted'
    BY <1>8, AccountsStay DEF IInv, Backlog
  <1>10. SavedWhenQuiet'
    BY DEF IInv, SavedWhenQuiet, Open
  <1> QED
    BY <1>3, <1>5, <1>6, <1>7, <1>9, <1>10 DEF IInv

----------------------------------------------------------------------------
(* select and accept *)

(* The descriptors select finds readable, apart from listenfd, are those of*)
(* as many slots.                                                          *)
LEMMA ReadableSlots ==
  ASSUME TypeOK, Slotted, NEW T, T = {i \in Slots : clientfd[i] \in Readable \ {listenfd}}
  PROVE  /\ IsFiniteSet(Readable)
         /\ Cardinality(Readable) = Cardinality(T) + (IF listenfd \in Readable THEN 1 ELSE 0)
         /\ Cardinality(T) \in Nat
  <1> DEFINE R == Readable \ {listenfd}
             f == [i \in T |-> clientfd[i]]
  <1>1. IsFiniteSet(T) /\ Cardinality(T) \in Nat
    BY SlotSets
  <1>2. \A d \in R : \E i \in T : clientfd[i] = d
    <2> SUFFICES ASSUME NEW d \in R PROVE \E i \in T : clientfd[i] = d
      OBVIOUS
    <2>1. PICK c \in Clients : fd[c] = d /\ d # -1
      BY DEF Readable, Slotted
    <2>2. PICK i \in Slots : clientfd[i] = d
      BY <2>1 DEF Slotted
    <2> HIDE DEF R
    <2> QED
      BY <2>2 DEF R
  <1>3. f \in Surjection(T, R)
    <2> HIDE DEF R
    <2>1. f \in [T -> R]
      BY DEF R
    <2> QED
      BY <1>2, <2>1 DEF Surjection
  <1>4. f \in Injection(T, R)
    <2>1. \A i \in T : clientfd[i] # -1
      BY DEF Readable, Slotted, listenfd
    <2>2. \A i, j \in T : clientfd[i] = clientfd[j] => i = j
      BY <2>1 DEF Slotted
    <2>3. f \in [T -> R] /\ \A i, j \in T : f[i] = f[j] => i = j
      BY <1>3, <2>2 DEF Surjection
    <2> HIDE DEF f, R
    <2> QED
      BY <2>3 DEF Injection, IsInjective
  <1>5. IsFiniteSet(R) /\ Cardinality(R) = Cardinality(T)
    BY <1>1, <1>3, <1>4, FS_Surjection
  <1>6. CASE listenfd \in Readable
    <2>1. Readable = R \cup {listenfd}
      BY <1>6
    <2>2. listenfd \notin R
      OBVIOUS
    <2> HIDE DEF R
    <2>3. IsFiniteSet(Readable) /\ Cardinality(Readable) = Cardinality(R) + 1
      BY <1>5, <2>1, <2>2, FS_AddElement
    <2> QED
      BY <1>1, <1>5, <1>6, <2>3
  <1>7. CASE listenfd \notin Readable
    <2>1. Readable = R
      BY <1>7
    <2> HIDE DEF R
    <2> QED
      BY <1>1, <1>5, <1>7, <2>1
  <1> QED
    BY <1>6, <1>7

LEMMA SelectStep ==
  ASSUME IInv, Select
  PROVE  IInv'
  <1> DEFINE T == {i \in Slots : clientfd[i] \in Readable \ {listenfd}}
  <1> USE DEF Select, netVars
  <1>1. Cardinality(Readable) = Cardinality(T) + (IF listenfd \in Readable THEN 1 ELSE 0)
        /\ Cardinality(T) \in Nat
    BY ReadableSlots DEF IInv
  <1>2. Cardinality(Readable) \in Nat
    BY <1>1
  <1>3. TypeOK'
    <2>1. 0 \in 0 .. SetSize
      OBVIOUS
    <2> QED
      BY <1>2, <2>1 DEF IInv, TypeOK, Readable
  <1>4. Slotted'
    BY DEF IInv, Slotted
  <1>5. \A c \in Clients : UnderWay(c) = 0 /\ UnderWay(c)' = 0 /\ ~Answering(c) /\ ~Answering(c)'
    BY DEF UnderWay, Answering
  <1>6. Answerable'
    BY <1>5 DEF IInv, Answerable
  <1>7. Round'
    BY DEF Round, Readable
  <1>8. ToServe' = T
    <2>1. \A i \in Slots : i > scan' \/ (i = scan' /\ pc' # "write")
      BY DEF Slots
    <2>2. \A i \in Slots : Hit(i)' <=> clientfd[i] \in Readable \ {listenfd}
      BY DEF Hit, IInv, Slotted, TypeOK, Readable, listenfd
    <2> QED
      BY <2>1, <2>2 DEF ToServe
  <1>9. ReadyAccounted'
    <2>1. /\ pc' = "accept" => listenfd \in Readable /\ Backlog' # {}
          /\ pc' \in {"scan", "write"} => listenfd \notin Readable
      BY DEF Readable, Backlog
    <2>2. \A i \in T : \E c \in Clients : fd[c] = clientfd[i] /\ inbox[c] # <<>>
      BY DEF Readable
    <2> HIDE DEF T
    <2> QED
      BY <1>1, <1>8, <2>1, <2>2 DEF ReadyAccounted
  <1>10. SavedWhenQuiet'
    BY DEF IInv, SavedWhenQuiet, Open
  <1> QED
    BY <1>3, <1>4, <1>6, <1>7, <1>9, <1>10 DEF IInv

(* accept takes a client from the backlog: listenfd was ready, the scan    *)
(* has not begun, and the new descriptor is in no set select returned.     *)
LEMMA AcceptStep ==
  ASSUME IInv, NEW c \in Clients, Accept(c)
  PROVE  IInv'
  <1> DEFINE n == NextFd
             k == Min(FreeSlots)
  <1>1. n \in Nat /\ n > listenfd /\ \A d \in Clients : fd[d] # n
    BY NextFdFree DEF IInv
  <1>2. FreeSlots \subseteq Slots /\ FreeSlots # {}
    BY DEF FreeSlots, Accept
  <1>3. k \in Slots /\ clientfd[k] < 0 /\ clientfd[k] = -1
    <2>1. k \in FreeSlots
      BY <1>2, SlotSets
    <2>2. k \in Slots /\ clientfd[k] < 0
      BY <2>1 DEF FreeSlots
    <2> QED
      BY <2>2 DEF IInv, Slotted, TypeOK, listenfd
  <1>4. conn[c] = "waiting" /\ pc = "accept" /\ c \in Backlog /\ fd[c] = -1
    BY DEF Accept, Backlog, IInv, Slotted
  <1>5. /\ \A d \in Clients : fd'[d] = IF d = c THEN n ELSE fd[d]
        /\ \A d \in Clients : conn'[d] = IF d = c THEN "open" ELSE conn[d]
        /\ \A i \in Slots : clientfd'[i] = IF i = k THEN n ELSE clientfd[i]
        /\ fd' \in [Clients -> Int] /\ clientfd' \in [Slots -> Int]
    BY <1>1, <1>3 DEF IInv, TypeOK, Accept, AddClient
  <1>6. /\ read_set' = read_set \cup {n}
        /\ maxfd' = Higher(maxfd, n) /\ maxi' = Higher(maxi, k) /\ nready' = nready - 1
        /\ pc' = "scan"
        /\ UNCHANGED <<inbox, pending, todo, parting, ready_set, scan, ret, left, file, unsaved>>
    BY DEF Accept, AddClient
  <1>7. nready = Cardinality(ToServe) + 1 /\ Cardinality(ToServe) \in Nat
    BY <1>4, SlotSets DEF IInv, ReadyAccounted, ToServe
  <1> HIDE DEF n, k
  <1>8. /\ maxfd' \in Nat /\ maxfd' >= maxfd /\ maxfd' >= n
        /\ maxi' \in -1 .. SetSize - 1 /\ maxi' >= maxi /\ maxi' >= k
    BY <1>1, <1>3, <1>6 DEF Higher, IInv, TypeOK, Slots
  <1>9. TypeOK'
    <2>1. conn' \in [Clients -> {"absent", "away", "waiting", "open", "closed"}]
      BY DEF Accept, IInv, TypeOK
    <2>2. nready' \in Nat
      BY <1>6, <1>7
    <2> QED
      BY <1>1, <1>5, <1>6, <1>8, <2>1, <2>2 DEF IInv, TypeOK
  <1>10. Slotted'
    <2> USE DEF IInv
    <2>1. \A d \in Clients : IF conn'[d] = "open" THEN fd'[d] > listenfd ELSE fd'[d] = -1
      BY <1>1, <1>5 DEF Slotted
    <2>2. \A d, e \in Clients : fd'[d] = fd'[e] /\ fd'[d] # -1 => d = e
      BY <1>1, <1>5 DEF Slotted
    <2>3. \A i \in Slots : clientfd'[i] # -1 =>
             /\ clientfd'[i] > listenfd
             /\ i <= maxi'
             /\ \E d \in Clients : fd'[d] = clientfd'[i]
      <3> SUFFICES ASSUME NEW i \in Slots, clientfd'[i] # -1
                   PROVE  /\ clientfd'[i] > listenfd
                          /\ i <= maxi'
                          /\ \E d \in Clients : fd'[d] = clientfd'[i]
        OBVIOUS
      <3>1. CASE i = k
        BY <1>1, <1>5, <1>8, <3>1
      <3>2. CASE i # k
        <4>1. clientfd'[i] = clientfd[i]
          BY <1>5, <3>2
        <4>2. clientfd[i] > listenfd /\ i <= maxi
          BY <4>1 DEF Slotted
        <4>3. PICK d \in Clients : fd[d] = clientfd[i]
          BY <4>1 DEF Slotted
        <4>4. fd'[d] = fd[d]
          BY <1>4, <1>5, <4>1, <4>3
        <4>5. i \in Int /\ maxi \in Int /\ maxi' \in Int
          BY <1>8 DEF TypeOK, Slots
        <4> QED
          BY <1>8, <4>1, <4>2, <4>3, <4>4, <4>5
      <3> QED
        BY <3>1, <3>2
    <2>4. \A i, j \in Slots : clientfd'[i] = clientfd'[j] /\ clientfd'[i] # -1 => i = j
      BY <1>1, <1>5 DEF Slotted
    <2>5. \A d \in Clients : fd'[d] # -1 => \E i \in Slots : clientfd'[i] = fd'[d]
      BY <1>3, <1>5 DEF Slotted
    <2>6. \A d : d \in read_set' <=> d = listenfd \/ \E e \in Clients : fd'[e] = d /\ d # -1
      <3>1. n # -1
        BY <1>1 DEF listenfd
      <3> QED
        BY <1>4, <1>5, <1>6, <3>1 DEF Slotted
    <2>7. \A d \in read_set' : d <= maxfd'
      BY <1>1, <1>6, <1>8 DEF Slotted, TypeOK
    <2> QED
      BY <2>1, <2>2, <2>3, <2>4, <2>5, <2>6, <2>7 DEF Slotted
  <1>11. \A d \in Clients : UnderWay(d) = 0 /\ UnderWay(d)' = 0 /\ ~Answering(d) /\ ~Answering(d)'
    BY <1>4, <1>6 DEF UnderWay, Answering
  <1>12. Answerable'
    BY <1>5, <1>6, <1>11 DEF IInv, Answerable
  <1>13. Round'
    BY <1>6 DEF Round
  <1>14. n \notin ready_set
    BY <1>1, <1>4 DEF IInv, Round, Slotted
  <1>15. ToServe' = ToServe
    <2>1. \A i \in Slots : Hit(i)' <=> clientfd'[i] > 0 /\ clientfd'[i] \in ready_set
      BY <1>6 DEF Hit
    <2>2. \A i \in Slots : Hit(i)' <=> Hit(i)
      BY <1>3, <1>5, <1>14, <2>1 DEF Hit
    <2> QED
      BY <1>4, <1>6, <2>2 DEF ToServe
  <1>16. ReadyAccounted'
    <2>1. \A i \in ToServe : i \in Slots /\ i # k /\ clientfd[i] # -1
      BY <1>3 DEF ToServe, Hit
    <2>2. \A i \in ToServe : \E d \in Clients : fd'[d] = clientfd'[i] /\ inbox'[d] # <<>>
      <3> SUFFICES ASSUME NEW i \in ToServe
                   PROVE  \E d \in Clients : fd'[d] = clientfd'[i] /\ inbox'[d] # <<>>
        OBVIOUS
      <3>1. PICK d \in Clients : fd[d] = clientfd[i] /\ inbox[d] # <<>>
        BY <1>4 DEF IInv, ReadyAccounted
      <3> QED
        BY <1>4, <1>5, <1>6, <2>1, <3>1
    <2> QED
      BY <1>6, <1>7, <1>15, <2>2 DEF ReadyAccounted
  <1>17. SavedWhenQuiet'
    BY <1>5 DEF SavedWhenQuiet, Open
  <1> QED
    BY <1>9, <1>10, <1>12, <1>13, <1>16, <1>17 DEF IInv

LEMMA AcceptTooManyStep ==
  ASSUME IInv, NEW c \in Clients, AcceptTooMany(c)
  PROVE  IInv'
  <1> USE DEF AcceptTooMany, netVars
  <1>1. nready' \in Nat
    <2>1. nready = Cardinality(ToServe) + 1 /\ Cardinality(ToServe) \in Nat
      BY SlotSets DEF IInv, ReadyAccounted, ToServe
    <2> QED
      BY <2>1
  <1>2. TypeOK' /\ Slotted'
    BY <1>1 DEF IInv, TypeOK, Slotted
  <1>3. \A d \in Clients : UnderWay(d) = 0 /\ UnderWay(d)' = 0 /\ ~Answering(d) /\ ~Answering(d)'
    BY DEF UnderWay, Answering
  <1>4. Answerable'
    BY <1>3 DEF IInv, Answerable
  <1>5. Round' /\ ReadyAccounted' /\ SavedWhenQuiet'
    BY DEF Round, ReadyAccounted, IInv, SavedWhenQuiet, Open
  <1> QED
    BY <1>2, <1>4, <1>5 DEF IInv

----------------------------------------------------------------------------
(* check_clients *)

LEMMA ScanEndStep ==
  ASSUME IInv, ScanEnd
  PROVE  IInv'
  <1> USE DEF ScanEnd, netVars, poolVars
  <1>1. TypeOK' /\ Slotted'
    BY DEF IInv, TypeOK, Slotted
  <1>2. \A d \in Clients : UnderWay(d) = 0 /\ UnderWay(d)' = 0 /\ ~Answering(d) /\ ~Answering(d)'
    BY DEF UnderWay, Answering
  <1>3. Answerable'
    BY <1>2 DEF IInv, Answerable
  <1>4. Round' /\ ReadyAccounted' /\ SavedWhenQuiet'
    BY DEF Round, ReadyAccounted, IInv, SavedWhenQuiet, Open
  <1> QED
    BY <1>1, <1>3, <1>4 DEF IInv

LEMMA ScanSkipStep ==
  ASSUME IInv, ScanSkip
  PROVE  IInv'
  <1> USE DEF ScanSkip, Scanning, netVars, poolVars
  <1>1. scan' = scan + 1 /\ scan \in Nat /\ scan' \in 0 .. SetSize
    BY DEF IInv, TypeOK
  <1>2. TypeOK' /\ Slotted'
    BY <1>1 DEF IInv, TypeOK, Slotted
  <1>3. \A d \in Clients : UnderWay(d) = 0 /\ UnderWay(d)' = 0 /\ ~Answering(d) /\ ~Answering(d)'
    BY DEF UnderWay, Answering
  <1>4. Answerable'
    BY <1>3 DEF IInv, Answerable
  <1>5. ToServe' = ToServe
    <2>1. \A i \in Slots : i # scan => (i > scan <=> i >= scan + 1)
      BY <1>1 DEF Slots
    <2>2. \A i \in Slots : Hit(i)' <=> Hit(i)
      BY DEF Hit
    <2>3. \A i \in Slots : i \in ToServe' <=> i \in ToServe
      <3> SUFFICES ASSUME NEW i \in Slots PROVE i \in ToServe' <=> i \in ToServe
        OBVIOUS
      <3>1. i \in Nat /\ (i >= scan + 1 <=> i > scan + 1 \/ i = scan + 1)
        BY <1>1 DEF Slots
      <3> QED
        BY <1>1, <2>1, <2>2, <3>1 DEF ToServe
    <2> QED
      BY <2>3 DEF ToServe
  <1>6. ReadyAccounted'
    <2> HIDE DEF Scanning
    <2> QED
      BY <1>5 DEF IInv, ReadyAccounted, Scanning
  <1>7. Round' /\ SavedWhenQuiet'
    BY DEF Round, IInv, SavedWhenQuiet, Open
  <1> QED
    BY <1>2, <1>4, <1>6, <1>7 DEF IInv

(* A slot is served: it was one of those to serve, no other slot waits for *)
(* the same client, and the line is an order or the client's last.         *)
LEMMA ReadTakes ==
  ASSUME IInv, NEW c \in Clients, NEW line, Read(c, line)
  PROVE  /\ scan \in Slots /\ clientfd[scan] # -1 /\ conn[c] = "open" /\ pc = "scan"
         /\ \A d \in Clients : inbox'[d] = IF d = c THEN <<>> ELSE inbox[d]
         /\ inbox' \in [Clients -> Seq(Lines)]
         /\ nready' \in Nat /\ nready' = Cardinality(ToServe \ {scan})
         /\ \A i \in ToServe \ {scan} : \E d \in Clients \ {c} :
               fd[d] = clientfd[i] /\ inbox[d] # <<>>
         /\ line \in Orders => ~parting[c] /\ Len(pending[c]) >= 1
         /\ line \notin Orders => parting[c]
  <1>1. scan \in Slots /\ scan \in Nat
    BY DEF Read, Scanning, IInv, TypeOK, Slots
  <1>2. clientfd[scan] # -1 /\ fd[c] = clientfd[scan]
    BY DEF Read, Hit
  <1>3. conn[c] = "open"
    BY <1>2 DEF IInv, Slotted
  <1>4. /\ \A d \in Clients : inbox'[d] = IF d = c THEN <<>> ELSE inbox[d]
        /\ inbox' \in [Clients -> Seq(Lines)]
    BY DEF Read, IInv, TypeOK
  <1>5. pc = "scan" /\ scan \in ToServe
    BY <1>1 DEF Read, Scanning, ToServe
  <1>6. nready' \in Nat /\ nready' = Cardinality(ToServe \ {scan})
    <2>1. IsFiniteSet(ToServe) /\ Cardinality(ToServe) \in Nat
      BY SlotSets DEF ToServe
    <2>2. Cardinality(ToServe \ {scan}) = Cardinality(ToServe) - 1
      BY <1>5, <2>1, FS_RemoveElement
    <2>3. Cardinality(ToServe \ {scan}) \in Nat
      BY SlotSets DEF ToServe
    <2>4. nready = Cardinality(ToServe) /\ nready' = nready - 1
      BY <1>5 DEF IInv, ReadyAccounted, Read
    <2> QED
      BY <2>1, <2>2, <2>3, <2>4
  <1>7. \A i \in ToServe \ {scan} : \E d \in Clients \ {c} :
           fd[d] = clientfd[i] /\ inbox[d] # <<>>
    <2> SUFFICES ASSUME NEW i \in ToServe \ {scan}
                 PROVE  \E d \in Clients \ {c} : fd[d] = clientfd[i] /\ inbox[d] # <<>>
      OBVIOUS
    <2>1. PICK d \in Clients : fd[d] = clientfd[i] /\ inbox[d] # <<>>
      BY <1>5 DEF IInv, ReadyAccounted
    <2>2. i \in Slots /\ i # scan
      BY DEF ToServe
    <2>3. d # c
      BY <1>1, <1>2, <2>1, <2>2 DEF IInv, Slotted
    <2> QED
      BY <2>1, <2>3
  <1>8. inbox[c] # <<>> /\ line = Head(inbox[c]) /\ inbox[c] \in Seq(Lines)
    BY DEF Read, IInv, TypeOK
  <1>9. CASE ~parting[c]
    <2>1. inbox[c] \in Seq(Orders) /\ UnderWay(c) = 0 /\ Len(inbox[c]) + 0 <= Len(pending[c])
      BY <1>5, <1>9 DEF IInv, Answerable, UnderWay, Answering
    <2>2. Len(inbox[c]) \in Nat /\ Len(inbox[c]) # 0
      BY <1>8, <2>1, EmptySeq
    <2>3. line \in Orders
      BY <1>8, <2>1
    <2>4. Len(pending[c]) \in Nat
      BY DEF IInv, TypeOK
    <2>5. Len(pending[c]) >= 1
      BY <2>1, <2>2, <2>4
    <2> QED
      BY <1>1, <1>2, <1>3, <1>4, <1>5, <1>6, <1>7, <1>9, <2>3, <2>5
  <1>10. CASE parting[c]
    <2>1. inbox[c] \in {<<ExitLine>>, <<EndOfFile>>}
      BY <1>8, <1>10 DEF IInv, Answerable
    <2>2. line \notin Orders
      BY <1>8, <2>1, LastLines
    <2> QED
      BY <1>1, <1>2, <1>3, <1>4, <1>5, <1>6, <1>7, <1>10, <2>2
  <1> QED
    BY <1>9, <1>10

(* An order is carried out, whatever it does to the stock.                 *)
LEMMA ServeStep ==
  ASSUME IInv, NEW c \in Clients, NEW o \in Orders, Serve(c, o),
         left' \in [Items -> Int], ret' \in {"bought", "not_enough", "sold", "shown"}
  PROVE  IInv'
  <1>1. /\ Read(c, o) /\ pc' = "write"
        /\ UNCHANGED <<conn, fd, pending, todo, parting, clientfd, read_set,
                       ready_set, maxi, maxfd, scan, file, unsaved>>
    BY DEF Serve
  <1>2. /\ scan \in Slots /\ clientfd[scan] # -1 /\ conn[c] = "open" /\ pc = "scan"
        /\ \A d \in Clients : inbox'[d] = IF d = c THEN <<>> ELSE inbox[d]
        /\ inbox' \in [Clients -> Seq(Lines)]
        /\ nready' \in Nat /\ nready' = Cardinality(ToServe \ {scan})
        /\ \A i \in ToServe \ {scan} : \E d \in Clients \ {c} :
              fd[d] = clientfd[i] /\ inbox[d] # <<>>
        /\ ~parting[c] /\ Len(pending[c]) >= 1
    BY <1>1, ReadTakes
  <1>3. fd[c] = clientfd[scan] /\ scan <= maxi
    BY <1>1 DEF Read, Scanning
  <1>4. TypeOK'
    BY <1>1, <1>2 DEF IInv, TypeOK
  <1>5. Slotted'
    BY <1>1 DEF IInv, Slotted
  <1>6. Answerable'
    <2> SUFFICES ASSUME NEW d \in Clients
                 PROVE  /\ conn[d] \in {"away", "closed"} => inbox'[d] = <<>>
                        /\ IF parting[d]
                           THEN /\ pending[d] = <<>>
                                /\ inbox'[d] \in {<<>>, <<ExitLine>>, <<EndOfFile>>}
                                /\ ~Answering(d)'
                           ELSE /\ inbox'[d] \in Seq(Orders)
                                /\ Len(inbox'[d]) + UnderWay(d)' <= Len(pending[d])
      BY <1>1 DEF Answerable
    <2>1. CASE d # c
      <3>1. ~Answering(d)' /\ UnderWay(d)' = 0 /\ UnderWay(d) = 0
        BY <1>1, <1>2, <1>3, <2>1 DEF UnderWay, Answering, IInv, Slotted
      <3> QED
        BY <1>2, <2>1, <3>1 DEF IInv, Answerable
    <2>2. CASE d = c
      <3>1. UnderWay(c)' \in {0, 1}
        BY DEF UnderWay
      <3>2. inbox'[c] = <<>> /\ Len(inbox'[c]) = 0 /\ inbox'[c] \in Seq(Orders)
        BY <1>2
      <3>3. Len(pending[c]) \in Nat
        BY DEF IInv, TypeOK
      <3> QED
        BY <1>2, <2>2, <3>1, <3>2, <3>3
    <2> QED
      BY <2>1, <2>2
  <1>7. Round'
    BY <1>1, <1>2, <1>3 DEF Round
  <1>8. ToServe' = ToServe \ {scan}
    <2>1. \A i \in Slots : Hit(i)' <=> Hit(i)
      BY <1>1 DEF Hit
    <2>2. \A i \in Slots : i > scan => i # scan
      BY <1>2 DEF Slots
    <2> QED
      BY <1>1, <1>2, <2>1, <2>2 DEF ToServe
  <1>9. ReadyAccounted'
    <2>1. \A i \in ToServe' : \E d \in Clients : fd'[d] = clientfd'[i] /\ inbox'[d] # <<>>
      <3> SUFFICES ASSUME NEW i \in ToServe \ {scan}
                   PROVE  \E d \in Clients : fd'[d] = clientfd'[i] /\ inbox'[d] # <<>>
        BY <1>8
      <3>1. PICK d \in Clients \ {c} : fd[d] = clientfd[i] /\ inbox[d] # <<>>
        BY <1>2
      <3> QED
        BY <1>1, <1>2, <3>1
    <2> QED
      BY <1>1, <1>2, <1>8, <2>1 DEF ReadyAccounted
  <1>10. SavedWhenQuiet'
    BY <1>1, <1>2 DEF SavedWhenQuiet, Open
  <1> QED
    BY <1>4, <1>5, <1>6, <1>7, <1>9, <1>10 DEF IInv

LEMMA BuyStep ==
  ASSUME IInv, NEW c \in Clients, NEW o \in Orders, Buy(c, o)
  PROVE  IInv'
  <1>1. PICK i \in Items : left[i] >= o.cnt /\ left' = [left EXCEPT ![i] = @ - o.cnt]
    BY DEF Buy, Entry
  <1>2. left[i] - o.cnt \in Int
    BY <1>1 DEF IInv, TypeOK
  <1>3. left' \in [Items -> Int] /\ ret' = "bought"
    BY <1>1, <1>2 DEF IInv, TypeOK, Buy
  <1> QED
    BY <1>3, ServeStep DEF Buy

LEMMA BuyRefusedStep ==
  ASSUME IInv, NEW c \in Clients, NEW o \in Orders, BuyRefused(c, o)
  PROVE  IInv'
  BY ServeStep DEF BuyRefused, IInv, TypeOK

LEMMA SellStep ==
  ASSUME IInv, NEW c \in Clients, NEW o \in Orders, Sell(c, o)
  PROVE  IInv'
  <1>1. \A i \in Items : left[i] \in Int /\ left[i] + o.cnt \in Int
    BY DEF IInv, TypeOK
  <1>2. left' \in [Items -> Int] /\ ret' = "sold"
    BY <1>1 DEF Sell
  <1> QED
    BY <1>2, ServeStep DEF Sell

LEMMA ShowStep ==
  ASSUME IInv, NEW c \in Clients, NEW o \in Orders, Show(c, o)
  PROVE  IInv'
  BY ServeStep DEF Show, IInv, TypeOK

(* A line that is cut short ends the server: nothing is left to serve.     *)
LEMMA CutShortStep ==
  ASSUME IInv, NEW c \in Clients, NEW o \in Orders, CutShort(c, o)
  PROVE  IInv'
  <1>1. /\ Read(c, o) /\ pc' = "crashed"
        /\ UNCHANGED <<conn, fd, pending, todo, parting, clientfd, read_set,
                       ready_set, maxi, maxfd, scan, ret, left, file, unsaved>>
    BY DEF CutShort
  <1>2. /\ \A d \in Clients : inbox'[d] = IF d = c THEN <<>> ELSE inbox[d]
        /\ inbox' \in [Clients -> Seq(Lines)]
        /\ nready' \in Nat /\ pc = "scan"
    BY <1>1, ReadTakes
  <1>3. TypeOK'
    BY <1>1, <1>2 DEF IInv, TypeOK
  <1>4. Slotted'
    BY <1>1 DEF IInv, Slotted
  <1>5. Answerable'
    <2>1. \A d \in Clients : ~Answering(d)' /\ UnderWay(d)' = 0 /\ UnderWay(d) = 0
      BY <1>1, <1>2 DEF UnderWay, Answering
    <2>2. \A d \in Clients : <<>> \in Seq(Orders) /\ Len(<<>>) + 0 = 0 /\ 0 <= Len(pending[d])
      BY DEF IInv, TypeOK
    <2>3. Answerable
      BY DEF IInv
    <2> QED
      BY <1>1, <1>2, <2>1, <2>2, <2>3 DEF Answerable
  <1>6. Round' /\ ReadyAccounted' /\ SavedWhenQuiet'
    BY <1>1 DEF IInv, Round, ReadyAccounted, SavedWhenQuiet, Open
  <1> QED
    BY <1>3, <1>4, <1>5, <1>6 DEF IInv

(* The answer is written, and the scan goes on.                            *)
LEMMA WriteStep ==
  ASSUME IInv, NEW c \in Clients, Write(c)
  PROVE  IInv'
  <1>1. /\ pc = "write" /\ pc' = "scan" /\ fd[c] = clientfd[scan] /\ ret' = "none"
        /\ UNCHANGED <<conn, fd, inbox, todo, parting, clientfd, read_set, ready_set,
                       nready, maxi, maxfd, left, file, unsaved>>
    BY DEF Write, poolVars
  <1>2. scan \in Slots /\ scan \in Nat /\ clientfd[scan] # -1 /\ scan' = scan + 1
    BY <1>1 DEF IInv, Round, TypeOK, Slots, Write
  <1>3. scan' \in 0 .. SetSize
    BY <1>2 DEF Slots
  <1>4. Answering(c) /\ UnderWay(c) = 1
    BY <1>1 DEF Answering, UnderWay
  <1>5. /\ ~parting[c] /\ inbox[c] \in Seq(Orders) /\ pending[c] \in Seq(Orders)
        /\ Len(inbox[c]) + 1 <= Len(pending[c])
    <2>1. pending[c] \in Seq(Orders)
      BY DEF IInv, TypeOK
    <2> QED
      BY <1>4, <2>1 DEF IInv, Answerable
  <1>6. /\ Tail(pending[c]) \in Seq(Orders) /\ Len(Tail(pending[c])) = Len(pending[c]) - 1
        /\ Len(inbox[c]) \in Nat /\ Len(pending[c]) \in Nat
    <2>1. Len(inbox[c]) \in Nat /\ Len(pending[c]) \in Nat
      BY <1>5
    <2>2. pending[c] # <<>>
      BY <1>5, <2>1, EmptySeq
    <2> QED
      BY <1>5, <2>1, <2>2, HeadTailProperties
  <1>7. /\ \A d \in Clients : pending'[d] = IF d = c THEN Tail(pending[c]) ELSE pending[d]
        /\ pending' \in [Clients -> Seq(Orders)]
    BY <1>6 DEF Write, IInv, TypeOK
  <1>8. TypeOK'
    BY <1>1, <1>3, <1>7 DEF IInv, TypeOK
  <1>9. Slotted'
    BY <1>1 DEF IInv, Slotted
  <1>10. Answerable'
    <2> SUFFICES ASSUME NEW d \in Clients
                 PROVE  /\ conn[d] \in {"away", "closed"} => inbox[d] = <<>>
                        /\ IF parting[d]
                           THEN /\ pending'[d] = <<>>
                                /\ inbox[d] \in {<<>>, <<ExitLine>>, <<EndOfFile>>}
                                /\ ~Answering(d)'
                           ELSE /\ inbox[d] \in Seq(Orders)
                                /\ Len(inbox[d]) + UnderWay(d)' <= Len(pending'[d])
      BY <1>1 DEF Answerable
    <2>1. ~Answering(d)' /\ UnderWay(d)' = 0
      BY <1>1 DEF UnderWay, Answering
    <2>2. CASE d # c
      <3>1. ~Answering(d) /\ UnderWay(d) = 0
        BY <1>1, <1>2, <2>2 DEF UnderWay, Answering, IInv, Slotted
      <3> QED
        BY <1>7, <2>1, <2>2, <3>1 DEF IInv, Answerable
    <2>3. CASE d = c
      <3>1. conn[c] \in {"away", "closed"} => inbox[c] = <<>>
        BY DEF IInv, Answerable
      <3>2. Len(inbox[c]) + 0 <= Len(Tail(pending[c]))
        BY <1>5, <1>6
      <3> QED
        BY <1>5, <1>7, <2>1, <2>3, <3>1, <3>2
    <2> QED
      BY <2>2, <2>3
  <1>11. Round'
    BY <1>1 DEF Round
  <1>12. ToServe' = ToServe
    <2>1. \A i \in Slots : Hit(i)' <=> Hit(i)
      BY <1>1 DEF Hit
    <2>2. \A i \in Slots : i > scan <=> i > scan + 1 \/ i = scan + 1
      BY <1>2 DEF Slots
    <2> QED
      BY <1>1, <1>2, <2>1, <2>2 DEF ToServe
  <1>13. ReadyAccounted'
    <2>1. \A i \in ToServe : \E d \in Clients : fd[d] = clientfd[i] /\ inbox[d] # <<>>
      BY <1>1 DEF IInv, ReadyAccounted
    <2>2. nready = Cardinality(ToServe)
      BY <1>1 DEF IInv, ReadyAccounted
    <2> QED
      BY <1>1, <1>12, <2>1, <2>2 DEF ReadyAccounted
  <1>14. SavedWhenQuiet'
    BY <1>1 DEF IInv, SavedWhenQuiet, Open
  <1> QED
    BY <1>8, <1>9, <1>10, <1>11, <1>13, <1>14 DEF IInv

(* close_connection empties the slot, the descriptor set and the client's  *)
(* place among the open connections together, and saves the stock.         *)
LEMMA CloseStep ==
  ASSUME IInv, NEW c \in Clients, NEW line \in {ExitLine, EndOfFile},
         Read(c, line), CloseConnection(c, scan),
         UNCHANGED <<pending, todo, parting, maxi, maxfd, left>>
  PROVE  /\ Slotted'
         /\ conn' \in [Clients -> {"absent", "away", "waiting", "open", "closed"}]
         /\ fd' \in [Clients -> Int] /\ clientfd' \in [Slots -> Int]
         /\ read_set' \subseteq read_set
         /\ \A d \in Clients : fd'[d] = IF d = c THEN -1 ELSE fd[d]
         /\ \A i \in Slots : clientfd'[i] = IF i = scan THEN -1 ELSE clientfd[i]
         /\ pc' # "write" => Answerable'
         /\ SavedWhenQuiet' /\ file' \in [Items -> Int] /\ unsaved' \in BOOLEAN
  <1>1. line \notin Orders
    BY LastLines
  <1>2. /\ scan \in Slots /\ clientfd[scan] # -1 /\ conn[c] = "open" /\ pc = "scan"
        /\ \A d \in Clients : inbox'[d] = IF d = c THEN <<>> ELSE inbox[d]
        /\ parting[c]
    BY <1>1, ReadTakes
  <1>3. fd[c] = clientfd[scan] /\ fd[c] # -1
    BY <1>2 DEF Read
  <1>4. /\ \A d \in Clients : fd'[d] = IF d = c THEN -1 ELSE fd[d]
        /\ \A d \in Clients : conn'[d] = IF d = c THEN "closed" ELSE conn[d]
        /\ \A i \in Slots : clientfd'[i] = IF i = scan THEN -1 ELSE clientfd[i]
        /\ read_set' = read_set \ {fd[c]}
        /\ conn' \in [Clients -> {"absent", "away", "waiting", "open", "closed"}]
        /\ fd' \in [Clients -> Int] /\ clientfd' \in [Slots -> Int]
    BY <1>2 DEF CloseConnection, IInv, TypeOK
  <1>5. Slotted'
    <2> USE DEF IInv
    <2>1. \A d \in Clients : IF conn'[d] = "open" THEN fd'[d] > listenfd ELSE fd'[d] = -1
      BY <1>4 DEF Slotted
    <2>2. \A d, e \in Clients : fd'[d] = fd'[e] /\ fd'[d] # -1 => d = e
      BY <1>4 DEF Slotted
    <2>3. \A i \in Slots : clientfd'[i] # -1 =>
             /\ clientfd'[i] > listenfd
             /\ i <= maxi'
             /\ \E d \in Clients : fd'[d] = clientfd'[i]
      <3> SUFFICES ASSUME NEW i \in Slots, clientfd'[i] # -1
                   PROVE  /\ clientfd'[i] > listenfd
                          /\ i <= maxi
                          /\ \E d \in Clients : fd'[d] = clientfd'[i]
        OBVIOUS
      <3>1. i # scan /\ clientfd'[i] = clientfd[i]
        BY <1>4
      <3>2. clientfd[i] # -1 /\ clientfd[i] # clientfd[scan]
        BY <1>2, <3>1 DEF Slotted
      <3>3. PICK d \in Clients : fd[d] = clientfd[i]
        BY <3>2 DEF Slotted
      <3>4. fd'[d] = fd[d]
        BY <1>3, <1>4, <3>2, <3>3
      <3> QED
        BY <3>1, <3>2, <3>3, <3>4 DEF Slotted
    <2>4. \A i, j \in Slots : clientfd'[i] = clientfd'[j] /\ clientfd'[i] # -1 => i = j
      BY <1>4 DEF Slotted
    <2>5. \A d \in Clients : fd'[d] # -1 => \E i \in Slots : clientfd'[i] = fd'[d]
      <3> SUFFICES ASSUME NEW d \in Clients, fd'[d] # -1
                   PROVE  \E i \in Slots : clientfd'[i] = fd'[d]
        OBVIOUS
      <3>1. d # c /\ fd'[d] = fd[d] /\ fd[d] # fd[c]
        BY <1>3, <1>4 DEF Slotted
      <3>2. PICK i \in Slots : clientfd[i] = fd[d]
        BY <3>1 DEF Slotted
      <3>3. i # scan
        BY <1>3, <3>1, <3>2
      <3> QED
        BY <1>4, <3>1, <3>2, <3>3
    <2>6. \A d : d \in read_set' <=> d = listenfd \/ \E e \in Clients : fd'[e] = d /\ d # -1
      <3>1. fd[c] # listenfd
        BY <1>2 DEF Slotted, listenfd
      <3>2. \A d : d # fd[c] =>
               ((\E e \in Clients : fd'[e] = d /\ d # -1) <=> \E e \in Clients : fd[e] = d /\ d # -1)
        BY <1>4
      <3>3. ~\E e \in Clients : fd'[e] = fd[c] /\ fd[c] # -1
        BY <1>3, <1>4 DEF Slotted
      <3> QED
        BY <1>4, <3>1, <3>2, <3>3 DEF Slotted
    <2>7. \A d \in read_set' : d <= maxfd'
      BY <1>4 DEF Slotted
    <2> QED
      BY <2>1, <2>2, <2>3, <2>4, <2>5, <2>6, <2>7 DEF Slotted
  <1>6. ASSUME pc' # "write" PROVE Answerable'
    <2>1. \A d \in Clients : ~Answering(d)' /\ UnderWay(d)' = 0 /\ UnderWay(d) = 0
      BY <1>2, <1>6 DEF UnderWay, Answering
    <2>2. Answerable
      BY DEF IInv
    <2> QED
      BY <1>2, <1>4, <2>1, <2>2 DEF Answerable
  <1>7. SavedWhenQuiet' /\ file' \in [Items -> Int] /\ unsaved' \in BOOLEAN
    BY DEF CloseConnection, savestock, SavedWhenQuiet, IInv, TypeOK
  <1> QED
    BY <1>4, <1>5, <1>6, <1>7

LEMMA ReadExitStep ==
  ASSUME IInv, NEW c \in Clients, ReadExit(c)
  PROVE  IInv'
  <1>1. /\ Read(c, ExitLine) /\ CloseConnection(c, scan) /\ pc' = "select"
        /\ UNCHANGED <<pending, todo, parting, ready_set, maxi, maxfd, scan, ret, left>>
    BY DEF ReadExit
  <1>2. inbox' \in [Clients -> Seq(Lines)] /\ nready' \in Nat
    BY <1>1, ReadTakes
  <1>3. /\ Slotted' /\ Answerable' /\ SavedWhenQuiet'
        /\ conn' \in [Clients -> {"absent", "away", "waiting", "open", "closed"}]
        /\ fd' \in [Clients -> Int] /\ clientfd' \in [Slots -> Int]
        /\ read_set' \subseteq read_set /\ file' \in [Items -> Int] /\ unsaved' \in BOOLEAN
    BY <1>1, CloseStep
  <1>4. TypeOK'
    BY <1>1, <1>2, <1>3 DEF IInv, TypeOK
  <1>5. Round' /\ ReadyAccounted'
    BY <1>1 DEF Round, ReadyAccounted
  <1> QED
    BY <1>3, <1>4, <1>5 DEF IInv

LEMMA ReadEndOfFileStep ==
  ASSUME IInv, NEW c \in Clients, ReadEndOfFile(c)
  PROVE  IInv'
  <1>1. /\ Read(c, EndOfFile) /\ CloseConnection(c, scan) /\ scan' = scan + 1
        /\ UNCHANGED <<pending, todo, parting, ready_set, maxi, maxfd, pc, ret, left>>
    BY DEF ReadEndOfFile
  <1>2. /\ scan \in Slots /\ pc = "scan"
        /\ \A d \in Clients : inbox'[d] = IF d = c THEN <<>> ELSE inbox[d]
        /\ inbox' \in [Clients -> Seq(Lines)]
        /\ nready' \in Nat /\ nready' = Cardinality(ToServe \ {scan})
        /\ \A i \in ToServe \ {scan} : \E d \in Clients \ {c} :
              fd[d] = clientfd[i] /\ inbox[d] # <<>>
    BY <1>1, ReadTakes
  <1>3. /\ Slotted' /\ Answerable' /\ SavedWhenQuiet'
        /\ conn' \in [Clients -> {"absent", "away", "waiting", "open", "closed"}]
        /\ fd' \in [Clients -> Int] /\ clientfd' \in [Slots -> Int]
        /\ read_set' \subseteq read_set /\ file' \in [Items -> Int] /\ unsaved' \in BOOLEAN
        /\ \A d \in Clients : fd'[d] = IF d = c THEN -1 ELSE fd[d]
        /\ \A i \in Slots : clientfd'[i] = IF i = scan THEN -1 ELSE clientfd[i]
    BY <1>1, <1>2, CloseStep
  <1>4. TypeOK'
    <2>1. scan' \in 0 .. SetSize
      BY <1>1, <1>2 DEF Slots
    <2> QED
      BY <1>1, <1>2, <1>3, <2>1 DEF IInv, TypeOK
  <1>5. Round'
    BY <1>1, <1>2 DEF Round
  <1>6. ToServe' = ToServe \ {scan}
    <2>1. \A i \in Slots : Hit(i)' <=> Hit(i) /\ i # scan
      BY <1>1, <1>2, <1>3 DEF Hit
    <2>2. \A i \in Slots : i # scan => (i > scan <=> i > scan + 1 \/ i = scan + 1)
      BY <1>2 DEF Slots
    <2> QED
      BY <1>1, <1>2, <2>1, <2>2 DEF ToServe
  <1>7. ReadyAccounted'
    <2>1. \A i \in ToServe' : \E d \in Clients : fd'[d] = clientfd'[i] /\ inbox'[d] # <<>>
      <3> SUFFICES ASSUME NEW i \in ToServe \ {scan}
                   PROVE  \E d \in Clients : fd'[d] = clientfd'[i] /\ inbox'[d] # <<>>
        BY <1>6
      <3>1. PICK d \in Clients \ {c} : fd[d] = clientfd[i] /\ inbox[d] # <<>>
        BY <1>2
      <3>2. i \in Slots /\ i # scan
        BY DEF ToServe
      <3> QED
        BY <1>2, <1>3, <3>1, <3>2
    <2> QED
      BY <1>1, <1>2, <1>6, <2>1 DEF ReadyAccounted
  <1> QED
    BY <1>3, <1>4, <1>5, <1>7 DEF IInv

----------------------------------------------------------------------------
(* The specification *)

LEMMA InitIInv == Init => IInv
  <1> SUFFICES ASSUME Init PROVE IInv
    OBVIOUS
  <1> USE DEF Init
  <1>1. TypeOK
    <2>1. PICK load \in Loads :
            /\ conn = [c \in Clients |-> IF c \in load.clients THEN "away" ELSE "absent"]
            /\ todo = load.lines
      OBVIOUS
    <2>2. todo \in Nat
      BY <2>1, LoadsAssumption
    <2>3. conn \in [Clients -> {"absent", "away", "waiting", "open", "closed"}]
      BY <2>1
    <2>4. inbox \in [Clients -> Seq(Lines)] /\ pending \in [Clients -> Seq(Orders)]
      <3>1. <<>> \in Seq(Lines) /\ <<>> \in Seq(Orders)
        OBVIOUS
      <3> QED
        BY <3>1
    <2>5. fd \in [Clients -> Int] /\ parting \in [Clients -> BOOLEAN]
      OBVIOUS
    <2>6. /\ clientfd \in [Slots -> Int]
          /\ read_set \subseteq Nat /\ ready_set \subseteq Nat /\ nready \in Nat
          /\ maxi \in -1 .. SetSize - 1 /\ maxfd \in Nat /\ scan \in 0 .. SetSize
      BY DEF listenfd
    <2>7. left \in [Items -> Int] /\ file \in [Items -> Int] /\ unsaved \in BOOLEAN
      OBVIOUS
    <2>8. pc = "select" /\ ret = "none"
      OBVIOUS
    <2> QED
      BY <2>2, <2>3, <2>4, <2>5, <2>6, <2>7, <2>8 DEF TypeOK
  <1>2. Slotted
    BY DEF Slotted, listenfd
  <1>3. Answerable
    <2>1. \A c \in Clients : ~Answering(c) /\ UnderWay(c) = 0
      BY DEF Answering, UnderWay
    <2>2. Len(<<>>) + 0 <= Len(<<>>) /\ <<>> \in Seq(Orders)
      OBVIOUS
    <2> QED
      BY <2>1, <2>2 DEF Answerable
  <1>4. Round /\ ReadyAccounted /\ SavedWhenQuiet
    BY DEF Round, ReadyAccounted, SavedWhenQuiet, Open
  <1> QED
    BY <1>1, <1>2, <1>3, <1>4 DEF IInv

LEMMA StutterStep ==
  ASSUME IInv, UNCHANGED vars
  PROVE  IInv'
  <1> USE DEF vars, netVars, poolVars
  <1>1. TypeOK' /\ Slotted' /\ Round'
    BY DEF IInv, TypeOK, Slotted, Round
  <1>2. \A c \in Clients : (Answering(c)' <=> Answering(c)) /\ UnderWay(c)' = UnderWay(c)
    BY DEF Answering, UnderWay
  <1>3. Answerable'
    BY <1>2 DEF IInv, Answerable
  <1>4. ReadyAccounted'
    BY AccountsStay DEF IInv, Backlog
  <1>5. SavedWhenQuiet'
    BY DEF IInv, SavedWhenQuiet, Open
  <1> QED
    BY <1>1, <1>3, <1>4, <1>5 DEF IInv

LEMMA IInvStep == IInv /\ [Next]_vars => IInv'
  <1> SUFFICES ASSUME IInv, [Next]_vars PROVE IInv'
    OBVIOUS
  <1>1. ASSUME NEW c \in Clients, Client(c) PROVE IInv'
    BY <1>1, ConnectStep, SendStep, LeaveStep DEF Client
  <1>2. CASE Select
    BY <1>2, SelectStep
  <1>3. ASSUME NEW c \in Clients, Accept(c) \/ AcceptTooMany(c) PROVE IInv'
    BY <1>3, AcceptStep, AcceptTooManyStep
  <1>4. CASE ScanEnd \/ ScanSkip
    BY <1>4, ScanEndStep, ScanSkipStep
  <1>5. ASSUME NEW c \in Clients, NEW o \in Orders, process_client_request(c, o) \/ Show(c, o)
        PROVE  IInv'
    BY <1>5, BuyStep, BuyRefusedStep, SellStep, CutShortStep, ShowStep
       DEF process_client_request
  <1>6. ASSUME NEW c \in Clients, Write(c) \/ ReadExit(c) \/ ReadEndOfFile(c) PROVE IInv'
    BY <1>6, WriteStep, ReadExitStep, ReadEndOfFileStep
  <1>7. CASE UNCHANGED vars
    BY <1>7, StutterStep
  <1> QED
    BY <1>1, <1>2, <1>3, <1>4, <1>5, <1>6, <1>7 DEF Next, Server, CheckClients

(* The inductive invariant holds in every reachable state.                 *)
THEOREM IInvHolds == Spec => []IInv
  BY InitIInv, IInvStep, PTL DEF Spec

(* The fields of the server and of its clients have their types: above all,*)
(* nready never drops below zero and maxi and the scan stay in the pool.   *)
THEOREM TypeCorrect == Spec => []TypeOK
  <1>1. IInv => TypeOK
    BY DEF IInv
  <1> QED
    BY <1>1, IInvHolds, PTL

(* add_client and close_connection keep clientfd, read_set, maxfd and maxi *)
(* in agreement with one another and with the open connections.            *)
THEOREM PoolAgrees == Spec => []PoolConsistent
  <1>1. IInv => PoolConsistent
    <2> SUFFICES ASSUME TypeOK, Slotted PROVE PoolConsistent
      BY DEF IInv
    <2>1. \A i \in Slots : i \in Used <=> clientfd[i] # -1
      BY DEF Used, Slotted, TypeOK, listenfd
    <2>2. \A c \in Clients : c \in Open <=> fd[c] # -1
      BY DEF Open, Slotted, listenfd
    <2>3. {clientfd[i] : i \in Used} = {fd[c] : c \in Open}
      BY <2>1, <2>2 DEF Slotted, Used, Open
    <2>4. read_set = {listenfd} \cup {fd[c] : c \in Open}
      BY <2>2 DEF Slotted, Open
    <2>5. /\ \A i, j \in Used : clientfd[i] = clientfd[j] => i = j
          /\ \A d \in read_set : d <= maxfd
          /\ \A i \in Used : i <= maxi
      BY <2>1 DEF Slotted, Used
    <2> QED
      BY <2>3, <2>4, <2>5 DEF PoolConsistent
  <1> QED
    BY <1>1, IInvHolds, PTL

(* check_clients counts down to zero exactly when it has served everybody  *)
(* select found, none of whom has lost its data in the meantime: neither   *)
(* accept nor Rio_readlineb blocks the one thread of the server.           *)
THEOREM RoundAccounted == Spec => []ReadyAccounted
  <1>1. IInv => ReadyAccounted
    BY DEF IInv
  <1> QED
    BY <1>1, IInvHolds, PTL

(* Whenever nobody is connected, stock.txt holds the stock, unless the one *)
(* who left last found that the file could not be opened.                  *)
THEOREM FileCurrent == Spec => []SavedWhenQuiet
  <1>1. IInv => SavedWhenQuiet
    BY DEF IInv
  <1> QED
    BY <1>1, IInvHolds, PTL

----------------------------------------------------------------------------
(* Clients that wait for each answer (stockclient.c and multiclient.c send *)
(* a line and read its answer in turn): Window = 1.                        *)

(* What has arrived from a client that stays is the line it waits for, and *)
(* the answer being written is one.                                        *)
InStep ==
    /\ \A c \in Clients : ~parting[c] /\ inbox[c] # <<>> => inbox[c] = pending[c]
    /\ \A c \in Clients : Len(pending[c]) <= 1
    /\ pc = "write" => ret # "none"

RInv == IInv /\ InStep

LEMMA ClientInStep ==
  ASSUME Window = 1, RInv, NEW c \in Clients, Client(c)
  PROVE  InStep'
  <1>1. CASE Connect(c)
    BY <1>1 DEF Connect, RInv, InStep, serverVars, poolVars
  <1>2. ASSUME NEW o \in Orders, Send(c, o) PROVE InStep'
    <2>1. ~parting[c] /\ Len(pending[c]) < 1
      BY <1>2 DEF Send
    <2>2. pending[c] = <<>> /\ inbox[c] = <<>>
      <3>1. inbox[c] \in Seq(Orders) /\ pending[c] \in Seq(Orders)
        BY <2>1 DEF RInv, IInv, Answerable, TypeOK
      <3>2. Len(inbox[c]) + UnderWay(c) <= Len(pending[c]) /\ UnderWay(c) \in {0, 1}
        BY <2>1 DEF RInv, IInv, Answerable, UnderWay
      <3>3. Len(inbox[c]) \in Nat /\ Len(pending[c]) \in Nat
        BY <3>1
      <3>4. Len(pending[c]) = 0 /\ Len(inbox[c]) = 0
        BY <2>1, <3>2, <3>3
      <3> QED
        BY <3>1, <3>4, EmptySeq
    <2>3. \A d \in Clients : /\ inbox'[d] = IF d = c THEN <<o>> ELSE inbox[d]
                             /\ pending'[d] = IF d = c THEN <<o>> ELSE pending[d]
      BY <1>2, <2>2 DEF Send, RInv, IInv, TypeOK
    <2>4. Len(<<o>>) <= 1
      OBVIOUS
    <2> QED
      BY <1>2, <2>3, <2>4 DEF Send, RInv, InStep, serverVars
  <1>3. ASSUME NEW line \in {ExitLine, EndOfFile}, Leave(c, line) PROVE InStep'
    <2>1. \A d \in Clients : d # c => inbox'[d] = inbox[d] /\ parting'[d] = parting[d]
      BY <1>3 DEF Leave, RInv, IInv, TypeOK
    <2>2. parting'[c]
      BY <1>3 DEF Leave, RInv, IInv, TypeOK
    <2> QED
      BY <1>3, <2>1, <2>2 DEF Leave, RInv, InStep, serverVars
  <1> QED
    BY <1>1, <1>2, <1>3 DEF Client

(* Reading a line empties the inbox.                                       *)
LEMMA ReadInStep ==
  ASSUME RInv, NEW c \in Clients, NEW line, Read(c, line),
         UNCHANGED <<pending, parting>>, pc' = "write" => ret' # "none"
  PROVE  InStep'
  <1>1. \A d \in Clients : inbox'[d] = IF d = c THEN <<>> ELSE inbox[d]
    BY DEF Read, RInv, IInv, TypeOK
  <1> QED
    BY <1>1 DEF RInv, InStep

LEMMA WriteInStep ==
  ASSUME RInv, NEW c \in Clients, Write(c)
  PROVE  InStep' /\ pending[c] # <<>> /\ Tail(pending[c]) = <<>>
  <1>1. Answering(c) /\ UnderWay(c) = 1
    BY DEF Write, Answering, UnderWay
  <1>2. /\ ~parting[c] /\ inbox[c] \in Seq(Orders) /\ pending[c] \in Seq(Orders)
        /\ Len(inbox[c]) + 1 <= Len(pending[c]) /\ Len(pending[c]) <= 1
    BY <1>1 DEF RInv, IInv, Answerable, TypeOK, InStep
  <1>3. Len(inbox[c]) \in Nat /\ Len(pending[c]) \in Nat
    BY <1>2
  <1>4. Len(inbox[c]) = 0 /\ Len(pending[c]) = 1
    <2> DEFINE m == Len(inbox[c])
               n == Len(pending[c])
    <2>1. m \in Nat /\ n \in Nat /\ m + 1 <= n /\ n <= 1
      BY <1>2, <1>3
    <2> HIDE DEF m, n
    <2>2. m = 0 /\ n = 1
      BY <2>1
    <2> QED
      BY <2>2 DEF m, n
  <1>5. inbox[c] = <<>> /\ pending[c] # <<>>
    <2>1. pending[c] = <<>> => Len(pending[c]) = 0
      BY EmptySeq
    <2> QED
      BY <1>2, <1>4, <2>1, EmptySeq
  <1>6. Tail(pending[c]) = <<>>
    <2>1. Tail(pending[c]) \in Seq(Orders) /\ Len(Tail(pending[c])) = 0
      BY <1>2, <1>4, <1>5, HeadTailProperties
    <2> QED
      BY <2>1, EmptySeq
  <1>7. \A d \in Clients : pending'[d] = IF d = c THEN <<>> ELSE pending[d]
    BY <1>6 DEF Write, RInv, IInv, TypeOK
  <1>8. Len(<<>>) <= 1
    OBVIOUS
  <1> QED
    BY <1>5, <1>6, <1>7, <1>8 DEF Write, RInv, InStep

(* Nothing arrives, nothing is awaited and no answer is under way.         *)
LEMMA InStepStays ==
  ASSUME RInv, UNCHANGED <<inbox, pending, parting>>, pc' = "write" => ret' # "none"
  PROVE  InStep'
  <1>1. \A c \in Clients : Len(pending'[c]) <= 1
    BY DEF RInv, InStep
  <1> QED
    BY <1>1 DEF RInv, InStep

LEMMA RInvStep ==
  ASSUME Window = 1, RInv, [Next]_vars
  PROVE  RInv'
  <1>1. SUFFICES InStep'
    BY IInvStep DEF RInv
  <1>2. ASSUME NEW c \in Clients, Client(c) PROVE InStep'
    BY <1>2, ClientInStep
  <1>3. CASE Select
    BY <1>3, InStepStays DEF Select, netVars
  <1>4. ASSUME NEW c \in Clients, Accept(c) \/ AcceptTooMany(c) PROVE InStep'
    BY <1>4, InStepStays DEF Accept, AcceptTooMany, netVars
  <1>5. CASE ScanEnd \/ ScanSkip
    BY <1>5, InStepStays DEF ScanEnd, ScanSkip, Scanning, netVars
  <1>6. ASSUME NEW c \in Clients, NEW o \in Orders, process_client_request(c, o) \/ Show(c, o)
        PROVE  InStep'
    <2>1. /\ Read(c, o) /\ UNCHANGED <<pending, parting>>
          /\ pc' = "write" => ret' # "none"
      BY <1>6 DEF process_client_request, Buy, BuyRefused, Sell, CutShort, Show, Serve
    <2> QED
      BY <2>1, ReadInStep
  <1>7. ASSUME NEW c \in Clients, ReadExit(c) \/ ReadEndOfFile(c) PROVE InStep'
    <2>1. PICK line : Read(c, line)
      BY <1>7 DEF ReadExit, ReadEndOfFile
    <2>2. UNCHANGED <<pending, parting>> /\ pc' # "write"
      BY <1>7 DEF ReadExit, ReadEndOfFile, Read, Scanning
    <2> QED
      BY <2>1, <2>2, ReadInStep
  <1>8. ASSUME NEW c \in Clients, Write(c) PROVE InStep'
    BY <1>8, WriteInStep
  <1>9. CASE UNCHANGED vars
    BY <1>9, InStepStays DEF vars, netVars, RInv, InStep
  <1> QED
    BY <1>2, <1>3, <1>4, <1>5, <1>6, <1>7, <1>8, <1>9 DEF Next, Server, CheckClients

(* The exchange as the server stands.                                      *)
Asked == [c \in Clients |-> IF pending[c] = <<>> THEN NoOrder ELSE Head(pending[c])]
Answer == [c \in Clients |-> IF pc = "write" /\ fd[c] = clientfd[scan] THEN ret ELSE "none"]

(* Outside write no order is between its effect and its answer.            *)
LEMMA NoAnswers ==
  ASSUME NEW c \in Clients
  PROVE  /\ pc # "write" => Answer[c] = "none"
         /\ pc' # "write" => Answer'[c] = "none"
  BY DEF Answer

LEMMA Stutters ==
  ASSUME left' = left, pending' = pending, pc # "write", pc' # "write"
  PROVE  UNCHANGED Exchange!vars
  BY DEF Exchange!vars

(* A client sends its next line.                                           *)
LEMMA ClientRefines ==
  ASSUME Window = 1, RInv, NEW c \in Clients, Client(c)
  PROVE  Exchange!Next \/ UNCHANGED Exchange!vars
  <1>1. ASSUME Connect(c) \/ \E line \in {ExitLine, EndOfFile} : Leave(c, line)
        PROVE  UNCHANGED Exchange!vars
    BY <1>1 DEF Connect, Leave, serverVars, poolVars, Exchange!vars
  <1>2. ASSUME NEW o \in Orders, Send(c, o) PROVE Exchange!Next
    <2>1. pending[c] = <<>>
      <3>1. pending[c] \in Seq(Orders) /\ Len(pending[c]) < 1
        BY <1>2 DEF Send, RInv, IInv, TypeOK
      <3>2. Len(pending[c]) = 0
        BY <3>1
      <3> QED
        BY <3>1, <3>2, EmptySeq
    <2>2. \A d \in Clients : pending'[d] = IF d = c THEN <<o>> ELSE pending[d]
      BY <1>2, <2>1 DEF Send, RInv, IInv, TypeOK
    <2>3. <<o>> # <<>> /\ Head(<<o>>) = o
      OBVIOUS
    <2>4. Asked[c] = NoOrder /\ Asked' = [Asked EXCEPT ![c] = o]
      BY <2>1, <2>2, <2>3 DEF Asked
    <2>5. Answer' = Answer /\ left' = left
      BY <1>2 DEF Send, serverVars, poolVars, Answer
    <2>6. Exchange!Ask(c, o)
      BY <2>4, <2>5 DEF Exchange!Ask, Exchange!NoOrder, NoOrder, Asked, Answer
    <2> QED
      BY <2>6 DEF Exchange!Next
  <1> QED
    BY <1>1, <1>2 DEF Client

(* An order that is read is the one the client waits for.                  *)
LEMMA ServeMapped ==
  ASSUME RInv, NEW c \in Clients, NEW o \in Orders, Serve(c, o)
  PROVE  /\ Asked[c] = o /\ o # NoOrder /\ Answer[c] = "none" /\ Asked' = Asked
         /\ Answer' = [Answer EXCEPT ![c] = ret']
  <1>1. /\ Read(c, o) /\ pc' = "write"
        /\ UNCHANGED <<conn, fd, pending, parting, clientfd, scan>>
    BY DEF Serve
  <1>2. scan \in Slots /\ clientfd[scan] # -1 /\ pc = "scan" /\ ~parting[c]
    BY <1>1, ReadTakes DEF RInv
  <1>3. inbox[c] # <<>> /\ o = Head(inbox[c]) /\ fd[c] = clientfd[scan]
    BY <1>1 DEF Read
  <1>4. pending[c] # <<>> /\ o = Head(pending[c])
    BY <1>2, <1>3 DEF RInv, InStep
  <1>5. \A d \in Clients : d # c => fd[d] # clientfd[scan]
    BY <1>2, <1>3 DEF RInv, IInv, Slotted
  <1>6. Asked[c] = o /\ Asked' = Asked
    BY <1>1, <1>4 DEF Asked
  <1>7. Answer[c] = "none" /\ Answer' = [Answer EXCEPT ![c] = ret']
    BY <1>1, <1>2, <1>3, <1>5 DEF Answer
  <1> QED
    BY <1>6, <1>7, LastLines

LEMMA ServeRefines ==
  ASSUME RInv, NEW c \in Clients, NEW o \in Orders,
         Buy(c, o) \/ BuyRefused(c, o) \/ Sell(c, o) \/ Show(c, o)
  PROVE  Exchange!Next
  <1>1. Serve(c, o)
    BY DEF Buy, BuyRefused, Sell, Show
  <1>2. /\ Asked[c] = o /\ o # NoOrder /\ Answer[c] = "none" /\ Asked' = Asked
        /\ Answer' = [Answer EXCEPT ![c] = ret']
    BY <1>1, ServeMapped
  <1>3. SUFFICES \/ \E i \in Items : Exchange!Buy(c, i) \/ Exchange!Sell(c, i)
                 \/ Exchange!Refuse(c)
                 \/ Exchange!SellUnlisted(c)
                 \/ Exchange!Show(c)
    <2>1. Exchange!Execute(c)
      BY <1>2, <1>3 DEF Exchange!Execute, Exchange!NoOrder, NoOrder, Asked, Answer
    <2> QED
      BY <2>1 DEF Exchange!Next
  <1>4. CASE Buy(c, o)
    <2>1. PICK i \in Items : /\ ID[i] = o.id /\ left[i] >= o.cnt
                            /\ left' = [left EXCEPT ![i] = @ - o.cnt]
      BY <1>4 DEF Buy, Entry
    <2>2. o.op = "buy" /\ ret' = "bought"
      BY <1>4 DEF Buy
    <2>3. Exchange!Buy(c, i)
      BY <1>2, <2>1, <2>2 DEF Exchange!Buy, Asked, Answer
    <2> QED
      BY <2>3
  <1>5. CASE BuyRefused(c, o)
    <2>1. /\ o.op = "buy" /\ ret' = "not_enough" /\ left' = left
          /\ \A i \in Items : ID[i] = o.id => left[i] < o.cnt
      BY <1>5 DEF BuyRefused, Entry
    <2>2. Exchange!Refuse(c)
      BY <1>2, <2>1 DEF Exchange!Refuse, Asked, Answer
    <2> QED
      BY <2>2
  <1>6. CASE Sell(c, o)
    <2>1. /\ o.op = "sell" /\ ret' = "sold"
          /\ left' = [i \in Items |-> IF i \in Entry(o) THEN left[i] + o.cnt ELSE left[i]]
      BY <1>6 DEF Sell
    <2>2. left \in [Items -> Int]
      BY DEF RInv, IInv, TypeOK
    <2>3. CASE Entry(o) = {}
      <3>1. left' = left /\ \A i \in Items : ID[i] # o.id
        BY <2>1, <2>2, <2>3 DEF Entry
      <3>2. Exchange!SellUnlisted(c)
        BY <1>2, <2>1, <3>1 DEF Exchange!SellUnlisted, Asked, Answer
      <3> QED
        BY <3>2
    <2>4. CASE Entry(o) # {}
      <3>1. PICK i \in Items : ID[i] = o.id /\ Entry(o) = {i}
        BY <2>4 DEF Entry
      <3>2. left' = [left EXCEPT ![i] = @ + o.cnt]
        BY <2>1, <2>2, <3>1
      <3>3. Exchange!Sell(c, i)
        BY <1>2, <2>1, <3>1, <3>2 DEF Exchange!Sell, Asked, Answer
      <3> QED
        BY <3>3
    <2> QED
      BY <2>3, <2>4
  <1>7. CASE Show(c, o)
    <2>1. o.op = "show" /\ ret' = "shown" /\ left' = left
      BY <1>7 DEF Show
    <2>2. Exchange!Show(c)
      BY <1>2, <2>1 DEF Exchange!Show, Asked, Answer
    <2> QED
      BY <2>2
  <1> QED
    BY <1>4, <1>5, <1>6, <1>7

LEMMA WriteRefines ==
  ASSUME RInv, NEW c \in Clients, Write(c)
  PROVE  Exchange!Next
  <1>1. /\ pc = "write" /\ pc' = "scan" /\ fd[c] = clientfd[scan] /\ ret # "none"
        /\ left' = left
    BY DEF Write, RInv, InStep
  <1>2. pending[c] # <<>> /\ Tail(pending[c]) = <<>>
    BY WriteInStep
  <1>3. clientfd[scan] # -1 /\ \A d \in Clients : d # c => fd[d] # clientfd[scan]
    BY <1>1 DEF RInv, IInv, Round, Slotted
  <1>4. \A d \in Clients : pending'[d] = IF d = c THEN <<>> ELSE pending[d]
    BY <1>2 DEF Write, RInv, IInv, TypeOK
  <1>5. Asked' = [Asked EXCEPT ![c] = NoOrder]
    BY <1>4 DEF Asked
  <1>6. Answer[c] # "none" /\ Answer' = [Answer EXCEPT ![c] = "none"]
    BY <1>1, <1>3 DEF Answer
  <1>7. Exchange!Reply(c)
    BY <1>1, <1>5, <1>6 DEF Exchange!Reply, Exchange!NoOrder, NoOrder, Asked, Answer
  <1> QED
    BY <1>7 DEF Exchange!Next

LEMMA StepRefines ==
  ASSUME Window = 1, RInv, [Next]_vars
  PROVE  [Exchange!Next]_(Exchange!vars)
  <1>1. ASSUME NEW c \in Clients, Client(c) PROVE Exchange!Next \/ UNCHANGED Exchange!vars
    BY <1>1, ClientRefines
  <1>2. CASE Select
    BY <1>2, Stutters DEF Select, netVars
  <1>3. ASSUME NEW c \in Clients, Accept(c) \/ AcceptTooMany(c) PROVE UNCHANGED Exchange!vars
    BY <1>3, Stutters DEF Accept, AcceptTooMany, netVars
  <1>4. CASE ScanEnd \/ ScanSkip
    BY <1>4, Stutters DEF ScanEnd, ScanSkip, Scanning, netVars
  <1>5. ASSUME NEW c \in Clients, NEW o \in Orders, process_client_request(c, o) \/ Show(c, o)
        PROVE  Exchange!Next \/ UNCHANGED Exchange!vars
    <2>1. CASE CutShort(c, o)
      BY <2>1, Stutters DEF CutShort, Read, Scanning
    <2>2. CASE Buy(c, o) \/ BuyRefused(c, o) \/ Sell(c, o) \/ Show(c, o)
      BY <2>2, ServeRefines
    <2> QED
      BY <1>5, <2>1, <2>2 DEF process_client_request
  <1>6. ASSUME NEW c \in Clients, ReadExit(c) \/ ReadEndOfFile(c) PROVE UNCHANGED Exchange!vars
    BY <1>6, Stutters DEF ReadExit, ReadEndOfFile, Read, Scanning
  <1>7. ASSUME NEW c \in Clients, Write(c) PROVE Exchange!Next
    BY <1>7, WriteRefines
  <1>8. CASE UNCHANGED vars
    BY <1>8 DEF vars, netVars, poolVars, Exchange!vars
  <1> QED
    BY <1>1, <1>2, <1>3, <1>4, <1>5, <1>6, <1>7, <1>8 DEF Next, Server, CheckClients

LEMMA InitRefines == Init => InStep /\ Exchange!Init
  <1> SUFFICES ASSUME Init PROVE InStep /\ Exchange!Init
    OBVIOUS
  <1>1. \A c \in Clients : inbox[c] = <<>> /\ pending[c] = <<>>
    BY DEF Init
  <1>2. Len(<<>>) <= 1
    OBVIOUS
  <1>3. InStep
    BY <1>1, <1>2 DEF Init, InStep
  <1>4. Exchange!Init
    BY <1>1 DEF Init, Exchange!Init, Exchange!NoOrder, NoOrder
  <1> QED
    BY <1>3, <1>4

(* To clients that wait for each answer the event-based server is the same *)
(* exchange as the threaded one: each order takes effect once, whole, and  *)
(* gets its own outcome, though connections open and close around it.      *)
THEOREM EventServerImplementsExchange == Window = 1 => (Spec => ImplementsExchange)
  <1> SUFFICES ASSUME Window = 1 PROVE Spec => ImplementsExchange
    OBVIOUS
  <1>1. Init => RInv /\ Exchange!Init
    BY InitIInv, InitRefines DEF RInv
  <1>2. RInv /\ [Next]_vars => RInv'
    BY RInvStep
  <1>3. RInv /\ [Next]_vars => [Exchange!Next]_(Exchange!vars)
    BY StepRefines
  <1> QED
    BY <1>1, <1>2, <1>3, PTL DEF Spec, ImplementsExchange, Exchange!Spec

=============================================================================
