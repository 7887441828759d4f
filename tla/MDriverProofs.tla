---------------------------- MODULE MDriverProofs ----------------------------
(***************************************************************************)
(* Proofs about the allocator and its driver for any size of the heap, any *)
(* chunks, any ids and sizes of requests and any number of requests: the   *)
(* heap is tiled by blocks with matching tags, the free list holds each    *)
(* free block once and in order, the blocks in use are those of the trace, *)
(* lie apart, and carry their data through every request; so mm.c is a     *)
(* malloc, free and realloc as module Allocator says.                      *)
(*                                                                         *)
(* A layout S gives each block its size; U is the set of blocks in use and *)
(* F the blocks on the free list. The first part has one lemma or two per  *)
(* function of mm.c, the second is about the driver's requests, the third  *)
(* about what follows from the invariant: the refinement, that a trace run *)
(* again is answered as before, and the driver's books.                    *)
(***************************************************************************)
EXTENDS MDriver, CountingProofs, SequenceTheorems

----------------------------------------------------------------------------
(* Words and tags *)

(* The heap as memlib and mm.c keep it: words, the break, the first node.  *)
Heaps == [mem : [Words -> Int], brk : 0 .. MAX_HEAP, list : Nat]

(* The addresses of words.                                                 *)
Places == {p \in 0 .. MAX_HEAP - 1 : p % WSIZE = 0}

(* The size of the heap is a number of double words.                       *)
LEMMA MaxHeap == MAX_HEAP \in Nat /\ MAX_HEAP % 8 = 0
  BY HeapAssumption DEF ALIGNMENT

(* PUT changes the word at p and no other.                                 *)
LEMMA Stored ==
  ASSUME NEW h \in Heaps, NEW p \in Places, NEW v \in Int
  PROVE  /\ PUT(h, p, v) \in Heaps
         /\ PUT(h, p, v).brk = h.brk /\ PUT(h, p, v).list = h.list
         /\ \A q \in Places : GET(PUT(h, p, v), q) = IF q = p THEN v ELSE GET(h, q)
  <1>1. \A q \in Places : q \div 4 \in Words
    BY MaxHeap DEF Places, Words, WSIZE
  <1>2. \A q \in Places : q \div 4 = p \div 4 => q = p
    BY MaxHeap DEF Places, WSIZE
  <1>3. h.mem \in [Words -> Int]
    BY DEF Heaps
  <1>4. /\ PUT(h, p, v).mem = [h.mem EXCEPT ![p \div 4] = v]
        /\ PUT(h, p, v).brk = h.brk /\ PUT(h, p, v).list = h.list
    BY DEF PUT, WSIZE, Heaps
  <1>5. PUT(h, p, v) \in Heaps
    <2>1. [h.mem EXCEPT ![p \div 4] = v] \in [Words -> Int]
      BY <1>3
    <2> QED
      BY <2>1 DEF PUT, WSIZE, Heaps
  <1>6. \A q \in Places : GET(PUT(h, p, v), q) = IF q = p THEN v ELSE GET(h, q)
    <2> TAKE q \in Places
    <2>1. GET(PUT(h, p, v), q) = [h.mem EXCEPT ![p \div 4] = v][q \div 4]
      BY <1>4 DEF GET, WSIZE
    <2>2. GET(h, q) = h.mem[q \div 4]
      BY DEF GET, WSIZE
    <2>3. CASE q = p
      BY <1>1, <1>3, <2>1, <2>3
    <2>4. CASE q # p
      <3>1. q \div 4 # p \div 4
        BY <1>2, <2>4
      <3> QED
        BY <1>1, <1>3, <2>1, <2>2, <2>4, <3>1
    <2> QED
      BY <2>3, <2>4
  <1> QED
    BY <1>4, <1>5, <1>6

(* GET returns an integer.                                                 *)
LEMMA Loaded ==
  ASSUME NEW h \in Heaps, NEW p \in Places
  PROVE  GET(h, p) \in Int
  <1>1. p \div 4 \in Words
    BY MaxHeap DEF Places, Words, WSIZE
  <1> QED
    BY <1>1 DEF GET, Heaps, WSIZE

(* Sizes and addresses of blocks.                                          *)
Aligned(n) == n \in Nat /\ n % 8 = 0

(* Sums and differences of aligned numbers are aligned.                    *)
LEMMA AlignedSums ==
  ASSUME NEW m, NEW n, Aligned(m), Aligned(n)
  PROVE  /\ Aligned(m + n)
         /\ m <= n => Aligned(n - m)
         /\ m < n => m + 8 <= n
  BY DEF Aligned

(* An aligned address, the word behind it and the two words before it are  *)
(* words of the heap.                                                      *)
LEMMA AlignedPlaces ==
  ASSUME NEW n, Aligned(n)
  PROVE  /\ n < MAX_HEAP => n \in Places /\ n + 4 \in Places
         /\ 0 < n /\ n <= MAX_HEAP => n - 4 \in Places /\ n - 8 \in Places
  <1>1. n < MAX_HEAP => n + 8 <= MAX_HEAP
    BY MaxHeap DEF Aligned
  <1>2. (n + 4) % 4 = 0 /\ n % 4 = 0 /\ (0 < n => (n - 4) % 4 = 0 /\ (n - 8) % 4 = 0)
    BY DEF Aligned
  <1>3. 0 < n => n >= 8
    BY DEF Aligned
  <1> QED
    BY <1>1, <1>2, <1>3, MaxHeap DEF Aligned, Places, WSIZE

(* GET_SIZE and GET_ALLOC take apart what PACK put together.               *)
LEMMA Unpacked ==
  ASSUME NEW h, NEW p, NEW s, Aligned(s), NEW a \in {0, 1}, GET(h, p) = s + a
  PROVE  GET_SIZE(h, p) = s /\ GET_ALLOC(h, p) = a
  <1>1. ((s + a) \div 8) * 8 = s /\ (s + a) % 2 = a
    BY DEF Aligned
  <1> QED
    BY <1>1 DEF GET_SIZE, GET_ALLOC, ALIGNMENT

(* Header and footer.                                                      *)
Taggable(b, s) == Aligned(b) /\ b >= 8 /\ Aligned(s) /\ s >= 16 /\ b + s <= MAX_HEAP

(* g is h with header and footer of the block b of s bytes written.        *)
TagDone(h, g, b, s, a) ==
    /\ g \in Heaps /\ g.brk = h.brk /\ g.list = h.list
    /\ \A q \in Places : GET(g, q) = IF q = b - 4 \/ q = b + s - 8 THEN s + a ELSE GET(h, q)

(* Writing the two tags of a block changes these two words only.           *)
LEMMA TagStored ==
  ASSUME NEW h \in Heaps, NEW b, NEW s, Taggable(b, s), NEW a \in {0, 1}
  PROVE  TagDone(h, Tag(h, b, s, a), b, s, a)
  <1> USE DEF Taggable
  <1> DEFINE g == PUT(h, b - 4, s + a)
  <1>1. b - 4 \in Places /\ b + s - 8 \in Places /\ s + a \in Int
    <2>1. Aligned(b + s) /\ b <= MAX_HEAP /\ 0 < b /\ 0 < b + s
      BY AlignedSums, MaxHeap DEF Aligned
    <2> QED
      BY <2>1, AlignedPlaces DEF Aligned
  <1>2. /\ g \in Heaps /\ g.brk = h.brk /\ g.list = h.list
        /\ \A q \in Places : GET(g, q) = IF q = b - 4 THEN s + a ELSE GET(h, q)
    <2> DEFINE p == b - 4
               v == s + a
    <2>1. p \in Places /\ v \in Int
      BY <1>1
    <2> HIDE DEF p, v
    <2>2. /\ PUT(h, p, v) \in Heaps
          /\ PUT(h, p, v).brk = h.brk /\ PUT(h, p, v).list = h.list
          /\ \A q \in Places : GET(PUT(h, p, v), q) = IF q = p THEN v ELSE GET(h, q)
      BY <2>1, Stored
    <2> QED
      BY <2>2 DEF p, v
  <1> HIDE DEF g
  <1>3. GET_SIZE(g, b - 4) = s
    BY <1>1, <1>2, Unpacked
  <1>4. FTRP(g, b) = b + s - 8
    BY <1>3 DEF FTRP, HDRP, WSIZE, DSIZE
  <1>5. Tag(h, b, s, a) = PUT(g, b + s - 8, s + a)
    BY <1>4 DEF Tag, HDRP, WSIZE, PACK, g
  <1>6. /\ PUT(g, b + s - 8, s + a) \in Heaps
        /\ PUT(g, b + s - 8, s + a).brk = g.brk /\ PUT(g, b + s - 8, s + a).list = g.list
        /\ \A q \in Places : GET(PUT(g, b + s - 8, s + a), q)
                                = IF q = b + s - 8 THEN s + a ELSE GET(g, q)
    <2> DEFINE p == b + s - 8
               v == s + a
    <2>1. p \in Places /\ v \in Int /\ g \in Heaps
      BY <1>1, <1>2
    <2> HIDE DEF p, v
    <2>2. /\ PUT(g, p, v) \in Heaps
          /\ PUT(g, p, v).brk = g.brk /\ PUT(g, p, v).list = g.list
          /\ \A q \in Places : GET(PUT(g, p, v), q) = IF q = p THEN v ELSE GET(g, q)
      BY <2>1, Stored
    <2> QED
      BY <2>2 DEF p, v
  <1> QED
    BY <1>2, <1>5, <1>6 DEF TagDone

(* Two nodes of the free list, NULL for the end on either side.            *)
LEMMA LinkStored ==
  ASSUME NEW h \in Heaps, NEW p \in Nat, NEW q \in Nat,
         p # NULL => p \in Places, q # NULL => q + 4 \in Places
  PROVE  /\ Link(h, p, q) \in Heaps
         /\ Link(h, p, q).brk = h.brk
         /\ Link(h, p, q).list = IF p = NULL THEN q ELSE h.list
         /\ \A a \in Places : GET(Link(h, p, q), a) = IF q # NULL /\ a = q + 4 THEN p
                                                     ELSE IF p # NULL /\ a = p THEN q
                                                     ELSE GET(h, a)
  <1> DEFINE g == IF p = NULL THEN [h EXCEPT !.list = q] ELSE PUT(h, p, q)
  <1>1. /\ g \in Heaps /\ g.brk = h.brk
        /\ g.list = IF p = NULL THEN q ELSE h.list
        /\ \A a \in Places : GET(g, a) = IF p # NULL /\ a = p THEN q ELSE GET(h, a)
    <2>1. CASE p = NULL
      <3>1. /\ [h EXCEPT !.list = q] \in Heaps
            /\ [h EXCEPT !.list = q].brk = h.brk /\ [h EXCEPT !.list = q].list = q
            /\ [h EXCEPT !.list = q].mem = h.mem
        BY DEF Heaps
      <3> QED
        BY <2>1, <3>1 DEF GET
    <2>2. CASE p # NULL
      <3>1. p \in Places /\ q \in Int
        BY <2>2
      <3>2. /\ PUT(h, p, q) \in Heaps
            /\ PUT(h, p, q).brk = h.brk /\ PUT(h, p, q).list = h.list
            /\ \A a \in Places : GET(PUT(h, p, q), a) = IF a = p THEN q ELSE GET(h, a)
        BY <3>1, Stored
      <3> QED
        BY <2>2, <3>2
    <2> QED
      BY <2>1, <2>2
  <1>2. g \in Heaps
    BY <1>1
  <1>3. Link(h, p, q) = IF q = NULL THEN g ELSE PUT(g, q + 4, p)
    BY DEF Link, WSIZE
  <1> HIDE DEF g
  <1>4. CASE q = NULL
    BY <1>1, <1>3, <1>4
  <1>5. CASE q # NULL
    <2> DEFINE r == q + 4
    <2>1. r \in Places /\ p \in Int
      BY <1>5
    <2> HIDE DEF r
    <2>2. /\ PUT(g, r, p) \in Heaps
          /\ PUT(g, r, p).brk = g.brk /\ PUT(g, r, p).list = g.list
          /\ \A a \in Places : GET(PUT(g, r, p), a) = IF a = r THEN p ELSE GET(g, a)
      BY <1>2, <2>1, Stored
    <2>3. Link(h, p, q) = PUT(g, r, p)
      BY <1>3, <1>5 DEF r
    <2> QED
      BY <1>1, <1>5, <2>2, <2>3 DEF r
  <1> QED
    BY <1>4, <1>5

----------------------------------------------------------------------------
(* Layouts *)

(* Blocks from the one behind the prologue to the epilogue: S[b] bytes     *)
(* belong to the block b, top is the end of the heap.                      *)
Layout(S, top) ==
    /\ Aligned(top) /\ 16 <= top /\ top <= MAX_HEAP
    /\ \A b \in DOMAIN S : /\ Aligned(b) /\ 16 <= b
                           /\ Aligned(S[b]) /\ 16 <= S[b]
                           /\ b + S[b] <= top
                           /\ b + S[b] \in DOMAIN S \cup {top}
    /\ \A b, c \in DOMAIN S : b < c => b + S[b] <= c
    /\ 16 \in DOMAIN S \cup {top}
    /\ \A c \in DOMAIN S \cup {top} : c # 16 => \E b \in DOMAIN S : b + S[b] = c

(* What cutting a block, joining it with the next and extending the heap   *)
(* make of a layout.                                                       *)
Divided(S, b, low) ==
    [c \in DOMAIN S \cup {b + low} |-> IF c = b THEN low
                                     ELSE IF c = b + low THEN S[b] - low ELSE S[c]]
Merged(S, b) ==
    [c \in DOMAIN S \ {b + S[b]} |-> IF c = b THEN S[b] + S[b + S[b]] ELSE S[c]]
Extended(S, top, size) == [c \in DOMAIN S \cup {top} |-> IF c = top THEN size ELSE S[c]]

(* The block b can be divided behind its first low bytes.                  *)
Divisible(S, b, low) == b \in DOMAIN S /\ Aligned(low) /\ 16 <= low /\ low + 16 <= S[b]

(* T is the layout S with b cut behind its first low bytes.                *)
DividedDone(S, T, top, b, low) ==
    /\ Layout(T, top)
    /\ b + low \notin DOMAIN S /\ DOMAIN T = DOMAIN S \cup {b + low}
    /\ T[b] = low /\ T[b + low] = S[b] - low
    /\ \A c \in DOMAIN S \ {b} : T[c] = S[c]

(* Cutting a block leaves a layout of the heap.                            *)
LEMMA DividedLayout ==
  ASSUME NEW S, NEW top, Layout(S, top), NEW b, NEW low, Divisible(S, b, low)
  PROVE  DividedDone(S, Divided(S, b, low), top, b, low)
  <1> USE DEF Divisible
  <1> DEFINE T == Divided(S, b, low)
             d == b + low
  <1>1. /\ Aligned(b) /\ 16 <= b /\ Aligned(S[b]) /\ 16 <= S[b] /\ b + S[b] <= top
        /\ b \in Nat /\ S[b] \in Nat /\ low \in Nat /\ top \in Nat
    BY DEF Layout, Aligned
  <1>2. d \notin DOMAIN S
    <2>1. SUFFICES ASSUME d \in DOMAIN S PROVE FALSE
      OBVIOUS
    <2>2. b < d
      BY <1>1
    <2>3. b + S[b] <= d
      BY <2>1, <2>2 DEF Layout
    <2> QED
      BY <1>1, <2>3
  <1>3. /\ DOMAIN T = DOMAIN S \cup {d} /\ T[b] = low /\ T[d] = S[b] - low
        /\ \A c \in DOMAIN S \ {b} : T[c] = S[c]
    BY <1>1, <1>2 DEF Divided
  <1>4. Aligned(d) /\ Aligned(S[b] - low) /\ S[b] - low \in Nat /\ d \in Nat
    <2>1. low <= S[b]
      BY <1>1
    <2> QED
      BY <1>1, <2>1, AlignedSums DEF Aligned
  <1> HIDE DEF T
  <1>5. \A c \in DOMAIN S \ {b} : /\ Aligned(c) /\ 16 <= c /\ Aligned(S[c]) /\ 16 <= S[c]
                                 /\ c + S[c] <= top /\ c \in Nat /\ S[c] \in Nat
                                 /\ c + S[c] \in DOMAIN S \cup {top}
    BY DEF Layout, Aligned
  <1>6. \A c \in DOMAIN T : /\ Aligned(c) /\ 16 <= c /\ Aligned(T[c]) /\ 16 <= T[c]
                            /\ c + T[c] <= top /\ c + T[c] \in DOMAIN T \cup {top}
    <2> TAKE c \in DOMAIN T
    <2>1. CASE c = b
      BY <1>1, <1>3, <2>1
    <2>2. CASE c = d
      <3>1. d + T[d] = b + S[b]
        BY <1>1, <1>3, <1>4
      <3>2. b + S[b] \in DOMAIN S \cup {top}
        BY DEF Layout
      <3> QED
        BY <1>1, <1>3, <1>4, <2>2, <3>1, <3>2
    <2>3. CASE c \in DOMAIN S \ {b}
      BY <1>3, <1>5, <2>3
    <2> QED
      BY <1>3, <2>1, <2>2, <2>3
  <1>7. \A x, y \in DOMAIN T : x < y => x + T[x] <= y
    <2> SUFFICES ASSUME NEW x \in DOMAIN T, NEW y \in DOMAIN T, x < y PROVE x + T[x] <= y
      OBVIOUS
    <2>1. \A c, e \in DOMAIN S : c < e => c + S[c] <= e
      BY DEF Layout
    <2>2. CASE x = b
      <3>1. CASE y = d
        BY <1>1, <1>3, <2>2, <3>1
      <3>2. CASE y \in DOMAIN S \ {b}
        <4>1. b + S[b] <= y
          BY <2>1, <2>2, <3>2
        <4> QED
          BY <1>1, <1>3, <1>5, <2>2, <3>2, <4>1
      <3> QED
        BY <1>1, <1>3, <2>2, <3>1, <3>2
    <2>3. CASE x = d
      <3>1. y \in DOMAIN S \ {b}
        BY <1>1, <1>3, <1>4, <2>3
      <3>2. b + S[b] <= y
        BY <1>1, <1>5, <2>1, <2>3, <3>1
      <3> QED
        BY <1>1, <1>3, <1>4, <1>5, <2>3, <3>1, <3>2
    <2>4. CASE x \in DOMAIN S \ {b}
      <3>1. CASE y \in DOMAIN S
        BY <1>3, <2>1, <2>4, <3>1
      <3>2. CASE y = d
        <4>1. x < b
          <5> x \in Nat /\ b \in Nat /\ x # b
            BY <1>1, <1>5, <2>4
          <5>1. SUFFICES ASSUME b < x PROVE FALSE
            OBVIOUS
          <5>2. b + S[b] <= x
            BY <2>1, <2>4, <5>1
          <5> QED
            BY <1>1, <1>5, <2>4, <3>2, <5>2
        <4>2. x + S[x] <= b
          BY <2>1, <2>4, <4>1
        <4> QED
          BY <1>1, <1>3, <1>5, <2>4, <3>2, <4>2
      <3> QED
        BY <1>3, <3>1, <3>2
    <2> QED
      BY <1>3, <2>2, <2>3, <2>4
  <1>8. \A c \in DOMAIN T \cup {top} : c # 16 => \E x \in DOMAIN T : x + T[x] = c
    <2> SUFFICES ASSUME NEW c \in DOMAIN T \cup {top}, c # 16
                 PROVE  \E x \in DOMAIN T : x + T[x] = c
      OBVIOUS
    <2>1. CASE c = d
      BY <1>3, <2>1
    <2>2. CASE c # d
      <3>1. PICK x \in DOMAIN S : x + S[x] = c
        BY <1>3, <2>2 DEF Layout
      <3>2. CASE x = b
        BY <1>1, <1>3, <1>4, <3>1, <3>2
      <3>3. CASE x # b
        BY <1>3, <3>1, <3>3
      <3> QED
        BY <3>2, <3>3
    <2> QED
      BY <2>1, <2>2
  <1>9. 16 \in DOMAIN T \cup {top}
    BY <1>3 DEF Layout
  <1>10. Layout(T, top)
    BY <1>6, <1>7, <1>8, <1>9 DEF Layout
  <1> QED
    BY <1>2, <1>3, <1>10 DEF T, DividedDone

(* Joining a block with the next leaves a layout of the heap.              *)
LEMMA MergedLayout ==
  ASSUME NEW S, NEW top, Layout(S, top), NEW b \in DOMAIN S, b + S[b] \in DOMAIN S
  PROVE  /\ Layout(Merged(S, b), top)
         /\ DOMAIN Merged(S, b) = DOMAIN S \ {b + S[b]}
         /\ Merged(S, b)[b] = S[b] + S[b + S[b]]
         /\ b # b + S[b]
         /\ \A c \in DOMAIN S \ {b, b + S[b]} : Merged(S, b)[c] = S[c]
  <1> DEFINE T == Merged(S, b)
             d == b + S[b]
  <1>1. \A c \in DOMAIN S : /\ Aligned(c) /\ 16 <= c /\ Aligned(S[c]) /\ 16 <= S[c]
                           /\ c + S[c] <= top /\ c \in Nat /\ S[c] \in Nat
                           /\ c + S[c] \in DOMAIN S \cup {top}
    BY DEF Layout, Aligned
  <1>2. /\ b \in Nat /\ S[b] \in Nat /\ d \in DOMAIN S /\ d \in Nat /\ S[d] \in Nat
        /\ 16 <= S[b] /\ 16 <= S[d] /\ b < d /\ d + S[d] = b + (S[b] + S[d])
    BY <1>1
  <1>3. /\ DOMAIN T = DOMAIN S \ {d} /\ T[b] = S[b] + S[d]
        /\ \A c \in DOMAIN S \ {b, d} : T[c] = S[c]
    BY <1>2 DEF Merged
  <1>4. Aligned(T[b]) /\ 16 <= T[b] /\ b + T[b] <= top /\ b + T[b] \in DOMAIN T \cup {top}
    <2>1. Aligned(S[b] + S[d]) /\ 16 <= S[b] + S[d] /\ b + (S[b] + S[d]) <= top
      BY <1>1, <1>2, AlignedSums
    <2>2. d + S[d] \in (DOMAIN S \ {d}) \cup {top}
      BY <1>1, <1>2
    <2> QED
      BY <1>2, <1>3, <2>1, <2>2
  <1> HIDE DEF T
  <1>5. \A c, e \in DOMAIN S : c < e => c + S[c] <= e
    BY DEF Layout
  <1>6. \A c \in DOMAIN S \ {b, d} : c + S[c] # d
    <2> SUFFICES ASSUME NEW c \in DOMAIN S \ {b, d}, c + S[c] = d PROVE FALSE
      OBVIOUS
    <2> c \in Nat /\ S[c] \in Nat /\ 16 <= S[c]
      BY <1>1
    <2>1. CASE c < b
      <3>1. c + S[c] <= b
        BY <1>5, <2>1
      <3> QED
        BY <1>2, <3>1
    <2>2. CASE b < c
      <3>1. d <= c
        BY <1>5, <2>2
      <3> QED
        BY <1>2, <3>1
    <2> QED
      BY <1>2, <2>1, <2>2
  <1>7. \A c \in DOMAIN T : /\ Aligned(c) /\ 16 <= c /\ Aligned(T[c]) /\ 16 <= T[c]
                            /\ c + T[c] <= top /\ c + T[c] \in DOMAIN T \cup {top}
    BY <1>1, <1>3, <1>4, <1>6
  <1>8. \A x, y \in DOMAIN T : x < y => x + T[x] <= y
    <2> SUFFICES ASSUME NEW x \in DOMAIN T, NEW y \in DOMAIN T, x < y PROVE x + T[x] <= y
      OBVIOUS
    <2> y \in Nat
      BY <1>1, <1>3
    <2>1. CASE x = b
      <3>1. d <= y /\ y # d
        BY <1>3, <1>5, <2>1
      <3>2. d + S[d] <= y
        BY <1>2, <1>3, <1>5, <3>1
      <3> QED
        BY <1>2, <1>3, <2>1, <3>2
    <2>2. CASE x # b
      BY <1>3, <1>5, <2>2
    <2> QED
      BY <2>1, <2>2
  <1>9. \A c \in DOMAIN T \cup {top} : c # 16 => \E x \in DOMAIN T : x + T[x] = c
    <2> SUFFICES ASSUME NEW c \in DOMAIN T \cup {top}, c # 16
                 PROVE  \E x \in DOMAIN T : x + T[x] = c
      OBVIOUS
    <2>1. PICK x \in DOMAIN S : x + S[x] = c
      BY <1>3 DEF Layout
    <2>2. CASE x = d
      BY <1>2, <1>3, <2>1, <2>2
    <2>3. CASE x = b
      <3>1. c = top /\ c = d
        BY <1>3, <2>1, <2>3
      <3> QED
        BY <1>1, <1>2, <3>1
    <2>4. CASE x \notin {b, d}
      BY <1>3, <2>1, <2>4
    <2> QED
      BY <2>2, <2>3, <2>4
  <1>10. 16 \in DOMAIN T \cup {top}
    <2>1. d # 16
      BY <1>1, <1>2
    <2> QED
      BY <1>3, <2>1 DEF Layout
  <1>11. Layout(T, top)
    BY <1>7, <1>8, <1>9, <1>10 DEF Layout
  <1> QED
    BY <1>2, <1>3, <1>11 DEF T

(* T is the layout S with a block of size bytes put behind it.             *)
ExtendedDone(S, T, top, size) ==
    /\ Layout(T, top + size)
    /\ top \notin DOMAIN S /\ DOMAIN T = DOMAIN S \cup {top}
    /\ T[top] = size
    /\ \A c \in DOMAIN S : T[c] = S[c]

(* Extending the heap by a block leaves a layout of it.                    *)
LEMMA ExtendedLayout ==
  ASSUME NEW S, NEW top, Layout(S, top), NEW size, Aligned(size), 16 <= size,
         top + size <= MAX_HEAP
  PROVE  ExtendedDone(S, Extended(S, top, size), top, size)
  <1> DEFINE T == Extended(S, top, size)
             end == top + size
  <1>1. \A c \in DOMAIN S : /\ Aligned(c) /\ 16 <= c /\ Aligned(S[c]) /\ 16 <= S[c]
                           /\ c + S[c] <= top /\ c \in Nat /\ S[c] \in Nat
                           /\ c + S[c] \in DOMAIN S \cup {top}
    BY DEF Layout, Aligned
  <1>2. top \in Nat /\ size \in Nat /\ end \in Nat /\ Aligned(top) /\ Aligned(end) /\ 16 <= top
    BY AlignedSums DEF Layout, Aligned
  <1>3. top \notin DOMAIN S
    BY <1>1, <1>2
  <1>4. /\ DOMAIN T = DOMAIN S \cup {top} /\ T[top] = size
        /\ \A c \in DOMAIN S : T[c] = S[c]
    BY <1>3 DEF Extended
  <1> HIDE DEF T
  <1>5. \A c \in DOMAIN T : /\ Aligned(c) /\ 16 <= c /\ Aligned(T[c]) /\ 16 <= T[c]
                            /\ c + T[c] <= end /\ c + T[c] \in DOMAIN T \cup {end}
    BY <1>1, <1>2, <1>4
  <1>6. \A x, y \in DOMAIN T : x < y => x + T[x] <= y
    <2>1. \A c, e \in DOMAIN S : c < e => c + S[c] <= e
      BY DEF Layout
    <2> QED
      BY <1>1, <1>2, <1>4, <2>1
  <1>7. \A c \in DOMAIN T \cup {end} : c # 16 => \E x \in DOMAIN T : x + T[x] = c
    <2>1. \A c \in DOMAIN S \cup {top} : c # 16 => \E x \in DOMAIN S : x + S[x] = c
      BY DEF Layout
    <2> QED
      BY <1>4, <2>1
  <1>8. 16 \in DOMAIN T \cup {end}
    BY <1>4 DEF Layout
  <1>9. Layout(T, end)
    BY <1>2, <1>5, <1>6, <1>7, <1>8 DEF Layout
  <1> QED
    BY <1>3, <1>4, <1>9 DEF T, ExtendedDone

----------------------------------------------------------------------------
(* Heaps *)

(* The allocated bit of a block.                                           *)
Bit(U, b) == IF b \in U THEN 1 ELSE 0

(* The tags of all blocks but those of X, which are being changed; the     *)
(* prologue and the epilogue.                                              *)
Tagged(h, S, U, X) ==
    /\ \A b \in DOMAIN S \ X : /\ GET(h, b - 4) = S[b] + Bit(U, b)
                               /\ GET(h, b + S[b] - 8) = S[b] + Bit(U, b)
    /\ GET(h, 4) = 9 /\ GET(h, 8) = 9 /\ GET(h, h.brk - 4) = 1

(* The free list holds the blocks of F, linked in the order of L, smaller  *)
(* ones first.                                                             *)
Chained(h, S, F, n, L) ==
    /\ \A b \in F : \E k \in 1 .. n : L[k] = b
    /\ \A j, k \in 1 .. n : L[j] = L[k] => j = k
    /\ \A j, k \in 1 .. n : j < k => S[L[j]] <= S[L[k]]
    /\ h.list = IF n = 0 THEN NULL ELSE L[1]
    /\ \A k \in 1 .. n : /\ GET(h, L[k]) = IF k = n THEN NULL ELSE L[k + 1]
                         /\ GET(h, L[k] + 4) = IF k = 1 THEN NULL ELSE L[k - 1]

(* The heap has layout S, its blocks U are in use and F are in the free    *)
(* list. Between operations F is the rest and X is empty.                  *)
Sound(h, S, U, F, X) ==
    /\ h \in Heaps /\ Layout(S, h.brk)
    /\ U \subseteq DOMAIN S /\ F \subseteq DOMAIN S \ U
    /\ Tagged(h, S, U, X)
    /\ \E n \in Nat : \E L \in [1 .. n -> F] : Chained(h, S, F, n, L)

(* The payloads of blocks U are the same.                                  *)
Kept(h, g, S, U) == \A b \in U : \A a \in Places :
    b <= a /\ a < b + S[b] - 8 => GET(g, a) = GET(h, a)

(* Addresses from the header to the footer of a block are its own.         *)
Owns(S, b, x) == b - 4 <= x /\ x < b + S[b] - 4

(* Where the blocks of a layout and the words mm.c writes in them are.     *)
LEMMA Blocks ==
  ASSUME NEW S, NEW top, Layout(S, top)
  PROVE  \A b \in DOMAIN S : /\ b \in Nat /\ S[b] \in Nat /\ top \in Nat /\ Aligned(b) /\ Aligned(S[b])
                            /\ 16 <= b /\ 16 <= S[b] /\ b + S[b] <= top /\ top <= MAX_HEAP
                            /\ {b - 4, b, b + 4, b + S[b] - 8} \subseteq Places
  <1> TAKE b \in DOMAIN S
  <1>1. /\ Aligned(b) /\ 16 <= b /\ Aligned(S[b]) /\ 16 <= S[b] /\ b + S[b] <= top
        /\ Aligned(top) /\ top <= MAX_HEAP
    BY DEF Layout
  <1>2. /\ b \in Nat /\ S[b] \in Nat /\ top \in Nat /\ Aligned(b + S[b]) /\ 0 < b + S[b]
        /\ b + S[b] <= MAX_HEAP /\ b < MAX_HEAP /\ 0 < b /\ b <= MAX_HEAP
    BY <1>1, AlignedSums, MaxHeap DEF Aligned
  <1>3. b - 4 \in Places /\ b \in Places /\ b + 4 \in Places /\ b + S[b] - 8 \in Places
    BY <1>1, <1>2, AlignedPlaces
  <1> QED
    BY <1>1, <1>2, <1>3

(* No word belongs to two blocks, and none of the prologue or epilogue to  *)
(* any.                                                                    *)
LEMMA Apart ==
  ASSUME NEW S, NEW top, Layout(S, top)
  PROVE  /\ \A b, c \in DOMAIN S : \A x \in Int : Owns(S, b, x) /\ Owns(S, c, x) => b = c
         /\ \A b \in DOMAIN S : \A x \in Int : Owns(S, b, x) => 8 < x /\ x < top - 4
  <1>1. \A b \in DOMAIN S : b \in Nat /\ S[b] \in Nat /\ top \in Nat /\ 16 <= b /\ 16 <= S[b] /\ b + S[b] <= top
    BY Blocks
  <1>2. \A b, c \in DOMAIN S : b < c => b + S[b] <= c
    BY DEF Layout
  <1>3. ASSUME NEW b \in DOMAIN S, NEW c \in DOMAIN S, NEW x \in Int, Owns(S, b, x), Owns(S, c, x)
        PROVE  b = c
    <2>1. ~(b < c)
      BY <1>1, <1>2, <1>3 DEF Owns
    <2>2. ~(c < b)
      BY <1>1, <1>2, <1>3 DEF Owns
    <2> QED
      BY <1>1, <2>1, <2>2
  <1>4. ASSUME NEW b \in DOMAIN S, NEW x \in Int, Owns(S, b, x)
        PROVE  8 < x /\ x < top - 4
    BY <1>1, <1>4 DEF Owns
  <1> QED
    BY <1>3, <1>4

(* Where the tags, pointers and words of a block are.                      *)
LEMMA Parts ==
  ASSUME NEW S, NEW top, Layout(S, top), NEW b \in DOMAIN S
  PROVE  /\ Owns(S, b, b - 4) /\ Owns(S, b, b + S[b] - 8) /\ Owns(S, b, b) /\ Owns(S, b, b + 4)
         /\ \A a \in Places : b <= a /\ a < b + S[b] - 8 => Owns(S, b, a)
         /\ b - 4 \in Int /\ b + S[b] - 8 \in Int /\ b \in Int /\ b + 4 \in Int
         /\ {b - 4, b + S[b] - 8} \cap {b, b + 4} = {}
  <1>1. b \in Nat /\ S[b] \in Nat /\ 16 <= b /\ 16 <= S[b]
    BY Blocks
  <1>2. Places \subseteq Int
    BY DEF Places
  <1> QED
    BY <1>1, <1>2 DEF Owns

(* What only pointers of free blocks are written to keeps the tags and the *)
(* blocks in use.                                                          *)
LEMMA PointersOnly ==
  ASSUME NEW h \in Heaps, NEW g \in Heaps, g.brk = h.brk,
         NEW S, Layout(S, h.brk), NEW U, U \subseteq DOMAIN S, Tagged(h, S, U, {}),
         \A a \in Places : (\A p \in DOMAIN S \ U : a # p /\ a # p + 4) => GET(g, a) = GET(h, a)
  PROVE  Tagged(g, S, U, {}) /\ Kept(h, g, S, U)
  <1>1. \A b \in DOMAIN S : /\ b \in Nat /\ S[b] \in Nat /\ h.brk \in Nat /\ 16 <= S[b]
                           /\ {b - 4, b, b + 4, b + S[b] - 8} \subseteq Places
    BY Blocks
  <1>2. ASSUME NEW b \in DOMAIN S, NEW a \in Places, a = b - 4 \/ a = b + S[b] - 8
        PROVE  GET(g, a) = GET(h, a)
    <2>1. SUFFICES ASSUME NEW p \in DOMAIN S \ U, a \in {p, p + 4} PROVE FALSE
      OBVIOUS
    <2>2. Owns(S, b, a) /\ Owns(S, p, a) /\ a \in Int
      BY <1>2, <2>1, Parts
    <2>3. b = p
      BY <2>2, Apart
    <2> QED
      BY <1>2, <2>1, <2>3, Parts
  <1>3. ASSUME NEW b \in U, NEW a \in Places, b <= a, a < b + S[b] - 8
        PROVE  GET(g, a) = GET(h, a)
    <2>1. SUFFICES ASSUME NEW p \in DOMAIN S \ U, a \in {p, p + 4} PROVE FALSE
      OBVIOUS
    <2>2. Owns(S, b, a) /\ Owns(S, p, a) /\ a \in Int
      BY <1>3, <2>1, Parts
    <2> QED
      BY <2>2, Apart
  <1>4. ASSUME NEW a \in Places, a <= 8 \/ a >= h.brk - 4
        PROVE  GET(g, a) = GET(h, a)
    <2>1. SUFFICES ASSUME NEW p \in DOMAIN S \ U, a \in {p, p + 4} PROVE FALSE
      OBVIOUS
    <2>2. Owns(S, p, a) /\ a \in Int
      BY <2>1, Parts
    <2>3. 8 < a /\ a < h.brk - 4
      BY <2>2, Apart
    <2> QED
      BY <1>1, <1>4, <2>2, <2>3
  <1>5. {4, 8, h.brk - 4} \subseteq Places
    <2>1. Aligned(h.brk) /\ 16 <= h.brk /\ h.brk <= MAX_HEAP /\ h.brk \in Nat
      BY DEF Layout, Aligned
    <2>2. h.brk - 4 \in Places
      BY <2>1, AlignedPlaces
    <2>3. 4 \in Places /\ 8 \in Places
      BY <2>1, MaxHeap DEF Places, WSIZE
    <2> QED
      BY <2>2, <2>3
  <1>6. h.brk \in Nat
    BY DEF Layout, Aligned
  <1>7. Tagged(g, S, U, {})
    <2>1. GET(g, 4) = 9 /\ GET(g, 8) = 9 /\ GET(g, g.brk - 4) = 1
      BY <1>4, <1>5, <1>6 DEF Tagged
    <2>2. ASSUME NEW b \in DOMAIN S
          PROVE  GET(g, b - 4) = S[b] + Bit(U, b) /\ GET(g, b + S[b] - 8) = S[b] + Bit(U, b)
      BY <1>1, <1>2 DEF Tagged
    <2> QED
      BY <2>1, <2>2 DEF Tagged
  <1>8. Kept(h, g, S, U)
    BY <1>3 DEF Kept
  <1> QED
    BY <1>7, <1>8

----------------------------------------------------------------------------
(* The free list *)

(* The nodes of the free list as Chain of module MM follows them.          *)
NextNode(h) == [p \in Int |-> IF p = NULL THEN NULL ELSE SEGLIST_NEXT(h, p)]

NodeEquation(h, f) == f = [k \in Nat |-> IF k = 0 THEN h.list ELSE NextNode(h)[f[k - 1]]]

NodeOf(h) == CHOOSE f : NodeEquation(h, f)

(* The list ends before node k.                                            *)
EndsAt(node, k) == /\ node[k] = NULL \/ k = MAX_HEAP \div WSIZE
                   /\ \A j \in 0 .. k - 1 : node[j] # NULL

(* The definition of Chain, with its parts named.                          *)
LEMMA ChainUnfolded ==
  ASSUME NEW h
  PROVE  Chain(h) = [k \in 1 .. CHOOSE k \in 0 .. MAX_HEAP \div WSIZE : EndsAt(NodeOf(h), k) |->
                        NodeOf(h)[k - 1]]
  BY DEF Chain, NodeOf, NodeEquation, NextNode, EndsAt

(* There are no more nodes than words.                                     *)
LEMMA ChainFits ==
  ASSUME NEW S, NEW top, Layout(S, top), NEW n \in Nat, NEW L \in [1 .. n -> DOMAIN S],
         \A j, k \in 1 .. n : L[j] = L[k] => j = k
  PROVE  n <= MAX_HEAP \div WSIZE
  <1> DEFINE f == [k \in 1 .. n |-> L[k] \div 4]
             m == MAX_HEAP \div 4
  <1>1. \A p, q \in Places : p \div 4 = q \div 4 => p = q
    BY MaxHeap DEF Places, WSIZE
  <1>2. \A p \in Places : p \div 4 \in Words
    BY MaxHeap DEF Places, Words, WSIZE
  <1>3. \A k \in 1 .. n : L[k] \in Places
    BY Blocks
  <1>4. f \in Injection(1 .. n, Words)
    <2>1. f \in [1 .. n -> Words]
      BY <1>2, <1>3
    <2>2. ASSUME NEW j \in 1 .. n, NEW k \in 1 .. n, f[j] = f[k] PROVE j = k
      <3>1. L[j] \div 4 = L[k] \div 4
        BY <2>2
      <3>2. L[j] = L[k]
        BY <1>1, <1>3, <3>1
      <3> QED
        BY <3>2
    <2> QED
      BY <2>1, <2>2 DEF Injection, IsInjective
  <1>5. m \in Nat
    BY MaxHeap
  <1> HIDE DEF f
  <1>6. IsFiniteSet(Words) /\ Cardinality(Words) = m
    <2> HIDE DEF m
    <2>1. IsFiniteSet(0 .. m - 1) /\ Cardinality(0 .. m - 1) = IF 0 > m - 1 THEN 0 ELSE m - 1 - 0 + 1
      <3>1. 0 \in Int /\ m - 1 \in Int
        BY <1>5
      <3> QED
        BY <3>1, FS_Interval, Zenon
    <2>2. (IF 0 > m - 1 THEN 0 ELSE m - 1 - 0 + 1) = m
      BY <1>5
    <2>3. Words = 0 .. m - 1
      BY DEF Words, WSIZE, m
    <2> QED
      BY <2>1, <2>2, <2>3
  <1>7. Cardinality(1 .. n) <= Cardinality(Words)
    BY <1>4, <1>6, FS_Injection
  <1>8. Cardinality(1 .. n) = n
    <2>1. 1 \in Int /\ n \in Int
      OBVIOUS
    <2>2. Cardinality(1 .. n) = IF 1 > n THEN 0 ELSE n - 1 + 1
      BY <2>1, FS_Interval, Zenon
    <2> QED
      BY <2>2
  <1> QED
    BY <1>6, <1>7, <1>8 DEF WSIZE

(* Chain follows the links to the end of the list and collects its nodes.  *)
LEMMA ChainFound ==
  ASSUME NEW h, NEW S, NEW top, Layout(S, top), NEW F, F \subseteq DOMAIN S,
         NEW n \in Nat, NEW L \in [1 .. n -> F], Chained(h, S, F, n, L)
  PROVE  Chain(h) = L
  <1>1. \A k \in 1 .. n : L[k] # NULL
    BY Blocks DEF NULL
  <1>2. n <= MAX_HEAP \div WSIZE
    BY ChainFits DEF Chained
  <1> DEFINE W == [k \in Nat |-> IF k < n THEN L[k + 1] ELSE NULL]
  <1>3. NodeEquation(h, W)
    <2>1. ASSUME NEW k \in Nat
          PROVE  W[k] = IF k = 0 THEN h.list ELSE NextNode(h)[W[k - 1]]
      <3>1. CASE k = 0
        BY <3>1 DEF Chained
      <3>2. CASE k # 0 /\ k - 1 < n
        <4>1. W[k - 1] = L[k] /\ k \in 1 .. n
          BY <3>2
        <4>2. GET(h, L[k]) = IF k = n THEN NULL ELSE L[k + 1]
          BY <4>1 DEF Chained
        <4>3. W[k] = IF k = n THEN NULL ELSE L[k + 1]
          BY <3>2
        <4>4. L[k] \in DOMAIN S
          BY <4>1
        <4>5. L[k] \in Int /\ L[k] # NULL
          BY <1>1, <4>1, <4>4, Blocks
        <4>6. NextNode(h)[L[k]] = GET(h, L[k])
          BY <4>5 DEF SEGLIST_NEXT, NextNode
        <4> HIDE DEF W
        <4> QED
          BY <3>2, <4>1, <4>2, <4>3, <4>6
      <3>3. CASE k # 0 /\ ~(k - 1 < n)
        BY <3>3 DEF NextNode, NULL
      <3> QED
        BY <3>1, <3>2, <3>3
    <2> QED
      BY <2>1, Zenon DEF NodeEquation
  <1> DEFINE N == NodeOf(h)
  <1>4. NodeEquation(h, N)
    BY <1>3 DEF NodeOf
  <1>5. /\ N[0] = W[0]
        /\ \A k \in Nat : N[k] = W[k] => N[k + 1] = W[k + 1]
    <2>1. \A k \in Nat : N[k] = IF k = 0 THEN h.list ELSE NextNode(h)[N[k - 1]]
      BY <1>4, Zenon DEF NodeEquation
    <2>2. \A k \in Nat : W[k] = IF k = 0 THEN h.list ELSE NextNode(h)[W[k - 1]]
      BY <1>3, Zenon DEF NodeEquation
    <2> HIDE DEF N, W
    <2>3. N[0] = W[0]
      BY <2>1, <2>2
    <2>4. \A k \in Nat : k + 1 \in Nat /\ k + 1 # 0 /\ k + 1 - 1 = k
      OBVIOUS
    <2>5. \A k \in Nat : N[k] = W[k] => N[k + 1] = W[k + 1]
      BY <2>1, <2>2, <2>4
    <2> QED
      BY <2>3, <2>5
  <1>6. \A k \in Nat : N[k] = W[k]
    <2> HIDE DEF N, W
    <2> DEFINE bad == {k \in Nat : N[k] # W[k]}
    <2>1. SUFFICES ASSUME bad # {} PROVE FALSE
      OBVIOUS
    <2> DEFINE m == Min(bad)
    <2>2. m \in bad /\ \A k \in bad : m <= k
      BY <2>1, MinIsLeast
    <2> HIDE DEF m
    <2>3. m \in Nat /\ m # 0
      BY <1>5, <2>2
    <2>4. m - 1 \in Nat /\ ~(m <= m - 1)
      BY <2>3
    <2>5. N[m - 1] = W[m - 1]
      BY <2>2, <2>4
    <2>6. N[m - 1 + 1] = W[m - 1 + 1] /\ m - 1 + 1 = m
      BY <1>5, <2>3, <2>4, <2>5
    <2> QED
      BY <2>2, <2>6
  <1> HIDE DEF N
  <1> DEFINE max == MAX_HEAP \div WSIZE
             len == CHOOSE k \in 0 .. max : EndsAt(N, k)
  <1>7. max \in Nat
    BY MaxHeap DEF WSIZE
  <1>8. n \in 0 .. max /\ EndsAt(N, n)
    <2>1. W[n] = NULL /\ \A j \in 0 .. n - 1 : W[j] # NULL
      BY <1>1
    <2> QED
      BY <1>2, <1>6, <1>7, <2>1 DEF EndsAt
  <1>9. \A k \in 0 .. max : EndsAt(N, k) => k = n
    <2> SUFFICES ASSUME NEW k \in 0 .. max, EndsAt(N, k), k # n PROVE FALSE
      OBVIOUS
    <2>1. CASE k < n
      <3>1. W[k] # NULL /\ k # max
        BY <1>1, <1>7, <1>8, <2>1
      <3> QED
        BY <1>6, <3>1 DEF EndsAt
    <2>2. CASE n < k
      <3>1. N[n] # NULL
        BY <1>7, <2>2 DEF EndsAt
      <3> QED
        BY <1>6, <3>1
    <2> QED
      BY <1>7, <2>1, <2>2
  <1>10. len = n
    <2> HIDE DEF max
    <2> QED
      BY <1>8, <1>9
  <1>11. Chain(h) = [k \in 1 .. len |-> N[k - 1]]
    BY ChainUnfolded DEF N
  <1>12. \A k \in 1 .. n : N[k - 1] = L[k]
    BY <1>6
  <1> QED
    BY <1>10, <1>11, <1>12

(* Nodes are apart from the second words of nodes.                         *)
LEMMA NodesApart ==
  ASSUME NEW S, NEW top, Layout(S, top)
  PROVE  \A p, q \in DOMAIN S : p # q + 4
  <1> SUFFICES ASSUME NEW p \in DOMAIN S, NEW q \in DOMAIN S, p = q + 4 PROVE FALSE
    OBVIOUS
  <1>1. Owns(S, p, p) /\ Owns(S, q, p) /\ p \in Int
    BY Parts
  <1>2. p = q
    BY <1>1, Apart
  <1> QED
    BY <1>1, <1>2

(* ptr enters the list as node j.                                          *)
Spliced(L, n, j, ptr) == [k \in 1 .. n + 1 |-> IF k < j THEN L[k] ELSE IF k = j THEN ptr ELSE L[k - 1]]

(* ptr belongs at place j of the list L, between prev and cur.             *)
SpliceAt(h, S, F, n, L, ptr, j, prev, cur) ==
    /\ h \in Heaps /\ Layout(S, h.brk) /\ F \subseteq DOMAIN S /\ ptr \in DOMAIN S \ F
    /\ n \in Nat /\ L \in [1 .. n -> F] /\ Chained(h, S, F, n, L)
    /\ j \in 1 .. n + 1
    /\ \A k \in 1 .. n : k < j => S[L[k]] <= S[ptr]
    /\ \A k \in 1 .. n : k >= j => S[ptr] <= S[L[k]]
    /\ prev = IF j = 1 THEN NULL ELSE L[j - 1]
    /\ cur = IF j = n + 1 THEN NULL ELSE L[j]

(* In g the list is L with ptr at place j.                                 *)
SpliceDone(h, g, S, F, n, L, ptr, j) ==
    /\ g \in Heaps /\ g.brk = h.brk
    /\ Spliced(L, n, j, ptr) \in [1 .. n + 1 -> F \cup {ptr}]
    /\ Chained(g, S, F \cup {ptr}, n + 1, Spliced(L, n, j, ptr))
    /\ \A a \in Places : (\A p \in F \cup {ptr} : a # p /\ a # p + 4) => GET(g, a) = GET(h, a)

(* The two links insert_node writes put ptr at its place in the list.      *)
LEMMA SplicedChain ==
  ASSUME NEW h, NEW S, NEW F, NEW n, NEW L, NEW ptr, NEW j, NEW prev, NEW cur,
         SpliceAt(h, S, F, n, L, ptr, j, prev, cur)
  PROVE  SpliceDone(h, Link(Link(h, prev, ptr), ptr, cur), S, F, n, L, ptr, j)
  <1> /\ h \in Heaps /\ Layout(S, h.brk) /\ F \subseteq DOMAIN S /\ ptr \in DOMAIN S \ F
      /\ n \in Nat /\ L \in [1 .. n -> F] /\ Chained(h, S, F, n, L)
      /\ j \in 1 .. n + 1
      /\ \A k \in 1 .. n : k < j => S[L[k]] <= S[ptr]
      /\ \A k \in 1 .. n : k >= j => S[ptr] <= S[L[k]]
      /\ prev = IF j = 1 THEN NULL ELSE L[j - 1]
      /\ cur = IF j = n + 1 THEN NULL ELSE L[j]
    BY DEF SpliceAt
  <1> DEFINE M == Spliced(L, n, j, ptr)
             g == Link(Link(h, prev, ptr), ptr, cur)
             g1 == Link(h, prev, ptr)
  <1>1. \A b \in DOMAIN S : b \in Nat /\ b # NULL /\ b \in Places /\ b + 4 \in Places
    BY Blocks DEF NULL
  <1>2. /\ \A k \in 1 .. n : L[k] \in DOMAIN S /\ L[k] # ptr
        /\ \A ix, k \in 1 .. n : L[ix] = L[k] => ix = k
    BY DEF Chained
  <1>3. prev \in Nat /\ cur \in Nat /\ ptr \in Nat /\ NULL \in Nat
    BY <1>1, <1>2 DEF NULL
  <1>4. /\ prev # NULL => prev \in DOMAIN S /\ prev # ptr
        /\ cur # NULL => cur \in DOMAIN S /\ cur # ptr
    BY <1>1, <1>2
  <1>5. /\ g1 \in Heaps /\ g1.brk = h.brk /\ g1.list = IF prev = NULL THEN ptr ELSE h.list
        /\ \A a \in Places : GET(g1, a) = IF a = ptr + 4 THEN prev
                                          ELSE IF prev # NULL /\ a = prev THEN ptr ELSE GET(h, a)
    <2>1. /\ prev # NULL => prev \in Places
          /\ ptr # NULL => ptr + 4 \in Places
          /\ prev \in Nat /\ ptr \in Nat
      BY <1>1, <1>3, <1>4
    <2>2. /\ Link(h, prev, ptr) \in Heaps /\ Link(h, prev, ptr).brk = h.brk
          /\ Link(h, prev, ptr).list = IF prev = NULL THEN ptr ELSE h.list
          /\ \A a \in Places : GET(Link(h, prev, ptr), a)
                                = IF ptr # NULL /\ a = ptr + 4 THEN prev
                                  ELSE IF prev # NULL /\ a = prev THEN ptr ELSE GET(h, a)
      BY <2>1, LinkStored
    <2> QED
      BY <1>1, <2>2
  <1> HIDE DEF g1
  <1>6. /\ g \in Heaps /\ g.brk = h.brk /\ g.list = g1.list
        /\ \A a \in Places : GET(g, a) = IF cur # NULL /\ a = cur + 4 THEN ptr
                                         ELSE IF a = ptr THEN cur ELSE GET(g1, a)
    <2>1. /\ cur # NULL => cur + 4 \in Places
          /\ ptr # NULL => ptr \in Places
          /\ g1 \in Heaps /\ ptr \in Nat /\ cur \in Nat
      BY <1>1, <1>3, <1>4, <1>5
    <2>2. /\ Link(g1, ptr, cur) \in Heaps /\ Link(g1, ptr, cur).brk = g1.brk
          /\ Link(g1, ptr, cur).list = IF ptr = NULL THEN cur ELSE g1.list
          /\ \A a \in Places : GET(Link(g1, ptr, cur), a) = IF cur # NULL /\ a = cur + 4 THEN ptr
                                         ELSE IF ptr # NULL /\ a = ptr THEN cur ELSE GET(g1, a)
      BY <2>1, LinkStored
    <2>3. g = Link(g1, ptr, cur)
      BY DEF g1
    <2> HIDE DEF g
    <2> QED
      BY <1>1, <1>5, <2>2, <2>3
  <1> HIDE DEF g
  <1>7. \A a \in Places : GET(g, a) = IF cur # NULL /\ a = cur + 4 THEN ptr
                                     ELSE IF a = ptr THEN cur
                                     ELSE IF a = ptr + 4 THEN prev
                                     ELSE IF prev # NULL /\ a = prev THEN ptr ELSE GET(h, a)
    BY <1>5, <1>6
  <1>8. \A p, q \in DOMAIN S : p # q + 4
    BY NodesApart
  <1>9. \A p, q \in DOMAIN S : p + 4 = q + 4 => p = q
    BY <1>1
  <1>10. /\ M \in [1 .. n + 1 -> F \cup {ptr}] /\ M[j] = ptr
         /\ \A k \in 1 .. n : k < j => M[k] = L[k]
         /\ \A k \in 1 .. n : k >= j => M[k + 1] = L[k]
         /\ \A k \in 1 .. n + 1 : k > j => M[k] = L[k - 1]
    BY DEF Spliced
  <1> HIDE DEF M
  <1>11. \A k \in 1 .. n : /\ GET(h, L[k]) = IF k = n THEN NULL ELSE L[k + 1]
                           /\ GET(h, L[k] + 4) = IF k = 1 THEN NULL ELSE L[k - 1]
    BY DEF Chained
  <1>12. \A x \in F : GET(g, x) = IF x = prev THEN ptr ELSE GET(h, x)
    BY <1>1, <1>4, <1>7, <1>8
  <1>13. \A x \in F : GET(g, x + 4) = IF x = cur THEN ptr ELSE GET(h, x + 4)
    BY <1>1, <1>4, <1>7, <1>8, <1>9
  <1>14. GET(g, ptr) = cur /\ GET(g, ptr + 4) = prev
    BY <1>1, <1>4, <1>7, <1>8, <1>9
  <1>15. \A k \in 1 .. n : (L[k] = prev <=> k = j - 1) /\ (L[k] = cur <=> k = j)
    <2> TAKE k \in 1 .. n
    <2>1. L[k] # NULL
      BY <1>1, <1>2
    <2>2. L[k] = prev <=> k = j - 1
      <3>1. CASE j = 1
        BY <2>1, <3>1
      <3>2. CASE j # 1
        <4>1. j - 1 \in 1 .. n
          BY <3>2
        <4> QED
          BY <1>2, <3>2, <4>1
      <3> QED
        BY <3>1, <3>2
    <2>3. L[k] = cur <=> k = j
      <3>1. CASE j = n + 1
        BY <2>1, <3>1
      <3>2. CASE j # n + 1
        <4>1. j \in 1 .. n
          BY <3>2
        <4> QED
          BY <1>2, <3>2, <4>1
      <3> QED
        BY <3>1, <3>2
    <2> QED
      BY <2>2, <2>3
  <1>16. \A k \in 1 .. n : /\ GET(g, L[k]) = IF k = j - 1 THEN ptr
                                             ELSE IF k = n THEN NULL ELSE L[k + 1]
                           /\ GET(g, L[k] + 4) = IF k = j THEN ptr
                                             ELSE IF k = 1 THEN NULL ELSE L[k - 1]
    BY <1>11, <1>12, <1>13, <1>15
  <1>17. ASSUME NEW k \in 1 .. n + 1
         PROVE  /\ GET(g, M[k]) = IF k = n + 1 THEN NULL ELSE M[k + 1]
                /\ GET(g, M[k] + 4) = IF k = 1 THEN NULL ELSE M[k - 1]
    <2>1. CASE k < j
      <3>1. k \in 1 .. n /\ M[k] = L[k] /\ k # n + 1 /\ k # j
        BY <1>10, <2>1
      <3>2. M[k + 1] = IF k = j - 1 THEN ptr ELSE L[k + 1]
        <4>1. CASE k = j - 1
          BY <1>10, <4>1
        <4>2. CASE k # j - 1
          <5>1. k + 1 \in 1 .. n /\ k + 1 < j
            BY <2>1, <4>2
          <5> QED
            BY <1>10, <4>2, <5>1
        <4> QED
          BY <4>1, <4>2
      <3>3. k # j - 1 => k # n
        BY <2>1
      <3>4. k # 1 => k - 1 \in 1 .. n /\ k - 1 < j /\ M[k - 1] = L[k - 1]
        <4>1. k # 1 => k - 1 \in 1 .. n /\ k - 1 < j
          BY <2>1
        <4> QED
          BY <1>10, <4>1
      <3> QED
        BY <1>16, <3>1, <3>2, <3>3, <3>4
    <2>2. CASE k = j
      <3>1. k # n + 1 => k \in 1 .. n /\ M[k + 1] = L[k]
        BY <1>10, <2>2
      <3>2. k # 1 => k - 1 \in 1 .. n /\ k - 1 < j
        BY <2>2
      <3>3. k # 1 => M[k - 1] = L[k - 1]
        BY <1>10, <3>2
      <3> QED
        BY <1>10, <1>14, <2>2, <3>1, <3>3
    <2>3. CASE k > j
      <3>1. k - 1 \in 1 .. n /\ M[k] = L[k - 1] /\ k # 1 /\ k - 1 # j - 1
        BY <1>10, <2>3
      <3>2. k # n + 1 => k \in 1 .. n /\ k >= j
        BY <2>3
      <3>3. k # n + 1 => M[k + 1] = L[k]
        BY <1>10, <3>2
      <3>4. M[k - 1] = IF k - 1 = j THEN ptr ELSE L[k - 2]
        <4>1. CASE k - 1 = j
          BY <1>10, <4>1
        <4>2. CASE k - 1 # j
          <5>1. k - 1 \in 1 .. n + 1 /\ k - 1 > j /\ k - 1 - 1 = k - 2
            BY <2>3, <4>2
          <5> QED
            BY <1>10, <4>2, <5>1
        <4> QED
          BY <4>1, <4>2
      <3>5. /\ GET(g, L[k - 1]) = IF k - 1 = n THEN NULL ELSE L[k - 1 + 1]
            /\ GET(g, L[k - 1] + 4) = IF k - 1 = j THEN ptr ELSE IF k - 1 = 1 THEN NULL ELSE L[k - 1 - 1]
        BY <1>16, <3>1
      <3>6. k - 1 + 1 = k /\ k - 1 - 1 = k - 2 /\ (k - 1 = n <=> k = n + 1) /\ (k - 1 # j => k - 1 # 1)
        BY <2>3
      <3> QED
        BY <3>1, <3>3, <3>4, <3>5, <3>6
    <2> QED
      BY <2>1, <2>2, <2>3
  <1>18. \A b \in F \cup {ptr} : \E k \in 1 .. n + 1 : M[k] = b
    <2> TAKE b \in F \cup {ptr}
    <2>1. CASE b = ptr
      BY <1>10, <2>1
    <2>2. CASE b \in F
      <3>1. PICK k \in 1 .. n : L[k] = b
        BY <2>2 DEF Chained
      <3>2. CASE k < j
        BY <1>10, <3>1, <3>2
      <3>3. CASE k >= j
        <4>1. k + 1 \in 1 .. n + 1 /\ M[k + 1] = b
          BY <1>10, <3>1, <3>3
        <4> QED
          BY <4>1
      <3> QED
        BY <3>2, <3>3
    <2> QED
      BY <2>1, <2>2
  <1>19. \A k \in 1 .. n + 1 : M[k] = IF k < j THEN L[k] ELSE IF k = j THEN ptr ELSE L[k - 1]
    BY DEF M, Spliced
  <1>20. ASSUME NEW ix \in 1 .. n + 1, NEW k \in 1 .. n + 1, M[ix] = M[k]
         PROVE  ix = k
    <2>1. \A m \in 1 .. n + 1 : (m < j => m \in 1 .. n) /\ (m > j => m - 1 \in 1 .. n)
      OBVIOUS
    <2> DEFINE at(m) == IF m < j THEN m ELSE m - 1
    <2>2. CASE ix = j
      BY <1>2, <1>19, <1>20, <2>1, <2>2
    <2>3. CASE k = j
      BY <1>2, <1>19, <1>20, <2>1, <2>3
    <2>4. CASE ix # j /\ k # j
      <3>1. at(ix) \in 1 .. n /\ at(k) \in 1 .. n /\ L[at(ix)] = L[at(k)]
        BY <1>19, <1>20, <2>1, <2>4
      <3>2. at(ix) = at(k)
        BY <1>2, <3>1
      <3> QED
        BY <2>4, <3>2
    <2> QED
      BY <2>2, <2>3, <2>4
  <1>21. ASSUME NEW ix \in 1 .. n + 1, NEW k \in 1 .. n + 1, ix < k
         PROVE  S[M[ix]] <= S[M[k]]
    <2>1. \A m \in 1 .. n + 1 : (m < j => m \in 1 .. n) /\ (m > j => m - 1 \in 1 .. n /\ m - 1 >= j)
      OBVIOUS
    <2>2. \A l, m \in 1 .. n : l < m => S[L[l]] <= S[L[m]]
      BY DEF Chained
    <2>3. CASE ix = j
      BY <1>19, <1>21, <2>1, <2>3
    <2>4. CASE k = j
      BY <1>19, <1>21, <2>1, <2>4
    <2>5. CASE ix # j /\ k # j
      <3> DEFINE at(m) == IF m < j THEN m ELSE m - 1
      <3>1. at(ix) \in 1 .. n /\ at(k) \in 1 .. n /\ M[ix] = L[at(ix)] /\ M[k] = L[at(k)]
        BY <1>19, <2>1, <2>5
      <3>2. at(ix) < at(k)
        BY <1>21, <2>5
      <3> HIDE DEF at
      <3> QED
        BY <2>2, <3>1, <3>2
    <2> QED
      BY <2>3, <2>4, <2>5
  <1>22. g.list = IF n + 1 = 0 THEN NULL ELSE M[1]
    <2>1. CASE j = 1
      BY <1>5, <1>6, <1>10, <2>1
    <2>2. CASE j # 1
      <3>1. 1 \in 1 .. n /\ 1 < j /\ j - 1 \in 1 .. n /\ n # 0
        BY <2>2
      <3>2. prev # NULL
        BY <1>1, <1>2, <2>2, <3>1
      <3>3. h.list = L[1]
        BY <3>1 DEF Chained
      <3> QED
        BY <1>5, <1>6, <1>10, <3>1, <3>2, <3>3
    <2> QED
      BY <2>1, <2>2
  <1>23. Chained(g, S, F \cup {ptr}, n + 1, M)
    BY <1>17, <1>18, <1>20, <1>21, <1>22 DEF Chained
  <1>24. \A a \in Places : (\A p \in F \cup {ptr} : a # p /\ a # p + 4) => GET(g, a) = GET(h, a)
    <2>1. (prev # NULL => prev \in F) /\ (cur # NULL => cur \in F)
      OBVIOUS
    <2> QED
      BY <1>7, <2>1
  <1> QED
    BY <1>6, <1>10, <1>23, <1>24 DEF M, g, SpliceDone

(* Len, Last and the empty list for a function from 1 .. n.                *)
LEMMA NodesCounted ==
  ASSUME NEW n \in Nat, NEW F, NEW L \in [1 .. n -> F]
  PROVE  Len(L) = n /\ (L = <<>> <=> n = 0) /\ Last(L) = L[n]
  <1>1. L \in Seq(F)
    OBVIOUS
  <1>2. Len(L) = n
    <2>1. Len(L) \in Nat /\ DOMAIN L = 1 .. Len(L)
      BY <1>1, LenProperties
    <2> QED
      BY <2>1
  <1>3. L = <<>> <=> n = 0
    BY <1>1, <1>2, EmptySeq
  <1> QED
    BY <1>2, <1>3 DEF Last

(* Tags read back as they were written.                                    *)
LEMMA TagsRead ==
  ASSUME NEW h, NEW S, Layout(S, h.brk), NEW U, NEW X, Tagged(h, S, U, X), NEW b \in DOMAIN S \ X
  PROVE  /\ GET_SIZE(h, HDRP(b)) = S[b] /\ GET_ALLOC(h, HDRP(b)) = Bit(U, b)
         /\ FTRP(h, b) = b + S[b] - 8 /\ GET_ALLOC(h, FTRP(h, b)) = Bit(U, b)
         /\ GET_SIZE(h, FTRP(h, b)) = S[b]
         /\ NEXT_BLKP(h, b) = b + S[b]
  <1>1. Aligned(S[b]) /\ Bit(U, b) \in {0, 1}
    BY Blocks DEF Bit
  <1>2. GET(h, b - 4) = S[b] + Bit(U, b) /\ GET(h, b + S[b] - 8) = S[b] + Bit(U, b)
    BY DEF Tagged
  <1>3. GET_SIZE(h, b - 4) = S[b] /\ GET_ALLOC(h, b - 4) = Bit(U, b)
    BY <1>1, <1>2, Unpacked
  <1>4. GET_SIZE(h, b + S[b] - 8) = S[b] /\ GET_ALLOC(h, b + S[b] - 8) = Bit(U, b)
    BY <1>1, <1>2, Unpacked
  <1> QED
    BY <1>3, <1>4 DEF HDRP, FTRP, NEXT_BLKP, WSIZE, DSIZE

(* insert_node adds one block to the free list and changes nothing else.   *)
LEMMA Inserted ==
  ASSUME NEW h, NEW S, NEW U, NEW F, Sound(h, S, U, F, {}),
         NEW ptr \in DOMAIN S \ U, ptr \notin F,
         NEW g, g = insert_node(h, ptr, S[ptr])
  PROVE  Sound(g, S, U, F \cup {ptr}, {}) /\ g.brk = h.brk /\ Kept(h, g, S, U)
  <1>1. /\ h \in Heaps /\ Layout(S, h.brk) /\ U \subseteq DOMAIN S
        /\ F \subseteq DOMAIN S /\ F \subseteq DOMAIN S \ U /\ Tagged(h, S, U, {})
    BY DEF Sound
  <1>a. PICK n \in Nat : \E L \in [1 .. n -> F] : Chained(h, S, F, n, L)
    BY DEF Sound
  <1>2. PICK L \in [1 .. n -> F] : Chained(h, S, F, n, L)
    BY <1>a
  <1>3. Chain(h) = L
    BY <1>1, <1>2, ChainFound
  <1>4. Len(L) = n /\ (L = <<>> <=> n = 0) /\ Last(L) = L[n]
    BY NodesCounted
  <1>5. \A k \in 1 .. n : GET_SIZE(h, HDRP(L[k])) = S[L[k]]
    BY <1>1, TagsRead
  <1> DEFINE I == {k \in 1 .. n : S[ptr] <= S[L[k]]}
             ix == IF I # {} THEN Min(I) ELSE 0
             j == IF I # {} THEN Min(I) ELSE n + 1
             prev == IF j = 1 THEN NULL ELSE L[j - 1]
             cur == IF j = n + 1 THEN NULL ELSE L[j]
  <1>6. SelectInSeq(L, LAMBDA p : S[ptr] <= GET_SIZE(h, HDRP(p))) = ix
    <2>1. {k \in 1 .. n : S[ptr] <= GET_SIZE(h, HDRP(L[k]))} = I
      BY <1>5
    <2> QED
      BY <1>4, <2>1 DEF SelectInSeq
  <1>7. I # {} => Min(I) \in I /\ \A k \in I : Min(I) <= k
    <2>1. I \subseteq Nat
      OBVIOUS
    <2> HIDE DEF I
    <2> QED
      BY <2>1, MinIsLeast
  <1>8. j \in 1 .. n + 1 /\ (ix = 0 <=> j = n + 1) /\ (ix # 0 => ix = j)
    BY <1>7
  <1>9. g = Link(Link(h, prev, ptr), ptr, cur)
    <2>1. insert_node(h, ptr, S[ptr])
            = Link(Link(h, IF ix = 1 \/ L = <<>> THEN NULL ELSE IF ix = 0 THEN Last(L) ELSE L[ix - 1], ptr),
                   ptr, IF ix = 0 THEN NULL ELSE L[ix])
      BY <1>3, <1>6 DEF insert_node, InsertIn
    <2>2. (IF ix = 1 \/ L = <<>> THEN NULL ELSE IF ix = 0 THEN Last(L) ELSE L[ix - 1]) = prev
      <3> HIDE DEF ix, j
      <3>1. CASE ix = 0
        BY <1>4, <1>8, <3>1
      <3>2. CASE ix # 0
        BY <1>4, <1>8, <3>2
      <3> QED
        BY <3>1, <3>2
    <2>3. (IF ix = 0 THEN NULL ELSE L[ix]) = cur
      BY <1>8
    <2> QED
      BY <2>1, <2>2, <2>3
  <1>10. \A p \in DOMAIN S : S[p] \in Nat
    BY <1>1, Blocks
  <1>11. \A k \in 1 .. n : k < j => S[L[k]] <= S[ptr]
    <2> SUFFICES ASSUME NEW k \in 1 .. n, k < j PROVE S[L[k]] <= S[ptr]
      OBVIOUS
    <2>1. k \notin I
      BY <1>7
    <2> QED
      BY <1>1, <1>10, <2>1
  <1>12. \A k \in 1 .. n : k >= j => S[ptr] <= S[L[k]]
    <2> SUFFICES ASSUME NEW k \in 1 .. n, k >= j PROVE S[ptr] <= S[L[k]]
      OBVIOUS
    <2>1. j \in I
      BY <1>7
    <2>2. S[ptr] <= S[L[j]] /\ j \in 1 .. n
      BY <2>1
    <2> HIDE DEF j
    <2>3. j < k => S[L[j]] <= S[L[k]]
      BY <1>2, <2>2 DEF Chained
    <2>4. S[ptr] \in Nat /\ S[L[j]] \in Nat /\ S[L[k]] \in Nat
      BY <1>1, <1>10, <2>2
    <2>5. CASE j < k
      BY <2>2, <2>3, <2>4, <2>5
    <2>6. CASE j = k
      BY <2>2, <2>6
    <2> QED
      BY <2>2, <2>5, <2>6
  <1> DEFINE M == Spliced(L, n, j, ptr)
  <1>13. /\ g \in Heaps /\ g.brk = h.brk
         /\ M \in [1 .. n + 1 -> F \cup {ptr}]
         /\ Chained(g, S, F \cup {ptr}, n + 1, M)
         /\ \A a \in Places : (\A p \in F \cup {ptr} : a # p /\ a # p + 4) => GET(g, a) = GET(h, a)
    <2> DEFINE pr == prev
               cu == cur
    <2>1. pr = IF j = 1 THEN NULL ELSE L[j - 1]
      OBVIOUS
    <2>2. cu = IF j = n + 1 THEN NULL ELSE L[j]
      OBVIOUS
    <2>3. g = Link(Link(h, pr, ptr), ptr, cu)
      BY <1>9
    <2>4. h \in Heaps /\ Layout(S, h.brk) /\ F \subseteq DOMAIN S /\ ptr \in DOMAIN S \ F
      BY <1>1
    <2>5. j \in 1 .. n + 1 /\ n \in Nat /\ L \in [1 .. n -> F]
      BY <1>8
    <2> HIDE DEF pr, cu, j
    <2>6. SpliceAt(h, S, F, n, L, ptr, j, pr, cu)
      BY <1>2, <1>11, <1>12, <2>1, <2>2, <2>4, <2>5 DEF SpliceAt
    <2>7. SpliceDone(h, Link(Link(h, pr, ptr), ptr, cu), S, F, n, L, ptr, j)
      BY <2>6, SplicedChain
    <2> QED
      BY <2>3, <2>7 DEF SpliceDone
  <1> HIDE DEF M
  <1>14. Tagged(g, S, U, {}) /\ Kept(h, g, S, U)
    <2>1. \A a \in Places : (\A p \in DOMAIN S \ U : a # p /\ a # p + 4) => GET(g, a) = GET(h, a)
      BY <1>1, <1>13
    <2>2. g \in Heaps /\ g.brk = h.brk
      BY <1>13
    <2> QED
      BY <1>1, <2>1, <2>2, PointersOnly
  <1>15. n + 1 \in Nat
    OBVIOUS
  <1> QED
    BY <1>1, <1>13, <1>14, <1>15 DEF Sound


(* Node j leaves the list.                                                 *)
Removed(L, n, j) == [k \in 1 .. n - 1 |-> IF k < j THEN L[k] ELSE L[k + 1]]

(* L is the free list and j one of its places.                             *)
NodeAt(h, S, F, n, L, j) ==
    /\ h \in Heaps /\ Layout(S, h.brk) /\ F \subseteq DOMAIN S
    /\ n \in Nat /\ L \in [1 .. n -> F] /\ Chained(h, S, F, n, L)
    /\ j \in 1 .. n

(* In g the list is L without its node j.                                  *)
RemoveDone(h, g, S, F, n, L, j) ==
    /\ g \in Heaps /\ g.brk = h.brk
    /\ Removed(L, n, j) \in [1 .. n - 1 -> F \ {L[j]}]
    /\ Chained(g, S, F \ {L[j]}, n - 1, Removed(L, n, j))
    /\ \A a \in Places : (\A p \in F : a # p /\ a # p + 4) => GET(g, a) = GET(h, a)

(* delete_node takes node j out of the list whether it is first, last or   *)
(* between.                                                                *)
LEMMA RemovedChain ==
  ASSUME NEW h, NEW S, NEW F, NEW n, NEW L, NEW j, NodeAt(h, S, F, n, L, j)
  PROVE  RemoveDone(h, delete_node(h, L[j]), S, F, n, L, j)
  <1> /\ h \in Heaps /\ Layout(S, h.brk) /\ F \subseteq DOMAIN S
      /\ n \in Nat /\ L \in [1 .. n -> F] /\ Chained(h, S, F, n, L)
      /\ j \in 1 .. n
    BY DEF NodeAt
  <1> DEFINE M == Removed(L, n, j)
             g == delete_node(h, L[j])
             prev == IF j = 1 THEN NULL ELSE L[j - 1]
             next == IF j = n THEN NULL ELSE L[j + 1]
  <1>1. \A b \in DOMAIN S : b \in Nat /\ b # NULL /\ b \in Places /\ b + 4 \in Places
    BY Blocks DEF NULL
  <1>2. /\ \A k \in 1 .. n : L[k] \in DOMAIN S /\ L[k] \in F
        /\ \A ix, k \in 1 .. n : L[ix] = L[k] => ix = k
    BY DEF Chained
  <1>3. /\ j # 1 => j - 1 \in 1 .. n
        /\ j # n => j + 1 \in 1 .. n
    OBVIOUS
  <1>4. prev \in Nat /\ next \in Nat
    BY <1>1, <1>2, <1>3 DEF NULL
  <1>5. /\ prev # NULL => prev \in F /\ prev \in DOMAIN S
        /\ next # NULL => next \in F /\ next \in DOMAIN S
    BY <1>2, <1>3
  <1>6. g = Link(h, prev, next)
    <2>1. GET(h, L[j]) = next /\ GET(h, L[j] + 4) = prev
      BY DEF Chained
    <2> QED
      BY <2>1 DEF delete_node, SEGLIST_NEXT, SEGLIST_PREV, WSIZE
  <1> DEFINE pr == prev
             ne == next
  <1>7. /\ pr \in Nat /\ ne \in Nat
        /\ pr # NULL => pr \in F /\ pr \in DOMAIN S
        /\ ne # NULL => ne \in F /\ ne \in DOMAIN S
        /\ g = Link(h, pr, ne)
        /\ pr = IF j = 1 THEN NULL ELSE L[j - 1]
        /\ ne = IF j = n THEN NULL ELSE L[j + 1]
    BY <1>4, <1>5, <1>6
  <1> HIDE DEF pr, ne, g, M
  <1>8. /\ g \in Heaps /\ g.brk = h.brk /\ g.list = IF pr = NULL THEN ne ELSE h.list
        /\ \A a \in Places : GET(g, a) = IF ne # NULL /\ a = ne + 4 THEN pr
                                         ELSE IF pr # NULL /\ a = pr THEN ne ELSE GET(h, a)
    <2>1. /\ pr # NULL => pr \in Places
          /\ ne # NULL => ne + 4 \in Places
      BY <1>1, <1>7
    <2>2. pr \in Nat /\ ne \in Nat /\ g = Link(h, pr, ne)
      BY <1>7
    <2>3. h \in Heaps
      BY <1>1
    <2> QED
      BY <2>1, <2>2, <2>3, LinkStored
  <1>9. \A p, q \in DOMAIN S : p # q + 4
    BY NodesApart
  <1>10. \A p, q \in DOMAIN S : p + 4 = q + 4 => p = q
    BY <1>1
  <1>11. \A k \in 1 .. n : /\ GET(h, L[k]) = IF k = n THEN NULL ELSE L[k + 1]
                           /\ GET(h, L[k] + 4) = IF k = 1 THEN NULL ELSE L[k - 1]
    BY DEF Chained
  <1>12. \A x \in F : GET(g, x) = IF x = pr THEN ne ELSE GET(h, x)
    BY <1>1, <1>7, <1>8, <1>9
  <1>13. \A x \in F : GET(g, x + 4) = IF x = ne THEN pr ELSE GET(h, x + 4)
    BY <1>1, <1>7, <1>8, <1>9, <1>10
  <1>14. \A k \in 1 .. n : (L[k] = pr <=> k = j - 1) /\ (L[k] = ne <=> k = j + 1)
    <2> TAKE k \in 1 .. n
    <2>1. L[k] # NULL
      BY <1>1, <1>2
    <2>2. L[k] = pr <=> k = j - 1
      BY <1>2, <1>3, <1>7, <2>1
    <2>3. L[k] = ne <=> k = j + 1
      BY <1>2, <1>3, <1>7, <2>1
    <2> QED
      BY <2>2, <2>3
  <1>15. \A k \in 1 .. n : /\ GET(g, L[k]) = IF k = j - 1 THEN ne
                                             ELSE IF k = n THEN NULL ELSE L[k + 1]
                           /\ GET(g, L[k] + 4) = IF k = j + 1 THEN pr
                                             ELSE IF k = 1 THEN NULL ELSE L[k - 1]
    BY <1>2, <1>11, <1>12, <1>13, <1>14
  <1>16. \A k \in 1 .. n - 1 : /\ k < j => k \in 1 .. n /\ M[k] = L[k]
                               /\ ~(k < j) => k + 1 \in 1 .. n /\ M[k] = L[k + 1]
    BY DEF M, Removed
  <1>17. M \in [1 .. n - 1 -> F \ {L[j]}]
    <2>1. ASSUME NEW k \in 1 .. n - 1 PROVE M[k] \in F \ {L[j]}
      BY <1>2, <1>16
    <2>2. M = [k \in 1 .. n - 1 |-> M[k]]
      BY DEF M, Removed
    <2> QED
      BY <2>1, <2>2
  <1>18. ASSUME NEW k \in 1 .. n - 1
         PROVE  /\ GET(g, M[k]) = IF k = n - 1 THEN NULL ELSE M[k + 1]
                /\ GET(g, M[k] + 4) = IF k = 1 THEN NULL ELSE M[k - 1]
    <2>1. /\ k # n - 1 => k + 1 \in 1 .. n - 1
          /\ k # 1 => k - 1 \in 1 .. n - 1
          /\ k + 1 \in 1 .. n /\ k \in 1 .. n
          /\ k + 1 - 1 = k /\ k - 1 + 1 = k /\ k + 1 # 1 /\ k # n
          /\ (k + 1 = n <=> k = n - 1)
      OBVIOUS
    <2>2. CASE k < j
      <3>1. M[k] = L[k]
        BY <1>16, <2>2
      <3>2. k # 1 => M[k - 1] = L[k - 1]
        BY <1>16, <2>1, <2>2
      <3>3. k # n - 1 => M[k + 1] = IF k = j - 1 THEN L[k + 1 + 1] ELSE L[k + 1]
        BY <1>16, <2>1, <2>2
      <3>4. k = j - 1 => j = k + 1 /\ ne = IF k = n - 1 THEN NULL ELSE L[k + 1 + 1]
        BY <1>7
      <3>5. k = n - 1 => k = j - 1
        BY <2>2
      <3>6. k # j + 1
        BY <2>2
      <3> QED
        BY <1>15, <2>1, <3>1, <3>2, <3>3, <3>4, <3>5, <3>6
    <2>3. CASE ~(k < j)
      <3>1. M[k] = L[k + 1]
        BY <1>16, <2>3
      <3>2. k # n - 1 => M[k + 1] = L[k + 1 + 1]
        BY <1>16, <2>1, <2>3
      <3>3. k # 1 => M[k - 1] = IF k = j THEN L[k - 1] ELSE L[k]
        BY <1>16, <2>1, <2>3
      <3>4. k = j => pr = IF k = 1 THEN NULL ELSE L[k - 1]
        BY <1>7
      <3>5. k = 1 => k = j
        BY <2>3
      <3>6. k + 1 # j - 1 /\ (k + 1 = j + 1 <=> k = j)
        BY <2>3
      <3>7. /\ GET(g, L[k + 1]) = IF k + 1 = n THEN NULL ELSE L[k + 1 + 1]
            /\ GET(g, L[k + 1] + 4) = IF k = j THEN pr ELSE L[k]
        BY <1>15, <2>1, <3>6
      <3> QED
        BY <2>1, <3>1, <3>2, <3>3, <3>4, <3>5, <3>7
    <2> QED
      BY <2>2, <2>3
  <1>19. \A b \in F \ {L[j]} : \E k \in 1 .. n - 1 : M[k] = b
    <2> TAKE b \in F \ {L[j]}
    <2>1. PICK k \in 1 .. n : L[k] = b
      BY DEF Chained
    <2>2. CASE k < j
      <3>1. k \in 1 .. n - 1
        BY <2>2
      <3> QED
        BY <1>16, <2>1, <2>2, <3>1
    <2>3. CASE ~(k < j)
      <3>1. k # j
        BY <2>1
      <3>2. k - 1 \in 1 .. n - 1 /\ ~(k - 1 < j) /\ k - 1 + 1 = k
        BY <2>3, <3>1
      <3>3. M[k - 1] = b
        BY <1>16, <2>1, <3>2
      <3> QED
        BY <3>2, <3>3
    <2> QED
      BY <2>2, <2>3
  <1> DEFINE at(m) == IF m < j THEN m ELSE m + 1
  <1>20. /\ \A k \in 1 .. n - 1 : at(k) \in 1 .. n /\ M[k] = L[at(k)]
         /\ \A ix, k \in 1 .. n - 1 : /\ ix < k => at(ix) < at(k)
                                      /\ at(ix) = at(k) => ix = k
    <2>1. \A k \in 1 .. n - 1 : at(k) \in 1 .. n /\ M[k] = L[at(k)]
      BY <1>16
    <2>2. \A ix, k \in 1 .. n - 1 : /\ ix < k => at(ix) < at(k)
                                    /\ at(ix) = at(k) => ix = k
      OBVIOUS
    <2> QED
      BY <2>1, <2>2
  <1> HIDE DEF at
  <1>21. \A ix, k \in 1 .. n - 1 : M[ix] = M[k] => ix = k
    BY <1>2, <1>20
  <1>22. \A ix, k \in 1 .. n - 1 : ix < k => S[M[ix]] <= S[M[k]]
    <2>1. \A ix, k \in 1 .. n : ix < k => S[L[ix]] <= S[L[k]]
      BY DEF Chained
    <2>2. SUFFICES ASSUME NEW ix \in 1 .. n - 1, NEW k \in 1 .. n - 1, ix < k
                   PROVE  S[M[ix]] <= S[M[k]]
      OBVIOUS
    <2>3. /\ at(ix) \in 1 .. n /\ at(k) \in 1 .. n /\ at(ix) < at(k)
          /\ M[ix] = L[at(ix)] /\ M[k] = L[at(k)]
      BY <1>20, <2>2
    <2>4. S[L[at(ix)]] <= S[L[at(k)]]
      BY <2>1, <2>3
    <2> QED
      BY <2>3, <2>4
  <1>23. g.list = IF n - 1 = 0 THEN NULL ELSE M[1]
    <2>1. h.list = L[1]
      BY DEF Chained
    <2>2. CASE j = 1
      <3>1. n # 1 => 1 \in 1 .. n - 1 /\ M[1] = L[2]
        BY <1>16, <2>2
      <3> QED
        BY <1>7, <1>8, <2>2, <3>1
    <2>3. CASE j # 1
      <3>1. pr # NULL
        BY <1>1, <1>2, <1>3, <1>7, <2>3
      <3>2. 1 \in 1 .. n - 1 /\ M[1] = L[1] /\ n - 1 # 0
        BY <1>16, <2>3
      <3> QED
        BY <1>8, <2>1, <3>1, <3>2
    <2> QED
      BY <2>2, <2>3
  <1>24. Chained(g, S, F \ {L[j]}, n - 1, M)
    BY <1>18, <1>19, <1>21, <1>22, <1>23 DEF Chained
  <1>25. \A a \in Places : (\A p \in F : a # p /\ a # p + 4) => GET(g, a) = GET(h, a)
    BY <1>7, <1>8
  <1> QED
    BY <1>8, <1>17, <1>24, <1>25 DEF M, g, RemoveDone

(* delete_node takes one block off the free list and changes nothing       *)
(* else.                                                                   *)
LEMMA Deleted ==
  ASSUME NEW h, NEW S, NEW U, NEW F, Sound(h, S, U, F, {}), NEW ptr \in F
  PROVE  /\ Sound(delete_node(h, ptr), S, U, F \ {ptr}, {})
         /\ delete_node(h, ptr).brk = h.brk
         /\ Kept(h, delete_node(h, ptr), S, U)
  <1>1. /\ h \in Heaps /\ Layout(S, h.brk) /\ U \subseteq DOMAIN S
        /\ F \subseteq DOMAIN S /\ F \subseteq DOMAIN S \ U /\ Tagged(h, S, U, {})
    BY DEF Sound
  <1>a. PICK n \in Nat : \E L \in [1 .. n -> F] : Chained(h, S, F, n, L)
    BY DEF Sound
  <1>2. PICK L \in [1 .. n -> F] : Chained(h, S, F, n, L)
    BY <1>a
  <1>3. PICK j \in 1 .. n : L[j] = ptr
    BY <1>2 DEF Chained
  <1> DEFINE g == delete_node(h, ptr)
             M == Removed(L, n, j)
  <1>4. RemoveDone(h, delete_node(h, L[j]), S, F, n, L, j)
    <2>1. NodeAt(h, S, F, n, L, j)
      BY <1>1, <1>2 DEF NodeAt
    <2> QED
      BY <2>1, RemovedChain
  <1>5. /\ g \in Heaps /\ g.brk = h.brk
        /\ M \in [1 .. n - 1 -> F \ {ptr}]
        /\ Chained(g, S, F \ {ptr}, n - 1, M)
        /\ \A a \in Places : (\A p \in F : a # p /\ a # p + 4) => GET(g, a) = GET(h, a)
    BY <1>3, <1>4 DEF RemoveDone
  <1>6. n - 1 \in Nat
    BY <1>3
  <1> HIDE DEF g, M
  <1>7. Tagged(g, S, U, {}) /\ Kept(h, g, S, U)
    <2>1. \A a \in Places : (\A p \in DOMAIN S \ U : a # p /\ a # p + 4) => GET(g, a) = GET(h, a)
      BY <1>1, <1>5
    <2> QED
      BY <1>1, <1>5, <2>1, PointersOnly
  <1>8. Sound(g, S, U, F \ {ptr}, {})
    BY <1>1, <1>5, <1>6, <1>7 DEF Sound
  <1> QED
    BY <1>5, <1>7, <1>8 DEF g

----------------------------------------------------------------------------
(* Blocks outside the list are merged, divided and tagged *)

(* The list only depends on the sizes of its blocks.                       *)
LEMMA ChainedSame ==
  ASSUME NEW h, NEW g, NEW S, NEW T, NEW F, NEW n \in Nat, NEW L \in [1 .. n -> F],
         Chained(h, S, F, n, L), \A b \in F : T[b] = S[b], g.list = h.list,
         \A b \in F : GET(g, b) = GET(h, b) /\ GET(g, b + 4) = GET(h, b + 4)
  PROVE  Chained(g, T, F, n, L)
  <1>1. \A k \in 1 .. n : L[k] \in F
    OBVIOUS
  <1> QED
    BY <1>1 DEF Chained

(* Two neighbours off the list may be seen as one block with its tags      *)
(* pending.                                                                *)
LEMMA MergedSound ==
  ASSUME NEW h, NEW S, NEW U, NEW F, NEW X, Sound(h, S, U, F, X),
         NEW b \in DOMAIN S \ F, b + S[b] \in DOMAIN S \ F
  PROVE  Sound(h, Merged(S, b), U \ {b + S[b]}, F, (X \ {b + S[b]}) \cup {b})
  <1> DEFINE T == Merged(S, b)
             d == b + S[b]
             V == U \ {d}
             Y == (X \ {d}) \cup {b}
  <1>1. /\ h \in Heaps /\ Layout(S, h.brk) /\ U \subseteq DOMAIN S
        /\ F \subseteq DOMAIN S \ U /\ Tagged(h, S, U, X)
    BY DEF Sound
  <1>2. /\ Layout(T, h.brk) /\ DOMAIN T = DOMAIN S \ {d} /\ b # d
        /\ \A c \in DOMAIN S \ {b, d} : T[c] = S[c]
    BY <1>1, MergedLayout
  <1> HIDE DEF T
  <1>3. V \subseteq DOMAIN T /\ F \subseteq DOMAIN T \ V
    BY <1>1, <1>2
  <1>4. Tagged(h, T, V, Y)
    <2>1. ASSUME NEW c \in DOMAIN T \ Y
          PROVE  GET(h, c - 4) = T[c] + Bit(V, c) /\ GET(h, c + T[c] - 8) = T[c] + Bit(V, c)
      <3>1. c \in DOMAIN S \ X /\ T[c] = S[c] /\ c # d
        BY <1>2
      <3>2. Bit(V, c) = Bit(U, c)
        BY <3>1 DEF Bit
      <3> QED
        BY <1>1, <3>1, <3>2 DEF Tagged
    <2> QED
      BY <1>1, <2>1 DEF Tagged
  <1>5. \E n \in Nat : \E L \in [1 .. n -> F] : Chained(h, T, F, n, L)
    <2>1. PICK n \in Nat : \E L \in [1 .. n -> F] : Chained(h, S, F, n, L)
      BY DEF Sound
    <2>2. PICK L \in [1 .. n -> F] : Chained(h, S, F, n, L)
      BY <2>1
    <2>3. \A c \in F : T[c] = S[c]
      BY <1>1, <1>2
    <2>4. Chained(h, T, F, n, L)
      BY <2>2, <2>3, ChainedSame
    <2> QED
      BY <2>4
  <1>6. Sound(h, T, V, F, Y)
    BY <1>1, <1>2, <1>3, <1>4, <1>5 DEF Sound
  <1> QED
    BY <1>6 DEF T

(* A block off the list may be seen as two with their tags pending.        *)
LEMMA DividedSound ==
  ASSUME NEW h, NEW S, NEW U, NEW F, NEW X, Sound(h, S, U, F, X),
         NEW b \in DOMAIN S \ F, NEW low, Divisible(S, b, low)
  PROVE  Sound(h, Divided(S, b, low), U, F, X \cup {b, b + low})
  <1> DEFINE T == Divided(S, b, low)
             Y == X \cup {b, b + low}
  <1>1. /\ h \in Heaps /\ Layout(S, h.brk) /\ U \subseteq DOMAIN S
        /\ F \subseteq DOMAIN S \ U /\ Tagged(h, S, U, X)
    BY DEF Sound
  <1>2. /\ Layout(T, h.brk) /\ DOMAIN T = DOMAIN S \cup {b + low} /\ b + low \notin DOMAIN S
        /\ \A c \in DOMAIN S \ {b} : T[c] = S[c]
    <2> DEFINE top == h.brk
    <2>1. Layout(S, top)
      BY <1>1
    <2> HIDE DEF top, T
    <2>2. DividedDone(S, Divided(S, b, low), top, b, low)
      BY <2>1, DividedLayout
    <2> QED
      BY <2>2 DEF top, T, DividedDone
  <1> HIDE DEF T
  <1>3. U \subseteq DOMAIN T /\ F \subseteq DOMAIN T \ U
    BY <1>1, <1>2
  <1>4. Tagged(h, T, U, Y)
    <2>1. ASSUME NEW c \in DOMAIN T \ Y
          PROVE  GET(h, c - 4) = T[c] + Bit(U, c) /\ GET(h, c + T[c] - 8) = T[c] + Bit(U, c)
      <3>1. c \in DOMAIN S \ X /\ T[c] = S[c]
        BY <1>2
      <3> QED
        BY <1>1, <3>1 DEF Tagged
    <2> QED
      BY <1>1, <2>1 DEF Tagged
  <1>5. \E n \in Nat : \E L \in [1 .. n -> F] : Chained(h, T, F, n, L)
    <2>1. PICK n \in Nat : \E L \in [1 .. n -> F] : Chained(h, S, F, n, L)
      BY DEF Sound
    <2>2. PICK L \in [1 .. n -> F] : Chained(h, S, F, n, L)
      BY <2>1
    <2>3. \A c \in F : T[c] = S[c]
      BY <1>1, <1>2
    <2>4. Chained(h, T, F, n, L)
      BY <2>2, <2>3, ChainedSame
    <2> QED
      BY <2>4
  <1>6. Sound(h, T, U, F, Y)
    BY <1>1, <1>2, <1>3, <1>4, <1>5 DEF Sound
  <1> QED
    BY <1>6 DEF T

(* The set of blocks in use when b is tagged with the bit a.               *)
Mark(U, b, a) == IF a = 1 THEN U \cup {b} ELSE U \ {b}

(* Writing the tags of a block off the list ends its being pending.        *)
LEMMA Retagged ==
  ASSUME NEW h, NEW S, NEW U, NEW F, NEW X, Sound(h, S, U, F, X),
         NEW b \in DOMAIN S \ F, NEW a \in {0, 1}
  PROVE  /\ Sound(Tag(h, b, S[b], a), S, Mark(U, b, a), F, X \ {b})
         /\ Tag(h, b, S[b], a).brk = h.brk
         /\ Kept(h, Tag(h, b, S[b], a), S, DOMAIN S)
  <1> DEFINE s == S[b]
             g == Tag(h, b, s, a)
             V == Mark(U, b, a)
             Y == X \ {b}
             top == h.brk
  <1>1. /\ h \in Heaps /\ Layout(S, top) /\ U \subseteq DOMAIN S
        /\ F \subseteq DOMAIN S \ U /\ Tagged(h, S, U, X)
    BY DEF Sound
  <1>2. \A c \in DOMAIN S :
           /\ c \in Nat /\ S[c] \in Nat /\ top \in Nat /\ Aligned(c) /\ Aligned(S[c])
           /\ 16 <= c /\ 16 <= S[c] /\ c + S[c] <= top /\ top <= MAX_HEAP
           /\ {c - 4, c, c + 4, c + S[c] - 8} \subseteq Places
    BY <1>1, Blocks
  <1> HIDE DEF s
  <1>3. /\ g \in Heaps /\ g.brk = h.brk /\ g.list = h.list
        /\ \A q \in Places : GET(g, q) = IF q = b - 4 \/ q = b + s - 8 THEN s + a ELSE GET(h, q)
    <2>1. Taggable(b, s)
      BY <1>2, MaxHeap DEF s, Taggable
    <2>2. h \in Heaps
      BY <1>1
    <2> HIDE DEF g
    <2>3. TagDone(h, Tag(h, b, s, a), b, s, a)
      BY <2>1, <2>2, TagStored
    <2> QED
      BY <2>3 DEF g, TagDone
  <1> HIDE DEF g
  <1>4. Owns(S, b, b - 4) /\ Owns(S, b, b + s - 8) /\ b - 4 \in Int /\ b + s - 8 \in Int
    BY <1>1, Parts DEF s
  <1>5. ASSUME NEW c \in DOMAIN S, c # b, NEW x \in Places, Owns(S, c, x)
        PROVE  GET(g, x) = GET(h, x)
    <2>1. x \in Int
      BY DEF Places
    <2>2. x # b - 4 /\ x # b + s - 8
      BY <1>1, <1>4, <1>5, <2>1, Apart
    <2> QED
      BY <1>3, <2>2
  <1>6. b - 4 # b + s - 8 /\ b - 4 \in Places /\ b + s - 8 \in Places
    BY <1>2 DEF s
  <1>7. {4, 8, top - 4} \subseteq Places /\ top \in Nat
    <2>1. Aligned(top) /\ 16 <= top /\ top <= MAX_HEAP /\ top \in Nat
      BY <1>1 DEF Layout, Aligned
    <2>2. top - 4 \in Places
      BY <2>1, AlignedPlaces
    <2>3. 4 \in Places /\ 8 \in Places
      BY <2>1, MaxHeap DEF Places, WSIZE
    <2> QED
      BY <2>1, <2>2, <2>3
  <1>8. 8 < b - 4 /\ b - 4 < top - 4 /\ 8 < b + s - 8 /\ b + s - 8 < top - 4
    BY <1>1, <1>4, Apart
  <1>9. Tagged(g, S, V, Y)
    <2>1. GET(g, 4) = 9 /\ GET(g, 8) = 9 /\ GET(g, g.brk - 4) = 1
      <3>1. GET(h, 4) = 9 /\ GET(h, 8) = 9 /\ GET(h, top - 4) = 1
        BY <1>1 DEF Tagged
      <3>2. \A q \in {4, 8, top - 4} : q # b - 4 /\ q # b + s - 8
        BY <1>4, <1>7, <1>8
      <3> QED
        BY <1>3, <1>7, <3>1, <3>2
    <2>2. ASSUME NEW c \in DOMAIN S \ Y
          PROVE  GET(g, c - 4) = S[c] + Bit(V, c) /\ GET(g, c + S[c] - 8) = S[c] + Bit(V, c)
      <3>1. CASE c = b
        <4>1. Bit(V, b) = a
          BY DEF Mark, Bit
        <4> QED
          BY <1>3, <1>6, <3>1, <4>1 DEF s
      <3>2. CASE c # b
        <4>1. c \in DOMAIN S \ X
          BY <3>2
        <4>2. Bit(V, c) = Bit(U, c)
          BY <3>2 DEF Mark, Bit
        <4>3. /\ Owns(S, c, c - 4) /\ Owns(S, c, c + S[c] - 8)
          BY <1>1, Parts
        <4>4. c - 4 \in Places /\ c + S[c] - 8 \in Places
          BY <1>2
        <4>5. GET(g, c - 4) = GET(h, c - 4) /\ GET(g, c + S[c] - 8) = GET(h, c + S[c] - 8)
          BY <1>5, <3>2, <4>3, <4>4
        <4> QED
          BY <1>1, <4>1, <4>2, <4>5 DEF Tagged
      <3> QED
        BY <3>1, <3>2
    <2> QED
      BY <2>1, <2>2 DEF Tagged
  <1>10. Kept(h, g, S, DOMAIN S)
    <2>1. ASSUME NEW c \in DOMAIN S, NEW x \in Places, c <= x, x < c + S[c] - 8
          PROVE  GET(g, x) = GET(h, x)
      <3>1. CASE c = b
        <4>1. x # b - 4 /\ x # b + s - 8
          BY <1>2, <2>1, <3>1 DEF s, Places
        <4> QED
          BY <1>3, <4>1
      <3>2. CASE c # b
        BY <1>1, <1>5, <2>1, <3>2, Parts
      <3> QED
        BY <3>1, <3>2
    <2> QED
      BY <2>1 DEF Kept
  <1>11. \E n \in Nat : \E L \in [1 .. n -> F] : Chained(g, S, F, n, L)
    <2>1. PICK n \in Nat : \E L \in [1 .. n -> F] : Chained(h, S, F, n, L)
      BY DEF Sound
    <2>2. PICK L \in [1 .. n -> F] : Chained(h, S, F, n, L)
      BY <2>1
    <2>3. \A c \in F : GET(g, c) = GET(h, c) /\ GET(g, c + 4) = GET(h, c + 4)
      <3> TAKE c \in F
      <3>1. c \in DOMAIN S /\ c # b
        BY <1>1
      <3>2. Owns(S, c, c) /\ Owns(S, c, c + 4) /\ c \in Places /\ c + 4 \in Places
        BY <1>1, <1>2, <3>1, Parts
      <3> QED
        BY <1>5, <3>1, <3>2
    <2>4. Chained(g, S, F, n, L)
      BY <1>3, <2>2, <2>3, ChainedSame
    <2> QED
      BY <2>4
  <1>12. V \subseteq DOMAIN S /\ F \subseteq DOMAIN S \ V
    BY <1>1 DEF Mark
  <1>13. Sound(g, S, V, F, Y)
    BY <1>1, <1>3, <1>9, <1>11, <1>12 DEF Sound
  <1> QED
    BY <1>3, <1>10, <1>13 DEF g, s

(* T is the layout S with d joined to b.                                   *)
MergedDone(S, T, b, d) ==
    /\ DOMAIN T = DOMAIN S \ {d} /\ b # d
    /\ T[b] = S[b] + S[d]
    /\ \A c \in DOMAIN S \ {b, d} : T[c] = S[c]

(* The same, with the new layout and the second block named.               *)
LEMMA Merging ==
  ASSUME NEW h, NEW S, NEW U, NEW F, NEW X, Sound(h, S, U, F, X),
         NEW b \in DOMAIN S \ F, NEW d \in DOMAIN S \ F, d = b + S[b]
  PROVE  \E T : Sound(h, T, U \ {d}, F, (X \ {d}) \cup {b}) /\ MergedDone(S, T, b, d)
  <1>1. Layout(S, h.brk)
    BY DEF Sound
  <1>2. MergedDone(S, Merged(S, b), b, d)
    BY <1>1, MergedLayout DEF MergedDone
  <1>3. Sound(h, Merged(S, b), U \ {d}, F, (X \ {d}) \cup {b})
    BY MergedSound
  <1> QED
    BY <1>2, <1>3

(* DividedSound for the layout there is.                                   *)
LEMMA Dividing ==
  ASSUME NEW h, NEW S, NEW U, NEW F, NEW X, Sound(h, S, U, F, X),
         NEW b \in DOMAIN S \ F, NEW low, Divisible(S, b, low), NEW d, d = b + low
  PROVE  \E T : Sound(h, T, U, F, X \cup {b, d}) /\ DividedDone(S, T, h.brk, b, low)
  <1>1. Layout(S, h.brk)
    BY DEF Sound
  <1>2. DividedDone(S, Divided(S, b, low), h.brk, b, low)
    BY <1>1, DividedLayout
  <1>3. Sound(h, Divided(S, b, low), U, F, X \cup {b, d})
    BY DividedSound
  <1> QED
    BY <1>2, <1>3

----------------------------------------------------------------------------
(* Between operations *)

(* Every block is in use or in the free list.                              *)
Quiet(h, S, U) == Sound(h, S, U, DOMAIN S \ U, {})

(* What an operation on h that leaves the blocks U alone leads to.         *)
Settled(h, g, S, T, U) ==
    /\ Quiet(g, T, U) /\ g.brk >= h.brk
    /\ \A b \in U : T[b] = S[b]
    /\ Kept(h, g, S, U)

(* What two operations keep, their sequence keeps.                         *)
LEMMA KeptTwice ==
  ASSUME NEW h, NEW g, NEW k, NEW S, NEW T, NEW U, Kept(h, g, S, U), Kept(g, k, T, U),
         \A b \in U : T[b] = S[b]
  PROVE  Kept(h, k, S, U)
  BY DEF Kept

(* What is kept of more blocks is kept of fewer.                           *)
LEMMA KeptFewer ==
  ASSUME NEW h, NEW g, NEW S, NEW T, NEW U, NEW V \in SUBSET U, Kept(h, g, T, U),
         \A b \in V : T[b] = S[b]
  PROVE  Kept(h, g, S, V)
  BY DEF Kept

(* The neighbours of a block, as far as they are free.                     *)
LEMMA Neighbours ==
  ASSUME NEW h, NEW S, Layout(S, h.brk), NEW U, Tagged(h, S, U, {}), NEW b \in DOMAIN S,
         NEW prev, prev = PREV_BLKP(h, b), NEW next, next = NEXT_BLKP(h, b)
  PROVE  /\ next = b + S[b]
         /\ GET_ALLOC(h, HDRP(next)) = 0 => next \in DOMAIN S \ U
         /\ GET_ALLOC(h, FTRP(h, prev)) = 0 => prev \in DOMAIN S \ U /\ b = prev + S[prev]
  <1>1. next = b + S[b]
    BY TagsRead
  <1>2. ASSUME GET_ALLOC(h, HDRP(next)) = 0 PROVE next \in DOMAIN S \ U
    <2>1. next \in DOMAIN S \cup {h.brk}
      BY <1>1 DEF Layout
    <2>2. next # h.brk
      <3>1. GET(h, h.brk - 4) = 1
        BY DEF Tagged
      <3>2. next = h.brk => GET_ALLOC(h, HDRP(next)) = 1
        BY <3>1 DEF GET_ALLOC, HDRP, WSIZE
      <3> QED
        BY <1>2, <3>2
    <2>3. GET_ALLOC(h, HDRP(next)) = Bit(U, next)
      BY <2>1, <2>2, TagsRead
    <2> QED
      BY <1>2, <2>1, <2>2, <2>3 DEF Bit
  <1>3. ASSUME GET_ALLOC(h, FTRP(h, prev)) = 0 PROVE prev \in DOMAIN S \ U /\ b = prev + S[prev]
    <2>1. \A c \in DOMAIN S : c \in Nat /\ S[c] \in Nat
      BY Blocks
    <2>2. CASE b = 16
      <3>1. GET(h, 4) = 9 /\ GET(h, 8) = 9
        BY DEF Tagged
      <3>2. GET_SIZE(h, 4) = 8 /\ GET_SIZE(h, 8) = 8 /\ GET_ALLOC(h, 8) = 1
        BY <3>1 DEF GET_SIZE, GET_ALLOC, ALIGNMENT
      <3>3. prev = 8
        BY <2>2, <3>2 DEF PREV_BLKP, DSIZE
      <3>4. FTRP(h, prev) = 8
        BY <3>2, <3>3 DEF FTRP, HDRP, WSIZE, DSIZE
      <3> QED
        BY <1>3, <3>2, <3>4
    <2>3. CASE b # 16
      <3>1. PICK c \in DOMAIN S : c + S[c] = b
        BY <2>3 DEF Layout
      <3>2. /\ FTRP(h, c) = c + S[c] - 8 /\ GET_SIZE(h, FTRP(h, c)) = S[c]
            /\ GET_ALLOC(h, FTRP(h, c)) = Bit(U, c)
        BY TagsRead
      <3>3. FTRP(h, c) = b - 8
        BY <2>1, <3>1, <3>2
      <3>4. prev = c
        BY <2>1, <3>1, <3>2, <3>3 DEF PREV_BLKP, DSIZE
      <3>5. c \notin U
        BY <1>3, <3>2, <3>4 DEF Bit
      <3> QED
        BY <3>1, <3>4, <3>5
    <2> QED
      BY <2>2, <2>3
  <1> QED
    BY <1>1, <1>2, <1>3

(* A block outside the list is tagged free and inserted.                   *)
LEMMA Freed ==
  ASSUME NEW h, NEW S, NEW U, NEW F, NEW b \in DOMAIN S \ F, NEW X \in SUBSET {b},
         Sound(h, S, U, F, X),
         NEW g, g = insert_node(Tag(h, b, S[b], 0), b, S[b])
  PROVE  Sound(g, S, U \ {b}, F \cup {b}, {}) /\ g.brk = h.brk /\ Kept(h, g, S, U \ {b})
  <1> DEFINE k == Tag(h, b, S[b], 0)
  <1>1. Sound(k, S, U \ {b}, F, {}) /\ k.brk = h.brk /\ Kept(h, k, S, DOMAIN S)
    <2>1. /\ Sound(k, S, Mark(U, b, 0), F, X \ {b})
          /\ k.brk = h.brk
          /\ Kept(h, k, S, DOMAIN S)
      BY Retagged
    <2>2. Mark(U, b, 0) = U \ {b} /\ X \ {b} = {}
      BY DEF Mark
    <2> QED
      BY <2>1, <2>2
  <1>2. g = insert_node(k, b, S[b])
    OBVIOUS
  <1> HIDE DEF k
  <1>3. Sound(g, S, U \ {b}, F \cup {b}, {}) /\ g.brk = k.brk /\ Kept(k, g, S, U \ {b})
    BY <1>1, <1>2, Inserted
  <1>4. Kept(h, k, S, U \ {b})
    <2>1. U \ {b} \subseteq DOMAIN S
      BY DEF Sound
    <2> QED
      BY <1>1, <2>1, KeptFewer
  <1>5. Kept(h, g, S, U \ {b})
    BY <1>3, <1>4, KeptTwice
  <1> QED
    BY <1>1, <1>3, <1>5

(* Only the free block b is missing from the list, and its tags are old.   *)
Missing(h, k, S, T, U, b) ==
    /\ Sound(k, T, U, (DOMAIN T \ U) \ {b}, {b}) /\ k.brk >= h.brk
    /\ b \in DOMAIN T \ U
    /\ \A c \in U : T[c] = S[c]
    /\ Kept(h, k, S, U)

(* A block with its tags pending is tagged free and put on the list.       *)
LEMMA Reinserted ==
  ASSUME NEW h, NEW k, NEW S, NEW T, NEW U, NEW b, Missing(h, k, S, T, U, b),
         NEW g, g = insert_node(Tag(k, b, T[b], 0), b, T[b])
  PROVE  Settled(h, g, S, T, U) /\ g.brk = k.brk
  <1> DEFINE F == (DOMAIN T \ U) \ {b}
  <1>1. Sound(k, T, U, F, {b}) /\ b \in DOMAIN T \ F /\ b \notin U
    BY DEF Missing
  <1>2. F \cup {b} = DOMAIN T \ U /\ U \ {b} = U
    BY DEF Missing
  <1> HIDE DEF F
  <1>3. Sound(g, T, U \ {b}, F \cup {b}, {}) /\ g.brk = k.brk /\ Kept(k, g, T, U \ {b})
    BY <1>1, Freed
  <1>4. Quiet(g, T, U) /\ Kept(k, g, T, U)
    BY <1>2, <1>3 DEF Quiet
  <1>5. Kept(h, g, S, U)
    BY <1>4, KeptTwice DEF Missing
  <1> QED
    BY <1>3, <1>4, <1>5 DEF Settled, Missing

(* coalesce: in each of its four cases the heap is in order and bp in a    *)
(* free block.                                                             *)
LEMMA Coalesced ==
  ASSUME NEW h, NEW S, NEW U, Quiet(h, S, U), NEW bp \in DOMAIN S \ U,
         NEW r, r = coalesce(h, bp)
  PROVE  \E T : /\ Settled(h, r.heap, S, T, U) /\ r.heap.brk = h.brk
                /\ r.ptr \in DOMAIN T \ U /\ T[r.ptr] >= S[bp]
  <1> DEFINE prev == PREV_BLKP(h, bp)
             next == NEXT_BLKP(h, bp)
             pf == GET_ALLOC(h, FTRP(h, prev)) = 0
             nf == GET_ALLOC(h, HDRP(next)) = 0
             R == DOMAIN S \ U
             k1 == delete_node(h, bp)
  <1>1. Sound(h, S, U, R, {}) /\ Layout(S, h.brk) /\ Tagged(h, S, U, {})
    BY DEF Quiet, Sound
  <1>2. /\ next = bp + S[bp]
        /\ nf => next \in R
        /\ pf => prev \in R /\ bp = prev + S[prev]
    BY <1>1, Neighbours
  <1>3. \A b \in DOMAIN S : b \in Nat /\ S[b] \in Nat /\ 16 <= S[b]
    BY <1>1, Blocks
  <1>4. \A b \in DOMAIN S : GET_SIZE(h, HDRP(b)) = S[b]
    BY <1>1, TagsRead
  <1>5. Sound(k1, S, U, R \ {bp}, {}) /\ k1.brk = h.brk /\ Kept(h, k1, S, U)
    BY <1>1, Deleted
  <1>6. next # bp /\ (pf => prev # bp) /\ (pf => next # prev)
    BY <1>2, <1>3
  <1>7. h.brk \in Nat
    BY <1>1 DEF Layout, Aligned
  <1>8. CASE ~pf /\ ~nf
    <2>1. r = [heap |-> h, ptr |-> bp]
      BY <1>8 DEF coalesce
    <2>2. Settled(h, h, S, S, U)
      BY <1>7 DEF Settled, Kept
    <2>3. r.heap = h /\ r.ptr = bp
      BY <2>1
    <2>4. S[bp] >= S[bp]
      BY <1>3
    <2> QED
      BY <2>2, <2>3, <2>4
  <1>9. CASE pf /\ ~nf
    <2> DEFINE k2 == delete_node(k1, prev)
               F == (R \ {bp}) \ {prev}
    <2>1. prev \in R \ {bp}
      BY <1>2, <1>6, <1>9
    <2>2. Sound(k2, S, U, F, {}) /\ k2.brk = k1.brk /\ Kept(k1, k2, S, U)
      <3> HIDE DEF k1, prev
      <3> QED
        BY <1>5, <2>1, Deleted
    <2>3. r = [heap |-> insert_node(Tag(k2, prev, S[bp] + S[prev], 0), prev, S[bp] + S[prev]),
               ptr |-> prev]
      <3>1. S[bp] + S[prev] + 0 = S[bp] + S[prev]
        BY <1>3, <2>1
      <3>2. GET_SIZE(h, HDRP(bp)) = S[bp] /\ GET_SIZE(h, HDRP(prev)) = S[prev]
        BY <1>4, <2>1
      <3> QED
        BY <1>9, <3>1, <3>2 DEF coalesce
    <2> HIDE DEF k1, prev, next, pf, nf
    <2>4. Kept(h, k2, S, U)
      BY <1>5, <2>2, KeptTwice
    <2>5. PICK T : Sound(k2, T, U \ {bp}, F, ({} \ {bp}) \cup {prev}) /\ MergedDone(S, T, prev, bp)
      <3>1. prev \in DOMAIN S \ F /\ bp \in DOMAIN S \ F /\ bp = prev + S[prev]
        BY <1>2, <1>9, <2>1
      <3> HIDE DEF k2, F, R
      <3> QED
        BY <2>2, <3>1, Merging
    <2>6. /\ U \ {bp} = U /\ ({} \ {bp}) \cup {prev} = {prev}
          /\ F = (DOMAIN T \ U) \ {prev}
      BY <2>5 DEF MergedDone
    <2>7. T[prev] = S[bp] + S[prev]
      BY <1>3, <2>1, <2>5 DEF MergedDone
    <2>8. U \subseteq DOMAIN S \ {prev, bp}
      BY <1>1, <2>1 DEF Sound
    <2>9. Missing(h, k2, S, T, U, prev)
      BY <1>5, <1>7, <2>1, <2>2, <2>4, <2>5, <2>6, <2>8 DEF MergedDone, Missing
    <2>10. r.heap = insert_node(Tag(k2, prev, T[prev], 0), prev, T[prev]) /\ r.ptr = prev
      BY <2>3, <2>7
    <2>11. Settled(h, r.heap, S, T, U) /\ r.heap.brk = h.brk
      <3> HIDE DEF k2
      <3> QED
        BY <1>5, <2>2, <2>9, <2>10, Reinserted
    <2>12. T[prev] >= S[bp]
      BY <1>3, <2>1, <2>7
    <2>13. prev \in DOMAIN T \ U
      BY <2>9 DEF Missing
    <2> QED
      BY <2>10, <2>11, <2>12, <2>13
  <1>10. CASE ~pf /\ nf
    <2> DEFINE k2 == delete_node(k1, next)
               F == (R \ {bp}) \ {next}
    <2>1. next \in R \ {bp}
      BY <1>2, <1>6, <1>10
    <2>2. Sound(k2, S, U, F, {}) /\ k2.brk = k1.brk /\ Kept(k1, k2, S, U)
      <3> HIDE DEF k1, next
      <3> QED
        BY <1>5, <2>1, Deleted
    <2>3. r = [heap |-> insert_node(Tag(k2, bp, S[bp] + S[next], 0), bp, S[bp] + S[next]),
               ptr |-> bp]
      <3>1. S[bp] + 0 + S[next] = S[bp] + S[next]
        BY <1>3, <2>1
      <3>2. GET_SIZE(h, HDRP(bp)) = S[bp] /\ GET_SIZE(h, HDRP(next)) = S[next]
        BY <1>4, <2>1
      <3> QED
        BY <1>10, <3>1, <3>2 DEF coalesce
    <2> HIDE DEF k1, prev, next, pf, nf
    <2>4. Kept(h, k2, S, U)
      BY <1>5, <2>2, KeptTwice
    <2>5. PICK T : Sound(k2, T, U \ {next}, F, ({} \ {next}) \cup {bp}) /\ MergedDone(S, T, bp, next)
      <3>1. bp \in DOMAIN S \ F /\ next \in DOMAIN S \ F /\ next = bp + S[bp]
        BY <1>2, <1>10, <2>1
      <3> HIDE DEF k2, F, R
      <3> QED
        BY <2>2, <3>1, Merging
    <2>6. /\ U \ {next} = U /\ ({} \ {next}) \cup {bp} = {bp}
          /\ F = (DOMAIN T \ U) \ {bp}
      BY <2>1, <2>5 DEF MergedDone
    <2>7. T[bp] = S[bp] + S[next]
      BY <2>5 DEF MergedDone
    <2>8. U \subseteq DOMAIN S \ {next, bp}
      BY <1>1, <2>1 DEF Sound
    <2>9. Missing(h, k2, S, T, U, bp)
      <3> HIDE DEF k2, F, R
      <3>1. next \notin U /\ bp \in DOMAIN T /\ \A c \in U : T[c] = S[c]
        BY <2>1, <2>5, <2>8 DEF MergedDone, R
      <3>2. k2.brk >= h.brk
        BY <1>5, <1>7, <2>2
      <3> QED
        BY <2>4, <2>5, <2>6, <3>1, <3>2 DEF Missing
    <2>10. r.heap = insert_node(Tag(k2, bp, T[bp], 0), bp, T[bp]) /\ r.ptr = bp
      BY <2>3, <2>7
    <2>11. Settled(h, r.heap, S, T, U) /\ r.heap.brk = h.brk
      <3> HIDE DEF k2
      <3> QED
        BY <1>5, <2>2, <2>9, <2>10, Reinserted
    <2>12. T[bp] >= S[bp]
      BY <1>3, <2>1, <2>7
    <2>13. bp \in DOMAIN T \ U
      BY <2>9 DEF Missing
    <2> QED
      BY <2>10, <2>11, <2>12, <2>13
  <1>11. CASE pf /\ nf
    <2> DEFINE k2 == delete_node(k1, prev)
               k3 == delete_node(k2, next)
               F == ((R \ {bp}) \ {prev}) \ {next}
               all == S[bp] + S[prev] + S[next]
    <2>1. prev \in R \ {bp} /\ next \in (R \ {bp}) \ {prev}
      BY <1>2, <1>6, <1>11
    <2>2. Sound(k2, S, U, (R \ {bp}) \ {prev}, {}) /\ k2.brk = k1.brk /\ Kept(k1, k2, S, U)
      <3> HIDE DEF k1, prev
      <3> QED
        BY <1>5, <2>1, Deleted
    <2>3. Sound(k3, S, U, F, {}) /\ k3.brk = k2.brk /\ Kept(k2, k3, S, U)
      <3> HIDE DEF k2, prev, next
      <3> QED
        BY <2>1, <2>2, Deleted
    <2>4. r = [heap |-> insert_node(Tag(k3, prev, all, 0), prev, all), ptr |-> prev]
      <3>1. /\ GET_SIZE(h, HDRP(bp)) = S[bp] /\ GET_SIZE(h, HDRP(next)) = S[next]
            /\ GET_SIZE(h, HDRP(prev)) = S[prev]
        BY <1>4, <2>1
      <3> QED
        BY <1>11, <3>1 DEF coalesce
    <2> HIDE DEF k1, k2, prev, next, pf, nf
    <2>5. Kept(h, k3, S, U)
      <3>1. Kept(h, k2, S, U)
        BY <1>5, <2>2, KeptTwice
      <3> HIDE DEF k3
      <3> QED
        BY <2>3, <3>1, KeptTwice
    <2> HIDE DEF k3
    <2>6. PICK T : Sound(k3, T, U \ {next}, F, ({} \ {next}) \cup {bp}) /\ MergedDone(S, T, bp, next)
      <3>1. bp \in DOMAIN S \ F /\ next \in DOMAIN S \ F /\ next = bp + S[bp]
        BY <1>2, <1>11, <2>1
      <3> HIDE DEF F, R
      <3> QED
        BY <2>3, <3>1, Merging
    <2>7. U \ {next} = U /\ ({} \ {next}) \cup {bp} = {bp}
      BY <2>1
    <2>8. PICK V : Sound(k3, V, U \ {bp}, F, ({bp} \ {bp}) \cup {prev}) /\ MergedDone(T, V, prev, bp)
      <3>1. prev \in DOMAIN T \ F /\ bp \in DOMAIN T \ F /\ T[prev] = S[prev]
        BY <2>1, <2>6 DEF MergedDone
      <3>2. bp = prev + T[prev]
        BY <1>2, <1>11, <3>1
      <3> HIDE DEF F, R
      <3> QED
        BY <2>6, <2>7, <3>1, <3>2, Merging
    <2>9. /\ U \ {bp} = U /\ ({bp} \ {bp}) \cup {prev} = {prev}
          /\ F = (DOMAIN V \ U) \ {prev}
      BY <2>1, <2>6, <2>8 DEF MergedDone
    <2>10. V[prev] = all
      <3>1. V[prev] = S[prev] + (S[bp] + S[next])
        BY <2>1, <2>6, <2>8 DEF MergedDone
      <3> QED
        BY <1>3, <2>1, <3>1
    <2>11. U \subseteq DOMAIN S \ {prev, next, bp}
      BY <1>1, <2>1 DEF Sound
    <2>12. /\ \A c \in U : V[c] = S[c]
           /\ prev \in DOMAIN V \ U
      BY <2>1, <2>6, <2>8, <2>11 DEF MergedDone
    <2>a. k3.brk >= h.brk
      BY <1>5, <1>7, <2>2, <2>3
    <2>b. Sound(k3, V, U, (DOMAIN V \ U) \ {prev}, {prev})
      <3> HIDE DEF F
      <3> QED
        BY <2>8, <2>9
    <2>13. Missing(h, k3, S, V, U, prev)
      BY <2>5, <2>12, <2>a, <2>b DEF Missing
    <2>14. r.heap = insert_node(Tag(k3, prev, V[prev], 0), prev, V[prev]) /\ r.ptr = prev
      BY <2>4, <2>10
    <2>15. Settled(h, r.heap, S, V, U) /\ r.heap.brk = h.brk
      BY <1>5, <2>2, <2>3, <2>13, <2>14, Reinserted
    <2>16. V[prev] >= S[bp]
      BY <1>3, <2>1, <2>10
    <2> QED
      BY <2>12, <2>14, <2>15, <2>16
  <1> QED
    BY <1>8, <1>9, <1>10, <1>11

----------------------------------------------------------------------------
(* The heap grows *)

(* ALIGN rounds up to a double word.                                       *)
LEMMA AlignedUp ==
  ASSUME NEW n \in Nat
  PROVE  /\ Aligned(ALIGN(n)) /\ n <= ALIGN(n)
         /\ n > 8 => ALIGN(n) >= 16
  BY DEF ALIGN, ALIGNMENT, Aligned

(* A new block at the end and the epilogue behind it.                      *)
Lengthened(h, g, top, size) ==
    /\ g \in Heaps /\ g.brk = top + size /\ g.list = h.list
    /\ \A q \in Places : GET(g, q) = IF q = top + size - 4 THEN 1
                                     ELSE IF q = top - 4 \/ q = top + size - 8 THEN size
                                     ELSE GET(h, q)

(* extend_heap writes the new block and the epilogue behind it.            *)
LEMMA LengthenedStored ==
  ASSUME NEW h \in Heaps, NEW top, top = h.brk, Aligned(top), 16 <= top,
         NEW size, Aligned(size), 16 <= size, top + size <= MAX_HEAP,
         NEW k, k = Tag([h EXCEPT !.brk = @ + size], top, size, 0)
  PROVE  Lengthened(h, PUT(k, HDRP(NEXT_BLKP(k, top)), PACK(0, 1)), top, size)
  <1> DEFINE a == [h EXCEPT !.brk = @ + size]
             e == top + size - 4
             g == PUT(k, e, 1)
  <1>1. /\ top \in Nat /\ size \in Nat /\ MAX_HEAP \in Nat /\ Aligned(top + size)
        /\ 0 < top + size
    BY MaxHeap, AlignedSums DEF Aligned
  <1>2. a \in Heaps /\ a.brk = top + size /\ a.list = h.list /\ a.mem = h.mem
    BY <1>1 DEF Heaps
  <1> HIDE DEF a
  <1>3. \A q \in Places : GET(a, q) = GET(h, q)
    BY <1>2 DEF GET
  <1>4. TagDone(a, k, top, size, 0)
    <2>1. Taggable(top, size)
      BY <1>1 DEF Taggable
    <2>2. k = Tag(a, top, size, 0)
      BY DEF a
    <2> QED
      BY <1>2, <2>1, <2>2, TagStored
  <1>5. {top - 4, top + size - 8, top + size - 4} \subseteq Places
    BY <1>1, AlignedPlaces
  <1>6. GET_SIZE(k, top - 4) = size
    <2>1. GET(k, top - 4) = size + 0
      BY <1>4, <1>5 DEF TagDone
    <2> QED
      BY <2>1, Unpacked
  <1>7. HDRP(NEXT_BLKP(k, top)) = e /\ PACK(0, 1) = 1
    BY <1>1, <1>6 DEF NEXT_BLKP, HDRP, WSIZE, PACK
  <1>8. /\ g \in Heaps /\ g.brk = k.brk /\ g.list = k.list
        /\ \A q \in Places : GET(g, q) = IF q = e THEN 1 ELSE GET(k, q)
    <2>1. e \in Places /\ 1 \in Int /\ k \in Heaps
      BY <1>4, <1>5 DEF TagDone
    <2> HIDE DEF e
    <2> QED
      BY <2>1, Stored
  <1> HIDE DEF g
  <1>9. /\ g \in Heaps /\ g.brk = top + size /\ g.list = h.list
        /\ \A q \in Places : GET(g, q) = IF q = e THEN 1
                                     ELSE IF q = top - 4 \/ q = top + size - 8 THEN size
                                     ELSE GET(h, q)
    <2>1. size + 0 = size
      BY <1>1
    <2> QED
      BY <1>2, <1>3, <1>4, <1>8, <2>1 DEF TagDone
  <1> QED
    BY <1>7, <1>9 DEF g, Lengthened

(* The heap is in order with the new block off the list.                   *)
LEMMA LengthenedSound ==
  ASSUME NEW h, NEW S, NEW U, NEW F, Sound(h, S, U, F, {}),
         NEW size, Aligned(size), 16 <= size, NEW top, top = h.brk, top + size <= MAX_HEAP,
         NEW g, Lengthened(h, g, top, size)
  PROVE  \E T : /\ Sound(g, T, U, F, {}) /\ DOMAIN T = DOMAIN S \cup {top} /\ top \notin DOMAIN S
                /\ T[top] = size /\ \A c \in DOMAIN S : T[c] = S[c]
                /\ Kept(h, g, S, DOMAIN S)
  <1>1. /\ h \in Heaps /\ Layout(S, top) /\ U \subseteq DOMAIN S
        /\ F \subseteq DOMAIN S \ U /\ Tagged(h, S, U, {})
    BY DEF Sound
  <1>2. Aligned(top) /\ 16 <= top /\ top \in Nat /\ size \in Nat
    BY <1>1 DEF Layout, Aligned
  <1>3. PICK T : ExtendedDone(S, T, top, size)
    BY <1>1, ExtendedLayout
  <1>4. /\ Layout(T, g.brk)
        /\ top \notin DOMAIN S /\ DOMAIN T = DOMAIN S \cup {top} /\ T[top] = size
        /\ \A c \in DOMAIN S : T[c] = S[c]
    BY <1>3 DEF ExtendedDone, Lengthened
  <1>5. \A q \in Places : q < top - 4 => GET(g, q) = GET(h, q)
    BY <1>2 DEF Lengthened, Places
  <1>6. ASSUME NEW c \in DOMAIN S, NEW x \in Places, Owns(S, c, x)
        PROVE  GET(g, x) = GET(h, x)
    <2>1. x \in Int
      BY DEF Places
    <2>2. x < top - 4
      BY <1>1, <1>6, <2>1, Apart
    <2> QED
      BY <1>5, <2>2
  <1>7. \A c \in DOMAIN S : c \in Places /\ c + 4 \in Places /\ c - 4 \in Places /\ c + S[c] - 8 \in Places
    BY <1>1, Blocks
  <1>8. Tagged(g, T, U, {})
    <2>1. GET(g, 4) = 9 /\ GET(g, 8) = 9
      <3>1. 4 \in Places /\ 8 \in Places /\ 4 < top - 4 /\ 8 < top - 4
        <4>1. top <= MAX_HEAP
          BY <1>1 DEF Layout
        <4> QED
          BY <1>2, <4>1, MaxHeap DEF Places, WSIZE
      <3> QED
        BY <1>1, <1>5, <3>1 DEF Tagged
    <2>2. /\ {top - 4, top + size - 8, top + size - 4} \subseteq Places
          /\ GET(g, top - 4) = size /\ GET(g, top + size - 8) = size /\ GET(g, top + size - 4) = 1
      <3>1. Aligned(top + size) /\ 0 < top + size /\ top < MAX_HEAP /\ top <= MAX_HEAP
        BY <1>2, AlignedSums, MaxHeap
      <3>2. {top - 4, top + size - 8, top + size - 4} \subseteq Places
        BY <1>2, <3>1, AlignedPlaces
      <3>3. top - 4 # top + size - 4 /\ top + size - 8 # top + size - 4
        BY <1>2
      <3> QED
        BY <3>2, <3>3 DEF Lengthened
    <2>3. ASSUME NEW c \in DOMAIN T
          PROVE  GET(g, c - 4) = T[c] + Bit(U, c) /\ GET(g, c + T[c] - 8) = T[c] + Bit(U, c)
      <3>1. CASE c = top
        <4>1. Bit(U, c) = 0
          BY <1>1, <1>4, <3>1 DEF Bit
        <4> QED
          BY <1>2, <1>4, <2>2, <3>1, <4>1
      <3>2. CASE c \in DOMAIN S
        <4>1. Owns(S, c, c - 4) /\ Owns(S, c, c + S[c] - 8)
          BY <1>1, <3>2, Parts
        <4>2. GET(g, c - 4) = GET(h, c - 4) /\ GET(g, c + S[c] - 8) = GET(h, c + S[c] - 8)
          BY <1>6, <1>7, <3>2, <4>1
        <4> QED
          BY <1>1, <1>4, <3>2, <4>2 DEF Tagged
      <3> QED
        BY <1>4, <3>1, <3>2
    <2>4. GET(g, g.brk - 4) = 1
      <3>1. g.brk = top + size
        BY DEF Lengthened
      <3> QED
        BY <1>2, <2>2, <3>1
    <2> QED
      BY <2>1, <2>3, <2>4 DEF Tagged
  <1>9. \E n \in Nat : \E L \in [1 .. n -> F] : Chained(g, T, F, n, L)
    <2>1. PICK n \in Nat : \E L \in [1 .. n -> F] : Chained(h, S, F, n, L)
      BY DEF Sound
    <2>2. PICK L \in [1 .. n -> F] : Chained(h, S, F, n, L)
      BY <2>1
    <2>3. \A c \in F : GET(g, c) = GET(h, c) /\ GET(g, c + 4) = GET(h, c + 4)
      <3> TAKE c \in F
      <3>1. c \in DOMAIN S
        BY <1>1
      <3>2. Owns(S, c, c) /\ Owns(S, c, c + 4) /\ c \in Places /\ c + 4 \in Places
        BY <1>1, <1>7, <3>1, Parts
      <3> QED
        BY <1>6, <3>1, <3>2
    <2>4. g.list = h.list /\ \A c \in F : T[c] = S[c]
      BY <1>1, <1>4 DEF Lengthened
    <2>5. Chained(g, T, F, n, L)
      BY <2>2, <2>3, <2>4, ChainedSame
    <2> QED
      BY <2>5
  <1>10. Kept(h, g, S, DOMAIN S)
    BY <1>1, <1>6, Parts DEF Kept
  <1>11. Sound(g, T, U, F, {})
    <2>1. g \in Heaps /\ U \subseteq DOMAIN T /\ F \subseteq DOMAIN T \ U
      BY <1>1, <1>4 DEF Lengthened
    <2> QED
      BY <1>4, <1>8, <1>9, <2>1 DEF Sound
  <1> QED
    BY <1>4, <1>10, <1>11

(* extend_heap: nothing, or a heap in order with a large enough free       *)
(* block.                                                                  *)
LEMMA HeapExtended ==
  ASSUME NEW h, NEW S, NEW U, Quiet(h, S, U), NEW words \in Nat, words > 8,
         NEW r, r = extend_heap(h, words)
  PROVE  \/ r.ptr = NULL /\ r.heap = h
         \/ \E T : /\ Settled(h, r.heap, S, T, U)
                   /\ r.ptr \in DOMAIN T \ U /\ T[r.ptr] >= ALIGN(words)
  <1> DEFINE size == ALIGN(words)
             top == h.brk
             a == [h EXCEPT !.brk = @ + size]
             k == Tag(a, top, size, 0)
             g == PUT(k, HDRP(NEXT_BLKP(k, top)), PACK(0, 1))
             put == insert_node(g, top, size)
             R == DOMAIN S \ U
  <1>1. Aligned(size) /\ 16 <= size /\ size \in Nat
    BY AlignedUp DEF Aligned
  <1>2. Sound(h, S, U, R, {}) /\ h \in Heaps /\ Layout(S, top) /\ U \subseteq DOMAIN S
    BY DEF Quiet, Sound
  <1>3. Aligned(top) /\ 16 <= top /\ top \in Nat
    BY <1>2 DEF Layout, Aligned
  <1>4. CASE top + size > MAX_HEAP
    <2>1. mem_sbrk(h, size) = [heap |-> h, ptr |-> -1]
      BY <1>4 DEF mem_sbrk
    <2>2. r = [heap |-> h, ptr |-> NULL]
      BY <2>1 DEF extend_heap
    <2> QED
      BY <2>2
  <1>5. CASE ~(top + size > MAX_HEAP)
    <2>1. mem_sbrk(h, size) = [heap |-> a, ptr |-> top]
      BY <1>1, <1>5 DEF mem_sbrk
    <2>2. r = coalesce(put, top)
      <3> HIDE DEF size
      <3>1. top # -1
        BY <1>3
      <3>2. mem_sbrk(h, size).ptr = top /\ mem_sbrk(h, size).heap = a
        BY <2>1
      <3> HIDE DEF a, top
      <3> QED
        BY <3>1, <3>2 DEF extend_heap, size
    <2> HIDE DEF size
    <2>3. top + size <= MAX_HEAP
      BY <1>1, <1>3, <1>5, MaxHeap
    <2>4. Lengthened(h, g, top, size)
      <3> HIDE DEF top
      <3> QED
        BY <1>1, <1>2, <1>3, <2>3, LengthenedStored DEF top
    <2> HIDE DEF g, top
    <2>5. PICK T : /\ Sound(g, T, U, R, {}) /\ DOMAIN T = DOMAIN S \cup {top} /\ top \notin DOMAIN S
                   /\ T[top] = size /\ \A c \in DOMAIN S : T[c] = S[c]
                   /\ Kept(h, g, S, DOMAIN S)
      BY <1>1, <1>2, <2>3, <2>4, LengthenedSound DEF top
    <2>6. Sound(put, T, U, R \cup {top}, {}) /\ put.brk = g.brk /\ Kept(g, put, T, U)
      <3>1. top \in DOMAIN T \ U /\ top \notin R /\ put = insert_node(g, top, T[top])
        BY <1>2, <2>5
      <3> HIDE DEF R, put
      <3> QED
        BY <2>5, <3>1, Inserted
    <2> HIDE DEF put
    <2>7. R \cup {top} = DOMAIN T \ U /\ top \in DOMAIN T \ U
      BY <1>2, <2>5
    <2>8. Quiet(put, T, U)
      BY <2>6, <2>7 DEF Quiet
    <2>9. PICK V : /\ Settled(put, r.heap, T, V, U) /\ r.heap.brk = put.brk
                   /\ r.ptr \in DOMAIN V \ U /\ V[r.ptr] >= T[top]
      BY <2>2, <2>7, <2>8, Coalesced
    <2>10. Kept(h, r.heap, S, U)
      <3>1. Kept(h, g, S, U) /\ \A c \in U : T[c] = S[c]
        BY <1>2, <2>5 DEF Kept
      <3>2. Kept(h, put, S, U)
        BY <2>6, <3>1, KeptTwice
      <3> QED
        BY <2>9, <3>1, <3>2, KeptTwice DEF Settled
    <2>11. r.heap.brk >= h.brk
      BY <1>1, <1>3, <2>4, <2>6, <2>9 DEF Lengthened, top
    <2>12. Settled(h, r.heap, S, V, U)
      BY <1>2, <2>5, <2>9, <2>10, <2>11 DEF Settled
    <2> QED
      BY <2>5, <2>9, <2>12 DEF size
  <1> QED
    BY <1>4, <1>5

----------------------------------------------------------------------------
(* Blocks are placed, freed *)

(* A block outside the list is divided and both parts are tagged.          *)
SplitDone(h, k, S, T, U, F, b, low, d) ==
    /\ Sound(k, T, U, F, {}) /\ k.brk = h.brk
    /\ DividedDone(S, T, h.brk, b, low)
    /\ Kept(h, k, T, DOMAIN T)

(* Cutting b leaves low bytes in b and high bytes in d.                    *)
SplitAt(S, b, low, high, d) == Divisible(S, b, low) /\ high = S[b] - low /\ d = b + low

(* Of two pending tags, the second remains when the first is written.      *)
LEMMA OneLeft ==
  ASSUME NEW b, NEW d, NEW X \in SUBSET {b}, b # d
  PROVE  (X \cup {b, d}) \ {b} = {d}
  OBVIOUS

(* Tagging the two parts of a block leaves two blocks in order.            *)
LEMMA Split ==
  ASSUME NEW h, NEW S, NEW U, NEW F, NEW b \in DOMAIN S \ F, NEW X \in SUBSET {b},
         Sound(h, S, U, F, X), NEW low, NEW high, NEW d, SplitAt(S, b, low, high, d),
         NEW a1 \in {0, 1}, NEW a2 \in {0, 1}
  PROVE  /\ \E T : SplitDone(h, Tag(Tag(h, b, low, a1), d, high, a2), S, T,
                             Mark(Mark(U, b, a1), d, a2), F, b, low, d)
         /\ NEXT_BLKP(Tag(h, b, low, a1), b) = d
  <1> USE DEF SplitAt
  <1> DEFINE t == Tag(h, b, low, a1)
             k == Tag(t, d, high, a2)
             V == Mark(U, b, a1)
             W == Mark(V, d, a2)
  <1>1. PICK T : Sound(h, T, U, F, X \cup {b, d}) /\ DividedDone(S, T, h.brk, b, low)
    BY Dividing
  <1>2. Layout(S, h.brk) /\ F \subseteq DOMAIN S
    BY DEF Sound
  <1>3. /\ DOMAIN T = DOMAIN S \cup {d} /\ d \notin DOMAIN S /\ T[b] = low /\ T[d] = high
        /\ b \in DOMAIN T \ F /\ d \in DOMAIN T \ F /\ b # d
    BY <1>1, <1>2 DEF DividedDone
  <1> DEFINE Z == X \cup {b, d}
             Y == Z \ {b}
  <1>4. Sound(t, T, V, F, Y) /\ t.brk = h.brk /\ Kept(h, t, T, DOMAIN T)
    <2>1. t = Tag(h, b, T[b], a1)
      BY <1>3
    <2>2. Sound(h, T, U, F, Z) /\ b \in DOMAIN T \ F
      BY <1>1, <1>3
    <2> HIDE DEF t, Z, SplitAt
    <2> QED
      BY <2>1, <2>2, Retagged
  <1>5. Y = {d}
    <2>1. b # d
      BY <1>3
    <2> QED
      BY <2>1, OneLeft
  <1> HIDE DEF Y
  <1>6. Sound(k, T, W, F, Y \ {d}) /\ k.brk = t.brk /\ Kept(t, k, T, DOMAIN T)
    <2>1. k = Tag(t, d, T[d], a2)
      BY <1>3
    <2> HIDE DEF k, t, V
    <2> QED
      BY <1>3, <1>4, <2>1, Retagged
  <1>7. Y \ {d} = {}
    BY <1>5
  <1>8. NEXT_BLKP(t, b) = d
    <2>1. Layout(T, t.brk) /\ Tagged(t, T, V, Y) /\ b \in DOMAIN T \ Y
      BY <1>3, <1>4, <1>5 DEF Sound
    <2> HIDE DEF t, V
    <2>2. NEXT_BLKP(t, b) = b + T[b]
      BY <2>1, TagsRead
    <2> QED
      BY <1>3, <2>2
  <1> HIDE DEF k, t, V, W
  <1>9. Kept(h, k, T, DOMAIN T)
    BY <1>4, <1>6, KeptTwice
  <1>10. SplitDone(h, k, S, T, W, F, b, low, d)
    BY <1>1, <1>4, <1>6, <1>7, <1>9 DEF SplitDone
  <1> QED
    BY <1>8, <1>10 DEF k, t, V, W

(* r.ptr is a new block with room for n bytes and tags; the others stay.   *)
Placed(h, r, S, T, U, n) ==
    /\ Quiet(r.heap, T, U \cup {r.ptr}) /\ r.heap.brk >= h.brk
    /\ r.ptr \in DOMAIN T \ U /\ T[r.ptr] >= n
    /\ \A b \in U : T[b] = S[b]
    /\ Kept(h, r.heap, S, U)

(* place: the block is in use, and what is left of it free when it is a    *)
(* block.                                                                  *)
LEMMA PlacedIn ==
  ASSUME NEW h, NEW S, NEW U, Quiet(h, S, U), NEW bp \in DOMAIN S \ U,
         NEW n, Aligned(n), 16 <= n, n <= S[bp],
         NEW r, r = place(h, bp, n)
  PROVE  \E T : Placed(h, r, S, T, U, n)
  <1> DEFINE R == DOMAIN S \ U
             F == R \ {bp}
             g == delete_node(h, bp)
             rest == S[bp] - n
  <1>1. Sound(h, S, U, R, {}) /\ Layout(S, h.brk) /\ Tagged(h, S, U, {}) /\ U \subseteq DOMAIN S
    BY DEF Quiet, Sound
  <1>2. GET_SIZE(h, HDRP(bp)) = S[bp]
    BY <1>1, TagsRead
  <1>3. Sound(g, S, U, F, {}) /\ g.brk = h.brk /\ Kept(h, g, S, U)
    BY <1>1, Deleted
  <1>4. /\ bp \in Nat /\ S[bp] \in Nat /\ n \in Nat /\ rest \in Nat /\ Aligned(S[bp])
        /\ h.brk \in Nat /\ Aligned(rest) /\ rest + n = S[bp] /\ S[bp] - rest = n
    <2>1. bp \in Nat /\ S[bp] \in Nat /\ Aligned(S[bp]) /\ h.brk \in Nat
      BY <1>1, Blocks
    <2>2. n \in Nat
      BY DEF Aligned
    <2> QED
      BY <2>1, <2>2, AlignedSums DEF Aligned
  <1>5. bp \in DOMAIN S \ F
    OBVIOUS
  <1>6. CASE rest <= 16
    <2> DEFINE k == Tag(g, bp, S[bp], 1)
    <2>1. r = [heap |-> k, ptr |-> bp]
      BY <1>2, <1>6 DEF place, DSIZE
    <2> HIDE DEF g
    <2>2. Sound(k, S, Mark(U, bp, 1), F, {} \ {bp}) /\ k.brk = g.brk /\ Kept(g, k, S, DOMAIN S)
      <3> HIDE DEF F
      <3> QED
        BY <1>3, <1>5, Retagged
    <2> HIDE DEF k
    <2>3. Mark(U, bp, 1) = U \cup {bp} /\ {} \ {bp} = {} /\ F = DOMAIN S \ (U \cup {bp})
      BY DEF Mark
    <2>4. Kept(h, k, S, U)
      <3>1. Kept(g, k, S, U)
        BY <1>1, <2>2, KeptFewer
      <3> QED
        BY <1>3, <3>1, KeptTwice
    <2>5. Quiet(k, S, U \cup {bp})
      BY <2>2, <2>3 DEF Quiet
    <2>a. k.brk = h.brk /\ h.brk \in Nat
      BY <1>3, <1>4, <2>2
    <2>b. r.heap = k /\ r.ptr = bp
      BY <2>1
    <2>6. r.heap = k /\ r.ptr = bp /\ r.heap.brk >= h.brk
      BY <2>a, <2>b
    <2>7. r.ptr \in DOMAIN S \ U /\ S[r.ptr] >= n /\ \A b \in U : S[b] = S[b]
      BY <1>4, <2>6
    <2>8. Quiet(r.heap, S, U \cup {r.ptr}) /\ Kept(h, r.heap, S, U)
      BY <2>4, <2>5, <2>6, Zenon
    <2>9. Placed(h, r, S, S, U, n)
      BY <2>6, <2>7, <2>8, Zenon DEF Placed
    <2> QED
      BY <2>9
  <1>7. CASE ~(rest <= 16) /\ n >= BIG
    <2> DEFINE d == bp + rest
               t == Tag(g, bp, rest, 0)
               k == Tag(t, d, n, 1)
               put == insert_node(k, bp, rest)
    <2>1. Divisible(S, bp, rest)
      <3>1. bp \in DOMAIN S /\ Aligned(rest) /\ rest \in Nat /\ n \in Nat /\ rest + n = S[bp]
        BY <1>4
      <3> HIDE DEF rest
      <3>2. 16 <= rest /\ rest + 16 <= S[bp]
        BY <1>7, <3>1
      <3> QED
        BY <3>1, <3>2 DEF Divisible
    <2>a. NEXT_BLKP(t, bp) = d /\ \E T : SplitDone(g, k, S, T, Mark(Mark(U, bp, 0), d, 1), F, bp, rest, d)
      <3> DEFINE x == d
                 y == rest
      <3>1. SplitAt(S, bp, y, n, x)
        BY <1>4, <2>1 DEF SplitAt
      <3> HIDE DEF g, F, x, y
      <3>2. /\ \E T : SplitDone(g, Tag(Tag(g, bp, y, 0), x, n, 1), S, T,
                                Mark(Mark(U, bp, 0), x, 1), F, bp, y, x)
            /\ NEXT_BLKP(Tag(g, bp, y, 0), bp) = x
        BY <1>3, <1>5, <3>1, Split
      <3> QED
        BY <3>2 DEF x, y
    <2>2. PICK T : SplitDone(g, k, S, T, Mark(Mark(U, bp, 0), d, 1), F, bp, rest, d)
      BY <2>a
    <2>3. r = [heap |-> put, ptr |-> d]
      <3> HIDE DEF g
      <3>1. place(h, bp, n) = [heap |-> insert_node(Tag(t, NEXT_BLKP(t, bp), n, 1 - 0), bp, rest), ptr |-> bp + rest]
        BY <1>2, <1>4, <1>7 DEF place, DSIZE, g
      <3> QED
        BY <2>a, <3>1
    <2> HIDE DEF g, d, t, k, rest
    <2>4. /\ Mark(Mark(U, bp, 0), d, 1) = U \cup {d}
      BY DEF Mark
    <2>5. /\ Sound(k, T, U \cup {d}, F, {}) /\ k.brk = g.brk /\ Kept(g, k, T, DOMAIN T)
          /\ DOMAIN T = DOMAIN S \cup {d} /\ d \notin DOMAIN S /\ T[bp] = rest /\ T[d] = n
          /\ \A c \in DOMAIN S \ {bp} : T[c] = S[c]
      <3>1. /\ bp + rest \notin DOMAIN S /\ DOMAIN T = DOMAIN S \cup {bp + rest}
            /\ T[bp] = rest /\ T[bp + rest] = S[bp] - rest
            /\ \A c \in DOMAIN S \ {bp} : T[c] = S[c]
        BY <2>2 DEF SplitDone, DividedDone
      <3>2. /\ Sound(k, T, U \cup {d}, F, {}) /\ k.brk = g.brk /\ Kept(g, k, T, DOMAIN T)
        BY <2>2, <2>4 DEF SplitDone
      <3> QED
        BY <1>4, <3>1, <3>2 DEF d
    <2>6. /\ Sound(put, T, U \cup {d}, F \cup {bp}, {}) /\ put.brk = k.brk
          /\ Kept(k, put, T, U \cup {d})
      <3>1. bp \in DOMAIN T \ (U \cup {d}) /\ bp \notin F /\ put = insert_node(k, bp, T[bp])
        BY <2>5
      <3> HIDE DEF put, F
      <3> QED
        BY <2>5, <3>1, Inserted
    <2> HIDE DEF put
    <2>7. F \cup {bp} = DOMAIN T \ (U \cup {d}) /\ U \subseteq DOMAIN T
      BY <1>1, <2>5
    <2>8. Quiet(put, T, U \cup {d})
      BY <2>6, <2>7 DEF Quiet
    <2>9. \A c \in U : T[c] = S[c]
      BY <1>1, <2>5
    <2>10. Kept(h, put, S, U)
      <3>1. Kept(g, k, S, U) /\ Kept(k, put, S, U)
        BY <2>5, <2>6, <2>7, <2>9, KeptFewer
      <3>2. Kept(h, k, S, U)
        BY <1>3, <3>1, KeptTwice
      <3> QED
        BY <3>1, <3>2, KeptTwice
    <2>11. d \in DOMAIN T \ U /\ T[d] >= n
      BY <1>1, <1>4, <2>5
    <2>12. Placed(h, r, S, T, U, n)
      BY <1>3, <1>4, <2>3, <2>5, <2>6, <2>8, <2>9, <2>10, <2>11 DEF Placed
    <2> QED
      BY <2>12
  <1>8. CASE ~(rest <= 16) /\ ~(n >= BIG)
    <2> DEFINE d == bp + n
               t == Tag(g, bp, n, 1)
               k == Tag(t, d, rest, 0)
               put == insert_node(k, d, rest)
    <2>1. Divisible(S, bp, n)
      BY <1>4, <1>8 DEF Divisible
    <2>a. NEXT_BLKP(t, bp) = d /\ \E T : SplitDone(g, k, S, T, Mark(Mark(U, bp, 1), d, 0), F, bp, n, d)
      <3> DEFINE x == d
                 y == rest
      <3>1. SplitAt(S, bp, n, y, x)
        BY <2>1 DEF SplitAt
      <3> HIDE DEF g, F, x, y
      <3>2. /\ \E T : SplitDone(g, Tag(Tag(g, bp, n, 1), x, y, 0), S, T,
                                Mark(Mark(U, bp, 1), x, 0), F, bp, n, x)
            /\ NEXT_BLKP(Tag(g, bp, n, 1), bp) = x
        BY <1>3, <1>5, <2>1, <3>1, Split
      <3> QED
        BY <3>2 DEF x, y
    <2>2. PICK T : SplitDone(g, k, S, T, Mark(Mark(U, bp, 1), d, 0), F, bp, n, d)
      BY <2>a
    <2>3. r = [heap |-> put, ptr |-> bp]
      <3> HIDE DEF g
      <3>1. place(h, bp, n) = [heap |-> insert_node(Tag(t, NEXT_BLKP(t, bp), rest, 1 - 1), bp + n, rest), ptr |-> bp]
        BY <1>2, <1>4, <1>8 DEF place, DSIZE, g
      <3> QED
        BY <2>a, <3>1
    <2> HIDE DEF g, d, t, k, rest
    <2>5. /\ Sound(k, T, Mark(Mark(U, bp, 1), d, 0), F, {}) /\ k.brk = g.brk /\ Kept(g, k, T, DOMAIN T)
          /\ DOMAIN T = DOMAIN S \cup {d} /\ d \notin DOMAIN S /\ T[bp] = n /\ T[d] = rest
          /\ \A c \in DOMAIN S \ {bp} : T[c] = S[c]
      <3>1. /\ bp + n \notin DOMAIN S /\ DOMAIN T = DOMAIN S \cup {bp + n}
            /\ T[bp] = n /\ T[bp + n] = S[bp] - n
            /\ \A c \in DOMAIN S \ {bp} : T[c] = S[c]
        BY <2>2 DEF SplitDone, DividedDone
      <3>2. /\ Sound(k, T, Mark(Mark(U, bp, 1), d, 0), F, {}) /\ k.brk = g.brk /\ Kept(g, k, T, DOMAIN T)
        BY <2>2 DEF SplitDone
      <3> QED
        BY <3>1, <3>2 DEF d, rest
    <2>4. Mark(Mark(U, bp, 1), d, 0) = U \cup {bp}
      BY <1>1, <2>5 DEF Mark
    <2>6. /\ Sound(put, T, U \cup {bp}, F \cup {d}, {}) /\ put.brk = k.brk
          /\ Kept(k, put, T, U \cup {bp})
      <3>1. d \in DOMAIN T \ (U \cup {bp}) /\ d \notin F /\ put = insert_node(k, d, T[d])
        BY <1>1, <2>5
      <3>2. Sound(k, T, U \cup {bp}, F, {})
        BY <2>4, <2>5
      <3> HIDE DEF put, F
      <3> QED
        BY <3>1, <3>2, Inserted
    <2> HIDE DEF put
    <2>7. F \cup {d} = DOMAIN T \ (U \cup {bp}) /\ U \subseteq DOMAIN T
      BY <1>1, <2>5
    <2>8. Quiet(put, T, U \cup {bp})
      BY <2>6, <2>7 DEF Quiet
    <2>9. \A c \in U : T[c] = S[c]
      BY <1>1, <2>5
    <2>10. Kept(h, put, S, U)
      <3>1. Kept(g, k, S, U) /\ Kept(k, put, S, U)
        BY <2>5, <2>6, <2>7, <2>9, KeptFewer
      <3>2. Kept(h, k, S, U)
        BY <1>3, <3>1, KeptTwice
      <3> QED
        BY <3>1, <3>2, KeptTwice
    <2>11. bp \in DOMAIN T \ U /\ T[bp] >= n
      BY <1>1, <1>4, <2>5
    <2>12. Placed(h, r, S, T, U, n)
      BY <1>3, <1>4, <2>3, <2>5, <2>6, <2>8, <2>9, <2>10, <2>11 DEF Placed
    <2> QED
      BY <2>12
  <1> QED
    BY <1>6, <1>7, <1>8

(* The search returns a free block that is large enough, or none.          *)
LEMMA BestFits ==
  ASSUME NEW h, NEW S, NEW U, Quiet(h, S, U), NEW adj \in Nat, NEW p, p = BestFit(h, adj), p # NULL
  PROVE  p \in DOMAIN S \ U /\ S[p] >= adj
  <1> DEFINE F == DOMAIN S \ U
  <1>1. Sound(h, S, U, F, {}) /\ Layout(S, h.brk) /\ Tagged(h, S, U, {})
    BY DEF Quiet, Sound
  <1>a. PICK n \in Nat : \E L \in [1 .. n -> F] : Chained(h, S, F, n, L)
    BY <1>1 DEF Sound
  <1>2. PICK L \in [1 .. n -> F] : Chained(h, S, F, n, L)
    BY <1>a
  <1>3. Chain(h) = L /\ DOMAIN L = 1 .. n
    BY <1>1, <1>2, ChainFound
  <1>4. \A k \in 1 .. n : GET_SIZE(h, HDRP(L[k])) = S[L[k]] /\ S[L[k]] \in Nat /\ L[k] \in F
    BY <1>1, TagsRead, Blocks
  <1> DEFINE size(k) == GET_SIZE(h, HDRP(L[k]))
             fits == {k \in DOMAIN L : GET_ALLOC(h, HDRP(L[k])) = 0 /\ size(k) >= adj}
             best == {k \in fits : \A j \in fits : size(k) <= size(j)}
             sizes == {size(k) : k \in fits}
  <1>5. p = IF fits = {} THEN NULL ELSE L[Min(best)]
    BY <1>3 DEF BestFit, BestIn
  <1>6. fits # {}
    <2> HIDE DEF fits, best
    <2> QED
      BY <1>5
  <1>7. fits \subseteq 1 .. n
    BY <1>3
  <1>8. sizes \subseteq Nat /\ sizes # {}
    BY <1>4, <1>6, <1>7
  <1>9. Min(sizes) \in sizes /\ \A x \in sizes : Min(sizes) <= x
    <2> HIDE DEF sizes
    <2> QED
      BY <1>8, MinIsLeast
  <1>10. PICK k \in fits : Min(sizes) = size(k)
    BY <1>9
  <1>11. k \in best
    <2>1. \A j \in fits : size(j) \in sizes
      OBVIOUS
    <2> HIDE DEF sizes, fits, size
    <2> QED
      BY <1>9, <1>10, <2>1
  <1>12. best \subseteq Nat /\ best # {}
    BY <1>7, <1>11
  <1>13. Min(best) \in best
    <2> HIDE DEF best
    <2> QED
      BY <1>12, MinIsLeast
  <1>14. p = L[Min(best)] /\ Min(best) \in 1 .. n /\ size(Min(best)) >= adj
    BY <1>5, <1>6, <1>7, <1>13
  <1> HIDE DEF best
  <1> QED
    BY <1>4, <1>14

(* mm_malloc: nothing, or one more block in use and large enough.          *)
LEMMA MallocSound ==
  ASSUME NEW h, NEW S, NEW U, Quiet(h, S, U), NEW size \in Nat \ {0},
         NEW r, r = mm_malloc(h, size)
  PROVE  \/ r.ptr = NULL /\ r.heap = h
         \/ r.ptr # NULL /\ \E T : Placed(h, r, S, T, U, size + 8)
  <1> DEFINE adj == ALIGN(size + DSIZE)
             best_fit == BestFit(h, adj)
             words == Larger(adj, CHUNKSIZE)
             grown == IF best_fit # NULL THEN [heap |-> h, ptr |-> best_fit] ELSE extend_heap(h, words)
  <1>1. r = IF grown.ptr = NULL THEN grown ELSE place(grown.heap, grown.ptr, adj)
    BY DEF mm_malloc, place_found
  <1>2. Aligned(adj) /\ 16 <= adj /\ size + 8 <= adj /\ adj \in Nat
    <2>1. size + 8 \in Nat /\ size + 8 > 8
      OBVIOUS
    <2>2. Aligned(ALIGN(size + 8)) /\ size + 8 <= ALIGN(size + 8) /\ ALIGN(size + 8) >= 16
      <3> DEFINE n == size + 8
      <3>1. n \in Nat /\ n > 8
        BY <2>1
      <3> HIDE DEF n
      <3>2. Aligned(ALIGN(n)) /\ n <= ALIGN(n) /\ ALIGN(n) >= 16
        BY <3>1, AlignedUp
      <3> QED
        BY <3>2 DEF n
    <2> QED
      BY <2>2 DEF DSIZE, Aligned
  <1>3. words \in Nat /\ words > 8 /\ words >= adj
    <2>1. CHUNKSIZE \in Nat
      BY HeapAssumption
    <2> HIDE DEF adj
    <2> QED
      BY <1>2, <2>1 DEF Larger
  <1> HIDE DEF adj
  <1>4. \/ grown.ptr = NULL /\ grown.heap = h
        \/ \E T : /\ Settled(h, grown.heap, S, T, U)
                  /\ grown.ptr \in DOMAIN T \ U /\ T[grown.ptr] >= adj
    <2>1. CASE best_fit # NULL
      <3>1. best_fit \in DOMAIN S \ U /\ S[best_fit] >= adj
        BY <1>2, <2>1, BestFits
      <3>2. grown.heap = h /\ grown.ptr = best_fit
        BY <2>1
      <3>3. Settled(h, h, S, S, U)
        <4>1. h.brk >= h.brk
          BY DEF Quiet, Sound, Layout, Aligned
        <4> QED
          BY <4>1 DEF Settled, Kept
      <3> HIDE DEF best_fit, grown
      <3> QED
        BY <3>1, <3>2, <3>3
    <2>2. CASE best_fit = NULL
      <3>1. grown = extend_heap(h, words)
        BY <2>2
      <3> HIDE DEF grown, words
      <3>2. \/ grown.ptr = NULL /\ grown.heap = h
            \/ \E T : /\ Settled(h, grown.heap, S, T, U)
                      /\ grown.ptr \in DOMAIN T \ U /\ T[grown.ptr] >= ALIGN(words)
        BY <1>3, <3>1, HeapExtended
      <3>3. ASSUME NEW T, Settled(h, grown.heap, S, T, U), grown.ptr \in DOMAIN T \ U,
                   T[grown.ptr] >= ALIGN(words)
            PROVE  T[grown.ptr] >= adj
        <4>1. ALIGN(words) >= words /\ ALIGN(words) \in Nat
          BY <1>3, AlignedUp DEF Aligned
        <4>2. T[grown.ptr] \in Nat
          BY <3>3, Blocks DEF Settled, Quiet, Sound
        <4> QED
          BY <1>2, <1>3, <3>3, <4>1, <4>2
      <3> QED
        BY <3>2, <3>3
    <2> QED
      BY <2>1, <2>2
  <1> HIDE DEF grown
  <1>5. CASE grown.ptr = NULL
    <2>1. ~ \E T : /\ Settled(h, grown.heap, S, T, U)
                   /\ grown.ptr \in DOMAIN T \ U /\ T[grown.ptr] >= adj
      <3> SUFFICES ASSUME NEW T, Settled(h, grown.heap, S, T, U), grown.ptr \in DOMAIN T PROVE FALSE
        OBVIOUS
      <3>1. 16 <= grown.ptr
        BY Blocks DEF Settled, Quiet, Sound
      <3> QED
        BY <1>5, <3>1 DEF NULL
    <2> QED
      BY <1>1, <1>4, <1>5, <2>1
  <1>6. CASE grown.ptr # NULL
    <2>1. PICK T : /\ Settled(h, grown.heap, S, T, U)
                   /\ grown.ptr \in DOMAIN T \ U /\ T[grown.ptr] >= adj
      BY <1>4, <1>6
    <2>2. r = place(grown.heap, grown.ptr, adj)
      BY <1>1, <1>6
    <2>3. T[grown.ptr] \in Nat
      BY <2>1, Blocks DEF Settled, Quiet, Sound
    <2>4. PICK V : Placed(grown.heap, r, T, V, U, adj)
      <3>1. Quiet(grown.heap, T, U) /\ adj <= T[grown.ptr]
        BY <1>2, <2>1, <2>3 DEF Settled
      <3> QED
        BY <1>2, <2>1, <2>2, <3>1, PlacedIn
    <2>5. r.ptr # NULL /\ V[r.ptr] \in Nat
      <3>1. 16 <= r.ptr /\ V[r.ptr] \in Nat
        BY <2>4, Blocks DEF Placed, Quiet, Sound
      <3> QED
        BY <3>1 DEF NULL
    <2>6. r.heap.brk >= h.brk
      <3>1. r.heap.brk >= grown.heap.brk /\ grown.heap.brk >= h.brk
        BY <2>1, <2>4 DEF Placed, Settled
      <3>2. r.heap.brk \in Nat /\ grown.heap.brk \in Nat /\ h.brk \in Nat
        BY <2>1, <2>4 DEF Placed, Settled, Quiet, Sound, Layout, Aligned
      <3> QED
        BY <3>1, <3>2
    <2>7. \A b \in U : V[b] = S[b] /\ T[b] = S[b]
      BY <2>1, <2>4 DEF Placed, Settled
    <2>8. Kept(h, r.heap, S, U)
      BY <2>1, <2>4, <2>7, KeptTwice DEF Placed, Settled
    <2>9. V[r.ptr] >= size + 8
      BY <1>2, <2>4, <2>5 DEF Placed
    <2>10. Placed(h, r, S, V, U, size + 8)
      BY <2>4, <2>6, <2>7, <2>8, <2>9 DEF Placed
    <2> QED
      BY <2>5, <2>10
  <1> QED
    BY <1>5, <1>6

(* mm_free: one block in use less, the others where and as they were.      *)
LEMMA FreeSound ==
  ASSUME NEW h, NEW S, NEW U, Quiet(h, S, U), NEW ptr \in U, NEW g, g = mm_free(h, ptr)
  PROVE  \E T : Settled(h, g, S, T, U \ {ptr})
  <1> DEFINE R == DOMAIN S \ U
             V == U \ {ptr}
             put == insert_node(Tag(h, ptr, S[ptr], 0), ptr, S[ptr])
  <1>1. Sound(h, S, U, R, {}) /\ Layout(S, h.brk) /\ Tagged(h, S, U, {}) /\ U \subseteq DOMAIN S
    BY DEF Quiet, Sound
  <1>2. GET_SIZE(h, HDRP(ptr)) = S[ptr]
    BY <1>1, TagsRead
  <1>3. g = coalesce(put, ptr).heap
    BY <1>2 DEF mm_free
  <1>4. Sound(put, S, V, R \cup {ptr}, {}) /\ put.brk = h.brk /\ Kept(h, put, S, V)
    <2>1. ptr \in DOMAIN S \ R /\ {} \in SUBSET {ptr}
      BY <1>1
    <2> HIDE DEF R, put
    <2> QED
      BY <1>1, <2>1, Freed DEF put
  <1> HIDE DEF put
  <1>5. R \cup {ptr} = DOMAIN S \ V /\ ptr \in DOMAIN S \ V
    BY <1>1
  <1>6. Quiet(put, S, V)
    BY <1>4, <1>5 DEF Quiet
  <1> DEFINE r == coalesce(put, ptr)
  <1>7. PICK T : Settled(put, r.heap, S, T, V) /\ r.heap.brk = put.brk
    <2> HIDE DEF V, r
    <2> QED
      BY <1>5, <1>6, Coalesced DEF r
  <1> HIDE DEF r, V
  <1>8. Kept(h, r.heap, S, V)
    BY <1>4, <1>7, KeptTwice DEF Settled
  <1>9. h.brk >= h.brk
    BY <1>1 DEF Layout, Aligned
  <1>10. Settled(h, r.heap, S, T, V)
    BY <1>4, <1>7, <1>8, <1>9 DEF Settled
  <1> QED
    BY <1>3, <1>10 DEF r, V

(* The same, for one word.                                                 *)
LEMMA StoredAt ==
  ASSUME NEW h \in Heaps, NEW p \in Places, NEW v \in Int, NEW g, g = PUT(h, p, v)
  PROVE  /\ g \in Heaps /\ g.brk = h.brk /\ g.list = h.list
         /\ GET(g, p) = v /\ \A q \in Places \ {p} : GET(g, q) = GET(h, q)
  BY Stored

(* The layout of a heap that has only its prologue and its epilogue.       *)
NoBlocks == [c \in {} |-> 0]

(* p is such a heap.                                                       *)
Empty(p) == Quiet(p, NoBlocks, {}) /\ p.brk = 16 /\ p.list = NULL

(* mm_init lays the prologue and the epilogue, and extends that heap.      *)
LEMMA PrologueLaid ==
  ASSUME NEW h \in Heaps
  PROVE  \E p : Empty(p) /\ mm_init(mem_reset_brk(h)) = extend_heap(p, INITCHUNKSIZE).heap
  <1> DEFINE a == [h EXCEPT !.brk = 0]
             b == [a EXCEPT !.list = NULL]
             g == [b EXCEPT !.brk = @ + 16]
             g1 == PUT(g, 0, 0)
             g2 == PUT(g1, 4, 9)
             g3 == PUT(g2, 8, 9)
             p == PUT(g3, 12, 1)
             S == NoBlocks
             r == extend_heap(p, INITCHUNKSIZE)
  <1>1. MAX_HEAP \in Nat /\ INITCHUNKSIZE \in Nat /\ INITCHUNKSIZE >= 16 /\ MAX_HEAP >= 32
    BY HeapAssumption DEF MIN_BLOCK_SIZE, WSIZE
  <1>2. b \in Heaps /\ b.brk = 0 /\ b.list = NULL
    <2>1. a \in Heaps /\ a.brk = 0
      BY <1>1 DEF Heaps
    <2> HIDE DEF a
    <2> QED
      BY <2>1 DEF Heaps, NULL
  <1>3. g \in Heaps /\ g.brk = 16 /\ g.list = NULL
    <2> HIDE DEF b
    <2> QED
      BY <1>1, <1>2 DEF Heaps
  <1>4. {0, 4, 8, 12} \subseteq Places
    BY <1>1 DEF Places, WSIZE
  <1>5. mm_init(mem_reset_brk(h)) = r.heap
    <2>1. a.brk = 0
      BY DEF Heaps
    <2>2. mem_sbrk(b, 16) = [heap |-> g, ptr |-> 0]
      <3> HIDE DEF b
      <3> QED
        BY <1>1, <1>2 DEF mem_sbrk
    <2>3. mem_sbrk(b, 4 * WSIZE).heap = g
      BY <2>2 DEF WSIZE
    <2>4. mem_reset_brk(h) = a
      BY DEF mem_reset_brk
    <2>5. /\ 0 + WSIZE = 4 /\ 0 + 2 * WSIZE = 8 /\ 0 + 3 * WSIZE = 12
          /\ PACK(DSIZE, 1) = 9 /\ PACK(0, 1) = 1
      BY DEF WSIZE, DSIZE, PACK
    <2> HIDE DEF a, g
    <2>6. mm_init(a) = extend_heap(PUT(PUT(PUT(PUT(g, 0, 0), 0 + WSIZE, PACK(DSIZE, 1)),
                        0 + 2 * WSIZE, PACK(DSIZE, 1)), 0 + 3 * WSIZE, PACK(0, 1)), INITCHUNKSIZE).heap
      BY <2>1, <2>3 DEF mm_init
    <2> QED
      BY <2>4, <2>5, <2>6
  <1> HIDE DEF g
  <1>6. /\ g1 \in Heaps /\ g1.brk = 16 /\ g1.list = NULL
    <2> DEFINE x == 0
               v == 0
    <2>1. x \in Places /\ v \in Int /\ g1 = PUT(g, x, v)
      BY <1>4
    <2>a. g \in Heaps
      BY <1>3
    <2> HIDE DEF x, v, g1
    <2>2. /\ g1 \in Heaps /\ g1.brk = g.brk /\ g1.list = g.list
          /\ GET(g1, x) = v /\ \A q \in Places \ {x} : GET(g1, q) = GET(g, q)
      BY <2>1, <2>a, StoredAt
    <2> QED
      BY <1>3, <1>4, <2>2 DEF x, v
  <1> HIDE DEF g1
  <1>7. /\ g2 \in Heaps /\ g2.brk = 16 /\ g2.list = NULL /\ GET(g2, 4) = 9
    <2> DEFINE x == 4
               v == 9
    <2>1. x \in Places /\ v \in Int /\ g2 = PUT(g1, x, v)
      BY <1>4
    <2>a. g1 \in Heaps
      BY <1>6
    <2> HIDE DEF x, v, g2
    <2>2. /\ g2 \in Heaps /\ g2.brk = g1.brk /\ g2.list = g1.list
          /\ GET(g2, x) = v /\ \A q \in Places \ {x} : GET(g2, q) = GET(g1, q)
      BY <2>1, <2>a, StoredAt
    <2> QED
      BY <1>4, <1>6, <2>2 DEF x, v
  <1> HIDE DEF g2
  <1>8. /\ g3 \in Heaps /\ g3.brk = 16 /\ g3.list = NULL /\ GET(g3, 4) = 9 /\ GET(g3, 8) = 9
    <2> DEFINE x == 8
               v == 9
    <2>1. x \in Places /\ v \in Int /\ g3 = PUT(g2, x, v)
      BY <1>4
    <2>a. g2 \in Heaps
      BY <1>7
    <2> HIDE DEF x, v, g3
    <2>2. /\ g3 \in Heaps /\ g3.brk = g2.brk /\ g3.list = g2.list
          /\ GET(g3, x) = v /\ \A q \in Places \ {x} : GET(g3, q) = GET(g2, q)
      BY <2>1, <2>a, StoredAt
    <2> QED
      BY <1>4, <1>7, <2>2 DEF x, v
  <1> HIDE DEF g3
  <1>9. /\ p \in Heaps /\ p.brk = 16 /\ p.list = NULL
        /\ GET(p, 4) = 9 /\ GET(p, 8) = 9 /\ GET(p, 12) = 1
    <2> DEFINE x == 12
               v == 1
    <2>1. x \in Places /\ v \in Int /\ p = PUT(g3, x, v)
      BY <1>4
    <2>a. g3 \in Heaps
      BY <1>8
    <2> HIDE DEF x, v, p
    <2>2. /\ p \in Heaps /\ p.brk = g3.brk /\ p.list = g3.list
          /\ GET(p, x) = v /\ \A q \in Places \ {x} : GET(p, q) = GET(g3, q)
      BY <2>1, <2>a, StoredAt
    <2> QED
      BY <1>4, <1>8, <2>2 DEF x, v
  <1> HIDE DEF p
  <1>10. DOMAIN S = {}
    BY DEF NoBlocks
  <1> HIDE DEF S
  <1>11. Layout(S, p.brk)
    BY <1>1, <1>9, <1>10 DEF Layout, Aligned
  <1>12. Tagged(p, S, {}, {})
    <2>1. GET(p, p.brk - 4) = 1
      <3>1. p.brk - 4 = 12
        BY <1>9
      <3> QED
        BY <1>9, <3>1
    <2> QED
      BY <1>9, <1>10, <2>1 DEF Tagged
  <1>13. Quiet(p, S, {})
    <2> DEFINE L == [k \in 1 .. 0 |-> 0]
    <2>1. 0 \in Nat /\ L \in [1 .. 0 -> {}] /\ 1 .. 0 = {}
      OBVIOUS
    <2> HIDE DEF L
    <2>2. Chained(p, S, {}, 0, L)
      BY <1>9, <2>1 DEF Chained
    <2>3. DOMAIN S \ {} = {}
      BY <1>10
    <2>4. \E n \in Nat : \E M \in [1 .. n -> {}] : Chained(p, S, {}, n, M)
      BY <2>1, <2>2
    <2> QED
      BY <1>9, <1>11, <1>12, <2>3, <2>4 DEF Quiet, Sound
  <1>14. Empty(p)
    BY <1>9, <1>13 DEF Empty, S
  <1> HIDE DEF r
  <1>15. r = extend_heap(p, INITCHUNKSIZE)
    BY DEF r
  <1> QED
    BY <1>5, <1>14, <1>15

(* mm_init makes a heap in order with no block in use.                     *)
LEMMA InitSound ==
  ASSUME NEW h \in Heaps
  PROVE  \E T : Quiet(mm_init(mem_reset_brk(h)), T, {})
  <1>1. PICK p : Empty(p) /\ mm_init(mem_reset_brk(h)) = extend_heap(p, INITCHUNKSIZE).heap
    BY PrologueLaid
  <1> DEFINE r == extend_heap(p, INITCHUNKSIZE)
             S == NoBlocks
  <1>2. Quiet(p, S, {})
    BY <1>1 DEF Empty
  <1> HIDE DEF S, r
  <1>3. INITCHUNKSIZE \in Nat /\ INITCHUNKSIZE > 8
    BY HeapAssumption DEF MIN_BLOCK_SIZE
  <1>4. \/ r.ptr = NULL /\ r.heap = p
        \/ \E T : /\ Settled(p, r.heap, S, T, {})
                  /\ r.ptr \in DOMAIN T \ {} /\ T[r.ptr] >= ALIGN(INITCHUNKSIZE)
    BY <1>2, <1>3, HeapExtended DEF r
  <1>5. mm_init(mem_reset_brk(h)) = r.heap
    BY <1>1 DEF r
  <1> QED
    BY <1>2, <1>4, <1>5 DEF Settled

----------------------------------------------------------------------------
(* Blocks are resized *)

(* Writing to the payload of a block in use disturbs nothing else.         *)
Payload(S, b, a) == b <= a /\ a < b + S[b] - 8

(* Writing into a block in use disturbs neither the heap nor another       *)
(* block.                                                                  *)
LEMMA PayloadWritten ==
  ASSUME NEW h, NEW S, NEW U, Quiet(h, S, U), NEW b \in U,
         NEW g \in Heaps, g.brk = h.brk, g.list = h.list,
         \A a \in Places : ~Payload(S, b, a) => GET(g, a) = GET(h, a)
  PROVE  Quiet(g, S, U) /\ Kept(h, g, S, U \ {b})
  <1> DEFINE F == DOMAIN S \ U
  <1>1. Sound(h, S, U, F, {}) /\ Layout(S, h.brk) /\ Tagged(h, S, U, {}) /\ U \subseteq DOMAIN S
    BY DEF Quiet, Sound
  <1>2. \A c \in DOMAIN S : /\ c \in Nat /\ S[c] \in Nat /\ 16 <= S[c] /\ h.brk \in Nat
                            /\ {c - 4, c, c + 4, c + S[c] - 8} \subseteq Places
    BY <1>1, Blocks
  <1>3. ASSUME NEW c \in DOMAIN S, c # b, NEW x \in Places, Owns(S, c, x)
        PROVE  GET(g, x) = GET(h, x)
    <2>1. SUFFICES ASSUME Payload(S, b, x) PROVE FALSE
      OBVIOUS
    <2>2. Owns(S, b, x) /\ x \in Int
      BY <1>1, <2>1, Parts DEF Payload, Places
    <2> QED
      BY <1>1, <1>3, <2>2, Apart
  <1>4. Tagged(g, S, U, {})
    <2>1. ASSUME NEW c \in DOMAIN S
          PROVE  GET(g, c - 4) = GET(h, c - 4) /\ GET(g, c + S[c] - 8) = GET(h, c + S[c] - 8)
      <3>1. CASE c = b
        <4>1. ~Payload(S, b, b - 4) /\ ~Payload(S, b, b + S[b] - 8)
          BY <1>1, <1>2 DEF Payload
        <4> QED
          BY <1>2, <3>1, <4>1
      <3>2. CASE c # b
        <4>1. Owns(S, c, c - 4) /\ Owns(S, c, c + S[c] - 8)
          BY <1>1, Parts
        <4> QED
          BY <1>2, <1>3, <3>2, <4>1
      <3> QED
        BY <3>1, <3>2
    <2>2. ASSUME NEW x \in Places, x <= 8 \/ x >= h.brk - 4 PROVE GET(g, x) = GET(h, x)
      <3>1. SUFFICES ASSUME Payload(S, b, x) PROVE FALSE
        OBVIOUS
      <3>2. Owns(S, b, x) /\ x \in Int
        BY <1>1, <3>1, Parts DEF Payload, Places
      <3>3. 8 < x /\ x < h.brk - 4
        BY <1>1, <3>2, Apart
      <3> QED
        BY <1>1, <1>2, <2>2, <3>2, <3>3
    <2>3. {4, 8, h.brk - 4} \subseteq Places /\ h.brk \in Nat
      <3>1. Aligned(h.brk) /\ 16 <= h.brk /\ h.brk <= MAX_HEAP /\ h.brk \in Nat
        BY <1>1 DEF Layout, Aligned
      <3>2. h.brk - 4 \in Places
        BY <3>1, AlignedPlaces
      <3>3. 4 \in Places /\ 8 \in Places
        BY <3>1, MaxHeap DEF Places, WSIZE
      <3> QED
        BY <3>1, <3>2, <3>3
    <2>4. GET(g, 4) = 9 /\ GET(g, 8) = 9 /\ GET(g, g.brk - 4) = 1
      BY <1>1, <2>2, <2>3 DEF Tagged
    <2> QED
      BY <1>1, <2>1, <2>4 DEF Tagged
  <1>5. Kept(h, g, S, U \ {b})
    <2>1. ASSUME NEW c \in U \ {b}, NEW x \in Places, c <= x, x < c + S[c] - 8
          PROVE  GET(g, x) = GET(h, x)
      BY <1>1, <1>3, <2>1, Parts
    <2> QED
      BY <2>1 DEF Kept
  <1>6. \E n \in Nat : \E L \in [1 .. n -> F] : Chained(g, S, F, n, L)
    <2>1. PICK n \in Nat : \E L \in [1 .. n -> F] : Chained(h, S, F, n, L)
      BY <1>1 DEF Sound
    <2>2. PICK L \in [1 .. n -> F] : Chained(h, S, F, n, L)
      BY <2>1
    <2>3. \A c \in F : GET(g, c) = GET(h, c) /\ GET(g, c + 4) = GET(h, c + 4)
      <3> TAKE c \in F
      <3>1. Owns(S, c, c) /\ Owns(S, c, c + 4) /\ c \in Places /\ c + 4 \in Places /\ c # b
        BY <1>1, <1>2, Parts
      <3> QED
        BY <1>3, <3>1
    <2>4. Chained(g, S, F, n, L)
      BY <2>2, <2>3, ChainedSame
    <2> QED
      BY <2>4
  <1>7. Quiet(g, S, U)
    BY <1>1, <1>4, <1>6 DEF Quiet, Sound
  <1> QED
    BY <1>5, <1>7

(* The first m bytes at p in h are at q in g, word by word.                *)
Carried(h, g, p, q, m) == \A a \in Nat : a % 4 = 0 /\ a < m => GET(g, q + a) = GET(h, p + a)

(* The words of a payload are words of the heap.                           *)
LEMMA WordPlaces ==
  ASSUME NEW S, NEW top, Layout(S, top), NEW b \in DOMAIN S,
         NEW a \in Nat, a % 4 = 0, a < S[b] - 8
  PROVE  b + a \in Places /\ Payload(S, b, b + a)
  <1>1. /\ b \in Nat /\ S[b] \in Nat /\ top \in Nat /\ Aligned(b) /\ b + S[b] <= top /\ top <= MAX_HEAP
    BY Blocks
  <1>2. (b + a) % 4 = 0
    <2>1. b % 8 = 0 /\ a % 4 = 0 /\ b \in Nat
      BY <1>1 DEF Aligned
    <2>2. b % 4 = 0
      BY <2>1
    <2> QED
      BY <2>1, <2>2
  <1> QED
    BY <1>1, <1>2, MaxHeap DEF Places, WSIZE, Payload

(* A block kept holds the same data.                                       *)
LEMMA KeptCarried ==
  ASSUME NEW h, NEW g, NEW S, NEW top, Layout(S, top), NEW b \in DOMAIN S,
         NEW U, b \in U, Kept(h, g, S, U), NEW m \in Nat, m <= S[b] - 8
  PROVE  Carried(h, g, b, b, m)
  <1> SUFFICES ASSUME NEW a \in Nat, a % 4 = 0, a < m PROVE GET(g, b + a) = GET(h, b + a)
    BY DEF Carried
  <1>1. S[b] \in Nat
    BY Blocks
  <1>2. a < S[b] - 8
    BY <1>1
  <1>3. b + a \in Places /\ Payload(S, b, b + a)
    BY <1>2, WordPlaces
  <1> QED
    BY <1>3 DEF Kept, Payload

(* g is h with ptr cut to adj bytes and the rest free.                     *)
TrimDone(h, g, S, T, U, ptr, adj) ==
    /\ Quiet(g, T, U) /\ g.brk = h.brk
    /\ T[ptr] = adj /\ \A b \in U \ {ptr} : T[b] = S[b]
    /\ Kept(h, g, T, U)

(* Trim: the block is cut to the size wanted and the rest is free.         *)
LEMMA Trimmed ==
  ASSUME NEW h, NEW S, NEW U, NEW ptr \in U, NEW X \in SUBSET {ptr},
         Sound(h, S, U, DOMAIN S \ U, X), NEW adj, Divisible(S, ptr, adj)
  PROVE  \E T : TrimDone(h, Trim(h, ptr, S[ptr], adj), S, T, U, ptr, adj)
  <1> DEFINE F == DOMAIN S \ U
             d == ptr + adj
             rest == S[ptr] - adj
             k == Tag(Tag(h, ptr, adj, 1), d, rest, 0)
             g == insert_node(k, d, rest)
  <1>1. g = Trim(h, ptr, S[ptr], adj)
    BY DEF Trim
  <1>2. U \subseteq DOMAIN S /\ Layout(S, h.brk)
    BY DEF Sound
  <1>3. ptr \in DOMAIN S \ F
    BY <1>2
  <1>4. \E T : SplitDone(h, k, S, T, Mark(Mark(U, ptr, 1), d, 0), F, ptr, adj, d)
    <2>1. SplitAt(S, ptr, adj, rest, d)
      BY DEF SplitAt
    <2>2. Sound(h, S, U, F, X)
      OBVIOUS
    <2> HIDE DEF F, d, rest
    <2> QED
      BY <1>3, <2>1, <2>2, Split
  <1>5. PICK T : SplitDone(h, k, S, T, Mark(Mark(U, ptr, 1), d, 0), F, ptr, adj, d)
    BY <1>4
  <1>6. /\ d \notin DOMAIN S /\ DOMAIN T = DOMAIN S \cup {d} /\ T[ptr] = adj /\ T[d] = rest
        /\ \A c \in DOMAIN S \ {ptr} : T[c] = S[c]
    BY <1>5 DEF SplitDone, DividedDone
  <1> HIDE DEF d, rest
  <1>7. Mark(Mark(U, ptr, 1), d, 0) = U
    BY <1>2, <1>6 DEF Mark
  <1>8. Sound(k, T, U, F, {}) /\ k.brk = h.brk /\ Kept(h, k, T, DOMAIN T)
    BY <1>5, <1>7 DEF SplitDone
  <1> HIDE DEF k
  <1>9. Sound(g, T, U, F \cup {d}, {}) /\ g.brk = k.brk /\ Kept(k, g, T, U)
    <2>1. d \in DOMAIN T \ U /\ d \notin F /\ g = insert_node(k, d, T[d])
      BY <1>2, <1>6
    <2> HIDE DEF g, F
    <2> QED
      BY <1>8, <2>1, Inserted
  <1> HIDE DEF g
  <1>10. F \cup {d} = DOMAIN T \ U
    BY <1>2, <1>6
  <1>11. Kept(h, g, T, U)
    <2>1. Kept(h, k, T, U)
      BY <1>2, <1>6, <1>8, KeptFewer
    <2> QED
      BY <1>9, <2>1, KeptTwice
  <1>12. Quiet(g, T, U)
    BY <1>9, <1>10 DEF Quiet
  <1>13. TrimDone(h, g, S, T, U, ptr, adj)
    BY <1>2, <1>6, <1>8, <1>9, <1>11, <1>12 DEF TrimDone
  <1> QED
    BY <1>1, <1>13

(* The block ptr has become r.ptr, with room for n bytes and tags; what    *)
(* fits of its payload came along.                                         *)
Resized(h, r, S, T, U, ptr, n) ==
    /\ Quiet(r.heap, T, (U \ {ptr}) \cup {r.ptr}) /\ r.heap.brk >= h.brk
    /\ r.ptr \in DOMAIN T \ (U \ {ptr}) /\ T[r.ptr] >= n + 8
    /\ \A b \in U \ {ptr} : T[b] = S[b]
    /\ Kept(h, r.heap, S, U \ {ptr})
    /\ Carried(h, r.heap, ptr, r.ptr, Smaller(n, S[ptr] - 8))

(* A block that stays where it is.                                         *)
LEMMA ResizedInPlace ==
  ASSUME NEW h, NEW g, NEW S, NEW T, NEW U, NEW ptr \in U, Layout(S, h.brk), ptr \in DOMAIN S,
         Quiet(g, T, U), g.brk >= h.brk, \A b \in U \ {ptr} : T[b] = S[b],
         Kept(h, g, S, U \ {ptr}), NEW n \in Nat \ {0}, T[ptr] >= n + 8,
         Carried(h, g, ptr, ptr, Smaller(n, S[ptr] - 8))
  PROVE  Resized(h, [heap |-> g, ptr |-> ptr], S, T, U, ptr, n)
  <1> DEFINE r == [heap |-> g, ptr |-> ptr]
  <1>1. r.heap = g /\ r.ptr = ptr
    OBVIOUS
  <1>2. (U \ {ptr}) \cup {ptr} = U /\ ptr \in DOMAIN T
    BY DEF Quiet, Sound
  <1> HIDE DEF r
  <1>3. Resized(h, r, S, T, U, ptr, n)
    BY <1>1, <1>2 DEF Resized
  <1> QED
    BY <1>3 DEF r

(* Data carried to q and kept there was carried to q.                      *)
LEMMA CarriedTwice ==
  ASSUME NEW h, NEW g, NEW k, NEW p, NEW q, NEW m, Carried(h, g, p, q, m), Carried(g, k, q, q, m)
  PROVE  Carried(h, k, p, q, m)
  BY DEF Carried

(* The free block behind ptr is joined to it; the tags are old.            *)
JoinDone(h, k, S, T, U, ptr, next) ==
    /\ Sound(k, T, U, DOMAIN T \ U, {ptr}) /\ k.brk = h.brk
    /\ T[ptr] = S[ptr] + S[next]
    /\ \A b \in U \ {ptr} : T[b] = S[b]
    /\ Kept(h, k, S, U)

(* delete_node of the free neighbour leaves it to be joined to ptr.        *)
LEMMA Joined ==
  ASSUME NEW h, NEW S, NEW U, Quiet(h, S, U), NEW ptr \in U,
         NEW next \in DOMAIN S \ U, next = ptr + S[ptr]
  PROVE  \E T : JoinDone(h, delete_node(h, next), S, T, U, ptr, next)
  <1> DEFINE R == DOMAIN S \ U
             F == R \ {next}
             k == delete_node(h, next)
  <1>1. Sound(h, S, U, R, {}) /\ U \subseteq DOMAIN S
    BY DEF Quiet, Sound
  <1>2. Sound(k, S, U, F, {}) /\ k.brk = h.brk /\ Kept(h, k, S, U)
    BY <1>1, Deleted
  <1> HIDE DEF k
  <1>3. PICK T : Sound(k, T, U \ {next}, F, ({} \ {next}) \cup {ptr}) /\ MergedDone(S, T, ptr, next)
    <2>1. ptr \in DOMAIN S \ F /\ next \in DOMAIN S \ F
      BY <1>1
    <2> HIDE DEF F
    <2> QED
      BY <1>2, <2>1, Merging
  <1>4. U \ {next} = U /\ ({} \ {next}) \cup {ptr} = {ptr}
    OBVIOUS
  <1>5. F = DOMAIN T \ U /\ T[ptr] = S[ptr] + S[next] /\ \A b \in U \ {ptr} : T[b] = S[b]
    BY <1>1, <1>3 DEF MergedDone
  <1>6. Sound(k, T, U, DOMAIN T \ U, {ptr})
    BY <1>3, <1>4, <1>5
  <1>7. JoinDone(h, k, S, T, U, ptr, next)
    BY <1>2, <1>5, <1>6 DEF JoinDone
  <1> QED
    BY <1>7 DEF k

(* memcpy carries the data over and touches nothing but the new block.     *)
LEMMA MemoryCopied ==
  ASSUME NEW h \in Heaps, NEW T, Layout(T, h.brk), NEW q \in DOMAIN T, NEW ptr \in DOMAIN T,
         NEW kept \in Nat \ {0}, kept <= T[q] - 8, kept <= T[ptr] - 8,
         NEW m, m = memcpy(h, q, ptr, kept)
  PROVE  /\ m \in Heaps /\ m.brk = h.brk /\ m.list = h.list
         /\ \A a \in Places : ~Payload(T, q, a) => GET(m, a) = GET(h, a)
         /\ Carried(h, m, ptr, q, kept)
  <1> DEFINE w0 == h.mem
             lo == q \div 4
             hi == (q + kept - 1) \div 4
             from == ptr \div 4
             mem == [w \in Words |-> IF w \in lo .. hi THEN w0[w - lo + from] ELSE w0[w]]
  <1>0. /\ q \in Nat /\ T[q] \in Nat /\ Aligned(q) /\ q + T[q] <= MAX_HEAP
        /\ ptr \in Nat /\ T[ptr] \in Nat /\ Aligned(ptr) /\ ptr + T[ptr] <= MAX_HEAP
    <2>1. \A b \in DOMAIN T : /\ b \in Nat /\ T[b] \in Nat /\ Aligned(b)
                              /\ b + T[b] <= h.brk /\ h.brk <= MAX_HEAP /\ h.brk \in Nat
      BY Blocks
    <2> QED
      BY <2>1, MaxHeap
  <1>1. m = [h EXCEPT !.mem = mem]
    BY DEF memcpy, WordsOf, WSIZE
  <1>2. w0 \in [Words -> Int]
    BY DEF Heaps
  <1>3. /\ lo \in Nat /\ hi \in Nat /\ from \in Nat /\ q = 4 * lo /\ ptr = 4 * from
        /\ 4 * hi < q + kept
    <2>1. q % 8 = 0 /\ ptr % 8 = 0
      BY <1>0 DEF Aligned
    <2> QED
      BY <1>0, <2>1
  <1>4. \A w \in lo .. hi : w - lo + from \in Words
    <2> TAKE w \in lo .. hi
    <2>1. w - lo + from \in Nat
      BY <1>3
    <2>2. 4 * (w - lo + from) < ptr + T[ptr]
      BY <1>0, <1>3
    <2>3. 4 * (w - lo + from) < MAX_HEAP
      BY <1>0, <2>1, <2>2, MaxHeap
    <2> HIDE DEF lo, from
    <2>4. w - lo + from <= MAX_HEAP \div 4 - 1
      BY <2>1, <2>3, MaxHeap
    <2> QED
      BY <2>1, <2>4, MaxHeap DEF Words, WSIZE
  <1>5. mem \in [Words -> Int]
    <2> HIDE DEF lo, hi, from, w0
    <2>1. \A w \in Words : mem[w] \in Int
      BY <1>2, <1>4
    <2> QED
      BY <2>1
  <1> HIDE DEF w0, mem
  <1>6. m \in Heaps /\ m.brk = h.brk /\ m.list = h.list /\ m.mem = mem
    BY <1>1, <1>5 DEF Heaps
  <1>7. \A a \in Places : GET(m, a) = mem[a \div 4] /\ GET(h, a) = w0[a \div 4] /\ a \div 4 \in Words
    <2>1. \A a \in Places : a \div 4 \in Words
      BY MaxHeap DEF Places, Words, WSIZE
    <2> QED
      BY <1>6, <2>1 DEF GET, WSIZE, w0
  <1>8. ASSUME NEW a \in Places, ~Payload(T, q, a) PROVE GET(m, a) = GET(h, a)
    <2>1. a \div 4 \notin lo .. hi
      <3>1. a \in Nat /\ a = 4 * (a \div 4)
        BY DEF Places, WSIZE
      <3>2. ~(q <= a /\ a < q + T[q] - 8)
        BY <1>8 DEF Payload
      <3>3. SUFFICES ASSUME lo <= a \div 4, a \div 4 <= hi PROVE FALSE
        OBVIOUS
      <3> DEFINE w == a \div 4
      <3>4. w \in Nat /\ a = 4 * w /\ lo <= w /\ w <= hi
        BY <3>1, <3>3
      <3> HIDE DEF w, lo, hi
      <3>5. q <= a /\ a < q + kept
        BY <1>0, <1>3, <3>1, <3>4
      <3>6. kept <= T[q] - 8
        BY <1>0
      <3> QED
        BY <1>0, <3>1, <3>2, <3>5, <3>6
    <2> HIDE DEF lo, hi
    <2> QED
      BY <1>7, <2>1 DEF mem
  <1>9. ASSUME NEW a \in Nat, a % 4 = 0, a < kept PROVE GET(m, q + a) = GET(h, ptr + a)
    <2>1. PICK x \in Nat : a = 4 * x
      <3>1. a \div 4 \in Nat /\ a = 4 * (a \div 4)
        BY <1>9
      <3> QED
        BY <3>1
    <2>2. q + a \in Places /\ ptr + a \in Places
      <3>1. a < T[q] - 8 /\ a < T[ptr] - 8 /\ q \in DOMAIN T /\ ptr \in DOMAIN T
        BY <1>0, <1>9
      <3> QED
        BY <1>9, <3>1, WordPlaces
    <2>3. (q + a) \div 4 = lo + x /\ (ptr + a) \div 4 = from + x
      <3> HIDE DEF lo, from
      <3> QED
        BY <1>0, <1>3, <2>1
    <2>4. lo + x \in lo .. hi
      <3>1. q + a <= q + kept - 1
        BY <1>0, <1>9
      <3>2. 4 * (lo + x) <= q + kept - 1
        BY <1>3, <2>1, <3>1
      <3> DEFINE z == q + kept - 1
                 y == lo + x
      <3>3. z \in Nat /\ y \in Nat /\ 4 * y <= z
        BY <1>0, <1>3, <2>1, <3>2
      <3> HIDE DEF z, y
      <3>4. y <= z \div 4
        BY <3>3
      <3> QED
        BY <1>3, <2>1, <3>4 DEF y, z
    <2>5. mem[lo + x] = w0[(lo + x) - lo + from]
      <3>1. lo + x \in Words
        BY <1>7, <2>2, <2>3
      <3> HIDE DEF lo, hi, from
      <3> DEFINE v == lo + x
      <3>2. v \in Words /\ v \in lo .. hi
        BY <2>4, <3>1
      <3> HIDE DEF v
      <3>3. mem[v] = w0[v - lo + from]
        BY <3>2 DEF mem
      <3> QED
        BY <3>3 DEF v
    <2>6. (lo + x) - lo + from = from + x
      BY <1>3, <2>1
    <2> HIDE DEF lo, hi, from
    <2> QED
      BY <1>7, <2>2, <2>3, <2>5, <2>6
  <1> QED
    BY <1>6, <1>8, <1>9 DEF Carried

(* mm_realloc's last resort.                                               *)
LEMMA MovedSound ==
  ASSUME NEW h, NEW S, NEW U, Quiet(h, S, U), NEW ptr \in U, NEW n \in Nat \ {0},
         NEW r, r = Moved(h, ptr, n)
  PROVE  \/ r.ptr = NULL /\ r.heap = h
         \/ r.ptr # NULL /\ \E T : Resized(h, r, S, T, U, ptr, n)
  <1> DEFINE new == mm_malloc(h, n)
             kept == Smaller(n, S[ptr] - 8)
             q == new.ptr
             m == memcpy(new.heap, q, ptr, kept)
             g == mm_free(m, ptr)
             V == (U \cup {q}) \ {ptr}
  <1>1. Sound(h, S, U, DOMAIN S \ U, {}) /\ Layout(S, h.brk) /\ Tagged(h, S, U, {}) /\ U \subseteq DOMAIN S
    BY DEF Quiet, Sound
  <1>2. GET_SIZE(h, HDRP(ptr)) = S[ptr]
    BY <1>1, TagsRead
  <1>3. r = IF new.ptr = NULL THEN new ELSE [heap |-> g, ptr |-> q]
    BY <1>2 DEF Moved, MovedTo, DSIZE
  <1>4. CASE new.ptr = NULL
    <2>1. r = new
      BY <1>3, <1>4
    <2>2. new.heap = h
      <3> HIDE DEF new
      <3>1. new = mm_malloc(h, n)
        BY DEF new
      <3> QED
        BY <1>4, <3>1, MallocSound
    <2> QED
      BY <1>4, <2>1, <2>2
  <1>5. CASE new.ptr # NULL
    <2>1. r = [heap |-> g, ptr |-> q]
      BY <1>3, <1>5
    <2>2. PICK T : Placed(h, new, S, T, U, n + 8)
      <3> HIDE DEF new
      <3> QED
        BY <1>5, MallocSound DEF new
    <2> HIDE DEF new
    <2>3. /\ Quiet(new.heap, T, U \cup {q}) /\ new.heap.brk >= h.brk
          /\ q \in DOMAIN T \ U /\ T[q] >= n + 8
          /\ \A b \in U : T[b] = S[b]
          /\ Kept(h, new.heap, S, U)
      BY <2>2 DEF Placed
    <2> HIDE DEF q
    <2>4. /\ Layout(T, new.heap.brk) /\ new.heap \in Heaps /\ U \cup {q} \subseteq DOMAIN T
      BY <2>3 DEF Quiet, Sound
    <2>5. /\ q \in Nat /\ T[q] \in Nat /\ Aligned(q) /\ q + T[q] <= MAX_HEAP
          /\ ptr \in Nat /\ S[ptr] \in Nat /\ T[ptr] = S[ptr] /\ Aligned(ptr) /\ ptr + S[ptr] <= MAX_HEAP
          /\ 16 <= S[ptr]
      <3>1. \A b \in DOMAIN T : /\ b \in Nat /\ T[b] \in Nat /\ Aligned(b) /\ 16 <= T[b]
                                /\ b + T[b] <= new.heap.brk /\ new.heap.brk <= MAX_HEAP
                                /\ new.heap.brk \in Nat
        BY <2>4, Blocks
      <3>2. T[ptr] = S[ptr] /\ ptr \in DOMAIN T /\ q \in DOMAIN T
        BY <2>3, <2>4
      <3> QED
        BY <3>1, <3>2, MaxHeap
    <2>6. kept \in Nat /\ kept > 0 /\ kept <= n /\ kept <= S[ptr] - 8
      BY <2>5 DEF Smaller
    <2> HIDE DEF kept
    <2>7. /\ m \in Heaps /\ m.brk = new.heap.brk /\ m.list = new.heap.list
          /\ \A a \in Places : ~Payload(T, q, a) => GET(m, a) = GET(new.heap, a)
          /\ Carried(new.heap, m, ptr, q, kept)
      <3>1. q \in DOMAIN T /\ ptr \in DOMAIN T /\ kept <= T[q] - 8 /\ kept <= T[ptr] - 8
        BY <2>3, <2>4, <2>5, <2>6
      <3> DEFINE x == new.heap
      <3>2. m = memcpy(x, q, ptr, kept) /\ x \in Heaps /\ Layout(T, x.brk)
        BY <2>4
      <3> HIDE DEF x, m
      <3> QED
        BY <2>6, <3>1, <3>2, MemoryCopied DEF x
    <2> HIDE DEF m
    <2>8. Quiet(m, T, U \cup {q}) /\ Kept(new.heap, m, T, (U \cup {q}) \ {q})
      <3> DEFINE W == U \cup {q}
      <3>1. q \in W /\ Quiet(new.heap, T, W)
        BY <2>3
      <3> HIDE DEF W
      <3>2. Quiet(m, T, W) /\ Kept(new.heap, m, T, W \ {q})
        BY <2>7, <3>1, PayloadWritten
      <3> QED
        BY <3>2 DEF W
    <2>9. PICK T2 : Settled(m, g, T, T2, V)
      <3> DEFINE W == U \cup {q}
      <3>1. ptr \in W /\ Quiet(m, T, W) /\ V = W \ {ptr}
        BY <2>8
      <3> HIDE DEF W, V, g
      <3> QED
        BY <3>1, FreeSound DEF g
    <2> HIDE DEF g
    <2>10. q # ptr /\ V = (U \ {ptr}) \cup {q} /\ q \in V /\ (U \cup {q}) \ {q} = U
      BY <2>3
    <2> HIDE DEF V
    <2>11. Quiet(g, T2, V) /\ g.brk >= m.brk /\ (\A b \in V : T2[b] = T[b]) /\ Kept(m, g, T, V)
      BY <2>9 DEF Settled
    <2>12. g.brk >= h.brk
      <3>1. g.brk \in Nat /\ new.heap.brk \in Nat /\ h.brk \in Nat
        BY <1>1, <2>4, <2>11 DEF Quiet, Sound, Layout, Aligned
      <3> QED
        BY <2>3, <2>7, <2>11, <3>1
    <2>13. q \in DOMAIN T2 \ (U \ {ptr}) /\ T2[q] >= n + 8
      <3>1. V \subseteq DOMAIN T2
        BY <2>11 DEF Quiet, Sound
      <3> QED
        BY <2>3, <2>10, <2>11, <3>1
    <2>14. \A b \in U \ {ptr} : T2[b] = S[b] /\ T[b] = S[b]
      BY <2>3, <2>10, <2>11
    <2>15. Kept(h, g, S, U \ {ptr})
      <3>1. Kept(h, new.heap, S, U \ {ptr}) /\ Kept(new.heap, m, S, U \ {ptr}) /\ Kept(m, g, S, U \ {ptr})
        BY <2>3, <2>8, <2>10, <2>11, <2>14 DEF Kept
      <3> QED
        BY <3>1 DEF Kept
    <2>16. Carried(h, g, ptr, q, kept)
      <3>1. Carried(h, new.heap, ptr, ptr, kept)
        BY <1>1, <2>3, <2>6, KeptCarried
      <3>2. Carried(new.heap, m, ptr, q, kept)
        BY <2>7
      <3>3. Carried(m, g, q, q, kept)
        <4>1. kept <= T[q] - 8
          BY <2>3, <2>5, <2>6
        <4> QED
          BY <2>3, <2>4, <2>6, <2>10, <2>11, <4>1, KeptCarried
      <3> QED
        BY <3>1, <3>2, <3>3 DEF Carried
    <2>17. r.heap = g /\ r.ptr = q /\ r.ptr # NULL
      BY <1>5, <2>1 DEF q
    <2>18. Resized(h, r, S, T2, U, ptr, n)
      BY <2>10, <2>11, <2>12, <2>13, <2>14, <2>15, <2>16, <2>17 DEF Resized, kept
    <2> QED
      BY <2>17, <2>18
  <1> QED
    BY <1>4, <1>5

(* mm_realloc: nothing, or the block is resized and its data carried       *)
(* along.                                                                  *)
LEMMA ReallocSound ==
  ASSUME NEW h, NEW S, NEW U, Quiet(h, S, U), NEW ptr \in U, NEW n \in Nat \ {0},
         NEW r, r = mm_realloc(h, ptr, n)
  PROVE  \/ r.ptr = NULL /\ r.heap = h
         \/ r.ptr # NULL /\ \E T : Resized(h, r, S, T, U, ptr, n)
  <1> DEFINE adj == IF n <= 8 THEN 16 ELSE ALIGN(n + 8)
             cur == S[ptr]
             next == NEXT_BLKP(h, ptr)
             joined == delete_node(h, next)
             keep == Smaller(n, cur - 8)
             R == DOMAIN S \ U
  <1>1. Sound(h, S, U, R, {}) /\ Layout(S, h.brk) /\ Tagged(h, S, U, {}) /\ U \subseteq DOMAIN S
    BY DEF Quiet, Sound
  <1>2. /\ GET_SIZE(h, HDRP(ptr)) = cur /\ next = ptr + cur
        /\ GET_ALLOC(h, HDRP(next)) = 0 => next \in R
    BY <1>1, TagsRead, Neighbours
  <1>3. \A b \in DOMAIN S : b \in Nat /\ S[b] \in Nat /\ 16 <= S[b] /\ 16 <= b /\ Aligned(S[b])
    BY <1>1, Blocks
  <1>4. ptr # NULL /\ ptr \in DOMAIN S /\ cur \in Nat /\ 16 <= cur /\ Aligned(cur) /\ h.brk \in Nat
    BY <1>1, <1>3 DEF NULL, Layout, Aligned
  <1>5. Aligned(adj) /\ 16 <= adj /\ n + 8 <= adj /\ adj \in Nat
    <2>1. CASE n <= 8
      BY <2>1 DEF Aligned
    <2>2. CASE ~(n <= 8)
      <3> DEFINE k == n + 8
      <3>1. k \in Nat /\ k > 8
        OBVIOUS
      <3> HIDE DEF k
      <3>2. Aligned(ALIGN(k)) /\ k <= ALIGN(k) /\ ALIGN(k) >= 16
        BY <3>1, AlignedUp
      <3>3. adj = ALIGN(k)
        BY <2>2 DEF k
      <3> HIDE DEF adj
      <3> QED
        BY <3>2, <3>3 DEF k, Aligned
    <2> QED
      BY <2>1, <2>2
  <1>6. adj = IF n <= DSIZE THEN 2 * DSIZE ELSE ALIGN(n + DSIZE)
    BY DEF DSIZE
  <1> HIDE DEF adj
  <1>7. keep \in Nat /\ keep <= cur - 8 /\ keep <= n /\ keep <= adj - 8
    BY <1>4, <1>5 DEF Smaller
  <1> HIDE DEF keep
  <1>8. r = IF cur >= adj
            THEN [heap |-> IF cur - adj >= 16 THEN Trim(h, ptr, cur, adj) ELSE h, ptr |-> ptr]
            ELSE IF GET_ALLOC(h, HDRP(next)) = 0 /\ cur + GET_SIZE(h, HDRP(next)) >= adj
            THEN [heap |-> IF (cur + GET_SIZE(h, HDRP(next))) - adj >= 16
                           THEN Trim(joined, ptr, cur + GET_SIZE(h, HDRP(next)), adj)
                           ELSE Tag(joined, ptr, cur + GET_SIZE(h, HDRP(next)), 1), ptr |-> ptr]
            ELSE Moved(h, ptr, n)
    <2> HIDE DEF cur, next, joined
    <2>1. n # 0 /\ MIN_BLOCK_SIZE = 16
      BY DEF MIN_BLOCK_SIZE
    <2> QED
      BY <1>2, <1>4, <1>6, <2>1 DEF mm_realloc, joined, next
  <1>9. CASE cur >= adj /\ cur - adj >= 16
    <2> DEFINE g == Trim(h, ptr, cur, adj)
    <2>1. Divisible(S, ptr, adj)
      BY <1>4, <1>5, <1>9 DEF Divisible
    <2>2. PICK T : TrimDone(h, g, S, T, U, ptr, adj)
      <3>1. Sound(h, S, U, DOMAIN S \ U, {})
        BY <1>1
      <3> QED
        BY <2>1, <3>1, Trimmed
    <2>3. r = [heap |-> g, ptr |-> ptr]
      BY <1>8, <1>9
    <2> HIDE DEF g
    <2>4. /\ Quiet(g, T, U) /\ g.brk = h.brk
          /\ T[ptr] = adj /\ \A b \in U \ {ptr} : T[b] = S[b]
          /\ Kept(h, g, T, U)
      BY <2>2 DEF TrimDone
    <2>5. Kept(h, g, S, U \ {ptr})
      BY <2>4 DEF Kept
    <2>6. Carried(h, g, ptr, ptr, keep)
      <3>1. Layout(T, g.brk) /\ ptr \in DOMAIN T
        BY <2>4 DEF Quiet, Sound
      <3> QED
        BY <1>7, <2>4, <3>1, KeptCarried
    <2>7. T[ptr] >= n + 8 /\ g.brk >= h.brk
      BY <1>4, <1>5, <2>4
    <2>8. Resized(h, r, S, T, U, ptr, n)
      BY <1>1, <1>4, <2>3, <2>4, <2>5, <2>6, <2>7, ResizedInPlace DEF keep
    <2> QED
      BY <1>4, <2>3, <2>8
  <1>10. CASE cur >= adj /\ ~(cur - adj >= 16)
    <2>1. r = [heap |-> h, ptr |-> ptr]
      BY <1>8, <1>10
    <2>2. Kept(h, h, S, U \ {ptr}) /\ Carried(h, h, ptr, ptr, keep)
      BY DEF Kept, Carried
    <2>3. S[ptr] >= n + 8 /\ h.brk >= h.brk
      BY <1>4, <1>5, <1>10
    <2>4. Resized(h, r, S, S, U, ptr, n)
      BY <1>1, <1>4, <2>1, <2>2, <2>3, ResizedInPlace DEF keep
    <2> QED
      BY <1>4, <2>1, <2>4
  <1>11. CASE /\ ~(cur >= adj) /\ GET_ALLOC(h, HDRP(next)) = 0
              /\ cur + GET_SIZE(h, HDRP(next)) >= adj
    <2>1. next \in DOMAIN S \ U /\ next = ptr + S[ptr] /\ GET_SIZE(h, HDRP(next)) = S[next]
      BY <1>1, <1>2, <1>11, TagsRead
    <2> DEFINE both == cur + S[next]
               g == IF both - adj >= 16 THEN Trim(joined, ptr, both, adj) ELSE Tag(joined, ptr, both, 1)
    <2>2. r = [heap |-> g, ptr |-> ptr]
      BY <1>8, <1>11, <2>1
    <2>3. PICK T : JoinDone(h, joined, S, T, U, ptr, next)
      <3> HIDE DEF next
      <3> QED
        BY <2>1, Joined
    <2>4. /\ both \in Nat /\ both >= adj
      BY <1>3, <1>4, <1>11, <2>1
    <2> HIDE DEF next
    <2>5. /\ Sound(joined, T, U, DOMAIN T \ U, {ptr}) /\ joined.brk = h.brk
          /\ T[ptr] = both /\ \A b \in U \ {ptr} : T[b] = S[b]
          /\ Kept(h, joined, S, U)
      BY <2>3 DEF JoinDone
    <2> HIDE DEF joined, both
    <2>6. Carried(h, joined, ptr, ptr, keep)
      BY <1>1, <1>4, <1>7, <2>5, KeptCarried
    <2>7. \E V : /\ Quiet(g, V, U) /\ g.brk = joined.brk /\ V[ptr] >= adj
                 /\ \A b \in U \ {ptr} : V[b] = T[b]
                 /\ Kept(joined, g, V, U)
      <3>1. CASE both - adj >= 16
        <4>1. Divisible(T, ptr, adj)
          <5>1. ptr \in DOMAIN T
            BY <2>5 DEF Sound
          <5> QED
            BY <1>5, <2>4, <2>5, <3>1, <5>1 DEF Divisible
        <4>2. g = Trim(joined, ptr, T[ptr], adj)
          BY <2>5, <3>1
        <4> HIDE DEF g
        <4>3. PICK V : TrimDone(joined, g, T, V, U, ptr, adj)
          BY <2>5, <4>1, <4>2, Trimmed
        <4>4. adj >= adj
          BY <1>5
        <4> QED
          BY <4>3, <4>4 DEF TrimDone
      <3>2. CASE ~(both - adj >= 16)
        <4>1. g = Tag(joined, ptr, T[ptr], 1)
          BY <2>5, <3>2
        <4> HIDE DEF g
        <4>2. ptr \in DOMAIN T \ (DOMAIN T \ U) /\ U \subseteq DOMAIN T
          BY <2>5 DEF Sound
        <4> DEFINE F == DOMAIN T \ U
        <4>3. /\ Sound(g, T, Mark(U, ptr, 1), F, {ptr} \ {ptr}) /\ g.brk = joined.brk
              /\ Kept(joined, g, T, DOMAIN T)
          <5>1. ptr \in DOMAIN T \ F /\ Sound(joined, T, U, F, {ptr})
            BY <2>5, <4>2
          <5> HIDE DEF F
          <5> QED
            BY <4>1, <5>1, Retagged
        <4>4. Mark(U, ptr, 1) = U /\ {ptr} \ {ptr} = {}
          BY DEF Mark
        <4>5. Quiet(g, T, U)
          BY <4>3, <4>4 DEF Quiet
        <4>6. Kept(joined, g, T, U)
          BY <4>2, <4>3 DEF Kept
        <4>7. T[ptr] >= adj
          BY <2>4, <2>5
        <4> QED
          BY <4>3, <4>5, <4>6, <4>7
      <3> QED
        BY <3>1, <3>2
    <2> HIDE DEF g
    <2>8. PICK V : /\ Quiet(g, V, U) /\ g.brk = joined.brk /\ V[ptr] >= adj
                   /\ \A b \in U \ {ptr} : V[b] = T[b]
                   /\ Kept(joined, g, V, U)
      BY <2>7
    <2>9. \A b \in U \ {ptr} : V[b] = S[b]
      BY <2>5, <2>8
    <2>10. Kept(h, g, S, U \ {ptr})
      BY <2>5, <2>8, <2>9 DEF Kept
    <2>11. Layout(V, g.brk) /\ ptr \in DOMAIN V /\ V[ptr] \in Nat
      <3>1. Layout(V, g.brk) /\ ptr \in DOMAIN V
        BY <2>8 DEF Quiet, Sound
      <3> QED
        BY <3>1, Blocks
    <2>12. Carried(h, g, ptr, ptr, keep)
      <3>1. keep <= V[ptr] - 8
        BY <1>5, <1>7, <2>8, <2>11
      <3>2. Carried(joined, g, ptr, ptr, keep)
        BY <1>7, <2>8, <2>11, <3>1, KeptCarried
      <3> QED
        BY <2>6, <3>2, CarriedTwice
    <2>13. V[ptr] >= n + 8 /\ g.brk >= h.brk
      BY <1>4, <1>5, <2>5, <2>8, <2>11
    <2>14. Resized(h, r, S, V, U, ptr, n)
      BY <1>1, <1>4, <2>2, <2>8, <2>9, <2>10, <2>12, <2>13, ResizedInPlace DEF keep
    <2> QED
      BY <1>4, <2>2, <2>14
  <1>12. CASE /\ ~(cur >= adj)
              /\ ~(GET_ALLOC(h, HDRP(next)) = 0 /\ cur + GET_SIZE(h, HDRP(next)) >= adj)
    <2>1. r = Moved(h, ptr, n)
      BY <1>8, <1>12
    <2> QED
      BY <2>1, MovedSound
  <1> QED
    BY <1>9, <1>10, <1>11, <1>12

----------------------------------------------------------------------------
(* The blocks of a trace *)

(* The blocks bs the driver holds for the ids in use.                      *)
Held(bs, ids) == {bs[id] : id \in ids}

(* The heap h has layout S and its blocks in use are those of the ids of   *)
(* lv, one each, with room for what was asked for.                         *)
InUse(h, bs, lv, S) ==
    /\ DOMAIN lv \subseteq DOMAIN bs
    /\ Quiet(h, S, Held(bs, DOMAIN lv))
    /\ \A j, k \in DOMAIN lv : bs[j] = bs[k] => j = k
    /\ \A k \in DOMAIN lv : lv[k] \in Nat \ {0} /\ lv[k] + 8 <= S[bs[k]]

(* The id has got the block r.ptr of n bytes; the others keep theirs.      *)
Granted(h, bs, lv, S, id, n, r, T) ==
    /\ InUse(r.heap, With(bs, id, r.ptr), With(lv, id, n), T)
    /\ r.heap.brk >= h.brk
    /\ Kept(h, r.heap, S, Held(bs, DOMAIN lv \ {id}))
    /\ \A k \in DOMAIN lv \ {id} : T[bs[k]] = S[bs[k]]

(* With binds one id, Without removes one.                                 *)
LEMMA Bound ==
  ASSUME NEW f, NEW k, NEW v
  PROVE  /\ DOMAIN With(f, k, v) = DOMAIN f \cup {k}
         /\ With(f, k, v)[k] = v
         /\ \A x \in DOMAIN f \ {k} : With(f, k, v)[x] = f[x]
         /\ DOMAIN Without(f, k) = DOMAIN f \ {k}
         /\ \A x \in DOMAIN f \ {k} : Without(f, k)[x] = f[x]
  BY DEF With, Without

(* A block that is not one of the others, whose heap fits, is granted.     *)
LEMMA Grant ==
  ASSUME NEW h, NEW bs, NEW lv, NEW S, InUse(h, bs, lv, S), NEW id, NEW n \in Nat \ {0},
         NEW r, NEW T, NEW O, O = Held(bs, DOMAIN lv \ {id}),
         Quiet(r.heap, T, O \cup {r.ptr}), r.heap.brk >= h.brk,
         r.ptr \notin O, T[r.ptr] >= n + 8,
         \A b \in O : T[b] = S[b], Kept(h, r.heap, S, O)
  PROVE  Granted(h, bs, lv, S, id, n, r, T)
  <1> DEFINE cs == With(bs, id, r.ptr)
             lw == With(lv, id, n)
  <1>1. /\ DOMAIN cs = DOMAIN bs \cup {id} /\ cs[id] = r.ptr
        /\ \A x \in DOMAIN bs \ {id} : cs[x] = bs[x]
        /\ DOMAIN lw = DOMAIN lv \cup {id} /\ lw[id] = n
        /\ \A x \in DOMAIN lv \ {id} : lw[x] = lv[x]
    <2> DEFINE p == r.ptr
    <2> HIDE DEF p
    <2>1. /\ DOMAIN With(bs, id, p) = DOMAIN bs \cup {id} /\ With(bs, id, p)[id] = p
          /\ \A x \in DOMAIN bs \ {id} : With(bs, id, p)[x] = bs[x]
      BY DEF With
    <2>2. /\ DOMAIN With(lv, id, n) = DOMAIN lv \cup {id} /\ With(lv, id, n)[id] = n
          /\ \A x \in DOMAIN lv \ {id} : With(lv, id, n)[x] = lv[x]
      BY DEF With
    <2> QED
      BY <2>1, <2>2 DEF p
  <1> HIDE DEF cs, lw
  <1>2. DOMAIN lv \subseteq DOMAIN bs
    BY DEF InUse
  <1>3. \A k \in DOMAIN lv \ {id} : cs[k] = bs[k] /\ bs[k] \in O
    BY <1>1, <1>2 DEF Held
  <1>4. Held(cs, DOMAIN lw) = O \cup {r.ptr}
    BY <1>1, <1>3 DEF Held
  <1>5. \A j, k \in DOMAIN lw : cs[j] = cs[k] => j = k
    <2> SUFFICES ASSUME NEW j \in DOMAIN lw, NEW k \in DOMAIN lw, cs[j] = cs[k] PROVE j = k
      OBVIOUS
    <2>1. CASE j = id \/ k = id
      BY <1>1, <1>3, <2>1
    <2>2. CASE j # id /\ k # id
      BY <1>1, <1>3, <2>2 DEF InUse
    <2> QED
      BY <2>1, <2>2
  <1>6. T[r.ptr] \in Nat
    <2>1. Layout(T, r.heap.brk) /\ r.ptr \in DOMAIN T
      BY DEF Quiet, Sound
    <2> QED
      BY <2>1, Blocks
  <1>7. \A k \in DOMAIN lw : lw[k] \in Nat \ {0} /\ lw[k] + 8 <= T[cs[k]]
    <2> TAKE k \in DOMAIN lw
    <2>1. CASE k = id
      BY <1>1, <1>6, <2>1
    <2>2. CASE k # id
      <3>1. lv[k] \in Nat \ {0} /\ lv[k] + 8 <= S[bs[k]]
        BY <1>1, <2>2 DEF InUse
      <3>2. lw[k] = lv[k] /\ T[cs[k]] = S[bs[k]]
        BY <1>1, <1>3, <2>2
      <3> QED
        BY <3>1, <3>2
    <2> QED
      BY <2>1, <2>2
  <1>8. InUse(r.heap, cs, lw, T)
    BY <1>1, <1>2, <1>4, <1>5, <1>7 DEF InUse
  <1>9. \A k \in DOMAIN lv \ {id} : T[bs[k]] = S[bs[k]]
    BY <1>3
  <1> QED
    BY <1>8, <1>9 DEF Granted, cs, lw

(* mm_malloc for an id that holds no block.                                *)
LEMMA MallocGrants ==
  ASSUME NEW h, NEW bs, NEW lv, NEW S, InUse(h, bs, lv, S), NEW id, id \notin DOMAIN lv,
         NEW n \in Nat \ {0}, NEW r, r = mm_malloc(h, n), r.ptr # NULL
  PROVE  \E T : Granted(h, bs, lv, S, id, n, r, T)
  <1> DEFINE U == Held(bs, DOMAIN lv)
             m == n + 8
  <1>1. Quiet(h, S, U)
    BY DEF InUse
  <1>2. Held(bs, DOMAIN lv \ {id}) = U
    BY DEF Held
  <1>3. \E T : Placed(h, r, S, T, U, m)
    BY <1>1, MallocSound
  <1> HIDE DEF U, m
  <1>4. PICK T : Placed(h, r, S, T, U, m)
    BY <1>3
  <1>5. /\ Quiet(r.heap, T, U \cup {r.ptr}) /\ r.heap.brk >= h.brk
        /\ r.ptr \notin U /\ T[r.ptr] >= n + 8
        /\ \A b \in U : T[b] = S[b]
        /\ Kept(h, r.heap, S, U)
    BY <1>4 DEF Placed, m
  <1>6. Granted(h, bs, lv, S, id, n, r, T)
    BY <1>2, <1>5, Grant
  <1> QED
    BY <1>6

(* mm_realloc for an id that holds one.                                    *)
LEMMA ReallocGrants ==
  ASSUME NEW h, NEW bs, NEW lv, NEW S, InUse(h, bs, lv, S), NEW id \in DOMAIN lv,
         NEW n \in Nat \ {0}, NEW r, r = mm_realloc(h, bs[id], n), r.ptr # NULL
  PROVE  \E T : /\ Granted(h, bs, lv, S, id, n, r, T)
                /\ Carried(h, r.heap, bs[id], r.ptr, Smaller(n, S[bs[id]] - 8))
  <1> DEFINE U == Held(bs, DOMAIN lv)
             O == Held(bs, DOMAIN lv \ {id})
             b == bs[id]
  <1>1. Quiet(h, S, U)
    BY DEF InUse
  <1>2. U \ {b} = O /\ b \in U
    BY DEF Held, InUse
  <1>3. \E T : Resized(h, r, S, T, U, b, n)
    <2> HIDE DEF U
    <2>1. r = mm_realloc(h, b, n)
      OBVIOUS
    <2> HIDE DEF b
    <2> QED
      BY <1>1, <1>2, <2>1, ReallocSound
  <1>4. PICK T : Resized(h, r, S, T, U, b, n)
    BY <1>3
  <1> HIDE DEF U, O, b
  <1>5. /\ Quiet(r.heap, T, O \cup {r.ptr}) /\ r.heap.brk >= h.brk
        /\ r.ptr \notin O /\ T[r.ptr] >= n + 8
        /\ \A c \in O : T[c] = S[c]
        /\ Kept(h, r.heap, S, O)
        /\ Carried(h, r.heap, b, r.ptr, Smaller(n, S[b] - 8))
    BY <1>2, <1>4 DEF Resized
  <1>6. Granted(h, bs, lv, S, id, n, r, T)
    BY <1>5, Grant DEF O
  <1> QED
    BY <1>5, <1>6 DEF b

(* mm_free for an id that holds one.                                       *)
LEMMA FreeReleases ==
  ASSUME NEW h, NEW bs, NEW lv, NEW S, InUse(h, bs, lv, S), NEW id \in DOMAIN lv,
         NEW g, g = mm_free(h, bs[id])
  PROVE  \E T : /\ InUse(g, bs, Without(lv, id), T) /\ g.brk >= h.brk
                /\ Kept(h, g, S, Held(bs, DOMAIN lv \ {id}))
                /\ \A k \in DOMAIN lv \ {id} : T[bs[k]] = S[bs[k]]
  <1> DEFINE U == Held(bs, DOMAIN lv)
             O == Held(bs, DOMAIN lv \ {id})
             b == bs[id]
             lw == Without(lv, id)
  <1>1. Quiet(h, S, U)
    BY DEF InUse
  <1>2. U \ {b} = O /\ b \in U
    BY DEF Held, InUse
  <1>3. PICK T : Settled(h, g, S, T, U \ {b})
    <2> HIDE DEF U
    <2>1. g = mm_free(h, b)
      OBVIOUS
    <2> HIDE DEF b
    <2> QED
      BY <1>1, <1>2, <2>1, FreeSound
  <1>4. DOMAIN lw = DOMAIN lv \ {id} /\ \A k \in DOMAIN lv \ {id} : lw[k] = lv[k]
    BY Bound
  <1> HIDE DEF lw
  <1>5. \A k \in DOMAIN lw : bs[k] \in O
    BY <1>4 DEF Held
  <1>6. Held(bs, DOMAIN lw) = O
    BY <1>4
  <1> HIDE DEF U, O, b
  <1>7. /\ Quiet(g, T, O) /\ g.brk >= h.brk /\ \A c \in O : T[c] = S[c]
        /\ Kept(h, g, S, O)
    BY <1>2, <1>3 DEF Settled
  <1>8. \A k \in DOMAIN lw : T[bs[k]] = S[bs[k]]
    BY <1>5, <1>7
  <1>9. \A k \in DOMAIN lw : lw[k] \in Nat \ {0} /\ lw[k] + 8 <= T[bs[k]]
    BY <1>4, <1>8 DEF InUse
  <1>10. \A j, k \in DOMAIN lw : bs[j] = bs[k] => j = k
    BY <1>4 DEF InUse
  <1>11. InUse(g, bs, lw, T)
    <2>1. DOMAIN lw \subseteq DOMAIN bs
      BY <1>4 DEF InUse
    <2> QED
      BY <1>6, <1>7, <1>9, <1>10, <2>1 DEF InUse
  <1> QED
    BY <1>4, <1>7, <1>8, <1>11 DEF O, lw

(* The n bytes from p on hold v in every word.                             *)
Filled(h, p, n, v) == \A a \in Nat : a % 4 = 0 /\ a < n => GET(h, p + a) = v

(* memset fills the payload it is given and touches nothing else.          *)
LEMMA MemorySet ==
  ASSUME NEW h \in Heaps, NEW S, Layout(S, h.brk), NEW p \in DOMAIN S, NEW n \in Nat \ {0},
         n + 8 <= S[p], NEW v \in Int, NEW g, g = memset(h, p, n, v)
  PROVE  /\ g \in Heaps /\ g.brk = h.brk /\ g.list = h.list
         /\ \A a \in Places : ~Payload(S, p, a) => GET(g, a) = GET(h, a)
         /\ Filled(g, p, n, v)
  <1>1. /\ p \in Nat /\ S[p] \in Nat /\ p % 8 = 0 /\ p + S[p] <= MAX_HEAP
    <2>1. \A b \in DOMAIN S : /\ b \in Nat /\ S[b] \in Nat /\ Aligned(b) /\ b + S[b] <= h.brk
                              /\ h.brk <= MAX_HEAP /\ h.brk \in Nat
      BY Blocks
    <2>2. /\ p \in Nat /\ S[p] \in Nat /\ Aligned(p) /\ p + S[p] <= h.brk
          /\ h.brk <= MAX_HEAP /\ h.brk \in Nat
      BY <2>1
    <2>3. p + S[p] <= MAX_HEAP
      BY <2>2, MaxHeap
    <2> QED
      BY <2>2, <2>3 DEF Aligned
  <1> DEFINE lo == p \div 4
             hi == (p + n - 1) \div 4
             mem == [w \in Words |-> IF w \in lo .. hi THEN v ELSE h.mem[w]]
  <1>2. /\ lo \in Nat /\ hi \in Int /\ p = 4 * lo /\ 4 * hi < p + n /\ p + n <= 4 * hi + 4
    <2>1. p = 4 * lo /\ lo \in Nat
      BY <1>1
    <2> DEFINE z == p + n - 1
    <2>2. z \in Nat
      BY <1>1
    <2> HIDE DEF z, lo
    <2>3. z \div 4 \in Int /\ 4 * (z \div 4) <= z /\ z < 4 * (z \div 4) + 4
      BY <2>2
    <2>4. hi = z \div 4
      BY DEF z
    <2> HIDE DEF hi
    <2>5. 4 * hi <= z /\ z < 4 * hi + 4 /\ hi \in Int
      BY <2>3, <2>4
    <2> QED
      BY <1>1, <2>1, <2>5 DEF z
  <1>3. g = [h EXCEPT !.mem = mem]
    BY DEF memset, WordsOf, WSIZE, Heaps
  <1>4. mem \in [Words -> Int]
    BY DEF Heaps
  <1> HIDE DEF mem
  <1>5. g \in Heaps /\ g.brk = h.brk /\ g.list = h.list /\ g.mem = mem
    BY <1>3, <1>4 DEF Heaps
  <1>6. \A a \in Places : GET(g, a) = mem[a \div 4] /\ GET(h, a) = h.mem[a \div 4] /\ a \div 4 \in Words
    <2>1. \A a \in Places : a \div 4 \in Words
      BY MaxHeap DEF Places, Words, WSIZE
    <2> QED
      BY <1>5, <2>1 DEF GET, WSIZE
  <1> HIDE DEF lo, hi
  <1>7. ASSUME NEW a \in Places, ~Payload(S, p, a) PROVE GET(g, a) = GET(h, a)
    <2> DEFINE w == a \div 4
    <2>1. w \in Nat /\ a = 4 * w
      BY DEF Places, WSIZE
    <2> HIDE DEF w
    <2>2. ~(p <= a /\ a < p + S[p] - 8)
      BY <1>7 DEF Payload
    <2>3. w \notin lo .. hi
      BY <1>1, <1>2, <2>1, <2>2
    <2>4. mem[w] = h.mem[w]
      BY <1>6, <2>3 DEF mem, w
    <2> QED
      BY <1>6, <2>4 DEF w
  <1>8. ASSUME NEW a \in Nat, a % 4 = 0, a < n PROVE GET(g, p + a) = v
    <2>1. p + a \in Places
      <3>1. a < S[p] - 8
        BY <1>1, <1>8
      <3> QED
        BY <1>8, <3>1, WordPlaces
    <2> DEFINE w == (p + a) \div 4
    <2>2. w \in Nat /\ p + a = 4 * w
      BY <1>1, <2>1 DEF Places, WSIZE
    <2>3. mem[w] = v
      <3>1. w \in Words
        BY <1>6, <2>1
      <3> HIDE DEF w
      <3>2. w \in lo .. hi
        BY <1>1, <1>2, <1>8, <2>2
      <3> QED
        BY <3>1, <3>2 DEF mem
    <2> QED
      BY <1>6, <2>1, <2>3
  <1> QED
    BY <1>5, <1>7, <1>8 DEF Filled

(* memset fills the block of an id and touches nothing else.               *)
LEMMA Filling ==
  ASSUME NEW h, NEW bs, NEW lv, NEW S, InUse(h, bs, lv, S), NEW id \in DOMAIN lv, NEW v \in Int,
         NEW g, g = memset(h, bs[id], lv[id], v)
  PROVE  /\ InUse(g, bs, lv, S) /\ g.brk = h.brk
         /\ Kept(h, g, S, Held(bs, DOMAIN lv \ {id}))
         /\ Filled(g, bs[id], lv[id], v)
  <1> DEFINE U == Held(bs, DOMAIN lv)
             p == bs[id]
             n == lv[id]
  <1>1. /\ Quiet(h, S, U) /\ p \in U /\ n \in Nat \ {0} /\ n + 8 <= S[p]
        /\ U \ {p} = Held(bs, DOMAIN lv \ {id})
    BY DEF InUse, Held
  <1>2. h \in Heaps /\ Layout(S, h.brk) /\ p \in DOMAIN S
    BY <1>1 DEF Quiet, Sound
  <1>3. g = memset(h, p, n, v)
    OBVIOUS
  <1> HIDE DEF U, p, n
  <1>4. /\ g \in Heaps /\ g.brk = h.brk /\ g.list = h.list
        /\ \A a \in Places : ~Payload(S, p, a) => GET(g, a) = GET(h, a)
        /\ Filled(g, p, n, v)
    BY <1>1, <1>2, <1>3, MemorySet
  <1>5. Quiet(g, S, U) /\ Kept(h, g, S, U \ {p})
    BY <1>1, <1>4, PayloadWritten
  <1>6. InUse(g, bs, lv, S)
    BY <1>5 DEF InUse, U
  <1> QED
    BY <1>1, <1>4, <1>5, <1>6 DEF p, n

----------------------------------------------------------------------------
(* The inductive invariant *)

(* Every evaluation holds the blocks of the ids in use, in a heap that is  *)
(* well laid out.                                                          *)
BlocksHeld == pc \in Evaluations => \E S : InUse(heap, blocks, live, S)

(* A request that may follow when the ids u are in use.                    *)
Requests == [type : {"alloc", "realloc", "free"}, index : Ids, size : Nat]

(* A request is legal when the ids of u are in use; the ids in use after   *)
(* it.                                                                     *)
Follows(u, op) == /\ op.type = "alloc" <=> op.index \notin u
                  /\ op.type # "free" => op.size # 0

Uses(u, op) == IF op.type = "free" THEN u \ {op.index} ELSE u \cup {op.index}

(* use tells the ids in use after every request of the trace.              *)
Replayable(tr, use) ==
    /\ use[0] = {}
    /\ \A k \in 1 .. Len(tr) : Follows(use[k - 1], tr[k]) /\ use[k] = Uses(use[k - 1], tr[k])

(* The trace can be run again from the start, and what was run of it left  *)
(* the ids in use that are.                                                *)
TraceKept ==
    /\ trace \in Seq(Requests)
    /\ pc \in Evaluations =>
          /\ i \in 0 .. Len(trace)
          /\ pc = "valid" => i = Len(trace)
          /\ \E use \in [0 .. Len(trace) -> SUBSET Ids] :
                Replayable(trace, use) /\ DOMAIN live = use[i]

(* While eval_mm_valid runs, a block is full of its id.                    *)
DataKept == pc = "valid" =>
    \A id \in DOMAIN live : Filled(heap, blocks[id], live[id], id)

(* The inductive invariant.                                                *)
IInv == /\ heap \in Heaps
        /\ BlocksHeld
        /\ TraceKept
        /\ DataKept

(* The driver starts with the invariant.                                   *)
LEMMA InitInvariant == Init => IInv
  <1> SUFFICES ASSUME Init PROVE IInv
    OBVIOUS
  <1>1. heap \in Heaps
    <2>1. [w \in Words |-> 0] \in [Words -> Int]
      OBVIOUS
    <2> QED
      BY <2>1, MaxHeap DEF Init, FreshMemory, Heaps, NULL
  <1>2. pc \notin Evaluations /\ trace \in Seq(Requests)
    <2>1. <<>> \in Seq(Requests)
      OBVIOUS
    <2> QED
      BY <2>1 DEF Init, Evaluations
  <1> QED
    BY <1>1, <1>2 DEF IInv, BlocksHeld, TraceKept, DataKept, Evaluations

(* What a request does to the heap, whoever makes it.                      *)
LEMMA RequestServed ==
  ASSUME heap \in Heaps, NEW S, InUse(heap, blocks, live, S),
         NEW op \in Requests, Follows(DOMAIN live, op), NEW r, r = Result(op)
  PROVE  /\ r.heap \in Heaps
         /\ op.type = "free" =>
               \E T : /\ InUse(r.heap, blocks, Served(op), T)
                      /\ Kept(heap, r.heap, S, Held(blocks, DOMAIN live \ {op.index}))
         /\ op.type # "free" /\ r.ptr # NULL =>
               \E T : /\ Granted(heap, blocks, live, S, op.index, op.size, r, T)
                      /\ op.type = "realloc" =>
                            Carried(heap, r.heap, blocks[op.index], r.ptr,
                                    Smaller(op.size, S[blocks[op.index]] - 8))
         /\ op.index \in DOMAIN live \/ op.type = "alloc"
  <1> DEFINE id == op.index
             n == op.size
             p == blocks[id]
  <1>1. CASE op.type = "alloc"
    <2>1. id \notin DOMAIN live /\ n \in Nat \ {0}
      BY <1>1 DEF Follows, Requests
    <2>2. r = mm_malloc(heap, n)
      BY <1>1 DEF Result
    <2> HIDE DEF id, n
    <2>3. CASE r.ptr = NULL
      <3>1. Quiet(heap, S, Held(blocks, DOMAIN live))
        BY DEF InUse
      <3>2. r.heap = heap
        BY <2>1, <2>2, <2>3, <3>1, MallocSound
      <3> QED
        BY <1>1, <2>3, <3>2
    <2>4. CASE r.ptr # NULL
      <3>1. PICK T : Granted(heap, blocks, live, S, id, n, r, T)
        BY <2>1, <2>2, <2>4, MallocGrants
      <3>2. r.heap \in Heaps
        BY <3>1 DEF Granted, InUse, Quiet, Sound
      <3> QED
        BY <1>1, <3>1, <3>2 DEF id, n
    <2> QED
      BY <2>3, <2>4
  <1>2. CASE op.type = "realloc"
    <2>1. id \in DOMAIN live /\ n \in Nat \ {0}
      BY <1>2 DEF Follows, Requests
    <2>2. r = mm_realloc(heap, p, n)
      BY <1>2 DEF Result
    <2> HIDE DEF id, n
    <2>3. CASE r.ptr = NULL
      <3>1. Quiet(heap, S, Held(blocks, DOMAIN live)) /\ p \in Held(blocks, DOMAIN live)
        BY <2>1 DEF InUse, Held
      <3>2. r.heap = heap
        <4> HIDE DEF p
        <4> QED
          BY <2>1, <2>2, <2>3, <3>1, ReallocSound
      <3> QED
        BY <1>2, <2>1, <2>3, <3>2 DEF id
    <2>4. CASE r.ptr # NULL
      <3>1. PICK T : /\ Granted(heap, blocks, live, S, id, n, r, T)
                     /\ Carried(heap, r.heap, blocks[id], r.ptr, Smaller(n, S[blocks[id]] - 8))
        BY <2>1, <2>2, <2>4, ReallocGrants
      <3>2. r.heap \in Heaps
        BY <3>1 DEF Granted, InUse, Quiet, Sound
      <3> QED
        BY <1>2, <2>1, <3>1, <3>2 DEF id, n
    <2> QED
      BY <2>3, <2>4
  <1>3. CASE op.type = "free"
    <2>1. id \in DOMAIN live
      BY <1>3 DEF Follows
    <2>2. r.heap = mm_free(heap, p)
      BY <1>3 DEF Result
    <2>3. Served(op) = Without(live, id)
      BY <1>3 DEF Served
    <2> DEFINE g == r.heap
    <2> HIDE DEF g, id
    <2>4. PICK T : /\ InUse(g, blocks, Without(live, id), T)
                   /\ Kept(heap, g, S, Held(blocks, DOMAIN live \ {id}))
      BY <2>1, <2>2, FreeReleases DEF g
    <2>5. g \in Heaps
      BY <2>4 DEF InUse, Quiet, Sound
    <2> QED
      BY <1>3, <2>1, <2>3, <2>4, <2>5 DEF g, id
  <1> QED
    BY <1>1, <1>2, <1>3 DEF Requests

(* The data of a block that a request leaves alone.                        *)
LEMMA KeptWords ==
  ASSUME NEW h, NEW g, NEW bs, NEW lv, NEW S, InUse(h, bs, lv, S), NEW id,
         Kept(h, g, S, Held(bs, DOMAIN lv \ {id})), NEW k \in DOMAIN lv \ {id}
  PROVE  Carried(h, g, bs[k], bs[k], lv[k])
  <1> DEFINE O == Held(bs, DOMAIN lv \ {id})
             p == bs[k]
             m == lv[k]
  <1>1. /\ p \in O /\ p \in Held(bs, DOMAIN lv) /\ m \in Nat /\ m + 8 <= S[p]
        /\ Quiet(h, S, Held(bs, DOMAIN lv))
    BY DEF Held, InUse
  <1>2. Layout(S, h.brk) /\ p \in DOMAIN S
    BY <1>1 DEF Quiet, Sound
  <1>3. S[p] \in Nat
    BY <1>2, Blocks
  <1> HIDE DEF O, p, m
  <1>4. Carried(h, g, p, p, m)
    <2>1. Kept(h, g, S, O)
      BY DEF O
    <2>2. m <= S[p] - 8
      BY <1>1, <1>3
    <2> QED
      BY <1>1, <1>2, <2>1, <2>2, KeptCarried
  <1> QED
    BY <1>4 DEF p, m

(* A filled block whose data is kept is filled.                            *)
LEMMA FilledCarried ==
  ASSUME NEW h, NEW g, NEW p, NEW n, NEW v, Filled(h, p, n, v), Carried(h, g, p, p, n)
  PROVE  Filled(g, p, n, v)
  BY DEF Filled, Carried

(* A trace that goes on.                                                   *)
LEMMA TraceExtended ==
  ASSUME NEW tr \in Seq(Requests), NEW use \in [0 .. Len(tr) -> SUBSET Ids], Replayable(tr, use),
         NEW op \in Requests, Follows(use[Len(tr)], op)
  PROVE  /\ Append(tr, op) \in Seq(Requests) /\ Len(Append(tr, op)) = Len(tr) + 1
         /\ \E used \in [0 .. Len(tr) + 1 -> SUBSET Ids] :
               /\ Replayable(Append(tr, op), used)
               /\ used[Len(tr) + 1] = Uses(use[Len(tr)], op)
  <1> DEFINE n == Len(tr)
             ts == Append(tr, op)
             used == [k \in 0 .. n + 1 |-> IF k <= n THEN use[k] ELSE Uses(use[n], op)]
  <1>1. n \in Nat
    BY LenProperties
  <1>2. /\ ts \in Seq(Requests) /\ Len(ts) = n + 1
        /\ \A k \in 1 .. n : ts[k] = tr[k]
        /\ ts[n + 1] = op
    BY AppendProperties
  <1>3. Uses(use[n], op) \in SUBSET Ids
    BY <1>1 DEF Uses, Requests
  <1>4. used \in [0 .. n + 1 -> SUBSET Ids]
    BY <1>1, <1>3
  <1>5. Replayable(ts, used)
    <2>1. used[0] = {}
      BY <1>1 DEF Replayable
    <2>2. ASSUME NEW k \in 1 .. Len(ts)
          PROVE  Follows(used[k - 1], ts[k]) /\ used[k] = Uses(used[k - 1], ts[k])
      <3>1. CASE k \in 1 .. n
        <4>1. used[k - 1] = use[k - 1] /\ used[k] = use[k] /\ ts[k] = tr[k]
          BY <1>1, <1>2, <3>1
        <4> QED
          BY <3>1, <4>1 DEF Replayable
      <3>2. CASE k = n + 1
        <4>1. used[k - 1] = use[n] /\ used[k] = Uses(use[n], op) /\ ts[k] = op
          BY <1>1, <1>2, <3>2
        <4> QED
          BY <4>1
      <3> QED
        BY <1>1, <1>2, <3>1, <3>2
    <2> QED
      BY <2>1, <2>2 DEF Replayable
  <1>6. used[n + 1] = Uses(use[n], op)
    BY <1>1
  <1> HIDE DEF used, ts
  <1> QED
    BY <1>2, <1>4, <1>5, <1>6 DEF ts

(* The ids in use after a request of the trace.                            *)
LEMMA ServedIds ==
  ASSUME NEW op
  PROVE  DOMAIN Served(op) = Uses(DOMAIN live, op)
  BY DEF Served, Uses, With, Without

(* The trace may only name what it holds.                                  *)
LEMMA LegalFollows ==
  ASSUME DOMAIN live \subseteq Ids, NEW op \in Legal
  PROVE  op \in Requests /\ Follows(DOMAIN live, op)
  <1>1. \A n \in Sizes : n \in Nat \ {0}
    BY DriverAssumption
  <1>2. CASE \E id \in Ids \ DOMAIN live : \E n \in Sizes : op = Alloc(id, n)
    BY <1>1, <1>2 DEF Alloc, Requests, Follows
  <1>3. CASE \E id \in DOMAIN live : \E n \in Sizes : op = Resize(id, n)
    BY <1>1, <1>3 DEF Resize, Requests, Follows
  <1>4. CASE \E id \in DOMAIN live : op = Release(id)
    BY <1>4 DEF Release, Requests, Follows
  <1> QED
    BY <1>2, <1>3, <1>4 DEF Legal

(* A step that ends or does not begin an evaluation.                       *)
LEMMA OutsideEvaluations ==
  ASSUME heap' \in Heaps, pc' \notin Evaluations, trace' \in Seq(Requests)
  PROVE  IInv'
  BY DEF IInv, BlocksHeld, TraceKept, DataKept, Evaluations

(* An evaluation begins.                                                   *)
LEMMA EvaluationBegins ==
  ASSUME IInv, heap' = mm_init(mem_reset_brk(heap)), pc' \in Evaluations,
         i' = 0, live' = <<>>, trace' \in Seq(Requests), pc' = "valid" => trace' = <<>>,
         \E use \in [0 .. Len(trace') -> SUBSET Ids] : Replayable(trace', use)
  PROVE  IInv'
  <1>1. PICK S : Quiet(heap', S, {})
    BY InitSound DEF IInv
  <1>2. DOMAIN live' = {}
    OBVIOUS
  <1>3. Held(blocks', DOMAIN live') = {}
    BY <1>2 DEF Held
  <1>4. InUse(heap', blocks', live', S)
    BY <1>1, <1>2, <1>3 DEF InUse
  <1>5. heap' \in Heaps
    BY <1>1 DEF Quiet, Sound
  <1>6. TraceKept'
    <2>1. Len(trace') \in Nat /\ (pc' = "valid" => Len(trace') = 0)
      BY LenProperties, EmptySeq
    <2>2. PICK use \in [0 .. Len(trace') -> SUBSET Ids] : Replayable(trace', use)
      OBVIOUS
    <2>3. DOMAIN live' = use[i']
      BY <1>2, <2>2 DEF Replayable
    <2>4. i' \in 0 .. Len(trace') /\ (pc' = "valid" => i' = Len(trace'))
      BY <2>1
    <2> QED
      BY <2>2, <2>3, <2>4 DEF TraceKept
  <1> QED
    BY <1>2, <1>4, <1>5, <1>6 DEF IInv, BlocksHeld, DataKept

(* The ids in use, as the trace has it.                                    *)
LEMMA IdsInUse ==
  ASSUME IInv, pc \in Evaluations
  PROVE  DOMAIN live \subseteq Ids
  BY DEF IInv, TraceKept

(* A request that is served: the id has its block, if any, the data of the *)
(* others stay, and mm_realloc takes along what fits.                      *)
Transferred(op) ==
    /\ live' = Served(op)
    /\ \E T : InUse(heap', blocks', live', T)
    /\ \A k \in DOMAIN live \ {op.index} :
          blocks'[k] = blocks[k] /\ Carried(heap, heap', blocks[k], blocks[k], live[k])
    /\ op.type = "realloc" =>
          Carried(heap, heap', blocks[op.index], blocks'[op.index], Smaller(op.size, live[op.index]))

(* When eval_mm_valid is content with an answer, the block is served and   *)
(* filled.                                                                 *)
LEMMA ValidTransfers ==
  ASSUME IInv, NEW op \in Legal, Valid(op), pc' = "valid"
  PROVE  /\ op \in Requests /\ Follows(DOMAIN live, op)
         /\ heap' \in Heaps /\ Transferred(op)
         /\ op.type # "free" => Filled(heap', blocks'[op.index], live'[op.index], op.index)
  <1> DEFINE id == op.index
             n == op.size
  <1>1. pc = "valid" /\ pc \in Evaluations /\ heap \in Heaps
    BY DEF Valid, Evaluations, IInv
  <1>2. op \in Requests /\ Follows(DOMAIN live, op)
    BY <1>1, IdsInUse, LegalFollows
  <1>3. PICK S : InUse(heap, blocks, live, S)
    BY <1>1 DEF IInv, BlocksHeld
  <1>4. PICK r, rs : r = Result(op) /\ (ValidBlock(op, r, rs) \/ ValidFree(op, r, rs))
    BY DEF Valid
  <1>5. /\ r.heap \in Heaps
        /\ op.type = "free" =>
              \E T : /\ InUse(r.heap, blocks, Served(op), T)
                     /\ Kept(heap, r.heap, S, Held(blocks, DOMAIN live \ {op.index}))
        /\ op.type # "free" /\ r.ptr # NULL =>
              \E T : Granted(heap, blocks, live, S, op.index, op.size, r, T)
    BY <1>1, <1>2, <1>3, <1>4, RequestServed
  <1>6. ASSUME NEW g, Kept(heap, g, S, Held(blocks, DOMAIN live \ {id})), NEW k \in DOMAIN live \ {id}
        PROVE  Carried(heap, g, blocks[k], blocks[k], live[k])
    <2> HIDE DEF id
    <2> QED
      BY <1>3, <1>6, KeptWords
  <1>7. CASE ValidFree(op, r, rs)
    <2>1. op.type = "free" /\ heap' = r.heap /\ live' = Served(op) /\ blocks' = blocks
      BY <1>7 DEF ValidFree
    <2>2. PICK T : /\ InUse(heap', blocks', live', T)
                   /\ Kept(heap, heap', S, Held(blocks, DOMAIN live \ {id}))
      BY <1>5, <2>1
    <2>3. \A k \in DOMAIN live \ {id} : Carried(heap, heap', blocks[k], blocks[k], live[k])
      BY <1>6, <2>2
    <2> QED
      BY <1>2, <1>5, <2>1, <2>2, <2>3 DEF Transferred
  <1>8. CASE ValidBlock(op, r, rs)
    <2>1. /\ op.type # "free" /\ r.ptr # NULL
          /\ heap' = memset(r.heap, r.ptr, n, id)
          /\ blocks' = With(blocks, id, r.ptr)
          /\ live' = Served(op)
      BY <1>8 DEF ValidBlock, Verdict
    <2>2. live' = With(live, id, n)
      BY <2>1 DEF Served
    <2>3. PICK T : Granted(heap, blocks, live, S, id, n, r, T)
      BY <1>5, <2>1
    <2>4. id \in Int
      <3>1. id \in Ids
        BY <1>2 DEF Requests
      <3> HIDE DEF id
      <3> QED
        BY <3>1, DriverAssumption
    <2>5. /\ id \in DOMAIN live' /\ live'[id] = n /\ blocks'[id] = r.ptr
          /\ \A k \in DOMAIN live \ {id} : /\ k \in DOMAIN live' /\ live'[k] = live[k]
                                           /\ blocks'[k] = blocks[k]
      BY <1>3, <2>1, <2>2 DEF With, InUse
    <2> HIDE DEF id, n
    <2>6. InUse(r.heap, blocks', live', T) /\ Kept(heap, r.heap, S, Held(blocks, DOMAIN live \ {id}))
      BY <2>1, <2>2, <2>3 DEF Granted
    <2> DEFINE h == r.heap
               bs == blocks'
               lv == live'
               g == heap'
    <2>7. InUse(h, bs, lv, T) /\ id \in DOMAIN lv /\ g = memset(h, bs[id], lv[id], id)
      BY <2>1, <2>5, <2>6
    <2> HIDE DEF h, bs, lv, g
    <2>8. /\ InUse(g, bs, lv, T)
          /\ Kept(h, g, T, Held(bs, DOMAIN lv \ {id}))
          /\ Filled(g, bs[id], lv[id], id)
      BY <2>4, <2>7, Filling
    <2>9. g \in Heaps
      BY <2>8 DEF InUse, Quiet, Sound
    <2>10. ASSUME NEW k \in DOMAIN live \ {id}
           PROVE  Carried(heap, g, blocks[k], blocks[k], live[k])
      <3>1. k \in DOMAIN lv \ {id} /\ bs[k] = blocks[k] /\ lv[k] = live[k]
        BY <2>5 DEF bs, lv
      <3>2. Carried(heap, h, blocks[k], blocks[k], live[k])
        BY <1>6, <2>6 DEF h, id
      <3>3. Carried(h, g, bs[k], bs[k], lv[k])
        BY <2>7, <2>8, <3>1, KeptWords
      <3> DEFINE p == blocks[k]
                 m == live[k]
      <3>4. Carried(heap, h, p, p, m) /\ Carried(h, g, p, p, m)
        BY <3>1, <3>2, <3>3
      <3> HIDE DEF p, m
      <3>5. Carried(heap, g, p, p, m)
        BY <3>4, CarriedTwice
      <3> QED
        BY <3>5 DEF p, m
    <2>11. ASSUME op.type = "realloc"
           PROVE  Carried(heap, g, blocks[id], bs[id], Smaller(n, live[id]))
      <3>1. id \in DOMAIN live /\ n \in Nat
        BY <1>2, <2>11 DEF Follows, Requests, id, n
      <3> DEFINE p == blocks[id]
                 q == bs[id]
                 m == live[id]
      <3>2. Filled(heap, p, m, id) /\ m \in Nat
        BY <1>1, <1>3, <3>1 DEF IInv, DataKept, InUse
      <3>3. Filled(g, q, n, id)
        BY <2>5, <2>8 DEF lv
      <3> HIDE DEF p, q, m
      <3>4. Carried(heap, g, p, q, Smaller(n, m))
        BY <3>1, <3>2, <3>3 DEF Filled, Carried, Smaller
      <3> QED
        BY <3>4 DEF p, q, m
    <2>12. Transferred(op)
      BY <2>1, <2>5, <2>8, <2>10, <2>11 DEF Transferred, bs, lv, g, id, n
    <2> QED
      BY <1>2, <2>8, <2>9, <2>12 DEF bs, lv, g, id
  <1> QED
    BY <1>4, <1>7, <1>8

(* A request of the validity run keeps the invariant.                      *)
LEMMA ValidKeeps ==
  ASSUME IInv, NEW op \in Legal, Valid(op)
  PROVE  IInv'
  <1>1. pc = "valid" /\ pc \in Evaluations /\ heap \in Heaps
    BY DEF Valid, Evaluations, IInv
  <1>2. op \in Requests /\ Follows(DOMAIN live, op)
    BY <1>1, IdsInUse, LegalFollows
  <1>3. /\ trace \in Seq(Requests) /\ i = Len(trace)
        /\ trace' = Append(trace, op) /\ i' = i + 1
    BY <1>1 DEF IInv, TraceKept, Valid
  <1>4. PICK use \in [0 .. Len(trace) -> SUBSET Ids] : Replayable(trace, use) /\ DOMAIN live = use[i]
    BY <1>1 DEF IInv, TraceKept
  <1>5. PICK used \in [0 .. Len(trace) + 1 -> SUBSET Ids] :
            Replayable(trace', used) /\ used[Len(trace) + 1] = Uses(DOMAIN live, op)
    BY <1>2, <1>3, <1>4, TraceExtended
  <1>6. trace' \in Seq(Requests) /\ Len(trace') = Len(trace) + 1 /\ Len(trace) \in Nat
    BY <1>2, <1>3, AppendProperties, LenProperties
  <1>7. CASE pc' = "valid"
    <2>1. /\ heap' \in Heaps /\ Transferred(op)
          /\ op.type # "free" => Filled(heap', blocks'[op.index], live'[op.index], op.index)
      BY <1>7, ValidTransfers
    <2>2. TraceKept'
      <3>1. DOMAIN live' = used[i']
        BY <1>3, <1>5, <2>1, ServedIds DEF Transferred
      <3>2. i' \in 0 .. Len(trace') /\ i' = Len(trace')
        BY <1>3, <1>6
      <3> QED
        BY <1>5, <1>6, <3>1, <3>2 DEF TraceKept
    <2>3. DataKept'
      <3> SUFFICES ASSUME NEW k \in DOMAIN live' PROVE Filled(heap', blocks'[k], live'[k], k)
        BY DEF DataKept
      <3>1. live' = Served(op)
        BY <2>1 DEF Transferred
      <3>2. CASE k = op.index
        <4>1. op.type # "free"
          BY <3>1, <3>2 DEF Served, Without
        <4> QED
          BY <2>1, <3>2, <4>1
      <3>3. CASE k # op.index
        <4>1. k \in DOMAIN live \ {op.index} /\ live'[k] = live[k]
          BY <3>1, <3>3 DEF Served, With, Without
        <4>2. blocks'[k] = blocks[k] /\ Carried(heap, heap', blocks[k], blocks[k], live[k])
          BY <2>1, <4>1 DEF Transferred
        <4> DEFINE p == blocks[k]
                   m == live[k]
        <4>3. Filled(heap, p, m, k) /\ Carried(heap, heap', p, p, m)
          BY <1>1, <4>1, <4>2 DEF IInv, DataKept
        <4> HIDE DEF p, m
        <4>4. Filled(heap', p, m, k)
          BY <4>3, FilledCarried
        <4> QED
          BY <4>1, <4>2, <4>4 DEF p, m
      <3> QED
        BY <3>2, <3>3
    <2> QED
      BY <2>1, <2>2, <2>3 DEF IInv, BlocksHeld, Transferred
  <1>8. CASE pc' # "valid"
    <2>1. PICK S : InUse(heap, blocks, live, S)
      BY <1>1 DEF IInv, BlocksHeld
    <2>2. PICK r, rs : r = Result(op) /\ (ValidBlock(op, r, rs) \/ ValidFree(op, r, rs))
      BY DEF Valid
    <2>3. r.heap \in Heaps
      BY <1>1, <1>2, <2>1, <2>2, RequestServed
    <2>4. heap' = r.heap /\ pc' \notin Evaluations
      BY <1>1, <1>8, <2>2 DEF ValidBlock, ValidFree, Evaluations
    <2> QED
      BY <1>6, <2>3, <2>4, OutsideEvaluations
  <1> QED
    BY <1>7, <1>8

(* A request of the trace, when it is run again.                           *)
LEMMA Replayed ==
  ASSUME IInv, pc \in {"util", "speed"}, i < Len(trace), NEW op, op = trace[i + 1]
  PROVE  op \in Requests /\ Follows(DOMAIN live, op)
  <1>1. pc \in Evaluations
    BY DEF Evaluations
  <1>2. trace \in Seq(Requests) /\ i \in 0 .. Len(trace)
    BY <1>1 DEF IInv, TraceKept
  <1>3. PICK use \in [0 .. Len(trace) -> SUBSET Ids] : Replayable(trace, use) /\ DOMAIN live = use[i]
    BY <1>1 DEF IInv, TraceKept
  <1>4. i + 1 \in 1 .. Len(trace) /\ (i + 1) - 1 = i
    BY <1>2, LenProperties
  <1> QED
    BY <1>2, <1>3, <1>4, ElementOfSeq DEF Replayable

(* So does a request of a later run, which replays the trace.              *)
LEMMA ReplayTransfers ==
  ASSUME IInv, pc \in {"util", "speed"}, i < Len(trace), NEW op, op = trace[i + 1],
         NEW r, r = Result(op), Replay(op, r), pc' \in Evaluations
  PROVE  Transferred(op) /\ i' = i + 1 /\ pc' = pc
  <1> DEFINE id == op.index
             n == op.size
  <1>1. pc \in Evaluations /\ heap \in Heaps
    BY DEF Evaluations, IInv
  <1>2. op \in Requests /\ Follows(DOMAIN live, op)
    BY Replayed
  <1>3. PICK S : InUse(heap, blocks, live, S)
    BY <1>1 DEF IInv, BlocksHeld
  <1>4. /\ op.type = "free" =>
              \E T : /\ InUse(r.heap, blocks, Served(op), T)
                     /\ Kept(heap, r.heap, S, Held(blocks, DOMAIN live \ {op.index}))
        /\ op.type # "free" /\ r.ptr # NULL =>
              \E T : /\ Granted(heap, blocks, live, S, op.index, op.size, r, T)
                     /\ op.type = "realloc" =>
                           Carried(heap, r.heap, blocks[op.index], r.ptr,
                                   Smaller(op.size, S[blocks[op.index]] - 8))
    BY <1>1, <1>2, <1>3, RequestServed
  <1>5. /\ r.ptr # NULL \/ op.type = "free"
        /\ heap' = r.heap /\ i' = i + 1 /\ live' = Served(op) /\ pc' = pc
        /\ blocks' = IF op.type # "free" THEN With(blocks, id, r.ptr) ELSE blocks
    BY DEF Replay, Quit, Evaluations
  <1>6. ASSUME Kept(heap, heap', S, Held(blocks, DOMAIN live \ {id})), NEW k \in DOMAIN live \ {id}
        PROVE  Carried(heap, heap', blocks[k], blocks[k], live[k])
    <2> DEFINE g == heap'
    <2> HIDE DEF id, g
    <2> QED
      BY <1>3, <1>6, KeptWords DEF g
  <1>7. CASE op.type = "free"
    <2>1. PICK T : /\ InUse(heap', blocks', live', T)
                   /\ Kept(heap, heap', S, Held(blocks, DOMAIN live \ {id}))
      BY <1>4, <1>5, <1>7
    <2>2. \A k \in DOMAIN live \ {id} : Carried(heap, heap', blocks[k], blocks[k], live[k])
      BY <1>6, <2>1
    <2> QED
      BY <1>5, <1>7, <2>1, <2>2 DEF Transferred
  <1>8. CASE op.type # "free"
    <2>1. live' = With(live, id, n) /\ blocks' = With(blocks, id, r.ptr)
      BY <1>5, <1>8 DEF Served
    <2>2. PICK T : /\ Granted(heap, blocks, live, S, id, n, r, T)
                   /\ op.type = "realloc" =>
                        Carried(heap, r.heap, blocks[id], r.ptr, Smaller(n, S[blocks[id]] - 8))
      BY <1>4, <1>5, <1>8
    <2>3. /\ InUse(heap', blocks', live', T)
          /\ Kept(heap, heap', S, Held(blocks, DOMAIN live \ {id}))
      BY <1>5, <2>1, <2>2 DEF Granted
    <2>4. \A k \in DOMAIN live \ {id} :
             blocks'[k] = blocks[k] /\ Carried(heap, heap', blocks[k], blocks[k], live[k])
      BY <1>3, <1>6, <2>1, <2>3 DEF With, InUse
    <2>5. ASSUME op.type = "realloc"
          PROVE  Carried(heap, heap', blocks[id], blocks'[id], Smaller(n, live[id]))
      <3>1. id \in DOMAIN live /\ n \in Nat
        BY <1>2, <2>5 DEF Follows, Requests
      <3> DEFINE p == blocks[id]
                 q == r.ptr
                 m == live[id]
                 s == S[p]
                 g == r.heap
      <3>2. blocks'[id] = q
        BY <2>1 DEF With
      <3>3. Carried(heap, g, p, q, Smaller(n, s - 8))
        BY <2>2, <2>5
      <3>4. m \in Nat /\ m + 8 <= s /\ s \in Nat
        <4>1. /\ m \in Nat /\ m + 8 <= s
              /\ Layout(S, heap.brk) /\ p \in DOMAIN S
          BY <1>3, <3>1 DEF InUse, Quiet, Sound, Held
        <4>2. \A b \in DOMAIN S : S[b] \in Nat
          BY <4>1, Blocks
        <4> QED
          BY <4>1, <4>2
      <3> HIDE DEF id, n, p, q, m, s, g
      <3>5. Carried(heap, g, p, q, Smaller(n, m))
        BY <3>1, <3>3, <3>4 DEF Carried, Smaller
      <3> QED
        BY <1>5, <3>2, <3>5 DEF p, q, m, g
    <2> QED
      BY <1>5, <2>3, <2>4, <2>5 DEF Transferred
  <1> QED
    BY <1>5, <1>7, <1>8

(* A request of a later run keeps the invariant.                           *)
LEMMA ReplayKeeps ==
  ASSUME IInv, pc \in {"util", "speed"}, i < Len(trace), NEW op, op = trace[i + 1],
         NEW r, r = Result(op), Replay(op, r)
  PROVE  IInv'
  <1>1. pc \in Evaluations /\ pc # "valid" /\ heap \in Heaps
    BY DEF Evaluations, IInv
  <1>2. trace \in Seq(Requests) /\ i \in 0 .. Len(trace)
    BY <1>1 DEF IInv, TraceKept
  <1>3. PICK use \in [0 .. Len(trace) -> SUBSET Ids] : Replayable(trace, use) /\ DOMAIN live = use[i]
    BY <1>1 DEF IInv, TraceKept
  <1>4. i + 1 \in 1 .. Len(trace) /\ Len(trace) \in Nat
    BY <1>2, LenProperties
  <1>5. op \in Requests /\ Follows(DOMAIN live, op)
    BY Replayed
  <1>6. use[i + 1] = Uses(DOMAIN live, op)
    <2>1. (i + 1) - 1 = i
      BY <1>2
    <2> QED
      BY <1>3, <1>4, <2>1 DEF Replayable
  <1>7. heap' = r.heap /\ trace' = trace /\ r.heap \in Heaps
    <2>1. PICK S : InUse(heap, blocks, live, S)
      BY <1>1 DEF IInv, BlocksHeld
    <2>2. r.heap \in Heaps
      BY <1>1, <1>5, <2>1, RequestServed
    <2> QED
      BY <2>2 DEF Replay
  <1>8. CASE pc' \notin Evaluations
    BY <1>2, <1>7, <1>8, OutsideEvaluations
  <1>9. CASE pc' \in Evaluations
    <2>1. Transferred(op) /\ i' = i + 1 /\ pc' = pc
      BY <1>9, ReplayTransfers
    <2>2. DOMAIN live' = use[i']
      BY <1>6, <2>1, ServedIds DEF Transferred
    <2>3. TraceKept'
      BY <1>1, <1>2, <1>3, <1>4, <1>7, <2>1, <2>2 DEF TraceKept
    <2> QED
      BY <1>1, <1>7, <2>1, <2>3 DEF IInv, BlocksHeld, DataKept, Transferred
  <1> QED
    BY <1>8, <1>9

(* Every step keeps the invariant.                                         *)
LEMMA NextKeeps == IInv /\ [Next]_vars => IInv'
  <1> SUFFICES ASSUME IInv, [Next]_vars PROVE IInv'
    OBVIOUS
  <1>1. heap \in Heaps /\ trace \in Seq(Requests)
    BY DEF IInv, TraceKept
  <1>2. ASSUME heap' = heap, trace' = trace, pc' \notin Evaluations PROVE IInv'
    BY <1>1, <1>2, OutsideEvaluations
  <1>3. CASE Option
    BY <1>2, <1>3 DEF Option, usage, Quit, Evaluations, evalVars
  <1>4. CASE StartUp
    BY <1>2, <1>4 DEF StartUp, Evaluations, evalVars
  <1>5. CASE read_trace_fails
    BY <1>2, <1>5 DEF read_trace_fails, Quit, Evaluations, evalVars
  <1>6. CASE LibcPass
    BY <1>2, <1>6 DEF LibcPass, RunLibc, eval_libc_valid, eval_libc_speed, Begin, Quit,
                      Evaluations, evalVars
  <1>7. CASE RunMM
    BY <1>2, <1>7 DEF RunMM, Begin, Evaluations, evalVars
  <1>8. CASE BeginValid
    <2>1. /\ heap' = mm_init(mem_reset_brk(heap)) /\ pc' = "valid" /\ pc' \in Evaluations
          /\ i' = 0 /\ live' = <<>> /\ trace' = <<>>
      BY <1>8 DEF BeginValid, Evaluations
    <2>2. <<>> \in Seq(Requests) /\ Len(<<>>) = 0
      OBVIOUS
    <2>3. \E use \in [0 .. Len(<<>>) -> SUBSET Ids] : Replayable(<<>>, use)
      <3> DEFINE use == [k \in 0 .. 0 |-> {}]
      <3>1. use \in [0 .. Len(<<>>) -> SUBSET Ids]
        BY <2>2
      <3>2. Replayable(<<>>, use)
        BY <2>2 DEF Replayable
      <3> QED
        BY <3>1, <3>2
    <2> QED
      BY <2>1, <2>2, <2>3, EvaluationBegins
  <1>9. CASE \E op \in Legal : Valid(op)
    BY <1>9, ValidKeeps
  <1>10. CASE BeginUtil \/ BeginSpeed
    <2>1. /\ pc \in Evaluations
          /\ heap' = mm_init(mem_reset_brk(heap)) /\ pc' \in Evaluations /\ pc' # "valid"
          /\ i' = 0 /\ live' = <<>> /\ trace' = trace
      BY <1>10 DEF BeginUtil, BeginSpeed, Rerun, Evaluations, evalVars
    <2>2. \E use \in [0 .. Len(trace) -> SUBSET Ids] : Replayable(trace, use)
      BY <2>1 DEF IInv, TraceKept
    <2> QED
      BY <1>1, <2>1, <2>2, EvaluationBegins
  <1>11. CASE EndTrace
    BY <1>2, <1>11 DEF EndTrace, Evaluations, evalVars
  <1>12. CASE Util
    BY <1>12, ReplayKeeps DEF Util
  <1>13. CASE Speed
    BY <1>13, ReplayKeeps DEF Speed
  <1>14. CASE Score
    BY <1>2, <1>14 DEF Score, Evaluations, evalVars
  <1>15. CASE UNCHANGED vars
    BY <1>15 DEF vars, evalVars, IInv, BlocksHeld, TraceKept, DataKept
  <1> QED
    BY <1>3, <1>4, <1>5, <1>6, <1>7, <1>8, <1>9, <1>10, <1>11, <1>12, <1>13, <1>14, <1>15 DEF Next

(* The blocks the driver holds are, between two requests, the blocks in    *)
(* use of a well laid out heap, whatever mm_malloc, mm_realloc and mm_free *)
(* were asked for; a trace that passed eval_mm_valid can be run again.     *)
THEOREM IInvHolds == Spec => []IInv
  BY InitInvariant, NextKeeps, PTL DEF Spec

----------------------------------------------------------------------------
(* The heap, walked from block to block *)

(* One step of the walk through the heap, and the walk, as in HeapBlocks.  *)
Stride(h, b) == IF b >= h.brk \/ GET_SIZE(h, HDRP(b)) = 0 THEN b ELSE NEXT_BLKP(h, b)

StrideFrom(h) == [bp \in Int |-> IF bp >= h.brk \/ GET_SIZE(h, HDRP(bp)) = 0 THEN bp
                                 ELSE NEXT_BLKP(h, bp)]

WalkEquation(h, f) == f = [k \in Nat |-> IF k = 0 THEN 4 * WSIZE ELSE StrideFrom(h)[f[k - 1]]]

Walk(h) == CHOOSE f : WalkEquation(h, f)

(* The definition of HeapBlocks, with the walk named.                      *)
LEMMA BlocksUnfolded == HeapBlocks = {Walk(heap)[k] : k \in 0 .. MAX_HEAP \div MIN_BLOCK_SIZE}
  BY DEF HeapBlocks, Walk, WalkEquation, StrideFrom

(* The first strides of the walk.                                          *)
Strides(h, m, f) == /\ f \in [0 .. m -> Int]
                    /\ f[0] = 16
                    /\ \A k \in 1 .. m : f[k] = Stride(h, f[k - 1])

(* In a well laid out heap, a stride leads from a block to the next one.   *)
LEMMA StrideLands ==
  ASSUME NEW h, NEW S, Layout(S, h.brk), NEW U, Tagged(h, S, U, {})
  PROVE  /\ Stride(h, h.brk) = h.brk
         /\ \A b \in DOMAIN S : Stride(h, b) = b + S[b] /\ b + S[b] \in DOMAIN S \cup {h.brk}
  <1>1. h.brk \in Nat
    BY DEF Layout, Aligned
  <1>2. ASSUME NEW b \in DOMAIN S
        PROVE  Stride(h, b) = b + S[b] /\ b + S[b] \in DOMAIN S \cup {h.brk}
    <2>1. b \in Nat /\ S[b] \in Nat /\ 16 <= S[b] /\ b + S[b] <= h.brk
      BY Blocks
    <2>2. GET_SIZE(h, HDRP(b)) = S[b] /\ NEXT_BLKP(h, b) = b + S[b]
      BY TagsRead
    <2> QED
      BY <1>1, <2>1, <2>2 DEF Stride, Layout
  <1> QED
    BY <1>1, <1>2 DEF Stride

(* The walk over the headers meets blocks, then the epilogue.              *)
LEMMA StridesLand ==
  ASSUME NEW h, NEW S, Layout(S, h.brk), NEW U, Tagged(h, S, U, {}),
         NEW m \in Nat, NEW f, Strides(h, m, f)
  PROVE  \A k \in 0 .. m : f[k] \in DOMAIN S \cup {h.brk}
  <1> DEFINE Bad == {k \in 0 .. m : f[k] \notin DOMAIN S \cup {h.brk}}
  <1>1. SUFFICES ASSUME Bad # {} PROVE FALSE
    OBVIOUS
  <1> DEFINE k == Min(Bad)
  <1>2. k \in Bad /\ \A j \in Bad : k <= j
    <2>1. Bad \subseteq Nat
      OBVIOUS
    <2> HIDE DEF Bad
    <2> QED
      BY <1>1, <2>1, MinIsLeast
  <1> HIDE DEF k
  <1>3. k # 0
    BY <1>2 DEF Strides, Layout
  <1>4. k \in 1 .. m /\ k - 1 \in 0 .. m /\ k - 1 \notin Bad
    BY <1>2, <1>3
  <1>5. f[k - 1] \in DOMAIN S \cup {h.brk} /\ f[k] = Stride(h, f[k - 1])
    BY <1>4 DEF Strides
  <1>6. f[k] \in DOMAIN S \cup {h.brk}
    BY <1>5, StrideLands
  <1> QED
    BY <1>2, <1>6

(* There is one walk.                                                      *)
LEMMA StridesUnique ==
  ASSUME NEW h, NEW m \in Nat, NEW n \in Nat, NEW f, NEW g, Strides(h, m, f), Strides(h, n, g), m <= n
  PROVE  \A k \in 0 .. m : f[k] = g[k]
  <1> DEFINE Bad == {k \in 0 .. m : f[k] # g[k]}
  <1>1. SUFFICES ASSUME Bad # {} PROVE FALSE
    OBVIOUS
  <1> DEFINE k == Min(Bad)
  <1>2. k \in Bad /\ \A j \in Bad : k <= j
    <2>1. Bad \subseteq Nat
      OBVIOUS
    <2> HIDE DEF Bad
    <2> QED
      BY <1>1, <2>1, MinIsLeast
  <1> HIDE DEF k
  <1>3. k # 0
    BY <1>2 DEF Strides
  <1>4. k \in 1 .. m /\ k \in 1 .. n /\ k - 1 \in 0 .. m /\ k - 1 \notin Bad
    BY <1>2, <1>3
  <1>5. f[k - 1] = g[k - 1] /\ f[k] = Stride(h, f[k - 1]) /\ g[k] = Stride(h, g[k - 1])
    BY <1>4 DEF Strides
  <1> QED
    BY <1>2, <1>5

(* The walk can always go on.                                              *)
LEMMA StridesExist ==
  ASSUME NEW h, NEW S, Layout(S, h.brk), NEW U, Tagged(h, S, U, {})
  PROVE  \A m \in Nat : \E f : Strides(h, m, f)
  <1> DEFINE Bad == {m \in Nat : ~\E f : Strides(h, m, f)}
  <1>1. SUFFICES ASSUME Bad # {} PROVE FALSE
    OBVIOUS
  <1> DEFINE m == Min(Bad)
  <1>2. m \in Bad /\ \A j \in Bad : m <= j
    <2>1. Bad \subseteq Nat
      OBVIOUS
    <2> HIDE DEF Bad
    <2> QED
      BY <1>1, <2>1, MinIsLeast
  <1> HIDE DEF m
  <1>3. m # 0
    <2>1. Strides(h, 0, [k \in 0 .. 0 |-> 16])
      BY DEF Strides
    <2> QED
      BY <1>2, <2>1
  <1>4. m \in Nat /\ m - 1 \in Nat /\ m - 1 \notin Bad
    BY <1>2, <1>3
  <1>5. PICK f : Strides(h, m - 1, f)
    BY <1>4
  <1>6. f[m - 1] \in DOMAIN S \cup {h.brk}
    BY <1>4, <1>5, StridesLand
  <1>7. Stride(h, f[m - 1]) \in Int
    <2>1. \A b \in DOMAIN S \cup {h.brk} : b \in Int
      BY Blocks DEF Layout, Aligned
    <2>2. Stride(h, f[m - 1]) \in DOMAIN S \cup {h.brk}
      BY <1>6, StrideLands
    <2> QED
      BY <2>1, <2>2
  <1> DEFINE g == [k \in 0 .. m |-> IF k = m THEN Stride(h, f[m - 1]) ELSE f[k]]
  <1>8. g \in [0 .. m -> Int]
    BY <1>4, <1>5, <1>7 DEF Strides
  <1>9. g[0] = 16
    BY <1>3, <1>4, <1>5 DEF Strides
  <1>10. \A k \in 1 .. m : g[k] = Stride(h, g[k - 1])
    <2> TAKE k \in 1 .. m
    <2>1. g[k - 1] = f[k - 1]
      BY <1>4
    <2>2. CASE k = m
      BY <1>4, <2>1, <2>2
    <2>3. CASE k # m
      <3>1. k \in 1 .. m - 1 /\ g[k] = f[k]
        BY <1>4, <2>3
      <3> QED
        BY <1>5, <2>1, <3>1 DEF Strides
    <2> QED
      BY <2>2, <2>3
  <1>11. Strides(h, m, g)
    BY <1>8, <1>9, <1>10 DEF Strides
  <1> QED
    BY <1>2, <1>11

(* The walk of HeapBlocks exists.                                          *)
LEMMA WalkFound ==
  ASSUME NEW h, NEW S, Layout(S, h.brk), NEW U, Tagged(h, S, U, {})
  PROVE  /\ Walk(h)[0] = 16
         /\ \A k \in Nat : Walk(h)[k + 1] = Stride(h, Walk(h)[k])
  <1> DEFINE upto(m) == CHOOSE f : Strides(h, m, f)
             W == [k \in Nat |-> upto(k)[k]]
  <1>1. \A m \in Nat : Strides(h, m, upto(m))
    BY StridesExist
  <1>2. W[0] = 16
    BY <1>1 DEF Strides
  <1>3. ASSUME NEW k \in Nat, k # 0 PROVE W[k] = Stride(h, W[k - 1])
    <2>1. k - 1 \in Nat /\ k \in 1 .. k /\ k - 1 \in 0 .. k - 1 /\ k - 1 <= k
      BY <1>3
    <2>2. Strides(h, k - 1, upto(k - 1)) /\ Strides(h, k, upto(k))
      BY <1>1, <2>1
    <2> HIDE DEF upto
    <2>3. upto(k - 1)[k - 1] = upto(k)[k - 1]
      BY <2>1, <2>2, StridesUnique
    <2>4. upto(k)[k] = Stride(h, upto(k)[k - 1])
      BY <2>1, <2>2 DEF Strides
    <2> QED
      BY <2>1, <2>3, <2>4
  <1>10. ASSUME NEW k \in Nat, k # 0 PROVE StrideFrom(h)[W[k - 1]] = Stride(h, W[k - 1])
    <2>1. k - 1 \in Nat
      BY <1>10
    <2>2. Strides(h, k - 1, upto(k - 1)) /\ k - 1 \in 0 .. k - 1
      BY <1>1, <2>1
    <2> HIDE DEF upto
    <2>3. upto(k - 1)[k - 1] \in Int
      BY <2>2 DEF Strides
    <2>4. W[k - 1] \in Int
      BY <2>1, <2>3
    <2> HIDE DEF W
    <2> QED
      BY <2>4 DEF StrideFrom, Stride
  <1> DEFINE V == [k \in Nat |-> IF k = 0 THEN 4 * WSIZE ELSE StrideFrom(h)[W[k - 1]]]
  <1>4. W = V
    <2>1. ASSUME NEW k \in Nat PROVE W[k] = V[k]
      <3>1. CASE k = 0
        BY <1>2, <3>1 DEF WSIZE
      <3>2. CASE k # 0
        <4>1. W[k] = Stride(h, W[k - 1]) /\ StrideFrom(h)[W[k - 1]] = Stride(h, W[k - 1])
          BY <1>3, <1>10, <3>2
        <4> HIDE DEF W
        <4> QED
          BY <3>2, <4>1
      <3> QED
        BY <3>1, <3>2
    <2> HIDE DEF upto
    <2> QED
      BY <2>1
  <1>5. WalkEquation(h, W)
    <2> HIDE DEF W
    <2> QED
      BY <1>4 DEF WalkEquation
  <1> HIDE DEF W
  <1>6. WalkEquation(h, Walk(h))
    BY <1>5 DEF Walk
  <1> DEFINE w == Walk(h)
  <1>11. \A k \in Nat : w[k] = W[k]
    <2> HIDE DEF w
    <2>1. \A k \in Nat : w[k] = IF k = 0 THEN 4 * WSIZE ELSE StrideFrom(h)[w[k - 1]]
      BY <1>6, Zenon DEF w, WalkEquation
    <2>2. \A k \in Nat : W[k] = IF k = 0 THEN 4 * WSIZE ELSE StrideFrom(h)[W[k - 1]]
      BY <1>5, Zenon DEF WalkEquation
    <2> DEFINE bad == {k \in Nat : w[k] # W[k]}
    <2>3. SUFFICES ASSUME bad # {} PROVE FALSE
      OBVIOUS
    <2> DEFINE m == Min(bad)
    <2>4. m \in bad /\ \A k \in bad : m <= k
      BY <2>3, MinIsLeast
    <2> HIDE DEF m
    <2>5. m # 0
      BY <2>1, <2>2, <2>4
    <2>6. m - 1 \in Nat /\ m - 1 \notin bad
      BY <2>4, <2>5
    <2> QED
      BY <2>1, <2>2, <2>4, <2>5, <2>6
  <1>7. \A k \in Nat : w[k] = IF k = 0 THEN 4 * WSIZE ELSE Stride(h, w[k - 1])
    <2> TAKE k \in Nat
    <2>1. CASE k = 0
      BY <1>2, <1>11, <2>1 DEF WSIZE
    <2>2. CASE k # 0
      <3>1. k - 1 \in Nat
        BY <2>2
      <3> HIDE DEF w
      <3> QED
        BY <1>3, <1>11, <2>2, <3>1
    <2> QED
      BY <2>1, <2>2
  <1> HIDE DEF w
  <1>8. w[0] = 16
    BY <1>7 DEF WSIZE
  <1>9. \A k \in Nat : w[k + 1] = Stride(h, w[k])
    <2> TAKE k \in Nat
    <2>1. k + 1 \in Nat /\ k + 1 # 0 /\ (k + 1) - 1 = k
      OBVIOUS
    <2> QED
      BY <1>7, <2>1
  <1> QED
    BY <1>8, <1>9 DEF w

(* The walk meets the blocks and the epilogue, and nothing else.           *)
LEMMA WalkMeets ==
  ASSUME NEW h, NEW S, Layout(S, h.brk), NEW U, Tagged(h, S, U, {})
  PROVE  {Walk(h)[k] : k \in 0 .. MAX_HEAP \div MIN_BLOCK_SIZE} = DOMAIN S \cup {h.brk}
  <1> DEFINE w == Walk(h)
             D == DOMAIN S \cup {h.brk}
             M == MAX_HEAP \div 16
             At(b) == \E k \in 0 .. M : w[k] = b /\ 16 * k + 16 <= b
             Missed == {b \in D : ~At(b)}
  <1>1. w[0] = 16 /\ \A k \in Nat : w[k + 1] = Stride(h, w[k])
    BY WalkFound
  <1> HIDE DEF w
  <1>2. \A b \in D : b \in Nat /\ 16 <= b /\ b <= MAX_HEAP
    <2>1. h.brk \in Nat /\ 16 <= h.brk /\ h.brk <= MAX_HEAP
      BY DEF Layout, Aligned
    <2>2. \A b \in DOMAIN S : b \in Nat /\ 16 <= b /\ S[b] \in Nat /\ b + S[b] <= h.brk
      BY Blocks
    <2> QED
      BY <2>1, <2>2, MaxHeap
  <1>3. \A b \in D : Stride(h, b) \in D
    BY StrideLands
  <1>4. \A k \in Nat : w[k] \in D
    <2> DEFINE Bad == {k \in Nat : w[k] \notin D}
    <2>1. SUFFICES ASSUME Bad # {} PROVE FALSE
      OBVIOUS
    <2> DEFINE k == Min(Bad)
    <2>2. k \in Bad /\ \A j \in Bad : k <= j
      <3>1. Bad \subseteq Nat
        OBVIOUS
      <3> HIDE DEF Bad
      <3> QED
        BY <2>1, <3>1, MinIsLeast
    <2> HIDE DEF k
    <2>3. k # 0
      BY <1>1, <2>2 DEF Layout
    <2>4. k - 1 \in Nat /\ k - 1 \notin Bad /\ (k - 1) + 1 = k
      BY <2>2, <2>3
    <2>5. w[k] = Stride(h, w[k - 1])
      BY <1>1, <2>4
    <2> QED
      BY <1>3, <2>2, <2>4, <2>5
  <1>5. Missed = {}
    <2>1. SUFFICES ASSUME Missed # {} PROVE FALSE
      OBVIOUS
    <2> DEFINE c == Min(Missed)
    <2>2. c \in Missed /\ \A b \in Missed : c <= b
      <3>1. Missed \subseteq Nat
        BY <1>2
      <3> HIDE DEF Missed
      <3> QED
        BY <2>1, <3>1, MinIsLeast
    <2> HIDE DEF c
    <2>3. M \in Nat /\ 16 * M <= MAX_HEAP /\ MAX_HEAP < 16 * M + 16
      BY MaxHeap
    <2> HIDE DEF M
    <2>4. c # 16
      BY <1>1, <2>2, <2>3
    <2>5. PICK b \in DOMAIN S : b + S[b] = c
      BY <2>2, <2>4 DEF Layout
    <2>6. b \in Nat /\ S[b] \in Nat /\ 16 <= S[b]
      BY Blocks
    <2>7. b \notin Missed
      BY <1>2, <2>2, <2>5, <2>6
    <2>8. PICK k \in 0 .. M : w[k] = b /\ 16 * k + 16 <= b
      BY <2>7
    <2>9. w[k + 1] = c
      BY <1>1, <2>3, <2>5, <2>8, StrideLands
    <2>10. 16 * (k + 1) + 16 <= c /\ c <= MAX_HEAP /\ c \in Nat
      BY <1>2, <2>2, <2>3, <2>5, <2>6, <2>8
    <2>11. k + 1 \in 0 .. M
      BY <2>3, <2>8, <2>10, MaxHeap
    <2> QED
      BY <2>2, <2>9, <2>10, <2>11
  <1>6. MAX_HEAP \div MIN_BLOCK_SIZE = M /\ M \in Nat
    BY MaxHeap DEF MIN_BLOCK_SIZE
  <1> HIDE DEF M
  <1>7. {w[k] : k \in 0 .. M} = D
    <2>1. ASSUME NEW b \in D PROVE b \in {w[k] : k \in 0 .. M}
      BY <1>5
    <2>2. ASSUME NEW k \in 0 .. M PROVE w[k] \in D
      BY <1>4, <1>6
    <2> QED
      BY <2>1, <2>2
  <1> QED
    BY <1>6, <1>7 DEF w

(* The invariant gives HeapTiled.                                          *)
LEMMA Tiled == IInv => HeapTiled
  <1> SUFFICES ASSUME IInv, pc \in Evaluations
               PROVE  LET walk == HeapBlocks
                          bps  == walk \ {heap.brk}
                      IN  /\ heap.brk \in walk
                          /\ GET(heap, heap.brk - WSIZE) = PACK(0, 1)
                          /\ \A bp \in bps : /\ GET_SIZE(heap, HDRP(bp)) >= MIN_BLOCK_SIZE
                                             /\ GET(heap, FTRP(heap, bp)) = GET(heap, HDRP(bp))
                          /\ {bp \in bps : GET_ALLOC(heap, HDRP(bp)) = 1} = {blocks[id] : id \in DOMAIN live}
                          /\ \A id \in DOMAIN live : live[id] <= GET_SIZE(heap, HDRP(blocks[id])) - DSIZE
    BY DEF HeapTiled
  <1> DEFINE U == Held(blocks, DOMAIN live)
  <1>1. PICK S : InUse(heap, blocks, live, S)
    BY DEF IInv, BlocksHeld
  <1>2. Layout(S, heap.brk) /\ Tagged(heap, S, U, {}) /\ U \subseteq DOMAIN S
    BY <1>1 DEF InUse, Quiet, Sound
  <1>3. HeapBlocks = DOMAIN S \cup {heap.brk}
    BY <1>2, WalkMeets, BlocksUnfolded
  <1>4. /\ \A b \in DOMAIN S : b \in Nat /\ S[b] \in Nat /\ 16 <= S[b] /\ b + S[b] <= heap.brk
        /\ heap.brk \in Nat
    BY <1>2, Blocks DEF Layout, Aligned
  <1>5. heap.brk \notin DOMAIN S
    BY <1>4
  <1>6. HeapBlocks \ {heap.brk} = DOMAIN S
    BY <1>3, <1>5
  <1>7. GET(heap, heap.brk - WSIZE) = PACK(0, 1)
    BY <1>2 DEF Tagged, WSIZE, PACK
  <1>8. \A b \in DOMAIN S : /\ GET_SIZE(heap, HDRP(b)) = S[b] /\ GET_ALLOC(heap, HDRP(b)) = Bit(U, b)
                            /\ GET(heap, FTRP(heap, b)) = GET(heap, HDRP(b))
    <2> TAKE b \in DOMAIN S
    <2>1. /\ GET_SIZE(heap, HDRP(b)) = S[b] /\ GET_ALLOC(heap, HDRP(b)) = Bit(U, b)
          /\ FTRP(heap, b) = b + S[b] - 8
      BY <1>2, TagsRead
    <2>2. GET(heap, b + S[b] - 8) = GET(heap, b - 4)
      BY <1>2 DEF Tagged
    <2> QED
      BY <2>1, <2>2 DEF HDRP, WSIZE
  <1>9. {bp \in DOMAIN S : GET_ALLOC(heap, HDRP(bp)) = 1} = {blocks[id] : id \in DOMAIN live}
    BY <1>2, <1>8 DEF Bit, Held
  <1>10. ASSUME NEW id \in DOMAIN live
         PROVE  live[id] <= GET_SIZE(heap, HDRP(blocks[id])) - DSIZE
    <2> DEFINE b == blocks[id]
               n == live[id]
    <2>1. b \in U
      BY <1>10 DEF Held
    <2>2. n \in Nat /\ n + 8 <= S[b]
      BY <1>1, <1>10 DEF InUse
    <2> HIDE DEF b, n
    <2>3. b \in DOMAIN S
      BY <1>2, <2>1
    <2>4. n <= GET_SIZE(heap, HDRP(b)) - DSIZE
      BY <1>4, <1>8, <2>2, <2>3 DEF DSIZE
    <2> QED
      BY <2>4 DEF b, n
  <1>11. \A bp \in DOMAIN S : /\ GET_SIZE(heap, HDRP(bp)) >= MIN_BLOCK_SIZE
                              /\ GET(heap, FTRP(heap, bp)) = GET(heap, HDRP(bp))
    BY <1>4, <1>8 DEF MIN_BLOCK_SIZE
  <1> QED
    BY <1>3, <1>6, <1>7, <1>9, <1>10, <1>11

(* The invariant gives FreeListExact.                                      *)
LEMMA Listed == IInv => FreeListExact
  <1> SUFFICES ASSUME IInv, pc \in Evaluations
               PROVE  LET chain == Chain(heap)
                          Size(k) == GET_SIZE(heap, HDRP(chain[k]))
                      IN  /\ ToSet(chain) = {bp \in HeapBlocks \ {heap.brk} : GET_ALLOC(heap, HDRP(bp)) = 0}
                          /\ \A k \in DOMAIN chain :
                                /\ SEGLIST_PREV(heap, chain[k]) = IF k = 1 THEN NULL ELSE chain[k - 1]
                                /\ k > 1 => chain[k - 1] # chain[k] /\ Size(k - 1) <= Size(k)
    BY DEF FreeListExact
  <1> DEFINE U == Held(blocks, DOMAIN live)
  <1>1. PICK S : InUse(heap, blocks, live, S)
    BY DEF IInv, BlocksHeld
  <1> DEFINE F == DOMAIN S \ U
  <1>2. /\ Layout(S, heap.brk) /\ Tagged(heap, S, U, {}) /\ U \subseteq DOMAIN S
        /\ \E n \in Nat : \E L \in [1 .. n -> F] : Chained(heap, S, F, n, L)
    BY <1>1 DEF InUse, Quiet, Sound
  <1>3. PICK n \in Nat : \E L \in [1 .. n -> F] : Chained(heap, S, F, n, L)
    BY <1>2
  <1>4. PICK L \in [1 .. n -> F] : Chained(heap, S, F, n, L)
    BY <1>3
  <1>5. Chain(heap) = L
    <2>1. F \subseteq DOMAIN S
      OBVIOUS
    <2> HIDE DEF F
    <2> QED
      BY <1>2, <1>4, <2>1, ChainFound
  <1>6. HeapBlocks \ {heap.brk} = DOMAIN S
    <2>1. HeapBlocks = DOMAIN S \cup {heap.brk}
      BY <1>2, WalkMeets, BlocksUnfolded
    <2>2. \A b \in DOMAIN S : b \in Nat /\ S[b] \in Nat /\ 16 <= S[b] /\ b + S[b] <= heap.brk
      BY <1>2, Blocks
    <2>3. heap.brk \notin DOMAIN S
      BY <1>2, <2>2 DEF Layout, Aligned
    <2> QED
      BY <2>1, <2>3
  <1>7. \A b \in DOMAIN S : GET_SIZE(heap, HDRP(b)) = S[b] /\ GET_ALLOC(heap, HDRP(b)) = Bit(U, b)
    BY <1>2, TagsRead
  <1>8. ToSet(L) = {bp \in DOMAIN S : GET_ALLOC(heap, HDRP(bp)) = 0}
    <2>1. {bp \in DOMAIN S : GET_ALLOC(heap, HDRP(bp)) = 0} = F
      BY <1>7 DEF Bit
    <2>2. \A b \in F : \E k \in 1 .. n : L[k] = b
      BY <1>4 DEF Chained
    <2> QED
      BY <1>4, <2>1, <2>2 DEF ToSet
  <1>9. ASSUME NEW k \in 1 .. n
        PROVE  SEGLIST_PREV(heap, L[k]) = IF k = 1 THEN NULL ELSE L[k - 1]
    BY <1>4, <1>9 DEF Chained, SEGLIST_PREV, WSIZE
  <1>10. ASSUME NEW k \in 1 .. n, k > 1
         PROVE  L[k - 1] # L[k] /\ GET_SIZE(heap, HDRP(L[k - 1])) <= GET_SIZE(heap, HDRP(L[k]))
    <2>1. k - 1 \in 1 .. n /\ k - 1 < k /\ k - 1 # k
      BY <1>10
    <2>2. L[k - 1] # L[k] /\ S[L[k - 1]] <= S[L[k]]
      BY <1>4, <2>1 DEF Chained
    <2>3. L[k - 1] \in DOMAIN S /\ L[k] \in DOMAIN S
      BY <1>4, <2>1
    <2> QED
      BY <1>7, <2>2, <2>3
  <1> HIDE DEF F, U
  <1> QED
    BY <1>5, <1>6, <1>8, <1>9, <1>10

(* Between two requests the tags tile the heap, and its blocks in use are  *)
(* those the trace holds, large enough for what it asked for               *)
(* (HeapTiled): the two copies of every tag agree and the last block ends  *)
(* at the epilogue after any number of splits and merges of mm.c.          *)
THEOREM HeapIsTiled == Spec => []HeapTiled
  BY IInvHolds, Tiled, PTL

(* The free list of mm.c runs through every free block of the heap, and no *)
(* other, in both directions and by size (FreeListExact).                  *)
THEOREM FreeListIsExact == Spec => []FreeListExact
  BY IInvHolds, Listed, PTL

----------------------------------------------------------------------------
(* mm.c is an allocator *)

(* The areas and the data of module Allocator, of any heap and trace.      *)
AreaOf(bs, lv) == [id \in DOMAIN lv |-> [lo |-> bs[id], size |-> lv[id]]]

DataOf(h, bs, lv) ==
    [id \in DOMAIN lv |-> [k \in 1 .. Cardinality(WordsOf(bs[id], lv[id])) |->
                              GET(h, bs[id] + WSIZE * (k - 1))]]

(* The words of n bytes that begin on a word.                              *)
LEMMA WordCount ==
  ASSUME NEW p \in Nat, p % 4 = 0, NEW n \in Nat \ {0}
  PROVE  Cardinality(WordsOf(p, n)) = (n + 3) \div 4
  <1> DEFINE lo == p \div 4
             hi == (p + n - 1) \div 4
  <1>1. lo \in Int /\ hi \in Int /\ lo <= hi /\ (hi - lo) + 1 = (n + 3) \div 4
    OBVIOUS
  <1>2. WordsOf(p, n) = lo .. hi
    BY DEF WordsOf, WSIZE
  <1> HIDE DEF lo, hi
  <1>3. Cardinality(lo .. hi) = IF lo > hi THEN 0 ELSE hi - lo + 1
    BY <1>1, FS_Interval, Zenon
  <1> QED
    BY <1>1, <1>2, <1>3

(* The blocks of the ids: aligned, in the heap, with room for what was     *)
(* asked for.                                                              *)
LEMMA BlocksOfIds ==
  ASSUME NEW h, NEW bs, NEW lv, NEW S, InUse(h, bs, lv, S), NEW k \in DOMAIN lv
  PROVE  /\ bs[k] \in DOMAIN S /\ bs[k] \in Nat /\ bs[k] % 8 = 0 /\ bs[k] % 4 = 0
         /\ S[bs[k]] \in Nat /\ lv[k] \in Nat \ {0} /\ lv[k] + 8 <= S[bs[k]]
         /\ 16 <= bs[k] /\ bs[k] + S[bs[k]] <= MAX_HEAP
         /\ Layout(S, h.brk)
  <1> DEFINE p == bs[k]
  <1>1. Layout(S, h.brk) /\ p \in DOMAIN S
    BY DEF InUse, Quiet, Sound, Held
  <1>2. lv[k] \in Nat \ {0} /\ lv[k] + 8 <= S[p]
    BY DEF InUse
  <1> HIDE DEF p
  <1>3. /\ p \in Nat /\ S[p] \in Nat /\ Aligned(p) /\ 16 <= p /\ p + S[p] <= h.brk
        /\ h.brk <= MAX_HEAP /\ h.brk \in Nat
    BY <1>1, Blocks
  <1>4. p % 8 = 0
    BY <1>3 DEF Aligned
  <1>5. p % 4 = 0 /\ p + S[p] <= MAX_HEAP
    BY <1>3, <1>4, MaxHeap
  <1> QED
    BY <1>1, <1>2, <1>3, <1>4, <1>5 DEF p

(* The blocks in use lie apart and in the heap.                            *)
LEMMA AreasPlaced ==
  ASSUME NEW h, NEW bs, NEW lv, NEW S, InUse(h, bs, lv, S)
  PROVE  A!WellPlaced(AreaOf(bs, lv))
  <1> DEFINE as == AreaOf(bs, lv)
  <1>1. DOMAIN as = DOMAIN lv /\ \A k \in DOMAIN lv : as[k].lo = bs[k] /\ as[k].size = lv[k]
    BY DEF AreaOf
  <1> HIDE DEF as
  <1>2. ASSUME NEW k \in DOMAIN lv
        PROVE  /\ as[k].size > 0 /\ as[k].lo % 8 = 0
               /\ A!Bytes(as[k]) \subseteq 0 .. (MAX_HEAP - 1)
    <2> DEFINE p == bs[k]
               n == lv[k]
    <2>1. p \in Nat /\ p % 8 = 0 /\ n \in Nat \ {0} /\ S[p] \in Nat /\ n + 8 <= S[p] /\ p + S[p] <= MAX_HEAP
      BY BlocksOfIds
    <2>2. as[k].lo = p /\ as[k].size = n
      BY <1>1
    <2> HIDE DEF p, n
    <2>3. p .. (p + n - 1) \subseteq 0 .. (MAX_HEAP - 1)
      BY <2>1, MaxHeap
    <2> QED
      BY <2>1, <2>2, <2>3 DEF A!Bytes
  <1>3. ASSUME NEW j \in DOMAIN lv, NEW k \in DOMAIN lv, bs[j] < bs[k]
        PROVE  A!Bytes(as[j]) \cap A!Bytes(as[k]) = {}
    <2> DEFINE p == bs[j]
               q == bs[k]
               m == lv[j]
               n == lv[k]
    <2>1. /\ p \in DOMAIN S /\ q \in DOMAIN S /\ p \in Nat /\ q \in Nat /\ S[p] \in Nat
          /\ m \in Nat /\ n \in Nat /\ m + 8 <= S[p] /\ Layout(S, h.brk)
      BY BlocksOfIds
    <2>2. as[j].lo = p /\ as[j].size = m /\ as[k].lo = q /\ as[k].size = n /\ p < q
      BY <1>1, <1>3
    <2> HIDE DEF p, q, m, n
    <2>3. p + S[p] <= q
      BY <2>1, <2>2 DEF Layout
    <2>4. (p .. (p + m - 1)) \cap (q .. (q + n - 1)) = {}
      BY <2>1, <2>3
    <2> QED
      BY <2>2, <2>4 DEF A!Bytes
  <1>4. ASSUME NEW j \in DOMAIN lv, NEW k \in DOMAIN lv \ {j}
        PROVE  A!Bytes(as[j]) \cap A!Bytes(as[k]) = {}
    <2>1. bs[j] # bs[k]
      BY DEF InUse
    <2>2. bs[j] \in Nat /\ bs[k] \in Nat
      BY BlocksOfIds
    <2>3. bs[j] < bs[k] \/ bs[k] < bs[j]
      BY <2>1, <2>2
    <2>4. A!Bytes(as[k]) \cap A!Bytes(as[j]) = {} => A!Bytes(as[j]) \cap A!Bytes(as[k]) = {}
      OBVIOUS
    <2> QED
      BY <1>3, <2>3, <2>4
  <1>5. A!WellPlaced(as)
    BY <1>1, <1>2, <1>4 DEF A!WellPlaced
  <1> QED
    BY <1>5 DEF as

(* The data of an id, as a sequence of words.                              *)
LEMMA DataRead ==
  ASSUME NEW h, NEW bs, NEW lv, NEW S, InUse(h, bs, lv, S), NEW k \in DOMAIN lv
  PROVE  /\ DataOf(h, bs, lv)[k]
              = [x \in 1 .. (lv[k] + 3) \div 4 |-> GET(h, bs[k] + 4 * (x - 1))]
         /\ Len(DataOf(h, bs, lv)[k]) = (lv[k] + 3) \div 4
  <1> DEFINE p == bs[k]
             n == lv[k]
             m == (n + 3) \div 4
             d == [x \in 1 .. m |-> GET(h, p + 4 * (x - 1))]
             F == {GET(h, p + 4 * (x - 1)) : x \in 1 .. m}
  <1>1. p \in Nat /\ p % 4 = 0 /\ n \in Nat \ {0}
    BY BlocksOfIds
  <1>2. DataOf(h, bs, lv)[k] = [x \in 1 .. Cardinality(WordsOf(p, n)) |-> GET(h, p + WSIZE * (x - 1))]
    BY DEF DataOf
  <1> HIDE DEF p, n
  <1>3. Cardinality(WordsOf(p, n)) = m /\ m \in Nat
    BY <1>1, WordCount
  <1>4. DataOf(h, bs, lv)[k] = d
    BY <1>2, <1>3 DEF WSIZE
  <1>5. d \in [1 .. m -> F]
    OBVIOUS
  <1>6. Len(d) = m
    <2> HIDE DEF d, F, m
    <2> QED
      BY <1>3, <1>5, NodesCounted
  <1> QED
    BY <1>4, <1>6 DEF p, n

(* Words that are carried are the same data.                               *)
LEMMA CarriedWords ==
  ASSUME NEW h, NEW g, NEW p, NEW q, NEW n \in Nat, Carried(h, g, p, q, n),
         NEW x \in 1 .. (n + 3) \div 4
  PROVE  GET(g, q + 4 * (x - 1)) = GET(h, p + 4 * (x - 1))
  <1> DEFINE a == 4 * (x - 1)
  <1>1. a \in Nat /\ a % 4 = 0 /\ a < n
    OBVIOUS
  <1> HIDE DEF a
  <1>2. GET(g, q + a) = GET(h, p + a)
    BY <1>1 DEF Carried
  <1> QED
    BY <1>2 DEF a

(* A block that stays where it is keeps its data.                          *)
LEMMA DataKeptThere ==
  ASSUME NEW h, NEW bs, NEW lv, NEW S, InUse(h, bs, lv, S), NEW k \in DOMAIN lv,
         NEW g, NEW cs, NEW lw, NEW T, InUse(g, cs, lw, T), k \in DOMAIN lw,
         cs[k] = bs[k], lw[k] = lv[k], Carried(h, g, bs[k], bs[k], lv[k])
  PROVE  DataOf(g, cs, lw)[k] = DataOf(h, bs, lv)[k]
  <1> DEFINE p == bs[k]
             n == lv[k]
             m == (n + 3) \div 4
  <1>1. n \in Nat
    BY BlocksOfIds
  <1>2. DataOf(h, bs, lv)[k] = [x \in 1 .. m |-> GET(h, p + 4 * (x - 1))]
    BY DataRead
  <1>3. DataOf(g, cs, lw)[k] = [x \in 1 .. m |-> GET(g, p + 4 * (x - 1))]
    BY DataRead
  <1>4. Carried(h, g, p, p, n)
    OBVIOUS
  <1> HIDE DEF p, n
  <1>5. \A x \in 1 .. m : GET(g, p + 4 * (x - 1)) = GET(h, p + 4 * (x - 1))
    BY <1>1, <1>4, CarriedWords
  <1> QED
    BY <1>2, <1>3, <1>5

(* A block that is resized keeps its data up to the smaller size.          *)
LEMMA DataTakenAlong ==
  ASSUME NEW h, NEW bs, NEW lv, NEW S, InUse(h, bs, lv, S), NEW k \in DOMAIN lv,
         NEW g, NEW cs, NEW lw, NEW T, InUse(g, cs, lw, T), k \in DOMAIN lw,
         Carried(h, g, bs[k], cs[k], Smaller(lw[k], lv[k]))
  PROVE  \A x \in 1 .. A!Common(DataOf(h, bs, lv)[k], DataOf(g, cs, lw)[k]) :
            DataOf(g, cs, lw)[k][x] = DataOf(h, bs, lv)[k][x]
  <1> DEFINE p == bs[k]
             q == cs[k]
             m == lv[k]
             n == lw[k]
             c == Smaller(n, m)
             d == DataOf(h, bs, lv)[k]
             e == DataOf(g, cs, lw)[k]
  <1>1. m \in Nat /\ n \in Nat
    BY BlocksOfIds
  <1>2. d = [x \in 1 .. (m + 3) \div 4 |-> GET(h, p + 4 * (x - 1))] /\ Len(d) = (m + 3) \div 4
    BY DataRead
  <1>3. e = [x \in 1 .. (n + 3) \div 4 |-> GET(g, q + 4 * (x - 1))] /\ Len(e) = (n + 3) \div 4
    BY DataRead
  <1>4. Carried(h, g, p, q, c)
    OBVIOUS
  <1> HIDE DEF p, q, m, n, d, e
  <1>5. A!Common(d, e) = (c + 3) \div 4 /\ c \in Nat
    BY <1>1, <1>2, <1>3 DEF A!Common, Smaller
  <1>6. ASSUME NEW x \in 1 .. (c + 3) \div 4
        PROVE  e[x] = d[x]
    <2>1. x \in 1 .. (m + 3) \div 4 /\ x \in 1 .. (n + 3) \div 4
      BY <1>1 DEF Smaller
    <2>2. GET(g, q + 4 * (x - 1)) = GET(h, p + 4 * (x - 1))
      <3> HIDE DEF c
      <3> QED
        BY <1>4, <1>5, CarriedWords
    <2> QED
      BY <1>2, <1>3, <2>1, <2>2
  <1>7. \A x \in 1 .. A!Common(d, e) : e[x] = d[x]
    BY <1>5, <1>6
  <1> QED
    BY <1>7 DEF d, e

(* A served request is a step of the allocator.                            *)
LEMMA TransferRefines ==
  ASSUME IInv, pc \in Evaluations, NEW op \in Requests, Follows(DOMAIN live, op), Transferred(op)
  PROVE  A!Next
  <1> DEFINE id == op.index
             a == AreaOf(blocks, live)
             d == DataOf(heap, blocks, live)
             b == AreaOf(blocks', live')
             e == DataOf(heap', blocks', live')
             Others == \A k \in DOMAIN a \ {id} : b[k] = a[k] /\ e[k] = d[k]
  <1>1. PICK S : InUse(heap, blocks, live, S)
    BY DEF IInv, BlocksHeld
  <1>2. PICK T : InUse(heap', blocks', live', T)
    BY DEF Transferred
  <1>3. /\ DOMAIN a = DOMAIN live /\ DOMAIN d = DOMAIN live
        /\ DOMAIN b = DOMAIN live' /\ DOMAIN e = DOMAIN live'
    BY DEF AreaOf, DataOf
  <1>4. live' = Served(op)
    BY DEF Transferred
  <1>5. ASSUME NEW k \in DOMAIN live \ {id} PROVE b[k] = a[k] /\ e[k] = d[k]
    <2>1. blocks'[k] = blocks[k] /\ Carried(heap, heap', blocks[k], blocks[k], live[k])
      BY <1>5 DEF Transferred
    <2>2. k \in DOMAIN live' /\ live'[k] = live[k]
      BY <1>4, <1>5 DEF Served, With, Without
    <2>3. b[k] = a[k]
      BY <1>5, <2>1, <2>2 DEF AreaOf
    <2>4. e[k] = d[k]
      <3> DEFINE g == heap'
                 cs == blocks'
                 lw == live'
      <3>1. /\ InUse(g, cs, lw, T) /\ k \in DOMAIN lw /\ cs[k] = blocks[k] /\ lw[k] = live[k]
            /\ Carried(heap, g, blocks[k], blocks[k], live[k])
        BY <1>2, <2>1, <2>2
      <3> HIDE DEF g, cs, lw, id
      <3>2. DataOf(g, cs, lw)[k] = DataOf(heap, blocks, live)[k]
        BY <1>1, <1>5, <3>1, DataKeptThere
      <3> QED
        BY <3>2 DEF g, cs, lw
    <2> QED
      BY <2>3, <2>4
  <1>6. Others
    BY <1>3, <1>5
  <1>7. A!WellPlaced(b)
    BY <1>2, AreasPlaced
  <1>8. ASSUME op.type = "realloc"
        PROVE  \A x \in 1 .. A!Common(d[id], e[id]) : e[id][x] = d[id][x]
    <2>1. id \in DOMAIN live /\ id \in DOMAIN live' /\ live'[id] = op.size
      BY <1>4, <1>8 DEF Follows, Served, With
    <2>2. Carried(heap, heap', blocks[id], blocks'[id], Smaller(live'[id], live[id]))
      BY <1>8, <2>1 DEF Transferred
    <2> DEFINE g == heap'
               cs == blocks'
               lw == live'
    <2>3. /\ InUse(g, cs, lw, T) /\ id \in DOMAIN lw /\ id \in DOMAIN live
          /\ Carried(heap, g, blocks[id], cs[id], Smaller(lw[id], live[id]))
      BY <1>2, <2>1, <2>2
    <2> HIDE DEF g, cs, lw, id
    <2>4. \A x \in 1 .. A!Common(DataOf(heap, blocks, live)[id], DataOf(g, cs, lw)[id]) :
             DataOf(g, cs, lw)[id][x] = DataOf(heap, blocks, live)[id][x]
      BY <1>1, <2>3, DataTakenAlong
    <2> QED
      BY <2>4 DEF g, cs, lw
  <1>9. DOMAIN live' = Uses(DOMAIN live, op)
    BY <1>4, ServedIds
  <1>10. CASE op.type = "alloc"
    <2>1. id \notin DOMAIN a /\ DOMAIN b = DOMAIN a \cup {id} /\ DOMAIN e = DOMAIN b
      BY <1>3, <1>9, <1>10 DEF Follows, Uses
    <2> HIDE DEF id
    <2>2. A!Malloc(id)
      BY <1>6, <1>7, <2>1 DEF A!Malloc, A!OthersKept, AreaOf, DataOf
    <2>3. id \in DOMAIN b
      BY <2>1
    <2> QED
      BY <2>2, <2>3 DEF A!Next, AreaOf
  <1>11. CASE op.type = "realloc"
    <2>1. id \in DOMAIN a /\ DOMAIN b = DOMAIN a /\ DOMAIN e = DOMAIN a
      BY <1>3, <1>9, <1>11 DEF Follows, Uses
    <2>2. \A x \in 1 .. A!Common(d[id], e[id]) : e[id][x] = d[id][x]
      BY <1>8, <1>11
    <2> HIDE DEF id
    <2>3. A!Realloc(id)
      BY <1>6, <1>7, <2>1, <2>2 DEF A!Realloc, A!OthersKept, AreaOf, DataOf
    <2>4. id \in DOMAIN b
      BY <2>1
    <2> QED
      BY <2>3, <2>4 DEF A!Next, AreaOf
  <1>12. CASE op.type = "free"
    <2>1. id \in DOMAIN a /\ DOMAIN b = DOMAIN a \ {id} /\ DOMAIN e = DOMAIN b
      BY <1>3, <1>9, <1>12 DEF Follows, Uses
    <2> HIDE DEF id
    <2>2. A!Free(id)
      BY <1>6, <2>1 DEF A!Free, A!OthersKept, AreaOf, DataOf
    <2> QED
      BY <2>1, <2>2 DEF A!Next, AreaOf
  <1> QED
    BY <1>10, <1>11, <1>12 DEF Requests

(* Areas and data are forgotten.                                           *)
LEMMA NothingLive ==
  ASSUME live' = <<>>
  PROVE  A!Next
  <1>1. DOMAIN live' = {}
    OBVIOUS
  <1>2. \A bs, h : AreaOf(bs, live') = <<>> /\ DataOf(h, bs, live') = <<>>
    <2> SUFFICES ASSUME NEW bs, NEW h PROVE AreaOf(bs, live') = <<>> /\ DataOf(h, bs, live') = <<>>
      OBVIOUS
    <2>1. AreaOf(bs, live') \in [{} -> {}] /\ DataOf(h, bs, live') \in [{} -> {}]
      BY <1>1 DEF AreaOf, DataOf
    <2>2. <<>> \in [{} -> {}]
      OBVIOUS
    <2> QED
      BY <2>1, <2>2
  <1>3. AreaOf(blocks', live') = <<>> /\ DataOf(heap', blocks', live') = <<>>
    BY <1>2
  <1>4. A!Reset
    BY <1>3 DEF A!Reset, AreaOf, DataOf
  <1> QED
    BY <1>4 DEF A!Next

(* Every step is a step of the abstract allocator, or none.                *)
LEMMA StepRefines ==
  ASSUME IInv, [Next]_vars
  PROVE  [A!Next]_(A!vars)
  <1>1. ASSUME UNCHANGED <<heap, blocks, live>> PROVE UNCHANGED A!vars
    BY <1>1 DEF A!vars
  <1>2. CASE Option
    BY <1>1, <1>2 DEF Option, evalVars
  <1>3. CASE StartUp
    BY <1>1, <1>3 DEF StartUp, evalVars
  <1>4. CASE read_trace_fails
    BY <1>1, <1>4 DEF read_trace_fails, evalVars
  <1>5. CASE LibcPass
    BY <1>1, <1>5 DEF LibcPass, RunLibc, eval_libc_valid, eval_libc_speed, evalVars
  <1>6. CASE RunMM
    BY <1>1, <1>6 DEF RunMM, evalVars
  <1>7. CASE BeginValid
    BY <1>7, NothingLive DEF BeginValid
  <1>8. ASSUME NEW op \in Legal, Valid(op) PROVE A!Next
    <2>1. pc \in Evaluations
      BY <1>8 DEF Valid, Evaluations
    <2>2. CASE pc' = "valid"
      <3>1. op \in Requests /\ Follows(DOMAIN live, op) /\ Transferred(op)
        BY <1>8, <2>2, ValidTransfers
      <3> QED
        BY <2>1, <3>1, TransferRefines
    <2>3. CASE pc' # "valid"
      <3>1. live' = <<>>
        BY <1>8, <2>3 DEF Valid, ValidBlock, ValidFree
      <3> QED
        BY <3>1, NothingLive
    <2> QED
      BY <2>2, <2>3
  <1>9. CASE BeginUtil \/ BeginSpeed
    BY <1>9, NothingLive DEF BeginUtil, BeginSpeed, Rerun
  <1>10. CASE EndTrace
    BY <1>1, <1>10 DEF EndTrace, evalVars
  <1>11. ASSUME pc \in {"util", "speed"}, i < Len(trace), NEW op, op = trace[i + 1],
                NEW r, r = Result(op), Replay(op, r)
         PROVE  A!Next
    <2>1. pc \in Evaluations /\ op \in Requests /\ Follows(DOMAIN live, op)
      BY <1>11, Replayed DEF Evaluations
    <2>2. CASE pc' \in Evaluations
      <3>1. Transferred(op)
        BY <1>11, <2>2, ReplayTransfers
      <3> QED
        BY <2>1, <3>1, TransferRefines
    <2>3. CASE pc' \notin Evaluations
      <3>1. live' = <<>>
        BY <1>11, <2>1, <2>3 DEF Replay
      <3> QED
        BY <3>1, NothingLive
    <2> QED
      BY <2>2, <2>3
  <1>12. CASE Util
    BY <1>11, <1>12 DEF Util
  <1>13. CASE Speed
    BY <1>11, <1>13 DEF Speed
  <1>14. CASE Score
    BY <1>1, <1>14 DEF Score, evalVars
  <1>15. CASE UNCHANGED vars
    BY <1>1, <1>15 DEF vars, evalVars
  <1> QED
    BY <1>2, <1>3, <1>4, <1>5, <1>6, <1>7, <1>8, <1>9, <1>10, <1>12, <1>13, <1>14, <1>15 DEF Next

(* The driver starts as the abstract allocator does.                       *)
LEMMA InitRefines == Init => A!Init
  <1> SUFFICES ASSUME Init PROVE A!Init
    OBVIOUS
  <1>1. DOMAIN live = {}
    BY DEF Init
  <1>2. AreaOf(blocks, live) \in [{} -> {}] /\ DataOf(heap, blocks, live) \in [{} -> {}]
    BY <1>1 DEF AreaOf, DataOf
  <1>3. <<>> \in [{} -> {}]
    OBVIOUS
  <1>4. AreaOf(blocks, live) = <<>> /\ DataOf(heap, blocks, live) = <<>>
    BY <1>2, <1>3
  <1> QED
    BY <1>4 DEF A!Init, AreaOf, DataOf

(* mm.c is an allocator (ImplementsAllocator): areas in use are aligned,   *)
(* lie in the heap and do not overlap, nothing a request does reaches the  *)
(* data of another area, and mm_realloc takes along the data that fits,    *)
(* whether it trims the block, joins it with the free one behind or moves  *)
(* it.                                                                     *)
THEOREM AllocatorImplemented == Spec => ImplementsAllocator
  BY IInvHolds, InitRefines, StepRefines, PTL DEF Spec, ImplementsAllocator, A!Spec

----------------------------------------------------------------------------
(* Two heaps with the same blocks *)

(* Whatever lies in the payloads, two heaps have the same layout S, the    *)
(* same blocks in use U and the same free list of the blocks F.            *)
Twins(h, g, S, U, F, X) ==
    /\ Sound(h, S, U, F, X) /\ Sound(g, S, U, F, X)
    /\ g.brk = h.brk /\ g.list = h.list
    /\ \A b \in F : GET(g, b) = GET(h, b) /\ GET(g, b + 4) = GET(h, b + 4)

(* Twins between two calls of mm.c.                                        *)
Alike(h, g, S, U) == Twins(h, g, S, U, DOMAIN S \ U, {})

(* Twins have the same list.                                               *)
LEMMA TwinChains ==
  ASSUME NEW h, NEW g, NEW S, NEW U, NEW F, NEW X, Twins(h, g, S, U, F, X)
  PROVE  \E n \in Nat : \E L \in [1 .. n -> F] :
            /\ Chained(h, S, F, n, L) /\ Chained(g, S, F, n, L)
            /\ Chain(h) = L /\ Chain(g) = L
  <1>1. Layout(S, h.brk) /\ F \subseteq DOMAIN S
    BY DEF Twins, Sound
  <1>2. PICK n \in Nat : \E L \in [1 .. n -> F] : Chained(h, S, F, n, L)
    BY DEF Twins, Sound
  <1>3. PICK L \in [1 .. n -> F] : Chained(h, S, F, n, L)
    BY <1>2
  <1>4. Chained(g, S, F, n, L)
    BY <1>3, ChainedSame DEF Twins
  <1>5. Chain(h) = L /\ Chain(g) = L
    BY <1>1, <1>3, <1>4, ChainFound
  <1> QED
    BY <1>3, <1>4, <1>5

(* The same links written in two heaps leave the words that were the same  *)
(* the same.                                                               *)
LEMMA LinkTwins ==
  ASSUME NEW h \in Heaps, NEW g \in Heaps, g.brk = h.brk, g.list = h.list,
         NEW p \in Nat, NEW q \in Nat, p # NULL => p \in Places, q # NULL => q + 4 \in Places
  PROVE  /\ Link(h, p, q) \in Heaps /\ Link(g, p, q) \in Heaps
         /\ Link(g, p, q).brk = Link(h, p, q).brk /\ Link(g, p, q).list = Link(h, p, q).list
         /\ \A a \in Places :
               GET(g, a) = GET(h, a) \/ (q # NULL /\ a = q + 4) \/ (p # NULL /\ a = p)
               => GET(Link(g, p, q), a) = GET(Link(h, p, q), a)
  <1>1. /\ Link(h, p, q) \in Heaps
        /\ Link(h, p, q).brk = h.brk
        /\ Link(h, p, q).list = IF p = NULL THEN q ELSE h.list
        /\ \A a \in Places : GET(Link(h, p, q), a) = IF q # NULL /\ a = q + 4 THEN p
                                                     ELSE IF p # NULL /\ a = p THEN q
                                                     ELSE GET(h, a)
    BY LinkStored
  <1>2. /\ Link(g, p, q) \in Heaps
        /\ Link(g, p, q).brk = g.brk
        /\ Link(g, p, q).list = IF p = NULL THEN q ELSE g.list
        /\ \A a \in Places : GET(Link(g, p, q), a) = IF q # NULL /\ a = q + 4 THEN p
                                                     ELSE IF p # NULL /\ a = p THEN q
                                                     ELSE GET(g, a)
    BY LinkStored
  <1> QED
    BY <1>1, <1>2

(* insert_node puts a block at the same place of both lists.               *)
LEMMA InsertedTwins ==
  ASSUME NEW h, NEW g, NEW S, NEW U, NEW F, Twins(h, g, S, U, F, {}),
         NEW ptr \in DOMAIN S \ U, ptr \notin F,
         NEW k, k = insert_node(h, ptr, S[ptr]), NEW l, l = insert_node(g, ptr, S[ptr])
  PROVE  Twins(k, l, S, U, F \cup {ptr}, {})
  <1>1. Sound(k, S, U, F \cup {ptr}, {}) /\ k.brk = h.brk
    BY Inserted DEF Twins
  <1>2. Sound(l, S, U, F \cup {ptr}, {}) /\ l.brk = g.brk
    BY Inserted DEF Twins
  <1>3. /\ h \in Heaps /\ g \in Heaps /\ Layout(S, h.brk) /\ Layout(S, g.brk)
        /\ Tagged(h, S, U, {}) /\ Tagged(g, S, U, {}) /\ F \subseteq DOMAIN S
        /\ g.brk = h.brk /\ g.list = h.list
    BY DEF Twins, Sound
  <1>4. PICK n \in Nat : \E L \in [1 .. n -> F] : Chain(h) = L /\ Chain(g) = L
    BY TwinChains
  <1>5. PICK L \in [1 .. n -> F] : Chain(h) = L /\ Chain(g) = L
    BY <1>4
  <1>6. \A j \in 1 .. n : GET_SIZE(g, HDRP(L[j])) = GET_SIZE(h, HDRP(L[j]))
    BY <1>3, TagsRead
  <1>7. Len(L) = n /\ (L = <<>> <=> n = 0) /\ Last(L) = L[n]
    BY NodesCounted
  <1>8. \E j \in 0 .. n : /\ SelectInSeq(L, LAMBDA p : S[ptr] <= GET_SIZE(h, HDRP(p))) = j
                          /\ SelectInSeq(L, LAMBDA p : S[ptr] <= GET_SIZE(g, HDRP(p))) = j
    <2> DEFINE I == {j \in 1 .. n : S[ptr] <= GET_SIZE(h, HDRP(L[j]))}
               J == {j \in 1 .. n : S[ptr] <= GET_SIZE(g, HDRP(L[j]))}
               j0 == IF I # {} THEN Min(I) ELSE 0
    <2>1. I = J
      BY <1>6
    <2>2. SelectInSeq(L, LAMBDA p : S[ptr] <= GET_SIZE(h, HDRP(p))) = j0
      BY <1>7 DEF SelectInSeq
    <2>3. SelectInSeq(L, LAMBDA p : S[ptr] <= GET_SIZE(g, HDRP(p))) = IF J # {} THEN Min(J) ELSE 0
      BY <1>7 DEF SelectInSeq
    <2>4. I \subseteq Nat /\ I \subseteq 1 .. n
      OBVIOUS
    <2> HIDE DEF I, J
    <2>5. I # {} => Min(I) \in I
      BY <2>4, MinIsLeast
    <2>6. j0 \in 0 .. n
      <3>1. I # {} => Min(I) \in 1 .. n
        BY <2>4, <2>5
      <3> DEFINE m == Min(I)
      <3>2. I # {} => m \in 1 .. n
        BY <3>1
      <3> HIDE DEF m
      <3>3. (IF I # {} THEN m ELSE 0) \in 0 .. n
        BY <3>2
      <3> QED
        BY <3>3 DEF m
    <2> HIDE DEF j0
    <2> QED
      BY <2>1, <2>2, <2>3, <2>6 DEF j0
  <1>11. PICK i0 \in 0 .. n : /\ SelectInSeq(L, LAMBDA p : S[ptr] <= GET_SIZE(h, HDRP(p))) = i0
                             /\ SelectInSeq(L, LAMBDA p : S[ptr] <= GET_SIZE(g, HDRP(p))) = i0
    BY <1>8
  <1> DEFINE cur == IF i0 = 0 THEN NULL ELSE L[i0]
             prev == IF i0 = 1 \/ L = <<>> THEN NULL ELSE IF i0 = 0 THEN Last(L) ELSE L[i0 - 1]
  <1>9. k = Link(Link(h, prev, ptr), ptr, cur)
    BY <1>5, <1>11 DEF insert_node, InsertIn
  <1>10. l = Link(Link(g, prev, ptr), ptr, cur)
    <2>1. l = Link(Link(g, IF i0 = 1 \/ L = <<>> THEN NULL ELSE IF i0 = 0 THEN Last(L) ELSE L[i0 - 1], ptr),
                   ptr, IF i0 = 0 THEN NULL ELSE L[i0])
      BY <1>5, <1>11 DEF insert_node, InsertIn
    <2> QED
      BY <2>1
  <1>12. cur \in F \cup {NULL} /\ prev \in F \cup {NULL}
    <2>1. cur \in F \cup {NULL}
      BY <1>11
    <2>2. CASE i0 = 0
      BY <1>7, <2>1, <2>2
    <2>3. CASE i0 \notin {0, 1}
      <3>1. i0 - 1 \in 1 .. n
        BY <1>11, <2>3
      <3> QED
        BY <2>1, <2>3, <3>1
    <2>4. CASE i0 = 1
      BY <2>1, <2>4
    <2> QED
      BY <2>1, <2>2, <2>3, <2>4
  <1> HIDE DEF cur, prev
  <1>13. /\ \A b \in DOMAIN S : b \in Nat /\ b # NULL /\ b \in Places /\ b + 4 \in Places
         /\ NULL \in Nat
    BY <1>3, Blocks DEF NULL
  <1>a. ptr \in Nat /\ ptr # NULL /\ ptr \in Places /\ ptr + 4 \in Places
    BY <1>13
  <1> DEFINE h1 == Link(h, prev, ptr)
             g1 == Link(g, prev, ptr)
  <1>14. prev \in Nat /\ cur \in Nat /\ (prev # NULL => prev \in Places) /\ (cur # NULL => cur + 4 \in Places)
    BY <1>3, <1>12, <1>13
  <1>15. /\ h1 \in Heaps /\ g1 \in Heaps /\ g1.brk = h1.brk /\ g1.list = h1.list
         /\ \A a \in Places : GET(g, a) = GET(h, a) \/ a = ptr + 4 => GET(g1, a) = GET(h1, a)
    <2>1. \A a \in Places :
             GET(g, a) = GET(h, a) \/ (ptr # NULL /\ a = ptr + 4) \/ (prev # NULL /\ a = prev)
             => GET(Link(g, prev, ptr), a) = GET(Link(h, prev, ptr), a)
      BY <1>3, <1>a, <1>14, LinkTwins
    <2>2. /\ h1 \in Heaps /\ g1 \in Heaps /\ g1.brk = h1.brk /\ g1.list = h1.list
      BY <1>3, <1>a, <1>14, LinkTwins
    <2> QED
      BY <1>a, <2>1, <2>2
  <1>16. k = Link(h1, ptr, cur) /\ l = Link(g1, ptr, cur)
    BY <1>9, <1>10
  <1> HIDE DEF h1, g1
  <1>17. /\ l.list = k.list
         /\ \A a \in Places : GET(g1, a) = GET(h1, a) \/ a = ptr => GET(l, a) = GET(k, a)
    <2>1. \A a \in Places :
             GET(g1, a) = GET(h1, a) \/ (cur # NULL /\ a = cur + 4) \/ (ptr # NULL /\ a = ptr)
             => GET(Link(g1, ptr, cur), a) = GET(Link(h1, ptr, cur), a)
      BY <1>a, <1>14, <1>15, LinkTwins
    <2>2. Link(g1, ptr, cur).list = Link(h1, ptr, cur).list
      BY <1>a, <1>14, <1>15, LinkTwins
    <2> QED
      BY <1>a, <1>16, <2>1, <2>2
  <1>18. \A b \in F \cup {ptr} : GET(l, b) = GET(k, b) /\ GET(l, b + 4) = GET(k, b + 4)
    <2>1. \A b \in F : GET(g, b) = GET(h, b) /\ GET(g, b + 4) = GET(h, b + 4)
      BY DEF Twins
    <2> QED
      BY <1>3, <1>13, <1>15, <1>17, <2>1
  <1> QED
    BY <1>1, <1>2, <1>3, <1>17, <1>18 DEF Twins

(* delete_node takes the same block from both lists.                       *)
LEMMA DeletedTwins ==
  ASSUME NEW h, NEW g, NEW S, NEW U, NEW F, Twins(h, g, S, U, F, {}), NEW ptr \in F,
         NEW k, k = delete_node(h, ptr), NEW l, l = delete_node(g, ptr)
  PROVE  Twins(k, l, S, U, F \ {ptr}, {})
  <1>1. Sound(k, S, U, F \ {ptr}, {}) /\ k.brk = h.brk
    BY Deleted DEF Twins
  <1>2. Sound(l, S, U, F \ {ptr}, {}) /\ l.brk = g.brk
    BY Deleted DEF Twins
  <1>3. /\ h \in Heaps /\ g \in Heaps /\ Layout(S, h.brk) /\ F \subseteq DOMAIN S
        /\ g.brk = h.brk /\ g.list = h.list
    BY DEF Twins, Sound
  <1>4. PICK n \in Nat : \E L \in [1 .. n -> F] : Chained(h, S, F, n, L)
    BY DEF Twins, Sound
  <1>5. PICK L \in [1 .. n -> F] : Chained(h, S, F, n, L)
    BY <1>4
  <1>6. PICK j \in 1 .. n : L[j] = ptr
    BY <1>5 DEF Chained
  <1> DEFINE next == GET(h, ptr)
             prev == GET(h, ptr + 4)
  <1>7. next \in F \cup {NULL} /\ prev \in F \cup {NULL}
    <2>1. next = (IF j = n THEN NULL ELSE L[j + 1]) /\ prev = (IF j = 1 THEN NULL ELSE L[j - 1])
      BY <1>5, <1>6 DEF Chained
    <2>2. j # n => j + 1 \in 1 .. n
      OBVIOUS
    <2>3. j # 1 => j - 1 \in 1 .. n
      OBVIOUS
    <2> HIDE DEF next, prev
    <2> QED
      BY <2>1, <2>2, <2>3
  <1>8. \A b \in F : GET(g, b) = GET(h, b) /\ GET(g, b + 4) = GET(h, b + 4)
    BY DEF Twins
  <1>9. k = Link(h, prev, next) /\ l = Link(g, prev, next)
    BY <1>8 DEF delete_node, SEGLIST_PREV, SEGLIST_NEXT, WSIZE
  <1> HIDE DEF next, prev
  <1>10. /\ \A b \in DOMAIN S : b \in Nat /\ b # NULL /\ b \in Places /\ b + 4 \in Places
         /\ NULL \in Nat
    BY <1>3, Blocks DEF NULL
  <1>11. /\ l.list = k.list
         /\ \A a \in Places : GET(g, a) = GET(h, a) => GET(l, a) = GET(k, a)
    <2>1. prev \in Nat /\ next \in Nat /\ (prev # NULL => prev \in Places) /\ (next # NULL => next + 4 \in Places)
      BY <1>3, <1>7, <1>10
    <2> QED
      BY <1>3, <1>9, <2>1, LinkTwins
  <1>12. \A b \in F \ {ptr} : GET(l, b) = GET(k, b) /\ GET(l, b + 4) = GET(k, b + 4)
    BY <1>3, <1>8, <1>10, <1>11
  <1> QED
    BY <1>1, <1>2, <1>3, <1>11, <1>12 DEF Twins

(* The same tags written in both heaps.                                    *)
LEMMA RetaggedTwins ==
  ASSUME NEW h, NEW g, NEW S, NEW U, NEW F, NEW X, Twins(h, g, S, U, F, X),
         NEW b \in DOMAIN S \ F, NEW a \in {0, 1},
         NEW k, k = Tag(h, b, S[b], a), NEW l, l = Tag(g, b, S[b], a)
  PROVE  Twins(k, l, S, Mark(U, b, a), F, X \ {b})
  <1> DEFINE s == S[b]
  <1>1. Sound(k, S, Mark(U, b, a), F, X \ {b}) /\ k.brk = h.brk
    BY Retagged DEF Twins
  <1>2. Sound(l, S, Mark(U, b, a), F, X \ {b}) /\ l.brk = g.brk
    BY Retagged DEF Twins
  <1>3. /\ h \in Heaps /\ g \in Heaps /\ Layout(S, h.brk) /\ F \subseteq DOMAIN S
        /\ g.brk = h.brk /\ g.list = h.list
    BY DEF Twins, Sound
  <1>4. Taggable(b, s)
    <2>1. /\ b \in Nat /\ S[b] \in Nat /\ Aligned(b) /\ Aligned(S[b])
          /\ 16 <= b /\ 16 <= S[b] /\ b + S[b] <= h.brk /\ h.brk <= MAX_HEAP /\ h.brk \in Nat
      BY <1>3, Blocks
    <2> QED
      BY <2>1, MaxHeap DEF Taggable
  <1> HIDE DEF s
  <1>5. TagDone(h, Tag(h, b, s, a), b, s, a) /\ TagDone(g, Tag(g, b, s, a), b, s, a)
    BY <1>3, <1>4, TagStored
  <1>6. k = Tag(h, b, s, a) /\ l = Tag(g, b, s, a)
    BY DEF s
  <1>7. /\ l.list = k.list
        /\ \A q \in Places : GET(g, q) = GET(h, q) => GET(l, q) = GET(k, q)
    BY <1>3, <1>5, <1>6 DEF TagDone
  <1>8. \A c \in F : c \in Places /\ c + 4 \in Places
    BY <1>3, Blocks
  <1>9. \A c \in F : GET(l, c) = GET(k, c) /\ GET(l, c + 4) = GET(k, c + 4)
    BY <1>7, <1>8 DEF Twins
  <1> QED
    BY <1>1, <1>2, <1>3, <1>7, <1>9 DEF Twins

(* Twins stay twins when two of their blocks are seen as one.              *)
LEMMA MergingTwins ==
  ASSUME NEW h, NEW g, NEW S, NEW U, NEW F, NEW X, Twins(h, g, S, U, F, X),
         NEW b \in DOMAIN S \ F, NEW d \in DOMAIN S \ F, d = b + S[b]
  PROVE  \E T : Twins(h, g, T, U \ {d}, F, (X \ {d}) \cup {b}) /\ MergedDone(S, T, b, d)
  <1>1. Layout(S, h.brk)
    BY DEF Twins, Sound
  <1>2. MergedDone(S, Merged(S, b), b, d)
    BY <1>1, MergedLayout DEF MergedDone
  <1>3. Sound(h, Merged(S, b), U \ {d}, F, (X \ {d}) \cup {b})
    BY MergedSound DEF Twins
  <1>4. Sound(g, Merged(S, b), U \ {d}, F, (X \ {d}) \cup {b})
    BY MergedSound DEF Twins
  <1> QED
    BY <1>2, <1>3, <1>4 DEF Twins

(* Twins stay twins when one of their blocks is seen as two.               *)
LEMMA DividingTwins ==
  ASSUME NEW h, NEW g, NEW S, NEW U, NEW F, NEW X, Twins(h, g, S, U, F, X),
         NEW b \in DOMAIN S \ F, NEW low, Divisible(S, b, low), NEW d, d = b + low
  PROVE  \E T : Twins(h, g, T, U, F, X \cup {b, d}) /\ DividedDone(S, T, h.brk, b, low)
  <1>1. Layout(S, h.brk)
    BY DEF Twins, Sound
  <1>2. DividedDone(S, Divided(S, b, low), h.brk, b, low)
    BY <1>1, DividedLayout
  <1>3. Sound(h, Divided(S, b, low), U, F, X \cup {b, d})
    BY DividedSound DEF Twins
  <1>4. Sound(g, Divided(S, b, low), U, F, X \cup {b, d})
    BY DividedSound DEF Twins
  <1> QED
    BY <1>2, <1>3, <1>4 DEF Twins

(* Tags that agree show the same neighbours.                               *)
LEMMA SameNeighbours ==
  ASSUME NEW h, NEW g, NEW S, NEW U, NEW F, Twins(h, g, S, U, F, {}), NEW b \in DOMAIN S,
         NEW prev, prev = PREV_BLKP(h, b), NEW next, next = NEXT_BLKP(h, b)
  PROVE  /\ NEXT_BLKP(g, b) = next
         /\ GET_ALLOC(g, HDRP(next)) = 0 <=> GET_ALLOC(h, HDRP(next)) = 0
         /\ GET_ALLOC(g, FTRP(g, PREV_BLKP(g, b))) = 0 <=> GET_ALLOC(h, FTRP(h, prev)) = 0
         /\ PREV_BLKP(g, b) = prev
  <1>1. /\ Layout(S, h.brk) /\ Layout(S, g.brk) /\ Tagged(h, S, U, {}) /\ Tagged(g, S, U, {})
        /\ g.brk = h.brk
    BY DEF Twins, Sound
  <1>2. next = b + S[b] /\ NEXT_BLKP(g, b) = next
    BY <1>1, TagsRead
  <1>3. GET_ALLOC(g, HDRP(next)) = GET_ALLOC(h, HDRP(next))
    <2>1. CASE next \in DOMAIN S
      BY <1>1, <2>1, TagsRead
    <2>2. CASE next = h.brk
      <3>1. GET(h, h.brk - 4) = 1 /\ GET(g, h.brk - 4) = 1
        BY <1>1 DEF Tagged
      <3> QED
        BY <2>2, <3>1 DEF GET_ALLOC, HDRP, WSIZE
    <2> QED
      BY <1>1, <1>2, <2>1, <2>2 DEF Layout
  <1>4. PREV_BLKP(g, b) = prev /\ GET_ALLOC(g, FTRP(g, prev)) = GET_ALLOC(h, FTRP(h, prev))
    <2>1. CASE b = 16
      <3>1. GET(h, 4) = 9 /\ GET(h, 8) = 9 /\ GET(g, 4) = 9 /\ GET(g, 8) = 9
        BY <1>1 DEF Tagged
      <3>2. /\ GET_SIZE(h, 4) = 8 /\ GET_SIZE(h, 8) = 8 /\ GET_ALLOC(h, 8) = 1
            /\ GET_SIZE(g, 4) = 8 /\ GET_SIZE(g, 8) = 8 /\ GET_ALLOC(g, 8) = 1
        BY <3>1 DEF GET_SIZE, GET_ALLOC, ALIGNMENT
      <3>3. prev = 8 /\ PREV_BLKP(g, b) = 8
        BY <2>1, <3>2 DEF PREV_BLKP, DSIZE
      <3>4. FTRP(h, 8) = 8 /\ FTRP(g, 8) = 8
        BY <3>2 DEF FTRP, HDRP, WSIZE, DSIZE
      <3> QED
        BY <3>2, <3>3, <3>4
    <2>2. CASE b # 16
      <3>1. PICK c \in DOMAIN S : c + S[c] = b
        BY <1>1, <2>2 DEF Layout
      <3>2. /\ FTRP(h, c) = c + S[c] - 8 /\ GET_SIZE(h, FTRP(h, c)) = S[c]
            /\ GET_ALLOC(h, FTRP(h, c)) = Bit(U, c)
        BY <1>1, TagsRead
      <3>3. /\ FTRP(g, c) = c + S[c] - 8 /\ GET_SIZE(g, FTRP(g, c)) = S[c]
            /\ GET_ALLOC(g, FTRP(g, c)) = Bit(U, c)
        BY <1>1, TagsRead
      <3>4. c \in Nat /\ S[c] \in Nat
        BY <1>1, Blocks
      <3>5. FTRP(h, c) = b - 8 /\ FTRP(g, c) = b - 8
        BY <3>1, <3>2, <3>3, <3>4
      <3>6. prev = c /\ PREV_BLKP(g, b) = c
        BY <3>1, <3>2, <3>3, <3>4, <3>5 DEF PREV_BLKP, DSIZE
      <3> QED
        BY <3>2, <3>3, <3>6
    <2> QED
      BY <2>1, <2>2
  <1> QED
    BY <1>2, <1>3, <1>4

(* A block outside the lists is tagged free and inserted in both.          *)
LEMMA FreedTwins ==
  ASSUME NEW h, NEW g, NEW S, NEW U, NEW F, NEW b \in DOMAIN S \ F, NEW X \in SUBSET {b},
         Twins(h, g, S, U, F, X),
         NEW k, k = insert_node(Tag(h, b, S[b], 0), b, S[b]),
         NEW l, l = insert_node(Tag(g, b, S[b], 0), b, S[b])
  PROVE  Twins(k, l, S, U \ {b}, F \cup {b}, {})
  <1> DEFINE h1 == Tag(h, b, S[b], 0)
             g1 == Tag(g, b, S[b], 0)
  <1>1. Twins(h1, g1, S, Mark(U, b, 0), F, X \ {b})
    BY RetaggedTwins
  <1>2. Mark(U, b, 0) = U \ {b} /\ X \ {b} = {}
    BY DEF Mark
  <1>3. k = insert_node(h1, b, S[b]) /\ l = insert_node(g1, b, S[b])
    OBVIOUS
  <1> HIDE DEF h1, g1
  <1>4. Twins(h1, g1, S, U \ {b}, F, {}) /\ b \in DOMAIN S \ (U \ {b}) /\ b \notin F
    BY <1>1, <1>2
  <1> QED
    BY <1>3, <1>4, InsertedTwins

(* Two free neighbours off the lists, of all bytes together, become one.   *)
LEMMA RejoinedTwins ==
  ASSUME NEW h, NEW g, NEW S, NEW U, NEW R, R = DOMAIN S \ U, NEW b \in R, NEW d \in R, b # d,
         d = b + S[b], NEW X \in SUBSET {b, d}, NEW F, F = R \ {b, d}, Twins(h, g, S, U, F, X),
         NEW all, all = S[b] + S[d],
         NEW k, k = insert_node(Tag(h, b, all, 0), b, all),
         NEW l, l = insert_node(Tag(g, b, all, 0), b, all)
  PROVE  \E T : Alike(k, l, T, U)
  <1>1. b \in DOMAIN S \ F /\ d \in DOMAIN S \ F
    OBVIOUS
  <1>2. PICK T : Twins(h, g, T, U \ {d}, F, (X \ {d}) \cup {b}) /\ MergedDone(S, T, b, d)
    BY <1>1, MergingTwins
  <1>3. /\ U \ {d} = U /\ (X \ {d}) \cup {b} \in SUBSET {b}
        /\ T[b] = all /\ b \in DOMAIN T \ F /\ U \ {b} = U /\ F \cup {b} = DOMAIN T \ U
    BY <1>2 DEF MergedDone
  <1> DEFINE Y == (X \ {d}) \cup {b}
  <1>4. Twins(h, g, T, U, F, Y) /\ Y \in SUBSET {b}
    BY <1>2, <1>3
  <1> HIDE DEF Y
  <1>5. /\ k = insert_node(Tag(h, b, T[b], 0), b, T[b])
        /\ l = insert_node(Tag(g, b, T[b], 0), b, T[b])
    BY <1>3
  <1>6. b \in DOMAIN T \ F
    BY <1>3
  <1>7. Twins(k, l, T, U \ {b}, F \cup {b}, {})
    BY <1>4, <1>5, <1>6, FreedTwins
  <1>8. Twins(k, l, T, U, DOMAIN T \ U, {})
    BY <1>3, <1>7
  <1> QED
    BY <1>8 DEF Alike

(* coalesce sees the same neighbours in both heaps.                        *)
LEMMA CoalescedTwins ==
  ASSUME NEW h, NEW g, NEW S, NEW U, Alike(h, g, S, U), NEW bp \in DOMAIN S \ U,
         NEW r, r = coalesce(h, bp), NEW q, q = coalesce(g, bp)
  PROVE  r.ptr = q.ptr /\ \E T : Alike(r.heap, q.heap, T, U)
  <1> DEFINE prev == PREV_BLKP(h, bp)
             next == NEXT_BLKP(h, bp)
             pf == GET_ALLOC(h, FTRP(h, prev)) = 0
             nf == GET_ALLOC(h, HDRP(next)) = 0
             R == DOMAIN S \ U
             h1 == delete_node(h, bp)
             g1 == delete_node(g, bp)
  <1>1. Twins(h, g, S, U, R, {}) /\ Layout(S, h.brk) /\ Layout(S, g.brk)
        /\ Tagged(h, S, U, {}) /\ Tagged(g, S, U, {})
    BY DEF Alike, Twins, Sound
  <1>2. /\ next = bp + S[bp]
        /\ nf => next \in R
        /\ pf => prev \in R /\ bp = prev + S[prev]
    BY <1>1, Neighbours
  <1>3. \A b \in DOMAIN S : b \in Nat /\ S[b] \in Nat /\ 16 <= S[b]
    BY <1>1, Blocks
  <1>4. \A b \in DOMAIN S : GET_SIZE(h, HDRP(b)) = S[b] /\ GET_SIZE(g, HDRP(b)) = S[b]
    BY <1>1, TagsRead
  <1>5. Twins(h1, g1, S, U, R \ {bp}, {})
    BY <1>1, DeletedTwins
  <1>6. next # bp /\ (pf => prev # bp) /\ (pf => next # prev)
    BY <1>2, <1>3
  <1>7. /\ NEXT_BLKP(g, bp) = next /\ (GET_ALLOC(g, HDRP(next)) = 0 <=> nf)
        /\ (GET_ALLOC(g, FTRP(g, PREV_BLKP(g, bp))) = 0 <=> pf)
        /\ (pf => PREV_BLKP(g, bp) = prev)
    BY <1>1, SameNeighbours
  <1>8. CASE ~pf /\ ~nf
    <2>1. r = [heap |-> h, ptr |-> bp]
      BY <1>8 DEF coalesce
    <2>2. q = [heap |-> g, ptr |-> bp]
      BY <1>7, <1>8 DEF coalesce
    <2>3. r.heap = h /\ r.ptr = bp /\ q.heap = g /\ q.ptr = bp
      BY <2>1, <2>2
    <2> QED
      BY <2>3
  <1>9. CASE pf /\ ~nf
    <2> DEFINE h2 == delete_node(h1, prev)
               g2 == delete_node(g1, prev)
               F == (R \ {bp}) \ {prev}
               all == S[prev] + S[bp]
    <2>1. prev \in R \ {bp}
      BY <1>2, <1>6, <1>9
    <2>2. Twins(h2, g2, S, U, F, {})
      <3> HIDE DEF h1, g1, prev
      <3> QED
        BY <1>5, <2>1, DeletedTwins
    <2>3. S[bp] + S[prev] + 0 = all
      BY <1>3, <2>1
    <2>4. r = [heap |-> insert_node(Tag(h2, prev, all, 0), prev, all), ptr |-> prev]
      <3>1. GET_SIZE(h, HDRP(bp)) = S[bp] /\ GET_SIZE(h, HDRP(prev)) = S[prev]
        BY <1>4, <2>1
      <3> QED
        BY <1>9, <2>3, <3>1 DEF coalesce
    <2>5. q = [heap |-> insert_node(Tag(g2, prev, all, 0), prev, all), ptr |-> prev]
      <3>1. GET_SIZE(g, HDRP(bp)) = S[bp] /\ GET_SIZE(g, HDRP(prev)) = S[prev]
        BY <1>4, <2>1
      <3> HIDE DEF prev, next, pf, nf, all
      <3> QED
        BY <1>7, <1>9, <2>3, <3>1 DEF coalesce
    <2> HIDE DEF h1, g1, prev, next, pf, nf
    <2> HIDE DEF h2, g2
    <2>6. F = R \ {prev, bp} /\ bp = prev + S[prev] /\ prev \in R /\ bp \in R /\ prev # bp
          /\ {} \in SUBSET {prev, bp}
      BY <1>2, <1>9, <2>1
    <2> HIDE DEF F
    <2>7. r.heap = insert_node(Tag(h2, prev, all, 0), prev, all) /\ r.ptr = prev
          /\ q.heap = insert_node(Tag(g2, prev, all, 0), prev, all) /\ q.ptr = prev
      BY <2>4, <2>5
    <2> DEFINE a == all
               k == r.heap
               l == q.heap
    <2>8. a = S[prev] + S[bp] /\ k = insert_node(Tag(h2, prev, a, 0), prev, a)
          /\ l = insert_node(Tag(g2, prev, a, 0), prev, a)
      BY <2>7
    <2> HIDE DEF R, a, k, l
    <2>9. R = DOMAIN S \ U
      BY DEF R
    <2>10. \E T : Alike(k, l, T, U)
      BY <2>2, <2>6, <2>8, <2>9, RejoinedTwins
    <2> QED
      BY <2>7, <2>10 DEF k, l
  <1>10. CASE ~pf /\ nf
    <2> DEFINE h2 == delete_node(h1, next)
               g2 == delete_node(g1, next)
               F == (R \ {bp}) \ {next}
               all == S[bp] + S[next]
    <2>1. next \in R \ {bp}
      BY <1>2, <1>6, <1>10
    <2>2. Twins(h2, g2, S, U, F, {})
      <3> HIDE DEF h1, g1, next
      <3> QED
        BY <1>5, <2>1, DeletedTwins
    <2>3. S[bp] + 0 + S[next] = all
      BY <1>3, <2>1
    <2>4. r = [heap |-> insert_node(Tag(h2, bp, all, 0), bp, all), ptr |-> bp]
      <3>1. GET_SIZE(h, HDRP(bp)) = S[bp] /\ GET_SIZE(h, HDRP(next)) = S[next]
        BY <1>4, <2>1
      <3> QED
        BY <1>10, <2>3, <3>1 DEF coalesce
    <2>5. q = [heap |-> insert_node(Tag(g2, bp, all, 0), bp, all), ptr |-> bp]
      <3>1. GET_SIZE(g, HDRP(bp)) = S[bp] /\ GET_SIZE(g, HDRP(next)) = S[next]
        BY <1>4, <2>1
      <3> HIDE DEF prev, next, pf, nf, all
      <3> QED
        BY <1>7, <1>10, <2>3, <3>1 DEF coalesce
    <2> HIDE DEF h1, g1, prev, next, pf, nf
    <2> HIDE DEF h2, g2
    <2>6. F = R \ {bp, next} /\ next = bp + S[bp] /\ next \in R /\ bp \in R /\ bp # next
          /\ {} \in SUBSET {bp, next}
      BY <1>2, <1>10, <2>1
    <2> HIDE DEF F
    <2>7. r.heap = insert_node(Tag(h2, bp, all, 0), bp, all) /\ r.ptr = bp
          /\ q.heap = insert_node(Tag(g2, bp, all, 0), bp, all) /\ q.ptr = bp
      BY <2>4, <2>5
    <2> DEFINE a == all
               k == r.heap
               l == q.heap
    <2>8. a = S[bp] + S[next] /\ k = insert_node(Tag(h2, bp, a, 0), bp, a)
          /\ l = insert_node(Tag(g2, bp, a, 0), bp, a)
      BY <2>7
    <2> HIDE DEF R, a, k, l
    <2>9. R = DOMAIN S \ U
      BY DEF R
    <2>10. \E T : Alike(k, l, T, U)
      BY <2>2, <2>6, <2>8, <2>9, RejoinedTwins
    <2> QED
      BY <2>7, <2>10 DEF k, l
  <1>11. CASE pf /\ nf
    <2> DEFINE h2 == delete_node(h1, prev)
               g2 == delete_node(g1, prev)
               h3 == delete_node(h2, next)
               g3 == delete_node(g2, next)
               F == ((R \ {bp}) \ {prev}) \ {next}
               all == S[bp] + S[prev] + S[next]
    <2>1. prev \in R \ {bp} /\ next \in (R \ {bp}) \ {prev}
      BY <1>2, <1>6, <1>11
    <2>2. Twins(h2, g2, S, U, (R \ {bp}) \ {prev}, {})
      <3> HIDE DEF h1, g1, prev
      <3> QED
        BY <1>5, <2>1, DeletedTwins
    <2>3. Twins(h3, g3, S, U, F, {})
      <3> HIDE DEF h2, g2, prev, next
      <3> QED
        BY <2>1, <2>2, DeletedTwins
    <2>4. r = [heap |-> insert_node(Tag(h3, prev, all, 0), prev, all), ptr |-> prev]
      <3>1. /\ GET_SIZE(h, HDRP(bp)) = S[bp] /\ GET_SIZE(h, HDRP(next)) = S[next]
            /\ GET_SIZE(h, HDRP(prev)) = S[prev]
        BY <1>4, <2>1
      <3> QED
        BY <1>11, <3>1 DEF coalesce
    <2>5. q = [heap |-> insert_node(Tag(g3, prev, all, 0), prev, all), ptr |-> prev]
      <3>1. /\ GET_SIZE(g, HDRP(bp)) = S[bp] /\ GET_SIZE(g, HDRP(next)) = S[next]
            /\ GET_SIZE(g, HDRP(prev)) = S[prev]
        BY <1>4, <2>1
      <3> HIDE DEF prev, next, pf, nf, all
      <3> QED
        BY <1>7, <1>11, <3>1 DEF coalesce, all
    <2> HIDE DEF h1, g1, h2, g2, prev, next, pf, nf
    <2> HIDE DEF h3, g3
    <2>6. r.heap = insert_node(Tag(h3, prev, all, 0), prev, all) /\ r.ptr = prev
          /\ q.heap = insert_node(Tag(g3, prev, all, 0), prev, all) /\ q.ptr = prev
      BY <2>4, <2>5
    <2>7. PICK T : Twins(h3, g3, T, U \ {next}, F, ({} \ {next}) \cup {bp}) /\ MergedDone(S, T, bp, next)
      <3>1. bp \in DOMAIN S \ F /\ next \in DOMAIN S \ F /\ next = bp + S[bp]
        BY <1>2, <1>11, <2>1
      <3> HIDE DEF F, R
      <3> QED
        BY <2>3, <3>1, MergingTwins
    <2> DEFINE Q == DOMAIN T \ U
               X == ({} \ {next}) \cup {bp}
               a == all
               k == r.heap
               l == q.heap
    <2>8. /\ U \ {next} = U /\ X = {bp} /\ X \in SUBSET {prev, bp}
          /\ prev \in Q /\ bp \in Q /\ prev # bp /\ F = Q \ {prev, bp} /\ T[prev] = S[prev]
      BY <2>1, <2>7 DEF MergedDone
    <2>9. bp = prev + T[prev] /\ a = T[prev] + T[bp]
      <3>1. T[bp] = S[bp] + S[next] /\ T[prev] = S[prev] /\ bp = prev + S[prev]
        BY <1>2, <1>11, <2>7, <2>8 DEF MergedDone
      <3> QED
        BY <1>3, <2>1, <3>1
    <2>10. Twins(h3, g3, T, U, F, X)
      BY <2>7, <2>8
    <2>11. k = insert_node(Tag(h3, prev, a, 0), prev, a) /\ l = insert_node(Tag(g3, prev, a, 0), prev, a)
      BY <2>6
    <2>12. Q = DOMAIN T \ U
      OBVIOUS
    <2> HIDE DEF R, F, X, Q, a, k, l
    <2>13. \E V : Alike(k, l, V, U)
      BY <2>8, <2>9, <2>10, <2>11, <2>12, RejoinedTwins
    <2> QED
      BY <2>6, <2>13 DEF k, l
  <1> QED
    BY <1>8, <1>9, <1>10, <1>11

(* A layout is its domain and its sizes.                                   *)
LEMMA SameSizes ==
  ASSUME NEW h, NEW S, NEW U, NEW F, NEW X, Sound(h, S, U, F, X),
         NEW T, DOMAIN T = DOMAIN S, \A b \in DOMAIN S : T[b] = S[b]
  PROVE  Sound(h, T, U, F, X)
  <1>1. /\ h \in Heaps /\ Layout(S, h.brk) /\ Tagged(h, S, U, X)
        /\ U \subseteq DOMAIN S /\ F \subseteq DOMAIN S \ U
    BY DEF Sound
  <1>2. Layout(T, h.brk)
    BY <1>1 DEF Layout
  <1>3. Tagged(h, T, U, X)
    BY <1>1 DEF Tagged
  <1>4. PICK n \in Nat : \E L \in [1 .. n -> F] : Chained(h, S, F, n, L)
    BY DEF Sound
  <1>5. PICK L \in [1 .. n -> F] : Chained(h, S, F, n, L)
    BY <1>4
  <1>6. Chained(h, T, F, n, L)
    BY <1>1, <1>5, ChainedSame
  <1> QED
    BY <1>1, <1>2, <1>3, <1>6 DEF Sound

(* The tags tell the layout and the blocks in use.                         *)
LEMMA LayoutTold ==
  ASSUME NEW h, NEW S, NEW U, Quiet(h, S, U), NEW T, NEW V, Quiet(h, T, V)
  PROVE  DOMAIN T = DOMAIN S /\ (\A b \in DOMAIN S : T[b] = S[b]) /\ V = U
  <1>1. /\ Layout(S, h.brk) /\ Tagged(h, S, U, {}) /\ U \subseteq DOMAIN S
        /\ Layout(T, h.brk) /\ Tagged(h, T, V, {}) /\ V \subseteq DOMAIN T
    BY DEF Quiet, Sound
  <1>2. /\ \A b \in DOMAIN S : b \in Nat /\ 16 <= S[b] /\ S[b] \in Nat /\ GET_SIZE(h, HDRP(b)) = S[b]
        /\ \A b \in DOMAIN T : b \in Nat /\ 16 <= T[b] /\ T[b] \in Nat /\ GET_SIZE(h, HDRP(b)) = T[b]
    BY <1>1, Blocks, TagsRead
  <1> DEFINE D == (DOMAIN S \ DOMAIN T) \cup (DOMAIN T \ DOMAIN S)
  <1>3. D = {}
    <2> SUFFICES ASSUME D # {} PROVE FALSE
      OBVIOUS
    <2>1. D \subseteq Nat
      BY <1>2
    <2> DEFINE m == Min(D)
    <2>2. m \in D /\ \A x \in D : m <= x
      <3> HIDE DEF D
      <3> QED
        BY <2>1, MinIsLeast
    <2> HIDE DEF m
    <2>3. CASE m \in DOMAIN S \ DOMAIN T
      <3>1. m # 16
        <4>1. 16 \in DOMAIN T \cup {h.brk} /\ m + S[m] <= h.brk
          BY <1>1, <2>3 DEF Layout
        <4> QED
          BY <1>2, <2>3, <4>1
      <3>2. PICK b \in DOMAIN S : b + S[b] = m
        BY <1>1, <2>3, <3>1 DEF Layout
      <3>3. b < m /\ b \in DOMAIN T
        BY <1>2, <2>2, <3>2
      <3>4. T[b] = S[b]
        BY <1>2, <3>2, <3>3
      <3>5. b + T[b] \in DOMAIN T \cup {h.brk}
        BY <1>1, <3>3 DEF Layout
      <3>6. m + S[m] <= h.brk /\ h.brk \in Nat /\ m \in Nat
        BY <1>1, <1>2, <2>3 DEF Layout, Aligned
      <3> QED
        BY <1>2, <2>3, <3>2, <3>4, <3>5, <3>6
    <2>4. CASE m \in DOMAIN T \ DOMAIN S
      <3>1. m # 16
        <4>1. 16 \in DOMAIN S \cup {h.brk} /\ m + T[m] <= h.brk
          BY <1>1, <2>4 DEF Layout
        <4> QED
          BY <1>2, <2>4, <4>1
      <3>2. PICK b \in DOMAIN T : b + T[b] = m
        BY <1>1, <2>4, <3>1 DEF Layout
      <3>3. b < m /\ b \in DOMAIN S
        BY <1>2, <2>2, <3>2
      <3>4. T[b] = S[b]
        BY <1>2, <3>2, <3>3
      <3>5. b + S[b] \in DOMAIN S \cup {h.brk}
        BY <1>1, <3>3 DEF Layout
      <3>6. m + T[m] <= h.brk /\ h.brk \in Nat /\ m \in Nat
        BY <1>1, <1>2, <2>4 DEF Layout, Aligned
      <3> QED
        BY <1>2, <2>4, <3>2, <3>4, <3>5, <3>6
    <2> QED
      BY <2>2, <2>3, <2>4
  <1>4. DOMAIN T = DOMAIN S
    BY <1>3
  <1>5. \A b \in DOMAIN S : T[b] = S[b]
    BY <1>2, <1>4
  <1>6. \A b \in DOMAIN S : GET_ALLOC(h, HDRP(b)) = Bit(U, b) /\ GET_ALLOC(h, HDRP(b)) = Bit(V, b)
    BY <1>1, <1>4, TagsRead
  <1>7. \A b \in DOMAIN S : b \in U <=> b \in V
    BY <1>6 DEF Bit
  <1> QED
    BY <1>1, <1>4, <1>5, <1>7

(* extend_heap succeeds in both heaps or in none, with the same block.     *)
LEMMA ExtendedTwins ==
  ASSUME NEW h, NEW g, NEW S, NEW U, Alike(h, g, S, U), NEW words \in Nat, words > 8,
         NEW r, r = extend_heap(h, words), NEW q, q = extend_heap(g, words)
  PROVE  r.ptr = q.ptr /\ \E T : Alike(r.heap, q.heap, T, U)
  <1> DEFINE size == ALIGN(words)
             top == h.brk
             a == [h EXCEPT !.brk = @ + size]
             c == [g EXCEPT !.brk = @ + size]
             k1 == Tag(a, top, size, 0)
             l1 == Tag(c, top, size, 0)
             k2 == PUT(k1, HDRP(NEXT_BLKP(k1, top)), PACK(0, 1))
             l2 == PUT(l1, HDRP(NEXT_BLKP(l1, top)), PACK(0, 1))
             k3 == insert_node(k2, top, size)
             l3 == insert_node(l2, top, size)
             R == DOMAIN S \ U
  <1>1. Aligned(size) /\ 16 <= size /\ size \in Nat
    BY AlignedUp DEF Aligned
  <1>2. /\ Twins(h, g, S, U, R, {}) /\ h \in Heaps /\ g \in Heaps /\ Layout(S, top) /\ U \subseteq DOMAIN S
        /\ g.brk = top /\ g.list = h.list /\ Sound(h, S, U, R, {}) /\ Sound(g, S, U, R, {})
    BY DEF Alike, Twins, Sound
  <1>3. Aligned(top) /\ 16 <= top /\ top \in Nat
    BY <1>2 DEF Layout, Aligned
  <1>4. CASE top + size > MAX_HEAP
    <2>1. mem_sbrk(h, size) = [heap |-> h, ptr |-> -1] /\ mem_sbrk(g, size) = [heap |-> g, ptr |-> -1]
      BY <1>2, <1>4 DEF mem_sbrk
    <2>2. r = [heap |-> h, ptr |-> NULL] /\ q = [heap |-> g, ptr |-> NULL]
      BY <2>1 DEF extend_heap
    <2>3. r.heap = h /\ q.heap = g /\ r.ptr = NULL /\ q.ptr = NULL
      BY <2>2
    <2> QED
      BY <2>3
  <1>5. CASE ~(top + size > MAX_HEAP)
    <2>1. mem_sbrk(h, size).heap = a /\ mem_sbrk(h, size).ptr = top
      BY <1>1, <1>5 DEF mem_sbrk
    <2>2. mem_sbrk(g, size).heap = c /\ mem_sbrk(g, size).ptr = top
      BY <1>1, <1>2, <1>5 DEF mem_sbrk
    <2>3. r = coalesce(k3, top)
      <3> HIDE DEF size
      <3>1. top # -1
        BY <1>3
      <3> HIDE DEF a, top
      <3> QED
        BY <2>1, <3>1 DEF extend_heap, size
    <2>4. q = coalesce(l3, top)
      <3> HIDE DEF size
      <3>1. top # -1
        BY <1>3
      <3> HIDE DEF c, top
      <3> QED
        BY <2>2, <3>1 DEF extend_heap, size
    <2> HIDE DEF size
    <2>5. top + size <= MAX_HEAP
      BY <1>1, <1>3, <1>5, MaxHeap
    <2>6. Lengthened(h, k2, top, size)
      <3> HIDE DEF top
      <3> QED
        BY <1>1, <1>2, <1>3, <2>5, LengthenedStored DEF top
    <2>7. Lengthened(g, l2, top, size)
      <3>1. top = g.brk
        BY <1>2
      <3> HIDE DEF top
      <3> QED
        BY <1>1, <1>2, <1>3, <2>5, <3>1, LengthenedStored
    <2> HIDE DEF k2, l2, top, R
    <2>8. PICK T : /\ Sound(k2, T, U, R, {}) /\ DOMAIN T = DOMAIN S \cup {top} /\ top \notin DOMAIN S
                   /\ T[top] = size /\ \A d \in DOMAIN S : T[d] = S[d]
      BY <1>1, <1>2, <2>5, <2>6, LengthenedSound DEF top
    <2>9. PICK V : /\ Sound(l2, V, U, R, {}) /\ DOMAIN V = DOMAIN S \cup {top} /\ top \notin DOMAIN S
                   /\ V[top] = size /\ \A d \in DOMAIN S : V[d] = S[d]
      BY <1>1, <1>2, <2>5, <2>7, LengthenedSound
    <2>10. Sound(l2, T, U, R, {})
      <3>1. DOMAIN T = DOMAIN V /\ \A d \in DOMAIN V : T[d] = V[d]
        BY <2>8, <2>9
      <3> QED
        BY <2>9, <3>1, SameSizes
    <2>11. Twins(k2, l2, T, U, R, {})
      <3>1. \A p \in Places : GET(g, p) = GET(h, p) => GET(l2, p) = GET(k2, p)
        BY <2>6, <2>7 DEF Lengthened
      <3>2. \A b \in R : b \in Places /\ b + 4 \in Places
        BY <1>2, Blocks DEF R
      <3>3. \A b \in R : GET(l2, b) = GET(k2, b) /\ GET(l2, b + 4) = GET(k2, b + 4)
        BY <1>2, <3>1, <3>2 DEF Twins
      <3>4. l2.brk = k2.brk /\ l2.list = k2.list
        BY <1>2, <2>6, <2>7 DEF Lengthened
      <3> QED
        BY <2>8, <2>10, <3>3, <3>4 DEF Twins
    <2>12. Twins(k3, l3, T, U, R \cup {top}, {})
      <3>1. /\ top \in DOMAIN T \ U /\ top \notin R
            /\ k3 = insert_node(k2, top, T[top]) /\ l3 = insert_node(l2, top, T[top])
        BY <1>2, <2>8 DEF R
      <3> HIDE DEF k3, l3
      <3> QED
        BY <2>11, <3>1, InsertedTwins
    <2> HIDE DEF k3, l3
    <2>13. R \cup {top} = DOMAIN T \ U /\ top \in DOMAIN T \ U
      BY <1>2, <2>8 DEF R
    <2>14. Alike(k3, l3, T, U)
      BY <2>12, <2>13 DEF Alike
    <2> QED
      BY <2>3, <2>4, <2>13, <2>14, CoalescedTwins
  <1> QED
    BY <1>4, <1>5

(* The two parts of a block are tagged in both heaps.                      *)
LEMMA SplitTwins ==
  ASSUME NEW h, NEW g, NEW S, NEW U, NEW F, NEW b \in DOMAIN S \ F, NEW X \in SUBSET {b},
         Twins(h, g, S, U, F, X), NEW low, NEW high, NEW d, SplitAt(S, b, low, high, d),
         NEW a1 \in {0, 1}, NEW a2 \in {0, 1},
         NEW k, k = Tag(Tag(h, b, low, a1), d, high, a2),
         NEW l, l = Tag(Tag(g, b, low, a1), d, high, a2)
  PROVE  \E T : /\ Twins(k, l, T, Mark(Mark(U, b, a1), d, a2), F, {})
                /\ DividedDone(S, T, h.brk, b, low)
  <1> DEFINE h1 == Tag(h, b, low, a1)
             g1 == Tag(g, b, low, a1)
             V == Mark(U, b, a1)
             W == Mark(V, d, a2)
             Y == (X \cup {b, d}) \ {b}
  <1>1. d = b + low /\ Divisible(S, b, low) /\ high = S[b] - low
    BY DEF SplitAt
  <1>2. PICK T : Twins(h, g, T, U, F, X \cup {b, d}) /\ DividedDone(S, T, h.brk, b, low)
    BY <1>1, DividingTwins
  <1>3. F \subseteq DOMAIN S
    BY DEF Twins, Sound
  <1>4. /\ DOMAIN T = DOMAIN S \cup {d} /\ d \notin DOMAIN S /\ T[b] = low /\ T[d] = high
        /\ b \in DOMAIN T \ F /\ d \in DOMAIN T \ F /\ b # d
    BY <1>1, <1>2, <1>3 DEF DividedDone
  <1>5. Twins(h1, g1, T, V, F, Y)
    <2>1. h1 = Tag(h, b, T[b], a1) /\ g1 = Tag(g, b, T[b], a1)
      BY <1>4
    <2> HIDE DEF h1, g1
    <2> QED
      BY <1>2, <1>4, <2>1, RetaggedTwins
  <1>6. Y \ {d} = {}
    OBVIOUS
  <1> HIDE DEF Y, h1, g1, V
  <1>7. Twins(k, l, T, W, F, Y \ {d})
    <2>1. k = Tag(h1, d, T[d], a2) /\ l = Tag(g1, d, T[d], a2)
      BY <1>4 DEF h1, g1
    <2> QED
      BY <1>4, <1>5, <2>1, RetaggedTwins
  <1> QED
    BY <1>2, <1>6, <1>7 DEF V

(* place cuts the block at the same end in both heaps.                     *)
LEMMA PlacedTwins ==
  ASSUME NEW h, NEW g, NEW S, NEW U, Alike(h, g, S, U), NEW bp \in DOMAIN S \ U,
         NEW n, Aligned(n), 16 <= n, n <= S[bp],
         NEW r, r = place(h, bp, n), NEW q, q = place(g, bp, n)
  PROVE  r.ptr = q.ptr /\ \E T : Alike(r.heap, q.heap, T, U \cup {r.ptr})
  <1> DEFINE R == DOMAIN S \ U
             F == R \ {bp}
             h1 == delete_node(h, bp)
             g1 == delete_node(g, bp)
             rest == S[bp] - n
  <1>1. /\ Twins(h, g, S, U, R, {}) /\ Layout(S, h.brk) /\ Layout(S, g.brk)
        /\ Tagged(h, S, U, {}) /\ Tagged(g, S, U, {}) /\ U \subseteq DOMAIN S
    BY DEF Alike, Twins, Sound
  <1>2. GET_SIZE(h, HDRP(bp)) = S[bp] /\ GET_SIZE(g, HDRP(bp)) = S[bp]
    BY <1>1, TagsRead
  <1>3. Twins(h1, g1, S, U, F, {})
    BY <1>1, DeletedTwins
  <1>4. /\ bp \in Nat /\ S[bp] \in Nat /\ n \in Nat /\ rest \in Nat /\ Aligned(S[bp])
        /\ Aligned(rest) /\ S[bp] - rest = n
    <2>1. bp \in Nat /\ S[bp] \in Nat /\ Aligned(S[bp])
      BY <1>1, Blocks
    <2>2. n \in Nat
      BY DEF Aligned
    <2> QED
      BY <2>1, <2>2, AlignedSums DEF Aligned
  <1>5. bp \in DOMAIN S \ F /\ {} \in SUBSET {bp}
    OBVIOUS
  <1>6. Sound(h1, S, U, F, {}) /\ Sound(g1, S, U, F, {})
    BY <1>3 DEF Twins
  <1>7. CASE rest <= 16
    <2> DEFINE k == Tag(h1, bp, S[bp], 1)
               l == Tag(g1, bp, S[bp], 1)
    <2>1. r = [heap |-> k, ptr |-> bp] /\ q = [heap |-> l, ptr |-> bp]
      BY <1>2, <1>7 DEF place, DSIZE
    <2> HIDE DEF h1, g1
    <2>2. Twins(k, l, S, Mark(U, bp, 1), F, {} \ {bp})
      <3> HIDE DEF F
      <3> QED
        BY <1>3, <1>5, RetaggedTwins
    <2> HIDE DEF k, l
    <2>3. Mark(U, bp, 1) = U \cup {bp} /\ {} \ {bp} = {} /\ F = DOMAIN S \ (U \cup {bp})
      BY DEF Mark
    <2>4. Alike(k, l, S, U \cup {bp})
      BY <2>2, <2>3 DEF Alike
    <2>5. r.heap = k /\ q.heap = l /\ r.ptr = bp /\ q.ptr = bp
      BY <2>1
    <2> QED
      BY <2>4, <2>5
  <1>8. CASE ~(rest <= 16) /\ n >= BIG
    <2> DEFINE d == bp + rest
               h2 == Tag(Tag(h1, bp, rest, 0), d, n, 1)
               g2 == Tag(Tag(g1, bp, rest, 0), d, n, 1)
               h3 == insert_node(h2, bp, rest)
               g3 == insert_node(g2, bp, rest)
    <2>1. Divisible(S, bp, rest)
      BY <1>4, <1>8 DEF Divisible
    <2> DEFINE x == d
               y == rest
    <2>2. SplitAt(S, bp, y, n, x)
      BY <1>4, <2>1 DEF SplitAt
    <2>3. NEXT_BLKP(Tag(h1, bp, rest, 0), bp) = d /\ NEXT_BLKP(Tag(g1, bp, rest, 0), bp) = d
      <3> HIDE DEF h1, g1, F, x, y
      <3> QED
        BY <1>5, <1>6, <2>2, Split DEF x, y
    <2>4. \E T : /\ Twins(h2, g2, T, Mark(Mark(U, bp, 0), d, 1), F, {})
                 /\ DividedDone(S, T, h1.brk, bp, rest)
      <3> DEFINE k == h2
                 l == g2
      <3>1. k = Tag(Tag(h1, bp, y, 0), x, n, 1) /\ l = Tag(Tag(g1, bp, y, 0), x, n, 1)
        OBVIOUS
      <3> HIDE DEF h1, g1, F, x, y, k, l
      <3>2. \E T : /\ Twins(k, l, T, Mark(Mark(U, bp, 0), x, 1), F, {})
                   /\ DividedDone(S, T, h1.brk, bp, y)
        BY <1>3, <1>5, <2>2, <3>1, SplitTwins
      <3> QED
        BY <3>2 DEF x, y, k, l
    <2>5. r = [heap |-> h3, ptr |-> d] /\ q = [heap |-> g3, ptr |-> d]
      <3>1. place(h, bp, n) = [heap |-> insert_node(Tag(Tag(h1, bp, rest, 0), NEXT_BLKP(Tag(h1, bp, rest, 0), bp), n, 1 - 0), bp, rest), ptr |-> bp + rest]
        BY <1>2, <1>4, <1>8 DEF place, DSIZE
      <3>2. place(g, bp, n) = [heap |-> insert_node(Tag(Tag(g1, bp, rest, 0), NEXT_BLKP(Tag(g1, bp, rest, 0), bp), n, 1 - 0), bp, rest), ptr |-> bp + rest]
        BY <1>2, <1>4, <1>8 DEF place, DSIZE
      <3> HIDE DEF h1, g1
      <3> QED
        BY <2>3, <3>1, <3>2
    <2>6. PICK T : /\ Twins(h2, g2, T, Mark(Mark(U, bp, 0), d, 1), F, {})
                   /\ DividedDone(S, T, h1.brk, bp, rest)
      BY <2>4
    <2> HIDE DEF h1, g1, h2, g2
    <2>7. /\ DOMAIN T = DOMAIN S \cup {d} /\ d \notin DOMAIN S /\ T[bp] = rest
          /\ Mark(Mark(U, bp, 0), d, 1) = U \cup {d}
      BY <2>6 DEF DividedDone, Mark
    <2> HIDE DEF d, rest
    <2>8. Twins(h3, g3, T, U \cup {d}, F \cup {bp}, {})
      <3>1. /\ bp \in DOMAIN T \ (U \cup {d}) /\ bp \notin F
            /\ h3 = insert_node(h2, bp, T[bp]) /\ g3 = insert_node(g2, bp, T[bp])
        BY <2>7
      <3>2. Twins(h2, g2, T, U \cup {d}, F, {})
        BY <2>6, <2>7
      <3> HIDE DEF h3, g3, F
      <3> QED
        BY <3>1, <3>2, InsertedTwins
    <2> HIDE DEF h3, g3
    <2>9. F \cup {bp} = DOMAIN T \ (U \cup {d})
      BY <1>1, <2>7
    <2>10. Alike(h3, g3, T, U \cup {d})
      BY <2>8, <2>9 DEF Alike
    <2>11. r.heap = h3 /\ q.heap = g3 /\ r.ptr = d /\ q.ptr = d
      BY <2>5
    <2> QED
      BY <2>10, <2>11
  <1>9. CASE ~(rest <= 16) /\ ~(n >= BIG)
    <2> DEFINE d == bp + n
               h2 == Tag(Tag(h1, bp, n, 1), d, rest, 0)
               g2 == Tag(Tag(g1, bp, n, 1), d, rest, 0)
               h3 == insert_node(h2, d, rest)
               g3 == insert_node(g2, d, rest)
    <2>1. Divisible(S, bp, n)
      BY <1>4, <1>9 DEF Divisible
    <2> DEFINE x == d
               y == rest
    <2>2. SplitAt(S, bp, n, y, x)
      BY <1>4, <2>1 DEF SplitAt
    <2>3. NEXT_BLKP(Tag(h1, bp, n, 1), bp) = d /\ NEXT_BLKP(Tag(g1, bp, n, 1), bp) = d
      <3> HIDE DEF h1, g1, F, x, y
      <3> QED
        BY <1>5, <1>6, <2>2, Split DEF x, y
    <2>4. \E T : /\ Twins(h2, g2, T, Mark(Mark(U, bp, 1), d, 0), F, {})
                 /\ DividedDone(S, T, h1.brk, bp, n)
      <3> DEFINE k == h2
                 l == g2
      <3>1. k = Tag(Tag(h1, bp, n, 1), x, y, 0) /\ l = Tag(Tag(g1, bp, n, 1), x, y, 0)
        OBVIOUS
      <3> HIDE DEF h1, g1, F, x, y, k, l
      <3>2. \E T : /\ Twins(k, l, T, Mark(Mark(U, bp, 1), x, 0), F, {})
                   /\ DividedDone(S, T, h1.brk, bp, n)
        BY <1>3, <1>5, <2>2, <3>1, SplitTwins
      <3> QED
        BY <3>2 DEF x, y, k, l
    <2>5. r = [heap |-> h3, ptr |-> bp] /\ q = [heap |-> g3, ptr |-> bp]
      <3>1. place(h, bp, n) = [heap |-> insert_node(Tag(Tag(h1, bp, n, 1), NEXT_BLKP(Tag(h1, bp, n, 1), bp), rest, 1 - 1), bp + n, rest), ptr |-> bp]
        BY <1>2, <1>4, <1>9 DEF place, DSIZE
      <3>2. place(g, bp, n) = [heap |-> insert_node(Tag(Tag(g1, bp, n, 1), NEXT_BLKP(Tag(g1, bp, n, 1), bp), rest, 1 - 1), bp + n, rest), ptr |-> bp]
        BY <1>2, <1>4, <1>9 DEF place, DSIZE
      <3> HIDE DEF h1, g1
      <3> QED
        BY <2>3, <3>1, <3>2
    <2>6. PICK T : /\ Twins(h2, g2, T, Mark(Mark(U, bp, 1), d, 0), F, {})
                   /\ DividedDone(S, T, h1.brk, bp, n)
      BY <2>4
    <2> HIDE DEF h1, g1, h2, g2
    <2>7. /\ DOMAIN T = DOMAIN S \cup {d} /\ d \notin DOMAIN S /\ T[d] = rest
      BY <2>6 DEF DividedDone
    <2>a. Mark(Mark(U, bp, 1), d, 0) = U \cup {bp}
      BY <1>1, <2>7 DEF Mark
    <2> HIDE DEF d, rest
    <2>8. Twins(h3, g3, T, U \cup {bp}, F \cup {d}, {})
      <3>1. /\ d \in DOMAIN T \ (U \cup {bp}) /\ d \notin F
            /\ h3 = insert_node(h2, d, T[d]) /\ g3 = insert_node(g2, d, T[d])
        BY <1>1, <2>7
      <3>2. Twins(h2, g2, T, U \cup {bp}, F, {})
        BY <2>6, <2>a
      <3> HIDE DEF h3, g3, F
      <3> QED
        BY <3>1, <3>2, InsertedTwins
    <2> HIDE DEF h3, g3
    <2>9. F \cup {d} = DOMAIN T \ (U \cup {bp})
      BY <1>1, <2>7
    <2>10. Alike(h3, g3, T, U \cup {bp})
      BY <2>8, <2>9 DEF Alike
    <2>11. r.heap = h3 /\ q.heap = g3 /\ r.ptr = bp /\ q.ptr = bp
      BY <2>5
    <2> QED
      BY <2>10, <2>11
  <1> QED
    BY <1>7, <1>8, <1>9

(* The search finds the same block.                                        *)
LEMMA BestTwins ==
  ASSUME NEW h, NEW g, NEW S, NEW U, Alike(h, g, S, U), NEW adj
  PROVE  BestFit(g, adj) = BestFit(h, adj)
  <1> DEFINE F == DOMAIN S \ U
  <1>1. /\ Twins(h, g, S, U, F, {}) /\ Layout(S, h.brk) /\ Layout(S, g.brk)
        /\ Tagged(h, S, U, {}) /\ Tagged(g, S, U, {})
    BY DEF Alike, Twins, Sound
  <1>2. PICK n \in Nat : \E L \in [1 .. n -> F] : Chain(h) = L /\ Chain(g) = L
    BY <1>1, TwinChains
  <1>3. PICK L \in [1 .. n -> F] : Chain(h) = L /\ Chain(g) = L
    BY <1>2
  <1>4. \A k \in DOMAIN L : /\ GET_SIZE(h, HDRP(L[k])) = S[L[k]] /\ GET_SIZE(g, HDRP(L[k])) = S[L[k]]
                            /\ GET_ALLOC(h, HDRP(L[k])) = Bit(U, L[k])
                            /\ GET_ALLOC(g, HDRP(L[k])) = Bit(U, L[k])
    BY <1>1, TagsRead
  <1> DEFINE fits(x) == {k \in DOMAIN L : GET_ALLOC(x, HDRP(L[k])) = 0 /\ GET_SIZE(x, HDRP(L[k])) >= adj}
             best(x) == {k \in fits(x) : \A j \in fits(x) : GET_SIZE(x, HDRP(L[k])) <= GET_SIZE(x, HDRP(L[j]))}
  <1>5. fits(h) = fits(g)
    BY <1>4
  <1>6. best(h) = best(g)
    <2>1. \A k \in fits(h) : GET_SIZE(h, HDRP(L[k])) = GET_SIZE(g, HDRP(L[k]))
      BY <1>4
    <2> HIDE DEF fits
    <2> QED
      BY <1>5, <2>1
  <1>7. BestFit(h, adj) = IF fits(h) = {} THEN NULL ELSE L[Min(best(h))]
    BY <1>3 DEF BestFit, BestIn
  <1>8. BestFit(g, adj) = IF fits(g) = {} THEN NULL ELSE L[Min(best(g))]
    BY <1>3 DEF BestFit, BestIn
  <1> HIDE DEF fits, best
  <1> QED
    BY <1>5, <1>6, <1>7, <1>8

(* A pointer that is handed out is one more block in use.                  *)
WithBlock(U, p) == IF p = NULL THEN U ELSE U \cup {p}

(* Blocks of twins are not the null pointer.                               *)
LEMMA TwinsQuiet ==
  ASSUME NEW h, NEW g, NEW S, NEW U, Alike(h, g, S, U)
  PROVE  Quiet(h, S, U) /\ Quiet(g, S, U) /\ U \subseteq DOMAIN S /\ NULL \notin DOMAIN S
  <1>1. Quiet(h, S, U) /\ Quiet(g, S, U)
    BY DEF Alike, Twins, Quiet
  <1>2. U \subseteq DOMAIN S /\ Layout(S, h.brk)
    BY <1>1 DEF Quiet, Sound
  <1>3. \A b \in DOMAIN S : 16 <= b
    BY <1>2, Blocks
  <1> QED
    BY <1>1, <1>2, <1>3 DEF NULL

(* mm_malloc hands out the same block in both heaps.                       *)
LEMMA MallocTwins ==
  ASSUME NEW h, NEW g, NEW S, NEW U, Alike(h, g, S, U), NEW size \in Nat \ {0},
         NEW r, r = mm_malloc(h, size), NEW q, q = mm_malloc(g, size)
  PROVE  r.ptr = q.ptr /\ \E T : Alike(r.heap, q.heap, T, WithBlock(U, r.ptr))
  <1> DEFINE adj == ALIGN(size + DSIZE)
             best_fit == BestFit(h, adj)
             words == Larger(adj, CHUNKSIZE)
             m == IF best_fit # NULL THEN [heap |-> h, ptr |-> best_fit] ELSE extend_heap(h, words)
             n == IF best_fit # NULL THEN [heap |-> g, ptr |-> best_fit] ELSE extend_heap(g, words)
  <1>0. best_fit = BestFit(g, adj)
    BY BestTwins
  <1>1. /\ r = IF m.ptr = NULL THEN m ELSE place(m.heap, m.ptr, adj)
        /\ q = IF n.ptr = NULL THEN n ELSE place(n.heap, n.ptr, adj)
    <2>1. r = IF m.ptr = NULL THEN m ELSE place(m.heap, m.ptr, adj)
      BY DEF mm_malloc, place_found
    <2> DEFINE fit == BestFit(g, adj)
               o == IF fit # NULL THEN [heap |-> g, ptr |-> fit] ELSE extend_heap(g, words)
    <2>2. q = IF o.ptr = NULL THEN o ELSE place(o.heap, o.ptr, adj)
      BY DEF mm_malloc, place_found
    <2>3. o = n
      <3>1. fit = best_fit
        BY <1>0
      <3> HIDE DEF fit, best_fit, words
      <3> QED
        BY <3>1
    <2> HIDE DEF o, n
    <2> QED
      BY <2>1, <2>2, <2>3
  <1>2. Aligned(adj) /\ 16 <= adj /\ adj \in Nat
    <2> DEFINE z == size + 8
    <2>1. z \in Nat /\ z > 8
      OBVIOUS
    <2> HIDE DEF z
    <2>2. Aligned(ALIGN(z)) /\ ALIGN(z) >= 16
      BY <2>1, AlignedUp
    <2> QED
      BY <2>2 DEF z, DSIZE, Aligned
  <1>3. words \in Nat /\ words > 8 /\ words >= adj
    <2>1. CHUNKSIZE \in Nat
      BY HeapAssumption
    <2> HIDE DEF adj
    <2> QED
      BY <1>2, <2>1 DEF Larger
  <1>4. Quiet(h, S, U) /\ Quiet(g, S, U) /\ NULL \notin DOMAIN S
    BY TwinsQuiet
  <1> HIDE DEF adj
  <1>5. m.ptr = n.ptr /\ \E T : Alike(m.heap, n.heap, T, U)
    <2>1. CASE best_fit # NULL
      <3>1. m.heap = h /\ m.ptr = best_fit /\ n.heap = g /\ n.ptr = best_fit
        BY <2>1
      <3> HIDE DEF best_fit, m, n
      <3> QED
        BY <3>1
    <2>2. CASE best_fit = NULL
      <3>1. m = extend_heap(h, words) /\ n = extend_heap(g, words)
        BY <2>2
      <3> HIDE DEF m, n, words
      <3> QED
        BY <1>3, <3>1, ExtendedTwins
    <2> QED
      BY <2>1, <2>2
  <1>6. m.ptr # NULL => \E T : Quiet(m.heap, T, U) /\ m.ptr \in DOMAIN T \ U /\ T[m.ptr] >= adj
    <2> SUFFICES ASSUME m.ptr # NULL
                 PROVE  \E T : Quiet(m.heap, T, U) /\ m.ptr \in DOMAIN T \ U /\ T[m.ptr] >= adj
      OBVIOUS
    <2>1. CASE best_fit # NULL
      <3>1. best_fit \in DOMAIN S \ U /\ S[best_fit] >= adj
        BY <1>2, <1>4, <2>1, BestFits
      <3>2. m.heap = h /\ m.ptr = best_fit
        BY <2>1
      <3> HIDE DEF best_fit, m
      <3> QED
        BY <1>4, <3>1, <3>2
    <2>2. CASE best_fit = NULL
      <3>1. m = extend_heap(h, words)
        BY <2>2
      <3> HIDE DEF m, words
      <3>2. PICK T : /\ Settled(h, m.heap, S, T, U)
                     /\ m.ptr \in DOMAIN T \ U /\ T[m.ptr] >= ALIGN(words)
        BY <1>3, <1>4, <3>1, HeapExtended
      <3>3. ALIGN(words) >= words /\ ALIGN(words) \in Nat
        BY <1>3, AlignedUp DEF Aligned
      <3>4. T[m.ptr] \in Nat
        BY <3>2, Blocks DEF Settled, Quiet, Sound
      <3>5. T[m.ptr] >= adj
        BY <1>2, <1>3, <3>2, <3>3, <3>4
      <3> QED
        BY <3>2, <3>5 DEF Settled
    <2> QED
      BY <2>1, <2>2
  <1> HIDE DEF m, n
  <1>7. PICK T : Alike(m.heap, n.heap, T, U)
    BY <1>5
  <1>8. CASE m.ptr = NULL
    <2>1. r = m /\ q = n
      BY <1>1, <1>5, <1>8
    <2> QED
      BY <1>5, <1>7, <1>8, <2>1 DEF WithBlock
  <1>9. CASE m.ptr # NULL
    <2>1. PICK V : Quiet(m.heap, V, U) /\ m.ptr \in DOMAIN V \ U /\ V[m.ptr] >= adj
      BY <1>6, <1>9
    <2>2. m.ptr \in DOMAIN T \ U /\ T[m.ptr] >= adj /\ T[m.ptr] \in Nat
      <3>1. Quiet(m.heap, T, U)
        BY <1>7, TwinsQuiet
      <3>2. DOMAIN V = DOMAIN T /\ \A b \in DOMAIN T : V[b] = T[b]
        BY <2>1, <3>1, LayoutTold
      <3>3. T[m.ptr] \in Nat
        BY <2>1, <3>1, <3>2, Blocks DEF Quiet, Sound
      <3> QED
        BY <2>1, <3>2, <3>3
    <2>3. r = place(m.heap, m.ptr, adj) /\ q = place(n.heap, m.ptr, adj)
      BY <1>1, <1>5, <1>9
    <2>4. r.ptr = q.ptr /\ \E W : Alike(r.heap, q.heap, W, U \cup {r.ptr})
      <3>1. adj <= T[m.ptr]
        BY <1>2, <2>2
      <3> QED
        BY <1>2, <1>7, <2>2, <2>3, <3>1, PlacedTwins
    <2>5. r.ptr # NULL
      BY <2>4, TwinsQuiet
    <2> QED
      BY <2>4, <2>5 DEF WithBlock
  <1> QED
    BY <1>8, <1>9

(* mm_free leaves twins.                                                   *)
LEMMA FreeTwins ==
  ASSUME NEW h, NEW g, NEW S, NEW U, Alike(h, g, S, U), NEW ptr \in U,
         NEW r, r = mm_free(h, ptr), NEW q, q = mm_free(g, ptr)
  PROVE  \E T : Alike(r, q, T, U \ {ptr})
  <1> DEFINE R == DOMAIN S \ U
             V == U \ {ptr}
             k == insert_node(Tag(h, ptr, S[ptr], 0), ptr, S[ptr])
             l == insert_node(Tag(g, ptr, S[ptr], 0), ptr, S[ptr])
             m == coalesce(k, ptr)
             n == coalesce(l, ptr)
  <1>1. /\ Twins(h, g, S, U, R, {}) /\ Layout(S, h.brk) /\ Layout(S, g.brk)
        /\ Tagged(h, S, U, {}) /\ Tagged(g, S, U, {}) /\ U \subseteq DOMAIN S
    BY DEF Alike, Twins, Sound
  <1>2. GET_SIZE(h, HDRP(ptr)) = S[ptr] /\ GET_SIZE(g, HDRP(ptr)) = S[ptr]
    BY <1>1, TagsRead
  <1>3. r = m.heap /\ q = n.heap
    BY <1>2 DEF mm_free
  <1>4. Twins(k, l, S, V, R \cup {ptr}, {})
    <2>1. ptr \in DOMAIN S \ R /\ {} \in SUBSET {ptr}
      BY <1>1
    <2> HIDE DEF R, k, l
    <2> QED
      BY <1>1, <2>1, FreedTwins DEF k, l
  <1>5. R \cup {ptr} = DOMAIN S \ V /\ ptr \in DOMAIN S \ V
    BY <1>1
  <1> HIDE DEF k, l, V
  <1>6. Alike(k, l, S, V)
    BY <1>4, <1>5 DEF Alike
  <1> HIDE DEF m, n, R
  <1>7. m.ptr = n.ptr /\ \E T : Alike(m.heap, n.heap, T, V)
    BY <1>5, <1>6, CoalescedTwins DEF m, n
  <1> QED
    BY <1>3, <1>7 DEF V

(* mm_init makes twins of any two heaps.                                   *)
LEMMA InitTwins ==
  ASSUME NEW h \in Heaps, NEW g \in Heaps
  PROVE  \E T : Alike(mm_init(mem_reset_brk(h)), mm_init(mem_reset_brk(g)), T, {})
  <1>1. PICK p : Empty(p) /\ mm_init(mem_reset_brk(h)) = extend_heap(p, INITCHUNKSIZE).heap
    BY PrologueLaid
  <1>2. PICK q : Empty(q) /\ mm_init(mem_reset_brk(g)) = extend_heap(q, INITCHUNKSIZE).heap
    BY PrologueLaid
  <1>3. DOMAIN NoBlocks = {}
    BY DEF NoBlocks
  <1> DEFINE S == NoBlocks
  <1> HIDE DEF S
  <1>4. Alike(p, q, S, {})
    <2>1. Quiet(p, S, {}) /\ Quiet(q, S, {}) /\ p.brk = 16 /\ q.brk = 16 /\ p.list = NULL /\ q.list = NULL
      BY <1>1, <1>2 DEF Empty, S
    <2>2. DOMAIN S \ {} = {}
      BY <1>3 DEF S
    <2> QED
      BY <2>1, <2>2 DEF Alike, Twins, Quiet
  <1>5. INITCHUNKSIZE \in Nat /\ INITCHUNKSIZE > 8
    BY HeapAssumption DEF MIN_BLOCK_SIZE
  <1> DEFINE r == extend_heap(p, INITCHUNKSIZE)
             s == extend_heap(q, INITCHUNKSIZE)
  <1> HIDE DEF r, s
  <1>6. \E T : Alike(r.heap, s.heap, T, {})
    BY <1>4, <1>5, ExtendedTwins DEF r, s
  <1> QED
    BY <1>1, <1>2, <1>6 DEF r, s

(* Writing into the payloads of a block in use leaves twins.               *)
LEMMA PayloadTwins ==
  ASSUME NEW h, NEW g, NEW S, NEW U, Alike(h, g, S, U), NEW b \in U,
         NEW k \in Heaps, k.brk = h.brk, k.list = h.list,
         \A a \in Places : ~Payload(S, b, a) => GET(k, a) = GET(h, a),
         NEW l \in Heaps, l.brk = g.brk, l.list = g.list,
         \A a \in Places : ~Payload(S, b, a) => GET(l, a) = GET(g, a)
  PROVE  Alike(k, l, S, U)
  <1> DEFINE F == DOMAIN S \ U
  <1>1. /\ Quiet(h, S, U) /\ Quiet(g, S, U) /\ U \subseteq DOMAIN S /\ Layout(S, h.brk)
        /\ g.brk = h.brk /\ g.list = h.list
        /\ \A c \in F : GET(g, c) = GET(h, c) /\ GET(g, c + 4) = GET(h, c + 4)
    BY DEF Alike, Twins, Quiet, Sound
  <1>2. Quiet(k, S, U) /\ Quiet(l, S, U)
    BY <1>1, PayloadWritten
  <1>3. \A c \in F : GET(l, c) = GET(k, c) /\ GET(l, c + 4) = GET(k, c + 4)
    <2> TAKE c \in F
    <2>1. c \in Places /\ c + 4 \in Places /\ c # b /\ c \in DOMAIN S
      BY <1>1, Blocks
    <2>2. Owns(S, c, c) /\ Owns(S, c, c + 4)
      BY <1>1, <2>1, Parts
    <2>3. ASSUME NEW x \in Places, Owns(S, c, x), Payload(S, b, x) PROVE FALSE
      <3>1. Owns(S, b, x) /\ x \in Int
        BY <1>1, <2>3, Parts DEF Payload, Places
      <3> QED
        BY <1>1, <2>1, <2>3, <3>1, Apart
    <2> QED
      BY <1>1, <2>1, <2>2, <2>3
  <1> QED
    BY <1>1, <1>2, <1>3 DEF Alike, Twins, Quiet

(* Trim cuts the block alike.                                              *)
LEMMA TrimTwins ==
  ASSUME NEW h, NEW g, NEW S, NEW U, NEW ptr \in U, NEW X \in SUBSET {ptr},
         Twins(h, g, S, U, DOMAIN S \ U, X), NEW adj, Divisible(S, ptr, adj),
         NEW k, k = Trim(h, ptr, S[ptr], adj), NEW l, l = Trim(g, ptr, S[ptr], adj)
  PROVE  \E T : Alike(k, l, T, U)
  <1> DEFINE F == DOMAIN S \ U
             d == ptr + adj
             rest == S[ptr] - adj
             k1 == Tag(Tag(h, ptr, adj, 1), d, rest, 0)
             l1 == Tag(Tag(g, ptr, adj, 1), d, rest, 0)
  <1>1. k = insert_node(k1, d, rest) /\ l = insert_node(l1, d, rest)
    BY DEF Trim
  <1>2. U \subseteq DOMAIN S
    BY DEF Twins, Sound
  <1>3. ptr \in DOMAIN S \ F
    BY <1>2
  <1>4. SplitAt(S, ptr, adj, rest, d)
    BY DEF SplitAt
  <1>5. Twins(h, g, S, U, F, X)
    OBVIOUS
  <1> HIDE DEF F, d, rest
  <1>6. PICK T : /\ Twins(k1, l1, T, Mark(Mark(U, ptr, 1), d, 0), F, {})
                 /\ DividedDone(S, T, h.brk, ptr, adj)
    <2> DEFINE x == k1
               y == l1
    <2>1. x = Tag(Tag(h, ptr, adj, 1), d, rest, 0) /\ y = Tag(Tag(g, ptr, adj, 1), d, rest, 0)
      OBVIOUS
    <2> HIDE DEF x, y
    <2>2. \E T : /\ Twins(x, y, T, Mark(Mark(U, ptr, 1), d, 0), F, {})
                 /\ DividedDone(S, T, h.brk, ptr, adj)
      BY <1>3, <1>4, <1>5, <2>1, SplitTwins
    <2> QED
      BY <2>2 DEF x, y
  <1>7. d \notin DOMAIN S /\ DOMAIN T = DOMAIN S \cup {d} /\ T[d] = rest
    BY <1>6 DEF DividedDone, d, rest
  <1>8. Mark(Mark(U, ptr, 1), d, 0) = U
    BY <1>2, <1>7 DEF Mark
  <1> HIDE DEF k1, l1
  <1>9. Twins(k, l, T, U, F \cup {d}, {})
    <2>1. d \in DOMAIN T \ U /\ d \notin F /\ k = insert_node(k1, d, T[d]) /\ l = insert_node(l1, d, T[d])
      BY <1>1, <1>2, <1>7 DEF F
    <2> QED
      BY <1>6, <1>8, <2>1, InsertedTwins
  <1>10. F \cup {d} = DOMAIN T \ U
    BY <1>2, <1>7 DEF F
  <1> QED
    BY <1>9, <1>10 DEF Alike

(* The free block behind ptr is joined to it in both heaps.                *)
LEMMA JoinTwins ==
  ASSUME NEW h, NEW g, NEW S, NEW U, Alike(h, g, S, U), NEW ptr \in U,
         NEW next \in DOMAIN S \ U, next = ptr + S[ptr],
         NEW k, k = delete_node(h, next), NEW l, l = delete_node(g, next)
  PROVE  \E T : Twins(k, l, T, U, DOMAIN T \ U, {ptr}) /\ T[ptr] = S[ptr] + S[next]
  <1> DEFINE R == DOMAIN S \ U
             F == R \ {next}
  <1>1. Twins(h, g, S, U, R, {}) /\ U \subseteq DOMAIN S
    BY DEF Alike, Twins, Sound
  <1>2. Twins(k, l, S, U, F, {})
    BY <1>1, DeletedTwins
  <1>3. PICK T : Twins(k, l, T, U \ {next}, F, ({} \ {next}) \cup {ptr}) /\ MergedDone(S, T, ptr, next)
    <2>1. ptr \in DOMAIN S \ F /\ next \in DOMAIN S \ F
      BY <1>1
    <2> HIDE DEF F
    <2> QED
      BY <1>2, <2>1, MergingTwins
  <1>4. U \ {next} = U /\ ({} \ {next}) \cup {ptr} = {ptr}
    OBVIOUS
  <1>5. F = DOMAIN T \ U /\ T[ptr] = S[ptr] + S[next]
    BY <1>1, <1>3 DEF MergedDone
  <1> QED
    BY <1>3, <1>4, <1>5

(* A block moves to the same place in both heaps.                          *)
LEMMA MovedTwins ==
  ASSUME NEW h, NEW g, NEW S, NEW U, Alike(h, g, S, U), NEW ptr \in U, NEW n \in Nat \ {0},
         NEW r, r = Moved(h, ptr, n), NEW q, q = Moved(g, ptr, n)
  PROVE  /\ r.ptr = q.ptr
         /\ \E T : Alike(r.heap, q.heap, T, IF r.ptr = NULL THEN U ELSE (U \ {ptr}) \cup {r.ptr})
  <1> DEFINE new == mm_malloc(h, n)
             fresh == mm_malloc(g, n)
             kept == Smaller(n, S[ptr] - 8)
             p == new.ptr
             m == memcpy(new.heap, p, ptr, kept)
             l == memcpy(fresh.heap, p, ptr, kept)
             W == U \cup {p}
  <1>1. /\ Quiet(h, S, U) /\ Layout(S, h.brk) /\ Layout(S, g.brk)
        /\ Tagged(h, S, U, {}) /\ Tagged(g, S, U, {}) /\ U \subseteq DOMAIN S
    BY DEF Alike, Twins, Quiet, Sound
  <1>2. GET_SIZE(h, HDRP(ptr)) = S[ptr] /\ GET_SIZE(g, HDRP(ptr)) = S[ptr]
    BY <1>1, TagsRead
  <1>3. new.ptr = fresh.ptr /\ \E T : Alike(new.heap, fresh.heap, T, WithBlock(U, new.ptr))
    <2> HIDE DEF new, fresh
    <2> QED
      BY MallocTwins DEF new, fresh
  <1>4. r = IF new.ptr = NULL THEN new ELSE [heap |-> mm_free(m, ptr), ptr |-> p]
    BY <1>2 DEF Moved, MovedTo, DSIZE
  <1>5. q = IF new.ptr = NULL THEN fresh ELSE [heap |-> mm_free(l, ptr), ptr |-> p]
    <2> DEFINE z == fresh.ptr
    <2>1. q = IF z = NULL THEN fresh ELSE [heap |-> mm_free(memcpy(fresh.heap, z, ptr, kept), ptr), ptr |-> z]
      BY <1>2 DEF Moved, MovedTo, DSIZE
    <2>2. z = p
      BY <1>3
    <2> HIDE DEF z, p, fresh
    <2>3. new.ptr = p
      BY DEF p
    <2> QED
      BY <2>1, <2>2, <2>3
  <1> DEFINE Known == /\ p \in DOMAIN S => p \notin U
                      /\ p # NULL => p \notin U
  <1>6. p # NULL => \E V : Placed(h, new, S, V, U, n + 8)
    <2> HIDE DEF new
    <2>1. new = mm_malloc(h, n)
      BY DEF new
    <2> QED
      BY <1>1, <2>1, MallocSound
  <1> HIDE DEF new, fresh
  <1>7. CASE p = NULL
    <2>1. r = new /\ q = fresh
      BY <1>4, <1>5, <1>7
    <2> QED
      BY <1>3, <1>7, <2>1 DEF WithBlock
  <1>8. CASE p # NULL
    <2>1. PICK T : Alike(new.heap, fresh.heap, T, W)
      BY <1>3, <1>8 DEF WithBlock
    <2>2. PICK V : Placed(h, new, S, V, U, n + 8)
      BY <1>6, <1>8
    <2>3. /\ Quiet(new.heap, V, W) /\ p \notin U /\ p \in DOMAIN V
          /\ V[p] >= n + 8 /\ \A b \in U : V[b] = S[b]
      BY <2>2 DEF Placed
    <2>4. Quiet(new.heap, T, W) /\ Quiet(fresh.heap, T, W)
      BY <2>1, TwinsQuiet
    <2>5. DOMAIN V = DOMAIN T /\ \A b \in DOMAIN T : V[b] = T[b]
      BY <2>3, <2>4, LayoutTold
    <2>6. /\ new.heap \in Heaps /\ fresh.heap \in Heaps /\ W \subseteq DOMAIN T
          /\ Layout(T, new.heap.brk) /\ Layout(T, fresh.heap.brk)
      BY <2>4 DEF Quiet, Sound
    <2>7. p \in DOMAIN T /\ ptr \in DOMAIN T /\ T[p] >= n + 8 /\ T[ptr] = S[ptr]
      BY <2>3, <2>5, <2>6
    <2>8. T[p] \in Nat /\ S[ptr] \in Nat /\ 16 <= S[ptr]
      BY <2>6, <2>7, Blocks
    <2>9. kept \in Nat \ {0} /\ kept <= T[p] - 8 /\ kept <= T[ptr] - 8
      BY <2>7, <2>8 DEF Smaller
    <2> HIDE DEF kept
    <2> DEFINE a == new.heap
               c == fresh.heap
    <2>10. m = memcpy(a, p, ptr, kept) /\ l = memcpy(c, p, ptr, kept)
      OBVIOUS
    <2> HIDE DEF m, l, p, W
    <2>11. /\ m \in Heaps /\ m.brk = a.brk /\ m.list = a.list
           /\ \A x \in Places : ~Payload(T, p, x) => GET(m, x) = GET(a, x)
      BY <2>6, <2>7, <2>9, <2>10, MemoryCopied
    <2>12. /\ l \in Heaps /\ l.brk = c.brk /\ l.list = c.list
           /\ \A x \in Places : ~Payload(T, p, x) => GET(l, x) = GET(c, x)
      BY <2>6, <2>7, <2>9, <2>10, MemoryCopied
    <2>13. p \in W /\ ptr \in W
      BY DEF W
    <2>14. Alike(m, l, T, W)
      <3>1. Alike(a, c, T, W)
        BY <2>1
      <3> HIDE DEF a, c
      <3> QED
        BY <2>11, <2>12, <2>13, <3>1, PayloadTwins
    <2> DEFINE x == mm_free(m, ptr)
               y == mm_free(l, ptr)
    <2> HIDE DEF x, y
    <2>15. \E Z : Alike(x, y, Z, W \ {ptr})
      BY <2>13, <2>14, FreeTwins DEF x, y
    <2>16. W \ {ptr} = (U \ {ptr}) \cup {p}
      BY <2>3 DEF W
    <2>17. r = [heap |-> x, ptr |-> p] /\ q = [heap |-> y, ptr |-> p]
      BY <1>4, <1>5, <1>8 DEF x, y, p
    <2>18. r.heap = x /\ q.heap = y /\ r.ptr = p /\ q.ptr = p
      BY <2>17
    <2> QED
      BY <1>8, <2>15, <2>16, <2>18
  <1> QED
    BY <1>7, <1>8

(* mm_realloc, told by the layout.                                         *)
Reallocated(h, S, U, ptr, n, adj, next) ==
    IF S[ptr] >= adj
    THEN [heap |-> IF S[ptr] - adj >= 16 THEN Trim(h, ptr, S[ptr], adj) ELSE h, ptr |-> ptr]
    ELSE IF next \in DOMAIN S \ U /\ S[ptr] + S[next] >= adj
    THEN [heap |-> IF (S[ptr] + S[next]) - adj >= 16
                   THEN Trim(delete_node(h, next), ptr, S[ptr] + S[next], adj)
                   ELSE Tag(delete_node(h, next), ptr, S[ptr] + S[next], 1),
          ptr |-> ptr]
    ELSE Moved(h, ptr, n)

(* mm_realloc reads nothing but tags before it decides.                    *)
LEMMA ReallocTold ==
  ASSUME NEW h, NEW S, NEW U, Quiet(h, S, U), NEW ptr \in U, NEW n \in Nat \ {0},
         NEW r, r = mm_realloc(h, ptr, n)
  PROVE  r = Reallocated(h, S, U, ptr, n, IF n <= 8 THEN 16 ELSE ALIGN(n + 8), ptr + S[ptr])
  <1> DEFINE adj == IF n <= 8 THEN 16 ELSE ALIGN(n + 8)
             cur == S[ptr]
             next == NEXT_BLKP(h, ptr)
             joined == delete_node(h, next)
             both == cur + GET_SIZE(h, HDRP(next))
  <1>1. /\ Sound(h, S, U, DOMAIN S \ U, {}) /\ Layout(S, h.brk) /\ Tagged(h, S, U, {})
        /\ U \subseteq DOMAIN S
    BY DEF Quiet, Sound
  <1>2. /\ GET_SIZE(h, HDRP(ptr)) = cur /\ next = ptr + cur
        /\ GET_ALLOC(h, HDRP(next)) = 0 => next \in DOMAIN S \ U
    BY <1>1, TagsRead, Neighbours
  <1>3. next \in DOMAIN S \ U => GET_ALLOC(h, HDRP(next)) = 0 /\ GET_SIZE(h, HDRP(next)) = S[next]
    <2> HIDE DEF next
    <2> QED
      BY <1>1, TagsRead DEF Bit
  <1>4. ptr # NULL
    BY <1>1, Blocks DEF NULL
  <1>5. adj = IF n <= DSIZE THEN 2 * DSIZE ELSE ALIGN(n + DSIZE)
    BY DEF DSIZE
  <1> HIDE DEF adj
  <1>6. r = IF cur >= adj
            THEN [heap |-> IF cur - adj >= 16 THEN Trim(h, ptr, cur, adj) ELSE h, ptr |-> ptr]
            ELSE IF GET_ALLOC(h, HDRP(next)) = 0 /\ both >= adj
            THEN [heap |-> IF both - adj >= 16 THEN Trim(joined, ptr, both, adj)
                           ELSE Tag(joined, ptr, both, 1), ptr |-> ptr]
            ELSE Moved(h, ptr, n)
    <2> HIDE DEF cur, next, joined
    <2>1. n # 0 /\ MIN_BLOCK_SIZE = 16
      BY DEF MIN_BLOCK_SIZE
    <2> QED
      BY <1>2, <1>4, <1>5, <2>1 DEF mm_realloc, joined, next
  <1> DEFINE d == ptr + cur
  <1>7. next = d
    BY <1>2
  <1>8. CASE next \in DOMAIN S \ U
    <2>1. both = cur + S[d] /\ joined = delete_node(h, d) /\ GET_ALLOC(h, HDRP(next)) = 0 /\ d \in DOMAIN S \ U
      BY <1>3, <1>7, <1>8
    <2> HIDE DEF both, joined, next, d
    <2> QED
      BY <1>6, <2>1 DEF Reallocated, adj, d
  <1>9. CASE next \notin DOMAIN S \ U
    <2>1. GET_ALLOC(h, HDRP(next)) # 0 /\ d \notin DOMAIN S \ U
      BY <1>2, <1>7, <1>9
    <2> HIDE DEF both, joined, next, d
    <2> QED
      BY <1>6, <2>1 DEF Reallocated, adj, d
  <1> QED
    BY <1>8, <1>9

(* mm_realloc hands out the same block in both heaps.                      *)
LEMMA ReallocTwins ==
  ASSUME NEW h, NEW g, NEW S, NEW U, Alike(h, g, S, U), NEW ptr \in U, NEW n \in Nat \ {0},
         NEW r, r = mm_realloc(h, ptr, n), NEW q, q = mm_realloc(g, ptr, n)
  PROVE  /\ r.ptr = q.ptr
         /\ \E T : Alike(r.heap, q.heap, T, IF r.ptr = NULL THEN U ELSE (U \ {ptr}) \cup {r.ptr})
  <1> DEFINE adj == IF n <= 8 THEN 16 ELSE ALIGN(n + 8)
             next == ptr + S[ptr]
             cur == S[ptr]
             Done(x, y) == \E T : Alike(x, y, T, U)
  <1>1. /\ Quiet(h, S, U) /\ Quiet(g, S, U) /\ U \subseteq DOMAIN S /\ Layout(S, h.brk)
        /\ Twins(h, g, S, U, DOMAIN S \ U, {})
    BY DEF Alike, Twins, Quiet, Sound
  <1>2. /\ r = Reallocated(h, S, U, ptr, n, adj, next)
        /\ q = Reallocated(g, S, U, ptr, n, adj, next)
    BY <1>1, ReallocTold
  <1>3. ptr \in DOMAIN S /\ ptr # NULL /\ cur \in Nat /\ (U \ {ptr}) \cup {ptr} = U
    <2>1. \A b \in DOMAIN S : S[b] \in Nat /\ 16 <= b
      BY <1>1, Blocks
    <2> QED
      BY <1>1, <2>1 DEF NULL
  <1>4. Aligned(adj) /\ 16 <= adj /\ adj \in Nat
    <2>1. CASE n <= 8
      BY <2>1 DEF Aligned
    <2>2. CASE ~(n <= 8)
      <3> DEFINE k == n + 8
      <3>1. k \in Nat /\ k > 8
        OBVIOUS
      <3> HIDE DEF k
      <3>2. Aligned(ALIGN(k)) /\ ALIGN(k) >= 16
        BY <3>1, AlignedUp
      <3>3. adj = ALIGN(k)
        BY <2>2 DEF k
      <3> HIDE DEF adj
      <3> QED
        BY <3>2, <3>3 DEF Aligned
    <2> QED
      BY <2>1, <2>2
  <1> HIDE DEF adj, next, cur
  <1>5. ASSUME NEW x, NEW y, Done(x, y), r = [heap |-> x, ptr |-> ptr], q = [heap |-> y, ptr |-> ptr]
        PROVE  /\ r.ptr = q.ptr
               /\ \E T : Alike(r.heap, q.heap, T, IF r.ptr = NULL THEN U ELSE (U \ {ptr}) \cup {r.ptr})
    <2>1. r.heap = x /\ q.heap = y /\ r.ptr = ptr /\ q.ptr = ptr
      BY <1>5
    <2> QED
      BY <1>3, <1>5, <2>1
  <1>6. CASE cur >= adj /\ cur - adj >= 16
    <2> DEFINE x == Trim(h, ptr, cur, adj)
               y == Trim(g, ptr, cur, adj)
    <2>1. r = [heap |-> x, ptr |-> ptr] /\ q = [heap |-> y, ptr |-> ptr]
      BY <1>2, <1>6 DEF Reallocated, cur
    <2>2. Divisible(S, ptr, adj) /\ {} \in SUBSET {ptr}
      BY <1>3, <1>4, <1>6 DEF Divisible, cur
    <2>3. x = Trim(h, ptr, S[ptr], adj) /\ y = Trim(g, ptr, S[ptr], adj)
      BY DEF cur
    <2> HIDE DEF x, y
    <2>4. Done(x, y)
      BY <1>1, <2>2, <2>3, TrimTwins
    <2> QED
      BY <1>5, <2>1, <2>4
  <1>7. CASE cur >= adj /\ ~(cur - adj >= 16)
    <2>1. r = [heap |-> h, ptr |-> ptr] /\ q = [heap |-> g, ptr |-> ptr]
      BY <1>2, <1>7 DEF Reallocated, cur
    <2> QED
      BY <1>5, <2>1
  <1>8. CASE ~(cur >= adj) /\ next \in DOMAIN S \ U /\ cur + S[next] >= adj
    <2> DEFINE k == delete_node(h, next)
               l == delete_node(g, next)
               both == cur + S[next]
               x == IF both - adj >= 16 THEN Trim(k, ptr, both, adj) ELSE Tag(k, ptr, both, 1)
               y == IF both - adj >= 16 THEN Trim(l, ptr, both, adj) ELSE Tag(l, ptr, both, 1)
    <2>1. r = [heap |-> x, ptr |-> ptr] /\ q = [heap |-> y, ptr |-> ptr]
      BY <1>2, <1>8 DEF Reallocated, cur
    <2>2. PICK T : Twins(k, l, T, U, DOMAIN T \ U, {ptr}) /\ T[ptr] = both
      <3>1. next = ptr + S[ptr] /\ both = S[ptr] + S[next]
        BY DEF next, cur
      <3>2. k = delete_node(h, next) /\ l = delete_node(g, next)
        OBVIOUS
      <3> HIDE DEF both, k, l
      <3>3. \E T : Twins(k, l, T, U, DOMAIN T \ U, {ptr}) /\ T[ptr] = S[ptr] + S[next]
        <4>1. next \in DOMAIN S \ U /\ next = ptr + S[ptr]
          BY <1>8, <3>1
        <4> HIDE DEF Done
        <4> QED
          BY <3>2, <4>1, JoinTwins, SMTT(30)
      <3> QED
        BY <3>1, <3>3
    <2>3. both \in Nat /\ both >= adj /\ ptr \in DOMAIN T /\ U \subseteq DOMAIN T
      <3>1. S[next] \in Nat
        BY <1>1, <1>8, Blocks
      <3>2. U \subseteq DOMAIN T
        BY <2>2 DEF Twins, Sound
      <3> QED
        BY <1>3, <1>8, <3>1, <3>2
    <2> HIDE DEF k, l, both
    <2>4. CASE both - adj >= 16
      <3>1. x = Trim(k, ptr, T[ptr], adj) /\ y = Trim(l, ptr, T[ptr], adj)
        BY <2>2, <2>4
      <3>2. Divisible(T, ptr, adj)
        BY <1>4, <2>2, <2>3, <2>4 DEF Divisible
      <3> HIDE DEF x, y
      <3>3. Done(x, y)
        BY <2>2, <3>1, <3>2, TrimTwins
      <3> QED
        BY <1>5, <2>1, <3>3
    <2>5. CASE ~(both - adj >= 16)
      <3>1. x = Tag(k, ptr, T[ptr], 1) /\ y = Tag(l, ptr, T[ptr], 1)
        BY <2>2, <2>5
      <3> DEFINE F == DOMAIN T \ U
      <3>2. ptr \in DOMAIN T \ F /\ Twins(k, l, T, U, F, {ptr})
        BY <2>2, <2>3
      <3> HIDE DEF x, y, F
      <3>3. Twins(x, y, T, Mark(U, ptr, 1), F, {ptr} \ {ptr})
        BY <3>1, <3>2, RetaggedTwins
      <3>4. Mark(U, ptr, 1) = U /\ {ptr} \ {ptr} = {}
        BY DEF Mark
      <3>5. Done(x, y)
        BY <3>3, <3>4 DEF Alike, F
      <3> QED
        BY <1>5, <2>1, <3>5
    <2> QED
      BY <2>4, <2>5
  <1>9. CASE ~(cur >= adj) /\ ~(next \in DOMAIN S \ U /\ cur + S[next] >= adj)
    <2>1. r = Moved(h, ptr, n) /\ q = Moved(g, ptr, n)
      BY <1>2, <1>9 DEF Reallocated, cur
    <2> QED
      BY <2>1, MovedTwins
  <1> QED
    BY <1>6, <1>7, <1>8, <1>9

(* Being twins is transitive.                                              *)
LEMMA AlikeTwice ==
  ASSUME NEW h, NEW g, NEW k, NEW S, NEW T, NEW U, Alike(h, g, S, U), Alike(g, k, T, U)
  PROVE  Alike(h, k, S, U)
  <1>1. Quiet(g, S, U) /\ Quiet(g, T, U) /\ Quiet(k, T, U)
    BY TwinsQuiet
  <1>2. DOMAIN T = DOMAIN S /\ \A b \in DOMAIN S : T[b] = S[b]
    BY <1>1, LayoutTold
  <1> DEFINE F == DOMAIN S \ U
  <1>3. Twins(h, g, S, U, F, {}) /\ Twins(g, k, T, U, F, {})
    BY <1>2 DEF Alike
  <1>4. Sound(k, T, U, F, {})
    BY <1>3 DEF Twins
  <1>5. Sound(k, S, U, F, {})
    <2> HIDE DEF F
    <2>1. DOMAIN S = DOMAIN T /\ \A b \in DOMAIN T : S[b] = T[b]
      BY <1>2
    <2> QED
      BY <1>4, <2>1, SameSizes
  <1>6. Twins(h, k, S, U, F, {})
    BY <1>3, <1>5 DEF Twins
  <1> QED
    BY <1>6 DEF Alike

----------------------------------------------------------------------------
(* What the driver reports *)

(* What a request gets from the heap h when bs names the blocks.           *)
Answer(h, bs, op) ==
    CASE op.type = "alloc" -> mm_malloc(h, op.size)
      [] op.type = "realloc" -> mm_realloc(h, bs[op.index], op.size)
      [] op.type = "free" -> [heap |-> mm_free(h, bs[op.index]), ptr |-> NULL]

(* The driver goes on after the answer r; the blocks it holds then.        *)
Answered(op, r) == op.type = "free" \/ r.ptr # NULL
Rebound(bs, op, r) == IF op.type = "free" THEN bs ELSE With(bs, op.index, r.ptr)

(* The ids hold the same blocks of two heaps that are twins.               *)
Paired(h, bs, g, cs, ids) ==
    /\ ids \subseteq DOMAIN bs /\ ids \subseteq DOMAIN cs
    /\ \A id \in ids : cs[id] = bs[id]
    /\ \E S : Alike(h, g, S, Held(bs, ids))

(* A heap with its blocks is paired with itself.                           *)
LEMMA PairedSelf ==
  ASSUME NEW h, NEW bs, NEW lv, NEW S, InUse(h, bs, lv, S)
  PROVE  Paired(h, bs, h, bs, DOMAIN lv)
  <1>1. Quiet(h, S, Held(bs, DOMAIN lv)) /\ DOMAIN lv \subseteq DOMAIN bs
    BY DEF InUse
  <1> QED
    BY <1>1 DEF Paired, Alike, Twins, Quiet

(* Pairs make chains.                                                      *)
LEMMA PairedTwice ==
  ASSUME NEW h, NEW bs, NEW g, NEW cs, NEW k, NEW ds, NEW ids,
         Paired(h, bs, g, cs, ids), Paired(g, cs, k, ds, ids)
  PROVE  Paired(h, bs, k, ds, ids)
  <1>1. Held(cs, ids) = Held(bs, ids)
    BY DEF Held, Paired
  <1>2. PICK S : Alike(h, g, S, Held(bs, ids))
    BY DEF Paired
  <1>3. PICK T : Alike(g, k, T, Held(bs, ids))
    BY <1>1 DEF Paired
  <1>4. Alike(h, k, S, Held(bs, ids))
    BY <1>2, <1>3, AlikeTwice
  <1> QED
    BY <1>4 DEF Paired

(* A request gets the same answer from either of a pair.                   *)
LEMMA AnswersAlike ==
  ASSUME NEW h, NEW bs, NEW lv, NEW Z, InUse(h, bs, lv, Z),
         NEW g, NEW cs, Paired(h, bs, g, cs, DOMAIN lv),
         NEW op \in Requests, Follows(DOMAIN lv, op),
         NEW r, r = Answer(h, bs, op), NEW q, q = Answer(g, cs, op)
  PROVE  /\ r.ptr = q.ptr
         /\ Answered(op, r) =>
               Paired(r.heap, Rebound(bs, op, r), q.heap, Rebound(cs, op, q), Uses(DOMAIN lv, op))
  <1> DEFINE ids == DOMAIN lv
             U == Held(bs, ids)
             id == op.index
             n == op.size
             p == bs[id]
  <1>1. PICK S : Alike(h, g, S, U)
    BY DEF Paired
  <1>2. /\ ids \subseteq DOMAIN bs /\ ids \subseteq DOMAIN cs /\ \A j \in ids : cs[j] = bs[j]
        /\ \A j, k \in ids : bs[j] = bs[k] => j = k
    BY DEF Paired, InUse
  <1>3. id \in ids => p \in U /\ cs[id] = p /\ U \ {p} = Held(bs, ids \ {id})
    BY <1>2 DEF Held
  <1> HIDE DEF ids
  <1>4. ASSUME NEW b, r.ptr = b, q.ptr = b, op.type # "free",
               \E T : Alike(r.heap, q.heap, T, Held(bs, ids \ {id}) \cup {b})
        PROVE  Paired(r.heap, Rebound(bs, op, r), q.heap, Rebound(cs, op, q), Uses(ids, op))
    <2> DEFINE bs1 == With(bs, id, b)
               cs1 == With(cs, id, b)
               all == ids \cup {id}
    <2>1. Rebound(bs, op, r) = bs1 /\ Rebound(cs, op, q) = cs1 /\ Uses(ids, op) = all
      BY <1>4 DEF Rebound, Uses
    <2>2. /\ DOMAIN bs1 = DOMAIN bs \cup {id} /\ bs1[id] = b /\ \A x \in DOMAIN bs \ {id} : bs1[x] = bs[x]
          /\ DOMAIN cs1 = DOMAIN cs \cup {id} /\ cs1[id] = b /\ \A x \in DOMAIN cs \ {id} : cs1[x] = cs[x]
      BY DEF With
    <2> HIDE DEF bs1, cs1, id
    <2>3. all \subseteq DOMAIN bs1 /\ all \subseteq DOMAIN cs1 /\ \A j \in all : cs1[j] = bs1[j]
      BY <1>2, <2>2
    <2>4. Held(bs1, all) = Held(bs, ids \ {id}) \cup {b}
      BY <1>2, <2>2 DEF Held
    <2> HIDE DEF all
    <2>5. Paired(r.heap, bs1, q.heap, cs1, all)
      BY <1>4, <2>3, <2>4 DEF Paired, id
    <2> QED
      BY <2>1, <2>5
  <1>5. CASE op.type = "alloc"
    <2>1. id \notin ids /\ n \in Nat \ {0}
      BY <1>5 DEF Follows, Requests, ids
    <2>2. r = mm_malloc(h, n) /\ q = mm_malloc(g, n)
      BY <1>5 DEF Answer
    <2>3. Held(bs, ids \ {id}) = U
      BY <2>1
    <2> HIDE DEF U, id, n
    <2>4. r.ptr = q.ptr /\ \E T : Alike(r.heap, q.heap, T, WithBlock(U, r.ptr))
      BY <1>1, <2>1, <2>2, MallocTwins
    <2>5. ASSUME r.ptr # NULL
          PROVE  Paired(r.heap, Rebound(bs, op, r), q.heap, Rebound(cs, op, q), Uses(ids, op))
      <3>1. op.type # "free" /\ \E T : Alike(r.heap, q.heap, T, U \cup {r.ptr})
        BY <1>5, <2>4, <2>5 DEF WithBlock
      <3> QED
        BY <1>4, <2>3, <2>4, <3>1
    <2> QED
      BY <1>5, <2>4, <2>5 DEF Answered, ids
  <1>6. CASE op.type = "realloc"
    <2>1. id \in ids /\ n \in Nat \ {0}
      BY <1>6 DEF Follows, Requests, ids
    <2>2. r = mm_realloc(h, p, n) /\ q = mm_realloc(g, p, n)
      BY <1>3, <1>6, <2>1 DEF Answer
    <2>3. Held(bs, ids \ {id}) = U \ {p} /\ p \in U
      BY <1>3, <2>1
    <2> HIDE DEF U, id, n, p
    <2>4. /\ r.ptr = q.ptr
          /\ \E T : Alike(r.heap, q.heap, T, IF r.ptr = NULL THEN U ELSE (U \ {p}) \cup {r.ptr})
      BY <1>1, <2>1, <2>2, <2>3, ReallocTwins
    <2>5. ASSUME r.ptr # NULL
          PROVE  Paired(r.heap, Rebound(bs, op, r), q.heap, Rebound(cs, op, q), Uses(ids, op))
      <3>1. op.type # "free" /\ \E T : Alike(r.heap, q.heap, T, (U \ {p}) \cup {r.ptr})
        BY <1>6, <2>4, <2>5
      <3> QED
        BY <1>4, <2>3, <2>4, <3>1
    <2> QED
      BY <1>6, <2>4, <2>5 DEF Answered, ids
  <1>7. CASE op.type = "free"
    <2>1. id \in ids
      BY <1>7 DEF Follows, ids
    <2>2. r = [heap |-> mm_free(h, p), ptr |-> NULL] /\ q = [heap |-> mm_free(g, p), ptr |-> NULL]
      BY <1>3, <1>7, <2>1 DEF Answer
    <2>3. Held(bs, ids \ {id}) = U \ {p} /\ p \in U
      BY <1>3, <2>1
    <2>4. Rebound(bs, op, r) = bs /\ Rebound(cs, op, q) = cs /\ Uses(ids, op) = ids \ {id}
      BY <1>7 DEF Rebound, Uses
    <2> HIDE DEF U, id, n, p
    <2> DEFINE x == mm_free(h, p)
               y == mm_free(g, p)
    <2>5. r.heap = x /\ q.heap = y /\ r.ptr = q.ptr
      BY <2>2
    <2> HIDE DEF x, y
    <2>6. \E T : Alike(x, y, T, U \ {p})
      BY <1>1, <2>3, FreeTwins DEF x, y
    <2>7. Paired(x, bs, y, cs, ids \ {id})
      BY <1>2, <2>3, <2>6 DEF Paired
    <2> QED
      BY <2>4, <2>5, <2>7 DEF ids
  <1> QED
    BY <1>5, <1>6, <1>7 DEF Requests

(* The ranges of the blocks bs of the sizes lv.                            *)
Extents(bs, lv, ids) == {Extent(bs[id], lv[id]) : id \in ids}

(* While eval_mm_valid runs, the range list holds the blocks in use, and   *)
(* block_sizes the sizes asked for.                                        *)
RangesKept == pc = "valid" =>
    /\ ranges = Extents(blocks, live, DOMAIN live)
    /\ \A id \in DOMAIN live : id \in DOMAIN block_sizes /\ block_sizes[id] = live[id]

(* The complaints that are justified.                                      *)
Justified(e) == e.what = "no block" \/ (e.what = "data lost" /\ AsChar(e.index) < 0)
ErrorsJustified == \A e \in errors : Justified(e)

(* A block in use is no bad range.                                         *)
LEMMA RangeFits ==
  ASSUME NEW h, NEW bs, NEW lv, NEW S, InUse(h, bs, lv, S), NEW id \in DOMAIN lv
  PROVE  add_range_ok(h, Extents(bs, lv, DOMAIN lv \ {id}), bs[id], lv[id])
  <1> DEFINE p == bs[id]
             n == lv[id]
             hi == p + n - 1
  <1>1. /\ p \in DOMAIN S /\ p \in Nat /\ p % 8 = 0 /\ S[p] \in Nat /\ n \in Nat \ {0}
        /\ n + 8 <= S[p] /\ Layout(S, h.brk)
    BY BlocksOfIds
  <1>2. p + S[p] <= h.brk /\ h.brk \in Nat
    BY <1>1, Blocks
  <1>3. ASSUME NEW k \in DOMAIN lv \ {id}
        PROVE  LET r == Extent(bs[k], lv[k]) IN p \notin r.lo .. r.hi /\ hi \notin r.lo .. r.hi
    <2> DEFINE q == bs[k]
               m == lv[k]
    <2>1. q \in DOMAIN S /\ q \in Nat /\ S[q] \in Nat /\ m \in Nat \ {0} /\ m + 8 <= S[q]
      BY BlocksOfIds
    <2>2. p # q
      BY DEF InUse
    <2>3. p < q \/ q < p
      BY <1>1, <2>1, <2>2
    <2>4. p < q => p + S[p] <= q
      BY <1>1, <2>1 DEF Layout
    <2>5. q < p => q + S[q] <= p
      BY <1>1, <2>1 DEF Layout
    <2> HIDE DEF p, n, q, m
    <2>6. p \notin q .. (q + m - 1) /\ hi \notin q .. (q + m - 1)
      BY <1>1, <2>1, <2>3, <2>4, <2>5
    <2>7. Extent(q, m).lo = q /\ Extent(q, m).hi = q + m - 1
      BY DEF Extent
    <2> QED
      BY <2>6, <2>7 DEF q, m
  <1> HIDE DEF p, n
  <1>4. {p, hi} \subseteq 0 .. h.brk - 1
    BY <1>1, <1>2
  <1>5. \A r \in Extents(bs, lv, DOMAIN lv \ {id}) : p \notin r.lo .. r.hi /\ hi \notin r.lo .. r.hi
    BY <1>3 DEF Extents
  <1>6. add_range_ok(h, Extents(bs, lv, DOMAIN lv \ {id}), p, n)
    BY <1>1, <1>4, <1>5 DEF add_range_ok, mem_heap_lo, mem_heap_hi, ALIGNMENT
  <1> QED
    BY <1>6 DEF p, n

(* A block that carries the data of an id below 128 passes the check.      *)
LEMMA DataPasses ==
  ASSUME NEW h, h \in Heaps, NEW p \in Nat, p % 4 = 0, NEW m \in Nat \ {0}, p + m <= MAX_HEAP,
         NEW id \in Ids, Filled(h, p, m, id), AsChar(id) >= 0
  PROVE  \A w \in WordsOf(p, m) : AsChar(h.mem[w]) = id
  <1> SUFFICES ASSUME NEW w \in WordsOf(p, m) PROVE AsChar(h.mem[w]) = id
    OBVIOUS
  <1>1. w \in Int /\ p <= 4 * w /\ 4 * w < p + m /\ w \in Nat
    <2> DEFINE lo == p \div 4
               z == p + m - 1
    <2>1. lo \in Nat /\ p = 4 * lo /\ z \in Nat
      OBVIOUS
    <2> HIDE DEF lo, z
    <2>2. z \div 4 \in Int /\ 4 * (z \div 4) <= z
      BY <2>1
    <2>3. w \in lo .. (z \div 4)
      BY DEF WordsOf, WSIZE, lo, z
    <2> QED
      BY <2>1, <2>2, <2>3 DEF z
  <1> DEFINE a == 4 * w - p
  <1>2. a \in Nat /\ a % 4 = 0 /\ a < m /\ p + a = 4 * w /\ (4 * w) \div 4 = w
    <2>1. a \in Nat /\ a < m /\ p + a = 4 * w
      BY <1>1
    <2>2. a % 4 = 0
      BY <1>1
    <2>3. (4 * w) \div 4 = w
      BY <1>1
    <2> QED
      BY <2>1, <2>2, <2>3
  <1> HIDE DEF a
  <1>3. GET(h, p + a) = id
    BY <1>2 DEF Filled
  <1>4. h.mem[w] = id
    BY <1>2, <1>3 DEF GET, WSIZE
  <1>5. id \in 1 .. 255
    BY DriverAssumption
  <1>6. AsChar(id) = id
    BY <1>5 DEF AsChar
  <1> QED
    BY <1>4, <1>6

(* The ranges of the blocks a request leaves alone.                        *)
LEMMA OtherExtents ==
  ASSUME RangesKept, pc = "valid", NEW S, InUse(heap, blocks, live, S), NEW op \in Requests,
         Follows(DOMAIN live, op)
  PROVE  OtherRanges(op) = Extents(blocks, live, DOMAIN live \ {op.index})
  <1> DEFINE id == op.index
  <1>1. ranges = Extents(blocks, live, DOMAIN live)
    BY DEF RangesKept
  <1>2. CASE op.type = "alloc"
    <2>1. DOMAIN live \ {id} = DOMAIN live
      BY <1>2 DEF Follows
    <2> QED
      BY <1>1, <1>2, <2>1 DEF OtherRanges
  <1>3. CASE op.type # "alloc"
    <2>1. id \in DOMAIN live
      BY <1>3 DEF Follows
    <2>2. OtherRanges(op) = {r \in ranges : r.lo # blocks[id]}
      BY <1>3 DEF OtherRanges, remove_range
    <2>3. \A k \in DOMAIN live : /\ Extent(blocks[k], live[k]).lo = blocks[k]
                                 /\ blocks[k] = blocks[id] => k = id
      BY <2>1 DEF Extent, InUse
    <2> HIDE DEF id
    <2>4. {r \in ranges : r.lo # blocks[id]} = Extents(blocks, live, DOMAIN live \ {id})
      BY <1>1, <2>3 DEF Extents
    <2> QED
      BY <2>2, <2>4 DEF id
  <1> QED
    BY <1>2, <1>3

(* The checks of eval_mm_valid find nothing to say of a block handed out,  *)
(* but that the data of an id above 127 were lost.                         *)
LEMMA VerdictJustified ==
  ASSUME IInv, RangesKept, pc = "valid", NEW op \in Legal, op.type # "free",
         NEW r, r = Result(op), r.ptr # NULL
  PROVE  \/ Verdict(op, r, OtherRanges(op)) = "good"
         \/ Verdict(op, r, OtherRanges(op)) = "data lost" /\ AsChar(op.index) < 0
  <1> DEFINE id == op.index
             n == op.size
             rs == OtherRanges(op)
  <1>1. pc \in Evaluations /\ heap \in Heaps
    BY DEF Evaluations, IInv
  <1>2. op \in Requests /\ Follows(DOMAIN live, op)
    BY <1>1, IdsInUse, LegalFollows
  <1>3. PICK S : InUse(heap, blocks, live, S)
    BY <1>1 DEF IInv, BlocksHeld
  <1>4. PICK T : /\ Granted(heap, blocks, live, S, id, n, r, T)
                 /\ op.type = "realloc" =>
                      Carried(heap, r.heap, blocks[id], r.ptr, Smaller(n, S[blocks[id]] - 8))
    BY <1>1, <1>2, <1>3, RequestServed
  <1>5. rs = Extents(blocks, live, DOMAIN live \ {id})
    BY <1>2, <1>3, OtherExtents
  <1>6. id \in Ids /\ n \in Nat \ {0}
    BY <1>2 DEF Requests, Follows
  <1> DEFINE h == r.heap
             p == r.ptr
             bs == With(blocks, id, p)
             lv == With(live, id, n)
  <1> HIDE DEF id, n, rs
  <1>7. InUse(h, bs, lv, T)
    BY <1>4 DEF Granted
  <1>8. /\ id \in DOMAIN lv /\ lv[id] = n /\ bs[id] = p /\ DOMAIN lv \ {id} = DOMAIN live \ {id}
        /\ \A k \in DOMAIN live \ {id} : bs[k] = blocks[k] /\ lv[k] = live[k]
    BY <1>3 DEF With, InUse
  <1> HIDE DEF bs, lv, h, p
  <1>9. add_range_ok(h, rs, p, n)
    <2>1. Extents(bs, lv, DOMAIN lv \ {id}) = rs
      BY <1>5, <1>8 DEF Extents
    <2>2. add_range_ok(h, Extents(bs, lv, DOMAIN lv \ {id}), bs[id], lv[id])
      BY <1>7, <1>8, RangeFits
    <2> QED
      BY <1>8, <2>1, <2>2
  <1>10. Verdict(op, r, rs) = IF op.type = "realloc" /\ ~Preserved(op, r) THEN "data lost" ELSE "good"
    BY <1>9 DEF Verdict, h, p, n
  <1>11. ASSUME op.type = "realloc", AsChar(id) >= 0 PROVE Preserved(op, r)
    <2>1. id \in DOMAIN live /\ block_sizes[id] = live[id]
      BY <1>2, <1>11 DEF Follows, RangesKept, id
    <2> DEFINE b == blocks[id]
               l == live[id]
               s == S[b]
               m == Smaller(n, l)
    <2>2. l \in Nat \ {0} /\ s \in Nat /\ l + 8 <= s
      BY <1>3, <2>1, BlocksOfIds
    <2>3. /\ p \in Nat /\ p % 4 = 0 /\ T[p] \in Nat /\ n + 8 <= T[p] /\ p + T[p] <= MAX_HEAP
      BY <1>7, <1>8, BlocksOfIds
    <2>4. Filled(heap, b, l, id)
      BY <2>1 DEF IInv, DataKept
    <2>5. Carried(heap, h, b, p, Smaller(n, s - 8))
      BY <1>4, <1>11 DEF h, p
    <2> HIDE DEF b, l, s
    <2>6. m \in Nat \ {0} /\ m <= l /\ m <= n /\ m <= Smaller(n, s - 8)
      BY <1>6, <2>2 DEF Smaller
    <2> DEFINE m2 == Smaller(n, s - 8)
    <2>a. m2 \in Nat
      BY <1>6, <2>2 DEF Smaller
    <2> HIDE DEF m, m2
    <2>7. Filled(h, p, m, id)
      BY <2>2, <2>4, <2>5, <2>6, <2>a DEF Filled, Carried, m2
    <2>8. h \in Heaps /\ p + m <= MAX_HEAP
      <3>1. h \in Heaps
        BY <1>7 DEF InUse, Quiet, Sound
      <3> QED
        BY <1>6, <2>3, <2>6, <3>1, MaxHeap
    <2>9. \A w \in WordsOf(p, m) : AsChar(h.mem[w]) = id
      BY <1>6, <1>11, <2>3, <2>6, <2>7, <2>8, DataPasses
    <2>10. m = Smaller(n, block_sizes[id])
      BY <2>1 DEF m, l
    <2> QED
      BY <2>9, <2>10 DEF Preserved, h, p, n, id
  <1>12. AsChar(id) \in Int
    BY <1>6, DriverAssumption DEF AsChar
  <1>13. CASE op.type = "realloc" /\ ~Preserved(op, r)
    <2>1. ~(AsChar(id) >= 0)
      BY <1>11, <1>13
    <2>2. AsChar(id) < 0
      BY <1>12, <2>1
    <2> QED
      BY <1>10, <1>13, <2>2 DEF rs, id
  <1>14. CASE ~(op.type = "realloc" /\ ~Preserved(op, r))
    BY <1>10, <1>14 DEF rs
  <1> QED
    BY <1>13, <1>14

(* A request of eval_mm_valid keeps the range list, and complains with     *)
(* reason.                                                                 *)
LEMMA ValidAccounts ==
  ASSUME IInv, RangesKept, ErrorsJustified, NEW op \in Legal, Valid(op)
  PROVE  RangesKept' /\ ErrorsJustified'
  <1> DEFINE id == op.index
             n == op.size
             others == DOMAIN live \ {id}
  <1>1. pc = "valid" /\ pc \in Evaluations /\ heap \in Heaps
    BY DEF Valid, Evaluations, IInv
  <1>2. op \in Requests /\ Follows(DOMAIN live, op)
    BY <1>1, IdsInUse, LegalFollows
  <1>3. PICK S : InUse(heap, blocks, live, S)
    BY <1>1 DEF IInv, BlocksHeld
  <1>4. PICK r, rs : /\ r = Result(op) /\ rs = OtherRanges(op)
                     /\ ValidBlock(op, r, rs) \/ ValidFree(op, r, rs)
    BY DEF Valid
  <1>5. rs = Extents(blocks, live, others)
    BY <1>1, <1>2, <1>3, <1>4, OtherExtents
  <1>6. \A k \in DOMAIN live : k \in DOMAIN block_sizes /\ block_sizes[k] = live[k] /\ k \in DOMAIN blocks
    BY <1>1, <1>3 DEF RangesKept, InUse
  <1>7. CASE ValidFree(op, r, rs)
    <2>1. /\ op.type = "free" /\ ranges' = rs /\ live' = Served(op) /\ blocks' = blocks
          /\ block_sizes' = block_sizes /\ errors' = errors
      BY <1>7 DEF ValidFree
    <2>2. DOMAIN live' = others /\ \A k \in others : live'[k] = live[k]
      BY <2>1 DEF Served, Without
    <2>3. ranges' = Extents(blocks', live', DOMAIN live')
      <3> HIDE DEF others
      <3> QED
        BY <1>5, <2>1, <2>2 DEF Extents
    <2>4. \A k \in DOMAIN live' : k \in DOMAIN block_sizes' /\ block_sizes'[k] = live'[k]
      BY <1>6, <2>1, <2>2
    <2> QED
      BY <2>1, <2>3, <2>4 DEF RangesKept, ErrorsJustified
  <1>8. CASE ValidBlock(op, r, rs)
    <2> DEFINE verdict == Verdict(op, r, rs)
    <2> HIDE DEF verdict
    <2>1. /\ op.type # "free"
          /\ ranges' = CASE verdict = "no block" -> ranges
                         [] verdict = "bad range" -> rs
                         [] OTHER -> rs \cup {Extent(r.ptr, n)}
          /\ blocks' = IF verdict = "good" THEN With(blocks, id, r.ptr) ELSE blocks
          /\ block_sizes' = IF verdict = "good" THEN With(block_sizes, id, n) ELSE block_sizes
          /\ live' = IF verdict = "good" THEN Served(op) ELSE <<>>
          /\ errors' = IF verdict = "good" THEN errors ELSE errors \cup {Complaint(verdict, op)}
          /\ pc' = IF verdict = "good" THEN "valid" ELSE "idle"
      BY <1>8 DEF ValidBlock, verdict
    <2>2. CASE verdict = "good"
      <3>1. /\ ranges' = rs \cup {Extent(r.ptr, n)} /\ blocks' = With(blocks, id, r.ptr)
            /\ block_sizes' = With(block_sizes, id, n) /\ live' = With(live, id, n) /\ errors' = errors
        BY <2>1, <2>2 DEF Served
      <3>2. /\ DOMAIN live' = others \cup {id} /\ live'[id] = n /\ blocks'[id] = r.ptr
            /\ id \in DOMAIN block_sizes' /\ block_sizes'[id] = n
            /\ \A k \in others : /\ live'[k] = live[k] /\ blocks'[k] = blocks[k]
                                 /\ k \in DOMAIN block_sizes' /\ block_sizes'[k] = live[k]
        BY <1>6, <3>1 DEF With
      <3> HIDE DEF others, id, n
      <3>3. ranges' = Extents(blocks', live', DOMAIN live')
        BY <1>5, <3>1, <3>2 DEF Extents
      <3>4. \A k \in DOMAIN live' : k \in DOMAIN block_sizes' /\ block_sizes'[k] = live'[k]
        BY <3>2
      <3> QED
        BY <3>1, <3>3, <3>4 DEF RangesKept, ErrorsJustified
    <2>3. CASE verdict # "good"
      <3>1. pc' = "idle" /\ errors' = errors \cup {Complaint(verdict, op)}
        BY <2>1, <2>3
      <3>2. Justified(Complaint(verdict, op))
        <4>1. Complaint(verdict, op).what = verdict /\ Complaint(verdict, op).index = op.index
          BY DEF Complaint
        <4>2. CASE r.ptr = NULL
          <5>1. verdict = "no block"
            BY <4>2 DEF Verdict, verdict
          <5> QED
            BY <4>1, <5>1 DEF Justified
        <4>3. CASE r.ptr # NULL
          <5>1. verdict = "data lost" /\ AsChar(op.index) < 0
            BY <1>1, <1>4, <2>1, <2>3, <4>3, VerdictJustified DEF verdict
          <5> QED
            BY <4>1, <5>1 DEF Justified
        <4> QED
          BY <4>2, <4>3
      <3> QED
        BY <3>1, <3>2 DEF RangesKept, ErrorsJustified
    <2> QED
      BY <2>2, <2>3
  <1> QED
    BY <1>4, <1>7, <1>8

(* One request of a run that was answered: from the heap g with blocks cs  *)
(* to a pair of what it got.                                               *)
RanStep(op, g, cs, k, ds, ids) ==
    /\ Answered(op, Answer(g, cs, op))
    /\ Paired(Answer(g, cs, op).heap, Rebound(cs, op, Answer(g, cs, op)), k, ds, ids)

(* heaps and held tell a run of the trace in which every request was       *)
(* answered, up to data.                                                   *)
Ran(tr, use, heaps, held) ==
    /\ \E h \in Heaps : heaps[0] = mm_init(mem_reset_brk(h))
    /\ \A k \in 1 .. Len(tr) : RanStep(tr[k], heaps[k - 1], held[k - 1], heaps[k], held[k], use[k])

(* The run of eval_mm_valid, which a later run repeats request by request. *)
Repeated(use, heaps, held) ==
    /\ Replayable(trace, use) /\ DOMAIN live = use[i]
    /\ Ran(trace, use, heaps, held)
    /\ pc = "valid" => heaps[i] = heap /\ held[i] = blocks
    /\ Paired(heap, blocks, heaps[i], held[i], DOMAIN live)
Repeatable == pc \in Evaluations => \E use, heaps, held : Repeated(use, heaps, held)

(* memset leaves a twin.                                                   *)
LEMMA MemsetTwins ==
  ASSUME NEW h, NEW bs, NEW lv, NEW S, InUse(h, bs, lv, S), NEW id \in DOMAIN lv, NEW v \in Int,
         NEW g, g = memset(h, bs[id], lv[id], v)
  PROVE  Paired(h, bs, g, bs, DOMAIN lv)
  <1> DEFINE U == Held(bs, DOMAIN lv)
             p == bs[id]
             n == lv[id]
  <1>1. Quiet(h, S, U) /\ p \in U /\ n \in Nat \ {0} /\ n + 8 <= S[p] /\ DOMAIN lv \subseteq DOMAIN bs
    BY DEF InUse, Held
  <1>2. h \in Heaps /\ Layout(S, h.brk) /\ p \in DOMAIN S
    BY <1>1 DEF Quiet, Sound
  <1>3. g = memset(h, p, n, v)
    OBVIOUS
  <1> HIDE DEF U, p, n
  <1>4. /\ g \in Heaps /\ g.brk = h.brk /\ g.list = h.list
        /\ \A a \in Places : ~Payload(S, p, a) => GET(g, a) = GET(h, a)
    BY <1>1, <1>2, <1>3, MemorySet
  <1>5. Alike(h, h, S, U)
    BY <1>1 DEF Alike, Twins, Quiet
  <1>6. Alike(h, g, S, U)
    BY <1>1, <1>2, <1>4, <1>5, PayloadTwins
  <1> QED
    BY <1>1, <1>6 DEF Paired, U

(* An evaluation that begins can repeat what was run.                      *)
LEMMA RunBegins ==
  ASSUME heap \in Heaps, heap' = mm_init(mem_reset_brk(heap)), i' = 0, live' = <<>>,
         NEW use, Replayable(trace', use),
         NEW heaps, NEW held, Ran(trace', use, heaps, held),
         pc' = "valid" => heaps[0] = heap' /\ held[0] = blocks'
  PROVE  Repeatable'
  <1>1. DOMAIN live' = {} /\ use[0] = {}
    BY DEF Replayable
  <1>2. PICK h \in Heaps : heaps[0] = mm_init(mem_reset_brk(h))
    BY DEF Ran
  <1> DEFINE g == mm_init(mem_reset_brk(heap))
             k == mm_init(mem_reset_brk(h))
  <1>3. \E S : Alike(g, k, S, {})
    BY InitTwins
  <1> HIDE DEF g, k
  <1>4. heap' = g /\ heaps[0] = k
    BY <1>2 DEF g, k
  <1>5. Held(blocks', {}) = {}
    BY DEF Held
  <1>6. Paired(heap', blocks', heaps[0], held[0], {})
    BY <1>3, <1>4, <1>5 DEF Paired
  <1>7. Repeated(use, heaps, held)'
    BY <1>1, <1>6 DEF Repeated
  <1> QED
    BY <1>7 DEF Repeatable

(* A request that is run again is answered as it was.                      *)
LEMMA ReplayRepeats ==
  ASSUME IInv, Repeatable, pc \in {"util", "speed"}, i < Len(trace), NEW op, op = trace[i + 1],
         NEW r, r = Result(op), Replay(op, r)
  PROVE  Answered(op, r) /\ Repeatable'
  <1>1. pc \in Evaluations /\ pc # "valid"
    BY DEF Evaluations
  <1>2. trace \in Seq(Requests) /\ i \in 0 .. Len(trace)
    BY <1>1 DEF IInv, TraceKept
  <1>3. i + 1 \in 1 .. Len(trace) /\ (i + 1) - 1 = i
    BY <1>2, LenProperties
  <1>4. op \in Requests /\ Follows(DOMAIN live, op)
    BY Replayed
  <1>5. PICK S : InUse(heap, blocks, live, S)
    BY <1>1 DEF IInv, BlocksHeld
  <1>6. PICK use, heaps, held : Repeated(use, heaps, held)
    BY <1>1 DEF Repeatable
  <1> DEFINE g == heaps[i]
             cs == held[i]
             q == Answer(g, cs, op)
  <1>7. Paired(heap, blocks, g, cs, DOMAIN live)
    BY <1>6 DEF Repeated
  <1>8. /\ Answered(op, q)
        /\ Paired(q.heap, Rebound(cs, op, q), heaps[i + 1], held[i + 1], use[i + 1])
        /\ use[i + 1] = Uses(DOMAIN live, op)
    BY <1>3, <1>6 DEF Repeated, Ran, RanStep, Replayable
  <1>9. r = Answer(heap, blocks, op)
    BY DEF Result, Answer
  <1> HIDE DEF g, cs
  <1>10. /\ r.ptr = q.ptr
         /\ Answered(op, r) =>
               Paired(r.heap, Rebound(blocks, op, r), q.heap, Rebound(cs, op, q), Uses(DOMAIN live, op))
    <2>1. q = Answer(g, cs, op)
      OBVIOUS
    <2> HIDE DEF q
    <2> QED
      BY <1>4, <1>5, <1>7, <1>9, <2>1, AnswersAlike
  <1> HIDE DEF q
  <1>11. Answered(op, r)
    BY <1>8, <1>10 DEF Answered
  <1>12. /\ heap' = r.heap /\ i' = i + 1 /\ live' = Served(op) /\ pc' = pc /\ trace' = trace
         /\ blocks' = Rebound(blocks, op, r)
    BY <1>11 DEF Replay, Answered, Rebound
  <1>13. Paired(heap', blocks', heaps[i + 1], held[i + 1], Uses(DOMAIN live, op))
    BY <1>8, <1>10, <1>11, <1>12, PairedTwice
  <1>14. DOMAIN live' = use[i + 1] /\ use[i + 1] = Uses(DOMAIN live, op)
    BY <1>8, <1>12, ServedIds
  <1>15. Repeated(use, heaps, held)'
    BY <1>1, <1>6, <1>12, <1>13, <1>14 DEF Repeated
  <1> QED
    BY <1>11, <1>15 DEF Repeatable

(* A run goes on with a request that was answered.                         *)
LEMMA RunExtended ==
  ASSUME NEW tr \in Seq(Requests), NEW use, NEW heaps, NEW held,
         Replayable(tr, use), Ran(tr, use, heaps, held),
         NEW op \in Requests, Follows(use[Len(tr)], op), NEW k, NEW ds,
         RanStep(op, heaps[Len(tr)], held[Len(tr)], k, ds, Uses(use[Len(tr)], op))
  PROVE  \E used, tops, mine :
            /\ Replayable(Append(tr, op), used) /\ Ran(Append(tr, op), used, tops, mine)
            /\ used[Len(tr) + 1] = Uses(use[Len(tr)], op)
            /\ tops[Len(tr) + 1] = k /\ mine[Len(tr) + 1] = ds
  <1> DEFINE n == Len(tr)
             ts == Append(tr, op)
             ids == Uses(use[n], op)
  <1>1. n \in Nat
    BY LenProperties
  <1>2. Len(ts) = n + 1 /\ ts[n + 1] = op /\ \A j \in 1 .. n : ts[j] = tr[j]
    BY AppendProperties
  <1>3. Replayable(tr, use) /\ Ran(tr, use, heaps, held) /\ n = Len(tr) /\ Follows(use[n], op)
        /\ RanStep(op, heaps[n], held[n], k, ds, ids) /\ ids = Uses(use[n], op)
    OBVIOUS
  <1> HIDE DEF n, ts, ids
  <1>4. PICK used : used = [j \in 0 .. n + 1 |-> IF j <= n THEN use[j] ELSE ids]
    OBVIOUS
  <1>5. PICK tops : tops = [j \in 0 .. n + 1 |-> IF j <= n THEN heaps[j] ELSE k]
    OBVIOUS
  <1>6. PICK mine : mine = [j \in 0 .. n + 1 |-> IF j <= n THEN held[j] ELSE ds]
    OBVIOUS
  <1>7. /\ \A j \in 0 .. n : used[j] = use[j] /\ tops[j] = heaps[j] /\ mine[j] = held[j]
        /\ used[n + 1] = ids /\ tops[n + 1] = k /\ mine[n + 1] = ds
    BY <1>1, <1>4, <1>5, <1>6
  <1>8. ASSUME NEW j \in 1 .. n
        PROVE  /\ ts[j] = tr[j] /\ j - 1 \in 0 .. n /\ j \in 0 .. n /\ j \in 1 .. Len(tr)
    BY <1>1, <1>2, <1>3
  <1>9. \A j \in 1 .. n + 1 : j \in 1 .. n \/ (j = n + 1 /\ j - 1 = n /\ n \in 0 .. n)
    BY <1>1
  <1>10. Replayable(ts, used)
    <2>1. used[0] = {}
      BY <1>1, <1>3, <1>7 DEF Replayable
    <2>2. ASSUME NEW j \in 1 .. Len(ts)
          PROVE  Follows(used[j - 1], ts[j]) /\ used[j] = Uses(used[j - 1], ts[j])
      <3>1. CASE j \in 1 .. n
        <4>1. Follows(use[j - 1], tr[j]) /\ use[j] = Uses(use[j - 1], tr[j])
          BY <1>3, <1>8, <3>1 DEF Replayable
        <4> QED
          BY <1>7, <1>8, <3>1, <4>1
      <3>2. CASE j = n + 1 /\ j - 1 = n /\ n \in 0 .. n
        BY <1>2, <1>3, <1>7, <3>2
      <3> QED
        BY <1>2, <1>9, <3>1, <3>2
    <2> QED
      BY <2>1, <2>2 DEF Replayable
  <1>11. Ran(ts, used, tops, mine)
    <2>1. \E h \in Heaps : tops[0] = mm_init(mem_reset_brk(h))
      <3>1. tops[0] = heaps[0]
        BY <1>1, <1>7
      <3> QED
        BY <1>3, <3>1 DEF Ran
    <2>2. ASSUME NEW j \in 1 .. Len(ts)
          PROVE  RanStep(ts[j], tops[j - 1], mine[j - 1], tops[j], mine[j], used[j])
      <3>1. CASE j \in 1 .. n
        <4>1. RanStep(tr[j], heaps[j - 1], held[j - 1], heaps[j], held[j], use[j])
          BY <1>3, <1>8, <3>1 DEF Ran
        <4> QED
          BY <1>7, <1>8, <3>1, <4>1
      <3>2. CASE j = n + 1 /\ j - 1 = n /\ n \in 0 .. n
        BY <1>2, <1>3, <1>7, <3>2
      <3> QED
        BY <1>2, <1>9, <3>1, <3>2
    <2> QED
      BY <2>1, <2>2 DEF Ran
  <1>12. Append(tr, op) = ts
    BY DEF ts
  <1> QED
    BY <1>3, <1>7, <1>10, <1>11, <1>12

(* A request of eval_mm_valid that is served is one of a run.              *)
LEMMA ValidRuns ==
  ASSUME IInv, NEW op \in Legal, Valid(op), pc' = "valid"
  PROVE  /\ RanStep(op, heap, blocks, heap', blocks', Uses(DOMAIN live, op))
         /\ Paired(heap', blocks', heap', blocks', Uses(DOMAIN live, op))
  <1> DEFINE id == op.index
             ids == Uses(DOMAIN live, op)
  <1>1. /\ op \in Requests /\ Follows(DOMAIN live, op) /\ Transferred(op)
    BY ValidTransfers
  <1>2. DOMAIN live' = ids
    BY <1>1, ServedIds DEF Transferred
  <1>3. Paired(heap', blocks', heap', blocks', ids)
    BY <1>1, <1>2, PairedSelf DEF Transferred
  <1>4. PICK r, rs : r = Result(op) /\ (ValidBlock(op, r, rs) \/ ValidFree(op, r, rs))
    BY DEF Valid
  <1>5. r = Answer(heap, blocks, op)
    BY <1>4 DEF Result, Answer
  <1>6. CASE ValidFree(op, r, rs)
    <2>1. op.type = "free" /\ heap' = r.heap /\ blocks' = blocks
      BY <1>6 DEF ValidFree
    <2>2. Answered(op, r) /\ Paired(r.heap, Rebound(blocks, op, r), heap', blocks', ids)
      BY <1>3, <2>1 DEF Answered, Rebound
    <2> HIDE DEF ids
    <2>3. RanStep(op, heap, blocks, heap', blocks', ids)
      BY <1>5, <2>2 DEF RanStep
    <2> QED
      BY <1>3, <2>3 DEF ids
  <1>7. CASE ValidBlock(op, r, rs)
    <2>1. /\ op.type # "free" /\ r.ptr # NULL
          /\ heap' = memset(r.heap, r.ptr, op.size, id)
          /\ blocks' = With(blocks, id, r.ptr)
          /\ live' = With(live, id, op.size)
      BY <1>7 DEF ValidBlock, Verdict, Served
    <2>2. pc \in Evaluations /\ heap \in Heaps
      BY DEF Valid, Evaluations, IInv
    <2>3. PICK S : InUse(heap, blocks, live, S)
      BY <2>2 DEF IInv, BlocksHeld
    <2>4. PICK T : Granted(heap, blocks, live, S, op.index, op.size, r, T)
      BY <1>1, <1>4, <2>1, <2>2, <2>3, RequestServed
    <2>5. InUse(r.heap, blocks', live', T)
      BY <2>1, <2>4 DEF Granted
    <2>6. id \in DOMAIN live' /\ live'[id] = op.size /\ blocks'[id] = r.ptr
      BY <2>1 DEF With
    <2>7. id \in Int
      <3>1. id \in Ids
        BY <1>1 DEF Requests
      <3> HIDE DEF id
      <3> QED
        BY <3>1, DriverAssumption
    <2> DEFINE h == r.heap
               bs == blocks'
               lv == live'
               g == heap'
    <2>8. InUse(h, bs, lv, T) /\ id \in DOMAIN lv /\ g = memset(h, bs[id], lv[id], id)
      BY <2>1, <2>5, <2>6
    <2> HIDE DEF h, bs, lv, g, id
    <2>9. Paired(h, bs, g, bs, DOMAIN lv)
      BY <2>7, <2>8, MemsetTwins
    <2>10. Answered(op, r) /\ Rebound(blocks, op, r) = bs
      BY <2>1 DEF Answered, Rebound, bs, id
    <2>11. Paired(r.heap, Rebound(blocks, op, r), heap', blocks', ids)
      BY <1>2, <2>9, <2>10 DEF h, bs, lv, g
    <2> HIDE DEF ids
    <2>12. RanStep(op, heap, blocks, heap', blocks', ids)
      BY <1>5, <2>10, <2>11 DEF RanStep
    <2> QED
      BY <1>3, <2>12 DEF ids
  <1> QED
    BY <1>4, <1>6, <1>7

(* So the run that a later one repeats grows with eval_mm_valid's.         *)
LEMMA ValidRepeats ==
  ASSUME IInv, Repeatable, NEW op \in Legal, Valid(op), pc' = "valid"
  PROVE  Repeatable'
  <1>1. pc = "valid" /\ pc \in Evaluations
    BY DEF Valid, Evaluations
  <1>2. /\ trace \in Seq(Requests) /\ i = Len(trace)
        /\ trace' = Append(trace, op) /\ i' = i + 1
    BY <1>1 DEF IInv, TraceKept, Valid
  <1>3. op \in Requests /\ Follows(DOMAIN live, op) /\ live' = Served(op)
    BY ValidTransfers DEF Transferred
  <1>4. PICK use, heaps, held : Repeated(use, heaps, held)
    BY <1>1 DEF Repeatable
  <1>5. /\ Replayable(trace, use) /\ Ran(trace, use, heaps, held)
        /\ DOMAIN live = use[i] /\ heaps[i] = heap /\ held[i] = blocks
    BY <1>1, <1>4 DEF Repeated
  <1>6. /\ RanStep(op, heap, blocks, heap', blocks', Uses(DOMAIN live, op))
        /\ Paired(heap', blocks', heap', blocks', Uses(DOMAIN live, op))
    BY ValidRuns
  <1>7. RanStep(op, heaps[Len(trace)], held[Len(trace)], heap', blocks', Uses(use[Len(trace)], op))
    BY <1>2, <1>5, <1>6
  <1>8. Follows(use[Len(trace)], op)
    BY <1>2, <1>3, <1>5
  <1> DEFINE k == heap'
             ds == blocks'
             tr == trace
  <1>9. RanStep(op, heaps[Len(tr)], held[Len(tr)], k, ds, Uses(use[Len(tr)], op))
        /\ Follows(use[Len(tr)], op) /\ Replayable(tr, use) /\ Ran(tr, use, heaps, held)
        /\ tr \in Seq(Requests)
    BY <1>2, <1>5, <1>7, <1>8
  <1> HIDE DEF k, ds, tr
  <1>10. PICK used, tops, mine :
            /\ Replayable(Append(tr, op), used) /\ Ran(Append(tr, op), used, tops, mine)
            /\ used[Len(tr) + 1] = Uses(use[Len(tr)], op)
            /\ tops[Len(tr) + 1] = k /\ mine[Len(tr) + 1] = ds
    BY <1>3, <1>9, RunExtended
  <1>11. /\ Replayable(trace', used) /\ Ran(trace', used, tops, mine)
         /\ used[i'] = Uses(DOMAIN live, op) /\ tops[i'] = heap' /\ mine[i'] = blocks'
    BY <1>2, <1>5, <1>10 DEF k, ds, tr
  <1>12. DOMAIN live' = Uses(DOMAIN live, op)
    BY <1>3, ServedIds
  <1>13. Repeated(used, tops, mine)'
    BY <1>6, <1>11, <1>12 DEF Repeated
  <1> QED
    BY <1>13 DEF Repeatable

(* The inductive invariant that says what the driver reports.              *)
DInv == IInv /\ RangesKept /\ ErrorsJustified /\ Repeatable

(* The driver has nothing to report when it starts.                        *)
LEMMA NothingReported == Init => DInv
  BY InitInvariant DEF Init, DInv, RangesKept, ErrorsJustified, Repeatable, Evaluations

(* A step that ends the evaluations reports nothing new but, of libc, that *)
(* it has no block.                                                        *)
LEMMA NoEvaluation ==
  ASSUME DInv, IInv', pc' \notin Evaluations,
         errors' = errors \/ errors' = errors \cup {[what |-> "no block", index |-> 0]}
  PROVE  DInv'
  <1>1. pc' # "valid"
    BY DEF Evaluations
  <1>2. ErrorsJustified'
    <2>1. Justified([what |-> "no block", index |-> 0])
      BY DEF Justified
    <2> QED
      BY <2>1 DEF DInv, ErrorsJustified
  <1> QED
    BY <1>1, <1>2 DEF DInv, RangesKept, Repeatable

(* An evaluation begins; eval_mm_valid has no ranges then.                 *)
LEMMA BeginningReports ==
  ASSUME DInv, IInv', BeginValid \/ BeginUtil \/ BeginSpeed
  PROVE  DInv'
  <1>1. heap \in Heaps
    BY DEF DInv, IInv
  <1>2. heap' = mm_init(mem_reset_brk(heap)) /\ i' = 0 /\ live' = <<>> /\ errors' = errors
    BY DEF BeginValid, BeginUtil, BeginSpeed, Rerun
  <1>3. ErrorsJustified'
    BY <1>2 DEF DInv, ErrorsJustified
  <1>4. CASE BeginValid
    <2>1. pc' = "valid" /\ trace' = <<>> /\ ranges' = {}
      BY <1>4 DEF BeginValid, clear_ranges
    <2>2. DOMAIN live' = {} /\ Len(trace') = 0
      BY <1>2, <2>1
    <2>3. RangesKept'
      BY <2>1, <2>2 DEF RangesKept, Extents
    <2>4. PICK use : use = [k \in 0 .. 0 |-> {}]
      OBVIOUS
    <2>5. PICK heaps : heaps = [k \in 0 .. 0 |-> heap']
      OBVIOUS
    <2>6. PICK held : held = [k \in 0 .. 0 |-> blocks']
      OBVIOUS
    <2>7. use[0] = {} /\ heaps[0] = heap' /\ held[0] = blocks'
      BY <2>4, <2>5, <2>6
    <2>8. 1 .. Len(trace') = {}
      BY <2>2
    <2>9. Replayable(trace', use)
      BY <2>7, <2>8 DEF Replayable
    <2>10. Ran(trace', use, heaps, held)
      BY <1>1, <1>2, <2>7, <2>8 DEF Ran
    <2>11. Repeatable'
      BY <1>1, <1>2, <2>7, <2>9, <2>10, RunBegins
    <2> QED
      BY <1>3, <2>3, <2>11 DEF DInv
  <1>5. CASE BeginUtil \/ BeginSpeed
    <2>1. pc' # "valid" /\ trace' = trace /\ pc \in Evaluations
      BY <1>5 DEF BeginUtil, BeginSpeed, Rerun, Evaluations, evalVars
    <2>2. PICK use, heaps, held : Repeated(use, heaps, held)
      BY <2>1 DEF DInv, Repeatable
    <2>3. Replayable(trace', use) /\ Ran(trace', use, heaps, held)
      BY <2>1, <2>2 DEF Repeated
    <2>4. Repeatable'
      BY <1>1, <1>2, <2>1, <2>3, RunBegins
    <2> QED
      BY <1>3, <2>1, <2>4 DEF DInv, RangesKept
  <1> QED
    BY <1>4, <1>5

(* Nor does a later run.                                                   *)
LEMMA ReplayReports ==
  ASSUME DInv, IInv', pc \in {"util", "speed"}, i < Len(trace), NEW op, op = trace[i + 1],
         NEW r, r = Result(op), Replay(op, r)
  PROVE  DInv'
  <1>1. Answered(op, r) /\ Repeatable'
    BY ReplayRepeats DEF DInv
  <1>2. errors' = errors /\ pc' = pc
    BY <1>1 DEF Replay, Answered
  <1> QED
    BY <1>1, <1>2 DEF DInv, RangesKept, ErrorsJustified

(* Every step keeps what the driver reports in order.                      *)
LEMMA NextReports == DInv /\ [Next]_vars => DInv'
  <1> SUFFICES ASSUME DInv, [Next]_vars PROVE DInv'
    OBVIOUS
  <1>1. IInv /\ IInv'
    BY NextKeeps DEF DInv
  <1>2. ASSUME pc' \notin Evaluations,
               errors' = errors \/ errors' = errors \cup {[what |-> "no block", index |-> 0]}
        PROVE  DInv'
    BY <1>1, <1>2, NoEvaluation
  <1>3. CASE Option \/ StartUp \/ read_trace_fails \/ RunMM \/ EndTrace \/ Score
    BY <1>2, <1>3 DEF Option, usage, StartUp, read_trace_fails, RunMM, Begin, EndTrace, Score,
                      Quit, Evaluations
  <1>4. CASE LibcPass
    BY <1>2, <1>4 DEF LibcPass, RunLibc, eval_libc_valid, eval_libc_speed, Begin, Quit, Evaluations
  <1>5. CASE BeginValid \/ BeginUtil \/ BeginSpeed
    BY <1>1, <1>5, BeginningReports
  <1>6. CASE \E op \in Legal : Valid(op)
    <2>1. PICK op \in Legal : Valid(op)
      BY <1>6
    <2>2. RangesKept' /\ ErrorsJustified'
      BY <1>1, <2>1, ValidAccounts DEF DInv
    <2>3. CASE pc' = "valid"
      BY <1>1, <2>1, <2>2, <2>3, ValidRepeats DEF DInv
    <2>4. CASE pc' # "valid"
      <3>1. pc' \notin Evaluations
        BY <2>1, <2>4 DEF Valid, ValidBlock, ValidFree, Evaluations
      <3> QED
        BY <1>1, <2>2, <3>1 DEF DInv, Repeatable
    <2> QED
      BY <2>3, <2>4
  <1>7. CASE Util
    BY <1>1, <1>7, ReplayReports DEF Util
  <1>8. CASE Speed
    BY <1>1, <1>8, ReplayReports DEF Speed
  <1>9. CASE UNCHANGED vars
    <2>1. /\ pc' = pc /\ ranges' = ranges /\ blocks' = blocks /\ live' = live /\ errors' = errors
          /\ block_sizes' = block_sizes /\ trace' = trace /\ i' = i /\ heap' = heap
      BY <1>9 DEF vars, evalVars
    <2>2. RangesKept' /\ ErrorsJustified'
      BY <2>1 DEF DInv, RangesKept, ErrorsJustified
    <2>3. Repeatable'
      BY <2>1 DEF DInv, Repeatable, Repeated
    <2> QED
      BY <1>1, <2>2, <2>3 DEF DInv
  <1> QED
    BY <1>3, <1>4, <1>5, <1>6, <1>7, <1>8, <1>9 DEF Next

(* What the driver says of the allocator is right (mdriver.c:409, :671):   *)
(* the ranges eval_mm_valid holds are those of the blocks in use, it       *)
(* complains only when memory is exhausted, or of the data of an id above  *)
(* 127, which read back negative, and the runs of eval_mm_util and         *)
(* eval_mm_speed, on the memory another run has left behind, get the       *)
(* answers eval_mm_valid got: they never end with an app_error.            *)
THEOREM DriverContentHolds == Spec => []DriverContent
  <1>1. DInv => DriverContent
    <2> SUFFICES ASSUME DInv PROVE DriverContent
      OBVIOUS
    <2>1. \A e \in errors : e.what = "no block" \/ (e.what = "data lost" /\ AsChar(e.index) < 0)
      BY DEF DInv, ErrorsJustified, Justified
    <2>2. pc = "valid" => ranges = {Extent(blocks[id], live[id]) : id \in DOMAIN live}
      BY DEF DInv, RangesKept, Extents
    <2> QED
      BY <2>1, <2>2 DEF DriverContent
  <1> QED
    BY <1>1, NothingReported, NextReports, PTL DEF Spec

----------------------------------------------------------------------------
(* The performance index *)

(* Fractions between 0 and 1, and the entries of mm_stats.                 *)
Shares == {x \in [num : Nat, den : Nat \ {0}] : x.num <= x.den}
Rows == [ops : Nat, valid : BOOLEAN, util : Shares]

(* The folds of TotalOps and MeanUtil, named.                              *)
OpsEquation(f, stats) ==
    f = [t \in SUBSET DOMAIN stats |-> IF t = {} THEN 0 ELSE f[t \ {Max(t)}] + stats[Max(t)].ops]
UtilEquation(f, stats) ==
    f = [t \in SUBSET DOMAIN stats |->
            IF t = {} THEN Nought ELSE Plus(f[t \ {Max(t)}], stats[Max(t)].util)]

(* TotalOps, with its fold named.                                          *)
LEMMA TotalUnfolded ==
  ASSUME NEW stats
  PROVE  TotalOps(stats) = (CHOOSE f : OpsEquation(f, stats))[DOMAIN stats]
  BY DEF TotalOps, FoldLeft, MapThenFoldSet, OpsEquation

(* MeanUtil, with its fold named.                                          *)
LEMMA MeanUnfolded ==
  ASSUME NEW stats
  PROVE  \E u : /\ u = (CHOOSE f : UtilEquation(f, stats))[DOMAIN stats]
                /\ MeanUtil(stats) = [num |-> u.num, den |-> u.den * num_tracefiles]
  BY DEF MeanUtil, FoldLeft, MapThenFoldSet, UtilEquation

(* The operations of all traces are a number of operations.                *)
LEMMA TotalNat ==
  ASSUME NEW stats \in Seq(Rows)
  PROVE  TotalOps(stats) \in Nat
  <1> DEFINE f == CHOOSE f : OpsEquation(f, stats)
             S == DOMAIN stats
  <1>1. S = 1 .. Len(stats) /\ Len(stats) \in Nat /\ \A k \in S : stats[k].ops \in Nat
    <2>1. S = 1 .. Len(stats) /\ Len(stats) \in Nat
      BY LenProperties
    <2>2. \A k \in 1 .. Len(stats) : stats[k] \in Rows
      BY ElementOfSeq
    <2> QED
      BY <2>1, <2>2 DEF Rows
  <1>2. IsFiniteSet(S)
    BY <1>1, Positions
  <1>3. \A t \in SUBSET S : t # {} => Max(t) \in t
    BY <1>1, MaxMember
  <1>4. PICK step : step = [p \in S \X Nat |-> p[2] + stats[p[1]].ops]
    OBVIOUS
  <1>5. PICK pick : pick = [t \in SUBSET S |-> Max(t)]
    OBVIOUS
  <1> HIDE DEF S
  <1>6. ASSUME NEW k \in S, NEW v \in Nat
        PROVE  <<k, v>> \in S \X Nat /\ step[<<k, v>>] = v + stats[k].ops /\ v + stats[k].ops \in Nat
    BY <1>1, <1>4
  <1>7. step \in [S \X Nat -> Nat]
    BY <1>1, <1>4
  <1>8. \A t \in SUBSET S : t # {} => pick[t] \in t
    BY <1>3, <1>5
  <1>9. PICK e : Folded(e, SUBSET S, Nat, 0, step, pick)
    <2>1. 0 \in Nat
      OBVIOUS
    <2> QED
      BY <1>2, <1>7, <1>8, <2>1, FoldExists, Zenon
  <1>10. OpsEquation(e, stats)
    <2>1. e \in [SUBSET S -> Nat]
      BY <1>9 DEF Folded
    <2>2. ASSUME NEW t \in SUBSET S
          PROVE  e[t] = IF t = {} THEN 0 ELSE e[t \ {Max(t)}] + stats[Max(t)].ops
      <3>1. e[t] = IF t = {} THEN 0 ELSE step[<<Max(t), e[t \ {Max(t)}]>>]
        BY <1>5, <1>9 DEF Folded
      <3>2. CASE t # {}
        <4>1. Max(t) \in S /\ e[t \ {Max(t)}] \in Nat
          BY <1>3, <2>1, <3>2
        <4> QED
          BY <1>6, <3>1, <3>2, <4>1
      <3> QED
        BY <3>1, <3>2
    <2> QED
      BY <2>1, <2>2 DEF OpsEquation, S
  <1>11. OpsEquation(f, stats)
    BY <1>10
  <1> HIDE DEF f
  <1>12. \A t \in SUBSET S : f[t] = IF t = {} THEN 0 ELSE f[t \ {Max(t)}] + stats[Max(t)].ops
    BY <1>11 DEF OpsEquation, S
  <1> DEFINE Bad == {m \in Nat : \E t \in SUBSET S : Cardinality(t) = m /\ f[t] \notin Nat}
  <1>13. \A t \in SUBSET S : IsFiniteSet(t) /\ Cardinality(t) \in Nat
    BY <1>2, FS_Subset, FS_CardinalityType
  <1>14. Bad = {}
    <2> SUFFICES ASSUME Bad # {} PROVE FALSE
      OBVIOUS
    <2>1. PICK m \in Bad : \A j \in Bad : m <= j
      <3>1. Bad \subseteq Nat
        OBVIOUS
      <3> HIDE DEF Bad
      <3> QED
        BY <3>1, MinIsLeast
    <2>2. PICK t \in SUBSET S : Cardinality(t) = m /\ f[t] \notin Nat
      BY <2>1
    <2>3. t # {}
      <3> SUFFICES ASSUME t = {} PROVE FALSE
        OBVIOUS
      <3>1. f[t] = 0
        BY <1>12
      <3> QED
        BY <2>2, <3>1
    <2> DEFINE rest == t \ {Max(t)}
    <2>4. Max(t) \in t /\ rest \in SUBSET S /\ Cardinality(rest) = m - 1 /\ m - 1 \in Nat
      <3>1. Max(t) \in t /\ rest \in SUBSET S
        BY <1>3, <2>3
      <3>2. Cardinality(rest) = m - 1
        BY <1>13, <2>2, <3>1, FS_RemoveElement
      <3> QED
        BY <1>13, <3>1, <3>2
    <2>5. f[rest] \in Nat
      BY <2>1, <2>4
    <2>6. f[t] = f[rest] + stats[Max(t)].ops
      BY <1>12, <2>3
    <2>7. stats[Max(t)].ops \in Nat
      BY <1>1, <2>4
    <2> DEFINE a == f[rest]
               b == stats[Max(t)].ops
    <2>8. a + b \in Nat
      <3>1. a \in Nat /\ b \in Nat
        BY <2>5, <2>7
      <3> HIDE DEF a, b
      <3> QED
        BY <3>1
    <2> QED
      BY <2>2, <2>6, <2>8
  <1>15. f[S] \in Nat
    BY <1>13, <1>14
  <1> QED
    BY <1>15, TotalUnfolded DEF f, S

(* Fractions, and those of at most n.                                      *)
Fractions == [num : Nat, den : Nat \ {0}]
AtMost(x, n) == x \in Fractions /\ x.num <= n * x.den

(* A sum of n fractions of at most 1 grows by one.                         *)
LEMMA PlusShare ==
  ASSUME NEW x, NEW n \in Nat, AtMost(x, n), NEW y \in Shares
  PROVE  AtMost(Plus(x, y), n + 1)
  <1>1. PICK a \in Nat, b \in Nat \ {0} : x.num = a /\ x.den = b /\ a <= n * b
    BY DEF AtMost, Fractions
  <1>2. PICK c \in Nat, d \in Nat \ {0} : y.num = c /\ y.den = d /\ c <= d
    BY DEF Shares
  <1>3. Plus(x, y) = [num |-> a * d + c * b, den |-> b * d]
    BY <1>1, <1>2 DEF Plus
  <1>4. a * d \in Nat /\ c * b \in Nat /\ b * d \in Nat \ {0} /\ n * b \in Nat
    <2>1. \A p, q \in Nat : p * q \in Nat
      OBVIOUS
    <2>2. \A p, q \in Nat \ {0} : p * q # 0
      OBVIOUS
    <2> QED
      BY <2>1, <2>2
  <1>5. a * d <= (n * b) * d /\ c * b <= d * b
    BY <1>1, <1>2, <1>4, Products
  <1>6. (n * b) * d = n * (b * d) /\ d * b = b * d /\ (n + 1) * (b * d) = n * (b * d) + b * d
        /\ n * (b * d) \in Nat
    OBVIOUS
  <1> DEFINE e == b * d
             g == n * (b * d)
             h == a * d
             k == c * b
  <1>7. h + k <= (n + 1) * e
    <2>1. h <= g /\ k <= e /\ (n + 1) * e = g + e
      BY <1>5, <1>6
    <2>2. h \in Nat /\ k \in Nat /\ e \in Nat /\ g \in Nat
      BY <1>4, <1>6
    <2> HIDE DEF h, k, g, e
    <2> QED
      BY <2>1, <2>2
  <1>8. h + k \in Nat
    BY <1>4
  <1> QED
    BY <1>3, <1>4, <1>7, <1>8 DEF AtMost, Fractions

(* The utilization averaged over n traces is a fraction of at most n / n.  *)
LEMMA MeanShare ==
  ASSUME NEW stats \in Seq(Rows)
  PROVE  \E u : AtMost(u, Len(stats)) /\ MeanUtil(stats) = [num |-> u.num, den |-> u.den * num_tracefiles]
  <1> DEFINE f == CHOOSE f : UtilEquation(f, stats)
             S == DOMAIN stats
  <1>1. S = 1 .. Len(stats) /\ Len(stats) \in Nat /\ \A k \in S : stats[k].util \in Shares
    <2>1. S = 1 .. Len(stats) /\ Len(stats) \in Nat
      BY LenProperties
    <2>2. \A k \in 1 .. Len(stats) : stats[k] \in Rows
      BY ElementOfSeq
    <2> QED
      BY <2>1, <2>2 DEF Rows
  <1>2. IsFiniteSet(S) /\ Cardinality(S) = Len(stats)
    <2> HIDE DEF S
    <2> QED
      BY <1>1, Positions
  <1>3. \A t \in SUBSET S : t # {} => Max(t) \in t
    BY <1>1, MaxMember
  <1>4. PICK step : step = [p \in S \X Fractions |-> Plus(p[2], stats[p[1]].util)]
    OBVIOUS
  <1>5. PICK pick : pick = [t \in SUBSET S |-> Max(t)]
    OBVIOUS
  <1> HIDE DEF S
  <1>6. ASSUME NEW x \in Fractions, NEW y \in Shares PROVE Plus(x, y) \in Fractions
    <2>1. x.num \in Nat /\ x.den \in Nat \ {0} /\ y.num \in Nat /\ y.den \in Nat \ {0}
      BY DEF Fractions, Shares
    <2>2. \A a, c \in Nat : \A b, d \in Nat \ {0} : a * d + c * b \in Nat /\ b * d \in Nat \ {0}
      <3> TAKE a, c \in Nat
      <3> TAKE b, d \in Nat \ {0}
      <3>1. a * d \in Nat /\ c * b \in Nat /\ b * d \in Nat /\ b * d # 0
        OBVIOUS
      <3> QED
        BY <3>1
    <2> QED
      BY <2>1, <2>2 DEF Plus, Fractions
  <1>7. ASSUME NEW k \in S, NEW v \in Fractions
        PROVE  step[<<k, v>>] = Plus(v, stats[k].util)
    <2>1. <<k, v>> \in S \X Fractions
      OBVIOUS
    <2> QED
      BY <1>4, <2>1
  <1>8. step \in [S \X Fractions -> Fractions]
    <2>1. \A p \in S \X Fractions : Plus(p[2], stats[p[1]].util) \in Fractions
      BY <1>1, <1>6
    <2> QED
      BY <1>4, <2>1
  <1>9. \A t \in SUBSET S : t # {} => pick[t] \in t
    BY <1>3, <1>5
  <1>10. Nought \in Fractions /\ AtMost(Nought, 0)
    BY DEF Nought, Fractions, AtMost
  <1>11. PICK e : Folded(e, SUBSET S, Fractions, Nought, step, pick)
    BY <1>2, <1>8, <1>9, <1>10, FoldExists, Zenon
  <1>12. UtilEquation(e, stats)
    <2>1. e \in [SUBSET S -> Fractions]
      BY <1>11 DEF Folded
    <2>2. ASSUME NEW t \in SUBSET S
          PROVE  e[t] = IF t = {} THEN Nought ELSE Plus(e[t \ {Max(t)}], stats[Max(t)].util)
      <3>1. e[t] = IF t = {} THEN Nought ELSE step[<<Max(t), e[t \ {Max(t)}]>>]
        BY <1>5, <1>11 DEF Folded
      <3>2. CASE t # {}
        <4>1. Max(t) \in S /\ e[t \ {Max(t)}] \in Fractions
          BY <1>3, <2>1, <3>2
        <4> QED
          BY <1>7, <3>1, <3>2, <4>1
      <3> QED
        BY <3>1, <3>2
    <2> QED
      BY <2>1, <2>2 DEF UtilEquation, S
  <1>13. UtilEquation(f, stats)
    BY <1>12
  <1> HIDE DEF f
  <1>14. \A t \in SUBSET S : f[t] = IF t = {} THEN Nought ELSE Plus(f[t \ {Max(t)}], stats[Max(t)].util)
    BY <1>13 DEF UtilEquation, S
  <1> DEFINE Bad == {m \in Nat : \E t \in SUBSET S : Cardinality(t) = m /\ ~AtMost(f[t], m)}
  <1>15. \A t \in SUBSET S : IsFiniteSet(t) /\ Cardinality(t) \in Nat
    BY <1>2, FS_Subset, FS_CardinalityType
  <1>16. Bad = {}
    <2> SUFFICES ASSUME Bad # {} PROVE FALSE
      OBVIOUS
    <2>1. PICK m \in Bad : \A j \in Bad : m <= j
      <3>1. Bad \subseteq Nat
        OBVIOUS
      <3> HIDE DEF Bad
      <3> QED
        BY <3>1, MinIsLeast
    <2>2. PICK t \in SUBSET S : Cardinality(t) = m /\ ~AtMost(f[t], m)
      BY <2>1
    <2>3. t # {}
      <3> SUFFICES ASSUME t = {} PROVE FALSE
        OBVIOUS
      <3>1. f[t] = Nought
        BY <1>14
      <3>2. m = 0
        BY <2>2, FS_EmptySet
      <3> QED
        BY <1>10, <2>2, <3>1, <3>2
    <2> DEFINE rest == t \ {Max(t)}
    <2>4. Max(t) \in t /\ rest \in SUBSET S /\ Cardinality(rest) = m - 1 /\ m - 1 \in Nat
      <3>1. Max(t) \in t /\ rest \in SUBSET S
        BY <1>3, <2>3
      <3>2. Cardinality(rest) = m - 1
        BY <1>15, <2>2, <3>1, FS_RemoveElement
      <3> QED
        BY <1>15, <3>1, <3>2
    <2>5. AtMost(f[rest], m - 1)
      BY <2>1, <2>4
    <2>6. f[t] = Plus(f[rest], stats[Max(t)].util)
      BY <1>14, <2>3
    <2>7. stats[Max(t)].util \in Shares
      BY <1>1, <2>4
    <2> HIDE DEF rest
    <2>8. AtMost(f[t], (m - 1) + 1)
      BY <2>4, <2>5, <2>6, <2>7, PlusShare
    <2>9. (m - 1) + 1 = m
      BY <2>1
    <2> QED
      BY <2>2, <2>8, <2>9
  <1>17. AtMost(f[S], Len(stats))
    <2>1. S \in SUBSET S /\ Cardinality(S) \in Nat
      BY <1>15
    <2>2. AtMost(f[S], Cardinality(S))
      BY <1>16, <2>1
    <2> QED
      BY <1>2, <2>2
  <1>18. PICK u : /\ u = f[S]
                  /\ MeanUtil(stats) = [num |-> u.num, den |-> u.den * num_tracefiles]
    BY MeanUnfolded DEF f, S
  <1> QED
    BY <1>17, <1>18

(* The index is between 0 and 100: p1 is at most UTIL_WEIGHT and p2 at most*)
(* the rest.                                                               *)
LEMMA IndexPercent ==
  ASSUME mm_stats \in Seq(Rows), Len(mm_stats) = num_tracefiles, num_tracefiles \in Nat \ {0},
         NEW secs \in Secs
  PROVE  Plus(p1, p2(secs)).num \in 0 .. 100 * Plus(p1, p2(secs)).den
  <1> DEFINE W == UTIL_WEIGHT
             V == 100 - UTIL_WEIGHT
             n == num_tracefiles
  <1>1. W \in Nat /\ V \in Nat /\ W + V = 100 /\ n \in Nat \ {0}
        /\ secs \in Nat \ {0} /\ AVG_LIBC_THRUPUT \in Nat \ {0}
    BY DriverAssumption
  <1>2. PICK u : AtMost(u, n) /\ MeanUtil(mm_stats) = [num |-> u.num, den |-> u.den * n]
    BY MeanShare
  <1>3. PICK a \in Nat, b \in Nat \ {0} : u.num = a /\ u.den = b /\ a <= n * b
    BY <1>2 DEF AtMost, Fractions
  <1>4. p1 = [num |-> W * a, den |-> b * n]
    BY <1>2, <1>3 DEF p1, Times
  <1> HIDE DEF W, V, n
  <1>5. PICK d \in Nat : d = b * n
    BY <1>1
  <1>6. a <= d
    BY <1>1, <1>3, <1>5
  <1>7. PICK ops \in Nat : ops = TotalOps(mm_stats)
    BY TotalNat
  <1>8. PICK most \in Nat : most = AVG_LIBC_THRUPUT * secs
    BY <1>1
  <1>9. \E c \in Nat : \E e \in Nat : c <= e /\ p2(secs) = [num |-> V * c, den |-> e]
    <2>1. CASE ops > most
      <3>1. p2(secs) = [num |-> V * 1, den |-> 1]
        BY <1>1, <1>7, <1>8, <2>1 DEF p2, V
      <3> QED
        BY <3>1
    <2>2. CASE ~(ops > most)
      <3>1. p2(secs) = [num |-> V * ops, den |-> most]
        BY <1>7, <1>8, <2>2 DEF p2, V
      <3> QED
        BY <2>2, <3>1
    <2> QED
      BY <2>1, <2>2
  <1>10. PICK c \in Nat, e \in Nat : c <= e /\ p2(secs) = [num |-> V * c, den |-> e]
    BY <1>9
  <1>11. Plus(p1, p2(secs)) = [num |-> (W * a) * e + (V * c) * d, den |-> d * e]
    BY <1>4, <1>5, <1>10 DEF Plus
  <1>12. PICK x \in Nat, y \in Nat, z \in Nat : x = a * e /\ y = c * d /\ z = d * e
    OBVIOUS
  <1>13. x <= z /\ y <= z
    <2>1. a * e <= d * e /\ c * d <= e * d
      BY <1>6, <1>10, Products
    <2>2. e * d = d * e
      OBVIOUS
    <2> QED
      BY <1>12, <2>1, <2>2
  <1>14. (W * a) * e = W * x /\ (V * c) * d = V * y
    BY <1>1, <1>12
  <1>15. W * x + V * y \in 0 .. 100 * z
    <2>1. x * W <= z * W /\ y * V <= z * V
      BY <1>1, <1>13, Products
    <2>2. z * W + z * V = 100 * z
      <3>1. z * W + z * V = z * (W + V)
        BY <1>1
      <3> QED
        BY <1>1, <3>1
    <2>3. W * x = x * W /\ V * y = y * V /\ x * W \in Nat /\ y * V \in Nat /\ z * W \in Nat /\ z * V \in Nat
      BY <1>1
    <2> DEFINE q == x * W
               r == y * V
               s == z * W
               t == z * V
    <2>4. q + r \in 0 .. s + t
      <3>1. q \in Nat /\ r \in Nat /\ s \in Nat /\ t \in Nat /\ q <= s /\ r <= t
        BY <2>1, <2>3
      <3> HIDE DEF q, r, s, t
      <3> QED
        BY <3>1
    <2> QED
      BY <2>2, <2>3, <2>4
  <1> QED
    BY <1>11, <1>12, <1>14, <1>15

----------------------------------------------------------------------------
(* The account of eval_mm_util *)

(* The sizes asked for, summed, when one id is bound or removed.           *)
LEMMA SumBound ==
  ASSUME NEW f, IsFiniteSet(DOMAIN f), \A x \in DOMAIN f : f[x] \in Int, NEW k, NEW n \in Int
  PROVE  /\ SumFunction(f) \in Int
         /\ SumFunction(With(f, k, n)) =
               n + (IF k \in DOMAIN f THEN SumFunction(f) - f[k] ELSE SumFunction(f))
         /\ k \in DOMAIN f => SumFunction(Without(f, k)) = SumFunction(f) - f[k]
  <1> DEFINE D == DOMAIN f
             R == D \ {k}
             g == With(f, k, n)
             e == Without(f, k)
             rest == SumFunctionOnSet(f, R)
             whole == SumFunctionOnSet(f, D)
  <1>1. IsFiniteSet(R) /\ \A x \in R : f[x] \in Int
    BY FS_Subset
  <1>2. rest \in Int /\ whole \in Int
    <2>1. rest \in Int
      BY <1>1, SumType
    <2>2. whole \in Int
      BY SumType
    <2> QED
      BY <2>1, <2>2
  <1>3. k \in D => whole = f[k] + rest /\ f[k] \in Int
    BY SumElement
  <1>4. k \notin D => R = D
    OBVIOUS
  <1>5. /\ DOMAIN g = R \cup {k} /\ g[k] = n /\ \A x \in R : g[x] = f[x]
        /\ DOMAIN e = R /\ \A x \in R : e[x] = f[x]
    BY DEF With, Without
  <1> HIDE DEF g, e
  <1>6. SumFunctionOnSet(g, R) = rest /\ SumFunctionOnSet(e, R) = rest
    <2>1. SumFunctionOnSet(g, R) = rest
      BY <1>1, <1>5, SumSame
    <2>2. SumFunctionOnSet(e, R) = rest
      BY <1>1, <1>5, SumSame
    <2> QED
      BY <2>1, <2>2
  <1>7. SumFunctionOnSet(g, R \cup {k}) = n + rest
    <2> DEFINE T == R \cup {k}
    <2>1. IsFiniteSet(T) /\ k \in T /\ T \ {k} = R
      BY <1>1, FS_AddElement
    <2>2. \A x \in T : g[x] \in Int
      BY <1>1, <1>5
    <2> HIDE DEF T
    <2>3. SumFunctionOnSet(g, T) = g[k] + SumFunctionOnSet(g, T \ {k})
      BY <2>1, <2>2, SumElement
    <2> QED
      BY <1>5, <1>6, <2>1, <2>3 DEF T
  <1>8. SumFunction(f) = whole /\ SumFunction(g) = n + rest /\ SumFunction(e) = rest
    BY <1>5, <1>6, <1>7 DEF SumFunction
  <1>9. rest = IF k \in D THEN whole - f[k] ELSE whole
    <2>1. CASE k \in D
      <3> HIDE DEF rest, whole
      <3> QED
        BY <1>2, <1>3, <2>1
    <2>2. CASE k \notin D
      BY <1>4, <2>2
    <2> QED
      BY <2>1, <2>2
  <1> HIDE DEF rest, whole
  <1> QED
    BY <1>2, <1>8, <1>9 DEF g, e

(* total_size follows the sizes in use.                                    *)
LEMMA GrownExact ==
  ASSUME IsFiniteSet(DOMAIN live), \A id \in DOMAIN live : live[id] \in Nat /\ block_sizes[id] = live[id],
         NEW op \in Requests, Follows(DOMAIN live, op)
  PROVE  SumFunction(Served(op)) = SumFunction(live) + Grown(op)
  <1> DEFINE id == op.index
             n == op.size
  <1>1. n \in Int /\ \A x \in DOMAIN live : live[x] \in Int
    BY DEF Requests
  <1>2. /\ SumFunction(live) \in Int
        /\ SumFunction(With(live, id, n)) =
              n + (IF id \in DOMAIN live THEN SumFunction(live) - live[id] ELSE SumFunction(live))
        /\ id \in DOMAIN live => SumFunction(Without(live, id)) = SumFunction(live) - live[id]
    <2> HIDE DEF id, n
    <2> QED
      BY <1>1, SumBound
  <1>3. CASE op.type = "alloc"
    BY <1>1, <1>2, <1>3 DEF Follows, Served, Grown
  <1>4. CASE op.type = "realloc"
    BY <1>1, <1>2, <1>4 DEF Follows, Served, Grown
  <1>5. CASE op.type = "free"
    BY <1>1, <1>2, <1>5 DEF Follows, Served, Grown
  <1> QED
    BY <1>3, <1>4, <1>5 DEF Requests

(* What is allocated fits into the heap: blocks lie apart.                 *)
LEMMA SizesFit ==
  ASSUME NEW h, NEW bs, NEW lv, NEW S, InUse(h, bs, lv, S), IsFiniteSet(DOMAIN lv)
  PROVE  SumFunction(lv) \in Nat /\ SumFunction(lv) <= h.brk
  <1> DEFINE End(k) == bs[k] + S[bs[k]]
             Bad == {m \in Nat : \E D \in SUBSET DOMAIN lv : \E y \in Nat :
                        /\ Cardinality(D) = m /\ \A k \in D : End(k) <= y
                        /\ ~(SumFunctionOnSet(lv, D) <= y)}
  <1>1. ASSUME NEW k \in DOMAIN lv
        PROVE  /\ bs[k] \in DOMAIN S /\ bs[k] \in Nat /\ S[bs[k]] \in Nat /\ lv[k] \in Nat
               /\ lv[k] <= S[bs[k]] /\ End(k) <= h.brk /\ Layout(S, h.brk) /\ h.brk \in Nat
    <2>1. /\ bs[k] \in DOMAIN S /\ bs[k] \in Nat /\ S[bs[k]] \in Nat /\ lv[k] \in Nat
          /\ lv[k] + 8 <= S[bs[k]] /\ Layout(S, h.brk)
      BY BlocksOfIds
    <2>2. End(k) <= h.brk /\ h.brk \in Nat
      BY <2>1, Blocks
    <2>3. lv[k] <= S[bs[k]]
      <3> DEFINE a == lv[k]
                 b == S[bs[k]]
      <3>1. a \in Nat /\ b \in Nat /\ a + 8 <= b
        BY <2>1
      <3> HIDE DEF a, b
      <3>2. a <= b
        BY <3>1
      <3> QED
        BY <3>2 DEF a, b
    <2> QED
      BY <2>1, <2>2, <2>3
  <1>2. \A D \in SUBSET DOMAIN lv : IsFiniteSet(D) /\ Cardinality(D) \in Nat
    BY FS_Subset, FS_CardinalityType
  <1>3. h.brk \in Nat
    BY DEF InUse, Quiet, Sound, Layout, Aligned
  <1>4. Bad = {}
    <2> SUFFICES ASSUME Bad # {} PROVE FALSE
      OBVIOUS
    <2>1. PICK m \in Bad : \A j \in Bad : m <= j
      <3>1. Bad \subseteq Nat
        OBVIOUS
      <3> HIDE DEF Bad
      <3> QED
        BY <3>1, MinIsLeast
    <2>2. PICK D \in SUBSET DOMAIN lv : \E y \in Nat :
              /\ Cardinality(D) = m /\ \A k \in D : End(k) <= y
              /\ ~(SumFunctionOnSet(lv, D) <= y)
      BY <2>1
    <2>3. PICK y \in Nat : /\ Cardinality(D) = m /\ \A k \in D : End(k) <= y
                           /\ ~(SumFunctionOnSet(lv, D) <= y)
      BY <2>2
    <2>4. IsFiniteSet(D) /\ \A k \in D : lv[k] \in Int
      BY <1>1, <1>2
    <2>5. D # {}
      <3> SUFFICES ASSUME D = {} PROVE FALSE
        OBVIOUS
      <3>1. SumFunctionOnSet(lv, D) = 0
        BY <2>4, SumType
      <3> QED
        BY <2>3, <3>1
    <2>6. \E k \in D : \A j \in D : bs[j] <= bs[k]
      <3> DEFINE below == {y - bs[k] : k \in D}
      <3>1. \A k \in D : bs[k] \in Nat /\ S[bs[k]] \in Nat /\ bs[k] <= y
        <4> TAKE k \in D
        <4>1. bs[k] \in Nat /\ S[bs[k]] \in Nat /\ bs[k] + S[bs[k]] <= y
          BY <1>1, <2>3
        <4> QED
          BY <4>1
      <3>2. below \subseteq Nat
        BY <3>1
      <3>3. below # {}
        BY <2>5
      <3> HIDE DEF below
      <3>4. Min(below) \in below /\ \A x \in below : Min(below) <= x
        BY <3>2, <3>3, MinIsLeast
      <3>5. PICK k \in D : Min(below) = y - bs[k]
        BY <3>4 DEF below
      <3>6. \A j \in D : y - bs[k] <= y - bs[j]
        BY <3>4, <3>5 DEF below
      <3>7. \A j \in D : bs[j] <= bs[k]
        BY <3>1, <3>6
      <3> QED
        BY <3>7
    <2>7. PICK k \in D : \A j \in D : bs[j] <= bs[k]
      BY <2>6
    <2> DEFINE R == D \ {k}
    <2>8. ASSUME NEW j \in R PROVE End(j) <= bs[k]
      <3>1. bs[j] # bs[k]
        BY <2>8 DEF InUse
      <3>2. /\ bs[j] \in Nat /\ bs[k] \in Nat /\ bs[j] <= bs[k]
            /\ bs[j] \in DOMAIN S /\ bs[k] \in DOMAIN S /\ Layout(S, h.brk)
        BY <1>1, <2>7, <2>8
      <3>3. bs[j] < bs[k]
        BY <3>1, <3>2
      <3> QED
        BY <3>2, <3>3 DEF Layout
    <2>9. R \in SUBSET DOMAIN lv /\ Cardinality(R) = m - 1 /\ m - 1 \in Nat
      <3>1. R \in SUBSET DOMAIN lv /\ Cardinality(R) = m - 1
        BY <2>3, <2>4, FS_RemoveElement
      <3>2. Cardinality(R) \in Nat
        BY <1>2, <3>1
      <3> QED
        BY <3>1, <3>2
    <2>10. SumFunctionOnSet(lv, R) <= bs[k]
      <3>1. bs[k] \in Nat
        BY <1>1
      <3>2. m - 1 \notin Bad
        BY <2>1, <2>9
      <3> HIDE DEF R
      <3> QED
        BY <2>8, <2>9, <3>1, <3>2
    <2>11. SumFunctionOnSet(lv, D) = lv[k] + SumFunctionOnSet(lv, R)
      BY <2>4, SumElement
    <2>12. SumFunctionOnSet(lv, R) \in Int
      <3>1. IsFiniteSet(R) /\ \A j \in R : lv[j] \in Int
        BY <1>2, <2>4, <2>9
      <3> HIDE DEF R
      <3> QED
        BY <3>1, SumType
    <2>13. End(k) <= y /\ bs[k] \in Nat /\ S[bs[k]] \in Nat /\ lv[k] \in Nat /\ lv[k] <= S[bs[k]]
      BY <1>1, <2>3
    <2> DEFINE a == SumFunctionOnSet(lv, R)
               b == bs[k]
               c == S[b]
               d == lv[k]
    <2>14. a \in Int /\ b \in Nat /\ c \in Nat /\ d \in Nat /\ a <= b /\ d <= c /\ b + c <= y
      BY <2>10, <2>12, <2>13
    <2>15. ~(d + a <= y)
      BY <2>3, <2>11
    <2> HIDE DEF a, b, c, d
    <2> QED
      BY <2>14, <2>15
  <1>5. SumFunctionOnSet(lv, DOMAIN lv) <= h.brk
    <2>1. \A k \in DOMAIN lv : End(k) <= h.brk
      BY <1>1
    <2>2. DOMAIN lv \in SUBSET DOMAIN lv /\ Cardinality(DOMAIN lv) \in Nat
      BY <1>2
    <2> QED
      BY <1>3, <1>4, <2>1, <2>2
  <1>6. SumFunctionOnSet(lv, DOMAIN lv) \in Nat
    BY <1>1, SumNat
  <1> QED
    BY <1>5, <1>6 DEF SumFunction

(* The list of a heap that is quiet starts inside the heap.                *)
LEMMA QuietList ==
  ASSUME NEW h, NEW S, NEW U, Quiet(h, S, U)
  PROVE  h.list \in 0 .. MAX_HEAP
  <1>1. PICK n \in Nat : \E L \in [1 .. n -> DOMAIN S \ U] : Chained(h, S, DOMAIN S \ U, n, L)
    BY DEF Quiet, Sound
  <1>2. PICK L \in [1 .. n -> DOMAIN S \ U] : Chained(h, S, DOMAIN S \ U, n, L)
    BY <1>1
  <1>3. h.list = IF n = 0 THEN 0 ELSE L[1]
    BY <1>2 DEF Chained, NULL
  <1>4. n # 0 => L[1] \in DOMAIN S
    BY <1>2
  <1>5. \A b \in DOMAIN S : b \in 0 .. MAX_HEAP
    <2>1. Layout(S, h.brk)
      BY DEF Quiet, Sound
    <2> TAKE b \in DOMAIN S
    <2>2. b \in Nat /\ S[b] \in Nat /\ b + S[b] <= h.brk /\ h.brk <= MAX_HEAP /\ h.brk \in Nat
      BY <2>1, Blocks
    <2> QED
      BY <2>2, MaxHeap
  <1> QED
    BY <1>3, <1>4, <1>5, MaxHeap

(* No request gives memory back, and none leads the list outside.          *)
LEMMA HeapAfter ==
  ASSUME heap \in Heaps, heap.list \in 0 .. MAX_HEAP, NEW S, InUse(heap, blocks, live, S),
         NEW op \in Requests, Follows(DOMAIN live, op), NEW r, r = Result(op)
  PROVE  r.heap.list \in 0 .. MAX_HEAP /\ r.heap.brk >= heap.brk
  <1> DEFINE U == Held(blocks, DOMAIN live)
             p == blocks[op.index]
             n == op.size
  <1>1. Quiet(heap, S, U) /\ heap.brk \in Nat
    BY DEF InUse, Heaps
  <1>2. op.type # "free" => n \in Nat \ {0}
    BY DEF Follows, Requests
  <1>3. op.type # "alloc" => p \in U
    BY DEF Follows, Held
  <1> HIDE DEF U, n
  <1>4. \/ r.heap = heap
        \/ r.heap.brk >= heap.brk /\ \E T, V : Quiet(r.heap, T, V)
    <2>1. CASE op.type = "alloc"
      <3>1. r = mm_malloc(heap, n) /\ n \in Nat \ {0}
        BY <1>2, <2>1 DEF Result, n
      <3>2. \/ r.ptr = NULL /\ r.heap = heap
            \/ r.ptr # NULL /\ \E T : Placed(heap, r, S, T, U, n + 8)
        BY <1>1, <3>1, MallocSound
      <3> QED
        BY <3>2 DEF Placed
    <2>2. CASE op.type = "realloc"
      <3>1. r = mm_realloc(heap, p, n) /\ p \in U /\ n \in Nat \ {0}
        BY <1>2, <1>3, <2>2 DEF Result, n
      <3> HIDE DEF p
      <3>2. \/ r.ptr = NULL /\ r.heap = heap
            \/ r.ptr # NULL /\ \E T : Resized(heap, r, S, T, U, p, n)
        BY <1>1, <3>1, ReallocSound
      <3> QED
        BY <3>2 DEF Resized
    <2>3. CASE op.type = "free"
      <3> DEFINE g == r.heap
      <3>1. g = mm_free(heap, p) /\ p \in U
        BY <1>3, <2>3 DEF Result
      <3> HIDE DEF p, g
      <3>2. \E T : Settled(heap, g, S, T, U \ {p})
        BY <1>1, <3>1, FreeSound
      <3> QED
        BY <3>2 DEF Settled, g
    <2> QED
      BY <2>1, <2>2, <2>3 DEF Requests
  <1>5. CASE r.heap = heap
    BY <1>1, <1>5
  <1>6. CASE r.heap.brk >= heap.brk /\ \E T, V : Quiet(r.heap, T, V)
    BY <1>6, QuietList
  <1> QED
    BY <1>4, <1>5, <1>6

----------------------------------------------------------------------------
(* The inductive invariant of the driver's books *)

(* The options read so far; -f has set tracedir to the current directory,  *)
(* and -t no longer changes it.                                            *)
OptionsRead ==
    /\ opts \in [tracedir : {"TRACEDIR", "./", "dir/"}, team_check : BOOLEAN, run_libc : BOOLEAN]
    /\ num_tracefiles \in {0, 1, NumTraces}
    /\ pc \in Evaluations \cup {"args", "start", "libc", "libc speed", "idle", "scored", "exited"}
    /\ pc = "args" => num_tracefiles \in {0, 1} /\ (num_tracefiles = 1 => opts.tracedir = "./")
    /\ pc = "start" => (num_tracefiles # NumTraces => opts.tracedir = "./")
    /\ pc \notin {"args", "exited"} => num_tracefiles # 0

(* The driver stays inside the trace and the list inside the heap.         *)
Inside == i \in Nat /\ i <= Len(trace) /\ heap.list \in 0 .. MAX_HEAP

(* Every id of the trace has a block and a size.                           *)
SizesKnown ==
    /\ DOMAIN live \subseteq DOMAIN blocks \cap DOMAIN block_sizes
    /\ pc \in Evaluations => \A k \in 1 .. Len(trace) :
          trace[k].type # "free" => trace[k].index \in DOMAIN block_sizes

(* The account of eval_mm_util.                                            *)
Accounted ==
    /\ total_size \in Nat /\ max_total_size \in Nat
    /\ max_total_size >= total_size
    /\ pc = "util" => /\ total_size = SumFunction(live)
                      /\ max_total_size <= heap.brk
                      /\ \A id \in DOMAIN live : block_sizes[id] = live[id]

(* The traces that eval_mm_valid is done with.                             *)
Judged == IF pc = "valid" THEN ntraces - 1 ELSE ntraces

AllValid(stats, n) == \A t \in 1 .. n : stats[t].valid

(* The table of results: a row for each trace begun, valid where           *)
(* eval_mm_valid found no error.                                           *)
Tabulated ==
    /\ mm_stats \in Seq(Rows) /\ Len(mm_stats) <= NumTraces
    /\ pc \in {"args", "start", "libc", "libc speed"} => errors = {} /\ mm_stats = <<>>
    /\ pc \in {"idle"} \cup Evaluations =>
          /\ ntraces = Len(mm_stats) /\ ntraces <= num_tracefiles
          /\ pc # "idle" => ntraces # 0
          /\ pc = "valid" => ~mm_stats[ntraces].valid
          /\ errors = {} <=> AllValid(mm_stats, Judged)
    /\ pc = "scored" =>
          /\ Len(mm_stats) = num_tracefiles
          /\ errors = {} <=> AllValid(mm_stats, num_tracefiles)
          /\ numcorrect = Cardinality({t \in DOMAIN mm_stats : mm_stats[t].valid})
          /\ errors # {} => perfindex.num = 0
          /\ perfindex.num \in 0 .. 100 * perfindex.den

(* The inductive invariant: an index needs the table, the table the account*)
(* of eval_mm_util, and this the sizes and where the blocks lie, IInv.     *)
Books == IInv /\ OptionsRead /\ Inside /\ SizesKnown /\ Accounted /\ Tabulated

(* The driver starts with empty books.                                     *)
LEMMA InitBooks == Init => Books
  <1> SUFFICES ASSUME Init PROVE Books
    OBVIOUS
  <1>1. IInv
    BY InitInvariant
  <1>2. OptionsRead
    BY DEF Init, NoOpts, OptionsRead, Evaluations
  <1>3. Inside
    <2>1. heap.list = 0 /\ i = 0 /\ trace = <<>> /\ Len(<<>>) = 0
      BY DEF Init, FreshMemory, NULL
    <2> QED
      BY <2>1, MaxHeap DEF Inside
  <1>4. SizesKnown
    BY DEF Init, SizesKnown, Evaluations
  <1>5. Accounted
    BY DEF Init, Accounted
  <1>6. Tabulated
    <2>1. mm_stats = <<>> /\ Len(<<>>) = 0 /\ <<>> \in Seq(Rows) /\ NumTraces \in Nat
      BY DriverAssumption DEF Init
    <2> QED
      BY <2>1 DEF Init, Tabulated, Evaluations
  <1> QED
    BY <1>1, <1>2, <1>3, <1>4, <1>5, <1>6 DEF Books

(* The options.                                                            *)
LEMMA OptionsKept == OptionsRead /\ [Next]_vars => OptionsRead'
  <1> SUFFICES ASSUME OptionsRead, [Next]_vars PROVE OptionsRead'
    OBVIOUS
  <1>1. NumTraces \in Nat \ {0}
    BY DriverAssumption
  <1>2. CASE Option
    <2>1. pc = "args"
      BY <1>2 DEF Option
    <2>2. CASE OptionF /\ UNCHANGED pc
      BY <1>1, <2>1, <2>2 DEF OptionF, OptionsRead
    <2>3. CASE OptionT /\ UNCHANGED pc
      BY <1>1, <2>1, <2>3 DEF OptionT, OptionsRead
    <2>4. CASE OptionsAL /\ UNCHANGED pc
      BY <1>1, <2>1, <2>4 DEF OptionsAL, OptionsRead
    <2>5. CASE usage
      BY <1>1, <2>1, <2>5 DEF usage, Quit, argVars, OptionsRead
    <2> QED
      BY <1>2, <2>2, <2>3, <2>4, <2>5 DEF Option
  <1>3. CASE StartUp
    BY <1>1, <1>3 DEF StartUp, OptionsRead, Evaluations
  <1>4. CASE RunLibc \/ RunMM
    <2>1. NoOpts \in [tracedir : {"TRACEDIR", "./", "dir/"}, team_check : BOOLEAN, run_libc : BOOLEAN]
      BY DEF NoOpts
    <2> QED
      BY <1>4, <2>1 DEF RunLibc, RunMM, Begin, OptionsRead, Evaluations
  <1>5. ASSUME UNCHANGED argVars, pc \notin {"args", "start", "exited"},
               pc' \in Evaluations \cup {"libc", "libc speed", "idle", "scored", "exited"}
        PROVE  OptionsRead'
    BY <1>5 DEF OptionsRead, argVars, Evaluations
  <1>6. CASE read_trace_fails \/ eval_libc_valid \/ eval_libc_speed
    BY <1>5, <1>6 DEF read_trace_fails, eval_libc_valid, eval_libc_speed, Quit
  <1>7. CASE BeginValid \/ BeginUtil \/ BeginSpeed \/ EndTrace \/ Score
    BY <1>5, <1>7 DEF BeginValid, BeginUtil, BeginSpeed, Rerun, EndTrace, Score, Evaluations
  <1>8. CASE \E op \in Legal : Valid(op)
    <2>1. PICK op \in Legal : Valid(op)
      BY <1>8
    <2>2. UNCHANGED argVars /\ pc = "valid" /\ pc' \in {"valid", "idle"}
      BY <2>1 DEF Valid, ValidBlock, ValidFree
    <2> QED
      BY <1>5, <2>2 DEF Evaluations
  <1>9. CASE Util \/ Speed
    BY <1>5, <1>9 DEF Util, Speed, Replay, Quit, Evaluations
  <1>10. CASE UNCHANGED vars
    BY <1>10 DEF vars, argVars, OptionsRead
  <1> QED
    BY <1>2, <1>3, <1>4, <1>6, <1>7, <1>8, <1>9, <1>10 DEF Next, LibcPass

(* What a request of an evaluation does to the heap.                       *)
LEMMA RequestHeap ==
  ASSUME IInv, Inside, pc \in Evaluations, NEW op \in Requests, Follows(DOMAIN live, op),
         NEW r, r = Result(op)
  PROVE  r.heap \in Heaps /\ r.heap.list \in 0 .. MAX_HEAP /\ r.heap.brk >= heap.brk
  <1>1. heap \in Heaps /\ heap.list \in 0 .. MAX_HEAP
    BY DEF IInv, Inside
  <1>2. PICK S : InUse(heap, blocks, live, S)
    BY DEF IInv, BlocksHeld
  <1>3. r.heap \in Heaps
    BY <1>1, <1>2, RequestServed
  <1>4. r.heap.list \in 0 .. MAX_HEAP /\ r.heap.brk >= heap.brk
    BY <1>1, <1>2, HeapAfter
  <1> QED
    BY <1>3, <1>4

(* An evaluation begins with a list inside the heap.                       *)
LEMMA BeginningHeap ==
  ASSUME heap \in Heaps
  PROVE  mm_init(mem_reset_brk(heap)).list \in 0 .. MAX_HEAP
  <1> DEFINE g == mm_init(mem_reset_brk(heap))
  <1>1. PICK T : Quiet(g, T, {})
    BY InitSound
  <1> HIDE DEF g
  <1>2. g.list \in 0 .. MAX_HEAP
    BY <1>1, QuietList
  <1> QED
    BY <1>2 DEF g

(* A step of eval_mm_valid, with its request and the answer.               *)
LEMMA ValidStep ==
  ASSUME IInv, NEW op \in Legal, Valid(op)
  PROVE  /\ op \in Requests /\ Follows(DOMAIN live, op) /\ pc = "valid"
         /\ trace \in Seq(Requests) /\ trace' = Append(trace, op) /\ i = Len(trace) /\ i' = i + 1
         /\ UNCHANGED <<argVars, total_size, max_total_size, ntraces, mm_stats, scoreVars>>
         /\ \E r, rs : r = Result(op) /\ (ValidBlock(op, r, rs) \/ ValidFree(op, r, rs))
  <1>1. /\ pc = "valid" /\ pc \in Evaluations
        /\ trace' = Append(trace, op) /\ i' = i + 1
        /\ UNCHANGED <<argVars, total_size, max_total_size, ntraces, mm_stats, scoreVars>>
        /\ \E r, rs : r = Result(op) /\ (ValidBlock(op, r, rs) \/ ValidFree(op, r, rs))
    BY DEF Valid, Evaluations
  <1>2. op \in Requests /\ Follows(DOMAIN live, op)
    BY <1>1, IdsInUse, LegalFollows
  <1>3. trace \in Seq(Requests) /\ i = Len(trace)
    BY <1>1 DEF IInv, TraceKept
  <1> QED
    BY <1>1, <1>2, <1>3

(* The driver stays inside its trace and the list inside the heap.         *)
LEMMA InsideKept == IInv /\ Inside /\ [Next]_vars => Inside'
  <1> SUFFICES ASSUME IInv, Inside, [Next]_vars PROVE Inside'
    OBVIOUS
  <1>1. heap \in Heaps /\ trace \in Seq(Requests) /\ Len(trace) \in Nat
    BY LenProperties DEF IInv, TraceKept
  <1>2. ASSUME UNCHANGED <<heap, i, trace>> PROVE Inside'
    BY <1>2 DEF Inside
  <1>3. ASSUME heap' = mm_init(mem_reset_brk(heap)), i' = 0, trace' \in {trace, <<>>}
        PROVE  Inside'
    <2>1. Len(trace') \in Nat
      <3>1. Len(<<>>) = 0
        OBVIOUS
      <3> QED
        BY <1>1, <1>3, <3>1
    <2>2. heap'.list \in 0 .. MAX_HEAP
      BY <1>1, <1>3, BeginningHeap
    <2> QED
      BY <1>3, <2>1, <2>2 DEF Inside
  <1>4. CASE \E op \in Legal : Valid(op)
    <2>1. PICK op \in Legal : Valid(op)
      BY <1>4
    <2>2. /\ op \in Requests /\ Follows(DOMAIN live, op) /\ pc = "valid"
          /\ trace' = Append(trace, op) /\ i = Len(trace) /\ i' = i + 1
          /\ \E r, rs : r = Result(op) /\ (ValidBlock(op, r, rs) \/ ValidFree(op, r, rs))
      BY <2>1, ValidStep
    <2>3. PICK r, rs : r = Result(op) /\ (ValidBlock(op, r, rs) \/ ValidFree(op, r, rs))
      BY <2>2
    <2>4. r.heap \in Heaps /\ r.heap.list \in 0 .. MAX_HEAP
      <3>1. pc \in Evaluations
        BY <2>2 DEF Evaluations
      <3> QED
        BY <2>2, <2>3, <3>1, RequestHeap
    <2>5. heap' = r.heap \/ heap' = memset(r.heap, r.ptr, op.size, op.index)
      BY <2>3 DEF ValidBlock, ValidFree
    <2>6. heap'.list = r.heap.list
      BY <2>4, <2>5 DEF memset, Heaps
    <2>7. Len(trace') = Len(trace) + 1
      BY <1>1, <2>2, AppendProperties
    <2> QED
      BY <1>1, <2>2, <2>4, <2>6, <2>7 DEF Inside
  <1>5. CASE Util \/ Speed
    <2>1. pc \in {"util", "speed"} /\ i < Len(trace) /\ pc \in Evaluations
      BY <1>5 DEF Util, Speed, Evaluations
    <2>2. PICK op, r : op = trace[i + 1] /\ r = Result(op) /\ Replay(op, r)
      BY <1>5 DEF Util, Speed
    <2>3. op \in Requests /\ Follows(DOMAIN live, op)
      BY <2>1, <2>2, Replayed
    <2>4. r.heap.list \in 0 .. MAX_HEAP
      BY <2>1, <2>2, <2>3, RequestHeap
    <2>5. heap' = r.heap /\ i' = i + 1 /\ trace' = trace
      BY <2>2 DEF Replay
    <2> QED
      BY <1>1, <2>1, <2>4, <2>5 DEF Inside
  <1>6. CASE BeginValid \/ BeginUtil \/ BeginSpeed
    BY <1>3, <1>6 DEF BeginValid, BeginUtil, BeginSpeed, Rerun, evalVars
  <1>7. CASE Option \/ StartUp \/ read_trace_fails \/ LibcPass \/ RunMM
    BY <1>2, <1>7 DEF Option, StartUp, read_trace_fails, LibcPass, RunLibc, eval_libc_valid,
                      eval_libc_speed, RunMM, evalVars
  <1>8. CASE EndTrace \/ Score \/ UNCHANGED vars
    BY <1>2, <1>8 DEF EndTrace, Score, vars, evalVars
  <1> QED
    BY <1>4, <1>5, <1>6, <1>7, <1>8 DEF Next

(* A request of the trace that the evaluation runs again.                  *)
LEMMA ReplayStep ==
  ASSUME IInv, SizesKnown, Util \/ Speed
  PROVE  \E op \in Requests : \E r :
            /\ op = trace[i + 1] /\ r = Result(op) /\ Replay(op, r) /\ Follows(DOMAIN live, op)
            /\ pc \in {"util", "speed"} /\ pc \in Evaluations /\ i < Len(trace)
            /\ op.type # "free" => op.index \in DOMAIN block_sizes
            /\ pc' \in {pc, "exited"}
  <1>1. pc \in {"util", "speed"} /\ i < Len(trace) /\ pc \in Evaluations
    BY DEF Util, Speed, Evaluations
  <1>2. PICK op, r : op = trace[i + 1] /\ r = Result(op) /\ Replay(op, r)
    BY DEF Util, Speed
  <1>3. op \in Requests /\ Follows(DOMAIN live, op)
    BY <1>1, <1>2, Replayed
  <1>4. i + 1 \in 1 .. Len(trace)
    BY <1>1, LenProperties DEF IInv, TraceKept
  <1>5. op.type # "free" => op.index \in DOMAIN block_sizes
    BY <1>1, <1>2, <1>4 DEF SizesKnown
  <1>6. pc' \in {pc, "exited"}
    BY <1>2 DEF Replay, Quit
  <1> QED
    BY <1>1, <1>2, <1>3, <1>5, <1>6

(* The ids of the trace keep their blocks and sizes.                       *)
LEMMA SizesKept == IInv /\ SizesKnown /\ [Next]_vars => SizesKnown'
  <1> SUFFICES ASSUME IInv, SizesKnown, [Next]_vars PROVE SizesKnown'
    OBVIOUS
  <1>1. trace \in Seq(Requests) /\ Len(trace) \in Nat
    BY LenProperties DEF IInv, TraceKept
  <1>2. ASSUME UNCHANGED <<blocks, block_sizes, trace>>, live' \in {live, <<>>},
               pc' \in Evaluations => pc \in Evaluations
        PROVE  SizesKnown'
    <2>1. DOMAIN live' \subseteq DOMAIN live
      BY <1>2
    <2> QED
      BY <1>2, <2>1 DEF SizesKnown
  <1>3. CASE \E op \in Legal : Valid(op)
    <2>1. PICK op \in Legal : Valid(op)
      BY <1>3
    <2>2. /\ op \in Requests /\ Follows(DOMAIN live, op) /\ pc = "valid"
          /\ trace' = Append(trace, op)
          /\ \E r, rs : r = Result(op) /\ (ValidBlock(op, r, rs) \/ ValidFree(op, r, rs))
      BY <2>1, ValidStep
    <2>3. PICK r, rs : ValidBlock(op, r, rs) \/ ValidFree(op, r, rs)
      BY <2>2
    <2>4. /\ Len(trace') = Len(trace) + 1 /\ trace'[Len(trace) + 1] = op
          /\ \A k \in 1 .. Len(trace) : trace'[k] = trace[k]
      BY <1>1, <2>2, AppendProperties
    <2>5. DOMAIN live \subseteq DOMAIN blocks \cap DOMAIN block_sizes
      BY DEF SizesKnown
    <2>6. \A k \in 1 .. Len(trace) : trace[k].type # "free" => trace[k].index \in DOMAIN block_sizes
      BY <2>2 DEF SizesKnown, Evaluations
    <2>7. ASSUME DOMAIN live' \subseteq DOMAIN blocks' \cap DOMAIN block_sizes',
                 DOMAIN block_sizes \subseteq DOMAIN block_sizes',
                 op.type # "free" => op.index \in DOMAIN block_sizes'
          PROVE  SizesKnown'
      <3>1. ASSUME NEW k \in 1 .. Len(trace'), trace'[k].type # "free"
            PROVE  trace'[k].index \in DOMAIN block_sizes'
        <4>1. CASE k \in 1 .. Len(trace)
          BY <2>4, <2>6, <2>7, <3>1, <4>1
        <4>2. CASE k = Len(trace) + 1
          BY <2>4, <2>7, <3>1, <4>2
        <4> QED
          BY <1>1, <2>4, <4>1, <4>2
      <3> QED
        BY <2>7, <3>1 DEF SizesKnown
    <2>8. CASE ValidFree(op, r, rs)
      <3>1. op.type = "free" /\ live' = Without(live, op.index) /\ UNCHANGED <<blocks, block_sizes>>
        BY <2>8 DEF ValidFree, Served
      <3>2. DOMAIN live' \subseteq DOMAIN live
        BY <3>1 DEF Without
      <3> QED
        BY <2>5, <2>7, <3>1, <3>2
    <2>9. CASE ValidBlock(op, r, rs) /\ pc' = "valid"
      <3>1. /\ blocks' = With(blocks, op.index, r.ptr) /\ live' = With(live, op.index, op.size)
            /\ block_sizes' = With(block_sizes, op.index, op.size)
        BY <2>9 DEF ValidBlock, Served
      <3>2. /\ DOMAIN blocks' = DOMAIN blocks \cup {op.index}
            /\ DOMAIN live' = DOMAIN live \cup {op.index}
            /\ DOMAIN block_sizes' = DOMAIN block_sizes \cup {op.index}
        BY <3>1 DEF With
      <3> QED
        BY <2>5, <2>7, <3>2
    <2>10. CASE ValidBlock(op, r, rs) /\ pc' # "valid"
      <3>1. /\ blocks' = blocks /\ block_sizes' = block_sizes /\ live' = <<>> /\ pc' = "idle"
        BY <2>10 DEF ValidBlock
      <3> QED
        BY <3>1 DEF SizesKnown, Evaluations
    <2> QED
      BY <2>3, <2>8, <2>9, <2>10
  <1>4. CASE Util \/ Speed
    <2> DEFINE Step(op, r) == /\ Replay(op, r) /\ Follows(DOMAIN live, op) /\ pc \in Evaluations
                              /\ op.type # "free" => op.index \in DOMAIN block_sizes
    <2>0. PICK op \in Requests : \E r : Step(op, r)
      BY <1>4, ReplayStep
    <2>1. PICK r : Step(op, r)
      BY <2>0
    <2>2. /\ trace' = trace
          /\ blocks' = (IF (r.ptr # NULL \/ op.type = "free") /\ op.type # "free"
                        THEN With(blocks, op.index, r.ptr) ELSE blocks)
          /\ live' = IF r.ptr # NULL \/ op.type = "free" THEN Served(op) ELSE <<>>
      BY <2>1 DEF Replay
    <2>3. DOMAIN block_sizes' = DOMAIN block_sizes
      <3>1. CASE block_sizes' = block_sizes
        BY <3>1
      <3>2. CASE Util
        <4>1. block_sizes' = IF trace[i + 1].type = "free" THEN block_sizes
                             ELSE With(block_sizes, trace[i + 1].index, trace[i + 1].size)
          BY <3>2 DEF Util
        <4>2. trace[i + 1].type # "free" => trace[i + 1].index \in DOMAIN block_sizes
          BY <1>4, ReplayStep
        <4> QED
          BY <4>1, <4>2 DEF With
      <3> QED
        BY <1>4, <3>1, <3>2 DEF Speed
    <2>4. DOMAIN live' \subseteq DOMAIN blocks' \cap DOMAIN block_sizes'
      <3>1. CASE live' = <<>>
        BY <3>1
      <3>2. CASE op.type = "free" /\ live' = Without(live, op.index)
        <4>1. blocks' = blocks
          BY <2>2, <3>2
        <4> QED
          BY <2>3, <3>2, <4>1 DEF SizesKnown, Without
      <3>3. CASE op.type # "free" /\ r.ptr # NULL /\ live' = With(live, op.index, op.size)
        <4>1. blocks' = With(blocks, op.index, r.ptr)
          BY <2>2, <3>3
        <4> QED
          BY <2>1, <2>3, <3>3, <4>1 DEF SizesKnown, With
      <3> QED
        BY <2>2, <3>1, <3>2, <3>3 DEF Served
    <2> QED
      BY <2>1, <2>2, <2>3, <2>4 DEF SizesKnown
  <1>5. CASE BeginValid
    <2>1. live' = <<>> /\ trace' = <<>>
      BY <1>5 DEF BeginValid
    <2>2. DOMAIN live' = {} /\ Len(trace') = 0
      BY <2>1
    <2> QED
      BY <2>2 DEF SizesKnown
  <1>6. CASE BeginUtil \/ BeginSpeed
    BY <1>2, <1>6 DEF BeginUtil, BeginSpeed, Rerun, evalVars, Evaluations
  <1>7. CASE Option \/ StartUp \/ read_trace_fails \/ LibcPass \/ RunMM
    BY <1>2, <1>7 DEF Option, usage, Quit, StartUp, read_trace_fails, LibcPass, RunLibc, Begin,
                      eval_libc_valid, eval_libc_speed, RunMM, evalVars, Evaluations
  <1>8. CASE EndTrace \/ Score \/ UNCHANGED vars
    BY <1>2, <1>8 DEF EndTrace, Score, vars, evalVars, Evaluations
  <1> QED
    BY <1>3, <1>4, <1>5, <1>6, <1>7, <1>8 DEF Next

(* There are finitely many ids.                                            *)
LEMMA IdsFinite ==
  ASSUME NEW ids, ids \subseteq Ids
  PROVE  IsFiniteSet(ids)
  <1>1. IsFiniteSet(1 .. 255)
    <2> DEFINE low == 1
               high == 255
    <2>1. low \in Int /\ high \in Int
      OBVIOUS
    <2> HIDE DEF low, high
    <2>2. IsFiniteSet(low .. high)
      BY <2>1, FS_Interval
    <2> QED
      BY <2>2 DEF low, high
  <1>2. ids \subseteq 1 .. 255
    BY DriverAssumption
  <1> QED
    BY <1>1, <1>2, FS_Subset

(* What eval_mm_util makes of a request.                                   *)
LEMMA UtilStep ==
  ASSUME IInv, SizesKnown, Accounted, Util
  PROVE  \E op \in Requests : \E r :
            /\ op = trace[i + 1] /\ r = Result(op) /\ Replay(op, r) /\ Follows(DOMAIN live, op)
            /\ pc = "util" /\ i < Len(trace)
            /\ total_size' = SumFunction(Served(op)) /\ total_size' \in Nat
            /\ max_total_size' = Larger(max_total_size, total_size')
            /\ \A id \in DOMAIN Served(op) : block_sizes'[id] = Served(op)[id]
  <1>1. pc = "util" /\ i < Len(trace)
    BY DEF Util
  <1>2. PICK op, r : /\ op = trace[i + 1] /\ r = Result(op) /\ Replay(op, r)
                     /\ total_size' = total_size + Grown(op)
                     /\ max_total_size' = Larger(max_total_size, total_size')
                     /\ block_sizes' = IF op.type = "free" THEN block_sizes
                                       ELSE With(block_sizes, op.index, op.size)
    BY DEF Util
  <1>3. op \in Requests /\ Follows(DOMAIN live, op)
    BY <1>1, <1>2, Replayed
  <1>4. DOMAIN live \subseteq Ids /\ IsFiniteSet(DOMAIN live)
    <2>1. DOMAIN live \subseteq Ids
      BY <1>1, IdsInUse DEF Evaluations
    <2> QED
      BY <2>1, IdsFinite
  <1>5. /\ total_size = SumFunction(live)
        /\ \A id \in DOMAIN live : live[id] \in Nat /\ block_sizes[id] = live[id]
    <2>1. PICK S : InUse(heap, blocks, live, S)
      BY <1>1 DEF IInv, BlocksHeld, Evaluations
    <2> QED
      BY <1>1, <2>1 DEF Accounted, InUse
  <1>6. total_size' = SumFunction(Served(op))
    BY <1>2, <1>3, <1>4, <1>5, GrownExact
  <1>7. op.type # "free" => op.index \in DOMAIN block_sizes
    <2>1. i + 1 \in 1 .. Len(trace)
      BY <1>1, LenProperties DEF IInv, TraceKept, Evaluations
    <2> QED
      BY <1>1, <1>2, <2>1 DEF SizesKnown, Evaluations
  <1>8. DOMAIN live \subseteq DOMAIN block_sizes
    BY DEF SizesKnown
  <1>9. \A id \in DOMAIN Served(op) : block_sizes'[id] = Served(op)[id] /\ Served(op)[id] \in Nat
    <2>1. CASE op.type = "free"
      BY <1>2, <1>5, <2>1 DEF Served, Without
    <2>2. CASE op.type # "free"
      <3>1. op.size \in Nat
        BY <1>3 DEF Requests
      <3>2. Served(op) = With(live, op.index, op.size) /\ block_sizes' = With(block_sizes, op.index, op.size)
        BY <1>2, <2>2 DEF Served
      <3> QED
        BY <1>5, <1>8, <3>1, <3>2 DEF With
    <2> QED
      BY <2>1, <2>2
  <1>10. DOMAIN Served(op) \subseteq Ids
    BY <1>3, <1>4, ServedIds DEF Uses, Requests
  <1>11. SumFunction(Served(op)) \in Nat
    <2> DEFINE g == Served(op)
    <2>1. IsFiniteSet(DOMAIN g) /\ \A id \in DOMAIN g : g[id] \in Nat
      BY <1>9, <1>10, IdsFinite
    <2> HIDE DEF g
    <2>2. SumFunction(g) \in Nat
      BY <2>1, SumNat DEF SumFunction
    <2> QED
      BY <2>2 DEF g
  <1> QED
    BY <1>1, <1>2, <1>3, <1>6, <1>9, <1>11

(* The account stays true.                                                 *)
LEMMA AccountKept == IInv /\ Inside /\ SizesKnown /\ Accounted /\ [Next]_vars => Accounted'
  <1> SUFFICES ASSUME IInv, Inside, SizesKnown, Accounted, [Next]_vars PROVE Accounted'
    OBVIOUS
  <1>1. ASSUME UNCHANGED <<total_size, max_total_size>>, pc' # "util" PROVE Accounted'
    BY <1>1 DEF Accounted
  <1>2. CASE Util
    <2> DEFINE Step(op, r) ==
            /\ op = trace[i + 1] /\ r = Result(op) /\ Replay(op, r) /\ Follows(DOMAIN live, op)
            /\ pc = "util" /\ i < Len(trace)
            /\ total_size' = SumFunction(Served(op)) /\ total_size' \in Nat
            /\ max_total_size' = Larger(max_total_size, total_size')
            /\ \A id \in DOMAIN Served(op) : block_sizes'[id] = Served(op)[id]
    <2>0. PICK op \in Requests : \E r : Step(op, r)
      BY <1>2, UtilStep
    <2>1. PICK r : Step(op, r)
      BY <2>0
    <2>2. max_total_size' \in Nat /\ max_total_size' >= total_size'
      BY <2>1 DEF Larger, Accounted
    <2>3. ASSUME pc' = "util"
          PROVE  /\ total_size' = SumFunction(live')
                 /\ max_total_size' <= heap'.brk
                 /\ \A id \in DOMAIN live' : block_sizes'[id] = live'[id]
      <3>1. Transferred(op)
        <4>1. pc \in {"util", "speed"} /\ pc' \in Evaluations
          BY <2>1, <2>3 DEF Evaluations
        <4> QED
          BY <2>1, <4>1, ReplayTransfers
      <3>2. PICK T : live' = Served(op) /\ InUse(heap', blocks', live', T)
        BY <3>1 DEF Transferred
      <3>3. heap' \in Heaps /\ heap'.brk >= heap.brk
        <4>1. pc \in Evaluations
          BY <2>1 DEF Evaluations
        <4>2. heap' = r.heap
          BY <2>1 DEF Replay
        <4> QED
          BY <2>1, <4>1, <4>2, RequestHeap
      <3>4. IsFiniteSet(DOMAIN live')
        <4>1. DOMAIN live \subseteq Ids
          BY <2>1, IdsInUse DEF Evaluations
        <4>2. live' = Served(op) /\ op.index \in Ids
          BY <3>2 DEF Requests
        <4>3. DOMAIN Served(op) = Uses(DOMAIN live, op)
          BY ServedIds
        <4>4. DOMAIN live' \subseteq Ids
          BY <4>1, <4>2, <4>3 DEF Uses
        <4> QED
          BY <4>4, IdsFinite
      <3>5. SumFunction(live') <= heap'.brk
        <4> DEFINE g == heap'
                   bs == blocks'
                   lv == live'
        <4>1. InUse(g, bs, lv, T) /\ IsFiniteSet(DOMAIN lv)
          BY <3>2, <3>4
        <4> HIDE DEF g, bs, lv
        <4>2. SumFunction(lv) <= g.brk
          BY <4>1, SizesFit
        <4> QED
          BY <4>2 DEF g, lv
      <3>6. heap.brk \in Nat /\ heap'.brk \in Nat /\ max_total_size <= heap.brk /\ max_total_size \in Nat
        BY <2>1, <3>3, MaxHeap DEF IInv, Heaps, Accounted
      <3>7. max_total_size' <= heap'.brk
        <4>1. total_size' <= heap'.brk
          BY <2>1, <3>2, <3>5
        <4> QED
          BY <2>1, <3>3, <3>6, <4>1 DEF Larger
      <3> QED
        BY <2>1, <3>2, <3>7
    <2> QED
      BY <2>1, <2>2, <2>3 DEF Accounted
  <1>3. CASE BeginUtil
    <2>1. total_size' = 0 /\ max_total_size' = 0 /\ live' = <<>> /\ DOMAIN live' = {}
      BY <1>3 DEF BeginUtil, Rerun
    <2>2. heap'.brk \in Nat
      <3>1. heap' = mm_init(mem_reset_brk(heap)) /\ heap \in Heaps
        BY <1>3 DEF BeginUtil, Rerun, IInv
      <3>2. PICK T : Quiet(heap', T, {})
        BY <3>1, InitSound
      <3> QED
        BY <3>2, MaxHeap DEF Quiet, Sound, Heaps
    <2>3. SumFunction(live') = 0
      <3>1. IsFiniteSet(DOMAIN live') /\ \A x \in DOMAIN live' : live'[x] \in Int
        BY <2>1, FS_EmptySet
      <3> DEFINE lv == live'
      <3>2. IsFiniteSet(DOMAIN lv) /\ (\A x \in DOMAIN lv : lv[x] \in Int) /\ DOMAIN lv = {}
        BY <2>1, <3>1
      <3> HIDE DEF lv
      <3>3. SumFunction(lv) = 0
        BY <3>2, SumType DEF SumFunction
      <3> QED
        BY <3>3 DEF lv
    <2> QED
      BY <2>1, <2>2, <2>3 DEF Accounted
  <1>4. CASE \E op \in Legal : Valid(op)
    <2>1. PICK op \in Legal : Valid(op)
      BY <1>4
    <2>2. UNCHANGED <<total_size, max_total_size>> /\ pc' # "util"
      BY <2>1 DEF Valid, ValidBlock, ValidFree
    <2> QED
      BY <1>1, <2>2
  <1>5. CASE Speed
    <2>1. UNCHANGED <<total_size, max_total_size>> /\ pc' # "util"
      BY <1>5 DEF Speed, Replay, Quit
    <2> QED
      BY <1>1, <2>1
  <1>6. CASE BeginValid \/ BeginSpeed \/ EndTrace \/ Score
    BY <1>1, <1>6 DEF BeginValid, BeginSpeed, Rerun, EndTrace, Score, evalVars
  <1>7. CASE Option \/ StartUp \/ read_trace_fails \/ LibcPass \/ RunMM
    BY <1>1, <1>7 DEF Option, usage, Quit, StartUp, read_trace_fails, LibcPass, RunLibc, Begin,
                      eval_libc_valid, eval_libc_speed, RunMM, evalVars
  <1>8. CASE UNCHANGED vars
    BY <1>8 DEF Accounted, vars, evalVars
  <1> QED
    BY <1>2, <1>3, <1>4, <1>5, <1>6, <1>7, <1>8 DEF Next

(* A row of the table of results that is written over.                     *)
LEMMA RowWritten ==
  ASSUME NEW stats \in Seq(Rows), NEW n \in 1 .. Len(stats), NEW row \in Rows,
         NEW told, told = [stats EXCEPT ![n] = row]
  PROVE  /\ told \in Seq(Rows) /\ Len(told) = Len(stats)
         /\ told[n] = row
         /\ \A t \in 1 .. Len(stats) : t # n => told[t] = stats[t]
  <1>1. Len(stats) \in Nat /\ stats \in [1 .. Len(stats) -> Rows]
    BY LenProperties
  <1>2. told \in [1 .. Len(stats) -> Rows] /\ told[n] = row
    BY <1>1
  <1>3. told \in Seq(Rows) /\ Len(told) = Len(stats)
    BY ExceptSeq
  <1>4. \A t \in 1 .. Len(stats) : t # n => told[t] = stats[t]
    BY <1>1
  <1> QED
    BY <1>2, <1>3, <1>4

(* A row at the end of the table.                                          *)
LEMMA RowAdded ==
  ASSUME NEW stats \in Seq(Rows), NEW told, told = Append(stats, NoStats)
  PROVE  /\ told \in Seq(Rows) /\ Len(told) = Len(stats) + 1
         /\ told[Len(stats) + 1] = NoStats
         /\ \A t \in 1 .. Len(stats) : told[t] = stats[t]
  <1>1. NoStats \in Rows
    BY DEF NoStats, Rows, Shares, Nought
  <1> QED
    BY <1>1, AppendProperties

(* The table keeps a row for each trace begun, valid where no error was    *)
(* found.                                                                  *)
LEMMA TableKept ==
  IInv /\ OptionsRead /\ Accounted /\ Tabulated /\ [Next]_vars => Tabulated'
  <1> SUFFICES ASSUME IInv, OptionsRead, Accounted, Tabulated, [Next]_vars PROVE Tabulated'
    OBVIOUS
  <1>1. /\ mm_stats \in Seq(Rows) /\ Len(mm_stats) \in Nat /\ Len(mm_stats) <= NumTraces
        /\ num_tracefiles \in {0, 1, NumTraces} /\ NumTraces \in Nat \ {0}
    BY LenProperties, DriverAssumption DEF Tabulated, OptionsRead
  <1>2. ASSUME UNCHANGED mm_stats, pc' = "exited" PROVE Tabulated'
    BY <1>1, <1>2 DEF Tabulated, Evaluations
  <1>3. ASSUME UNCHANGED <<mm_stats, errors>>, pc \in {"args", "start", "libc", "libc speed"},
               pc' \in {"args", "start", "libc", "libc speed"}
        PROVE  Tabulated'
    BY <1>1, <1>3 DEF Tabulated, Evaluations
  <1>4. ASSUME UNCHANGED <<mm_stats, errors, ntraces, num_tracefiles>>, pc \in Evaluations,
               \/ pc' = pc
               \/ pc = "speed" /\ pc' = "idle"
        PROVE  Tabulated'
    <2>1. Judged' = Judged /\ AllValid(mm_stats', Judged') = AllValid(mm_stats, Judged)
      BY <1>4 DEF Judged, AllValid, Evaluations
    <2> QED
      BY <1>1, <1>4, <2>1 DEF Tabulated, Evaluations
  <1>5. ASSUME pc \in {"idle"} \cup Evaluations
        PROVE  /\ ntraces = Len(mm_stats) /\ ntraces <= num_tracefiles
               /\ pc # "idle" => ntraces # 0
               /\ pc = "valid" => ~mm_stats[ntraces].valid
               /\ errors = {} <=> AllValid(mm_stats, Judged)
    BY <1>5 DEF Tabulated
  <1>6. CASE RunMM
    <2>1. /\ pc' = "idle" /\ ntraces' = 0 /\ UNCHANGED <<mm_stats, errors, num_tracefiles>>
          /\ pc \in {"start", "libc"}
      BY <1>6 DEF RunMM, Begin
    <2>2. errors' = {} /\ mm_stats' = <<>> /\ Len(<<>>) = 0 /\ <<>> \in Seq(Rows)
      BY <2>1 DEF Tabulated
    <2>3. AllValid(mm_stats', Judged')
      BY <2>1 DEF AllValid, Judged
    <2> QED
      BY <1>1, <2>1, <2>2, <2>3 DEF Tabulated, Evaluations
  <1>7. CASE BeginValid
    <2>1. /\ pc = "idle" /\ pc' = "valid" /\ ntraces < num_tracefiles /\ ntraces' = ntraces + 1
          /\ mm_stats' = Append(mm_stats, NoStats) /\ UNCHANGED <<errors, num_tracefiles>>
      BY <1>7 DEF BeginValid, argVars
    <2> DEFINE told == mm_stats'
    <2>2. /\ told \in Seq(Rows) /\ Len(told) = Len(mm_stats) + 1
          /\ told[Len(mm_stats) + 1] = NoStats
          /\ \A t \in 1 .. Len(mm_stats) : told[t] = mm_stats[t]
      <3>1. told = Append(mm_stats, NoStats)
        BY <2>1
      <3> HIDE DEF told
      <3> QED
        BY <1>1, <3>1, RowAdded
    <2>3. ntraces = Len(mm_stats) /\ (errors = {} <=> AllValid(mm_stats, ntraces))
      BY <1>5, <2>1 DEF Judged
    <2>4. ~mm_stats'[ntraces'].valid
      BY <2>1, <2>2, <2>3 DEF NoStats
    <2>5. Judged' = ntraces
      BY <1>1, <2>1, <2>3 DEF Judged
    <2>6. AllValid(mm_stats', Judged') <=> AllValid(mm_stats, ntraces)
      BY <2>2, <2>3, <2>5 DEF AllValid
    <2>7. ntraces' = Len(mm_stats') /\ ntraces' <= num_tracefiles' /\ ntraces' # 0 /\ Len(mm_stats') <= NumTraces
      BY <1>1, <2>1, <2>2, <2>3
    <2>8. mm_stats' \in Seq(Rows) /\ (errors' = {} <=> AllValid(mm_stats', Judged'))
      BY <2>1, <2>2, <2>3, <2>6
    <2> QED
      BY <2>1, <2>4, <2>7, <2>8 DEF Tabulated, Evaluations
  <1>8. CASE \E op \in Legal : Valid(op)
    <2>1. PICK op \in Legal : Valid(op)
      BY <1>8
    <2>2. /\ pc = "valid" /\ UNCHANGED <<argVars, ntraces, mm_stats>>
          /\ \E r, rs : r = Result(op) /\ (ValidBlock(op, r, rs) \/ ValidFree(op, r, rs))
      BY <2>1, ValidStep
    <2>3. PICK r, rs : ValidBlock(op, r, rs) \/ ValidFree(op, r, rs)
      BY <2>2
    <2>4. \/ pc' = "valid" /\ errors' = errors
          \/ pc' = "idle" /\ errors' # {}
      BY <2>2, <2>3 DEF ValidBlock, ValidFree
    <2>5. CASE pc' = "valid" /\ errors' = errors
      BY <1>4, <2>2, <2>5 DEF argVars, Evaluations
    <2>6. CASE pc' = "idle" /\ errors' # {}
      <3>1. ntraces = Len(mm_stats) /\ ntraces # 0 /\ ~mm_stats[ntraces].valid /\ ntraces <= num_tracefiles
        BY <1>5, <2>2 DEF Evaluations
      <3>2. ntraces' = ntraces /\ mm_stats' = mm_stats /\ num_tracefiles' = num_tracefiles
        BY <2>2 DEF argVars
      <3>3. Judged' = ntraces /\ ~AllValid(mm_stats', Judged')
        BY <1>1, <2>6, <3>1, <3>2 DEF Judged, AllValid
      <3> QED
        BY <1>1, <2>6, <3>1, <3>2, <3>3 DEF Tabulated, Evaluations
    <2> QED
      BY <2>4, <2>5, <2>6
  <1>9. CASE BeginUtil
    <2>1. /\ pc = "valid" /\ pc' = "util" /\ UNCHANGED <<errors, ntraces, num_tracefiles>>
          /\ mm_stats' = [mm_stats EXCEPT ![ntraces].ops = Len(trace), ![ntraces].valid = TRUE]
      BY <1>9 DEF BeginUtil, Rerun, argVars
    <2>2. /\ ntraces = Len(mm_stats) /\ ntraces # 0 /\ ntraces <= num_tracefiles
          /\ errors = {} <=> AllValid(mm_stats, ntraces - 1)
      BY <1>5, <2>1 DEF Evaluations, Judged
    <2>3. ntraces \in 1 .. Len(mm_stats)
      BY <1>1, <2>2
    <2> DEFINE row == [mm_stats[ntraces] EXCEPT !.ops = Len(trace), !.valid = TRUE]
               told == mm_stats'
    <2>4. row \in Rows /\ row.valid
      <3>1. mm_stats[ntraces] \in Rows /\ Len(trace) \in Nat
        BY <1>1, <2>3, ElementOfSeq, LenProperties DEF IInv, TraceKept
      <3> QED
        BY <3>1 DEF Rows
    <2>5. told = [mm_stats EXCEPT ![ntraces] = row]
      BY <2>1
    <2> HIDE DEF row, told
    <2>6. /\ told \in Seq(Rows) /\ Len(told) = Len(mm_stats) /\ told[ntraces] = row
          /\ \A t \in 1 .. Len(mm_stats) : t # ntraces => told[t] = mm_stats[t]
      BY <1>1, <2>3, <2>4, <2>5, RowWritten
    <2>7. AllValid(told, ntraces) <=> AllValid(mm_stats, ntraces - 1)
      BY <1>1, <2>2, <2>4, <2>6 DEF AllValid
    <2>8. Judged' = ntraces
      BY <2>1 DEF Judged
    <2>9. /\ mm_stats' \in Seq(Rows) /\ Len(mm_stats') = Len(mm_stats)
          /\ AllValid(mm_stats', Judged') <=> AllValid(mm_stats, ntraces - 1)
      BY <2>6, <2>7, <2>8 DEF told
    <2> QED
      BY <1>1, <2>1, <2>2, <2>9 DEF Tabulated, Evaluations
  <1>10. CASE BeginSpeed
    <2> DEFINE util == [num |-> max_total_size, den |-> mem_heapsize(heap)]
    <2>1. /\ pc = "util" /\ pc' = "speed" /\ UNCHANGED <<errors, ntraces, num_tracefiles>>
          /\ mm_stats' = [mm_stats EXCEPT ![ntraces].util = util]
      BY <1>10 DEF BeginSpeed, Rerun, argVars
    <2>2. util \in Shares
      <3>1. PICK S : InUse(heap, blocks, live, S)
        BY <2>1 DEF IInv, BlocksHeld, Evaluations
      <3>2. heap.brk \in Nat /\ heap.brk >= 16
        BY <3>1 DEF InUse, Quiet, Sound, Layout, Aligned
      <3>3. max_total_size \in Nat /\ max_total_size <= heap.brk
        BY <2>1 DEF Accounted
      <3> QED
        BY <3>2, <3>3 DEF Shares, mem_heapsize
    <2>3. /\ ntraces = Len(mm_stats) /\ ntraces # 0 /\ ntraces <= num_tracefiles
          /\ errors = {} <=> AllValid(mm_stats, ntraces)
      BY <1>5, <2>1 DEF Evaluations, Judged
    <2>4. ntraces \in 1 .. Len(mm_stats)
      BY <1>1, <2>3
    <2> HIDE DEF util
    <2> DEFINE row == [mm_stats[ntraces] EXCEPT !.util = util]
               told == mm_stats'
    <2>5. row \in Rows /\ row.valid = mm_stats[ntraces].valid
      <3>1. mm_stats[ntraces] \in Rows
        BY <1>1, <2>4, ElementOfSeq
      <3> QED
        BY <2>2, <3>1 DEF Rows
    <2>6. told = [mm_stats EXCEPT ![ntraces] = row]
      BY <2>1
    <2> HIDE DEF row, told
    <2>7. /\ told \in Seq(Rows) /\ Len(told) = Len(mm_stats) /\ told[ntraces] = row
          /\ \A t \in 1 .. Len(mm_stats) : t # ntraces => told[t] = mm_stats[t]
      BY <1>1, <2>4, <2>5, <2>6, RowWritten
    <2>8. AllValid(told, ntraces) <=> AllValid(mm_stats, ntraces)
      BY <1>1, <2>3, <2>5, <2>7 DEF AllValid
    <2>9. Judged' = ntraces
      BY <2>1 DEF Judged
    <2>10. /\ mm_stats' \in Seq(Rows) /\ Len(mm_stats') = Len(mm_stats)
           /\ AllValid(mm_stats', Judged') <=> AllValid(mm_stats, ntraces)
      BY <2>7, <2>8, <2>9 DEF told
    <2> QED
      BY <1>1, <2>1, <2>3, <2>10 DEF Tabulated, Evaluations
  <1>11. CASE Util \/ Speed
    <2>1. PICK op, r : Replay(op, r) /\ pc \in {"util", "speed"}
      BY <1>11 DEF Util, Speed
    <2>2. CASE pc' = "exited"
      BY <1>2, <2>1, <2>2 DEF Replay
    <2>3. CASE pc' # "exited"
      <3>1. pc' = pc /\ UNCHANGED <<errors, ntraces, mm_stats, num_tracefiles>>
        BY <2>1, <2>3 DEF Replay, Quit, argVars
      <3> QED
        BY <1>4, <2>1, <3>1 DEF Evaluations
    <2> QED
      BY <2>2, <2>3
  <1>12. CASE EndTrace
    BY <1>4, <1>12 DEF EndTrace, argVars, Evaluations
  <1>13. CASE Score
    <2>1. /\ pc = "idle" /\ pc' = "scored" /\ ntraces = num_tracefiles
          /\ UNCHANGED <<errors, mm_stats, num_tracefiles>>
          /\ numcorrect' = Cardinality({t \in DOMAIN mm_stats : mm_stats[t].valid})
          /\ IF errors = {} THEN \E secs \in Secs : perfindex' = Plus(p1, p2(secs))
             ELSE perfindex' = Nought
      BY <1>13 DEF Score, argVars
    <2>2. ntraces = Len(mm_stats) /\ (errors = {} <=> AllValid(mm_stats, ntraces))
      BY <1>5, <2>1 DEF Judged
    <2>3. perfindex'.num \in 0 .. 100 * perfindex'.den /\ (errors # {} => perfindex'.num = 0)
      <3>1. CASE errors = {}
        <4>1. PICK secs \in Secs : perfindex' = Plus(p1, p2(secs))
          BY <2>1, <3>1
        <4>2. num_tracefiles \in Nat \ {0}
          BY <1>1, <2>1 DEF OptionsRead
        <4>3. Plus(p1, p2(secs)).num \in 0 .. 100 * Plus(p1, p2(secs)).den
          BY <1>1, <2>1, <2>2, <4>2, IndexPercent
        <4> QED
          BY <3>1, <4>1, <4>3
      <3>2. CASE errors # {}
        BY <2>1, <3>2 DEF Nought
      <3> QED
        BY <3>1, <3>2
    <2> QED
      BY <1>1, <2>1, <2>2, <2>3 DEF Tabulated, Evaluations
  <1>14. CASE Option \/ StartUp \/ RunLibc \/ eval_libc_valid \/ eval_libc_speed
    <2>1. UNCHANGED mm_stats /\ pc \in {"args", "start", "libc", "libc speed"}
      BY <1>14 DEF Option, StartUp, RunLibc, eval_libc_valid, eval_libc_speed
    <2>2. \/ pc' = "exited"
          \/ pc' \in {"args", "start", "libc", "libc speed"} /\ UNCHANGED errors
      BY <1>14 DEF Option, usage, Quit, StartUp, RunLibc, Begin, eval_libc_valid, eval_libc_speed
    <2> QED
      BY <1>2, <1>3, <2>1, <2>2
  <1>15. CASE read_trace_fails
    BY <1>2, <1>15 DEF read_trace_fails, Quit
  <1>16. CASE UNCHANGED vars
    <2>1. UNCHANGED <<mm_stats, errors, ntraces, num_tracefiles, pc, numcorrect, perfindex>>
      BY <1>16 DEF vars, argVars, scoreVars
    <2>2. Judged' = Judged /\ AllValid(mm_stats', Judged') = AllValid(mm_stats, Judged)
      BY <2>1 DEF Judged, AllValid
    <2> QED
      BY <2>1, <2>2 DEF Tabulated, AllValid
  <1> QED
    BY <1>6, <1>7, <1>8, <1>9, <1>10, <1>11, <1>12, <1>13, <1>14, <1>15, <1>16 DEF Next, LibcPass

(* Every step keeps the books.                                             *)
LEMMA BooksKept == Books /\ [Next]_vars => Books'
  BY NextKeeps, OptionsKept, InsideKept, SizesKept, AccountKept, TableKept DEF Books

(* The books hold in every state.                                          *)
LEMMA BooksHold == Spec => []Books
  BY InitBooks, BooksKept, PTL DEF Spec

(* The books have the types of the variables.                              *)
LEMMA BooksTyped == Books => TypeOK
  <1> SUFFICES ASSUME Books PROVE TypeOK
    OBVIOUS
  <1>1. heap.mem \in [Words -> Int] /\ heap.brk \in 0 .. MAX_HEAP /\ heap.list \in 0 .. MAX_HEAP
    BY DEF Books, IInv, Inside, Heaps
  <1>2. i \in 0 .. Len(trace)
    BY LenProperties DEF Books, Inside, IInv, TraceKept
  <1>3. Len(mm_stats) \in 0 .. NumTraces
    <2>1. mm_stats \in Seq(Rows) /\ Len(mm_stats) <= NumTraces /\ NumTraces \in Nat
      BY DriverAssumption DEF Books, Tabulated
    <2>2. Len(mm_stats) \in Nat
      BY <2>1, LenProperties
    <2> QED
      BY <2>1, <2>2
  <1> QED
    BY <1>1, <1>2, <1>3 DEF TypeOK, Books, OptionsRead, SizesKnown, Accounted

(* Every trace is counted as correct only if each of them is valid.        *)
LEMMA AllCounted ==
  ASSUME NEW stats \in Seq(Rows)
  PROVE  AllValid(stats, Len(stats)) <=> Cardinality({t \in DOMAIN stats : stats[t].valid}) = Len(stats)
  <1> DEFINE n == Len(stats)
             all == 1 .. n
             good == {t \in DOMAIN stats : stats[t].valid}
  <1>1. n \in Nat /\ DOMAIN stats = all
    BY LenProperties
  <1>2. IsFiniteSet(all) /\ Cardinality(all) = n
    <2> HIDE DEF n
    <2> QED
      BY <1>1, Positions
  <1>3. good \subseteq all /\ (AllValid(stats, n) <=> good = all)
    BY <1>1 DEF AllValid
  <1> HIDE DEF n, all, good
  <1>4. Cardinality(good) = Cardinality(all) => good = all
    BY <1>2, <1>3, FS_Subset
  <1>5. AllValid(stats, n) <=> Cardinality(good) = n
    BY <1>2, <1>3, <1>4
  <1> QED
    BY <1>5 DEF n, good

(* A table of valid traces shows them all.                                 *)
LEMMA AllShown ==
  ASSUME NEW stats \in Seq(Rows), AllValid(stats, Len(stats))
  PROVE  printresults(stats) = [ops |-> TotalOps(stats), util |-> MeanUtil(stats)]
  <1> DEFINE shown == [t \in DOMAIN stats |-> IF stats[t].valid THEN stats[t] ELSE NoStats]
  <1>1. stats \in [1 .. Len(stats) -> Rows]
    BY LenProperties
  <1>2. shown = stats
    BY <1>1 DEF AllValid
  <1>3. printresults(stats) = [ops |-> TotalOps(shown), util |-> MeanUtil(shown)]
    BY DEF printresults
  <1> HIDE DEF shown
  <1> QED
    BY <1>2, <1>3

(* What the books say of the index.                                        *)
LEMMA BooksSound == Books => IndexSound
  <1> SUFFICES ASSUME Books PROVE IndexSound
    OBVIOUS
  <1>1. pc = "start" /\ num_tracefiles # NumTraces => opts.tracedir = "./"
    BY DEF Books, OptionsRead
  <1>2. pc = "util" => total_size = SumFunction(live) /\ max_total_size <= heap.brk
    BY DEF Books, Accounted
  <1>3. ASSUME pc = "scored"
        PROVE  /\ errors = {} <=> numcorrect = num_tracefiles
               /\ errors = {} => LET table == printresults(mm_stats)
                                 IN  /\ p1 = Times(UTIL_WEIGHT, table.util)
                                     /\ table.ops = TotalOps(mm_stats)
               /\ errors # {} => perfindex.num = 0
               /\ perfindex.num \in 0 .. 100 * perfindex.den
    <2>1. /\ mm_stats \in Seq(Rows) /\ Len(mm_stats) = num_tracefiles
          /\ errors = {} <=> AllValid(mm_stats, num_tracefiles)
          /\ numcorrect = Cardinality({t \in DOMAIN mm_stats : mm_stats[t].valid})
          /\ errors # {} => perfindex.num = 0
          /\ perfindex.num \in 0 .. 100 * perfindex.den
      BY <1>3 DEF Books, Tabulated
    <2>2. errors = {} <=> numcorrect = num_tracefiles
      BY <2>1, AllCounted
    <2>3. errors = {} => printresults(mm_stats) = [ops |-> TotalOps(mm_stats), util |-> MeanUtil(mm_stats)]
      BY <2>1, AllShown
    <2>4. errors = {} => /\ p1 = Times(UTIL_WEIGHT, printresults(mm_stats).util)
                         /\ printresults(mm_stats).ops = TotalOps(mm_stats)
      BY <2>3 DEF p1
    <2> QED
      BY <2>1, <2>2, <2>4
  <1> QED
    BY <1>1, <1>2, <1>3 DEF IndexSound

(* The type invariant of the driver: its heap, its options and the place   *)
(* where it stands in its trace; no id without a block and a size.         *)
THEOREM TypeCorrect == Spec => []TypeOK
  BY BooksHold, BooksTyped, PTL

(* The driver's score can be relied upon: an index is given only if every  *)
(* trace was valid, it is the index of what the table shows, and it is     *)
(* between 0 and 100 whatever the traces, the weight and the time taken,   *)
(* because what eval_mm_util accounts for fits in the heap.                *)
THEOREM IndexIsSound == Spec => []IndexSound
  BY BooksHold, BooksSound, PTL
==============================================================================
