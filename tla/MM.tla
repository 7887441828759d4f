---------------------------------- MODULE MM ----------------------------------
(***************************************************************************)
(* The allocator, project0x03/prj3-malloc/mm.c, on the simulated memory of *)
(* memlib.c: the heap word by word, with the boundary tags of every block  *)
(* and the doubly linked free list kept in the payload of free blocks.     *)
(*                                                                         *)
(* A heap is a record: mem, the words; brk, the end (mem_brk); list, the   *)
(* head of the free list (exp_listp). Every function of mm.c is an operator*)
(* that takes a heap to a heap, or to a heap and the pointer it returns.   *)
(*                                                                         *)
(* Simplifications:                                                        *)
(*  - addresses are relative to mem_start_brk, which malloc aligned to 8;  *)
(*    no block starts at 0, which stands for NULL; pointers take one word, *)
(*    as in the 32-bit build the Makefile asks for;                        *)
(*  - mem_init's memory holds zeros, mem_reset_brk leaves it as it is;     *)
(*  - sizes stay far below 2^31;                                           *)
(*  - the constants are scaled down, with their order kept.                *)
(***************************************************************************)
EXTENDS Integers, Sequences, SequencesExt

CONSTANTS MAX_HEAP,      \* size of the simulated memory (20 MB)
          CHUNKSIZE,     \* least growth of the heap (4096)
          INITCHUNKSIZE, \* first free block (64)
          BIG            \* blocks from this size go to the end of a hole (100)

ALIGNMENT == 8
WSIZE     == 4
DSIZE     == 8
MIN_BLOCK_SIZE == 16
NULL      == 0

Words == 0 .. (MAX_HEAP \div WSIZE) - 1

ASSUME HeapAssumption ==
    /\ {MAX_HEAP, CHUNKSIZE, INITCHUNKSIZE, BIG} \subseteq Nat
    /\ \A n \in {MAX_HEAP, CHUNKSIZE, INITCHUNKSIZE} : n % ALIGNMENT = 0
    /\ INITCHUNKSIZE >= MIN_BLOCK_SIZE
    /\ MAX_HEAP >= 4 * WSIZE + INITCHUNKSIZE

----------------------------------------------------------------------------
(* Macros *)

ALIGN(size) == ((size + ALIGNMENT - 1) \div ALIGNMENT) * ALIGNMENT
PACK(size, alloc) == size + alloc
Larger(x, y)  == IF x > y THEN x ELSE y
Smaller(x, y) == IF x < y THEN x ELSE y

GET(h, p)    == h.mem[p \div WSIZE]
PUT(h, p, v) == [h EXCEPT !.mem[p \div WSIZE] = v]

GET_SIZE(h, p)  == (GET(h, p) \div ALIGNMENT) * ALIGNMENT
GET_ALLOC(h, p) == GET(h, p) % 2

HDRP(bp)         == bp - WSIZE
FTRP(h, bp)      == bp + GET_SIZE(h, HDRP(bp)) - DSIZE
NEXT_BLKP(h, bp) == bp + GET_SIZE(h, HDRP(bp))
PREV_BLKP(h, bp) == bp - GET_SIZE(h, bp - DSIZE)

SEGLIST_NEXT(h, p) == GET(h, p)
SEGLIST_PREV(h, p) == GET(h, p + WSIZE)

(* PUT(HDRP(bp), ...) and PUT(FTRP(bp), ...), the footer found through the *)
(* new header.                                                             *)
Tag(h, bp, size, alloc) ==
    LET g == PUT(h, HDRP(bp), PACK(size, alloc))
    IN  PUT(g, FTRP(g, bp), PACK(size, alloc))

----------------------------------------------------------------------------
(* memlib *)

(* mem_sbrk: the address of the new area, -1 if there is no room.          *)
mem_sbrk(h, incr) ==
    IF incr < 0 \/ h.brk + incr > MAX_HEAP
    THEN [heap |-> h, ptr |-> -1]
    ELSE [heap |-> [h EXCEPT !.brk = @ + incr], ptr |-> h.brk]

mem_reset_brk(h) == [h EXCEPT !.brk = 0]

mem_heap_lo    == 0
mem_heap_hi(h) == h.brk - 1
mem_heapsize(h) == h.brk

(* mem_init *)
FreshMemory == [mem |-> [w \in Words |-> 0], brk |-> 0, list |-> NULL]

----------------------------------------------------------------------------
(* The free list *)

(* The nodes of the list; as many as there is room for blocks if the list  *)
(* is a loop.                                                              *)
Chain(h) ==
    LET next[p \in Int] == IF p = NULL THEN NULL ELSE SEGLIST_NEXT(h, p)
        node[k \in Nat] == IF k = 0 THEN h.list ELSE next[node[k - 1]]
        max == MAX_HEAP \div WSIZE
        len == CHOOSE k \in 0 .. max : /\ node[k] = NULL \/ k = max
                                       /\ \A j \in 0 .. k - 1 : node[j] # NULL
    IN  [k \in 1 .. len |-> node[k - 1]]

(* q becomes the successor of p; NULL for p is the head, for q the end.    *)
Link(h, p, q) ==
    LET g == IF p = NULL THEN [h EXCEPT !.list = q] ELSE PUT(h, p, q)
    IN  IF q = NULL THEN g ELSE PUT(g, q + WSIZE, p)

(* Mutation: the block goes to the head of the list, whatever its size.    *)
insert_node_front(h, ptr, size) == Link(Link(h, NULL, ptr), ptr, h.list)

(* insert_node in the list chain: before the first block that is not       *)
(* smaller.                                                                *)
InsertIn(h, ptr, size, chain) ==
    LET i == SelectInSeq(chain, LAMBDA p : size <= GET_SIZE(h, HDRP(p)))
        cur  == IF i = 0 THEN NULL ELSE chain[i]
        prev == IF i = 1 \/ chain = <<>> THEN NULL
                ELSE IF i = 0 THEN Last(chain) ELSE chain[i - 1]
    IN  Link(Link(h, prev, ptr), ptr, cur)

insert_node(h, ptr, size) == InsertIn(h, ptr, size, Chain(h))

delete_node(h, ptr) == Link(h, SEGLIST_PREV(h, ptr), SEGLIST_NEXT(h, ptr))

(* Mutation: the following block is merged but stays in the free list.     *)
coalesce_keeping(h, bp) ==
    LET next == NEXT_BLKP(h, bp)
        both == GET_SIZE(h, HDRP(bp)) + GET_SIZE(h, HDRP(next))
    IN  IF GET_ALLOC(h, HDRP(next)) = 1
        THEN [heap |-> h, ptr |-> bp]
        ELSE [heap |-> insert_node(Tag(delete_node(h, bp), bp, both, 0), bp, both), ptr |-> bp]

(* coalesce: merge bp, which is in the free list, with its free neighbours.*)
coalesce(h, bp) ==
    LET prev == PREV_BLKP(h, bp)
        next == NEXT_BLKP(h, bp)
        prev_free == GET_ALLOC(h, FTRP(h, prev)) = 0
        next_free == GET_ALLOC(h, HDRP(next)) = 0
        size == GET_SIZE(h, HDRP(bp))
                + (IF prev_free THEN GET_SIZE(h, HDRP(prev)) ELSE 0)
                + (IF next_free THEN GET_SIZE(h, HDRP(next)) ELSE 0)
        Drop(g, free, p) == IF free THEN delete_node(g, p) ELSE g
        rest == Drop(Drop(delete_node(h, bp), prev_free, prev), next_free, next)
        first == IF prev_free THEN prev ELSE bp
    IN  IF ~prev_free /\ ~next_free
        THEN [heap |-> h, ptr |-> bp]
        ELSE [heap |-> insert_node(Tag(rest, first, size, 0), first, size), ptr |-> first]

----------------------------------------------------------------------------
(* The heap grows, blocks are placed *)

extend_heap(h, words) ==
    LET size == ALIGN(words)
        area == mem_sbrk(h, size)
        bp   == area.ptr
        tagged == Tag(area.heap, bp, size, 0)
        closed == PUT(tagged, HDRP(NEXT_BLKP(tagged, bp)), PACK(0, 1))
    IN  IF bp = -1 THEN [heap |-> h, ptr |-> NULL]
        ELSE coalesce(insert_node(closed, bp, size), bp)

(* Mutation: a remainder of any size becomes a free block of its own.      *)
place_splinters(h, bp, block_size) ==
    LET cur_size == GET_SIZE(h, HDRP(bp))
        remain_size == cur_size - block_size
        g == delete_node(h, bp)
        next == bp + block_size
    IN  IF remain_size = 0
        THEN [heap |-> Tag(g, bp, cur_size, 1), ptr |-> bp]
        ELSE [heap |-> insert_node(Tag(Tag(g, bp, block_size, 1), next, remain_size, 0),
                                   next, remain_size),
              ptr |-> bp]

(* place: take block_size bytes of the free block bp, from its end if they *)
(* are many.                                                               *)
place(h, bp, block_size) ==
    LET cur_size == GET_SIZE(h, HDRP(bp))
        remain_size == cur_size - block_size
        g == delete_node(h, bp)
        Split(low, low_alloc, high) ==
            LET t == Tag(g, bp, low, low_alloc)
            IN  Tag(t, NEXT_BLKP(t, bp), high, 1 - low_alloc)
    IN  IF remain_size <= 2 * DSIZE
        THEN [heap |-> Tag(g, bp, cur_size, 1), ptr |-> bp]
        ELSE IF block_size >= BIG
        THEN [heap |-> insert_node(Split(remain_size, 0, block_size), bp, remain_size),
              ptr |-> bp + remain_size]
        ELSE [heap |-> insert_node(Split(block_size, 1, remain_size), bp + block_size, remain_size),
              ptr |-> bp]

----------------------------------------------------------------------------
(* The interface *)

(* mm_init; HeapAssumption leaves room for it.                             *)
mm_init(h) ==
    LET g == mem_sbrk([h EXCEPT !.list = NULL], 4 * WSIZE).heap
        base == h.brk
        prologue == PUT(PUT(PUT(g, base, 0), base + WSIZE, PACK(DSIZE, 1)),
                        base + 2 * WSIZE, PACK(DSIZE, 1))
    IN  extend_heap(PUT(prologue, base + 3 * WSIZE, PACK(0, 1)), INITCHUNKSIZE).heap

(* The block mm_malloc settles on: the first of the smallest that are large*)
(* enough, NULL if there is none.                                          *)
BestIn(h, adj, chain) ==
    LET size(k) == GET_SIZE(h, HDRP(chain[k]))
        fits == {k \in DOMAIN chain : GET_ALLOC(h, HDRP(chain[k])) = 0 /\ size(k) >= adj}
        best == {k \in fits : \A j \in fits : size(k) <= size(j)}
    IN  IF fits = {} THEN NULL ELSE chain[Min(best)]

BestFit(h, adj) == BestIn(h, adj, Chain(h))

(* place in the block found, if any.                                       *)
place_found(r, adj) == IF r.ptr = NULL THEN r ELSE place(r.heap, r.ptr, adj)

mm_malloc(h, size) ==
    LET adj == ALIGN(size + DSIZE)
        best_fit == BestFit(h, adj)
        grown == IF best_fit # NULL THEN [heap |-> h, ptr |-> best_fit]
                 ELSE extend_heap(h, Larger(adj, CHUNKSIZE))
    IN  IF size = 0 THEN [heap |-> h, ptr |-> NULL] ELSE place_found(grown, adj)

mm_free(h, ptr) ==
    LET size == GET_SIZE(h, HDRP(ptr))
    IN  coalesce(insert_node(Tag(h, ptr, size, 0), ptr, size), ptr).heap

(* The words a payload of size bytes at p touches.                         *)
WordsOf(p, size) == (p \div WSIZE) .. ((p + size - 1) \div WSIZE)

memcpy(h, to, from, size) ==
    [h EXCEPT !.mem = [w \in Words |->
        IF w \in WordsOf(to, size) THEN @[w - (to \div WSIZE) + (from \div WSIZE)] ELSE @[w]]]

(* ptr gets adj of the size bytes from ptr on; what is left becomes a free *)
(* block if it can hold one, which coalesce does not look at.              *)
Trim(h, ptr, size, adj) ==
    LET rest == ptr + adj
    IN  insert_node(Tag(Tag(h, ptr, adj, 1), rest, size - adj, 0), rest, size - adj)

(* Mutation: a block that moves takes only half of its data along.         *)
Moved_half(h, ptr, size) ==
    LET new == mm_malloc(h, size)
        kept == Smaller(size, GET_SIZE(h, HDRP(ptr)) - DSIZE) \div 2
    IN  IF new.ptr = NULL THEN new
        ELSE [heap |-> mm_free(memcpy(new.heap, new.ptr, ptr, kept), ptr), ptr |-> new.ptr]

(* The data goes to the block new, if there is one, and ptr is freed.      *)
MovedTo(new, h, ptr, size) ==
    LET kept == Smaller(size, GET_SIZE(h, HDRP(ptr)) - DSIZE)
    IN  IF new.ptr = NULL THEN new
        ELSE [heap |-> mm_free(memcpy(new.heap, new.ptr, ptr, kept), ptr), ptr |-> new.ptr]

(* mm_realloc's last resort: a new block, a copy, and the old block freed. *)
Moved(h, ptr, size) == MovedTo(mm_malloc(h, size), h, ptr, size)

mm_realloc(h, ptr, size) ==
    LET adj  == IF size <= DSIZE THEN 2 * DSIZE ELSE ALIGN(size + DSIZE)
        cur  == GET_SIZE(h, HDRP(ptr))
        next == NEXT_BLKP(h, ptr)
        both == cur + GET_SIZE(h, HDRP(next))
        joined == delete_node(h, next)
        InPlace(g) == [heap |-> g, ptr |-> ptr]
    IN  IF ptr = NULL THEN mm_malloc(h, size)
        ELSE IF size = 0 THEN [heap |-> mm_free(h, ptr), ptr |-> NULL]
        ELSE IF cur >= adj
             THEN InPlace(IF cur - adj >= MIN_BLOCK_SIZE THEN Trim(h, ptr, cur, adj) ELSE h)
        ELSE IF GET_ALLOC(h, HDRP(next)) = 0 /\ both >= adj
             THEN InPlace(IF both - adj >= MIN_BLOCK_SIZE THEN Trim(joined, ptr, both, adj)
                          ELSE Tag(joined, ptr, both, 1))
        ELSE Moved(h, ptr, size)
===============================================================================
