------------------------------- MODULE Allocator -------------------------------
(***************************************************************************)
(* What a caller of mm_malloc, mm_realloc and mm_free may rely on: areas in*)
(* use are aligned, lie in the heap and do not overlap, an area keeps its  *)
(* data until its owner asks for a change, and mm_realloc takes along the  *)
(* data that fits (project0x03/prj3-malloc/mdriver.c, eval_mm_valid).      *)
(***************************************************************************)
EXTENDS Integers, Sequences

CONSTANT Top  \* size of the memory

VARIABLES area, \* area[id]: first byte and size of each area in use
          data  \* data[id]: the words of that area

vars == <<area, data>>

Init == area = <<>> /\ data = <<>>

Bytes(a) == a.lo .. (a.lo + a.size - 1)

WellPlaced(as) == \A i \in DOMAIN as :
    /\ as[i].size > 0
    /\ as[i].lo % 8 = 0
    /\ Bytes(as[i]) \subseteq 0 .. (Top - 1)
    /\ \A j \in DOMAIN as \ {i} : Bytes(as[i]) \cap Bytes(as[j]) = {}

(* Nothing happens to the areas of others than id.                         *)
OthersKept(id) == \A j \in DOMAIN area \ {id} : area'[j] = area[j] /\ data'[j] = data[j]

Common(s, t) == IF Len(s) < Len(t) THEN Len(s) ELSE Len(t)

Malloc(id) == /\ id \notin DOMAIN area
              /\ DOMAIN area' = DOMAIN area \cup {id}
              /\ DOMAIN data' = DOMAIN area'
              /\ OthersKept(id)
              /\ WellPlaced(area')

Realloc(id) == /\ id \in DOMAIN area
               /\ DOMAIN area' = DOMAIN area
               /\ DOMAIN data' = DOMAIN area
               /\ OthersKept(id)
               /\ \A k \in 1 .. Common(data[id], data'[id]) : data'[id][k] = data[id][k]
               /\ WellPlaced(area')

Free(id) == /\ id \in DOMAIN area
            /\ DOMAIN area' = DOMAIN area \ {id}
            /\ DOMAIN data' = DOMAIN area'
            /\ OthersKept(id)

(* A new trace starts on an empty heap.                                    *)
Reset == area' = <<>> /\ data' = <<>>

Next == \/ \E id \in DOMAIN area' : Malloc(id) \/ Realloc(id)
        \/ \E id \in DOMAIN area : Free(id)
        \/ Reset

Spec == Init /\ [][Next]_vars
===============================================================================
