------------------------------ MODULE MCMDriver ------------------------------
(***************************************************************************)
(* MDriver on a small heap. The sizes are chosen so that, with the scaled  *)
(* constants, a request takes the least block, splits a hole from its low  *)
(* or its high end, fills it with a splinter left over, makes the heap grow*)
(* by CHUNKSIZE or by more, and finds memory exhausted.                    *)
(***************************************************************************)
EXTENDS MDriver
===============================================================================
