------------------------------ MODULE MCTiming ------------------------------
(***************************************************************************)
(* Timing with counters of two digits to base 8, started just before a half*)
(* or the whole of them wraps.                                             *)
(***************************************************************************)
EXTENDS Timing
=============================================================================
