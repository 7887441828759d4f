------------------------------- MODULE Counting ------------------------------
(***************************************************************************)
(* Counting the threads that stand at given points of the code.  Several   *)
(* invariants balance a semaphore or a counter of the program against such *)
(* a number.                                                               *)
(***************************************************************************)
EXTENDS Integers, FiniteSets

(* How many members t of S have at[t] in L.                                *)
HowMany(S, at, L) == Cardinality({t \in S : at[t] \in L})

(* 1 if x is in L, 0 if not: what one thread at x adds to the number.      *)
Share(x, L) == IF x \in L THEN 1 ELSE 0
==============================================================================
