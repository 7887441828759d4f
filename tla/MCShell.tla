------------------------------- MODULE MCShell -------------------------------
(***************************************************************************)
(* Shell on a small instance: three children for a table of two entries,   *)
(* so that entries are reused and a child finds the table full.            *)
(***************************************************************************)
EXTENDS Shell
===============================================================================
