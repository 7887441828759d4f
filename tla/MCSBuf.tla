-------------------------------- MODULE MCSBuf -------------------------------
(***************************************************************************)
(* SBuf on a small instance: two threads on each side compete for a ring   *)
(* of two slots, and the insertions are enough for the indices to wrap.    *)
(***************************************************************************)
EXTENDS SBuf
==============================================================================
