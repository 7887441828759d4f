--------------------------------- MODULE MCRio ---------------------------------
(***************************************************************************)
(* Messages of up to four bytes, a read buffer that holds less than one    *)
(* answer and a connection that holds five bytes: every answer needs       *)
(* several reads and writes, and two answers do not fit. Both ends have an *)
(* address of either family, in opposite orders; a socket bound to the IPv6*)
(* wildcard serves both.                                                   *)
(***************************************************************************)
EXTENDS Rio

MCAddresses == [e \in Ends |-> IF e = "client" THEN <<"v6", "v4">> ELSE <<"v4", "v6">>]
MCServes == [a \in {"v4", "v6"} |-> IF a = "v6" THEN {"v4", "v6"} ELSE {"v4"}]
===============================================================================
