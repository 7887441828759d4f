---------------------------- MODULE MCEventServer ----------------------------
(***************************************************************************)
(* EventServer on a small instance: three clients, a pool of two slots, so *)
(* that slots and descriptors are reused and the pool can overflow, and a  *)
(* table of one entry with one share.  The lines buy it, sell it back, make*)
(* the entry negative, ask for the table and lack their last number. Two   *)
(* clients send two of them, or three clients one.                         *)
(***************************************************************************)
EXTENDS EventServer

CONSTANTS c1, c2, c3

MCID == <<1>>
MCInitial == <<1>>

BuyOne   == [op |-> "buy", id |-> 1, cnt |-> 1]
SellOne  == [op |-> "sell", id |-> 1, cnt |-> 1]
SellBack == [op |-> "sell", id |-> 1, cnt |-> -2]
ShowAll  == [op |-> "show", id |-> 1, cnt |-> 1]
BuyCut   == [op |-> "cut", id |-> 1, cnt |-> 1]

MCOrders == {BuyOne, SellBack, ShowAll, BuyCut}
MCTrades == {BuyOne, SellOne}

Pair == [clients |-> {c1, c2}, lines |-> 2]
Trio == [clients |-> {c1, c2, c3}, lines |-> 1]

MCLoads == {Pair, Trio}
MCPair  == {Pair}
==============================================================================
