---------------------------- MODULE MCStockServer ----------------------------
(***************************************************************************)
(* StockServer on a small instance: a table of two entries with one share  *)
(* each. Either two clients come with an order each and find two workers:  *)
(* the orders take the last share, add to the entry another client buys    *)
(* from, take shares away by a negative count, and name a stock that is    *)
(* not listed. Or three clients come with no order, more than the worker   *)
(* that is left and the one slot of the buffer hold.                       *)
(***************************************************************************)
EXTENDS StockServer

CONSTANTS c1, c2, c3, w1, w2

MCID == <<2, 1>>
MCInitial == <<1, 1>>

BuyOne   == [op |-> "buy", id |-> 1, cnt |-> 1]
SellOne  == [op |-> "sell", id |-> 1, cnt |-> 1]
SellBack == [op |-> "sell", id |-> 1, cnt |-> -2]
SellNew  == [op |-> "sell", id |-> 3, cnt |-> 1]
ShowAll  == [op |-> "show", id |-> 1, cnt |-> 1]

MCOrders == {BuyOne, SellOne, SellBack, SellNew, ShowAll}
MCTrades == {BuyOne, SellOne}

Load(C, n, W) == [clients |-> C, lines |-> [c \in C |-> n], workers |-> W]
Traders  == Load({c1, c2}, 1, {w1, w2})
Throng   == Load({c1, c2, c3}, 0, {w1})
Visitors == Load({c1, c2}, 0, {w1})

MCLoads    == {Traders, Throng}
MCTraders  == {Traders}
MCVisitors == {Visitors}
==============================================================================
