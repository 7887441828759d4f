---------------------------- MODULE StockExchange ----------------------------
(***************************************************************************)
(* What the stock server promises its clients, without connections,        *)
(* threads or locks: every order takes effect in one step between the      *)
(* moment it is sent and the moment it is answered, a buy succeeds exactly *)
(* when enough is left, and nothing else changes the stock. Counts may be  *)
(* negative: a sale of a negative count takes shares away untested.        *)
(***************************************************************************)
EXTENDS Integers

CONSTANTS Clients,
          Items,     \* the entries of the stock table
          ID,        \* ID[i]: the stock number of entry i, all different
          Initial,   \* Initial[i]: what is left at the start
          Orders     \* orders clients may send: [op |-> ..., id |-> ..., cnt |-> ...]

NoOrder == [op |-> "none"]

VARIABLES stock,     \* stock[i]: how much of entry i is left
          asked,     \* asked[c]: the order c waits for, NoOrder if none
          answer     \* answer[c]: the outcome of asked[c], "none" before it takes effect

vars == <<stock, asked, answer>>

Init == /\ stock = Initial
        /\ asked = [c \in Clients |-> NoOrder]
        /\ answer = [c \in Clients |-> "none"]

Ask(c, o) == /\ asked[c] = NoOrder
             /\ asked' = [asked EXCEPT ![c] = o]
             /\ UNCHANGED <<stock, answer>>

Buy(c, i) == /\ asked[c].op = "buy"
             /\ ID[i] = asked[c].id
             /\ stock[i] >= asked[c].cnt
             /\ stock' = [stock EXCEPT ![i] = @ - asked[c].cnt]
             /\ answer' = [answer EXCEPT ![c] = "bought"]

Refuse(c) == /\ asked[c].op = "buy"
             /\ \A i \in Items : ID[i] = asked[c].id => stock[i] < asked[c].cnt
             /\ answer' = [answer EXCEPT ![c] = "not_enough"]
             /\ UNCHANGED stock

Sell(c, i) == /\ asked[c].op = "sell"
              /\ ID[i] = asked[c].id
              /\ stock' = [stock EXCEPT ![i] = @ + asked[c].cnt]
              /\ answer' = [answer EXCEPT ![c] = "sold"]

(* A sale of a stock the table does not list is answered all the same.     *)
SellUnlisted(c) == /\ asked[c].op = "sell"
                   /\ \A i \in Items : ID[i] # asked[c].id
                   /\ answer' = [answer EXCEPT ![c] = "sold"]
                   /\ UNCHANGED stock

Show(c) == /\ asked[c].op = "show"
           /\ answer' = [answer EXCEPT ![c] = "shown"]
           /\ UNCHANGED stock

(* The order takes effect and its outcome is fixed.                        *)
Execute(c) == /\ asked[c] # NoOrder
              /\ answer[c] = "none"
              /\ \/ \E i \in Items : Buy(c, i) \/ Sell(c, i)
                 \/ Refuse(c)
                 \/ SellUnlisted(c)
                 \/ Show(c)
              /\ UNCHANGED asked

Reply(c) == /\ answer[c] # "none"
            /\ asked' = [asked EXCEPT ![c] = NoOrder]
            /\ answer' = [answer EXCEPT ![c] = "none"]
            /\ UNCHANGED stock

Next == \E c \in Clients : \/ \E o \in Orders : Ask(c, o)
                           \/ Execute(c)
                           \/ Reply(c)

Spec == Init /\ [][Next]_vars
==============================================================================
