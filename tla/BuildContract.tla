--------------------------- MODULE BuildContract ---------------------------
(***************************************************************************)
(* What the build queue promises a player, without rows, times or          *)
(* transactions: an order is paid once at the price of the level it will   *)
(* deliver, ends once, delivered or cancelled, the oldest order is         *)
(* delivered first, and a cancel gives back no more than was paid.         *)
(* BuildQueue implements it.                                               *)
(***************************************************************************)
EXTENDS Integers, Sequences, FiniteSets, FiniteSetsExt

CONSTANTS Buildings, BaseCost, QueueLimit, InitialMetal

VARIABLES
    orders,     \* every order ever placed, in the order they were placed
    level,      \* level of each building
    metal       \* what the planet can spend

contractVars == <<orders, level, metal>>

Ids == 1..Len(orders)
NewIds == (Len(orders) + 1)..Len(orders')

OpenIds == {i \in Ids : orders[i].state = "open"}

Delivered == {i \in OpenIds : orders'[i] = [orders[i] EXCEPT !.state = "delivered"]}

\* A refund is nothing, half or all of the price.
Cancelled ==
    {i \in OpenIds :
        \E back \in {0, orders[i].paid \div 2, orders[i].paid} :
            orders'[i] = [orders[i] EXCEPT !.state = "cancelled", !.back = back]}

OldestFirst == \A i \in Delivered, j \in OpenIds : j < i => j \in Delivered

\* Orders of the same building still open ahead of i once the step is done.
OpenAhead(i) ==
    Cardinality({j \in 1..(i - 1) : /\ orders'[j].state = "open"
                                    /\ orders'[j].building = orders'[i].building})

Price(i) == BaseCost[orders'[i].building] * (level'[orders'[i].building] + OpenAhead(i) + 1)

SumOver(set, value) == MapThenSumSet(LAMBDA x : value[x], set)

Init ==
    /\ orders = << >>
    /\ level = [b \in Buildings |-> 0]
    /\ metal = InitialMetal

\* One committed request.
Settle ==
    /\ Len(orders) <= Len(orders')
    /\ \A i \in Ids : orders'[i] = orders[i] \/ i \in Delivered \cup Cancelled
    /\ OldestFirst
    /\ Cardinality(Cancelled) <= 1
    /\ \A i \in NewIds :
         orders'[i] = [building |-> orders'[i].building, paid |-> Price(i),
                       back |-> 0, state |-> "open"]
    /\ Cardinality({i \in 1..Len(orders') : orders'[i].state = "open"}) <= QueueLimit
    /\ level' = [b \in Buildings |->
                   level[b] + Cardinality({i \in Delivered : orders[i].building = b})]
    /\ metal' = metal - SumOver(NewIds, [i \in NewIds |-> orders'[i].paid])
                      + SumOver(Cancelled, [i \in Cancelled |-> orders'[i].back])
    /\ metal' >= 0

Spec == Init /\ [][Settle]_contractVars
=============================================================================
