------------------------ MODULE MCStockTransactions ------------------------
(***************************************************************************)
(* Small instances of StockTransactions: two rows, one of them with the    *)
(* last unit, and baskets that meet on both rows in opposite orders.       *)
(***************************************************************************)
EXTENDS StockTransactions, TLC

CONSTANTS r1, r2

MCInitial == r1 :> 2 @@ r2 :> 1

One(r) == [row |-> r, n |-> 1]

MCCarts == {<<One(r1)>>, <<One(r1), One(r2)>>, <<One(r2), One(r1)>>}

\* Both rows, in opposite orders.
MCPairs == {<<One(r1), One(r2)>>, <<One(r2), One(r1)>>}

\* Sales, restocks and counts, and the manufacturing requests, which touch the
\* reservation as well: none of them overwrites a quantity.
FairKinds == {"sale", "restock", "adjust", "reserve", "start", "release"}

\* Sales and their cancellations.
CounterKinds == {"sale", "cancel"}

Sym == Permutations(Requests)
=============================================================================
