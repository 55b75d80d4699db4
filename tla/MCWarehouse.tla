---------------------------- MODULE MCWarehouse ----------------------------
(***************************************************************************)
(* Small instances of Warehouse: two units of one product and one of       *)
(* another, received and counted in parts; four transfers to and fro.      *)
(***************************************************************************)
EXTENDS Warehouse, TLC

CONSTANTS c1, c2, l1, l2, t1, t2, t3, t4, w1, w2

TwoAndOne == [l \in Lines |-> IF l = l1 THEN 2 ELSE 1]

SomeReceipts == {l1 :> 1, l2 :> 1, l1 :> 2 @@ l2 :> 1}

Out == [t \in Transfers |-> IF t \in {t1, t2} THEN w1 ELSE w2]

In == [t \in Transfers |-> IF t \in {t1, t2} THEN w2 ELSE w1]

Symmetry == Permutations({c1, c2}) \cup Permutations({t1, t2}) \cup Permutations({t3, t4})
=============================================================================
