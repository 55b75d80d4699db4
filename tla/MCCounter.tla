----------------------------- MODULE MCCounter -----------------------------
(***************************************************************************)
(* Small instances of Counter: two units of one line and one of another,   *)
(* returned at once, one by one, or as two rows of one return.             *)
(***************************************************************************)
EXTENDS Counter, TLC

CONSTANTS c1, c2, d1, d2, l1, l2

TwoAndOne == [l \in Lines |-> IF l = l1 THEN 2 ELSE 1]

Goods(first, second, of2) ==
    [l \in Lines |-> IF l = l1 THEN [first |-> first, second |-> second]
                    ELSE [first |-> of2, second |-> 0]]

SomeReturns == {Goods(1, 0, 0), Goods(1, 1, 0), Goods(2, 0, 1), Goods(0, 0, 1)}

Symmetry == Permutations({c1, c2}) \cup Permutations({d1, d2})
=============================================================================
