------------------------------ MODULE MCOrders ------------------------------
(***************************************************************************)
(* Small instances of Orders: a shop with a quote and two orders, or a     *)
(* workshop with one order and two materials, and two calls at one time.   *)
(***************************************************************************)
EXTENDS Orders, TLC

CONSTANTS c1, c2, o1, o2, q1, m1, m2

ShopOrWorkshop == [p \in Profiles |-> IF p = "shop" THEN {q1, o1, o2} ELSE {o1}]

\* Sound with that bound too: o2 has no step in a workshop.
Symmetry == Permutations({c1, c2}) \cup Permutations({o1, o2}) \cup Permutations({m1, m2})
=============================================================================
