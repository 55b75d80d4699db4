----------------------------- MODULE MCTransfer -----------------------------
(***************************************************************************)
(* Small instances of Transfer: two warehouses with a unit of each of two  *)
(* products, and transfers of both of them or of one.                      *)
(***************************************************************************)
EXTENDS Transfer, TLC

CONSTANTS x, y

MCInitial == [r \in Rows |-> 1]

One(i) == [item |-> i, n |-> 1]

MCCarts == {<<One(x), One(y)>>, <<One(x)>>}
=============================================================================
