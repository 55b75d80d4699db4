----------------------------- MODULE MCHeldSale -----------------------------
(***************************************************************************)
(* Small instances of HeldSale: cashiers and a manager, and as many calls  *)
(* at one time as it takes for one to be overtaken by another.             *)
(***************************************************************************)
EXTENDS HeldSale, TLC

CONSTANTS s1, s2, k1, k2
=============================================================================
