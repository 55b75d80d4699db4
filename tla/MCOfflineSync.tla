---------------------------- MODULE MCOfflineSync ----------------------------
(***************************************************************************)
(* Small instances of OfflineSync: a sale of one unit and one of two.      *)
(***************************************************************************)
EXTENDS OfflineSync, TLC

CONSTANTS s1, s2

MCUnits == [s \in Sales |-> IF s = s2 THEN 2 ELSE 1]

Sym == Permutations(Users) \cup Permutations(Pages) \cup Permutations(Requests)
=============================================================================
