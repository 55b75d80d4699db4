-------------------------- MODULE MCSubscriptions --------------------------
(***************************************************************************)
(* Small instances of Subscriptions: one business, two calls at one time.  *)
(***************************************************************************)
EXTENDS Subscriptions, TLC

CONSTANTS c1, c2, r1, r2, p1, p2

\* A status alone, a plan alone, a later start and end alone.
SomeEdits ==
    {[plan |-> None, status |-> "SUSPENDED", start |-> None, end |-> None],
     [plan |-> "ESSENTIAL", status |-> "ACTIVE", start |-> None, end |-> None],
     [plan |-> None, status |-> None, start |-> 3, end |-> 3]}

Room == [p \in Plans |-> CASE p = "POS_FREE" -> 1 [] p = "TRIAL" -> 3 [] OTHER -> 2]

Symmetry == Permutations({c1, c2}) \cup Permutations({r1, r2}) \cup Permutations({p1, p2})
=============================================================================
