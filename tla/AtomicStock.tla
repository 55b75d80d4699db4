---------------------------- MODULE AtomicStock ----------------------------
(***************************************************************************)
(* What the stock table promises to everybody who reads it: a request that *)
(* moves stock moves all of its rows in one step, once, or none of them;   *)
(* the step leaves no row below zero, and the movements it records tell    *)
(* the change of every row exactly.                                        *)
(*                                                                         *)
(* stock[r] is the quantity of the stock row r, ledger[r] the sum of       *)
(* afterQty - beforeQty over the InventoryMovement rows of r, change[p][r] *)
(* the units request p asks to add to r, over all the lines of its basket. *)
(***************************************************************************)
EXTENDS Integers

CONSTANTS Rows,      \* the stock rows (tenant, product, warehouse)
          Initial,   \* their quantities when the ledger is empty
          Requests   \* the requests that move stock

VARIABLES stock, ledger, change, state

vars == <<stock, ledger, change, state>>

Init ==
    /\ stock = Initial
    /\ ledger = [r \in Rows |-> 0]
    /\ change = [p \in Requests |-> [r \in Rows |-> 0]]
    /\ state = [p \in Requests |-> "new"]

\* A request comes in, and what it asks is fixed from then on.
Ask(p) ==
    /\ state[p] = "new"
    /\ state' = [state EXCEPT ![p] = "asked"]
    /\ change' \in [Requests -> [Rows -> Int]]
    /\ \A o \in Requests \ {p} : change'[o] = change[o]
    /\ UNCHANGED <<stock, ledger>>

\* The whole of it is done.
Apply(p) ==
    /\ state[p] = "asked"
    /\ state' = [state EXCEPT ![p] = "applied"]
    /\ stock' = [r \in Rows |-> stock[r] + change[p][r]]
    /\ ledger' = [r \in Rows |-> ledger[r] + change[p][r]]
    /\ \A r \in Rows : stock'[r] >= 0
    /\ UNCHANGED change

\* Nothing of it is done.
Refuse(p) ==
    /\ state[p] = "asked"
    /\ state' = [state EXCEPT ![p] = "refused"]
    /\ UNCHANGED <<stock, ledger, change>>

Next == \E p \in Requests : Ask(p) \/ Apply(p) \/ Refuse(p)

Spec == Init /\ [][Next]_vars

=============================================================================
