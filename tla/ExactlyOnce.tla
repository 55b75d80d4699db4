---------------------------- MODULE ExactlyOnce ----------------------------
(***************************************************************************)
(* What the synchronization of sales promises to whoever looks at the      *)
(* device and at the books of the server: a sale is recorded for the user  *)
(* who has rung it up, once, and together with the exit of its units; it   *)
(* is never unrecorded; and the device shows it as done only afterwards.   *)
(* Nothing is said of messages, pages, retries or errors.                  *)
(***************************************************************************)
EXTENDS Integers

CONSTANTS Users, Sales,
          Units,     \* Units[s]: the units of sale s
          Initial    \* quantity of the product at the server

VARIABLES
    rung,    \* rung[u]: the sales user u has rung up on the device
    books,   \* books[u][s]: how often sale s is recorded for user u
    shown,   \* shown[u]: the sales the device shows user u as done
    stock    \* quantity of the product at the server

vars == <<rung, books, shown, stock>>

Init ==
    /\ rung = [u \in Users |-> {}]
    /\ books = [u \in Users |-> [s \in Sales |-> 0]]
    /\ shown = [u \in Users |-> {}]
    /\ stock = Initial

RingUp(u, s) ==
    /\ \A v \in Users : s \notin rung[v]
    /\ rung' = [rung EXCEPT ![u] = @ \cup {s}]
    /\ UNCHANGED <<books, shown, stock>>

Record(u, s) ==
    /\ s \in rung[u] /\ \A v \in Users : books[v][s] = 0
    /\ Units[s] <= stock
    /\ books' = [books EXCEPT ![u][s] = 1]
    /\ stock' = stock - Units[s]
    /\ UNCHANGED <<rung, shown>>

Show(u, s) ==
    /\ books[u][s] = 1
    /\ shown' = [shown EXCEPT ![u] = @ \cup {s}]
    /\ UNCHANGED <<rung, books, stock>>

\* A refusal that arrives late hides for a while that the sale is done.
Hide(u, s) ==
    /\ shown' = [shown EXCEPT ![u] = @ \ {s}]
    /\ UNCHANGED <<rung, books, stock>>

\* Others sell the same product.
SellElsewhere ==
    /\ stock' \in 0..(stock - 1)
    /\ UNCHANGED <<rung, books, shown>>

Next ==
    \/ \E u \in Users, s \in Sales : RingUp(u, s) \/ Record(u, s) \/ Show(u, s) \/ Hide(u, s)
    \/ SellElsewhere

Spec == Init /\ [][Next]_vars

=============================================================================
