------------------------- MODULE StockTransactions -------------------------
(***************************************************************************)
(* The stock rows under concurrent requests of the API, statement by       *)
(* statement.  Every request runs one Postgres transaction at the default  *)
(* READ COMMITTED level:                                                   *)
(*                                                                         *)
(*   - a SELECT sees the committed version of a row, or the version the    *)
(*     transaction itself wrote;                                           *)
(*   - an UPDATE waits for the row lock, then evaluates its WHERE clause   *)
(*     on the latest committed version, and keeps the lock until the end;  *)
(*   - a WHERE clause that is false matches no row and takes no lock.      *)
(*                                                                         *)
(* A stock line is a row and a signed change d: a sale of two units is     *)
(* d = -2.  A request goes idle -> (check ->) run -> committed | failed.   *)
(***************************************************************************)
EXTENDS Integers, Sequences, FiniteSetsExt

CONSTANTS
    Requests,   \* the requests the API serves, one transaction each
    Rows,       \* the stock rows (tenant, product, warehouse)
    Initial,    \* Initial[r]: quantity of r before the first request
    Carts,      \* the baskets of lines [row, n] a client may send
    Counts,     \* the quantities an inventory count may report
    Kinds,      \* the operations in use
    None        \* no request

AllKinds == {"sale", "order", "restock", "in", "out", "adjust", "produce",
             "cancel", "receipt", "reserve", "start", "release"}

\* Operations that write back a quantity they computed from an earlier read.
Overwriting == {"cancel", "receipt"}

\* Operations that change the quantity relative to its current value.
Relative == {"sale", "order", "restock", "in", "out", "adjust", "produce"}

\* Operations that read the row in the transaction before they update it.
ReadsFirst == Overwriting \cup {"reserve"}

CartLine == [row : Rows, n : Nat \ {0}]

ASSUME ConstantsAssumption ==
    /\ Initial \in [Rows -> Nat]
    /\ \A c \in Carts : c \in Seq(CartLine)
    /\ Counts \subseteq Nat
    /\ Kinds \subseteq AllKinds
    /\ None \notin Requests

\* For the sums over the requests.
ASSUME FiniteAssumption == IsFiniteSet(Requests)

VARIABLES
    row,     \* row[r]: committed version of stock row r
    draft,   \* draft[r]: version written by the holder of r's lock
    lock,    \* lock[r]: the request that holds the row lock of r
    pc, kind, lines, target,  \* of each request
    at,      \* at[p]: index of the line request p is at
    seen,    \* seen[p]: the versions p has read for the current line
    doc      \* doc[p]: status of the document request p created

request == <<kind, lines, target>>
vars == <<row, draft, lock, pc, kind, lines, target, at, seen, doc>>

(***************************************************************************)
(* A version of a stock row: its quantity q, its reserved units rsv, and   *)
(* net, the sum of afterQty - beforeQty over the movements recorded on it. *)
(***************************************************************************)
Version == [q : Int, rsv : Int, net : Int]
Line == [row : Rows, d : Int]

Statuses == {"none", "completed", "cancelled", "reserved", "started", "released"}

TypeOK ==
    /\ row \in [Rows -> Version]
    /\ draft \in [Rows -> Version]
    /\ lock \in [Rows -> Requests \cup {None}]
    /\ pc \in [Requests -> {"idle", "check", "run", "committed", "failed"}]
    /\ kind \in [Requests -> Kinds \cup {"none"}]
    /\ lines \in [Requests -> Seq(Line)]
    /\ target \in [Requests -> Requests \cup {None}]
    /\ at \in [Requests -> Nat \ {0}]
    /\ seen \in [Requests -> SUBSET Version]
    /\ doc \in [Requests -> Statuses]

Init ==
    /\ row = [r \in Rows |-> [q |-> Initial[r], rsv |-> 0, net |-> 0]]
    /\ draft = row
    /\ lock = [r \in Rows |-> None]
    /\ pc = [p \in Requests |-> "idle"]
    /\ kind = [p \in Requests |-> "none"]
    /\ lines = [p \in Requests |-> <<>>]
    /\ target = [p \in Requests |-> None]
    /\ at = [p \in Requests |-> 1]
    /\ seen = [p \in Requests |-> {}]
    /\ doc = [p \in Requests |-> "none"]

-----------------------------------------------------------------------------
(* Reading and writing rows inside a transaction.                          *)

Current(p, r) == IF lock[r] = p THEN draft[r] ELSE row[r]

Free(p, r) == lock[r] \in {p, None}

InTransaction(p) == pc[p] \in {"check", "run"}

\* p runs and has a line left; L(p) is that line.
AtLine(p) == pc[p] = "run" /\ at[p] <= Len(lines[p])
L(p) == lines[p][at[p]]

\* Mutant of Put: the update runs on the client of the service, outside of the
\* transaction, and is committed at once.
PutOutside(p, v) ==
    /\ row' = [row EXCEPT ![L(p).row] = v]
    /\ at' = [at EXCEPT ![p] = @ + 1]
    /\ seen' = [seen EXCEPT ![p] = {}]
    /\ UNCHANGED <<draft, lock, pc, request, doc>>

\* p writes version v of the row of its line, locks it and goes to its next line.
Put(p, v) ==
    /\ lock' = [lock EXCEPT ![L(p).row] = p]
    /\ draft' = [draft EXCEPT ![L(p).row] = v]
    /\ at' = [at EXCEPT ![p] = @ + 1]
    /\ seen' = [seen EXCEPT ![p] = {}]
    /\ UNCHANGED <<row, pc, request, doc>>

\* The row locks once p has ended.
Unlocked(p) == [r \in Rows |-> IF lock[r] = p THEN None ELSE lock[r]]

\* Mutant of Fail: the row locks of a failed request stay.
FailHoldingLocks(p) ==
    /\ pc' = [pc EXCEPT ![p] = "failed"]
    /\ UNCHANGED <<row, draft, lock, request, at, seen, doc>>

Fail(p) ==
    /\ pc' = [pc EXCEPT ![p] = "failed"]
    /\ lock' = Unlocked(p)
    /\ UNCHANGED <<row, draft, request, at, seen, doc>>

-----------------------------------------------------------------------------
(* Requests arrive.                                                        *)

Signed(cart, s) == [i \in DOMAIN cart |-> [row |-> cart[i].row, d |-> s * cart[i].n]]

Begin(p, k, ls, t, first) ==
    /\ pc[p] = "idle"
    /\ k \in Kinds
    /\ pc' = [pc EXCEPT ![p] = first]
    /\ kind' = [kind EXCEPT ![p] = k]
    /\ lines' = [lines EXCEPT ![p] = ls]
    /\ target' = [target EXCEPT ![p] = t]
    /\ UNCHANGED <<row, draft, lock, at, seen, doc>>

\* SalesService.create: the availability of every line is checked first.
BeginSale(p) == \E c \in Carts : Begin(p, "sale", Signed(c, -1), None, "check")

\* deductStockForItems, when an order is created or a quote converted.
BeginOrder(p) == \E c \in Carts : Begin(p, "order", Signed(c, -1), None, "run")

\* restockForItems, when an order is cancelled.
BeginRestock(p) == \E c \in Carts : Begin(p, "restock", Signed(c, 1), None, "run")

\* stockIn, purchase, returnStock: applyMovement with a positive change.
BeginIn(p) ==
    \E c \in Carts : Len(c) = 1 /\ Begin(p, "in", Signed(c, 1), None, "run")

\* stockOut: applyMovement with a negative change.
BeginOut(p) ==
    \E c \in Carts : Len(c) = 1 /\ Begin(p, "out", Signed(c, -1), None, "run")

\* adjustTo: the change is computed from a read made before the transaction.
BeginAdjust(p) ==
    \E r \in Rows, counted \in Counts :
        Begin(p, "adjust", <<[row |-> r, d |-> counted - row[r].q]>>, None, "run")

\* produce: the inputs are taken before the outputs are added.
BeginProduce(p) ==
    \E inputs, outputs \in Carts :
        Begin(p, "produce", Signed(inputs, -1) \o Signed(outputs, 1), None, "run")

\* GoodsReceiptsService.create, the stock part of it.
BeginReceipt(p) == \E c \in Carts : Begin(p, "receipt", Signed(c, 1), None, "run")

\* SalesService.cancel: the status of the sale is read before the transaction.
BeginCancel(p) ==
    \E t \in Requests :
        /\ kind[t] = "sale" /\ doc[t] = "completed"
        /\ Begin(p, "cancel",
                 [i \in DOMAIN lines[t] |-> [lines[t][i] EXCEPT !.d = -@]], t, "run")

\* ManufacturingService.reserve on an order that holds nothing yet.
BeginReserve(p) == \E c \in Carts : Begin(p, "reserve", Signed(c, -1), None, "run")

\* ManufacturingService.start and .cancel take the lock of the manufacturing
\* order before they read its status: one of them at a time.
BeginOnReservation(p, k) ==
    \E t \in Requests :
        /\ kind[t] = "reserve" /\ doc[t] = "reserved"
        /\ \A o \in Requests : ~(target[o] = t /\ pc[o] = "run")
        /\ Begin(p, k, lines[t], t, "run")

BeginStart(p) == BeginOnReservation(p, "start")
BeginRelease(p) == BeginOnReservation(p, "release")

Arrive(p) ==
    \/ BeginSale(p) \/ BeginOrder(p) \/ BeginRestock(p) \/ BeginIn(p)
    \/ BeginOut(p) \/ BeginAdjust(p) \/ BeginProduce(p) \/ BeginReceipt(p)
    \/ BeginCancel(p) \/ BeginReserve(p) \/ BeginStart(p) \/ BeginRelease(p)

-----------------------------------------------------------------------------
(* The statements of a transaction.                                        *)

\* The sale sees enough unreserved units of the line it checks.
Available(p) == Current(p, L(p).row).q - Current(p, L(p).row).rsv + L(p).d >= 0

\* A sale reads the rows of all its lines before it writes anything.
CheckLine(p) ==
    /\ pc[p] = "check" /\ at[p] <= Len(lines[p])
    /\ Available(p)
    /\ at' = [at EXCEPT ![p] = @ + 1]
    /\ UNCHANGED <<row, draft, lock, pc, request, seen, doc>>

CheckDone(p) ==
    /\ pc[p] = "check" /\ at[p] > Len(lines[p])
    /\ pc' = [pc EXCEPT ![p] = "run"]
    /\ at' = [at EXCEPT ![p] = 1]
    /\ UNCHANGED <<row, draft, lock, request, seen, doc>>

ReadRow(p) ==
    /\ AtLine(p) /\ kind[p] \in ReadsFirst /\ seen[p] = {}
    /\ seen' = [seen EXCEPT ![p] = {Current(p, L(p).row)}]
    /\ UNCHANGED <<row, draft, lock, pc, request, at, doc>>

\* Mutant of Fits: the update without its quantity >= x.
FitsAlways(v, d) == TRUE

\* updateMany({quantity: {gte: x}}): a decrease must leave the row at zero or above.
Fits(v, d) == d < 0 => v.q + d >= 0

\* UPDATE ... SET quantity = quantity + d, and the movement that tells it.
ChangeRow(p) ==
    /\ AtLine(p) /\ kind[p] \in Relative /\ L(p).d # 0
    /\ Free(p, L(p).row)
    /\ LET v == Current(p, L(p).row) IN
         /\ Fits(v, L(p).d)
         /\ Put(p, [q |-> v.q + L(p).d, rsv |-> v.rsv, net |-> v.net + L(p).d])

\* Mutant of OverwriteRow: the whole row is written back as it was read.
OverwriteWholeRow(p) ==
    /\ AtLine(p) /\ kind[p] \in Overwriting
    /\ Free(p, L(p).row)
    /\ \E s \in seen[p] : Put(p, [s EXCEPT !.q = @ + L(p).d, !.net = @ + L(p).d])

\* UPDATE ... SET quantity = (the quantity read before) + d.
OverwriteRow(p) ==
    /\ AtLine(p) /\ kind[p] \in Overwriting
    /\ Free(p, L(p).row)
    /\ LET v == Current(p, L(p).row) IN
         \E s \in seen[p] :
           Put(p, [q |-> s.q + L(p).d, rsv |-> v.rsv, net |-> v.net + L(p).d])

\* reserve: enough is available in the row that was read, and the reserved
\* units still leave room below the quantity that was read.
CanReserve(s, v, d) == s.q - s.rsv + d >= 0 /\ v.rsv <= s.q + d

ReserveRow(p) ==
    /\ AtLine(p) /\ kind[p] = "reserve"
    /\ Free(p, L(p).row)
    /\ LET v == Current(p, L(p).row) IN
         \E s \in seen[p] : /\ CanReserve(s, v, L(p).d)
                            /\ Put(p, [v EXCEPT !.rsv = @ - L(p).d])

\* start: the units leave the stock and the reservation together.
CanConsume(v, d) == v.q + d >= 0 /\ v.rsv + d >= 0

ConsumeRow(p) ==
    /\ AtLine(p) /\ kind[p] = "start"
    /\ Free(p, L(p).row)
    /\ LET v == Current(p, L(p).row) IN
         /\ CanConsume(v, L(p).d)
         /\ Put(p, [q |-> v.q + L(p).d, rsv |-> v.rsv + L(p).d, net |-> v.net + L(p).d])

ReleaseRow(p) ==
    /\ AtLine(p) /\ kind[p] = "release"
    /\ Free(p, L(p).row)
    /\ LET v == Current(p, L(p).row) IN
         /\ v.rsv + L(p).d >= 0
         /\ Put(p, [v EXCEPT !.rsv = @ + L(p).d])

\* Nothing to update: an adjustment of zero, or a release that matches no row
\* (its row count is not looked at).
SkipLine(p) ==
    /\ AtLine(p)
    /\ \/ kind[p] \in Relative /\ L(p).d = 0
       \/ kind[p] = "release" /\ Current(p, L(p).row).rsv + L(p).d < 0
    /\ at' = [at EXCEPT ![p] = @ + 1]
    /\ UNCHANGED <<row, draft, lock, pc, request, seen, doc>>

\* A check or a WHERE clause fails: the service throws and everything is undone.
Reject(p) ==
    /\ \/ pc[p] = "check" /\ at[p] <= Len(lines[p]) /\ ~Available(p)
       \/ /\ AtLine(p)
          /\ LET v == Current(p, L(p).row) IN
               \/ kind[p] \in Relative /\ ~Fits(v, L(p).d)
               \/ kind[p] = "start" /\ ~CanConsume(v, L(p).d)
               \/ kind[p] = "reserve" /\ \E s \in seen[p] : ~CanReserve(s, v, L(p).d)
    /\ Fail(p)

\* Mutant of StatusAfter: cancelling writes the status of another operation.
StatusAfterMixed == [sale |-> "completed", cancel |-> "returned", reserve |-> "reserved",
                     start |-> "started", release |-> "released"]

\* The status a committed transaction gives to a document.
StatusAfter == [sale |-> "completed", cancel |-> "cancelled", reserve |-> "reserved",
                start |-> "started", release |-> "released"]

Commit(p) ==
    /\ pc[p] = "run" /\ at[p] > Len(lines[p])
    /\ pc' = [pc EXCEPT ![p] = "committed"]
    /\ row' = [r \in Rows |-> IF lock[r] = p THEN draft[r] ELSE row[r]]
    /\ lock' = Unlocked(p)
    /\ doc' = IF kind[p] \in DOMAIN StatusAfter
              THEN [doc EXCEPT ![IF target[p] = None THEN p ELSE target[p]]
                                = StatusAfter[kind[p]]]
              ELSE doc
    /\ UNCHANGED <<draft, request, at, seen>>

\* Prisma ends an interactive transaction that lasts too long; a lost
\* connection or a restart of the API ends it too.
Timeout(p) == InTransaction(p) /\ Fail(p)

\* Postgres ends one of the transactions that wait for each other in a circle.
WaitsFor(p, r) ==
    /\ AtLine(p) /\ L(p).row = r
    /\ kind[p] \in ReadsFirst => seen[p] # {}
    /\ ~Free(p, r)

BreakDeadlock ==
    \E circle \in SUBSET Requests : \E p \in circle :
        /\ \A o \in circle : \E r \in Rows : WaitsFor(o, r) /\ lock[r] \in circle
        /\ \A o \in circle : \E w \in circle, r \in Rows : WaitsFor(w, r) /\ lock[r] = o
        /\ Fail(p)

Step(p) ==
    \/ CheckLine(p) \/ CheckDone(p) \/ ReadRow(p) \/ ChangeRow(p)
    \/ OverwriteRow(p) \/ ReserveRow(p) \/ ConsumeRow(p) \/ ReleaseRow(p)
    \/ SkipLine(p) \/ Reject(p) \/ Commit(p)

Next ==
    \/ \E p \in Requests : Arrive(p) \/ Step(p) \/ Timeout(p)
    \/ BreakDeadlock

Spec == Init /\ [][Next]_vars

\* A request in progress is served by the event loop and by Postgres, which
\* also breaks deadlocks; nothing forces a client to send a request, nor a
\* transaction to time out.
Fairness == (\A p \in Requests : WF_vars(Step(p))) /\ WF_vars(BreakDeadlock)

FairSpec == Spec /\ Fairness

-----------------------------------------------------------------------------
(* Properties.                                                             *)

\* No interleaving of sales, orders, exits, productions, counts, receptions,
\* cancellations and reservations leaves a row with a negative quantity or a
\* negative reservation (docs/10-Inventory.md: the stock never becomes negative).
NeverNegative == \A r \in Rows : row[r].q >= 0 /\ row[r].rsv >= 0

\* The quantity of a row is its first quantity plus the changes told by the
\* movements recorded on it: no update is lost and none goes unrecorded.
LedgerExplainsStock == \A r \in Rows : row[r].q = Initial[r] + row[r].net

\* The units of row r that the lines ls take.
Taking(ls, r) == [i \in DOMAIN ls |-> IF ls[i].row = r THEN -ls[i].d ELSE 0]

\* Units of r that the manufacturing order of request t still holds reserved.
Holds(t, r) == IF doc[t] = "reserved" THEN SumFunction(Taking(lines[t], r)) ELSE 0

\* Stock.reserved is exactly what live manufacturing orders hold: consuming,
\* releasing and overwriting a row never strand nor lose reserved units.
ReservationsBacked ==
    \A r \in Rows : row[r].rsv = SumFunction([t \in Requests |-> Holds(t, r)])

\* A request that has begun its transaction commits or fails: row locks taken
\* in opposite orders by two baskets do not leave both waiting for ever.
RequestsEnd ==
    \A p \in Requests : InTransaction(p) ~> pc[p] \in {"committed", "failed"}

\* The units request p asks to add to row r: a reservation and its release move none.
Asked(p, r) ==
    IF kind[p] \in {"reserve", "release"} THEN 0 ELSE -SumFunction(Taking(lines[p], r))

Phase(p) ==
    CASE pc[p] = "idle" -> "new" [] InTransaction(p) -> "asked"
      [] pc[p] = "committed" -> "applied" [] OTHER -> "refused"

\* Every row as its readers see it: the stock table implements AtomicStock.
Atomic == INSTANCE AtomicStock WITH
    stock <- [r \in Rows |-> row[r].q],
    ledger <- [r \in Rows |-> row[r].net],
    change <- [p \in Requests |-> [r \in Rows |-> Asked(p, r)]],
    state <- [p \in Requests |-> Phase(p)]

\* Whatever the statements of concurrent transactions do in between, readers see
\* every basket whole or not at all: the commit of a request is the one step that
\* changes stock, it changes every row by what all the lines of the request ask,
\* its movements tell exactly that, and a request that fails changes nothing
\* (the $transaction blocks of sales, orders, stock and manufacturing).
StockIsAtomic == Atomic!Spec
=============================================================================
