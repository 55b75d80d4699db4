----------------------------- MODULE Warehouse -----------------------------
(***************************************************************************)
(* The back of a shop under concurrent calls: a purchase order with its    *)
(* goods receipts, its supplier's invoice and payments; a physical         *)
(* inventory of the same goods; transfers between stores.                  *)
(*                                                                         *)
(* A call that reads a status and writes by id in a later statement is two *)
(* actions, the second named ...Write; each line of an inventory is        *)
(* adjusted by a transaction of its own.  A refused call changes nothing   *)
(* and is not modelled.  The transaction of a receipt increments its lines *)
(* one by one, reads them all and writes the status; its statements on     *)
(* rows of Stock are in StockTransactions and appear here at its commit.   *)
(***************************************************************************)
EXTENDS Integers, FiniteSets, FiniteSetsExt

CONSTANTS
    Calls,      \* the calls the API may be serving at one time
    Lines,      \* the products, each a line of the order and of the inventory
    Ordered,    \* the units ordered of each line
    Receipts,   \* the receipts asked for: functions from some lines to units
    Total,      \* the total of the supplier's invoice
    Amounts,    \* the amounts of payments
    Transfers,  \* the transfers between stores, of one unit of one product
    Depots,     \* the warehouses of the stores
    From, To,   \* the warehouses of each transfer
    OnHand,     \* the units of each product in stock at first
    Scenes,     \* bound: the sets of Parts that work together
    MaxPaid,    \* bound: the units that are paid
    None,       \* no row
    MaxEdits,   \* bound: how often the purchase order is changed
    MaxAdjusted \* bound: how often a line of the inventory is adjusted

Parts == {"purchase", "count", "stores"}

ASSUME ConstantsAssumption ==
    /\ Lines # {}
    /\ Ordered \in [Lines -> Nat \ {0}]
    /\ \A r \in Receipts :
           /\ DOMAIN r \subseteq Lines /\ DOMAIN r # {}
           /\ \A l \in DOMAIN r : r[l] \in Nat \ {0}
    /\ Total \in Nat /\ Amounts \subseteq Nat \ {0}
    /\ From \in [Transfers -> Depots] /\ To \in [Transfers -> Depots]
    /\ \A t \in Transfers : From[t] # To[t]
    /\ OnHand \in [Lines -> Nat]
    /\ Scenes \subseteq SUBSET Parts
    /\ None \notin Int
    /\ MaxPaid \in Nat /\ MaxEdits \in Nat /\ MaxAdjusted \in Nat

\* For the sums over the calls and over the transfers.
ASSUME FiniteAssumption == IsFiniteSet(Calls) /\ IsFiniteSet(Transfers)

VARIABLES
    scene,     \* the parts that are used
    order,     \* the purchase order, and what its receipts come to
    bill,      \* the supplier's invoice, and what its payments come to
    stock,     \* quantity of each row of Stock
    goods,     \* the units that are really there
    count,     \* the physical inventory
    transfer,  \* the status of each transfer
    depot,     \* the WarehouseStock rows, None where there is none
    moves,     \* history: how often each transfer has taken its unit out and brought it in
    call,      \* what each call has read and will write
    marks      \* history: which of Marks have happened so far

vars == <<scene, order, bill, stock, goods, count, transfer, depot, moves, call, marks>>

(***************************************************************************)
(* A write came after its check had stopped to hold ("overtaken"); send,   *)
(* which has no check, wrote an order that is received or cancelled, or an *)
(* inventory was cancelled after it was validated ("reopened"); received   *)
(* lines of an order were replaced ("relisted"); goods moved between their *)
(* count and its adjustment ("moved"); two calls validated it at one time  *)
(* ("together"); a call was cut off among its statements ("cut"); two      *)
(* payments read the invoice at one time ("lost"); two receipts read the   *)
(* lines of an order before either was committed ("crossed").              *)
(***************************************************************************)
Marks == {"overtaken", "reopened", "relisted", "moved", "together", "cut",
          "lost", "crossed"}

Order == [status : {"DRAFT", "SENT", "APPROVED", "PARTIALLY_RECEIVED", "FULLY_RECEIVED",
                    "CANCELLED"},
          received : [Lines -> Nat], delivered : [Lines -> Nat], edits : 0 .. MaxEdits]

Bill == [status : {"NONE", "APPROVED", "PARTIALLY_PAID", "PAID"}, paid : Nat, payments : Nat]

\* applied: how often the line was adjusted to what was counted.
Count == [status : {"NONE", "DRAFT", "VALIDATED", "CANCELLED"}, counted : [Lines -> Nat],
          applied : [Lines -> Nat]]

Idle == <<"idle">>

Requests ==
    {Idle, <<"approve">>, <<"cancel">>, <<"edit">>, <<"validate">>}
    \cup {"receive"} \X Receipts \X (0 .. MaxEdits) \X (SUBSET Lines)
    \cup {"received"} \X Receipts \X {"APPROVED", "PARTIALLY_RECEIVED", "FULLY_RECEIVED"}
    \cup {"paid"} \X Amounts
    \cup {"pay"} \X Amounts \X Nat
    \cup {"adjust"} \X (SUBSET Lines)
    \cup {"change"} \X (SUBSET Lines) \X Lines \X Int
    \cup {"transfer"} \X Transfers \X (Int \cup {None})

TypeOK ==
    /\ scene \in Scenes
    /\ order \in Order
    /\ bill \in Bill
    /\ stock \in [Lines -> Nat]
    /\ goods \in [Lines -> Nat]
    /\ count \in Count
    /\ transfer \in [Transfers -> {"DRAFT", "VALIDATED"}]
    /\ depot \in [Depots -> Int \cup {None}]
    /\ moves \in [Transfers -> [out : Nat, in : Nat]]
    /\ call \in [Calls -> Requests]
    /\ marks \subseteq Marks

NoUnits == [l \in Lines |-> 0]

Init ==
    /\ scene \in Scenes
    /\ order = [status |-> "DRAFT", received |-> NoUnits, delivered |-> NoUnits, edits |-> 0]
    /\ bill = [status |-> "NONE", paid |-> 0, payments |-> 0]
    /\ stock = OnHand
    /\ goods = OnHand
    /\ count = [status |-> "NONE", counted |-> NoUnits, applied |-> NoUnits]
    /\ transfer = [t \in Transfers |-> "DRAFT"]
    /\ depot = [d \in Depots |-> None]
    /\ moves = [t \in Transfers |-> [out |-> 0, in |-> 0]]
    /\ call = [c \in Calls |-> Idle]
    /\ marks = {}

-----------------------------------------------------------------------------

Start(c, r) == call[c] = Idle /\ call' = [call EXCEPT ![c] = r]

Return(c) == call' = [call EXCEPT ![c] = Idle]

Mark(m, condition) == marks' = IF condition THEN marks \cup {m} ELSE marks

Purchase == <<order, bill>>
Counting == <<goods, count>>
Stores == <<transfer, depot, moves>>

-----------------------------------------------------------------------------
(* The purchase order.                                                     *)

\* send looks at no status.
Send ==
    /\ order' = [order EXCEPT !.status = "SENT"]
    /\ Mark("reopened",
            order.status \in {"PARTIALLY_RECEIVED", "FULLY_RECEIVED", "CANCELLED"})
    /\ UNCHANGED <<bill, stock, call, Counting, Stores>>

Approvable == order.status \in {"DRAFT", "SENT"}

Approve(c) ==
    /\ Approvable
    /\ Start(c, <<"approve">>)
    /\ UNCHANGED <<Purchase, stock, marks, Counting, Stores>>

ApproveWrite(c) ==
    /\ call[c] = <<"approve">>
    /\ order' = [order EXCEPT !.status = "APPROVED"]
    /\ Mark("overtaken", ~Approvable)
    /\ Return(c)
    /\ UNCHANGED <<bill, stock, Counting, Stores>>

\* Mutant of Cancellable: what was received may be cancelled.
CancellableAlways == order.status # "CANCELLED"

Cancellable == order.status # "FULLY_RECEIVED"

Cancel(c) ==
    /\ Cancellable
    /\ Start(c, <<"cancel">>)
    /\ UNCHANGED <<Purchase, stock, marks, Counting, Stores>>

CancelWrite(c) ==
    /\ call[c] = <<"cancel">>
    /\ order' = [order EXCEPT !.status = "CANCELLED"]
    /\ Mark("overtaken", ~Cancellable)
    /\ Return(c)
    /\ UNCHANGED <<bill, stock, Counting, Stores>>

\* update reads a draft ...
Edit(c) ==
    /\ order.status = "DRAFT" /\ order.edits < MaxEdits
    /\ Start(c, <<"edit">>)
    /\ UNCHANGED <<Purchase, stock, marks, Counting, Stores>>

\* The lines that a receipt with this request has incremented in its transaction, and keeps
\* locked until its end.
Held(request) ==
    CASE request[1] = "receive" -> request[4]
      [] request[1] = "received" -> DOMAIN request[2]
      [] OTHER -> {}

\* ... and replaces its lines, and the receipts of the old ones with them: the deletion waits
\* for the receipts that have locked a line.
EditWrite(c) ==
    /\ call[c] = <<"edit">> /\ order.edits < MaxEdits
    /\ \A b \in Calls : Held(call[b]) = {}
    /\ order' = [order EXCEPT !.received = NoUnits, !.edits = @ + 1]
    /\ Mark("relisted", order.delivered # NoUnits)
    /\ Return(c)
    /\ UNCHANGED <<bill, stock, Counting, Stores>>

Receivable == order.status \in {"SENT", "APPROVED", "PARTIALLY_RECEIVED"}

\* Mutant of Fits: what was received before is forgotten.
FitsAlone(r, l) == r[l] <= Ordered[l]

Fits(r, l) == order.received[l] + r[l] <= Ordered[l]

\* GoodsReceiptsService.create reads the order and its lines ...
Receive(c, r) ==
    /\ Receivable /\ \A l \in DOMAIN r : Fits(r, l)
    /\ Start(c, <<"receive", r, order.edits, {}>>)
    /\ UNCHANGED <<Purchase, stock, marks, Counting, Stores>>

\* ... increments one line after the other, each of which must still be there and have that
\* much left when its lock is got ...
ReceiveLine(c, r, l) ==
    /\ call[c][1] = "receive" /\ call[c][2] = r /\ call[c][3] = order.edits
    /\ l \notin call[c][4] /\ \A b \in Calls : l \notin Held(call[b])
    /\ Fits(r, l)
    /\ call' = [call EXCEPT ![c] = <<"receive", r, order.edits, @[4] \cup {l}>>]
    /\ UNCHANGED <<Purchase, stock, marks, Counting, Stores>>

Add(f, r) == [l \in Lines |-> f[l] + (IF l \in DOMAIN r THEN r[l] ELSE 0)]

StatusOf(received) ==
    IF \A l \in Lines : received[l] >= Ordered[l] THEN "FULLY_RECEIVED"
    ELSE IF \E l \in Lines : received[l] > 0 THEN "PARTIALLY_RECEIVED"
    ELSE "APPROVED"

\* ... reads all lines without a lock, thus what is committed and its own increments ...
ReceiveStatus(c, r) ==
    /\ call[c][1] = "receive" /\ call[c][2] = r /\ call[c][4] = DOMAIN r
    /\ call' = [call EXCEPT ![c] = <<"received", r, StatusOf(Add(order.received, r))>>]
    /\ Mark("crossed", \E b \in Calls : call[b][1] = "received")
    /\ UNCHANGED <<Purchase, stock, Counting, Stores>>

\* ... and writes the status it has computed and commits.
ReceiveWrite(c, r) ==
    /\ call[c][1] = "received" /\ call[c][2] = r
    /\ order' = [order EXCEPT !.received = Add(@, r), !.delivered = Add(@, r),
                              !.status = call[c][3]]
    /\ stock' = Add(stock, r)
    /\ goods' = Add(goods, r)
    /\ marks' = marks \cup (IF Receivable THEN {} ELSE {"overtaken"})
                      \cup (IF count.status = "DRAFT" THEN {"moved"} ELSE {})
    /\ Return(c)
    /\ UNCHANGED <<bill, count, Stores>>

\* A line that is gone or has less left, a deadlock, a timeout or a restart: all is undone.
ReceiveRefused(c) ==
    /\ call[c][1] \in {"receive", "received"}
    /\ Return(c)
    /\ UNCHANGED <<Purchase, stock, marks, Counting, Stores>>

CreateBill ==
    /\ bill.status = "NONE"
    /\ bill' = [bill EXCEPT !.status = "APPROVED"]
    /\ UNCHANGED <<order, stock, call, marks, Counting, Stores>>

\* createSupplierPayment records the payment, whatever is still due ...
PaySupplier(c, amount) ==
    /\ bill.status # "NONE" /\ bill.payments + amount <= MaxPaid
    /\ Start(c, <<"paid", amount>>)
    /\ bill' = [bill EXCEPT !.payments = @ + amount]
    /\ UNCHANGED <<order, stock, marks, Counting, Stores>>

\* ... then reads the invoice ...
PaySupplierRead(c, amount) ==
    /\ call[c] = <<"paid", amount>>
    /\ call' = [call EXCEPT ![c] = <<"pay", amount, bill.paid + amount>>]
    /\ Mark("lost", \E b \in Calls : call[b][1] = "pay")
    /\ UNCHANGED <<Purchase, stock, Counting, Stores>>

\* Mutant of Settled: a partial payment settles the invoice.
SettledAtOnce(paid) == "PAID"

Settled(paid) == IF paid >= Total THEN "PAID" ELSE "PARTIALLY_PAID"

\* ... and writes the sum it has computed.
PaySupplierWrite(c, amount) ==
    /\ call[c][1] = "pay" /\ call[c][2] = amount
    /\ bill' = [bill EXCEPT !.paid = call[c][3], !.status = Settled(call[c][3])]
    /\ Return(c)
    /\ UNCHANGED <<order, stock, marks, Counting, Stores>>

-----------------------------------------------------------------------------
(* The physical inventory.                                                 *)

\* A unit is sold.
SellUnit(l) ==
    /\ stock[l] > 0 /\ goods[l] > 0
    /\ stock' = [stock EXCEPT ![l] = @ - 1]
    /\ goods' = [goods EXCEPT ![l] = @ - 1]
    /\ Mark("moved", count.status = "DRAFT")
    /\ UNCHANGED <<Purchase, count, call, Stores>>

\* A unit breaks or is stolen before the count.
LoseUnit(l) ==
    /\ count.status = "NONE" /\ goods[l] > 0
    /\ goods' = [goods EXCEPT ![l] = @ - 1]
    /\ UNCHANGED <<Purchase, stock, count, call, marks, Stores>>

\* createPhysicalInventory with the units that are there.
CreateCount ==
    /\ count.status = "NONE"
    /\ count' = [count EXCEPT !.status = "DRAFT", !.counted = goods]
    /\ UNCHANGED <<Purchase, stock, goods, call, marks, Stores>>

\* Mutant of Validatable: an inventory is validated again.
ValidatableAgain == count.status \in {"DRAFT", "VALIDATED"}

Validatable == count.status = "DRAFT"

\* validatePhysicalInventory reads the inventory, and adjusts its lines or none ...
Validate(c, correct) ==
    /\ Validatable
    /\ Mark("together", \E b \in Calls : call[b][1] \in {"adjust", "change", "validate"})
    /\ Start(c, IF correct THEN <<"adjust", Lines>> ELSE <<"validate">>)
    /\ UNCHANGED <<Purchase, stock, Counting, Stores>>

\* ... one after the other: adjustTo reads the row of a line ...
AdjustRead(c, l) ==
    /\ call[c][1] = "adjust" /\ l \in call[c][2] /\ count.applied[l] < MaxAdjusted
    /\ call' = [call EXCEPT ![c] = <<"change", @[2] \ {l}, l, count.counted[l] - stock[l]>>]
    /\ UNCHANGED <<Purchase, stock, marks, Counting, Stores>>

Adjusted(c) == IF call[c][2] = {} THEN <<"validate">> ELSE <<"adjust", call[c][2]>>

\* ... and applies the difference, which a row that has too little refuses. The status may
\* have been written since the inventory was read.
AdjustWrite(c) ==
    /\ call[c][1] = "change"
    /\ LET l == call[c][3] IN
           /\ stock[l] + call[c][4] >= 0
           /\ stock' = [stock EXCEPT ![l] = @ + call[c][4]]
           /\ count' = [count EXCEPT !.applied[l] = @ + 1]
    /\ call' = [call EXCEPT ![c] = Adjusted(c)]
    /\ Mark("overtaken", ~Validatable)
    /\ UNCHANGED <<Purchase, goods, Stores>>

\* The status is written by id.
ValidateWrite(c) ==
    /\ call[c] = <<"validate">>
    /\ count' = [count EXCEPT !.status = "VALIDATED"]
    /\ Mark("overtaken", ~Validatable)
    /\ Return(c)
    /\ UNCHANGED <<Purchase, stock, goods, Stores>>

\* cancelPhysicalInventory looks at no status.
CancelCount ==
    /\ count.status # "NONE"
    /\ count' = [count EXCEPT !.status = "CANCELLED"]
    /\ Mark("reopened", count.applied # NoUnits)
    /\ UNCHANGED <<Purchase, stock, goods, call, Stores>>

\* A statement of a call fails after others were committed, or the process is restarted.
Cut(c) ==
    /\ call[c][1] \in {"paid", "pay", "adjust", "change", "validate"}
    /\ marks' = marks \cup {"cut"}
    /\ Return(c)
    /\ UNCHANGED <<Purchase, stock, Counting, Stores>>

-----------------------------------------------------------------------------
(* Transfers between stores.                                               *)

Available(t) == depot[From[t]] # None => depot[From[t]] >= 1

Transferable(t) == transfer[t] = "DRAFT" /\ Available(t)

\* validateTransfer reads the status, and in its transaction the row of the source ...
ValidateTransfer(c, t) ==
    /\ Transferable(t)
    /\ Start(c, <<"transfer", t, depot[From[t]]>>)
    /\ UNCHANGED <<Purchase, stock, marks, Counting, Stores>>

InDepot(d) == IF depot[d] = None THEN 0 ELSE depot[d]

\* Mutant of Moved: the source is written from what was read.
MovedFromRead(t, source) ==
    [depot EXCEPT ![From[t]] = IF source # None THEN source - 1 ELSE @,
                  ![To[t]] = InDepot(To[t]) + 1]

Moved(t, source) ==
    [depot EXCEPT ![From[t]] = IF source # None THEN InDepot(From[t]) - 1 ELSE @,
                  ![To[t]] = InDepot(To[t]) + 1]

\* ... and writes without a condition: a source that had no row gives a unit all the same.
ValidateTransferWrite(c, t) ==
    /\ call[c][1] = "transfer" /\ call[c][2] = t
    /\ depot' = Moved(t, call[c][3])
    /\ moves' = [moves EXCEPT ![t].out = IF call[c][3] # None THEN @ + 1 ELSE @,
                              ![t].in = @ + 1]
    /\ transfer' = [transfer EXCEPT ![t] = "VALIDATED"]
    /\ Mark("overtaken", transfer[t] # "DRAFT")
    /\ Return(c)
    /\ UNCHANGED <<Purchase, stock, Counting>>

-----------------------------------------------------------------------------

PurchaseStep ==
    \/ Send \/ CreateBill
    \/ \E c \in Calls :
           \/ Approve(c) \/ ApproveWrite(c) \/ Cancel(c) \/ CancelWrite(c)
           \/ Edit(c) \/ EditWrite(c) \/ ReceiveRefused(c)
           \/ \E r \in Receipts :
                  \/ Receive(c, r) \/ ReceiveStatus(c, r) \/ ReceiveWrite(c, r)
                  \/ \E l \in DOMAIN r : ReceiveLine(c, r, l)
           \/ \E amount \in Amounts :
                  PaySupplier(c, amount) \/ PaySupplierRead(c, amount)
                  \/ PaySupplierWrite(c, amount)

CountStep ==
    \/ CreateCount \/ CancelCount
    \/ \E l \in Lines : SellUnit(l) \/ LoseUnit(l)
    \/ \E c \in Calls :
           \/ \E correct \in BOOLEAN : Validate(c, correct)
           \/ \E l \in Lines : AdjustRead(c, l)
           \/ AdjustWrite(c) \/ ValidateWrite(c)

StoresStep ==
    \E c \in Calls, t \in Transfers : ValidateTransfer(c, t) \/ ValidateTransferWrite(c, t)

Next ==
    /\ UNCHANGED scene
    /\ \/ "purchase" \in scene /\ PurchaseStep
       \/ "count" \in scene /\ CountStep
       \/ "stores" \in scene /\ StoresStep
       \/ \E c \in Calls : Cut(c)

Spec == Init /\ [][Next]_vars

-----------------------------------------------------------------------------
(* Properties.                                                             *)

Without(ms) == marks \cap ms = {}

\* Two receipts of the same order at the same time do not take in more than was
\* ordered, and each unit taken in is on a line of the order.
ReceivedAsOrdered ==
    \A l \in Lines :
        /\ order.received[l] <= Ordered[l]
        /\ Without({"relisted"}) => order.received[l] = order.delivered[l]

\* The status tells whether everything is there, and an order that has been received as a
\* whole is not cancelled. Two receipts that read the lines before either was committed may
\* both write PARTIALLY_RECEIVED although everything is there; none writes more than there is.
StatusFollowsReceipts ==
    Without({"overtaken", "reopened", "relisted"}) =>
        LET all == \A l \in Lines : order.received[l] = Ordered[l]
            some == \E l \in Lines : order.received[l] > 0
        IN /\ order.status = "FULLY_RECEIVED" => all
           /\ all /\ Without({"crossed"}) => order.status = "FULLY_RECEIVED"
           /\ order.status = "PARTIALLY_RECEIVED" => some
           /\ some => order.status \in {"PARTIALLY_RECEIVED", "FULLY_RECEIVED", "CANCELLED"}

\* Payments to a supplier that do not meet are all on his invoice, which is settled
\* when they come to its total.
SupplierPaid ==
    Without({"lost", "cut"}) /\ (\A c \in Calls : call[c][1] \notin {"paid", "pay"}) =>
        /\ bill.paid = bill.payments
        /\ bill.status = "PAID" <=> bill.status # "NONE" /\ bill.paid >= Total /\ bill.paid > 0

\* The stock rows hold what is there once an inventory has corrected all its lines, unless
\* goods moved between the count and its validation, or two calls validate it at one time.
CountCorrects ==
    Without({"moved", "together", "overtaken"}) =>
        \A l \in Lines : count.applied[l] > 0 => stock[l] = goods[l]

\* The status of an inventory tells what has been done: nothing of a cancelled one, all lines
\* or none of a validated one, each once.
AppliedOnce ==
    Without({"overtaken", "reopened", "together", "cut"}) =>
        /\ \A l \in Lines : count.applied[l] <= 1
        /\ count.status = "CANCELLED" => count.applied = NoUnits
        /\ count.status = "VALIDATED" => \A l, m \in Lines : count.applied[l] = count.applied[m]

\* An inventory is applied once, and corrects the stock.
InventoryCorrects == CountCorrects /\ AppliedOnce

\* What a transfer has brought to a warehouse, less what it has taken from it.
Brought(t, d) ==
    (IF To[t] = d THEN moves[t].in ELSE 0) - (IF From[t] = d THEN moves[t].out ELSE 0)

\* The rows of the warehouses are what the transfers between them have brought and taken,
\* however many are validated at one time from one place; and a validated transfer has brought
\* its unit once, unless two calls validated it, and has taken it at most as often. A row may
\* be below zero, and a unit that no row gave may have been brought.
StoresFollowTransfers ==
    /\ \A d \in Depots : InDepot(d) = SumFunction([t \in Transfers |-> Brought(t, d)])
    /\ \A t \in Transfers :
           /\ moves[t].out <= moves[t].in
           /\ Without({"overtaken"}) => moves[t].in = IF transfer[t] = "VALIDATED" THEN 1 ELSE 0
=============================================================================
