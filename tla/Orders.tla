------------------------------- MODULE Orders -------------------------------
(***************************************************************************)
(* Quotes, the customer orders (Proforma rows) they are converted to, the  *)
(* payments of an order, and the workshop's manufacturing orders, under    *)
(* concurrent calls of several users of one tenant.                        *)
(*                                                                         *)
(* A call that reads a status and writes by id in a later statement is two *)
(* actions, the second named ...Write.  Calls that lock the row first, or  *)
(* whose read cannot be told from one at the time of the write, are one    *)
(* action.  A refused call changes nothing and is not modelled: missing    *)
(* stock or a missing warehouse is such a refusal.                         *)
(*                                                                         *)
(* Amounts are whole units.  The stock of an order is the balance of its   *)
(* movements; the rows of Stock are in StockTransactions.                  *)
(***************************************************************************)
EXTENDS Integers, FiniteSets

CONSTANTS
    Calls,      \* the calls the API may be serving at one time
    Quotes,
    Orders,
    Materials,  \* the raw materials of a manufacturing order
    Totals,     \* the totals an order may have; 0 is one the code accepts
    Amounts,    \* the amounts of payments
    Used,       \* bound: the quotes and orders a tenant of each profile makes
    MaxBack,    \* bound: no order is cancelled again after that many cancellations
    None        \* no quote

Profiles == {"shop", "windows-aluminium"}

ASSUME ConstantsAssumption ==
    /\ Totals \subseteq Nat
    /\ Amounts \subseteq Nat \ {0}
    /\ Used \in [Profiles -> SUBSET (Quotes \cup Orders)]
    /\ MaxBack \in Nat
    /\ None \notin Quotes

VARIABLES
    profile,  \* businessProfileType of the tenant
    quote,
    order,
    making,   \* the manufacturing order of each order
    call,     \* what each call has read and will write
    marks     \* history: which of Marks have happened so far

vars == <<profile, quote, order, making, call, marks>>

QuoteStatuses ==
    {"DRAFT", "SENT", "ACCEPTED", "REJECTED", "EXPIRED", "CONVERTED"}

OrderStatuses ==
    {"NONE", "CONFIRMED", "IN_PROGRESS", "READY", "DELIVERED", "COMPLETED", "CANCELLED"}

MakingStatuses ==
    {"NONE", "TO_PREPARE", "IN_PRODUCTION", "READY", "COMPLETED", "CANCELLED"}

(***************************************************************************)
(* A write came after its check had stopped to hold ("overtaken"); a write *)
(* without a check took a converted quote or an order that was delivered,  *)
(* completed or cancelled back to an earlier status ("reopened"); a        *)
(* material was removed after it had been reserved ("stranded") or was     *)
(* added after the start ("late").                                         *)
(***************************************************************************)
Marks == {"overtaken", "reopened", "stranded", "late"}

\* out and back: how often the goods of the order left the stock and came back.
Order == [status : OrderStatuses, quote : Quotes \cup {None}, total : Nat,
          paid : Nat, out : Nat, back : Nat, invoices : Nat]

\* held: the materials counted in Stock.reserved for this manufacturing order.
Making == [status : MakingStatuses, rows : SUBSET Materials, reserved : SUBSET Materials,
           held : SUBSET Materials, consumed : SUBSET Materials]

Idle == <<"idle">>

Requests ==
    {Idle}
    \cup {"convert", "expire", "edit"} \X Quotes
    \cup {"cancel", "ready"} \X Orders
    \cup {"advance"} \X Orders \X OrderStatuses
    \cup {"pay"} \X Orders \X Amounts
    \cup {"add", "remove"} \X Orders \X Materials

TypeOK ==
    /\ profile \in Profiles
    /\ quote \in [Quotes -> [status : QuoteStatuses, overdue : BOOLEAN]]
    /\ order \in [Orders -> Order]
    /\ making \in [Orders -> Making]
    /\ call \in [Calls -> Requests]
    /\ marks \subseteq Marks

NoOrder == [status |-> "NONE", quote |-> None, total |-> 0, paid |-> 0,
            out |-> 0, back |-> 0, invoices |-> 0]

NoMaking == [status |-> "NONE", rows |-> {}, reserved |-> {}, held |-> {}, consumed |-> {}]

Init ==
    /\ profile \in Profiles
    /\ quote = [q \in Quotes |-> [status |-> "DRAFT", overdue |-> FALSE]]
    /\ order = [o \in Orders |-> NoOrder]
    /\ making = [o \in Orders |-> NoMaking]
    /\ call = [c \in Calls |-> Idle]
    /\ marks = {}

-----------------------------------------------------------------------------

\* A call has passed its checks: r is what it will write.
Start(c, r) ==
    /\ call[c] = Idle
    /\ call' = [call EXCEPT ![c] = r]
    /\ UNCHANGED <<profile, quote, order, making, marks>>

Return(c) == call' = [call EXCEPT ![c] = Idle]

Mark(m, condition) == marks' = IF condition THEN marks \cup {m} ELSE marks

-----------------------------------------------------------------------------
(* Quotes.                                                                 *)

\* send, accept and reject look at no status.
SetQuote(q, status) ==
    /\ quote' = [quote EXCEPT ![q].status = status]
    /\ Mark("reopened", quote[q].status = "CONVERTED")
    /\ UNCHANGED <<profile, order, making, call>>

\* update: of a quote that is read as a draft or as sent.
EditQuote(c, q) ==
    /\ quote[q].status \in {"DRAFT", "SENT"}
    /\ Start(c, <<"edit", q>>)

\* ... writes the lines and a new date of expiry, not the status.
EditQuoteWrite(c, q) ==
    /\ call[c] = <<"edit", q>>
    /\ quote' = [quote EXCEPT ![q].overdue = FALSE]
    /\ Return(c)
    /\ UNCHANGED <<profile, order, making, marks>>

\* expiresAt passes.
QuoteOverdue(q) ==
    /\ ~quote[q].overdue
    /\ quote' = [quote EXCEPT ![q].overdue = TRUE]
    /\ UNCHANGED <<profile, order, making, call, marks>>

\* Mutant of Convertible: a quote may be converted again.
ConvertibleAgain(q) == quote[q].status \notin {"REJECTED", "EXPIRED"}

Convertible(q) == quote[q].status \notin {"REJECTED", "EXPIRED", "CONVERTED"}

\* convertToProforma: the checks, before the transaction.
Convert(c, q) ==
    /\ Convertible(q)
    /\ Start(c, IF quote[q].overdue THEN <<"expire", q>> ELSE <<"convert", q>>)

ExpireWrite(c, q) ==
    /\ call[c] = <<"expire", q>>
    /\ quote' = [quote EXCEPT ![q].status = "EXPIRED"]
    /\ Mark("overtaken", ~Convertible(q))
    /\ Return(c)
    /\ UNCHANGED <<profile, order, making>>

\* The row of a new order; the goods leave the stock with it, but not in a workshop.
Confirmed(q, total) ==
    [NoOrder EXCEPT !.status = "CONFIRMED", !.quote = q, !.total = total,
                    !.out = IF profile = "shop" THEN 1 ELSE 0]

\* The transaction: the order with the lines of the quote or with edited ones.
ConvertWrite(c, q, o, total) ==
    /\ call[c] = <<"convert", q>>
    /\ order[o].status = "NONE"
    /\ order' = [order EXCEPT ![o] = Confirmed(q, total)]
    /\ quote' = [quote EXCEPT ![q].status = "CONVERTED"]
    /\ Mark("overtaken", ~Convertible(q))
    /\ Return(c)
    /\ UNCHANGED <<profile, making>>

-----------------------------------------------------------------------------
(* Orders.                                                                 *)

CreateOrder(o, total) ==
    /\ order[o].status = "NONE"
    /\ order' = [order EXCEPT ![o] = Confirmed(None, total)]
    /\ UNCHANGED <<profile, quote, making, call, marks>>

\* Mutant of Forward: an order that is ready may go back to the workshop.
ForwardOrBack(status) ==
    CASE status = "CONFIRMED" -> {"IN_PROGRESS", "READY", "DELIVERED"}
      [] status = "IN_PROGRESS" -> {"READY", "DELIVERED"}
      [] status = "READY" -> {"IN_PROGRESS", "DELIVERED"}
      [] OTHER -> {}

\* FORWARD_TRANSITIONS
Forward(status) ==
    CASE status = "CONFIRMED" -> {"IN_PROGRESS", "READY", "DELIVERED"}
      [] status = "IN_PROGRESS" -> {"READY", "DELIVERED"}
      [] status = "READY" -> {"DELIVERED"}
      [] OTHER -> {}

\* Mutant of CancellableFrom: any status may be cancelled.
CancellableFromAny == OrderStatuses \ {"NONE"}

\* CANCELLABLE_FROM
CancellableFrom == {"CONFIRMED", "IN_PROGRESS", "READY", "DELIVERED"}

\* updateStatus reads the order in its transaction, without a lock.
Advance(c, o, to) ==
    /\ to \in Forward(order[o].status)
    /\ Start(c, <<"advance", o, to>>)

Delivered(m) == IF m.status = "READY" THEN [m EXCEPT !.status = "COMPLETED"] ELSE m

\* ... and writes it by id; a delivery ends the manufacturing order that is ready.
AdvanceWrite(c, o, to) ==
    /\ call[c] = <<"advance", o, to>>
    /\ order' = [order EXCEPT ![o].status = to]
    /\ making' = IF to = "DELIVERED" THEN [making EXCEPT ![o] = Delivered(@)] ELSE making
    /\ Mark("overtaken", to \notin Forward(order[o].status))
    /\ Return(c)
    /\ UNCHANGED <<profile, quote>>

Cancel(c, o) ==
    /\ order[o].status \in CancellableFrom /\ order[o].back < MaxBack
    /\ Start(c, <<"cancel", o>>)

\* Mutant of CancelWrite: the goods of every order are put back.
CancelRestocksAlways(c, o) ==
    /\ call[c] = <<"cancel", o>>
    /\ order' = [order EXCEPT ![o].status = "CANCELLED", ![o].back = @ + 1]
    /\ Mark("overtaken", order[o].status \notin CancellableFrom)
    /\ Return(c)
    /\ UNCHANGED <<profile, quote, making>>

\* hasOrderStockDeduction decides whether the goods go back to the stock.
CancelWrite(c, o) ==
    /\ call[c] = <<"cancel", o>>
    /\ order' = [order EXCEPT ![o].status = "CANCELLED",
                              ![o].back = IF order[o].out > 0 THEN @ + 1 ELSE @]
    /\ Mark("overtaken", order[o].status \notin CancellableFrom)
    /\ Return(c)
    /\ UNCHANGED <<profile, quote, making>>

Balance(o) == order[o].total - order[o].paid

\* registerPayment reads the order in its transaction, without a lock.
Pay(c, o, amount) ==
    /\ order[o].status \notin {"NONE", "CANCELLED"}
    /\ Balance(o) > 0 /\ amount <= Balance(o)
    /\ Start(c, <<"pay", o, amount>>)

\* generateInvoice looks for the invoice of the order first.
Settled(row) ==
    [row EXCEPT !.status = "COMPLETED", !.invoices = IF @ = 0 THEN 1 ELSE @]

Paid(row, amount) ==
    LET after == [row EXCEPT !.paid = @ + amount]
    IN IF after.paid >= row.total THEN Settled(after) ELSE after

\* Mutant of PayWrite: the balance that was read is relied on.
PayWriteUnguarded(c, o, amount) ==
    /\ call[c] = <<"pay", o, amount>>
    /\ order' = [order EXCEPT ![o] = Paid(@, amount)]
    /\ Mark("overtaken", order[o].status = "CANCELLED")
    /\ Return(c)
    /\ UNCHANGED <<profile, quote, making>>

\* The update is guarded by balance >= amount; from there on the row is locked.
PayWrite(c, o, amount) ==
    /\ call[c] = <<"pay", o, amount>>
    /\ Balance(o) >= amount
    /\ order' = [order EXCEPT ![o] = Paid(@, amount)]
    /\ Mark("overtaken", order[o].status = "CANCELLED")
    /\ Return(c)
    /\ UNCHANGED <<profile, quote, making>>

\* The update matched no row.
PayRefused(c, o, amount) ==
    /\ call[c] = <<"pay", o, amount>>
    /\ Balance(o) < amount
    /\ Return(c)
    /\ UNCHANGED <<profile, quote, order, making, marks>>

-----------------------------------------------------------------------------
(* Manufacturing orders.                                                   *)

\* createFromProforma: an advisory lock and the unique proformaId.
CreateMaking(o) ==
    /\ profile = "windows-aluminium"
    /\ making[o].status = "NONE"
    /\ order[o].status \notin {"NONE", "CANCELLED", "COMPLETED"}
    /\ making' = [making EXCEPT ![o].status = "TO_PREPARE"]
    /\ UNCHANGED <<profile, quote, order, call, marks>>

AddMaterial(c, o, m) ==
    /\ making[o].status = "TO_PREPARE" /\ m \notin making[o].rows
    /\ Start(c, <<"add", o, m>>)

AddMaterialWrite(c, o, m) ==
    /\ call[c] = <<"add", o, m>>
    /\ making' = [making EXCEPT ![o].rows = @ \cup {m}]
    /\ Mark("late", making[o].status # "TO_PREPARE")
    /\ Return(c)
    /\ UNCHANGED <<profile, quote, order>>

RemoveMaterial(c, o, m) ==
    /\ making[o].status = "TO_PREPARE"
    /\ m \in making[o].rows \ making[o].reserved
    /\ Start(c, <<"remove", o, m>>)

\* The delete takes the reservation of the material with it, not Stock.reserved.
RemoveMaterialWrite(c, o, m) ==
    /\ call[c] = <<"remove", o, m>>
    /\ making' = [making EXCEPT ![o].rows = @ \ {m}, ![o].reserved = @ \ {m},
                                ![o].consumed = @ \ {m}]
    /\ Mark("stranded", m \in making[o].reserved)
    /\ Return(c)
    /\ UNCHANGED <<profile, quote, order>>

\* reserve, start and cancel lock the row before they read it.
Reserve(o) ==
    /\ making[o].status = "TO_PREPARE" /\ making[o].rows # {}
    /\ making' = [making EXCEPT ![o].reserved = making[o].rows,
                                ![o].held = @ \cup making[o].rows]
    /\ UNCHANGED <<profile, quote, order, call, marks>>

\* Mutant of StartMaking: the reservations are kept.
StartMakingStillReserved(o) ==
    /\ making[o].status = "TO_PREPARE"
    /\ making[o].rows # {} /\ making[o].rows = making[o].reserved
    /\ making' = [making EXCEPT ![o].status = "IN_PRODUCTION", ![o].reserved = {},
                                ![o].consumed = making[o].rows]
    /\ order' = [order EXCEPT ![o].status =
                    IF @ \in {"CONFIRMED", "IN_PROGRESS"} THEN "IN_PROGRESS" ELSE @]
    /\ UNCHANGED <<profile, quote, call, marks>>

StartMaking(o) ==
    /\ making[o].status = "TO_PREPARE"
    /\ making[o].rows # {} /\ making[o].rows = making[o].reserved
    /\ making' = [making EXCEPT ![o].status = "IN_PRODUCTION", ![o].reserved = {},
                                ![o].held = @ \ making[o].rows,
                                ![o].consumed = making[o].rows]
    /\ order' = [order EXCEPT ![o].status =
                    IF @ \in {"CONFIRMED", "IN_PROGRESS"} THEN "IN_PROGRESS" ELSE @]
    /\ UNCHANGED <<profile, quote, call, marks>>

\* Only the reservations of the materials still on the list are released.
CancelMaking(o) ==
    /\ making[o].status = "TO_PREPARE"
    /\ making' = [making EXCEPT ![o].status = "CANCELLED", ![o].reserved = {},
                                ![o].held = @ \ making[o].reserved]
    /\ UNCHANGED <<profile, quote, order, call, marks>>

MakingReady(c, o) ==
    /\ making[o].status = "IN_PRODUCTION"
    /\ Start(c, <<"ready", o>>)

\* Both rows are written by id, whatever the status of the order.
MakingReadyWrite(c, o) ==
    /\ call[c] = <<"ready", o>>
    /\ making' = [making EXCEPT ![o].status = "READY"]
    /\ order' = [order EXCEPT ![o].status = "READY"]
    /\ Mark("reopened", order[o].status \in {"DELIVERED", "COMPLETED", "CANCELLED"})
    /\ Return(c)
    /\ UNCHANGED <<profile, quote>>

-----------------------------------------------------------------------------

QuoteCall(c, q) == EditQuote(c, q) \/ Convert(c, q)

OrderCall(c, o) ==
    \/ Cancel(c, o) \/ MakingReady(c, o)
    \/ \E to \in OrderStatuses : Advance(c, o, to)
    \/ \E amount \in Amounts : Pay(c, o, amount)
    \/ \E m \in Materials : AddMaterial(c, o, m) \/ RemoveMaterial(c, o, m)

QuoteWrite(c, q) ==
    \/ EditQuoteWrite(c, q) \/ ExpireWrite(c, q)
    \/ \E o \in Orders \cap Used[profile], total \in Totals : ConvertWrite(c, q, o, total)

OrderWrite(c, o) ==
    \/ CancelWrite(c, o) \/ MakingReadyWrite(c, o)
    \/ \E to \in OrderStatuses : AdvanceWrite(c, o, to)
    \/ \E amount \in Amounts : PayWrite(c, o, amount) \/ PayRefused(c, o, amount)
    \/ \E m \in Materials : AddMaterialWrite(c, o, m) \/ RemoveMaterialWrite(c, o, m)

QuoteStep(q) ==
    \/ \E status \in {"SENT", "ACCEPTED", "REJECTED"} : SetQuote(q, status)
    \/ QuoteOverdue(q)

OrderStep(o) ==
    \/ \E total \in Totals : CreateOrder(o, total)
    \/ CreateMaking(o) \/ Reserve(o) \/ StartMaking(o) \/ CancelMaking(o)

Next ==
    \/ \E c \in Calls, q \in Quotes \cap Used[profile] : QuoteCall(c, q) \/ QuoteWrite(c, q)
    \/ \E c \in Calls, o \in Orders \cap Used[profile] : OrderCall(c, o) \/ OrderWrite(c, o)
    \/ \E q \in Quotes \cap Used[profile] : QuoteStep(q)
    \/ \E o \in Orders \cap Used[profile] : OrderStep(o)

Spec == Init /\ [][Next]_vars

-----------------------------------------------------------------------------
(* Properties.                                                             *)

Unforced == marks \cap {"overtaken", "reopened"} = {}

\* Two payments at the same time (a double click on the last instalment) do not
\* take more than the total, and an order is invoiced exactly once, when it is
\* paid in full, whatever happens to its status meanwhile.
InvoicedOnce ==
    \A o \in Orders :
        /\ order[o].paid <= order[o].total
        /\ order[o].invoices =
               IF order[o].total > 0 /\ order[o].paid = order[o].total THEN 1 ELSE 0

\* COMPLETED is reached by the last payment only, and lost only to a call that
\* was overtaken by it or to the workshop's ready.
CompletedIsPaid ==
    \A o \in Orders :
        /\ order[o].status = "COMPLETED" => order[o].invoices = 1
        /\ Unforced /\ order[o].invoices = 1 => order[o].status = "COMPLETED"

\* The goods of a shop's order are out of the stock until it is cancelled and back
\* in it once afterwards; the workshop's orders move no goods of their own.
StockMatchesOrder ==
    Unforced => \A o \in Orders :
        order[o].out - order[o].back =
            IF profile = "shop" /\ order[o].status \notin {"NONE", "CANCELLED"} THEN 1 ELSE 0

\* A quote is converted to one order, and says so.
OneOrderPerQuote ==
    Unforced => \A q \in Quotes :
        Cardinality({o \in Orders : order[o].quote = q}) =
            IF quote[q].status = "CONVERTED" THEN 1 ELSE 0

\* What a manufacturing order holds of the stock is what is reserved on its list,
\* and it holds nothing once it has been started or cancelled.
HeldWhileReserved ==
    "stranded" \notin marks => \A o \in Orders :
        /\ making[o].held = making[o].reserved
        /\ making[o].held # {} => making[o].status = "TO_PREPARE"

\* Nothing is made of materials that were not taken out of the stock.
MadeOfConsumed ==
    "late" \notin marks => \A o \in Orders :
        making[o].status \in {"IN_PRODUCTION", "READY", "COMPLETED"} =>
            making[o].rows \subseteq making[o].consumed

\* The two of a workshop's stock: reservations end, and what is made was consumed.
ReservationsEnd == HeldWhileReserved /\ MadeOfConsumed

Rank(status) ==
    CASE status = "NONE" -> 0
      [] status = "CONFIRMED" -> 1
      [] status = "IN_PROGRESS" -> 2
      [] status = "READY" -> 3
      [] status = "DELIVERED" -> 4
      [] OTHER -> 5

Onward ==
    \A o \in Orders :
        /\ Rank(order[o].status) <= Rank(order'[o].status)
        /\ Rank(order[o].status) = 5 => order'[o].status = order[o].status

\* proformas.service.ts:102: an order goes forward only, and leaves neither COMPLETED
\* nor CANCELLED. No call takes it back unless it was overtaken or is the workshop's ready.
ForwardUnlessForced == [][Unforced' => Onward]_vars
=============================================================================
