------------------------------ MODULE Counter ------------------------------
(***************************************************************************)
(* The counter of a shop: the sessions of a cash register, one sale at the *)
(* till with the invoice it makes (or one invoice made by hand), the       *)
(* payments, changes and returns of that invoice and the cancellation or   *)
(* return of the sale, under concurrent calls.                             *)
(*                                                                         *)
(* A call that reads a status and writes by id in a later statement is two *)
(* actions, the second named ...Write; each line that is put back to the   *)
(* stock by a transaction of its own is an action.  A refused call changes *)
(* nothing and is not modelled.  The rows of Stock are in                  *)
(* StockTransactions; here the goods that come back are counted by line.   *)
(***************************************************************************)
EXTENDS Integers, FiniteSets, Functions

CONSTANTS
    Calls,     \* the calls the API may be serving at one time
    Sessions,  \* the sessions the register may have, in any order
    Lines,     \* the lines of the document
    Sold,      \* the units of each line
    Total,     \* what it costs
    Amounts,   \* the amounts of payments
    Returns,   \* the requests to return goods: the units of each line, on its first row
               \* and on a second one, 0 for a row that is not there
    Scenes,    \* bound: the sets of Parts that work together
    MaxBack,   \* bound: a sale is not taken back after a line came back so often
    MaxMoves,  \* bound: the cash movements made by hand
    MaxEdits,  \* bound: how often the invoice is changed
    None       \* no session

Parts == {"drawer", "sale", "invoice"}

ASSUME ConstantsAssumption ==
    /\ Scenes \subseteq SUBSET Parts
    /\ Lines # {}
    /\ Sold \in [Lines -> Nat \ {0}]
    /\ Total \in Nat \ {0}
    /\ Amounts \subseteq Nat \ {0}
    /\ Returns \subseteq [Lines -> [first : Nat, second : Nat]]
    /\ \A r \in Returns :
           /\ \E l \in Lines : r[l].first > 0
           /\ \A l \in Lines : r[l].first = 0 => r[l].second = 0
    /\ MaxBack \in Nat /\ MaxMoves \in Nat /\ MaxEdits \in Nat
    /\ None \notin Sessions

\* Only so many calls are served at one time.
ASSUME FiniteAssumption == IsFiniteSet(Calls)

VARIABLES
    scene,    \* the parts that are used; without "sale" sales are rung up only
    drawer,   \* the cash sessions
    sale,     \* the Sale row and the goods its cancellation or return put back
    invoice,  \* the Invoice row, its payments and its returns
    call,     \* what each call has read and will write
    marks     \* history: which of Marks have happened so far

vars == <<scene, drawer, sale, invoice, call, marks>>

(***************************************************************************)
(* A write to the invoice came after its check had stopped to hold         *)
(* ("overtaken"); a session was opened while another was ("raced"); a call *)
(* that had found a session open wrote to it beside a call that closed it  *)
(* ("beside"); one return names a line twice ("split"); the lines of an    *)
(* invoice were replaced after some had been returned ("relisted"); two    *)
(* calls took the sale back at one time ("together"), it was returned      *)
(* after it had been cancelled ("again"), or both the sale and its invoice *)
(* were taken back ("both"); a call was cut off among its transactions     *)
(* ("cut").                                                                *)
(***************************************************************************)
Marks == {"overtaken", "raced", "beside", "split", "relisted", "together", "again", "both", "cut"}

\* cash and card: the payments of the sales; in and out: the cash movements;
\* counted: what the report read by close came to; closings: history, how often it was closed.
Session == [status : {"NONE", "OPEN", "CLOSED"}, cash : Nat, card : Nat,
            in : Nat, out : Nat, counted : Int, closings : Nat]

Sale == [status : {"NONE", "COMPLETED", "CANCELLED", "RETURNED"}, back : [Lines -> Nat]]

InvoiceStatuses == {"NONE", "SENT", "PARTIALLY_PAID", "PAID", "CANCELLED", "RETURNED"}

\* payments: what the Payment rows come to; returned: the returns of the lines
\* the invoice has now; taken: of all it has had; back: what they put in stock.
Invoice == [status : InvoiceStatuses, paid : Nat, payments : Nat, edits : 0 .. MaxEdits,
            returned : [Lines -> Nat], taken : [Lines -> Nat], back : [Lines -> Nat]]

Idle == <<"idle">>

\* Sets of rows of a request to return goods.
RowSets == SUBSET (Lines \X {"first", "second"})

Requests ==
    {Idle, <<"open">>, <<"edit">>, <<"void">>, <<"cancel">>}
    \cup {"sell"} \X (Sessions \cup {None}) \X {"CASH", "CARD"}
    \cup {"move"} \X Sessions \X {"IN", "OUT"}
    \cup {"close"} \X Sessions \X Int
    \cup {"pay"} \X Amounts
    \cup {"return"} \X Returns \X (0 .. MaxEdits)
    \cup {"restock"} \X Returns \X RowSets
    \cup {"giveback"} \X SUBSET Lines

TypeOK ==
    /\ scene \in Scenes
    /\ drawer \in [Sessions -> Session]
    /\ sale \in Sale
    /\ invoice \in Invoice
    /\ call \in [Calls -> Requests]
    /\ marks \subseteq Marks

NoUnits == [l \in Lines |-> 0]

NoInvoice == [status |-> "NONE", paid |-> 0, payments |-> 0, edits |-> 0,
              returned |-> NoUnits, taken |-> NoUnits, back |-> NoUnits]

Init ==
    /\ scene \in Scenes
    /\ drawer = [s \in Sessions |-> [status |-> "NONE", cash |-> 0, card |-> 0,
                                     in |-> 0, out |-> 0, counted |-> 0, closings |-> 0]]
    /\ sale = [status |-> "NONE", back |-> NoUnits]
    /\ invoice = NoInvoice
    /\ call = [c \in Calls |-> Idle]
    /\ marks = {}

-----------------------------------------------------------------------------

Start(c, r) == call[c] = Idle /\ call' = [call EXCEPT ![c] = r]

Return(c) == call' = [call EXCEPT ![c] = Idle]

Mark(m, condition) == marks' = IF condition THEN marks \cup {m} ELSE marks

-----------------------------------------------------------------------------
(* Cash sessions.                                                          *)

Open == {s \in Sessions : drawer[s].status = "OPEN"}

\* Mutant of OpenSession: no session is looked for.
OpenSessionAnyway(c) ==
    /\ Start(c, <<"open">>)
    /\ UNCHANGED <<drawer, sale, invoice, marks>>

\* open looks for an open session of the register ...
OpenSession(c) ==
    /\ Open = {}
    /\ Start(c, <<"open">>)
    /\ UNCHANGED <<drawer, sale, invoice, marks>>

\* ... and creates one.
OpenSessionWrite(c, s) ==
    /\ call[c] = <<"open">>
    /\ drawer[s].status = "NONE"
    /\ drawer' = [drawer EXCEPT ![s].status = "OPEN"]
    /\ Mark("raced", \E b \in Calls \ {c} : call[b] = <<"open">>)
    /\ Return(c)
    /\ UNCHANGED <<sale, invoice>>

\* report: opening amount (left out), cash payments of the sales, movements.
Theoretical(s) == drawer[s].cash + drawer[s].in - drawer[s].out

\* A call that has found the session open, and will write to it.
Uses(c, s) == call[c][1] \in {"sell", "move", "close"} /\ call[c][2] = s

\* The report for the closing of the open session has been read.
Closing(s) == s \in Open /\ \E c \in Calls : call[c][1] = "close" /\ call[c][2] = s

Moves == Cardinality({s \in Sessions : drawer[s].in # drawer[s].cash + drawer[s].card})
         + Cardinality({s \in Sessions : drawer[s].out # 0})

\* Mutant of Move: any session takes a movement.
MoveAnyway(c, s, type) ==
    /\ drawer[s].status # "NONE" /\ Moves < MaxMoves
    /\ Start(c, <<"move", s, type>>)
    /\ UNCHANGED <<drawer, sale, invoice, marks>>

\* movement: a movement made by hand, of one unit.
Move(c, s, type) ==
    /\ s \in Open /\ Moves < MaxMoves
    /\ Start(c, <<"move", s, type>>)
    /\ UNCHANGED <<drawer, sale, invoice, marks>>

MoveWrite(c, s, type) ==
    /\ call[c] = <<"move", s, type>>
    /\ drawer' = IF type = "IN" THEN [drawer EXCEPT ![s].in = @ + 1]
                                ELSE [drawer EXCEPT ![s].out = @ + 1]
    /\ Mark("beside", Closing(s))
    /\ Return(c)
    /\ UNCHANGED <<sale, invoice>>

\* close finds the session open and reads its report ...
Close(c, s) ==
    /\ s \in Open
    /\ Start(c, <<"close", s, Theoretical(s)>>)
    /\ UNCHANGED <<drawer, sale, invoice, marks>>

\* ... and writes the row by id.
CloseWrite(c, s) ==
    /\ call[c][1] = "close" /\ call[c][2] = s
    /\ drawer' = [drawer EXCEPT ![s].status = "CLOSED", ![s].counted = call[c][3],
                               ![s].closings = @ + 1]
    /\ Mark("beside", \E b \in Calls \ {c} : Uses(b, s))
    /\ Return(c)
    /\ UNCHANGED <<sale, invoice>>

-----------------------------------------------------------------------------
(* The sale.                                                               *)

\* SalesService.create finds the cash session open, when it is given one ...
Sell(c, s, method) ==
    /\ invoice.status = "NONE"
    /\ s # None => s \in Open
    /\ Start(c, <<"sell", s, method>>)
    /\ UNCHANGED <<drawer, sale, invoice, marks>>

\* A payment by card makes a cash movement too.
RungUp(session, method) ==
    [session EXCEPT !.cash = IF method = "CASH" THEN @ + Total ELSE @,
                    !.card = IF method = "CARD" THEN @ + Total ELSE @,
                    !.in = @ + Total]

\* ... and commits the sale, its invoice, the payment and the cash movement.
SellWrite(c, s, method) ==
    /\ call[c] = <<"sell", s, method>>
    /\ invoice.status = "NONE"
    /\ sale' = [sale EXCEPT !.status = "COMPLETED"]
    /\ invoice' = [NoInvoice EXCEPT !.status = "PAID", !.paid = Total, !.payments = Total]
    /\ drawer' = IF s = None THEN drawer ELSE [drawer EXCEPT ![s] = RungUp(@, method)]
    /\ Mark("beside", Closing(s))
    /\ Return(c)

Giving(c) == call[c][1] \in {"cancel", "giveback"}

\* Another call takes the sale back, or its invoice has returns.
TakenBack ==
    (IF \E c \in Calls : Giving(c) THEN {"together"} ELSE {})
    \cup (IF invoice.taken # NoUnits THEN {"both"} ELSE {})

TooOften == \E l \in Lines : sale.back[l] >= MaxBack * Sold[l]

\* cancel reads the sale before its transaction.
CancelSale(c) ==
    /\ sale.status = "COMPLETED" /\ ~TooOften
    /\ Start(c, <<"cancel">>)
    /\ marks' = marks \cup TakenBack
    /\ UNCHANGED <<drawer, sale, invoice>>

\* The stock exits of the sale are undone; no money leaves the drawer.
CancelSaleWrite(c) ==
    /\ call[c] = <<"cancel">>
    /\ sale' = [status |-> "CANCELLED", back |-> [l \in Lines |-> sale.back[l] + Sold[l]]]
    /\ Mark("both", invoice.taken # NoUnits)
    /\ Return(c)
    /\ UNCHANGED <<drawer, invoice>>

\* Mutant of Returnable: a sale that was returned may be returned.
ReturnableAgain == sale.status # "NONE"

Returnable == sale.status \notin {"NONE", "RETURNED"}

\* returnSale refuses a returned sale only ...
ReturnSale(c) ==
    /\ Returnable /\ ~TooOften
    /\ Start(c, <<"giveback", Lines>>)
    /\ marks' = marks \cup TakenBack
                      \cup (IF sale.status = "CANCELLED" THEN {"again"} ELSE {})
    /\ UNCHANGED <<drawer, sale, invoice>>

\* ... puts back one line after the other, each in its own transaction ...
ReturnSaleLine(c, l) ==
    /\ call[c][1] = "giveback" /\ l \in call[c][2]
    /\ sale' = [sale EXCEPT !.back[l] = @ + Sold[l]]
    /\ call' = [call EXCEPT ![c] = <<"giveback", @[2] \ {l}>>]
    /\ Mark("both", invoice.taken # NoUnits)
    /\ UNCHANGED <<drawer, invoice>>

\* ... and writes the status by id.
ReturnSaleWrite(c) ==
    /\ call[c] = <<"giveback", {}>>
    /\ sale' = [sale EXCEPT !.status = "RETURNED"]
    /\ Return(c)
    /\ UNCHANGED <<drawer, invoice, marks>>

-----------------------------------------------------------------------------
(* The invoice.                                                            *)

\* InvoicesService.create
CreateInvoice ==
    /\ invoice.status = "NONE"
    /\ invoice' = [NoInvoice EXCEPT !.status = "SENT"]
    /\ UNCHANGED <<drawer, sale, call, marks>>

\* update reads an invoice that is not paid at all ...
EditInvoice(c) ==
    /\ invoice.status = "SENT" /\ invoice.edits < MaxEdits
    /\ Start(c, <<"edit">>)
    /\ UNCHANGED <<drawer, sale, invoice, marks>>

\* ... and writes new lines and totals by id: nothing paid, all of it due.
EditInvoiceWrite(c) ==
    /\ call[c] = <<"edit">> /\ invoice.edits < MaxEdits
    /\ invoice' = [invoice EXCEPT !.paid = 0, !.edits = @ + 1, !.returned = NoUnits]
    /\ marks' = marks \cup (IF invoice.status # "SENT" THEN {"overtaken"} ELSE {})
                      \cup (IF invoice.taken # NoUnits THEN {"relisted"} ELSE {})
    /\ Return(c)
    /\ UNCHANGED <<drawer, sale>>

Balance == Total - invoice.paid

\* registerPayment reads the invoice in its transaction, without a lock ...
Pay(c, amount) ==
    /\ invoice.status \notin {"NONE", "CANCELLED"}
    /\ Balance > 0 /\ amount <= Balance
    /\ Start(c, <<"pay", amount>>)
    /\ UNCHANGED <<drawer, sale, invoice, marks>>

Paid(amount) ==
    [invoice EXCEPT !.paid = @ + amount, !.payments = @ + amount,
                    !.status = IF invoice.paid + amount >= Total THEN "PAID"
                                                                 ELSE "PARTIALLY_PAID"]

\* Mutant of PayWrite: the balance that was read is written.
PayWriteUnguarded(c, amount) ==
    /\ call[c] = <<"pay", amount>>
    /\ invoice' = Paid(amount)
    /\ Mark("overtaken", invoice.status = "CANCELLED")
    /\ Return(c)
    /\ UNCHANGED <<drawer, sale>>

\* ... and updates it where balance >= amount, which locks the row.
PayWrite(c, amount) ==
    /\ call[c] = <<"pay", amount>>
    /\ Balance >= amount
    /\ invoice' = Paid(amount)
    /\ Mark("overtaken", invoice.status = "CANCELLED")
    /\ Return(c)
    /\ UNCHANGED <<drawer, sale>>

PayRefused(c, amount) ==
    /\ call[c] = <<"pay", amount>>
    /\ Balance < amount
    /\ Return(c)
    /\ UNCHANGED <<drawer, sale, invoice, marks>>

Voidable == invoice.status \notin {"NONE", "PAID"}

\* cancel reads the invoice ...
VoidInvoice(c) ==
    /\ Voidable
    /\ Start(c, <<"void">>)
    /\ UNCHANGED <<drawer, sale, invoice, marks>>

\* ... and writes it by id.
VoidInvoiceWrite(c) ==
    /\ call[c] = <<"void">>
    /\ invoice' = [invoice EXCEPT !.status = "CANCELLED"]
    /\ Mark("overtaken", ~Voidable)
    /\ Return(c)
    /\ UNCHANGED <<drawer, sale>>

-----------------------------------------------------------------------------
(* Returns of an invoice.                                                  *)

\* ReturnsService.create reads the invoice and its lines ...
ReturnGoods(c, goods) ==
    /\ invoice.status \notin {"NONE", "CANCELLED"}
    /\ Start(c, <<"return", goods, invoice.edits>>)
    /\ UNCHANGED <<drawer, sale, invoice, marks>>

Units(goods, l) == goods[l].first + goods[l].second

\* Mutant of Returnables: each row is capped by what was sold.
ReturnablesAsSold(goods) ==
    \A l \in Lines : goods[l].first <= Sold[l] /\ goods[l].second <= Sold[l]

\* Each row of the request is capped by itself.
Returnables(goods) ==
    \A l \in Lines :
        /\ goods[l].first <= Sold[l] - invoice.returned[l]
        /\ goods[l].second <= Sold[l] - invoice.returned[l]

\* Only the first row of a line is looked at.
IsFullyReturned(goods) ==
    \A l \in Lines : invoice.returned[l] + goods[l].first >= Sold[l]

Rows(goods) == {r \in Lines \X {"first", "second"} : goods[r[1]][r[2]] > 0}

\* ... then locks the row and reads the earlier returns. The lines it has read must
\* still be there for the rows of the return to refer to.
ReturnGoodsWrite(c, goods) ==
    /\ call[c] = <<"return", goods, invoice.edits>>
    /\ Returnables(goods)
    /\ invoice' = [invoice EXCEPT
           !.returned = [l \in Lines |-> @[l] + Units(goods, l)],
           !.taken = [l \in Lines |-> @[l] + Units(goods, l)],
           !.status = IF IsFullyReturned(goods) THEN "RETURNED" ELSE @]
    /\ call' = [call EXCEPT ![c] = <<"restock", goods, Rows(goods)>>]
    /\ marks' = marks
           \cup (IF invoice.status = "CANCELLED" THEN {"overtaken"} ELSE {})
           \cup (IF \E l \in Lines : goods[l].second > 0 THEN {"split"} ELSE {})
           \cup (IF sale.back # NoUnits THEN {"both"} ELSE {})
    /\ UNCHANGED <<drawer, sale>>

ReturnGoodsRefused(c, goods) ==
    /\ call[c][1] = "return" /\ call[c][2] = goods
    /\ call[c][3] # invoice.edits \/ ~Returnables(goods)
    /\ Return(c)
    /\ UNCHANGED <<drawer, sale, invoice, marks>>

\* After the commit the rows go back to the stock, each by a transaction of its own, in
\* the order of the request, which is left open here.
RestockLine(c, l, i) ==
    /\ call[c][1] = "restock" /\ <<l, i>> \in call[c][3]
    /\ invoice' = [invoice EXCEPT !.back[l] = @ + call[c][2][l][i]]
    /\ call' = [call EXCEPT ![c] = IF @[3] = {<<l, i>>} THEN Idle
                                   ELSE <<"restock", @[2], @[3] \ {<<l, i>>}>>]
    /\ UNCHANGED <<drawer, sale, marks>>

\* A transaction of a call fails after others of it were committed, or the process
\* is restarted between them.
Cut(c) ==
    /\ call[c][1] \in {"restock", "giveback"}
    /\ marks' = marks \cup {"cut"}
    /\ Return(c)
    /\ UNCHANGED <<drawer, sale, invoice>>

-----------------------------------------------------------------------------

DrawerCall(c) ==
    \/ OpenSession(c)
    \/ \E s \in Sessions :
           \/ OpenSessionWrite(c, s) \/ Close(c, s) \/ CloseWrite(c, s)
           \/ \E type \in {"IN", "OUT"} : Move(c, s, type) \/ MoveWrite(c, s, type)

SellCall(c) ==
    \E s \in Sessions \cup {None}, method \in {"CASH", "CARD"} :
        Sell(c, s, method) \/ SellWrite(c, s, method)

SaleCall(c) ==
    \/ CancelSale(c) \/ CancelSaleWrite(c)
    \/ ReturnSale(c) \/ ReturnSaleWrite(c)
    \/ \E l \in Lines : ReturnSaleLine(c, l)

InvoiceCall(c) ==
    \/ CreateInvoice
    \/ EditInvoice(c) \/ EditInvoiceWrite(c)
    \/ VoidInvoice(c) \/ VoidInvoiceWrite(c)
    \/ \E amount \in Amounts : Pay(c, amount) \/ PayWrite(c, amount) \/ PayRefused(c, amount)

ReturnCall(c) ==
    \/ \E goods \in Returns :
           ReturnGoods(c, goods) \/ ReturnGoodsWrite(c, goods) \/ ReturnGoodsRefused(c, goods)
    \/ \E l \in Lines, i \in {"first", "second"} : RestockLine(c, l, i)

Next ==
    /\ UNCHANGED scene
    /\ \E c \in Calls :
           \/ SellCall(c) \/ Cut(c)
           \/ "drawer" \in scene /\ DrawerCall(c)
           \/ "sale" \in scene /\ SaleCall(c)
           \/ "invoice" \in scene /\ (InvoiceCall(c) \/ ReturnCall(c))

Spec == Init /\ [][Next]_vars

-----------------------------------------------------------------------------
(* Properties.                                                             *)

NotOvertaken == "overtaken" \notin marks

\* The invoice says what its payments come to, and they never come to more than its
\* total, however many payments, changes and cancellations meet: no payment is lost
\* or taken twice.
PaymentsMatch == NotOvertaken => invoice.paid = invoice.payments /\ invoice.paid <= Total

\* A paid invoice was paid in full, one that is sent not at all, and an invoice that was
\* paid in full is not cancelled unless it was returned before.
StatusMatchesPaid ==
    NotOvertaken =>
        /\ invoice.status = "CANCELLED" => invoice.paid < Total \/ invoice.taken # NoUnits
        /\ invoice.status = "PAID" => invoice.paid = Total
        /\ invoice.status = "PARTIALLY_PAID" => invoice.paid \in 1 .. Total - 1
        /\ invoice.status = "SENT" => invoice.paid = 0

\* An invoice, its status and its payments agree.
InvoiceAgrees == PaymentsMatch /\ StatusMatchesPaid

\* Concurrent and repeated returns of an invoice do not take back more than it sold.
ReturnedAtMostSold ==
    marks \cap {"split", "relisted"} = {} => \A l \in Lines : invoice.taken[l] <= Sold[l]

\* RETURNED says that nothing of the invoice is left with the customer.
ReturnedIsWhole ==
    invoice.status = "RETURNED" /\ "relisted" \notin marks =>
        \A l \in Lines : invoice.returned[l] >= Sold[l]

\* Returns of an invoice come to what was sold at most, and RETURNED to no less.
ReturnsFitSale == ReturnedAtMostSold /\ ReturnedIsWhole

\* Units of row i of line l that the request r of a call is still to put back.
Pending(r, l, i) == IF r[1] = "restock" /\ <<l, i>> \in r[3] THEN r[2][l][i] ELSE 0

\* Units of line l that calls are about to put back.
Restocking(l) ==
    SumFunction([c \in Calls |-> Pending(call[c], l, "first") + Pending(call[c], l, "second")])

\* What was returned is back in the stock once, or a call is about to put it there.
RestockedAsReturned ==
    \A l \in Lines :
        /\ invoice.back[l] + Restocking(l) <= invoice.taken[l]
        /\ "cut" \notin marks => invoice.back[l] + Restocking(l) = invoice.taken[l]

\* A sale that is cancelled or returned puts its goods back once.
SaleBackOnce ==
    marks \cap {"together", "again", "cut"} = {} => \A l \in Lines :
        /\ sale.back[l] <= Sold[l]
        /\ sale.status \in {"CANCELLED", "RETURNED"} => sale.back[l] = Sold[l]

\* The sale and its invoice are not both taken back: no more comes back than was sold.
BackAtMostSold ==
    marks \cap {"together", "again", "cut", "both", "split", "relisted"} = {} =>
        \A l \in Lines : sale.back[l] + invoice.back[l] <= Sold[l]

\* Goods that come back, by a return, a returned sale or a cancelled one, are in the stock
\* once.
RestockedOnce == RestockedAsReturned /\ SaleBackOnce /\ BackAtMostSold

\* A register has one open session.
OneOpenSession == "raced" \notin marks => Cardinality(Open) <= 1

\* A session is closed once, and the report it was closed with tells all its sales and
\* movements, but for calls that had found it open before it was closed.
ClosedReportStays ==
    "beside" \notin marks => \A s \in Sessions :
        /\ drawer[s].closings <= 1
        /\ drawer[s].status = "CLOSED" => drawer[s].counted = Theoretical(s)
=============================================================================
