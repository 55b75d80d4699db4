--------------------------- MODULE Counter_proofs ---------------------------
(***************************************************************************)
(* Proofs about Counter, for any numbers of calls, sessions and lines, any *)
(* total, amounts and requests to return goods: the state is well typed;   *)
(* an invoice agrees with its payments and its returns with what was sold; *)
(* a register has one open session, and the report it was closed with      *)
(* stays true; the goods that come back are in the stock once (BackInv).   *)
(***************************************************************************)
EXTENDS Counter, Sums

(***************************************************************************)
(* What a step may change.                                                 *)
(***************************************************************************)

\* What has happened is not forgotten.
LEMMA MarksGrow ==
    ASSUME [Next]_vars
    PROVE  marks \subseteq marks'
<1> DEFINE Goal == marks \subseteq marks'
<1>1. ASSUME UNCHANGED vars
      PROVE  Goal
  BY <1>1 DEF vars
<1>2. ASSUME NEW c \in Calls, SellCall(c)
      PROVE  Goal
  BY <1>2 DEF SellCall, Sell, SellWrite, Mark
<1>3. ASSUME NEW c \in Calls, Cut(c)
      PROVE  Goal
  BY <1>3 DEF Cut, Mark
<1>4. ASSUME NEW c \in Calls, DrawerCall(c)
      PROVE  Goal
  BY <1>4 DEF DrawerCall, OpenSession, OpenSessionWrite, Close, CloseWrite, Move, MoveWrite,
              Mark
<1>5. ASSUME NEW c \in Calls, SaleCall(c)
      PROVE  Goal
  BY <1>5 DEF SaleCall, CancelSale, CancelSaleWrite, ReturnSale, ReturnSaleWrite,
              ReturnSaleLine, Mark
<1>6. ASSUME NEW c \in Calls, InvoiceCall(c)
      PROVE  Goal
  BY <1>6 DEF InvoiceCall, CreateInvoice, EditInvoice, EditInvoiceWrite, VoidInvoice,
              VoidInvoiceWrite, Pay, PayWrite, PayRefused, Mark
<1>7. ASSUME NEW c \in Calls, ReturnCall(c)
      PROVE  Goal
  BY <1>7 DEF ReturnCall, ReturnGoods, ReturnGoodsWrite, ReturnGoodsRefused, RestockLine, Mark
<1> QED
  BY <1>1, <1>2, <1>3, <1>4, <1>5, <1>6, <1>7 DEF Next

\* The steps that write a session.
LEMMA DrawerSteps ==
    ASSUME [Next]_vars
    PROVE  \/ UNCHANGED drawer
           \/ \E c \in Calls, s \in Sessions : OpenSessionWrite(c, s) \/ CloseWrite(c, s)
           \/ \E c \in Calls, s \in Sessions, type \in {"IN", "OUT"} : MoveWrite(c, s, type)
           \/ \E c \in Calls, s \in Sessions \cup {None}, method \in {"CASH", "CARD"} :
                  SellWrite(c, s, method)
<1> DEFINE Goal == \/ UNCHANGED drawer
                   \/ \E c \in Calls, s \in Sessions : OpenSessionWrite(c, s) \/ CloseWrite(c, s)
                   \/ \E c \in Calls, s \in Sessions, type \in {"IN", "OUT"} : MoveWrite(c, s, type)
                   \/ \E c \in Calls, s \in Sessions \cup {None}, method \in {"CASH", "CARD"} :
                          SellWrite(c, s, method)
<1>1. ASSUME UNCHANGED vars
      PROVE  Goal
  BY <1>1 DEF vars
<1>2. ASSUME NEW c \in Calls, SellCall(c)
      PROVE  Goal
  BY <1>2 DEF SellCall, Sell
<1>3. ASSUME NEW c \in Calls, Cut(c)
      PROVE  Goal
  BY <1>3 DEF Cut
<1>4. ASSUME NEW c \in Calls, DrawerCall(c)
      PROVE  Goal
  BY <1>4 DEF DrawerCall, OpenSession, Close, Move
<1>5. ASSUME NEW c \in Calls, SaleCall(c)
      PROVE  Goal
  BY <1>5 DEF SaleCall, CancelSale, CancelSaleWrite, ReturnSale, ReturnSaleWrite, ReturnSaleLine
<1>6. ASSUME NEW c \in Calls, InvoiceCall(c)
      PROVE  Goal
  BY <1>6 DEF InvoiceCall, CreateInvoice, EditInvoice, EditInvoiceWrite, VoidInvoice,
              VoidInvoiceWrite, Pay, PayWrite, PayRefused
<1>7. ASSUME NEW c \in Calls, ReturnCall(c)
      PROVE  Goal
  BY <1>7 DEF ReturnCall, ReturnGoods, ReturnGoodsWrite, ReturnGoodsRefused, RestockLine
<1> QED
  BY <1>1, <1>2, <1>3, <1>4, <1>5, <1>6, <1>7 DEF Next

\* The steps that write the sale.
LEMMA SaleSteps ==
    ASSUME [Next]_vars
    PROVE  \/ UNCHANGED sale
           \/ \E c \in Calls, s \in Sessions \cup {None}, method \in {"CASH", "CARD"} :
                  SellWrite(c, s, method)
           \/ \E c \in Calls : CancelSaleWrite(c) \/ ReturnSaleWrite(c)
           \/ \E c \in Calls, l \in Lines : ReturnSaleLine(c, l)
<1> DEFINE Goal == \/ UNCHANGED sale
                   \/ \E c \in Calls, s \in Sessions \cup {None}, method \in {"CASH", "CARD"} :
                          SellWrite(c, s, method)
                   \/ \E c \in Calls : CancelSaleWrite(c) \/ ReturnSaleWrite(c)
                   \/ \E c \in Calls, l \in Lines : ReturnSaleLine(c, l)
<1>1. ASSUME UNCHANGED vars
      PROVE  Goal
  BY <1>1 DEF vars
<1>2. ASSUME NEW c \in Calls, SellCall(c)
      PROVE  Goal
  BY <1>2 DEF SellCall, Sell
<1>3. ASSUME NEW c \in Calls, Cut(c)
      PROVE  Goal
  BY <1>3 DEF Cut
<1>4. ASSUME NEW c \in Calls, DrawerCall(c)
      PROVE  Goal
  BY <1>4 DEF DrawerCall, OpenSession, OpenSessionWrite, Close, CloseWrite, Move, MoveWrite
<1>5. ASSUME NEW c \in Calls, SaleCall(c)
      PROVE  Goal
  BY <1>5 DEF SaleCall, CancelSale, ReturnSale
<1>6. ASSUME NEW c \in Calls, InvoiceCall(c)
      PROVE  Goal
  BY <1>6 DEF InvoiceCall, CreateInvoice, EditInvoice, EditInvoiceWrite, VoidInvoice,
              VoidInvoiceWrite, Pay, PayWrite, PayRefused
<1>7. ASSUME NEW c \in Calls, ReturnCall(c)
      PROVE  Goal
  BY <1>7 DEF ReturnCall, ReturnGoods, ReturnGoodsWrite, ReturnGoodsRefused, RestockLine
<1> QED
  BY <1>1, <1>2, <1>3, <1>4, <1>5, <1>6, <1>7 DEF Next

\* The steps that write the invoice.
LEMMA InvoiceSteps ==
    ASSUME [Next]_vars
    PROVE  \/ UNCHANGED invoice
           \/ CreateInvoice
           \/ \E c \in Calls, s \in Sessions \cup {None}, method \in {"CASH", "CARD"} :
                  SellWrite(c, s, method)
           \/ \E c \in Calls : EditInvoiceWrite(c) \/ VoidInvoiceWrite(c)
           \/ \E c \in Calls, amount \in Amounts : PayWrite(c, amount)
           \/ \E c \in Calls, goods \in Returns : ReturnGoodsWrite(c, goods)
           \/ \E c \in Calls, l \in Lines, i \in {"first", "second"} : RestockLine(c, l, i)
<1> DEFINE Goal == \/ UNCHANGED invoice
                   \/ CreateInvoice
                   \/ \E c \in Calls, s \in Sessions \cup {None}, method \in {"CASH", "CARD"} :
                          SellWrite(c, s, method)
                   \/ \E c \in Calls : EditInvoiceWrite(c) \/ VoidInvoiceWrite(c)
                   \/ \E c \in Calls, amount \in Amounts : PayWrite(c, amount)
                   \/ \E c \in Calls, goods \in Returns : ReturnGoodsWrite(c, goods)
                   \/ \E c \in Calls, l \in Lines, i \in {"first", "second"} : RestockLine(c, l, i)
<1>1. ASSUME UNCHANGED vars
      PROVE  Goal
  BY <1>1 DEF vars
<1>2. ASSUME NEW c \in Calls, SellCall(c)
      PROVE  Goal
  BY <1>2 DEF SellCall, Sell
<1>3. ASSUME NEW c \in Calls, Cut(c)
      PROVE  Goal
  BY <1>3 DEF Cut
<1>4. ASSUME NEW c \in Calls, DrawerCall(c)
      PROVE  Goal
  BY <1>4 DEF DrawerCall, OpenSession, OpenSessionWrite, Close, CloseWrite, Move, MoveWrite
<1>5. ASSUME NEW c \in Calls, SaleCall(c)
      PROVE  Goal
  BY <1>5 DEF SaleCall, CancelSale, CancelSaleWrite, ReturnSale, ReturnSaleWrite, ReturnSaleLine
<1>6. ASSUME NEW c \in Calls, InvoiceCall(c)
      PROVE  Goal
  BY <1>6 DEF InvoiceCall, EditInvoice, VoidInvoice, Pay, PayRefused
<1>7. ASSUME NEW c \in Calls, ReturnCall(c)
      PROVE  Goal
  BY <1>7 DEF ReturnCall, ReturnGoods, ReturnGoodsRefused
<1> QED
  BY <1>1, <1>2, <1>3, <1>4, <1>5, <1>6, <1>7 DEF Next

(***************************************************************************)
(* Type correctness.                                                       *)
(***************************************************************************)

LEMMA MarksTyped ==
    ASSUME TypeOK, [Next]_vars
    PROVE  marks' \subseteq Marks
<1> DEFINE Goal == marks' \subseteq Marks
<1>1. ASSUME UNCHANGED vars
      PROVE  Goal
  BY <1>1 DEF vars, TypeOK
<1>2. ASSUME NEW c \in Calls, SellCall(c)
      PROVE  Goal
  BY <1>2 DEF SellCall, Sell, SellWrite, Mark, Marks, TypeOK
<1>3. ASSUME NEW c \in Calls, Cut(c)
      PROVE  Goal
  BY <1>3 DEF Cut, Mark, Marks, TypeOK
<1>4. ASSUME NEW c \in Calls, DrawerCall(c)
      PROVE  Goal
  BY <1>4 DEF DrawerCall, OpenSession, OpenSessionWrite, Close, CloseWrite, Move, MoveWrite,
              Mark, Marks, TypeOK
<1>5. ASSUME NEW c \in Calls, SaleCall(c)
      PROVE  Goal
  BY <1>5 DEF SaleCall, CancelSale, CancelSaleWrite, ReturnSale, ReturnSaleWrite,
              ReturnSaleLine, Mark, Marks, TypeOK, TakenBack
<1>6. ASSUME NEW c \in Calls, InvoiceCall(c)
      PROVE  Goal
  BY <1>6 DEF InvoiceCall, CreateInvoice, EditInvoice, EditInvoiceWrite, VoidInvoice,
              VoidInvoiceWrite, Pay, PayWrite, PayRefused, Mark, Marks, TypeOK
<1>7. ASSUME NEW c \in Calls, ReturnCall(c)
      PROVE  Goal
  BY <1>7 DEF ReturnCall, ReturnGoods, ReturnGoodsWrite, ReturnGoodsRefused, RestockLine, Mark,
              Marks, TypeOK
<1> QED
  BY <1>1, <1>2, <1>3, <1>4, <1>5, <1>6, <1>7 DEF Next

LEMMA DrawerTyped ==
    ASSUME ConstantsAssumption, TypeOK, [Next]_vars
    PROVE  drawer' \in [Sessions -> Session]
<1>1. ASSUME NEW c \in Calls, NEW s \in Sessions, OpenSessionWrite(c, s)
      PROVE  drawer' \in [Sessions -> Session]
  BY <1>1 DEF OpenSessionWrite, TypeOK, Session
<1>2. ASSUME NEW c \in Calls, NEW s \in Sessions, CloseWrite(c, s)
      PROVE  drawer' \in [Sessions -> Session]
  <2>1. call[c][3] \in Int
    BY <1>2 DEF CloseWrite, TypeOK, Requests, Idle
  <2> DEFINE row == [drawer[s] EXCEPT !.status = "CLOSED", !.counted = call[c][3],
                                      !.closings = @ + 1]
  <2>2. drawer' = [drawer EXCEPT ![s] = row] /\ drawer \in [Sessions -> Session]
    BY <1>2 DEF CloseWrite, TypeOK
  <2>3. row \in Session
    <3>1. drawer[s] \in Session /\ drawer[s].closings + 1 \in Nat
      BY <2>2 DEF Session
    <3> QED
      BY <2>1, <3>1 DEF Session
  <2> HIDE DEF row
  <2> QED
    BY <2>2, <2>3
<1>3. ASSUME NEW c \in Calls, NEW s \in Sessions, NEW type \in {"IN", "OUT"}, MoveWrite(c, s, type)
      PROVE  drawer' \in [Sessions -> Session]
  BY <1>3 DEF MoveWrite, TypeOK, Session
<1>4. ASSUME NEW c \in Calls, NEW s \in Sessions \cup {None}, NEW method \in {"CASH", "CARD"},
             SellWrite(c, s, method)
      PROVE  drawer' \in [Sessions -> Session]
  <2>1. Total \in Nat
    BY DEF ConstantsAssumption
  <2>2. ASSUME NEW row \in Session
        PROVE  RungUp(row, method) \in Session
    <3>1. /\ row.cash \in Nat /\ row.cash + Total \in Nat /\ row.card \in Nat
          /\ row.card + Total \in Nat /\ row.in + Total \in Nat
      BY <2>1 DEF Session
    <3>2. CASE method = "CASH"
      BY <3>1, <3>2 DEF RungUp, Session
    <3>3. CASE method = "CARD"
      BY <3>1, <3>3 DEF RungUp, Session
    <3> QED
      BY <3>2, <3>3
  <2> QED
    BY <1>4, <2>2 DEF SellWrite, TypeOK
<1> QED
  BY DrawerSteps, <1>1, <1>2, <1>3, <1>4 DEF TypeOK

LEMMA SaleTyped ==
    ASSUME ConstantsAssumption, TypeOK, [Next]_vars
    PROVE  sale' \in Sale
<1>1. ASSUME NEW l \in Lines
      PROVE  Sold[l] \in Nat
  BY DEF ConstantsAssumption
<1>2. ASSUME NEW c \in Calls, NEW s \in Sessions \cup {None}, NEW method \in {"CASH", "CARD"},
             SellWrite(c, s, method)
      PROVE  sale' \in Sale
  BY <1>2 DEF SellWrite, TypeOK, Sale
<1>3. ASSUME NEW c \in Calls, CancelSaleWrite(c)
      PROVE  sale' \in Sale
  BY <1>1, <1>3 DEF CancelSaleWrite, TypeOK, Sale
<1>4. ASSUME NEW c \in Calls, ReturnSaleWrite(c)
      PROVE  sale' \in Sale
  BY <1>4 DEF ReturnSaleWrite, TypeOK, Sale
<1>5. ASSUME NEW c \in Calls, NEW l \in Lines, ReturnSaleLine(c, l)
      PROVE  sale' \in Sale
  BY <1>1, <1>5 DEF ReturnSaleLine, TypeOK, Sale
<1> QED
  BY SaleSteps, <1>2, <1>3, <1>4, <1>5 DEF TypeOK

LEMMA UnitsTyped ==
    ASSUME ConstantsAssumption, NEW goods \in Returns, NEW l \in Lines
    PROVE  /\ goods[l].first \in Nat /\ goods[l].second \in Nat
           /\ Units(goods, l) = goods[l].first + goods[l].second
           /\ \A i \in {"first", "second"} : goods[l][i] \in Nat
  BY DEF ConstantsAssumption, Units

\* A call that puts goods back holds the rows of a request.
LEMMA RestockCall ==
    ASSUME TypeOK, NEW c \in Calls, call[c][1] = "restock"
    PROVE  /\ call[c] = <<"restock", call[c][2], call[c][3]>>
           /\ call[c][2] \in Returns
           /\ call[c][3] \in RowSets
<1>1. call[c][2] \in Returns
  BY DEF TypeOK, Requests, Idle
<1>2. call[c][3] \in RowSets
  BY DEF TypeOK, Requests, Idle
<1>3. call[c] = <<call[c][1], call[c][2], call[c][3]>>
  BY DEF TypeOK, Requests, Idle
<1> QED
  BY <1>1, <1>2, <1>3

LEMMA InvoiceTyped ==
    ASSUME ConstantsAssumption, TypeOK, [Next]_vars
    PROVE  invoice' \in Invoice
<1>0. invoice \in Invoice /\ NoInvoice \in Invoice /\ NoUnits \in [Lines -> Nat]
  BY DEF TypeOK, Invoice, InvoiceStatuses, NoInvoice, NoUnits, ConstantsAssumption
<1> USE <1>0 DEF Invoice, InvoiceStatuses
<1>1. CASE CreateInvoice
  BY <1>1 DEF CreateInvoice
<1>2. ASSUME NEW c \in Calls, NEW s \in Sessions \cup {None}, NEW method \in {"CASH", "CARD"},
             SellWrite(c, s, method)
      PROVE  invoice' \in Invoice
  BY <1>2 DEF SellWrite, ConstantsAssumption
<1>3. ASSUME NEW c \in Calls, EditInvoiceWrite(c)
      PROVE  invoice' \in Invoice
  <2>1. invoice.edits + 1 \in 0 .. MaxEdits
    BY <1>3 DEF EditInvoiceWrite, ConstantsAssumption
  <2> QED
    BY <1>3, <2>1 DEF EditInvoiceWrite
<1>4. ASSUME NEW c \in Calls, VoidInvoiceWrite(c)
      PROVE  invoice' \in Invoice
  BY <1>4 DEF VoidInvoiceWrite
<1>5. ASSUME NEW c \in Calls, NEW amount \in Amounts, PayWrite(c, amount)
      PROVE  invoice' \in Invoice
  <2>1. invoice.paid + amount \in Nat /\ invoice.payments + amount \in Nat
    BY DEF ConstantsAssumption
  <2>2. invoice' = Paid(amount)
    BY <1>5 DEF PayWrite
  <2>3. CASE invoice.paid + amount >= Total
    BY <2>1, <2>2, <2>3 DEF Paid
  <2>4. CASE ~(invoice.paid + amount >= Total)
    BY <2>1, <2>2, <2>4 DEF Paid
  <2> QED
    BY <2>3, <2>4
<1>6. ASSUME NEW c \in Calls, NEW goods \in Returns, ReturnGoodsWrite(c, goods)
      PROVE  invoice' \in Invoice
  <2>1. \A f \in [Lines -> Nat] : [l \in Lines |-> f[l] + Units(goods, l)] \in [Lines -> Nat]
    BY UnitsTyped
  <2> QED
    BY <1>6, <2>1 DEF ReturnGoodsWrite
<1>7. ASSUME NEW c \in Calls, NEW l \in Lines, NEW i \in {"first", "second"}, RestockLine(c, l, i)
      PROVE  invoice' \in Invoice
  <2>1. call[c][2][l][i] \in Nat
    BY <1>7, RestockCall, UnitsTyped DEF RestockLine
  <2> DEFINE b == [invoice.back EXCEPT ![l] = invoice.back[l] + call[c][2][l][i]]
  <2>2. b \in [Lines -> Nat]
    BY <2>1
  <2>3. invoice' = [invoice EXCEPT !.back = b]
    BY <1>7 DEF RestockLine
  <2> HIDE DEF b
  <2> QED
    BY <2>2, <2>3
<1> QED
  BY InvoiceSteps, <1>1, <1>2, <1>3, <1>4, <1>5, <1>6, <1>7

\* What a call may have read.
LEMMA RequestForms ==
    /\ Idle \in Requests /\ <<"open">> \in Requests /\ <<"edit">> \in Requests
    /\ <<"void">> \in Requests /\ <<"cancel">> \in Requests
    /\ \A s \in Sessions \cup {None}, method \in {"CASH", "CARD"} :
           <<"sell", s, method>> \in Requests
    /\ \A s \in Sessions, type \in {"IN", "OUT"} : <<"move", s, type>> \in Requests
    /\ \A s \in Sessions, n \in Int : <<"close", s, n>> \in Requests
    /\ \A amount \in Amounts : <<"pay", amount>> \in Requests
    /\ \A goods \in Returns, n \in 0 .. MaxEdits : <<"return", goods, n>> \in Requests
    /\ \A goods \in Returns, rows \in RowSets : <<"restock", goods, rows>> \in Requests
    /\ \A lines \in SUBSET Lines : <<"giveback", lines>> \in Requests
  BY DEF Requests, Idle

LEMMA CallTyped ==
    ASSUME ConstantsAssumption, TypeOK, [Next]_vars
    PROVE  call' \in [Calls -> Requests]
<1> DEFINE Goal == call' \in [Calls -> Requests]
<1>0. /\ call \in [Calls -> Requests] /\ drawer \in [Sessions -> Session]
      /\ invoice.edits \in 0 .. MaxEdits
  BY DEF TypeOK, Invoice
<1>1. ASSUME UNCHANGED vars
      PROVE  Goal
  BY <1>0, <1>1 DEF vars
<1>2. ASSUME NEW c \in Calls, SellCall(c)
      PROVE  Goal
  <2>1. PICK s \in Sessions \cup {None}, method \in {"CASH", "CARD"} :
            Sell(c, s, method) \/ SellWrite(c, s, method)
    BY <1>2 DEF SellCall
  <2>2. <<"sell", s, method>> \in Requests /\ Idle \in Requests
    BY RequestForms
  <2> QED
    BY <1>0, <2>1, <2>2 DEF Sell, SellWrite, Start, Return
<1>3. ASSUME NEW c \in Calls, Cut(c)
      PROVE  Goal
  BY <1>0, <1>3, RequestForms DEF Cut, Return
<1>4. ASSUME NEW c \in Calls, DrawerCall(c)
      PROVE  Goal
  <2>1. \A s \in Sessions : Theoretical(s) \in Int
    BY <1>0 DEF Theoretical, Session
  <2>2. ASSUME NEW s \in Sessions,
               OpenSessionWrite(c, s) \/ Close(c, s) \/ CloseWrite(c, s)
        PROVE  Goal
    <3>1. <<"close", s, Theoretical(s)>> \in Requests /\ Idle \in Requests
      BY <2>1, RequestForms
    <3> QED
      BY <1>0, <2>2, <3>1 DEF OpenSessionWrite, Close, CloseWrite, Start, Return
  <2>3. ASSUME NEW s \in Sessions, NEW type \in {"IN", "OUT"},
               Move(c, s, type) \/ MoveWrite(c, s, type)
        PROVE  Goal
    <3>1. <<"move", s, type>> \in Requests /\ Idle \in Requests
      BY RequestForms
    <3> QED
      BY <1>0, <2>3, <3>1 DEF Move, MoveWrite, Start, Return
  <2>4. OpenSession(c) => Goal
    BY <1>0, RequestForms DEF OpenSession, Start
  <2> QED
    BY <1>4, <2>2, <2>3, <2>4 DEF DrawerCall
<1>5. ASSUME NEW c \in Calls, SaleCall(c)
      PROVE  Goal
  <2>1. ASSUME NEW l \in Lines, ReturnSaleLine(c, l)
        PROVE  Goal
    <3>1. call[c][2] \in SUBSET Lines
      BY <1>0, <2>1 DEF ReturnSaleLine, Requests, Idle
    <3>2. call' = [call EXCEPT ![c] = <<"giveback", call[c][2] \ {l}>>]
      BY <2>1 DEF ReturnSaleLine
    <3>3. <<"giveback", call[c][2] \ {l}>> \in Requests
      BY <3>1, RequestForms
    <3> QED
      BY <1>0, <3>2, <3>3
  <2>2. Lines \in SUBSET Lines
    OBVIOUS
  <2> QED
    BY <1>0, <1>5, <2>1, <2>2, RequestForms DEF SaleCall, CancelSale, CancelSaleWrite,
       ReturnSale, ReturnSaleWrite, Start, Return
<1>6. ASSUME NEW c \in Calls, InvoiceCall(c)
      PROVE  Goal
  BY <1>0, <1>6, RequestForms DEF InvoiceCall, CreateInvoice, EditInvoice, EditInvoiceWrite,
     VoidInvoice, VoidInvoiceWrite, Pay, PayWrite, PayRefused, Start, Return
<1>7. ASSUME NEW c \in Calls, ReturnCall(c)
      PROVE  Goal
  <2>1. ASSUME NEW l \in Lines, NEW i \in {"first", "second"}, RestockLine(c, l, i)
        PROVE  Goal
    <3>1. call[c][2] \in Returns /\ call[c][3] \in RowSets
      BY <2>1, RestockCall DEF RestockLine
    <3>2. call[c][3] \ {<<l, i>>} \in RowSets
      BY <3>1 DEF RowSets
    <3>3. <<"restock", call[c][2], call[c][3] \ {<<l, i>>}>> \in Requests /\ Idle \in Requests
      BY <3>1, <3>2, RequestForms
    <3>4. call' = [call EXCEPT ![c] = IF call[c][3] = {<<l, i>>} THEN Idle
                       ELSE <<"restock", call[c][2], call[c][3] \ {<<l, i>>}>>]
      BY <2>1 DEF RestockLine
    <3> QED
      BY <1>0, <3>3, <3>4
  <2>2. ASSUME NEW goods \in Returns, ReturnGoodsWrite(c, goods)
        PROVE  Goal
    <3>1. Rows(goods) \in RowSets
      BY DEF Rows, RowSets
    <3>2. <<"restock", goods, Rows(goods)>> \in Requests
      BY <3>1, RequestForms
    <3> QED
      BY <1>0, <2>2, <3>2 DEF ReturnGoodsWrite
  <2> QED
    BY <1>0, <1>7, <2>1, <2>2, RequestForms DEF ReturnCall, ReturnGoods, ReturnGoodsRefused,
       Start, Return
<1> QED
  BY <1>1, <1>2, <1>3, <1>4, <1>5, <1>6, <1>7 DEF Next

LEMMA InitTyped ==
    ASSUME ConstantsAssumption, Init
    PROVE  TypeOK
<1>1. NoUnits \in [Lines -> Nat] /\ MaxEdits \in Nat
  BY DEF NoUnits, ConstantsAssumption
<1>2. drawer \in [Sessions -> Session]
  BY DEF Init, Session
<1>3. sale \in Sale /\ invoice \in Invoice
  BY <1>1 DEF Init, Sale, Invoice, InvoiceStatuses, NoInvoice
<1> QED
  BY <1>2, <1>3, RequestForms DEF Init, TypeOK

(***************************************************************************)
(* The sessions of the register.                                           *)
(***************************************************************************)

\* A call that opens or closes a session was that before, or has just looked.
LEMMA CallSteps ==
    ASSUME TypeOK, [Next]_vars, NEW b \in Calls
    PROVE  \/ call'[b] = call[b]
           \/ OpenSession(b)
           \/ \E s \in Sessions : Close(b, s)
           \/ \E s \in Sessions, type \in {"IN", "OUT"} : Move(b, s, type)
           \/ \E s \in Sessions \cup {None}, method \in {"CASH", "CARD"} : Sell(b, s, method)
           \/ call'[b][1] \notin {"open", "close", "move", "sell"}
<1> DEFINE Goal == \/ call'[b] = call[b]
                   \/ OpenSession(b)
                   \/ \E s \in Sessions : Close(b, s)
                   \/ \E s \in Sessions, type \in {"IN", "OUT"} : Move(b, s, type)
                   \/ \E s \in Sessions \cup {None}, method \in {"CASH", "CARD"} :
                          Sell(b, s, method)
                   \/ call'[b][1] \notin {"open", "close", "move", "sell"}
<1>0. call \in [Calls -> Requests]
  BY DEF TypeOK
<1>1. ASSUME UNCHANGED vars
      PROVE  Goal
  BY <1>1 DEF vars
<1>2. ASSUME NEW c \in Calls, NEW s \in Sessions \cup {None}, NEW method \in {"CASH", "CARD"},
             Sell(c, s, method) \/ SellWrite(c, s, method)
      PROVE  Goal
  <2>1. CASE b = c /\ Sell(c, s, method)
    BY <2>1
  <2>2. CASE b # c \/ SellWrite(c, s, method)
    BY <1>0, <1>2, <2>2 DEF Sell, SellWrite, Start, Return, Idle
  <2> QED
    BY <1>2, <2>1, <2>2
<1>3. ASSUME NEW c \in Calls, Cut(c)
      PROVE  Goal
  BY <1>0, <1>3 DEF Cut, Return, Idle
<1>4. ASSUME NEW c \in Calls, DrawerCall(c)
      PROVE  Goal
  <2>1. CASE b # c
    BY <1>0, <1>4, <2>1 DEF DrawerCall, OpenSession, OpenSessionWrite, Close, CloseWrite, Move,
       MoveWrite, Start, Return, Idle
  <2>2. CASE b = c
    <3>1. ASSUME NEW s \in Sessions, OpenSessionWrite(c, s) \/ CloseWrite(c, s)
          PROVE  Goal
      <4>1. call' = [call EXCEPT ![c] = <<"idle">>]
        BY <3>1 DEF OpenSessionWrite, CloseWrite, Return, Idle
      <4> QED
        BY <1>0, <2>2, <4>1
    <3>2. ASSUME NEW s \in Sessions, NEW type \in {"IN", "OUT"},
                 Move(c, s, type) \/ MoveWrite(c, s, type)
          PROVE  Goal
      <4>1. CASE MoveWrite(c, s, type)
        BY <1>0, <2>2, <4>1 DEF MoveWrite, Return, Idle
      <4> QED
        BY <2>2, <3>2, <4>1
    <3> QED
      BY <1>4, <2>2, <3>1, <3>2 DEF DrawerCall
  <2> QED
    BY <2>1, <2>2
<1>5. ASSUME NEW c \in Calls, SaleCall(c)
      PROVE  Goal
  BY <1>0, <1>5 DEF SaleCall, CancelSale, CancelSaleWrite, ReturnSale, ReturnSaleWrite,
     ReturnSaleLine, Start, Return, Idle
<1>6. ASSUME NEW c \in Calls, InvoiceCall(c)
      PROVE  Goal
  BY <1>0, <1>6 DEF InvoiceCall, CreateInvoice, EditInvoice, EditInvoiceWrite, VoidInvoice,
     VoidInvoiceWrite, Pay, PayWrite, PayRefused, Start, Return, Idle
<1>7. ASSUME NEW c \in Calls, ReturnCall(c)
      PROVE  Goal
  <2>1. CASE b # c
    BY <1>0, <1>7, <2>1 DEF ReturnCall, ReturnGoods, ReturnGoodsWrite, ReturnGoodsRefused,
       RestockLine, Start, Return
  <2>2. ASSUME b = c, NEW goods \in Returns,
               \/ ReturnGoods(c, goods)
               \/ ReturnGoodsWrite(c, goods)
               \/ ReturnGoodsRefused(c, goods)
        PROVE  Goal
    <3>1. \/ call'[b] = <<"return", goods, invoice.edits>>
          \/ call'[b] = <<"restock", goods, Rows(goods)>>
          \/ call'[b] = <<"idle">>
      BY <1>0, <2>2 DEF ReturnGoods, ReturnGoodsWrite, ReturnGoodsRefused, Start, Return, Idle
    <3> QED
      BY <3>1
  <2>3. ASSUME b = c, NEW l \in Lines, NEW i \in {"first", "second"}, RestockLine(c, l, i)
        PROVE  Goal
    <3>1. \/ call'[b] = <<"restock", call[b][2], call[b][3] \ {<<l, i>>}>>
          \/ call'[b] = <<"idle">>
      BY <1>0, <2>3 DEF RestockLine, Idle
    <3> QED
      BY <3>1
  <2> QED
    BY <1>7, <2>1, <2>2, <2>3 DEF ReturnCall
<1> HIDE DEF Goal
<1>8. Goal
  BY <1>1, <1>2, <1>3, <1>4, <1>5, <1>6, <1>7 DEF Next, SellCall
<1> QED
  BY <1>8 DEF Goal

\* Once a call has found no open session, none opens but by a race.
OpenInv ==
    "raced" \notin marks =>
        /\ \A s, t \in Open : s = t
        /\ \A c \in Calls : call[c] = <<"open">> => Open = {}

\* What calls have found of a session, what a closing call has read, and what the session was
\* closed with, stays true.
UsedInv == \A c \in Calls, s \in Sessions : Uses(c, s) => s \in Open

ClosedInv ==
    \A s \in Sessions :
        /\ drawer[s].closings = IF drawer[s].status = "CLOSED" THEN 1 ELSE 0
        /\ drawer[s].status = "CLOSED" => drawer[s].counted = Theoretical(s)

ReadInv ==
    \A c \in Calls, s \in Sessions :
        call[c][1] = "close" /\ call[c][2] = s => call[c][3] = Theoretical(s)

ReportInv == "beside" \notin marks => UsedInv /\ ClosedInv /\ ReadInv

\* Movements and sales leave the status of the sessions alone.
LEMMA StatusSteps ==
    ASSUME ConstantsAssumption, TypeOK, [Next]_vars
    PROVE  \/ \A s \in Sessions : drawer'[s].status = drawer[s].status
           \/ \E c \in Calls, s \in Sessions : OpenSessionWrite(c, s) \/ CloseWrite(c, s)
<1> DEFINE Same == \A s \in Sessions : drawer'[s].status = drawer[s].status
<1>0. drawer \in [Sessions -> Session]
  BY DEF TypeOK
<1>1. ASSUME NEW c \in Calls, NEW s \in Sessions, NEW type \in {"IN", "OUT"}, MoveWrite(c, s, type)
      PROVE  Same
  BY <1>0, <1>1 DEF MoveWrite, Session
<1>2. ASSUME NEW c \in Calls, NEW s \in Sessions \cup {None}, NEW method \in {"CASH", "CARD"},
             SellWrite(c, s, method)
      PROVE  Same
  BY <1>0, <1>2 DEF SellWrite, RungUp, Session
<1> QED
  BY DrawerSteps, <1>1, <1>2

LEMMA OpenKept ==
    ASSUME ConstantsAssumption, TypeOK, [Next]_vars, OpenInv
    PROVE  OpenInv'
<1> SUFFICES ASSUME "raced" \notin marks'
             PROVE  /\ \A s, t \in Open' : s = t
                    /\ \A c \in Calls : call'[c] = <<"open">> => Open' = {}
  BY DEF OpenInv
<1>0. /\ "raced" \notin marks
      /\ \A s, t \in Open : s = t
      /\ \A c \in Calls : call[c] = <<"open">> => Open = {}
      /\ drawer \in [Sessions -> Session] /\ call \in [Calls -> Requests]
  BY MarksGrow DEF OpenInv, TypeOK
<1>1. ASSUME NEW c \in Calls, call'[c] = <<"open">>
      PROVE  Open = {}
  <2>1. call[c] = <<"open">> \/ OpenSession(c)
    <3>1. ASSUME NEW s \in Sessions, Close(c, s)
          PROVE  FALSE
      BY <1>0, <1>1, <3>1 DEF Close, Start
    <3>2. ASSUME NEW s \in Sessions, NEW type \in {"IN", "OUT"}, Move(c, s, type)
          PROVE  FALSE
      BY <1>0, <1>1, <3>2 DEF Move, Start
    <3>3. ASSUME NEW s \in Sessions \cup {None}, NEW method \in {"CASH", "CARD"},
                 Sell(c, s, method)
          PROVE  FALSE
      BY <1>0, <1>1, <3>3 DEF Sell, Start
    <3> QED
      BY CallSteps, <1>1, <3>1, <3>2, <3>3
  <2> QED
    BY <1>0, <2>1 DEF OpenSession
<1>2. CASE \A s \in Sessions : drawer'[s].status = drawer[s].status
  <2>1. Open' = Open
    BY <1>2 DEF Open
  <2> QED
    BY <1>0, <1>1, <2>1
<1>3. ASSUME NEW c \in Calls, NEW s \in Sessions, OpenSessionWrite(c, s)
      PROVE  /\ \A t, u \in Open' : t = u
             /\ \A b \in Calls : call'[b] = <<"open">> => Open' = {}
  <2>1. \A b \in Calls \ {c} : call[b] # <<"open">>
    BY <1>3 DEF OpenSessionWrite, Mark
  <2>2. Open = {} /\ call' = [call EXCEPT ![c] = Idle]
    BY <1>0, <1>3 DEF OpenSessionWrite, Return
  <2>3. Open' \subseteq {s}
    BY <1>0, <1>3, <2>2 DEF OpenSessionWrite, Open, Session
  <2>4. \A b \in Calls : call'[b] # <<"open">>
    BY <1>0, <2>1, <2>2 DEF Idle
  <2> QED
    BY <2>3, <2>4
<1>4. ASSUME NEW c \in Calls, NEW s \in Sessions, CloseWrite(c, s)
      PROVE  /\ \A t, u \in Open' : t = u
             /\ \A b \in Calls : call'[b] = <<"open">> => Open' = {}
  <2>1. Open' \subseteq Open
    BY <1>0, <1>4 DEF CloseWrite, Open, Session
  <2> QED
    BY <1>0, <1>1, <2>1
<1> QED
  BY StatusSteps, <1>2, <1>3, <1>4

\* A call that will write to a session has just found it open, or had before.
LEMMA UseSteps ==
    ASSUME ConstantsAssumption, TypeOK, [Next]_vars, NEW c \in Calls, NEW s \in Sessions,
           Uses(c, s)'
    PROVE  \/ call'[c] = call[c] /\ Uses(c, s)
           \/ /\ s \in Open /\ drawer' = drawer
              /\ call'[c][1] = "close" => call'[c][3] = Theoretical(s)
<1>0. call \in [Calls -> Requests] /\ call'[c][1] \in {"sell", "move", "close"} /\ call'[c][2] = s
  BY DEF TypeOK, Uses
<1>1. CASE call'[c] = call[c]
  BY <1>0, <1>1 DEF Uses
<1>2. CASE OpenSession(c)
  BY <1>0, <1>2 DEF OpenSession, Start
<1>3. ASSUME NEW t \in Sessions, Close(c, t)
      PROVE  /\ s \in Open /\ drawer' = drawer
             /\ call'[c][1] = "close" => call'[c][3] = Theoretical(s)
  <2>1. call'[c] = <<"close", t, Theoretical(t)>> /\ drawer' = drawer /\ t \in Open
    BY <1>0, <1>3 DEF Close, Start
  <2> QED
    BY <1>0, <2>1
<1>4. ASSUME NEW t \in Sessions, NEW type \in {"IN", "OUT"}, Move(c, t, type)
      PROVE  s \in Open /\ drawer' = drawer /\ call'[c][1] # "close"
  <2>1. call'[c] = <<"move", t, type>> /\ drawer' = drawer /\ t \in Open
    BY <1>0, <1>4 DEF Move, Start
  <2> QED
    BY <1>0, <2>1
<1>5. ASSUME NEW t \in Sessions \cup {None}, NEW method \in {"CASH", "CARD"}, Sell(c, t, method)
      PROVE  s \in Open /\ drawer' = drawer /\ call'[c][1] # "close"
  <2>1. call'[c] = <<"sell", t, method>> /\ drawer' = drawer /\ (t # None => t \in Open)
    BY <1>0, <1>5 DEF Sell, Start
  <2> QED
    BY <1>0, <2>1 DEF ConstantsAssumption
<1> QED
  BY CallSteps, <1>0, <1>1, <1>2, <1>3, <1>4, <1>5

\* How the session that a step writes is changed.
LEMMA SessionSteps ==
    ASSUME ConstantsAssumption, TypeOK, [Next]_vars, NEW s \in Sessions, drawer'[s] # drawer[s]
    PROVE  \/ /\ drawer[s].status = "NONE" /\ drawer'[s].status = "OPEN"
              /\ drawer'[s].closings = drawer[s].closings
              /\ Theoretical(s)' = Theoretical(s)
           \/ /\ drawer'[s].status = drawer[s].status
              /\ drawer'[s].closings = drawer[s].closings
              /\ "beside" \notin marks' => ~Closing(s)
              /\ \E c \in Calls : Uses(c, s)
           \/ \E c \in Calls : CloseWrite(c, s)
<1> DEFINE Goal == \/ /\ drawer[s].status = "NONE" /\ drawer'[s].status = "OPEN"
                      /\ drawer'[s].closings = drawer[s].closings
                      /\ Theoretical(s)' = Theoretical(s)
                   \/ /\ drawer'[s].status = drawer[s].status
                      /\ drawer'[s].closings = drawer[s].closings
                      /\ "beside" \notin marks' => ~Closing(s)
                      /\ \E c \in Calls : Uses(c, s)
                   \/ \E c \in Calls : CloseWrite(c, s)
<1>0. drawer \in [Sessions -> Session]
  BY DEF TypeOK
<1>1. ASSUME NEW c \in Calls, NEW t \in Sessions, OpenSessionWrite(c, t)
      PROVE  Goal
  <2>1. s = t
    BY <1>0, <1>1 DEF OpenSessionWrite
  <2>2. /\ drawer[s].status = "NONE" /\ drawer'[s].status = "OPEN"
        /\ drawer'[s].closings = drawer[s].closings /\ drawer'[s].cash = drawer[s].cash
        /\ drawer'[s].in = drawer[s].in /\ drawer'[s].out = drawer[s].out
    BY <1>0, <1>1, <2>1 DEF OpenSessionWrite, Session
  <2> QED
    BY <2>2 DEF Theoretical
<1>2. ASSUME NEW c \in Calls, NEW t \in Sessions, CloseWrite(c, t)
      PROVE  Goal
  <2>1. s = t
    BY <1>0, <1>2 DEF CloseWrite
  <2> QED
    BY <1>2, <2>1
<1>3. ASSUME NEW c \in Calls, NEW t \in Sessions, NEW type \in {"IN", "OUT"}, MoveWrite(c, t, type)
      PROVE  Goal
  <2>1. s = t
    BY <1>0, <1>3 DEF MoveWrite
  <2>2. /\ drawer'[s].status = drawer[s].status /\ drawer'[s].closings = drawer[s].closings
    BY <1>0, <1>3 DEF MoveWrite, Session
  <2>3. Uses(c, s) /\ ("beside" \notin marks' => ~Closing(s))
    BY <1>3, <2>1 DEF MoveWrite, Uses, Mark
  <2> QED
    BY <2>2, <2>3
<1>4. ASSUME NEW c \in Calls, NEW t \in Sessions \cup {None}, NEW method \in {"CASH", "CARD"},
             SellWrite(c, t, method)
      PROVE  Goal
  <2>1. s = t
    BY <1>0, <1>4 DEF SellWrite
  <2>2. /\ drawer'[s].status = drawer[s].status /\ drawer'[s].closings = drawer[s].closings
    BY <1>0, <1>4 DEF SellWrite, RungUp, Session
  <2>3. Uses(c, s) /\ ("beside" \notin marks' => ~Closing(s))
    BY <1>4, <2>1 DEF SellWrite, Uses, Mark
  <2> QED
    BY <2>2, <2>3
<1> HIDE DEF Goal
<1>5. Goal
  BY DrawerSteps, <1>1, <1>2, <1>3, <1>4
<1> QED
  BY <1>5 DEF Goal

\* What closing a session writes, when no other call uses it.
LEMMA ClosedFields ==
    ASSUME TypeOK, NEW c \in Calls, NEW s \in Sessions, CloseWrite(c, s), "beside" \notin marks'
    PROVE  /\ drawer'[s].status = "CLOSED" /\ drawer'[s].counted = call[c][3]
           /\ drawer'[s].closings = drawer[s].closings + 1
           /\ Theoretical(s)' = Theoretical(s)
           /\ Uses(c, s) /\ call[c][1] = "close" /\ call[c][2] = s
           /\ \A b \in Calls : b # c => ~Uses(b, s)
           /\ call'[c] = Idle
<1>0. drawer \in [Sessions -> Session] /\ call \in [Calls -> Requests]
  BY DEF TypeOK
<1>1. /\ drawer'[s].status = "CLOSED" /\ drawer'[s].counted = call[c][3]
      /\ drawer'[s].closings = drawer[s].closings + 1
      /\ drawer'[s].cash = drawer[s].cash /\ drawer'[s].in = drawer[s].in
      /\ drawer'[s].out = drawer[s].out
  BY <1>0 DEF CloseWrite, Session
<1>2. /\ call[c][1] = "close" /\ call[c][2] = s /\ call'[c] = Idle
      /\ \A b \in Calls : b # c => ~Uses(b, s)
  BY <1>0 DEF CloseWrite, Return, Mark
<1> QED
  BY <1>1, <1>2 DEF Theoretical, Uses

LEMMA ReportKept ==
    ASSUME ConstantsAssumption, TypeOK, [Next]_vars, ReportInv
    PROVE  ReportInv'
<1> SUFFICES ASSUME "beside" \notin marks'
             PROVE  UsedInv' /\ ClosedInv' /\ ReadInv'
  BY DEF ReportInv
<1>0. UsedInv /\ ClosedInv /\ ReadInv /\ drawer \in [Sessions -> Session]
  BY MarksGrow DEF ReportInv, TypeOK
<1>1. ASSUME NEW c \in Calls, NEW s \in Sessions, Uses(c, s)'
      PROVE  s \in Open'
  <2>1. s \in Open
    BY <1>0, <1>1, UseSteps DEF UsedInv
  <2>2. ASSUME NEW b \in Calls, CloseWrite(b, s)
        PROVE  FALSE
    <3>1. (\A d \in Calls : d # b => ~Uses(d, s)) /\ call'[b] = Idle /\ drawer'[s].status = "CLOSED"
      BY <2>2, ClosedFields
    <3>2. c # b
      BY <1>1, <3>1 DEF Uses, Idle
    <3>3. drawer' = drawer
      BY <1>1, <3>1, <3>2, UseSteps
    <3> QED
      BY <2>1, <3>1, <3>3 DEF Open
  <2> QED
    BY <2>1, <2>2, SessionSteps DEF Open
<1>2. ASSUME NEW s \in Sessions
      PROVE  /\ drawer'[s].closings = IF drawer'[s].status = "CLOSED" THEN 1 ELSE 0
             /\ drawer'[s].status = "CLOSED" => drawer'[s].counted = Theoretical(s)'
  <2>1. CASE drawer'[s] = drawer[s]
    BY <1>0, <2>1 DEF ClosedInv, Theoretical
  <2>2. CASE /\ drawer[s].status = "NONE" /\ drawer'[s].status = "OPEN"
             /\ drawer'[s].closings = drawer[s].closings
    BY <1>0, <2>2 DEF ClosedInv
  <2>3. CASE /\ drawer'[s].status = drawer[s].status
             /\ drawer'[s].closings = drawer[s].closings
             /\ \E c \in Calls : Uses(c, s)
    <3>1. s \in Open
      BY <1>0, <2>3 DEF UsedInv
    <3> QED
      BY <1>0, <2>3, <3>1 DEF ClosedInv, Open
  <2>4. ASSUME NEW c \in Calls, CloseWrite(c, s)
        PROVE  /\ drawer'[s].closings = 1 /\ drawer'[s].status = "CLOSED"
               /\ drawer'[s].counted = Theoretical(s)'
    <3>1. s \in Open /\ call[c][3] = Theoretical(s)
      BY <1>0, <2>4, ClosedFields DEF UsedInv, ReadInv
    <3>2. drawer[s].closings = 0
      BY <1>0, <3>1 DEF ClosedInv, Open
    <3> QED
      BY <2>4, <3>1, <3>2, ClosedFields
  <2> QED
    BY <2>1, <2>2, <2>3, <2>4, SessionSteps
<1>3. ASSUME NEW c \in Calls, NEW s \in Sessions, call'[c][1] = "close", call'[c][2] = s
      PROVE  call'[c][3] = Theoretical(s)'
  <2>0. Uses(c, s)'
    BY <1>3 DEF Uses
  <2>1. CASE drawer' = drawer /\ call'[c][3] = Theoretical(s)
    BY <2>1 DEF Theoretical
  <2>2. CASE call'[c] = call[c] /\ Uses(c, s)
    <3>1. call[c][1] = "close" /\ call[c][2] = s /\ call[c][3] = Theoretical(s) /\ Closing(s)
      BY <1>0, <1>3, <2>2 DEF ReadInv, Closing, UsedInv
    <3>2. ASSUME NEW b \in Calls, CloseWrite(b, s)
          PROVE  FALSE
      BY <1>1, <2>0, <3>2, ClosedFields DEF Open
    <3>3. CASE drawer'[s] = drawer[s]
      BY <2>2, <3>1, <3>3 DEF Theoretical
    <3> QED
      BY <2>2, <3>1, <3>2, <3>3, SessionSteps
  <2> QED
    BY <1>3, <2>0, <2>1, <2>2, UseSteps
<1>4. UsedInv' /\ ReadInv'
  BY <1>1, <1>3 DEF UsedInv, ReadInv
<1>5. ClosedInv'
  BY <1>2 DEF ClosedInv
<1> QED
  BY <1>4, <1>5

(***************************************************************************)
(* The invoice.                                                            *)
(***************************************************************************)

\* What the agreement of the invoice with its payments and its returns rests on.
InvoiceInv ==
    /\ InvoiceAgrees
    /\ ReturnsFitSale
    /\ invoice.status = "RETURNED" => invoice.taken # NoUnits
    /\ \A l \in Lines : invoice.returned[l] <= invoice.taken[l]
    /\ "relisted" \notin marks => invoice.returned = invoice.taken

\* The fields a payment writes.
LEMMA PaidFields ==
    ASSUME ConstantsAssumption, TypeOK, NEW amount \in Amounts, invoice' = Paid(amount)
    PROVE  /\ invoice'.paid = invoice.paid + amount
           /\ invoice'.payments = invoice.payments + amount
           /\ invoice'.status = IF invoice.paid + amount >= Total THEN "PAID"
                                                                  ELSE "PARTIALLY_PAID"
           /\ invoice'.returned = invoice.returned /\ invoice'.taken = invoice.taken
           /\ amount \in Nat \ {0} /\ Total \in Nat /\ invoice.paid \in Nat
           /\ invoice.payments \in Nat
  BY DEF Paid, TypeOK, Invoice, ConstantsAssumption

\* The fields a return writes.
LEMMA ReturnFields ==
    ASSUME ConstantsAssumption, TypeOK, NEW c \in Calls, NEW goods \in Returns,
           ReturnGoodsWrite(c, goods)
    PROVE  /\ invoice'.paid = invoice.paid /\ invoice'.payments = invoice.payments
           /\ invoice'.status = IF IsFullyReturned(goods) THEN "RETURNED" ELSE invoice.status
           /\ invoice'.returned = [l \in Lines |-> invoice.returned[l] + Units(goods, l)]
           /\ invoice'.taken = [l \in Lines |-> invoice.taken[l] + Units(goods, l)]
  BY DEF ReturnGoodsWrite, TypeOK, Invoice

\* A return that completes the invoice takes something back.
LEMMA ReturnTakes ==
    ASSUME ConstantsAssumption, TypeOK, InvoiceInv, NEW goods \in Returns, IsFullyReturned(goods)
    PROVE  \E l \in Lines : invoice.taken[l] + Units(goods, l) > 0
<1>1. PICK l \in Lines : TRUE
  BY DEF ConstantsAssumption
<1>2. invoice.returned[l] + goods[l].first >= Sold[l] /\ Sold[l] \in Nat \ {0}
  BY DEF IsFullyReturned, ConstantsAssumption
<1>3. /\ invoice.returned[l] \in Nat /\ invoice.taken[l] \in Nat
      /\ invoice.returned[l] <= invoice.taken[l]
  BY DEF TypeOK, Invoice, InvoiceInv
<1>4. /\ goods[l].first \in Nat /\ goods[l].second \in Nat
      /\ Units(goods, l) = goods[l].first + goods[l].second
  BY UnitsTyped
<1> QED
  BY <1>2, <1>3, <1>4

LEMMA InvoiceKept ==
    ASSUME ConstantsAssumption, TypeOK, [Next]_vars, InvoiceInv
    PROVE  InvoiceInv'
<1>0. /\ Total \in Nat \ {0} /\ NoUnits \in [Lines -> Nat]
      /\ invoice.paid \in Nat /\ invoice.payments \in Nat
      /\ invoice.returned \in [Lines -> Nat] /\ invoice.taken \in [Lines -> Nat]
      /\ Sold \in [Lines -> Nat] /\ invoice.status \in InvoiceStatuses
      /\ marks \subseteq marks'
  BY MarksGrow DEF TypeOK, Invoice, NoUnits, ConstantsAssumption
<1>1. CASE UNCHANGED invoice
  BY <1>0, <1>1 DEF InvoiceInv, InvoiceAgrees, PaymentsMatch, StatusMatchesPaid, ReturnsFitSale,
     ReturnedAtMostSold, ReturnedIsWhole, NotOvertaken
<1>2. ASSUME invoice'.paid = invoice'.payments, invoice'.returned = NoUnits,
             invoice'.taken = NoUnits,
             \/ invoice'.status = "SENT" /\ invoice'.paid = 0
             \/ invoice'.status = "PAID" /\ invoice'.paid = Total
      PROVE  InvoiceInv'
  BY <1>0, <1>2 DEF InvoiceInv, InvoiceAgrees, PaymentsMatch, StatusMatchesPaid, ReturnsFitSale,
     ReturnedAtMostSold, ReturnedIsWhole, NoUnits
<1>3. CASE CreateInvoice
  BY <1>2, <1>3 DEF CreateInvoice, NoInvoice
<1>4. ASSUME NEW c \in Calls, NEW s \in Sessions \cup {None}, NEW method \in {"CASH", "CARD"},
             SellWrite(c, s, method)
      PROVE  InvoiceInv'
  BY <1>2, <1>4 DEF SellWrite, NoInvoice
<1>5. ASSUME NEW c \in Calls, EditInvoiceWrite(c)
      PROVE  InvoiceInv'
  <2>1. /\ invoice'.paid = 0 /\ invoice'.payments = invoice.payments
        /\ invoice'.status = invoice.status
        /\ invoice'.returned = NoUnits /\ invoice'.taken = invoice.taken
        /\ "overtaken" \notin marks' => invoice.status = "SENT"
        /\ "relisted" \notin marks' => invoice.taken = NoUnits
    BY <1>5 DEF EditInvoiceWrite, TypeOK, Invoice
  <2>2. PaymentsMatch' /\ StatusMatchesPaid'
    BY <1>0, <2>1 DEF InvoiceInv, InvoiceAgrees, PaymentsMatch, StatusMatchesPaid, NotOvertaken
  <2>3. ReturnedAtMostSold' /\ ReturnedIsWhole'
    BY <1>0, <2>1 DEF InvoiceInv, ReturnsFitSale, ReturnedAtMostSold, ReturnedIsWhole
  <2>4. \A l \in Lines : NoUnits[l] <= invoice.taken[l]
    BY <1>0 DEF NoUnits
  <2> QED
    BY <2>1, <2>2, <2>3, <2>4 DEF InvoiceInv, InvoiceAgrees, ReturnsFitSale
<1>6. ASSUME NEW c \in Calls, VoidInvoiceWrite(c)
      PROVE  InvoiceInv'
  <2>1. /\ invoice'.paid = invoice.paid /\ invoice'.payments = invoice.payments
        /\ invoice'.status = "CANCELLED"
        /\ invoice'.returned = invoice.returned /\ invoice'.taken = invoice.taken
        /\ "overtaken" \notin marks' => invoice.status \notin {"NONE", "PAID"}
    BY <1>6 DEF VoidInvoiceWrite, TypeOK, Invoice, Mark, Voidable
  <2>2. PaymentsMatch' /\ StatusMatchesPaid'
    BY <1>0, <2>1 DEF InvoiceInv, InvoiceAgrees, PaymentsMatch, StatusMatchesPaid, NotOvertaken,
       InvoiceStatuses
  <2>3. ReturnedAtMostSold' /\ ReturnedIsWhole'
    BY <1>0, <2>1 DEF InvoiceInv, ReturnsFitSale, ReturnedAtMostSold, ReturnedIsWhole
  <2> QED
    BY <1>0, <2>1, <2>2, <2>3 DEF InvoiceInv, InvoiceAgrees, ReturnsFitSale
<1>7. ASSUME NEW c \in Calls, NEW amount \in Amounts, PayWrite(c, amount)
      PROVE  InvoiceInv'
  <2>1. invoice' = Paid(amount) /\ invoice.paid + amount <= Total
    <3>1. amount \in Nat
      BY DEF ConstantsAssumption
    <3> QED
      BY <1>0, <1>7, <3>1 DEF PayWrite, Balance
  <2>2. PaymentsMatch' /\ StatusMatchesPaid'
    <3>1. NotOvertaken' => NotOvertaken
      BY <1>0 DEF NotOvertaken
    <3>2. CASE invoice.paid + amount >= Total
      <4>1. /\ invoice'.paid = invoice.paid + amount
            /\ invoice'.payments = invoice.payments + amount
            /\ invoice'.status = "PAID"
        BY <2>1, <3>2, PaidFields
      <4>2. invoice'.paid = Total
        BY <2>1, <3>2, <4>1, PaidFields
      <4>3. PaymentsMatch'
        BY <1>0, <3>1, <4>1, <4>2 DEF InvoiceInv, InvoiceAgrees, PaymentsMatch
      <4>4. StatusMatchesPaid'
        BY <4>1, <4>2 DEF StatusMatchesPaid
      <4> QED
        BY <4>3, <4>4
    <3>3. CASE ~(invoice.paid + amount >= Total)
      BY <1>0, <2>1, <3>1, <3>3, PaidFields DEF InvoiceInv, InvoiceAgrees, PaymentsMatch,
         StatusMatchesPaid
    <3> QED
      BY <3>2, <3>3
  <2>3. invoice'.status # "RETURNED"
    BY <2>1, PaidFields
  <2>4. ReturnedAtMostSold' /\ ReturnedIsWhole'
    BY <1>0, <2>1, <2>3, PaidFields DEF InvoiceInv, ReturnsFitSale, ReturnedAtMostSold,
       ReturnedIsWhole
  <2> QED
    BY <1>0, <2>1, <2>2, <2>3, <2>4, PaidFields DEF InvoiceInv, InvoiceAgrees, ReturnsFitSale
<1>8. ASSUME NEW c \in Calls, NEW goods \in Returns, ReturnGoodsWrite(c, goods)
      PROVE  InvoiceInv'
  <2>1. /\ invoice'.paid = invoice.paid /\ invoice'.payments = invoice.payments
        /\ invoice'.status = IF IsFullyReturned(goods) THEN "RETURNED" ELSE invoice.status
        /\ \A l \in Lines : /\ invoice'.returned[l] = invoice.returned[l] + Units(goods, l)
                            /\ invoice'.taken[l] = invoice.taken[l] + Units(goods, l)
    <3>1. /\ invoice'.returned = [l \in Lines |-> invoice.returned[l] + Units(goods, l)]
          /\ invoice'.taken = [l \in Lines |-> invoice.taken[l] + Units(goods, l)]
      BY <1>8, ReturnFields
    <3>2. /\ invoice'.paid = invoice.paid /\ invoice'.payments = invoice.payments
          /\ invoice'.status = IF IsFullyReturned(goods) THEN "RETURNED" ELSE invoice.status
      BY <1>8, ReturnFields
    <3> QED
      BY <3>1, <3>2
  <2>2. /\ "overtaken" \notin marks' => invoice.status # "CANCELLED"
        /\ "split" \notin marks' => \A l \in Lines : goods[l].second <= 0
    BY <1>8, UnitsTyped DEF ReturnGoodsWrite
  <2>3. \A l \in Lines : /\ goods[l].first \in Nat /\ goods[l].second \in Nat
                        /\ Units(goods, l) = goods[l].first + goods[l].second
                        /\ Units(goods, l) \in Nat
    BY UnitsTyped
  <2>4. PaymentsMatch' /\ StatusMatchesPaid'
    BY <1>0, <2>1, <2>2 DEF InvoiceInv, InvoiceAgrees, PaymentsMatch, StatusMatchesPaid,
       NotOvertaken
  <2>5. ReturnedAtMostSold'
    <3>1. SUFFICES ASSUME marks' \cap {"split", "relisted"} = {}, NEW l \in Lines
                   PROVE  invoice.taken[l] + Units(goods, l) <= Sold[l]
      BY <2>1 DEF ReturnedAtMostSold
    <3>2. invoice.returned = invoice.taken /\ goods[l].second <= 0
      BY <1>0, <2>2, <3>1 DEF InvoiceInv
    <3>3. goods[l].first <= Sold[l] - invoice.returned[l]
      BY <1>8 DEF ReturnGoodsWrite, Returnables
    <3>4. invoice.taken[l] \in Nat /\ Sold[l] \in Nat
      BY <1>0
    <3> QED
      BY <2>3, <3>2, <3>3, <3>4
  <2>6. ReturnedIsWhole'
    <3>1. SUFFICES ASSUME invoice'.status = "RETURNED", "relisted" \notin marks', NEW l \in Lines
                   PROVE  invoice.returned[l] + Units(goods, l) >= Sold[l]
      BY <2>1 DEF ReturnedIsWhole
    <3>2. invoice.returned[l] \in Nat /\ Sold[l] \in Nat
      BY <1>0
    <3>3. CASE IsFullyReturned(goods)
      BY <2>3, <3>2, <3>3 DEF IsFullyReturned
    <3>4. CASE ~IsFullyReturned(goods)
      <4>1. invoice.returned[l] >= Sold[l]
        BY <1>0, <2>1, <3>1, <3>4 DEF InvoiceInv, ReturnsFitSale, ReturnedIsWhole
      <4> QED
        BY <2>3, <3>2, <4>1
    <3> QED
      BY <3>3, <3>4
  <2>7. invoice'.status = "RETURNED" => invoice'.taken # NoUnits
    <3>1. SUFFICES ASSUME invoice'.status = "RETURNED"
                   PROVE  \E l \in Lines : invoice.taken[l] + Units(goods, l) > 0
      BY <2>1 DEF NoUnits
    <3>2. CASE ~IsFullyReturned(goods)
      <4>1. invoice.taken # NoUnits
        BY <2>1, <3>1, <3>2 DEF InvoiceInv
      <4>2. \E l \in Lines : invoice.taken[l] # 0
        BY <1>0, <4>1 DEF NoUnits
      <4> QED
        BY <1>0, <2>3, <4>2
    <3> QED
      BY <3>2, ReturnTakes
  <2>8. \A l \in Lines : invoice'.returned[l] <= invoice'.taken[l]
    BY <1>0, <2>1, <2>3 DEF InvoiceInv
  <2>9. "relisted" \notin marks' => invoice'.returned = invoice'.taken
    BY <1>0, <1>8, ReturnFields DEF InvoiceInv
  <2> QED
    BY <2>4, <2>5, <2>6, <2>7, <2>8, <2>9 DEF InvoiceInv, InvoiceAgrees, ReturnsFitSale
<1>9. ASSUME NEW c \in Calls, NEW l \in Lines, NEW i \in {"first", "second"}, RestockLine(c, l, i)
      PROVE  InvoiceInv'
  <2>1. /\ invoice'.paid = invoice.paid /\ invoice'.payments = invoice.payments
        /\ invoice'.status = invoice.status
        /\ invoice'.returned = invoice.returned /\ invoice'.taken = invoice.taken
    BY <1>9 DEF RestockLine, TypeOK, Invoice
  <2> QED
    BY <1>0, <2>1 DEF InvoiceInv, InvoiceAgrees, PaymentsMatch, StatusMatchesPaid, ReturnsFitSale,
       ReturnedAtMostSold, ReturnedIsWhole, NotOvertaken
<1> QED
  BY InvoiceSteps, <1>1, <1>3, <1>4, <1>5, <1>6, <1>7, <1>8, <1>9

(***************************************************************************)
(* The theorems.                                                           *)
(***************************************************************************)

\* The inductive invariant: the types, what opening and closing calls have read, and the
\* invoice with the units its returns took.
Inv == TypeOK /\ OpenInv /\ ReportInv /\ InvoiceInv

\* The inductive invariant holds of every reachable state.
THEOREM InvCorrect == Spec => []Inv
<1>1. ConstantsAssumption
  BY ConstantsAssumption
<1>2. Init => Inv
  <2> SUFFICES ASSUME Init
               PROVE  Inv
    OBVIOUS
  <2>1. TypeOK
    BY <1>1, InitTyped
  <2>2. OpenInv /\ ReportInv
    BY DEF Init, OpenInv, ReportInv, UsedInv, ClosedInv, ReadInv, Uses, Open, Idle
  <2>3. InvoiceInv
    BY <1>1 DEF Init, InvoiceInv, InvoiceAgrees, PaymentsMatch, StatusMatchesPaid, ReturnsFitSale,
       ReturnedAtMostSold, ReturnedIsWhole, NoInvoice, NoUnits, ConstantsAssumption
  <2> QED
    BY <2>1, <2>2, <2>3 DEF Inv
<1>3. Inv /\ [Next]_vars => Inv'
  <2> SUFFICES ASSUME Inv, [Next]_vars
               PROVE  Inv'
    OBVIOUS
  <2>1. TypeOK'
    <3>1. scene' \in Scenes
      BY DEF Inv, TypeOK, Next, vars
    <3> QED
      BY <1>1, <3>1, DrawerTyped, SaleTyped, InvoiceTyped, CallTyped, MarksTyped DEF Inv, TypeOK
  <2> QED
    BY <1>1, <2>1, OpenKept, ReportKept, InvoiceKept DEF Inv
<1> QED
  BY <1>2, <1>3, PTL DEF Spec

\* Every row and every call has the type its operations count on, at all times.
THEOREM TypeCorrect == Spec => []TypeOK
<1>1. Inv => TypeOK
  BY DEF Inv
<1> QED
  BY <1>1, InvCorrect, PTL

\* An invoice agrees with its payments: none is lost, none is taken beyond the total, and
\* its status says how much was paid, in any order of payments, changes and cancellations.
THEOREM InvoiceAgreesCorrect == Spec => []InvoiceAgrees
<1>1. Inv => InvoiceAgrees
  BY DEF Inv, InvoiceInv
<1> QED
  BY <1>1, InvCorrect, PTL

\* Returns of an invoice come to no more than it sold, and RETURNED means all of it.
THEOREM ReturnsFitSaleCorrect == Spec => []ReturnsFitSale
<1>1. Inv => ReturnsFitSale
  BY DEF Inv, InvoiceInv
<1> QED
  BY <1>1, InvCorrect, PTL

\* A register never has two open sessions unless two openings raced.
THEOREM OneOpenSessionCorrect == Spec => []OneOpenSession
<1>1. Inv => OneOpenSession
  <2> SUFFICES ASSUME Inv, "raced" \notin marks
               PROVE  Cardinality(Open) <= 1
    BY DEF OneOpenSession
  <2>1. \A s, t \in Open : s = t
    BY DEF Inv, OpenInv
  <2>2. Cardinality({}) = 0 /\ \A s \in Open : Cardinality({s}) = 1
    BY FS_EmptySet, FS_Singleton
  <2>3. Open = {} \/ \E s \in Open : Open = {s}
    BY <2>1
  <2> QED
    BY <2>2, <2>3
<1> QED
  BY <1>1, InvCorrect, PTL

\* A session is closed once and its report stays true, but for calls that had found it open
\* beside the call that closed it.
THEOREM ClosedReportStaysCorrect == Spec => []ClosedReportStays
<1>1. Inv => ClosedReportStays
  <2> SUFFICES ASSUME Inv, "beside" \notin marks, NEW s \in Sessions
               PROVE  /\ drawer[s].closings <= 1
                      /\ drawer[s].status = "CLOSED" => drawer[s].counted = Theoretical(s)
    BY DEF ClosedReportStays
  <2> QED
    BY DEF Inv, ReportInv, ClosedInv
<1> QED
  BY <1>1, InvCorrect, PTL

(***************************************************************************)
(* The goods that come back.                                               *)
(***************************************************************************)

\* Calls that put goods back, now or later.
Restorers == {"cancel", "giveback", "return", "restock"}

\* The steps of calls that bring goods back.
BackStep ==
    \E c \in Calls :
        \/ CancelSale(c) \/ CancelSaleWrite(c)
        \/ ReturnSale(c) \/ ReturnSaleWrite(c) \/ Cut(c)
        \/ \E l \in Lines : ReturnSaleLine(c, l)
        \/ \E goods \in Returns :
               ReturnGoods(c, goods) \/ ReturnGoodsWrite(c, goods)
               \/ ReturnGoodsRefused(c, goods)
        \/ \E l \in Lines, i \in {"first", "second"} : RestockLine(c, l, i)

\* No call that puts goods back begins, goes on or ends.
RestorersKept ==
    \A b \in Calls : \/ call'[b] = call[b]
                     \/ call[b][1] \notin Restorers /\ call'[b][1] \notin Restorers

\* The invoice is made, with its sale or by hand.
InvoiceMade ==
    /\ invoice.status = "NONE" /\ invoice'.status # "NONE"
    /\ invoice'.taken = NoUnits /\ invoice'.back = NoUnits
    /\ sale' = sale \/ sale' = [sale EXCEPT !.status = "COMPLETED"]

\* The goods of the sale and of the invoice stay where they are.
GoodsKept ==
    /\ sale' = sale
    /\ invoice'.taken = invoice.taken /\ invoice'.back = invoice.back
    /\ invoice'.status = "NONE" => invoice.status = "NONE"

\* Every step brings goods back or leaves them alone.
LEMMA BackSteps ==
    ASSUME TypeOK, [Next]_vars
    PROVE  BackStep \/ (RestorersKept /\ (InvoiceMade \/ GoodsKept))
<1> DEFINE Quiet == RestorersKept /\ (InvoiceMade \/ GoodsKept)
<1> USE DEF InvoiceMade, GoodsKept
<1>0. call \in [Calls -> Requests] /\ invoice \in Invoice
  BY DEF TypeOK
<1>a. ASSUME NEW c \in Calls, NEW r, call' = [call EXCEPT ![c] = r],
             call[c][1] \notin Restorers, r[1] \notin Restorers
      PROVE  RestorersKept
  BY <1>0, <1>a DEF RestorersKept
<1>b. ASSUME NEW c \in Calls, NEW r, Start(c, r), r[1] \notin Restorers
      PROVE  RestorersKept
  <2>1. call[c][1] \notin Restorers /\ call' = [call EXCEPT ![c] = r]
    BY <1>b DEF Start, Idle, Restorers
  <2> QED
    BY <1>a, <1>b, <2>1
<1>c. ASSUME NEW c \in Calls, Return(c), call[c][1] \notin Restorers
      PROVE  RestorersKept
  <2>1. call' = [call EXCEPT ![c] = Idle] /\ Idle[1] \notin Restorers
    BY <1>c DEF Return, Idle, Restorers
  <2> QED
    BY <1>a, <1>c, <2>1
<1>1. ASSUME UNCHANGED vars
      PROVE  Quiet
  BY <1>1 DEF vars, RestorersKept
<1>2. ASSUME NEW c \in Calls, SellCall(c)
      PROVE  Quiet
  <2>1. PICK s \in Sessions \cup {None}, method \in {"CASH", "CARD"} :
            Sell(c, s, method) \/ SellWrite(c, s, method)
    BY <1>2 DEF SellCall
  <2>2. CASE Sell(c, s, method)
    <3>1. <<"sell", s, method>>[1] \notin Restorers
      BY DEF Restorers
    <3> QED
      BY <2>2, <3>1, <1>b DEF Sell
  <2>3. CASE SellWrite(c, s, method)
    <3>1. call[c][1] \notin Restorers
      BY <2>3 DEF SellWrite, Restorers
    <3>2. InvoiceMade
      BY <2>3 DEF SellWrite, NoInvoice
    <3> QED
      BY <2>3, <3>1, <3>2, <1>c DEF SellWrite
  <2> QED
    BY <2>1, <2>2, <2>3
<1>3. ASSUME NEW c \in Calls, DrawerCall(c)
      PROVE  Quiet
  <2>1. sale' = sale /\ invoice' = invoice
    BY <1>3 DEF DrawerCall, OpenSession, OpenSessionWrite, Close, CloseWrite, Move, MoveWrite
  <2>2. RestorersKept
    <3>1. OpenSession(c) => RestorersKept
      BY <1>b DEF OpenSession, Restorers
    <3>2. ASSUME NEW s \in Sessions, OpenSessionWrite(c, s) \/ CloseWrite(c, s)
          PROVE  RestorersKept
      <4>1. CASE OpenSessionWrite(c, s)
        BY <4>1, <1>c DEF OpenSessionWrite, Restorers
      <4>2. CASE CloseWrite(c, s)
        BY <4>2, <1>c DEF CloseWrite, Restorers
      <4> QED
        BY <3>2, <4>1, <4>2
    <3>3. ASSUME NEW s \in Sessions, Close(c, s) PROVE RestorersKept
      <4>1. <<"close", s, Theoretical(s)>>[1] \notin Restorers
        BY DEF Restorers
      <4> QED
        BY <3>3, <4>1, <1>b DEF Close
    <3>4. ASSUME NEW s \in Sessions, NEW type \in {"IN", "OUT"}, Move(c, s, type)
          PROVE  RestorersKept
      <4>1. <<"move", s, type>>[1] \notin Restorers
        BY DEF Restorers
      <4> QED
        BY <3>4, <4>1, <1>b DEF Move
    <3>5. ASSUME NEW s \in Sessions, NEW type \in {"IN", "OUT"}, MoveWrite(c, s, type)
          PROVE  RestorersKept
      BY <3>5, <1>c DEF MoveWrite, Restorers
    <3> QED
      BY <1>3, <3>1, <3>2, <3>3, <3>4, <3>5 DEF DrawerCall
  <2> QED
    BY <2>1, <2>2
<1>4. ASSUME NEW c \in Calls, InvoiceCall(c)
      PROVE  Quiet
  <2>1. CreateInvoice => Quiet
    BY DEF CreateInvoice, NoInvoice, RestorersKept
  <2>2. EditInvoice(c) => Quiet
    BY <1>b DEF EditInvoice, Restorers
  <2>3. EditInvoiceWrite(c) => Quiet
    BY <1>0, <1>c DEF EditInvoiceWrite, Restorers, Invoice
  <2>4. VoidInvoice(c) => Quiet
    BY <1>b DEF VoidInvoice, Restorers
  <2>5. VoidInvoiceWrite(c) => Quiet
    BY <1>0, <1>c DEF VoidInvoiceWrite, Restorers, Invoice
  <2>6. ASSUME NEW amount \in Amounts, Pay(c, amount) PROVE Quiet
    <3>1. <<"pay", amount>>[1] \notin Restorers
      BY DEF Restorers
    <3> QED
      BY <2>6, <3>1, <1>b DEF Pay
  <2>7. ASSUME NEW amount \in Amounts, PayWrite(c, amount) PROVE Quiet
    <3>1. /\ invoice'.taken = invoice.taken /\ invoice'.back = invoice.back
          /\ invoice'.status # "NONE"
      BY <1>0, <2>7 DEF PayWrite, Paid, Invoice
    <3> QED
      BY <2>7, <3>1, <1>c DEF PayWrite, Restorers
  <2>8. ASSUME NEW amount \in Amounts, PayRefused(c, amount) PROVE Quiet
    BY <2>8, <1>c DEF PayRefused, Restorers
  <2> HIDE DEF Quiet
  <2> QED
    BY <1>4, <2>1, <2>2, <2>3, <2>4, <2>5, <2>6, <2>7, <2>8 DEF InvoiceCall
<1>5. ASSUME NEW c \in Calls, SaleCall(c) \/ ReturnCall(c) \/ Cut(c)
      PROVE  Quiet \/ BackStep
  BY <1>5 DEF SaleCall, ReturnCall, BackStep
<1> QED
  BY <1>1, <1>2, <1>3, <1>4, <1>5 DEF Next, Quiet

(***************************************************************************)
(* What the returns of the invoice put back.                               *)
(***************************************************************************)

\* Units of line l that the request r of a call is still to put back.
PendingUnits(r, l) == Pending(r, l, "first") + Pending(r, l, "second")

LEMMA PendingTyped ==
    ASSUME ConstantsAssumption, NEW r \in Requests, NEW l \in Lines
    PROVE  /\ Pending(r, l, "first") \in Nat /\ Pending(r, l, "second") \in Nat
           /\ PendingUnits(r, l) \in Nat
           /\ r[1] # "restock" => PendingUnits(r, l) = 0
<1>1. ASSUME NEW i \in {"first", "second"} PROVE Pending(r, l, i) \in Nat
  <2>1. r[1] = "restock" => r[2] \in Returns
    BY DEF Requests, Idle
  <2> QED
    BY <2>1, UnitsTyped DEF Pending
<1>2. \A i \in {"first", "second"} : r[1] # "restock" => Pending(r, l, i) = 0
  BY DEF Pending
<1> QED
  BY <1>1, <1>2 DEF PendingUnits

LEMMA RestockingNat ==
    ASSUME ConstantsAssumption, TypeOK, NEW l \in Lines
    PROVE  Restocking(l) \in Nat
<1> DEFINE f == [c \in Calls |-> Pending(call[c], l, "first") + Pending(call[c], l, "second")]
<1>1. \A c \in Calls : f[c] \in Nat
  BY PendingTyped DEF TypeOK
<1>2. Restocking(l) = SumFunctionOnSet(f, Calls)
  BY DEF Restocking, SumFunction
<1> HIDE DEF f
<1> QED
  BY <1>1, <1>2, FiniteAssumption, SumNat

\* What calls are about to put back changes with the request of the one that steps.
LEMMA RestockingChange ==
    ASSUME ConstantsAssumption, TypeOK, TypeOK', NEW c \in Calls, NEW l \in Lines,
           \A b \in Calls \ {c} : PendingUnits(call'[b], l) = PendingUnits(call[b], l)
    PROVE  /\ Restocking(l) \in Nat /\ Restocking(l)' \in Nat
           /\ PendingUnits(call[c], l) \in Nat /\ PendingUnits(call'[c], l) \in Nat
           /\ Restocking(l)' = Restocking(l)
                                + (PendingUnits(call'[c], l) - PendingUnits(call[c], l))
<1> DEFINE f == [b \in Calls |-> PendingUnits(call[b], l)]
           g == [b \in Calls |-> PendingUnits(call'[b], l)]
<1>1. \A b \in Calls : f[b] \in Nat /\ g[b] \in Nat
  BY PendingTyped DEF TypeOK
<1>2. \A b \in Calls \ {c} : g[b] = f[b]
  OBVIOUS
<1>3. /\ Restocking(l) = SumFunctionOnSet(f, Calls)
      /\ Restocking(l)' = SumFunctionOnSet(g, Calls)
  BY DEF Restocking, SumFunction, PendingUnits
<1>4. f[c] = PendingUnits(call[c], l) /\ g[c] = PendingUnits(call'[c], l)
  OBVIOUS
<1> HIDE DEF f, g
<1>5. SumFunctionOnSet(f, Calls) \in Nat /\ SumFunctionOnSet(g, Calls) \in Nat
  BY <1>1, FiniteAssumption, SumNat
<1>6. SumFunctionOnSet(g, Calls) = SumFunctionOnSet(f, Calls) + (g[c] - f[c])
  BY <1>1, <1>2, FiniteAssumption, SumChange
<1> QED
  BY <1>1, <1>3, <1>4, <1>5, <1>6

LEMMA RestockingSame ==
    ASSUME ConstantsAssumption, TypeOK, TypeOK', NEW l \in Lines,
           \A b \in Calls : PendingUnits(call'[b], l) = PendingUnits(call[b], l)
    PROVE  Restocking(l)' = Restocking(l)
<1> DEFINE f == [b \in Calls |-> PendingUnits(call[b], l)]
           g == [b \in Calls |-> PendingUnits(call'[b], l)]
<1>1. \A b \in Calls : f[b] = g[b]
  OBVIOUS
<1>2. /\ Restocking(l) = SumFunctionOnSet(f, Calls)
      /\ Restocking(l)' = SumFunctionOnSet(g, Calls)
  BY DEF Restocking, SumFunction, PendingUnits
<1> HIDE DEF f, g
<1> QED
  BY <1>1, <1>2, FiniteAssumption, SumSame


\* An invoice that is not there has no returns, and none is being made.
Unsold ==
    invoice.status = "NONE" =>
        /\ invoice.taken = NoUnits
        /\ \A c \in Calls : call[c][1] # "return"

\* The fields the steps of a return write.
LEMMA RestockFields ==
    ASSUME TypeOK, NEW c \in Calls, NEW l \in Lines, NEW i, RestockLine(c, l, i)
    PROVE  /\ invoice'.taken = invoice.taken /\ invoice'.status = invoice.status
           /\ call'[c] = IF call[c][3] = {<<l, i>>} THEN Idle
                         ELSE <<"restock", call[c][2], call[c][3] \ {<<l, i>>}>>
           /\ \A b \in Calls \ {c} : call'[b] = call[b]
  BY DEF RestockLine, TypeOK, Invoice

LEMMA ReturnWriteFields ==
    ASSUME TypeOK, NEW c \in Calls, NEW goods \in Returns, ReturnGoodsWrite(c, goods)
    PROVE  /\ invoice'.taken = [l \in Lines |-> invoice.taken[l] + Units(goods, l)]
           /\ invoice'.back = invoice.back
           /\ invoice'.status \in {"RETURNED", invoice.status}
           /\ call[c][1] = "return"
           /\ call' = [call EXCEPT ![c] = <<"restock", goods, Rows(goods)>>]
  BY DEF ReturnGoodsWrite, TypeOK, Invoice

LEMMA UnsoldKept ==
    ASSUME TypeOK, [Next]_vars, Unsold
    PROVE  Unsold'
<1>0. call \in [Calls -> Requests]
  BY DEF TypeOK
<1>1. CASE RestorersKept /\ (InvoiceMade \/ GoodsKept)
  BY <1>1 DEF RestorersKept, Restorers, InvoiceMade, GoodsKept, Unsold
<1>2. ASSUME NEW c \in Calls, invoice' = invoice, NEW r, r[1] # "return",
             call' = [call EXCEPT ![c] = r]
      PROVE  Unsold'
  BY <1>0, <1>2 DEF Unsold
<1>3. ASSUME NEW c \in Calls,
             \/ CancelSale(c) \/ CancelSaleWrite(c) \/ ReturnSale(c)
             \/ ReturnSaleWrite(c) \/ Cut(c)
      PROVE  Unsold'
  <2>1. <<"cancel">>[1] # "return" /\ Idle[1] # "return" /\ <<"giveback", Lines>>[1] # "return"
    BY DEF Idle
  <2>2. CASE CancelSale(c)
    BY <2>1, <2>2, <1>2 DEF CancelSale, Start
  <2>3. CASE CancelSaleWrite(c)
    BY <2>1, <2>3, <1>2 DEF CancelSaleWrite, Return
  <2>4. CASE ReturnSale(c)
    BY <2>1, <2>4, <1>2 DEF ReturnSale, Start
  <2>5. CASE ReturnSaleWrite(c)
    BY <2>1, <2>5, <1>2 DEF ReturnSaleWrite, Return
  <2>6. CASE Cut(c)
    BY <2>1, <2>6, <1>2 DEF Cut, Return
  <2> QED
    BY <1>3, <2>2, <2>3, <2>4, <2>5, <2>6
<1>4. ASSUME NEW c \in Calls, NEW l \in Lines, ReturnSaleLine(c, l)
      PROVE  Unsold'
  <2>1. call' = [call EXCEPT ![c] = <<"giveback", call[c][2] \ {l}>>] /\ invoice' = invoice
    BY <1>4 DEF ReturnSaleLine
  <2>2. <<"giveback", call[c][2] \ {l}>>[1] # "return"
    OBVIOUS
  <2> QED
    BY <2>1, <2>2, <1>2
<1>5. ASSUME NEW c \in Calls, NEW goods \in Returns, ReturnGoods(c, goods)
      PROVE  Unsold'
  BY <1>5 DEF ReturnGoods, Unsold
<1>6. ASSUME NEW c \in Calls, NEW goods \in Returns, ReturnGoodsWrite(c, goods)
      PROVE  Unsold'
  <2>1. invoice.status # "NONE"
    BY <1>6, ReturnWriteFields DEF Unsold
  <2>2. invoice'.status # "NONE"
    BY <1>6, <2>1, ReturnWriteFields
  <2> QED
    BY <2>2 DEF Unsold
<1>7. ASSUME NEW c \in Calls, NEW goods \in Returns, ReturnGoodsRefused(c, goods)
      PROVE  Unsold'
  <2>1. Idle[1] # "return"
    BY DEF Idle
  <2> QED
    BY <1>7, <2>1, <1>2 DEF ReturnGoodsRefused, Return
<1>8. ASSUME NEW c \in Calls, NEW l \in Lines, NEW i \in {"first", "second"},
             RestockLine(c, l, i)
      PROVE  Unsold'
  <2>1. call'[c][1] # "return"
    <3>1. call'[c] = IF call[c][3] = {<<l, i>>} THEN Idle
                     ELSE <<"restock", call[c][2], call[c][3] \ {<<l, i>>}>>
      BY <1>8, RestockFields
    <3>2. CASE call[c][3] = {<<l, i>>}
      BY <3>1, <3>2 DEF Idle
    <3>3. CASE call[c][3] # {<<l, i>>}
      BY <3>1, <3>3
    <3> QED
      BY <3>2, <3>3
  <2>2. /\ invoice'.taken = invoice.taken /\ invoice'.status = invoice.status
        /\ \A b \in Calls \ {c} : call'[b] = call[b]
    BY <1>8, RestockFields
  <2> QED
    BY <2>1, <2>2 DEF Unsold
<1> QED
  BY BackSteps, <1>1, <1>3, <1>4, <1>5, <1>6, <1>7, <1>8 DEF BackStep

\* A return is written: its units are on their way to the stock.
LEMMA ReturnPending ==
    ASSUME ConstantsAssumption, NEW goods \in Returns, NEW l \in Lines
    PROVE  PendingUnits(<<"restock", goods, Rows(goods)>>, l) = Units(goods, l)
<1> DEFINE r == <<"restock", goods, Rows(goods)>>
<1>1. ASSUME NEW i \in {"first", "second"}
      PROVE  Pending(r, l, i) = goods[l][i]
  <2>1. goods[l][i] \in Nat
    BY UnitsTyped
  <2>2. <<l, i>> \in Rows(goods) <=> goods[l][i] > 0
    BY DEF Rows
  <2>3. r[1] = "restock" /\ r[2] = goods /\ r[3] = Rows(goods)
    OBVIOUS
  <2> HIDE DEF r
  <2>4. Pending(r, l, i) = IF <<l, i>> \in Rows(goods) THEN goods[l][i] ELSE 0
    BY <2>3 DEF Pending
  <2> QED
    BY <2>1, <2>2, <2>4
<1>2. Pending(r, l, "first") = goods[l].first /\ Pending(r, l, "second") = goods[l].second
  BY <1>1
<1> QED
  BY <1>2 DEF PendingUnits, Units

\* A row is put back: its units, and no others, are no longer on their way.
LEMMA RestockPending ==
    ASSUME ConstantsAssumption, NEW r \in Requests, r[1] = "restock",
           NEW m \in Lines, NEW i, i \in {"first", "second"}, <<m, i>> \in r[3],
           NEW q, q = IF r[3] = {<<m, i>>} THEN Idle ELSE <<"restock", r[2], r[3] \ {<<m, i>>}>>,
           NEW l \in Lines
    PROVE  /\ l # m => PendingUnits(q, l) = PendingUnits(r, l)
           /\ l = m => PendingUnits(q, l) = PendingUnits(r, l) - r[2][m][i]
<1>1. r[2] \in Returns
  BY DEF Requests, Idle
<1>2. r[2][l].first \in Nat /\ r[2][l].second \in Nat /\ r[2][m][i] \in Nat
  BY <1>1, UnitsTyped
<1>3. ASSUME NEW j \in {"first", "second"}
      PROVE  /\ Pending(r, l, j) = IF <<l, j>> \in r[3] THEN r[2][l][j] ELSE 0
             /\ Pending(q, l, j) = IF <<l, j>> \in r[3] \ {<<m, i>>} THEN r[2][l][j] ELSE 0
  <2>1. Pending(r, l, j) = IF <<l, j>> \in r[3] THEN r[2][l][j] ELSE 0
    BY DEF Pending
  <2>2. CASE r[3] = {<<m, i>>}
    BY <2>1, <2>2 DEF Pending, Idle
  <2>3. CASE r[3] # {<<m, i>>}
    <3>1. q[1] = "restock" /\ q[2] = r[2] /\ q[3] = r[3] \ {<<m, i>>}
      BY <2>3
    <3> QED
      BY <2>1, <3>1 DEF Pending
  <2> QED
    BY <2>2, <2>3
<1>4. CASE l # m
  <2>1. \A j \in {"first", "second"} : Pending(q, l, j) = Pending(r, l, j)
    BY <1>3, <1>4
  <2>2. PendingUnits(r, l) \in Nat
    BY PendingTyped
  <2> QED
    BY <1>4, <2>1, <2>2 DEF PendingUnits
<1>5. CASE l = m /\ i = "first"
  <2>1. /\ Pending(q, l, "first") = 0 /\ Pending(r, l, "first") = r[2][m][i]
        /\ Pending(q, l, "second") = Pending(r, l, "second")
    BY <1>3, <1>5
  <2>2. Pending(r, l, "first") \in Nat /\ Pending(r, l, "second") \in Nat
    BY PendingTyped
  <2> QED
    BY <1>5, <2>1, <2>2 DEF PendingUnits
<1>6. CASE l = m /\ i = "second"
  <2>1. /\ Pending(q, l, "second") = 0 /\ Pending(r, l, "second") = r[2][m][i]
        /\ Pending(q, l, "first") = Pending(r, l, "first")
    BY <1>3, <1>6
  <2>2. Pending(r, l, "first") \in Nat /\ Pending(r, l, "second") \in Nat
    BY PendingTyped
  <2> QED
    BY <1>6, <2>1, <2>2 DEF PendingUnits
<1> QED
  BY <1>4, <1>5, <1>6

\* A step that leaves the goods of the invoice and the calls that restock alone.
LEMMA RestockQuiet ==
    ASSUME ConstantsAssumption, TypeOK, TypeOK', RestockedAsReturned, marks \subseteq marks',
           \A l \in Lines : invoice'.back[l] = invoice.back[l]
                            /\ invoice'.taken[l] = invoice.taken[l],
           \A b \in Calls : \/ call'[b] = call[b]
                            \/ call[b][1] # "restock" /\ call'[b][1] # "restock"
    PROVE  RestockedAsReturned'
<1>1. \A l \in Lines, b \in Calls : PendingUnits(call'[b], l) = PendingUnits(call[b], l)
  BY PendingTyped DEF TypeOK
<1>2. \A l \in Lines : Restocking(l)' = Restocking(l)
  BY <1>1, RestockingSame
<1> QED
  BY <1>2 DEF RestockedAsReturned

LEMMA RestockKept ==
    ASSUME ConstantsAssumption, TypeOK, TypeOK', [Next]_vars, Unsold, RestockedAsReturned
    PROVE  RestockedAsReturned'
<1>0. /\ call \in [Calls -> Requests] /\ marks \subseteq marks'
      /\ invoice.back \in [Lines -> Nat] /\ invoice.taken \in [Lines -> Nat]
  BY MarksGrow DEF TypeOK, Invoice
<1>1. CASE RestorersKept /\ GoodsKept
  BY <1>0, <1>1, RestockQuiet DEF RestorersKept, Restorers, GoodsKept
<1>2. CASE RestorersKept /\ InvoiceMade
  <2> SUFFICES ASSUME NEW l \in Lines
               PROVE  invoice'.back[l] + Restocking(l)' = invoice'.taken[l]
    BY <1>2 DEF RestockedAsReturned, InvoiceMade, NoUnits
  <2>1. \A b \in Calls : PendingUnits(call'[b], l) = PendingUnits(call[b], l)
    BY <1>2, PendingTyped DEF RestorersKept, Restorers, TypeOK
  <2>2. Restocking(l)' = Restocking(l) /\ Restocking(l) \in Nat
    BY <2>1, RestockingSame, RestockingNat
  <2>3. invoice.back[l] + Restocking(l) <= 0
    BY <1>2 DEF InvoiceMade, Unsold, NoUnits, RestockedAsReturned
  <2> QED
    BY <1>0, <1>2, <2>2, <2>3 DEF InvoiceMade, NoUnits
<1>3. ASSUME NEW c \in Calls, invoice' = invoice, call[c][1] # "restock",
             NEW r, r[1] # "restock", call' = [call EXCEPT ![c] = r]
      PROVE  RestockedAsReturned'
  BY <1>0, <1>3, RestockQuiet
<1>4. ASSUME NEW c \in Calls,
             CancelSale(c) \/ CancelSaleWrite(c) \/ ReturnSale(c) \/ ReturnSaleWrite(c)
      PROVE  RestockedAsReturned'
  <2>1. <<"cancel">>[1] # "restock" /\ Idle[1] # "restock" /\ <<"giveback", Lines>>[1] # "restock"
    BY DEF Idle
  <2>2. CASE CancelSale(c)
    BY <2>1, <2>2, <1>3 DEF CancelSale, Start
  <2>3. CASE CancelSaleWrite(c)
    BY <2>1, <2>3, <1>3 DEF CancelSaleWrite, Return
  <2>4. CASE ReturnSale(c)
    BY <2>1, <2>4, <1>3 DEF ReturnSale, Start
  <2>5. CASE ReturnSaleWrite(c)
    <3>1. call[c][1] # "restock"
      BY <2>5 DEF ReturnSaleWrite
    <3> QED
      BY <2>1, <2>5, <3>1, <1>3 DEF ReturnSaleWrite, Return
  <2> QED
    BY <1>4, <2>2, <2>3, <2>4, <2>5
<1>5. ASSUME NEW c \in Calls, NEW l \in Lines, ReturnSaleLine(c, l)
      PROVE  RestockedAsReturned'
  <2>1. /\ call' = [call EXCEPT ![c] = <<"giveback", call[c][2] \ {l}>>] /\ invoice' = invoice
        /\ call[c][1] # "restock"
    BY <1>5 DEF ReturnSaleLine
  <2>2. <<"giveback", call[c][2] \ {l}>>[1] # "restock"
    OBVIOUS
  <2> QED
    BY <2>1, <2>2, <1>3
<1>6. ASSUME NEW c \in Calls, NEW goods \in Returns,
             ReturnGoods(c, goods) \/ ReturnGoodsRefused(c, goods)
      PROVE  RestockedAsReturned'
  <2>1. <<"return", goods, invoice.edits>>[1] # "restock" /\ Idle[1] # "restock"
    BY DEF Idle
  <2>2. CASE ReturnGoods(c, goods)
    BY <2>1, <2>2, <1>3 DEF ReturnGoods, Start
  <2>3. CASE ReturnGoodsRefused(c, goods)
    BY <2>1, <2>3, <1>3 DEF ReturnGoodsRefused, Return
  <2> QED
    BY <1>6, <2>2, <2>3
<1>7. ASSUME NEW c \in Calls, NEW goods \in Returns, ReturnGoodsWrite(c, goods)
      PROVE  RestockedAsReturned'
  <2> SUFFICES ASSUME NEW l \in Lines
               PROVE  /\ invoice'.back[l] = invoice.back[l]
                      /\ invoice'.taken[l] = invoice.taken[l] + Units(goods, l)
                      /\ Restocking(l)' = Restocking(l) + Units(goods, l)
                      /\ Restocking(l) \in Nat /\ Units(goods, l) \in Nat
    BY <1>0 DEF RestockedAsReturned
  <2>w. /\ invoice'.taken = [k \in Lines |-> invoice.taken[k] + Units(goods, k)]
        /\ invoice'.back = invoice.back
        /\ call[c][1] = "return"
        /\ call' = [call EXCEPT ![c] = <<"restock", goods, Rows(goods)>>]
    BY <1>7, ReturnWriteFields
  <2>1. /\ invoice'.back[l] = invoice.back[l]
        /\ invoice'.taken[l] = invoice.taken[l] + Units(goods, l)
    BY <2>w
  <2>2. PendingUnits(call'[c], l) = Units(goods, l) /\ PendingUnits(call[c], l) = 0
    <3>1. call'[c] = <<"restock", goods, Rows(goods)>> /\ call[c][1] # "restock"
      BY <1>0, <2>w
    <3>2. PendingUnits(<<"restock", goods, Rows(goods)>>, l) = Units(goods, l)
      BY ReturnPending
    <3> QED
      BY <1>0, <3>1, <3>2, PendingTyped
  <2>3. \A b \in Calls \ {c} : call'[b] = call[b]
    BY <1>0, <2>w
  <2>4. /\ Restocking(l) \in Nat
        /\ Restocking(l)' = Restocking(l) + (PendingUnits(call'[c], l) - PendingUnits(call[c], l))
    BY <2>3, RestockingChange
  <2>5. Units(goods, l) \in Nat
    BY UnitsTyped
  <2> QED
    BY <2>1, <2>2, <2>4, <2>5
<1>8. ASSUME NEW c \in Calls, NEW m \in Lines, NEW i \in {"first", "second"},
             RestockLine(c, m, i)
      PROVE  RestockedAsReturned'
  <2> SUFFICES ASSUME NEW l \in Lines
               PROVE  /\ invoice'.back[l] + Restocking(l)' = invoice.back[l] + Restocking(l)
                      /\ invoice'.taken[l] = invoice.taken[l]
    BY <1>0 DEF RestockedAsReturned
  <2> DEFINE n == IF l = m THEN call[c][2][m][i] ELSE 0
  <2>1. /\ call[c] \in Requests /\ call[c][1] = "restock" /\ <<m, i>> \in call[c][3]
        /\ call'[c] = IF call[c][3] = {<<m, i>>} THEN Idle
                      ELSE <<"restock", call[c][2], call[c][3] \ {<<m, i>>}>>
        /\ \A b \in Calls \ {c} : call'[b] = call[b]
    BY <1>0, <1>8, RestockFields DEF RestockLine
  <2>2. call[c][2] \in Returns
    BY <2>1, RestockCall
  <2>3. n \in Nat
    BY <2>2, UnitsTyped
  <2>4. invoice'.back[l] = invoice.back[l] + n /\ invoice'.taken[l] = invoice.taken[l]
    <3>1. /\ invoice'.back[m] = invoice.back[m] + call[c][2][m][i]
          /\ \A k \in Lines \ {m} : invoice'.back[k] = invoice.back[k]
          /\ invoice'.taken = invoice.taken
      BY <1>0, <1>8 DEF RestockLine, TypeOK, Invoice
    <3>2. invoice.back[l] \in Nat
      BY <1>0
    <3> QED
      BY <1>0, <3>1, <3>2
  <2>5. PendingUnits(call'[c], l) = PendingUnits(call[c], l) - n
    <3>1. /\ l # m => PendingUnits(call'[c], l) = PendingUnits(call[c], l)
          /\ l = m => PendingUnits(call'[c], l) = PendingUnits(call[c], l) - call[c][2][m][i]
      BY <2>1, RestockPending
    <3>2. PendingUnits(call[c], l) \in Nat
      BY <2>1, PendingTyped
    <3> QED
      BY <3>1, <3>2
  <2>6. /\ Restocking(l) \in Nat /\ PendingUnits(call[c], l) \in Nat
        /\ Restocking(l)' = Restocking(l) + (PendingUnits(call'[c], l) - PendingUnits(call[c], l))
    BY <2>1, RestockingChange
  <2> HIDE DEF n
  <2> QED
    BY <1>0, <2>3, <2>4, <2>5, <2>6
<1>9. ASSUME NEW c \in Calls, Cut(c)
      PROVE  RestockedAsReturned'
  <2>1. /\ "cut" \in marks' /\ invoice' = invoice
        /\ call'[c] = Idle /\ \A b \in Calls \ {c} : call'[b] = call[b]
    BY <1>0, <1>9 DEF Cut, Return
  <2> SUFFICES ASSUME NEW l \in Lines
               PROVE  invoice.back[l] + Restocking(l)' <= invoice.taken[l]
    BY <2>1 DEF RestockedAsReturned
  <2>2. PendingUnits(call'[c], l) = 0
    BY <2>1, PendingTyped, RequestForms DEF Idle
  <2>3. /\ Restocking(l) \in Nat /\ PendingUnits(call[c], l) \in Nat
        /\ Restocking(l)' = Restocking(l) + (PendingUnits(call'[c], l) - PendingUnits(call[c], l))
    BY <2>1, RestockingChange
  <2>4. invoice.back[l] + Restocking(l) <= invoice.taken[l]
    BY DEF RestockedAsReturned
  <2> QED
    BY <1>0, <2>2, <2>3, <2>4
<1> QED
  BY BackSteps, <1>1, <1>2, <1>4, <1>5, <1>6, <1>7, <1>8, <1>9 DEF BackStep

(***************************************************************************)
(* What the cancellation and the return of the sale put back.              *)
(***************************************************************************)

\* One call at a time takes the sale back, and only a sale that was not taken back: it
\* has put back the lines it is done with, and afterwards all of them are back.
GiveInv ==
    marks \cap {"together", "again", "cut"} = {} =>
        /\ \A b, c \in Calls : Giving(b) /\ Giving(c) => b = c
        /\ \A c \in Calls : call[c][1] = "cancel" =>
               /\ sale.status = "COMPLETED"
               /\ \A l \in Lines : sale.back[l] = 0
        /\ \A c \in Calls : call[c][1] = "giveback" =>
               /\ sale.status = "COMPLETED"
               /\ \A l \in call[c][2] : sale.back[l] = 0
               /\ \A l \in Lines \ call[c][2] : sale.back[l] = Sold[l]
        /\ (\A c \in Calls : ~Giving(c)) =>
               IF sale.status \in {"CANCELLED", "RETURNED"}
               THEN \A l \in Lines : sale.back[l] = Sold[l]
               ELSE \A l \in Lines : sale.back[l] = 0

\* A sale has an invoice, and a call that takes it back has a sale.
SaleInvoiced ==
    /\ sale.status # "NONE" => invoice.status # "NONE"
    /\ \A c \in Calls : Giving(c) => sale.status # "NONE"

\* Goods of the sale are back in the stock, or goods of its invoice.
OneSide == "both" \notin marks => sale.back = NoUnits \/ invoice.taken = NoUnits

\* What the steps that take the sale back write.
LEMMA CancelSaleFields ==
    ASSUME TypeOK, NEW c \in Calls, CancelSaleWrite(c)
    PROVE  /\ call[c] = <<"cancel">> /\ call'[c] = Idle
           /\ \A b \in Calls \ {c} : call'[b] = call[b]
           /\ sale'.status = "CANCELLED" /\ invoice' = invoice
           /\ sale'.back = [l \in Lines |-> sale.back[l] + Sold[l]]
           /\ "both" \notin marks' => invoice.taken = NoUnits
  BY DEF CancelSaleWrite, Return, Mark, TypeOK

LEMMA ReturnLineFields ==
    ASSUME TypeOK, NEW c \in Calls, NEW l \in Lines, ReturnSaleLine(c, l)
    PROVE  /\ call[c][1] = "giveback" /\ call'[c] = <<"giveback", call[c][2] \ {l}>>
           /\ \A b \in Calls \ {c} : call'[b] = call[b]
           /\ sale'.status = sale.status /\ invoice' = invoice /\ l \in call[c][2]
           /\ sale'.back = [sale.back EXCEPT ![l] = sale.back[l] + Sold[l]]
           /\ "both" \notin marks' => invoice.taken = NoUnits
  BY DEF ReturnSaleLine, Mark, TypeOK, Sale

LEMMA ReturnSaleFields ==
    ASSUME TypeOK, NEW c \in Calls, ReturnSaleWrite(c)
    PROVE  /\ call[c] = <<"giveback", {}>> /\ call'[c] = Idle
           /\ \A b \in Calls \ {c} : call'[b] = call[b]
           /\ sale'.status = "RETURNED" /\ invoice' = invoice /\ sale'.back = sale.back
  BY DEF ReturnSaleWrite, Return, TypeOK, Sale

\* The steps that bring goods back and leave the sale and the calls that take it back alone.
LEMMA OtherBackSteps ==
    ASSUME TypeOK, NEW c \in Calls,
           \/ \E goods \in Returns :
                  ReturnGoods(c, goods) \/ ReturnGoodsWrite(c, goods)
                  \/ ReturnGoodsRefused(c, goods)
           \/ \E l \in Lines, i \in {"first", "second"} : RestockLine(c, l, i)
    PROVE  /\ sale' = sale
           /\ invoice'.status = "NONE" => invoice.status = "NONE"
           /\ \A b \in Calls : call'[b] = call[b] \/ (~Giving(b) /\ ~Giving(b)')
<1>0. call \in [Calls -> Requests]
  BY DEF TypeOK
<1> DEFINE Goal == /\ sale' = sale
                   /\ invoice'.status = "NONE" => invoice.status = "NONE"
                   /\ \A b \in Calls : call'[b] = call[b] \/ (~Giving(b) /\ ~Giving(b)')
<1>1. ASSUME NEW goods \in Returns, ReturnGoods(c, goods) PROVE Goal
  <2>1. call[c] = <<"idle">> /\ call'[c] = <<"return", goods, invoice.edits>>
        /\ \A b \in Calls \ {c} : call'[b] = call[b]
    BY <1>0, <1>1 DEF ReturnGoods, Start, Idle
  <2>2. ~Giving(c) /\ ~Giving(c)'
    BY <2>1 DEF Giving
  <2> QED
    BY <1>1, <2>1, <2>2 DEF ReturnGoods
<1>2. ASSUME NEW goods \in Returns, ReturnGoodsWrite(c, goods) PROVE Goal
  <2>1. /\ call[c][1] = "return" /\ call'[c] = <<"restock", goods, Rows(goods)>>
        /\ \A b \in Calls \ {c} : call'[b] = call[b]
    BY <1>0, <1>2, ReturnWriteFields
  <2>2. ~Giving(c) /\ ~Giving(c)'
    BY <2>1 DEF Giving
  <2>3. sale' = sale /\ (invoice'.status = "NONE" => invoice.status = "NONE")
    BY <1>2, ReturnWriteFields DEF ReturnGoodsWrite
  <2> QED
    BY <2>1, <2>2, <2>3
<1>3. ASSUME NEW goods \in Returns, ReturnGoodsRefused(c, goods) PROVE Goal
  <2>1. /\ call[c][1] = "return" /\ call'[c] = <<"idle">>
        /\ \A b \in Calls \ {c} : call'[b] = call[b]
    BY <1>0, <1>3 DEF ReturnGoodsRefused, Return, Idle
  <2>2. ~Giving(c) /\ ~Giving(c)'
    BY <2>1 DEF Giving
  <2> QED
    BY <1>3, <2>1, <2>2 DEF ReturnGoodsRefused
<1>4. ASSUME NEW l \in Lines, NEW i \in {"first", "second"}, RestockLine(c, l, i) PROVE Goal
  <2>1. /\ call[c][1] = "restock" /\ sale' = sale /\ invoice'.status = invoice.status
        /\ \A b \in Calls \ {c} : call'[b] = call[b]
    BY <1>4, RestockFields DEF RestockLine
  <2>2. call'[c] = <<"idle">> \/ call'[c] = <<"restock", call[c][2], call[c][3] \ {<<l, i>>}>>
    BY <1>4, RestockFields DEF Idle
  <2>3. ~Giving(c) /\ ~Giving(c)'
    BY <2>1, <2>2 DEF Giving
  <2> QED
    BY <2>1, <2>3
<1> QED
  BY <1>1, <1>2, <1>3, <1>4

LEMMA InvoicedKept ==
    ASSUME TypeOK, [Next]_vars, SaleInvoiced
    PROVE  SaleInvoiced'
<1>0. call \in [Calls -> Requests] /\ sale \in Sale
  BY DEF TypeOK
<1>1. CASE RestorersKept /\ (InvoiceMade \/ GoodsKept)
  BY <1>0, <1>1 DEF RestorersKept, Restorers, InvoiceMade, GoodsKept, SaleInvoiced, Giving, Sale
<1>2. ASSUME NEW c \in Calls, CancelSale(c) \/ ReturnSale(c)
      PROVE  SaleInvoiced'
  <2>1. /\ sale' = sale /\ invoice' = invoice /\ sale.status # "NONE"
        /\ \A b \in Calls \ {c} : call'[b] = call[b]
    BY <1>0, <1>2 DEF CancelSale, ReturnSale, Start, Returnable
  <2> QED
    BY <2>1 DEF SaleInvoiced, Giving
<1>3. ASSUME NEW c \in Calls, CancelSaleWrite(c)
      PROVE  SaleInvoiced'
  <2>1. call[c] = <<"cancel">>
    BY <1>3, CancelSaleFields
  <2>2. Giving(c)
    BY <2>1 DEF Giving
  <2> QED
    BY <1>3, <2>2, CancelSaleFields DEF SaleInvoiced
<1>4. ASSUME NEW c \in Calls, ReturnSaleWrite(c)
      PROVE  SaleInvoiced'
  <2>1. Giving(c)
    BY <1>4, ReturnSaleFields DEF Giving
  <2> QED
    BY <1>4, <2>1, ReturnSaleFields DEF SaleInvoiced
<1>5. ASSUME NEW c \in Calls, NEW l \in Lines, ReturnSaleLine(c, l)
      PROVE  SaleInvoiced'
  <2>1. Giving(c)
    BY <1>5, ReturnLineFields DEF Giving
  <2>2. sale'.status = sale.status /\ invoice' = invoice /\ sale.status # "NONE"
    BY <1>5, <2>1, ReturnLineFields DEF SaleInvoiced
  <2> QED
    BY <2>2 DEF SaleInvoiced
<1>6. ASSUME NEW c \in Calls, Cut(c)
      PROVE  SaleInvoiced'
  <2>1. /\ sale' = sale /\ invoice' = invoice /\ call'[c] = <<"idle">>
        /\ \A b \in Calls \ {c} : call'[b] = call[b]
    BY <1>0, <1>6 DEF Cut, Return, Idle
  <2>2. ~Giving(c)'
    BY <2>1 DEF Giving
  <2> QED
    BY <2>1, <2>2 DEF SaleInvoiced, Giving
<1>7. ASSUME NEW c \in Calls,
             \/ \E goods \in Returns :
                    ReturnGoods(c, goods) \/ ReturnGoodsWrite(c, goods)
                    \/ ReturnGoodsRefused(c, goods)
             \/ \E l \in Lines, i \in {"first", "second"} : RestockLine(c, l, i)
      PROVE  SaleInvoiced'
  <2>1. /\ sale' = sale
        /\ invoice'.status = "NONE" => invoice.status = "NONE"
        /\ \A b \in Calls : call'[b] = call[b] \/ (~Giving(b) /\ ~Giving(b)')
    BY <1>7, OtherBackSteps
  <2> QED
    BY <2>1 DEF SaleInvoiced, Giving
<1> QED
  BY BackSteps, <1>1, <1>2, <1>3, <1>4, <1>5, <1>6, <1>7 DEF BackStep

LEMMA OneSideKept ==
    ASSUME TypeOK, [Next]_vars, OneSide
    PROVE  OneSide'
<1>0. marks \subseteq marks' /\ call \in [Calls -> Requests]
  BY MarksGrow DEF TypeOK
<1>1. CASE RestorersKept /\ (InvoiceMade \/ GoodsKept)
  BY <1>0, <1>1 DEF InvoiceMade, GoodsKept, OneSide
<1>2. ASSUME NEW c \in Calls, CancelSale(c) \/ ReturnSale(c) \/ Cut(c)
      PROVE  OneSide'
  BY <1>0, <1>2 DEF CancelSale, ReturnSale, Cut, OneSide
<1>3. ASSUME NEW c \in Calls, CancelSaleWrite(c)
      PROVE  OneSide'
  BY <1>3, CancelSaleFields DEF OneSide
<1>4. ASSUME NEW c \in Calls, ReturnSaleWrite(c)
      PROVE  OneSide'
  BY <1>0, <1>4, ReturnSaleFields DEF OneSide
<1>5. ASSUME NEW c \in Calls, NEW l \in Lines, ReturnSaleLine(c, l)
      PROVE  OneSide'
  BY <1>5, ReturnLineFields DEF OneSide
<1>6. ASSUME NEW c \in Calls, NEW goods \in Returns, ReturnGoodsWrite(c, goods)
      PROVE  OneSide'
  <2>1. sale' = sale /\ ("both" \notin marks' => sale.back = NoUnits)
    BY <1>6 DEF ReturnGoodsWrite
  <2> QED
    BY <2>1 DEF OneSide
<1>7. ASSUME NEW c \in Calls, NEW goods \in Returns,
             ReturnGoods(c, goods) \/ ReturnGoodsRefused(c, goods)
      PROVE  OneSide'
  BY <1>0, <1>7 DEF ReturnGoods, ReturnGoodsRefused, OneSide
<1>8. ASSUME NEW c \in Calls, NEW l \in Lines, NEW i \in {"first", "second"}, RestockLine(c, l, i)
      PROVE  OneSide'
  <2>1. invoice'.taken = invoice.taken /\ sale' = sale
    BY <1>8, RestockFields DEF RestockLine
  <2> QED
    BY <1>0, <2>1 DEF OneSide
<1> QED
  BY BackSteps, <1>1, <1>2, <1>3, <1>4, <1>5, <1>6, <1>7, <1>8 DEF BackStep

\* A step that leaves the sale and the calls that take it back alone.
LEMMA GiveQuiet ==
    ASSUME GiveInv, marks \subseteq marks', sale' = sale,
           \A b \in Calls : call'[b] = call[b] \/ (~Giving(b) /\ ~Giving(b)')
    PROVE  GiveInv'
<1> SUFFICES ASSUME marks' \cap {"together", "again", "cut"} = {}
             PROVE  GiveInv'
  BY DEF GiveInv
<1>1. marks \cap {"together", "again", "cut"} = {}
  OBVIOUS
<1>2. \A b \in Calls : /\ Giving(b)' => call'[b] = call[b]
                       /\ Giving(b)' <=> Giving(b)
  BY DEF Giving
<1>3. \A b \in Calls : /\ call'[b][1] = "cancel" => call'[b] = call[b]
                       /\ call'[b][1] = "giveback" => call'[b] = call[b]
  BY <1>2 DEF Giving
<1> QED
  BY <1>1, <1>2, <1>3 DEF GiveInv

LEMMA GiveKept ==
    ASSUME ConstantsAssumption, TypeOK, [Next]_vars, SaleInvoiced, GiveInv
    PROVE  GiveInv'
<1> DEFINE Goal == GiveInv'
<1>0. /\ marks \subseteq marks' /\ call \in [Calls -> Requests] /\ sale \in Sale
      /\ sale.back \in [Lines -> Nat] /\ Sold \in [Lines -> Nat]
  BY MarksGrow DEF TypeOK, Sale, ConstantsAssumption
<1>q. ASSUME sale' = sale,
             \A b \in Calls : call'[b] = call[b] \/ (~Giving(b) /\ ~Giving(b)')
      PROVE  Goal
  BY <1>0, <1>q, GiveQuiet
<1>1. ASSUME RestorersKept /\ (InvoiceMade \/ GoodsKept)
      PROVE  Goal
  <2>1. \A b \in Calls : call'[b] = call[b] \/ (~Giving(b) /\ ~Giving(b)')
    BY <1>1 DEF RestorersKept, Restorers, Giving
  <2>2. CASE sale' = sale
    BY <2>1, <2>2, <1>q
  <2>3. CASE InvoiceMade /\ sale' = [sale EXCEPT !.status = "COMPLETED"]
    <3>1. sale.status = "NONE" /\ \A b \in Calls : ~Giving(b)
      BY <2>3 DEF InvoiceMade, SaleInvoiced
    <3>2. sale'.back = sale.back /\ sale'.status = "COMPLETED" /\ \A b \in Calls : ~Giving(b)'
      BY <1>0, <2>1, <2>3, <3>1 DEF Sale, Giving
    <3>3. \A b \in Calls : call'[b][1] \notin {"cancel", "giveback"}
      BY <3>2 DEF Giving
    <3> QED
      BY <1>0, <3>1, <3>2, <3>3 DEF GiveInv
  <2> QED
    BY <1>1, <2>2, <2>3 DEF InvoiceMade, GoodsKept
<1>2. ASSUME NEW c \in Calls, CancelSale(c) \/ ReturnSale(c)
      PROVE  Goal
  <2> SUFFICES ASSUME marks' \cap {"together", "again", "cut"} = {}
               PROVE  Goal
    BY DEF GiveInv
  <2>1. /\ \A b \in Calls : ~Giving(b)
        /\ sale.status = "COMPLETED" /\ sale' = sale
        /\ \A b \in Calls \ {c} : call'[b] = call[b]
        /\ call'[c] = <<"cancel">> \/ call'[c] = <<"giveback", Lines>>
    <3>1. CASE CancelSale(c)
      BY <1>0, <3>1 DEF CancelSale, TakenBack, Start
    <3>2. CASE ReturnSale(c)
      <4>1. sale.status = "COMPLETED"
        BY <1>0, <3>2 DEF ReturnSale, Returnable, Sale
      <4> QED
        BY <1>0, <3>2, <4>1 DEF ReturnSale, TakenBack, Start
    <3> QED
      BY <1>2, <3>1, <3>2
  <2>2. \A l \in Lines : sale.back[l] = 0
    BY <1>0, <2>1 DEF GiveInv
  <2>3. \A b \in Calls \ {c} : ~Giving(b)' /\ call'[b][1] \notin {"cancel", "giveback"}
    BY <2>1 DEF Giving
  <2>4. Giving(c)'
    BY <2>1 DEF Giving
  <2>5. call'[c][1] = "giveback" => call'[c][2] = Lines
    BY <2>1
  <2> QED
    BY <2>1, <2>2, <2>3, <2>4, <2>5 DEF GiveInv
<1>3. ASSUME NEW c \in Calls, CancelSaleWrite(c)
      PROVE  Goal
  <2> SUFFICES ASSUME marks' \cap {"together", "again", "cut"} = {}
               PROVE  Goal
    BY DEF GiveInv
  <2>1. /\ call[c] = <<"cancel">> /\ call'[c] = <<"idle">>
        /\ \A b \in Calls \ {c} : call'[b] = call[b]
        /\ sale'.status = "CANCELLED"
        /\ sale'.back = [l \in Lines |-> sale.back[l] + Sold[l]]
    BY <1>3, CancelSaleFields DEF Idle
  <2>2. call[c][1] = "cancel" /\ Giving(c)
    BY <2>1 DEF Giving
  <2>3. /\ \A l \in Lines : sale.back[l] = 0
        /\ \A b \in Calls \ {c} : ~Giving(b)
    BY <1>0, <2>2 DEF GiveInv
  <2>4. \A l \in Lines : sale'.back[l] = Sold[l]
    BY <1>0, <2>1, <2>3
  <2>5. \A b \in Calls : ~Giving(b)' /\ call'[b][1] \notin {"cancel", "giveback"}
    BY <2>1, <2>3 DEF Giving
  <2> QED
    BY <2>1, <2>4, <2>5 DEF GiveInv
<1>4. ASSUME NEW c \in Calls, ReturnSaleWrite(c)
      PROVE  Goal
  <2> SUFFICES ASSUME marks' \cap {"together", "again", "cut"} = {}
               PROVE  Goal
    BY DEF GiveInv
  <2>1. /\ call[c] = <<"giveback", {}>> /\ call'[c] = <<"idle">>
        /\ \A b \in Calls \ {c} : call'[b] = call[b]
        /\ sale'.status = "RETURNED" /\ sale'.back = sale.back
    BY <1>4, ReturnSaleFields DEF Idle
  <2>2. call[c][1] = "giveback" /\ call[c][2] = {} /\ Giving(c)
    BY <2>1 DEF Giving
  <2>3. /\ \A l \in Lines : sale.back[l] = Sold[l]
        /\ \A b \in Calls \ {c} : ~Giving(b)
    BY <1>0, <2>2 DEF GiveInv
  <2>4. \A b \in Calls : ~Giving(b)' /\ call'[b][1] \notin {"cancel", "giveback"}
    BY <2>1, <2>3 DEF Giving
  <2> QED
    BY <2>1, <2>3, <2>4 DEF GiveInv
<1>5. ASSUME NEW c \in Calls, NEW l \in Lines, ReturnSaleLine(c, l)
      PROVE  Goal
  <2> SUFFICES ASSUME marks' \cap {"together", "again", "cut"} = {}
               PROVE  Goal
    BY DEF GiveInv
  <2>1. /\ call[c][1] = "giveback" /\ call'[c] = <<"giveback", call[c][2] \ {l}>>
        /\ \A b \in Calls \ {c} : call'[b] = call[b]
        /\ sale'.status = sale.status /\ l \in call[c][2]
        /\ sale'.back = [sale.back EXCEPT ![l] = sale.back[l] + Sold[l]]
    BY <1>5, ReturnLineFields
  <2>2. Giving(c)
    BY <2>1 DEF Giving
  <2>3. /\ sale.status = "COMPLETED"
        /\ \A k \in call[c][2] : sale.back[k] = 0
        /\ \A k \in Lines \ call[c][2] : sale.back[k] = Sold[k]
        /\ \A b \in Calls \ {c} : ~Giving(b)
    BY <1>0, <2>1, <2>2 DEF GiveInv
  <2>4. call'[c][1] = "giveback" /\ call'[c][2] = call[c][2] \ {l}
    BY <2>1
  <2>5. sale'.back[l] = Sold[l] /\ \A k \in Lines \ {l} : sale'.back[k] = sale.back[k]
    BY <1>0, <2>1, <2>3
  <2>a. call[c][2] \in SUBSET Lines
    BY <1>0, <2>1 DEF Requests, Idle
  <2>6. /\ \A k \in call'[c][2] : sale'.back[k] = 0
        /\ \A k \in Lines \ call'[c][2] : sale'.back[k] = Sold[k]
    BY <2>3, <2>4, <2>5, <2>a
  <2>7. \A b \in Calls \ {c} : ~Giving(b)' /\ call'[b][1] \notin {"cancel", "giveback"}
    BY <2>1, <2>3 DEF Giving
  <2>8. Giving(c)'
    BY <2>4 DEF Giving
  <2> QED
    BY <2>1, <2>3, <2>4, <2>6, <2>7, <2>8 DEF GiveInv
<1>6. ASSUME NEW c \in Calls, Cut(c)
      PROVE  Goal
  BY <1>6 DEF Cut, GiveInv
<1>7. ASSUME NEW c \in Calls,
             \/ \E goods \in Returns :
                    ReturnGoods(c, goods) \/ ReturnGoodsWrite(c, goods)
                    \/ ReturnGoodsRefused(c, goods)
             \/ \E l \in Lines, i \in {"first", "second"} : RestockLine(c, l, i)
      PROVE  Goal
  <2>1. /\ sale' = sale
        /\ \A b \in Calls : call'[b] = call[b] \/ (~Giving(b) /\ ~Giving(b)')
    BY <1>7, OtherBackSteps
  <2> QED
    BY <2>1, <1>q
<1> HIDE DEF Goal
<1>8. BackStep => Goal
  BY <1>2, <1>3, <1>4, <1>5, <1>6, <1>7 DEF BackStep
<1>9. Goal
  BY BackSteps, <1>1, <1>8
<1> QED
  BY <1>9 DEF Goal

\* Where the goods are, at every moment.
BackInv == Unsold /\ RestockedAsReturned /\ SaleInvoiced /\ GiveInv /\ OneSide

LEMMA BackInit ==
    ASSUME ConstantsAssumption, Init
    PROVE  BackInv
<1>1. /\ invoice = NoInvoice /\ sale = [status |-> "NONE", back |-> NoUnits] /\ marks = {}
      /\ \A c \in Calls : call[c] = <<"idle">>
  BY DEF Init, Idle
<1>2. \A c \in Calls : ~Giving(c) /\ call[c][1] \notin {"cancel", "giveback", "return", "restock"}
  BY <1>1 DEF Giving
<1>3. Unsold /\ SaleInvoiced /\ GiveInv /\ OneSide
  BY <1>1, <1>2 DEF Unsold, SaleInvoiced, GiveInv, OneSide, NoInvoice, NoUnits
<1>4. ASSUME NEW l \in Lines PROVE Restocking(l) = 0
  <2> DEFINE f == [c \in Calls |-> Pending(call[c], l, "first") + Pending(call[c], l, "second")]
  <2>1. \A c \in Calls : f[c] = 0
    BY <1>2 DEF Pending
  <2>2. Restocking(l) = SumFunctionOnSet(f, Calls)
    BY DEF Restocking, SumFunction
  <2> HIDE DEF f
  <2> QED
    BY <2>1, <2>2, FiniteAssumption, SumZero
<1>5. RestockedAsReturned
  BY <1>1, <1>4 DEF RestockedAsReturned, NoInvoice, NoUnits
<1> QED
  BY <1>3, <1>5 DEF BackInv

LEMMA BackCorrect == Spec => []BackInv
<1>1. ConstantsAssumption
  BY ConstantsAssumption
<1>2. Init => BackInv
  BY <1>1, BackInit
<1>3. TypeOK /\ TypeOK' /\ BackInv /\ [Next]_vars => BackInv'
  BY <1>1, UnsoldKept, RestockKept, InvoicedKept, GiveKept, OneSideKept DEF BackInv
<1>4. Spec => []TypeOK
  BY TypeCorrect
<1> QED
  BY <1>2, <1>3, <1>4, PTL DEF Spec

LEMMA SaleIsBackOnce ==
    ASSUME ConstantsAssumption, TypeOK, GiveInv
    PROVE  SaleBackOnce
<1> SUFFICES ASSUME marks \cap {"together", "again", "cut"} = {}, NEW l \in Lines
             PROVE  /\ sale.back[l] <= Sold[l]
                    /\ sale.status \in {"CANCELLED", "RETURNED"} => sale.back[l] = Sold[l]
  BY DEF SaleBackOnce
<1>0. Sold[l] \in Nat
  BY DEF ConstantsAssumption
<1>1. CASE \A c \in Calls : ~Giving(c)
  BY <1>0, <1>1 DEF GiveInv
<1>2. ASSUME NEW c \in Calls, Giving(c)
      PROVE  sale.status = "COMPLETED" /\ sale.back[l] \in {0, Sold[l]}
  BY <1>2 DEF GiveInv, Giving
<1> QED
  BY <1>0, <1>1, <1>2

LEMMA OneSideIsBack ==
    ASSUME ConstantsAssumption, TypeOK, InvoiceInv, RestockedAsReturned, SaleBackOnce, OneSide
    PROVE  BackAtMostSold
<1> SUFFICES ASSUME marks \cap {"together", "again", "cut", "both", "split", "relisted"} = {},
                    NEW l \in Lines
             PROVE  sale.back[l] + invoice.back[l] <= Sold[l]
  BY DEF BackAtMostSold
<1>1. /\ sale.back[l] \in Nat /\ invoice.back[l] \in Nat /\ invoice.taken[l] \in Nat
      /\ Sold[l] \in Nat /\ Restocking(l) \in Nat
  BY RestockingNat DEF TypeOK, Sale, Invoice, ConstantsAssumption
<1>2. invoice.back[l] <= invoice.taken[l]
  BY <1>1 DEF RestockedAsReturned
<1>3. sale.back[l] = 0 \/ invoice.taken[l] = 0
  BY DEF OneSide, NoUnits
<1>4. sale.back[l] <= Sold[l] /\ invoice.taken[l] <= Sold[l]
  BY DEF SaleBackOnce, InvoiceInv, ReturnsFitSale, ReturnedAtMostSold
<1> QED
  BY <1>1, <1>2, <1>3, <1>4

\* Goods that come back are in the stock once: those of a return as many as it took, but
\* for calls that are still at it or were cut off; those of a cancelled or returned sale as
\* many as were sold; and unless both were taken back, no more than were sold in all.  For
\* any number of calls, lines and returns, in any order.
THEOREM RestockedOnceCorrect == Spec => []RestockedOnce
<1>1. ConstantsAssumption
  BY ConstantsAssumption
<1>2. Inv /\ BackInv => RestockedOnce
  BY <1>1, SaleIsBackOnce, OneSideIsBack DEF Inv, BackInv, RestockedOnce
<1> QED
  BY <1>2, InvCorrect, BackCorrect, PTL
=============================================================================
