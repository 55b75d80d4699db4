-------------------------- MODULE Warehouse_proofs --------------------------
(***************************************************************************)
(* Proofs about Warehouse, for any calls, lines, receipts, payments and    *)
(* transfers: the state is well typed, a purchase order takes in no more   *)
(* than was ordered and its status follows its receipts, and an inventory  *)
(* corrects the stock, each line once; the payments of the supplier come   *)
(* to what his invoice says, and the rows of the warehouses are what the   *)
(* transfers between stores have moved.                                    *)
(***************************************************************************)
EXTENDS Warehouse, Sums

(***************************************************************************)
(* What a step may change.                                                 *)
(***************************************************************************)

\* What has happened is not forgotten.
LEMMA MarksGrow ==
    ASSUME [Next]_vars
    PROVE  marks \subseteq marks'
<1> DEFINE Goal == marks \subseteq marks'
<1>1. ASSUME UNCHANGED vars
      PROVE  Goal
  BY <1>1 DEF vars
<1>2. ASSUME Send
      PROVE  Goal
  BY <1>2 DEF Send, Mark
<1>3. ASSUME CreateBill
      PROVE  Goal
  BY <1>3 DEF CreateBill, Mark
<1>4. ASSUME NEW c \in Calls,
             \/ Approve(c)
             \/ ApproveWrite(c)
             \/ Cancel(c)
             \/ CancelWrite(c)
             \/ Edit(c)
             \/ EditWrite(c)
      PROVE  Goal
  BY <1>4 DEF Approve, ApproveWrite, Cancel, CancelWrite, Edit, EditWrite, Mark
<1>5. ASSUME NEW c \in Calls, NEW r \in Receipts,
             \/ Receive(c, r) \/ ReceiveStatus(c, r) \/ ReceiveWrite(c, r)
             \/ \E l \in DOMAIN r : ReceiveLine(c, r, l)
      PROVE  Goal
  BY <1>5 DEF Receive, ReceiveLine, ReceiveStatus, ReceiveWrite, Mark
<1>6. ASSUME NEW c \in Calls, NEW amount \in Amounts,
             \/ PaySupplier(c, amount)
             \/ PaySupplierRead(c, amount)
             \/ PaySupplierWrite(c, amount)
      PROVE  Goal
  BY <1>6 DEF PaySupplier, PaySupplierRead, PaySupplierWrite, Mark
<1>7. ASSUME CreateCount \/ CancelCount
      PROVE  Goal
  BY <1>7 DEF CreateCount, CancelCount, Mark
<1>8. ASSUME NEW l \in Lines, SellUnit(l) \/ LoseUnit(l)
      PROVE  Goal
  BY <1>8 DEF SellUnit, LoseUnit, Mark
<1>9. ASSUME NEW c \in Calls, NEW correct \in BOOLEAN, Validate(c, correct)
      PROVE  Goal
  BY <1>9 DEF Validate, Mark
<1>10. ASSUME NEW c \in Calls, NEW l \in Lines, AdjustRead(c, l)
      PROVE  Goal
  BY <1>10 DEF AdjustRead, Mark
<1>11. ASSUME NEW c \in Calls,
             ReceiveRefused(c) \/ AdjustWrite(c) \/ ValidateWrite(c) \/ Cut(c)
      PROVE  Goal
  BY <1>11 DEF ReceiveRefused, AdjustWrite, ValidateWrite, Cut, Mark
<1>12. ASSUME NEW c \in Calls, NEW t \in Transfers,
             ValidateTransfer(c, t) \/ ValidateTransferWrite(c, t)
      PROVE  Goal
  BY <1>12 DEF ValidateTransfer, ValidateTransferWrite, Mark
<1> QED
  BY <1>1, <1>2, <1>3, <1>4, <1>5, <1>6, <1>7, <1>8, <1>9, <1>10, <1>11, <1>12
     DEF Next, PurchaseStep, CountStep, StoresStep

\* The steps that write the purchase order.
LEMMA OrderSteps ==
    ASSUME [Next]_vars
    PROVE  \/ UNCHANGED order
           \/ Send
           \/ \E c \in Calls : ApproveWrite(c) \/ CancelWrite(c) \/ EditWrite(c)
           \/ \E c \in Calls, r \in Receipts : ReceiveWrite(c, r)
<1> DEFINE Goal == \/ UNCHANGED order
                   \/ Send
                   \/ \E c \in Calls : ApproveWrite(c) \/ CancelWrite(c) \/ EditWrite(c)
                   \/ \E c \in Calls, r \in Receipts : ReceiveWrite(c, r)
<1>1. ASSUME UNCHANGED vars
      PROVE  Goal
  BY <1>1 DEF vars
<1>2. ASSUME Send
      PROVE  Goal
  BY <1>2 DEF Purchase
<1>3. ASSUME CreateBill
      PROVE  Goal
  BY <1>3 DEF CreateBill, Purchase
<1>4. ASSUME NEW c \in Calls,
             \/ Approve(c)
             \/ ApproveWrite(c)
             \/ Cancel(c)
             \/ CancelWrite(c)
             \/ Edit(c)
             \/ EditWrite(c)
      PROVE  Goal
  BY <1>4 DEF Approve, Cancel, Edit, Purchase
<1>5. ASSUME NEW c \in Calls, NEW r \in Receipts,
             \/ Receive(c, r) \/ ReceiveStatus(c, r) \/ ReceiveWrite(c, r)
             \/ \E l \in DOMAIN r : ReceiveLine(c, r, l)
      PROVE  Goal
  BY <1>5 DEF Receive, ReceiveLine, ReceiveStatus, Purchase
<1>6. ASSUME NEW c \in Calls, NEW amount \in Amounts,
             \/ PaySupplier(c, amount)
             \/ PaySupplierRead(c, amount)
             \/ PaySupplierWrite(c, amount)
      PROVE  Goal
  BY <1>6 DEF PaySupplier, PaySupplierRead, PaySupplierWrite, Purchase
<1>7. ASSUME CreateCount \/ CancelCount
      PROVE  Goal
  BY <1>7 DEF CreateCount, CancelCount, Purchase
<1>8. ASSUME NEW l \in Lines, SellUnit(l) \/ LoseUnit(l)
      PROVE  Goal
  BY <1>8 DEF SellUnit, LoseUnit, Purchase
<1>9. ASSUME NEW c \in Calls, NEW correct \in BOOLEAN, Validate(c, correct)
      PROVE  Goal
  BY <1>9 DEF Validate, Purchase
<1>10. ASSUME NEW c \in Calls, NEW l \in Lines, AdjustRead(c, l)
      PROVE  Goal
  BY <1>10 DEF AdjustRead, Purchase
<1>11. ASSUME NEW c \in Calls,
             ReceiveRefused(c) \/ AdjustWrite(c) \/ ValidateWrite(c) \/ Cut(c)
      PROVE  Goal
  BY <1>11 DEF ReceiveRefused, AdjustWrite, ValidateWrite, Cut, Purchase
<1>12. ASSUME NEW c \in Calls, NEW t \in Transfers,
             ValidateTransfer(c, t) \/ ValidateTransferWrite(c, t)
      PROVE  Goal
  BY <1>12 DEF ValidateTransfer, ValidateTransferWrite, Purchase
<1> QED
  BY <1>1, <1>2, <1>3, <1>4, <1>5, <1>6, <1>7, <1>8, <1>9, <1>10, <1>11, <1>12
     DEF Next, PurchaseStep, CountStep, StoresStep

\* The steps that write the supplier's invoice.
LEMMA BillSteps ==
    ASSUME [Next]_vars
    PROVE  \/ UNCHANGED bill
           \/ CreateBill
           \/ \E c \in Calls, amount \in Amounts : PaySupplier(c, amount) \/ PaySupplierWrite(c, amount)
<1> DEFINE Goal == \/ UNCHANGED bill
                   \/ CreateBill
                   \/ \E c \in Calls, amount \in Amounts : PaySupplier(c, amount) \/ PaySupplierWrite(c, amount)
<1>1. ASSUME UNCHANGED vars
      PROVE  Goal
  BY <1>1 DEF vars
<1>2. ASSUME Send
      PROVE  Goal
  BY <1>2 DEF Send, Purchase
<1>3. ASSUME CreateBill
      PROVE  Goal
  BY <1>3 DEF Purchase
<1>4. ASSUME NEW c \in Calls,
             \/ Approve(c)
             \/ ApproveWrite(c)
             \/ Cancel(c)
             \/ CancelWrite(c)
             \/ Edit(c)
             \/ EditWrite(c)
      PROVE  Goal
  BY <1>4 DEF Approve, ApproveWrite, Cancel, CancelWrite, Edit, EditWrite, Purchase
<1>5. ASSUME NEW c \in Calls, NEW r \in Receipts,
             \/ Receive(c, r) \/ ReceiveStatus(c, r) \/ ReceiveWrite(c, r)
             \/ \E l \in DOMAIN r : ReceiveLine(c, r, l)
      PROVE  Goal
  BY <1>5 DEF Receive, ReceiveLine, ReceiveStatus, ReceiveWrite, Purchase
<1>6. ASSUME NEW c \in Calls, NEW amount \in Amounts,
             \/ PaySupplier(c, amount)
             \/ PaySupplierRead(c, amount)
             \/ PaySupplierWrite(c, amount)
      PROVE  Goal
  BY <1>6 DEF PaySupplierRead, Purchase
<1>7. ASSUME CreateCount \/ CancelCount
      PROVE  Goal
  BY <1>7 DEF CreateCount, CancelCount, Purchase
<1>8. ASSUME NEW l \in Lines, SellUnit(l) \/ LoseUnit(l)
      PROVE  Goal
  BY <1>8 DEF SellUnit, LoseUnit, Purchase
<1>9. ASSUME NEW c \in Calls, NEW correct \in BOOLEAN, Validate(c, correct)
      PROVE  Goal
  BY <1>9 DEF Validate, Purchase
<1>10. ASSUME NEW c \in Calls, NEW l \in Lines, AdjustRead(c, l)
      PROVE  Goal
  BY <1>10 DEF AdjustRead, Purchase
<1>11. ASSUME NEW c \in Calls,
             ReceiveRefused(c) \/ AdjustWrite(c) \/ ValidateWrite(c) \/ Cut(c)
      PROVE  Goal
  BY <1>11 DEF ReceiveRefused, AdjustWrite, ValidateWrite, Cut, Purchase
<1>12. ASSUME NEW c \in Calls, NEW t \in Transfers,
             ValidateTransfer(c, t) \/ ValidateTransferWrite(c, t)
      PROVE  Goal
  BY <1>12 DEF ValidateTransfer, ValidateTransferWrite, Purchase
<1> QED
  BY <1>1, <1>2, <1>3, <1>4, <1>5, <1>6, <1>7, <1>8, <1>9, <1>10, <1>11, <1>12
     DEF Next, PurchaseStep, CountStep, StoresStep

\* The steps that write a row of Stock, its goods or the inventory.
LEMMA StockSteps ==
    ASSUME [Next]_vars
    PROVE  \/ UNCHANGED <<stock, goods, count>>
           \/ \E c \in Calls, r \in Receipts : ReceiveWrite(c, r)
           \/ \E l \in Lines : SellUnit(l) \/ LoseUnit(l)
           \/ CreateCount \/ CancelCount
           \/ \E c \in Calls : AdjustWrite(c) \/ ValidateWrite(c)
<1> DEFINE Goal == \/ UNCHANGED <<stock, goods, count>>
                   \/ \E c \in Calls, r \in Receipts : ReceiveWrite(c, r)
                   \/ \E l \in Lines : SellUnit(l) \/ LoseUnit(l)
                   \/ CreateCount \/ CancelCount
                   \/ \E c \in Calls : AdjustWrite(c) \/ ValidateWrite(c)
<1>1. ASSUME UNCHANGED vars
      PROVE  Goal
  BY <1>1 DEF vars
<1>2. ASSUME Send
      PROVE  Goal
  BY <1>2 DEF Send, Counting
<1>3. ASSUME CreateBill
      PROVE  Goal
  BY <1>3 DEF CreateBill, Counting
<1>4. ASSUME NEW c \in Calls,
             \/ Approve(c)
             \/ ApproveWrite(c)
             \/ Cancel(c)
             \/ CancelWrite(c)
             \/ Edit(c)
             \/ EditWrite(c)
      PROVE  Goal
  BY <1>4 DEF Approve, ApproveWrite, Cancel, CancelWrite, Edit, EditWrite, Counting
<1>5. ASSUME NEW c \in Calls, NEW r \in Receipts,
             \/ Receive(c, r) \/ ReceiveStatus(c, r) \/ ReceiveWrite(c, r)
             \/ \E l \in DOMAIN r : ReceiveLine(c, r, l)
      PROVE  Goal
  BY <1>5 DEF Receive, ReceiveLine, ReceiveStatus, Counting
<1>6. ASSUME NEW c \in Calls, NEW amount \in Amounts,
             \/ PaySupplier(c, amount)
             \/ PaySupplierRead(c, amount)
             \/ PaySupplierWrite(c, amount)
      PROVE  Goal
  BY <1>6 DEF PaySupplier, PaySupplierRead, PaySupplierWrite, Counting
<1>7. ASSUME CreateCount \/ CancelCount
      PROVE  Goal
  BY <1>7 DEF Counting
<1>8. ASSUME NEW l \in Lines, SellUnit(l) \/ LoseUnit(l)
      PROVE  Goal
  BY <1>8 DEF Counting
<1>9. ASSUME NEW c \in Calls, NEW correct \in BOOLEAN, Validate(c, correct)
      PROVE  Goal
  BY <1>9 DEF Validate, Counting
<1>10. ASSUME NEW c \in Calls, NEW l \in Lines, AdjustRead(c, l)
      PROVE  Goal
  BY <1>10 DEF AdjustRead, Counting
<1>11. ASSUME NEW c \in Calls,
             ReceiveRefused(c) \/ AdjustWrite(c) \/ ValidateWrite(c) \/ Cut(c)
      PROVE  Goal
  BY <1>11 DEF ReceiveRefused, Cut, Counting
<1>12. ASSUME NEW c \in Calls, NEW t \in Transfers,
             ValidateTransfer(c, t) \/ ValidateTransferWrite(c, t)
      PROVE  Goal
  BY <1>12 DEF ValidateTransfer, ValidateTransferWrite, Counting
<1> QED
  BY <1>1, <1>2, <1>3, <1>4, <1>5, <1>6, <1>7, <1>8, <1>9, <1>10, <1>11, <1>12
     DEF Next, PurchaseStep, CountStep, StoresStep

\* The steps that write a transfer or a warehouse of a store.
LEMMA StoresSteps ==
    ASSUME [Next]_vars
    PROVE  \/ UNCHANGED <<transfer, depot, moves>>
           \/ \E c \in Calls, t \in Transfers : ValidateTransferWrite(c, t)
<1> DEFINE Goal == \/ UNCHANGED <<transfer, depot, moves>>
                   \/ \E c \in Calls, t \in Transfers : ValidateTransferWrite(c, t)
<1>1. ASSUME UNCHANGED vars
      PROVE  Goal
  BY <1>1 DEF vars
<1>2. ASSUME Send
      PROVE  Goal
  BY <1>2 DEF Send, Stores
<1>3. ASSUME CreateBill
      PROVE  Goal
  BY <1>3 DEF CreateBill, Stores
<1>4. ASSUME NEW c \in Calls,
             \/ Approve(c)
             \/ ApproveWrite(c)
             \/ Cancel(c)
             \/ CancelWrite(c)
             \/ Edit(c)
             \/ EditWrite(c)
      PROVE  Goal
  BY <1>4 DEF Approve, ApproveWrite, Cancel, CancelWrite, Edit, EditWrite, Stores
<1>5. ASSUME NEW c \in Calls, NEW r \in Receipts,
             \/ Receive(c, r) \/ ReceiveStatus(c, r) \/ ReceiveWrite(c, r)
             \/ \E l \in DOMAIN r : ReceiveLine(c, r, l)
      PROVE  Goal
  BY <1>5 DEF Receive, ReceiveLine, ReceiveStatus, ReceiveWrite, Stores
<1>6. ASSUME NEW c \in Calls, NEW amount \in Amounts,
             \/ PaySupplier(c, amount)
             \/ PaySupplierRead(c, amount)
             \/ PaySupplierWrite(c, amount)
      PROVE  Goal
  BY <1>6 DEF PaySupplier, PaySupplierRead, PaySupplierWrite, Stores
<1>7. ASSUME CreateCount \/ CancelCount
      PROVE  Goal
  BY <1>7 DEF CreateCount, CancelCount, Stores
<1>8. ASSUME NEW l \in Lines, SellUnit(l) \/ LoseUnit(l)
      PROVE  Goal
  BY <1>8 DEF SellUnit, LoseUnit, Stores
<1>9. ASSUME NEW c \in Calls, NEW correct \in BOOLEAN, Validate(c, correct)
      PROVE  Goal
  BY <1>9 DEF Validate, Stores
<1>10. ASSUME NEW c \in Calls, NEW l \in Lines, AdjustRead(c, l)
      PROVE  Goal
  BY <1>10 DEF AdjustRead, Stores
<1>11. ASSUME NEW c \in Calls,
             ReceiveRefused(c) \/ AdjustWrite(c) \/ ValidateWrite(c) \/ Cut(c)
      PROVE  Goal
  BY <1>11 DEF ReceiveRefused, AdjustWrite, ValidateWrite, Cut, Stores
<1>12. ASSUME NEW c \in Calls, NEW t \in Transfers,
             ValidateTransfer(c, t) \/ ValidateTransferWrite(c, t)
      PROVE  Goal
  BY <1>12 DEF ValidateTransfer, Stores
<1> QED
  BY <1>1, <1>2, <1>3, <1>4, <1>5, <1>6, <1>7, <1>8, <1>9, <1>10, <1>11, <1>12
     DEF Next, PurchaseStep, CountStep, StoresStep

(***************************************************************************)
(* Type correctness.                                                       *)
(***************************************************************************)

LEMMA MarksTyped ==
    ASSUME TypeOK, [Next]_vars
    PROVE  marks' \subseteq Marks
<1> DEFINE Goal == marks' \subseteq Marks
<1>1. ASSUME UNCHANGED vars
      PROVE  Goal
  BY <1>1 DEF vars, TypeOK
<1>2. ASSUME Send
      PROVE  Goal
  BY <1>2 DEF Send, Mark, Marks, TypeOK
<1>3. ASSUME CreateBill
      PROVE  Goal
  BY <1>3 DEF CreateBill, Mark, Marks, TypeOK
<1>4. ASSUME NEW c \in Calls,
             \/ Approve(c)
             \/ ApproveWrite(c)
             \/ Cancel(c)
             \/ CancelWrite(c)
             \/ Edit(c)
             \/ EditWrite(c)
      PROVE  Goal
  BY <1>4 DEF Approve, ApproveWrite, Cancel, CancelWrite, Edit, EditWrite, Mark, Marks, TypeOK
<1>5. ASSUME NEW c \in Calls, NEW r \in Receipts,
             \/ Receive(c, r) \/ ReceiveStatus(c, r) \/ ReceiveWrite(c, r)
             \/ \E l \in DOMAIN r : ReceiveLine(c, r, l)
      PROVE  Goal
  BY <1>5 DEF Receive, ReceiveLine, ReceiveStatus, ReceiveWrite, Mark, Marks, TypeOK
<1>6. ASSUME NEW c \in Calls, NEW amount \in Amounts,
             \/ PaySupplier(c, amount)
             \/ PaySupplierRead(c, amount)
             \/ PaySupplierWrite(c, amount)
      PROVE  Goal
  BY <1>6 DEF PaySupplier, PaySupplierRead, PaySupplierWrite, Mark, Marks, TypeOK
<1>7. ASSUME CreateCount \/ CancelCount
      PROVE  Goal
  BY <1>7 DEF CreateCount, CancelCount, Mark, Marks, TypeOK
<1>8. ASSUME NEW l \in Lines, SellUnit(l) \/ LoseUnit(l)
      PROVE  Goal
  BY <1>8 DEF SellUnit, LoseUnit, Mark, Marks, TypeOK
<1>9. ASSUME NEW c \in Calls, NEW correct \in BOOLEAN, Validate(c, correct)
      PROVE  Goal
  BY <1>9 DEF Validate, Mark, Marks, TypeOK
<1>10. ASSUME NEW c \in Calls, NEW l \in Lines, AdjustRead(c, l)
      PROVE  Goal
  BY <1>10 DEF AdjustRead, Mark, Marks, TypeOK
<1>11. ASSUME NEW c \in Calls,
             ReceiveRefused(c) \/ AdjustWrite(c) \/ ValidateWrite(c) \/ Cut(c)
      PROVE  Goal
  BY <1>11 DEF ReceiveRefused, AdjustWrite, ValidateWrite, Cut, Mark, Marks, TypeOK
<1>12. ASSUME NEW c \in Calls, NEW t \in Transfers,
             ValidateTransfer(c, t) \/ ValidateTransferWrite(c, t)
      PROVE  Goal
  BY <1>12 DEF ValidateTransfer, ValidateTransferWrite, Mark, Marks, TypeOK
<1> QED
  BY <1>1, <1>2, <1>3, <1>4, <1>5, <1>6, <1>7, <1>8, <1>9, <1>10, <1>11, <1>12
     DEF Next, PurchaseStep, CountStep, StoresStep

\* A receipt is of some lines, of some units each.
LEMMA ReceiptForms ==
    ASSUME ConstantsAssumption, NEW r \in Receipts
    PROVE  /\ DOMAIN r \subseteq Lines /\ \A l \in DOMAIN r : r[l] \in Nat /\ r[l] > 0
           /\ \E l \in DOMAIN r : l \in Lines
<1>1. /\ DOMAIN r \subseteq Lines /\ DOMAIN r # {}
      /\ \A l \in DOMAIN r : r[l] \in Nat \ {0}
  BY DEF ConstantsAssumption
<1>2. \E l : l \in DOMAIN r
  BY <1>1
<1> QED
  BY <1>1, <1>2

LEMMA AddTyped ==
    ASSUME ConstantsAssumption, NEW r \in Receipts, NEW f \in [Lines -> Nat]
    PROVE  Add(f, r) \in [Lines -> Nat]
<1> QED
  BY ReceiptForms DEF Add

\* What a receipt has read.
LEMMA ReceiveCall ==
    ASSUME TypeOK, NEW c \in Calls
    PROVE  /\ call[c][1] = "receive" =>
                  call[c][2] \in Receipts /\ call[c][3] \in 0 .. MaxEdits /\ call[c][4] \in SUBSET Lines
           /\ call[c][1] = "received" =>
                  /\ call[c][2] \in Receipts
                  /\ call[c][3] \in {"APPROVED", "PARTIALLY_RECEIVED", "FULLY_RECEIVED"}
  BY DEF TypeOK, Requests, Idle

LEMMA OrderTyped ==
    ASSUME ConstantsAssumption, TypeOK, [Next]_vars
    PROVE  order' \in Order
<1>0. order \in Order /\ NoUnits \in [Lines -> Nat]
  BY DEF TypeOK, NoUnits
<1>1. CASE Send
  BY <1>0, <1>1 DEF Send, Order
<1>2. ASSUME NEW c \in Calls, ApproveWrite(c) \/ CancelWrite(c)
      PROVE  order' \in Order
  BY <1>0, <1>2 DEF ApproveWrite, CancelWrite, Order
<1>3. ASSUME NEW c \in Calls, EditWrite(c)
      PROVE  order' \in Order
  <2>1. order.edits + 1 \in 0 .. MaxEdits
    BY <1>0, <1>3 DEF EditWrite, Order, ConstantsAssumption
  <2> QED
    BY <1>0, <1>3, <2>1 DEF EditWrite, Order
<1>4. ASSUME NEW c \in Calls, NEW r \in Receipts, ReceiveWrite(c, r)
      PROVE  order' \in Order
  <2>1. Add(order.received, r) \in [Lines -> Nat] /\ Add(order.delivered, r) \in [Lines -> Nat]
    BY <1>0, AddTyped DEF Order
  <2>2. call[c][3] \in {"FULLY_RECEIVED", "PARTIALLY_RECEIVED", "APPROVED"}
    BY <1>4, ReceiveCall DEF ReceiveWrite
  <2> QED
    BY <1>0, <1>4, <2>1, <2>2 DEF ReceiveWrite, Order
<1> QED
  BY OrderSteps, <1>0, <1>1, <1>2, <1>3, <1>4

LEMMA BillTyped ==
    ASSUME ConstantsAssumption, TypeOK, [Next]_vars
    PROVE  bill' \in Bill
<1>0. bill \in Bill
  BY DEF TypeOK
<1>1. CASE CreateBill
  BY <1>0, <1>1 DEF CreateBill, Bill
<1>2. ASSUME NEW c \in Calls, NEW amount \in Amounts, PaySupplier(c, amount)
      PROVE  bill' \in Bill
  BY <1>0, <1>2 DEF PaySupplier, Bill, ConstantsAssumption
<1>3. ASSUME NEW c \in Calls, NEW amount \in Amounts, PaySupplierWrite(c, amount)
      PROVE  bill' \in Bill
  <2>1. call[c][3] \in Nat
    BY <1>3 DEF PaySupplierWrite, TypeOK, Requests, Idle
  <2>2. Settled(call[c][3]) \in {"PAID", "PARTIALLY_PAID"}
    BY DEF Settled
  <2> QED
    BY <1>0, <1>3, <2>1, <2>2 DEF PaySupplierWrite, Bill
<1> QED
  BY BillSteps, <1>0, <1>1, <1>2, <1>3

\* What a call that is about to change a row has read.
LEMMA ChangeCall ==
    ASSUME TypeOK, NEW c \in Calls, call[c][1] = "change"
    PROVE  /\ call[c][2] \in SUBSET Lines /\ call[c][3] \in Lines /\ call[c][4] \in Int
  BY DEF TypeOK, Requests, Idle

LEMMA CountTyped ==
    ASSUME ConstantsAssumption, TypeOK, [Next]_vars
    PROVE  stock' \in [Lines -> Nat] /\ goods' \in [Lines -> Nat] /\ count' \in Count
<1>0. stock \in [Lines -> Nat] /\ goods \in [Lines -> Nat] /\ count \in Count
  BY DEF TypeOK
<1> DEFINE Goal == stock' \in [Lines -> Nat] /\ goods' \in [Lines -> Nat] /\ count' \in Count
<1>1. ASSUME NEW c \in Calls, NEW r \in Receipts, ReceiveWrite(c, r)
      PROVE  Goal
  BY <1>0, <1>1, AddTyped DEF ReceiveWrite
<1>2. ASSUME NEW l \in Lines, SellUnit(l) \/ LoseUnit(l)
      PROVE  Goal
  BY <1>0, <1>2 DEF SellUnit, LoseUnit
<1>3. CASE CreateCount \/ CancelCount
  BY <1>0, <1>3 DEF CreateCount, CancelCount, Count
<1>4. ASSUME NEW c \in Calls, AdjustWrite(c)
      PROVE  Goal
  <2> DEFINE l == call[c][3]
             after == stock[l] + call[c][4]
  <2>1. l \in Lines /\ after \in Nat
    BY <1>0, <1>4, ChangeCall DEF AdjustWrite
  <2>2. count.applied[l] + 1 \in Nat
    BY <1>0, <2>1 DEF Count
  <2>3. /\ stock' = [stock EXCEPT ![l] = after] /\ goods' = goods
        /\ count' = [count EXCEPT !.applied[l] = count.applied[l] + 1]
    BY <1>4 DEF AdjustWrite
  <2> HIDE DEF l, after
  <2> QED
    BY <1>0, <2>1, <2>2, <2>3 DEF Count
<1>5. ASSUME NEW c \in Calls, ValidateWrite(c)
      PROVE  Goal
  BY <1>0, <1>5 DEF ValidateWrite, Count
<1> QED
  BY StockSteps, <1>0, <1>1, <1>2, <1>3, <1>4, <1>5

LEMMA StoresTyped ==
    ASSUME ConstantsAssumption, TypeOK, [Next]_vars
    PROVE  /\ transfer' \in [Transfers -> {"DRAFT", "VALIDATED"}]
           /\ depot' \in [Depots -> Int \cup {None}]
           /\ moves' \in [Transfers -> [out : Nat, in : Nat]]
<1>1. ASSUME NEW c \in Calls, NEW t \in Transfers, ValidateTransferWrite(c, t)
      PROVE  /\ transfer' \in [Transfers -> {"DRAFT", "VALIDATED"}]
             /\ depot' \in [Depots -> Int \cup {None}]
             /\ moves' \in [Transfers -> [out : Nat, in : Nat]]
  <2>1. \A d \in Depots : InDepot(d) \in Int
    BY DEF InDepot, TypeOK
  <2>2. From[t] \in Depots /\ To[t] \in Depots
    BY DEF ConstantsAssumption
  <2>3. InDepot(From[t]) - 1 \in Int /\ InDepot(To[t]) + 1 \in Int
    BY <2>1, <2>2
  <2>4. depot \in [Depots -> Int \cup {None}] /\ transfer \in [Transfers -> {"DRAFT", "VALIDATED"}]
    BY DEF TypeOK
  <2>5. depot' = Moved(t, call[c][3]) /\ transfer' = [transfer EXCEPT ![t] = "VALIDATED"]
    BY <1>1 DEF ValidateTransferWrite
  <2>6. depot' \in [Depots -> Int \cup {None}]
    BY <2>2, <2>3, <2>4, <2>5 DEF Moved
  <2>7. moves' \in [Transfers -> [out : Nat, in : Nat]]
    BY <1>1 DEF ValidateTransferWrite, TypeOK
  <2> QED
    BY <2>4, <2>5, <2>6, <2>7
<1> QED
  BY StoresSteps, <1>1 DEF TypeOK

\* What a call may have read.
LEMMA RequestForms ==
    /\ Idle \in Requests /\ <<"approve">> \in Requests /\ <<"cancel">> \in Requests
    /\ <<"edit">> \in Requests /\ <<"validate">> \in Requests
    /\ \A r \in Receipts, n \in 0 .. MaxEdits, S \in SUBSET Lines :
           <<"receive", r, n, S>> \in Requests
    /\ \A r \in Receipts, s \in {"APPROVED", "PARTIALLY_RECEIVED", "FULLY_RECEIVED"} :
           <<"received", r, s>> \in Requests
    /\ \A amount \in Amounts : <<"paid", amount>> \in Requests
    /\ \A amount \in Amounts, n \in Nat : <<"pay", amount, n>> \in Requests
    /\ \A S \in SUBSET Lines : <<"adjust", S>> \in Requests
    /\ \A S \in SUBSET Lines, l \in Lines, n \in Int : <<"change", S, l, n>> \in Requests
    /\ \A t \in Transfers, n \in Int \cup {None} : <<"transfer", t, n>> \in Requests
  BY DEF Requests, Idle

LEMMA CallTyped ==
    ASSUME ConstantsAssumption, TypeOK, [Next]_vars
    PROVE  call' \in [Calls -> Requests]
<1> DEFINE Goal == call' \in [Calls -> Requests]
<1>0. /\ call \in [Calls -> Requests] /\ order.edits \in 0 .. MaxEdits /\ bill.paid \in Nat
      /\ stock \in [Lines -> Nat] /\ count.counted \in [Lines -> Nat]
  BY DEF TypeOK, Order, Bill, Count
<1>1. ASSUME NEW c \in Calls, NEW r \in Requests, call' = [call EXCEPT ![c] = r]
      PROVE  Goal
  BY <1>0, <1>1
<1>2. UNCHANGED call => Goal
  BY <1>0
<1>3. ASSUME NEW c \in Calls, Return(c)
      PROVE  Goal
  BY <1>1, <1>3, RequestForms DEF Return
<1>4. ASSUME NEW c \in Calls, NEW r \in Requests, Start(c, r)
      PROVE  Goal
  BY <1>1, <1>4 DEF Start
<1>5. ASSUME NEW c \in Calls,
             \/ Approve(c) \/ ApproveWrite(c) \/ Cancel(c) \/ CancelWrite(c)
             \/ Edit(c) \/ EditWrite(c)
      PROVE  Goal
  BY <1>3, <1>4, <1>5, RequestForms DEF Approve, ApproveWrite, Cancel, CancelWrite, Edit,
     EditWrite
<1>6. ASSUME NEW c \in Calls, NEW r \in Receipts,
             \/ Receive(c, r) \/ ReceiveStatus(c, r) \/ ReceiveWrite(c, r)
             \/ \E l \in DOMAIN r : ReceiveLine(c, r, l)
      PROVE  Goal
  <2>1. CASE Receive(c, r)
    BY <1>0, <1>4, <2>1, RequestForms DEF Receive
  <2>2. ASSUME NEW l \in DOMAIN r, ReceiveLine(c, r, l)
        PROVE  Goal
    <3>1. call[c][4] \cup {l} \in SUBSET Lines
      BY <2>2, ReceiveCall DEF ReceiveLine, ConstantsAssumption
    <3>2. <<"receive", r, order.edits, call[c][4] \cup {l}>> \in Requests
      BY <1>0, <3>1, RequestForms
    <3> QED
      BY <1>1, <2>2, <3>2 DEF ReceiveLine
  <2>3. CASE ReceiveStatus(c, r)
    <3>1. StatusOf(Add(order.received, r)) \in {"FULLY_RECEIVED", "PARTIALLY_RECEIVED", "APPROVED"}
      BY DEF StatusOf
    <3>2. <<"received", r, StatusOf(Add(order.received, r))>> \in Requests
      BY <3>1, RequestForms
    <3> QED
      BY <1>1, <2>3, <3>2 DEF ReceiveStatus
  <2>4. CASE ReceiveWrite(c, r)
    BY <1>3, <2>4 DEF ReceiveWrite
  <2> QED
    BY <1>6, <2>1, <2>2, <2>3, <2>4
<1>7. ASSUME NEW c \in Calls, NEW amount \in Amounts,
             \/ PaySupplier(c, amount)
             \/ PaySupplierRead(c, amount)
             \/ PaySupplierWrite(c, amount)
      PROVE  Goal
  <2>1. bill.paid + amount \in Nat
    BY <1>0 DEF ConstantsAssumption
  <2>2. <<"paid", amount>> \in Requests /\ <<"pay", amount, bill.paid + amount>> \in Requests
    BY <2>1, RequestForms
  <2> QED
    BY <1>1, <1>3, <1>4, <1>7, <2>2 DEF PaySupplier, PaySupplierRead, PaySupplierWrite
<1>8. ASSUME NEW c \in Calls, NEW correct \in BOOLEAN, Validate(c, correct)
      PROVE  Goal
  <2>1. <<"adjust", Lines>> \in Requests /\ <<"validate">> \in Requests
    BY RequestForms
  <2> QED
    BY <1>4, <1>8, <2>1 DEF Validate
<1>9. ASSUME NEW c \in Calls, NEW l \in Lines, AdjustRead(c, l)
      PROVE  Goal
  <2>1. call[c][2] \in SUBSET Lines
    BY <1>9 DEF AdjustRead, TypeOK, Requests, Idle
  <2>2. count.counted[l] - stock[l] \in Int /\ call[c][2] \ {l} \in SUBSET Lines
    BY <1>0, <2>1
  <2>3. <<"change", call[c][2] \ {l}, l, count.counted[l] - stock[l]>> \in Requests
    BY <2>2, RequestForms
  <2> QED
    BY <1>1, <1>9, <2>3 DEF AdjustRead
<1>10. ASSUME NEW c \in Calls,
             ReceiveRefused(c) \/ AdjustWrite(c) \/ ValidateWrite(c) \/ Cut(c)
      PROVE  Goal
  <2>1. CASE AdjustWrite(c)
    <3>1. Adjusted(c) \in Requests
      BY <2>1, ChangeCall, RequestForms DEF AdjustWrite, Adjusted
    <3> QED
      BY <1>1, <2>1, <3>1 DEF AdjustWrite
  <2> QED
    BY <1>3, <1>10, <2>1 DEF ReceiveRefused, ValidateWrite, Cut
<1>11. ASSUME NEW c \in Calls, NEW t \in Transfers,
              ValidateTransfer(c, t) \/ ValidateTransferWrite(c, t)
      PROVE  Goal
  <2>1. <<"transfer", t, depot[From[t]]>> \in Requests
    <3>1. depot[From[t]] \in Int \cup {None}
      BY DEF ConstantsAssumption, TypeOK
    <3> QED
      BY <3>1, RequestForms
  <2> QED
    BY <1>3, <1>4, <1>11, <2>1 DEF ValidateTransfer, ValidateTransferWrite
<1>12. ASSUME NEW l \in Lines, SellUnit(l) \/ LoseUnit(l)
      PROVE  Goal
  BY <1>2, <1>12 DEF SellUnit, LoseUnit
<1>13. CASE Send \/ CreateBill
  BY <1>2, <1>13 DEF Send, CreateBill
<1>14. CASE CreateCount \/ CancelCount
  BY <1>2, <1>14 DEF CreateCount, CancelCount
<1>15. ASSUME UNCHANGED vars
       PROVE  Goal
  BY <1>2, <1>15 DEF vars
<1>16. PurchaseStep => Goal
  BY <1>5, <1>6, <1>7, <1>10, <1>13 DEF PurchaseStep
<1>17. CountStep => Goal
  BY <1>8, <1>9, <1>10, <1>12, <1>14 DEF CountStep
<1>18. StoresStep => Goal
  BY <1>11 DEF StoresStep
<1> QED
  BY <1>10, <1>15, <1>16, <1>17, <1>18 DEF Next

LEMMA InitTyped ==
    ASSUME ConstantsAssumption, Init
    PROVE  TypeOK
<1>1. NoUnits \in [Lines -> Nat] /\ MaxEdits \in Nat /\ OnHand \in [Lines -> Nat]
  BY DEF NoUnits, ConstantsAssumption
<1>2. order \in Order /\ bill \in Bill /\ count \in Count
  BY <1>1 DEF Init, Order, Bill, Count
<1> QED
  BY <1>1, <1>2, RequestForms DEF Init, TypeOK

LEMMA TypeKept ==
    ASSUME ConstantsAssumption, TypeOK, [Next]_vars
    PROVE  TypeOK'
<1>1. scene' \in Scenes
  BY DEF TypeOK, Next, vars
<1> QED
  BY <1>1, OrderTyped, BillTyped, CountTyped, StoresTyped, CallTyped, MarksTyped DEF TypeOK

(***************************************************************************)
(* The purchase order.                                                     *)
(***************************************************************************)

\* The lines a receipt has incremented have the room it takes, and no other has incremented
\* them.
LinesHeld ==
    /\ \A c \in Calls : \A l \in Held(call[c]) :
           l \in DOMAIN call[c][2] /\ Fits(call[c][2], l)
    /\ \A b, c \in Calls : b # c => Held(call[b]) \cap Held(call[c]) = {}

\* What a receipt will write: FULLY_RECEIVED only if everything is there, and the status of
\* what is there unless another receipt has read the lines as well.
StatusRead ==
    /\ \A c \in Calls : call[c][1] = "received" =>
           /\ call[c][3] # "APPROVED"
           /\ call[c][3] = "FULLY_RECEIVED" =>
                  \A l \in Lines : Add(order.received, call[c][2])[l] >= Ordered[l]
           /\ Without({"crossed"}) => call[c][3] = StatusOf(Add(order.received, call[c][2]))
    /\ Without({"crossed"}) =>
           \A b, c \in Calls : call[b][1] = "received" /\ call[c][1] = "received" => b = c

\* The lines of the order and its status agree, and so do the receipts on their way.
OrderInv == ReceivedAsOrdered /\ StatusFollowsReceipts /\ LinesHeld /\ StatusRead

\* The fields of the order a receipt writes.
LEMMA ReceiveFields ==
    ASSUME ConstantsAssumption, TypeOK, ReceivedAsOrdered, LinesHeld,
           NEW c \in Calls, NEW r \in Receipts, ReceiveWrite(c, r)
    PROVE  /\ order'.received = Add(order.received, r)
           /\ order'.delivered = Add(order.delivered, r)
           /\ order'.status = call[c][3] /\ order'.edits = order.edits
           /\ \A l \in Lines : order'.received[l] <= Ordered[l]
<1>1. /\ order'.received = Add(order.received, r)
      /\ order'.delivered = Add(order.delivered, r)
      /\ order'.status = call[c][3] /\ order'.edits = order.edits
  BY DEF ReceiveWrite, TypeOK, Order
<1>2. \A l \in DOMAIN r : Fits(r, l)
  BY DEF ReceiveWrite, LinesHeld, Held
<1>3. ASSUME NEW l \in Lines
      PROVE  Add(order.received, r)[l] <= Ordered[l]
  BY <1>2 DEF Fits, Add, ReceivedAsOrdered, TypeOK, Order, ConstantsAssumption
<1> QED
  BY <1>1, <1>3

\* What kinds of requests hold.
LEMMA HeldForms ==
    ASSUME NEW r
    PROVE  /\ r[1] = "receive" => Held(r) = r[4]
           /\ r[1] = "received" => Held(r) = DOMAIN r[2]
           /\ r[1] \notin {"receive", "received"} => Held(r) = {}
  BY DEF Held

\* A request that is no receipt with locked lines.
Unlocked(r) == Held(r) = {} /\ r[1] # "received"

\* The steps that bear on the receipts on their way: all others leave the lines of the order
\* and these receipts alone, or undo one of them.
LEMMA ReceiptSteps ==
    ASSUME TypeOK, [Next]_vars
    PROVE  \/ \E c \in Calls, r \in Receipts : ReceiveStatus(c, r) \/ ReceiveWrite(c, r)
           \/ \E c \in Calls, r \in Receipts : \E l \in DOMAIN r : ReceiveLine(c, r, l)
           \/ \E c \in Calls : EditWrite(c)
           \/ /\ order'.received = order.received
              /\ \A b \in Calls : call'[b] = call[b] \/ Unlocked(call'[b])
<1> DEFINE Quiet == /\ order'.received = order.received
                    /\ \A b \in Calls : call'[b] = call[b] \/ Unlocked(call'[b])
           Goal == \/ \E c \in Calls, r \in Receipts : ReceiveStatus(c, r) \/ ReceiveWrite(c, r)
                   \/ \E c \in Calls, r \in Receipts : \E l \in DOMAIN r : ReceiveLine(c, r, l)
                   \/ \E c \in Calls : EditWrite(c)
                   \/ Quiet
<1>0. call \in [Calls -> Requests] /\ order \in Order
  BY DEF TypeOK
<1>1. ASSUME NEW c \in Calls, NEW r, call' = [call EXCEPT ![c] = r], Unlocked(r),
             order'.received = order.received
      PROVE  Quiet
  BY <1>0, <1>1
<1>2. ASSUME NEW c \in Calls, Return(c), order'.received = order.received
      PROVE  Quiet
  <2>1. Unlocked(Idle)
    BY HeldForms DEF Unlocked, Idle
  <2> QED
    BY <1>1, <1>2, <2>1 DEF Return
<1>3. ASSUME NEW c \in Calls, NEW r, Start(c, r), r[1] \notin {"receive", "received"},
             order'.received = order.received
      PROVE  Quiet
  BY <1>1, <1>3, HeldForms DEF Start, Unlocked
<1>4. ASSUME UNCHANGED <<order, call>>
      PROVE  Quiet
  BY <1>4
<1> HIDE DEF Quiet
<1>5. ASSUME NEW c \in Calls,
             \/ Approve(c) \/ ApproveWrite(c) \/ Cancel(c) \/ CancelWrite(c) \/ Edit(c)
      PROVE  Quiet
  <2>1. order'.received = order.received
    BY <1>0, <1>5 DEF Approve, ApproveWrite, Cancel, CancelWrite, Edit, Purchase, Order
  <2>2. CASE Approve(c) \/ Cancel(c) \/ Edit(c)
    BY <1>3, <2>1, <2>2 DEF Approve, Cancel, Edit
  <2>3. CASE ApproveWrite(c) \/ CancelWrite(c)
    BY <1>2, <2>1, <2>3 DEF ApproveWrite, CancelWrite
  <2> QED
    BY <1>5, <2>2, <2>3
<1>6. ASSUME NEW c \in Calls, NEW r \in Receipts, Receive(c, r)
      PROVE  Quiet
  <2>1. Unlocked(<<"receive", r, order.edits, {}>>)
    BY HeldForms DEF Unlocked
  <2> QED
    BY <1>1, <1>6, <2>1 DEF Receive, Start, Purchase
<1>7. ASSUME NEW c \in Calls, NEW amount \in Amounts,
             \/ PaySupplier(c, amount)
             \/ PaySupplierRead(c, amount)
             \/ PaySupplierWrite(c, amount)
      PROVE  Quiet
  <2>1. order' = order
    BY <1>7 DEF PaySupplier, PaySupplierRead, PaySupplierWrite, Purchase
  <2>2. CASE PaySupplier(c, amount)
    BY <1>3, <2>1, <2>2 DEF PaySupplier
  <2>3. CASE PaySupplierRead(c, amount)
    <3>1. Unlocked(<<"pay", amount, bill.paid + amount>>)
      BY HeldForms DEF Unlocked
    <3> QED
      BY <1>1, <2>1, <2>3, <3>1 DEF PaySupplierRead
  <2>4. CASE PaySupplierWrite(c, amount)
    BY <1>2, <2>1, <2>4 DEF PaySupplierWrite
  <2> QED
    BY <1>7, <2>2, <2>3, <2>4
<1>8. ASSUME NEW c \in Calls, NEW t \in Transfers,
             ValidateTransfer(c, t) \/ ValidateTransferWrite(c, t)
      PROVE  Quiet
  <2>1. order' = order
    BY <1>8 DEF ValidateTransfer, ValidateTransferWrite, Purchase
  <2> QED
    BY <1>2, <1>3, <1>8, <2>1 DEF ValidateTransfer, ValidateTransferWrite
<1>9. ASSUME NEW c \in Calls, NEW correct \in BOOLEAN, Validate(c, correct)
      PROVE  Quiet
  BY <1>3, <1>9 DEF Validate, Purchase
<1>10. ASSUME NEW c \in Calls, NEW l \in Lines, AdjustRead(c, l)
       PROVE  Quiet
  <2>1. Unlocked(<<"change", call[c][2] \ {l}, l, count.counted[l] - stock[l]>>)
    BY HeldForms DEF Unlocked
  <2> QED
    BY <1>1, <1>10, <2>1 DEF AdjustRead, Purchase
<1>11. ASSUME NEW c \in Calls,
              ReceiveRefused(c) \/ AdjustWrite(c) \/ ValidateWrite(c) \/ Cut(c)
       PROVE  Quiet
  <2>1. order' = order
    BY <1>11 DEF ReceiveRefused, AdjustWrite, ValidateWrite, Cut, Purchase
  <2>2. CASE AdjustWrite(c)
    <3>1. Unlocked(Adjusted(c))
      <4>1. Adjusted(c)[1] \in {"adjust", "validate"}
        BY DEF Adjusted
      <4> QED
        BY <4>1, HeldForms DEF Unlocked
    <3> QED
      BY <1>1, <2>1, <2>2, <3>1 DEF AdjustWrite
  <2> QED
    BY <1>2, <1>11, <2>1, <2>2 DEF ReceiveRefused, ValidateWrite, Cut
<1>12. ASSUME Send \/ CreateBill \/ CreateCount \/ CancelCount
       PROVE  Quiet
  <2>1. call' = call /\ order'.received = order.received
    BY <1>0, <1>12 DEF Send, CreateBill, CreateCount, CancelCount, Purchase, Order
  <2> QED
    BY <2>1 DEF Quiet
<1>13. ASSUME NEW l \in Lines, SellUnit(l) \/ LoseUnit(l)
       PROVE  Quiet
  BY <1>4, <1>13 DEF SellUnit, LoseUnit, Purchase
<1>14. ASSUME UNCHANGED vars
       PROVE  Quiet
  BY <1>4, <1>14 DEF vars
<1>15. PurchaseStep => Goal
  BY <1>5, <1>6, <1>7, <1>11, <1>12 DEF PurchaseStep
<1>16. CountStep => Goal
  BY <1>9, <1>10, <1>11, <1>12, <1>13 DEF CountStep
<1>17. StoresStep => Goal
  BY <1>8 DEF StoresStep
<1>18. Goal
  <2> HIDE DEF Goal
  <2>1. Quiet => Goal
    BY DEF Goal
  <2> QED
    BY <1>11, <1>14, <1>15, <1>16, <1>17, <2>1 DEF Next
<1> QED
  BY <1>18 DEF Quiet

\* Steps that leave the lines alone keep what is known of the receipts on their way.
LEMMA ReceiptsQuiet ==
    ASSUME [Next]_vars, OrderInv, order'.received = order.received,
           \A b \in Calls : call'[b] = call[b] \/ Unlocked(call'[b])
    PROVE  LinesHeld' /\ StatusRead'
<1>1. LinesHeld /\ StatusRead /\ (Without({"crossed"})' => Without({"crossed"}))
  BY MarksGrow DEF OrderInv, Without
<1>2. LinesHeld'
  BY <1>1 DEF LinesHeld, Fits, Unlocked
<1>3. StatusRead'
  BY <1>1 DEF StatusRead, Unlocked
<1> QED
  BY <1>2, <1>3

LEMMA ReceiptsKept ==
    ASSUME ConstantsAssumption, TypeOK, [Next]_vars, OrderInv
    PROVE  LinesHeld' /\ StatusRead'
<1>0. /\ LinesHeld /\ StatusRead /\ ReceivedAsOrdered
      /\ order.received \in [Lines -> Nat] /\ call \in [Calls -> Requests]
      /\ Ordered \in [Lines -> Nat]
      /\ \A r \in Receipts : DOMAIN r \subseteq Lines /\ \A l \in DOMAIN r : r[l] \in Nat
      /\ Without({"crossed"})' => Without({"crossed"})
  BY MarksGrow, ReceiptForms DEF OrderInv, Without, TypeOK, Order, ConstantsAssumption
<1>1. ASSUME NEW c \in Calls, NEW r \in Receipts, NEW l \in DOMAIN r, ReceiveLine(c, r, l)
      PROVE  LinesHeld' /\ StatusRead'
  <2> DEFINE q == <<"receive", r, order.edits, call[c][4] \cup {l}>>
  <2>1. /\ order' = order /\ call'[c] = q /\ \A b \in Calls \ {c} : call'[b] = call[b]
        /\ \A b \in Calls : l \notin Held(call[b])
        /\ call[c][1] = "receive" /\ call[c][2] = r /\ Fits(r, l)
    BY <1>0, <1>1 DEF ReceiveLine, Purchase
  <2>2. Held(q) = Held(call[c]) \cup {l} /\ q[1] = "receive" /\ q[2] = r
    BY <2>1, HeldForms
  <2> HIDE DEF q
  <2>3. LinesHeld'
    <3>1. ASSUME NEW b \in Calls, NEW m \in Held(call'[b])
          PROVE  m \in DOMAIN call'[b][2] /\ order'.received[m] + call'[b][2][m] <= Ordered[m]
      BY <1>0, <2>1, <2>2, <3>1 DEF LinesHeld, Fits
    <3>2. ASSUME NEW a \in Calls, NEW b \in Calls, a # b
          PROVE  Held(call'[a]) \cap Held(call'[b]) = {}
      BY <1>0, <2>1, <2>2, <3>2 DEF LinesHeld
    <3> QED
      BY <3>1, <3>2 DEF LinesHeld, Fits
  <2>4. \A b \in Calls : call'[b][1] = "received" => call'[b] = call[b]
    BY <2>1, <2>2
  <2>5. StatusRead'
    BY <1>0, <2>1, <2>4 DEF StatusRead
  <2> QED
    BY <2>3, <2>5
<1>2. ASSUME NEW c \in Calls, NEW r \in Receipts, ReceiveStatus(c, r)
      PROVE  LinesHeld' /\ StatusRead'
  <2> DEFINE q == <<"received", r, StatusOf(Add(order.received, r))>>
  <2>1. /\ order' = order /\ call'[c] = q /\ \A b \in Calls \ {c} : call'[b] = call[b]
        /\ call[c][1] = "receive" /\ call[c][2] = r /\ call[c][4] = DOMAIN r
        /\ Without({"crossed"})' => \A b \in Calls : call[b][1] # "received"
    BY <1>0, <1>2 DEF ReceiveStatus, Purchase, Mark, Without
  <2>2. /\ Held(q) = Held(call[c]) /\ q[1] = "received" /\ q[2] = r
        /\ q[3] = StatusOf(Add(order.received, r))
    BY <2>1, HeldForms
  <2> HIDE DEF q
  <2>3. LinesHeld'
    <3>1. \A b \in Calls : Held(call'[b]) = Held(call[b]) /\ call'[b][2] = call[b][2]
      BY <2>1, <2>2
    <3> QED
      BY <1>0, <2>1, <3>1 DEF LinesHeld, Fits
  <2>4. /\ q[3] # "APPROVED"
        /\ q[3] = "FULLY_RECEIVED" => \A l \in Lines : Add(order.received, r)[l] >= Ordered[l]
    <3>1. PICK l \in DOMAIN r : l \in Lines /\ r[l] \in Nat /\ r[l] > 0
      BY ReceiptForms
    <3>2. Add(order.received, r)[l] > 0
      BY <1>0, <3>1 DEF Add
    <3> QED
      BY <2>2, <3>1, <3>2 DEF StatusOf
  <2>5. StatusRead'
    <3>1. ASSUME NEW b \in Calls, call'[b][1] = "received"
          PROVE  /\ call'[b][3] # "APPROVED"
                 /\ call'[b][3] = "FULLY_RECEIVED" =>
                        \A l \in Lines : Add(order'.received, call'[b][2])[l] >= Ordered[l]
                 /\ Without({"crossed"})' =>
                        call'[b][3] = StatusOf(Add(order'.received, call'[b][2]))
      BY <1>0, <2>1, <2>2, <2>4, <3>1 DEF StatusRead
    <3>2. Without({"crossed"})' => \A b \in Calls : call'[b][1] = "received" => b = c
      BY <2>1
    <3> QED
      BY <3>1, <3>2 DEF StatusRead
  <2> QED
    BY <2>3, <2>5
<1>3. ASSUME NEW c \in Calls, NEW r \in Receipts, ReceiveWrite(c, r)
      PROVE  LinesHeld' /\ StatusRead'
  <2>1. /\ order'.received = Add(order.received, r) /\ order'.edits = order.edits
        /\ \A l \in Lines : order'.received[l] <= Ordered[l]
    BY <1>0, <1>3, ReceiveFields
  <2>2. /\ call'[c] = Idle /\ \A b \in Calls \ {c} : call'[b] = call[b]
        /\ call[c][1] = "received" /\ call[c][2] = r
    BY <1>0, <1>3 DEF ReceiveWrite, Return
  <2>3. Held(Idle) = {} /\ Idle[1] = "idle" /\ Held(call[c]) = DOMAIN r
    BY <2>2, HeldForms DEF Idle
  <2>4. order'.received \in [Lines -> Nat] /\ \A l \in Lines : order'.received[l] >= order.received[l]
    BY <1>0, <2>1, AddTyped DEF Add
  <2>5. LinesHeld'
    <3>1. ASSUME NEW b \in Calls, NEW m \in Held(call'[b])
          PROVE  m \in DOMAIN call'[b][2] /\ order'.received[m] + call'[b][2][m] <= Ordered[m]
      <4>1. b # c /\ call'[b] = call[b] /\ m \in DOMAIN call[b][2] /\ Fits(call[b][2], m)
        BY <1>0, <2>2, <2>3, <3>1 DEF LinesHeld
      <4>2. m \notin DOMAIN r
        BY <1>0, <2>2, <2>3, <3>1, <4>1 DEF LinesHeld
      <4>3. m \in Lines
        BY <1>0, <3>1, <4>1, ReceiveCall, HeldForms
      <4>4. order'.received[m] = order.received[m]
        BY <1>0, <2>1, <4>2, <4>3 DEF Add
      <4> QED
        BY <4>1, <4>4 DEF Fits
    <3>2. ASSUME NEW a \in Calls, NEW b \in Calls, a # b
          PROVE  Held(call'[a]) \cap Held(call'[b]) = {}
      BY <1>0, <2>2, <2>3, <3>2 DEF LinesHeld
    <3> QED
      BY <3>1, <3>2 DEF LinesHeld, Fits
  <2>6. StatusRead'
    <3>1. ASSUME NEW b \in Calls, call'[b][1] = "received"
          PROVE  /\ call'[b][3] # "APPROVED"
                 /\ call'[b][3] = "FULLY_RECEIVED" =>
                        \A l \in Lines : Add(order'.received, call'[b][2])[l] >= Ordered[l]
                 /\ ~Without({"crossed"})'
      <4>1. b # c /\ call'[b] = call[b]
        BY <2>2, <2>3, <3>1
      <4>2. /\ call[b][3] # "APPROVED"
            /\ call[b][3] = "FULLY_RECEIVED" =>
                   \A l \in Lines : Add(order.received, call[b][2])[l] >= Ordered[l]
            /\ ~Without({"crossed"})'
        BY <1>0, <2>2, <3>1, <4>1 DEF StatusRead
      <4>3. call[b][2] \in Receipts
        BY <3>1, <4>1, ReceiveCall
      <4>4. \A l \in Lines : /\ Add(order.received, call[b][2])[l] \in Nat
                             /\ Add(order'.received, call[b][2])[l] \in Nat
                             /\ Add(order'.received, call[b][2])[l]
                                    >= Add(order.received, call[b][2])[l]
        BY <1>0, <2>4, <4>3 DEF Add
      <4> QED
        BY <1>0, <4>1, <4>2, <4>4
    <3>2. Without({"crossed"})' =>
              \A a, b \in Calls : call'[a][1] = "received" /\ call'[b][1] = "received" => a = b
      BY <3>1
    <3> QED
      BY <3>1, <3>2 DEF StatusRead
  <2> QED
    BY <2>5, <2>6
<1>4. ASSUME NEW c \in Calls, EditWrite(c)
      PROVE  LinesHeld' /\ StatusRead'
  <2>1. /\ \A b \in Calls : Held(call[b]) = {}
        /\ call'[c] = Idle /\ \A b \in Calls \ {c} : call'[b] = call[b]
    BY <1>0, <1>4 DEF EditWrite, Return
  <2>2. Held(Idle) = {} /\ Idle[1] # "received"
    BY HeldForms DEF Idle
  <2>3. \A b \in Calls : Held(call'[b]) = {}
    BY <2>1, <2>2
  <2>4. ASSUME NEW b \in Calls, call'[b][1] = "received"
        PROVE  FALSE
    <3>1. call[b][1] = "received" /\ Held(call[b]) = {}
      BY <2>1, <2>2, <2>4
    <3>2. call[b][2] \in Receipts /\ DOMAIN call[b][2] = {}
      BY <3>1, ReceiveCall, HeldForms
    <3> QED
      BY <3>2, ReceiptForms
  <2> QED
    BY <2>3, <2>4 DEF LinesHeld, StatusRead
<1> QED
  BY ReceiptSteps, ReceiptsQuiet, <1>1, <1>2, <1>3, <1>4

LEMMA OrderKept ==
    ASSUME ConstantsAssumption, TypeOK, [Next]_vars, OrderInv
    PROVE  ReceivedAsOrdered' /\ StatusFollowsReceipts'
<1> DEFINE Goal == ReceivedAsOrdered' /\ StatusFollowsReceipts'
<1>0. /\ ReceivedAsOrdered /\ StatusFollowsReceipts
      /\ order.received \in [Lines -> Nat] /\ order.delivered \in [Lines -> Nat]
      /\ Ordered \in [Lines -> Nat] /\ Lines # {} /\ marks \subseteq marks'
      /\ \A l \in Lines : Ordered[l] > 0
  BY MarksGrow DEF OrderInv, TypeOK, Order, ConstantsAssumption
<1>1. CASE UNCHANGED order
  BY <1>0, <1>1 DEF ReceivedAsOrdered, StatusFollowsReceipts, Without
<1>2. CASE Send
  <2>1. /\ order'.received = order.received /\ order'.delivered = order.delivered
        /\ order'.status = "SENT"
        /\ "reopened" \notin marks' =>
               order.status \notin {"PARTIALLY_RECEIVED", "FULLY_RECEIVED", "CANCELLED"}
    BY <1>2 DEF Send, Mark, TypeOK, Order
  <2> QED
    BY <1>0, <2>1 DEF ReceivedAsOrdered, StatusFollowsReceipts, Without
<1>3. ASSUME NEW c \in Calls, ApproveWrite(c)
      PROVE  Goal
  <2>1. /\ order'.received = order.received /\ order'.delivered = order.delivered
        /\ order'.status = "APPROVED"
        /\ "overtaken" \notin marks' => order.status \in {"DRAFT", "SENT"}
    BY <1>3 DEF ApproveWrite, Mark, Approvable, TypeOK, Order
  <2> QED
    BY <1>0, <2>1 DEF ReceivedAsOrdered, StatusFollowsReceipts, Without
<1>4. ASSUME NEW c \in Calls, CancelWrite(c)
      PROVE  Goal
  <2>1. /\ order'.received = order.received /\ order'.delivered = order.delivered
        /\ order'.status = "CANCELLED"
        /\ "overtaken" \notin marks' => order.status # "FULLY_RECEIVED"
    BY <1>4 DEF CancelWrite, Mark, Cancellable, TypeOK, Order
  <2> QED
    BY <1>0, <2>1 DEF ReceivedAsOrdered, StatusFollowsReceipts, Without
<1>5. ASSUME NEW c \in Calls, EditWrite(c)
      PROVE  Goal
  <2>1. /\ order'.received = NoUnits /\ order'.delivered = order.delivered
        /\ order'.status = order.status
        /\ "relisted" \notin marks' => order.delivered = NoUnits
    BY <1>5 DEF EditWrite, Mark, TypeOK, Order
  <2>2. ReceivedAsOrdered'
    <3>1. \A l \in Lines : NoUnits[l] = 0
      BY DEF NoUnits
    <3>2. \A l \in Lines : order'.received[l] <= Ordered[l]
      BY <1>0, <2>1, <3>1
    <3> QED
      BY <1>0, <2>1, <3>2 DEF ReceivedAsOrdered, Without
  <2>3. "relisted" \notin marks' => order'.received = order.received
    BY <1>0, <2>1 DEF ReceivedAsOrdered, Without
  <2>4. StatusFollowsReceipts'
    BY <1>0, <2>1, <2>3 DEF StatusFollowsReceipts, Without
  <2> QED
    BY <2>2, <2>4
<1>6. ASSUME NEW c \in Calls, NEW r \in Receipts, ReceiveWrite(c, r)
      PROVE  Goal
  <2>1. /\ order'.received = Add(order.received, r)
        /\ order'.delivered = Add(order.delivered, r)
        /\ order'.status = call[c][3]
        /\ \A l \in Lines : order'.received[l] <= Ordered[l]
    BY <1>0, <1>6, ReceiveFields DEF OrderInv
  <2>2. order'.received \in [Lines -> Nat]
    BY <1>0, <2>1, AddTyped
  <2>3. ReceivedAsOrdered'
    BY <1>0, <2>1 DEF ReceivedAsOrdered, Without, Add
  <2>4. (\A l \in Lines : order'.received[l] >= Ordered[l])
        <=> (\A l \in Lines : order'.received[l] = Ordered[l])
    BY <1>0, <2>1, <2>2
  <2>5. /\ call[c][1] = "received" /\ call[c][2] = r
        /\ call[c][3] \in {"PARTIALLY_RECEIVED", "FULLY_RECEIVED"}
        /\ call[c][3] = "FULLY_RECEIVED" => \A l \in Lines : order'.received[l] >= Ordered[l]
        /\ Without({"crossed"})' => call[c][3] = StatusOf(order'.received)
    BY <1>0, <1>6, <2>1, ReceiveCall DEF ReceiveWrite, OrderInv, StatusRead, Without
  <2>6. \E l \in Lines : order'.received[l] > 0
    <3>1. PICK l \in DOMAIN r : l \in Lines /\ r[l] \in Nat /\ r[l] > 0
      BY ReceiptForms
    <3> QED
      BY <1>0, <2>1, <3>1 DEF Add
  <2>7. StatusFollowsReceipts'
    BY <2>1, <2>4, <2>5, <2>6 DEF StatusFollowsReceipts, StatusOf
  <2> QED
    BY <2>3, <2>7
<1> QED
  BY OrderSteps, <1>1, <1>2, <1>3, <1>4, <1>5, <1>6

(***************************************************************************)
(* The physical inventory.                                                 *)
(***************************************************************************)

\* The call takes part in the validation of the inventory.
Active(c) == call[c][1] \in {"adjust", "change", "validate"}

\* The steps that bear on the inventory: all others leave it and its calls alone.
LEMMA CountSteps ==
    ASSUME TypeOK, [Next]_vars
    PROVE  \/ UNCHANGED <<stock, goods, count>>
              /\ \A b \in Calls : call'[b] = call[b] \/ (~Active(b) /\ ~Active(b)')
           \/ \E c \in Calls, r \in Receipts : ReceiveWrite(c, r)
           \/ \E l \in Lines : SellUnit(l) \/ LoseUnit(l)
           \/ CreateCount \/ CancelCount
           \/ \E c \in Calls, correct \in BOOLEAN : Validate(c, correct)
           \/ \E c \in Calls, l \in Lines : AdjustRead(c, l)
           \/ \E c \in Calls : AdjustWrite(c) \/ ValidateWrite(c) \/ Cut(c)
<1> DEFINE Goal == \/ UNCHANGED <<stock, goods, count>>
                      /\ \A b \in Calls : call'[b] = call[b] \/ (~Active(b) /\ ~Active(b)')
                   \/ \E c \in Calls, r \in Receipts : ReceiveWrite(c, r)
                   \/ \E l \in Lines : SellUnit(l) \/ LoseUnit(l)
                   \/ CreateCount \/ CancelCount
                   \/ \E c \in Calls, correct \in BOOLEAN : Validate(c, correct)
                   \/ \E c \in Calls, l \in Lines : AdjustRead(c, l)
                   \/ \E c \in Calls : AdjustWrite(c) \/ ValidateWrite(c) \/ Cut(c)
           Quiet == /\ UNCHANGED <<stock, goods, count>>
                    /\ \A b \in Calls : call'[b] = call[b] \/ (~Active(b) /\ ~Active(b)')
<1>0. call \in [Calls -> Requests]
  BY DEF TypeOK
\* A call that is and gets something else than an adjustment.
<1>1. ASSUME NEW c \in Calls, NEW r, call' = [call EXCEPT ![c] = r], ~Active(c),
             r[1] \notin {"adjust", "change", "validate"}, UNCHANGED <<stock, goods, count>>
      PROVE  Quiet
  BY <1>0, <1>1 DEF Active
<1>2. ASSUME NEW c \in Calls, Return(c), ~Active(c), UNCHANGED <<stock, goods, count>>
      PROVE  Quiet
  <2>1. call' = [call EXCEPT ![c] = <<"idle">>]
    BY <1>2 DEF Return, Idle
  <2> QED
    BY <1>1, <1>2, <2>1
<1>3. ASSUME NEW c \in Calls, NEW r, Start(c, r),
             r[1] \notin {"adjust", "change", "validate"}, UNCHANGED <<stock, goods, count>>
      PROVE  Quiet
  BY <1>1, <1>3 DEF Start, Active, Idle
<1>4. ASSUME UNCHANGED <<stock, goods, count, call>>
      PROVE  Quiet
  BY <1>4
<1> HIDE DEF Quiet
<1>5. ASSUME NEW c \in Calls,
             \/ Approve(c) \/ ApproveWrite(c) \/ Cancel(c) \/ CancelWrite(c)
             \/ Edit(c) \/ EditWrite(c)
      PROVE  Quiet
  <2>1. UNCHANGED <<stock, goods, count>>
    BY <1>5 DEF Approve, ApproveWrite, Cancel, CancelWrite, Edit, EditWrite, Counting
  <2>2. CASE Approve(c) \/ Cancel(c) \/ Edit(c)
    BY <1>3, <2>1, <2>2 DEF Approve, Cancel, Edit
  <2>3. CASE ApproveWrite(c) \/ CancelWrite(c) \/ EditWrite(c)
    BY <1>2, <2>1, <2>3 DEF ApproveWrite, CancelWrite, EditWrite, Active
  <2> QED
    BY <1>5, <2>2, <2>3
<1>6. ASSUME NEW c \in Calls, NEW r \in Receipts, Receive(c, r) \/ ReceiveStatus(c, r)
      PROVE  Quiet
  <2>1. UNCHANGED <<stock, goods, count>>
    BY <1>6 DEF Receive, ReceiveStatus, Counting
  <2>2. CASE Receive(c, r)
    BY <1>3, <2>1, <2>2 DEF Receive
  <2>3. CASE ReceiveStatus(c, r)
    <3> DEFINE q == <<"received", r, StatusOf(Add(order.received, r))>>
    <3>1. call' = [call EXCEPT ![c] = q] /\ ~Active(c)
      BY <2>3 DEF ReceiveStatus, Active
    <3>2. q[1] \notin {"adjust", "change", "validate"}
      OBVIOUS
    <3> HIDE DEF q
    <3> QED
      BY <1>1, <2>1, <3>1, <3>2
  <2> QED
    BY <1>6, <2>2, <2>3
<1>18. ASSUME NEW c \in Calls, NEW r \in Receipts, NEW l \in DOMAIN r, ReceiveLine(c, r, l)
      PROVE  Quiet
  <2> DEFINE q == <<"receive", r, order.edits, call[c][4] \cup {l}>>
  <2>1. call' = [call EXCEPT ![c] = q] /\ ~Active(c) /\ UNCHANGED <<stock, goods, count>>
    BY <1>18 DEF ReceiveLine, Active, Counting
  <2>2. q[1] \notin {"adjust", "change", "validate"}
    OBVIOUS
  <2> HIDE DEF q
  <2> QED
    BY <1>1, <2>1, <2>2
<1>19. ASSUME NEW c \in Calls, ReceiveRefused(c)
      PROVE  Quiet
  BY <1>2, <1>19 DEF ReceiveRefused, Active, Counting
<1>7. ASSUME NEW c \in Calls, NEW amount \in Amounts,
             \/ PaySupplier(c, amount)
             \/ PaySupplierRead(c, amount)
             \/ PaySupplierWrite(c, amount)
      PROVE  Quiet
  <2>1. UNCHANGED <<stock, goods, count>>
    BY <1>7 DEF PaySupplier, PaySupplierRead, PaySupplierWrite, Counting
  <2>2. CASE PaySupplier(c, amount)
    BY <1>3, <2>1, <2>2 DEF PaySupplier
  <2>3. CASE PaySupplierRead(c, amount)
    <3>1. call' = [call EXCEPT ![c] = <<"pay", amount, bill.paid + amount>>] /\ ~Active(c)
      BY <2>3 DEF PaySupplierRead, Active
    <3> QED
      BY <1>1, <2>1, <3>1
  <2>4. CASE PaySupplierWrite(c, amount)
    BY <1>2, <2>1, <2>4 DEF PaySupplierWrite, Active
  <2> QED
    BY <1>7, <2>2, <2>3, <2>4
<1>8. ASSUME NEW c \in Calls, NEW t \in Transfers,
             ValidateTransfer(c, t) \/ ValidateTransferWrite(c, t)
      PROVE  Quiet
  <2>1. UNCHANGED <<stock, goods, count>>
    BY <1>8 DEF ValidateTransfer, ValidateTransferWrite, Counting
  <2> QED
    BY <1>2, <1>3, <1>8, <2>1 DEF ValidateTransfer, ValidateTransferWrite, Active
<1>9. CASE Send \/ CreateBill
  BY <1>4, <1>9 DEF Send, CreateBill, Counting
<1>10. ASSUME UNCHANGED vars
       PROVE  Quiet
  BY <1>4, <1>10 DEF vars
<1>11. Quiet => Goal
  BY DEF Quiet
<1>12. PurchaseStep => Goal
  BY <1>5, <1>6, <1>7, <1>9, <1>11, <1>18, <1>19 DEF PurchaseStep
<1>13. CountStep => Goal
  BY DEF CountStep
<1>14. StoresStep => Goal
  BY <1>8, <1>11 DEF StoresStep
<1> QED
  BY <1>10, <1>11, <1>12, <1>13, <1>14 DEF Next

\* Nothing is adjusted before there is an inventory.
NotBegun ==
    count.status = "NONE" => count.applied = NoUnits /\ \A c \in Calls : ~Active(c)

\* One call at most validates the inventory.
OneActive ==
    Without({"together"}) => \A b, c \in Calls : Active(b) /\ Active(c) => b = c

\* A draft holds what is there, and a change in hand brings its row to what was counted.
Counted ==
    /\ Without({"moved"}) /\ count.status = "DRAFT" => count.counted = goods
    /\ Without({"moved", "together", "overtaken"}) /\ count.status = "DRAFT" =>
           \A c \in Calls : call[c][1] = "change" =>
               stock[call[c][3]] + call[c][4] = count.counted[call[c][3]]

\* What a call that validates the inventory has done so far.
HalfDone(c) ==
    /\ call[c][1] = "adjust" =>
           \A l \in Lines : count.applied[l] = IF l \in call[c][2] THEN 0 ELSE 1
    /\ call[c][1] = "change" =>
           /\ call[c][3] \notin call[c][2]
           /\ \A l \in Lines :
                  count.applied[l] = IF l \in call[c][2] \/ l = call[c][3] THEN 0 ELSE 1
    /\ call[c][1] = "validate" =>
           \A l, m \in Lines : count.applied[l] <= 1 /\ count.applied[l] = count.applied[m]

\* A draft was adjusted by the call that validates it, if there is one.
Partial ==
    Without({"overtaken", "reopened", "together", "cut"}) /\ count.status = "DRAFT" =>
        /\ (\A c \in Calls : ~Active(c)) => count.applied = NoUnits
        /\ \A c \in Calls : HalfDone(c)

CountInv ==
    /\ NotBegun /\ OneActive /\ Counted /\ Partial
    /\ CountCorrects /\ AppliedOnce

\* Marks that are not there yet were not there before.
LEMMA WithoutGrows ==
    ASSUME [Next]_vars, NEW ms, Without(ms)'
    PROVE  Without(ms)
  BY MarksGrow DEF Without

\* Sales, losses and receipts change the row and the goods alike, a draft apart.
LEMMA GoodsMove ==
    ASSUME ConstantsAssumption, TypeOK, [Next]_vars, CountInv, UNCHANGED count,
           \A b \in Calls : call'[b] = call[b] \/ (~Active(b) /\ ~Active(b)'),
           Without({"moved"})' =>
               /\ count.status # "DRAFT"
               /\ count.status # "NONE" =>
                      \A l \in Lines : stock[l] = goods[l] => stock'[l] = goods'[l]
    PROVE  CountInv'
<1>1. NotBegun'
  BY DEF CountInv, NotBegun, Active
<1>2. OneActive'
  BY WithoutGrows DEF CountInv, OneActive, Active
<1>3. Counted'
  BY DEF Counted, Without
<1>4. Partial'
  <2>1. SUFFICES ASSUME Without({"overtaken", "reopened", "together", "cut"})',
                        count.status = "DRAFT"
                 PROVE  /\ (\A c \in Calls : ~Active(c)') => count.applied = NoUnits
                        /\ \A c \in Calls : HalfDone(c)'
    BY DEF Partial
  <2>2. /\ (\A c \in Calls : ~Active(c)) => count.applied = NoUnits
        /\ \A c \in Calls : HalfDone(c)
    BY <2>1, WithoutGrows DEF CountInv, Partial
  <2>3. (\A c \in Calls : ~Active(c)') => \A c \in Calls : ~Active(c)
    BY DEF Active
  <2>4. ASSUME NEW c \in Calls
        PROVE  HalfDone(c)'
    BY <2>2 DEF HalfDone, Active
  <2> QED
    BY <2>2, <2>3, <2>4
<1>5. CountCorrects'
  <2>1. SUFFICES ASSUME Without({"moved", "together", "overtaken"})', NEW l \in Lines,
                        count.applied[l] > 0
                 PROVE  stock'[l] = goods'[l]
    BY DEF CountCorrects
  <2>2. count.status # "NONE"
    BY <2>1 DEF CountInv, NotBegun, NoUnits
  <2>3. stock[l] = goods[l]
    BY <2>1, WithoutGrows DEF CountInv, CountCorrects
  <2> QED
    BY <2>1, <2>2, <2>3 DEF Without
<1>6. AppliedOnce'
  <2>1. Without({"overtaken", "reopened", "together", "cut"})'
        => Without({"overtaken", "reopened", "together", "cut"})
    BY WithoutGrows
  <2> QED
    BY <2>1 DEF CountInv, AppliedOnce
<1> QED
  BY <1>1, <1>2, <1>3, <1>4, <1>5, <1>6 DEF CountInv

\* The fields of the inventory an adjustment writes.
LEMMA AdjustFields ==
    ASSUME TypeOK, NEW c \in Calls, AdjustWrite(c)
    PROVE  /\ call[c][3] \in Lines
           /\ count'.status = count.status /\ count'.counted = count.counted
           /\ count'.applied = [count.applied EXCEPT ![call[c][3]] = count.applied[call[c][3]] + 1]
           /\ stock' = [stock EXCEPT ![call[c][3]] = stock[call[c][3]] + call[c][4]]
           /\ goods' = goods
           /\ call' = [call EXCEPT ![c] = Adjusted(c)]
           /\ "overtaken" \notin marks' => count.status = "DRAFT"
           /\ Active(c) /\ Active(c)'
<1>1. call[c][1] = "change" /\ call[c][3] \in Lines
  BY ChangeCall DEF AdjustWrite
<1>2. call' = [call EXCEPT ![c] = Adjusted(c)] /\ call \in [Calls -> Requests]
  BY DEF AdjustWrite, TypeOK
<1>3. Adjusted(c)[1] \in {"adjust", "validate"}
  BY DEF Adjusted
<1>4. Active(c) /\ Active(c)'
  BY <1>1, <1>2, <1>3 DEF Active
<1>5. /\ count'.status = count.status /\ count'.counted = count.counted
      /\ count'.applied = [count.applied EXCEPT ![call[c][3]] = count.applied[call[c][3]] + 1]
  BY DEF AdjustWrite, TypeOK, Count
<1>6. /\ stock' = [stock EXCEPT ![call[c][3]] = stock[call[c][3]] + call[c][4]]
      /\ goods' = goods
      /\ "overtaken" \notin marks' => count.status = "DRAFT"
  BY DEF AdjustWrite, Mark, Validatable
<1> QED
  BY <1>1, <1>2, <1>4, <1>5, <1>6

LEMMA AdjustKept ==
    ASSUME ConstantsAssumption, TypeOK, [Next]_vars, CountInv, NEW c \in Calls, AdjustWrite(c)
    PROVE  CountInv'
<1> DEFINE l == call[c][3]
<1>0. /\ l \in Lines
      /\ count'.status = count.status /\ count'.counted = count.counted
      /\ count'.applied = [count.applied EXCEPT ![l] = count.applied[l] + 1]
      /\ stock' = [stock EXCEPT ![l] = stock[l] + call[c][4]] /\ goods' = goods
      /\ call' = [call EXCEPT ![c] = Adjusted(c)]
      /\ "overtaken" \notin marks' => count.status = "DRAFT"
      /\ call[c][1] = "change" /\ Active(c) /\ Active(c)'
  BY AdjustFields DEF AdjustWrite
<1>1. /\ call \in [Calls -> Requests] /\ call[c][2] \in SUBSET Lines
      /\ stock \in [Lines -> Nat] /\ goods \in [Lines -> Nat]
      /\ count.applied \in [Lines -> Nat] /\ count.counted \in [Lines -> Nat]
  BY <1>0, ChangeCall DEF TypeOK, Count
<1> HIDE DEF l
<1>2. \A b \in Calls : b # c => call'[b] = call[b] /\ (Active(b)' <=> Active(b))
  BY <1>0, <1>1 DEF Active
<1>3. count.status # "NONE"
  BY <1>0 DEF CountInv, NotBegun
<1>4. NotBegun'
  BY <1>0, <1>3 DEF NotBegun
<1>5. OneActive'
  BY <1>0, <1>2, WithoutGrows DEF CountInv, OneActive
<1>6. Without({"together"})' => \A b \in Calls : b # c => ~Active(b)
  BY <1>0, WithoutGrows DEF CountInv, OneActive
<1>7. Counted'
  <2>1. Without({"moved"})' /\ count'.status = "DRAFT" => count'.counted = goods'
    BY <1>0, WithoutGrows DEF CountInv, Counted
  <2>2. ASSUME Without({"moved", "together", "overtaken"})', NEW b \in Calls,
               call'[b][1] = "change"
        PROVE  FALSE
    <3>1. CASE b = c
      <4>1. Adjusted(c)[1] # "change"
        BY DEF Adjusted
      <4> QED
        BY <1>0, <1>1, <2>2, <3>1, <4>1
    <3>2. CASE b # c
      BY <1>2, <1>6, <2>2, <3>2 DEF Active, Without
    <3> QED
      BY <3>1, <3>2
  <2> QED
    BY <2>1, <2>2 DEF Counted
<1>8. CountCorrects'
  <2>1. SUFFICES ASSUME Without({"moved", "together", "overtaken"})', NEW m \in Lines,
                        count'.applied[m] > 0
                 PROVE  stock'[m] = goods'[m]
    BY DEF CountCorrects
  <2>2. count.status = "DRAFT" /\ Without({"moved"})'
    BY <1>0, <2>1 DEF Without
  <2>3. stock[l] + call[c][4] = goods[l]
    BY <1>0, <2>1, <2>2, WithoutGrows DEF CountInv, Counted, l
  <2>4. CASE m = l
    BY <1>0, <1>1, <2>3, <2>4
  <2>5. CASE m # l
    BY <1>0, <1>1, <2>1, <2>5, WithoutGrows DEF CountInv, CountCorrects
  <2> QED
    BY <2>4, <2>5
\* What is known of a draft that only one call works on.
<1>9. ASSUME Without({"overtaken", "reopened", "together", "cut"})'
      PROVE  /\ count.status = "DRAFT" /\ l \notin call[c][2]
             /\ \A m \in Lines : count'.applied[m] = IF m \in call[c][2] THEN 0 ELSE 1
             /\ \A b \in Calls : b # c => ~Active(b)
  <2>1. count.status = "DRAFT" /\ \A b \in Calls : b # c => ~Active(b)
    BY <1>0, <1>6, <1>9 DEF Without
  <2>2. HalfDone(c)
    BY <1>9, <2>1, WithoutGrows DEF CountInv, Partial
  <2>3. l \notin call[c][2]
        /\ \A m \in Lines : count.applied[m] = IF m \in call[c][2] \/ m = l THEN 0 ELSE 1
    BY <1>0, <2>2 DEF HalfDone, l
  <2> QED
    BY <1>0, <1>1, <2>1, <2>3
<1>10. Partial'
  <2>1. SUFFICES ASSUME Without({"overtaken", "reopened", "together", "cut"})'
                 PROVE  \A b \in Calls : HalfDone(b)'
    BY <1>0 DEF Partial
  <2>2. ASSUME NEW b \in Calls, b # c
        PROVE  HalfDone(b)'
    BY <1>2, <1>9, <2>1, <2>2 DEF HalfDone, Active
  <2>3. HalfDone(c)'
    <3>1. CASE call[c][2] = {}
      <4>1. call'[c] = <<"validate">>
        BY <1>0, <1>1, <3>1 DEF Adjusted
      <4>2. \A m \in Lines : count'.applied[m] = 1
        BY <1>9, <2>1, <3>1
      <4> QED
        BY <4>1, <4>2 DEF HalfDone
    <3>2. CASE call[c][2] # {}
      <4>1. call'[c] = <<"adjust", call[c][2]>>
        BY <1>0, <1>1, <3>2 DEF Adjusted
      <4> QED
        BY <1>9, <2>1, <4>1 DEF HalfDone
    <3> QED
      BY <3>1, <3>2
  <2> QED
    BY <2>2, <2>3
<1>11. AppliedOnce'
  <2>1. SUFFICES ASSUME Without({"overtaken", "reopened", "together", "cut"})'
                 PROVE  /\ \A m \in Lines : count'.applied[m] <= 1
                        /\ count'.status \notin {"CANCELLED", "VALIDATED"}
    BY DEF AppliedOnce
  <2> QED
    BY <1>0, <1>9, <2>1
<1> QED
  BY <1>4, <1>5, <1>7, <1>8, <1>10, <1>11 DEF CountInv

LEMMA CountKept ==
    ASSUME ConstantsAssumption, TypeOK, [Next]_vars, CountInv
    PROVE  CountInv'
<1>0. /\ call \in [Calls -> Requests] /\ count \in Count /\ marks \subseteq marks'
      /\ stock \in [Lines -> Nat] /\ goods \in [Lines -> Nat]
  BY MarksGrow DEF TypeOK
<1>1. CASE /\ UNCHANGED <<stock, goods, count>>
           /\ \A b \in Calls : call'[b] = call[b] \/ (~Active(b) /\ ~Active(b)')
  <2>1. NotBegun' /\ OneActive' /\ CountCorrects' /\ AppliedOnce'
    BY <1>1, WithoutGrows DEF CountInv, NotBegun, OneActive, CountCorrects, AppliedOnce, Active
  <2>2. Counted'
    BY <1>1, WithoutGrows DEF CountInv, Counted, Active
  <2>3. Partial'
    BY <1>1, WithoutGrows DEF CountInv, Partial, HalfDone, Active
  <2> QED
    BY <2>1, <2>2, <2>3 DEF CountInv
<1>2. ASSUME NEW c \in Calls, NEW r \in Receipts, ReceiveWrite(c, r)
      PROVE  CountInv'
  <2>1. \A b \in Calls : call'[b] = call[b] \/ (~Active(b) /\ ~Active(b)')
    BY <1>0, <1>2 DEF ReceiveWrite, Return, Active, Idle
  <2>2. UNCHANGED count /\ (Without({"moved"})' => count.status # "DRAFT")
    BY <1>2 DEF ReceiveWrite, Without
  <2>3. \A l \in Lines : stock[l] = goods[l] => stock'[l] = goods'[l]
    BY <1>2 DEF ReceiveWrite, Add
  <2> QED
    BY <2>1, <2>2, <2>3, GoodsMove
<1>3. ASSUME NEW l \in Lines, SellUnit(l) \/ LoseUnit(l)
      PROVE  CountInv'
  <2>1. UNCHANGED <<count, call>>
    BY <1>3 DEF SellUnit, LoseUnit
  <2>2. Without({"moved"})' => count.status # "DRAFT"
    BY <1>3 DEF SellUnit, LoseUnit, Mark, Without
  <2>3. count.status # "NONE" => \A m \in Lines : stock[m] = goods[m] => stock'[m] = goods'[m]
    BY <1>0, <1>3 DEF SellUnit, LoseUnit
  <2> QED
    BY <2>1, <2>2, <2>3, GoodsMove
<1>4. CASE CreateCount
  <2>1. /\ count.status = "NONE" /\ count'.status = "DRAFT" /\ count'.counted = goods
        /\ count'.applied = count.applied /\ UNCHANGED <<stock, goods, call, marks>>
    BY <1>0, <1>4 DEF CreateCount, Count
  <2>2. count.applied = NoUnits /\ \A c \in Calls : ~Active(c)
    BY <2>1 DEF CountInv, NotBegun
  <2>3. \A l \in Lines : NoUnits[l] = 0
    BY DEF NoUnits
  <2>4. NotBegun' /\ OneActive' /\ Counted'
    BY <2>1, <2>2 DEF NotBegun, OneActive, Counted, Active
  <2>5. Partial'
    BY <2>1, <2>2 DEF Partial, HalfDone, Active
  <2>6. CountCorrects' /\ AppliedOnce'
    BY <2>1, <2>2, <2>3 DEF CountCorrects, AppliedOnce
  <2> QED
    BY <2>4, <2>5, <2>6 DEF CountInv
<1>5. CASE CancelCount
  <2>1. /\ count.status # "NONE" /\ count'.status = "CANCELLED" /\ count'.counted = count.counted
        /\ count'.applied = count.applied /\ UNCHANGED <<stock, goods, call>>
        /\ "reopened" \notin marks' => count.applied = NoUnits
    BY <1>0, <1>5 DEF CancelCount, Count, Mark
  <2>2. NotBegun' /\ Counted' /\ Partial'
    BY <2>1 DEF NotBegun, Counted, Partial
  <2>3. OneActive' /\ CountCorrects'
    BY <2>1, WithoutGrows DEF CountInv, OneActive, CountCorrects, Active
  <2>4. AppliedOnce'
    BY <2>1, WithoutGrows DEF CountInv, AppliedOnce, Without
  <2> QED
    BY <2>2, <2>3, <2>4 DEF CountInv
<1>6. ASSUME NEW c \in Calls, NEW correct \in BOOLEAN, Validate(c, correct)
      PROVE  CountInv'
  <2>1. /\ count.status = "DRAFT" /\ UNCHANGED <<stock, goods, count>>
        /\ \A b \in Calls : b # c => call'[b] = call[b]
        /\ call[c] = Idle
        /\ Without({"together"})' => \A b \in Calls : ~Active(b)
    BY <1>0, <1>6 DEF Validate, Validatable, Start, Mark, Without, Active, Counting
  <2>2. call'[c] = <<"adjust", Lines>> \/ call'[c] = <<"validate">>
    BY <1>0, <1>6 DEF Validate, Start
  <2>3. \A b \in Calls : b # c => (Active(b)' <=> Active(b))
    BY <2>1 DEF Active
  <2>4. NotBegun' /\ CountCorrects' /\ AppliedOnce'
    BY <2>1, WithoutGrows DEF CountInv, NotBegun, CountCorrects, AppliedOnce
  <2>5. OneActive'
    BY <2>1, <2>3 DEF OneActive
  <2>6. Counted'
    <3>1. \A b \in Calls : call'[b][1] = "change" => call'[b] = call[b]
      BY <2>1, <2>2
    <3> QED
      BY <2>1, <3>1, WithoutGrows DEF CountInv, Counted
  <2>7. Partial'
    <3>1. SUFFICES ASSUME Without({"overtaken", "reopened", "together", "cut"})'
                   PROVE  /\ ~(\A b \in Calls : ~Active(b)')
                          /\ \A b \in Calls : HalfDone(b)'
      BY DEF Partial
    <3>2. Active(c)' /\ \A b \in Calls : ~Active(b)
      BY <2>1, <2>2, <3>1 DEF Active, Without
    <3>3. count.applied = NoUnits /\ \A l \in Lines : NoUnits[l] = 0
      BY <2>1, <3>1, <3>2, WithoutGrows DEF CountInv, Partial, NoUnits
    <3>4. HalfDone(c)'
      BY <2>1, <2>2, <3>3 DEF HalfDone
    <3>5. ASSUME NEW b \in Calls, b # c
          PROVE  HalfDone(b)'
      BY <2>1, <3>2, <3>5 DEF HalfDone, Active
    <3> QED
      BY <3>2, <3>4, <3>5
  <2> QED
    BY <2>4, <2>5, <2>6, <2>7 DEF CountInv
<1>7. ASSUME NEW c \in Calls, NEW l \in Lines, AdjustRead(c, l)
      PROVE  CountInv'
  <2> DEFINE left == call[c][2] \ {l}
             n == count.counted[l] - stock[l]
  <2>1. /\ UNCHANGED <<stock, goods, count>> /\ call[c][1] = "adjust" /\ l \in call[c][2]
        /\ call' = [call EXCEPT ![c] = <<"change", left, l, n>>]
    BY <1>7 DEF AdjustRead, Counting
  <2>2. call'[c] = <<"change", left, l, n>> /\ \A b \in Calls : b # c => call'[b] = call[b]
    BY <1>0, <2>1
  <2>3. stock[l] + n = count.counted[l]
    BY <1>0 DEF Count
  <2>4. \A b \in Calls : Active(b)' <=> Active(b)
    BY <2>1, <2>2 DEF Active
  <2>5. NotBegun' /\ CountCorrects' /\ AppliedOnce'
    BY <2>1, <2>4, WithoutGrows DEF CountInv, NotBegun, CountCorrects, AppliedOnce
  <2>6. OneActive'
    BY <2>4, WithoutGrows DEF CountInv, OneActive
  <2>7. Counted'
    <3>1. Without({"moved"})' /\ count'.status = "DRAFT" => count'.counted = goods'
      BY <2>1, WithoutGrows DEF CountInv, Counted
    <3>2. ASSUME Without({"moved", "together", "overtaken"})', count'.status = "DRAFT",
                 NEW b \in Calls, call'[b][1] = "change"
          PROVE  stock'[call'[b][3]] + call'[b][4] = count'.counted[call'[b][3]]
      <4>1. CASE b = c
        BY <2>1, <2>2, <2>3, <4>1
      <4>2. CASE b # c
        BY <2>1, <2>2, <3>2, <4>2, WithoutGrows DEF CountInv, Counted
      <4> QED
        BY <4>1, <4>2
    <3> QED
      BY <3>1, <3>2 DEF Counted
  <2>8. Partial'
    <3>1. SUFFICES ASSUME Without({"overtaken", "reopened", "together", "cut"})',
                          count.status = "DRAFT"
                   PROVE  /\ ~(\A b \in Calls : ~Active(b)')
                          /\ \A b \in Calls : HalfDone(b)'
      BY <2>1 DEF Partial
    <3>2. \A b \in Calls : HalfDone(b)
      BY <3>1, WithoutGrows DEF CountInv, Partial
    <3>3. Active(c)'
      BY <2>2 DEF Active
    <3>4. HalfDone(c)'
      <4>1. \A m \in Lines : count.applied[m] = IF m \in call[c][2] THEN 0 ELSE 1
        BY <2>1, <3>2 DEF HalfDone
      <4>2. l \notin left /\ \A m \in Lines : m \in call[c][2] <=> m \in left \/ m = l
        BY <2>1
      <4> HIDE DEF left, n
      <4>3. /\ call'[c][1] = "change" /\ call'[c][2] = left /\ call'[c][3] = l
            /\ count' = count
        BY <2>1, <2>2
      <4> QED
        BY <4>1, <4>2, <4>3 DEF HalfDone
    <3>5. ASSUME NEW b \in Calls, b # c
          PROVE  HalfDone(b)'
      BY <2>1, <2>2, <3>2, <3>5 DEF HalfDone
    <3> QED
      BY <3>3, <3>4, <3>5
  <2> QED
    BY <2>5, <2>6, <2>7, <2>8 DEF CountInv
<1>8. ASSUME NEW c \in Calls, ValidateWrite(c)
      PROVE  CountInv'
  <2>1. /\ call[c] = <<"validate">> /\ UNCHANGED <<stock, goods>>
        /\ count'.status = "VALIDATED" /\ count'.applied = count.applied
        /\ "overtaken" \notin marks' => count.status = "DRAFT"
    BY <1>0, <1>8 DEF ValidateWrite, Count, Mark, Validatable
  <2>2. \A b \in Calls : Active(b)' => Active(b)
    BY <1>0, <1>8 DEF ValidateWrite, Return, Active, Idle
  <2>3. NotBegun' /\ Counted' /\ Partial'
    BY <2>1 DEF NotBegun, Counted, Partial
  <2>4. OneActive' /\ CountCorrects'
    BY <2>1, <2>2, WithoutGrows DEF CountInv, OneActive, CountCorrects
  <2>5. AppliedOnce'
    <3>1. SUFFICES ASSUME Without({"overtaken", "reopened", "together", "cut"})'
                   PROVE  HalfDone(c)
      BY <2>1 DEF AppliedOnce, HalfDone
    <3>2. count.status = "DRAFT"
      BY <2>1, <3>1 DEF Without
    <3> QED
      BY <3>1, <3>2, WithoutGrows DEF CountInv, Partial
  <2> QED
    BY <2>3, <2>4, <2>5 DEF CountInv
<1>9. ASSUME NEW c \in Calls, Cut(c)
      PROVE  CountInv'
  <2>1. UNCHANGED <<stock, goods, count>> /\ "cut" \in marks'
    BY <1>9 DEF Cut, Counting
  <2>2. \A b \in Calls : call'[b] = call[b] \/ ~Active(b)'
    BY <1>0, <1>9 DEF Cut, Return, Active, Idle
  <2>3. \A b \in Calls : Active(b)' => Active(b) /\ call'[b] = call[b]
    BY <2>2 DEF Active
  <2>4. NotBegun' /\ CountCorrects'
    BY <2>1, <2>3, WithoutGrows DEF CountInv, NotBegun, CountCorrects
  <2>5. OneActive'
    BY <2>3, WithoutGrows DEF CountInv, OneActive
  <2>6. Counted'
    BY <2>1, <2>2, WithoutGrows DEF CountInv, Counted, Active
  <2>7. Partial' /\ AppliedOnce'
    BY <2>1 DEF Partial, AppliedOnce, Without
  <2> QED
    BY <2>4, <2>5, <2>6, <2>7 DEF CountInv
<1> QED
  BY CountSteps, AdjustKept, <1>1, <1>2, <1>3, <1>4, <1>5, <1>6, <1>7, <1>8, <1>9

\* The call pays the supplier, or moves a unit between stores.
Special == {"paid", "pay", "transfer"}

\* What a step does to the calls: but for payments, transfers and a cut, it changes a call
\* that is neither before nor after it a payment or a transfer.
LEMMA CallSteps ==
    ASSUME [Next]_vars
    PROVE  \/ UNCHANGED call
           \/ \E c \in Calls, amount \in Amounts :
                  \/ PaySupplier(c, amount)
                  \/ PaySupplierRead(c, amount)
                  \/ PaySupplierWrite(c, amount)
           \/ \E c \in Calls, t \in Transfers :
                  ValidateTransfer(c, t) \/ ValidateTransferWrite(c, t)
           \/ \E c \in Calls : Cut(c)
           \/ \E c \in Calls : \E r : /\ call' = [call EXCEPT ![c] = r]
                                      /\ call[c][1] \notin Special /\ r[1] \notin Special
<1> DEFINE Other == \E c \in Calls : \E r : /\ call' = [call EXCEPT ![c] = r]
                                            /\ call[c][1] \notin Special /\ r[1] \notin Special
           Goal == \/ UNCHANGED call
                   \/ \E c \in Calls, amount \in Amounts :
                          \/ PaySupplier(c, amount)
                          \/ PaySupplierRead(c, amount)
                          \/ PaySupplierWrite(c, amount)
                   \/ \E c \in Calls, t \in Transfers :
                          ValidateTransfer(c, t) \/ ValidateTransferWrite(c, t)
                   \/ \E c \in Calls : Cut(c)
                   \/ Other
<1> USE DEF Special
<1>1. ASSUME NEW c \in Calls, NEW r, Start(c, r), r[1] \notin Special
      PROVE  Other
  <2>1. call[c][1] \notin Special
    BY <1>1 DEF Start, Idle
  <2> QED
    BY <1>1, <2>1 DEF Start
<1>2. ASSUME NEW c \in Calls, Return(c), call[c][1] \notin Special
      PROVE  Other
  <2>1. Idle[1] \notin Special
    BY DEF Idle
  <2> QED
    BY <1>2, <2>1 DEF Return
<1> HIDE DEF Other
<1>3. ASSUME UNCHANGED vars
      PROVE  Goal
  BY <1>3 DEF vars
<1>4. ASSUME Send \/ CreateBill \/ CreateCount \/ CancelCount
      PROVE  Goal
  BY <1>4 DEF Send, CreateBill, CreateCount, CancelCount
<1>5. ASSUME NEW c \in Calls,
             \/ Approve(c) \/ ApproveWrite(c) \/ Cancel(c) \/ CancelWrite(c)
             \/ Edit(c) \/ EditWrite(c)
      PROVE  Goal
  <2>1. CASE Approve(c) \/ Cancel(c) \/ Edit(c)
    BY <1>1, <2>1 DEF Approve, Cancel, Edit
  <2>2. CASE ApproveWrite(c) \/ CancelWrite(c) \/ EditWrite(c)
    BY <1>2, <2>2 DEF ApproveWrite, CancelWrite, EditWrite
  <2> QED
    BY <1>5, <2>1, <2>2
<1>6. ASSUME NEW c \in Calls, NEW r \in Receipts,
             \/ Receive(c, r) \/ ReceiveStatus(c, r) \/ ReceiveWrite(c, r)
             \/ \E l \in DOMAIN r : ReceiveLine(c, r, l)
      PROVE  Goal
  <2>1. CASE Receive(c, r)
    BY <1>1, <2>1 DEF Receive
  <2>2. ASSUME NEW l \in DOMAIN r, ReceiveLine(c, r, l)
        PROVE  Goal
    <3> DEFINE q == <<"receive", r, order.edits, call[c][4] \cup {l}>>
    <3>1. call' = [call EXCEPT ![c] = q] /\ call[c][1] \notin Special
      BY <2>2 DEF ReceiveLine
    <3>2. q[1] \notin Special
      OBVIOUS
    <3> HIDE DEF q
    <3> QED
      BY <3>1, <3>2 DEF Other
  <2>3. CASE ReceiveStatus(c, r)
    <3> DEFINE q == <<"received", r, StatusOf(Add(order.received, r))>>
    <3>1. call' = [call EXCEPT ![c] = q] /\ call[c][1] \notin Special
      BY <2>3 DEF ReceiveStatus
    <3>2. q[1] \notin Special
      OBVIOUS
    <3> HIDE DEF q
    <3> QED
      BY <3>1, <3>2 DEF Other
  <2>4. CASE ReceiveWrite(c, r)
    BY <1>2, <2>4 DEF ReceiveWrite
  <2> QED
    BY <1>6, <2>1, <2>2, <2>3, <2>4
<1>7. ASSUME NEW l \in Lines, SellUnit(l) \/ LoseUnit(l)
      PROVE  Goal
  BY <1>7 DEF SellUnit, LoseUnit
<1>8. ASSUME NEW c \in Calls, NEW correct \in BOOLEAN, Validate(c, correct)
      PROVE  Goal
  BY <1>1, <1>8 DEF Validate
<1>9. ASSUME NEW c \in Calls, NEW l \in Lines, AdjustRead(c, l)
      PROVE  Goal
  <2> DEFINE r == <<"change", call[c][2] \ {l}, l, count.counted[l] - stock[l]>>
  <2>1. call' = [call EXCEPT ![c] = r] /\ call[c][1] \notin Special
    BY <1>9 DEF AdjustRead
  <2>2. r[1] \notin Special
    OBVIOUS
  <2> HIDE DEF r
  <2> QED
    BY <2>1, <2>2 DEF Other
<1>10. ASSUME NEW c \in Calls,
             ReceiveRefused(c) \/ AdjustWrite(c) \/ ValidateWrite(c) \/ Cut(c)
       PROVE  Goal
  <2>1. CASE AdjustWrite(c)
    <3>1. Adjusted(c)[1] \notin Special
      BY DEF Adjusted
    <3> QED
      BY <2>1, <3>1 DEF AdjustWrite, Other
  <2>2. CASE ReceiveRefused(c) \/ ValidateWrite(c)
    BY <1>2, <2>2 DEF ReceiveRefused, ValidateWrite
  <2> QED
    BY <1>10, <2>1, <2>2
<1>11. ASSUME NEW c \in Calls, NEW amount \in Amounts,
              \/ PaySupplier(c, amount)
              \/ PaySupplierRead(c, amount)
              \/ PaySupplierWrite(c, amount)
       PROVE  Goal
  BY <1>11
<1>12. ASSUME NEW c \in Calls, NEW t \in Transfers,
              ValidateTransfer(c, t) \/ ValidateTransferWrite(c, t)
       PROVE  Goal
  BY <1>12
<1>13. ASSUME NEW c \in Calls, Cut(c)
       PROVE  Goal
  BY <1>13
<1>14. Goal
  <2> HIDE DEF Goal
  <2>1. PurchaseStep => Goal
    BY <1>4, <1>5, <1>6, <1>10, <1>11 DEF PurchaseStep
  <2>2. CountStep => Goal
    BY <1>4, <1>7, <1>8, <1>9, <1>10 DEF CountStep
  <2>3. StoresStep => Goal
    BY <1>12 DEF StoresStep
  <2> QED
    BY <1>3, <1>13, <2>1, <2>2, <2>3 DEF Next
<1> QED
  BY <1>14 DEF Other

(***************************************************************************)
(* The payments of the supplier.                                           *)
(***************************************************************************)

\* What a call has recorded as a payment and not yet added to the invoice.
Due(r) == IF r[1] \in {"paid", "pay"} THEN r[2] ELSE 0

Unwritten == SumFunction([c \in Calls |-> Due(call[c])])

\* One call at most has read the invoice, and the payments it does not hold are in the calls.
PaymentsTold ==
    /\ bill.payments = bill.paid + Unwritten
    /\ \A c \in Calls : call[c][1] = "pay" => call[c][3] = bill.paid + call[c][2]
    /\ \A b, c \in Calls : call[b][1] = "pay" /\ call[c][1] = "pay" => b = c
    /\ bill.status = "NONE" => bill.paid = 0
    /\ bill.status = "PAID" <=> bill.status # "NONE" /\ bill.paid >= Total /\ bill.paid > 0

BillInv == Without({"lost", "cut"}) => PaymentsTold

\* What a payment in hand holds.
LEMMA DueTyped ==
    ASSUME ConstantsAssumption, NEW r \in Requests
    PROVE  /\ r[1] \in {"paid", "pay"} => r[2] \in Nat \ {0}
           /\ r[1] = "pay" => r[3] \in Nat
           /\ Due(r) \in Nat
<1>2. r[1] \in {"paid", "pay"} => r[2] \in Amounts
  BY DEF Requests, Idle
<1>3. r[1] = "pay" => r[3] \in Nat
  BY DEF Requests, Idle
<1> QED
  BY <1>2, <1>3 DEF Due, ConstantsAssumption

\* A call that comes to something else changes the sum by what it had and what it has.
LEMMA UnwrittenChange ==
    ASSUME ConstantsAssumption, TypeOK, TypeOK', NEW c \in Calls,
           \A b \in Calls \ {c} : call'[b] = call[b]
    PROVE  /\ Unwritten \in Nat /\ Unwritten' \in Nat
           /\ Due(call'[c]) \in Nat /\ Due(call[c]) \in Nat
           /\ Unwritten' = Unwritten + (Due(call'[c]) - Due(call[c]))
<1> DEFINE f == [b \in Calls |-> Due(call[b])]
           g == [b \in Calls |-> Due(call'[b])]
<1>1. \A b \in Calls : f[b] \in Nat /\ g[b] \in Nat
  BY DueTyped DEF TypeOK
<1>3. g[c] = Due(call'[c]) /\ f[c] = Due(call[c]) /\ \A b \in Calls \ {c} : g[b] = f[b]
  OBVIOUS
<1>4. Unwritten = SumFunctionOnSet(f, Calls) /\ Unwritten' = SumFunctionOnSet(g, Calls)
  BY DEF Unwritten, SumFunction
<1> HIDE DEF f, g
<1>5. SumFunctionOnSet(f, Calls) \in Nat /\ SumFunctionOnSet(g, Calls) \in Nat
  BY <1>1, FiniteAssumption, SumNat
<1>6. SumFunctionOnSet(g, Calls) = SumFunctionOnSet(f, Calls) + (g[c] - f[c])
  BY <1>1, <1>3, FiniteAssumption, SumChange
<1> QED
  BY <1>1, <1>3, <1>4, <1>5, <1>6

\* Without a payment in a call nothing is unwritten.
LEMMA UnwrittenNone ==
    ASSUME \A c \in Calls : call[c][1] \notin {"paid", "pay"}
    PROVE  Unwritten = 0
<1> DEFINE f == [c \in Calls |-> Due(call[c])]
<1>1. \A c \in Calls : f[c] = 0
  BY DEF Due
<1>2. Unwritten = SumFunctionOnSet(f, Calls)
  BY DEF Unwritten, SumFunction
<1> HIDE DEF f
<1> QED
  BY <1>1, <1>2, FiniteAssumption, SumZero

LEMMA BillKept ==
    ASSUME ConstantsAssumption, TypeOK, TypeOK', [Next]_vars, BillInv
    PROVE  BillInv'
<1> SUFFICES ASSUME Without({"lost", "cut"})'
             PROVE  PaymentsTold'
  BY DEF BillInv
<1>0. /\ PaymentsTold
      /\ call \in [Calls -> Requests] /\ bill \in Bill /\ Total \in Nat
      /\ bill.paid \in Nat /\ bill.payments \in Nat
  BY WithoutGrows DEF BillInv, TypeOK, Bill, ConstantsAssumption
<1>1. ASSUME NEW c \in Calls, NEW amount \in Amounts, PaySupplier(c, amount)
      PROVE  PaymentsTold'
  <2>1. /\ call[c] = Idle /\ call' = [call EXCEPT ![c] = <<"paid", amount>>]
        /\ bill'.payments = bill.payments + amount
        /\ bill'.paid = bill.paid /\ bill'.status = bill.status
    BY <1>0, <1>1 DEF PaySupplier, Start, Bill
  <2>2. Due(<<"paid", amount>>) = amount /\ Due(Idle) = 0
    BY DEF Due, Idle
  <2>3. Unwritten' = Unwritten + amount /\ Unwritten \in Nat /\ amount \in Nat
    <3>1. call'[c] = <<"paid", amount>> /\ \A b \in Calls \ {c} : call'[b] = call[b]
      BY <1>0, <2>1
    <3> QED
      BY <2>1, <2>2, <3>1, UnwrittenChange, ConstantsAssumption DEF ConstantsAssumption
  <2>4. \A b \in Calls : call'[b][1] = "pay" => call'[b] = call[b]
    BY <1>0, <2>1
  <2> QED
    BY <1>0, <2>1, <2>3, <2>4 DEF PaymentsTold
<1>2. ASSUME NEW c \in Calls, NEW amount \in Amounts, PaySupplierRead(c, amount)
      PROVE  PaymentsTold'
  <2> DEFINE r == <<"pay", amount, bill.paid + amount>>
  <2>1. /\ call[c] = <<"paid", amount>> /\ call' = [call EXCEPT ![c] = r]
        /\ bill' = bill
    BY <1>2 DEF PaySupplierRead, Purchase
  <2>2. \A b \in Calls : call[b][1] # "pay"
    BY <1>2 DEF PaySupplierRead, Mark, Without
  <2>3. Due(r) = amount /\ Due(<<"paid", amount>>) = amount /\ amount \in Nat
    BY ConstantsAssumption DEF Due, ConstantsAssumption
  <2>4. Unwritten' = Unwritten
    <3>1. call'[c] = r /\ \A b \in Calls \ {c} : call'[b] = call[b]
      BY <1>0, <2>1
    <3> HIDE DEF r
    <3> QED
      BY <2>1, <2>3, <3>1, UnwrittenChange
  <2>5. call'[c] = r /\ \A b \in Calls : call'[b][1] = "pay" => b = c
    BY <1>0, <2>1, <2>2
  <2> QED
    BY <1>0, <2>1, <2>4, <2>5 DEF PaymentsTold
<1>3. ASSUME NEW c \in Calls, NEW amount \in Amounts, PaySupplierWrite(c, amount)
      PROVE  PaymentsTold'
  <2>1. /\ call[c][1] = "pay" /\ call[c][2] = amount /\ call[c][3] = bill.paid + amount
        /\ call' = [call EXCEPT ![c] = Idle]
        /\ bill'.payments = bill.payments /\ bill'.paid = bill.paid + amount
        /\ bill'.status = Settled(bill.paid + amount)
    BY <1>0, <1>3 DEF PaySupplierWrite, Return, PaymentsTold, Bill
  <2>2. Due(call[c]) = amount /\ Due(Idle) = 0 /\ amount \in Nat \ {0}
    BY <2>1, ConstantsAssumption DEF Due, Idle, ConstantsAssumption
  <2>3. Unwritten' = Unwritten - amount /\ Unwritten \in Nat
    <3>1. call'[c] = Idle /\ \A b \in Calls \ {c} : call'[b] = call[b]
      BY <1>0, <2>1
    <3> QED
      BY <2>2, <3>1, UnwrittenChange
  <2>4. \A b \in Calls : call'[b][1] # "pay"
    BY <1>0, <2>1 DEF PaymentsTold, Idle
  <2>5. /\ bill'.status # "NONE"
        /\ bill'.status = "PAID" <=> bill'.paid >= Total
    BY <2>1 DEF Settled
  <2> QED
    BY <1>0, <2>1, <2>2, <2>3, <2>4, <2>5 DEF PaymentsTold
<1>4. CASE CreateBill
  <2>1. /\ bill.status = "NONE" /\ bill'.status = "APPROVED" /\ call' = call
        /\ bill'.payments = bill.payments /\ bill'.paid = bill.paid
    BY <1>0, <1>4 DEF CreateBill, Bill
  <2>2. Unwritten' = Unwritten
    BY <2>1 DEF Unwritten
  <2> QED
    BY <1>0, <2>1, <2>2 DEF PaymentsTold
<1>5. ASSUME UNCHANGED bill, NEW c \in Calls, NEW r, call' = [call EXCEPT ![c] = r],
             call[c][1] \notin {"paid", "pay"}, r[1] \notin {"paid", "pay"}
      PROVE  PaymentsTold'
  <2>1. Due(r) = 0 /\ Due(call[c]) = 0
    BY <1>5 DEF Due
  <2>2. Unwritten' = Unwritten
    <3>1. call'[c] = r /\ \A b \in Calls \ {c} : call'[b] = call[b]
      BY <1>0, <1>5
    <3> QED
      BY <2>1, <3>1, UnwrittenChange
  <2>3. \A b \in Calls : call'[b][1] = "pay" => call'[b] = call[b]
    BY <1>0, <1>5
  <2> QED
    BY <1>0, <1>5, <2>2, <2>3 DEF PaymentsTold
<1>6. CASE UNCHANGED <<bill, call>>
  <2>1. Unwritten' = Unwritten
    BY <1>6 DEF Unwritten
  <2> QED
    BY <1>0, <1>6, <2>1 DEF PaymentsTold
<1>7. ASSUME NEW c \in Calls, Cut(c)
      PROVE  FALSE
  BY <1>7 DEF Cut, Without
<1>8. ASSUME UNCHANGED bill, NEW c \in Calls, NEW t \in Transfers,
             ValidateTransfer(c, t) \/ ValidateTransferWrite(c, t)
      PROVE  PaymentsTold'
  <2>1. CASE ValidateTransfer(c, t)
    <3> DEFINE r == <<"transfer", t, depot[From[t]]>>
    <3>1. call' = [call EXCEPT ![c] = r] /\ call[c][1] \notin {"paid", "pay"}
      BY <2>1 DEF ValidateTransfer, Start, Idle
    <3>2. r[1] \notin {"paid", "pay"}
      OBVIOUS
    <3> HIDE DEF r
    <3> QED
      BY <1>5, <1>8, <3>1, <3>2
  <2>2. CASE ValidateTransferWrite(c, t)
    <3>1. /\ call' = [call EXCEPT ![c] = Idle] /\ call[c][1] \notin {"paid", "pay"}
          /\ Idle[1] \notin {"paid", "pay"}
      BY <2>2 DEF ValidateTransferWrite, Return, Idle
    <3> QED
      BY <1>5, <1>8, <3>1
  <2> QED
    BY <1>8, <2>1, <2>2
<1>9. CASE UNCHANGED bill
  <2>1. ASSUME NEW c \in Calls, NEW r, call' = [call EXCEPT ![c] = r],
               call[c][1] \notin Special, r[1] \notin Special
        PROVE  PaymentsTold'
    BY <1>5, <1>9, <2>1 DEF Special
  <2> HIDE DEF PaymentsTold
  <2> QED
    BY <1>1, <1>2, <1>3, <1>6, <1>7, <1>8, <1>9, <2>1, CallSteps
<1> QED
  BY <1>1, <1>3, <1>4, <1>9, BillSteps

(***************************************************************************)
(* The warehouses of the stores.                                           *)
(***************************************************************************)

LEMMA BroughtTyped ==
    ASSUME TypeOK, NEW t \in Transfers, NEW d
    PROVE  Brought(t, d) \in Int
  BY DEF Brought, TypeOK

\* What a transfer does to the rows, and to what it has brought and taken.
LEMMA UnitsMoved ==
    ASSUME ConstantsAssumption, TypeOK, NEW c \in Calls, NEW t \in Transfers,
           ValidateTransferWrite(c, t), NEW d \in Depots
    PROVE  /\ InDepot(d) \in Int
           /\ InDepot(d)' = InDepot(d) + (Brought(t, d)' - Brought(t, d))
           /\ \A u \in Transfers \ {t} : Brought(u, d)' = Brought(u, d)
<1>1. From[t] \in Depots /\ To[t] \in Depots /\ From[t] # To[t] /\ None \notin Int
  BY DEF ConstantsAssumption
<1>2. /\ depot \in [Depots -> Int \cup {None}] /\ moves \in [Transfers -> [out : Nat, in : Nat]]
      /\ moves[t].in \in Nat /\ moves[t].out \in Nat
  BY DEF TypeOK
<1>3. \A e \in Depots : InDepot(e) \in Int
  BY <1>2 DEF InDepot
<1>4. /\ depot'[To[t]] = InDepot(To[t]) + 1
      /\ depot'[From[t]] = IF call[c][3] # None THEN InDepot(From[t]) - 1 ELSE depot[From[t]]
      /\ \A e \in Depots \ {From[t], To[t]} : depot'[e] = depot[e]
  <2>1. depot' = Moved(t, call[c][3])
    BY DEF ValidateTransferWrite
  <2> QED
    BY <1>1, <1>2, <2>1 DEF Moved
<1>5. /\ moves'[t].in = moves[t].in + 1
      /\ moves'[t].out = IF call[c][3] # None THEN moves[t].out + 1 ELSE moves[t].out
      /\ \A u \in Transfers \ {t} : moves'[u] = moves[u]
  BY <1>2 DEF ValidateTransferWrite
<1>6. /\ InDepot(To[t])' = InDepot(To[t]) + 1
      /\ call[c][3] # None => InDepot(From[t])' = InDepot(From[t]) - 1
      /\ call[c][3] = None => InDepot(From[t])' = InDepot(From[t])
      /\ \A e \in Depots \ {From[t], To[t]} : InDepot(e)' = InDepot(e)
  <2>1. InDepot(To[t]) + 1 \in Int /\ InDepot(From[t]) - 1 \in Int
    BY <1>1, <1>3
  <2> QED
    BY <1>1, <1>4, <2>1 DEF InDepot
<1>7. \A u \in Transfers \ {t} : Brought(u, d)' = Brought(u, d)
  BY <1>5 DEF Brought
<1>8. CASE d = To[t]
  BY <1>1, <1>2, <1>3, <1>5, <1>6, <1>7, <1>8 DEF Brought
<1>9. CASE d = From[t]
  BY <1>1, <1>2, <1>3, <1>5, <1>6, <1>7, <1>9 DEF Brought
<1>10. CASE d \notin {From[t], To[t]}
  BY <1>3, <1>6, <1>7, <1>10 DEF Brought
<1> QED
  BY <1>8, <1>9, <1>10

LEMMA StoresKept ==
    ASSUME ConstantsAssumption, TypeOK, TypeOK', [Next]_vars, StoresFollowTransfers
    PROVE  StoresFollowTransfers'
<1>1. ASSUME NEW c \in Calls, NEW t \in Transfers, ValidateTransferWrite(c, t)
      PROVE  StoresFollowTransfers'
  <2>1. ASSUME NEW d \in Depots
        PROVE  InDepot(d)' = SumFunction([u \in Transfers |-> Brought(u, d)'])
    <3> DEFINE f == [u \in Transfers |-> Brought(u, d)]
               g == [u \in Transfers |-> Brought(u, d)']
    <3>1. \A u \in Transfers : Brought(u, d)' \in Int
      BY DEF Brought, TypeOK
    <3>2. \A u \in Transfers : f[u] \in Int /\ g[u] \in Int
      BY <3>1, BroughtTyped
    <3>3. /\ InDepot(d) \in Int /\ InDepot(d)' = InDepot(d) + (g[t] - f[t])
          /\ \A u \in Transfers \ {t} : g[u] = f[u]
      BY <1>1, UnitsMoved
    <3>4. InDepot(d) = SumFunctionOnSet(f, Transfers)
      BY DEF StoresFollowTransfers, SumFunction
    <3>5. SumFunction([u \in Transfers |-> Brought(u, d)']) = SumFunctionOnSet(g, Transfers)
      BY DEF SumFunction
    <3> HIDE DEF f, g
    <3>6. SumFunctionOnSet(g, Transfers) = SumFunctionOnSet(f, Transfers) + (g[t] - f[t])
      BY <3>2, <3>3, FiniteAssumption, SumChange
    <3> QED
      BY <3>3, <3>4, <3>5, <3>6
  <2>2. /\ moves'[t].in = moves[t].in + 1
        /\ moves'[t].out = IF call[c][3] # None THEN moves[t].out + 1 ELSE moves[t].out
        /\ \A u \in Transfers \ {t} : moves'[u] = moves[u] /\ transfer'[u] = transfer[u]
        /\ transfer'[t] = "VALIDATED"
        /\ "overtaken" \notin marks' => transfer[t] = "DRAFT"
    BY <1>1 DEF ValidateTransferWrite, Mark, TypeOK
  <2>3. ASSUME NEW u \in Transfers
        PROVE  /\ moves'[u].out <= moves'[u].in
               /\ Without({"overtaken"})' =>
                      moves'[u].in = IF transfer'[u] = "VALIDATED" THEN 1 ELSE 0
    <3>1. /\ moves[u].out <= moves[u].in /\ moves[u].out \in Nat /\ moves[u].in \in Nat
          /\ Without({"overtaken"})' =>
                 moves[u].in = IF transfer[u] = "VALIDATED" THEN 1 ELSE 0
      BY WithoutGrows DEF StoresFollowTransfers, TypeOK
    <3>2. CASE u = t
      BY <2>2, <3>1, <3>2 DEF Without
    <3>3. CASE u # t
      BY <2>2, <3>1, <3>3
    <3> QED
      BY <3>2, <3>3
  <2> QED
    BY <2>1, <2>3 DEF StoresFollowTransfers
<1>2. CASE UNCHANGED <<transfer, depot, moves>>
  <2>1. ASSUME NEW d \in Depots
        PROVE  InDepot(d)' = InDepot(d) /\ \A t : Brought(t, d)' = Brought(t, d)
    BY <1>2 DEF InDepot, Brought
  <2> QED
    BY <1>2, <2>1, WithoutGrows DEF StoresFollowTransfers
<1> QED
  BY <1>1, <1>2, StoresSteps

(***************************************************************************)
(* The theorems.                                                           *)
(***************************************************************************)

\* The inductive invariant: the types, the order with its lines, the inventory with the
\* calls that validate it, the invoice with the calls that pay it, and the warehouses.
Inv == TypeOK /\ OrderInv /\ CountInv /\ BillInv /\ StoresFollowTransfers

\* The inductive invariant holds of every reachable state.
THEOREM InvCorrect == Spec => []Inv
<1>1. ConstantsAssumption
  BY ConstantsAssumption
<1>2. Init => Inv
  <2> SUFFICES ASSUME Init
               PROVE  Inv
    OBVIOUS
  <2>1. \A l \in Lines : NoUnits[l] = 0 /\ Ordered[l] > 0 /\ Ordered[l] \in Nat
    BY <1>1 DEF NoUnits, ConstantsAssumption
  <2>2. OrderInv
    <3>1. ReceivedAsOrdered /\ StatusFollowsReceipts
      BY <1>1, <2>1 DEF Init, ReceivedAsOrdered, StatusFollowsReceipts, ConstantsAssumption
    <3>2. \A c \in Calls : call[c][1] = "idle" /\ Held(call[c]) = {}
      BY HeldForms DEF Init, Idle
    <3> QED
      BY <3>1, <3>2 DEF OrderInv, LinesHeld, StatusRead
  <2>3. NotBegun /\ OneActive /\ Counted /\ Partial
    BY DEF Init, NotBegun, OneActive, Counted, Partial, Active, Idle
  <2>4. CountCorrects /\ AppliedOnce
    BY <2>1 DEF Init, CountCorrects, AppliedOnce
  <2>5. BillInv
    <3>1. \A c \in Calls : call[c][1] \notin {"paid", "pay"}
      BY DEF Init, Idle
    <3>2. Unwritten = 0
      BY <3>1, UnwrittenNone
    <3> QED
      BY <3>1, <3>2 DEF Init, BillInv, PaymentsTold
  <2>6. StoresFollowTransfers
    <3>1. ASSUME NEW d \in Depots
          PROVE  InDepot(d) = SumFunction([t \in Transfers |-> Brought(t, d)])
      <4> DEFINE f == [t \in Transfers |-> Brought(t, d)]
      <4>1. \A t \in Transfers : f[t] = 0
        BY DEF Init, Brought
      <4>2. SumFunction(f) = SumFunctionOnSet(f, Transfers)
        BY DEF SumFunction
      <4> HIDE DEF f
      <4>3. SumFunctionOnSet(f, Transfers) = 0
        BY <4>1, FiniteAssumption, SumZero
      <4> QED
        BY <4>2, <4>3 DEF Init, InDepot, f
    <3> QED
      BY <3>1 DEF Init, StoresFollowTransfers
  <2> QED
    BY <1>1, <2>2, <2>3, <2>4, <2>5, <2>6, InitTyped DEF Inv, CountInv
<1>3. Inv /\ [Next]_vars => Inv'
  BY <1>1, TypeKept, OrderKept, ReceiptsKept, CountKept, BillKept, StoresKept DEF Inv, OrderInv
<1> QED
  BY <1>2, <1>3, PTL DEF Spec

\* Every row and every call has the type its operations count on, at all times.
THEOREM TypeCorrect == Spec => []TypeOK
<1>1. Inv => TypeOK
  BY DEF Inv
<1> QED
  BY <1>1, InvCorrect, PTL

\* Receipts take in no more than was ordered, and each unit taken in is on a line of the
\* order until its lines are replaced, however many receipts meet.
THEOREM ReceivedAsOrderedCorrect == Spec => []ReceivedAsOrdered
<1>1. Inv => ReceivedAsOrdered
  BY DEF Inv, OrderInv
<1> QED
  BY <1>1, InvCorrect, PTL

\* The status of an order tells what its lines have received, except that an order may not be
\* FULLY_RECEIVED although everything is there when two receipts read the lines at one time.
THEOREM StatusFollowsReceiptsCorrect == Spec => []StatusFollowsReceipts
<1>1. Inv => StatusFollowsReceipts
  BY DEF Inv, OrderInv
<1> QED
  BY <1>1, InvCorrect, PTL

\* A physical inventory brings the rows to what is there, every line once or none.
THEOREM InventoryCorrectsCorrect == Spec => []InventoryCorrects
<1>1. Inv => InventoryCorrects
  BY DEF Inv, CountInv, InventoryCorrects
<1> QED
  BY <1>1, InvCorrect, PTL

\* Payments to a supplier that do not meet, none of them cut off, are all on his invoice,
\* which is settled when they come to its total.
THEOREM SupplierPaidCorrect == Spec => []SupplierPaid
<1>1. Inv => SupplierPaid
  <2> SUFFICES ASSUME Inv, Without({"lost", "cut"}),
                      \A c \in Calls : call[c][1] \notin {"paid", "pay"}
               PROVE  /\ bill.paid = bill.payments
                      /\ bill.status = "PAID" <=>
                             bill.status # "NONE" /\ bill.paid >= Total /\ bill.paid > 0
    BY DEF SupplierPaid
  <2>1. PaymentsTold /\ bill.paid \in Nat
    BY DEF Inv, BillInv, TypeOK, Bill
  <2>2. Unwritten = 0
    BY UnwrittenNone
  <2> QED
    BY <2>1, <2>2 DEF PaymentsTold
<1> QED
  BY <1>1, InvCorrect, PTL

\* The rows of the warehouses are what the transfers between stores have brought and taken,
\* however many meet, and a validated one has moved its unit once unless two calls did it.
THEOREM StoresFollowTransfersCorrect == Spec => []StoresFollowTransfers
<1>1. Inv => StoresFollowTransfers
  BY DEF Inv
<1> QED
  BY <1>1, InvCorrect, PTL
=============================================================================
