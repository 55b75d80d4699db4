---------------------------- MODULE Orders_proofs ----------------------------
(***************************************************************************)
(* Proofs about Orders, for any numbers of quotes, orders, materials and   *)
(* calls: the state is well typed; an order is paid its total at most and  *)
(* invoiced once; its status, its goods, its quote and its materials agree *)
(* as long as no unchecked write interferes; it goes forward only.         *)
(***************************************************************************)
EXTENDS Orders, FiniteSetTheorems, TLAPS

(***************************************************************************)
(* What a step may change.                                                 *)
(***************************************************************************)

\* The checks of a call change nothing else.
LEMMA ChecksChangeNothing ==
    ASSUME \/ \E c \in Calls, q \in Quotes : QuoteCall(c, q)
           \/ \E c \in Calls, o \in Orders : OrderCall(c, o)
    PROVE  UNCHANGED <<profile, quote, order, making, marks>>
<1>1. ASSUME NEW c \in Calls, NEW q \in Quotes, QuoteCall(c, q)
      PROVE  UNCHANGED <<profile, quote, order, making, marks>>
  BY <1>1 DEF QuoteCall, EditQuote, Convert, Start
<1>2. ASSUME NEW c \in Calls, NEW o \in Orders, OrderCall(c, o)
      PROVE  UNCHANGED <<profile, quote, order, making, marks>>
  BY <1>2 DEF OrderCall, Cancel, MakingReady, Advance, Pay, AddMaterial, RemoveMaterial, Start
<1> QED
  BY <1>1, <1>2

\* The profile stays, and what has happened is not forgotten.
LEMMA MarksGrow ==
    ASSUME [Next]_vars
    PROVE  profile' = profile /\ marks \subseteq marks'
<1> DEFINE Goal == profile' = profile /\ marks \subseteq marks'
<1>1. ASSUME UNCHANGED vars
      PROVE  Goal
  BY <1>1 DEF vars
<1>2. ASSUME \/ \E c \in Calls, q \in Quotes : QuoteCall(c, q)
             \/ \E c \in Calls, o \in Orders : OrderCall(c, o)
      PROVE  Goal
  BY <1>2, ChecksChangeNothing
<1>3. ASSUME NEW c \in Calls, NEW q \in Quotes, QuoteWrite(c, q)
      PROVE  Goal
  BY <1>3 DEF QuoteWrite, EditQuoteWrite, ExpireWrite, ConvertWrite, Mark
<1>4. ASSUME NEW c \in Calls, NEW o \in Orders, OrderWrite(c, o)
      PROVE  Goal
  BY <1>4 DEF OrderWrite, CancelWrite, MakingReadyWrite, AdvanceWrite, PayWrite, PayRefused,
              AddMaterialWrite, RemoveMaterialWrite, Mark
<1>5. ASSUME NEW q \in Quotes, QuoteStep(q)
      PROVE  Goal
  BY <1>5 DEF QuoteStep, SetQuote, QuoteOverdue, Mark
<1>6. ASSUME NEW o \in Orders, OrderStep(o)
      PROVE  Goal
  BY <1>6 DEF OrderStep, CreateOrder, CreateMaking, Reserve, StartMaking, CancelMaking
<1> QED
  BY <1>1, <1>2, <1>3, <1>4, <1>5, <1>6 DEF Next

\* The steps that write an order.
LEMMA OrderSteps ==
    ASSUME [Next]_vars
    PROVE  \/ UNCHANGED order
           \/ \E o \in Orders, total \in Totals : CreateOrder(o, total)
           \/ \E c \in Calls, q \in Quotes, o \in Orders, total \in Totals :
                  ConvertWrite(c, q, o, total)
           \/ \E c \in Calls, o \in Orders, to \in OrderStatuses : AdvanceWrite(c, o, to)
           \/ \E c \in Calls, o \in Orders : CancelWrite(c, o)
           \/ \E c \in Calls, o \in Orders, amount \in Amounts : PayWrite(c, o, amount)
           \/ \E o \in Orders : StartMaking(o)
           \/ \E c \in Calls, o \in Orders : MakingReadyWrite(c, o)
<1> DEFINE Goal == \/ UNCHANGED order
                   \/ \E o \in Orders, total \in Totals : CreateOrder(o, total)
                   \/ \E c \in Calls, q \in Quotes, o \in Orders, total \in Totals :
                          ConvertWrite(c, q, o, total)
                   \/ \E c \in Calls, o \in Orders, to \in OrderStatuses : AdvanceWrite(c, o, to)
                   \/ \E c \in Calls, o \in Orders : CancelWrite(c, o)
                   \/ \E c \in Calls, o \in Orders, amount \in Amounts : PayWrite(c, o, amount)
                   \/ \E o \in Orders : StartMaking(o)
                   \/ \E c \in Calls, o \in Orders : MakingReadyWrite(c, o)
<1>1. ASSUME UNCHANGED vars
      PROVE  Goal
  BY <1>1 DEF vars
<1>2. ASSUME \/ \E c \in Calls, q \in Quotes : QuoteCall(c, q)
             \/ \E c \in Calls, o \in Orders : OrderCall(c, o)
      PROVE  Goal
  BY <1>2, ChecksChangeNothing
<1>3. ASSUME NEW c \in Calls, NEW q \in Quotes, QuoteWrite(c, q)
      PROVE  Goal
  BY <1>3 DEF QuoteWrite, EditQuoteWrite, ExpireWrite
<1>4. ASSUME NEW c \in Calls, NEW o \in Orders, OrderWrite(c, o)
      PROVE  Goal
  BY <1>4 DEF OrderWrite, PayRefused, AddMaterialWrite, RemoveMaterialWrite
<1>5. ASSUME NEW q \in Quotes, QuoteStep(q)
      PROVE  Goal
  BY <1>5 DEF QuoteStep, SetQuote, QuoteOverdue
<1>6. ASSUME NEW o \in Orders, OrderStep(o)
      PROVE  Goal
  BY <1>6 DEF OrderStep, CreateMaking, Reserve, CancelMaking
<1> QED
  BY <1>1, <1>2, <1>3, <1>4, <1>5, <1>6 DEF Next

\* The steps that write a manufacturing order.
LEMMA MakingSteps ==
    ASSUME [Next]_vars
    PROVE  \/ UNCHANGED making
           \/ \E o \in Orders : CreateMaking(o) \/ Reserve(o) \/ StartMaking(o) \/ CancelMaking(o)
           \/ \E c \in Calls, o \in Orders, m \in Materials :
                  AddMaterialWrite(c, o, m) \/ RemoveMaterialWrite(c, o, m)
           \/ \E c \in Calls, o \in Orders, to \in OrderStatuses : AdvanceWrite(c, o, to)
           \/ \E c \in Calls, o \in Orders : MakingReadyWrite(c, o)
<1> DEFINE Goal == \/ UNCHANGED making
                   \/ \E o \in Orders : CreateMaking(o) \/ Reserve(o) \/ StartMaking(o) \/ CancelMaking(o)
                   \/ \E c \in Calls, o \in Orders, m \in Materials :
                          AddMaterialWrite(c, o, m) \/ RemoveMaterialWrite(c, o, m)
                   \/ \E c \in Calls, o \in Orders, to \in OrderStatuses : AdvanceWrite(c, o, to)
                   \/ \E c \in Calls, o \in Orders : MakingReadyWrite(c, o)
<1>1. ASSUME UNCHANGED vars
      PROVE  Goal
  BY <1>1 DEF vars
<1>2. ASSUME \/ \E c \in Calls, q \in Quotes : QuoteCall(c, q)
             \/ \E c \in Calls, o \in Orders : OrderCall(c, o)
      PROVE  Goal
  BY <1>2, ChecksChangeNothing
<1>3. ASSUME NEW c \in Calls, NEW q \in Quotes, QuoteWrite(c, q)
      PROVE  Goal
  BY <1>3 DEF QuoteWrite, EditQuoteWrite, ExpireWrite, ConvertWrite
<1>4. ASSUME NEW c \in Calls, NEW o \in Orders, OrderWrite(c, o)
      PROVE  Goal
  BY <1>4 DEF OrderWrite, CancelWrite, PayWrite, PayRefused
<1>5. ASSUME NEW q \in Quotes, QuoteStep(q)
      PROVE  Goal
  BY <1>5 DEF QuoteStep, SetQuote, QuoteOverdue
<1>6. ASSUME NEW o \in Orders, OrderStep(o)
      PROVE  Goal
  BY <1>6 DEF OrderStep, CreateOrder
<1> QED
  BY <1>1, <1>2, <1>3, <1>4, <1>5, <1>6 DEF Next

\* The steps that write a quote.
LEMMA QuoteSteps ==
    ASSUME [Next]_vars
    PROVE  \/ UNCHANGED quote
           \/ \E q \in Quotes, status \in {"SENT", "ACCEPTED", "REJECTED"} : SetQuote(q, status)
           \/ \E q \in Quotes : QuoteOverdue(q)
           \/ \E c \in Calls, q \in Quotes : EditQuoteWrite(c, q) \/ ExpireWrite(c, q)
           \/ \E c \in Calls, q \in Quotes, o \in Orders, total \in Totals :
                  ConvertWrite(c, q, o, total)
<1> DEFINE Goal == \/ UNCHANGED quote
                   \/ \E q \in Quotes, status \in {"SENT", "ACCEPTED", "REJECTED"} : SetQuote(q, status)
                   \/ \E q \in Quotes : QuoteOverdue(q)
                   \/ \E c \in Calls, q \in Quotes : EditQuoteWrite(c, q) \/ ExpireWrite(c, q)
                   \/ \E c \in Calls, q \in Quotes, o \in Orders, total \in Totals :
                          ConvertWrite(c, q, o, total)
<1>1. ASSUME UNCHANGED vars
      PROVE  Goal
  BY <1>1 DEF vars
<1>2. ASSUME \/ \E c \in Calls, q \in Quotes : QuoteCall(c, q)
             \/ \E c \in Calls, o \in Orders : OrderCall(c, o)
      PROVE  Goal
  BY <1>2, ChecksChangeNothing
<1>3. ASSUME NEW c \in Calls, NEW q \in Quotes, QuoteWrite(c, q)
      PROVE  Goal
  BY <1>3 DEF QuoteWrite
<1>4. ASSUME NEW c \in Calls, NEW o \in Orders, OrderWrite(c, o)
      PROVE  Goal
  BY <1>4 DEF OrderWrite, CancelWrite, MakingReadyWrite, AdvanceWrite, PayWrite, PayRefused,
              AddMaterialWrite, RemoveMaterialWrite
<1>5. ASSUME NEW q \in Quotes, QuoteStep(q)
      PROVE  Goal
  BY <1>5 DEF QuoteStep
<1>6. ASSUME NEW o \in Orders, OrderStep(o)
      PROVE  Goal
  BY <1>6 DEF OrderStep, CreateOrder, CreateMaking, Reserve, StartMaking, CancelMaking
<1> QED
  BY <1>1, <1>2, <1>3, <1>4, <1>5, <1>6 DEF Next

\* A call starts after its checks, or ends, or none does.
LEMMA CallSteps ==
    ASSUME [Next]_vars
    PROVE  \/ UNCHANGED call
           \/ \E c \in Calls : Return(c)
           \/ \E c \in Calls, q \in Quotes : EditQuote(c, q) \/ Convert(c, q)
           \/ \E c \in Calls, o \in Orders : Cancel(c, o) \/ MakingReady(c, o)
           \/ \E c \in Calls, o \in Orders, to \in OrderStatuses : Advance(c, o, to)
           \/ \E c \in Calls, o \in Orders, amount \in Amounts : Pay(c, o, amount)
           \/ \E c \in Calls, o \in Orders, m \in Materials :
                  AddMaterial(c, o, m) \/ RemoveMaterial(c, o, m)
<1> DEFINE Goal == \/ UNCHANGED call
                   \/ \E c \in Calls : Return(c)
                   \/ \E c \in Calls, q \in Quotes : EditQuote(c, q) \/ Convert(c, q)
                   \/ \E c \in Calls, o \in Orders : Cancel(c, o) \/ MakingReady(c, o)
                   \/ \E c \in Calls, o \in Orders, to \in OrderStatuses : Advance(c, o, to)
                   \/ \E c \in Calls, o \in Orders, amount \in Amounts : Pay(c, o, amount)
                   \/ \E c \in Calls, o \in Orders, m \in Materials :
                          AddMaterial(c, o, m) \/ RemoveMaterial(c, o, m)
<1>1. ASSUME UNCHANGED vars
      PROVE  Goal
  BY <1>1 DEF vars
<1>2. ASSUME \/ \E c \in Calls, q \in Quotes : QuoteCall(c, q)
             \/ \E c \in Calls, o \in Orders : OrderCall(c, o)
      PROVE  Goal
  BY <1>2 DEF QuoteCall, OrderCall
<1>3. ASSUME NEW c \in Calls, NEW q \in Quotes, QuoteWrite(c, q)
      PROVE  Goal
  BY <1>3 DEF QuoteWrite, EditQuoteWrite, ExpireWrite, ConvertWrite
<1>4. ASSUME NEW c \in Calls, NEW o \in Orders, OrderWrite(c, o)
      PROVE  Goal
  BY <1>4 DEF OrderWrite, CancelWrite, MakingReadyWrite, AdvanceWrite, PayWrite, PayRefused,
              AddMaterialWrite, RemoveMaterialWrite
<1>5. ASSUME NEW q \in Quotes, QuoteStep(q)
      PROVE  Goal
  BY <1>5 DEF QuoteStep, SetQuote, QuoteOverdue
<1>6. ASSUME NEW o \in Orders, OrderStep(o)
      PROVE  Goal
  BY <1>6 DEF OrderStep, CreateOrder, CreateMaking, Reserve, StartMaking, CancelMaking
<1> QED
  BY <1>1, <1>2, <1>3, <1>4, <1>5, <1>6 DEF Next

(***************************************************************************)
(* Type correctness.                                                       *)
(***************************************************************************)

\* What the calls write into an order is an order.
LEMMA PaidTyped ==
    ASSUME ConstantsAssumption, NEW row \in Order, NEW amount \in Amounts
    PROVE  Paid(row, amount) \in Order
<1>1. amount \in Nat /\ row.paid + amount \in Nat
  BY DEF ConstantsAssumption, Order
<1> QED
  BY <1>1 DEF Order, OrderStatuses, Paid, Settled

LEMMA ConfirmedTyped ==
    ASSUME ConstantsAssumption, NEW q \in Quotes \cup {None}, NEW total \in Totals
    PROVE  Confirmed(q, total) \in Order
  BY DEF ConstantsAssumption, Order, OrderStatuses, Confirmed, NoOrder

LEMMA OrdersTyped ==
    ASSUME ConstantsAssumption, TypeOK, [Next]_vars
    PROVE  order' \in [Orders -> Order]
<1>1. ASSUME NEW o \in Orders, NEW total \in Totals, CreateOrder(o, total)
      PROVE  order' \in [Orders -> Order]
  BY <1>1, ConfirmedTyped DEF CreateOrder, TypeOK
<1>2. ASSUME NEW c \in Calls, NEW q \in Quotes, NEW o \in Orders, NEW total \in Totals,
             ConvertWrite(c, q, o, total)
      PROVE  order' \in [Orders -> Order]
  BY <1>2, ConfirmedTyped DEF ConvertWrite, TypeOK
<1>3. ASSUME NEW c \in Calls, NEW o \in Orders, NEW to \in OrderStatuses, AdvanceWrite(c, o, to)
      PROVE  order' \in [Orders -> Order]
  BY <1>3 DEF AdvanceWrite, TypeOK, Order
<1>4. ASSUME NEW c \in Calls, NEW o \in Orders, CancelWrite(c, o)
      PROVE  order' \in [Orders -> Order]
  <2>1. order[o] \in Order
    BY DEF TypeOK
  <2>2. order[o].back \in Nat /\ order[o].back + 1 \in Nat
    BY <2>1 DEF Order
  <2> QED
    BY <1>4, <2>1, <2>2 DEF CancelWrite, TypeOK, Order, OrderStatuses
<1>5. ASSUME NEW c \in Calls, NEW o \in Orders, NEW amount \in Amounts, PayWrite(c, o, amount)
      PROVE  order' \in [Orders -> Order]
  BY <1>5, PaidTyped DEF PayWrite, TypeOK
<1>6. ASSUME NEW o \in Orders, StartMaking(o)
      PROVE  order' \in [Orders -> Order]
  BY <1>6 DEF StartMaking, TypeOK, Order, OrderStatuses
<1>7. ASSUME NEW c \in Calls, NEW o \in Orders, MakingReadyWrite(c, o)
      PROVE  order' \in [Orders -> Order]
  BY <1>7 DEF MakingReadyWrite, TypeOK, Order, OrderStatuses
<1> QED
  BY OrderSteps, <1>1, <1>2, <1>3, <1>4, <1>5, <1>6, <1>7 DEF TypeOK

LEMMA MakingsTyped ==
    ASSUME TypeOK, [Next]_vars
    PROVE  making' \in [Orders -> Making]
<1> USE DEF TypeOK, Making, MakingStatuses
<1>1. ASSUME NEW o \in Orders, CreateMaking(o) \/ Reserve(o) \/ StartMaking(o) \/ CancelMaking(o)
      PROVE  making' \in [Orders -> Making]
  BY <1>1 DEF CreateMaking, Reserve, StartMaking, CancelMaking
<1>2. ASSUME NEW c \in Calls, NEW o \in Orders, NEW m \in Materials,
             AddMaterialWrite(c, o, m) \/ RemoveMaterialWrite(c, o, m)
      PROVE  making' \in [Orders -> Making]
  BY <1>2 DEF AddMaterialWrite, RemoveMaterialWrite
<1>3. ASSUME NEW c \in Calls, NEW o \in Orders, NEW to \in OrderStatuses, AdvanceWrite(c, o, to)
      PROVE  making' \in [Orders -> Making]
  BY <1>3 DEF AdvanceWrite, Delivered
<1>4. ASSUME NEW c \in Calls, NEW o \in Orders, MakingReadyWrite(c, o)
      PROVE  making' \in [Orders -> Making]
  BY <1>4 DEF MakingReadyWrite
<1> QED
  BY MakingSteps, <1>1, <1>2, <1>3, <1>4

LEMMA QuotesTyped ==
    ASSUME TypeOK, [Next]_vars
    PROVE  quote' \in [Quotes -> [status : QuoteStatuses, overdue : BOOLEAN]]
  BY QuoteSteps DEF TypeOK, QuoteStatuses, SetQuote, QuoteOverdue, EditQuoteWrite, ExpireWrite,
                    ConvertWrite

LEMMA CallsTyped ==
    ASSUME TypeOK, [Next]_vars
    PROVE  call' \in [Calls -> Requests]
<1>1. ASSUME NEW c \in Calls, NEW r \in Requests, call' = [call EXCEPT ![c] = r]
      PROVE  call' \in [Calls -> Requests]
  BY <1>1 DEF TypeOK
<1>2. Idle \in Requests
  BY DEF Requests
<1>3. \A q \in Quotes : {<<"convert", q>>, <<"expire", q>>, <<"edit", q>>} \subseteq Requests
  BY DEF Requests
<1>4. \A o \in Orders : {<<"cancel", o>>, <<"ready", o>>} \subseteq Requests
  BY DEF Requests
<1>5. \A o \in Orders, to \in OrderStatuses : <<"advance", o, to>> \in Requests
  BY DEF Requests
<1>6. \A o \in Orders, amount \in Amounts : <<"pay", o, amount>> \in Requests
  BY DEF Requests
<1>7. \A o \in Orders, m \in Materials : {<<"add", o, m>>, <<"remove", o, m>>} \subseteq Requests
  BY DEF Requests
<1>8. UNCHANGED call => call' \in [Calls -> Requests]
  BY DEF TypeOK
<1> QED
  BY CallSteps, <1>1, <1>2, <1>3, <1>4, <1>5, <1>6, <1>7, <1>8
  DEF Return, EditQuote, Convert, Cancel, MakingReady, Advance, Pay, AddMaterial,
      RemoveMaterial, Start

LEMMA MarksTyped ==
    ASSUME TypeOK, [Next]_vars
    PROVE  marks' \subseteq Marks
<1> DEFINE Goal == marks' \subseteq Marks
<1>1. ASSUME UNCHANGED vars
      PROVE  Goal
  BY <1>1 DEF vars, TypeOK
<1>2. ASSUME \/ \E c \in Calls, q \in Quotes : QuoteCall(c, q)
             \/ \E c \in Calls, o \in Orders : OrderCall(c, o)
      PROVE  Goal
  BY <1>2, ChecksChangeNothing DEF TypeOK
<1>3. ASSUME NEW c \in Calls, NEW q \in Quotes, QuoteWrite(c, q)
      PROVE  Goal
  BY <1>3 DEF QuoteWrite, EditQuoteWrite, ExpireWrite, ConvertWrite, Mark, Marks, TypeOK
<1>4. ASSUME NEW c \in Calls, NEW o \in Orders, OrderWrite(c, o)
      PROVE  Goal
  BY <1>4 DEF OrderWrite, CancelWrite, MakingReadyWrite, AdvanceWrite, PayWrite, PayRefused,
              AddMaterialWrite, RemoveMaterialWrite, Mark, Marks, TypeOK
<1>5. ASSUME NEW q \in Quotes, QuoteStep(q)
      PROVE  Goal
  BY <1>5 DEF QuoteStep, SetQuote, QuoteOverdue, Mark, Marks, TypeOK
<1>6. ASSUME NEW o \in Orders, OrderStep(o)
      PROVE  Goal
  BY <1>6 DEF OrderStep, CreateOrder, CreateMaking, Reserve, StartMaking, CancelMaking, TypeOK
<1> QED
  BY <1>1, <1>2, <1>3, <1>4, <1>5, <1>6 DEF Next

LEMMA InitTyped ==
    ASSUME Init
    PROVE  TypeOK
  BY DEF Init, TypeOK, Order, OrderStatuses, NoOrder, Making, MakingStatuses, NoMaking,
         QuoteStatuses, Requests

\* The state has its type in every reachable state.
THEOREM TypeCorrect == Spec => []TypeOK
<1>1. Init => TypeOK
  BY InitTyped
<1>2. TypeOK /\ [Next]_vars => TypeOK'
  BY ConstantsAssumption, MarksGrow, OrdersTyped, MakingsTyped, QuotesTyped, CallsTyped,
     MarksTyped DEF TypeOK
<1> QED
  BY <1>1, <1>2, PTL DEF Spec
(***************************************************************************)
(* The inductive invariant.  An order that does not exist is blank, a      *)
(* workshop's order moves no goods, a manufacturing order has its order,   *)
(* and reservations are of materials on the list; a call holds what it has *)
(* read.                                                                   *)
(***************************************************************************)
OrderInv(o) ==
    /\ order[o].status = "NONE" => order[o] = NoOrder
    /\ profile # "shop" => order[o].out = 0

MakingInv(o) ==
    /\ making[o].status # "NONE" => order[o].status # "NONE"
    /\ making[o].reserved \subseteq making[o].rows

CallInv(c, o) ==
    /\ \A to \in OrderStatuses :
           call[c] = <<"advance", o, to>> => to \in {"IN_PROGRESS", "READY", "DELIVERED"}
    /\ call[c] = <<"ready", o>> =>
           making[o].status \in {"IN_PRODUCTION", "READY", "COMPLETED"}

\* OneOrderPerQuote without its count.
QuoteInv ==
    Unforced => \A q \in Quotes :
        IF quote[q].status = "CONVERTED"
        THEN \E o \in Orders : {p \in Orders : order[p].quote = q} = {o}
        ELSE {p \in Orders : order[p].quote = q} = {}

Inv ==
    /\ TypeOK
    /\ \A o \in Orders : OrderInv(o) /\ MakingInv(o)
    /\ \A c \in Calls, o \in Orders : CallInv(c, o)
    /\ InvoicedOnce
    /\ CompletedIsPaid
    /\ StockMatchesOrder
    /\ QuoteInv
    /\ ReservationsEnd

\* Marks that are missing after a step were missing before it.
LEMMA UnforcedBefore ==
    ASSUME [Next]_vars
    PROVE  /\ Unforced' => Unforced
           /\ "stranded" \notin marks' => "stranded" \notin marks
           /\ "late" \notin marks' => "late" \notin marks
  BY MarksGrow DEF Unforced

LEMMA OrderInvKept ==
    ASSUME ConstantsAssumption, Inv, [Next]_vars, NEW p \in Orders
    PROVE  OrderInv(p)'
<1> DEFINE Goal == OrderInv(p)'
<1> USE MarksGrow DEF Inv, OrderInv, TypeOK, Order, OrderStatuses, NoOrder
<1>1. CASE UNCHANGED order
  BY <1>1
<1>2. ASSUME NEW o \in Orders, NEW total \in Totals, CreateOrder(o, total)
      PROVE  Goal
  BY <1>2 DEF CreateOrder, Confirmed
<1>3. ASSUME NEW c \in Calls, NEW q \in Quotes, NEW o \in Orders, NEW total \in Totals,
             ConvertWrite(c, q, o, total)
      PROVE  Goal
  BY <1>3 DEF ConvertWrite, Confirmed
<1>4. ASSUME NEW c \in Calls, NEW o \in Orders, NEW to \in OrderStatuses, AdvanceWrite(c, o, to)
      PROVE  Goal
  BY <1>4 DEF AdvanceWrite, CallInv
<1>5. ASSUME NEW c \in Calls, NEW o \in Orders, CancelWrite(c, o)
      PROVE  Goal
  BY <1>5 DEF CancelWrite
<1>6. ASSUME NEW c \in Calls, NEW o \in Orders, NEW amount \in Amounts, PayWrite(c, o, amount)
      PROVE  Goal
  BY <1>6 DEF PayWrite, Paid, Settled, Balance, ConstantsAssumption
<1>7. ASSUME NEW o \in Orders, StartMaking(o)
      PROVE  Goal
  BY <1>7 DEF StartMaking
<1>8. ASSUME NEW c \in Calls, NEW o \in Orders, MakingReadyWrite(c, o)
      PROVE  Goal
  BY <1>8 DEF MakingReadyWrite
<1> QED
  BY OrderSteps, <1>1, <1>2, <1>3, <1>4, <1>5, <1>6, <1>7, <1>8

\* An order that exists does not disappear.
LEMMA OrderStays ==
    ASSUME ConstantsAssumption, Inv, [Next]_vars, NEW p \in Orders, order[p].status # "NONE"
    PROVE  order'[p].status # "NONE"
<1> DEFINE Goal == order'[p].status # "NONE"
<1> USE DEF Inv, TypeOK, Order, OrderStatuses
<1>1. CASE UNCHANGED order
  BY <1>1
<1>2. ASSUME NEW o \in Orders, NEW total \in Totals, CreateOrder(o, total)
      PROVE  Goal
  BY <1>2 DEF CreateOrder
<1>3. ASSUME NEW c \in Calls, NEW q \in Quotes, NEW o \in Orders, NEW total \in Totals,
             ConvertWrite(c, q, o, total)
      PROVE  Goal
  BY <1>3 DEF ConvertWrite
<1>4. ASSUME NEW c \in Calls, NEW o \in Orders, NEW to \in OrderStatuses, AdvanceWrite(c, o, to)
      PROVE  Goal
  BY <1>4 DEF AdvanceWrite, CallInv
<1>5. ASSUME NEW c \in Calls, NEW o \in Orders, CancelWrite(c, o)
      PROVE  Goal
  BY <1>5 DEF CancelWrite
<1>6. ASSUME NEW c \in Calls, NEW o \in Orders, NEW amount \in Amounts, PayWrite(c, o, amount)
      PROVE  Goal
  BY <1>6 DEF PayWrite, Paid, Settled
<1>7. ASSUME NEW o \in Orders, StartMaking(o)
      PROVE  Goal
  BY <1>7 DEF StartMaking
<1>8. ASSUME NEW c \in Calls, NEW o \in Orders, MakingReadyWrite(c, o)
      PROVE  Goal
  BY <1>8 DEF MakingReadyWrite
<1> QED
  BY OrderSteps, <1>1, <1>2, <1>3, <1>4, <1>5, <1>6, <1>7, <1>8

LEMMA MakingInvKept ==
    ASSUME ConstantsAssumption, Inv, [Next]_vars, NEW p \in Orders
    PROVE  MakingInv(p)'
<1> DEFINE Goal == MakingInv(p)'
<1> USE OrderStays DEF MakingInv
<1>0. MakingInv(p) /\ TypeOK
  BY DEF Inv
<1> USE <1>0 DEF TypeOK, Making
<1>1. CASE UNCHANGED making
  BY <1>1
<1>2. ASSUME NEW o \in Orders, CreateMaking(o)
      PROVE  Goal
  BY <1>2 DEF CreateMaking
<1>3. ASSUME NEW o \in Orders, Reserve(o) \/ CancelMaking(o)
      PROVE  Goal
  <2>1. making'[p].rows = making[p].rows
    BY <1>3 DEF Reserve, CancelMaking
  <2>2. making'[p].reserved \in {making[p].reserved, making[p].rows, {}}
    BY <1>3 DEF Reserve, CancelMaking
  <2>3. making'[p].status # "NONE" => making[p].status # "NONE"
    BY <1>3 DEF Reserve, CancelMaking
  <2> QED
    BY <2>1, <2>2, <2>3
<1>4. ASSUME NEW o \in Orders, StartMaking(o)
      PROVE  Goal
  BY <1>4 DEF StartMaking
<1>5. ASSUME NEW c \in Calls, NEW o \in Orders, NEW m \in Materials,
             AddMaterialWrite(c, o, m) \/ RemoveMaterialWrite(c, o, m)
      PROVE  Goal
  <2>1. making'[p].status = making[p].status
    BY <1>5 DEF AddMaterialWrite, RemoveMaterialWrite
  <2>2. \/ UNCHANGED <<making[p].rows, making[p].reserved>>
        \/ making'[p].rows = making[p].rows \cup {m} /\ making'[p].reserved = making[p].reserved
        \/ /\ making'[p].rows = making[p].rows \ {m}
           /\ making'[p].reserved = making[p].reserved \ {m}
    BY <1>5 DEF AddMaterialWrite, RemoveMaterialWrite
  <2> QED
    BY <2>1, <2>2
<1>6. ASSUME NEW c \in Calls, NEW o \in Orders, NEW to \in OrderStatuses, AdvanceWrite(c, o, to)
      PROVE  Goal
  BY <1>6 DEF AdvanceWrite, Delivered
<1>7. ASSUME NEW c \in Calls, NEW o \in Orders, MakingReadyWrite(c, o)
      PROVE  Goal
  <2>1. CallInv(c, o) /\ MakingInv(o)
    BY DEF Inv
  <2>2. making[o].status # "NONE"
    BY <1>7, <2>1 DEF MakingReadyWrite, CallInv
  <2> QED
    BY <1>7, <2>1, <2>2 DEF MakingReadyWrite
<1> QED
  BY MakingSteps, <1>1, <1>2, <1>3, <1>4, <1>5, <1>6, <1>7

\* What has been started does not go back.
LEMMA StartedStays ==
    ASSUME Inv, [Next]_vars, NEW p \in Orders,
           making[p].status \in {"IN_PRODUCTION", "READY", "COMPLETED"}
    PROVE  making'[p].status \in {"IN_PRODUCTION", "READY", "COMPLETED"}
<1> DEFINE Goal == making'[p].status \in {"IN_PRODUCTION", "READY", "COMPLETED"}
<1>0. TypeOK
  BY DEF Inv
<1> USE <1>0 DEF TypeOK, Making
<1>1. ASSUME NEW o \in Orders, CreateMaking(o) \/ Reserve(o) \/ StartMaking(o) \/ CancelMaking(o)
      PROVE  Goal
  BY <1>1 DEF CreateMaking, Reserve, StartMaking, CancelMaking
<1>2. ASSUME NEW c \in Calls, NEW o \in Orders, NEW m \in Materials,
             AddMaterialWrite(c, o, m) \/ RemoveMaterialWrite(c, o, m)
      PROVE  Goal
  BY <1>2 DEF AddMaterialWrite, RemoveMaterialWrite
<1>3. ASSUME NEW c \in Calls, NEW o \in Orders, NEW to \in OrderStatuses, AdvanceWrite(c, o, to)
      PROVE  Goal
  BY <1>3 DEF AdvanceWrite, Delivered
<1>4. ASSUME NEW c \in Calls, NEW o \in Orders, MakingReadyWrite(c, o)
      PROVE  Goal
  BY <1>4 DEF MakingReadyWrite
<1> QED
  BY MakingSteps, <1>1, <1>2, <1>3, <1>4

LEMMA CallInvKept ==
    ASSUME Inv, [Next]_vars, NEW b \in Calls, NEW p \in Orders
    PROVE  CallInv(b, p)'
<1> DEFINE Goal == CallInv(b, p)'
<1>0. CallInv(b, p) /\ call \in [Calls -> Requests]
  BY DEF Inv, TypeOK
<1> USE <1>0, StartedStays DEF CallInv
<1>1. CASE UNCHANGED call
  BY <1>1
<1>2. ASSUME NEW c \in Calls, Return(c)
      PROVE  Goal
  BY <1>2 DEF Return, Idle
<1>3. ASSUME NEW c \in Calls, NEW q \in Quotes, EditQuote(c, q) \/ Convert(c, q)
      PROVE  Goal
  BY <1>3 DEF EditQuote, Convert, Start
<1>4. ASSUME NEW c \in Calls, NEW o \in Orders, Cancel(c, o) \/ MakingReady(c, o)
      PROVE  Goal
  BY <1>4 DEF Cancel, MakingReady, Start
<1>5. ASSUME NEW c \in Calls, NEW o \in Orders, NEW to \in OrderStatuses, Advance(c, o, to)
      PROVE  Goal
  BY <1>5 DEF Advance, Start, Forward
<1>6. ASSUME NEW c \in Calls, NEW o \in Orders, NEW amount \in Amounts, Pay(c, o, amount)
      PROVE  Goal
  BY <1>6 DEF Pay, Start
<1>7. ASSUME NEW c \in Calls, NEW o \in Orders, NEW m \in Materials,
             AddMaterial(c, o, m) \/ RemoveMaterial(c, o, m)
      PROVE  Goal
  BY <1>7 DEF AddMaterial, RemoveMaterial, Start
<1> QED
  BY CallSteps, <1>1, <1>2, <1>3, <1>4, <1>5, <1>6, <1>7
(***************************************************************************)
(* The properties are kept.                                                *)
(***************************************************************************)

\* The guard of the update leaves room for the amount; the invoice comes with the last one.
LEMMA PaymentFits ==
    ASSUME ConstantsAssumption, TypeOK, InvoicedOnce, NEW c \in Calls, NEW o \in Orders,
           NEW amount \in Amounts, PayWrite(c, o, amount)
    PROVE  /\ amount \in Nat \ {0} /\ order[o].total \in Nat /\ order[o].paid \in Nat
           /\ order[o].paid + amount <= order[o].total
           /\ order[o].invoices = 0
           /\ order' = [order EXCEPT ![o] = Paid(@, amount)]
<1>1. amount \in Nat \ {0} /\ order[o] \in Order
  BY DEF ConstantsAssumption, TypeOK
<1>2. order[o].total \in Nat /\ order[o].paid \in Nat
  BY <1>1 DEF Order
<1>3. order[o].paid + amount <= order[o].total
  BY <1>1, <1>2 DEF PayWrite, Balance
<1>4. order[o].invoices = 0
  BY <1>1, <1>2, <1>3 DEF InvoicedOnce
<1> QED
  BY <1>1, <1>2, <1>3, <1>4 DEF PayWrite

LEMMA PaidFields ==
    ASSUME NEW row \in Order, NEW amount \in Nat, row.invoices = 0,
           row.paid + amount <= row.total
    PROVE  /\ Paid(row, amount).total = row.total
           /\ Paid(row, amount).out = row.out
           /\ Paid(row, amount).back = row.back
           /\ Paid(row, amount).quote = row.quote
           /\ Paid(row, amount).paid = row.paid + amount
           /\ Paid(row, amount).invoices = IF row.paid + amount = row.total THEN 1 ELSE 0
           /\ Paid(row, amount).status =
                  IF row.paid + amount = row.total THEN "COMPLETED" ELSE row.status
<1>1. row.paid \in Nat /\ row.total \in Nat
  BY DEF Order
<1>2. CASE row.paid + amount = row.total
  BY <1>1, <1>2 DEF Order, Paid, Settled
<1>3. CASE row.paid + amount # row.total
  BY <1>1, <1>3 DEF Order, Paid, Settled
<1> QED
  BY <1>2, <1>3

LEMMA CancelFields ==
    ASSUME TypeOK, NEW c \in Calls, NEW o \in Orders, NEW p \in Orders, CancelWrite(c, o)
    PROVE  /\ order'[p].invoices = order[p].invoices
           /\ order'[p].out = order[p].out
           /\ order'[p].quote = order[p].quote
           /\ order'[p].status = IF p = o THEN "CANCELLED" ELSE order[p].status
           /\ order'[p].back = IF p = o /\ order[o].out > 0 THEN order[p].back + 1
                                                             ELSE order[p].back
<1>1. order[o] \in Order /\ order \in [Orders -> Order]
  BY DEF TypeOK
<1>2. CASE p = o
  BY <1>1, <1>2 DEF CancelWrite, Order
<1>3. CASE p # o
  BY <1>1, <1>3 DEF CancelWrite
<1> QED
  BY <1>2, <1>3

LEMMA InvoicedOnceKept ==
    ASSUME ConstantsAssumption, Inv, [Next]_vars
    PROVE  InvoicedOnce'
<1> SUFFICES ASSUME NEW p \in Orders
             PROVE  /\ order'[p].paid <= order'[p].total
                    /\ order'[p].invoices =
                           IF order'[p].total > 0 /\ order'[p].paid = order'[p].total
                           THEN 1 ELSE 0
  BY DEF InvoicedOnce
<1> DEFINE Fine(row) == /\ row.paid <= row.total
                        /\ row.invoices =
                               IF row.total > 0 /\ row.paid = row.total THEN 1 ELSE 0
<1>0. TypeOK /\ \A o \in Orders : Fine(order[o])
  BY DEF Inv, InvoicedOnce
<1> SUFFICES Fine(order'[p])
  OBVIOUS
<1> USE <1>0 DEF TypeOK, Order
<1>1. CASE UNCHANGED order
  BY <1>1
<1>2. ASSUME NEW q \in Quotes \cup {None}, NEW total \in Totals
      PROVE  Fine(Confirmed(q, total))
  BY DEF ConstantsAssumption, Confirmed, NoOrder
<1>3. ASSUME NEW o \in Orders, NEW total \in Totals, CreateOrder(o, total)
      PROVE  Fine(order'[p])
  BY <1>2, <1>3 DEF CreateOrder
<1>4. ASSUME NEW c \in Calls, NEW q \in Quotes, NEW o \in Orders, NEW total \in Totals,
             ConvertWrite(c, q, o, total)
      PROVE  Fine(order'[p])
  BY <1>2, <1>4 DEF ConvertWrite
<1>5. ASSUME NEW c \in Calls, NEW o \in Orders, NEW to \in OrderStatuses, AdvanceWrite(c, o, to)
      PROVE  Fine(order'[p])
  BY <1>5 DEF AdvanceWrite
<1>6. ASSUME NEW c \in Calls, NEW o \in Orders, CancelWrite(c, o)
      PROVE  Fine(order'[p])
  BY <1>6 DEF CancelWrite
<1>7. ASSUME NEW c \in Calls, NEW o \in Orders, NEW amount \in Amounts, PayWrite(c, o, amount)
      PROVE  Fine(order'[p])
  <2>1. InvoicedOnce
    BY DEF Inv
  <2>2. Fine(Paid(order[o], amount))
    BY <1>7, <2>1, PaymentFits, PaidFields
  <2> QED
    BY <1>7, <2>2 DEF PayWrite
<1>8. ASSUME NEW o \in Orders, StartMaking(o)
      PROVE  Fine(order'[p])
  BY <1>8 DEF StartMaking
<1>9. ASSUME NEW c \in Calls, NEW o \in Orders, MakingReadyWrite(c, o)
      PROVE  Fine(order'[p])
  BY <1>9 DEF MakingReadyWrite
<1> HIDE DEF Fine
<1> QED
  BY OrderSteps, <1>1, <1>3, <1>4, <1>5, <1>6, <1>7, <1>8, <1>9

LEMMA CompletedIsPaidKept ==
    ASSUME ConstantsAssumption, Inv, [Next]_vars
    PROVE  CompletedIsPaid'
<1> DEFINE Fine(row, unforced) ==
               /\ row.status = "COMPLETED" => row.invoices = 1
               /\ unforced /\ row.invoices = 1 => row.status = "COMPLETED"
<1> SUFFICES ASSUME NEW p \in Orders
             PROVE  Fine(order'[p], Unforced')
  BY DEF CompletedIsPaid
<1>0. /\ TypeOK
      /\ Unforced' => Unforced
      /\ \A o \in Orders : Fine(order[o], Unforced)
      /\ Fine(order[p], Unforced')
  BY UnforcedBefore DEF Inv, CompletedIsPaid
<1> USE <1>0 DEF TypeOK, Order
<1>1. CASE UNCHANGED order
  BY <1>1
<1>2. ASSUME NEW q \in Quotes \cup {None}, NEW total \in Totals
      PROVE  Fine(Confirmed(q, total), Unforced')
  BY DEF Confirmed, NoOrder
<1>3. ASSUME NEW o \in Orders, NEW total \in Totals, CreateOrder(o, total)
      PROVE  Fine(order'[p], Unforced')
  BY <1>2, <1>3 DEF CreateOrder
<1>4. ASSUME NEW c \in Calls, NEW q \in Quotes, NEW o \in Orders, NEW total \in Totals,
             ConvertWrite(c, q, o, total)
      PROVE  Fine(order'[p], Unforced')
  BY <1>2, <1>4 DEF ConvertWrite
<1>5. ASSUME NEW c \in Calls, NEW o \in Orders, NEW to \in OrderStatuses, AdvanceWrite(c, o, to)
      PROVE  Fine(order'[p], Unforced')
  <2>1. CallInv(c, o) /\ to # "COMPLETED"
    BY <1>5 DEF AdvanceWrite, CallInv, Inv
  <2>2. Unforced' => order[o].status # "COMPLETED"
    BY <1>5 DEF AdvanceWrite, Mark, Unforced, Forward
  <2> QED
    BY <1>5, <2>1, <2>2 DEF AdvanceWrite
<1>6. ASSUME NEW c \in Calls, NEW o \in Orders, CancelWrite(c, o)
      PROVE  Fine(order'[p], Unforced')
  <2>1. Unforced' => order[o].status # "COMPLETED"
    BY <1>6 DEF CancelWrite, Mark, Unforced, CancellableFrom
  <2>2. /\ order'[p].invoices = order[p].invoices
        /\ order'[p].status = IF p = o THEN "CANCELLED" ELSE order[p].status
    BY <1>6, CancelFields
  <2> QED
    BY <2>1, <2>2
<1>7. ASSUME NEW c \in Calls, NEW o \in Orders, NEW amount \in Amounts, PayWrite(c, o, amount)
      PROVE  Fine(order'[p], Unforced')
  <2>1. TypeOK /\ InvoicedOnce
    BY DEF Inv
  <2>2. order[o] \in Order /\ amount \in Nat /\ order[o].invoices = 0
        /\ order[o].paid + amount <= order[o].total
    <3> HIDE <1>0 DEF TypeOK, Order
    <3> QED
      BY <1>7, <2>1, PaymentFits DEF TypeOK
  <2>3. Fine(Paid(order[o], amount), Unforced')
    <3>1. order[o].status # "COMPLETED"
      BY <2>2
    <3> HIDE <1>0 DEF TypeOK, Order
    <3> QED
      BY <2>2, <3>1, PaidFields
  <2> QED
    BY <1>7, <2>3 DEF PayWrite
<1>8. ASSUME NEW o \in Orders, StartMaking(o)
      PROVE  Fine(order'[p], Unforced')
  BY <1>8 DEF StartMaking
<1>9. ASSUME NEW c \in Calls, NEW o \in Orders, MakingReadyWrite(c, o)
      PROVE  Fine(order'[p], Unforced')
  <2>1. Unforced' => order[o].status # "COMPLETED"
    BY <1>9 DEF MakingReadyWrite, Mark, Unforced
  <2> QED
    BY <1>9, <2>1 DEF MakingReadyWrite
<1> HIDE DEF Fine
<1> QED
  BY OrderSteps, <1>1, <1>3, <1>4, <1>5, <1>6, <1>7, <1>8, <1>9

LEMMA StockMatchesOrderKept ==
    ASSUME ConstantsAssumption, Inv, [Next]_vars
    PROVE  StockMatchesOrder'
<1> DEFINE Fine(row) ==
        row.out - row.back =
            IF profile = "shop" /\ row.status \notin {"NONE", "CANCELLED"} THEN 1 ELSE 0
<1> SUFFICES ASSUME Unforced', NEW p \in Orders
             PROVE  Fine(order'[p])
  BY MarksGrow DEF StockMatchesOrder
<1>0. TypeOK /\ \A o \in Orders : Fine(order[o]) /\ OrderInv(o)
  BY UnforcedBefore DEF Inv, StockMatchesOrder
<1> USE <1>0 DEF TypeOK, Order
<1>1. CASE UNCHANGED order
  BY <1>1
<1>2. ASSUME NEW q \in Quotes \cup {None}, NEW total \in Totals
      PROVE  Fine(Confirmed(q, total))
  BY DEF Confirmed, NoOrder
<1>3. ASSUME NEW o \in Orders, NEW total \in Totals, CreateOrder(o, total)
      PROVE  Fine(order'[p])
  BY <1>2, <1>3 DEF CreateOrder
<1>4. ASSUME NEW c \in Calls, NEW q \in Quotes, NEW o \in Orders, NEW total \in Totals,
             ConvertWrite(c, q, o, total)
      PROVE  Fine(order'[p])
  BY <1>2, <1>4 DEF ConvertWrite
<1>5. ASSUME NEW c \in Calls, NEW o \in Orders, NEW to \in OrderStatuses, AdvanceWrite(c, o, to)
      PROVE  Fine(order'[p])
  <2>1. to \in Forward(order[o].status)
    BY <1>5 DEF AdvanceWrite, Mark, Unforced
  <2>2. /\ order[o].status \notin {"NONE", "CANCELLED"}
        /\ to \notin {"NONE", "CANCELLED"}
    BY <2>1 DEF Forward
  <2> QED
    BY <1>5, <2>2 DEF AdvanceWrite
<1>6. ASSUME NEW c \in Calls, NEW o \in Orders, CancelWrite(c, o)
      PROVE  Fine(order'[p])
  <2>1. order[o].status \in CancellableFrom
    BY <1>6 DEF CancelWrite, Mark, Unforced
  <2>2. order[o].out > 0 <=> profile = "shop"
    BY <2>1 DEF CancellableFrom, OrderInv
  <2>3. /\ order'[p].out = order[p].out
        /\ order'[p].status = IF p = o THEN "CANCELLED" ELSE order[p].status
        /\ order'[p].back = IF p = o /\ order[o].out > 0 THEN order[p].back + 1
                                                          ELSE order[p].back
    BY <1>6, CancelFields
  <2> QED
    BY <2>1, <2>2, <2>3 DEF CancellableFrom
<1>7. ASSUME NEW c \in Calls, NEW o \in Orders, NEW amount \in Amounts, PayWrite(c, o, amount)
      PROVE  Fine(order'[p])
  <2>1. order[o].status # "CANCELLED"
    BY <1>7 DEF PayWrite, Mark, Unforced
  <2>2. order[o].status # "NONE"
    BY <1>7 DEF PayWrite, Balance, OrderInv, NoOrder, ConstantsAssumption
  <2>3. Fine(Paid(order[o], amount))
    BY <2>1, <2>2 DEF Paid, Settled
  <2> QED
    BY <1>7, <2>3 DEF PayWrite
<1>8. ASSUME NEW o \in Orders, StartMaking(o)
      PROVE  Fine(order'[p])
  BY <1>8 DEF StartMaking
<1>9. ASSUME NEW c \in Calls, NEW o \in Orders, MakingReadyWrite(c, o)
      PROVE  Fine(order'[p])
  <2>1. order[o].status # "CANCELLED"
    BY <1>9 DEF MakingReadyWrite, Mark, Unforced
  <2>2. order[o].status # "NONE"
    BY <1>9 DEF MakingReadyWrite, Inv, CallInv, MakingInv
  <2> QED
    BY <1>9, <2>1, <2>2 DEF MakingReadyWrite
<1> HIDE DEF Fine
<1> QED
  BY OrderSteps, <1>1, <1>3, <1>4, <1>5, <1>6, <1>7, <1>8, <1>9
LEMMA QuoteInvKept ==
    ASSUME ConstantsAssumption, Inv, [Next]_vars
    PROVE  QuoteInv'
<1> DEFINE Of(q) == {p \in Orders : order[p].quote = q}
           Fine(q) == IF quote[q].status = "CONVERTED" THEN \E o \in Orders : Of(q) = {o}
                                                       ELSE Of(q) = {}
<1> SUFFICES ASSUME Unforced', NEW q \in Quotes
             PROVE  Fine(q)'
  BY DEF QuoteInv
<1>0. TypeOK /\ Fine(q)
  BY UnforcedBefore DEF Inv, QuoteInv
<1>1. \A p \in Orders : order[p] \in Order
  BY <1>0 DEF TypeOK
<1>2. CASE \E c \in Calls, r \in Quotes, o \in Orders, total \in Totals : ConvertWrite(c, r, o, total)
  <2> PICK c \in Calls, r \in Quotes, o \in Orders, total \in Totals : ConvertWrite(c, r, o, total)
    BY <1>2
  <2>1. Convertible(r) /\ order[o].status = "NONE"
    BY DEF ConvertWrite, Mark, Unforced
  <2>2. order[o].quote = None /\ None \notin Quotes
    BY <2>1 DEF Inv, OrderInv, NoOrder, ConstantsAssumption
  <2>3. \A p \in Orders : order'[p].quote = IF p = o THEN r ELSE order[p].quote
    BY <1>0 DEF TypeOK, ConvertWrite, Confirmed, NoOrder
  <2>4. quote'[q].status = IF q = r THEN "CONVERTED" ELSE quote[q].status
    BY <1>0 DEF TypeOK, ConvertWrite
  <2>5. CASE q = r
    <3>1. Of(q) = {}
      BY <1>0, <2>1, <2>5 DEF Convertible
    <3>2. Of(q)' = {o}
      BY <2>3, <2>5, <3>1
    <3> QED
      BY <2>4, <2>5, <3>2
  <2>6. CASE q # r
    <3>1. Of(q)' = Of(q)
      BY <2>2, <2>3, <2>6
    <3> QED
      BY <1>0, <2>4, <2>6, <3>1
  <2> QED
    BY <2>5, <2>6
<1>3. CASE ~ \E c \in Calls, r \in Quotes, o \in Orders, total \in Totals :
               ConvertWrite(c, r, o, total)
  <2>1. \A p \in Orders : order'[p].quote = order[p].quote
    <3> SUFFICES ASSUME NEW p \in Orders
                 PROVE  order'[p].quote = order[p].quote
      OBVIOUS
    <3>1. ASSUME NEW o \in Orders, NEW total \in Totals, CreateOrder(o, total)
          PROVE  order'[p].quote = order[p].quote
      <4>1. order[o].quote = None
        BY <3>1 DEF CreateOrder, Inv, OrderInv, NoOrder
      <4> QED
        BY <1>0, <3>1, <4>1 DEF TypeOK, CreateOrder, Confirmed, NoOrder
    <3>2. ASSUME NEW c \in Calls, NEW o \in Orders, NEW to \in OrderStatuses,
                 AdvanceWrite(c, o, to)
          PROVE  order'[p].quote = order[p].quote
      BY <1>0, <1>1, <3>2 DEF TypeOK, AdvanceWrite, Order
    <3>3. ASSUME NEW c \in Calls, NEW o \in Orders, CancelWrite(c, o)
          PROVE  order'[p].quote = order[p].quote
      BY <1>0, <3>3, CancelFields
    <3>4. ASSUME NEW c \in Calls, NEW o \in Orders, NEW amount \in Amounts,
                 PayWrite(c, o, amount)
          PROVE  order'[p].quote = order[p].quote
      <4>1. InvoicedOnce
        BY DEF Inv
      <4> QED
        BY <1>0, <1>1, <3>4, <4>1, PaymentFits, PaidFields DEF TypeOK
    <3>5. ASSUME NEW o \in Orders, StartMaking(o)
          PROVE  order'[p].quote = order[p].quote
      BY <1>0, <1>1, <3>5 DEF TypeOK, StartMaking, Order
    <3>6. ASSUME NEW c \in Calls, NEW o \in Orders, MakingReadyWrite(c, o)
          PROVE  order'[p].quote = order[p].quote
      BY <1>0, <1>1, <3>6 DEF TypeOK, MakingReadyWrite, Order
    <3> QED
      BY OrderSteps, <1>3, <3>1, <3>2, <3>3, <3>4, <3>5, <3>6
  <2>2. quote'[q].status = "CONVERTED" <=> quote[q].status = "CONVERTED"
    <3>1. ASSUME NEW r \in Quotes, NEW status \in {"SENT", "ACCEPTED", "REJECTED"},
                 SetQuote(r, status)
          PROVE  quote'[q].status = "CONVERTED" <=> quote[q].status = "CONVERTED"
      BY <1>0, <3>1 DEF TypeOK, SetQuote, Mark, Unforced
    <3>2. ASSUME NEW r \in Quotes, QuoteOverdue(r)
          PROVE  quote'[q].status = "CONVERTED" <=> quote[q].status = "CONVERTED"
      BY <1>0, <3>2 DEF TypeOK, QuoteOverdue
    <3>3. ASSUME NEW c \in Calls, NEW r \in Quotes, EditQuoteWrite(c, r)
          PROVE  quote'[q].status = "CONVERTED" <=> quote[q].status = "CONVERTED"
      BY <1>0, <3>3 DEF TypeOK, EditQuoteWrite
    <3>4. ASSUME NEW c \in Calls, NEW r \in Quotes, ExpireWrite(c, r)
          PROVE  quote'[q].status = "CONVERTED" <=> quote[q].status = "CONVERTED"
      <4>1. quote[r].status # "CONVERTED"
        BY <3>4 DEF ExpireWrite, Mark, Unforced, Convertible
      <4> QED
        BY <1>0, <3>4, <4>1 DEF TypeOK, ExpireWrite
    <3> QED
      BY QuoteSteps, <1>3, <3>1, <3>2, <3>3, <3>4
  <2>3. Of(q)' = Of(q)
    BY <2>1
  <2> QED
    BY <1>0, <2>2, <2>3
<1> QED
  BY <1>2, <1>3

LEMMA ReservationsEndKept ==
    ASSUME Inv, [Next]_vars
    PROVE  ReservationsEnd'
<1> DEFINE Held(m) == m.held = m.reserved /\ (m.held # {} => m.status = "TO_PREPARE")
           Made(m) == m.status \in {"IN_PRODUCTION", "READY", "COMPLETED"} =>
                          m.rows \subseteq m.consumed
<1> SUFFICES ASSUME NEW p \in Orders
             PROVE  /\ "stranded" \notin marks' => Held(making'[p])
                    /\ "late" \notin marks' => Made(making'[p])
  BY DEF ReservationsEnd, HeldWhileReserved, MadeOfConsumed
<1> DEFINE Goal == /\ "stranded" \notin marks' => Held(making'[p])
                   /\ "late" \notin marks' => Made(making'[p])
<1>0. /\ making \in [Orders -> Making]
      /\ \A o \in Orders : making[o].reserved \subseteq making[o].rows
      /\ "stranded" \notin marks' => \A o \in Orders : Held(making[o])
      /\ "late" \notin marks' => \A o \in Orders : Made(making[o])
  BY UnforcedBefore DEF Inv, TypeOK, MakingInv, ReservationsEnd, HeldWhileReserved, MadeOfConsumed
<1>1. \A o \in Orders : making[o] \in Making
  BY <1>0
<1> USE <1>0, <1>1 DEF Making
<1>2. CASE UNCHANGED making
  BY <1>2
<1>3. ASSUME NEW o \in Orders, CreateMaking(o)
      PROVE  Goal
  BY <1>3 DEF CreateMaking
<1>4. ASSUME NEW o \in Orders, Reserve(o)
      PROVE  Goal
  <2>1. /\ making'[o].rows = making[o].rows /\ making'[o].reserved = making[o].rows
        /\ making'[o].held = making[o].held \cup making[o].rows
        /\ making'[o].status = "TO_PREPARE" /\ making[o].status = "TO_PREPARE"
        /\ making'[o].consumed = making[o].consumed
    BY <1>4 DEF Reserve
  <2>2. p # o => making'[p] = making[p]
    BY <1>4 DEF Reserve
  <2> QED
    BY <2>1, <2>2
<1>5. ASSUME NEW o \in Orders, StartMaking(o)
      PROVE  Goal
  <2>1. /\ making'[o].reserved = {} /\ making[o].rows = making[o].reserved
        /\ making'[o].held = making[o].held \ making[o].rows
        /\ making'[o].rows = making[o].rows /\ making'[o].consumed = making[o].rows
    BY <1>5 DEF StartMaking
  <2>2. p # o => making'[p] = making[p]
    BY <1>5 DEF StartMaking
  <2> QED
    BY <2>1, <2>2
<1>6. ASSUME NEW o \in Orders, CancelMaking(o)
      PROVE  Goal
  <2>1. /\ making'[o].reserved = {} /\ making'[o].status = "CANCELLED"
        /\ making'[o].held = making[o].held \ making[o].reserved
    BY <1>6 DEF CancelMaking
  <2>2. p # o => making'[p] = making[p]
    BY <1>6 DEF CancelMaking
  <2> QED
    BY <2>1, <2>2
<1>7. ASSUME NEW c \in Calls, NEW o \in Orders, NEW m \in Materials, AddMaterialWrite(c, o, m)
      PROVE  Goal
  <2>1. /\ UNCHANGED <<making[o].reserved, making[o].held, making[o].status, making[o].consumed>>
        /\ "late" \notin marks' => making[o].status = "TO_PREPARE"
    BY <1>7 DEF AddMaterialWrite, Mark
  <2>2. p # o => making'[p] = making[p]
    BY <1>7 DEF AddMaterialWrite
  <2> QED
    BY <2>1, <2>2
<1>8. ASSUME NEW c \in Calls, NEW o \in Orders, NEW m \in Materials, RemoveMaterialWrite(c, o, m)
      PROVE  Goal
  <2>1. /\ UNCHANGED <<making[o].held, making[o].status>>
        /\ making'[o].rows = making[o].rows \ {m}
        /\ making'[o].consumed = making[o].consumed \ {m}
    BY <1>8 DEF RemoveMaterialWrite
  <2>3. "stranded" \notin marks' => making'[o].reserved = making[o].reserved
    <3>1. "stranded" \notin marks' => m \notin making[o].reserved
      BY <1>8 DEF RemoveMaterialWrite, Mark
    <3>2. making'[o].reserved = making[o].reserved \ {m}
      BY <1>8 DEF RemoveMaterialWrite
    <3> QED
      BY <3>1, <3>2
  <2>2. p # o => making'[p] = making[p]
    BY <1>8 DEF RemoveMaterialWrite
  <2> QED
    BY <2>1, <2>2, <2>3
<1>9. ASSUME NEW c \in Calls, NEW o \in Orders, NEW to \in OrderStatuses, AdvanceWrite(c, o, to)
      PROVE  Goal
  BY <1>9 DEF AdvanceWrite, Delivered
<1>10. ASSUME NEW c \in Calls, NEW o \in Orders, MakingReadyWrite(c, o)
       PROVE  Goal
  <2>1. making[o].status \in {"IN_PRODUCTION", "READY", "COMPLETED"}
    BY <1>10 DEF MakingReadyWrite, Inv, CallInv
  <2> QED
    BY <1>10, <2>1 DEF MakingReadyWrite
<1> QED
  BY MakingSteps, <1>2, <1>3, <1>4, <1>5, <1>6, <1>7, <1>8, <1>9, <1>10

(***************************************************************************)
(* The theorems.                                                           *)
(***************************************************************************)

LEMMA InitInv ==
    ASSUME ConstantsAssumption, Init
    PROVE  Inv
<1>1. \A q \in Quotes : {p \in Orders : order[p].quote = q} = {}
  BY DEF ConstantsAssumption, Init, NoOrder
<1>2. \A o \in Orders : order[o] = NoOrder /\ making[o] = NoMaking
  BY DEF Init
<1>3. \A o \in Orders : OrderInv(o) /\ MakingInv(o)
  BY <1>2 DEF OrderInv, MakingInv, NoOrder, NoMaking
<1>4. \A c \in Calls, o \in Orders : CallInv(c, o)
  BY DEF Init, CallInv, Idle
<1>5. InvoicedOnce /\ CompletedIsPaid /\ StockMatchesOrder
  BY <1>2 DEF InvoicedOnce, CompletedIsPaid, StockMatchesOrder, NoOrder
<1>6. QuoteInv
  BY <1>1 DEF Init, QuoteInv
<1>7. ReservationsEnd
  BY <1>2 DEF ReservationsEnd, HeldWhileReserved, MadeOfConsumed, NoMaking
<1> QED
  BY <1>3, <1>4, <1>5, <1>6, <1>7, InitTyped DEF Inv

LEMMA InvKept ==
    ASSUME ConstantsAssumption, Inv, [Next]_vars
    PROVE  Inv'
<1>1. TypeOK'
  BY MarksGrow, OrdersTyped, MakingsTyped, QuotesTyped, CallsTyped, MarksTyped DEF TypeOK, Inv
<1>2. (\A o \in Orders : OrderInv(o) /\ MakingInv(o))'
  BY OrderInvKept, MakingInvKept
<1>3. (\A c \in Calls, o \in Orders : CallInv(c, o))'
  BY CallInvKept
<1> QED
  BY <1>1, <1>2, <1>3, InvoicedOnceKept, CompletedIsPaidKept, StockMatchesOrderKept,
     QuoteInvKept, ReservationsEndKept DEF Inv

THEOREM InvCorrect == Spec => []Inv
<1>1. Init => Inv
  BY ConstantsAssumption, InitInv
<1>2. Inv /\ [Next]_vars => Inv'
  BY ConstantsAssumption, InvKept
<1> QED
  BY <1>1, <1>2, PTL DEF Spec

\* However many payments meet, an order is paid its total at most and invoiced once.
THEOREM InvoicedOnceCorrect == Spec => []InvoicedOnce
<1>1. Inv => InvoicedOnce
  BY DEF Inv
<1> QED
  BY <1>1, InvCorrect, PTL

\* COMPLETED means paid, and paid means COMPLETED as long as nothing was forced.
THEOREM CompletedIsPaidCorrect == Spec => []CompletedIsPaid
<1>1. Inv => CompletedIsPaid
  BY DEF Inv
<1> QED
  BY <1>1, InvCorrect, PTL

\* The goods of an order are out of the stock until it is cancelled.
THEOREM StockMatchesOrderCorrect == Spec => []StockMatchesOrder
<1>1. Inv => StockMatchesOrder
  BY DEF Inv
<1> QED
  BY <1>1, InvCorrect, PTL

\* A quote is converted to one order.
THEOREM OneOrderPerQuoteCorrect == Spec => []OneOrderPerQuote
<1>1. Inv => OneOrderPerQuote
  <2> SUFFICES ASSUME Inv, Unforced, NEW q \in Quotes
               PROVE  Cardinality({o \in Orders : order[o].quote = q}) =
                          IF quote[q].status = "CONVERTED" THEN 1 ELSE 0
    BY DEF OneOrderPerQuote
  <2>1. CASE quote[q].status = "CONVERTED"
    <3>1. PICK o \in Orders : {p \in Orders : order[p].quote = q} = {o}
      BY <2>1 DEF Inv, QuoteInv
    <3> QED
      BY <2>1, <3>1, FS_Singleton
  <2>2. CASE quote[q].status # "CONVERTED"
    <3>1. {p \in Orders : order[p].quote = q} = {}
      BY <2>2 DEF Inv, QuoteInv
    <3> QED
      BY <2>2, <3>1, FS_EmptySet
  <2> QED
    BY <2>1, <2>2
<1> QED
  BY <1>1, InvCorrect, PTL

\* The reservations of a manufacturing order end, and what it makes was consumed.
THEOREM ReservationsEndCorrect == Spec => []ReservationsEnd
<1>1. Inv => ReservationsEnd
  BY DEF Inv
<1> QED
  BY <1>1, InvCorrect, PTL

\* No step takes an order back unless it was forced.
LEMMA OnwardStep ==
    ASSUME ConstantsAssumption, Inv, [Next]_vars, Unforced'
    PROVE  Onward
<1> DEFINE Fine(row, new) == /\ Rank(row.status) <= Rank(new.status)
                             /\ Rank(row.status) = 5 => new.status = row.status
<1> SUFFICES ASSUME NEW p \in Orders
             PROVE  Fine(order[p], order'[p])
  BY DEF Onward
<1>0. TypeOK /\ \A o \in Orders : order[o] \in Order
  BY DEF Inv, TypeOK
<1> USE <1>0 DEF Rank
<1>1. CASE UNCHANGED order
  BY <1>1
<1>2. ASSUME NEW o \in Orders, NEW total \in Totals, CreateOrder(o, total)
      PROVE  Fine(order[p], order'[p])
  BY <1>2 DEF CreateOrder, Confirmed, NoOrder, TypeOK
<1>3. ASSUME NEW c \in Calls, NEW q \in Quotes, NEW o \in Orders, NEW total \in Totals,
             ConvertWrite(c, q, o, total)
      PROVE  Fine(order[p], order'[p])
  BY <1>3 DEF ConvertWrite, Confirmed, NoOrder, TypeOK
<1>4. ASSUME NEW c \in Calls, NEW o \in Orders, NEW to \in OrderStatuses, AdvanceWrite(c, o, to)
      PROVE  Fine(order[p], order'[p])
  <2>1. to \in Forward(order[o].status)
    BY <1>4 DEF AdvanceWrite, Mark, Unforced
  <2>2. order'[p].status = IF p = o THEN to ELSE order[p].status
    BY <1>4 DEF AdvanceWrite, TypeOK, Order
  <2> QED
    BY <2>1, <2>2 DEF Forward
<1>5. ASSUME NEW c \in Calls, NEW o \in Orders, CancelWrite(c, o)
      PROVE  Fine(order[p], order'[p])
  <2>1. order[o].status \in CancellableFrom
    BY <1>5 DEF CancelWrite, Mark, Unforced
  <2>2. order'[p].status = IF p = o THEN "CANCELLED" ELSE order[p].status
    BY <1>5, CancelFields
  <2> QED
    BY <2>1, <2>2 DEF CancellableFrom
<1>6. ASSUME NEW c \in Calls, NEW o \in Orders, NEW amount \in Amounts, PayWrite(c, o, amount)
      PROVE  Fine(order[p], order'[p])
  <2>1. order[o].status # "CANCELLED"
    BY <1>6 DEF PayWrite, Mark, Unforced
  <2>2. InvoicedOnce
    BY DEF Inv
  <2>3. order'[p].status \in {order[p].status, "COMPLETED"} /\ (p # o => order'[p] = order[p])
    BY <1>6, <2>2, PaymentFits, PaidFields DEF TypeOK
  <2>4. order[o].status \in OrderStatuses
    BY DEF Order
  <2> QED
    BY <2>1, <2>3, <2>4 DEF OrderStatuses
<1>7. ASSUME NEW o \in Orders, StartMaking(o)
      PROVE  Fine(order[p], order'[p])
  <2>1. order'[p].status \in {order[p].status} \cup
            (IF order[p].status \in {"CONFIRMED", "IN_PROGRESS"} THEN {"IN_PROGRESS"} ELSE {})
    BY <1>7 DEF StartMaking, TypeOK, Order
  <2> QED
    BY <2>1
<1>8. ASSUME NEW c \in Calls, NEW o \in Orders, MakingReadyWrite(c, o)
      PROVE  Fine(order[p], order'[p])
  <2>1. order[o].status \notin {"DELIVERED", "COMPLETED", "CANCELLED"}
    BY <1>8 DEF MakingReadyWrite, Mark, Unforced
  <2>2. order'[p].status = IF p = o THEN "READY" ELSE order[p].status
    BY <1>8 DEF MakingReadyWrite, TypeOK, Order
  <2>3. order[o].status \in OrderStatuses
    BY DEF Order
  <2> QED
    BY <2>1, <2>2, <2>3 DEF OrderStatuses
<1> HIDE DEF Fine
<1> QED
  BY OrderSteps, <1>1, <1>2, <1>3, <1>4, <1>5, <1>6, <1>7, <1>8

\* FORWARD_TRANSITIONS and CANCELLABLE_FROM hold of what is written, unless it was forced.
THEOREM ForwardCorrect == Spec => ForwardUnlessForced
<1>1. Inv /\ [Next]_vars => [Unforced' => Onward]_vars
  BY ConstantsAssumption, OnwardStep
<1> QED
  BY <1>1, InvCorrect, PTL DEF Spec, ForwardUnlessForced
=============================================================================
