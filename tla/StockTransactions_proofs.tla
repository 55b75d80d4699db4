---------------------- MODULE StockTransactions_proofs ----------------------
(***************************************************************************)
(* Proofs about StockTransactions, for every set of requests, rows,        *)
(* baskets and operations: the state is well typed, no row ever becomes    *)
(* negative, its reserved units are what the manufacturing orders hold,    *)
(* and, as long as no operation overwrites a quantity with one computed    *)
(* from an earlier read, the ledger explains the stock and the stock table *)
(* implements AtomicStock.  Nobody waits for ever by a lock left behind,   *)
(* and every request has only so many statements.                          *)
(***************************************************************************)
EXTENDS StockTransactions, SequenceTheorems, Sums, TLAPS

(***************************************************************************)
(* Type correctness.                                                       *)
(***************************************************************************)

\* The lines of a basket, signed, are stock lines.
LEMMA SignedLines ==
    ASSUME NEW c \in Carts, NEW s \in {-1, 1}
    PROVE  Signed(c, s) \in Seq(Line)
<1>1. c \in Seq(CartLine)
  BY ConstantsAssumption
<1>2. Len(c) \in Nat /\ DOMAIN c = 1 .. Len(c)
  BY <1>1
<1>3. \A i \in DOMAIN c : [row |-> c[i].row, d |-> s * c[i].n] \in Line
  <2> TAKE i \in DOMAIN c
  <2>1. c[i] \in CartLine
    BY <1>1, <1>2
  <2>2. c[i].row \in Rows /\ c[i].n \in Nat
    BY <2>1 DEF CartLine
  <2>3. s * c[i].n \in Int
    BY <2>2
  <2> QED
    BY <2>2, <2>3 DEF Line
<1>4. Signed(c, s) \in [1 .. Len(c) -> Line]
  BY <1>2, <1>3 DEF Signed
<1> QED
  BY <1>2, <1>4

\* The same lines with the opposite sign.
LEMMA OppositeLines ==
    ASSUME NEW ls \in Seq(Line)
    PROVE  [i \in DOMAIN ls |-> [ls[i] EXCEPT !.d = -@]] \in Seq(Line)
<1>1. Len(ls) \in Nat /\ DOMAIN ls = 1 .. Len(ls)
  OBVIOUS
<1>2. \A i \in DOMAIN ls : [ls[i] EXCEPT !.d = -@] \in Line
  <2> TAKE i \in DOMAIN ls
  <2>1. ls[i] \in Line
    OBVIOUS
  <2> QED
    BY <2>1 DEF Line
<1>3. [i \in DOMAIN ls |-> [ls[i] EXCEPT !.d = -@]] \in [1 .. Len(ls) -> Line]
  BY <1>1, <1>2
<1> QED
  BY <1>1, <1>3

\* A request only ever begins with well-typed lines.
LEMMA BeginTyped ==
    ASSUME TypeOK, NEW p \in Requests, NEW k \in AllKinds, NEW ls \in Seq(Line),
           NEW t \in Requests \cup {None}, NEW first \in {"check", "run"},
           Begin(p, k, ls, t, first)
    PROVE  TypeOK'
  BY DEF TypeOK, Begin, Version, Line

\* The line a request is at names a row and an integer change.
LEMMA LineTyped ==
    ASSUME TypeOK, NEW p \in Requests, at[p] <= Len(lines[p])
    PROVE  L(p) \in Line /\ L(p).row \in Rows /\ L(p).d \in Int
<1>1. lines[p] \in Seq(Line) /\ at[p] \in Nat \ {0}
  BY DEF TypeOK
<1>2. at[p] \in 1 .. Len(lines[p])
  BY <1>1
<1>3. lines[p][at[p]] \in Line
  BY <1>1, <1>2
<1> QED
  BY <1>3 DEF L, Line

\* What a transaction sees of a row is a version of it.
LEMMA CurrentTyped ==
    ASSUME TypeOK, NEW p \in Requests, NEW r \in Rows
    PROVE  Current(p, r) \in Version
  BY DEF TypeOK, Current

\* Writing a version keeps the state well typed.
LEMMA PutTyped ==
    ASSUME TypeOK, NEW p \in Requests, AtLine(p), NEW v \in Version, Put(p, v)
    PROVE  TypeOK'
<1>1. L(p).row \in Rows
  BY LineTyped DEF AtLine
<1> QED
  BY <1>1 DEF TypeOK, Put, request

LEMMA FailTyped ==
    ASSUME TypeOK, NEW p \in Requests, Fail(p)
    PROVE  TypeOK'
  BY DEF TypeOK, Fail, Unlocked, request

\* Each statement keeps the state well typed.
LEMMA ArriveTyped ==
    ASSUME TypeOK, NEW p \in Requests, Arrive(p)
    PROVE  TypeOK'
<1> USE ConstantsAssumption
<1>1. CASE BeginSale(p)
  BY <1>1, SignedLines, BeginTyped DEF BeginSale, AllKinds
<1>2. CASE BeginOrder(p)
  BY <1>2, SignedLines, BeginTyped DEF BeginOrder, AllKinds
<1>3. CASE BeginRestock(p)
  BY <1>3, SignedLines, BeginTyped DEF BeginRestock, AllKinds
<1>4. CASE BeginIn(p)
  BY <1>4, SignedLines, BeginTyped DEF BeginIn, AllKinds
<1>5. CASE BeginOut(p)
  BY <1>5, SignedLines, BeginTyped DEF BeginOut, AllKinds
<1>6. CASE BeginAdjust(p)
  <2> PICK r \in Rows, counted \in Counts :
        Begin(p, "adjust", <<[row |-> r, d |-> counted - row[r].q]>>, None, "run")
    BY <1>6 DEF BeginAdjust
  <2>1. counted - row[r].q \in Int
    BY DEF TypeOK, Version
  <2>2. [row |-> r, d |-> counted - row[r].q] \in Line
    BY <2>1 DEF Line
  <2>3. <<[row |-> r, d |-> counted - row[r].q]>> \in Seq(Line)
    BY <2>2
  <2> QED
    BY <2>3, BeginTyped DEF AllKinds
<1>7. CASE BeginProduce(p)
  <2> PICK ins, outs \in Carts :
        Begin(p, "produce", Signed(ins, -1) \o Signed(outs, 1), None, "run")
    BY <1>7 DEF BeginProduce
  <2>1. Signed(ins, -1) \in Seq(Line) /\ Signed(outs, 1) \in Seq(Line)
    BY SignedLines
  <2>2. Signed(ins, -1) \o Signed(outs, 1) \in Seq(Line)
    BY <2>1
  <2> QED
    BY <2>2, BeginTyped DEF AllKinds
<1>8. CASE BeginReceipt(p)
  BY <1>8, SignedLines, BeginTyped DEF BeginReceipt, AllKinds
<1>9. CASE BeginCancel(p)
  <2> PICK t \in Requests :
        Begin(p, "cancel",
              [i \in DOMAIN lines[t] |-> [lines[t][i] EXCEPT !.d = -@]], t, "run")
    BY <1>9 DEF BeginCancel
  <2>1. lines[t] \in Seq(Line)
    BY DEF TypeOK
  <2> QED
    BY <2>1, OppositeLines, BeginTyped DEF AllKinds
<1>10. CASE BeginReserve(p)
  BY <1>10, SignedLines, BeginTyped DEF BeginReserve, AllKinds
<1>11. CASE BeginStart(p)
  BY <1>11, BeginTyped DEF BeginStart, BeginOnReservation, TypeOK, AllKinds
<1>12. CASE BeginRelease(p)
  BY <1>12, BeginTyped DEF BeginRelease, BeginOnReservation, TypeOK, AllKinds
<1> QED
  BY <1>1, <1>2, <1>3, <1>4, <1>5, <1>6, <1>7, <1>8, <1>9, <1>10, <1>11, <1>12
  DEF Arrive

\* Each statement of a transaction keeps the state well typed.
LEMMA StepTyped ==
    ASSUME TypeOK, NEW p \in Requests, Step(p)
    PROVE  TypeOK'
<1>1. CASE CheckLine(p)
  BY <1>1 DEF CheckLine, TypeOK, request
<1>2. CASE CheckDone(p)
  BY <1>2 DEF CheckDone, TypeOK, request
<1>3. CASE ReadRow(p)
  <2>1. Current(p, L(p).row) \in Version
    BY <1>3, LineTyped, CurrentTyped DEF ReadRow, AtLine
  <2> QED
    BY <1>3, <2>1 DEF ReadRow, TypeOK, request
<1>4. CASE ChangeRow(p)
  <2> DEFINE v == Current(p, L(p).row)
             w == [q |-> v.q + L(p).d, rsv |-> v.rsv, net |-> v.net + L(p).d]
  <2>1. v \in Version /\ L(p).d \in Int
    BY <1>4, LineTyped, CurrentTyped DEF ChangeRow, AtLine
  <2>2. w \in Version
    BY <2>1 DEF Version
  <2> QED
    BY <1>4, <2>2, PutTyped DEF ChangeRow
<1>5. CASE OverwriteRow(p)
  <2> DEFINE v == Current(p, L(p).row)
  <2> PICK s \in seen[p] :
        Put(p, [q |-> s.q + L(p).d, rsv |-> v.rsv, net |-> v.net + L(p).d])
    BY <1>5 DEF OverwriteRow
  <2>1. v \in Version /\ L(p).d \in Int
    BY <1>5, LineTyped, CurrentTyped DEF OverwriteRow, AtLine
  <2>2. s \in Version
    BY DEF TypeOK
  <2>3. [q |-> s.q + L(p).d, rsv |-> v.rsv, net |-> v.net + L(p).d] \in Version
    BY <2>1, <2>2 DEF Version
  <2> QED
    BY <1>5, <2>3, PutTyped DEF OverwriteRow
<1>6. CASE ReserveRow(p)
  <2> DEFINE v == Current(p, L(p).row)
  <2>1. v \in Version /\ L(p).d \in Int
    BY <1>6, LineTyped, CurrentTyped DEF ReserveRow, AtLine
  <2>2. [v EXCEPT !.rsv = @ - L(p).d] \in Version
    BY <2>1 DEF Version
  <2> QED
    BY <1>6, <2>2, PutTyped DEF ReserveRow
<1>7. CASE ConsumeRow(p)
  <2> DEFINE v == Current(p, L(p).row)
  <2>1. v \in Version /\ L(p).d \in Int
    BY <1>7, LineTyped, CurrentTyped DEF ConsumeRow, AtLine
  <2>2. [q |-> v.q + L(p).d, rsv |-> v.rsv + L(p).d, net |-> v.net + L(p).d] \in Version
    BY <2>1 DEF Version
  <2> QED
    BY <1>7, <2>2, PutTyped DEF ConsumeRow
<1>8. CASE ReleaseRow(p)
  <2> DEFINE v == Current(p, L(p).row)
  <2>1. v \in Version /\ L(p).d \in Int
    BY <1>8, LineTyped, CurrentTyped DEF ReleaseRow, AtLine
  <2>2. [v EXCEPT !.rsv = @ + L(p).d] \in Version
    BY <2>1 DEF Version
  <2> QED
    BY <1>8, <2>2, PutTyped DEF ReleaseRow
<1>9. CASE SkipLine(p)
  BY <1>9 DEF SkipLine, TypeOK, request
<1>10. CASE Reject(p)
  BY <1>10, FailTyped DEF Reject
<1>11. CASE Commit(p)
  <2>1. row' \in [Rows -> Version]
    BY <1>11 DEF Commit, TypeOK
  <2>2. doc' \in [Requests -> Statuses]
    BY <1>11 DEF Commit, TypeOK, StatusAfter, Statuses
  <2>3. lock' \in [Rows -> Requests \cup {None}]
    BY <1>11 DEF Commit, TypeOK, Unlocked
  <2>4. pc' \in [Requests -> {"idle", "check", "run", "committed", "failed"}]
    BY <1>11 DEF Commit, TypeOK
  <2> QED
    BY <1>11, <2>1, <2>2, <2>3, <2>4 DEF Commit, TypeOK, request
<1> QED
  BY <1>1, <1>2, <1>3, <1>4, <1>5, <1>6, <1>7, <1>8, <1>9, <1>10, <1>11 DEF Step

\* The state has its type in every reachable state, whatever the requests do.
THEOREM TypeCorrect == Spec => []TypeOK
<1>1. Init => TypeOK
  BY ConstantsAssumption DEF Init, TypeOK, Version, Line, Statuses
<1>2. TypeOK /\ [Next]_vars => TypeOK'
  <2> SUFFICES ASSUME TypeOK, [Next]_vars
               PROVE  TypeOK'
    OBVIOUS
  <2>1. ASSUME NEW p \in Requests, Arrive(p)
        PROVE  TypeOK'
    BY <2>1, ArriveTyped
  <2>2. ASSUME NEW p \in Requests, Step(p)
        PROVE  TypeOK'
    BY <2>2, StepTyped
  <2>3. ASSUME NEW p \in Requests, Timeout(p)
        PROVE  TypeOK'
    BY <2>3, FailTyped DEF Timeout
  <2>4. CASE BreakDeadlock
    <3> PICK circle \in SUBSET Requests : \E p \in circle : Fail(p)
      BY <2>4 DEF BreakDeadlock
    <3> QED
      BY FailTyped
  <2>5. CASE UNCHANGED vars
    BY <2>5 DEF vars, request, TypeOK
  <2> QED
    BY <2>1, <2>2, <2>3, <2>4, <2>5 DEF Next
<1> QED
  BY <1>1, <1>2, PTL DEF Spec

(***************************************************************************)
(* No row is ever negative.  NeverNegative is not inductive: a transaction *)
(* commits the draft it wrote, an overwriting one writes what it has read, *)
(* and both directions of a line matter, so the drafts, the versions read  *)
(* and the signs of the lines come with it.                                *)
(***************************************************************************)
NonNegative(v) == v.q >= 0 /\ v.rsv >= 0

VersionsNonNegative ==
    /\ \A r \in Rows : NonNegative(row[r]) /\ NonNegative(draft[r])
    /\ \A p \in Requests : \A s \in seen[p] : NonNegative(s)

\* The operations whose lines all take units, and those whose lines all add.
Directed(k, ls) ==
    /\ k \in {"sale", "reserve"} => \A i \in DOMAIN ls : ls[i].d < 0
    /\ k \in Overwriting => \A i \in DOMAIN ls : ls[i].d > 0

NonNegativeInv ==
    /\ TypeOK
    /\ VersionsNonNegative
    /\ \A p \in Requests : Directed(kind[p], lines[p])

LEMMA SignedDirection ==
    ASSUME NEW c \in Carts
    PROVE  /\ \A i \in DOMAIN Signed(c, -1) : Signed(c, -1)[i].d < 0
           /\ \A i \in DOMAIN Signed(c, 1) : Signed(c, 1)[i].d > 0
<1>1. c \in Seq(CartLine)
  BY ConstantsAssumption
<1>2. Len(c) \in Nat /\ DOMAIN c = 1 .. Len(c)
  BY <1>1
<1>3. \A i \in DOMAIN c : c[i].n \in Nat \ {0}
  <2> TAKE i \in DOMAIN c
  <2>1. c[i] \in CartLine
    BY <1>1, <1>2
  <2> QED
    BY <2>1 DEF CartLine
<1>4. \A i \in DOMAIN c : (-1) * c[i].n < 0 /\ 1 * c[i].n > 0
  BY <1>3
<1> QED
  BY <1>4 DEF Signed

\* A request that begins leaves every version as it was.
LEMMA BeginNonNegative ==
    ASSUME NonNegativeInv, TypeOK', NEW p \in Requests, NEW k, NEW ls, NEW t, NEW first,
           Begin(p, k, ls, t, first), Directed(k, ls)
    PROVE  NonNegativeInv'
<1>1. VersionsNonNegative'
  BY DEF NonNegativeInv, VersionsNonNegative, NonNegative, Begin
<1>2. ASSUME NEW o \in Requests
      PROVE  Directed(kind[o], lines[o])'
  BY DEF NonNegativeInv, TypeOK, Begin, Directed
<1> QED
  BY <1>1, <1>2 DEF NonNegativeInv

LEMMA ArriveNonNegative ==
    ASSUME NonNegativeInv, TypeOK', NEW p \in Requests, Arrive(p)
    PROVE  NonNegativeInv'
<1>1. CASE BeginSale(p)
  BY <1>1, SignedDirection, BeginNonNegative DEF BeginSale, Directed, Overwriting
<1>2. CASE BeginOrder(p)
  BY <1>2, BeginNonNegative DEF BeginOrder, Directed, Overwriting
<1>3. CASE BeginRestock(p)
  BY <1>3, BeginNonNegative DEF BeginRestock, Directed, Overwriting
<1>4. CASE BeginIn(p)
  BY <1>4, BeginNonNegative DEF BeginIn, Directed, Overwriting
<1>5. CASE BeginOut(p)
  BY <1>5, BeginNonNegative DEF BeginOut, Directed, Overwriting
<1>6. CASE BeginAdjust(p)
  BY <1>6, BeginNonNegative DEF BeginAdjust, Directed, Overwriting
<1>7. CASE BeginProduce(p)
  BY <1>7, BeginNonNegative DEF BeginProduce, Directed, Overwriting
<1>8. CASE BeginReceipt(p)
  BY <1>8, SignedDirection, BeginNonNegative DEF BeginReceipt, Directed, Overwriting
<1>9. CASE BeginCancel(p)
  <2> PICK t \in Requests :
        /\ kind[t] = "sale"
        /\ Begin(p, "cancel",
                 [i \in DOMAIN lines[t] |-> [lines[t][i] EXCEPT !.d = -@]], t, "run")
    BY <1>9 DEF BeginCancel
  <2> DEFINE back == [i \in DOMAIN lines[t] |-> [lines[t][i] EXCEPT !.d = -@]]
  <2>1. \A i \in DOMAIN lines[t] : lines[t][i].d < 0
    BY DEF NonNegativeInv, Directed
  <2>2. lines[t] \in Seq(Line)
    BY DEF NonNegativeInv, TypeOK
  <2>3. DOMAIN lines[t] = 1 .. Len(lines[t])
    BY <2>2
  <2>4. \A i \in DOMAIN lines[t] : lines[t][i] \in Line
    BY <2>2, <2>3
  <2>5. \A i \in DOMAIN lines[t] : [lines[t][i] EXCEPT !.d = -@].d > 0
    BY <2>1, <2>4 DEF Line
  <2>6. \A i \in DOMAIN back : back[i].d > 0
    BY <2>5
  <2>7. Directed("cancel", back)
    BY <2>6 DEF Directed
  <2> QED
    BY <2>7, BeginNonNegative
<1>10. CASE BeginReserve(p)
  BY <1>10, SignedDirection, BeginNonNegative DEF BeginReserve, Directed, Overwriting
<1>11. CASE BeginStart(p)
  BY <1>11, BeginNonNegative DEF BeginStart, BeginOnReservation, Directed, Overwriting
<1>12. CASE BeginRelease(p)
  BY <1>12, BeginNonNegative DEF BeginRelease, BeginOnReservation, Directed, Overwriting
<1> QED
  BY <1>1, <1>2, <1>3, <1>4, <1>5, <1>6, <1>7, <1>8, <1>9, <1>10, <1>11, <1>12
  DEF Arrive

\* A transaction that writes a version with nothing negative in it.
LEMMA PutNonNegative ==
    ASSUME NonNegativeInv, TypeOK', NEW p \in Requests, AtLine(p),
           NEW v \in Version, NonNegative(v), Put(p, v)
    PROVE  NonNegativeInv'
<1>1. L(p).row \in Rows
  BY LineTyped DEF AtLine, NonNegativeInv
<1>2. VersionsNonNegative'
  BY <1>1 DEF NonNegativeInv, TypeOK, VersionsNonNegative, Put
<1> QED
  BY <1>2 DEF NonNegativeInv, Directed, Put, request

\* A request that fails changes no version.
LEMMA FailNonNegative ==
    ASSUME NonNegativeInv, TypeOK', NEW p \in Requests, Fail(p)
    PROVE  NonNegativeInv'
  BY DEF NonNegativeInv, VersionsNonNegative, Directed, Fail, request

\* What a transaction sees of a row is not negative.
LEMMA CurrentNonNegative ==
    ASSUME NonNegativeInv, NEW p \in Requests, AtLine(p)
    PROVE  /\ Current(p, L(p).row) \in Version /\ NonNegative(Current(p, L(p).row))
           /\ L(p).d \in Int
<1>1. L(p).row \in Rows /\ L(p).d \in Int
  BY LineTyped DEF AtLine, NonNegativeInv
<1> QED
  BY <1>1, CurrentTyped DEF NonNegativeInv, VersionsNonNegative, Current

\* The direction of the line a request is at.
LEMMA LineDirected ==
    ASSUME NonNegativeInv, NEW p \in Requests, AtLine(p)
    PROVE  /\ kind[p] \in {"sale", "reserve"} => L(p).d < 0
           /\ kind[p] \in Overwriting => L(p).d > 0
<1>1. lines[p] \in Seq(Line) /\ at[p] \in 1 .. Len(lines[p])
  BY DEF AtLine, NonNegativeInv, TypeOK
<1>2. at[p] \in DOMAIN lines[p]
  BY <1>1
<1> QED
  BY <1>2 DEF NonNegativeInv, Directed, L

LEMMA StepNonNegative ==
    ASSUME NonNegativeInv, TypeOK', NEW p \in Requests, Step(p)
    PROVE  NonNegativeInv'
<1> USE DEF NonNegative
<1>1. CASE CheckLine(p)
  BY <1>1 DEF CheckLine, NonNegativeInv, VersionsNonNegative, Directed, request
<1>2. CASE CheckDone(p)
  BY <1>2 DEF CheckDone, NonNegativeInv, VersionsNonNegative, Directed, request
<1>3. CASE ReadRow(p)
  <2>1. NonNegative(Current(p, L(p).row))
    BY <1>3, CurrentNonNegative DEF ReadRow
  <2>2. \A o \in Requests : seen'[o] \subseteq seen[o] \cup {Current(p, L(p).row)}
    BY <1>3 DEF ReadRow, NonNegativeInv, TypeOK
  <2>3. VersionsNonNegative'
    BY <1>3, <2>1, <2>2 DEF ReadRow, NonNegativeInv, VersionsNonNegative
  <2> QED
    BY <1>3, <2>3 DEF ReadRow, NonNegativeInv, Directed, request
<1>4. CASE ChangeRow(p)
  <2> DEFINE v == Current(p, L(p).row)
             w == [q |-> v.q + L(p).d, rsv |-> v.rsv, net |-> v.net + L(p).d]
  <2>1. v \in Version /\ NonNegative(v) /\ L(p).d \in Int
    BY <1>4, CurrentNonNegative DEF ChangeRow
  <2>2. w \in Version
    BY <2>1 DEF Version
  <2>3. v.q + L(p).d >= 0
    BY <1>4, <2>1 DEF ChangeRow, Fits, Version
  <2>4. NonNegative(w)
    BY <2>1, <2>3
  <2> QED
    BY <1>4, <2>2, <2>4, PutNonNegative DEF ChangeRow
<1>5. CASE OverwriteRow(p)
  <2> DEFINE v == Current(p, L(p).row)
  <2> PICK s \in seen[p] :
        Put(p, [q |-> s.q + L(p).d, rsv |-> v.rsv, net |-> v.net + L(p).d])
    BY <1>5 DEF OverwriteRow
  <2> DEFINE w == [q |-> s.q + L(p).d, rsv |-> v.rsv, net |-> v.net + L(p).d]
  <2>1. v \in Version /\ NonNegative(v) /\ L(p).d \in Int
    BY <1>5, CurrentNonNegative DEF OverwriteRow
  <2>2. s \in Version /\ NonNegative(s)
    BY DEF NonNegativeInv, TypeOK, VersionsNonNegative
  <2>3. L(p).d > 0
    BY <1>5, LineDirected DEF OverwriteRow
  <2>4. w \in Version /\ NonNegative(w)
    BY <2>1, <2>2, <2>3 DEF Version
  <2> QED
    BY <1>5, <2>4, PutNonNegative DEF OverwriteRow
<1>6. CASE ReserveRow(p)
  <2> DEFINE v == Current(p, L(p).row)
             w == [v EXCEPT !.rsv = @ - L(p).d]
  <2>1. v \in Version /\ NonNegative(v) /\ L(p).d \in Int
    BY <1>6, CurrentNonNegative DEF ReserveRow
  <2>2. L(p).d < 0
    BY <1>6, LineDirected DEF ReserveRow
  <2>3. w \in Version /\ NonNegative(w)
    BY <2>1, <2>2 DEF Version
  <2> QED
    BY <1>6, <2>3, PutNonNegative DEF ReserveRow
<1>7. CASE ConsumeRow(p)
  <2> DEFINE v == Current(p, L(p).row)
             w == [q |-> v.q + L(p).d, rsv |-> v.rsv + L(p).d, net |-> v.net + L(p).d]
  <2>1. v \in Version /\ L(p).d \in Int
    BY <1>7, CurrentNonNegative DEF ConsumeRow
  <2>2. v.q + L(p).d >= 0 /\ v.rsv + L(p).d >= 0
    BY <1>7 DEF ConsumeRow, CanConsume
  <2>3. w \in Version /\ NonNegative(w)
    BY <2>1, <2>2 DEF Version
  <2> QED
    BY <1>7, <2>3, PutNonNegative DEF ConsumeRow
<1>8. CASE ReleaseRow(p)
  <2> DEFINE v == Current(p, L(p).row)
             w == [v EXCEPT !.rsv = @ + L(p).d]
  <2>1. v \in Version /\ NonNegative(v) /\ L(p).d \in Int
    BY <1>8, CurrentNonNegative DEF ReleaseRow
  <2>2. w \in Version /\ NonNegative(w)
    BY <1>8, <2>1 DEF Version, ReleaseRow
  <2> QED
    BY <1>8, <2>2, PutNonNegative DEF ReleaseRow
<1>9. CASE SkipLine(p)
  BY <1>9 DEF SkipLine, NonNegativeInv, VersionsNonNegative, Directed, request
<1>10. CASE Reject(p)
  BY <1>10, FailNonNegative DEF Reject
<1>11. CASE Commit(p)
  <2>1. VersionsNonNegative'
    BY <1>11 DEF Commit, NonNegativeInv, VersionsNonNegative
  <2> QED
    BY <1>11, <2>1 DEF Commit, NonNegativeInv, Directed, request
<1> QED
  BY <1>1, <1>2, <1>3, <1>4, <1>5, <1>6, <1>7, <1>8, <1>9, <1>10, <1>11 DEF Step

LEMMA NonNegativeInvariant == Spec => []NonNegativeInv
<1>1. Init => NonNegativeInv
  <2> SUFFICES ASSUME Init
               PROVE  NonNegativeInv
    OBVIOUS
  <2>1. TypeOK
    BY ConstantsAssumption DEF Init, TypeOK, Version, Line, Statuses
  <2>2. VersionsNonNegative
    BY ConstantsAssumption DEF Init, VersionsNonNegative, NonNegative
  <2>3. \A p \in Requests : Directed(kind[p], lines[p])
    BY DEF Init, Directed, Overwriting
  <2> QED
    BY <2>1, <2>2, <2>3 DEF NonNegativeInv
<1>2. NonNegativeInv /\ TypeOK' /\ [Next]_vars => NonNegativeInv'
  <2> SUFFICES ASSUME NonNegativeInv, TypeOK', [Next]_vars
               PROVE  NonNegativeInv'
    OBVIOUS
  <2>1. ASSUME NEW p \in Requests, Arrive(p)
        PROVE  NonNegativeInv'
    BY <2>1, ArriveNonNegative
  <2>2. ASSUME NEW p \in Requests, Step(p)
        PROVE  NonNegativeInv'
    BY <2>2, StepNonNegative
  <2>3. ASSUME NEW p \in Requests, Timeout(p)
        PROVE  NonNegativeInv'
    BY <2>3, FailNonNegative DEF Timeout
  <2>4. CASE BreakDeadlock
    <3> PICK circle \in SUBSET Requests : \E p \in circle : Fail(p)
      BY <2>4 DEF BreakDeadlock
    <3> QED
      BY FailNonNegative
  <2>5. CASE UNCHANGED vars
    BY <2>5 DEF vars, request, NonNegativeInv, VersionsNonNegative, Directed
  <2> QED
    BY <2>1, <2>2, <2>3, <2>4, <2>5 DEF Next
<1> QED
  BY <1>1, <1>2, TypeCorrect, PTL DEF Spec

\* However requests interleave, fail, time out or deadlock, no committed row
\* has a negative quantity or a negative reservation: the quantity >= x of the
\* decreasing updates is enough, even among updates that lose increments.
THEOREM NonNegativeCorrect == Spec => []NeverNegative
<1>1. NonNegativeInv => NeverNegative
  BY DEF NonNegativeInv, VersionsNonNegative, NonNegative, NeverNegative
<1> QED
  BY <1>1, NonNegativeInvariant, PTL

(***************************************************************************)
(* Where nothing overwrites, the ledger explains the stock.  The drafts    *)
(* come with it, because a commit publishes them.                          *)
(***************************************************************************)
Explained(v, r) == v.q = Initial[r] + v.net

LedgerInv ==
    /\ TypeOK
    /\ \A r \in Rows : Explained(row[r], r) /\ Explained(draft[r], r)

\* A written version whose movements tell its quantity.
LEMMA PutExplained ==
    ASSUME LedgerInv, NEW p \in Requests, AtLine(p),
           NEW v \in Version, Explained(v, L(p).row), Put(p, v)
    PROVE  \A r \in Rows : Explained(row[r], r)' /\ Explained(draft[r], r)'
<1>1. L(p).row \in Rows
  BY LineTyped DEF AtLine, LedgerInv
<1> QED
  BY <1>1 DEF LedgerInv, TypeOK, Put, Explained

LEMMA CurrentExplained ==
    ASSUME LedgerInv, NEW p \in Requests, AtLine(p)
    PROVE  /\ L(p).row \in Rows /\ L(p).d \in Int
           /\ Current(p, L(p).row) \in Version
           /\ Explained(Current(p, L(p).row), L(p).row)
<1>1. L(p).row \in Rows /\ L(p).d \in Int
  BY LineTyped DEF AtLine, LedgerInv
<1> QED
  BY <1>1, CurrentTyped DEF LedgerInv, Current

\* Only a statement that writes a row, and a commit, can disturb the ledger.
LEMMA StepExplained ==
    ASSUME LedgerInv, Kinds \cap Overwriting = {}, NEW p \in Requests, Step(p)
    PROVE  \A r \in Rows : Explained(row[r], r)' /\ Explained(draft[r], r)'
<1> USE DEF Explained
<1> DEFINE v == Current(p, L(p).row)
<1>1. CASE CheckLine(p) \/ CheckDone(p) \/ ReadRow(p) \/ SkipLine(p) \/ Reject(p)
  BY <1>1 DEF CheckLine, CheckDone, ReadRow, SkipLine, Reject, Fail, LedgerInv
<1>2. CASE ChangeRow(p)
  <2> DEFINE w == [q |-> v.q + L(p).d, rsv |-> v.rsv, net |-> v.net + L(p).d]
  <2>1. v \in Version /\ L(p).d \in Int /\ Explained(v, L(p).row) /\ L(p).row \in Rows
    BY <1>2, CurrentExplained DEF ChangeRow
  <2>2. w \in Version
    BY <2>1 DEF Version
  <2>3. Explained(w, L(p).row)
    BY <2>1, ConstantsAssumption DEF Version
  <2> QED
    BY <1>2, <2>2, <2>3, PutExplained DEF ChangeRow
<1>3. CASE OverwriteRow(p)
  BY <1>3 DEF OverwriteRow, AtLine, LedgerInv, TypeOK, Overwriting
<1>4. CASE ReserveRow(p)
  <2>1. v \in Version /\ L(p).d \in Int /\ Explained(v, L(p).row)
    BY <1>4, CurrentExplained DEF ReserveRow
  <2>2. [v EXCEPT !.rsv = @ - L(p).d] \in Version
    BY <2>1 DEF Version
  <2>3. Explained([v EXCEPT !.rsv = @ - L(p).d], L(p).row)
    BY <2>1 DEF Version
  <2> QED
    BY <1>4, <2>2, <2>3, PutExplained DEF ReserveRow
<1>5. CASE ConsumeRow(p)
  <2> DEFINE w == [q |-> v.q + L(p).d, rsv |-> v.rsv + L(p).d, net |-> v.net + L(p).d]
  <2>1. v \in Version /\ L(p).d \in Int /\ Explained(v, L(p).row) /\ L(p).row \in Rows
    BY <1>5, CurrentExplained DEF ConsumeRow
  <2>2. w \in Version
    BY <2>1 DEF Version
  <2>3. Explained(w, L(p).row)
    BY <2>1, ConstantsAssumption DEF Version
  <2> QED
    BY <1>5, <2>2, <2>3, PutExplained DEF ConsumeRow
<1>6. CASE ReleaseRow(p)
  <2>1. v \in Version /\ L(p).d \in Int /\ Explained(v, L(p).row)
    BY <1>6, CurrentExplained DEF ReleaseRow
  <2>2. [v EXCEPT !.rsv = @ + L(p).d] \in Version
    BY <2>1 DEF Version
  <2>3. Explained([v EXCEPT !.rsv = @ + L(p).d], L(p).row)
    BY <2>1 DEF Version
  <2> QED
    BY <1>6, <2>2, <2>3, PutExplained DEF ReleaseRow
<1>7. CASE Commit(p)
  BY <1>7 DEF Commit, LedgerInv
<1> QED
  BY <1>1, <1>2, <1>3, <1>4, <1>5, <1>6, <1>7 DEF Step

\* A whole step of the system keeps the ledger true.
LEMMA NextExplained ==
    ASSUME LedgerInv, TypeOK', Kinds \cap Overwriting = {}, [Next]_vars
    PROVE  LedgerInv'
<1>1. ASSUME NEW p \in Requests, Arrive(p)
      PROVE  UNCHANGED <<row, draft>>
  BY <1>1 DEF Arrive, Begin, BeginSale, BeginOrder, BeginRestock, BeginIn, BeginOut,
     BeginAdjust, BeginProduce, BeginReceipt, BeginCancel, BeginReserve, BeginStart,
     BeginRelease, BeginOnReservation
<1>2. ASSUME NEW p \in Requests, Step(p)
      PROVE  LedgerInv'
  BY <1>2, StepExplained DEF LedgerInv
<1>3. ASSUME NEW p \in Requests, Timeout(p)
      PROVE  UNCHANGED <<row, draft>>
  BY <1>3 DEF Timeout, Fail
<1>4. CASE BreakDeadlock
  BY <1>4 DEF BreakDeadlock, Fail, LedgerInv, Explained
<1>5. CASE UNCHANGED vars
  BY <1>5 DEF vars, LedgerInv, Explained
<1> QED
  BY <1>1, <1>2, <1>3, <1>4, <1>5 DEF Next, LedgerInv, Explained

LEMMA LedgerInvariant ==
    ASSUME Kinds \cap Overwriting = {}
    PROVE  Spec => []LedgerInv
<1>1. Init => LedgerInv
  BY ConstantsAssumption
  DEF Init, LedgerInv, Explained, TypeOK, Version, Line, Statuses
<1>2. LedgerInv /\ TypeOK' /\ [Next]_vars => LedgerInv'
  BY NextExplained
<1> QED
  BY <1>1, <1>2, TypeCorrect, PTL DEF Spec

\* Without the overwriting operations no update is lost: the quantity of a row
\* is its first quantity and everything its movements tell.
THEOREM LedgerCorrect ==
    ASSUME Kinds \cap Overwriting = {}
    PROVE  Spec => []LedgerExplainsStock
<1>1. LedgerInv => LedgerExplainsStock
  BY DEF LedgerInv, Explained, LedgerExplainsStock
<1> QED
  BY <1>1, LedgerInvariant, PTL

(***************************************************************************)
(* The reserved units of a row are backed by manufacturing orders.  A      *)
(* running request has changed the reservation in its draft and the order  *)
(* tells it only at the commit, so the invariant says by how much what the *)
(* request sees of a row differs from the committed version: by the units  *)
(* of the lines behind it.  That a release never finds too little reserved *)
(* (it would skip the line) follows from the sum itself.                   *)
(***************************************************************************)

\* The indices of the lines ls before line n.
Behind(ls, n) == {i \in DOMAIN ls : i < n}

\* The units of row r in the lines of ls before line n.
Taken(ls, n, r) == SumFunctionOnSet(Taking(ls, r), Behind(ls, n))

\* What these lines change in the reserved units of r, when the operation is k.
Reserved(k, ls, n, r) ==
    IF k = "reserve" THEN Taken(ls, n, r)
    ELSE IF k \in {"start", "release"} THEN -Taken(ls, n, r) ELSE 0

\* How much more request p has reserved of row r than the committed version says.
Delta(p, r) == Reserved(kind[p], lines[p], at[p], r)

\* p consumes or releases what a manufacturing order holds.
OnReservation(p) == pc[p] = "run" /\ kind[p] \in {"start", "release"}

Reserving ==
    \A p \in Requests :
        /\ pc[p] = "idle" => at[p] = 1 /\ kind[p] = "none"
        /\ pc[p] = "check" => kind[p] = "sale"
        /\ doc[p] = "reserved" => kind[p] = "reserve" /\ pc[p] = "committed"
        /\ kind[p] \in {"sale", "reserve"} => target[p] = None
        /\ kind[p] = "cancel" => target[p] \in Requests /\ kind[target[p]] = "sale"
        /\ OnReservation(p) => /\ target[p] \in Requests
                               /\ doc[target[p]] = "reserved"
                               /\ lines[p] = lines[target[p]]

\* One request at a time is on the units of a manufacturing order.
OneOnReservation ==
    \A p, o \in Requests :
        OnReservation(p) /\ OnReservation(o) /\ target[p] = target[o] => p = o

RunsWithLocks == \A r \in Rows : lock[r] # None => pc[lock[r]] = "run"

Drafted ==
    \A p \in Requests, r \in Rows :
        pc[p] = "run" => Current(p, r).rsv = row[r].rsv + Delta(p, r)

BackedInv ==
    /\ NonNegativeInv
    /\ Reserving /\ OneOnReservation /\ RunsWithLocks
    /\ Drafted
    /\ ReservationsBacked

\* The units of its lines are integers, and none is negative where all lines take.
LEMMA TakingTyped ==
    ASSUME NEW ls \in Seq(Line), NEW r \in Rows
    PROVE  /\ IsFiniteSet(DOMAIN ls)
           /\ \A T \in SUBSET DOMAIN ls : IsFiniteSet(T)
           /\ DOMAIN Taking(ls, r) = DOMAIN ls
           /\ \A i \in DOMAIN ls : Taking(ls, r)[i] \in Int
           /\ (\A i \in DOMAIN ls : ls[i].d < 0) => \A i \in DOMAIN ls : Taking(ls, r)[i] \in Nat
           /\ \A T \in SUBSET DOMAIN ls : SumFunctionOnSet(Taking(ls, r), T) \in Int
<1>1. DOMAIN ls = 1 .. Len(ls) /\ Len(ls) \in Nat
  OBVIOUS
<1>2. IsFiniteSet(DOMAIN ls)
  BY <1>1, FS_Interval
<1>3. \A T \in SUBSET DOMAIN ls : IsFiniteSet(T)
  BY <1>2, FS_Subset
<1>4. \A i \in DOMAIN ls : ls[i].d \in Int
  <2> TAKE i \in DOMAIN ls
  <2>1. ls[i] \in Line
    OBVIOUS
  <2> QED
    BY <2>1 DEF Line
<1>5. DOMAIN Taking(ls, r) = DOMAIN ls
  BY DEF Taking
<1>6. \A i \in DOMAIN ls : Taking(ls, r)[i] = IF ls[i].row = r THEN -ls[i].d ELSE 0
  BY DEF Taking
<1>7. \A i \in DOMAIN ls : Taking(ls, r)[i] \in Int
  BY <1>4, <1>6
<1>8. (\A i \in DOMAIN ls : ls[i].d < 0) => \A i \in DOMAIN ls : Taking(ls, r)[i] \in Nat
  BY <1>4, <1>6
<1>9. \A T \in SUBSET DOMAIN ls : SumFunctionOnSet(Taking(ls, r), T) \in Int
  BY <1>3, <1>7, SumInt
<1> QED
  BY <1>2, <1>3, <1>5, <1>7, <1>8, <1>9

LEMMA TakenTyped ==
    ASSUME NEW ls \in Seq(Line), NEW n, NEW r \in Rows
    PROVE  Taken(ls, n, r) \in Int
<1>1. Behind(ls, n) \in SUBSET DOMAIN ls
  BY DEF Behind
<1> QED
  BY <1>1, TakingTyped DEF Taken

LEMMA ReservedTyped ==
    ASSUME NEW k, NEW ls \in Seq(Line), NEW n, NEW r \in Rows
    PROVE  Reserved(k, ls, n, r) \in Int
  BY TakenTyped DEF Reserved

\* A request at its first line has not done anything yet.
LEMMA ReservedAtFirst ==
    ASSUME NEW k, NEW ls \in Seq(Line), NEW r \in Rows
    PROVE  Reserved(k, ls, 1, r) = 0
<1>1. DOMAIN ls = 1 .. Len(ls)
  OBVIOUS
<1>2. Behind(ls, 1) = {}
  BY <1>1 DEF Behind
<1>3. Taken(ls, 1, r) = 0
  BY <1>2, SumEmpty DEF Taken
<1>4. -Taken(ls, 1, r) = 0
  BY <1>3
<1> QED
  BY <1>3, <1>4 DEF Reserved

\* One line more.
LEMMA ReservedNext ==
    ASSUME NEW k, NEW ls \in Seq(Line), NEW n \in 1 .. Len(ls), NEW r \in Rows
    PROVE  LET units == IF ls[n].row = r THEN -ls[n].d ELSE 0
           IN  /\ Taken(ls, n + 1, r) = Taken(ls, n, r) + units
               /\ Reserved(k, ls, n + 1, r) =
                    Reserved(k, ls, n, r)
                    + (IF k = "reserve" THEN units
                       ELSE IF k \in {"start", "release"} THEN -units ELSE 0)
<1> DEFINE units == IF ls[n].row = r THEN -ls[n].d ELSE 0
<1>1. n \in DOMAIN ls /\ \A i \in DOMAIN ls : i \in Int
  OBVIOUS
<1>2. Behind(ls, n + 1) = Behind(ls, n) \cup {n} /\ n \notin Behind(ls, n)
  BY <1>1 DEF Behind
<1>3. Behind(ls, n) \in SUBSET DOMAIN ls
  BY DEF Behind
<1>4. /\ IsFiniteSet(Behind(ls, n))
      /\ \A i \in Behind(ls, n) \cup {n} : Taking(ls, r)[i] \in Int
  BY <1>1, <1>3, TakingTyped
<1>5. Taken(ls, n + 1, r) = Taking(ls, r)[n] + Taken(ls, n, r)
  BY <1>2, <1>4, SumAdd DEF Taken
<1>6. Taking(ls, r)[n] = units
  BY <1>1 DEF Taking
<1>7. Taken(ls, n, r) \in Int /\ units \in Int
  BY <1>1, <1>4, <1>6, TakenTyped
<1>8. Taken(ls, n + 1, r) = Taken(ls, n, r) + units
  BY <1>5, <1>6, <1>7
<1> HIDE DEF units
<1>9. /\ k = "reserve" => Reserved(k, ls, n + 1, r) = Reserved(k, ls, n, r) + units
      /\ k \in {"start", "release"} =>
           Reserved(k, ls, n + 1, r) = Reserved(k, ls, n, r) + (-units)
      /\ k \notin {"reserve", "start", "release"} =>
           Reserved(k, ls, n + 1, r) = Reserved(k, ls, n, r) + 0
  BY <1>7, <1>8 DEF Reserved
<1> QED
  BY <1>8, <1>9 DEF units

\* A request past its last line has done everything.
LEMMA TakenAll ==
    ASSUME NEW ls \in Seq(Line), NEW n \in Nat, n > Len(ls), NEW r \in Rows
    PROVE  Taken(ls, n, r) = SumFunction(Taking(ls, r))
<1>0. DOMAIN ls = 1 .. Len(ls) /\ Len(ls) \in Nat
  OBVIOUS
<1>1. Behind(ls, n) = DOMAIN ls
  BY <1>0 DEF Behind
<1>2. DOMAIN Taking(ls, r) = DOMAIN ls
  BY DEF Taking
<1> QED
  BY <1>1, <1>2 DEF Taken, SumFunction

\* Where all lines take units, those before a line and the line take no more than all.
LEMMA TakenBounded ==
    ASSUME NEW ls \in Seq(Line), \A i \in DOMAIN ls : ls[i].d < 0,
           NEW n \in 1 .. Len(ls), NEW r \in Rows, ls[n].row = r
    PROVE  Taken(ls, n, r) - ls[n].d <= SumFunction(Taking(ls, r))
<1>1. Taken(ls, n + 1, r) = Taken(ls, n, r) + (-ls[n].d)
  BY ReservedNext
<1>2. Behind(ls, n + 1) \in SUBSET DOMAIN ls /\ DOMAIN Taking(ls, r) = DOMAIN ls
  BY DEF Behind, Taking
<1>3. Taken(ls, n + 1, r) <= SumFunction(Taking(ls, r))
  BY <1>2, TakingTyped, SumSubset DEF Taken, SumFunction
<1>4. Taken(ls, n, r) \in Int
  BY TakenTyped
<1>5. ls[n].d \in Int
  <2>1. ls[n] \in Line
    OBVIOUS
  <2> QED
    BY <2>1 DEF Line
<1> QED
  BY <1>1, <1>3, <1>4, <1>5

\* What a manufacturing order holds is a number of units.
LEMMA HoldsTyped ==
    ASSUME NonNegativeInv, Reserving, NEW t \in Requests, NEW r \in Rows
    PROVE  Holds(t, r) \in Nat
<1>1. CASE doc[t] = "reserved"
  <2>1. lines[t] \in Seq(Line)
    BY DEF NonNegativeInv, TypeOK
  <2>2. \A i \in DOMAIN lines[t] : lines[t][i].d < 0
    BY <1>1 DEF NonNegativeInv, Directed, Reserving
  <2>3. SumFunction(Taking(lines[t], r)) \in Nat
    BY <2>1, <2>2, TakingTyped, SumNat DEF SumFunction
  <2> QED
    BY <1>1, <2>3 DEF Holds
<1>2. CASE doc[t] # "reserved"
  BY <1>2 DEF Holds
<1> QED
  BY <1>1, <1>2

\* A reserved order holds no more of a row than is reserved on it.
LEMMA HoldsWithin ==
    ASSUME BackedInv, NEW t \in Requests, NEW r \in Rows
    PROVE  Holds(t, r) <= row[r].rsv
<1> DEFINE f == [o \in Requests |-> Holds(o, r)]
<1>1. \A o \in Requests : f[o] \in Nat
  BY HoldsTyped DEF BackedInv
<1>2. row[r].rsv = SumFunctionOnSet(f, Requests)
  BY DEF BackedInv, ReservationsBacked, SumFunction
<1>3. f[t] = Holds(t, r)
  OBVIOUS
<1> HIDE DEF f
<1>4. SumFunctionOnSet(f, Requests) = f[t] + SumFunctionOnSet(f, Requests \ {t})
  BY <1>1, FiniteAssumption, SumSplit
<1>5. IsFiniteSet(Requests \ {t}) /\ \A o \in Requests \ {t} : f[o] \in Nat
  BY <1>1, FiniteAssumption, FS_RemoveElement
<1>6. SumFunctionOnSet(f, Requests \ {t}) \in Nat
  BY <1>5, SumNat
<1>7. Holds(t, r) \in Nat
  BY <1>1, <1>3
<1> QED
  BY <1>2, <1>3, <1>4, <1>6, <1>7

\* A release finds the units it gives back: it never skips a line.
LEMMA ReleaseFinds ==
    ASSUME BackedInv, NEW p \in Requests, AtLine(p), kind[p] = "release"
    PROVE  Current(p, L(p).row).rsv + L(p).d >= 0
<1> DEFINE t == target[p]
           r == L(p).row
<1>1. /\ TypeOK /\ Reserving
      /\ lines[p] \in Seq(Line) /\ at[p] \in 1 .. Len(lines[p])
      /\ r \in Rows /\ L(p).d \in Int /\ L(p) = lines[p][at[p]]
  BY LineTyped DEF BackedInv, NonNegativeInv, TypeOK, AtLine, L
<1>2. /\ t \in Requests /\ doc[t] = "reserved" /\ lines[p] = lines[t]
      /\ kind[t] = "reserve"
  BY <1>1 DEF Reserving, OnReservation, AtLine
<1>3. \A i \in DOMAIN lines[p] : lines[p][i].d < 0
  BY <1>2 DEF BackedInv, NonNegativeInv, Directed
<1>4. Taken(lines[p], at[p], r) - L(p).d <= SumFunction(Taking(lines[p], r))
  BY <1>1, <1>3, TakenBounded
<1>5. Holds(t, r) = SumFunction(Taking(lines[p], r))
  BY <1>2 DEF Holds
<1>6. Holds(t, r) <= row[r].rsv /\ Holds(t, r) \in Nat /\ row[r].rsv \in Int
  BY <1>1, <1>2, HoldsWithin, HoldsTyped DEF BackedInv, TypeOK, Version
<1>7. Current(p, r).rsv = row[r].rsv - Taken(lines[p], at[p], r)
  <2>1. Current(p, r).rsv = row[r].rsv + Delta(p, r)
    BY <1>1 DEF BackedInv, Drafted, AtLine
  <2>2. Delta(p, r) = -Taken(lines[p], at[p], r)
    BY DEF Delta, Reserved
  <2>3. Taken(lines[p], at[p], r) \in Int
    BY <1>1, TakenTyped
  <2> QED
    BY <1>6, <2>1, <2>2, <2>3
<1>8. Taken(lines[p], at[p], r) \in Int
  BY <1>1, TakenTyped
<1> HIDE DEF t, r
<1>9. Current(p, r).rsv + L(p).d >= 0
  BY <1>1, <1>4, <1>5, <1>6, <1>7, <1>8
<1> QED
  BY <1>9 DEF r

\* Where documents and lines stay, the orders hold what they held.
LEMMA SameHolds ==
    ASSUME ReservationsBacked, UNCHANGED <<row, lines, doc>>
    PROVE  ReservationsBacked'
  BY DEF ReservationsBacked, Holds, Taking, SumFunction

\* A statement that writes nothing, and goes to its next line only where the
\* operation reserves nothing.
LEMMA QuietBacked ==
    ASSUME BackedInv, NonNegativeInv', NEW p \in Requests,
           UNCHANGED <<row, draft, lock, request, doc>>,
           pc[p] \in {"check", "run"}, pc'[p] \in {pc[p], "run"},
           \A o \in Requests \ {p} : pc'[o] = pc[o] /\ at'[o] = at[o],
           at'[p] = at[p] \/ kind[p] \notin {"reserve", "start", "release"}
    PROVE  BackedInv'
<1>1. Reserving' /\ OneOnReservation'
  BY DEF BackedInv, Reserving, OneOnReservation, OnReservation, request
<1>2. RunsWithLocks'
  BY DEF BackedInv, RunsWithLocks, NonNegativeInv, TypeOK, request
<1>3. ReservationsBacked'
  BY SameHolds DEF BackedInv, request
<1>4. Drafted'
  <2> SUFFICES ASSUME NEW o \in Requests, NEW r \in Rows, pc'[o] = "run"
               PROVE  Current(o, r)'.rsv = row[r].rsv + Delta(o, r)'
    BY DEF Drafted
  <2>1. Current(o, r)' = Current(o, r)
    BY DEF Current
  <2>2. Delta(o, r)' = Delta(o, r)
    BY DEF Delta, Reserved, request
  <2>3. CASE pc[o] = "run"
    BY <2>1, <2>2, <2>3 DEF BackedInv, Drafted
  <2>4. CASE pc[o] # "run"
    <3>1. o = p /\ pc[p] = "check" /\ kind[p] = "sale"
      BY <2>4 DEF BackedInv, Reserving
    <3>2. lock[r] # p
      BY <2>4, <3>1, ConstantsAssumption DEF BackedInv, RunsWithLocks
    <3>3. Delta(o, r) = 0 /\ Current(o, r) = row[r]
      BY <3>1, <3>2 DEF Delta, Reserved, Current
    <3>4. row[r].rsv \in Int
      BY DEF BackedInv, NonNegativeInv, TypeOK, Version
    <3> QED
      BY <2>1, <2>2, <3>3, <3>4
  <2> QED
    BY <2>3, <2>4
<1> QED
  BY <1>1, <1>2, <1>3, <1>4 DEF BackedInv

\* A transaction that fails.
LEMMA FailBacked ==
    ASSUME BackedInv, NonNegativeInv', NEW p \in Requests, InTransaction(p), Fail(p)
    PROVE  BackedInv'
<1>1. pc[p] \in {"check", "run"} /\ pc' = [pc EXCEPT ![p] = "failed"]
  BY DEF InTransaction, Fail
<1>2. pc \in [Requests -> {"idle", "check", "run", "committed", "failed"}]
  BY DEF BackedInv, NonNegativeInv, TypeOK
<1>3. Reserving' /\ OneOnReservation'
  BY <1>1, <1>2 DEF Fail, BackedInv, Reserving, OneOnReservation, OnReservation, request
<1>4. RunsWithLocks'
  BY <1>1, <1>2 DEF Fail, Unlocked, BackedInv, RunsWithLocks, NonNegativeInv, TypeOK
<1>5. ReservationsBacked'
  BY SameHolds DEF BackedInv, Fail, request
<1>6. Drafted'
  <2> SUFFICES ASSUME NEW o \in Requests, NEW r \in Rows, pc'[o] = "run"
               PROVE  Current(o, r)'.rsv = row'[r].rsv + Delta(o, r)'
    BY DEF Drafted
  <2>1. o # p /\ pc[o] = "run"
    BY <1>1, <1>2
  <2>2. Current(o, r)' = Current(o, r)
    BY <2>1, ConstantsAssumption DEF Current, Fail, Unlocked
  <2>3. Delta(o, r)' = Delta(o, r)
    BY DEF Delta, Fail, request
  <2> QED
    BY <2>1, <2>2, <2>3 DEF BackedInv, Drafted, Fail
<1> QED
  BY <1>3, <1>4, <1>5, <1>6 DEF BackedInv

\* What each kind of request begins with.
BeginsWell(k, ls, t, first) ==
    /\ first = "check" => k = "sale"
    /\ k \in {"sale", "reserve"} => t = None
    /\ k = "cancel" => t \in Requests /\ kind[t] = "sale"
    /\ k \in {"start", "release"} =>
         /\ t \in Requests /\ doc[t] = "reserved" /\ ls = lines[t]
         /\ \A o \in Requests : ~(target[o] = t /\ pc[o] = "run")

\* A request that begins has reserved nothing and holds nothing.
LEMMA BeginBacked ==
    ASSUME BackedInv, NonNegativeInv', NEW p \in Requests, NEW k, NEW ls, NEW t,
           NEW first \in {"check", "run"}, Begin(p, k, ls, t, first),
           BeginsWell(k, ls, t, first)
    PROVE  BackedInv'
<1>1. /\ TypeOK /\ Reserving
      /\ pc[p] = "idle" /\ at[p] = 1 /\ kind[p] = "none" /\ doc[p] # "reserved"
  BY DEF BackedInv, NonNegativeInv, Reserving, Begin
<1>2. /\ pc' = [pc EXCEPT ![p] = first] /\ kind' = [kind EXCEPT ![p] = k]
      /\ lines' = [lines EXCEPT ![p] = ls] /\ target' = [target EXCEPT ![p] = t]
      /\ UNCHANGED <<row, draft, lock, at, seen, doc>>
  BY DEF Begin
<1>3. Reserving'
  BY <1>1, <1>2 DEF Reserving, OnReservation, TypeOK, BeginsWell
<1>4. OneOnReservation'
  BY <1>1, <1>2 DEF BackedInv, OneOnReservation, OnReservation, TypeOK, BeginsWell
<1>5. \A r \in Rows : lock[r] # p
  BY <1>1, ConstantsAssumption DEF BackedInv, RunsWithLocks
<1>6. RunsWithLocks'
  BY <1>1, <1>2, <1>5 DEF BackedInv, RunsWithLocks, TypeOK
<1>7. ReservationsBacked'
  <2>1. \A o \in Requests, r \in Rows : Holds(o, r)' = Holds(o, r)
    <3> TAKE o \in Requests, r \in Rows
    <3>1. CASE o = p
      BY <1>1, <1>2, <3>1 DEF Holds
    <3>2. CASE o # p
      BY <1>1, <1>2, <3>2 DEF Holds, TypeOK, Taking
    <3> QED
      BY <3>1, <3>2
  <2> QED
    BY <1>2, <2>1 DEF BackedInv, ReservationsBacked
<1>8. Drafted'
  <2> SUFFICES ASSUME NEW o \in Requests, NEW r \in Rows, pc'[o] = "run"
               PROVE  Current(o, r)'.rsv = row'[r].rsv + Delta(o, r)'
    BY DEF Drafted
  <2>1. CASE o = p
    <3>1. kind'[p] = k /\ lines'[p] = ls /\ ls \in Seq(Line) /\ at'[p] = 1
      BY <1>1, <1>2 DEF NonNegativeInv, TypeOK
    <3>2. Delta(o, r)' = 0
      BY <2>1, <3>1, ReservedAtFirst DEF Delta
    <3>3. Current(o, r)' = row'[r] /\ row'[r].rsv \in Int
      BY <1>2, <1>5, <2>1 DEF Current, NonNegativeInv, TypeOK, Version
    <3> QED
      BY <3>2, <3>3
  <2>2. CASE o # p
    <3>1. Current(o, r)' = Current(o, r) /\ Delta(o, r)' = Delta(o, r) /\ pc[o] = "run"
      BY <1>1, <1>2, <2>2 DEF Current, Delta, TypeOK
    <3> QED
      BY <1>2, <3>1 DEF BackedInv, Drafted
  <2> QED
    BY <2>1, <2>2
<1> QED
  BY <1>3, <1>4, <1>6, <1>7, <1>8 DEF BackedInv

LEMMA ArriveBacked ==
    ASSUME BackedInv, NonNegativeInv', NEW p \in Requests, Arrive(p)
    PROVE  BackedInv'
<1>1. CASE BeginSale(p)
  BY <1>1, BeginBacked DEF BeginSale, BeginsWell
<1>2. CASE BeginOrder(p)
  BY <1>2, BeginBacked DEF BeginOrder, BeginsWell
<1>3. CASE BeginRestock(p)
  BY <1>3, BeginBacked DEF BeginRestock, BeginsWell
<1>4. CASE BeginIn(p)
  BY <1>4, BeginBacked DEF BeginIn, BeginsWell
<1>5. CASE BeginOut(p)
  BY <1>5, BeginBacked DEF BeginOut, BeginsWell
<1>6. CASE BeginAdjust(p)
  BY <1>6, BeginBacked DEF BeginAdjust, BeginsWell
<1>7. CASE BeginProduce(p)
  BY <1>7, BeginBacked DEF BeginProduce, BeginsWell
<1>8. CASE BeginReceipt(p)
  BY <1>8, BeginBacked DEF BeginReceipt, BeginsWell
<1>9. CASE BeginCancel(p)
  <2> PICK t \in Requests :
        /\ kind[t] = "sale"
        /\ Begin(p, "cancel",
                 [i \in DOMAIN lines[t] |-> [lines[t][i] EXCEPT !.d = -@]], t, "run")
    BY <1>9 DEF BeginCancel
  <2> DEFINE back == [i \in DOMAIN lines[t] |-> [lines[t][i] EXCEPT !.d = -@]]
  <2>1. BeginsWell("cancel", back, t, "run")
    BY DEF BeginsWell
  <2> QED
    BY <2>1, BeginBacked
<1>10. CASE BeginReserve(p)
  BY <1>10, BeginBacked DEF BeginReserve, BeginsWell
<1>11. CASE BeginStart(p)
  BY <1>11, BeginBacked DEF BeginStart, BeginOnReservation, BeginsWell
<1>12. CASE BeginRelease(p)
  BY <1>12, BeginBacked DEF BeginRelease, BeginOnReservation, BeginsWell
<1> QED
  BY <1>1, <1>2, <1>3, <1>4, <1>5, <1>6, <1>7, <1>8, <1>9, <1>10, <1>11, <1>12
  DEF Arrive

\* What a statement of p changes in the reserved units of its row.
Change(p) ==
    IF kind[p] = "reserve" THEN -L(p).d
    ELSE IF kind[p] \in {"start", "release"} THEN L(p).d ELSE 0

\* A transaction that writes what it reserves, consumes or releases.
LEMMA PutBacked ==
    ASSUME BackedInv, NonNegativeInv', NEW p \in Requests, AtLine(p), Free(p, L(p).row),
           NEW v, Put(p, v), v.rsv = Current(p, L(p).row).rsv + Change(p)
    PROVE  BackedInv'
<1>1. /\ TypeOK /\ pc[p] = "run"
      /\ lines[p] \in Seq(Line) /\ at[p] \in 1 .. Len(lines[p])
      /\ L(p).row \in Rows /\ L(p).d \in Int /\ L(p) = lines[p][at[p]]
  BY LineTyped DEF BackedInv, NonNegativeInv, TypeOK, AtLine, L
<1>2. /\ lock' = [lock EXCEPT ![L(p).row] = p] /\ draft' = [draft EXCEPT ![L(p).row] = v]
      /\ at' = [at EXCEPT ![p] = @ + 1]
      /\ UNCHANGED <<row, pc, kind, lines, target, doc>>
  BY DEF Put, request
<1>3. Reserving' /\ OneOnReservation'
  BY <1>1, <1>2 DEF BackedInv, Reserving, OneOnReservation, OnReservation, TypeOK
<1>4. RunsWithLocks'
  BY <1>1, <1>2 DEF BackedInv, RunsWithLocks, TypeOK
<1>5. ReservationsBacked'
  BY <1>2, SameHolds DEF BackedInv
<1>6. Drafted'
  <2> SUFFICES ASSUME NEW o \in Requests, NEW r \in Rows, pc'[o] = "run"
               PROVE  Current(o, r)'.rsv = row'[r].rsv + Delta(o, r)'
    BY DEF Drafted
  <2>0. Current(o, r).rsv = row[r].rsv + Delta(o, r)
    BY <1>2 DEF BackedInv, Drafted
  <2>1. CASE o # p
    <3>1. Current(o, r)' = Current(o, r)
      BY <1>1, <1>2, <2>1, ConstantsAssumption DEF Current, Free, TypeOK
    <3>2. Delta(o, r)' = Delta(o, r)
      BY <1>1, <1>2, <2>1 DEF Delta, TypeOK
    <3> QED
      BY <1>2, <2>0, <3>1, <3>2
  <2>2. CASE o = p
    <3> DEFINE change == IF L(p).row = r THEN Change(p) ELSE 0
    <3>1. at'[p] = at[p] + 1
      BY <1>1, <1>2 DEF TypeOK
    <3>2. Delta(p, r)' = Delta(p, r) + change
      <4> DEFINE units == IF lines[p][at[p]].row = r THEN -lines[p][at[p]].d ELSE 0
                 more == IF kind[p] = "reserve" THEN units
                         ELSE IF kind[p] \in {"start", "release"} THEN -units ELSE 0
      <4>1. Reserved(kind[p], lines[p], at[p] + 1, r)
              = Reserved(kind[p], lines[p], at[p], r) + more
        BY <1>1, ReservedNext
      <4>2. more = change
        BY <1>1 DEF Change
      <4> HIDE DEF more, change
      <4> QED
        BY <1>2, <3>1, <4>1, <4>2 DEF Delta
    <3>3. Current(p, r)'.rsv = Current(p, r).rsv + change
      <4>1. CASE L(p).row = r
        BY <1>1, <1>2, <4>1 DEF Current, TypeOK
      <4>2. CASE L(p).row # r
        <5>1. Current(p, r)' = Current(p, r)
          BY <1>1, <1>2, <4>2 DEF Current, TypeOK
        <5>2. Current(p, r).rsv \in Int
          BY <1>1, CurrentTyped DEF Version
        <5> QED
          BY <4>2, <5>1, <5>2
      <4> QED
        BY <4>1, <4>2
    <3>4. /\ Delta(p, r) \in Int /\ row[r].rsv \in Int /\ change \in Int
      BY <1>1, ReservedTyped DEF TypeOK, Version, Delta, Change
    <3> HIDE DEF change
    <3> QED
      BY <1>2, <2>0, <2>2, <3>2, <3>3, <3>4
  <2> QED
    BY <2>1, <2>2
<1> QED
  BY <1>3, <1>4, <1>5, <1>6 DEF BackedInv

LEMMA StatusWritten ==
    /\ DOMAIN StatusAfter = {"sale", "cancel", "reserve", "start", "release"}
    /\ StatusAfter["sale"] = "completed" /\ StatusAfter["cancel"] = "cancelled"
    /\ StatusAfter["reserve"] = "reserved" /\ StatusAfter["start"] = "started"
    /\ StatusAfter["release"] = "released"
  BY DEF StatusAfter

\* The status a committing request writes turns what it has reserved, or what it
\* has taken off the reservation, into what the orders hold.
LEMMA CommitHolds ==
    ASSUME BackedInv, NEW p \in Requests, Commit(p)
    PROVE  /\ \E x \in Requests : \A r \in Rows :
                /\ \A o \in Requests \ {x} : Holds(o, r)' = Holds(o, r)
                /\ Holds(x, r)' = Holds(x, r) + Delta(p, r)
           /\ Reserving'
<1>1. /\ TypeOK /\ Reserving /\ pc[p] = "run" /\ doc[p] # "reserved"
      /\ lines[p] \in Seq(Line) /\ at[p] \in Nat /\ at[p] > Len(lines[p])
  BY DEF BackedInv, NonNegativeInv, TypeOK, Commit, Reserving
<1>2. /\ UNCHANGED <<kind, lines, target, at>>
      /\ pc' = [pc EXCEPT ![p] = "committed"]
  BY DEF Commit, request
<1>3. \A r \in Rows : /\ Taken(lines[p], at[p], r) = SumFunction(Taking(lines[p], r))
                      /\ Taken(lines[p], at[p], r) \in Int
  BY <1>1, TakenAll, TakenTyped
<1>4. \A o \in Requests, r \in Rows : Holds(o, r) \in Int
  BY <1>1, HoldsTyped DEF BackedInv
<1>5. \A o \in Requests : (doc'[o] = "reserved" <=> doc[o] = "reserved")
        => \A r \in Rows : Holds(o, r)' = Holds(o, r)
  BY <1>2 DEF Holds
<1>6. CASE kind[p] = "reserve"
  <2>0. target[p] = None
    BY <1>1, <1>6 DEF Reserving
  <2>1. doc' = [doc EXCEPT ![p] = "reserved"]
    BY <1>6, <2>0, StatusWritten DEF Commit
  <2>2. doc'[p] = "reserved" /\ \A o \in Requests \ {p} : doc'[o] = doc[o]
    BY <1>1, <2>1 DEF TypeOK
  <2>3. \A r \in Rows : Holds(p, r)' = Holds(p, r) + Delta(p, r)
    <3> TAKE r \in Rows
    <3>1. Holds(p, r) = 0 /\ Delta(p, r) = SumFunction(Taking(lines[p], r))
      BY <1>1, <1>3, <1>6 DEF Holds, Delta, Reserved
    <3>2. Holds(p, r)' = SumFunction(Taking(lines[p], r))
      BY <1>2, <2>2 DEF Holds
    <3> QED
      BY <1>3, <3>1, <3>2
  <2>4. Reserving'
    BY <1>1, <1>2, <1>6, <2>2 DEF Reserving, OnReservation, TypeOK
  <2> QED
    BY <1>5, <2>2, <2>3, <2>4
<1>7. CASE kind[p] \in {"start", "release"}
  <2>1. PICK t \in Requests : t = target[p] /\ doc[t] = "reserved" /\ lines[p] = lines[t]
    BY <1>1, <1>7 DEF Reserving, OnReservation
  <2>2. doc'[t] # "reserved" /\ \A o \in Requests \ {t} : doc'[o] = doc[o]
    BY <1>1, <1>7, <2>1, ConstantsAssumption, StatusWritten DEF Commit, TypeOK
  <2>3. \A r \in Rows : Holds(t, r)' = Holds(t, r) + Delta(p, r)
    <3> TAKE r \in Rows
    <3>1. Holds(t, r) = Taken(lines[p], at[p], r) /\ Delta(p, r) = -Taken(lines[p], at[p], r)
      BY <1>3, <1>7, <2>1 DEF Holds, Delta, Reserved
    <3>2. Holds(t, r)' = 0
      BY <2>2 DEF Holds
    <3> QED
      BY <1>3, <3>1, <3>2
  <2>4. \A o \in Requests \ {p} : OnReservation(o) => target[o] # t
    BY <1>1, <1>7, <2>1 DEF BackedInv, OneOnReservation, OnReservation
  <2>5. Reserving'
    BY <1>1, <1>2, <1>7, <2>2, <2>4 DEF Reserving, OnReservation, TypeOK
  <2> QED
    BY <1>5, <2>1, <2>2, <2>3, <2>5
<1>8. CASE kind[p] \notin {"reserve", "start", "release"}
  <2>1. \A o \in Requests : doc'[o] = "reserved" <=> doc[o] = "reserved"
    <3>1. CASE kind[p] = "sale"
      BY <1>1, <3>1, StatusWritten DEF Commit, TypeOK, Reserving
    <3>2. CASE kind[p] = "cancel"
      <4>1. target[p] \in Requests /\ kind[target[p]] = "sale"
        BY <1>1, <3>2 DEF Reserving
      <4>2. doc[target[p]] # "reserved"
        BY <1>1, <4>1 DEF Reserving
      <4>3. doc' = [doc EXCEPT ![target[p]] = "cancelled"]
        BY <3>2, <4>1, ConstantsAssumption, StatusWritten DEF Commit
      <4> QED
        BY <1>1, <4>2, <4>3 DEF TypeOK
    <3>3. CASE kind[p] \notin {"sale", "cancel"}
      BY <1>8, <3>3, StatusWritten DEF Commit
    <3> QED
      BY <3>1, <3>2, <3>3
  <2>2. \A r \in Rows : Delta(p, r) = 0
    BY <1>8 DEF Delta, Reserved
  <2>3. \A r \in Rows : Holds(p, r)' = Holds(p, r) + Delta(p, r)
    BY <1>4, <1>5, <2>1, <2>2
  <2>4. Reserving'
    BY <1>1, <1>2, <1>8, <2>1 DEF Reserving, OnReservation, TypeOK
  <2> QED
    BY <1>5, <2>1, <2>3, <2>4
<1> QED
  BY <1>6, <1>7, <1>8

LEMMA CommitBacked ==
    ASSUME BackedInv, NonNegativeInv', NEW p \in Requests, Commit(p)
    PROVE  BackedInv'
<1>1. /\ TypeOK /\ TypeOK' /\ Reserving /\ pc[p] = "run"
  BY DEF BackedInv, NonNegativeInv, Commit
<1>2. /\ UNCHANGED <<draft, kind, lines, target, at>>
      /\ pc' = [pc EXCEPT ![p] = "committed"] /\ lock' = Unlocked(p)
      /\ row' = [r \in Rows |-> Current(p, r)]
  BY DEF Commit, request, Current
<1>3. Reserving'
  BY CommitHolds
<1>4. OneOnReservation'
  BY <1>1, <1>2 DEF BackedInv, OneOnReservation, OnReservation, TypeOK
<1>5. RunsWithLocks'
  BY <1>1, <1>2 DEF BackedInv, RunsWithLocks, TypeOK, Unlocked
<1>6. \A r \in Rows : row'[r].rsv = row[r].rsv + Delta(p, r)
  BY <1>1, <1>2 DEF BackedInv, Drafted
<1>7. ReservationsBacked'
  <2> PICK x \in Requests : \A r \in Rows :
        /\ \A o \in Requests \ {x} : Holds(o, r)' = Holds(o, r)
        /\ Holds(x, r)' = Holds(x, r) + Delta(p, r)
    BY CommitHolds
  <2> SUFFICES ASSUME NEW r \in Rows
               PROVE  row'[r].rsv = SumFunction([t \in Requests |-> Holds(t, r)'])
    BY DEF ReservationsBacked
  <2> DEFINE f == [t \in Requests |-> Holds(t, r)]
             g == [t \in Requests |-> Holds(t, r)']
  <2>1. \A o \in Requests : f[o] \in Int
    BY HoldsTyped DEF BackedInv
  <2>2. Delta(p, r) \in Int
    BY <1>1, ReservedTyped DEF Delta, TypeOK
  <2>3. g[x] = f[x] + Delta(p, r) /\ \A o \in Requests \ {x} : g[o] = f[o]
    OBVIOUS
  <2>4. row[r].rsv = SumFunctionOnSet(f, Requests)
    BY DEF BackedInv, ReservationsBacked, SumFunction
  <2>5. SumFunction(g) = SumFunctionOnSet(g, Requests)
    BY DEF SumFunction
  <2> HIDE DEF f, g
  <2>6. SumFunctionOnSet(g, Requests) = SumFunctionOnSet(f, Requests) + (g[x] - f[x])
    BY <2>1, <2>2, <2>3, FiniteAssumption, SumChange
  <2>7. row[r].rsv \in Int
    BY <1>1 DEF TypeOK, Version
  <2>8. row'[r].rsv = SumFunction(g)
    BY <1>6, <2>1, <2>2, <2>3, <2>4, <2>5, <2>6, <2>7
  <2> QED
    BY <2>8 DEF g
<1>8. Drafted'
  <2> SUFFICES ASSUME NEW o \in Requests, NEW r \in Rows, pc'[o] = "run"
               PROVE  Current(o, r)'.rsv = row'[r].rsv + Delta(o, r)'
    BY DEF Drafted
  <2>1. o # p /\ pc[o] = "run"
    BY <1>1, <1>2 DEF TypeOK
  <2>2. Current(o, r).rsv = row[r].rsv + Delta(o, r) /\ Delta(o, r)' = Delta(o, r)
    BY <1>2, <2>1 DEF BackedInv, Drafted, Delta
  <2>3. CASE lock[r] = p
    <3>1. Current(o, r) = row[r] /\ Current(o, r)' = row'[r]
      BY <1>2, <2>1, <2>3, ConstantsAssumption DEF Current, Unlocked
    <3>2. Delta(o, r) \in Int /\ row[r].rsv \in Int /\ row'[r].rsv \in Int
      BY <1>1, ReservedTyped DEF Delta, TypeOK, Version
    <3>3. Delta(o, r) = 0
      BY <2>2, <3>1, <3>2
    <3> QED
      BY <2>2, <3>1, <3>2, <3>3
  <2>4. CASE lock[r] # p
    <3>1. row'[r] = row[r] /\ Current(o, r)' = Current(o, r)
      BY <1>2, <2>1, <2>4 DEF Current, Unlocked
    <3> QED
      BY <2>2, <3>1
  <2> QED
    BY <2>3, <2>4
<1> QED
  BY <1>3, <1>4, <1>5, <1>7, <1>8 DEF BackedInv

LEMMA StepBacked ==
    ASSUME BackedInv, NonNegativeInv', NEW p \in Requests, Step(p)
    PROVE  BackedInv'
<1> DEFINE v == Current(p, L(p).row)
<1>0. /\ pc \in [Requests -> {"idle", "check", "run", "committed", "failed"}]
      /\ at \in [Requests -> Nat \ {0}]
      /\ Reserving
      /\ AtLine(p) => v \in Version /\ L(p).d \in Int
  BY CurrentNonNegative DEF BackedInv, NonNegativeInv, TypeOK
<1>1. CASE CheckLine(p)
  BY <1>0, <1>1, QuietBacked DEF CheckLine, Reserving
<1>2. CASE CheckDone(p)
  BY <1>0, <1>2, QuietBacked DEF CheckDone, Reserving
<1>3. CASE ReadRow(p)
  BY <1>0, <1>3, QuietBacked DEF ReadRow, AtLine
<1>4. CASE ChangeRow(p)
  <2>1. v.rsv = v.rsv + Change(p)
    BY <1>0, <1>4 DEF ChangeRow, Change, Relative, Version
  <2> QED
    BY <1>4, <2>1, PutBacked DEF ChangeRow
<1>5. CASE OverwriteRow(p)
  <2>1. v.rsv = v.rsv + Change(p)
    BY <1>0, <1>5 DEF OverwriteRow, Change, Overwriting, Version
  <2> QED
    BY <1>5, <2>1, PutBacked DEF OverwriteRow
<1>6. CASE ReserveRow(p)
  <2> DEFINE w == [v EXCEPT !.rsv = @ - L(p).d]
  <2>1. w.rsv = v.rsv + Change(p)
    BY <1>0, <1>6 DEF ReserveRow, Change, Version
  <2>2. Put(p, w) /\ AtLine(p) /\ Free(p, L(p).row)
    BY <1>6 DEF ReserveRow
  <2> HIDE DEF w
  <2> QED
    BY <2>1, <2>2, PutBacked
<1>7. CASE ConsumeRow(p)
  <2>1. v.rsv + L(p).d = v.rsv + Change(p)
    BY <1>7 DEF ConsumeRow, Change
  <2> QED
    BY <1>7, <2>1, PutBacked DEF ConsumeRow
<1>8. CASE ReleaseRow(p)
  <2> DEFINE w == [v EXCEPT !.rsv = @ + L(p).d]
  <2>1. w.rsv = v.rsv + Change(p)
    BY <1>0, <1>8 DEF ReleaseRow, Change, Version
  <2>2. Put(p, w) /\ AtLine(p) /\ Free(p, L(p).row)
    BY <1>8 DEF ReleaseRow
  <2> HIDE DEF w
  <2> QED
    BY <2>1, <2>2, PutBacked
<1>9. CASE SkipLine(p)
  <2>1. AtLine(p) /\ kind[p] \in Relative
    BY <1>0, <1>9, ReleaseFinds DEF SkipLine, Version
  <2> QED
    BY <1>0, <1>9, <2>1, QuietBacked DEF SkipLine, AtLine, Relative
<1>10. CASE Reject(p)
  BY <1>10, FailBacked DEF Reject, InTransaction, AtLine
<1>11. CASE Commit(p)
  BY <1>11, CommitBacked
<1> QED
  BY <1>1, <1>2, <1>3, <1>4, <1>5, <1>6, <1>7, <1>8, <1>9, <1>10, <1>11 DEF Step

LEMMA BackedInvariant == Spec => []BackedInv
<1>1. Init => Reserving /\ OneOnReservation /\ RunsWithLocks /\ Drafted /\ ReservationsBacked
  <2> SUFFICES ASSUME Init
               PROVE  /\ Reserving /\ OneOnReservation /\ RunsWithLocks /\ Drafted
                      /\ ReservationsBacked
    OBVIOUS
  <2>1. Reserving /\ OneOnReservation /\ RunsWithLocks /\ Drafted
    BY DEF Init, Reserving, OneOnReservation, OnReservation, RunsWithLocks, Drafted
  <2>2. ReservationsBacked
    <3> SUFFICES ASSUME NEW r \in Rows
                 PROVE  row[r].rsv = SumFunction([t \in Requests |-> Holds(t, r)])
      BY DEF ReservationsBacked
    <3> DEFINE f == [t \in Requests |-> Holds(t, r)]
    <3>1. \A t \in Requests : f[t] = 0
      BY DEF Init, Holds
    <3>2. SumFunction(f) = SumFunctionOnSet(f, Requests)
      BY DEF SumFunction
    <3> HIDE DEF f
    <3>3. SumFunction(f) = 0
      BY <3>1, <3>2, FiniteAssumption, SumZero
    <3> QED
      BY <3>3 DEF Init, f
  <2> QED
    BY <2>1, <2>2
<1>2. BackedInv /\ NonNegativeInv' /\ [Next]_vars => BackedInv'
  <2> SUFFICES ASSUME BackedInv, NonNegativeInv', [Next]_vars
               PROVE  BackedInv'
    OBVIOUS
  <2>1. ASSUME NEW p \in Requests, Arrive(p)
        PROVE  BackedInv'
    BY <2>1, ArriveBacked
  <2>2. ASSUME NEW p \in Requests, Step(p)
        PROVE  BackedInv'
    BY <2>2, StepBacked
  <2>3. ASSUME NEW p \in Requests, Timeout(p)
        PROVE  BackedInv'
    BY <2>3, FailBacked DEF Timeout
  <2>4. CASE BreakDeadlock
    <3> PICK circle \in SUBSET Requests : \E p \in circle :
          Fail(p) /\ \E r \in Rows : WaitsFor(p, r)
      BY <2>4 DEF BreakDeadlock
    <3> QED
      BY FailBacked DEF WaitsFor, AtLine, InTransaction
  <2>5. CASE UNCHANGED vars
    <3>1. UNCHANGED <<row, draft, lock, pc, kind, lines, target, at, seen, doc>>
      BY <2>5 DEF vars, request
    <3>2. ReservationsBacked'
      BY <3>1, SameHolds DEF BackedInv
    <3> QED
      BY <3>1, <3>2 DEF BackedInv, Reserving, OneOnReservation, OnReservation,
         RunsWithLocks, Drafted, Current, Delta
  <2> QED
    BY <2>1, <2>2, <2>3, <2>4, <2>5 DEF Next
<1> QED
  BY <1>1, <1>2, NonNegativeInvariant, PTL DEF Spec, BackedInv

\* At any moment the reserved units of a row are exactly what the manufacturing
\* orders that are reserved hold of it, however their reservations, consumptions
\* and releases interleave with sales, receptions, failures and deadlocks: no
\* reserved unit is stranded, lost or released twice.
THEOREM ReservationsCorrect == Spec => []ReservationsBacked
<1>1. BackedInv => ReservationsBacked
  BY DEF BackedInv
<1> QED
  BY <1>1, BackedInvariant, PTL

(***************************************************************************)
(* A request moves its rows in one step.  Its draft is apart from the      *)
(* committed rows by the units of the lines behind it, so the commit, past *)
(* the last line, publishes what all of its lines ask.                     *)
(***************************************************************************)

\* The units that the lines of ls before line n add to row r, when the operation is k.
Moving(k, ls, n, r) == IF k \in {"reserve", "release"} THEN 0 ELSE -Taken(ls, n, r)

Moved(p, r) == Moving(kind[p], lines[p], at[p], r)

WholeInv ==
    \A p \in Requests :
        /\ pc[p] = "idle" => lines[p] = <<>>
        /\ \A r \in Rows : pc[p] = "run" => Current(p, r).q = row[r].q + Moved(p, r)

\* The state the argument is made in.
Settled == BackedInv /\ LedgerInv /\ WholeInv

LEMMA MovingTyped ==
    ASSUME NEW k, NEW ls \in Seq(Line), NEW n, NEW r \in Rows
    PROVE  Moving(k, ls, n, r) \in Int
  BY TakenTyped DEF Moving

\* A request at its first line has not moved anything yet.
LEMMA MovingAtFirst ==
    ASSUME NEW k, NEW ls \in Seq(Line), NEW r \in Rows
    PROVE  Moving(k, ls, 1, r) = 0
<1>1. DOMAIN ls = 1 .. Len(ls)
  OBVIOUS
<1>2. Behind(ls, 1) = {}
  BY <1>1 DEF Behind
<1>3. Taken(ls, 1, r) = 0
  BY <1>2, SumEmpty DEF Taken
<1>4. -Taken(ls, 1, r) = 0
  BY <1>3
<1> QED
  BY <1>4 DEF Moving

\* One line more.
LEMMA MovingNext ==
    ASSUME NEW k, NEW ls \in Seq(Line), NEW n \in 1 .. Len(ls), NEW r \in Rows
    PROVE  Moving(k, ls, n + 1, r)
             = Moving(k, ls, n, r)
               + (IF k \in {"reserve", "release"} \/ ls[n].row # r THEN 0 ELSE ls[n].d)
<1> DEFINE units == IF ls[n].row = r THEN -ls[n].d ELSE 0
<1>1. Taken(ls, n + 1, r) = Taken(ls, n, r) + units
  BY ReservedNext
<1>2. Taken(ls, n, r) \in Int
  BY TakenTyped
<1>3. ls[n].d \in Int
  <2>1. ls[n] \in Line
    OBVIOUS
  <2> QED
    BY <2>1 DEF Line
<1>4. CASE ls[n].row = r
  <2>1. Taken(ls, n + 1, r) = Taken(ls, n, r) + (-ls[n].d)
    BY <1>1, <1>4
  <2>2. -Taken(ls, n + 1, r) = -Taken(ls, n, r) + ls[n].d
    BY <1>2, <1>3, <2>1
  <2> QED
    BY <1>4, <2>2 DEF Moving
<1>5. CASE ls[n].row # r
  <2>1. -Taken(ls, n + 1, r) = -Taken(ls, n, r) + 0
    BY <1>1, <1>2, <1>5
  <2> QED
    BY <1>5, <2>1 DEF Moving
<1> QED
  BY <1>4, <1>5

\* A request past its last line has moved what it asks.
LEMMA MovedAll ==
    ASSUME TypeOK, NEW p \in Requests, at[p] > Len(lines[p]), NEW r \in Rows
    PROVE  Moved(p, r) = Asked(p, r)
<1>1. lines[p] \in Seq(Line) /\ at[p] \in Nat
  BY DEF TypeOK
<1>2. Taken(lines[p], at[p], r) = SumFunction(Taking(lines[p], r))
  BY <1>1, TakenAll
<1> QED
  BY <1>2 DEF Moved, Moving, Asked

LEMMA AskedTyped ==
    ASSUME TypeOK, NEW p \in Requests, NEW r \in Rows
    PROVE  Asked(p, r) \in Int
<1>1. lines[p] \in Seq(Line)
  BY DEF TypeOK
<1>2. Len(lines[p]) + 1 \in Nat /\ Len(lines[p]) + 1 > Len(lines[p])
  BY <1>1
<1>3. Taken(lines[p], Len(lines[p]) + 1, r) = SumFunction(Taking(lines[p], r))
  BY <1>1, <1>2, TakenAll
<1>4. SumFunction(Taking(lines[p], r)) \in Int
  BY <1>1, <1>2, <1>3, TakenTyped
<1> QED
  BY <1>4 DEF Asked

\* What an empty basket asks.
LEMMA EmptyAsks ==
    ASSUME TypeOK, NEW p \in Requests, lines[p] = <<>>, NEW r \in Rows
    PROVE  Asked(p, r) = 0
<1>1. lines[p] \in Seq(Line) /\ Len(lines[p]) = 0
  BY DEF TypeOK
<1>0. 1 \in Nat /\ 1 > Len(lines[p])
  BY <1>1
<1>2. Taken(lines[p], 1, r) = SumFunction(Taking(lines[p], r))
  BY <1>0, <1>1, TakenAll
<1>3. Behind(lines[p], 1) = {}
  BY <1>1 DEF Behind
<1>4. SumFunction(Taking(lines[p], r)) = 0
  BY <1>2, <1>3, SumEmpty DEF Taken
<1>5. -SumFunction(Taking(lines[p], r)) = 0
  BY <1>4
<1> QED
  BY <1>5 DEF Asked

\* A statement that changes no version and no lock.  It passes a line only in the
\* check before the writes, or where the line moves nothing.
LEMMA QuietWhole ==
    ASSUME Settled, TypeOK', NEW p \in Requests,
           UNCHANGED <<row, draft, lock, request>>,
           pc[p] \in {"check", "run"}, pc'[p] \in {pc[p], "run"},
           \A o \in Requests \ {p} : pc'[o] = pc[o] /\ at'[o] = at[o],
           pc[p] = "check" /\ pc'[p] = "run" => at'[p] = 1,
           pc[p] = "run" => \A r \in Rows : Moved(p, r)' = Moved(p, r)
    PROVE  WholeInv' /\ UNCHANGED Atomic!vars
<1>1. TypeOK
  BY DEF Settled, LedgerInv
<1>2. \A o \in Requests : Phase(o)' = Phase(o)
  BY DEF Phase, InTransaction
<1>3. \A o \in Requests, r \in Rows : Asked(o, r)' = Asked(o, r)
  BY DEF Asked, request
<1>4. UNCHANGED Atomic!vars
  BY <1>2, <1>3 DEF Atomic!vars
<1>5. ASSUME NEW o \in Requests, NEW r \in Rows, pc'[o] = "run"
      PROVE  Current(o, r)'.q = row'[r].q + Moved(o, r)'
  <2>1. Current(o, r)' = Current(o, r)
    BY DEF Current
  <2>2. CASE pc[o] = "run"
    <3>1. Moved(o, r)' = Moved(o, r)
      BY <2>2 DEF Moved, request
    <3> QED
      BY <2>1, <2>2, <3>1 DEF Settled, WholeInv
  <2>3. CASE pc[o] # "run"
    <3>1. o = p /\ pc[p] = "check" /\ at'[p] = 1
      BY <1>5, <2>3
    <3>2. lock[r] # p
      BY <3>1, ConstantsAssumption DEF Settled, BackedInv, RunsWithLocks
    <3>3. lines[p] \in Seq(Line) /\ row[r].q \in Int
      BY <1>1 DEF TypeOK, Version
    <3>4. Moved(p, r)' = 0
      BY <3>1, <3>3, MovingAtFirst DEF Moved, request
    <3> QED
      BY <2>1, <3>1, <3>2, <3>3, <3>4 DEF Current
  <2> QED
    BY <2>2, <2>3
<1>6. \A o \in Requests : pc'[o] = "idle" => lines'[o] = <<>>
  BY DEF Settled, WholeInv, request
<1> QED
  BY <1>4, <1>5, <1>6 DEF WholeInv

\* A statement that writes the row of its line: nobody else sees it.
LEMMA PutWhole ==
    ASSUME Settled, TypeOK', NEW p \in Requests, AtLine(p), Free(p, L(p).row),
           NEW v, Put(p, v),
           v.q = Current(p, L(p).row).q
                 + (IF kind[p] \in {"reserve", "release"} THEN 0 ELSE L(p).d)
    PROVE  WholeInv' /\ UNCHANGED Atomic!vars
<1>1. /\ TypeOK /\ pc[p] = "run"
      /\ lines[p] \in Seq(Line) /\ at[p] \in 1 .. Len(lines[p])
      /\ L(p).row \in Rows /\ L(p).d \in Int /\ L(p) = lines[p][at[p]]
  BY LineTyped DEF Settled, LedgerInv, TypeOK, AtLine, L
<1>2. /\ lock' = [lock EXCEPT ![L(p).row] = p] /\ draft' = [draft EXCEPT ![L(p).row] = v]
      /\ at' = [at EXCEPT ![p] = @ + 1]
      /\ UNCHANGED <<row, pc, kind, lines, target, doc>>
  BY DEF Put, request
<1>3. \A o \in Requests : Phase(o)' = Phase(o)
  BY <1>2 DEF Phase, InTransaction
<1>4. \A o \in Requests, r \in Rows : Asked(o, r)' = Asked(o, r)
  BY <1>2 DEF Asked
<1>5. UNCHANGED Atomic!vars
  BY <1>2, <1>3, <1>4 DEF Atomic!vars
<1>6. ASSUME NEW o \in Requests, NEW r \in Rows, pc'[o] = "run"
      PROVE  Current(o, r)'.q = row'[r].q + Moved(o, r)'
  <2>0. Current(o, r).q = row[r].q + Moved(o, r)
    BY <1>2, <1>6 DEF Settled, WholeInv
  <2>1. CASE o # p
    <3>1. Current(o, r)' = Current(o, r)
      BY <1>1, <1>2, <2>1, ConstantsAssumption DEF Current, Free, TypeOK
    <3>2. Moved(o, r)' = Moved(o, r)
      BY <1>1, <1>2, <2>1 DEF Moved, TypeOK
    <3> QED
      BY <1>2, <2>0, <3>1, <3>2
  <2>2. CASE o = p
    <3> DEFINE more == IF kind[p] \in {"reserve", "release"} \/ L(p).row # r
                       THEN 0 ELSE L(p).d
    <3>1. at'[p] = at[p] + 1
      BY <1>1, <1>2 DEF TypeOK
    <3>2. Moved(p, r)' = Moved(p, r) + more
      BY <1>1, <1>2, <3>1, MovingNext DEF Moved
    <3>3. Current(p, r)'.q = Current(p, r).q + more
      <4>1. CASE L(p).row = r
        BY <1>1, <1>2, <4>1 DEF Current, TypeOK
      <4>2. CASE L(p).row # r
        <5>1. Current(p, r)' = Current(p, r)
          BY <1>1, <1>2, <4>2 DEF Current, TypeOK
        <5>2. Current(p, r).q \in Int
          BY <1>1, CurrentTyped DEF Version
        <5> QED
          BY <4>2, <5>1, <5>2
      <4> QED
        BY <4>1, <4>2
    <3>4. Moved(p, r) \in Int /\ row[r].q \in Int /\ more \in Int
      <4>1. Moved(p, r) \in Int
        BY <1>1, MovingTyped DEF Moved
      <4>2. row[r].q \in Int
        BY <1>1 DEF TypeOK, Version
      <4>3. more \in Int
        BY <1>1
      <4> QED
        BY <4>1, <4>2, <4>3
    <3> HIDE DEF more
    <3> QED
      BY <1>2, <2>0, <2>2, <3>2, <3>3, <3>4
  <2> QED
    BY <2>1, <2>2
<1>7. \A o \in Requests : pc'[o] = "idle" => lines'[o] = <<>>
  BY <1>2 DEF Settled, WholeInv
<1> QED
  BY <1>5, <1>6, <1>7 DEF WholeInv

\* A request that fails is refused, and nothing of it remains.
LEMMA FailWhole ==
    ASSUME Settled, TypeOK', NEW p \in Requests, InTransaction(p), Fail(p)
    PROVE  WholeInv' /\ Atomic!Refuse(p)
<1>1. /\ TypeOK /\ pc[p] \in {"check", "run"} /\ pc' = [pc EXCEPT ![p] = "failed"]
      /\ UNCHANGED <<row, draft, kind, lines, at>> /\ lock' = Unlocked(p)
  BY DEF Settled, LedgerInv, InTransaction, Fail, request
<1>2. pc'[p] = "failed" /\ \A o \in Requests \ {p} : pc'[o] = pc[o]
  BY <1>1 DEF TypeOK
<1>3. Phase(p) = "asked" /\ Phase(p)' = "refused"
  BY <1>1, <1>2 DEF Phase, InTransaction
<1>4. \A o \in Requests \ {p} : Phase(o)' = Phase(o)
  BY <1>2 DEF Phase, InTransaction
<1>5. \A o \in Requests, r \in Rows : Asked(o, r)' = Asked(o, r)
  BY <1>1 DEF Asked
<1>6. [o \in Requests |-> Phase(o)']
        = [[o \in Requests |-> Phase(o)] EXCEPT ![p] = "refused"]
  BY <1>3, <1>4
<1>7. Atomic!Refuse(p)
  BY <1>1, <1>3, <1>5, <1>6 DEF Atomic!Refuse
<1>8. ASSUME NEW o \in Requests, NEW r \in Rows, pc'[o] = "run"
      PROVE  Current(o, r)'.q = row'[r].q + Moved(o, r)'
  <2>1. o # p /\ pc[o] = "run"
    BY <1>2, <1>8
  <2>2. Current(o, r)' = Current(o, r)
    BY <1>1, <2>1, ConstantsAssumption DEF Current, Unlocked
  <2>3. Moved(o, r)' = Moved(o, r)
    BY <1>1 DEF Moved
  <2> QED
    BY <1>1, <2>1, <2>2, <2>3 DEF Settled, WholeInv
<1>9. \A o \in Requests : pc'[o] = "idle" => lines'[o] = <<>>
  BY <1>1, <1>2 DEF Settled, WholeInv
<1> QED
  BY <1>7, <1>8, <1>9 DEF WholeInv

\* A request that begins asks for what its lines say.
LEMMA BeginWhole ==
    ASSUME Settled, TypeOK', NEW p \in Requests, NEW k, NEW ls, NEW t,
           NEW first \in {"check", "run"}, Begin(p, k, ls, t, first)
    PROVE  WholeInv' /\ Atomic!Ask(p)
<1>1. /\ TypeOK /\ pc[p] = "idle" /\ at[p] = 1
      /\ pc' = [pc EXCEPT ![p] = first] /\ kind' = [kind EXCEPT ![p] = k]
      /\ lines' = [lines EXCEPT ![p] = ls] /\ UNCHANGED <<row, draft, lock, at>>
  BY DEF Settled, LedgerInv, BackedInv, Reserving, Begin
<1>2. /\ pc'[p] = first /\ kind'[p] = k /\ lines'[p] = ls /\ ls \in Seq(Line)
      /\ \A o \in Requests \ {p} : pc'[o] = pc[o] /\ kind'[o] = kind[o] /\ lines'[o] = lines[o]
  BY <1>1 DEF TypeOK
<1>3. Phase(p) = "new" /\ Phase(p)' = "asked"
  BY <1>1, <1>2 DEF Phase, InTransaction
<1>4. \A o \in Requests \ {p} : Phase(o)' = Phase(o)
  BY <1>2 DEF Phase, InTransaction
<1>5. [o \in Requests |-> Phase(o)']
        = [[o \in Requests |-> Phase(o)] EXCEPT ![p] = "asked"]
  BY <1>3, <1>4
<1>6. \A o \in Requests \ {p}, r \in Rows : Asked(o, r)' = Asked(o, r)
  BY <1>2 DEF Asked
<1>7. \A r \in Rows : Asked(p, r)' \in Int
  <2> TAKE r \in Rows
  <2>1. Len(ls) + 1 \in Nat /\ Len(ls) + 1 > Len(ls)
    BY <1>2
  <2>2. Taken(ls, Len(ls) + 1, r) = SumFunction(Taking(ls, r))
    BY <1>2, <2>1, TakenAll
  <2>3. SumFunction(Taking(ls, r)) \in Int
    BY <1>2, <2>1, <2>2, TakenTyped
  <2> QED
    BY <1>2, <2>3 DEF Asked
<1>8. \A o \in Requests, r \in Rows : Asked(o, r)' \in Int
  <2> TAKE o \in Requests, r \in Rows
  <2>1. CASE o = p
    BY <1>7, <2>1
  <2>2. CASE o # p
    BY <1>1, <1>6, <2>2, AskedTyped
  <2> QED
    BY <2>1, <2>2
<1>9. Atomic!Ask(p)
  BY <1>1, <1>3, <1>5, <1>6, <1>8 DEF Atomic!Ask
<1>10. \A r \in Rows : lock[r] # p
  BY <1>1, ConstantsAssumption DEF Settled, BackedInv, RunsWithLocks
<1>11. ASSUME NEW o \in Requests, NEW r \in Rows, pc'[o] = "run"
       PROVE  Current(o, r)'.q = row'[r].q + Moved(o, r)'
  <2>1. CASE o = p
    <3>1. Moved(p, r)' = 0
      BY <1>1, <1>2, MovingAtFirst DEF Moved
    <3>2. Current(p, r)' = row[r] /\ row[r].q \in Int
      BY <1>1, <1>10 DEF Current, TypeOK, Version
    <3> QED
      BY <1>1, <2>1, <3>1, <3>2
  <2>2. CASE o # p
    <3>1. Current(o, r)' = Current(o, r) /\ Moved(o, r)' = Moved(o, r) /\ pc[o] = "run"
      BY <1>1, <1>2, <1>11, <2>2 DEF Current, Moved
    <3> QED
      BY <1>1, <3>1 DEF Settled, WholeInv
  <2> QED
    BY <2>1, <2>2
<1>12. \A o \in Requests : pc'[o] = "idle" => lines'[o] = <<>>
  BY <1>2 DEF Settled, WholeInv
<1> QED
  BY <1>9, <1>11, <1>12 DEF WholeInv

LEMMA ArriveWhole ==
    ASSUME Settled, TypeOK', NEW p \in Requests, Arrive(p)
    PROVE  WholeInv' /\ Atomic!Ask(p)
<1>1. \E k, ls, t : \E first \in {"check", "run"} : Begin(p, k, ls, t, first)
  BY DEF Arrive, BeginSale, BeginOrder, BeginRestock, BeginIn, BeginOut, BeginAdjust,
     BeginProduce, BeginReceipt, BeginCancel, BeginReserve, BeginStart, BeginRelease,
     BeginOnReservation
<1> QED
  BY <1>1, BeginWhole

\* The commit is the one step that the readers of the stock see.
LEMMA CommitWhole ==
    ASSUME Settled, LedgerInv', NeverNegative', NEW p \in Requests, Commit(p)
    PROVE  WholeInv' /\ Atomic!Apply(p)
<1>1. /\ TypeOK /\ TypeOK' /\ pc[p] = "run" /\ at[p] > Len(lines[p])
      /\ UNCHANGED <<draft, kind, lines, at>>
      /\ pc' = [pc EXCEPT ![p] = "committed"] /\ lock' = Unlocked(p)
      /\ row' = [r \in Rows |-> Current(p, r)]
  BY DEF Settled, LedgerInv, Commit, request, Current
<1>2. pc'[p] = "committed" /\ \A o \in Requests \ {p} : pc'[o] = pc[o]
  BY <1>1 DEF TypeOK
<1>3. Phase(p) = "asked" /\ Phase(p)' = "applied"
  BY <1>1, <1>2 DEF Phase, InTransaction
<1>4. \A o \in Requests \ {p} : Phase(o)' = Phase(o)
  BY <1>2 DEF Phase, InTransaction
<1>5. [o \in Requests |-> Phase(o)']
        = [[o \in Requests |-> Phase(o)] EXCEPT ![p] = "applied"]
  BY <1>3, <1>4
<1>6. \A o \in Requests, r \in Rows : Asked(o, r)' = Asked(o, r)
  BY <1>1 DEF Asked
<1>7. \A r \in Rows : row'[r].q = row[r].q + Asked(p, r)
  BY <1>1, MovedAll DEF Settled, WholeInv
<1>8. \A r \in Rows : row'[r].net = row[r].net + Asked(p, r)
  <2> TAKE r \in Rows
  <2>1. row[r].q = Initial[r] + row[r].net /\ row'[r].q = Initial[r] + row'[r].net
    BY DEF Settled, LedgerInv, Explained
  <2>2. /\ row[r].q \in Int /\ row[r].net \in Int
        /\ row'[r].q \in Int /\ row'[r].net \in Int
    BY <1>1 DEF TypeOK, Version
  <2>3. Initial[r] \in Int /\ Asked(p, r) \in Int
    BY <1>1, AskedTyped, ConstantsAssumption
  <2> QED
    BY <1>7, <2>1, <2>2, <2>3
<1>9. \A r \in Rows : row'[r].q >= 0
  BY DEF NeverNegative
<1>10. Atomic!Apply(p)
  BY <1>3, <1>5, <1>6, <1>7, <1>8, <1>9 DEF Atomic!Apply
<1>11. ASSUME NEW o \in Requests, NEW r \in Rows, pc'[o] = "run"
       PROVE  Current(o, r)'.q = row'[r].q + Moved(o, r)'
  <2>1. o # p /\ pc[o] = "run"
    BY <1>2, <1>11
  <2>2. Current(o, r).q = row[r].q + Moved(o, r) /\ Moved(o, r)' = Moved(o, r)
    BY <1>1, <2>1 DEF Settled, WholeInv, Moved
  <2>3. CASE lock[r] = p
    <3>1. Current(o, r) = row[r] /\ Current(o, r)' = row'[r]
      BY <1>1, <2>1, <2>3, ConstantsAssumption DEF Current, Unlocked
    <3>2. Moved(o, r) \in Int /\ row[r].q \in Int /\ row'[r].q \in Int
      BY <1>1, MovingTyped DEF Moved, TypeOK, Version
    <3>3. Moved(o, r) = 0
      BY <2>2, <3>1, <3>2
    <3> QED
      BY <2>2, <3>1, <3>2, <3>3
  <2>4. CASE lock[r] # p
    <3>1. row'[r] = row[r] /\ Current(o, r)' = Current(o, r)
      BY <1>1, <2>1, <2>4 DEF Current, Unlocked
    <3> QED
      BY <2>2, <3>1
  <2> QED
    BY <2>3, <2>4
<1>12. \A o \in Requests : pc'[o] = "idle" => lines'[o] = <<>>
  BY <1>1, <1>2 DEF Settled, WholeInv
<1> QED
  BY <1>10, <1>11, <1>12 DEF WholeInv

\* Each statement of a transaction, seen from outside of it.
LEMMA StepWhole ==
    ASSUME Settled, LedgerInv', NeverNegative', Kinds \cap Overwriting = {},
           NEW p \in Requests, Step(p)
    PROVE  WholeInv' /\ (UNCHANGED Atomic!vars \/ Atomic!Refuse(p) \/ Atomic!Apply(p))
<1> DEFINE v == Current(p, L(p).row)
<1>0. /\ TypeOK /\ TypeOK'
      /\ AtLine(p) => /\ v \in Version /\ L(p).d \in Int /\ L(p).row \in Rows
                      /\ lines[p] \in Seq(Line) /\ at[p] \in 1 .. Len(lines[p])
  BY CurrentExplained DEF Settled, LedgerInv, TypeOK, AtLine
<1>1. CASE CheckLine(p)
  BY <1>0, <1>1, QuietWhole DEF CheckLine, TypeOK
<1>2. CASE CheckDone(p)
  BY <1>0, <1>2, QuietWhole DEF CheckDone, TypeOK
<1>3. CASE ReadRow(p)
  <2>1. \A r \in Rows : Moved(p, r)' = Moved(p, r)
    BY <1>3 DEF ReadRow, Moved, request
  <2> QED
    BY <1>0, <1>3, <2>1, QuietWhole DEF ReadRow, AtLine
<1>4. CASE ChangeRow(p)
  <2>1. kind[p] \notin {"reserve", "release"}
    BY <1>4 DEF ChangeRow, Relative
  <2> QED
    BY <1>0, <1>4, <2>1, PutWhole DEF ChangeRow
<1>5. CASE OverwriteRow(p)
  BY <1>0, <1>5 DEF OverwriteRow, AtLine, TypeOK, Overwriting
<1>6. CASE ReserveRow(p)
  <2> DEFINE w == [v EXCEPT !.rsv = @ - L(p).d]
  <2>1. w.q = v.q + 0 /\ kind[p] = "reserve"
    BY <1>0, <1>6 DEF ReserveRow, Version
  <2>2. Put(p, w) /\ AtLine(p) /\ Free(p, L(p).row)
    BY <1>6 DEF ReserveRow
  <2> HIDE DEF w
  <2> QED
    BY <1>0, <2>1, <2>2, PutWhole
<1>7. CASE ConsumeRow(p)
  <2>1. kind[p] \notin {"reserve", "release"}
    BY <1>7 DEF ConsumeRow
  <2> QED
    BY <1>0, <1>7, <2>1, PutWhole DEF ConsumeRow
<1>8. CASE ReleaseRow(p)
  <2> DEFINE w == [v EXCEPT !.rsv = @ + L(p).d]
  <2>1. w.q = v.q + 0 /\ kind[p] = "release"
    BY <1>0, <1>8 DEF ReleaseRow, Version
  <2>2. Put(p, w) /\ AtLine(p) /\ Free(p, L(p).row)
    BY <1>8 DEF ReleaseRow
  <2> HIDE DEF w
  <2> QED
    BY <1>0, <2>1, <2>2, PutWhole
<1>9. CASE SkipLine(p)
  <2>1. /\ at'[p] = at[p] + 1 /\ \A o \in Requests \ {p} : at'[o] = at[o]
        /\ UNCHANGED <<row, draft, lock, pc, request, kind, lines>> /\ pc[p] = "run"
        /\ kind[p] = "release" \/ L(p).d = 0
    BY <1>0, <1>9 DEF SkipLine, AtLine, TypeOK, request
  <2>2. \A r \in Rows : Moved(p, r)' = Moved(p, r)
    <3> TAKE r \in Rows
    <3>1. Moving(kind[p], lines[p], at[p] + 1, r) = Moving(kind[p], lines[p], at[p], r) + 0
      BY <1>0, <1>9, <2>1, MovingNext DEF SkipLine, L
    <3>2. Moving(kind[p], lines[p], at[p], r) \in Int
      BY <1>0, <1>9, MovingTyped DEF SkipLine
    <3> QED
      BY <2>1, <3>1, <3>2 DEF Moved
  <2> QED
    BY <1>0, <2>1, <2>2, QuietWhole
<1>10. CASE Reject(p)
  BY <1>0, <1>10, FailWhole DEF Reject, InTransaction, AtLine
<1>11. CASE Commit(p)
  BY <1>11, CommitWhole
<1> QED
  BY <1>1, <1>2, <1>3, <1>4, <1>5, <1>6, <1>7, <1>8, <1>9, <1>10, <1>11 DEF Step

LEMMA NextWhole ==
    ASSUME Settled, LedgerInv', NeverNegative', Kinds \cap Overwriting = {}, [Next]_vars
    PROVE  WholeInv' /\ [Atomic!Next]_Atomic!vars
<1>0. TypeOK'
  BY DEF LedgerInv
<1>1. ASSUME NEW p \in Requests, Arrive(p)
      PROVE  WholeInv' /\ [Atomic!Next]_Atomic!vars
  BY <1>0, <1>1, ArriveWhole DEF Atomic!Next
<1>2. ASSUME NEW p \in Requests, Step(p)
      PROVE  WholeInv' /\ [Atomic!Next]_Atomic!vars
  BY <1>2, StepWhole DEF Atomic!Next
<1>3. ASSUME NEW p \in Requests, Timeout(p)
      PROVE  WholeInv' /\ [Atomic!Next]_Atomic!vars
  BY <1>0, <1>3, FailWhole DEF Timeout, Atomic!Next
<1>4. ASSUME BreakDeadlock
      PROVE  WholeInv' /\ [Atomic!Next]_Atomic!vars
  <2>1. PICK circle \in SUBSET Requests : \E p \in circle :
          /\ \A o \in circle : \E r \in Rows : WaitsFor(o, r) /\ lock[r] \in circle
          /\ Fail(p)
    BY <1>4 DEF BreakDeadlock
  <2>2. PICK p \in circle : (\E r \in Rows : WaitsFor(p, r)) /\ Fail(p)
    BY <2>1
  <2>3. p \in Requests /\ InTransaction(p)
    BY <2>1, <2>2 DEF WaitsFor, AtLine, InTransaction
  <2> QED
    BY <1>0, <2>2, <2>3, FailWhole DEF Atomic!Next
<1>5. ASSUME UNCHANGED vars
      PROVE  WholeInv' /\ [Atomic!Next]_Atomic!vars
  <2>1. UNCHANGED <<row, draft, lock, pc, kind, lines, at>>
    BY <1>5 DEF vars, request
  <2>2. WholeInv'
    BY <2>1 DEF Settled, WholeInv, Current, Moved
  <2>3. UNCHANGED Atomic!vars
    BY <2>1 DEF Atomic!vars, Phase, InTransaction, Asked
  <2> QED
    BY <2>2, <2>3
<1> QED
  BY <1>1, <1>2, <1>3, <1>4, <1>5 DEF Next

\* Without the overwriting operations the statements of the concurrent
\* transactions implement AtomicStock, whatever the baskets, the rows and the
\* number of requests: the commit of a request applies all of its lines in one
\* step and at most once, its failure applies none, and every other step is
\* invisible to the readers of the stock.
THEOREM StockImplementsAtomic ==
    ASSUME Kinds \cap Overwriting = {}
    PROVE  Spec => StockIsAtomic
<1>1. Init => WholeInv /\ Atomic!Init
  <2> SUFFICES ASSUME Init
               PROVE  WholeInv /\ Atomic!Init
    OBVIOUS
  <2>1. TypeOK
    BY ConstantsAssumption DEF Init, TypeOK, Version, Line, Statuses
  <2>2. \A p \in Requests : /\ pc[p] = "idle" /\ lines[p] = <<>> /\ Phase(p) = "new"
                            /\ \A r \in Rows : Asked(p, r) = 0
    <3> TAKE p \in Requests
    <3>1. pc[p] = "idle" /\ lines[p] = <<>>
      BY DEF Init
    <3>2. Phase(p) = "new"
      BY <3>1 DEF Phase, InTransaction
    <3>3. \A r \in Rows : Asked(p, r) = 0
      BY <2>1, <3>1, EmptyAsks
    <3> QED
      BY <3>1, <3>2, <3>3
  <2>3. WholeInv
    BY <2>2 DEF WholeInv
  <2>4. [r \in Rows |-> row[r].q] = Initial /\ \A r \in Rows : row[r].net = 0
    BY ConstantsAssumption DEF Init
  <2> QED
    BY <2>2, <2>3, <2>4 DEF Atomic!Init
<1>2. /\ WholeInv /\ BackedInv /\ LedgerInv /\ LedgerInv' /\ NeverNegative' /\ [Next]_vars
      => WholeInv' /\ [Atomic!Next]_Atomic!vars
  BY NextWhole DEF Settled
<1> QED
  BY <1>1, <1>2, LedgerInvariant, BackedInvariant, NonNegativeCorrect, PTL
  DEF Spec, StockIsAtomic, Atomic!Spec

(***************************************************************************)
(* What RequestsEnd rests on besides fairness: while a request is in its   *)
(* transaction somebody can go on or a deadlock can be broken, and every   *)
(* request has only so many statements left.                               *)
(***************************************************************************)

\* p waits for a row that another request has locked.
Waits(p) == \E r \in Rows : WaitsFor(p, r)

\* The guards of the statements of p, in the order of Step: one of them may be made.
Ready(p) ==
    \/ pc[p] = "check" /\ at[p] <= Len(lines[p]) /\ Available(p)
    \/ pc[p] = "check" /\ at[p] > Len(lines[p])
    \/ AtLine(p) /\ kind[p] \in ReadsFirst /\ seen[p] = {}
    \/ /\ AtLine(p) /\ Free(p, L(p).row)
       /\ LET v == Current(p, L(p).row) IN
            \/ kind[p] \in Relative /\ L(p).d # 0 /\ Fits(v, L(p).d)
            \/ kind[p] \in Overwriting /\ seen[p] # {}
            \/ kind[p] = "reserve" /\ \E s \in seen[p] : CanReserve(s, v, L(p).d)
            \/ kind[p] = "start" /\ CanConsume(v, L(p).d)
            \/ kind[p] = "release" /\ v.rsv + L(p).d >= 0
    \/ /\ AtLine(p)
       /\ \/ kind[p] \in Relative /\ L(p).d = 0
          \/ kind[p] = "release" /\ Current(p, L(p).row).rsv + L(p).d < 0
    \/ pc[p] = "check" /\ at[p] <= Len(lines[p]) /\ ~Available(p)
    \/ /\ AtLine(p)
       /\ LET v == Current(p, L(p).row) IN
            \/ kind[p] \in Relative /\ ~Fits(v, L(p).d)
            \/ kind[p] = "start" /\ ~CanConsume(v, L(p).d)
            \/ kind[p] = "reserve" /\ \E s \in seen[p] : ~CanReserve(s, v, L(p).d)
    \/ pc[p] = "run" /\ at[p] > Len(lines[p])

\* Requests that wait for each other in a circle, which Postgres finds and breaks.
Deadlocked ==
    \E circle \in SUBSET Requests :
        /\ circle # {}
        /\ \A o \in circle : \E r \in Rows : WaitsFor(o, r) /\ lock[r] \in circle
        /\ \A o \in circle : \E w \in circle, r \in Rows : WaitsFor(w, r) /\ lock[r] = o

\* While a request is in its transaction, some request can make its next statement, or
\* there is a circle to break: nobody waits for a lock whose holder has ended.
SomebodyGoesOn ==
    (\E p \in Requests : InTransaction(p)) =>
        (\E p \in Requests : InTransaction(p) /\ Ready(p)) \/ Deadlocked

Place(p) == <<pc[p], at[p], seen[p]>>

\* How many statements are left to p at most.
StatementsLeft(p) ==
    LET n == Len(lines[p]) IN
    IF pc[p] = "check" THEN 3 * n + 5 - at[p]
    ELSE IF pc[p] = "run" THEN 2 * (n + 1 - at[p]) + (IF seen[p] = {} THEN 2 ELSE 1)
    ELSE 0

\* In a finite set where everybody waits for somebody, some wait for each other in a circle.
LEMMA WaitingInACircle ==
    ASSUME NEW W, IsFiniteSet(W), W # {}, NEW h \in [W -> W]
    PROVE  \E C \in SUBSET W :
              /\ C # {}
              /\ \A x \in C : h[x] \in C
              /\ \A y \in C : \E x \in C : h[x] = y
<1> DEFINE Closed(T) == \A x \in T : h[x] \in T
           Circle(C) == C # {} /\ Closed(C) /\ \A y \in C : \E x \in C : h[x] = y
           F == {T \in SUBSET W : T # {} /\ Closed(T) => \E C \in SUBSET W : Circle(C)}
<1>1. ASSUME NEW T \in SUBSET W, \A U \in SUBSET T : U # T => U \in F
      PROVE  T \in F
  <2> SUFFICES ASSUME T # {}, Closed(T)
               PROVE  \E C \in SUBSET W : Circle(C)
    OBVIOUS
  <2> DEFINE U == {h[x] : x \in T}
  <2>1. U \in SUBSET T /\ U # {} /\ Closed(U)
    OBVIOUS
  <2>2. CASE U = T
    <3>1. Circle(T)
      BY <2>2
    <3> QED
      BY <3>1
  <2>3. CASE U # T
    <3>1. U \in F
      BY <1>1, <2>1, <2>3
    <3> QED
      BY <2>1, <3>1
  <2> QED
    BY <2>2, <2>3
<1>2. \A T \in SUBSET W : T \in F
  <2> HIDE DEF F
  <2> QED
    BY <1>1, SubsetInduction
<1>3. W \in F /\ Closed(W)
  BY <1>2
<1> QED
  BY <1>3

\* A request in progress has one of the operations and is at a line or behind the last.
InLines ==
    \A p \in Requests :
        /\ pc[p] = "idle" => at[p] = 1
        /\ pc[p] # "idle" => kind[p] \in Kinds
        /\ at[p] <= Len(lines[p]) + 1

\* A statement of p leaves the other requests where they are.
LEMMA OthersKeepPlace ==
    ASSUME TypeOK, NEW p \in Requests, NEW o \in Requests, o # p,
           Arrive(p) \/ Step(p) \/ Fail(p)
    PROVE  /\ Place(o)' = Place(o)
           /\ kind'[o] = kind[o] /\ lines'[o] = lines[o]
<1> DEFINE Goal == Place(o)' = Place(o) /\ kind'[o] = kind[o] /\ lines'[o] = lines[o]
<1>0. /\ pc \in [Requests -> {"idle", "check", "run", "committed", "failed"}]
      /\ at \in [Requests -> Nat \ {0}] /\ seen \in [Requests -> SUBSET Version]
      /\ kind \in [Requests -> Kinds \cup {"none"}] /\ lines \in [Requests -> Seq(Line)]
  BY DEF TypeOK
<1>1. ASSUME NEW k, NEW ls, NEW t, NEW first, Begin(p, k, ls, t, first)
      PROVE  Goal
  BY <1>0, <1>1 DEF Begin, Place
<1>2. CASE Arrive(p)
  BY <1>1, <1>2 DEF Arrive, BeginSale, BeginOrder, BeginRestock, BeginIn, BeginOut,
     BeginAdjust, BeginProduce, BeginReceipt, BeginCancel, BeginReserve, BeginStart,
     BeginRelease, BeginOnReservation
<1>3. ASSUME NEW v, Put(p, v)
      PROVE  Goal
  BY <1>0, <1>3 DEF Put, Place, request
<1>4. ASSUME Fail(p)
      PROVE  Goal
  BY <1>0, <1>4 DEF Fail, Place, request
<1>5. CASE CheckLine(p) \/ CheckDone(p) \/ ReadRow(p) \/ SkipLine(p) \/ Commit(p)
  BY <1>0, <1>5 DEF CheckLine, CheckDone, ReadRow, SkipLine, Commit, Place, request
<1>6. CASE ChangeRow(p) \/ OverwriteRow(p) \/ ReserveRow(p) \/ ConsumeRow(p) \/ ReleaseRow(p)
  BY <1>3, <1>6 DEF ChangeRow, OverwriteRow, ReserveRow, ConsumeRow, ReleaseRow
<1> QED
  BY <1>2, <1>4, <1>5, <1>6 DEF Step, Reject

\* A statement takes p forward.
LEMMA StepForward ==
    ASSUME TypeOK, InLines, NEW p \in Requests, Step(p) \/ Fail(p), InTransaction(p)
    PROVE  /\ UNCHANGED <<kind, lines>> /\ pc'[p] # "idle"
           /\ at'[p] <= Len(lines[p]) + 1
           /\ StatementsLeft(p)' \in Nat /\ StatementsLeft(p)' < StatementsLeft(p)
<1> DEFINE n == Len(lines[p])
           Goal == /\ UNCHANGED <<kind, lines>> /\ pc'[p] # "idle"
                   /\ at'[p] <= Len(lines[p]) + 1
                   /\ StatementsLeft(p)' \in Nat /\ StatementsLeft(p)' < StatementsLeft(p)
<1>0. /\ pc \in [Requests -> {"idle", "check", "run", "committed", "failed"}]
      /\ at \in [Requests -> Nat \ {0}] /\ seen \in [Requests -> SUBSET Version]
      /\ at[p] \in Nat \ {0} /\ n \in Nat /\ at[p] <= n + 1
      /\ pc[p] \in {"check", "run"}
  BY DEF TypeOK, InLines, InTransaction
<1>1. ASSUME pc'[p] \in {"committed", "failed"}, UNCHANGED <<kind, lines, at>>
      PROVE  Goal
  BY <1>0, <1>1 DEF StatementsLeft
<1>2. ASSUME pc'[p] = pc[p], UNCHANGED <<kind, lines>>, at'[p] = at[p] + 1, at[p] <= n,
             seen'[p] = seen[p] \/ seen'[p] = {}
      PROVE  Goal
  <2> DEFINE a == at[p]
             e == IF seen[p] = {} THEN 2 ELSE 1
             f == IF seen'[p] = {} THEN 2 ELSE 1
  <2>1. a \in Nat \ {0} /\ e \in {1, 2} /\ f \in {1, 2} /\ e <= f /\ a <= n /\ n \in Nat
    BY <1>0, <1>2
  <2>2. CASE pc[p] = "check"
    <3>1. StatementsLeft(p) = 3 * n + 5 - a /\ StatementsLeft(p)' = 3 * n + 5 - (a + 1)
      BY <1>2, <2>2 DEF StatementsLeft
    <3> HIDE DEF n, a
    <3>2. StatementsLeft(p)' \in Nat /\ StatementsLeft(p)' < StatementsLeft(p)
      BY <2>1, <3>1
    <3> QED
      BY <1>0, <1>2, <2>1, <3>2 DEF n
  <2>3. CASE pc[p] = "run"
    <3>1. /\ StatementsLeft(p) = 2 * (n + 1 - a) + e
          /\ StatementsLeft(p)' = 2 * (n + 1 - (a + 1)) + f
      BY <1>2, <2>3 DEF StatementsLeft
    <3> HIDE DEF n, a, e, f
    <3>2. StatementsLeft(p)' \in Nat /\ StatementsLeft(p)' < StatementsLeft(p)
      BY <2>1, <3>1
    <3> QED
      BY <1>0, <1>2, <2>1, <3>2 DEF n
  <2> QED
    BY <1>0, <2>2, <2>3
<1>3. ASSUME NEW v, Put(p, v), AtLine(p)
      PROVE  Goal
  BY <1>0, <1>2, <1>3 DEF Put, AtLine, request
<1>4. CASE CheckLine(p) \/ SkipLine(p)
  BY <1>0, <1>2, <1>4 DEF CheckLine, SkipLine, AtLine, request
<1>5. CASE CheckDone(p)
  <2>1. /\ pc[p] = "check" /\ pc'[p] = "run" /\ UNCHANGED <<kind, lines, seen>>
        /\ at[p] = n + 1 /\ at'[p] = 1
    BY <1>0, <1>5 DEF CheckDone, request
  <2> DEFINE e == IF seen[p] = {} THEN 2 ELSE 1
  <2>2. /\ StatementsLeft(p) = 3 * n + 5 - (n + 1)
        /\ StatementsLeft(p)' = 2 * (n + 1 - 1) + e /\ e \in {1, 2}
    BY <2>1 DEF StatementsLeft
  <2> HIDE DEF n, e
  <2>3. StatementsLeft(p)' \in Nat /\ StatementsLeft(p)' < StatementsLeft(p)
    BY <1>0, <2>2
  <2> QED
    BY <1>0, <2>1, <2>3 DEF n
<1>6. CASE ReadRow(p)
  BY <1>0, <1>6 DEF ReadRow, AtLine, request, StatementsLeft
<1>7. CASE Commit(p)
  BY <1>0, <1>1, <1>7 DEF Commit, request
<1>8. CASE Fail(p)
  BY <1>0, <1>1, <1>8 DEF Fail, request
<1>9. CASE ChangeRow(p) \/ OverwriteRow(p) \/ ReserveRow(p) \/ ConsumeRow(p) \/ ReleaseRow(p)
  BY <1>3, <1>9 DEF ChangeRow, OverwriteRow, ReserveRow, ConsumeRow, ReleaseRow
<1> QED
  BY <1>4, <1>5, <1>6, <1>7, <1>8, <1>9 DEF Step, Reject

\* A request that begins is at its first line.
LEMMA ArriveInLines ==
    ASSUME TypeOK, TypeOK', InLines, NEW p \in Requests, Arrive(p)
    PROVE  pc[p] = "idle" /\ kind'[p] \in Kinds /\ at'[p] <= Len(lines'[p]) + 1 /\ pc'[p] # "idle"
<1>1. /\ pc[p] = "idle" /\ kind'[p] \in Kinds /\ pc'[p] \in {"check", "run"} /\ at' = at
  <2>0. /\ pc \in [Requests -> {"idle", "check", "run", "committed", "failed"}]
        /\ kind \in [Requests -> Kinds \cup {"none"}]
    BY DEF TypeOK
  <2>1. ASSUME NEW k, NEW ls, NEW t, NEW first \in {"check", "run"}, Begin(p, k, ls, t, first)
        PROVE  pc[p] = "idle" /\ kind'[p] \in Kinds /\ pc'[p] \in {"check", "run"} /\ at' = at
    BY <2>0, <2>1 DEF Begin
  <2> QED
    BY <2>1 DEF Arrive, BeginSale, BeginOrder, BeginRestock, BeginIn, BeginOut,
       BeginAdjust, BeginProduce, BeginReceipt, BeginCancel, BeginReserve, BeginStart,
       BeginRelease, BeginOnReservation
<1>2. at[p] = 1 /\ Len(lines'[p]) \in Nat
  BY <1>1 DEF InLines, TypeOK
<1> QED
  BY <1>1, <1>2

LEMMA InLinesNext ==
    ASSUME TypeOK, TypeOK', InLines, [Next]_vars
    PROVE  InLines'
<1> DEFINE Good(p) == /\ pc'[p] = "idle" => at'[p] = 1
                      /\ pc'[p] # "idle" => kind'[p] \in Kinds
                      /\ at'[p] <= Len(lines'[p]) + 1
<1>1. ASSUME NEW p \in Requests, NEW o \in Requests, o # p, Arrive(p) \/ Step(p) \/ Fail(p)
      PROVE  Good(o)
  <2>1. Place(o)' = Place(o) /\ kind'[o] = kind[o] /\ lines'[o] = lines[o]
    BY <1>1, OthersKeepPlace
  <2> QED
    BY <2>1 DEF InLines, Place
<1>2. ASSUME NEW p \in Requests, Arrive(p)
      PROVE  Good(p)
  BY <1>2, ArriveInLines
<1>3. ASSUME NEW p \in Requests, Step(p) \/ Fail(p), InTransaction(p)
      PROVE  Good(p)
  <2>1. kind[p] \in Kinds
    BY <1>3 DEF InLines, InTransaction
  <2>2. /\ UNCHANGED <<kind, lines>> /\ pc'[p] # "idle"
        /\ at'[p] <= Len(lines[p]) + 1
    BY <1>3, StepForward
  <2> QED
    BY <2>1, <2>2
<1>4. ASSUME NEW p \in Requests, Step(p)
      PROVE  InTransaction(p)
  BY <1>4 DEF Step, CheckLine, CheckDone, ReadRow, ChangeRow, OverwriteRow, ReserveRow,
     ConsumeRow, ReleaseRow, SkipLine, Reject, Commit, AtLine, InTransaction
<1>5. ASSUME UNCHANGED vars, NEW o \in Requests
      PROVE  Good(o)
  BY <1>5 DEF InLines, vars, request
<1>6. BreakDeadlock => \E p \in Requests : Fail(p) /\ InTransaction(p)
  BY DEF BreakDeadlock, WaitsFor, AtLine, InTransaction
<1>7. \A o \in Requests : Good(o)
  <2> HIDE DEF Good
  <2> QED
    BY <1>1, <1>2, <1>3, <1>4, <1>5, <1>6 DEF Next, Timeout
<1> QED
  BY <1>7 DEF InLines

LEMMA InLinesInvariant == Spec => []InLines
<1>1. Init => InLines
  BY DEF Init, InLines
<1>2. TypeOK /\ TypeOK' /\ InLines /\ [Next]_vars => InLines'
  BY InLinesNext
<1> QED
  BY <1>1, <1>2, TypeCorrect, PTL DEF Spec

\* A request in its transaction makes its next statement, unless it waits.
LEMMA ReadyUnlessWaiting ==
    ASSUME TypeOK, InLines, NEW p \in Requests, InTransaction(p), ~Waits(p)
    PROVE  Ready(p)
<1> DEFINE v == Current(p, L(p).row)
<1>0. /\ at[p] \in Nat \ {0} /\ Len(lines[p]) \in Nat
      /\ pc[p] \in {"check", "run"} /\ kind[p] \in AllKinds
  BY ConstantsAssumption DEF TypeOK, InLines, InTransaction
<1>1. CASE pc[p] = "check"
  BY <1>0, <1>1 DEF Ready
<1>2. CASE pc[p] = "run" /\ at[p] > Len(lines[p])
  BY <1>2 DEF Ready
<1>3. CASE AtLine(p) /\ kind[p] \in ReadsFirst /\ seen[p] = {}
  BY <1>3 DEF Ready
<1>4. CASE AtLine(p) /\ (kind[p] \in ReadsFirst => seen[p] # {})
  <2>1. Free(p, L(p).row)
    <3>1. L(p).row \in Rows
      BY <1>4, LineTyped DEF AtLine
    <3> QED
      BY <1>4, <3>1 DEF Waits, WaitsFor
  <2>2. CASE kind[p] \in Relative
    BY <1>4, <2>1, <2>2 DEF Ready
  <2>3. CASE kind[p] \in Overwriting
    BY <1>4, <2>1, <2>3 DEF Ready, ReadsFirst
  <2>4. CASE kind[p] = "reserve"
    BY <1>4, <2>1, <2>4 DEF Ready, ReadsFirst
  <2>5. CASE kind[p] = "start"
    BY <1>4, <2>1, <2>5 DEF Ready
  <2>6. CASE kind[p] = "release"
    <3>1. v \in Version /\ L(p).d \in Int
      BY <1>4, CurrentTyped, LineTyped DEF AtLine
    <3> QED
      BY <1>4, <2>1, <2>6, <3>1 DEF Ready, Version
  <2> QED
    BY <1>0, <2>2, <2>3, <2>4, <2>5, <2>6 DEF AllKinds, Relative, Overwriting
<1> QED
  BY <1>0, <1>1, <1>2, <1>3, <1>4 DEF AtLine

\* If all requests in their transactions wait, some do so in a circle.
LEMMA WaitingDeadlocks ==
    ASSUME TypeOK, RunsWithLocks, NEW o \in Requests, InTransaction(o),
           \A p \in Requests : InTransaction(p) => Waits(p)
    PROVE  Deadlocked
<1> DEFINE W == {p \in Requests : InTransaction(p)}
           h == [p \in W |-> lock[L(p).row]]
<1>1. ASSUME NEW p \in W
      PROVE  WaitsFor(p, L(p).row) /\ L(p).row \in Rows /\ lock[L(p).row] \in W
  <2>1. PICK r \in Rows : WaitsFor(p, r)
    BY DEF Waits
  <2>2. r = L(p).row /\ lock[r] \in Requests /\ lock[r] # None
    BY <2>1 DEF WaitsFor, Free, TypeOK
  <2>3. pc[lock[r]] = "run"
    BY <2>2 DEF RunsWithLocks
  <2> QED
    BY <2>1, <2>2, <2>3 DEF InTransaction
<1>2. h \in [W -> W]
  BY <1>1
<1>3. IsFiniteSet(W) /\ W # {}
  BY FiniteAssumption, FS_Subset
<1>4. PICK C \in SUBSET W : /\ C # {}
                            /\ \A x \in C : h[x] \in C
                            /\ \A y \in C : \E x \in C : h[x] = y
  <2> HIDE DEF h, W
  <2> QED
    BY <1>2, <1>3, WaitingInACircle
<1>5. \A x \in C : h[x] = lock[L(x).row] /\ WaitsFor(x, L(x).row) /\ L(x).row \in Rows
  BY <1>1
<1>6. C \in SUBSET Requests
  OBVIOUS
<1> HIDE DEF h, W
<1>7. \A x \in C : \E r \in Rows : WaitsFor(x, r) /\ lock[r] \in C
  BY <1>4, <1>5
<1>8. ASSUME NEW y \in C
      PROVE  \E x \in C, r \in Rows : WaitsFor(x, r) /\ lock[r] = y
  <2>1. PICK x \in C : h[x] = y
    BY <1>4
  <2> QED
    BY <1>5, <2>1
<1> QED
  BY <1>4, <1>6, <1>7, <1>8 DEF Deadlocked

\* No request waits for a lock that nobody will give back: while some are in their
\* transactions, one of them can make its next statement or Postgres finds a deadlock to
\* break, for any requests, rows and baskets (updates that wait for row locks).
THEOREM SomebodyGoesOnCorrect == Spec => []SomebodyGoesOn
<1>1. TypeOK /\ InLines /\ RunsWithLocks => SomebodyGoesOn
  BY ReadyUnlessWaiting, WaitingDeadlocks DEF SomebodyGoesOn
<1>2. BackedInv => RunsWithLocks
  BY DEF BackedInv
<1> QED
  BY <1>1, <1>2, TypeCorrect, InLinesInvariant, BackedInvariant, PTL

\* Every statement of a request, made or refused, leaves it fewer, and no step of another
\* request takes it back: 3n + 4 at most for n lines.
THEOREM StatementsRunOut ==
    Spec => [][\A p \in Requests :
                  InTransaction(p) =>
                      \/ Place(p)' = Place(p)
                      \/ StatementsLeft(p)' \in Nat /\ StatementsLeft(p)' < StatementsLeft(p)]_vars
<1> DEFINE Goal(p) ==
              \/ Place(p)' = Place(p)
              \/ StatementsLeft(p)' \in Nat /\ StatementsLeft(p)' < StatementsLeft(p)
<1>1. ASSUME TypeOK, TypeOK', InLines, [Next]_vars, NEW p \in Requests, InTransaction(p)
      PROVE  Goal(p)
  <2>1. ASSUME NEW o \in Requests, Step(o) \/ Fail(o)
        PROVE  Goal(p)
    BY <1>1, <2>1, StepForward, OthersKeepPlace
  <2>2. ASSUME NEW o \in Requests, Arrive(o)
        PROVE  Goal(p)
    <3>1. o # p
      BY <1>1, <2>2, ArriveInLines DEF InTransaction
    <3> QED
      BY <1>1, <2>2, <3>1, OthersKeepPlace
  <2>3. CASE UNCHANGED vars
    BY <2>3 DEF vars, Place
  <2>4. BreakDeadlock => \E o \in Requests : Fail(o)
    BY DEF BreakDeadlock
  <2> HIDE DEF Goal
  <2> QED
    BY <1>1, <2>1, <2>2, <2>3, <2>4 DEF Next, Timeout
<1>2. TypeOK /\ TypeOK' /\ InLines /\ [Next]_vars =>
          [\A p \in Requests :
              InTransaction(p) =>
                  \/ Place(p)' = Place(p)
                  \/ StatementsLeft(p)' \in Nat /\ StatementsLeft(p)' < StatementsLeft(p)]_vars
  BY <1>1
<1> QED
  BY <1>2, TypeCorrect, InLinesInvariant, PTL DEF Spec
=============================================================================
