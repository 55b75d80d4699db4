--------------------------- MODULE Transfer_proofs ---------------------------
(***************************************************************************)
(* Proofs about Transfer, for any number of calls, warehouses, products    *)
(* and lines and whatever fails: which lines of a call have been moved at  *)
(* each of its statements (Inv, LinesInv), what the rows hold by it        *)
(* (LedgerInv), and that a transfer that is SENT has a call at work on it  *)
(* which has only so many statements left.                                 *)
(***************************************************************************)
EXTENDS Transfer, Sums

\* The line a call is at is one of its lines, or it is past the last of them; the
\* compensation is at a line before that one, or has come to it.
AtALine(c) ==
    /\ pc[c] = "idle" => at[c] = 1
    /\ pc[c] = "in" => at[c] <= Len(Lines(c))
    /\ pc[c] \in {"check", "out", "undoOut", "undoIn"} => at[c] <= Len(Lines(c)) + 1
    /\ pc[c] = "undoIn" => back[c] < at[c]
    /\ pc[c] = "undoOut" => back[c] <= at[c]

\* Nothing has been moved yet.
Untouched(c) == outs[c] = {} /\ ins[c] = {}

\* The lines that are out of the source and in at the destination: the first
\* ones on the way forward, the ones not yet undone on the way back.
LinesMoved(c) ==
    /\ pc[c] \in {"idle", "check"} => status[c] = "NONE" /\ Untouched(c)
    /\ pc[c] \in {"idle", "check", "out", "in"} => back[c] = 1
    /\ pc[c] = "out" => ins[c] = 1 .. at[c] - 1 /\ outs[c] = ins[c]
    /\ pc[c] = "in" => ins[c] = 1 .. at[c] - 1 /\ outs[c] = 1 .. at[c]
    /\ pc[c] = "undoOut" /\ marks[c] = {} =>
          outs[c] = back[c] .. at[c] - 1 /\ ins[c] = outs[c]
    /\ pc[c] = "undoIn" /\ marks[c] = {} =>
          outs[c] = back[c] .. at[c] - 1 /\ ins[c] = back[c] + 1 .. at[c] - 1

\* AllOrNothing for one call.
Settled(c) ==
    pc[c] = "ended" /\ marks[c] = {} =>
        \/ /\ status[c] = "RECEIVED"
           /\ outs[c] = 1 .. Len(Lines(c)) /\ ins[c] = outs[c]
        \/ /\ status[c] \in {"NONE", "CANCELLED"}
           /\ Untouched(c)

CallInv(c) == AtALine(c) /\ LinesMoved(c) /\ Settled(c)

Inv == TypeOK /\ \A c \in Calls : CallInv(c)

\* What call c is about, and where it stands.
StateOf(c) == <<status[c], pc[c], route[c], at[c], back[c], outs[c], ins[c], marks[c]>>

-----------------------------------------------------------------------------
(* What a step of one call leaves to the other calls.                      *)

\* A call whose own state does not change keeps its part of the invariant.
LEMMA CallUntouched ==
    ASSUME NEW c \in Calls, CallInv(c), StateOf(c)' = StateOf(c)
    PROVE  CallInv(c)'
  BY DEF CallInv, StateOf, AtALine, LinesMoved, Settled, Untouched, Lines

\* A call in progress has a typed request.
LEMMA LinesOf ==
    ASSUME Inv, NEW c \in Calls, pc[c] \notin {"idle", "ended"}
    PROVE  route[c] \in Route /\ Len(Lines(c)) \in Nat
  BY DEF Inv, TypeOK, Route, Lines

\* A line of a typed request has a row at either end and a positive number of units.
LEMMA LineTyped ==
    ASSUME NEW c \in Calls, route[c] \in Route, NEW i \in 1 .. Len(Lines(c))
    PROVE  /\ N(c, i) \in Nat \ {0}
           /\ Source(c, i) \in Rows
           /\ Destination(c, i) \in Rows
<1>1. Lines(c) \in Seq(Line) /\ route[c].from \in Places /\ route[c].to \in Places
  BY DEF Lines, Route
<1>2. Lines(c)[i] \in Line
  BY <1>1
<1>3. Lines(c)[i].item \in Items /\ Lines(c)[i].n \in Nat \ {0}
  BY <1>2 DEF Line
<1> QED
  BY <1>1, <1>3 DEF N, Source, Destination, Rows

\* A step of call c keeps the invariant when it keeps the types and c's part.
LEMMA OneCall ==
    ASSUME Inv, NEW c \in Calls, TypeOK', CallInv(c)',
           \A d \in Calls \ {c} : StateOf(d)' = StateOf(d)
    PROVE  Inv'
<1> SUFFICES ASSUME NEW d \in Calls PROVE CallInv(d)'
  BY DEF Inv
<1>1. CASE d = c
  BY <1>1
<1>2. CASE d # c
  BY <1>2, CallUntouched DEF Inv
<1> QED
  BY <1>1, <1>2

LEMMA InitInv ==
    ASSUME Init PROVE Inv
  BY ConstantsAssumption
  DEF Init, Inv, TypeOK, CallInv, AtALine, LinesMoved, Settled, Untouched

-----------------------------------------------------------------------------
(* The way forward.                                                        *)

LEMMA BeginInv ==
    ASSUME Inv, NEW c \in Calls, Begin(c) PROVE Inv'
<1> USE DEF Begin, Goto
<1>1. TypeOK'
  BY ConstantsAssumption DEF Inv, TypeOK, Route
<1>2. CallInv(c)'
  BY DEF Inv, TypeOK, CallInv, AtALine, LinesMoved, Settled, Untouched
<1>3. \A d \in Calls \ {c} : StateOf(d)' = StateOf(d)
  BY DEF Inv, TypeOK, StateOf
<1> QED
  BY <1>1, <1>2, <1>3, OneCall

LEMMA CheckLineInv ==
    ASSUME Inv, NEW c \in Calls, CheckLine(c) PROVE Inv'
<1> USE DEF CheckLine, Goto
<1>1. TypeOK'
  BY DEF Inv, TypeOK
<1>2. CallInv(c)'
  <2>1. Len(Lines(c)) \in Nat /\ Lines(c)' = Lines(c)
    BY LinesOf DEF Lines
  <2>2. AtALine(c)'
    BY <2>1 DEF Inv, TypeOK, AtALine, MoreLines
  <2> QED
    BY <2>2 DEF Inv, TypeOK, CallInv, LinesMoved, Settled, Untouched
<1>3. \A d \in Calls \ {c} : StateOf(d)' = StateOf(d)
  BY DEF Inv, TypeOK, StateOf
<1> QED
  BY <1>1, <1>2, <1>3, OneCall

LEMMA CreateInv ==
    ASSUME Inv, NEW c \in Calls, Create(c) PROVE Inv'
<1> USE DEF Create, Goto
<1>1. TypeOK'
  BY DEF Inv, TypeOK
<1>2. CallInv(c)'
  <2>1. Len(Lines(c)) \in Nat /\ Lines(c)' = Lines(c)
    BY LinesOf DEF Lines
  <2>2. at'[c] = 1 /\ pc'[c] = "out" /\ outs'[c] = {} /\ ins'[c] = {} /\ back'[c] = 1
    BY DEF Inv, TypeOK, CallInv, LinesMoved, Untouched
  <2>3. 1 .. 1 - 1 = {}
    OBVIOUS
  <2> QED
    BY <2>1, <2>2, <2>3 DEF CallInv, AtALine, LinesMoved, Settled
<1>3. \A d \in Calls \ {c} : StateOf(d)' = StateOf(d)
  BY DEF Inv, TypeOK, StateOf
<1> QED
  BY <1>1, <1>2, <1>3, OneCall

LEMMA OutInv ==
    ASSUME Inv, NEW c \in Calls, Out(c) PROVE Inv'
<1> USE DEF Out, Goto
<1>a. route[c] \in Route /\ Len(Lines(c)) \in Nat
  BY LinesOf
<1>b. at[c] \in Nat \ {0} /\ back[c] \in Nat \ {0}
  BY DEF Inv, TypeOK
<1>c. at[c] \in 1 .. Len(Lines(c))
  BY <1>a, <1>b DEF Inv, MoreLines
<1>0. /\ N(c, at[c]) \in Nat \ {0} /\ Source(c, at[c]) \in Rows
      /\ Len(Lines(c)) \in Nat
  BY <1>a, <1>c, LineTyped
<1>1. TypeOK'
  <2>1. stock' \in [Rows -> Nat]
    BY <1>0 DEF Inv, TypeOK, OutFits
  <2> QED
    BY <2>1 DEF Inv, TypeOK
<1>2. CallInv(c)'
  BY <1>0 DEF Inv, TypeOK, CallInv, AtALine, LinesMoved, Settled, MoreLines, Lines
<1>3. \A d \in Calls \ {c} : StateOf(d)' = StateOf(d)
  BY DEF Inv, TypeOK, StateOf
<1> QED
  BY <1>1, <1>2, <1>3, OneCall

LEMMA OutFailsInv ==
    ASSUME Inv, NEW c \in Calls, OutFails(c) PROVE Inv'
<1> USE DEF OutFails, Goto
<1>1. TypeOK'
  BY DEF Inv, TypeOK
<1>2. CallInv(c)'
  BY LinesOf
  DEF Inv, TypeOK, CallInv, AtALine, LinesMoved, Settled, MoreLines, Lines
<1>3. \A d \in Calls \ {c} : StateOf(d)' = StateOf(d)
  BY DEF Inv, TypeOK, StateOf
<1> QED
  BY <1>1, <1>2, <1>3, OneCall

LEMMA InInv ==
    ASSUME Inv, NEW c \in Calls, In(c) PROVE Inv'
<1> USE DEF In, Goto
<1>a. route[c] \in Route /\ Len(Lines(c)) \in Nat
  BY LinesOf
<1>b. at[c] \in Nat \ {0} /\ back[c] \in Nat \ {0}
  BY DEF Inv, TypeOK
<1>c. at[c] \in 1 .. Len(Lines(c))
  BY <1>a, <1>b DEF Inv, CallInv, AtALine
<1>0. /\ N(c, at[c]) \in Nat \ {0} /\ Destination(c, at[c]) \in Rows
      /\ Len(Lines(c)) \in Nat
  BY <1>a, <1>c, LineTyped
<1>1. TypeOK'
  <2>1. stock' \in [Rows -> Nat]
    BY <1>0 DEF Inv, TypeOK
  <2> QED
    BY <2>1 DEF Inv, TypeOK
<1>2. CallInv(c)'
  BY <1>0 DEF Inv, TypeOK, CallInv, AtALine, LinesMoved, Settled, Lines
<1>3. \A d \in Calls \ {c} : StateOf(d)' = StateOf(d)
  BY DEF Inv, TypeOK, StateOf
<1> QED
  BY <1>1, <1>2, <1>3, OneCall

LEMMA ReceivedInv ==
    ASSUME Inv, NEW c \in Calls, Received(c) PROVE Inv'
<1> USE DEF Received, Goto
<1>1. TypeOK'
  BY DEF Inv, TypeOK
<1>2. CallInv(c)'
  BY LinesOf
  DEF Inv, TypeOK, CallInv, AtALine, LinesMoved, Settled, Untouched, MoreLines, Lines
<1>3. \A d \in Calls \ {c} : StateOf(d)' = StateOf(d)
  BY DEF Inv, TypeOK, StateOf
<1> QED
  BY <1>1, <1>2, <1>3, OneCall

-----------------------------------------------------------------------------
(* The way back.                                                           *)

LEMMA UndoOutInv ==
    ASSUME Inv, NEW c \in Calls, UndoOut(c) PROVE Inv'
<1> USE DEF UndoOut, Goto
<1>a. route[c] \in Route /\ Len(Lines(c)) \in Nat
  BY LinesOf
<1>b. at[c] \in Nat \ {0} /\ back[c] \in Nat \ {0}
  BY DEF Inv, TypeOK
<1>c. back[c] \in 1 .. Len(Lines(c))
  BY <1>a, <1>b DEF Inv, CallInv, AtALine, Applied
<1>0. /\ N(c, back[c]) \in Nat \ {0} /\ Destination(c, back[c]) \in Rows
      /\ Len(Lines(c)) \in Nat
  BY <1>a, <1>c, LineTyped
<1>1. TypeOK'
  <2>1. stock' \in [Rows -> Nat]
    BY <1>0 DEF Inv, TypeOK, OutFits
  <2> QED
    BY <2>1 DEF Inv, TypeOK
<1>2. CallInv(c)'
  BY <1>0 DEF Inv, TypeOK, CallInv, AtALine, LinesMoved, Settled, Applied, Lines
<1>3. \A d \in Calls \ {c} : StateOf(d)' = StateOf(d)
  BY DEF Inv, TypeOK, StateOf
<1> QED
  BY <1>1, <1>2, <1>3, OneCall

LEMMA UndoInInv ==
    ASSUME Inv, NEW c \in Calls, UndoIn(c) PROVE Inv'
<1> USE DEF UndoIn, Goto
<1>a. route[c] \in Route /\ Len(Lines(c)) \in Nat
  BY LinesOf
<1>b. at[c] \in Nat \ {0} /\ back[c] \in Nat \ {0}
  BY DEF Inv, TypeOK
<1>c. back[c] \in 1 .. Len(Lines(c))
  BY <1>a, <1>b DEF Inv, CallInv, AtALine
<1>0. /\ N(c, back[c]) \in Nat \ {0} /\ Source(c, back[c]) \in Rows
      /\ Len(Lines(c)) \in Nat
  BY <1>a, <1>c, LineTyped
<1>1. TypeOK'
  <2>1. stock' \in [Rows -> Nat]
    BY <1>0 DEF Inv, TypeOK
  <2> QED
    BY <2>1 DEF Inv, TypeOK
<1>2. CallInv(c)'
  <2>1. /\ at[c] \in Nat /\ back[c] \in Nat
        /\ pc'[c] = "undoOut" /\ back'[c] = back[c] + 1 /\ at' = at
        /\ outs'[c] = outs[c] \ {back[c]} /\ ins' = ins /\ marks' = marks
        /\ Lines(c)' = Lines(c)
    BY DEF Inv, TypeOK, Lines
  <2>2. AtALine(c)'
    BY <1>0, <2>1 DEF Inv, CallInv, AtALine
  <2>3. ASSUME marks[c] = {}
        PROVE  outs'[c] = back'[c] .. at[c] - 1 /\ ins[c] = outs'[c]
    <3>1. outs[c] = back[c] .. at[c] - 1 /\ ins[c] = back[c] + 1 .. at[c] - 1
      BY <2>3 DEF Inv, CallInv, LinesMoved
    <3>2. (back[c] .. at[c] - 1) \ {back[c]} = back[c] + 1 .. at[c] - 1
      BY <2>1
    <3> QED
      BY <2>1, <3>1, <3>2
  <2> QED
    BY <2>1, <2>2, <2>3 DEF CallInv, LinesMoved, Settled
<1>3. \A d \in Calls \ {c} : StateOf(d)' = StateOf(d)
  BY DEF Inv, TypeOK, StateOf
<1> QED
  BY <1>1, <1>2, <1>3, OneCall

LEMMA CancelledInv ==
    ASSUME Inv, NEW c \in Calls, Cancelled(c) PROVE Inv'
<1> USE DEF Cancelled, Goto
<1>1. TypeOK'
  BY DEF Inv, TypeOK
<1>2. CallInv(c)'
  <2>1. /\ at[c] \in Nat /\ back[c] \in Nat /\ ~(back[c] < at[c])
        /\ pc'[c] = "ended" /\ status'[c] = "CANCELLED"
        /\ outs' = outs /\ ins' = ins /\ marks' = marks
    BY DEF Inv, TypeOK, Applied
  <2>2. back[c] .. at[c] - 1 = {}
    BY <2>1
  <2>3. marks[c] = {} => Untouched(c)
    BY <2>2 DEF Inv, CallInv, LinesMoved, Untouched
  <2> QED
    BY <2>1, <2>3 DEF CallInv, AtALine, LinesMoved, Settled, Untouched
<1>3. \A d \in Calls \ {c} : StateOf(d)' = StateOf(d)
  BY DEF Inv, TypeOK, StateOf
<1> QED
  BY <1>1, <1>2, <1>3, OneCall

-----------------------------------------------------------------------------
(* Failures are marked, which excuses the call from the rest.              *)

LEMMA FailureInv ==
    ASSUME Inv, NEW c \in Calls,
           InFails(c) \/ UndoOutFails(c) \/ UndoInFails(c) \/ StatusFails(c)
    PROVE  Inv'
<1> USE DEF Goto, Mark, Marks
<1>1. marks'[c] # {} /\ pc'[c] \in {"undoOut", "undoIn", "ended"}
  <2>1. marks \in [Calls -> SUBSET Marks] /\ c \in DOMAIN pc
    BY DEF Inv, TypeOK
  <2>2. pc'[c] \in {"undoOut", "undoIn", "ended"}
    BY <2>1 DEF InFails, UndoOutFails, UndoInFails, StatusFails
  <2>3. \E m \in Marks : Mark(c, m)
    BY DEF InFails, UndoOutFails, UndoInFails, StatusFails
  <2>4. marks'[c] # {}
    BY <2>1, <2>3
  <2> QED
    BY <2>2, <2>4
<1>2. TypeOK'
  BY DEF InFails, UndoOutFails, UndoInFails, StatusFails, Inv, TypeOK
<1>3. AtALine(c)'
  <2>1. /\ at[c] \in Nat \ {0} /\ back[c] \in Nat \ {0} /\ AtALine(c) /\ LinesMoved(c)
        /\ pc \in [Calls -> {"idle", "check", "out", "in", "undoOut", "undoIn", "ended"}]
        /\ back \in [Calls -> Nat \ {0}]
    BY DEF Inv, TypeOK, CallInv
  <2>2. /\ pc[c] \notin {"idle", "ended"} /\ at' = at /\ Lines(c)' = Lines(c)
    BY DEF InFails, UndoOutFails, UndoInFails, StatusFails, Lines
  <2>3. Len(Lines(c)) \in Nat
    BY <2>2, LinesOf
  <2>4. CASE InFails(c)
    BY <2>1, <2>2, <2>3, <2>4 DEF InFails, AtALine, LinesMoved
  <2>5. CASE UndoOutFails(c)
    BY <2>1, <2>2, <2>3, <2>5 DEF UndoOutFails, AtALine, Applied
  <2>6. CASE UndoInFails(c)
    BY <2>1, <2>2, <2>3, <2>6 DEF UndoInFails, AtALine
  <2>7. CASE StatusFails(c)
    BY <2>1, <2>2, <2>7 DEF StatusFails, AtALine
  <2> QED
    BY <2>4, <2>5, <2>6, <2>7
<1>4. CallInv(c)'
  BY <1>1, <1>3 DEF CallInv, LinesMoved, Settled
<1>5. \A d \in Calls \ {c} : StateOf(d)' = StateOf(d)
  BY DEF InFails, UndoOutFails, UndoInFails, StatusFails, Inv, TypeOK, StateOf
<1> QED
  BY <1>2, <1>4, <1>5, OneCall

LEMMA SetStatusInv ==
    ASSUME Inv, NEW c \in Calls, NEW s \in {"RECEIVED", "CANCELLED"}, SetStatus(c, s)
    PROVE  Inv'
<1> USE DEF SetStatus, Mark, Marks, progress
<1>1. TypeOK'
  BY DEF Inv, TypeOK
<1>2. CallInv(c)'
  BY DEF Inv, TypeOK, CallInv, AtALine, LinesMoved, Settled, Untouched, Lines
<1>3. \A d \in Calls \ {c} : StateOf(d)' = StateOf(d)
  BY DEF Inv, TypeOK, StateOf
<1> QED
  BY <1>1, <1>2, <1>3, OneCall

LEMMA CrashInv ==
    ASSUME Inv, Crash PROVE Inv'
<1> USE DEF Crash
<1>1. TypeOK'
  BY DEF Inv, TypeOK, InProgress, Marks
<1>2. ASSUME NEW c \in Calls PROVE CallInv(c)'
  <2>1. CASE InProgress(c)
    BY <2>1
    DEF Inv, TypeOK, CallInv, AtALine, LinesMoved, Settled, InProgress
  <2>2. CASE ~InProgress(c)
    BY <2>2, CallUntouched DEF Inv, TypeOK, StateOf
  <2> QED
    BY <2>1, <2>2
<1> QED
  BY <1>1, <1>2 DEF Inv

\* Other requests change the rows and nothing else.
LEMMA OthersInv ==
    ASSUME Inv, NEW r \in Rows, Take(r) \/ Bring(r)
    PROVE  Inv'
<1>1. TypeOK'
  BY DEF Take, Bring, Inv, TypeOK, progress
<1>2. \A c \in Calls : StateOf(c)' = StateOf(c)
  BY DEF Take, Bring, StateOf, progress
<1> QED
  BY <1>1, <1>2, CallUntouched DEF Inv

-----------------------------------------------------------------------------

LEMMA InvCorrect == Spec => []Inv
<1>1. Init => Inv
  BY InitInv
<1>2. Inv /\ [Next]_vars => Inv'
  <2> SUFFICES ASSUME Inv, [Next]_vars PROVE Inv'
    OBVIOUS
  <2>1. ASSUME NEW c \in Calls, Begin(c) \/ Step(c) PROVE Inv'
    BY <2>1, BeginInv, CheckLineInv, CreateInv, OutInv, OutFailsInv, InInv,
       ReceivedInv, UndoOutInv, UndoInInv, CancelledInv, FailureInv DEF Step
  <2>2. ASSUME NEW c \in Calls, InFails(c) \/ UndoInFails(c) \/ StatusFails(c)
        PROVE  Inv'
    BY <2>2, FailureInv
  <2>3. ASSUME NEW c \in Calls, NEW s \in {"RECEIVED", "CANCELLED"}, SetStatus(c, s)
        PROVE  Inv'
    BY <2>3, SetStatusInv
  <2>4. CASE Crash
    BY <2>4, CrashInv
  <2>5. ASSUME NEW r \in Rows, Take(r) \/ Bring(r) PROVE Inv'
    BY <2>5, OthersInv
  <2>6. CASE UNCHANGED vars
    <3>1. TypeOK'
      BY <2>6 DEF vars, progress, Inv, TypeOK
    <3>2. \A c \in Calls : StateOf(c)' = StateOf(c)
      BY <2>6 DEF vars, progress, StateOf
    <3> QED
      BY <3>1, <3>2, CallUntouched DEF Inv
  <2> QED
    BY <2>1, <2>2, <2>3, <2>4, <2>5, <2>6 DEF Next
<1> QED
  BY <1>1, <1>2, PTL DEF Spec

\* The state has its type in every reachable state; in particular no exit of a
\* transfer, nor of its compensation, leaves a row below zero.
THEOREM TypeCorrect == Spec => []TypeOK
<1>1. Inv => TypeOK
  BY DEF Inv
<1> QED
  BY <1>1, InvCorrect, PTL

\* A call that has ended without losing a step has moved all of its lines and
\* received its transfer, or none and refused or cancelled it, for any number of
\* concurrent transfers and of lines.
THEOREM AllOrNothingCorrect == Spec => []AllOrNothing
<1>1. Inv => AllOrNothing
  BY DEF Inv, CallInv, Settled, Untouched, AllOrNothing
<1> QED
  BY <1>1, InvCorrect, PTL

-----------------------------------------------------------------------------
(* The rows follow the lines that were moved.                              *)

\* Units line i of request rt brings into row r, and those it takes out of it.
Gains(rt, r) == [i \in Nat |-> IF <<rt.to, rt.lines[i].item>> = r THEN rt.lines[i].n ELSE 0]
Losses(rt, r) == [i \in Nat |-> IF <<rt.from, rt.lines[i].item>> = r THEN rt.lines[i].n ELSE 0]

\* What request rt has done to row r when the lines in o are out and those in i are in.
Flow(rt, o, i, r) == SumFunctionOnSet(Gains(rt, r), i) - SumFunctionOnSet(Losses(rt, r), o)

Flows(r) == [c \in Calls |-> Flow(route[c], outs[c], ins[c], r)]

\* Row r is what the lines out of it and in at it, and other requests, have made of it.
Ledger(r) == stock[r] + taken[r] = Initial[r] + SumFunctionOnSet(Flows(r), Calls)

\* Whatever a call has lost, it has a request, it moved lines of that request only, and the
\* lines it has still to undo are where they were moved to.
LinesLeft(c) ==
    /\ pc[c] # "idle" =>
          /\ route[c] \in Route
          /\ outs[c] \in SUBSET (1 .. Len(Lines(c)))
          /\ ins[c] \in SUBSET (1 .. Len(Lines(c)))
    /\ pc[c] \in {"undoOut", "undoIn"} => back[c] .. at[c] - 1 \subseteq outs[c]
    /\ pc[c] = "undoOut" => back[c] .. at[c] - 1 \subseteq ins[c]
    /\ pc[c] = "undoIn" => back[c] + 1 .. at[c] - 1 \subseteq ins[c]

LinesInv == \A c \in Calls : LinesLeft(c)

\* The lines in o and in i are lines of request rt.
LinesOfRequest(rt, o, i) ==
    /\ i \cup o # {} => rt \in Route
    /\ i \in SUBSET (1 .. Len(rt.lines)) /\ IsFiniteSet(i)
    /\ o \in SUBSET (1 .. Len(rt.lines)) /\ IsFiniteSet(o)

LinesKnown == \A c \in Calls : LinesOfRequest(route[c], outs[c], ins[c])

\* Strengthens StockFollowsStatuses to the moments at which transfers are under way, and
\* to the transfers that have lost a step.
LedgerInv == \A r \in Rows : Ledger(r)

LEMMA LinesAreKnown ==
    ASSUME Inv, LinesInv
    PROVE  LinesKnown
<1> SUFFICES ASSUME NEW c \in Calls
             PROVE  LinesOfRequest(route[c], outs[c], ins[c])
  BY DEF LinesKnown
<1>1. CASE pc[c] = "idle"
  <2>1. ins[c] = {} /\ outs[c] = {}
    BY <1>1 DEF Inv, CallInv, LinesMoved, Untouched
  <2> QED
    BY <2>1, FS_EmptySet DEF LinesOfRequest
<1>2. CASE pc[c] # "idle"
  <2>1. /\ route[c] \in Route /\ Len(Lines(c)) \in Nat
        /\ ins[c] \in SUBSET (1 .. Len(Lines(c)))
        /\ outs[c] \in SUBSET (1 .. Len(Lines(c)))
    BY <1>2 DEF LinesInv, LinesLeft, Route, Lines
  <2>2. IsFiniteSet(1 .. Len(Lines(c)))
    BY <2>1, FS_Interval
  <2>3. IsFiniteSet(ins[c]) /\ IsFiniteSet(outs[c])
    BY <2>1, <2>2, FS_Subset
  <2> QED
    BY <2>1, <2>3 DEF LinesOfRequest, Lines
<1> QED
  BY <1>1, <1>2

\* A line of a request moves a whole number of units.
LEMMA GainsTyped ==
    ASSUME NEW rt \in Route, NEW i \in 1 .. Len(rt.lines), NEW r
    PROVE  Gains(rt, r)[i] \in Int /\ Losses(rt, r)[i] \in Int
<1>1. i \in Nat /\ rt.lines[i] \in Line
  BY DEF Route
<1>2. rt.lines[i].n \in Int
  BY <1>1 DEF Line
<1> QED
  BY <1>1, <1>2 DEF Gains, Losses

LEMMA FlowParts ==
    ASSUME NEW rt, NEW o, NEW i, LinesOfRequest(rt, o, i), NEW r
    PROVE  /\ \A j \in i : Gains(rt, r)[j] \in Int
           /\ \A j \in o : Losses(rt, r)[j] \in Int
           /\ SumFunctionOnSet(Gains(rt, r), i) \in Int
           /\ SumFunctionOnSet(Losses(rt, r), o) \in Int
<1> DEFINE G == Gains(rt, r)
           L == Losses(rt, r)
<1>1. \A j \in i : G[j] \in Int
  BY GainsTyped DEF LinesOfRequest
<1>2. \A j \in o : L[j] \in Int
  BY GainsTyped DEF LinesOfRequest
<1>3. IsFiniteSet(i) /\ IsFiniteSet(o)
  BY DEF LinesOfRequest
<1> HIDE DEF G, L
<1>4. SumFunctionOnSet(G, i) \in Int /\ SumFunctionOnSet(L, o) \in Int
  BY <1>1, <1>2, <1>3, SumInt
<1> QED
  BY <1>1, <1>2, <1>4 DEF G, L

LEMMA FlowInt ==
    ASSUME NEW rt, NEW o, NEW i, LinesOfRequest(rt, o, i), NEW r
    PROVE  Flow(rt, o, i, r) \in Int
<1>1. /\ SumFunctionOnSet(Gains(rt, r), i) \in Int
      /\ SumFunctionOnSet(Losses(rt, r), o) \in Int
  BY FlowParts
<1> QED
  BY <1>1 DEF Flow

LEMMA FlowNone ==
    ASSUME NEW rt, NEW r
    PROVE  Flow(rt, {}, {}, r) = 0
  BY SumEmpty DEF Flow

\* A step of call c that changes row r and its own flow by the same amount keeps the ledger.
LEMMA LedgerStep ==
    ASSUME Inv, Inv', LinesKnown, LinesKnown', NEW c \in Calls,
           \A d \in Calls \ {c} : StateOf(d)' = StateOf(d),
           NEW r \in Rows, Ledger(r), taken' = taken,
           stock'[r] - stock[r] = Flow(route'[c], outs'[c], ins'[c], r)
                                   - Flow(route[c], outs[c], ins[c], r)
    PROVE  Ledger(r)'
<1> DEFINE f == [d \in Calls |-> Flow(route[d], outs[d], ins[d], r)]
           g == [d \in Calls |-> Flow(route'[d], outs'[d], ins'[d], r)]
<1>1. \A d \in Calls : f[d] \in Int
  BY FlowInt DEF LinesKnown
<1>2. \A d \in Calls : g[d] \in Int
  BY FlowInt DEF LinesKnown
<1>3. \A d \in Calls \ {c} : g[d] = f[d]
  BY DEF StateOf
<1>4. stock'[r] - stock[r] = g[c] - f[c]
  OBVIOUS
<1>5. stock[r] + taken[r] = Initial[r] + SumFunctionOnSet(f, Calls)
  BY DEF Ledger, Flows
<1>6. /\ stock[r] \in Int /\ stock'[r] \in Int /\ taken[r] \in Int /\ Initial[r] \in Int
  BY ConstantsAssumption DEF Inv, TypeOK
<1> HIDE DEF f, g
<1>7. SumFunctionOnSet(g, Calls) = SumFunctionOnSet(f, Calls) + (g[c] - f[c])
  BY <1>1, <1>2, <1>3, FiniteAssumption, SumChange
<1>8. SumFunctionOnSet(f, Calls) \in Int
  BY <1>1, FiniteAssumption, SumInt
<1>9. stock'[r] + taken[r] = Initial[r] + SumFunctionOnSet(g, Calls)
  BY <1>1, <1>2, <1>4, <1>5, <1>6, <1>7, <1>8
<1> QED
  BY <1>9 DEF g, Ledger, Flows

-----------------------------------------------------------------------------

\* What a step of one call leaves to the others, and to the lines of that call.
LEMMA LinesUntouched ==
    ASSUME NEW c \in Calls, LinesLeft(c), StateOf(c)' = StateOf(c)
    PROVE  LinesLeft(c)'
  BY DEF LinesLeft, StateOf, Lines

LEMMA OneCallLines ==
    ASSUME LinesInv, NEW c \in Calls, LinesLeft(c)',
           \A d \in Calls \ {c} : StateOf(d)' = StateOf(d)
    PROVE  LinesInv'
<1> SUFFICES ASSUME NEW d \in Calls PROVE LinesLeft(d)'
  BY DEF LinesInv
<1> QED
  BY LinesUntouched DEF LinesInv

\* A step of call c changes the state of no other call.
LEMMA OthersStay ==
    ASSUME Inv, NEW c \in Calls,
           \/ Begin(c) \/ Step(c) \/ InFails(c) \/ UndoInFails(c) \/ StatusFails(c)
           \/ \E s \in {"RECEIVED", "CANCELLED"} : SetStatus(c, s)
    PROVE  \A d \in Calls \ {c} : StateOf(d)' = StateOf(d)
  BY DEF Begin, Step, CheckLine, Create, Out, OutFails, In, InFails, Received, UndoOut,
         UndoOutFails, UndoIn, UndoInFails, Cancelled, StatusFails, SetStatus, Goto, Mark,
         progress, StateOf, Inv, TypeOK

\* The lines of a call after one of its steps.
LEMMA StepLines ==
    ASSUME Inv, LinesInv, NEW c \in Calls,
           Step(c) \/ InFails(c) \/ UndoInFails(c) \/ StatusFails(c)
    PROVE  LinesLeft(c)'
<1>t. /\ pc \in [Calls -> {"idle", "check", "out", "in", "undoOut", "undoIn", "ended"}]
      /\ at \in [Calls -> Nat \ {0}] /\ back \in [Calls -> Nat \ {0}]
      /\ outs \in [Calls -> SUBSET Nat] /\ ins \in [Calls -> SUBSET Nat]
      /\ at[c] \in Nat \ {0} /\ back[c] \in Nat \ {0}
  BY DEF Inv, TypeOK
<1>0. /\ pc[c] # "idle" /\ route' = route /\ Lines(c)' = Lines(c)
  BY DEF Step, CheckLine, Create, Out, OutFails, In, InFails, Received, UndoOut,
         UndoOutFails, UndoIn, UndoInFails, Cancelled, StatusFails, Lines
<1>1. /\ route[c] \in Route /\ Len(Lines(c)) \in Nat
      /\ outs[c] \in SUBSET (1 .. Len(Lines(c)))
      /\ ins[c] \in SUBSET (1 .. Len(Lines(c)))
  BY <1>0 DEF LinesInv, LinesLeft, Route, Lines
<1>l. LinesLeft(c) /\ AtALine(c) /\ LinesMoved(c)
  BY DEF LinesInv, Inv, CallInv
<1>2. CASE CheckLine(c) \/ Create(c) \/ Received(c) \/ Cancelled(c) \/ StatusFails(c)
  <2>1. UNCHANGED <<outs, ins>> /\ pc'[c] \in {"check", "out", "ended"}
    BY <1>2, <1>t DEF CheckLine, Create, Received, Cancelled, StatusFails, Goto
  <2> QED
    BY <2>1, <1>0, <1>1 DEF LinesLeft
<1>3. CASE Out(c)
  <2>1. /\ outs'[c] = outs[c] \cup {at[c]} /\ ins' = ins /\ pc'[c] = "in"
        /\ at[c] \in 1 .. Len(Lines(c))
    BY <1>3, <1>t, <1>1 DEF Out, Goto, MoreLines
  <2> QED
    BY <2>1, <1>0, <1>1 DEF LinesLeft
<1>4. CASE In(c)
  <2>1. /\ ins'[c] = ins[c] \cup {at[c]} /\ outs' = outs /\ pc'[c] = "out"
        /\ at[c] \in 1 .. Len(Lines(c))
    BY <1>4, <1>t, <1>1, <1>l DEF In, Goto, AtALine
  <2> QED
    BY <2>1, <1>0, <1>1 DEF LinesLeft
<1>5. CASE OutFails(c) \/ InFails(c)
  <2>1. /\ UNCHANGED <<outs, ins, at, back>> /\ pc'[c] = "undoOut"
        /\ pc[c] \in {"out", "in"}
    BY <1>5, <1>t DEF OutFails, InFails, Goto
  <2>2. back[c] = 1 /\ ins[c] = 1 .. at[c] - 1 /\ ins[c] \subseteq outs[c]
    BY <2>1, <1>l, <1>t DEF LinesMoved
  <2> QED
    BY <2>1, <2>2, <1>0, <1>1 DEF LinesLeft
<1>6. CASE UndoOut(c) \/ UndoOutFails(c)
  <2>1. /\ UNCHANGED <<outs, at, back>> /\ pc[c] = "undoOut" /\ pc'[c] = "undoIn"
        /\ ins'[c] = ins[c] \/ ins'[c] = ins[c] \ {back[c]}
    BY <1>6, <1>t DEF UndoOut, UndoOutFails, Goto
  <2>2. back[c] + 1 .. at[c] - 1 \subseteq (back[c] .. at[c] - 1) \ {back[c]}
    BY <1>t
  <2>3. back[c] .. at[c] - 1 \subseteq outs[c] /\ back[c] .. at[c] - 1 \subseteq ins[c]
    BY <2>1, <1>l DEF LinesLeft
  <2>4. back'[c] + 1 .. at'[c] - 1 \subseteq ins'[c] /\ ins'[c] \in SUBSET (1 .. Len(Lines(c)))
    BY <2>1, <2>2, <2>3, <1>1
  <2> QED
    BY <2>1, <2>3, <2>4, <1>0, <1>1 DEF LinesLeft
<1>7. CASE UndoIn(c) \/ UndoInFails(c)
  <2>1. /\ UNCHANGED <<ins, at>> /\ pc[c] = "undoIn" /\ pc'[c] = "undoOut"
        /\ back'[c] = back[c] + 1
        /\ outs'[c] = outs[c] \/ outs'[c] = outs[c] \ {back[c]}
    BY <1>7, <1>t DEF UndoIn, UndoInFails, Goto
  <2>2. back[c] + 1 .. at[c] - 1 \subseteq (back[c] .. at[c] - 1) \ {back[c]}
    BY <1>t
  <2>3. back[c] .. at[c] - 1 \subseteq outs[c] /\ back[c] + 1 .. at[c] - 1 \subseteq ins[c]
    BY <2>1, <1>l DEF LinesLeft
  <2>4. /\ back'[c] .. at'[c] - 1 \subseteq outs'[c] /\ back'[c] .. at'[c] - 1 \subseteq ins'[c]
        /\ outs'[c] \in SUBSET (1 .. Len(Lines(c)))
    BY <2>1, <2>2, <2>3, <1>1
  <2> QED
    BY <2>1, <2>4, <1>0, <1>1 DEF LinesLeft
<1> QED
  BY <1>2, <1>3, <1>4, <1>5, <1>6, <1>7 DEF Step

LEMMA LinesNext ==
    ASSUME Inv, LinesInv, [Next]_vars
    PROVE  LinesInv'
<1>t. /\ pc \in [Calls -> {"idle", "check", "out", "in", "undoOut", "undoIn", "ended"}]
      /\ route \in [Calls -> Route \cup {None}]
  BY DEF Inv, TypeOK
<1>1. ASSUME NEW c \in Calls, Begin(c) PROVE LinesInv'
  <2>1. outs[c] = {} /\ ins[c] = {} /\ UNCHANGED <<outs, ins>> /\ pc'[c] = "check"
    BY <1>1, <1>t DEF Begin, Goto, Inv, CallInv, LinesMoved, Untouched
  <2>2. route'[c] \in Route
    BY <1>1, <1>t, ConstantsAssumption DEF Begin, Route
  <2>3. LinesLeft(c)'
    BY <2>1, <2>2 DEF LinesLeft
  <2> QED
    BY <1>1, <2>3, OthersStay, OneCallLines
<1>2. ASSUME NEW c \in Calls, Step(c) \/ InFails(c) \/ UndoInFails(c) \/ StatusFails(c)
      PROVE  LinesInv'
  BY <1>2, StepLines, OthersStay, OneCallLines
<1>3. ASSUME UNCHANGED <<progress, outs, ins>> PROVE LinesInv'
  BY <1>3 DEF LinesInv, LinesLeft, progress, Lines
<1>4. ASSUME NEW c \in Calls, NEW s \in {"RECEIVED", "CANCELLED"}, SetStatus(c, s)
      PROVE  LinesInv'
  BY <1>4, <1>3 DEF SetStatus
<1>5. CASE Crash
  <2>1. /\ UNCHANGED <<route, at, back, outs, ins>>
        /\ \A c \in Calls : pc'[c] = pc[c] \/ (pc[c] # "idle" /\ pc'[c] = "ended")
    BY <1>5, <1>t DEF Crash, InProgress
  <2> QED
    BY <2>1 DEF LinesInv, LinesLeft, Lines
<1>6. ASSUME NEW r \in Rows, Take(r) \/ Bring(r) PROVE LinesInv'
  BY <1>6, <1>3 DEF Take, Bring
<1>7. CASE UNCHANGED vars
  BY <1>7, <1>3 DEF vars
<1> QED
  BY <1>1, <1>2, <1>4, <1>5, <1>6, <1>7 DEF Next

\* One more line out takes its units out of the flow, one more line in adds them.
LEMMA FlowExit ==
    ASSUME NEW rt, NEW o, NEW i, NEW j, j \notin o, NEW p, p = o \cup {j},
           LinesOfRequest(rt, o, i), LinesOfRequest(rt, p, i), NEW r
    PROVE  Flow(rt, p, i, r) - Flow(rt, o, i, r) = 0 - Losses(rt, r)[j]
<1> DEFINE G == Gains(rt, r)
           L == Losses(rt, r)
<1>1. /\ \A k \in p : L[k] \in Int
      /\ SumFunctionOnSet(L, o) \in Int /\ SumFunctionOnSet(G, i) \in Int
  BY FlowParts
<1>2. IsFiniteSet(o)
  BY DEF LinesOfRequest
<1>3. /\ Flow(rt, o, i, r) = SumFunctionOnSet(G, i) - SumFunctionOnSet(L, o)
      /\ Flow(rt, p, i, r) = SumFunctionOnSet(G, i) - SumFunctionOnSet(L, p)
  BY DEF Flow
<1> HIDE DEF G, L
<1>4. SumFunctionOnSet(L, p) = L[j] + SumFunctionOnSet(L, o)
  BY <1>1, <1>2, SumAdd
<1>5. Flow(rt, p, i, r) - Flow(rt, o, i, r) = 0 - L[j]
  BY <1>1, <1>3, <1>4
<1> QED
  BY <1>5 DEF L

LEMMA FlowEntry ==
    ASSUME NEW rt, NEW o, NEW i, NEW j, j \notin i, NEW p, p = i \cup {j},
           LinesOfRequest(rt, o, i), LinesOfRequest(rt, o, p), NEW r
    PROVE  Flow(rt, o, p, r) - Flow(rt, o, i, r) = Gains(rt, r)[j]
<1> DEFINE G == Gains(rt, r)
           L == Losses(rt, r)
<1>1. /\ \A k \in p : G[k] \in Int
      /\ SumFunctionOnSet(L, o) \in Int /\ SumFunctionOnSet(G, i) \in Int
  BY FlowParts
<1>2. IsFiniteSet(i)
  BY DEF LinesOfRequest
<1>3. /\ Flow(rt, o, i, r) = SumFunctionOnSet(G, i) - SumFunctionOnSet(L, o)
      /\ Flow(rt, o, p, r) = SumFunctionOnSet(G, p) - SumFunctionOnSet(L, o)
  BY DEF Flow
<1> HIDE DEF G, L
<1>4. SumFunctionOnSet(G, p) = G[j] + SumFunctionOnSet(G, i)
  BY <1>1, <1>2, SumAdd
<1>5. Flow(rt, o, p, r) - Flow(rt, o, i, r) = G[j]
  BY <1>1, <1>3, <1>4
<1> QED
  BY <1>5 DEF G

\* What line j of a request changes in row r when it goes out and when it comes in.
LEMMA LineMoves ==
    ASSUME Inv, NEW c \in Calls, InProgress(c), NEW j \in 1 .. Len(Lines(c)), NEW r \in Rows
    PROVE  /\ stock \in [Rows -> Nat] /\ N(c, j) \in Nat
           /\ Source(c, j) \in Rows /\ Destination(c, j) \in Rows
           /\ Losses(route[c], r)[j] = IF Source(c, j) = r THEN N(c, j) ELSE 0
           /\ Gains(route[c], r)[j] = IF Destination(c, j) = r THEN N(c, j) ELSE 0
<1>1. route[c] \in Route /\ Len(Lines(c)) \in Nat
  BY LinesOf DEF InProgress
<1>2. j \in Nat
  BY <1>1
<1>3. /\ Losses(route[c], r)[j] = IF Source(c, j) = r THEN N(c, j) ELSE 0
      /\ Gains(route[c], r)[j] = IF Destination(c, j) = r THEN N(c, j) ELSE 0
  BY <1>2 DEF Losses, Gains, Source, Destination, N, Lines
<1> QED
  BY <1>1, <1>3, LineTyped DEF Inv, TypeOK

\* The exit of a line.
LEMMA OutLedger ==
    ASSUME Inv, Inv', LinesKnown, LinesKnown', NEW c \in Calls, Out(c),
           NEW r \in Rows, Ledger(r)
    PROVE  Ledger(r)'
<1> DEFINE j == at[c]
<1>1. \A d \in Calls \ {c} : StateOf(d)' = StateOf(d)
  BY DEF Out, Goto, Inv, TypeOK, StateOf
<1>2. /\ j \in Nat /\ outs[c] = 1 .. j - 1 /\ outs'[c] = outs[c] \cup {j}
      /\ ins' = ins /\ route' = route /\ taken' = taken
  BY DEF Out, Inv, TypeOK, CallInv, LinesMoved
<1>3. j \notin outs[c]
  BY <1>2
<1>4. /\ LinesOfRequest(route[c], outs[c], ins[c])
      /\ LinesOfRequest(route[c], outs[c] \cup {j}, ins[c])
  BY <1>2 DEF LinesKnown
<1>5. stock'[r] - stock[r] = 0 - Losses(route[c], r)[j]
  <2>1. j \in 1 .. Len(Lines(c)) /\ InProgress(c)
    BY <1>4 DEF LinesOfRequest, Out, InProgress, Lines
  <2>2. stock' = [stock EXCEPT ![Source(c, j)] = @ - N(c, j)]
    BY DEF Out
  <2> HIDE DEF j
  <2> QED
    BY <2>1, <2>2, LineMoves
<1>6. Flow(route[c], outs[c] \cup {j}, ins[c], r) - Flow(route[c], outs[c], ins[c], r)
        = 0 - Losses(route[c], r)[j]
  BY <1>3, <1>4, FlowExit
<1>7. stock'[r] - stock[r] = Flow(route'[c], outs'[c], ins'[c], r)
                              - Flow(route[c], outs[c], ins[c], r)
  BY <1>2, <1>5, <1>6
<1> QED
  BY <1>1, <1>2, <1>7, LedgerStep

\* The entry of a line.
LEMMA InLedger ==
    ASSUME Inv, Inv', LinesKnown, LinesKnown', NEW c \in Calls, In(c),
           NEW r \in Rows, Ledger(r)
    PROVE  Ledger(r)'
<1> DEFINE j == at[c]
<1>1. \A d \in Calls \ {c} : StateOf(d)' = StateOf(d)
  BY DEF In, Goto, Inv, TypeOK, StateOf
<1>2. /\ j \in Nat /\ ins[c] = 1 .. j - 1 /\ ins'[c] = ins[c] \cup {j}
      /\ outs' = outs /\ route' = route /\ taken' = taken
  BY DEF In, Inv, TypeOK, CallInv, LinesMoved
<1>3. j \notin ins[c]
  BY <1>2
<1>4. /\ LinesOfRequest(route[c], outs[c], ins[c])
      /\ LinesOfRequest(route[c], outs[c], ins[c] \cup {j})
  BY <1>2 DEF LinesKnown
<1>5. stock'[r] - stock[r] = Gains(route[c], r)[j]
  <2>1. j \in 1 .. Len(Lines(c)) /\ InProgress(c)
    BY <1>4 DEF LinesOfRequest, In, InProgress, Lines
  <2>2. stock' = [stock EXCEPT ![Destination(c, j)] = @ + N(c, j)]
    BY DEF In
  <2> HIDE DEF j
  <2> QED
    BY <2>1, <2>2, LineMoves
<1>6. Flow(route[c], outs[c], ins[c] \cup {j}, r) - Flow(route[c], outs[c], ins[c], r)
        = Gains(route[c], r)[j]
  BY <1>3, <1>4, FlowEntry
<1>7. stock'[r] - stock[r] = Flow(route'[c], outs'[c], ins'[c], r)
                              - Flow(route[c], outs[c], ins[c], r)
  BY <1>2, <1>5, <1>6
<1> QED
  BY <1>1, <1>2, <1>7, LedgerStep

\* The compensation takes a line out of the destination ...
LEMMA UndoOutLedger ==
    ASSUME Inv, Inv', LinesInv, LinesKnown, LinesKnown', NEW c \in Calls, UndoOut(c),
           NEW r \in Rows, Ledger(r)
    PROVE  Ledger(r)'
<1> DEFINE j == back[c]
           i == ins[c] \ {j}
<1>1. \A d \in Calls \ {c} : StateOf(d)' = StateOf(d)
  BY DEF UndoOut, Goto, Inv, TypeOK, StateOf
<1>2. /\ j \in ins[c]
      /\ ins'[c] = i /\ outs' = outs /\ route' = route /\ taken' = taken
  <2>1. /\ j \in Nat /\ at[c] \in Nat /\ j .. at[c] - 1 \subseteq ins[c] /\ j < at[c]
    BY DEF UndoOut, Applied, Inv, TypeOK, LinesInv, LinesLeft
  <2> QED
    BY <2>1 DEF UndoOut, Inv, TypeOK
<1>3. j \notin i /\ i \cup {j} = ins[c]
  BY <1>2
<1>4. LinesOfRequest(route[c], outs[c], ins[c]) /\ LinesOfRequest(route[c], outs[c], i)
  BY <1>2 DEF LinesKnown
<1>5. stock'[r] - stock[r] = 0 - Gains(route[c], r)[j]
  <2>1. j \in 1 .. Len(Lines(c)) /\ InProgress(c)
    BY <1>3, <1>4 DEF LinesOfRequest, UndoOut, InProgress, Lines
  <2>2. stock' = [stock EXCEPT ![Destination(c, j)] = @ - N(c, j)]
    BY DEF UndoOut
  <2> HIDE DEF j
  <2> QED
    BY <2>1, <2>2, LineMoves
<1>6. Flow(route[c], outs[c], ins[c], r) - Flow(route[c], outs[c], i, r)
        = Gains(route[c], r)[j]
  <2> HIDE DEF i
  <2> QED
    BY <1>3, <1>4, FlowEntry
<1>7. /\ Flow(route[c], outs[c], ins[c], r) \in Int
      /\ Flow(route[c], outs[c], i, r) \in Int
  BY <1>4, FlowInt
<1>8. /\ stock \in [Rows -> Int] /\ stock' \in [Rows -> Int]
      /\ Gains(route[c], r)[j] \in Int
  BY <1>3, <1>4, FlowParts DEF Inv, TypeOK
<1>9. stock'[r] - stock[r] = Flow(route'[c], outs'[c], ins'[c], r)
                              - Flow(route[c], outs[c], ins[c], r)
  <2> HIDE DEF i, j
  <2> QED
    BY <1>2, <1>5, <1>6, <1>7, <1>8
<1> QED
  BY <1>1, <1>2, <1>9, LedgerStep

\* ... and puts it back into the source.
LEMMA UndoInLedger ==
    ASSUME Inv, Inv', LinesInv, LinesKnown, LinesKnown', NEW c \in Calls, UndoIn(c),
           NEW r \in Rows, Ledger(r)
    PROVE  Ledger(r)'
<1> DEFINE j == back[c]
           o == outs[c] \ {j}
<1>1. \A d \in Calls \ {c} : StateOf(d)' = StateOf(d)
  BY DEF UndoIn, Goto, Inv, TypeOK, StateOf
<1>2. /\ j \in outs[c]
      /\ outs'[c] = o /\ ins' = ins /\ route' = route /\ taken' = taken
  <2>1. /\ j \in Nat /\ at[c] \in Nat /\ j .. at[c] - 1 \subseteq outs[c] /\ j < at[c]
    BY DEF UndoIn, Inv, TypeOK, CallInv, AtALine, LinesInv, LinesLeft
  <2> QED
    BY <2>1 DEF UndoIn, Inv, TypeOK
<1>3. j \notin o /\ o \cup {j} = outs[c]
  BY <1>2
<1>4. LinesOfRequest(route[c], outs[c], ins[c]) /\ LinesOfRequest(route[c], o, ins[c])
  BY <1>2 DEF LinesKnown
<1>5. stock'[r] - stock[r] = Losses(route[c], r)[j]
  <2>1. j \in 1 .. Len(Lines(c)) /\ InProgress(c)
    BY <1>3, <1>4 DEF LinesOfRequest, UndoIn, InProgress, Lines
  <2>2. stock' = [stock EXCEPT ![Source(c, j)] = @ + N(c, j)]
    BY DEF UndoIn
  <2> HIDE DEF j
  <2> QED
    BY <2>1, <2>2, LineMoves
<1>6. Flow(route[c], outs[c], ins[c], r) - Flow(route[c], o, ins[c], r)
        = 0 - Losses(route[c], r)[j]
  <2> HIDE DEF o
  <2> QED
    BY <1>3, <1>4, FlowExit
<1>7. /\ Flow(route[c], outs[c], ins[c], r) \in Int
      /\ Flow(route[c], o, ins[c], r) \in Int
  BY <1>4, FlowInt
<1>8. /\ stock \in [Rows -> Int] /\ stock' \in [Rows -> Int]
      /\ Losses(route[c], r)[j] \in Int
  BY <1>3, <1>4, FlowParts DEF Inv, TypeOK
<1>9. stock'[r] - stock[r] = Flow(route'[c], outs'[c], ins'[c], r)
                              - Flow(route[c], outs[c], ins[c], r)
  <2> HIDE DEF o, j
  <2> QED
    BY <1>2, <1>5, <1>6, <1>7, <1>8
<1> QED
  BY <1>1, <1>2, <1>9, LedgerStep

\* Any other step of a call moves no line; a request has no flow when it begins.
LEMMA QuietLedger ==
    ASSUME Inv, Inv', LinesKnown, LinesKnown', NEW c \in Calls,
           \A d \in Calls \ {c} : StateOf(d)' = StateOf(d),
           UNCHANGED <<stock, taken, outs, ins>>,
           route' = route \/ pc[c] = "idle",
           NEW r \in Rows, Ledger(r)
    PROVE  Ledger(r)'
<1>1. Flow(route'[c], outs'[c], ins'[c], r) = Flow(route[c], outs[c], ins[c], r)
  <2>1. CASE route' = route
    BY <2>1
  <2>2. CASE pc[c] = "idle"
    <3>1. outs[c] = {} /\ ins[c] = {}
      BY <2>2 DEF Inv, CallInv, LinesMoved, Untouched
    <3> QED
      BY <3>1, FlowNone
  <2> QED
    BY <2>1, <2>2
<1>2. Flow(route[c], outs[c], ins[c], r) \in Int /\ stock[r] \in Int
  BY FlowInt DEF LinesKnown, Inv, TypeOK
<1> QED
  BY <1>1, <1>2, LedgerStep

-----------------------------------------------------------------------------

LEMMA LedgerInit ==
    ASSUME Init PROVE LedgerInv
<1> SUFFICES ASSUME NEW r \in Rows PROVE Ledger(r)
  BY DEF LedgerInv
<1> DEFINE f == Flows(r)
<1>1. \A c \in Calls : f[c] = 0
  BY FlowNone DEF Init, Flows
<1>2. stock[r] = Initial[r] /\ taken[r] = 0 /\ Initial[r] \in Nat
  BY ConstantsAssumption DEF Init
<1> HIDE DEF f
<1>3. SumFunctionOnSet(f, Calls) = 0
  BY <1>1, FiniteAssumption, SumZero
<1>4. stock[r] + taken[r] = Initial[r] + SumFunctionOnSet(f, Calls)
  BY <1>2, <1>3
<1> QED
  BY <1>4 DEF f, Ledger

LEMMA LedgerNext ==
    ASSUME Inv, Inv', LinesInv, LinesKnown, LinesKnown', LedgerInv, [Next]_vars
    PROVE  LedgerInv'
<1> SUFFICES ASSUME NEW r \in Rows
             PROVE  Ledger(r)'
  BY DEF LedgerInv
<1>1. Ledger(r)
  BY DEF LedgerInv
<1>2. ASSUME NEW c \in Calls, Out(c) \/ In(c) \/ UndoOut(c) \/ UndoIn(c)
      PROVE  Ledger(r)'
  BY <1>1, <1>2, OutLedger, InLedger, UndoOutLedger, UndoInLedger
<1>3. ASSUME NEW c \in Calls,
             \/ Begin(c) \/ CheckLine(c) \/ Create(c) \/ OutFails(c) \/ Received(c)
             \/ Cancelled(c) \/ UndoOutFails(c) \/ InFails(c) \/ UndoInFails(c)
             \/ StatusFails(c)
      PROVE  Ledger(r)'
  <2>1. UNCHANGED <<stock, taken, outs, ins>> /\ (route' = route \/ pc[c] = "idle")
    BY <1>3 DEF Begin, CheckLine, Create, OutFails, Received, Cancelled, UndoOutFails,
                InFails, UndoInFails, StatusFails
  <2>2. \A d \in Calls \ {c} : StateOf(d)' = StateOf(d)
    BY <1>3, OthersStay DEF Step
  <2> QED
    BY <1>1, <2>1, <2>2, QuietLedger
<1>4. ASSUME UNCHANGED <<route, outs, ins>>, stock'[r] + taken'[r] = stock[r] + taken[r]
      PROVE  Ledger(r)'
  BY <1>1, <1>4 DEF Ledger, Flows
<1>5. ASSUME NEW c \in Calls, NEW s \in {"RECEIVED", "CANCELLED"}, SetStatus(c, s)
      PROVE  Ledger(r)'
  BY <1>4, <1>5 DEF SetStatus, progress
<1>6. CASE Crash
  BY <1>4, <1>6 DEF Crash
<1>7. ASSUME NEW q \in Rows, Take(q) \/ Bring(q) PROVE Ledger(r)'
  <2>1. stock'[r] + taken'[r] = stock[r] + taken[r]
    BY <1>7 DEF Take, Bring, Inv, TypeOK
  <2>2. UNCHANGED <<route, outs, ins>>
    BY <1>7 DEF Take, Bring, progress
  <2> QED
    BY <2>1, <2>2, <1>4
<1>8. CASE UNCHANGED vars
  BY <1>4, <1>8 DEF vars, progress
<1> QED
  BY <1>2, <1>3, <1>5, <1>6, <1>7, <1>8 DEF Next, Step

LEMMA LedgerCorrect == Spec => [](LedgerInv /\ LinesInv)
<1>1. Init => LedgerInv /\ LinesInv
  BY LedgerInit DEF Init, LinesInv, LinesLeft
<1>2. Inv /\ LinesInv => LinesKnown
  BY LinesAreKnown
<1>3. Inv /\ LinesInv /\ [Next]_vars => LinesInv'
  BY LinesNext
<1>4. Inv /\ Inv' /\ LinesInv /\ LinesKnown /\ LinesKnown' /\ LedgerInv /\ [Next]_vars
         => LedgerInv'
  BY LedgerNext
<1> QED
  BY <1>1, <1>2, <1>3, <1>4, InvCorrect, PTL DEF Spec

-----------------------------------------------------------------------------
(* From the lines that were moved to the statuses of the transfers.        *)

\* What a received transfer has moved, if it lost nothing, is what its lines say.
LEMMA ReceivedFlow ==
    ASSUME Inv, LinesInv, NEW c \in Calls, NEW r,
           ~InProgress(c), marks[c] = {}, status[c] = "RECEIVED"
    PROVE  Flow(route[c], outs[c], ins[c], r) = Brought(c, r) - Removed(c, r)
<1> DEFINE S == 1 .. Len(Lines(c))
           G == Gains(route[c], r)
           L == Losses(route[c], r)
           g == [i \in S |-> IF Destination(c, i) = r THEN N(c, i) ELSE 0]
           l == [i \in S |-> IF Source(c, i) = r THEN N(c, i) ELSE 0]
<1>1. pc[c] = "ended" /\ outs[c] = S /\ ins[c] = S
  BY DEF Inv, CallInv, LinesMoved, Settled, Untouched, InProgress
<1>2. Len(Lines(c)) \in Nat
  BY <1>1 DEF LinesInv, LinesLeft, Route, Lines
<1>3. IsFiniteSet(S) /\ S \in SUBSET Nat
  BY <1>2, FS_Interval
<1>4. (\A i \in S : G[i] = g[i]) /\ (\A i \in S : L[i] = l[i])
  BY <1>2 DEF Gains, Losses, Destination, Source, N, Lines
<1>5. /\ Brought(c, r) = SumFunctionOnSet(g, S)
      /\ Removed(c, r) = SumFunctionOnSet(l, S)
  BY DEF Brought, Removed, SumFunction
<1> HIDE DEF G, L, g, l, S
<1>6. /\ SumFunctionOnSet(G, S) = SumFunctionOnSet(g, S)
      /\ SumFunctionOnSet(L, S) = SumFunctionOnSet(l, S)
  BY <1>3, <1>4, SumSame
<1>7. SumFunctionOnSet(G, S) - SumFunctionOnSet(L, S) = Brought(c, r) - Removed(c, r)
  BY <1>5, <1>6
<1> QED
  BY <1>1, <1>7 DEF Flow, G, L

LEMMA OtherFlow ==
    ASSUME Inv, NEW c \in Calls, NEW r,
           ~InProgress(c), marks[c] = {}, status[c] # "RECEIVED"
    PROVE  Flow(route[c], outs[c], ins[c], r) = 0
<1>1. outs[c] = {} /\ ins[c] = {}
  BY DEF Inv, CallInv, LinesMoved, Settled, Untouched, InProgress
<1> QED
  BY <1>1, FlowNone

\* A transfer of other rows changes nothing in row r, whatever it has lost, and its lines
\* say so.
LEMMA ElsewhereFlow ==
    ASSUME Inv, LinesInv, NEW c \in Calls, NEW r, ~Touches(c, r)
    PROVE  /\ Flow(route[c], outs[c], ins[c], r) = 0
           /\ status[c] = "RECEIVED" => Brought(c, r) - Removed(c, r) = 0
<1>1. CASE pc[c] = "idle"
  <2>1. outs[c] = {} /\ ins[c] = {} /\ status[c] # "RECEIVED"
    BY <1>1 DEF Inv, CallInv, LinesMoved, Untouched
  <2> QED
    BY <2>1, FlowNone
<1>2. CASE pc[c] # "idle"
  <2> DEFINE S == 1 .. Len(Lines(c))
             G == Gains(route[c], r)
             L == Losses(route[c], r)
             g == [i \in S |-> IF Destination(c, i) = r THEN N(c, i) ELSE 0]
             l == [i \in S |-> IF Source(c, i) = r THEN N(c, i) ELSE 0]
  <2>1. /\ Len(Lines(c)) \in Nat /\ route[c] # None
        /\ outs[c] \in SUBSET S /\ ins[c] \in SUBSET S
    BY <1>2, ConstantsAssumption DEF LinesInv, LinesLeft, Route, Lines
  <2>a. IsFiniteSet(S)
    BY <2>1, FS_Interval
  <2>2. IsFiniteSet(S) /\ IsFiniteSet(outs[c]) /\ IsFiniteSet(ins[c])
    BY <2>1, <2>a, FS_Subset
  <2>3. \A i \in S : Source(c, i) # r /\ Destination(c, i) # r
    BY <2>1 DEF Touches
  <2>4. \A i \in S : G[i] = 0 /\ L[i] = 0 /\ g[i] = 0 /\ l[i] = 0
    BY <2>1, <2>3 DEF Gains, Losses, Destination, Source, Lines
  <2>5. /\ Brought(c, r) = SumFunctionOnSet(g, S)
        /\ Removed(c, r) = SumFunctionOnSet(l, S)
    BY DEF Brought, Removed, SumFunction
  <2> HIDE DEF G, L, g, l, S
  <2>6. SumFunctionOnSet(g, S) = 0 /\ SumFunctionOnSet(l, S) = 0
    BY <2>2, <2>4, SumZero
  <2>7. SumFunctionOnSet(G, ins[c]) = 0 /\ SumFunctionOnSet(L, outs[c]) = 0
    BY <2>1, <2>2, <2>4, SumZero
  <2> QED
    BY <2>5, <2>6, <2>7 DEF Flow, G, L
<1> QED
  BY <1>1, <1>2

LEMMA LedgerFollows ==
    ASSUME Inv, LinesInv, LedgerInv
    PROVE  StockFollowsStatuses
<1> SUFFICES ASSUME NEW r \in Rows,
                    \A c \in Calls : Touches(c, r) => ~InProgress(c) /\ marks[c] = {}
             PROVE  stock[r] + taken[r] = Initial[r]
                      + SumFunction([c \in {d \in Calls : status[d] = "RECEIVED"} |->
                                       Brought(c, r) - Removed(c, r)])
  BY DEF StockFollowsStatuses
<1> DEFINE R == {d \in Calls : status[d] = "RECEIVED"}
           f == Flows(r)
           g == [c \in R |-> Brought(c, r) - Removed(c, r)]
<1>1. \A c \in R : f[c] = g[c]
  <2> SUFFICES ASSUME NEW c \in R
               PROVE  Flow(route[c], outs[c], ins[c], r) = Brought(c, r) - Removed(c, r)
    BY DEF Flows
  <2>1. CASE Touches(c, r)
    BY <2>1, ReceivedFlow
  <2>2. CASE ~Touches(c, r)
    BY <2>2, ElsewhereFlow
  <2> QED
    BY <2>1, <2>2
<1>2. \A c \in Calls \ R : f[c] = 0
  BY OtherFlow, ElsewhereFlow DEF Flows
<1>3. \A c \in Calls : f[c] \in Int
  BY LinesAreKnown, FlowInt DEF Flows, LinesKnown
<1>4. R \in SUBSET Calls /\ IsFiniteSet(R) /\ IsFiniteSet(Calls \ R) /\ IsFiniteSet(Calls)
  BY FiniteAssumption, FS_Subset
<1>5. stock[r] + taken[r] = Initial[r] + SumFunctionOnSet(f, Calls)
  BY DEF LedgerInv, Ledger
<1>6. SumFunction(g) = SumFunctionOnSet(g, R)
  BY DEF SumFunction
<1> HIDE DEF R, f, g
<1>7. SumFunctionOnSet(f, Calls) = SumFunctionOnSet(f, R) + SumFunctionOnSet(f, Calls \ R)
  BY <1>3, <1>4, SumPart
<1>8. SumFunctionOnSet(f, Calls \ R) = 0
  BY <1>2, <1>4, SumZero
<1>9. SumFunctionOnSet(f, R) = SumFunctionOnSet(g, R)
  BY <1>1, <1>4, SumSame
<1>10. SumFunctionOnSet(f, R) \in Int
  BY <1>3, <1>4, SumInt
<1>11. stock[r] + taken[r] = Initial[r] + SumFunction(g)
  BY <1>5, <1>6, <1>7, <1>8, <1>9, <1>10
<1> QED
  BY <1>11 DEF g, R

\* Once no transfer of a row is in progress, and unless one of them lost a step, the row
\* is what it held, less what other requests took out, changed by the lines of the
\* received transfers and by nothing else: for any number of transfers, lines and rows,
\* whatever transfers of other rows have lost, and however they interleave.
THEOREM StockFollowsStatusesCorrect == Spec => []StockFollowsStatuses
<1>1. Inv /\ LinesInv /\ LedgerInv => StockFollowsStatuses
  BY LedgerFollows
<1> QED
  BY <1>1, InvCorrect, LedgerCorrect, PTL

-----------------------------------------------------------------------------
(* What TransferEnds rests on besides fairness: a transfer that is SENT has a call at work *)
(* on it, and a call has only so many statements left.                     *)

\* A transfer that is SENT has a call in progress, unless its call was cut off or could
\* not write its last status.
SentHasCall ==
    \A c \in Calls :
        status[c] = "SENT" => InProgress(c) \/ marks[c] \cap {"cut", "unset"} # {}

\* No more than so many statements are left to a call, whatever fails from now on: every
\* line has still to be checked, to go out, to come in, and to be moved back by two more.
Left(c) ==
    LET n == Len(Lines(c)) IN
    CASE pc[c] = "check"   -> 5 * n + 5 - at[c]
      [] pc[c] = "out"     -> 4 * n + 5 - 2 * at[c]
      [] pc[c] = "in"      -> 4 * n + 4 - 2 * at[c]
      [] pc[c] = "undoOut" -> 2 * (at[c] - back[c]) + 1
      [] pc[c] = "undoIn"  -> 2 * (at[c] - back[c])
      [] OTHER             -> 0

Place(c) == <<pc[c], at[c], back[c]>>

LEMMA SentHasCallInit ==
    ASSUME Init PROVE SentHasCall
  BY DEF Init, SentHasCall

LEMMA SentHasCallNext ==
    ASSUME Inv, SentHasCall, [Next]_vars
    PROVE  SentHasCall'
<1>t. /\ pc \in [Calls -> {"idle", "check", "out", "in", "undoOut", "undoIn", "ended"}]
      /\ status \in [Calls -> {"NONE", "SENT", "RECEIVED", "CANCELLED"}]
      /\ marks \in [Calls -> SUBSET Marks]
  BY DEF Inv, TypeOK
<1> USE DEF SentHasCall, InProgress
<1>1. ASSUME NEW c \in Calls, UNCHANGED marks, pc'[c] \notin {"idle", "ended"},
             \A d \in Calls \ {c} : pc'[d] = pc[d] /\ status'[d] = status[d]
      PROVE  SentHasCall'
  BY <1>1
<1>2. ASSUME NEW c \in Calls,
             \/ Begin(c) \/ Create(c) \/ Out(c) \/ OutFails(c) \/ In(c)
             \/ UndoOut(c) \/ UndoIn(c)
      PROVE  SentHasCall'
  <2>1. /\ UNCHANGED marks /\ pc'[c] \notin {"idle", "ended"}
        /\ \A d \in Calls \ {c} : pc'[d] = pc[d] /\ status'[d] = status[d]
    BY <1>2, <1>t DEF Begin, Create, Out, OutFails, In, UndoOut, UndoIn, Goto
  <2> QED
    BY <2>1, <1>1
<1>3. ASSUME NEW c \in Calls, CheckLine(c) PROVE SentHasCall'
  <2>1. status'[c] = "NONE" /\ UNCHANGED <<status, marks>>
    BY <1>3 DEF CheckLine, Inv, CallInv, LinesMoved
  <2>2. \A d \in Calls \ {c} : pc'[d] = pc[d]
    BY <1>3, <1>t DEF CheckLine, Goto
  <2> QED
    BY <2>1, <2>2
<1>4. ASSUME NEW c \in Calls, Received(c) \/ Cancelled(c) PROVE SentHasCall'
  BY <1>4, <1>t DEF Received, Cancelled, Goto
<1>5. ASSUME NEW c \in Calls, InFails(c) \/ UndoOutFails(c) \/ UndoInFails(c)
      PROVE  SentHasCall'
  BY <1>5, <1>t DEF InFails, UndoOutFails, UndoInFails, Goto, Mark
<1>6. ASSUME NEW c \in Calls, StatusFails(c) PROVE SentHasCall'
  BY <1>6, <1>t DEF StatusFails, Goto, Mark
<1>7. ASSUME NEW c \in Calls, NEW s \in {"RECEIVED", "CANCELLED"}, SetStatus(c, s)
      PROVE  SentHasCall'
  BY <1>7, <1>t DEF SetStatus, progress, Mark
<1>8. CASE Crash
  BY <1>8, <1>t DEF Crash
<1>9. ASSUME NEW r \in Rows, Take(r) \/ Bring(r) PROVE SentHasCall'
  BY <1>9 DEF Take, Bring, progress
<1>10. CASE UNCHANGED vars
  BY <1>10 DEF vars, progress
<1> QED
  BY <1>2, <1>3, <1>4, <1>5, <1>6, <1>7, <1>8, <1>9, <1>10 DEF Next, Step

\* For any number of transfers, whatever fails and whoever writes a status by hand.
THEOREM SentHasCallCorrect == Spec => []SentHasCall
<1>1. Inv /\ SentHasCall /\ [Next]_vars => SentHasCall'
  BY SentHasCallNext
<1> QED
  BY <1>1, SentHasCallInit, InvCorrect, PTL DEF Spec

\* A statement of a call, one that fails included, leaves fewer to it.
LEMMA StepRunsOut ==
    ASSUME Inv, LinesInv, NEW c \in Calls,
           Step(c) \/ InFails(c) \/ UndoInFails(c) \/ StatusFails(c)
    PROVE  Left(c)' \in Nat /\ Left(c)' < Left(c)
<1> DEFINE n == Len(Lines(c))
<1>t. /\ pc \in [Calls -> {"idle", "check", "out", "in", "undoOut", "undoIn", "ended"}]
      /\ at \in [Calls -> Nat \ {0}] /\ back \in [Calls -> Nat \ {0}]
      /\ at[c] \in Nat \ {0} /\ back[c] \in Nat \ {0}
  BY DEF Inv, TypeOK
<1>0. /\ pc[c] \notin {"idle", "ended"} /\ Lines(c)' = Lines(c)
  BY DEF Step, CheckLine, Create, Out, OutFails, In, InFails, Received, UndoOut,
         UndoOutFails, UndoIn, UndoInFails, Cancelled, StatusFails, Lines
<1>1. n \in Nat
  BY <1>0, LinesOf
<1>l. AtALine(c) /\ LinesMoved(c)
  BY DEF Inv, CallInv
<1>2. CASE CheckLine(c)
  <2>1. /\ pc[c] = "check" /\ at[c] <= n
        /\ pc'[c] = "ended" \/ (pc'[c] = "check" /\ at'[c] = at[c] + 1)
    BY <1>2, <1>t DEF CheckLine, Goto, MoreLines
  <2> QED
    BY <2>1, <1>0, <1>1, <1>t DEF Left
<1>3. CASE Create(c)
  <2>1. pc[c] = "check" /\ pc'[c] = "out" /\ at'[c] = 1 /\ at[c] <= n + 1
    BY <1>3, <1>t, <1>l DEF Create, Goto, AtALine
  <2> QED
    BY <2>1, <1>0, <1>1, <1>t DEF Left
<1>4. CASE Out(c)
  <2>1. pc[c] = "out" /\ pc'[c] = "in" /\ at' = at /\ at[c] <= n
    BY <1>4, <1>t DEF Out, Goto, MoreLines
  <2> QED
    BY <2>1, <1>0, <1>1, <1>t DEF Left
<1>5. CASE In(c)
  <2>1. pc[c] = "in" /\ pc'[c] = "out" /\ at'[c] = at[c] + 1 /\ at[c] <= n
    BY <1>5, <1>t, <1>l DEF In, Goto, AtALine
  <2> QED
    BY <2>1, <1>0, <1>1, <1>t DEF Left
<1>6. CASE OutFails(c) \/ InFails(c)
  <2>1. /\ pc[c] \in {"out", "in"} /\ pc'[c] = "undoOut" /\ UNCHANGED <<at, back>>
        /\ at[c] <= n + 1
        /\ pc[c] = "in" => at[c] <= n
    BY <1>6, <1>1, <1>t, <1>l DEF OutFails, InFails, Goto, AtALine
  <2>2. back[c] = 1
    BY <2>1, <1>l DEF LinesMoved
  <2> QED
    BY <2>1, <2>2, <1>0, <1>1, <1>t DEF Left
<1>7. CASE UndoOut(c) \/ UndoOutFails(c)
  <2>1. pc[c] = "undoOut" /\ pc'[c] = "undoIn" /\ UNCHANGED <<at, back>> /\ back[c] < at[c]
    BY <1>7, <1>t DEF UndoOut, UndoOutFails, Goto, Applied
  <2> QED
    BY <2>1, <1>0, <1>1, <1>t DEF Left
<1>8. CASE UndoIn(c) \/ UndoInFails(c)
  <2>1. /\ pc[c] = "undoIn" /\ pc'[c] = "undoOut" /\ UNCHANGED at
        /\ back'[c] = back[c] + 1 /\ back[c] < at[c]
    BY <1>8, <1>t, <1>l DEF UndoIn, UndoInFails, Goto, AtALine
  <2> QED
    BY <2>1, <1>0, <1>1, <1>t DEF Left
<1>9. CASE Received(c) \/ Cancelled(c) \/ StatusFails(c)
  <2>1. pc[c] \in {"out", "undoOut"} /\ pc'[c] = "ended"
    BY <1>9, <1>t DEF Received, Cancelled, StatusFails, Goto
  <2>2. Left(c) \in Nat \ {0} /\ Left(c)' = 0
    BY <2>1, <1>0, <1>1, <1>t, <1>l DEF Left, AtALine
  <2> QED
    BY <2>2
<1> QED
  BY <1>2, <1>3, <1>4, <1>5, <1>6, <1>7, <1>8, <1>9 DEF Step

\* A restart leaves nothing to a call.
LEMMA CrashRunsOut ==
    ASSUME Inv, LinesInv, Crash, NEW c \in Calls, InProgress(c)
    PROVE  Left(c)' \in Nat /\ Left(c)' < Left(c)
<1>1. /\ pc[c] \in {"check", "out", "in", "undoOut", "undoIn"} /\ pc'[c] = "ended"
      /\ at[c] \in Nat \ {0} /\ back[c] \in Nat \ {0} /\ AtALine(c)
  BY DEF Crash, InProgress, Inv, TypeOK, CallInv
<1>2. Len(Lines(c)) \in Nat
  BY <1>1, LinesOf
<1>3. Left(c) \in Nat \ {0} /\ Left(c)' = 0
  BY <1>1, <1>2 DEF Left, AtALine
<1> QED
  BY <1>3

LEMMA NextRunsOut ==
    ASSUME Inv, LinesInv, [Next]_vars, NEW c \in Calls, InProgress(c)
    PROVE  Place(c)' = Place(c) \/ (Left(c)' \in Nat /\ Left(c)' < Left(c))
<1> DEFINE Goal == Place(c)' = Place(c) \/ (Left(c)' \in Nat /\ Left(c)' < Left(c))
<1>1. ASSUME NEW d \in Calls, Begin(d) PROVE Goal
  <2>1. d # c
    BY <1>1 DEF Begin, InProgress
  <2> QED
    BY <1>1, <2>1, OthersStay DEF StateOf, Place
<1>2. ASSUME NEW d \in Calls, Step(d) \/ InFails(d) \/ UndoInFails(d) \/ StatusFails(d)
      PROVE  Goal
  <2>1. CASE d = c
    BY <1>2, <2>1, StepRunsOut
  <2>2. CASE d # c
    BY <1>2, <2>2, OthersStay DEF StateOf, Place
  <2> QED
    BY <2>1, <2>2
<1>3. ASSUME UNCHANGED progress PROVE Goal
  BY <1>3 DEF progress, Place
<1>4. ASSUME NEW d \in Calls, NEW s \in {"RECEIVED", "CANCELLED"}, SetStatus(d, s)
      PROVE  Goal
  BY <1>3, <1>4 DEF SetStatus
<1>5. ASSUME Crash PROVE Goal
  BY <1>5, CrashRunsOut
<1>6. ASSUME NEW r \in Rows, Take(r) \/ Bring(r) PROVE Goal
  BY <1>3, <1>6 DEF Take, Bring
<1>7. ASSUME UNCHANGED vars PROVE Goal
  BY <1>3, <1>7 DEF vars
<1> HIDE DEF Goal
<1>8. Goal
  BY <1>1, <1>2, <1>4, <1>5, <1>6, <1>7 DEF Next
<1> QED
  BY <1>8 DEF Goal

\* Every statement of a call leaves it fewer, whatever fails and whatever the other calls
\* and requests do: at most 5n + 4 of them for n lines.  A compensation cannot begin again.
THEOREM CallsRunOut ==
    Spec => [][\A c \in Calls :
                  InProgress(c) =>
                      Place(c)' = Place(c) \/ (Left(c)' \in Nat /\ Left(c)' < Left(c))]_vars
<1>1. Inv /\ LinesInv /\ [Next]_vars =>
          [\A c \in Calls :
              InProgress(c) =>
                  Place(c)' = Place(c) \/ (Left(c)' \in Nat /\ Left(c)' < Left(c))]_vars
  BY NextRunsOut
<1> QED
  BY <1>1, InvCorrect, LedgerCorrect, PTL DEF Spec
=============================================================================
