------------------------------ MODULE Transfer ------------------------------
(***************************************************************************)
(* Transfers between the warehouses of one tenant.  A call of              *)
(* createTransfer checks all its lines, then moves them one after the      *)
(* other, an exit at the source and an entry at the destination, and when  *)
(* one fails moves the finished lines back.  Exits and entries are whole   *)
(* stock operations of StockTransactions (StockIsAtomic), each with a      *)
(* transaction of its own; between two of them other requests move the     *)
(* same rows, and anything may fail.                                       *)
(***************************************************************************)
EXTENDS Integers, Sequences, FiniteSets, Functions

CONSTANTS
    Calls,     \* the calls of createTransfer, and the transfers they create
    Places,    \* the warehouses
    Items,     \* the products
    Initial,   \* Initial[p, x]: quantity of x in p before the first call
    Carts,     \* the sequences of lines a client may send
    Faults,    \* what may go wrong besides a stock that is too low
    None       \* no request

Line == [item : Items, n : Nat \ {0}]
Rows == Places \X Items

\* CreateTransferDto
Route == [from : Places, to : Places, lines : Seq(Line)]

ASSUME ConstantsAssumption ==
    /\ Initial \in [Rows -> Nat]
    /\ \A c \in Carts : c \in Seq(Line)
    /\ Faults \subseteq {"error", "crash"}
    /\ None \notin Route

\* Only so many requests are ever sent.
ASSUME FiniteAssumption == IsFiniteSet(Calls)

VARIABLES
    stock,           \* the quantity of each row
    taken,           \* history: units other requests took out of each row
    status,          \* status of the transfer of each call
    pc, route, at,   \* of each call: next statement, request, current line
    back,            \* the line the compensation of a call is at
    outs, ins,       \* history: lines out of the source, in at the destination
    marks            \* history: which of Marks have happened to each call

progress == <<pc, route, at, back>>
vars == <<stock, taken, status, progress, outs, ins, marks>>

\* The entry of a line failed after its exit; a step of the compensation failed
\* and was swallowed; the call was cut off; the last status could not be
\* written; somebody else wrote the status.
Marks == {"half", "swallowed", "cut", "unset", "overridden"}

TypeOK ==
    /\ stock \in [Rows -> Nat]
    /\ taken \in [Rows -> Int]
    /\ status \in [Calls -> {"NONE", "SENT", "RECEIVED", "CANCELLED"}]
    /\ pc \in [Calls -> {"idle", "check", "out", "in", "undoOut", "undoIn", "ended"}]
    /\ route \in [Calls -> Route \cup {None}]
    /\ \A c \in Calls : pc[c] \notin {"idle", "ended"} => route[c] \in Route
    /\ at \in [Calls -> Nat \ {0}]
    /\ back \in [Calls -> Nat \ {0}]
    /\ outs \in [Calls -> SUBSET Nat]
    /\ ins \in [Calls -> SUBSET Nat]
    /\ marks \in [Calls -> SUBSET Marks]

Init ==
    /\ stock = Initial
    /\ taken = [r \in Rows |-> 0]
    /\ status = [c \in Calls |-> "NONE"]
    /\ pc = [c \in Calls |-> "idle"]
    /\ route = [c \in Calls |-> None]
    /\ at = [c \in Calls |-> 1]
    /\ back = [c \in Calls |-> 1]
    /\ outs = [c \in Calls |-> {}]
    /\ ins = [c \in Calls |-> {}]
    /\ marks = [c \in Calls |-> {}]

-----------------------------------------------------------------------------

Goto(c, label) == pc' = [pc EXCEPT ![c] = label]

Mark(c, m) == marks' = [marks EXCEPT ![c] = @ \cup {m}]

Lines(c) == route[c].lines
Source(c, i) == <<route[c].from, Lines(c)[i].item>>
Destination(c, i) == <<route[c].to, Lines(c)[i].item>>
N(c, i) == Lines(c)[i].n

\* Line at[c] is still to be moved.
MoreLines(c) == at[c] <= Len(Lines(c))

\* The statement fails although the stock would do.
Error == "error" \in Faults

\* createTransfer: the two warehouses differ.
Begin(c) ==
    /\ pc[c] = "idle"
    /\ \E from, to \in Places, lines \in Carts :
         /\ from # to
         /\ route' = [route EXCEPT ![c] = [from |-> from, to |-> to, lines |-> lines]]
    /\ Goto(c, "check")
    /\ UNCHANGED <<stock, taken, status, at, back, outs, ins, marks>>

\* The availability of all lines is looked at before anything moves.
CheckLine(c) ==
    /\ pc[c] = "check" /\ MoreLines(c)
    /\ IF stock[Source(c, at[c])] >= N(c, at[c])
       THEN at' = [at EXCEPT ![c] = @ + 1] /\ UNCHANGED pc
       ELSE Goto(c, "ended") /\ UNCHANGED at
    /\ UNCHANGED <<stock, taken, status, route, back, outs, ins, marks>>

Create(c) ==
    /\ pc[c] = "check" /\ ~MoreLines(c)
    /\ status' = [status EXCEPT ![c] = "SENT"]
    /\ at' = [at EXCEPT ![c] = 1]
    /\ Goto(c, "out")
    /\ UNCHANGED <<stock, taken, route, back, outs, ins, marks>>

\* Mutant of OutFits: the exit is not guarded.
OutUnguarded(r, n) == TRUE

\* stockOut of n units of row r succeeds: its update is guarded by the quantity.
OutFits(r, n) == stock[r] >= n

Out(c) ==
    /\ pc[c] = "out" /\ MoreLines(c)
    /\ LET r == Source(c, at[c])  n == N(c, at[c]) IN
         /\ OutFits(r, n)
         /\ stock' = [stock EXCEPT ![r] = @ - n]
    /\ outs' = [outs EXCEPT ![c] = @ \cup {at[c]}]
    /\ Goto(c, "in")
    /\ UNCHANGED <<taken, status, route, at, back, ins, marks>>

\* The exit of a line throws: the compensation begins with the first line.
OutFails(c) ==
    /\ pc[c] = "out" /\ MoreLines(c)
    /\ Error \/ ~OutFits(Source(c, at[c]), N(c, at[c]))
    /\ Goto(c, "undoOut")
    /\ UNCHANGED <<stock, taken, status, route, at, back, outs, ins, marks>>

\* The entry at the destination, and the line is pushed on applied.
In(c) ==
    /\ pc[c] = "in"
    /\ stock' = [stock EXCEPT ![Destination(c, at[c])] = @ + N(c, at[c])]
    /\ ins' = [ins EXCEPT ![c] = @ \cup {at[c]}]
    /\ at' = [at EXCEPT ![c] = @ + 1]
    /\ Goto(c, "out")
    /\ UNCHANGED <<taken, status, route, back, outs, marks>>

InFails(c) ==
    /\ Error
    /\ pc[c] = "in"
    /\ Mark(c, "half")
    /\ Goto(c, "undoOut")
    /\ UNCHANGED <<stock, taken, status, route, at, back, outs, ins>>

Received(c) ==
    /\ pc[c] = "out" /\ ~MoreLines(c)
    /\ status' = [status EXCEPT ![c] = "RECEIVED"]
    /\ Goto(c, "ended")
    /\ UNCHANGED <<stock, taken, route, at, back, outs, ins, marks>>

\* Mutants of Applied: the last line that was moved is forgotten; the line that
\* failed is taken for one that was moved.
AppliedButLast(c, i) == i + 1 < at[c]
AppliedAndFailed(c, i) == i <= at[c] /\ i <= Len(Lines(c))

\* Line i is on the list of applied lines.
Applied(c, i) == i < at[c]

\* The compensation takes the line out of the destination ...
UndoOut(c) ==
    /\ pc[c] = "undoOut" /\ Applied(c, back[c])
    /\ LET r == Destination(c, back[c])  n == N(c, back[c]) IN
         /\ OutFits(r, n)
         /\ stock' = [stock EXCEPT ![r] = @ - n]
    /\ ins' = [ins EXCEPT ![c] = @ \ {back[c]}]
    /\ Goto(c, "undoIn")
    /\ UNCHANGED <<taken, status, route, at, back, outs, marks>>

\* ... or fails to, and goes on all the same ...
UndoOutFails(c) ==
    /\ pc[c] = "undoOut" /\ Applied(c, back[c])
    /\ Error \/ ~OutFits(Destination(c, back[c]), N(c, back[c]))
    /\ Mark(c, "swallowed")
    /\ Goto(c, "undoIn")
    /\ UNCHANGED <<stock, taken, status, route, at, back, outs, ins>>

\* ... and puts it back into the source.
UndoIn(c) ==
    /\ pc[c] = "undoIn"
    /\ stock' = [stock EXCEPT ![Source(c, back[c])] = @ + N(c, back[c])]
    /\ outs' = [outs EXCEPT ![c] = @ \ {back[c]}]
    /\ back' = [back EXCEPT ![c] = @ + 1]
    /\ Goto(c, "undoOut")
    /\ UNCHANGED <<taken, status, route, at, ins, marks>>

UndoInFails(c) ==
    /\ Error
    /\ pc[c] = "undoIn"
    /\ Mark(c, "swallowed")
    /\ back' = [back EXCEPT ![c] = @ + 1]
    /\ Goto(c, "undoOut")
    /\ UNCHANGED <<stock, taken, status, route, at, outs, ins>>

\* Mutant of Cancelled: the error is thrown without cancelling the transfer.
CancelledSilently(c) ==
    /\ pc[c] = "undoOut" /\ ~Applied(c, back[c])
    /\ Goto(c, "ended")
    /\ UNCHANGED <<stock, taken, status, route, at, back, outs, ins, marks>>

Cancelled(c) ==
    /\ pc[c] = "undoOut" /\ ~Applied(c, back[c])
    /\ status' = [status EXCEPT ![c] = "CANCELLED"]
    /\ Goto(c, "ended")
    /\ UNCHANGED <<stock, taken, route, at, back, outs, ins, marks>>

\* The last update of the transfer fails: swallowed after a compensation, thrown
\* after a complete transfer.
StatusFails(c) ==
    /\ Error
    /\ \/ pc[c] = "out" /\ ~MoreLines(c)
       \/ pc[c] = "undoOut" /\ ~Applied(c, back[c])
    /\ Mark(c, "unset")
    /\ Goto(c, "ended")
    /\ UNCHANGED <<stock, taken, status, route, at, back, outs, ins>>

\* receiveTransfer and cancelTransfer write the status whatever it was.
SetStatus(c, s) ==
    /\ status[c] # "NONE"
    /\ status' = [status EXCEPT ![c] = s]
    /\ Mark(c, "overridden")
    /\ UNCHANGED <<stock, taken, progress, outs, ins>>

InProgress(c) == pc[c] \notin {"idle", "ended"}

\* The API process is restarted, and the calls it served are gone.
Crash ==
    /\ "crash" \in Faults
    /\ pc' = [c \in Calls |-> IF InProgress(c) THEN "ended" ELSE pc[c]]
    /\ marks' = [c \in Calls |-> IF InProgress(c) THEN marks[c] \cup {"cut"} ELSE marks[c]]
    /\ UNCHANGED <<stock, taken, status, route, at, back, outs, ins>>

\* Another request sells a unit of row r, or takes one back.
Take(r) ==
    /\ stock[r] > 0
    /\ stock' = [stock EXCEPT ![r] = @ - 1]
    /\ taken' = [taken EXCEPT ![r] = @ + 1]
    /\ UNCHANGED <<status, progress, outs, ins, marks>>

Bring(r) ==
    /\ taken[r] > 0
    /\ stock' = [stock EXCEPT ![r] = @ + 1]
    /\ taken' = [taken EXCEPT ![r] = @ - 1]
    /\ UNCHANGED <<status, progress, outs, ins, marks>>

Step(c) ==
    \/ CheckLine(c) \/ Create(c) \/ Out(c) \/ OutFails(c) \/ In(c) \/ Received(c)
    \/ UndoOut(c) \/ UndoOutFails(c) \/ UndoIn(c) \/ Cancelled(c)

Next ==
    \/ \E c \in Calls : Begin(c) \/ Step(c) \/ InFails(c) \/ UndoInFails(c) \/ StatusFails(c)
    \/ \E c \in Calls, s \in {"RECEIVED", "CANCELLED"} : SetStatus(c, s)
    \/ Crash
    \/ \E r \in Rows : Take(r) \/ Bring(r)

Spec == Init /\ [][Next]_vars

\* Node and Postgres go on with a call in progress; nothing makes a client send
\* a request or a statement fail.
FairSpec == Spec /\ \A c \in Calls : WF_vars(Step(c))

-----------------------------------------------------------------------------
(* Properties.                                                             *)

\* Units the lines of a transfer bring into row r, and those they take out of it.
Brought(c, r) ==
    SumFunction([i \in 1 .. Len(Lines(c)) |-> IF Destination(c, i) = r THEN N(c, i) ELSE 0])

Removed(c, r) ==
    SumFunction([i \in 1 .. Len(Lines(c)) |-> IF Source(c, i) = r THEN N(c, i) ELSE 0])

\* Row r is at an end of a line of call c.
Touches(c, r) ==
    /\ route[c] # None
    /\ \E i \in 1 .. Len(Lines(c)) : r \in {Source(c, i), Destination(c, i)}

\* While no transfer of a row is in progress and none of them lost a step, the row is
\* what the received transfers, and they alone, made of it besides other requests: a
\* transfer that was cancelled has left every row as it found it, one that lost a step
\* has spoilt no rows but its own, however many transfers and sales were competing.
StockFollowsStatuses ==
    \A r \in Rows :
        (\A c \in Calls : Touches(c, r) => ~InProgress(c) /\ marks[c] = {}) =>
            stock[r] + taken[r] = Initial[r]
              + SumFunction([c \in {d \in Calls : status[d] = "RECEIVED"} |->
                               Brought(c, r) - Removed(c, r)])

\* A call that has ended and lost no step has moved all of its lines or none, and
\* its transfer says which.
AllOrNothing ==
    \A c \in Calls : pc[c] = "ended" /\ marks[c] = {} =>
        \/ /\ status[c] = "RECEIVED"
           /\ outs[c] = 1 .. Len(Lines(c)) /\ ins[c] = outs[c]
        \/ /\ status[c] \in {"NONE", "CANCELLED"}
           /\ outs[c] = {} /\ ins[c] = {}

\* A transfer does not stay SENT: it is received or cancelled in the end, unless
\* its call is cut off or cannot write its last status.
TransferEnds ==
    \A c \in Calls :
        status[c] = "SENT" ~> status[c] # "SENT" \/ marks[c] \cap {"cut", "unset"} # {}
=============================================================================
