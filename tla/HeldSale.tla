------------------------------ MODULE HeldSale ------------------------------
(***************************************************************************)
(* One held sale ("vente en attente") of the point of sale, its lock and   *)
(* its finalization, under concurrent calls of several cashier sessions.   *)
(*                                                                         *)
(* A call reads the row, decides on what it read, and writes the row in a  *)
(* later statement; the writes of claim and finalize are conditional       *)
(* updates (updateMany with the status in the WHERE clause), those of      *)
(* release and delete are not.  A call that is refused changes nothing and *)
(* is not modelled.                                                        *)
(*                                                                         *)
(* Time is abstracted to whether the claim has expired.  The cart is left  *)
(* out, and with it the update of the cart of an existing held sale: the   *)
(* finalization sells the items the client sends with it.                  *)
(*                                                                         *)
(* Several names begin with Held: the proofs extend this module together   *)
(* with OfflineSync.                                                       *)
(***************************************************************************)
EXTENDS Integers, Sequences

CONSTANTS
    Calls,      \* the calls the API may be serving at one time
    Sessions,   \* the authenticated sessions
    Managers,   \* the sessions of an owner, an administrator or a manager
    Keys,       \* the idempotency keys the clients make up
    Ops,        \* the operations in use besides save, claim and finalize
    HeldFaults, \* what may go wrong besides a refused sale
    MaxSales,   \* bound: no sale is rung up after that many
    Nothing     \* no session, no key

ASSUME HeldAssumption ==
    /\ Managers \subseteq Sessions
    /\ Ops \subseteq {"release", "delete"}
    /\ HeldFaults \subseteq {"crash", "late"}
    /\ MaxSales \in Nat
    /\ Nothing \notin Sessions \cup Keys

VARIABLES
    row,      \* the HeldSale row
    sales,    \* the keys of the calls whose sale has been committed
    pc,       \* what each call has to do next
    session,  \* the session each call was made with
    key,      \* the idempotency key of each finalize call
    mine,     \* the sale each finalize call has committed, 0 before
    marks     \* history: which of Marks have happened so far

call == <<pc, session, key, mine>>
heldVars == <<row, sales, call, marks>>

HeldStatuses == {"NONE", "AVAILABLE", "CLAIMED", "FINALIZING", "COMPLETED", "CANCELLED"}

\* A call was cut off before it could write the row; a call failed after the
\* commit of its sale; a release was overtaken by a finalization or a deletion.
Marks == {"cut", "late", "overtaken"}

(***************************************************************************)
(* by and expired are claimedBySessionId and whether claimExpiresAt is in  *)
(* the past, key is finalizeIdempotencyKey, sale is finalizedSaleId (the   *)
(* index of a sale, 0 for none).                                           *)
(***************************************************************************)
Row == [status : HeldStatuses, by : Sessions \cup {Nothing}, expired : BOOLEAN,
        key : Keys \cup {Nothing}, sale : Nat]

CallTypeOK ==
    /\ pc \in [Calls -> {"idle", "release", "delete", "lock", "sell", "sold", "undo"}]
    /\ session \in [Calls -> Sessions \cup {Nothing}]
    /\ key \in [Calls -> Keys \cup {Nothing}]
    /\ mine \in [Calls -> Nat]
    /\ \A c \in Calls : pc[c] \in {"lock", "sell", "sold", "undo"} => key[c] \in Keys

HeldTypeOK ==
    /\ row \in Row
    /\ sales \in Seq(Keys)
    /\ CallTypeOK
    /\ marks \subseteq Marks

HeldInit ==
    /\ row = [status |-> "NONE", by |-> Nothing, expired |-> FALSE, key |-> Nothing, sale |-> 0]
    /\ sales = <<>>
    /\ pc = [c \in Calls |-> "idle"]
    /\ session = [c \in Calls |-> Nothing]
    /\ key = [c \in Calls |-> Nothing]
    /\ mine = [c \in Calls |-> 0]
    /\ marks = {}

-----------------------------------------------------------------------------

\* isActiveLockOwnedByAnotherSession
LockedByOther(s) == row.status = "CLAIMED" /\ row.by \notin {s, Nothing} /\ ~row.expired

Goto(c, label) == pc' = [pc EXCEPT ![c] = label]

\* A call of session s passes its first checks and goes on to its write.
Start(c, s, label) ==
    /\ pc[c] = "idle"
    /\ Goto(c, label)
    /\ session' = [session EXCEPT ![c] = s]

\* The call ends: nothing of it is left.
Return(c) ==
    /\ Goto(c, "idle")
    /\ session' = [session EXCEPT ![c] = Nothing]
    /\ key' = [key EXCEPT ![c] = Nothing]
    /\ mine' = [mine EXCEPT ![c] = 0]

\* saveHeldSale without an existing row.
SaveHeldSale ==
    /\ row.status = "NONE"
    /\ row' = [row EXCEPT !.status = "AVAILABLE"]
    /\ UNCHANGED <<sales, call, marks>>

\* claimHeldSale: one conditional update.
Claim(s) ==
    /\ \/ row.status = "AVAILABLE"
       \/ row.status = "CLAIMED" /\ (row.expired \/ row.by = s)
    /\ row' = [row EXCEPT !.status = "CLAIMED", !.by = s, !.expired = FALSE]
    /\ UNCHANGED <<sales, call, marks>>

\* claimExpiresAt passes.
Expire ==
    /\ row.by # Nothing /\ ~row.expired
    /\ row' = [row EXCEPT !.expired = TRUE]
    /\ UNCHANGED <<sales, call, marks>>

Forces(s) == s \in Managers

\* releaseHeldSale: the checks on the row as it is read.
Release(c, s) ==
    /\ "release" \in Ops
    /\ row.status \in {"AVAILABLE", "CLAIMED"}
    /\ ~LockedByOther(s) \/ Forces(s)
    /\ Start(c, s, "release")
    /\ UNCHANGED <<row, sales, key, mine, marks>>

\* Mutant of ReleaseWrite: a status the schema does not have.
ReleaseToUnknownStatus(c) ==
    /\ pc[c] = "release"
    /\ row' = [row EXCEPT !.status = "RELEASED", !.by = Nothing, !.expired = FALSE]
    /\ Return(c)
    /\ UNCHANGED <<sales, marks>>

Overtaken == row.status \notin {"AVAILABLE", "CLAIMED"}

\* ... and its update, by id alone.
ReleaseWrite(c) ==
    /\ pc[c] = "release"
    /\ row' = [row EXCEPT !.status = "AVAILABLE", !.by = Nothing, !.expired = FALSE]
    /\ marks' = IF Overtaken THEN marks \cup {"overtaken"} ELSE marks
    /\ Return(c)
    /\ UNCHANGED sales

\* deleteHeldSale: a completed held sale may be deleted too.
Delete(c, s) ==
    /\ "delete" \in Ops
    /\ row.status \in {"AVAILABLE", "CLAIMED", "COMPLETED"}
    /\ ~LockedByOther(s) \/ Forces(s)
    /\ Start(c, s, "delete")
    /\ UNCHANGED <<row, sales, key, mine, marks>>

DeleteWrite(c) ==
    /\ pc[c] = "delete"
    /\ row' = [row EXCEPT !.status = "CANCELLED", !.by = Nothing, !.expired = FALSE]
    /\ Return(c)
    /\ UNCHANGED <<sales, marks>>

\* finalizeHeldSale: not of a cancelled held sale, nor of one that another
\* session holds, nor again of the one this key has completed.
Finalize(c, s, k) ==
    /\ row.status \notin {"NONE", "CANCELLED"}
    /\ ~(row.status = "COMPLETED" /\ row.sale # 0 /\ row.key = k)
    /\ ~LockedByOther(s)
    /\ Start(c, s, "lock")
    /\ key' = [key EXCEPT ![c] = k]
    /\ UNCHANGED <<row, sales, mine, marks>>

\* Mutant of Lockable: the claim is looked at without the status.
LockableByClaim(s) == row.by = s

Lockable(s) == row.status = "CLAIMED" /\ row.by = s

\* Mutant of Lock: the key is not written to the row.
LockWithoutKey(c) ==
    /\ pc[c] = "lock" /\ Lockable(session[c])
    /\ row' = [row EXCEPT !.status = "FINALIZING"]
    /\ Goto(c, "sell")
    /\ UNCHANGED <<sales, session, key, mine, marks>>

Lock(c) ==
    /\ pc[c] = "lock" /\ Lockable(session[c])
    /\ row' = [row EXCEPT !.status = "FINALIZING", !.key = key[c]]
    /\ Goto(c, "sell")
    /\ UNCHANGED <<sales, session, key, mine, marks>>

\* The conditional update matched no row: the call answers with a conflict, or
\* with the sale its key has completed meanwhile.
LockRefused(c) ==
    /\ pc[c] = "lock" /\ ~Lockable(session[c])
    /\ Return(c)
    /\ UNCHANGED <<row, sales, marks>>

\* SalesService.create commits the sale.
Sell(c) ==
    /\ pc[c] = "sell" /\ Len(sales) < MaxSales
    /\ sales' = Append(sales, key[c])
    /\ mine' = [mine EXCEPT ![c] = Len(sales) + 1]
    /\ Goto(c, "sold")
    /\ UNCHANGED <<row, session, key, marks>>

\* SalesService.create throws and its transaction is undone.
SellFails(c) ==
    /\ pc[c] = "sell"
    /\ Goto(c, "undo")
    /\ UNCHANGED <<row, sales, session, key, mine, marks>>

\* A statement after the commit of the sale throws: the reads that end
\* SalesService.create, or the update that completes the row.
LateFailure(c) ==
    /\ "late" \in HeldFaults
    /\ pc[c] = "sold"
    /\ marks' = marks \cup {"late"}
    /\ Goto(c, "undo")
    /\ UNCHANGED <<row, sales, session, key, mine>>

\* The row is completed, by id alone.
Complete(c) ==
    /\ pc[c] = "sold"
    /\ row' = [row EXCEPT !.status = "COMPLETED", !.sale = mine[c],
                          !.by = Nothing, !.expired = FALSE]
    /\ Return(c)
    /\ UNCHANGED <<sales, marks>>

\* Mutant of Undo: the error is thrown without giving the claim back.
UndoNothing(c) ==
    /\ pc[c] = "undo"
    /\ Return(c)
    /\ UNCHANGED <<row, sales, marks>>

\* The catch block gives the claim back, with a new expiry.
Undo(c) ==
    /\ pc[c] = "undo"
    /\ row' = IF row.status = "FINALIZING" /\ row.key = key[c]
              THEN [row EXCEPT !.status = "CLAIMED", !.expired = FALSE]
              ELSE row
    /\ Return(c)
    /\ UNCHANGED <<sales, marks>>

\* The API process is restarted, and the calls it served are gone.
Crash ==
    /\ "crash" \in HeldFaults
    /\ marks' = marks \cup {"cut"}
    /\ pc' = [c \in Calls |-> "idle"]
    /\ session' = [c \in Calls |-> Nothing]
    /\ key' = [c \in Calls |-> Nothing]
    /\ mine' = [c \in Calls |-> 0]
    /\ UNCHANGED <<row, sales>>

\* The update of the catch block fails too, and its error is swallowed.
UndoLost(c) ==
    /\ "crash" \in HeldFaults
    /\ pc[c] = "undo"
    /\ Return(c)
    /\ marks' = marks \cup {"cut"}
    /\ UNCHANGED <<row, sales>>

Arrive(c, s) ==
    \/ Release(c, s)
    \/ Delete(c, s)
    \/ \E k \in Keys : Finalize(c, s, k)

Step(c) ==
    \/ ReleaseWrite(c) \/ DeleteWrite(c)
    \/ Lock(c) \/ LockRefused(c)
    \/ Sell(c) \/ SellFails(c) \/ Complete(c) \/ Undo(c)

HeldNext ==
    \/ SaveHeldSale
    \/ \E s \in Sessions : Claim(s)
    \/ Expire
    \/ \E c \in Calls, s \in Sessions : Arrive(c, s)
    \/ \E c \in Calls : Step(c) \/ LateFailure(c) \/ UndoLost(c)
    \/ Crash

HeldSpec == HeldInit /\ [][HeldNext]_heldVars

\* Node and Postgres go on with a call in progress; nothing makes a cashier
\* call, a claim expire or the process fail.
HeldFairSpec == HeldSpec /\ \A c \in Calls : WF_heldVars(Step(c))

-----------------------------------------------------------------------------
(* Properties.                                                             *)

\* However many sessions claim, release, delete and finalize, a held sale is rung
\* up at most once: one stock exit, one invoice and one payment for one basket.
AtMostOneSale == Len(sales) <= 1

\* A client that repeats a finalize call with the same idempotency key, because
\* the first one was answered with an error, does not get a second sale.
KeySellsOnce == \A i, j \in DOMAIN sales : sales[i] = sales[j] => i = j

\* No finalization has been undone after its lock by a release, nor after its
\* sale by an error.
NothingUndone == marks \subseteq {"cut"}

\* The lock protects a held sale against everything else: concurrent claims,
\* finalizations, forced or timely releases, deletions and restarts.
OneSaleUnlessUndone == NothingUndone => AtMostOneSale

\* A completed held sale names the sale that was rung up for it and the key of
\* the call that did, so that a repeated call is answered with that sale.
CompletedNamesItsSale ==
    NothingUndone /\ row.status = "COMPLETED" =>
        /\ row.sale \in DOMAIN sales
        /\ row.key = sales[row.sale]

\* A finalization does not stay in progress: the held sale is completed or can
\* be claimed again, unless the call was cut off before it could write the row.
FinalizationEnds == row.status = "FINALIZING" ~> (row.status # "FINALIZING" \/ "cut" \in marks)
=============================================================================
