------------------------- MODULE PointOfSale_proofs -------------------------
(***************************************************************************)
(* Proofs about the two ways the point of sale rings up a sale: a held     *)
(* sale that is finalized (HeldSale) and a sale without a connection that  *)
(* is synchronized (OfflineSync), for every number of users, sessions,     *)
(* calls, pages, requests, sales, losses and errors.                       *)
(*                                                                         *)
(* Until a finalization is undone by a release or after its sale, a held   *)
(* sale is rung up at most once and names its sale once completed.  A sale *)
(* shown as synchronized is recorded at the server.  As long as nobody     *)
(* else signs in the synchronization implements ExactlyOnce, and the       *)
(* device rings up no more than the server had unless a catalogue is       *)
(* loaded across a synchronization.                                        *)
(***************************************************************************)
EXTENDS HeldSale, OfflineSync, Sums

(***************************************************************************)
(* Held sales.                                                             *)
(***************************************************************************)
(***************************************************************************)
(* Type correctness.                                                       *)
(***************************************************************************)

\* A call that moves on, with a key where one is needed, is well typed.
LEMMA GotoTyped ==
    ASSUME HeldTypeOK, NEW c \in Calls,
           NEW l \in {"release", "delete", "lock", "sell", "sold", "undo"},
           Goto(c, l), session' = session, key' = key, mine' \in [Calls -> Nat],
           l \in {"lock", "sell", "sold", "undo"} => key[c] \in Keys
    PROVE  CallTypeOK'
  BY DEF HeldTypeOK, CallTypeOK, Goto

LEMMA StartTyped ==
    ASSUME HeldTypeOK, NEW c \in Calls, NEW s \in Sessions,
           NEW l \in {"release", "delete"},
           Start(c, s, l), key' = key, mine' = mine
    PROVE  CallTypeOK'
  BY DEF HeldTypeOK, CallTypeOK, Start, Goto

LEMMA ReturnTyped ==
    ASSUME HeldTypeOK, NEW c \in Calls, Return(c)
    PROVE  CallTypeOK'
  BY DEF HeldTypeOK, CallTypeOK, Return, Goto

\* What the calls write is a row.
LEMMA RowTyped ==
    ASSUME row \in Row, NEW st \in HeldStatuses, NEW s \in Sessions \cup {Nothing},
           NEW e \in BOOLEAN, NEW k \in Keys \cup {Nothing}, NEW n \in Nat
    PROVE  /\ [row EXCEPT !.status = st] \in Row
           /\ [row EXCEPT !.expired = e] \in Row
           /\ [row EXCEPT !.status = st, !.expired = e] \in Row
           /\ [row EXCEPT !.status = st, !.key = k] \in Row
           /\ [row EXCEPT !.status = st, !.by = s, !.expired = e] \in Row
           /\ [row EXCEPT !.status = st, !.sale = n, !.by = s, !.expired = e] \in Row
  BY DEF Row

LEMMA InitTyped ==
    ASSUME HeldInit
    PROVE  HeldTypeOK
<1>1. row \in Row
  BY DEF HeldInit, Row, HeldStatuses
<1>2. CallTypeOK
  BY DEF HeldInit, CallTypeOK
<1>3. <<>> \in Seq(Keys)
  OBVIOUS
<1> QED
  BY <1>1, <1>2, <1>3 DEF HeldInit, HeldTypeOK

\* The state has its type in every reachable state.
THEOREM HeldTypeCorrect == HeldSpec => []HeldTypeOK
<1>1. HeldInit => HeldTypeOK
  BY InitTyped
<1>2. HeldTypeOK /\ [HeldNext]_heldVars => HeldTypeOK'
  <2> SUFFICES ASSUME HeldTypeOK, [HeldNext]_heldVars
               PROVE  HeldTypeOK'
    OBVIOUS
  <2>1. CASE SaveHeldSale
    BY <2>1, RowTyped DEF SaveHeldSale, call, HeldTypeOK, CallTypeOK, HeldStatuses
  <2>2. ASSUME NEW s \in Sessions, Claim(s)
        PROVE  HeldTypeOK'
    BY <2>2, RowTyped DEF Claim, call, HeldTypeOK, CallTypeOK, HeldStatuses
  <2>3. CASE Expire
    <3>1. [row EXCEPT !.expired = TRUE] \in Row
      BY DEF HeldTypeOK, Row
    <3> QED
      BY <2>3, <3>1 DEF Expire, call, HeldTypeOK, CallTypeOK
  <2>4. ASSUME NEW c \in Calls, NEW s \in Sessions, Release(c, s)
        PROVE  HeldTypeOK'
    BY <2>4, StartTyped DEF Release, HeldTypeOK
  <2>5. ASSUME NEW c \in Calls, NEW s \in Sessions, Delete(c, s)
        PROVE  HeldTypeOK'
    BY <2>5, StartTyped DEF Delete, HeldTypeOK
  <2>6. ASSUME NEW c \in Calls, NEW s \in Sessions, NEW k \in Keys, Finalize(c, s, k)
        PROVE  HeldTypeOK'
    BY <2>6 DEF Finalize, Start, Goto, HeldTypeOK, CallTypeOK
  <2>7. ASSUME NEW c \in Calls, ReleaseWrite(c)
        PROVE  HeldTypeOK'
    BY <2>7, ReturnTyped, RowTyped DEF ReleaseWrite, HeldTypeOK, HeldStatuses, Marks
  <2>8. ASSUME NEW c \in Calls, DeleteWrite(c)
        PROVE  HeldTypeOK'
    BY <2>8, ReturnTyped, RowTyped DEF DeleteWrite, HeldTypeOK, HeldStatuses
  <2>9. ASSUME NEW c \in Calls, Lock(c)
        PROVE  HeldTypeOK'
    <3>1. key[c] \in Keys
      BY <2>9 DEF Lock, HeldTypeOK, CallTypeOK
    <3>2. CallTypeOK'
      BY <2>9, <3>1, GotoTyped DEF Lock, HeldTypeOK, CallTypeOK
    <3> QED
      BY <2>9, <3>1, <3>2, RowTyped DEF Lock, HeldTypeOK, HeldStatuses
  <2>10. ASSUME NEW c \in Calls, LockRefused(c)
         PROVE  HeldTypeOK'
    BY <2>10, ReturnTyped DEF LockRefused, HeldTypeOK
  <2>11. ASSUME NEW c \in Calls, Sell(c)
         PROVE  HeldTypeOK'
    <3>1. key[c] \in Keys
      BY <2>11 DEF Sell, HeldTypeOK, CallTypeOK
    <3>2. sales' \in Seq(Keys) /\ Len(sales) + 1 \in Nat
      BY <2>11, <3>1 DEF Sell, HeldTypeOK
    <3>3. CallTypeOK'
      BY <2>11, <3>1, <3>2, GotoTyped DEF Sell, HeldTypeOK, CallTypeOK
    <3> QED
      BY <2>11, <3>2, <3>3 DEF Sell, HeldTypeOK
  <2>12. ASSUME NEW c \in Calls, SellFails(c) \/ LateFailure(c)
         PROVE  HeldTypeOK'
    <3>1. key[c] \in Keys
      BY <2>12 DEF SellFails, LateFailure, HeldTypeOK, CallTypeOK
    <3>2. CallTypeOK'
      BY <2>12, <3>1, GotoTyped DEF SellFails, LateFailure, HeldTypeOK, CallTypeOK
    <3> QED
      BY <2>12, <3>2 DEF SellFails, LateFailure, HeldTypeOK, Marks
  <2>13. ASSUME NEW c \in Calls, Complete(c)
         PROVE  HeldTypeOK'
    <3>1. mine[c] \in Nat
      BY DEF HeldTypeOK, CallTypeOK
    <3> QED
      BY <2>13, <3>1, ReturnTyped, RowTyped DEF Complete, HeldTypeOK, HeldStatuses
  <2>14. ASSUME NEW c \in Calls, Undo(c)
         PROVE  HeldTypeOK'
    BY <2>14, ReturnTyped, RowTyped DEF Undo, HeldTypeOK, HeldStatuses
  <2>15. ASSUME NEW c \in Calls, UndoLost(c)
         PROVE  HeldTypeOK'
    BY <2>15, ReturnTyped DEF UndoLost, HeldTypeOK, Marks
  <2>16. CASE Crash
    BY <2>16 DEF Crash, HeldTypeOK, CallTypeOK, Marks
  <2>17. CASE UNCHANGED heldVars
    BY <2>17 DEF heldVars, call, HeldTypeOK, CallTypeOK
  <2> QED
    BY <2>1, <2>2, <2>3, <2>4, <2>5, <2>6, <2>7, <2>8, <2>9, <2>10, <2>11, <2>12,
       <2>13, <2>14, <2>15, <2>16, <2>17
    DEF HeldNext, Arrive, Step
<1> QED
  BY <1>1, <1>2, PTL DEF HeldSpec

(***************************************************************************)
(* A held sale is rung up at most once.  The bound on the sales is not     *)
(* inductive: it holds because one call at a time is between its lock and  *)
(* its last write, because nothing but the failure of that call makes the  *)
(* row claimable again, and because it only fails without a sale, unless a *)
(* finalization has been undone.                                           *)
(***************************************************************************)
Selling(c) == pc[c] \in {"sell", "sold", "undo"}

OneSeller == \A c, d \in Calls : Selling(c) /\ Selling(d) => c = d

OpenUnsold ==
    row.status \in {"NONE", "AVAILABLE", "CLAIMED"} =>
        Len(sales) = 0 /\ \A c \in Calls : ~Selling(c)

SellerState ==
    \A c \in Calls :
        /\ Selling(c) => row.key = key[c]
        /\ pc[c] \in {"sell", "undo"} => Len(sales) = 0
        /\ pc[c] = "sold" => Len(sales) = 1 /\ sales[1] = key[c] /\ mine[c] = 1

CompletedSold ==
    row.status = "COMPLETED" =>
        /\ row.sale = 1 /\ Len(sales) = 1 /\ row.key = sales[1]
        /\ \A c \in Calls : ~Selling(c)

SaleInv ==
    /\ Len(sales) <= 1
    /\ OneSeller /\ OpenUnsold /\ SellerState /\ CompletedSold

\* What has been undone stays undone.
LEMMA MarksStay ==
    ASSUME [HeldNext]_heldVars, NothingUndone'
    PROVE  NothingUndone
  BY DEF HeldNext, heldVars, call, SaveHeldSale, Claim, Expire, Arrive, Release, Delete, Finalize, Step,
         ReleaseWrite, DeleteWrite, Lock, LockRefused, Sell, SellFails, LateFailure,
         Complete, Undo, UndoLost, Crash, NothingUndone

LEMMA SaleInvStep ==
    ASSUME HeldTypeOK, SaleInv, HeldTypeOK', [HeldNext]_heldVars, NothingUndone'
    PROVE  SaleInv'
<1> USE DEF SaleInv, OneSeller, OpenUnsold, SellerState, CompletedSold,
            Selling
<1>0. /\ row \in Row /\ CallTypeOK
      /\ row.status \in HeldStatuses
  BY DEF HeldTypeOK, Row
<1>1. CASE SaveHeldSale
  BY <1>0, <1>1 DEF SaveHeldSale, call, Row
<1>2. ASSUME NEW s \in Sessions, Claim(s)
      PROVE  SaleInv'
  BY <1>0, <1>2 DEF Claim, call, Row
<1>3. CASE Expire
  BY <1>0, <1>3 DEF Expire, call, Row
<1>4. ASSUME NEW c \in Calls, NEW s \in Sessions, Release(c, s)
      PROVE  SaleInv'
  BY <1>0, <1>4 DEF Release, Start, Goto, CallTypeOK
<1>5. ASSUME NEW c \in Calls, NEW s \in Sessions, Delete(c, s)
      PROVE  SaleInv'
  BY <1>0, <1>5 DEF Delete, Start, Goto, CallTypeOK
<1>6. ASSUME NEW c \in Calls, NEW s \in Sessions, NEW k \in Keys, Finalize(c, s, k)
      PROVE  SaleInv'
  BY <1>0, <1>6 DEF Finalize, Start, Goto, CallTypeOK
<1>7. ASSUME NEW c \in Calls, ReleaseWrite(c)
      PROVE  SaleInv'
  <2>1. row.status \in {"AVAILABLE", "CLAIMED"}
    BY <1>7 DEF ReleaseWrite, Overtaken, NothingUndone
  <2> QED
    BY <1>0, <1>7, <2>1 DEF ReleaseWrite, Return, Goto, CallTypeOK, Row
<1>8. ASSUME NEW c \in Calls, DeleteWrite(c)
      PROVE  SaleInv'
  BY <1>0, <1>8 DEF DeleteWrite, Return, Goto, CallTypeOK, Row
<1>9. ASSUME NEW c \in Calls, Lock(c)
      PROVE  SaleInv'
  BY <1>0, <1>9 DEF Lock, Lockable, Goto, CallTypeOK, Row
<1>10. ASSUME NEW c \in Calls, LockRefused(c)
       PROVE  SaleInv'
  BY <1>0, <1>10 DEF LockRefused, Return, Goto, CallTypeOK
<1>11. ASSUME NEW c \in Calls, Sell(c)
       PROVE  SaleInv'
  <2>1. Len(sales) = 0 /\ sales \in Seq(Keys) /\ key[c] \in Keys
    BY <1>0, <1>11 DEF Sell, CallTypeOK, HeldTypeOK
  <2>2. Len(sales') = 1 /\ sales'[1] = key[c]
    BY <1>11, <2>1 DEF Sell
  <2>3. row.status \notin {"NONE", "AVAILABLE", "CLAIMED", "COMPLETED"}
    BY <1>11 DEF Sell
  <2> QED
    BY <1>0, <1>11, <2>1, <2>2, <2>3 DEF Sell, Goto, CallTypeOK
<1>12. ASSUME NEW c \in Calls, SellFails(c)
       PROVE  SaleInv'
  BY <1>0, <1>12 DEF SellFails, Goto, CallTypeOK
<1>13. ASSUME NEW c \in Calls, LateFailure(c)
       PROVE  SaleInv'
  BY <1>13 DEF LateFailure, NothingUndone
<1>14. ASSUME NEW c \in Calls, Complete(c)
       PROVE  SaleInv'
  BY <1>0, <1>14 DEF Complete, Return, Goto, CallTypeOK, Row
<1>15. ASSUME NEW c \in Calls, Undo(c)
       PROVE  SaleInv'
  BY <1>0, <1>15 DEF Undo, Return, Goto, CallTypeOK, Row
<1>16. ASSUME NEW c \in Calls, UndoLost(c)
       PROVE  SaleInv'
  BY <1>0, <1>16 DEF UndoLost, Return, Goto, CallTypeOK
<1>17. CASE Crash
  BY <1>0, <1>17 DEF Crash, CallTypeOK
<1>18. CASE UNCHANGED heldVars
  BY <1>18 DEF heldVars, call
<1> QED
  BY <1>1, <1>2, <1>3, <1>4, <1>5, <1>6, <1>7, <1>8, <1>9, <1>10, <1>11, <1>12,
     <1>13, <1>14, <1>15, <1>16, <1>17, <1>18
  DEF HeldNext, Arrive, Step

LEMMA SaleInvariant == HeldSpec => [](HeldTypeOK /\ (NothingUndone => SaleInv))
<1>1. HeldInit => SaleInv
  BY DEF HeldInit, SaleInv, OneSeller, OpenUnsold, SellerState, CompletedSold, Selling
<1>2. HeldTypeOK /\ HeldTypeOK' /\ (NothingUndone => SaleInv) /\ [HeldNext]_heldVars
         => (NothingUndone => SaleInv)'
  BY SaleInvStep, MarksStay
<1> QED
  BY <1>1, <1>2, HeldTypeCorrect, PTL DEF HeldSpec

\* With any number of sessions claiming, releasing, deleting and finalizing it, and
\* the API restarting at any point, a held sale is rung up at most once, as long as
\* no finalization is undone by a release it has overtaken or after its commit.
THEOREM SoldAtMostOnce == HeldSpec => []OneSaleUnlessUndone
<1>1. (NothingUndone => SaleInv) => OneSaleUnlessUndone
  BY DEF SaleInv, OneSaleUnlessUndone, AtMostOneSale
<1> QED
  BY <1>1, SaleInvariant, PTL

\* And once it is completed it names that sale and the key that rang it up.
THEOREM CompletedIsNamed == HeldSpec => []CompletedNamesItsSale
<1>1. HeldTypeOK /\ (NothingUndone => SaleInv) => CompletedNamesItsSale
  <2> SUFFICES ASSUME HeldTypeOK, SaleInv, row.status = "COMPLETED"
               PROVE  row.sale \in DOMAIN sales /\ row.key = sales[row.sale]
    BY DEF CompletedNamesItsSale
  <2>1. row.sale = 1 /\ Len(sales) = 1 /\ row.key = sales[1] /\ sales \in Seq(Keys)
    BY DEF SaleInv, CompletedSold, HeldTypeOK
  <2> QED
    BY <2>1
<1> QED
  BY <1>1, SaleInvariant, PTL

-----------------------------------------------------------------------------
(* What FinalizationEnds rests on besides fairness.                        *)

\* A held sale that is FINALIZING has a call at work on it that will complete it or give it
\* back, unless a call was cut off: the lock of a call is not lost when releases, deletions
\* and other finalizations overtake it.
FinalizingHasCall ==
    row.status = "FINALIZING" /\ "cut" \notin marks =>
        \E c \in Calls : Selling(c) /\ key[c] = row.key

LEMMA FinalizingStep ==
    ASSUME HeldTypeOK, FinalizingHasCall, [HeldNext]_heldVars
    PROVE  FinalizingHasCall'
<1> USE DEF FinalizingHasCall, Selling
<1> DEFINE Goal == FinalizingHasCall'
<1>0. row \in Row /\ CallTypeOK
  BY DEF HeldTypeOK
<1>1. ASSUME row'.status # "FINALIZING" \/ "cut" \in marks'
      PROVE  Goal
  BY <1>1
<1>2. ASSUME row'.status = row.status, row'.key = row.key, marks \subseteq marks',
             \A d \in Calls : Selling(d) /\ key[d] = row.key =>
                                 Selling(d)' /\ key'[d] = key[d]
      PROVE  Goal
  BY <1>2
<1>3. ASSUME SaveHeldSale
      PROVE  Goal
  BY <1>0, <1>1, <1>3 DEF SaveHeldSale, Row
<1>4. ASSUME NEW s \in Sessions, Claim(s)
      PROVE  Goal
  BY <1>0, <1>1, <1>4 DEF Claim, Row
<1>5. ASSUME Expire
      PROVE  Goal
  BY <1>0, <1>2, <1>5 DEF Expire, call, Row
<1>6. ASSUME NEW c \in Calls, NEW s \in Sessions, Arrive(c, s)
      PROVE  Goal
  <2>1. /\ row' = row /\ marks' = marks /\ pc[c] = "idle"
        /\ \A d \in Calls \ {c} : pc'[d] = pc[d] /\ key'[d] = key[d]
    BY <1>0, <1>6 DEF Arrive, Release, Delete, Finalize, Start, Goto, CallTypeOK
  <2> QED
    BY <1>2, <2>1
<1>7. ASSUME NEW c \in Calls, ReleaseWrite(c) \/ DeleteWrite(c) \/ Complete(c)
      PROVE  Goal
  BY <1>0, <1>1, <1>7 DEF ReleaseWrite, DeleteWrite, Complete, Row
<1>8. ASSUME NEW c \in Calls, Lock(c)
      PROVE  Goal
  <2>1. pc'[c] = "sell" /\ key'[c] = key[c] /\ row'.key = key[c]
    BY <1>0, <1>8 DEF Lock, Goto, CallTypeOK, Row
  <2> QED
    BY <2>1
<1>9. ASSUME NEW c \in Calls, LockRefused(c)
      PROVE  Goal
  <2>1. /\ row' = row /\ marks' = marks /\ pc[c] = "lock"
        /\ \A d \in Calls \ {c} : pc'[d] = pc[d] /\ key'[d] = key[d]
    BY <1>0, <1>9 DEF LockRefused, Return, Goto, CallTypeOK
  <2> QED
    BY <1>2, <2>1
<1>10. ASSUME NEW c \in Calls, Sell(c) \/ SellFails(c) \/ LateFailure(c)
       PROVE  Goal
  <2>1. /\ row' = row /\ marks \subseteq marks' /\ key' = key
        /\ pc'[c] \in {"sold", "undo"} /\ \A d \in Calls \ {c} : pc'[d] = pc[d]
    BY <1>0, <1>10 DEF Sell, SellFails, LateFailure, Goto, CallTypeOK
  <2> QED
    BY <1>2, <2>1
<1>11. ASSUME NEW c \in Calls, Undo(c)
       PROVE  Goal
  <2>1. CASE row.status = "FINALIZING" /\ row.key = key[c]
    BY <1>0, <1>1, <1>11, <2>1 DEF Undo, Row
  <2>2. CASE ~(row.status = "FINALIZING" /\ row.key = key[c])
    <3>1. /\ row' = row /\ marks' = marks
          /\ \A d \in Calls \ {c} : pc'[d] = pc[d] /\ key'[d] = key[d]
      BY <1>0, <1>11, <2>2 DEF Undo, Return, Goto, CallTypeOK
    <3>2. row.status = "FINALIZING" => key[c] # row.key
      BY <2>2
    <3> QED
      BY <3>1, <3>2
  <2> QED
    BY <2>1, <2>2
<1>12. ASSUME NEW c \in Calls, UndoLost(c)
       PROVE  Goal
  BY <1>1, <1>12 DEF UndoLost
<1>13. ASSUME Crash
       PROVE  Goal
  BY <1>1, <1>13 DEF Crash
<1>14. ASSUME UNCHANGED heldVars
       PROVE  Goal
  BY <1>14 DEF heldVars, call
<1> HIDE DEF Goal
<1>15. Goal
  BY <1>3, <1>4, <1>5, <1>6, <1>7, <1>8, <1>9, <1>10, <1>11, <1>12, <1>13, <1>14
  DEF HeldNext, Step
<1> QED
  BY <1>15 DEF Goal

\* For any number of sessions and calls, whatever is released, deleted, repeated or fails.
THEOREM FinalizingHasCallCorrect == HeldSpec => []FinalizingHasCall
<1>1. HeldInit => FinalizingHasCall
  BY DEF HeldInit, FinalizingHasCall
<1>2. HeldTypeOK /\ FinalizingHasCall /\ [HeldNext]_heldVars => FinalizingHasCall'
  BY FinalizingStep
<1> QED
  BY <1>1, <1>2, HeldTypeCorrect, PTL DEF HeldSpec

(***************************************************************************)
(* Sales without a connection.                                             *)
(***************************************************************************)
-----------------------------------------------------------------------------
(* The inductive invariant: every outcome "SYNCED", be it in a request, on *)
(* its way back, in a round or in a database, is about a recorded sale.    *)

Recorded(s) == \E v \in Users : sold[v][s] > 0

RoundGood(r) ==
    /\ r \in Round
    /\ r.at # "idle" => r.owner \in Users
    /\ r.at = "wait" => r.req \in Requests
    /\ r.at = "put" => /\ r.sale \in Sales /\ r.outcome \in Outcomes
                       /\ r.outcome = "SYNCED" => Recorded(r.sale)
    /\ \A s \in Sales : r.results[s] = "SYNCED" => Recorded(s)

RequestGood(r) ==
    /\ r \in Request
    /\ r.at # "free" => r.as \in Users
    /\ r.at \in {"create", "recheck"} => r.sale \in Sales
    /\ \A s \in Sales : r.results[s] = "SYNCED" => Recorded(s)

SyncInv ==
    /\ RecordsTypeOK
    /\ SyncedIsSold
    /\ \A p \in Pages : RoundGood(round[p])
    /\ \A q \in Requests : RequestGood(req[q])

LEMMA ModelValues ==
    None \notin Users /\ None \notin Sales /\ None \notin Requests /\ None \notin Outcomes
  BY ConstantsAssumption DEF ConstantsAssumption

LEMMA IdleGood == RoundGood(IdleRound)
<1>1. NoResults \in [Sales -> Outcomes \cup {None}]
  BY DEF NoResults
<1>2. \A s \in Sales : NoResults[s] # "SYNCED"
  BY ModelValues DEF NoResults, Outcomes
<1> QED
  BY <1>1, <1>2 DEF RoundGood, IdleRound, Round

LEMMA FreeGood == RequestGood(FreeRequest)
<1>1. NoResults \in [Sales -> Outcomes \cup {None}]
  BY DEF NoResults
<1>2. \A s \in Sales : NoResults[s] # "SYNCED"
  BY ModelValues DEF NoResults, Outcomes
<1> QED
  BY <1>1, <1>2 DEF RequestGood, FreeRequest, Request

-----------------------------------------------------------------------------
(* What a step has to show about the one round or request that it changes. *)

\* A step that changes no request and no recorded sale, and one round at most.
LEMMA OneRound ==
    ASSUME SyncInv, NEW p \in Pages, NEW r, RoundGood(r),
           round' = [round EXCEPT ![p] = r], req' = req, sold' = sold
    PROVE  /\ round' \in [Pages -> Round] /\ req' \in [Requests -> Request]
           /\ sold' \in [Users -> [Sales -> Nat]]
           /\ (\A o \in Pages : RoundGood(round[o]))'
           /\ (\A q \in Requests : RequestGood(req[q]))'
<1>1. r \in Round
  BY DEF RoundGood
<1>2. round' \in [Pages -> Round]
  BY <1>1 DEF SyncInv, RecordsTypeOK
<1>3. ASSUME NEW o \in Pages PROVE RoundGood(round[o])'
  <2>1. round'[o] = r \/ round'[o] = round[o]
    BY DEF SyncInv, RecordsTypeOK
  <2>2. RoundGood(round[o])
    BY DEF SyncInv
  <2> QED
    BY <2>1, <2>2 DEF RoundGood, Recorded
<1>4. ASSUME NEW q \in Requests PROVE RequestGood(req[q])'
  BY <1>4 DEF SyncInv, RequestGood, Recorded
<1> QED
  BY <1>2, <1>3, <1>4 DEF SyncInv, RecordsTypeOK

\* A step that changes no round, and one request at most; sales stay recorded.
LEMMA OneRequest ==
    ASSUME SyncInv, NEW q \in Requests, NEW r, RequestGood(r)',
           req' = [req EXCEPT ![q] = r], round' = round,
           \A s \in Sales : Recorded(s) => Recorded(s)'
    PROVE  /\ round' \in [Pages -> Round] /\ req' \in [Requests -> Request]
           /\ (\A p \in Pages : RoundGood(round[p]))'
           /\ (\A o \in Requests : RequestGood(req[o]))'
<1>1. r \in Request
  BY DEF RequestGood
<1>2. req' \in [Requests -> Request]
  BY <1>1 DEF SyncInv, RecordsTypeOK
<1>3. ASSUME NEW o \in Requests PROVE RequestGood(req[o])'
  <2>1. req'[o] = r \/ req'[o] = req[o]
    BY DEF SyncInv, RecordsTypeOK
  <2>2. RequestGood(req[o])
    BY DEF SyncInv
  <2> QED
    BY <2>1, <2>2 DEF RequestGood
<1>4. ASSUME NEW p \in Pages PROVE RoundGood(round[p])'
  BY <1>4 DEF SyncInv, RoundGood
<1> QED
  BY <1>2, <1>3, <1>4 DEF SyncInv, RecordsTypeOK

\* The sale in hand gets its outcome: SYNCED only if it is recorded.
LEMMA NoteGood ==
    ASSUME SyncInv, NEW q \in Requests, NEW s \in Sales, NEW o \in Outcomes,
           req[q].at # "free", o = "SYNCED" => Recorded(s)',
           \A t \in Sales : Recorded(t) => Recorded(t)',
           NEW r, r = Note(q, s, o)
    PROVE  RequestGood(r)'
<1>1. RequestGood(req[q])
  BY DEF SyncInv
<1>2. r \in Request
  BY <1>1 DEF RequestGood, Request, Note
<1>3. r.at = "next" /\ r.as = req[q].as
  BY <1>1 DEF RequestGood, Request, Note
<1>4. \A t \in Sales : r.results[t] = IF t = s THEN o ELSE req[q].results[t]
  BY <1>1 DEF RequestGood, Request, Note
<1> QED
  BY <1>1, <1>2, <1>3, <1>4 DEF RequestGood


\* The sale in hand goes on to the next statement.
LEMMA ContinueGood ==
    ASSUME SyncInv, NEW q \in Requests, NEW s \in Sales,
           NEW l \in {"create", "recheck"}, NEW e \in {"stock", "other"},
           req[q].at # "free",
           \A t \in Sales : Recorded(t) => Recorded(t)',
           NEW r, r = [req[q] EXCEPT !.at = l, !.sale = s, !.error = e]
    PROVE  RequestGood(r)'
<1>1. RequestGood(req[q])
  BY DEF SyncInv
<1>2. r \in Request
  BY <1>1 DEF RequestGood, Request
<1>3. r.at = l /\ r.as = req[q].as /\ r.sale = s /\ r.results = req[q].results
  BY <1>1 DEF RequestGood, Request
<1> QED
  BY <1>1, <1>2, <1>3 DEF RequestGood

\* A commit records the sale in hand, and no sale is ever unrecorded.
LEMMA InsertRecords ==
    ASSUME SyncInv, NEW q \in Requests, NEW s \in Sales,
           req[q].at # "free", Insert(q, s)
    PROVE  /\ sold' \in [Users -> [Sales -> Nat]]
           /\ Recorded(s)'
           /\ \A t \in Sales : Recorded(t) => Recorded(t)'
<1> DEFINE a == req[q].as
<1>1. a \in Users
  BY DEF SyncInv, RequestGood
<1>2. sold' = [sold EXCEPT ![a][s] = @ + 1]
  BY DEF Insert
<1>3. sold \in [Users -> [Sales -> Nat]]
  BY DEF SyncInv, RecordsTypeOK
<1>4. sold' \in [Users -> [Sales -> Nat]]
  BY <1>1, <1>2, <1>3
<1>5. \A u \in Users, t \in Sales :
         sold'[u][t] = IF u = a /\ t = s THEN sold[u][t] + 1 ELSE sold[u][t]
  BY <1>1, <1>2, <1>3
<1>6. \A u \in Users, t \in Sales : sold[u][t] \in Nat
  BY <1>3
<1>7. sold'[a][s] > 0
  BY <1>1, <1>5, <1>6
<1>8. \A u \in Users, t \in Sales : sold[u][t] > 0 => sold'[u][t] > 0
  BY <1>5, <1>6
<1> HIDE DEF a
<1> QED
  BY <1>1, <1>4, <1>7, <1>8 DEF Recorded

\* A sale that is found with the identifier of the sender is recorded.
LEMMA ExistsRecorded ==
    ASSUME SyncInv, NEW q \in Requests, NEW s \in Sales, req[q].at # "free", Exists(q, s)
    PROVE  Recorded(s)
  BY DEF SyncInv, RequestGood, Exists, Recorded

\* A step that neither writes a database nor unrecords a sale.
LEMMA SyncedStays ==
    ASSUME SyncedIsSold, db' = db, \A s \in Sales : Recorded(s) => Recorded(s)'
    PROVE  SyncedIsSold'
  BY DEF SyncedIsSold, Recorded

LEMMA UnchangedRecorded ==
    ASSUME sold' = sold
    PROVE  \A s \in Sales : Recorded(s) => Recorded(s)'
  BY DEF Recorded

-----------------------------------------------------------------------------
(* The steps of the device.                                                *)

\* A step that leaves rounds, requests and recorded sales alone.
LEMMA QuietStep ==
    ASSUME SyncInv, UNCHANGED <<round, req, sold>>,
           user' \in Users \cup {None},
           db' \in [Users -> [Sales -> Statuses]],
           \A u \in Users, s \in Sales : db'[u][s] = "SYNCED" => db[u][s] = "SYNCED"
    PROVE  SyncInv'
<1>1. RecordsTypeOK'
  BY DEF SyncInv, RecordsTypeOK
<1>2. SyncedIsSold'
  BY DEF SyncInv, SyncedIsSold
<1>3. \A p \in Pages : RoundGood(round[p])'
  BY DEF SyncInv, RoundGood, Recorded
<1>4. \A q \in Requests : RequestGood(req[q])'
  BY DEF SyncInv, RequestGood, Recorded
<1> QED
  BY <1>1, <1>2, <1>3, <1>4 DEF SyncInv

LEMMA SellLocallyStep ==
    ASSUME SyncInv, NEW s \in Sales, SellLocally(s)
    PROVE  SyncInv'
<1>1. user \in Users
  BY DEF SyncInv, RecordsTypeOK, SellLocally
<1>2. db' = [db EXCEPT ![user][s] = "PENDING"]
  BY DEF SellLocally
<1>3. db \in [Users -> [Sales -> Statuses]] /\ "PENDING" \in Statuses
  BY DEF SyncInv, RecordsTypeOK, Statuses
<1>4. db' \in [Users -> [Sales -> Statuses]]
  BY <1>1, <1>2, <1>3
<1>5. \A u \in Users, t \in Sales :
         db'[u][t] = IF u = user /\ t = s THEN "PENDING" ELSE db[u][t]
  BY <1>1, <1>2, <1>3
<1>6. UNCHANGED <<round, req, sold>> /\ user' \in Users \cup {None}
  BY <1>1 DEF SellLocally, server
<1> QED
  BY <1>4, <1>5, <1>6, QuietStep

LEMMA QuietSteps ==
    ASSUME SyncInv,
           \/ Refresh
           \/ \E u \in Users \cup {None} : SwitchUser(u)
           \/ \E l \in Loads : Fetch(l) \/ Save(l)
           \/ OtherSale
           \/ UNCHANGED vars
    PROVE  SyncInv'
<1>1. UNCHANGED <<round, req, sold, db>> /\ user' \in Users \cup {None}
  BY DEF SyncInv, RecordsTypeOK, Refresh, SwitchUser, Fetch, Save, OtherSale, vars, device, server
<1>2. db' \in [Users -> [Sales -> Statuses]]
  BY <1>1 DEF SyncInv, RecordsTypeOK
<1> QED
  BY <1>1, <1>2, QuietStep

-----------------------------------------------------------------------------
(* The steps of a round.                                                   *)

\* A step of one round that leaves the databases, requests and sales alone.
LEMMA RoundStep ==
    ASSUME SyncInv, NEW p \in Pages, NEW r, RoundGood(r),
           round' = [round EXCEPT ![p] = r], UNCHANGED <<user, db, req, sold>>
    PROVE  SyncInv'
<1>1. RecordsTypeOK' /\ (\A o \in Pages : RoundGood(round[o]))'
             /\ (\A q \in Requests : RequestGood(req[q]))'
  BY OneRound DEF SyncInv, RecordsTypeOK
<1>2. SyncedIsSold'
  BY UnchangedRecorded, SyncedStays DEF SyncInv
<1> QED
  BY <1>1, <1>2 DEF SyncInv

LEMMA EndRoundStep ==
    ASSUME SyncInv, NEW p \in Pages, EndRound(p), UNCHANGED <<user, db, req, sold>>
    PROVE  SyncInv'
  BY RoundStep, IdleGood DEF EndRound

LEMMA StartRoundStep ==
    ASSUME SyncInv, NEW p \in Pages, StartRound(p)
    PROVE  SyncInv'
<1> DEFINE r == [round[p] EXCEPT !.at = "read", !.owner = user]
<1>1. RoundGood(round[p]) /\ user \in Users
  BY DEF SyncInv, RecordsTypeOK, StartRound
<1>2. r \in Round /\ r.at = "read" /\ r.owner = user /\ r.results = round[p].results
  BY <1>1 DEF RoundGood, Round
<1>3. RoundGood(r)
  BY <1>1, <1>2 DEF RoundGood
<1>4. round' = [round EXCEPT ![p] = r] /\ UNCHANGED <<user, db, req, sold>>
  BY DEF StartRound, device, server
<1> QED
  BY <1>3, <1>4, RoundStep

LEMMA ReadQueueStep ==
    ASSUME SyncInv, NEW p \in Pages, ReadQueue(p)
    PROVE  SyncInv'
<1> DEFINE b == Pending(round[p].owner)
           r == [round[p] EXCEPT !.at = "send", !.batch = b]
<1>1. RoundGood(round[p]) /\ b \subseteq Sales
  BY DEF SyncInv, Pending
<1>2. UNCHANGED <<user, db, req, sold>>
  BY DEF ReadQueue, device, server
<1>3. CASE EndRound(p)
  BY <1>2, <1>3, EndRoundStep
<1>4. CASE round' = [round EXCEPT ![p] = r] /\ round[p].at = "read"
  <2> HIDE DEF b
  <2>1. r \in Round /\ r.at = "send" /\ r.owner = round[p].owner /\ r.results = round[p].results
    BY <1>1 DEF RoundGood, Round
  <2>2. RoundGood(r)
    BY <1>1, <1>4, <2>1 DEF RoundGood
  <2> QED
    BY <1>2, <1>4, <2>2, RoundStep
<1> QED
  BY <1>3, <1>4 DEF ReadQueue

LEMMA ApplyStep ==
    ASSUME SyncInv, NEW p \in Pages, Apply(p)
    PROVE  SyncInv'
<1>1. RoundGood(round[p]) /\ round[p].at = "apply"
  BY DEF SyncInv, Apply
<1>2. UNCHANGED <<user, db, req, sold>>
  BY DEF Apply, device, server
<1>3. CASE EndRound(p)
  BY <1>2, <1>3, EndRoundStep
<1>4. ASSUME NEW s \in Sales, round[p].results[s] # None,
             round' = [round EXCEPT ![p] =
                         [@ EXCEPT !.at = "put", !.sale = s,
                                   !.outcome = round[p].results[s],
                                   !.results = [round[p].results EXCEPT ![s] = None]]]
      PROVE  SyncInv'
  <2> DEFINE o == round[p].results[s]
             rs == [round[p].results EXCEPT ![s] = None]
             r == [round[p] EXCEPT !.at = "put", !.sale = s, !.outcome = o, !.results = rs]
  <2>1. o \in Outcomes /\ rs \in [Sales -> Outcomes \cup {None}]
    BY <1>1, <1>4 DEF RoundGood, Round
  <2>2. o = "SYNCED" => Recorded(s)
    BY <1>1 DEF RoundGood
  <2>3. \A t \in Sales : rs[t] = "SYNCED" => round[p].results[t] = "SYNCED"
    BY <1>1, ModelValues DEF RoundGood, Round, Outcomes
  <2>4. round' = [round EXCEPT ![p] = r]
    BY <1>4
  <2> HIDE DEF o, rs
  <2>5. r \in Round /\ r.at = "put" /\ r.owner = round[p].owner
        /\ r.sale = s /\ r.outcome = o /\ r.results = rs
    BY <1>1, <2>1 DEF RoundGood, Round
  <2>6. RoundGood(r)
    BY <1>1, <2>1, <2>2, <2>3, <2>5 DEF RoundGood
  <2> QED
    BY <1>2, <2>4, <2>6, RoundStep
<1> QED
  BY <1>3, <1>4 DEF Apply

\* The outcome that is written is about a recorded sale, in whichever database.
LEMMA PutStep ==
    ASSUME SyncInv, NEW p \in Pages, Put(p)
    PROVE  SyncInv'
<1> DEFINE s == round[p].sale
           o == round[p].outcome
           r == [round[p] EXCEPT !.at = "apply", !.sale = None, !.outcome = None]
<1>1. RoundGood(round[p]) /\ round[p].at = "put"
  BY DEF SyncInv, Put
<1>2. s \in Sales /\ o \in Outcomes /\ (o = "SYNCED" => Recorded(s))
  BY <1>1 DEF RoundGood
<1>3. UNCHANGED <<user, req, sold>>
  BY DEF Put, server
<1>4. CASE EndRound(p) /\ UNCHANGED db
  BY <1>3, <1>4, EndRoundStep
<1>5. CASE /\ user # None
           /\ db' = [db EXCEPT ![user][s] = o]
           /\ round' = [round EXCEPT ![p] = r]
  <2>1. user \in Users /\ db \in [Users -> [Sales -> Statuses]] /\ o \in Statuses
    BY <1>2, <1>5 DEF SyncInv, RecordsTypeOK, Statuses
  <2>2. r \in Round /\ r.at = "apply" /\ r.owner = round[p].owner /\ r.results = round[p].results
    BY <1>1 DEF RoundGood, Round
  <2>3. RoundGood(r)
    BY <1>1, <2>2 DEF RoundGood
  <2> HIDE DEF s, o, r
  <2>4. db' \in [Users -> [Sales -> Statuses]]
    BY <1>2, <1>5, <2>1
  <2>5. \A u \in Users, t \in Sales : db'[u][t] = "SYNCED" => Recorded(t)
    <3>1. \A u \in Users, t \in Sales :
             db'[u][t] = IF u = user /\ t = s THEN o ELSE db[u][t]
      BY <1>2, <1>5, <2>1
    <3>2. \A u \in Users, t \in Sales : db[u][t] = "SYNCED" => Recorded(t)
      BY DEF SyncInv, SyncedIsSold, Recorded
    <3> QED
      BY <1>2, <3>1, <3>2
  <2>6. SyncedIsSold'
    BY <1>3, <2>5 DEF SyncedIsSold, Recorded
  <2>7. RecordsTypeOK' /\ (\A x \in Pages : RoundGood(round[x]))'
               /\ (\A q \in Requests : RequestGood(req[q]))'
    BY <1>3, <1>5, <2>1, <2>3, <2>4, OneRound DEF RecordsTypeOK
  <2> QED
    BY <2>6, <2>7 DEF SyncInv
<1> QED
  BY <1>4, <1>5 DEF Put

\* A step of one round and one request that records nothing new.
LEMMA ExchangeStep ==
    ASSUME SyncInv, NEW p \in Pages, NEW q \in Requests, NEW r, NEW m,
           RoundGood(r), RequestGood(m),
           round' = [round EXCEPT ![p] = r], req' = [req EXCEPT ![q] = m],
           UNCHANGED <<user, db, sold>>
    PROVE  SyncInv'
<1>1. r \in Round /\ m \in Request
  BY DEF RoundGood, RequestGood
<1>2. RecordsTypeOK'
  BY <1>1 DEF SyncInv, RecordsTypeOK
<1>3. SyncedIsSold'
  BY UnchangedRecorded, SyncedStays DEF SyncInv
<1>4. ASSUME NEW o \in Pages PROVE RoundGood(round[o])'
  <2>1. round'[o] = r \/ round'[o] = round[o]
    BY DEF SyncInv, RecordsTypeOK
  <2>2. RoundGood(round[o])
    BY DEF SyncInv
  <2> QED
    BY <2>1, <2>2 DEF RoundGood, Recorded
<1>5. ASSUME NEW o \in Requests PROVE RequestGood(req[o])'
  <2>1. req'[o] = m \/ req'[o] = req[o]
    BY DEF SyncInv, RecordsTypeOK
  <2>2. RequestGood(req[o])
    BY DEF SyncInv
  <2> QED
    BY <2>1, <2>2 DEF RequestGood, Recorded
<1> QED
  BY <1>2, <1>3, <1>4, <1>5 DEF SyncInv

LEMMA SendStep ==
    ASSUME SyncInv, NEW p \in Pages, NEW q \in Requests, Send(p, q)
    PROVE  SyncInv'
<1> DEFINE m == [req[q] EXCEPT !.at = "next", !.as = Sender(p), !.todo = round[p].batch]
           r == [round[p] EXCEPT !.at = "wait", !.batch = {}, !.req = q]
<1>1. RoundGood(round[p]) /\ RequestGood(req[q]) /\ round[p].at = "send"
  BY DEF SyncInv, Send
<1>2. Sender(p) \in Users
  BY <1>1 DEF SyncInv, RecordsTypeOK, RoundGood, Sender
<1>3. r \in Round /\ r.at = "wait" /\ r.owner = round[p].owner
      /\ r.req = q /\ r.results = round[p].results
  BY <1>1 DEF RoundGood, Round
<1>4. RoundGood(r)
  BY <1>1, <1>3 DEF RoundGood
<1>5. m \in Request /\ m.at = "next" /\ m.as = Sender(p) /\ m.results = req[q].results
  BY <1>1, <1>2 DEF RoundGood, RequestGood, Round, Request
<1>6. RequestGood(m)
  BY <1>1, <1>2, <1>5 DEF RequestGood
<1>7. /\ round' = [round EXCEPT ![p] = r] /\ req' = [req EXCEPT ![q] = m]
      /\ UNCHANGED <<user, db, sold>>
  BY DEF Send, device, server
<1> HIDE DEF r, m
<1> QED
  BY <1>4, <1>6, <1>7, ExchangeStep

LEMMA ReceiveStep ==
    ASSUME SyncInv, NEW p \in Pages, Receive(p)
    PROVE  SyncInv'
<1> DEFINE q == round[p].req
           r == [round[p] EXCEPT !.at = "apply", !.req = None, !.results = req[q].results]
<1>1. RoundGood(round[p]) /\ round[p].at = "wait" /\ q \in Requests
  BY DEF SyncInv, Receive, RoundGood
<1>2. RequestGood(req[q])
  BY <1>1 DEF SyncInv
<1>3. req' = [req EXCEPT ![q] = FreeRequest] /\ UNCHANGED <<user, db, sold>>
  BY DEF Receive, device, server
<1>4. CASE EndRound(p)
  BY <1>1, <1>3, <1>4, IdleGood, FreeGood, ExchangeStep DEF EndRound
<1>5. CASE round' = [round EXCEPT ![p] = r]
  <2>1. r \in Round /\ r.at = "apply" /\ r.owner = round[p].owner
        /\ r.results = req[q].results
    BY <1>1, <1>2 DEF RoundGood, RequestGood, Round, Request
  <2>2. RoundGood(r)
    BY <1>1, <1>2, <2>1 DEF RoundGood, RequestGood
  <2> HIDE DEF r, q
  <2> QED
    BY <1>1, <1>3, <1>5, <2>2, FreeGood, ExchangeStep
<1> QED
  BY <1>4, <1>5 DEF Receive

LEMMA AbandonStep ==
    ASSUME SyncInv, NEW p \in Pages, Abandon(p)
    PROVE  SyncInv'
  BY EndRoundStep DEF Abandon, device, server

-----------------------------------------------------------------------------
(* The steps of the server.                                                *)

\* A step of one request that may record sales.
LEMMA RequestStep ==
    ASSUME SyncInv, NEW q \in Requests, NEW r, RequestGood(r)',
           req' = [req EXCEPT ![q] = r], UNCHANGED <<user, db, round>>,
           sold' \in [Users -> [Sales -> Nat]],
           \A s \in Sales : Recorded(s) => Recorded(s)'
    PROVE  SyncInv'
<1>1. SyncedIsSold'
  BY SyncedStays DEF SyncInv
<1>2. /\ round' \in [Pages -> Round] /\ req' \in [Requests -> Request]
      /\ (\A p \in Pages : RoundGood(round[p]))'
      /\ (\A o \in Requests : RequestGood(req[o]))'
  BY OneRequest
<1>3. RecordsTypeOK'
  BY <1>2 DEF SyncInv, RecordsTypeOK
<1> QED
  BY <1>1, <1>2, <1>3 DEF SyncInv

\* The sale in hand gets its outcome.
LEMMA ConcludeStep ==
    ASSUME SyncInv, NEW q \in Requests, NEW s \in Sales, NEW o \in Outcomes,
           req[q].at # "free", Conclude(q, s, o), UNCHANGED <<user, db, round>>,
           sold' \in [Users -> [Sales -> Nat]],
           o = "SYNCED" => Recorded(s)',
           \A t \in Sales : Recorded(t) => Recorded(t)'
    PROVE  SyncInv'
<1> DEFINE r == Note(q, s, o)
<1>1. req' = [req EXCEPT ![q] = r]
  BY DEF Conclude
<1> HIDE DEF r
<1>2. ASSUME NEW n, n = Note(q, s, o) PROVE RequestGood(n)'
  BY <1>2, NoteGood
<1>3. PICK n : n = Note(q, s, o)
  OBVIOUS
<1> QED
  BY <1>1, <1>2, <1>3, RequestStep DEF r

LEMMA ContinueStep ==
    ASSUME SyncInv, NEW q \in Requests, NEW s \in Sales,
           NEW l \in {"create", "recheck"}, NEW e \in {"stock", "other"},
           req[q].at # "free", Continue(q, s, l, e), UNCHANGED <<user, db, round>>,
           sold' \in [Users -> [Sales -> Nat]],
           \A t \in Sales : Recorded(t) => Recorded(t)'
    PROVE  SyncInv'
<1>1. PICK n : n = [req[q] EXCEPT !.at = l, !.sale = s, !.error = e]
  OBVIOUS
<1>2. req' = [req EXCEPT ![q] = n]
  BY <1>1 DEF Continue
<1>3. RequestGood(n)'
  BY <1>1, ContinueGood
<1> QED
  BY <1>2, <1>3, RequestStep

LEMMA NothingRecorded ==
    ASSUME SyncInv, sold' = sold
    PROVE  /\ sold' \in [Users -> [Sales -> Nat]]
           /\ \A s \in Sales : Recorded(s) <=> Recorded(s)'
  BY DEF SyncInv, RecordsTypeOK, Recorded

LEMMA LookStep ==
    ASSUME SyncInv, NEW q \in Requests, Look(q)
    PROVE  SyncInv'
<1>1. req[q].at # "free" /\ UNCHANGED <<user, db, round, sold>>
  BY DEF Look, device, server
<1>2. RequestGood(req[q]) /\ req[q].todo \subseteq Sales
  BY DEF SyncInv, RequestGood, Request
<1>3. PICK s \in req[q].todo :
         IF Exists(q, s) THEN Conclude(q, s, "SYNCED") ELSE Continue(q, s, "create", "other")
  BY DEF Look
<1>4. s \in Sales
  BY <1>2
<1>5. CASE Exists(q, s)
  <2>1. Recorded(s)'
    BY <1>1, <1>4, <1>5, ExistsRecorded, NothingRecorded
  <2> QED
    BY <1>1, <1>3, <1>4, <1>5, <2>1, NothingRecorded, ConcludeStep DEF Outcomes
<1>6. CASE ~Exists(q, s)
  BY <1>1, <1>3, <1>4, <1>6, NothingRecorded, ContinueStep
<1> QED
  BY <1>5, <1>6

LEMMA LookFailsStep ==
    ASSUME SyncInv, NEW q \in Requests, LookFails(q)
    PROVE  SyncInv'
<1>1. req[q].at # "free" /\ UNCHANGED <<user, db, round, sold>>
  BY DEF LookFails, device, server
<1>2. PICK s \in req[q].todo : Conclude(q, s, "ERROR")
  BY DEF LookFails
<1>3. s \in Sales
  BY DEF SyncInv, RequestGood, Request
<1> QED
  BY <1>1, <1>2, <1>3, NothingRecorded, ConcludeStep DEF Outcomes

LEMMA CreateStep ==
    ASSUME SyncInv, NEW q \in Requests, Create(q)
    PROVE  SyncInv'
<1>1. req[q].at = "create" /\ UNCHANGED <<user, db, round>>
  BY DEF Create, device
<1>2. req[q].sale \in Sales
  BY <1>1 DEF SyncInv, RequestGood
<1>3. Insert(q, req[q].sale) /\ Conclude(q, req[q].sale, "SYNCED")
  BY DEF Create
<1>4. PICK s \in Sales : s = req[q].sale
  BY <1>2
<1>5. /\ sold' \in [Users -> [Sales -> Nat]]
      /\ Recorded(s)'
      /\ \A t \in Sales : Recorded(t) => Recorded(t)'
  BY <1>1, <1>3, <1>4, InsertRecords
<1> QED
  BY <1>1, <1>3, <1>4, <1>5, ConcludeStep DEF Outcomes

LEMMA CreateRefusedStep ==
    ASSUME SyncInv, NEW q \in Requests, CreateRefused(q)
    PROVE  SyncInv'
<1>1. req[q].at = "create" /\ UNCHANGED <<user, db, round, sold>>
  BY DEF CreateRefused, device, server
<1>2. PICK s \in Sales : s = req[q].sale
  BY <1>1 DEF SyncInv, RequestGood
<1>3. PICK e \in {"stock", "other"} : Continue(q, s, "recheck", e)
  BY <1>2 DEF CreateRefused
<1> QED
  BY <1>1, <1>3, NothingRecorded, ContinueStep

LEMMA CreateFailsStep ==
    ASSUME SyncInv, NEW q \in Requests, CreateFails(q)
    PROVE  SyncInv'
<1>1. req[q].at = "create" /\ UNCHANGED <<user, db, round>>
  BY DEF CreateFails, device
<1>2. PICK s \in Sales : s = req[q].sale
  BY <1>1 DEF SyncInv, RequestGood
<1>3. Continue(q, s, "recheck", "other")
  BY <1>2 DEF CreateFails
<1>4. /\ sold' \in [Users -> [Sales -> Nat]]
      /\ \A t \in Sales : Recorded(t) => Recorded(t)'
  <2>1. CASE Insert(q, s)
    BY <1>1, <2>1, InsertRecords
  <2>2. CASE UNCHANGED server
    BY <2>2, NothingRecorded DEF server
  <2> QED
    BY <1>2, <2>1, <2>2 DEF CreateFails
<1> QED
  BY <1>1, <1>3, <1>4, ContinueStep

LEMMA RecheckStep ==
    ASSUME SyncInv, NEW q \in Requests, Recheck(q)
    PROVE  SyncInv'
<1>1. req[q].at = "recheck" /\ UNCHANGED <<user, db, round, sold>>
  BY DEF Recheck, device, server
<1>2. PICK s \in Sales : s = req[q].sale
  BY <1>1 DEF SyncInv, RequestGood
<1>3. PICK o \in Outcomes : o = Verdict(q)
  BY DEF Verdict, Outcomes
<1>4. o = "SYNCED" => Recorded(s)'
  <2>1. o = "SYNCED" => Exists(q, s)
    BY <1>2, <1>3 DEF Verdict
  <2> QED
    BY <1>1, <2>1, ExistsRecorded, NothingRecorded
<1>5. Conclude(q, s, o)
  BY <1>2, <1>3 DEF Recheck
<1> QED
  BY <1>1, <1>4, <1>5, NothingRecorded, ConcludeStep

LEMMA RecheckFailsStep ==
    ASSUME SyncInv, NEW q \in Requests, RecheckFails(q)
    PROVE  SyncInv'
<1>1. req[q].at = "recheck" /\ UNCHANGED <<user, db, round, sold>>
  BY DEF RecheckFails, device, server
<1>2. PICK s \in Sales : s = req[q].sale
  BY <1>1 DEF SyncInv, RequestGood
<1>3. Conclude(q, s, "ERROR")
  BY <1>2 DEF RecheckFails
<1> QED
  BY <1>1, <1>3, NothingRecorded, ConcludeStep DEF Outcomes

LEMMA AnswerStep ==
    ASSUME SyncInv, NEW q \in Requests, Answer(q)
    PROVE  SyncInv'
<1>1. req[q].at = "next" /\ UNCHANGED <<user, db, round, sold>>
  BY DEF Answer, device, server
<1>2. RequestGood(req[q])
  BY DEF SyncInv
<1>3. PICK r : r = Answered(q)
  OBVIOUS
<1>4. r \in Request /\ r.at = "answered" /\ r.as = req[q].as /\ r.results = req[q].results
  BY <1>2, <1>3 DEF RequestGood, Request, Answered
<1>5. RequestGood(r)'
  BY <1>1, <1>2, <1>4, NothingRecorded DEF RequestGood
<1>6. req' = [req EXCEPT ![q] = r]
  BY <1>3 DEF Answer
<1> QED
  BY <1>1, <1>5, <1>6, NothingRecorded, RequestStep

LEMMA FreeGoodNext == FreeRequest \in Request /\ RequestGood(FreeRequest)'
<1>1. NoResults \in [Sales -> Outcomes \cup {None}]
  BY DEF NoResults
<1>2. \A s \in Sales : NoResults[s] # "SYNCED"
  BY ModelValues DEF NoResults, Outcomes
<1> QED
  BY <1>1, <1>2 DEF RequestGood, FreeRequest, Request

LEMMA UnreadStep ==
    ASSUME SyncInv, NEW q \in Requests, Unread(q)
    PROVE  SyncInv'
<1>1. req' = [req EXCEPT ![q] = FreeRequest] /\ UNCHANGED <<user, db, round, sold>>
  BY DEF Unread, device, server
<1> QED
  BY <1>1, FreeGoodNext, NothingRecorded, RequestStep

LEMMA CutStep ==
    ASSUME SyncInv, NEW q \in Requests, Cut(q)
    PROVE  SyncInv'
<1>1. req' = [req EXCEPT ![q] = FreeRequest] /\ UNCHANGED <<user, db, sold>>
  BY DEF Cut, device, server
<1>2. \A p \in Pages : RoundGood(round[p]) /\ RoundGood(IdleRound)
  BY IdleGood DEF SyncInv
<1>3. round' = [p \in Pages |-> IF round[p].req = q THEN IdleRound ELSE round[p]]
  BY DEF Cut
<1>4. \A p \in Pages : round'[p] = IdleRound \/ round'[p] = round[p]
  BY <1>3
<1>5. \A p \in Pages : RoundGood(round[p])'
  BY <1>1, <1>2, <1>4 DEF RoundGood, Recorded
<1>6. round' \in [Pages -> Round]
  BY <1>2, <1>3 DEF RoundGood
<1>7. \A o \in Requests : RequestGood(req[o])'
  <2> SUFFICES ASSUME NEW o \in Requests PROVE RequestGood(req[o])'
    OBVIOUS
  <2>1. req'[o] = FreeRequest \/ req'[o] = req[o]
    BY <1>1 DEF SyncInv, RecordsTypeOK
  <2>2. RequestGood(req[o])
    BY DEF SyncInv
  <2> QED
    BY <1>1, <2>1, <2>2, FreeGood DEF RequestGood, Recorded
<1>8. RecordsTypeOK'
  BY <1>1, <1>6, FreeGoodNext DEF SyncInv, RecordsTypeOK
<1>9. SyncedIsSold'
  BY <1>1, UnchangedRecorded, SyncedStays DEF SyncInv
<1> QED
  BY <1>5, <1>7, <1>8, <1>9 DEF SyncInv

-----------------------------------------------------------------------------
(* The invariant of the specification.                                     *)

LEMMA SyncInvInit == Init => SyncInv
<1> SUFFICES ASSUME Init PROVE SyncInv
  OBVIOUS
<1>1. RecordsTypeOK
  BY IdleGood, FreeGood DEF Init, RecordsTypeOK, RoundGood, RequestGood, Statuses
<1>2. SyncedIsSold
  BY DEF Init, SyncedIsSold
<1>3. \A p \in Pages : RoundGood(round[p])
  BY IdleGood DEF Init
<1>4. \A q \in Requests : RequestGood(req[q])
  BY FreeGood DEF Init
<1> QED
  BY <1>1, <1>2, <1>3, <1>4 DEF SyncInv

LEMMA SyncInvNext == SyncInv /\ [Next]_vars => SyncInv'
<1> SUFFICES ASSUME SyncInv, [Next]_vars PROVE SyncInv'
  OBVIOUS
<1>1. ASSUME NEW s \in Sales, SellLocally(s) PROVE SyncInv'
  BY <1>1, SellLocallyStep
<1>2. CASE Refresh
  BY <1>2, QuietSteps
<1>3. CASE \E u \in Users \cup {None} : SwitchUser(u)
  BY <1>3, QuietSteps
<1>4. CASE \E l \in Loads : Fetch(l) \/ Save(l)
  BY <1>4, QuietSteps
<1>5. ASSUME NEW p \in Pages, StartRound(p) \/ PageStep(p) \/ Abandon(p) PROVE SyncInv'
  <2>1. CASE StartRound(p)
    BY <2>1, StartRoundStep
  <2>2. CASE ReadQueue(p)
    BY <2>2, ReadQueueStep
  <2>3. ASSUME NEW q \in Requests, Send(p, q) PROVE SyncInv'
    BY <2>3, SendStep
  <2>4. CASE Receive(p)
    BY <2>4, ReceiveStep
  <2>5. CASE Apply(p)
    BY <2>5, ApplyStep
  <2>6. CASE Put(p)
    BY <2>6, PutStep
  <2>7. CASE Abandon(p)
    BY <2>7, AbandonStep
  <2> QED
    BY <1>5, <2>1, <2>2, <2>3, <2>4, <2>5, <2>6, <2>7 DEF PageStep
<1>6. ASSUME NEW q \in Requests, ServerStep(q) PROVE SyncInv'
  BY <1>6, LookStep, CreateStep, CreateRefusedStep, RecheckStep, AnswerStep, UnreadStep
     DEF ServerStep
<1>7. ASSUME NEW q \in Requests, ServerTrouble(q) PROVE SyncInv'
  BY <1>7, LookFailsStep, CreateFailsStep, RecheckFailsStep, CutStep DEF ServerTrouble
<1>8. CASE OtherSale
  BY <1>8, QuietSteps
<1>9. CASE UNCHANGED vars
  BY <1>9, QuietSteps
<1> QED
  BY <1>1, <1>2, <1>3, <1>4, <1>5, <1>6, <1>7, <1>8, <1>9 DEF Next

LEMMA SyncInvAlways == Spec => []SyncInv
<1> QED
  BY SyncInvInit, SyncInvNext, PTL DEF Spec

\* A sale that the device shows as synchronized is recorded at the server: with
\* any number of pages, users, lost answers, restarts and late results
\* (updateOfflineSale, syncOfflineSales).
THEOREM SyncedCorrect == Spec => []SyncedIsSold
<1>1. SyncInv => SyncedIsSold
  BY DEF SyncInv
<1> QED
  BY <1>1, SyncInvAlways, PTL

\* The rounds, the requests, the databases of the device and the sales of the
\* server keep their form through every step.
THEOREM RecordsTyped == Spec => []RecordsTypeOK
<1>1. SyncInv => RecordsTypeOK
  BY DEF SyncInv
<1> QED
  BY <1>1, SyncInvAlways, PTL

-----------------------------------------------------------------------------
(* As long as nobody else signs in, a sale is recorded once.  All requests *)
(* then carry the same identifier, which is the primary key of the sale.   *)

OnceInv ==
    /\ user \in Users
    /\ \A q \in Requests : req[q].at # "free" => req[q].as = user
    /\ \A v \in Users, s \in Sales : sold[v][s] <= 1 /\ (sold[v][s] > 0 => v = user)

\* Without a login or a logout the signed-in user is always the same.
LEMMA UserStays ==
    ASSUME "switch" \notin Faults, [Next]_vars
    PROVE  user' = user
  BY DEF Next, vars, device, SellLocally, Refresh, SwitchUser, Fetch, Save,
         PageStep, StartRound, ReadQueue, Send, Receive, Apply, Put, Abandon,
         ServerStep, Look, Create, CreateRefused, Recheck, Answer, Unread,
         ServerTrouble, LookFails, CreateFails, RecheckFails, Cut, OtherSale

\* The statements of a request keep the user it was sent for.
LEMMA SenderStays ==
    ASSUME SyncInv, user \in Users, [Next]_vars, NEW o \in Requests, req'[o].at # "free"
    PROVE  req'[o].as = user \/ (req[o].at # "free" /\ req'[o].as = req[o].as)
<1>1. req \in [Requests -> Request]
  BY DEF SyncInv, RecordsTypeOK
<1>2. FreeRequest.at = "free"
  BY DEF FreeRequest
<1>3. CASE req' = req
  BY <1>3
<1>4. ASSUME NEW q \in Requests, req' = [req EXCEPT ![q] = FreeRequest]
      PROVE  req[o].at # "free" /\ req'[o].as = req[o].as
  <2>1. o # q
    BY <1>1, <1>2, <1>4
  <2> QED
    BY <1>1, <1>4, <2>1
<1>5. ASSUME NEW q \in Requests, NEW r, req' = [req EXCEPT ![q] = r],
             req[q].at # "free", r.as = req[q].as
      PROVE  req[o].at # "free" /\ req'[o].as = req[o].as
  BY <1>1, <1>5
<1>6. ASSUME NEW q \in Requests, NEW s, NEW l, NEW e, Continue(q, s, l, e), req[q].at # "free"
      PROVE  req[o].at # "free" /\ req'[o].as = req[o].as
  <2>1. [req[q] EXCEPT !.at = l, !.sale = s, !.error = e].as = req[q].as
    BY <1>1 DEF Request
  <2> QED
    BY <1>5, <1>6, <2>1 DEF Continue
<1>7. ASSUME NEW q \in Requests, NEW s, NEW e, Conclude(q, s, e), req[q].at # "free"
      PROVE  req[o].at # "free" /\ req'[o].as = req[o].as
  <2>1. Note(q, s, e).as = req[q].as
    BY <1>1 DEF Request, Note
  <2> QED
    BY <1>5, <1>7, <2>1 DEF Conclude
<1>8. ASSUME NEW p \in Pages, NEW q \in Requests, Send(p, q)
      PROVE  req'[o].as = user \/ (req[o].at # "free" /\ req'[o].as = req[o].as)
  <2> DEFINE r == [req[q] EXCEPT !.at = "next", !.as = Sender(p), !.todo = round[p].batch]
  <2>1. req' = [req EXCEPT ![q] = r]
    BY <1>8 DEF Send
  <2>2. Sender(p) = user
    BY ModelValues DEF Sender
  <2>3. r.as = user
    BY <1>1, <2>2 DEF Request
  <2> HIDE DEF r
  <2> QED
    BY <1>1, <2>1, <2>3
<1>9. ASSUME NEW p \in Pages, Receive(p)
      PROVE  req[o].at # "free" /\ req'[o].as = req[o].as
  <2>1. round[p].req \in Requests
    BY <1>9 DEF SyncInv, RoundGood, Receive
  <2> QED
    BY <1>4, <1>9, <2>1 DEF Receive
<1>10. ASSUME NEW q \in Requests, ServerStep(q) \/ ServerTrouble(q)
       PROVE  req[o].at # "free" /\ req'[o].as = req[o].as
  <2>1. CASE Look(q)
    BY <1>6, <1>7, <2>1 DEF Look
  <2>2. CASE LookFails(q)
    BY <1>7, <2>2 DEF LookFails
  <2>3. CASE Create(q) \/ Recheck(q) \/ RecheckFails(q)
    BY <1>7, <2>3 DEF Create, Recheck, RecheckFails
  <2>4. CASE CreateRefused(q) \/ CreateFails(q)
    BY <1>6, <2>4 DEF CreateRefused, CreateFails
  <2>5. CASE Answer(q)
    <3>1. Answered(q).as = req[q].as
      BY <1>1 DEF Request, Answered
    <3> QED
      BY <1>5, <2>5, <3>1 DEF Answer
  <2>6. CASE Unread(q) \/ Cut(q)
    BY <1>4, <2>6 DEF Unread, Cut
  <2> QED
    BY <1>10, <2>1, <2>2, <2>3, <2>4, <2>5, <2>6 DEF ServerStep, ServerTrouble
<1>11. ASSUME NEW p \in Pages,
              StartRound(p) \/ ReadQueue(p) \/ Apply(p) \/ Put(p) \/ Abandon(p)
       PROVE  req' = req
  BY <1>11 DEF StartRound, ReadQueue, Apply, Put, Abandon
<1>12. ASSUME \/ \E s \in Sales : SellLocally(s)
              \/ Refresh
              \/ \E u \in Users \cup {None} : SwitchUser(u)
              \/ \E l \in Loads : Fetch(l) \/ Save(l)
              \/ OtherSale
              \/ UNCHANGED vars
       PROVE  req' = req
  BY <1>12 DEF SellLocally, Refresh, SwitchUser, Fetch, Save, OtherSale, vars
<1> QED
  BY <1>3, <1>8, <1>9, <1>10, <1>11, <1>12 DEF Next, PageStep

\* A sale is recorded by the commit of a request and by nothing else.
LEMMA OnlyInsertRecords ==
    ASSUME SyncInv, [Next]_vars
    PROVE  \/ sold' = sold
           \/ \E q \in Requests, s \in Sales : req[q].at = "create" /\ Insert(q, s)
<1>1. ASSUME NEW q \in Requests, Create(q) \/ CreateFails(q)
      PROVE  \/ sold' = sold
             \/ \E s \in Sales : req[q].at = "create" /\ Insert(q, s)
  <2>1. req[q].at = "create" /\ req[q].sale \in Sales
    BY <1>1 DEF SyncInv, RequestGood, Create, CreateFails
  <2> QED
    BY <1>1, <2>1 DEF Create, CreateFails, server
<1>2. ASSUME NEW q \in Requests, ServerStep(q) \/ ServerTrouble(q)
      PROVE  \/ sold' = sold
             \/ \E s \in Sales : req[q].at = "create" /\ Insert(q, s)
  BY <1>1, <1>2 DEF ServerStep, ServerTrouble, Look, LookFails, CreateRefused, Recheck,
                    RecheckFails, Answer, Unread, Cut, server
<1>3. ASSUME NEW p \in Pages, StartRound(p) \/ PageStep(p) \/ Abandon(p)
      PROVE  sold' = sold
  BY <1>3 DEF PageStep, StartRound, ReadQueue, Send, Receive, Apply, Put, Abandon, server
<1>4. ASSUME \/ \E s \in Sales : SellLocally(s)
             \/ Refresh
             \/ \E u \in Users \cup {None} : SwitchUser(u)
             \/ \E l \in Loads : Fetch(l) \/ Save(l)
             \/ OtherSale
             \/ UNCHANGED vars
      PROVE  sold' = sold
  BY <1>4 DEF SellLocally, Refresh, SwitchUser, Fetch, Save, OtherSale, vars, server
<1> QED
  BY <1>2, <1>3, <1>4 DEF Next

LEMMA OnceInvNext ==
    ASSUME "switch" \notin Faults, SyncInv, OnceInv, [Next]_vars
    PROVE  OnceInv'
<1>1. user' = user
  BY UserStays
<1>2. \A q \in Requests : req'[q].at # "free" => req'[q].as = user
  BY SenderStays DEF OnceInv
<1>3. sold \in [Users -> [Sales -> Nat]]
  BY DEF SyncInv, RecordsTypeOK
<1>4. ASSUME NEW q \in Requests, NEW s \in Sales, req[q].at = "create", Insert(q, s),
             NEW v \in Users, NEW t \in Sales
      PROVE  sold'[v][t] <= 1 /\ (sold'[v][t] > 0 => v = user)
  <2>1. req[q].as = user
    BY <1>4 DEF OnceInv
  <2>2. sold' = [sold EXCEPT ![user][s] = @ + 1]
    BY <1>4, <2>1 DEF Insert
  <2>3. sold[user][s] = 0
    <3>1. sold[user][s] \in Nat /\ ~(sold[user][s] > 0)
      BY <1>3, <1>4, <2>1 DEF OnceInv, Insert, Exists
    <3> QED
      BY <3>1
  <2>4. sold'[v][t] = IF v = user /\ t = s THEN 1 ELSE sold[v][t]
    BY <1>3, <2>2, <2>3 DEF OnceInv
  <2> QED
    BY <2>4 DEF OnceInv
<1>5. \A v \in Users, t \in Sales : sold'[v][t] <= 1 /\ (sold'[v][t] > 0 => v = user)
  BY <1>4, OnlyInsertRecords DEF OnceInv
<1> QED
  BY <1>1, <1>2, <1>5 DEF OnceInv

\* As long as nobody else signs in on the device, a sale is recorded at most once,
\* however many pages, requests, retries, lost answers and errors after a commit
\* there are (createOffline, syncOfflineSales).
THEOREM SoldOnceCorrect ==
    ASSUME "switch" \notin Faults
    PROVE  Spec => []SoldOnce
<1>1. Init => OnceInv
  BY DEF Init, OnceInv, FreeRequest
<1>2. SyncInv /\ OnceInv /\ [Next]_vars => OnceInv'
  BY OnceInvNext
<1>3. OnceInv => SoldOnce
  BY DEF OnceInv, SoldOnce
<1> QED
  BY <1>1, <1>2, <1>3, SyncInvAlways, PTL DEF Spec

-----------------------------------------------------------------------------
(* The units of the catalogue.                                             *)

LEMMA MaxZero ==
    ASSUME NEW n \in Int
    PROVE  Max({0, n}) \in Nat /\ (Max({0, n}) = 0 \/ Max({0, n}) = n)
<1>1. \E x \in {0, n} : \A y \in {0, n} : x >= y
  <2>1. CASE n >= 0
    BY <2>1
  <2>2. CASE ~(n >= 0)
    BY <2>2
  <2> QED
    BY <2>1, <2>2
<1>2. Max({0, n}) \in {0, n} /\ \A y \in {0, n} : Max({0, n}) >= y
  BY <1>1 DEF Max
<1> QED
  BY <1>2

LEMMA UnitsNat ==
    ASSUME NEW T \in SUBSET Sales
    PROVE  UnitsOf(T) \in Nat
<1>1. IsFiniteSet(T) /\ \A s \in T : Units[s] \in Nat
  BY SalesAssumption, ConstantsAssumption, FS_Subset DEF ConstantsAssumption
<1> QED
  BY <1>1, SumNat DEF UnitsOf

LEMMA UnitsOneMore ==
    ASSUME NEW T \in SUBSET Sales, NEW s \in Sales, s \notin T
    PROVE  UnitsOf(T \cup {s}) = Units[s] + UnitsOf(T)
<1>1. IsFiniteSet(T) /\ \A x \in T \cup {s} : Units[x] \in Int
  BY SalesAssumption, ConstantsAssumption, FS_Subset DEF ConstantsAssumption
<1> QED
  BY <1>1, SumAdd DEF UnitsOf

LEMMA UnitsFewer ==
    ASSUME NEW V \in SUBSET Sales, NEW T \in SUBSET V
    PROVE  UnitsOf(T) <= UnitsOf(V)
<1>1. IsFiniteSet(V) /\ \A x \in V : Units[x] \in Nat
  BY SalesAssumption, ConstantsAssumption, FS_Subset DEF ConstantsAssumption
<1> QED
  BY <1>1, SumSubset DEF UnitsOf

LEMMA UnitsPart ==
    ASSUME NEW V \in SUBSET Sales, NEW T \in SUBSET V
    PROVE  UnitsOf(V) = UnitsOf(T) + UnitsOf(V \ T)
<1>1. IsFiniteSet(V) /\ \A x \in V : Units[x] \in Int
  BY SalesAssumption, ConstantsAssumption, FS_Subset DEF ConstantsAssumption
<1> QED
  BY <1>1, SumPart DEF UnitsOf

\* The steps that write a database or a catalogue of the device.
LEMMA DeviceSteps ==
    ASSUME [Next]_vars
    PROVE  \/ UNCHANGED <<db, cache>>
           \/ \E s \in Sales : SellLocally(s)
           \/ Refresh
           \/ \E l \in Loads : Save(l)
           \/ \E p \in Pages : Put(p)
<1> DEFINE Goal == \/ UNCHANGED <<db, cache>>
                   \/ \E s \in Sales : SellLocally(s)
                   \/ Refresh
                   \/ \E l \in Loads : Save(l)
                   \/ \E p \in Pages : Put(p)
<1>1. ASSUME NEW p \in Pages, StartRound(p) \/ PageStep(p) \/ Abandon(p)
      PROVE  Goal
  BY <1>1 DEF PageStep, StartRound, ReadQueue, Send, Receive, Apply, Abandon, device
<1>2. ASSUME NEW q \in Requests, ServerStep(q) \/ ServerTrouble(q)
      PROVE  Goal
  BY <1>2 DEF ServerStep, ServerTrouble, Look, LookFails, Create, CreateRefused, CreateFails,
              Recheck, RecheckFails, Answer, Unread, Cut, device
<1>3. ASSUME \/ \E u \in Users \cup {None} : SwitchUser(u)
             \/ \E l \in Loads : Fetch(l)
             \/ OtherSale
             \/ UNCHANGED vars
      PROVE  Goal
  BY <1>3 DEF SwitchUser, Fetch, OtherSale, vars, device
<1> QED
  BY <1>1, <1>2, <1>3 DEF Next

\* The steps that write the quantity at the server.
LEMMA StockAtServerSteps ==
    ASSUME SyncInv, [Next]_vars
    PROVE  \/ UNCHANGED <<sold, stock, others>>
           \/ \E q \in Requests, s \in Sales :
                 req[q].at = "create" /\ s = req[q].sale /\ Insert(q, s)
           \/ OtherSale
<1> DEFINE Goal == \/ UNCHANGED <<sold, stock, others>>
                   \/ \E q \in Requests, s \in Sales :
                         req[q].at = "create" /\ s = req[q].sale /\ Insert(q, s)
                   \/ OtherSale
<1>1. ASSUME NEW q \in Requests, Create(q) \/ CreateFails(q)
      PROVE  Goal
  <2>1. req[q].at = "create" /\ req[q].sale \in Sales
    BY <1>1 DEF SyncInv, RequestGood, Create, CreateFails
  <2> QED
    BY <1>1, <2>1 DEF Create, CreateFails, server
<1>2. ASSUME NEW q \in Requests, ServerStep(q) \/ ServerTrouble(q)
      PROVE  Goal
  BY <1>1, <1>2 DEF ServerStep, ServerTrouble, Look, LookFails, CreateRefused, Recheck,
                    RecheckFails, Answer, Unread, Cut, server
<1>3. ASSUME NEW p \in Pages, StartRound(p) \/ PageStep(p) \/ Abandon(p)
      PROVE  Goal
  BY <1>3 DEF PageStep, StartRound, ReadQueue, Send, Receive, Apply, Put, Abandon, server
<1>4. ASSUME \/ \E s \in Sales : SellLocally(s)
             \/ Refresh
             \/ \E u \in Users \cup {None} : SwitchUser(u)
             \/ \E l \in Loads : Fetch(l) \/ Save(l)
             \/ UNCHANGED vars
      PROVE  Goal
  BY <1>4 DEF SellLocally, Refresh, SwitchUser, Fetch, Save, vars, server
<1> QED
  BY <1>2, <1>3, <1>4 DEF Next

\* The steps that write what a load of the catalogue has received.
LEMMA LoadSteps ==
    ASSUME [Next]_vars
    PROVE  UNCHANGED fetched \/ \E l \in Loads : Fetch(l) \/ Save(l)
<1> DEFINE Goal == UNCHANGED fetched \/ \E l \in Loads : Fetch(l) \/ Save(l)
<1>1. ASSUME NEW p \in Pages, StartRound(p) \/ PageStep(p) \/ Abandon(p)
      PROVE  Goal
  BY <1>1 DEF PageStep, StartRound, ReadQueue, Send, Receive, Apply, Put, Abandon, device
<1>2. ASSUME NEW q \in Requests, ServerStep(q) \/ ServerTrouble(q)
      PROVE  Goal
  BY <1>2 DEF ServerStep, ServerTrouble, Look, LookFails, Create, CreateRefused, CreateFails,
              Recheck, RecheckFails, Answer, Unread, Cut, device
<1>3. ASSUME \/ \E s \in Sales : SellLocally(s)
             \/ Refresh
             \/ \E u \in Users \cup {None} : SwitchUser(u)
             \/ OtherSale
             \/ UNCHANGED vars
      PROVE  Goal
  BY <1>3 DEF SellLocally, Refresh, SwitchUser, OtherSale, vars, device
<1> QED
  BY <1>1, <1>2, <1>3 DEF Next

LEMMA TroubleTyped ==
    ASSUME trouble \in Nat, [Next]_vars
    PROVE  trouble' \in Nat
<1>1. trouble' = trouble \/ trouble' = trouble + 1
  BY DEF Next, vars, SellLocally, Refresh, SwitchUser, Fetch, Save,
         PageStep, StartRound, ReadQueue, Send, Receive, Apply, Put, Abandon,
         ServerStep, Look, Create, CreateRefused, Recheck, Answer, Unread,
         ServerTrouble, LookFails, CreateFails, RecheckFails, Cut, OtherSale, Trouble
<1> QED
  BY <1>1

LEMMA TypeKept ==
    ASSUME SyncInv, SyncInv', TypeOK, [Next]_vars
    PROVE  TypeOK'
<1>0. /\ cache \in [Users -> Nat] /\ stock \in Nat /\ others \in Nat
      /\ fetched \in [Loads -> [owner : Users, units : Nat] \cup {None}]
      /\ user \in Users \cup {None}
  BY DEF TypeOK, RecordsTypeOK
<1>1. RecordsTypeOK'
  BY DEF SyncInv
<1>2. ASSUME NEW u \in Users, NEW n \in Nat
      PROVE  Catalogue(u, n) \in [Users -> Nat]
  <2>1. UnitsOf(Unsynced(u)) \in Nat
    BY UnitsNat DEF Unsynced
  <2>2. Max({0, n - UnitsOf(Unsynced(u))}) \in Nat
    BY <2>1, MaxZero
  <2> QED
    BY <1>0, <2>2 DEF Catalogue
<1>3. ASSUME NEW l \in Loads, fetched[l] # None
      PROVE  fetched[l].owner \in Users /\ fetched[l].units \in Nat
  BY <1>0, <1>3
<1>4. cache' \in [Users -> Nat]
  <2>1. ASSUME NEW s \in Sales, SellLocally(s)
        PROVE  cache' \in [Users -> Nat]
    <3>1. user \in Users /\ Units[s] \in Nat /\ cache[user] >= Units[s]
      BY <1>0, <2>1, ConstantsAssumption DEF SellLocally, ConstantsAssumption
    <3>2. cache[user] - Units[s] \in Nat
      BY <1>0, <3>1
    <3> QED
      BY <1>0, <2>1, <3>1, <3>2 DEF SellLocally
  <2>2. CASE Refresh
    BY <1>0, <1>2, <2>2 DEF Refresh
  <2>3. ASSUME NEW l \in Loads, Save(l)
        PROVE  cache' \in [Users -> Nat]
    BY <1>0, <1>2, <1>3, <2>3 DEF Save
  <2> QED
    BY <1>0, <2>1, <2>2, <2>3, DeviceSteps DEF Put
<1>5. fetched' \in [Loads -> [owner : Users, units : Nat] \cup {None}]
  <2>1. ASSUME NEW l \in Loads, Fetch(l)
        PROVE  fetched' \in [Loads -> [owner : Users, units : Nat] \cup {None}]
    <3>1. [owner |-> user, units |-> stock] \in [owner : Users, units : Nat]
      BY <1>0, <2>1 DEF Fetch
    <3> QED
      BY <1>0, <2>1, <3>1 DEF Fetch
  <2>2. ASSUME NEW l \in Loads, Save(l)
        PROVE  fetched' \in [Loads -> [owner : Users, units : Nat] \cup {None}]
    BY <1>0, <2>2 DEF Save
  <2> QED
    BY <1>0, <2>1, <2>2, LoadSteps
<1>6. stock' \in Nat /\ others' \in Nat
  <2>1. ASSUME NEW q \in Requests, NEW s \in Sales, Insert(q, s)
        PROVE  stock' \in Nat /\ others' \in Nat
    BY <1>0, <2>1, ConstantsAssumption DEF Insert, ConstantsAssumption
  <2>2. CASE OtherSale
    BY <1>0, <2>2 DEF OtherSale
  <2> QED
    BY <1>0, <2>1, <2>2, StockAtServerSteps
<1>7. trouble' \in Nat
  BY TroubleTyped DEF TypeOK
<1> QED
  BY <1>1, <1>4, <1>5, <1>6, <1>7 DEF TypeOK

LEMMA InitTypeOK == Init => TypeOK
<1> SUFFICES ASSUME Init
             PROVE  TypeOK
  OBVIOUS
<1>1. RecordsTypeOK
  BY SyncInvInit DEF SyncInv
<1> QED
  BY <1>1, ConstantsAssumption DEF Init, TypeOK, ConstantsAssumption

\* The device, the requests and the server keep their form through every step; no
\* quantity of a catalogue or of the server goes below zero.
THEOREM DeviceTypeCorrect == Spec => []TypeOK
<1>1. SyncInv /\ SyncInv' /\ TypeOK /\ [Next]_vars => TypeOK'
  BY TypeKept
<1> QED
  BY <1>1, InitTypeOK, SyncInvAlways, PTL DEF Spec

-----------------------------------------------------------------------------
(* As long as nobody else signs in and no catalogue is loaded across a     *)
(* synchronization, the device rings up no more than the server had.       *)

\* The sales in the database of the signed-in user.
OnDevice == {s \in Sales : db[user][s] # "NONE"}

\* A round or a request is about sales of that database.
RoundKnown(r, K) ==
    /\ r.at # "idle" => r.owner = user
    /\ r.batch \subseteq K
    /\ \A s \in Sales : r.results[s] # None => s \in K
    /\ r.at = "put" => r.sale \in K

RequestKnown(m, K) ==
    /\ m.todo \subseteq K
    /\ m.at \in {"create", "recheck"} => m.sale \in K
    /\ \A s \in Sales : m.results[s] # None => s \in K

KnownInv ==
    /\ user \in Users
    /\ \A p \in Pages : RoundKnown(round[p], OnDevice)
    /\ \A q \in Requests : RequestKnown(req[q], OnDevice)

LEMMA IdleKnown ==
    \A K : RoundKnown(IdleRound, K) /\ RequestKnown(FreeRequest, K)
  BY DEF RoundKnown, RequestKnown, IdleRound, FreeRequest, NoResults

\* What a step makes of the rounds.
LEMMA RoundsKnown ==
    ASSUME SyncInv, KnownInv, [Next]_vars, NEW p \in Pages
    PROVE  RoundKnown(round'[p], OnDevice)
<1> DEFINE Goal == RoundKnown(round'[p], OnDevice)
<1>0. /\ round \in [Pages -> Round] /\ req \in [Requests -> Request]
      /\ \A o \in Pages : RoundGood(round[o]) /\ RoundKnown(round[o], OnDevice)
  BY DEF SyncInv, RecordsTypeOK, KnownInv
<1>1. ASSUME round' = round
      PROVE  Goal
  BY <1>0, <1>1
<1>2. ASSUME NEW o \in Pages, NEW r, round' = [round EXCEPT ![o] = r],
             RoundKnown(r, OnDevice)
      PROVE  Goal
  BY <1>0, <1>2
<1>3. ASSUME NEW o \in Pages, EndRound(o)
      PROVE  Goal
  BY <1>2, <1>3, IdleKnown DEF EndRound
<1>4. ASSUME NEW o \in Pages, StartRound(o)
      PROVE  Goal
  <2> DEFINE r == [round[o] EXCEPT !.at = "read", !.owner = user]
  <2>1. round' = [round EXCEPT ![o] = r]
    BY <1>4 DEF StartRound
  <2>2. /\ r.at = "read" /\ r.owner = user /\ r.batch = round[o].batch
        /\ r.results = round[o].results
    BY <1>0 DEF Round
  <2>3. RoundKnown(r, OnDevice)
    BY <1>0, <2>2 DEF RoundKnown
  <2> QED
    BY <1>2, <2>1, <2>3
<1>5. ASSUME NEW o \in Pages, ReadQueue(o)
      PROVE  Goal
  <2> DEFINE b == Pending(round[o].owner)
             r == [round[o] EXCEPT !.at = "send", !.batch = b]
  <2>1. EndRound(o) \/ round' = [round EXCEPT ![o] = r]
    BY <1>5 DEF ReadQueue
  <2>2. round[o].owner = user
    BY <1>0, <1>5 DEF ReadQueue, RoundKnown
  <2>3. b \subseteq OnDevice
    BY <2>2 DEF Pending, OnDevice
  <2>4. /\ r.at = "send" /\ r.owner = round[o].owner /\ r.batch = b
        /\ r.results = round[o].results
    BY <1>0 DEF Round
  <2>5. RoundKnown(r, OnDevice)
    BY <1>0, <2>2, <2>3, <2>4 DEF RoundKnown
  <2> QED
    BY <1>2, <1>3, <2>1, <2>5
<1>6. ASSUME NEW o \in Pages, NEW q \in Requests, Send(o, q)
      PROVE  Goal
  <2> DEFINE r == [round[o] EXCEPT !.at = "wait", !.batch = {}, !.req = q]
  <2>1. round' = [round EXCEPT ![o] = r] /\ round[o].at = "send"
    BY <1>6 DEF Send
  <2>2. /\ r.at = "wait" /\ r.owner = round[o].owner /\ r.batch = {}
        /\ r.results = round[o].results
    BY <1>0 DEF Round
  <2>3. RoundKnown(r, OnDevice)
    BY <1>0, <2>1, <2>2 DEF RoundKnown
  <2> QED
    BY <1>2, <2>1, <2>3
<1>7. ASSUME NEW o \in Pages, Receive(o)
      PROVE  Goal
  <2> DEFINE rs == req[round[o].req].results
             r == [round[o] EXCEPT !.at = "apply", !.req = None, !.results = rs]
  <2>1. EndRound(o) \/ round' = [round EXCEPT ![o] = r]
    BY <1>7 DEF Receive
  <2>2. round[o].req \in Requests /\ round[o].at = "wait"
    BY <1>0, <1>7 DEF Receive, RoundGood
  <2>3. \A s \in Sales : rs[s] # None => s \in OnDevice
    BY <2>2 DEF KnownInv, RequestKnown
  <2>4. /\ r.at = "apply" /\ r.owner = round[o].owner /\ r.batch = round[o].batch
        /\ r.results = rs
    BY <1>0 DEF Round
  <2>5. RoundKnown(r, OnDevice)
    BY <1>0, <2>2, <2>3, <2>4 DEF RoundKnown
  <2> QED
    BY <1>2, <1>3, <2>1, <2>5
<1>8. ASSUME NEW o \in Pages, Apply(o)
      PROVE  Goal
  <2>1. CASE EndRound(o)
    BY <1>3, <2>1
  <2>2. ASSUME NEW s \in Sales, round[o].results[s] # None,
               round' = [round EXCEPT ![o] =
                           [@ EXCEPT !.at = "put", !.sale = s,
                                     !.outcome = round[o].results[s],
                                     !.results = [round[o].results EXCEPT ![s] = None]]]
        PROVE  Goal
    <3> DEFINE rs == [round[o].results EXCEPT ![s] = None]
               r == [round[o] EXCEPT !.at = "put", !.sale = s,
                                     !.outcome = round[o].results[s], !.results = rs]
    <3>1. round' = [round EXCEPT ![o] = r] /\ round[o].at = "apply"
      BY <1>8, <2>2 DEF Apply
    <3>2. s \in OnDevice
      BY <1>0, <2>2 DEF RoundKnown
    <3>3. \A t \in Sales : rs[t] # None => t \in OnDevice
      BY <1>0 DEF RoundKnown, Round
    <3>4. /\ r.at = "put" /\ r.owner = round[o].owner /\ r.batch = round[o].batch
          /\ r.results = rs /\ r.sale = s
      BY <1>0 DEF Round
    <3>5. RoundKnown(r, OnDevice)
      BY <1>0, <3>1, <3>2, <3>3, <3>4 DEF RoundKnown
    <3> QED
      BY <1>2, <3>1, <3>5
  <2> QED
    BY <1>8, <2>1, <2>2 DEF Apply
<1>9. ASSUME NEW o \in Pages, Put(o)
      PROVE  Goal
  <2> DEFINE r == [round[o] EXCEPT !.at = "apply", !.sale = None, !.outcome = None]
  <2>1. EndRound(o) \/ round' = [round EXCEPT ![o] = r]
    BY <1>9 DEF Put
  <2>2. /\ r.at = "apply" /\ r.owner = round[o].owner /\ r.batch = round[o].batch
        /\ r.results = round[o].results /\ round[o].at = "put"
    BY <1>0, <1>9 DEF Round, Put
  <2>3. RoundKnown(r, OnDevice)
    BY <1>0, <2>2 DEF RoundKnown
  <2> QED
    BY <1>2, <1>3, <2>1, <2>3
<1>10. ASSUME NEW o \in Pages, StartRound(o) \/ PageStep(o) \/ Abandon(o)
       PROVE  Goal
  BY <1>3, <1>4, <1>5, <1>6, <1>7, <1>8, <1>9, <1>10 DEF PageStep, Abandon
<1>11. ASSUME NEW q \in Requests, ServerStep(q) \/ ServerTrouble(q)
       PROVE  Goal
  <2>1. CASE Cut(q)
    <3>1. round'[p] = IdleRound \/ round'[p] = round[p]
      BY <2>1 DEF Cut
    <3> QED
      BY <1>0, <3>1, IdleKnown
  <2>2. CASE ~Cut(q)
    <3>1. round' = round
      BY <1>11, <2>2 DEF ServerStep, ServerTrouble, Look, LookFails, Create, CreateRefused,
                         CreateFails, Recheck, RecheckFails, Answer, Unread
    <3> QED
      BY <1>1, <3>1
  <2> QED
    BY <2>1, <2>2
<1>12. ASSUME \/ \E s \in Sales : SellLocally(s)
              \/ Refresh
              \/ \E u \in Users \cup {None} : SwitchUser(u)
              \/ \E l \in Loads : Fetch(l) \/ Save(l)
              \/ OtherSale
              \/ UNCHANGED vars
       PROVE  round' = round
  BY <1>12 DEF SellLocally, Refresh, SwitchUser, Fetch, Save, OtherSale, vars
<1> QED
  <2> HIDE DEF Goal
  <2>1. Goal
    BY <1>1, <1>10, <1>11, <1>12 DEF Next
  <2> QED
    BY <2>1 DEF Goal

\* What a step makes of the requests.
LEMMA RequestsKnown ==
    ASSUME SyncInv, KnownInv, [Next]_vars, NEW q \in Requests
    PROVE  RequestKnown(req'[q], OnDevice)
<1> DEFINE Goal == RequestKnown(req'[q], OnDevice)
<1>0. /\ req \in [Requests -> Request]
      /\ \A o \in Requests : RequestGood(req[o]) /\ RequestKnown(req[o], OnDevice)
      /\ \A p \in Pages : RoundGood(round[p]) /\ RoundKnown(round[p], OnDevice)
  BY DEF SyncInv, RecordsTypeOK, KnownInv
<1>1. ASSUME req' = req
      PROVE  Goal
  BY <1>0, <1>1
<1>2. ASSUME NEW o \in Requests, NEW m, req' = [req EXCEPT ![o] = m],
             RequestKnown(m, OnDevice)
      PROVE  Goal
  BY <1>0, <1>2
<1>3. ASSUME NEW o \in Requests, req' = [req EXCEPT ![o] = FreeRequest]
      PROVE  Goal
  BY <1>2, <1>3, IdleKnown
<1>4. ASSUME NEW p \in Pages, NEW o \in Requests, Send(p, o)
      PROVE  Goal
  <2> DEFINE m == [req[o] EXCEPT !.at = "next", !.as = Sender(p), !.todo = round[p].batch]
  <2>1. req' = [req EXCEPT ![o] = m]
    BY <1>4 DEF Send
  <2>2. m.at = "next" /\ m.todo = round[p].batch /\ m.results = req[o].results
    BY <1>0 DEF Request
  <2>3. RequestKnown(m, OnDevice)
    BY <1>0, <2>2 DEF RequestKnown, RoundKnown
  <2> QED
    BY <1>2, <2>1, <2>3
<1>5. ASSUME NEW p \in Pages, Receive(p)
      PROVE  Goal
  <2>1. round[p].req \in Requests
    BY <1>0, <1>5 DEF RoundGood, Receive
  <2> QED
    BY <1>3, <1>5, <2>1 DEF Receive
<1>6. ASSUME NEW o \in Requests, NEW s \in OnDevice, NEW l, NEW e, Continue(o, s, l, e)
      PROVE  Goal
  <2> DEFINE m == [req[o] EXCEPT !.at = l, !.sale = s, !.error = e]
  <2>1. req' = [req EXCEPT ![o] = m]
    BY <1>6 DEF Continue
  <2>2. m.sale = s /\ m.todo = req[o].todo /\ m.results = req[o].results
    BY <1>0 DEF Request
  <2>3. RequestKnown(m, OnDevice)
    BY <1>0, <2>2 DEF RequestKnown
  <2> QED
    BY <1>2, <2>1, <2>3
<1>7. ASSUME NEW o \in Requests, NEW s \in OnDevice, NEW e, Conclude(o, s, e)
      PROVE  Goal
  <2>1. PICK m : m = Note(o, s, e)
    OBVIOUS
  <2>2. req' = [req EXCEPT ![o] = m]
    BY <1>7, <2>1 DEF Conclude
  <2>3. /\ m.at = "next" /\ m.todo = req[o].todo \ {s}
        /\ m.results = [req[o].results EXCEPT ![s] = e]
    BY <1>0, <2>1 DEF Request, Note
  <2>4. \A t \in Sales : m.results[t] # None => t \in OnDevice
    BY <1>0, <2>3 DEF RequestKnown, Request
  <2>5. RequestKnown(m, OnDevice)
    BY <1>0, <2>3, <2>4 DEF RequestKnown
  <2> QED
    BY <1>2, <2>2, <2>5
<1>8. ASSUME NEW o \in Requests
      PROVE  /\ req[o].todo \subseteq OnDevice
             /\ req[o].at \in {"create", "recheck"} => req[o].sale \in OnDevice
  BY <1>0 DEF RequestKnown
<1>9. ASSUME NEW o \in Requests, ServerStep(o) \/ ServerTrouble(o)
      PROVE  Goal
  <2> HIDE DEF Goal
  <2>1. CASE Look(o)
    BY <1>6, <1>7, <1>8, <2>1 DEF Look
  <2>2. CASE LookFails(o)
    BY <1>7, <1>8, <2>2 DEF LookFails
  <2>3. CASE Create(o) \/ Recheck(o) \/ RecheckFails(o)
    BY <1>7, <1>8, <2>3 DEF Create, Recheck, RecheckFails
  <2>4. CASE CreateRefused(o) \/ CreateFails(o)
    BY <1>6, <1>8, <2>4 DEF CreateRefused, CreateFails
  <2>5. CASE Answer(o)
    <3>1. PICK m : m = Answered(o)
      OBVIOUS
    <3>2. /\ req' = [req EXCEPT ![o] = m]
          /\ m.at = "answered" /\ m.todo = req[o].todo /\ m.results = req[o].results
      BY <1>0, <2>5, <3>1 DEF Answer, Answered, Request
    <3>3. RequestKnown(m, OnDevice)
      BY <1>0, <3>2 DEF RequestKnown
    <3> QED
      BY <1>2, <3>2, <3>3
  <2>6. CASE Unread(o) \/ Cut(o)
    BY <1>3, <2>6 DEF Unread, Cut
  <2> QED
    BY <1>9, <2>1, <2>2, <2>3, <2>4, <2>5, <2>6 DEF ServerStep, ServerTrouble
<1>10. ASSUME NEW p \in Pages,
              StartRound(p) \/ ReadQueue(p) \/ Apply(p) \/ Put(p) \/ Abandon(p)
       PROVE  req' = req
  BY <1>10 DEF StartRound, ReadQueue, Apply, Put, Abandon
<1>11. ASSUME \/ \E s \in Sales : SellLocally(s)
              \/ Refresh
              \/ \E u \in Users \cup {None} : SwitchUser(u)
              \/ \E l \in Loads : Fetch(l) \/ Save(l)
              \/ OtherSale
              \/ UNCHANGED vars
       PROVE  req' = req
  BY <1>11 DEF SellLocally, Refresh, SwitchUser, Fetch, Save, OtherSale, vars
<1> QED
  <2> HIDE DEF Goal
  <2>1. Goal
    BY <1>1, <1>4, <1>5, <1>9, <1>10, <1>11 DEF Next, PageStep
  <2> QED
    BY <2>1 DEF Goal

\* A sale stays in the database.
LEMMA OnDeviceGrows ==
    ASSUME SyncInv, KnownInv, user' = user, [Next]_vars
    PROVE  OnDevice \subseteq OnDevice'
<1>0. db \in [Users -> [Sales -> Statuses]] /\ user \in Users
  BY DEF SyncInv, RecordsTypeOK, KnownInv
<1>1. ASSUME NEW s \in Sales, SellLocally(s)
      PROVE  OnDevice \subseteq OnDevice'
  BY <1>0, <1>1 DEF SellLocally, OnDevice
<1>2. ASSUME NEW p \in Pages, Put(p)
      PROVE  OnDevice \subseteq OnDevice'
  <2>1. round[p].outcome \in Outcomes
    BY <1>2 DEF SyncInv, RoundGood, Put
  <2>2. CASE UNCHANGED db
    BY <2>2 DEF OnDevice
  <2>3. CASE db' = [db EXCEPT ![user][round[p].sale] = round[p].outcome]
    BY <1>0, <2>1, <2>3 DEF OnDevice, Outcomes
  <2> QED
    BY <1>2, <2>2, <2>3 DEF Put
<1>3. CASE UNCHANGED db
  BY <1>3 DEF OnDevice
<1> QED
  BY <1>1, <1>2, <1>3, DeviceSteps DEF Refresh, Save

LEMMA KnownKept ==
    ASSUME "switch" \notin Faults, SyncInv, KnownInv, [Next]_vars
    PROVE  KnownInv'
<1>1. user' = user /\ OnDevice \subseteq OnDevice'
  BY UserStays, OnDeviceGrows
<1>2. ASSUME NEW p \in Pages
      PROVE  RoundKnown(round[p], OnDevice)'
  <2>1. RoundKnown(round'[p], OnDevice)
    BY RoundsKnown
  <2> QED
    BY <1>1, <2>1 DEF RoundKnown
<1>3. ASSUME NEW q \in Requests
      PROVE  RequestKnown(req[q], OnDevice)'
  <2>1. RequestKnown(req'[q], OnDevice)
    BY RequestsKnown
  <2> QED
    BY <1>1, <2>1 DEF RequestKnown
<1> QED
  BY <1>1, <1>2, <1>3 DEF KnownInv

Recordeds == {s \in Sales : Recorded(s)}

\* What is recorded at the server has left its quantity.
StockInv == stock + UnitsOf(Recordeds) <= Initial

\* What the catalogue still shows comes on top of what was rung up; no load is under way.
CacheInv ==
    /\ \A u \in Users : cache[u] + UnitsOf({s \in Sales : db[u][s] # "NONE"}) <= Initial
    /\ \A l \in Loads : fetched[l] = None

LEMMA StockKept ==
    ASSUME SyncInv, TypeOK, [Next]_vars, StockInv
    PROVE  StockInv'
<1>0. /\ stock \in Nat /\ Initial \in Nat /\ UnitsOf(Recordeds) \in Nat
      /\ sold \in [Users -> [Sales -> Nat]]
      /\ Recordeds \subseteq Sales /\ Recordeds' \subseteq Sales
  BY UnitsNat, ConstantsAssumption DEF TypeOK, RecordsTypeOK, ConstantsAssumption, Recordeds
<1>1. ASSUME NEW q \in Requests, NEW s \in Sales, Insert(q, s)
      PROVE  StockInv'
  <2>1. stock' = stock - Units[s] /\ Units[s] \in Nat
    BY <1>1, ConstantsAssumption DEF Insert, ConstantsAssumption
  <2>2. Recordeds' \subseteq Recordeds \cup {s}
    <3>1. \A v \in Users, t \in Sales : t # s => sold'[v][t] = sold[v][t]
      BY <1>0, <1>1 DEF Insert
    <3> QED
      BY <3>1 DEF Recordeds, Recorded
  <2>3. UnitsOf(Recordeds') \in Nat /\ UnitsOf(Recordeds \cup {s}) \in Nat
    BY <1>0, UnitsNat
  <2>4. UnitsOf(Recordeds') <= UnitsOf(Recordeds \cup {s})
    BY <1>0, <2>2, UnitsFewer
  <2>5. UnitsOf(Recordeds \cup {s}) <= UnitsOf(Recordeds) + Units[s]
    <3>1. CASE s \in Recordeds
      <4>1. Recordeds \cup {s} = Recordeds
        BY <3>1
      <4>2. UnitsOf(Recordeds \cup {s}) = UnitsOf(Recordeds)
        BY <4>1, Zenon
      <4> QED
        BY <1>0, <2>1, <4>2
    <3>2. CASE s \notin Recordeds
      <4>1. UnitsOf(Recordeds \cup {s}) = Units[s] + UnitsOf(Recordeds)
        BY <1>0, <3>2, UnitsOneMore
      <4> QED
        BY <1>0, <2>1, <4>1
    <3> QED
      BY <3>1, <3>2
  <2> HIDE DEF Recordeds
  <2> QED
    BY <1>0, <2>1, <2>3, <2>4, <2>5 DEF StockInv
<1>2. CASE OtherSale
  <2>1. Recordeds' = Recordeds /\ stock' = stock - 1
    BY <1>2 DEF OtherSale, Recordeds, Recorded
  <2> HIDE DEF Recordeds
  <2> QED
    BY <1>0, <2>1 DEF StockInv
<1>3. CASE UNCHANGED <<sold, stock>>
  BY <1>3 DEF StockInv, Recordeds, Recorded
<1> QED
  BY <1>1, <1>2, <1>3, StockAtServerSteps

LEMMA CacheKept ==
    ASSUME "switch" \notin Faults, "overlap" \notin Faults,
           SyncInv, TypeOK, KnownInv, StockInv, CacheInv, [Next]_vars
    PROVE  CacheInv'
<1> DEFINE Rung(u) == {s \in Sales : db[u][s] # "NONE"}
           Fits(u) == cache[u] + UnitsOf(Rung(u)) <= Initial
<1>0. /\ user' = user /\ user \in Users /\ Initial \in Nat /\ stock \in Nat
      /\ cache \in [Users -> Nat] /\ db \in [Users -> [Sales -> Statuses]]
      /\ \A u \in Users : Fits(u)
  BY UserStays, ConstantsAssumption
     DEF KnownInv, TypeOK, RecordsTypeOK, CacheInv, ConstantsAssumption
<1>1. \A l \in Loads : fetched'[l] = None
  BY LoadSteps DEF CacheInv, Fetch, Save
<1>2. ASSUME UNCHANGED <<db, cache>>
      PROVE  \A u \in Users : Fits(u)'
  BY <1>0, <1>2
<1>3. ASSUME NEW s \in Sales, SellLocally(s)
      PROVE  \A u \in Users : Fits(u)'
  <2>1. ASSUME NEW u \in Users, u # user
        PROVE  Fits(u)'
    <3>1. db'[u] = db[u] /\ cache'[u] = cache[u]
      BY <1>0, <1>3, <2>1 DEF SellLocally
    <3> QED
      BY <1>0, <3>1
  <2>2. Fits(user)'
    <3>1. /\ cache'[user] = cache[user] - Units[s] /\ Units[s] \in Nat
          /\ s \notin Rung(user) /\ Rung(user) \subseteq Sales
      BY <1>0, <1>3, ConstantsAssumption DEF SellLocally, ConstantsAssumption
    <3>2. Rung(user)' = Rung(user) \cup {s}
      BY <1>0, <1>3 DEF SellLocally
    <3>3. UnitsOf(Rung(user) \cup {s}) = Units[s] + UnitsOf(Rung(user))
      BY <3>1, UnitsOneMore
    <3>4. UnitsOf(Rung(user)) \in Nat
      BY UnitsNat
    <3>5. cache[user] \in Nat /\ Fits(user)
      BY <1>0
    <3>6. UnitsOf(Rung(user)') = Units[s] + UnitsOf(Rung(user))
      BY <3>2, <3>3, Zenon
    <3> HIDE DEF Rung
    <3> QED
      BY <1>0, <3>1, <3>4, <3>5, <3>6
  <2> QED
    BY <1>0, <2>1, <2>2
<1>4. ASSUME Refresh
      PROVE  \A u \in Users : Fits(u)'
  <2>1. ASSUME NEW u \in Users, u # user
        PROVE  Fits(u)'
    <3>1. db'[u] = db[u] /\ cache'[u] = cache[u]
      BY <1>0, <1>4, <2>1 DEF Refresh, Catalogue
    <3> QED
      BY <1>0, <3>1
  <2>2. Fits(user)'
    <3> DEFINE U == Unsynced(user)
               n == stock - UnitsOf(U)
    <3>1. cache'[user] = Max({0, n}) /\ db' = db
      BY <1>0, <1>4 DEF Refresh, Catalogue
    <3>2. U \subseteq Rung(user) /\ Rung(user) \ U \subseteq Recordeds
      BY <1>0 DEF Unsynced, SyncInv, SyncedIsSold, Recordeds, Recorded
    <3>3. /\ UnitsOf(U) \in Nat /\ UnitsOf(Rung(user)) \in Nat
          /\ UnitsOf(Rung(user) \ U) \in Nat /\ UnitsOf(Recordeds) \in Nat
      BY UnitsNat DEF Recordeds, Unsynced
    <3>4. UnitsOf(Rung(user)) = UnitsOf(U) + UnitsOf(Rung(user) \ U)
      BY <3>2, UnitsPart
    <3>5. UnitsOf(Rung(user) \ U) <= UnitsOf(Recordeds)
      <4>1. Recordeds \in SUBSET Sales
        BY DEF Recordeds
      <4> QED
        BY <3>2, <4>1, UnitsFewer
    <3>6. Rung(user)' = Rung(user)
      BY <1>0, <3>1
    <3>7. cache[user] \in Nat /\ Fits(user)
      BY <1>0
    <3>8. n \in Int /\ (Max({0, n}) = 0 \/ Max({0, n}) = n)
      BY <1>0, <3>3, MaxZero
    <3> HIDE DEF Rung, U
    <3>9. CASE cache'[user] = 0
      BY <1>0, <3>3, <3>6, <3>7, <3>9
    <3>10. CASE cache'[user] = n
      BY <1>0, <3>3, <3>4, <3>5, <3>6, <3>10 DEF StockInv
    <3> QED
      BY <3>1, <3>8, <3>9, <3>10
  <2> QED
    BY <1>0, <2>1, <2>2
<1>5. ASSUME NEW p \in Pages, Put(p)
      PROVE  \A u \in Users : Fits(u)'
  <2>1. round[p].sale \in OnDevice /\ round[p].outcome \in Outcomes
    BY <1>5 DEF KnownInv, RoundKnown, SyncInv, RoundGood, Put
  <2>2. cache' = cache /\ \A u \in Users : Rung(u)' = Rung(u)
    <3>1. CASE db' = db
      BY <1>5, <3>1 DEF Put
    <3>2. CASE db' = [db EXCEPT ![user][round[p].sale] = round[p].outcome]
      <4>1. \A u \in Users, s \in Sales : db'[u][s] # "NONE" <=> db[u][s] # "NONE"
        BY <1>0, <2>1, <3>2 DEF OnDevice, Outcomes
      <4> QED
        BY <1>5, <4>1 DEF Put
    <3> QED
      BY <1>5, <3>1, <3>2 DEF Put
  <2> HIDE DEF Rung
  <2> QED
    BY <1>0, <2>2
<1>6. ASSUME NEW l \in Loads, Save(l)
      PROVE  FALSE
  BY <1>6 DEF CacheInv, Save
<1>7. \A u \in Users : Fits(u)'
  <2> HIDE DEF Fits
  <2> QED
    BY <1>2, <1>3, <1>4, <1>5, <1>6, DeviceSteps
<1> QED
  BY <1>1, <1>7 DEF CacheInv

\* As long as nobody else signs in and no load of the catalogue meets a synchronization,
\* the device rings up no more units than the server had for it, with any number of pages,
\* rounds, lost answers, errors and sales of other tills (commitOfflineSale,
\* saveOfflineProducts).
THEOREM DeviceNeverOversellsCorrect ==
    ASSUME "switch" \notin Faults, "overlap" \notin Faults
    PROVE  Spec => []DeviceNeverOversells
<1> DEFINE I == TypeOK /\ KnownInv /\ StockInv /\ CacheInv
<1>1. Init => I
  <2> SUFFICES ASSUME Init
               PROVE  I
    OBVIOUS
  <2>1. TypeOK
    BY InitTypeOK
  <2>2. KnownInv
    BY IdleKnown DEF Init, KnownInv, RoundKnown
  <2>3. Initial \in Nat /\ UnitsOf({}) = 0
    BY SumEmpty, ConstantsAssumption DEF UnitsOf, ConstantsAssumption
  <2>4. StockInv
    <3>1. Recordeds = {}
      BY DEF Init, Recordeds, Recorded
    <3> QED
      BY <2>3, <3>1 DEF Init, StockInv
  <2>5. CacheInv
    <3>1. \A u \in Users : {s \in Sales : db[u][s] # "NONE"} = {} /\ cache[u] = 0
      BY DEF Init
    <3>2. \A u \in Users : UnitsOf({s \in Sales : db[u][s] # "NONE"}) = 0
      BY <2>3, <3>1, Zenon
    <3> QED
      BY <2>3, <3>1, <3>2 DEF Init, CacheInv
  <2> QED
    BY <2>1, <2>2, <2>4, <2>5
<1>2. SyncInv /\ SyncInv' /\ I /\ [Next]_vars => I'
  BY TypeKept, KnownKept, StockKept, CacheKept
<1>3. I => DeviceNeverOversells
  <2> SUFFICES ASSUME I, NEW u \in Users
               PROVE  UnitsOf({s \in Sales : db[u][s] # "NONE"}) <= Initial
    BY DEF DeviceNeverOversells
  <2> DEFINE n == UnitsOf({s \in Sales : db[u][s] # "NONE"})
  <2>1. n \in Nat /\ cache[u] \in Nat /\ Initial \in Nat
    BY UnitsNat, ConstantsAssumption DEF TypeOK, ConstantsAssumption
  <2>2. cache[u] + n <= Initial
    BY DEF CacheInv
  <2> HIDE DEF n
  <2>3. n <= Initial
    BY <2>1, <2>2
  <2> QED
    BY <2>3 DEF n
<1> QED
  BY <1>1, <1>2, <1>3, SyncInvAlways, PTL DEF Spec

-----------------------------------------------------------------------------
(* As long as nobody else signs in, the pages, the requests and the server *)
(* implement ExactlyOnce.  The steps that are seen are those that write a  *)
(* database of the device (DeviceSteps) and those that write the server    *)
(* (StockAtServerSteps).                                                   *)

Rung == [u \in Users |-> {s \in Sales : db[u][s] # "NONE"}]
Shown == [u \in Users |-> {s \in Sales : db[u][s] = "SYNCED"}]

\* The part of the invariant that the refinement needs.
SeenInv == TypeOK /\ KnownInv /\ OnceInv

\* A step that writes neither changes nothing that is seen.
LEMMA UnseenStep ==
    ASSUME UNCHANGED <<db, sold, stock>>
    PROVE  UNCHANGED Once!vars
  BY DEF Once!vars

\* commitOfflineSale
LEMMA SellIsRingUp ==
    ASSUME SeenInv, NEW s \in Sales, SellLocally(s)
    PROVE  Once!Next
<1>1. user \in Users /\ db \in [Users -> [Sales -> Statuses]]
  BY DEF SeenInv, TypeOK, RecordsTypeOK, KnownInv
<1>2. \A u \in Users : s \notin Rung[u]
  BY DEF SellLocally, Rung
<1>3. db' = [db EXCEPT ![user][s] = "PENDING"]
  BY DEF SellLocally
<1>4. Rung' = [Rung EXCEPT ![user] = @ \cup {s}]
  <2>1. \A u \in Users, t \in Sales :
           db'[u][t] = IF u = user /\ t = s THEN "PENDING" ELSE db[u][t]
    BY <1>1, <1>3
  <2>2. \A u \in Users : Rung'[u] = IF u = user THEN Rung[u] \cup {s} ELSE Rung[u]
    BY <2>1 DEF Rung
  <2> QED
    BY <1>1, <2>2 DEF Rung
<1>5. Shown' = Shown
  <2>1. \A u \in Users, t \in Sales : db'[u][t] = "SYNCED" <=> db[u][t] = "SYNCED"
    BY <1>1, <1>2, <1>3 DEF Rung
  <2> QED
    BY <2>1 DEF Shown
<1>6. sold' = sold /\ stock' = stock
  BY DEF SellLocally, server
<1>7. \E u \in Users : Once!RingUp(u, s)
  BY <1>1, <1>2, <1>4, <1>5, <1>6 DEF Once!RingUp, Rung, Shown
<1> QED
  BY <1>7 DEF Once!Next

\* updateOfflineSale: what the server has recorded is shown, or a late refusal hides it.
LEMMA PutIsShown ==
    ASSUME SyncInv, SeenInv, NEW p \in Pages, Put(p)
    PROVE  [Once!Next]_Once!vars
<1> DEFINE s == round[p].sale
           o == round[p].outcome
<1>0. /\ user \in Users /\ db \in [Users -> [Sales -> Statuses]]
      /\ s \in Sales /\ o \in Outcomes /\ s \in OnDevice
      /\ sold' = sold /\ stock' = stock
  BY DEF SeenInv, TypeOK, RecordsTypeOK, KnownInv, RoundKnown, SyncInv, RoundGood, Put, server
<1>1. db' = [db EXCEPT ![user][s] = o]
  BY <1>0, ModelValues DEF Put
<1>2. \A u \in Users, t \in Sales :
         db'[u][t] = IF u = user /\ t = s THEN o ELSE db[u][t]
  <2> HIDE DEF s, o
  <2> QED
    BY <1>0, <1>1
<1>3. Rung' = Rung
  <2>1. \A u \in Users, t \in Sales : db'[u][t] # "NONE" <=> db[u][t] # "NONE"
    BY <1>0, <1>2 DEF OnDevice, Outcomes
  <2> QED
    BY <2>1 DEF Rung
<1>4. CASE o = "SYNCED"
  <2>1. sold[user][s] = 1
    <3>1. \E v \in Users : sold[v][s] > 0
      BY <1>4 DEF SyncInv, RoundGood, Recorded, Put
    <3>2. sold[user][s] > 0 /\ sold[user][s] <= 1 /\ sold[user][s] \in Nat
      BY <1>0, <3>1 DEF SeenInv, OnceInv, TypeOK, RecordsTypeOK
    <3> QED
      BY <3>2
  <2>2. Shown' = [Shown EXCEPT ![user] = @ \cup {s}]
    <3>1. \A u \in Users : Shown'[u] = IF u = user THEN Shown[u] \cup {s} ELSE Shown[u]
      BY <1>0, <1>2, <1>4 DEF Shown
    <3> QED
      BY <1>0, <3>1 DEF Shown
  <2>3. \E u \in Users, t \in Sales : Once!Show(u, t)
    BY <1>0, <1>3, <2>1, <2>2 DEF Once!Show, Rung, Shown
  <2> QED
    BY <2>3 DEF Once!Next
<1>5. CASE o # "SYNCED"
  <2>1. Shown' = [Shown EXCEPT ![user] = @ \ {s}]
    <3>1. \A u \in Users : Shown'[u] = IF u = user THEN Shown[u] \ {s} ELSE Shown[u]
      BY <1>0, <1>2, <1>5 DEF Shown
    <3> QED
      BY <1>0, <3>1 DEF Shown
  <2>2. \E u \in Users, t \in Sales : Once!Hide(u, t)
    BY <1>0, <1>3, <2>1 DEF Once!Hide, Rung, Shown
  <2> QED
    BY <2>2 DEF Once!Next
<1> QED
  BY <1>4, <1>5

\* SalesService.create: the commit records the sale for the user who rang it up.
LEMMA InsertIsRecord ==
    ASSUME SyncInv, SeenInv, UNCHANGED db,
           NEW q \in Requests, NEW s \in Sales,
           req[q].at = "create", s = req[q].sale, Insert(q, s)
    PROVE  Once!Next
<1>0. /\ sold \in [Users -> [Sales -> Nat]] /\ stock \in Nat /\ user \in Users
      /\ Units[s] \in Nat
  BY ConstantsAssumption DEF SeenInv, TypeOK, RecordsTypeOK, OnceInv, ConstantsAssumption
<1>1. req[q].as = user /\ s \in OnDevice
  BY DEF SeenInv, OnceInv, KnownInv, RequestKnown
<1>2. /\ sold' = [sold EXCEPT ![user][s] = @ + 1] /\ ~(sold[user][s] > 0)
      /\ stock' = stock - Units[s] /\ Units[s] <= stock
  BY <1>0, <1>1 DEF Insert, Exists
<1>3. \A v \in Users : sold[v][s] = 0
  <2>1. \A v \in Users : sold[v][s] \in Nat /\ ~(sold[v][s] > 0)
    BY <1>0, <1>2 DEF SeenInv, OnceInv
  <2> QED
    BY <2>1
<1>4. sold' = [sold EXCEPT ![user][s] = 1]
  <2>1. sold[user][s] + 1 = 1
    BY <1>0, <1>3
  <2> QED
    BY <1>2, <2>1
<1>5. s \in Rung[user] /\ Rung' = Rung /\ Shown' = Shown
  BY <1>0, <1>1 DEF OnDevice, Rung, Shown
<1>6. \E u \in Users : Once!Record(u, s)
  BY <1>0, <1>2, <1>3, <1>4, <1>5 DEF Once!Record, Rung, Shown
<1> QED
  BY <1>6 DEF Once!Next

\* Another till takes a unit.
LEMMA OtherIsElsewhere ==
    ASSUME SeenInv, OtherSale
    PROVE  Once!Next
<1>1. stock \in Nat /\ stock > 0 /\ stock' = stock - 1
  BY DEF SeenInv, TypeOK, OtherSale
<1>2. stock' \in 0..(stock - 1)
  BY <1>1
<1>3. UNCHANGED <<db, sold>>
  BY DEF OtherSale, device
<1> QED
  BY <1>2, <1>3 DEF Once!Next, Once!SellElsewhere

LEMMA StepIsSeen ==
    ASSUME SyncInv, SeenInv, [Next]_vars
    PROVE  [Once!Next]_Once!vars
<1> DEFINE Goal == [Once!Next]_Once!vars
<1>1. ASSUME NEW s \in Sales, SellLocally(s)
      PROVE  Goal
  BY <1>1, SellIsRingUp
<1>2. ASSUME Refresh \/ \E l \in Loads : Save(l)
      PROVE  Goal
  <2>1. UNCHANGED <<db, sold, stock>>
    BY <1>2 DEF Refresh, Save, server
  <2> QED
    BY <2>1, UnseenStep
<1>3. ASSUME NEW p \in Pages, Put(p)
      PROVE  Goal
  BY <1>3, PutIsShown
<1>4. ASSUME UNCHANGED <<db, cache>>
      PROVE  Goal
  <2>1. ASSUME NEW q \in Requests, NEW s \in Sales,
               req[q].at = "create", s = req[q].sale, Insert(q, s)
        PROVE  Goal
    BY <1>4, <2>1, InsertIsRecord
  <2>2. CASE UNCHANGED <<sold, stock, others>>
    BY <1>4, <2>2, UnseenStep
  <2>3. CASE OtherSale
    BY <2>3, OtherIsElsewhere
  <2> HIDE DEF Goal
  <2> QED
    BY <2>1, <2>2, <2>3, StockAtServerSteps
<1> HIDE DEF Goal
<1>5. Goal
  BY <1>1, <1>2, <1>3, <1>4, DeviceSteps
<1> QED
  BY <1>5 DEF Goal

\* As long as nobody else signs in on the device, the pages with their rounds, the
\* requests with their retries, lost answers and errors, and the statements of
\* createOffline implement ExactlyOnce: every sale is recorded for the user who rang it
\* up, once, with the exit of its units, and is shown as synchronized only then.
THEOREM SalesAreExactlyOnceCorrect ==
    ASSUME "switch" \notin Faults
    PROVE  Spec => SalesAreExactlyOnce
<1>1. Init => Once!Init
  BY DEF Init, Once!Init
<1>2. Init => KnownInv /\ OnceInv
  <2>1. ASSUME Init
        PROVE  KnownInv
    BY <2>1, IdleKnown DEF Init, KnownInv
  <2>2. Init => OnceInv
    BY DEF Init, OnceInv, FreeRequest
  <2> QED
    BY <2>1, <2>2
<1>3. SyncInv /\ KnownInv /\ OnceInv /\ [Next]_vars => (KnownInv /\ OnceInv)'
  BY KnownKept, OnceInvNext
<1>4. SyncInv /\ TypeOK /\ KnownInv /\ OnceInv /\ [Next]_vars => [Once!Next]_Once!vars
  BY StepIsSeen DEF SeenInv
<1> QED
  BY <1>1, <1>2, <1>3, <1>4, SyncInvAlways, DeviceTypeCorrect, PTL
  DEF Spec, SalesAreExactlyOnce, Once!Spec
=============================================================================
