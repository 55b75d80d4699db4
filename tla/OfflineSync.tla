----------------------------- MODULE OfflineSync -----------------------------
(***************************************************************************)
(* Sales rung up without a connection, and their synchronization.          *)
(*                                                                         *)
(* The device keeps one IndexedDB database per signed-in user, with the    *)
(* sales of that user and a cached catalogue.  A page of the application   *)
(* runs at most one round of synchronization at a time (inFlight): it      *)
(* reads the queue, posts it, and writes the results back one by one.      *)
(* Every await is a step boundary: other pages, the server and the         *)
(* signed-in user, who is shared by all pages through localStorage, move   *)
(* in between.  A request goes on at the server when its page is gone.     *)
(*                                                                         *)
(* One product in one warehouse, without reservations of the server; a     *)
(* sale is its local identifier and a number of units.                     *)
(***************************************************************************)
EXTENDS Integers, FiniteSets, FiniteSetsExt, Functions

CONSTANTS
    Users,       \* the users who sign in on the device
    Sales,       \* the local identifiers (UUIDs) the device makes up
    Pages,       \* the open pages of the application
    Requests,    \* the synchronization requests the server may be serving
    Loads,       \* the catalogue loads that may be under way
    Units,       \* Units[s]: the units of sale s
    Initial,     \* quantity of the product at the server
    MaxOthers,   \* bound: units that other tills take
    MaxTrouble,  \* bound: lost answers, reloads, restarts and server errors
    Faults,      \* what may happen besides
    None

Outcomes == {"SYNCED", "CONFLICT", "ERROR"}

ASSUME ConstantsAssumption ==
    /\ Units \in [Sales -> Nat \ {0}]
    /\ Initial \in Nat /\ MaxOthers \in Nat /\ MaxTrouble \in Nat
    /\ Faults \subseteq {"switch", "overlap"}
    /\ None \notin Users \cup Sales \cup Requests \cup Outcomes

\* For the sums over sales.
ASSUME SalesAssumption == IsFiniteSet(Sales)

VARIABLES
    user,     \* the signed-in user, None after a logout
    db,       \* db[u][s]: status of sale s in the database of user u
    cache,    \* cache[u]: units of the product in the catalogue of user u
    fetched,  \* fetched[l]: what load l has received, None when it is saved
    round,    \* round[p]: the round of synchronization of page p
    req,      \* req[q]: the request q at the server
    sold,     \* sold[u][s]: rows of the table Sale with the identifier of u, s
    stock,    \* quantity of the product at the server
    others,   \* units taken by other tills
    trouble   \* how many times something went wrong

device == <<user, db, cache, fetched>>
server == <<sold, stock, others>>
vars == <<device, round, req, server, trouble>>

Statuses == {"NONE", "PENDING"} \cup Outcomes

\* results: the outcomes of the answer that are still to be written back;
\* outcome: the one for sale, which the page has read and will write.
Round == [at : {"idle", "read", "send", "wait", "apply", "put"},
          owner : Users \cup {None}, batch : SUBSET Sales, req : Requests \cup {None},
          results : [Sales -> Outcomes \cup {None}],
          sale : Sales \cup {None}, outcome : Outcomes \cup {None}]

\* todo: the sales of the batch the loop has not come to; sale: the one in
\* hand; error: what SalesService.create has thrown for it.
Request == [at : {"free", "next", "create", "recheck", "answered"},
            as : Users \cup {None}, todo : SUBSET Sales, sale : Sales \cup {None},
            error : {"stock", "other"},
            results : [Sales -> Outcomes \cup {None}]]

RecordsTypeOK ==
    /\ user \in Users \cup {None}
    /\ db \in [Users -> [Sales -> Statuses]]
    /\ round \in [Pages -> Round]
    /\ req \in [Requests -> Request]
    /\ sold \in [Users -> [Sales -> Nat]]

TypeOK ==
    /\ RecordsTypeOK
    /\ cache \in [Users -> Nat]
    /\ fetched \in [Loads -> [owner : Users, units : Nat] \cup {None}]
    /\ stock \in Nat /\ others \in Nat /\ trouble \in Nat

NoResults == [s \in Sales |-> None]

IdleRound == [at |-> "idle", owner |-> None, batch |-> {}, req |-> None,
              results |-> NoResults, sale |-> None, outcome |-> None]

FreeRequest == [at |-> "free", as |-> None, todo |-> {}, sale |-> None,
                error |-> "other", results |-> NoResults]

Init ==
    /\ user \in Users
    /\ db = [u \in Users |-> [s \in Sales |-> "NONE"]]
    /\ cache = [u \in Users |-> 0]
    /\ fetched = [l \in Loads |-> None]
    /\ round = [p \in Pages |-> IdleRound]
    /\ req = [q \in Requests |-> FreeRequest]
    /\ sold = [u \in Users |-> [s \in Sales |-> 0]]
    /\ stock = Initial
    /\ others = 0
    /\ trouble = 0

-----------------------------------------------------------------------------
(* The device.                                                             *)

UnitsOf(ss) == SumFunctionOnSet(Units, ss)

\* commitOfflineSale: the sale and the units it takes, in one transaction.
SellLocally(s) ==
    /\ user # None
    /\ \A u \in Users : db[u][s] = "NONE"
    /\ cache[user] >= Units[s]
    /\ db' = [db EXCEPT ![user][s] = "PENDING"]
    /\ cache' = [cache EXCEPT ![user] = @ - Units[s]]
    /\ UNCHANGED <<user, fetched, round, req, server, trouble>>

\* Mutant of Unsynced: only the sales that were never tried.
UnsyncedPending(u) == {s \in Sales : db[u][s] = "PENDING"}

\* The sales whose units saveOfflineProducts takes off the server's quantity.
Unsynced(u) == {s \in Sales : db[u][s] \notin {"NONE", "SYNCED"}}

\* saveOfflineProducts
Catalogue(u, units) ==
    [cache EXCEPT ![u] = Max({0, units - UnitsOf(Unsynced(u))})]

\* The catalogue is fetched and saved, and nothing else happens in between.
Refresh ==
    /\ user # None
    /\ cache' = Catalogue(user, stock)
    /\ UNCHANGED <<user, db, fetched, round, req, server, trouble>>

\* prepareOfflineCatalog and loadProducts, as they run along with a round of
\* synchronization when the connection returns: what the server has answered ...
Fetch(l) ==
    /\ "overlap" \in Faults
    /\ user # None /\ fetched[l] = None
    /\ fetched' = [fetched EXCEPT ![l] = [owner |-> user, units |-> stock]]
    /\ UNCHANGED <<user, db, cache, round, req, server, trouble>>

\* ... is saved if the user is still the same.
Save(l) ==
    /\ fetched[l] # None
    /\ cache' = IF user = fetched[l].owner
                THEN Catalogue(user, fetched[l].units)
                ELSE cache
    /\ fetched' = [fetched EXCEPT ![l] = None]
    /\ UNCHANGED <<user, db, round, req, server, trouble>>

\* login, logout
SwitchUser(u) ==
    /\ "switch" \in Faults
    /\ u # user
    /\ user' = u
    /\ UNCHANGED <<db, cache, fetched, round, req, server, trouble>>

-----------------------------------------------------------------------------
(* A round of synchronization.                                             *)

\* Mutant of Pending: a sale the server has refused once is not sent again.
PendingOnly(u) == {s \in Sales : db[u][s] = "PENDING"}

\* getPendingOfflineSales
Pending(u) == {s \in Sales : db[u][s] \in {"PENDING", "ERROR", "CONFLICT"}}

EndRound(p) == round' = [round EXCEPT ![p] = IdleRound]

\* syncOfflineSalesNow, when no round of the page is in flight.
StartRound(p) ==
    /\ round[p].at = "idle" /\ user # None
    /\ round' = [round EXCEPT ![p] = [@ EXCEPT !.at = "read", !.owner = user]]
    /\ UNCHANGED <<device, req, server, trouble>>

\* The database of the owner was asked for before the first await.
ReadQueue(p) ==
    /\ round[p].at = "read"
    /\ LET batch == Pending(round[p].owner) IN
         IF batch = {}
         THEN EndRound(p)
         ELSE round' = [round EXCEPT ![p] = [@ EXCEPT !.at = "send", !.batch = batch]]
    /\ UNCHANGED <<device, req, server, trouble>>

\* fetchWithAuth takes the access token that is stored when it is called; the
\* one the round began with is only used when there is none.
Sender(p) == IF user = None THEN round[p].owner ELSE user

Send(p, q) ==
    /\ round[p].at = "send" /\ req[q].at = "free"
    /\ req' = [req EXCEPT ![q] = [@ EXCEPT !.at = "next", !.as = Sender(p),
                                           !.todo = round[p].batch]]
    /\ round' = [round EXCEPT ![p] = [@ EXCEPT !.at = "wait", !.batch = {}, !.req = q]]
    /\ UNCHANGED <<device, server, trouble>>

\* The answer arrives and is kept if the session has not changed.
Receive(p) ==
    /\ round[p].at = "wait" /\ req[round[p].req].at = "answered"
    /\ req' = [req EXCEPT ![round[p].req] = FreeRequest]
    /\ IF user = round[p].owner
       THEN round' = [round EXCEPT ![p] =
                        [@ EXCEPT !.at = "apply", !.req = None,
                                  !.results = req[round[p].req].results]]
       ELSE EndRound(p)
    /\ UNCHANGED <<device, server, trouble>>

\* The next result: updateOfflineSale reads the sale if the user is the owner.
Apply(p) ==
    /\ round[p].at = "apply"
    /\ IF user # round[p].owner \/ round[p].results = NoResults
       THEN EndRound(p)
       ELSE \E s \in Sales :
              /\ round[p].results[s] # None
              /\ round' = [round EXCEPT ![p] =
                             [@ EXCEPT !.at = "put", !.sale = s,
                                       !.outcome = round[p].results[s],
                                       !.results = [round[p].results EXCEPT ![s] = None]]]
    /\ UNCHANGED <<device, req, server, trouble>>

\* ... and puts it back, in the database of whoever is signed in by then.
Put(p) ==
    /\ round[p].at = "put"
    /\ IF user = None
       THEN EndRound(p) /\ UNCHANGED db
       ELSE /\ db' = [db EXCEPT ![user][round[p].sale] = round[p].outcome]
            /\ round' = [round EXCEPT ![p] =
                           [@ EXCEPT !.at = "apply", !.sale = None, !.outcome = None]]
    /\ UNCHANGED <<user, cache, fetched, req, server, trouble>>

Trouble == trouble < MaxTrouble /\ trouble' = trouble + 1

\* The connection is lost, the answer is an error, or the page is reloaded.
Abandon(p) ==
    /\ round[p].at # "idle"
    /\ Trouble
    /\ EndRound(p)
    /\ UNCHANGED <<device, req, server>>

-----------------------------------------------------------------------------
(* The server: syncOfflineSales, and createOffline for each sale.          *)

Exists(q, s) == sold[req[q].as][s] > 0

\* The loop is done with the sale in hand.
Note(q, s, outcome) ==
    [req[q] EXCEPT !.at = "next", !.todo = @ \ {s}, !.sale = None,
                   !.error = "other", !.results = [@ EXCEPT ![s] = outcome]]

Conclude(q, s, outcome) == req' = [req EXCEPT ![q] = Note(q, s, outcome)]

\* The sale in hand goes on to the next statement.
Continue(q, s, label, error) ==
    req' = [req EXCEPT ![q] = [@ EXCEPT !.at = label, !.sale = s, !.error = error]]

\* Is there a sale with this identifier already?
Look(q) ==
    /\ req[q].at = "next"
    /\ \E s \in req[q].todo :
         IF Exists(q, s)
         THEN Conclude(q, s, "SYNCED")
         ELSE Continue(q, s, "create", "other")
    /\ UNCHANGED <<device, round, server, trouble>>

LookFails(q) ==
    /\ req[q].at = "next"
    /\ \E s \in req[q].todo : Conclude(q, s, "ERROR")
    /\ Trouble
    /\ UNCHANGED <<device, round, server>>

\* Mutant of Insert: the sale gets an identifier of its own.
InsertAlways(q, s) ==
    /\ stock >= Units[s]
    /\ sold' = [sold EXCEPT ![req[q].as][s] = @ + 1]
    /\ stock' = stock - Units[s]
    /\ UNCHANGED others

\* SalesService.create commits: the identifier is the primary key.
Insert(q, s) ==
    /\ stock >= Units[s] /\ ~Exists(q, s)
    /\ sold' = [sold EXCEPT ![req[q].as][s] = @ + 1]
    /\ stock' = stock - Units[s]
    /\ UNCHANGED others

Create(q) ==
    /\ req[q].at = "create"
    /\ Insert(q, req[q].sale)
    /\ Conclude(q, req[q].sale, "SYNCED")
    /\ UNCHANGED <<device, round, trouble>>

\* SalesService.create throws: not enough units, or the identifier is taken.
CreateRefused(q) ==
    /\ req[q].at = "create"
    /\ \/ stock < Units[req[q].sale] /\ Continue(q, req[q].sale, "recheck", "stock")
       \/ Exists(q, req[q].sale) /\ Continue(q, req[q].sale, "recheck", "other")
    /\ UNCHANGED <<device, round, server, trouble>>

\* Something else fails, before the commit or in the reads that follow it.
CreateFails(q) ==
    /\ req[q].at = "create"
    /\ Insert(q, req[q].sale) \/ UNCHANGED server
    /\ Continue(q, req[q].sale, "recheck", "other")
    /\ Trouble
    /\ UNCHANGED <<device, round>>

\* Mutant of Verdict: every failure after an attempt counts as done.
VerdictDone(q) == "SYNCED"

\* The catch block looks whether the sale was committed all the same; the
\* controller tells a refusal for want of stock from the other errors.
Verdict(q) ==
    IF Exists(q, req[q].sale) THEN "SYNCED"
    ELSE IF req[q].error = "stock" THEN "CONFLICT" ELSE "ERROR"

Recheck(q) ==
    /\ req[q].at = "recheck"
    /\ Conclude(q, req[q].sale, Verdict(q))
    /\ UNCHANGED <<device, round, server, trouble>>

RecheckFails(q) ==
    /\ req[q].at = "recheck"
    /\ Conclude(q, req[q].sale, "ERROR")
    /\ Trouble
    /\ UNCHANGED <<device, round, server>>

\* Mutant of Answered: an answer nobody waits for is kept for the next round.
AnsweredKept(q) == [req[q] EXCEPT !.at = "response"]

Answered(q) == [req[q] EXCEPT !.at = "answered"]

\* The loop is through; nobody reads the answer if the page is gone.
Answer(q) ==
    /\ req[q].at = "next" /\ req[q].todo = {}
    /\ req' = [req EXCEPT ![q] = Answered(q)]
    /\ UNCHANGED <<device, round, server, trouble>>

Unread(q) ==
    /\ req[q].at = "answered"
    /\ \A p \in Pages : round[p].req # q
    /\ req' = [req EXCEPT ![q] = FreeRequest]
    /\ UNCHANGED <<device, round, server, trouble>>

\* The API is restarted: the request ends where it is, and its page gets no answer.
Cut(q) ==
    /\ req[q].at # "free"
    /\ Trouble
    /\ req' = [req EXCEPT ![q] = FreeRequest]
    /\ round' = [p \in Pages |-> IF round[p].req = q THEN IdleRound ELSE round[p]]
    /\ UNCHANGED <<device, server>>

\* Another till sells a unit.
OtherSale ==
    /\ others < MaxOthers /\ stock > 0
    /\ stock' = stock - 1
    /\ others' = others + 1
    /\ UNCHANGED <<device, round, req, sold, trouble>>

-----------------------------------------------------------------------------

PageStep(p) ==
    ReadQueue(p) \/ (\E q \in Requests : Send(p, q)) \/ Receive(p) \/ Apply(p) \/ Put(p)

ServerStep(q) ==
    Look(q) \/ Create(q) \/ CreateRefused(q) \/ Recheck(q) \/ Answer(q) \/ Unread(q)

ServerTrouble(q) == LookFails(q) \/ CreateFails(q) \/ RecheckFails(q) \/ Cut(q)

Next ==
    \/ \E s \in Sales : SellLocally(s)
    \/ Refresh
    \/ \E u \in Users \cup {None} : SwitchUser(u)
    \/ \E l \in Loads : Fetch(l) \/ Save(l)
    \/ \E p \in Pages : StartRound(p) \/ PageStep(p) \/ Abandon(p)
    \/ \E q \in Requests : ServerStep(q) \/ ServerTrouble(q)
    \/ OtherSale

Spec == Init /\ [][Next]_vars

\* The browser goes on with a round and the server with a request; a round is
\* started again and again: by the return of the connection, by the next sale
\* or by the button of the offline page.
Fairness ==
    /\ \A p \in Pages : WF_vars(PageStep(p)) /\ WF_vars(StartRound(p))
    /\ \A q \in Requests : WF_vars(ServerStep(q))

FairSpec == Spec /\ Fairness

-----------------------------------------------------------------------------
(* Properties.                                                             *)

\* A sale that the device shows as synchronized is in the database of the
\* server, whatever was lost, repeated, failed or answered late in between.
SyncedIsSold ==
    \A u \in Users, s \in Sales :
        db[u][s] = "SYNCED" => \E v \in Users : sold[v][s] > 0

\* A sale rung up once is recorded once, however often it is sent: by two pages,
\* after a lost answer, after an error that follows its commit.
SoldOnce ==
    \A s \in Sales, u, v \in Users :
        /\ sold[u][s] <= 1
        /\ sold[u][s] > 0 /\ sold[v][s] > 0 => u = v

\* The device never rings up more units than the server had for it, as long as
\* the catalogue is not refreshed across a synchronization and nobody else signs in.
DeviceNeverOversells ==
    \A u \in Users : UnitsOf({s \in Sales : db[u][s] # "NONE"}) <= Initial

\* A sale the server has recorded is shown as synchronized in the end: a stale
\* refusal that overwrites the status is corrected by a later round.
Noticed ==
    \A u \in Users, s \in Sales :
        (sold[u][s] > 0 /\ db[u][s] # "NONE") ~> db[u][s] = "SYNCED"

\* What is seen of the device and of the server: they implement ExactlyOnce.
Once == INSTANCE ExactlyOnce WITH
    rung <- [u \in Users |-> {s \in Sales : db[u][s] # "NONE"}],
    books <- sold,
    shown <- [u \in Users |-> {s \in Sales : db[u][s] = "SYNCED"}]

\* A sale is recorded for the user who has rung it up, once and with the exit of its
\* units, stays recorded, and is shown as synchronized only then: every statement of
\* the pages and the requests is one such step or changes nothing that is seen.
SalesAreExactlyOnce == Once!Spec
=============================================================================
