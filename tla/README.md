# VTA Software Suite: formal models of its stock, documents, held sales, offline sales and subscriptions

VTA Software Suite is a commerce application: a NestJS API over Prisma and
PostgreSQL (`apps/api`), a Next.js web client with a point of sale that also runs
offline (`apps/web`), and native shells around it. Most of it reads and writes
records one request at a time. What is hard to get right lies where several
requests, sessions, pages or devices meet: stock rows, transfers between
warehouses, documents whose status is read by one statement and written by a later
one, the lock of a held sale, the queue of sales rung up without a connection, and
the subscription of a business, which its owner, the platform, Apple and the clock
change beside each other. These are modelled here in TLA+, checked with TLC on small
instances, and proved with TLAPS for every size.

Paths below are relative to the repository; `api/` stands for `apps/api/src/` and
`web/` for `apps/web/`.

## The system

| part | state | operations | what is hard |
|---|---|---|---|
| Stock (`api/stock`, `api/adjustments`, `api/movements`) | `Stock.quantity`, `Stock.reserved`, `InventoryMovement` | stockIn, stockOut, purchase, returnStock, cancelSale, adjustTo, produce | guarded updates under row locks, counts based on an earlier read |
| Sales (`api/sales/sales.service.ts`) | `Sale`, its items, payments, receipt | create, createOffline, cancel, returnSale | availability checked before the decrement, several rows in one transaction, cancellation from stale reads, idempotent creation |
| Quotes, orders (`api/sales/quotes`, `proformas`, `sales-documents.util`) | `Quote` and `Proforma` status, payments, stock deducted or not | send, accept, convert, updateStatus, registerPayment, generateInvoice | statuses read before they are written by id; stock and invoice once per order |
| Invoices, payments (`api/sales/invoices`) | paid amount, balance, status | create, update, registerPayment, cancel | one guarded write among unguarded ones |
| Customer returns (`api/sales/returns`, `returnSale`) | `SaleReturn`, returned quantity per line | create, returnSale | cap checked row by row, stock put back after the transaction, three ways to take a sale back |
| Purchases (`api/purchases`) | `receivedQty`, order status, stock, supplier's invoice | order, goods receipt, supplier payment | guarded received quantity, status derived from it, paid amount from an earlier read |
| Manufacturing (`api/manufacturing`) | order status, materials, `reservedQuantity`, `StockReservation` | addMaterial, reserve, start, ready, cancel, complete | reserved units shared with sales, order lock taken by some calls only |
| Inventory (`api/inventory`, `api/stores`) | `Transfer`, `PhysicalInventory`, `StoreTransfer`, `WarehouseStock` | transfer with compensation, count, validation | several transactions per operation, compensation may fail, goods move while they are counted |
| Held sales (`api/pos`) | `HeldSale`: status, claim, key, sale | save, claim, release, delete, finalize | a lock over several statements, failures after the commit |
| Offline sales (`web/lib/offline-*.ts`, `api/pos` sync endpoint) | IndexedDB queue and catalogue per user, `Sale.id` made by the client | commitOfflineSale, sync round, catalogue refresh | lost answers, repeated and late results, several pages, a change of user |
| Cash register (`api/cash-register`) | `CashSession` | open, movement, close, report | one open session, totals |
| Subscriptions (`api/subscriptions`, `api/platform`, `api/users`, `auth.service`) | `TenantSubscription`, `SubscriptionEvent`, `Tenant.status`, entitlements in memory, `AppleSubscriptionPurchase` | end of the trial, requests of a plan, decisions, Apple's answers, changes by the platform, limits | compare-and-set, serializable transactions, a cache, answers out of order, two rows that must stay in phase |
| Tokens, reports, import/export, printing | records of their own | administrative | mostly independent requests |

The parts interact through the database: sales, orders, receptions,
manufacturing and inventories all write `Stock` rows and record movements;
`finalizeHeldSale` and `syncOfflineSales` call `SalesService.create`; the
availability a sale looks at subtracts what manufacturing has reserved; a sale makes
an invoice and a cash movement; a delivered order completes what the workshop has
ready; a new user needs room in the plan of the business. There
is no message queue and no scheduler for them: every step is a statement of a
request, and requests interleave at every `await`. Row locks and conditional
updates (`updateMany` with the expected state in its WHERE clause) are the only
synchronization.

## Modules

| module | models |
|---|---|
| `AtomicStock` | the abstract specification: a request asks for a change of several rows, and all of it is done in one step, told exactly by movements and leaving no row negative, or none of it |
| `StockTransactions` | the twelve operations on stock rows, statement by statement, under READ COMMITTED |
| `StockTransactions_proofs` | its invariants, the reserved units, its refinement of `AtomicStock`, and that somebody can always go on |
| `HeldSale` | a held sale, its claim, its lock and its finalization, under concurrent calls, failures and restarts |
| `Transfer` | transfers between warehouses: one stock operation after the other, compensation, failures, restarts |
| `Transfer_proofs` | all lines of a transfer move, or none; the rows follow the statuses; a call ends |
| `OfflineSync` | the device database, rounds of synchronization, the requests at the server |
| `ExactlyOnce` | the abstract specification of the synchronization: recorded once, for the user who rang it up, with the exit of its units, and shown only then |
| `PointOfSale_proofs` | the proofs about `HeldSale` and `OfflineSync`, among them the refinement of `ExactlyOnce` |
| `Orders` | quotes, customer orders, their payments and invoices, manufacturing orders |
| `Counter` | the sessions of a cash register, a sale, its invoice, payments, returns and cancellations |
| `Warehouse` | a purchase order with receipts and supplier payments, a physical inventory, transfers between stores |
| `Subscriptions` | the subscription of a business, requests, purchases of Apple, entitlements in memory, users |
| `Orders_proofs`, `Counter_proofs`, `Warehouse_proofs`, `Subscriptions_proofs` | their types and main invariants |
| `Sums` | lemmas about sums over finite sets, which the proofs about units and amounts cite |
| `MC...` | values of the constants for TLC |

The mutants the properties are tested against stand beside the definition they
change, and say so in their comment.

### StockTransactions

A request is one Postgres transaction: `pc[p]` goes from `idle` through `check`
(a sale looks at the availability of all its lines before it writes,
`sales.service.ts:181-187`) and `run` to `committed` or `failed`; `at[p]` is the
line of its basket it is at. `row[r]` is the committed version of a stock row,
`draft[r]` the version written by the holder of `lock[r]`. An update waits for
the lock, evaluates its WHERE clause on the latest committed version and keeps
the lock. A version has the quantity, the reserved units, and `net`, the sum of
`afterQty - beforeQty` over the movements recorded on the row.

`ChangeRow` is the guarded or relative update of sales, orders, restocks,
`applyMovement` and `produce`. `OverwriteRow` is the pattern that remains in
`SalesService.cancel` and `GoodsReceiptsService.create`: read, add in JavaScript,
write the sum. `ReserveRow`, `ConsumeRow` and `ReleaseRow` are the three
manufacturing operations; `start` and `cancel` take the lock of the manufacturing
order before they look at its status, so that one of them is in progress for an
order at a time. `BeginAdjust` computes its change from a read made before the
transaction. Two things come from the libraries and are marked external in the
map: the visibility and locking rules of Postgres with its deadlock detection,
and the timeout of a Prisma interactive transaction. `StockIsAtomic` maps the committed rows to `AtomicStock`, and the basket of a request to what
it asks for from its first statement on (`Asked`): a reader never sees one line of a basket
without the others, and what was seen is the whole of it, once.
A Prisma `upsert` with an
empty `update` is modelled as the plain read it is for an existing row. A row
that does not exist yet is a row with quantity zero.

### HeldSale

One `HeldSale` row; `pc[c]` is what call `c` does next. Every call of the service
first reads the row and decides, then writes: the model has one action for the
checks and one for the write, and other calls move in between. `Claim` and `Lock`
are conditional updates and thus single actions; `ReleaseWrite`, `DeleteWrite`
and `Complete` write by id alone, as the code does. The claim's expiry is a
boolean that may become true at any time, which covers every relation between
the five minutes and the length of a call. `Sell` is the commit of
`SalesService.create`, `SellFails` any failure before it, `LateFailure` any
failure after it. `Crash` is a restart of the API. The history variable `marks`
remembers what the code does not protect against: a release that was overtaken
by a finalization, a failure after the commit, a call that was cut off.

### Transfer

Each call of `createTransfer` creates one transfer. Its exits and entries are
single steps, because `StockTransactions` shows that a stock operation is atomic
for everybody else (`StockIsAtomic`); between two of them other calls and other
requests (`Take`, `Bring`) move the same rows. `applied` of the code is the set of
lines before `at[c]`. The compensation goes through them with `back[c]`; each of
its two steps may fail, is swallowed, and the next one is made all the same.
`StatusFails` is a failure of the update that ends the call, `SetStatus` one of
the endpoints that write a status by hand. `outs` and `ins` remember which lines
are out of the source and in at the destination, `marks` what has gone wrong with
a call. A failure means that nothing of the statement was done; an error reported
for a transaction that did commit is left out.

### OfflineSync

`db[u]` is the database of user `u` on the device, `cache[u]` its catalogue,
`round[p]` the round of synchronization of a page, `req[q]` a request at the
server with the loop of `syncOfflineSales` and, for the sale in hand, the
statements of `createOffline`: look, create, and after an error look again.
Every `await` of `offline-sync.ts` and `offline-db.ts` at which something can
change is a step boundary: the read of the queue, the fetch, each read and each
put of a result. The signed-in user is shared by the pages; databases are opened
for whoever is signed in when they are opened, requests carry the token stored
when they are sent. `Fetch` and `Save` split a catalogue refresh at its await, as
`loadProducts` and `prepareOfflineCatalog` do; `Refresh` is the same without
anything in between. The set `Faults` says whether the user may change and
whether a refresh may overlap a synchronization.

### Orders, Counter, Warehouse, Subscriptions: common conventions

These four model calls of the API that meet on a few rows. Most of the code follows
one pattern: `findOne`, a check of the status, then an `update` by id in a later
statement, with nothing in between that would keep the row as it was read. A call of
this kind is two actions, for example `Advance` and `AdvanceWrite`; `call[c]` keeps what
it has read and will write. A call that locks the row before it reads it (`reserve`,
`start` and `cancel` of a manufacturing order), or that does not look at what it
overwrites (`send` of a quote), is one action. Where the code guards its write, by an
`updateMany` with a condition, by a unique key or by a serializable transaction, the
write has the guard and a second action for the refusal (`PayWrite`, `PayRefused`).
A refused call that has changed nothing is not modelled.

`marks` remembers that something happened which the code does not protect against: a
write that came after its check had stopped to hold (`overtaken`), a write without a
check, a call that was cut off among its transactions. The properties say what holds as
long as the marks they name are absent, and thereby exactly which interleavings break
them; everything else, all guarded writes included, is claimed for every interleaving.

### Orders

`SetQuote` is `send`, `accept` and `reject`; `Convert` reads the quote outside the
transaction `ConvertWrite`, which makes the order, takes the goods out of the stock of a
shop (not of a workshop, profile `windows-aluminium`) and marks the quote. `Advance` and
`Cancel` are `updateStatus`; a delivery completes the manufacturing order that is ready.
`Pay`, `PayWrite` and `PayRefused` are `registerPayment` with its guarded update and the
invoice it generates. `out` and `back` of an order count its exits from and entries to the
stock. A manufacturing order has a set of materials (`rows`), those with a reservation
(`reserved`), those counted in `Stock.reserved` (`held`), and those taken out (`consumed`);
`held` and `reserved` differ when a material is removed that a call in between has reserved.

### Counter

`drawer[s]` are the cash sessions of one register with the sums of cash payments, card
payments and movements, what the closing report came to (`counted`) and, as history, how
often it was closed (`closings`). Sales, movements and closings first find the session open
and write to it later; `beside` is set when a call that has found it open (`Uses`) meets a
closing that has read its report (`Closing`), and only then. `Sell` finds the
session, `SellWrite` is the transaction of `SalesService.create` from the sale to the cash
movement. `CancelSale` and `ReturnSale` are the two ways to take a sale back, `ReturnGoods`
the third, through its invoice; the latter two put lines back one by one in transactions of
their own (`ReturnSaleLine`, `RestockLine`), and `Cut` may end them in between. A request
to return goods has up to two rows for a line, because the cap is checked row by row.
`EditInvoice` is `update` of an invoice: it replaces the lines, and the returns of the old
ones are no longer looked at (`relisted`).

### Warehouse

`order.received` is `receivedQty` of the lines, `order.delivered` what all receipts came
to; they part when the lines are replaced. A receipt is a transaction of several statements
under READ COMMITTED: `Receive` checks what is left, `ReceiveLine` is the guarded increment
of one line, which waits for the lock another receipt has on it (`Held`), `ReceiveStatus`
reads all lines without a lock, and so sees what is committed and its own increments, and
`ReceiveWrite` writes the status this comes to and commits; `ReceiveRefused` undoes all of
it at any point. Two receipts of which neither sees the other are marked (`crossed`). The
increments and the units become visible in `order` and `stock` with the commit. `PaySupplier` records a
payment, reads the invoice and writes a sum in three statements without a transaction.
`goods` are the units that are really there, which the code cannot see: an inventory counts
them (`CreateCount`), a sale takes them, and `LoseUnit` loses them. `AdjustRead` and
`AdjustWrite` are `adjustTo` for one line of the inventory. `depot` are the
`WarehouseStock` rows, `None` where there is none yet: that is a source the code does not
check. `moves` remembers how often each transfer has taken its unit out and brought it in.

### Subscriptions

`sub` is the `TenantSubscription` row with the plan (`plan`, the `planId`) and the older
column beside it (`legacy`), `tenant` the status of the business. Time is a number: a period
lasts `Month`, entitlements are kept for `CacheLife`. `Settle` and `SettleWrite` are
`recalculateStatus` with its compare-and-set, `Expire`, `ExpireTenant` and `ExpireWrite` are
`assertTenantStatus` at a sign-in, `Look` and `LookWrite` compute and keep the entitlements.
`Ask` and `AskWrite` record a request as an event; `Decide`, `ApproveWrite` and `RejectWrite`
are the decisions of the platform, `EditRead` and `EditWrite` its `updateSubscription`,
which may also move the start of the period (`bought`, `currentPeriodStart`), the column by
which Apple's answers on former purchases are told apart (`Irrelevant`),
`SetStatus` to `UnblockWrite` its `updateTenantStatus` with the reactivation of the
subscription, which the code does by a read and a write of their own whose error it swallows.
`granted` is history: who set the plan last, and when the purchase Apple granted it for was
bought. Apple knows purchases
that are bought, renewed and paid back; an answer (`Fetch`) is signed when it is asked for
and may be recorded in another order (`SyncWrite`, `SyncIgnored`, `SyncRefused`). Users are
counted and added in a serializable transaction: `Conflict` is what Postgres refuses and the
code tries again.

## Properties and runs

Every run is one configuration named after it. Deadlock checking is off
throughout because all requests, calls or sales may be used up.

| run | checks | expected |
|---|---|---|
| `StockAll` | `TypeOK`, `NeverNegative`, `ReservationsBacked` with all twelve operations | holds |
| `StockFair` | `StockIsAtomic`, `RequestsEnd`: refinement of `AtomicStock` without the overwriting operations, and baskets locked in opposite orders end | holds |
| `HeldAll` | `HeldTypeOK`, `OneSaleUnlessUndone`, `CompletedNamesItsSale`, `FinalizationEnds` with every operation and failure | holds |
| `HeldRetry` | `KeySellsOnce` with failures after the commit | violated |
| `TransferAll` | `TypeOK`, `AllOrNothing`, `StockFollowsStatuses`, `TransferEnds` with every failure | holds |
| `OfflineAll` | `TypeOK`, `SyncedIsSold` with two users, two pages and every fault | holds |
| `OfflineOnce` | `SalesAreExactlyOnce` (refinement of `ExactlyOnce`), `DeviceNeverOversells`, `Noticed` for one user | holds |
| `OfflineSwitch` | `SoldOnce` when the user changes | violated |
| `OrdersAll` | `InvoicedOnce`, `CompletedIsPaid`, `StockMatchesOrder`, `OneOrderPerQuote`, `ReservationsEnd`, `ForwardUnlessForced` in a shop and in a workshop | holds |
| `CounterAll` | `InvoiceAgrees`, `ReturnsFitSale`, `RestockedOnce`, `OneOpenSession`, `ClosedReportStays` | holds |
| `WarehouseAll` | `ReceivedAsOrdered`, `StatusFollowsReceipts`, `SupplierPaid`, `InventoryCorrects`, `StoresFollowTransfers` | holds |
| `SubscriptionsAll` | `RequestsAnswered`, `StatusInPhase`, `CacheFollowsPlan`, `AppleNewestWins`, `PaidPlanKept`, `LimitKept` | holds |

Bounds, and why they are enough to be interesting:

- *Stock*: three requests, two rows with two and one units, the baskets
  `<r1>`, `<r1, r2>`, `<r2, r1>` of one unit each, counts 0 and 2. The last unit
  of a row is contended by three transactions, two baskets lock both rows in
  opposite orders, a manufacturing order is reserved and then consumed or released
  while a third request sells, and a production takes from and adds to the same
  rows. Requests are interchangeable, hence the symmetry in `StockAll`. `StockFair`
  has no symmetry, because it checks liveness, and keeps the operations that lock
  two rows in opposite orders or depend on an earlier read; that every other
  operation refines `AtomicStock` too is proved.
- *Held sales*: two sessions of which one may force, two keys, and two calls at
  one time in `HeldAll`, three in `HeldRetry`. Two calls suffice for one to
  overtake the other, because a call that has ended may be made again. `MaxSales = 2`
  allows the second sale whose absence is claimed.
- *Transfers*: two warehouses with one unit of each of two products, and two
  transfers, of both products or of one. Two transfers in opposite directions take
  and put back the units of each other, one in the same direction contends for the
  last unit, and a sale may take any unit between any two steps. Beside a transfer of
  one product one of both can lose a step, and `StockFollowsStatuses` must go on
  holding for the rows nobody has spoilt.
- *Offline*: two users with one sale, or one user with a sale of one unit and one
  of two against a stock of two, two pages, two requests at the server, one unit
  taken by another till, up to two losses, errors or restarts. Two pages suffice
  for a late result to overwrite a newer one; two requests for the same sale to
  be created concurrently. `MaxOthers` and `MaxTrouble` bound counters that only
  limit how often something external happens. `OfflineOnce` has one user and saves no
  catalogue late: that a sale is recorded for the user who rang it up cannot fail there and is
  what `OfflineSwitch` refutes once the user may change, and a late catalogue is a known gap.

- *Orders*: two calls at one time; a shop with one quote and two orders, so that a quote
  could be converted twice, or a workshop with one order and two materials (`Used`). An
  order costs nothing or two units, paid by one or two: two halves, or two whole payments
  that meet. `MaxBack` bounds how often an order is cancelled after it has been: only a
  call that was overtaken or the workshop's `ready` makes that possible at all.
- *Counter*: two calls; `Scenes` lets the register work with sales, or a sale with its
  invoice, its returns and its cancellations. Two sessions suffice for two to be open. One
  line of two units and one of one, returned at once, one by one, or by two rows of one
  return. `MaxBack = 2` lets goods come back twice, `MaxMoves` and `MaxEdits` are 1.
- *Warehouse*: two calls; the three parts of the module touch different rows except for the
  goods, and work one at a time (`Scenes`); goods also move while they are counted, because
  sales and losses belong to the inventory. Receipts of one
  line, of the other and of all of it, so that two receipts lock a line in common or none, three units paid (`MaxPaid`) on an invoice of two, four transfers to and fro
  between two stores, a line adjusted twice at most (`MaxAdjusted`), one change of the order.
- *Subscriptions*: two calls, two requests, two purchases, three answers of Apple, three
  moments (`MaxTime`) for a period of one: a trial ends, and so does a period granted after
  it. `Scenes` lists which parts work together: the end of the trial with each of the
  others, and each pair that writes the same columns. Four edits: a status alone, a plan, a
  later start, a later end. Room for one user in the free plan and for more in others, so that a plan that
  shrinks meets a call that has read the larger limit.

Two runs are disagreements between the code and what its tests say; each is described
with its lines and quotations under `findings` in `PROJECT.json`:

1. *A failure after the commit gives the claim back* (`pos.service.ts:427-433`),
   and the same key sells a second time (`HeldRetry`).
2. *A queue is posted with the token of another user*
   (`offline-sync.ts:28-43`, `api-client.ts:26`; `OfflineSwitch`).

### Known gaps

What the code does not protect against, met while modelling. Where a property excuses it, a
mark of the module names it; counterexamples are found by dropping the mark.

- Stock: a cancelled sale writes back a quantity it has read (`sales.service.ts:298-301`,
  the same in `goods-receipts.service.ts:66-72`); a sale in between vanishes from the
  quantity, its movement stays. `LedgerExplainsStock` is proved without these two operations.
- Held sales: a release checks and then writes by id (`pos.service.ts:363-374`), and so
  undoes the lock of a finalization; another session sells the basket again.
- Offline: a catalogue fetched before a synchronization and saved after it gives the units
  of the synchronized sales back to the device (`offline-db.ts:97-115`).
- Transfers: a failed transfer creates units when the destination has sold what the
  compensation wants back (`inventory.service.ts:95-98`).
- Orders: two conversions of a quote that both read it before either wrote make two orders
  (`quotes.service.ts:118`); a cancellation beside a delivery or a last payment overwrites it
  (`proformas.service.ts:124`); `ready` of the workshop takes a delivered, completed or
  cancelled order back to READY (`manufacturing.service.ts:202`); `removeMaterial` may
  delete a reservation made in between and leave its units reserved for ever (141).
- Counter: two openings of a register both succeed (`cash-register.service.ts:57`), as do
  two point-of-sale pages that find no open session and create one (`pos.service.ts:67-93`, the
  same find and create, for any register of the business, which is not an action of its own);
  a sale or a movement that has found the session open is missing from the report when it is
  written between the report and the closing, or after the closing, and two calls may close
  one session (74); two cancellations or returns of one sale that meet put its units back
  twice (`sales.service.ts:293`, `325`), and so does a return after a cancellation; the report adds
  the cash payment of a sale and the movement it makes, so counts it twice (78-107); two rows
  of one return for the same line exceed what was sold (`returns.service.ts:34`); the sale
  and its invoice may both be taken back.
- Warehouse: `send` of a purchase order and `cancelPhysicalInventory` have no status check
  (`purchase-orders.service.ts:57`, `inventory.service.ts:128`); two receipts of different
  lines that are open at one time each miss the other's increment, and both write
  PARTIALLY_RECEIVED although everything is there (`goods-receipts.service.ts:115-120`); such
  an order can then be cancelled, which `purchase-orders.service.ts:59` refuses with "Un bon
  completement recu ne peut pas etre annule"; two supplier payments lose
  one (73); two transfers validated at one time take a depot below zero, because the units are
  checked on a read and the decrement has no condition (`stores.service.ts:80-82`), while
  `docs/10-Inventory.md:118` says "Le stock ne peut jamais devenir négatif"; one transfer
  validated by two calls is done twice (77); a source without a `WarehouseStock` row gives
  units out of nothing (`stores.service.ts:81-83`); goods sold between count and validation are put back.
- Subscriptions: (a) `updateSubscription` with a status alone writes the plan that the older
  column names, which turns POS_FREE into a trial without end and POS_BASIC into ESSENTIAL
  (`platform.service.ts:273-280`, `801-811`); (b) it leaves the payment as it is, so the end
  of an Apple purchase takes away a plan the platform has set since, although the comment at
  `apple-subscriptions.service.ts:101` says that an ended purchase "cannot downgrade a newer
  manual plan" (`LeftToApple` in `PaidPlanKept`); a later start it writes makes the refund of
  the purchase in force look like that of a former one, which line 100 ignores, so that the
  paid plan stays (`restarted` in `AppleNewestWins`); (c) the reactivation of
  a business and the expiry at a sign-in leave the cached entitlements for up to 30 seconds;
  (d) an approval leaves the business on TRIAL, so that after the paid period a sign-in
  expires it and its owner can no longer ask for a renewal (`auth.service.ts:508-531`);
  (e) an ended answer of Apple that has no row yet is dropped, and an older active one may
  be recorded after it; (f) the compare-and-set of the end of a trial does not compare the
  end; (g) the reactivation of an expired trial leaves the plan TRIAL without an end;
  (h) `docs/15` says that a finished trial blocks the business, the code moves it to the free
  plan; (i) a change of status writes `deletedAt` as it was read, so one that is overtaken by
  a deletion clears it; two decisions on one request, or two requests, may both pass; (j) an error of the write that
  opens the subscription of a reactivated business is swallowed, which leaves it stopped
  (`platform.service.ts:262`, `swallowed`); (k) `TenantsService.update` writes the status of a
  business and the legacy plan of its subscription by id and without a check
  (`tenants.service.ts:82-106`, `163-179`), past the transitions of `updateTenantStatus` and
  past the plan itself; it is not modelled, because nothing said here of these columns holds
  once it has been used.
- Users: two owners who disable each other at one time leave none (`users.service.ts:87`;
  the model has one count of users and does not show it).

## Fairness

- `StockFair`: weak fairness of every request's next statement, and of the
  deadlock breaker. The event loop and Postgres go on with what they have begun.
  Nothing makes a client send a request, and no transaction has to time out: the
  property does not rest on `Timeout`.
- `HeldAll`: weak fairness of every call in progress. A claim need not expire, a
  failure need not happen. `FinalizationEnds` excepts calls that were cut off: a
  row left in `FINALIZING` by a restart is really left there by the code.
- `TransferAll`: weak fairness of the steps of a call that need no error.
  `TransferEnds` excepts transfers whose call was cut off or whose last update
  failed: nothing in the code resumes those.
- `OfflineOnce`: weak fairness of the steps of a page, of the start of its next
  round, and of the statements of a request. Rounds are started by the return
  of the connection, by every sale, and by the button of the offline page; the
  assumption is that one of these comes again. Losses and errors are bounded by
  `MaxTrouble`, so that they do not recur for ever.

## What is proved

All proofs hold for any number of requests, rows, baskets, calls, sessions, pages,
users and sales, under the assumptions of the modules: `ConstantsAssumption`
(`HeldAssumption` in `HeldSale`) gives constants their types, and where units or
amounts are summed the set that is summed over has to be finite: the requests of
`StockTransactions`, the calls of `Transfer`, `Counter` and `Warehouse`, the sales of
`OfflineSync`, the transfers of `Warehouse`. `Sums` proves what these sums need (the sum over the
empty set, one element more or less, one summand changed, two parts, monotonicity)
from the fold of the community modules. Each lemma is an induction over a finite set,
made by a smallest counterexample (`WFMin` with `FS_StrictSubsetOrderingWellFounded`), which needs
no induction theorem with an operator as parameter.

- `StockTransactions_proofs`. `TypeCorrect` is inductive by itself.
  `NonNegativeCorrect` needs drafts to be nonnegative too, lines to have a row and
  a change, and, for the overwriting operations, every version a request has
  read to be nonnegative and its change to be an addition: that is why writing back
  a stale quantity cannot go below zero although it may be wrong.
  `ReservationsCorrect` rests on `BackedInv`: what a request sees of a row differs from
  the committed version by the units of the lines behind it, because the manufacturing
  order tells a reservation only at the commit while the draft has it line by line. That
  a release never finds less reserved than it gives back follows from the sum itself.
  `LedgerCorrect` and `StockImplementsAtomic` assume that `Kinds` contains no overwriting
  operation; the invariant says that drafts and rows agree with their ledger
  (`LedgerInv`) and that the draft of a row differs from the row by the lines of the holder
  that are behind it (`WholeInv`); at the commit these are all lines of the basket, so that
  it is `Apply`, a failure is `Refuse`, the arrival of a request `Ask`, and every other step
  a stutter.
  Two facts that `RequestsEnd` rests on besides fairness are proved, for all operations:
  while requests are in their transactions, one of them can make its next statement or some
  wait for each other in a circle that Postgres breaks (`SomebodyGoesOnCorrect`), because a
  lock is only held by a request that runs (`RunsWithLocks`) and, in a finite set where
  everybody waits for somebody, there is a circle (`WaitingInACircle`); and every statement
  leaves a request fewer, at most 3n + 4 for n lines (`StatementsRunOut`). `Ready` and
  `Deadlocked` repeat the guards of `Step` and `BreakDeadlock`, since ENABLED cannot be
  used in a proof; TLC finds them equal to it on the instances of both runs.
- `PointOfSale_proofs`, held sales. `SoldAtMostOnce` and `CompletedIsNamed` hold for every set
  of operations and faults; they speak of the time before a release or an error
  undoes a finalization (`NothingUndone`), which is exactly where the known gaps
  begin. The invariant `SaleInv` says that calls past the lock are
  at most one, that no sale exists before it sells and the row is then never again
  lockable, and that the key in the row is the key of that call. A deletion that
  overtakes a finalization keeps it, because a cancelled row is not lockable; a
  restart keeps it, because the row stays `FINALIZING`. `FinalizingHasCallCorrect` is the
  safety half of `FinalizationEnds`, without the condition: a row that is `FINALIZING` has
  a call with its key that will complete it or give it back, unless one was cut off.
- `PointOfSale_proofs`, offline sales. `SyncedCorrect` has no assumption: `SyncInv` says that
  wherever an outcome `SYNCED` is (in a request, in an answer, in a round, about to
  be put, in a database of whichever user) the sale is recorded, and sales are
  never unrecorded. `SoldOnceCorrect` assumes that nobody else signs in; then all
  requests carry the same user (`OnceInv`), and the identifier is the primary key that a
  second commit finds taken. `SalesAreExactlyOnceCorrect` is the refinement of `ExactlyOnce`
  under the same assumption: a commit is `Record`, a put of a result is `Show` or `Hide`,
  everything else is not seen. It needs `KnownInv` besides (a round and a request only know
  sales of the database of the user), so that no sale is recorded that was not rung up.
  `DeviceNeverOversellsCorrect` assumes in addition that no catalogue is saved late:
  `StockInv` says that what is recorded has left the quantity of the server, `CacheInv` that
  what the catalogue still shows comes on top of what was rung up. Neither assumption can be
  dropped: `OfflineSwitch` shows it for a change of the user, the known gaps name the other.
- `Transfer_proofs`. `TypeCorrect` needs `AtALine` (the line a call is at
  exists), because only then is what it adds a number of units and where it adds
  them a row. `AllOrNothingCorrect` rests on `LinesMoved`: on the way forward the
  lines that have moved are the first ones, on the way back those not yet undone.
  `StockFollowsStatusesCorrect` rests on `LedgerInv`, which holds whatever was lost: a row is
  what it was at first, changed by the lines that are out of it or in at it and by other
  requests, a sum over the calls; and on `LinesInv`, that the lines a compensation has still
  to undo are out, or in, when it comes to them, so that no line is put back twice. Two facts that `TransferEnds` rests on besides
  fairness are proved: a transfer that is `SENT` has a call in progress, unless that was cut
  off or could not write its last status (`SentHasCallCorrect`), and every statement of a
  call, the failing ones too, leaves it fewer (`CallsRunOut`), so that neither the way
  forward nor the compensation goes on for ever.
- `Orders_proofs`. `InvoicedOnceCorrect` is why the update of the balance is guarded: the
  guard leaves room for the amount (`PaymentFits`), and the invoice comes with the payment
  that leaves nothing. `CompletedIsPaidCorrect` and `StockMatchesOrderCorrect` need that a
  call never writes a status other than those a check may have let pass (`CallInv`) and
  that a workshop's order moves no goods (`OrderInv`). `OneOrderPerQuoteCorrect` is proved
  in the form `QuoteInv`, without counting: the orders of a converted quote are a set of one.
  `ReservationsEndCorrect` needs that reservations are of materials on the list and that a
  manufacturing order has its order (`MakingInv`). `ForwardCorrect` is the action property
  from the same invariant.
- `Counter_proofs`. `OneOpenSessionCorrect` rests on `OpenInv`: a call that has found no
  open session still finds none, unless two raced. `ClosedReportStaysCorrect` on `ReportInv`:
  as long as no call has met a closing, a call that has found a session open still finds it
  so (`UsedInv`), a session was closed at most once and not while it is open (`ClosedInv`),
  and what a closing call has read is still the report when it writes (`ReadInv`). That no
  call starts on a closed session is what the checks of `Move`, `Close` and `Sell` give. `InvoiceAgreesCorrect` and
  `ReturnsFitSaleCorrect` on `InvoiceInv`, which adds that the returns of the lines an invoice
  has are at most those it has had. `RestockedOnceCorrect` has an invariant of its own,
  `BackInv`: nothing comes back of what was not sold (`Unsold`), what was put back through the
  invoice and what calls have still to put back are together what was returned
  (`RestockedAsReturned`, a sum over calls), a sale has its invoice (`SaleInvoiced`), a
  call that takes back the sale is the only one, and the lines it has done are the ones that
  are back (`GiveInv`), and the sale and its invoice are not both taken back (`OneSide`)
  unless a mark says so.
- `Warehouse_proofs`. `ReceivedAsOrderedCorrect` and `StatusFollowsReceiptsCorrect` need what
  the row locks give: a line is held by one receipt at a time and what it is about to add
  still fits (`LinesHeld`), and the status a receipt has read is that of the lines with its
  own increments unless another one has crossed it (`StatusRead`). `InventoryCorrectsCorrect` needs four facts: nothing is
  adjusted before there is an inventory, one call validates it (`OneActive`), a draft holds
  what is there and a change in hand brings its row to the count (`Counted`), and the lines
  adjusted so far are those the validating call has done (`Partial`, `HalfDone`).
  `SupplierPaidCorrect` rests on `BillInv`: the paid amount and the payments that calls have
  recorded and not yet added to it are together the recorded ones, and one call at a time is
  about to write a sum, which is still the right one.
  `StoresFollowTransfersCorrect` is inductive with the types, from a lemma on sums: a validation
  changes one summand of the depot it takes from and one of the depot it brings to, because
  decrement and increment work on the row as it is and not on the one that was read.
- `Subscriptions_proofs`. `PaidPlanKeptCorrect` looks at the seven steps that write the
  subscription: the end of a trial compares the plan it has read, and an ended purchase of
  Apple is irrelevant unless the payment is Apple's. `GrantedInv` says what that means: the
  plan was then set by an answer of Apple, for a purchase bought at `currentPeriodStart`, or
  by `updateSubscription`, which has left the payment as it was. `RequestsAnsweredCorrect` rests on `HoldInv` (a
  request being decided is pending, and decided by one call) and `AskInv` (nobody asks while a
  request is pending). `CacheFollowsPlanCorrect` on `CacheInv`: entitlements on their way to
  memory are already those of the row. `StatusInPhaseCorrect` needs that a change of status
  which has read a deletion writes one (`StatusReadInv`). `LimitKeptCorrect` needs `AddInv`: a
  call that will add a user has counted fewer than its limit, and commits only when the count
  is still that. `AppleNewestWinsCorrect` has an invariant of its own, `AppleInv`: answers are
  numbered as they are signed and each is dealt with once (`NumbersInv`); a later answer on a
  purchase was never bought earlier (`BoughtInv`), so that it is not taken for one on a former
  purchase; the row of a purchase holds the newest answer unless newer ones are on their way
  (`RecordedInv`); and a subscription paid through Apple stands on a purchase whose newest
  answer was active (`GrantInv`).

The type invariants of `Orders`, `Counter`, `Warehouse` and `Subscriptions` are proved
(`TypeCorrect`) and not listed in a run.

Model-checked only: the four liveness properties `RequestsEnd`, `FinalizationEnds`, `Noticed`
and `TransferEnds`, because the proof system has no rules for fairness and ENABLED, and the
two violated properties. For three of the four the safety facts they rest on are proved, as said
above; what is left to TLC is the step from these and fairness to the end. Every invariant, action property and refinement that a passing run
checks is also proved, for every value of the constants that its theorem allows.

## Not modelled, and why

- Discounts, taxes, currencies, receipt numbers and layout: arithmetic and formatting of a
  single request. Amounts are whole units where payments meet a total.
- The cart of a held sale: a finalization sells the items of its own request.
- Tokens, their refresh and resets of passwords: a request either has a valid token or is
  an error, which `Abandon` covers.
- The features of the plans, the limits on stores, warehouses and registers, which work as
  the one on users does, and the roles and permissions: tables that are only read.
- Reservations of assets: each call is one transaction, and a unique index on active
  reservations decides conflicts.
- Records without a protocol between requests: products, customers, suppliers, warehouses,
  categories, business profiles, onboarding, imports (which write a quantity as given).
- Reports, dashboards, audit, notifications, printing, uploads, email, backup: reads, or
  best-effort writes.
- The web interface apart from the offline queue and its callers, and the native shells:
  rendering and navigation. Most lines of the repository are of this kind, among them the
  1900 of the point of sale page, whose calls to the queue are modelled and whose forms and
  layout are not.

## Plan

Done: all modules above with their proofs. Next, in this order:

1. An abstract specification of a document, whose status follows a diagram and whose goods
   move once, which `Orders` and `Counter` implement where nothing was overtaken.
2. The refinement of `ExactlyOnce` without the assumption on the user: what remains of it
   when the queue of one user is posted with the token of another.
3. Owners among the users, and the other three limits, in `Subscriptions`.

The number of runs is kept small: the cases of one module are one run where a history
variable can tell them apart, as `marks` does, and where `Scenes` keeps parts that do not
touch each other from multiplying.
