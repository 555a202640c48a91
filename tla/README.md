# A TLA+ verification project for the restaurant back end

The repository is the back end of a restaurant: a TypeScript/Express service over
PostgreSQL (TypeORM) and Redis. Cashiers, kitchen staff and customers with a phone
work on the same orders at the same time, several processes of the service may run
behind a load balancer, and almost nothing in the code serialises requests except
the row locks that some services take. This directory models that concurrency.

`tlc -workers 2 -config <cfg> <module>` runs a configuration, `tlapm <proofs>.tla`
checks the proofs of one of the modules below, `PROJECT.json` lists runs, source lines,
hazards, findings and theorems.

| Proofs | About |
|---|---|
| `PosOrdersProofs` | `PosOrders`, and that it implements `Ledger` |
| `PublicSubmitProofs` | `PublicSubmit`, and that it implements `KeyedOrders` |
| `ReadModelProofs` | `ReadModel` |
| `StockOrdersProofs` | `StockOrders` |
| `MasterDataProofs` | `MasterData` |
| `CounterProofs` | `Shifts`, `QrTokens`, `ShopAccounts` |
| `StaffProofs` | `Permissions`, `RoleDefaults`, `Endpoints`, `Realtime` |
| `ServerProofs` | `DbPool`, `Retention`, `SignIn`, `RateLimit` |

## 1. Inventory

Paths are relative to `src/` (the repository's source directory).

| Component | State | Operations | Talks to |
|---|---|---|---|
| **POS orders** `services/pos/orders.service.ts`, `orderTotals.service.ts`, `orderSummarySnapshot.service.ts` | `sales_orders`, `sales_order_item`, `sales_order_detail`, `order_summary_snapshots`, `tables.status` | create, createFullOrder, update, updateStatus, delete, addItems, updateItemStatus, updateItemDetails, deleteItem, serving board updates | shifts (is one open?), tables, caches and events after the commit |
| **Payments** `services/pos/payments.service.ts` | `payments`, and the order's status, received amount, lines and table | create, update, delete, each ending in `refreshOrderPaymentSummary` | orders, shifts, caches and events (inside the transaction) |
| **Tables and QR tokens** `services/pos/tables.service.ts` | `tables.status`, `tables.qr_code_token`, its expiry | create, update, delete, ensure/rotate token | customers' tokens |
| **Customer ordering at a table** `services/public/tableOrderPublic.service.ts` | none of its own | bootstrap, active order, submit | addItems or createFullOrder inside its own transaction |
| **Customer takeaway ordering** `services/public/takeawayOrderPublic.service.ts`, `services/pos/takeawayQr.service.ts` | the shop's takeaway token | submit, read one order, rotate token | createFullOrder |
| **Idempotency keys** `utils/publicOrderIdempotency.ts` | records in Redis, or in the memory of each process | reserve, commit, clear | the two public controllers |
| **Shifts** `services/pos/shifts.service.ts` | `shifts`, one open per branch by a partial unique index | open, preview, close, summary, history | orders, payments |
| **Direct line endpoints** `services/pos/salesOrderItem.service.ts`, `salesOrderDetail.service.ts` | the same line and detail rows, without transactions | create, update, delete | totals, snapshot |
| **Read caches** `utils/cache.ts`, `services/pos/readModelVersion.utils.ts`, `ordersReadCache.utils.ts`, `dashboardCache.utils.ts` | LRU caches per process, Redis copies, a version counter with a 250 ms local copy | read through, bump, invalidate | every service that writes |
| **Database context** `database/dbContext.ts`, `middleware/auth.middleware.ts` | a connection per request, its session settings, its transaction | runWithDbContext, runInTransaction | every request |
| **Stock purchase orders** `services/stock/orders.service.ts`, `models/stock/orders.model.ts` | `stock_orders`, items, purchase details | create, updateOrderItems, updateStatus, confirmPurchase, delete | caches, events |
| **Permissions** `services/permissions.service.ts`, `models/permissions.model.ts`, `utils/permissionCache.ts` | overrides, approvals, a decision cache with a version | request, approve, reject override; decide | auth middleware |
| **Sessions** `middleware/auth.middleware.ts`, `controllers/auth.controller.ts` | session keys in Redis, snapshots per process | log in, authenticate, log out | every request |
| **Order retention** `services/maintenance/*` | deletes old orders in batches under an advisory lock | plan, run | orders, payments |
| **Realtime events** `services/socket.service.ts` | rooms of the sockets, an adapter over Redis | connect, join, emit | every service |
| **Background jobs** `queues/` | BullMQ jobs | warm caches | caches |
| **Master data** (categories, toppings and their groups, products, units, delivery providers, discounts, payment methods; for the stock: categories, units, ingredients) | one row per thing, copies in each process | create, update, delete | sales and purchases that refer to them |
| **Shop profile and payment accounts** `services/pos/shopProfile.service.ts`, `PaymentAccount.service.ts` | `shop_profile`, `shop_payment_account` | create, update, activate, delete an account; update the profile | what customers are told to pay to |
| **Baseline and guards** `database/rbac-defaults.ts`, `routes/`, `middleware/permission.middleware.ts` | `role_permissions` | brought up to date at every start; asked for by every route | permissions |
| **Rate limits** `middleware/rateLimit.middleware.ts` | a counter in Redis or in each process | count, refuse, count back | every request |
| **Users, roles, branches, print settings** | one row per thing | create, update, delete | sessions, permissions |
| **Plumbing** (validation, health, start-up, migrations) | - | - | - |

What is hard in it:

* two requests on one order, its lines, its payments and its table, with lock
  orders that differ between endpoints (line then order, order then lines, table
  then order, order then table);
* reads that are not locked and are written back later (`payments.update`,
  `payments.delete`, `closeShift`, the direct line endpoints, stock status);
* checks made before a wait and not repeated after it (the customer's bill, the
  active shift);
* data derived from other rows (total, received amount, snapshot row, table
  status) that every operation must bring up to date;
* a process that dies or a client that leaves in the middle of a request;
* caches and version counters bumped before a transaction commits;
* retries of a public submit whose first try may have succeeded;
* a pool of connections that carry settings and transactions from one request to
  the next, and requests that hold one connection while they wait for another;
* what a process remembers (decisions, sessions, rows) while others change it;
* two administrators, two processes or two clerks at the same thing.

What makes each component correct, in a sentence: an **order**'s derived data
follow its lines and payments whatever interleaves; a **payment** never charges
more than is outstanding, and the one that settles a bill settles all of it; a
**table** is given to one party at a time; a **customer** adds to an open bill
only; a **shift** closes with the cash it really took and leaves no open order
behind; an **idempotency key** makes a retry harmless; a **cache** stops showing
what was replaced; a **purchase order** is received once; a **permission** change
takes effect only by an approved decision, and then everywhere; **retention**
deletes only what is old, and deletes it whole; a **connection** works for the
branch of whoever holds it; a **code** that was replaced opens nothing; **master
data** that something refers to stays; a **socket** hears what is its own.

## 2. Modules

The first module of a component states its program, with the constants it depends
on; a `...Proofs` module its theorems; an `MC` module, with the `.cfg` files, the
instances that TLC checks. A definition named `Wrong...` is a mistake that the
definition after it could contain: putting it in its place makes TLC find a property
violated, which is how the properties themselves were tested.

**Suites.** Modules that share no state are checked side by side by one run:
`MCCounter` (`PublicSubmit`, `Shifts`, `QrTokens`, `ShopAccounts`, `DbPool`),
`MCStaff` (`Permissions`, `Endpoints` with `RoleDefaults`, `Realtime`, `RateLimit`),
`MCStores` (`StockOrders`, `MasterData`) and `MCEventually` (`PosOrders`, `DbPool`,
`SignIn`, `Retention`). A suite's variable `part` is chosen in the initial state and
says whose behaviour this is; the others stay where they start. The state space is
the sum of those of the parts, not their product, and every property is checked over
all behaviours of its module. The actors of different modules have the same model
values in `MCCounter` and `MCStores`, so that the group of permutations used as
symmetry is small; those are sets of interchangeable values in each part. Runs with
liveness use no symmetry.

`CHECK_DEADLOCK FALSE` everywhere: when all identifiers are used up and nobody has
work to do the system stops.

| Run | Parts | Properties |
|---|---|---|
| `lines` | PosOrders | `TypeOK`, `SnapshotAgrees`, `NoOrphans`, `TotalMatchesLines` |
| `bills` | PosOrders, Ledger | `ChargeIsDue`, `SettlementClosesBill`, `SeatOnlyFreeTable`, `LedgerSpec` |
| `counter` | PublicSubmit, Shifts, QrTokens, ShopAccounts, DbPool | `OneAtWork`, `PromiseKept`; `OpenIsIdempotent`, `OldOrderStopsClose`; `DeadStaysDead`; `ActivationMends`; `WorksForOwnBranch` |
| `stores` | StockOrders, MasterData | `NoOrphans`, `OneConfirmation`, `PurchaseStands`; `UsedIsKept`, `OnlyWhatWasSent` |
| `staff` | Permissions, Endpoints, RoleDefaults, Realtime, RateLimit | `TwoPersonRule`, `ReviewedOnce`, `DecisionsSettle`; `BaselineFits`; `StartOnlyAdds`; `OnlyTheirs`, `AdapterComesUp`; `LetInAgain` |
| `readmodel` | ReadModel | `CopiesAreFresh`, `OwnWritesSeen`, `OneFetch` |
| `ends` | PosOrders, DbPool, SignIn, Retention | `EveryRequestEnds`; `EveryCallEnds`; `DisabledIsLockedOut`; `GoesWhole`, `OldOnesGo` |
| `append`, `occupied`, `shift_left`, `stock_status`, `approvals` | one module each | violations, see Findings |

Every safety property of these runs is also proved, for every value of the
constants; the liveness properties are not. The sections below say along which
argument. That the state of a component keeps its types is a theorem too, for every
operator whose name ends in `TypeOK`; a run checks only that of `PosOrders`. A few safety
properties are proved and in no run: the sections name them.

**Fairness** is assumed in `staff` and `ends` only, by the suites' `CastSpec`:
PostgreSQL serves who waits for a row and resolves deadlocks
(`deadlock_timeout`); the pool hands out connections that came back; time passes; a
process goes on with a request, an adapter with its connection, a cleaner with its
batch, and the scheduler's timer fires, because each of them is a promise, a timer or a
loop in the code that waits for nothing but the steps named here. Nothing is assumed of
clients, except in `LetInAgain`, which speaks of a client that goes on asking, and
nothing of Redis coming back, of failures ceasing, or of administrators.

### Ledger and PosOrders (with MCPosOrders, MCBills, MCEventually, PosOrdersProofs)

Orders, lines, payments, tables, snapshots and the customer's submit. `Ledger` has the
rows, what the code computes from them, and what the services promise: every request
that ends well is one atomic step on the rows as they are at that moment, with its
conditions true of them (`PlaceHeader`, `PlaceOrder`, `AddLine`, `ChangeLine`,
`ReviseOrder`, `RemoveOrder`, `ChargeOrder`). There are no sessions, locks or readings in
it. `AmendPayment` is weaker, because the code is: after a payment is edited or removed,
its order gets a status and an amount that may come from an earlier state. So is
`RefreshAgain`, what the second of two removals of one payment does: its DELETE finds no
row, which is no error, and the order is refreshed all the same. `PosOrders`
has the sessions and their statements, and implements `LedgerSpec`: the rows are the same
variables in both, so the refinement mapping is the identity and the rest of its state
is hidden.

*State.* `order`, `item`, `pay`, `table`, `snap` are the committed rows of
`sales_orders`, `sales_order_item`, `payments`, `tables` and
`order_summary_snapshots`; `lock` holds PostgreSQL's row locks; `pc`, `arg`,
`seen` are the private state of each request (where it is, its arguments and
generated ids, what it read and will use later); `created` hands out order ids in
order of creation, because a customer's bill is the *latest* order of the table.

*Steps.* PostgreSQL runs at its default isolation (no level is set in
`database/database.ts`): READ COMMITTED. A statement that locks rows is a step
that waits for them; a transaction's writes appear in its last step, its COMMIT,
which also frees the locks. This is faithful because every row a transaction
writes is locked by it before it commits, so no one can see or change it in
between. A plain SELECT whose result is used after the session may have waited
(`refreshOrderPaymentSummary` after `payments.update`) is a step of its own.
`payments.create` reads under the order's lock, and everybody who writes an
order's total, status or payments ends by writing that order row, so its reads
are merged with its lock. A statement that locks several rows takes them in one
step; the waits of a session that already holds another row are kept, and they
are what deadlocks are made of.

Every request that began a transaction ends it here: it commits, fails and rolls back,
or dies with its connection, and PostgreSQL then frees its rows. A client that hangs up in
the middle is different: `dbContext.ts:100` gives the connection back while its transaction
is open, and the rows stay locked until somebody ends it. That is `DbPool`'s matter (see
Findings); `PosOrders` and `Permissions` leave it out, and so what they say of waiting,
`EveryRequestEnds` above all, is said of clients that stay.

| Action | Code |
|---|---|
| `CreateLock`, `CreateFullLock`, `CreateCommit` | `create`, `createFullOrder` |
| `SubmitCreate`, `SubmitAppend`, `AppendLock` | `submitByToken`, then `createFullOrder` or `addItems` in its transaction |
| `AddLock`, `AddCommit` | `addItems` |
| `UpdateLock`, `UpdateTables`, `UpdateReject`, `UpdateWrite` | `update` (and `updateStatus`, which calls it) |
| `DeleteLock`, `DeleteCommit` | `delete` |
| `ItemLock`, `ItemCommit` | `updateItemStatus`, `updateItemDetails`, `deleteItem` |
| `PayLock`, `EditFind`, `EditLock`, `EditMissed`, `EditReadOrder`, `EditNoOrder`, `EditReadPays`, `EditLockOrder`, `RefreshCommit`, `RefreshMissed` | `payments.create`, `update`, `delete`, `refreshOrderPaymentSummary`; the payment, or its order, may have gone between two of its statements |
| `DeadlockVictim`, `Crash` | PostgreSQL's deadlock detector; a dead process or lost connection |

*Data.* Money is a natural number, a line is its total price, an amount received
is the amount paid, one request adds one line, all orders carry the same fixed
discount (percentages and discounts edited in the master data are left out).
`normalizeOrderStatus` folds the old kitchen states into Pending; clients send any
member of the enum. The active-shift check is left to the shifts module: here a
shift is open.

| Run | Asks | Bounds, and why they are enough |
|---|---|---|
| `lines` | `TypeOK`, `SnapshotAgrees`, `NoOrphans`, `TotalMatchesLines` over every operation of staff | 2 sessions, 1 order, 2 lines, prices 1 and 2, a discount of 1, 1 payment, 1 table: each pair of operations meets on the same rows; an order can be left with one live line, none, or be deleted under a waiting session, and the discount can exceed what is left |
| `bills` | `ChargeIsDue`, `SettlementClosesBill`, `SeatOnlyFreeTable`, `LedgerSpec` | 2 sessions, 2 orders, 2 lines, 2 payments, 2 tables. `Scenes` keeps a behaviour to one of two matters: one order that is paid in two parts while its lines change and the first payment is edited or removed, by one session or by two at once (the payment that settles races them all), or two orders of one line each that are put at, moved between and freed from two tables. Nothing relates the two: a table is not read by a payment's arithmetic, and amounts are not read by a table's |
| `ends` | `EveryRequestEnds` | 1 order, 1 line, 1 payment, 1 table, 2 sessions, and the operations that take the lock orders which can close a cycle |
| `append`, `occupied` | violations, see Findings | the fewest rows that show them; `occupied` has three orders, the old one, the one at its table, and the next party's |

*Fairness.* `FairSpec` adds `SF(Continue(s))`: PostgreSQL queues the waiters of a
row and wakes them in turn, so a request whose rows become free again and again
is eventually granted them; and `WF(DeadlockVictim(s))`: the detector runs after
`deadlock_timeout` on every wait. No fairness is assumed of arriving requests or
crashes.

*Proved* (`PosOrdersProofs`, for every number of sessions, orders, lines,
payments and tables, any set of prices, any discount): `TypeCorrect`,
`SnapshotCorrect`, `TotalsCorrect`, `NoOrphansCorrect`, `ChargesAreDue`,
`SettlementCloses`, `SeatedAtFreeTables` and `ImplementsLedger`, which is every safety
property that the runs check. The assumptions are those of the constants: prices are positive, `NoTable` is no
table, `Free` no session, statuses and operations are those of the enum.

None of them is inductive: that a total is right after an `addItems` depends
on the order still being locked, existing and unchanged since the lock. `IInv`
adds, per session, what its locks protect in each phase:

* `OrderHeld`, `LineHeld`, `PaymentHeld`: past a lock, the row is still owned,
  exists, and belongs to the same order;
* `ChargeChecked`: what a new payment was checked against is still so;
* `IdFresh`, `LineFresh`, `PayFresh`: ids that were generated are no one else's;
* `ArgsOK`: arguments have the shape of their phase.

The proof has three parts. Lemmas about values (totals, sums, summaries are
natural numbers; a row that no step touched has the same total). `QuietInv`, used
for every step that writes no row: it is enough to look at the stepping session,
because the others' locks are untouched (`Apart`). One lemma per COMMIT
(`CreateCommitInv`, `AddCommitInv`, `ItemCommitInv`, `UpdateWriteInv`,
`DeleteCommitInv`, `RefreshCommitInv`): the writes stay within rows the session
has locked, so by lock exclusion no other session's facts change (`Within`,
`Unclaimed`, `OtherOrders`). `ChargesAreDue` follows from `ChargeChecked` at the
only step that inserts a successful payment, and from the fact that a payment
editor only writes a row that already exists.

The last three theorems are about what a session does with what it has read, so
`SeatInv` adds to `IInv` that this is still so:

* `SeenStill`: a new payment has locked its order, hence the status, the total, the
  table and the sum of payments that it read are those of the rows when it commits;
* `TablesHeld`: a session that seats an order has locked the tables concerned, and
  the next one is free, from the check to the COMMIT.

What keeps them is the locks again: a step of another session writes only rows that
it has locked (`StepWrites`, `TablesWritten`), hence neither the order that a payment
holds (`OrderKept`) nor the tables (`OthersStill`); the session's own steps are
`OwnStill`.

`ImplementsLedger`: steps that are no COMMIT stutter, and each COMMIT is a step of
`Ledger` (`CreateIsAStep`, `AddIsAStep`, `ItemIsAStep`, `UpdateIsAStep`, `DeleteIsAStep`,
`RefreshIsAStep`). The conditions, which the session tested when it took its locks, are
true at its COMMIT by `SeatInv`; `LedgerInv` adds that the amount in a request is one that
clients send (`Meant`).

`SettlementClosesBill` says that the received amount becomes what was paid before
plus the new payment. That the sum over all payments grows by just the payment that
is inserted is an induction over the payments, which `tlapm` cannot do; TLC
evaluates the sums in `TotalMatchesLines` and `ChargeIsDue`.

*Model-checked only*: `EveryRequestEnds` (liveness).

### Shifts (with MCCounter, MCShifts, CounterProofs)

The shifts of one branch beside the orders and payments that need one.

*State.* `shift`, `ord`, `pay` are the rows; `stage` and `noted` the caller's place
and what it has read; `watch` is a history variable: which shifts were open, and
which orders stayed open, since a caller's request arrived. Shifts are numbered
in the order they open; instead of a clock, an order carries in `since` how many
shifts had been opened when its transaction began, which is all that the
comparison of `create_date` with `open_time` tells apart. An order is locked while
a payment works on it.

| Action | Code |
|---|---|
| `OpenFind`, `OpenInsert`, `OpenRefused`, `OpenAgain`, `OpenReturn` | `openShift`: find, insert, the unique index `UQ_shifts_one_open_per_branch` (23505), find again, answer |
| `CloseRead`, `CloseCheck`, `CloseSum`, `CloseSave` | `closeShift`: four statements without a transaction |
| `OrderCheck`, `OrderBegin`, `OrderCommit`, `OrderUpdate` | `ensureActiveShift`, then the transaction of an order; its status changes |
| `PayBegin`, `PayCommit`, `PayEdit` | `payments.create` (order lock, shift read, commit), `payments.update` |
| `CallerDies` | a dead process or lost connection |

Left out: summaries, the close preview and the history, which only read; the cash
a shift starts with (a constant added to both sides); `payments.delete`.

| Run | Asks | Bounds, and why they are enough |
|---|---|---|
| `counter` | `OpenIsIdempotent`, `OldOrderStopsClose` | 2 callers, 3 shifts, 1 order, 1 payment: a close beside every other operation, with the order of an earlier shift or of this; an opening refused by a rival whose shift is closed before it looks again |
| `shift_left` | a violation, see Findings | the fewest rows that show them |

*Proved* (`CounterProofs`, for any number of callers, shifts, orders and payments
and any amounts): `ShiftTypeCorrect`, `OpeningIsIdempotent`, `OldOrdersStopCloses`.
The invariant adds to them, per session, `Names` (what it read exists), `SawRival`
(an opening that was refused saw the shift that refused it, open or closed by now)
and `Checked` (past its count, no order that was open since the close began belongs
to the shift: an order cannot become older than it is). The only proofs that are
not one action at a time are those about `watch`, which every action updates
(`Remember`).

### StockOrders (with MCStores, MCStockOrders, StockOrdersProofs)

A branch's purchase orders of ingredients, their items, and what was bought.

*State.* `order` is the status of an order, `item` and `detail` the rows below it;
`pc` and `seen` are each request's place, arguments, reads, and the rows it has
written but not committed (`held`: updated or deleted; `back`: inserted again under
an old id; `new`: inserted). The locks are not state of their own but follow from
these: `Confirming` is confirmPurchase's `pessimistic_write` on the order,
`Written` the lock of a row that was written, `Sharing` the lock that an insert
under a foreign key shares on the order, `Removing` a delete that the foreign key
of a detail waits for. A deleted row keeps its columns, because those who have read
it may still write it.

TypeORM's `save` is the reason for most of the steps: it reads the row by its id
once more and then inserts (the row is gone), updates what differs, or does
nothing.

| Action | Code |
|---|---|
| `CreateOrder` | `createOrderWithItems`, invisible until its COMMIT |
| `EditCheck`, `EditFind`, `EditRemove` | `updateOrderItems`: check the order, find its items, delete what is not wanted |
| `EditReload`, `EditUpdate`, `EditReinsert`, `EditInsert`, `EditCommit` | its saves, one after the other, and the COMMIT |
| `StatusRead`, `StatusReload`, `StatusUpdate`, `StatusInsert` | `updateStatus`: read and check, then `save` |
| `ConfirmLock`, `ConfirmFind`, `ConfirmCommit` | `confirmPurchase` |
| `DeleteOrder` | `delete`, with the cascades |
| `Crash` | a dead process, a lost connection, a deadlock victim |

Left out: remarks, prices and users (data that nothing here depends on), listings,
events and the caches. An order is locked by its reader only in confirmPurchase;
everything else is as unlocked as the code leaves it.

| Run | Asks | Bounds, and why they are enough |
|---|---|---|
| `stores` | `NoOrphans`, `OneConfirmation`, `PurchaseStands` | 2 sessions, 1 order, 2 items, 2 interchangeable ingredients, quantities -1, 1 and 2: every pair of operations on one order, with an item that one keeps and the other removes, and a quantity that must not be recorded. Clients ask for completed and cancelled. They may also ask for pending (the schema takes every status), which opens a confirmed order again: an instance with that status and quantities 1 and 2 was checked apart (1.7 million states), and the theorems are about any statuses |
| `stock_status` | a violation, see Findings | the fewest rows that show it |

*Proved* (`StockOrdersProofs`, for any number of sessions, orders, items and
ingredients and any integers as quantities): `StockTypeCorrect`, `StockNoOrphans`,
`ConfirmationsTakeTurns` and `PurchasesStand`, whatever status clients ask for: the record
of what was bought goes only with its item, and is written over only by a confirmation that
finds the order pending and completes it. `NoOrphans` is not inductive: that an edit may commit its insertions
depends on the order still being there. The invariant adds `Asked` (a request's
order was created and does not become unknown), `InHand` (the rows that it will
write are rows of its order, and have a quantity in its request) and `Protected`
(what it has written is there, is written by no one else, and the order of what it
has inserted exists). A step preserves the facts of the other sessions
(`OtherFacts`) because of the locks (`LiveStays`, `WritesApart`), and those of its
own session one action at a time (`OwnFacts`). `PurchasesStand` follows from the invariant
alone: nobody writes over a record but `ConfirmCommit`, which holds the order's lock since
it found it pending.

### PublicSubmit and KeyedOrders (with MCCounter, PublicSubmitProofs)

A customer's phone sends an order with an `Idempotency-Key` and, when no answer
comes, sends it again. `KeyedOrders` is what the key promises, and nothing else: an
order is made for a key at most once while `trusted`, and whoever is answered is
answered with an order that was made for that key and payload. `PublicSubmit` is the
submit handler of both public controllers around `submitByToken`, and implements it.

*State.* `order` are the orders made, with key and payload. `store[h]` are the
records of the keys in Redis (`Shared`) and in the memory of each process; the
fingerprint of a record is the payload it stands for. `pc` and `seen` are each
request's place in the handler and what it was sent with, `told` the order in the
last answer to each client. `trusted` is a history variable: it becomes false when a
record that a retry needs is lost, when a call looks elsewhere than where the record
is, and when an error hides an order that was made. It does not restrict any action.

| Action | Code |
|---|---|
| `Disabled` | a request without a key |
| `Look`, `Reserve`, `LookAgain` | `reservePublicOrderIdempotency`: read, `SET NX`, read again after a lost race |
| `SubmitFails`, `Submit`, `SubmitHidden` | `submitByToken`: rolled back, committed, or committed with an error all the same |
| `Record` | `commitPublicOrderIdempotency` and the answer |
| `Clear` | `clearPublicOrderIdempotency` in the handler's catch |
| `Lose` | the time to live, eviction in Redis, `pruneMemoryStore` |
| `Crash` | the death of a process, with its requests and its memory |

A call to Redis may fail before or after Redis has done it; the code then makes the
same call to the memory of its process, and that one's reply counts (`Reached`,
`Reply`). `submitByToken` is one step here; PosOrders has its inside.

| Run | Asks | Bounds, and why they are enough |
|---|---|---|
| `counter` | `OneAtWork`, `PromiseKept` (the refinement) | 2 sessions, 2 processes, 1 key, 2 payloads, 2 orders, every kind of failure: two requests that race, a retry after each step of a first one, on the same or the other process, with the same or another payload, and a second order to tell from the first. Keys do not interact but through `seen`, and a session may come again |

*Proved* (`PublicSubmitProofs`, for any number of sessions, processes, keys,
payloads and orders, with Redis or without it for a single process):
`SubmitTypeCorrect`, `OneRequestAtWork`, and `PromiseIsKept`, which is the
refinement. The abstract promise does not mention records, so the invariant says
what they are for: `Remembered` (an order's key keeps a record, where every process
looks, and has no second order) and `Reserved` (whoever is at work has the record of
its key, and no order of that key but its own), both while `trusted`; and always
`RecordsAreTrue` and `AnswersAreTrue` (they name an order that was made for their
key and payload). The assumption `OneStore` is needed: without Redis every process
has its own records, and a load balancer over several of them gives no promise.

### ReadModel (with MCReadModel, ReadModelProofs)

The lists of orders are cached, and what makes them fresh again is their key: it
holds a version, a counter in Redis that every change of an order increments. Each
process remembers the version for 250 ms, and keeps its copies in memory and, if
`REDIS_CACHE_ENABLED`, in Redis. The dashboard's caches follow the same protocol.

*State.* `db` is the database, as the set of changes that it contains. Of a change,
`home` is its process, `at` how far it is, and `made` the version that its `INCR`
made. `local[p]` is the version that a process remembers; `link[p]` are the replies
on its connection to Redis, which arrive in the order in which Redis executed the
commands. `copy` and `shared` are the copies, by version. `pc` and `seen` are the
readers; `seen[r].due` is what the reader may count on (the changes that its process
had confirmed when it came), and `missed`, a history variable, what answers lacked
of that. `early` are the changes that are counted before they are committed.

| Action | Code |
|---|---|
| `ReadToken`, `TokenReply` | `getReadModelVersionToken`: remembered, asked for, or waited for |
| `Look`, `LookShared`, `Hit` | `withCache`: the copy in memory, and in Redis |
| `Miss`, `Fetch`, `Store`, `Share` | `withCache`: one fetch for all who miss, and its copies |
| `ReadFails` | a query or a call to Redis fails, for all who wait for it |
| `Commit`, `Bump`, `BumpReply`, `Invalidate` | a change after its transaction: `addItems(...).then`, `finalizeOrderMutation` |
| `Begin`, `CommitLate` | a change that is counted inside its transaction: payments, and what a customer orders |
| `BumpFails`, `LinkBreaks` | a failed or unanswered `INCR`, which `allSettled` hides |
| `ExpireLocal`, `ExpireCopy`, `ExpireShared`, `Crash` | time, the limits of the caches, the death of a process |

A command reaches Redis at once and its reply takes its time; a change waits for any
time before its `INCR`. `Cleared` is FALSE in the run, as for the summaries and
statistics, whose caches `invalidateLocalCache` does not touch; for the list,
clearing is a case of `ExpireCopy`, and the theorems hold for both.

| Run | Asks | Bounds, and why they are enough |
|---|---|---|
| `readmodel` | `CopiesAreFresh`, `OwnWritesSeen`, `OneFetch` | 2 processes, 2 readers, 1 change, copies in Redis: a reader on the same or the other process between any two steps of a change, and a second one that finds what the first left behind. A second change only makes a third version, and two are enough to file a list under the wrong one; two changes were checked with one process and one reader, and the theorems are for any number |

Both promises are about changes that were counted after their commit and whose count Redis
confirmed (`Confirmed`, `Promised`): who comes to a process after it has confirmed such a
change sees it. They say nothing about two kinds of change that clients are answered all the
same. For `early` ones, payments and what customers order, both are false: a list read
between the `INCR` and the COMMIT is kept under the new version without the change (see
Findings). A change whose `INCR` failed has no version at all. That a
stale list is gone when its time to live ends is what `ExpireCopy` says, and not
proved: nothing in the model forces time to pass.

*Proved* (`ReadModelProofs`, for any number of processes, readers and changes):
`ReadModelTypeCorrect`, `FreshCopies`, `OwnWritesAreSeen`, `OneFetchForAll`. A copy
is fresh because versions are counted after the commit and asked for before the
database is: what a version counts was in the database before anyone could know the
version (`Written`, `Reading`). That no copy lies under a version yet to come
(`NoFutureCopy`) keeps the promise when the counter moves. `OwnWritesSeen` rests on
`Linked`: a reply that is still on its way never carries a version older than one
that the process has taken, since `GET` and `INCR` share one connection. With
`TypeOK`, that the version is the number of counted changes (`CountNext`) bounds it.

### QrTokens (with MCCounter, CounterProofs)

The codes that open a table, or the takeaway counter, to customers
(`services/pos/tables.service.ts`, `takeawayQr.service.ts`, the shop's profile).

*State.* `door` is the row of each table, and those of the counter (`Counters`: the rows of
`shop_profile` that the branch may get): whether it exists, its
code, whether the code has expired, and whether the table is active. `spent` is a
history variable: codes that were replaced or that went with their table. `asker` is
where each request is, which row it read, and what it will answer; its `dead` are the
codes that were spent when it came.

| Action | Code |
|---|---|
| `EnsureQrToken`, `RotateQrToken`, `FindAllWithQrCodes`, `GetOrCreateProfile`, `CreateOrUpdate` | reading a code, with a rotation if it is missing or expired; the list of all tables rotates one after the other; the profile is made by whoever finds none, and two who find none make two |
| `GenerateUniqueQrToken`, `UpdateQrToken`, `Reread` | `rotateQrTokenInternal`: draw, UPDATE, read again |
| `CreateTable`, `FindTable`, `UpdateTable`, `DeleteTable` | create, update and delete of tables; a table with orders is kept |
| `Expire`, `Hear` | time; the answer is given |

Codes are random, so one that was drawn is not drawn again; a bounded set of them ends
a behaviour when it is used up. In `counter`: 2 tables, 2 profiles, 3 codes, 2
askers, so that two draw for one door, two make a profile at once (more than two would take
more askers), a table goes while its code is drawn, and one edit spans a rotation.

*Proved*: `DeadStaysDeadHolds`. The invariant `QrInv`: no two doors have one code and
none a spent one (`DoorsApart`); a code that was drawn and not yet written is nobody
else's (`AskersApart`, `Unused`); what a request will hand out was alive when it came
(`HandsOut`), because it reads the row again after its UPDATE; and a row that is being
rotated has a code, or is gone (`OnDoor`).

### ShopAccounts (with MCCounter, CounterProofs)

The PromptPay accounts of a branch, one of which is active and copied to the shop's
profile (`services/pos/PaymentAccount.service.ts`, `shopProfile.service.ts`). Nothing
there runs in a transaction.

*State.* `profiles` and `accounts` are the rows; `clerks` is where each request is, with
the account as it read it. `alone` is history: nobody else wrote since the request was
called.

| Action | Code |
|---|---|
| `ClerkCalls`, `FindShop`, `MakeShop`, `MakeShopFails` | `getShopIdForBranch`: the profile is made by whoever finds none |
| `FindAccount`, `SameNumber`, `Count`, `Assign` | the checks of create, update, activate and delete |
| `DeactivateAll`, `Save`, `SyncToShopProfile`, `RemoveAccount` | the statements |
| `WriteProfile`, `Breakdown` | `updateProfile`; a call that fails between two statements |

`counter`: 1 shop, 2 accounts, 2 numbers, 2 clerks, with failures: every pair of
operations between any two statements, and an activation after whatever they left.

*Proved*: `ActivationMendsHolds`. Two active accounts, or none, are states this code
reaches (see Findings); the theorem says what gets it out of them. `ShopInv` follows an
activation that is alone through its statements (`Mended`): after the first all other
accounts are inactive, after the second the row is as it was to be saved, after the
third the profile agrees.

### DbPool (with MCCounter, MCEventually, ServerProofs)

A request borrows a connection, sets the branch for row-level security on it, works on
it, resets it and gives it back (`database/dbContext.ts`, `middleware/auth.middleware.ts`,
`requireBranch`). A connection keeps settings and transactions from one request to the
next.

*State.* `conns`: what each connection is set to, its transaction, what a rollback would
restore, who holds it, and whether it once came back with a transaction that nobody
ended (`left`). `call`: where each request is and what it holds. `line`: who waits, in
order. `known`: the branches whose existence was looked up lately.

| Action | Code |
|---|---|
| `Arrive`, `Grant`, `TimeOut`, `Evict` | `createQueryRunner().connect()` and the pool (a library, modelled from its use) |
| `SetContext` | `set_config`; refused in a failed transaction, and the connection is then not given back |
| `Check`, `Lookup`, `ForgetBranch` | `requireBranch`, which takes a second connection while it holds the first |
| `BeginTx`, `Statement`, `EndTx` | the handler, at most `MaxStatements` statements; a transaction open on the connection is joined |
| `Respond`, `Hangup`, `Release` | the response is finished, or the client gone while the handler still runs; the context is reset and the connection given back |

`counter`: 2 connections, 2 requests, 1 branch and the administrator's context, 2
statements, clients that hang up. `ends`: 2 requests, each of which needs both of 2
connections, without hang-ups: they wait for one another until the pool's time-out.

*Proved*: `WorksForOwnBranchHolds`, for any pool and any number of requests, branches
and statements, and `OneHolderHolds`. `PoolInv`: a request holds the connections it
believes it holds and no one else does (`HoldsOne`), who is in line is there once
(`InLine`), a free connection that was never left in a transaction has none
(`FreeClean`), and a connection that is clean was set to its holder's branch, within a
transaction as well, where a rollback restores just that (`ContextSet`). The exception
for `left` is real (see Findings): the theorem says it is the only one.
*Model-checked only*: `EveryCallEnds`.

### SignIn (with MCEventually, ServerProofs)

The sessions of one user (`authenticateToken`, `controllers/auth.controller.ts`): a token
that expires, a session in Redis that every use prolongs, and a copy of it in each
process, which every use prolongs too.

*State.* `enabled` is `users.is_use`; `token` the age of each token; `sessions` Redis;
`redisUp`; `copy` the age of each copy; `visit` where each request is.

| Action | Code |
|---|---|
| `LoginRead`, `LoginSave`, `UpdateMeRead`, `UpdateMeSave` | login and updateMe, which save the whole row that they read |
| `Logout` | the session is removed, the copies are not |
| `VisitByCopy`, `VisitByRedis`, `ValidateRead`, `ValidateStore`, `Answer` | `authenticateToken`: the copy, the session, now and then the database; when Redis does not answer, neither the session nor the copy of a disabled user is removed |
| `SetUse`, `RedisFails`, `Passes` | an administrator disables or enables; Redis comes and goes; time |

`ends`: 1 token, 1 process, 2 requests, a token of 3 ticks, a comparison with the
database after 2, copies of 1 tick: the order of the three is that of the code's 8 hours,
5 minutes and 1 minute, and one tick between each two is what a step can fall into.

*Proved*, for any number of tokens, processes and requests and any lengths of time:
`SignTypesHold`, and `LockedOutStaysOut`, the safety half of `DisabledIsLockedOut`
(`StaysOut`, in no run): once a disabled user's tokens are too old and no login or profile
is still being saved, no request is let in, whatever copies and sessions remain, until an
administrator enables the user. *Model-checked only*: `DisabledIsLockedOut`, that it comes
to this. It cannot be stronger: that a
disabled user is locked out at once, or when a copy ends, is false, since each use writes
the copy again, and a validation that read the row before can write the session back.

### Retention (with MCEventually, ServerProofs)

The deletion of old orders, purchases and audit entries in batches
(`services/maintenance/`).

*State.* `env` are the settings of the deployment; `aged` the row of each order, purchase
and entry, with its parts (payments, items, details); `given`, history, the parts that
the rest of the program gave to it; `cleaner` where each process is, with the ids that it
fetched and what its transaction has deleted so far.

| Action | Code |
|---|---|
| `RunCycle`, `CountCandidates`, `FetchCandidateIds` | the timer, and the reads outside of the transaction |
| `DeleteParts`, `DeleteItems`, `DeleteOrders`, `DeleteAuditLogs` | the statements of a batch; the last one commits |
| `Interrupt` | a failure or a restart rolls back; the cycle ends |
| `AddPart`, `Toggle`, `GrowOld` | the rest of the program adds to orders, closes and reopens them; time |

`ends`: 1 row of each kind, 1 part number, batches of 1, 1 cleaner, 1 restart, and two
deployments (one that falls back on defaults, one that sets everything).

*Proved*: `GoesWholeHolds`, for any rows, cleaners, batch sizes and settings.
`RetentionInv` adds that what a cleaner has fetched is old and of a kind that the
settings let go, and that it has deleted only parts of what it fetched (`CleanersFit`);
an order goes with the last statement only if the foreign keys find no part left.
That the order is *closed* when it goes is not promised: see Findings.
*Model-checked only*: `OldOnesGo`.

### MasterData (with MCStores, MasterDataProofs)

The eleven kinds of rows the shop is set up with (categories, topping groups, toppings,
products, units, delivery providers, discounts, payment methods, and the stock's
categories, units and ingredients), their controllers, services and models.

*State.* `shelf` are the rows, with a name, a flag and references; `copies` what each
process remembers of lists, single rows and names; `flights` its reads on the way;
`edits` where each request is; `scene` what a behaviour is about; `dated` the processes
that a change has passed by.

The eleven services are one program with different steps. A handler is a *plan*, a
sequence of steps with an await between any two: e.g. `CategoryDelete` is `<<Find,
Unused("product"), Unused("topping"), Remove, Announce>>`. There are 33 plans; the
actions say what a step does.

| Action | Code |
|---|---|
| `StartCreate`, `StartUpdate`, `StartDelete`, `DoGate` | a request, and the capabilities that its controller asks for what it changes |
| `LookAtCopy`, `LookForNoName`, `DoFound`, `DoUnnamed` | checks that look at cached rows |
| `DoFind`, `DoName`, `DoWith`, `DoActive`, `DoUnused`, `DoAgain`, `DoSync` | checks that look at the database |
| `DoInsert`, `DoPatch`, `DoWhole`, `DoMerge`, `DoSave`, `DoRemove` | the writes of TypeORM: only what was sent, the row as read with it, `merge` and `save`; the unique indexes and foreign keys refuse |
| `DoAnnounce` | the copies of the process are forgotten |
| `Fail` | a call fails between two steps |
| `Fetch`, `Land`, `Expire`, `Use` | cached reads, which may land after the row has changed; a sale or a purchase refers to a row |

`stores`: 2 requests, 2 rows, 1 process, 13 scenes: each pair of kinds of which one
refers to the other, and, for the indexes of lower-case names, two names that differ in
case only. Every scene keeps one kind of copy or none; a check looks at one kind of copy, so
that others only multiply states.

*Keys.* `HeldBy` says which references hold the row they lead to (the deletion is refused),
and `Without` what a deletion does to the others. The schema is that of the migrations. A
topping's categories are the one table that two deployments have differently (`Migrated`):
made by its migration, the key is RESTRICT (`1773800000000`); made from the entities before,
it cascades. TLC has the first, the theorems both. Of a stock category under an ingredient
the entities' key refuses the deletion, and so in effect does the migrations' composite SET
NULL, since `branch_id` may not be null. `ExactIndex` and `FoldedIndex` are the unique
indexes of names; the indexes refuse in `DoInsert` and the other writes, and no property
restates them.

`UsedIsKept` is about steps: no step removes a row that a key holds, and after every step
all references lead to a row, those of sales, purchases and join tables too (`Resolved`).

*Proved*: `UsedIsKeptHolds`, `OnlyWhatWasSentHolds`, for any number of
requests, rows and processes and any scenes. `DataInv` says that what is remembered or on
the way of a row is a row of that kind (`CopiesFit`, `FlightsFit`), that each request,
wherever it stands in its plan, has read what the next steps need (`EditsFit`), that
those at work on one row take it for the same kind (`KindsAgree`), and that references
are resolved. The lemmas about plans (which step may follow which) are finite case analyses
over the 33 plans; that nothing is left without what it refers to then rests on the keys in
the statements that write, not on the checks before them (`WriteOfUsed`, `StepsOfUsed`). The
only assumption is `SceneKinds`.

### Permissions (with MCStaff, MCPermissions, StaffProofs)

What the staff may do (`services/permissions.service.ts`, `models/permissions.model.ts`,
`utils/permissionCache.ts`): the rules of a role, the overrides of a user, risky overrides
that a second administrator has to approve, and decisions that each process remembers.

*State.* `rules` are the rows of the role and of each user; `approvals` the requests;
`answers` each process's remembered decisions with their age; `task` and `memo` where each
request is and what it has read; `applied`, history, which approvals took effect by whom.

| Action | Code |
|---|---|
| `AnswerFromMemory`, `Fetch`, `KeepAnswer` | a decision, which may be stored after the rules have changed |
| `SubmitOverride`, `RequestApproval`, `ReplaceRole`, `Offboard` | an override that is not risky, one that is, the rules of the role, a user who is disabled |
| `DeleteRows`, `InsertRows`, `InsertRefused`, `InsertVictim`, `Invalidate` | the transaction of a replacement, with the waits of PostgreSQL, and the memory after it. The rows are inserted one by one, so that two edits of a user who had none can each hold a key that the other needs: PostgreSQL ends one (`InsertVictim`) |
| `Review`, `ApproveInsert`, `Mark`, `CommitReview` | `reviewOverrideApproval` |
| `TimePasses`, `Restart` | decisions age; a process dies, and its start brings the baseline back |

`staff`: 1 user, 2 administrators, 2 processes, 2 requests, 1 approval, memories of 1 tick.
The run looks either at overrides and their reviews, where decisions play no part, or at
decisions while rules are edited.

*Proved*: `TwoPersonRuleHolds` and `ReviewedOnceHolds`, for any staff, administrators,
actions and processes. `PermInv`: what was asked for is risky and of a user (`ApprovalsOK`);
what a review has read is what was asked for, by someone else (`Reviewing`); an edit carries
no risky rule (`MemoOK`); of those that have marked a request one commits (`OneCommit`), by
the row lock of the guarded UPDATE.
*Model-checked only*: `DecisionsSettle`.

### RoleDefaults and Endpoints (with MCStaff, StaffProofs)

`RoleDefaults` is the baseline of `database/rbac-defaults.ts` as tables of capabilities, and
what becomes of the rows of `role_permissions`: every start of a server adds the baseline
(`EnsureRbacDefaults`, `StopServer`), administrators replace them
(`ReplaceRolePermissions`). `Endpoints` is what each route under `routes/` asks of who calls
it (`CallEndpoint`, `CallEnds`): the capabilities it always needs (`needs`), those that the
body or query adds (`more`), the one that an update needs when it carries nothing of those
(`rest`), which rows are in reach of a scope (`limit`), and what stands before the route
(`guard`: `enforceUserManagementPolicy` before every route of users, and
`authorizePermissionOrSelf` where one asks for one's own permissions). Each
`authorizePermission` leaves its scope in the request, and the next one writes over it; so a
row is checked against the scope of the last, except for shifts, whose handlers ask for the
scope of one capability by name (`Looks`). A row (`RowsOf`) is the caller's or not, of the branch or not, and, for
users, an employee or not. A call's `hit` is the row it acts on. It is the one that was
checked, except in a close: `assertCanCloseShift` looks at the current shift, and
`closeShift` looks again, when it may be another one.

`staff` calls every route with each role, with nothing, one thing and everything that asks
for more, on every row; starts and edits are
followed for two capabilities, and no capability affects another.

*Proved*: `StartOnlyAddsHolds` for whatever capabilities are followed; it needs no invariant,
only that the baseline of a role is one of its policies. `BaselineFitsHolds`: every route
asks only for capabilities that exist; whoever has one with which the route writes, and
sends nothing that needs another, is served with some row, so no grant is idle; and whoever
is granted a thing for "own" gets at nobody else's row. Of a close only this is true, that
the shift which was current when the close was checked was the caller's (see Findings). One lemma for each table of routes
shows it, from a few about how the tables are put together (`PartsFacts`, `WhoseScope`,
`ListedFits`, `PageFits`, `PartMore`); `EndpointsFit` collects them, and the call in
progress is one of those routes, called with some of what it can be called with
(`VisitorOK`, which is inductive).

### Realtime (with MCStaff, StaffProofs)

Who may connect, which rooms a socket joins, to whom an event goes, and the adapter by which
processes share their rooms (`services/socket.service.ts`).

*State.* `member` the users, `session` the copies that admission looks at, `socket` each
socket's rooms and what it heard, `redis`, and `adapter`.

| Action | Code |
|---|---|
| `AuthPublicTable`, `AuthUser`, `JoinRooms`, `Disconnect` | the middleware and the connection handler, with the awaits between them |
| `EmitAny` | `emit`, `emitToRole`, `emitToBranch`, `emitToPublicTable`, and the rule for administrators' events |
| `SessionChanges`, `EditMember` | a user's row and session change meanwhile |
| `InitRedisAdapter`, `ClientReady`, `BothConnected`, `ConnectFails`, `GoDown`, `ComeUp` | the two clients of the adapter, its attempts and outages |

`staff`: 1 socket, 1 user, 1 table, 2 branches, 2 outages; sockets do not affect one another.

*Proved*: `OnlyTheirsHolds`, since a socket is only in rooms of what it was admitted as
(`InOwnRooms`) and has heard only through them (`HeardOwn`). The assumption `RealtimeSets` is
that a table is no user. What the property does not promise: a socket admitted as an
administrator's goes on hearing after the role is taken away. `AdapterGoesOnHolds`
(`AdapterGoesOn`, in no run) is the safety half of `AdapterComesUp`: while Redis is up, an
adapter that was started shares the rooms, or a step of it is to come. `AdapterInv` says
how the state of the adapter, its two clients and its timer go together. Both with
`RedisRecord` give `RealtimeTypesHold`.
*Model-checked only*: `AdapterComesUp`.

### RateLimit (with MCStaff, ServerProofs)

The limit on the requests of one client (`middleware/rateLimit.middleware.ts`).

*State.* `limiter` which limiter it is; `shared` the key in Redis, `own` each process's
counter; `serve` where the request of each process is; `store` whether Redis answers;
`verdict` how the last request ended.

| Action | Code |
|---|---|
| `Increment`, `SetExpire` | `INCR` with `PTTL`, and `PEXPIRE` when the key has no end |
| `Decide` | over the limit or not |
| `Decrement`, `DeleteKey` | a good sign-in is counted back |
| `Ticks`, `LoseRedis`, `FindRedis` | time, and outages between two calls |

`staff`: 2 processes, 1 request per window of 1 tick, 1 outage; counters stop at `Cap`, above
what decides anything.

*Proved*: `LimitTypesHold`. *Model-checked only*: `LetInAgain` (liveness): an `INCR` whose `PEXPIRE` was lost is repaired
by the next one, since the code looks at the `PTTL`, not at the count.

## 3. Findings

* `append`: `submitByToken` looks at the bill's status and only then waits for the
  order's lock in `addItems`, which does not look again. Lines reach a bill that
  was cancelled or completed during the wait.
* `occupied`: the status of a table follows the order being edited, not the orders
  that sit at it. Editing a completed order (its total, its customer, anything)
  frees the table under a newer open order, and the next party is seated there. In the
  run's trace an old order is completed, a second one is seated at its table, the old one
  is edited (it is moved off the table), and a third is seated.
* `shift_left`: `closeShift` counts open orders and saves in separate statements,
  and an order checks the shift before its own transaction: a shift closes over an
  order that committed in between.
* `stock_status`: `updateStatus` of a purchase order checks that it is pending and
  saves in separate statements; a confirmation that commits in between is
  overwritten, and a received purchase becomes cancelled.
* `approvals`: `reviewOverrideApproval` reads a request without a lock and relies on
  the guarded UPDATE at its end; what `query()` answers to an UPDATE is never null,
  so a review that changed no row goes on, and an override that another administrator
  has rejected meanwhile is put in force.

Also seen while modelling, and in the models' steps, without a run of their own:

* `payments.update`/`delete` read the order without a lock and write its status
  back (`refreshOrderPaymentSummary`): an order cancelled in between is Pending
  again, without a live line.
* A payment that read the open shift commits after `closeShift` has added up the
  cash: `expected_amount` misses it.
* A second close of the same shift overwrites what the first counted.
* A close checks who opened the current shift (`shifts.controller.ts:93`: "only
  Admin/Manager or shift opener can close shift") and then reads the current shift again
  (`shifts.service.ts:238`): if that shift is closed and another one opened in between, an
  employee closes a colleague's. `Endpoints` has this (`hit`), and `BaselineFits` leaves it
  out.
* The second of two removals of one payment finds nothing to delete, which is no error, and
  writes the order's status and received amount from what it read before.
* Two requests that are the first to need a branch's profile make two
  (`shopProfile.model.ts:9`, no unique index on `branch_id`). Which of them a look-up finds
  is then open: a rotation may replace the code of one while that of the other goes on
  opening the counter. `QrTokens` has these rows; what was replaced stays dead all the same.
* Two edits of the overrides of a user who had none insert their rows one by one, in the
  order each was sent, and may deadlock (`permissions.model.ts:493`); one of them fails.
* Two edits of a purchase order can leave it without items (each removes what the
  other keeps) or with an ingredient twice (both add it). `confirmPurchase` records
  a detail for the first item of an ingredient only, although
  `models/stock/orders.model.ts:414` says "for every order item".
* The `save` in `updateStatus` inserts an order again that was deleted after it was
  read, without its items.
* An error after the COMMIT of a public submit (the answer to it is lost;
  takeaway reads the order once more, `takeawayOrderPublic.service.ts:359`) makes the
  handler clear the record, and a retry with the same key orders twice. The same
  follows when Redis fails during the request, or the time to live (10 minutes) ends
  before the retry. `PublicSubmit` has these steps; they end `trusted`.
* A payment counts its change inside its transaction (`payments.service.ts:147`), and
  so does what a customer orders, where `addItems` runs in an outer transaction. A
  list read before the COMMIT is kept under the new version with the old order, and
  lists show that until its time to live ends. The comment at `cache.ts:264` says
  "Call this after create/update/delete operations". `ReadModel` has these steps.
* Without Redis a version is forgotten 250 ms after a change and is `v0` again
  (`readModelVersion.utils.ts:54`); summaries and statistics, whose caches are not
  cleared, then show what they showed before the change. Not in the model.
* A connection that comes back in a transaction that nobody ended (the client left, or
  `ROLLBACK` failed) serves the next request in it, and what it sets may be undone: that
  request then works for another branch. `auth.middleware.ts:423` says that row-level
  security "can enforce branch isolation even if a future query forgets branch_id
  filters". A `set_config` that fails is outside of the `try` that gives the connection
  back. `DbPool` has these steps. Statements that a handler runs on the global manager
  after its connection was given back are not in the model.
* An update of a payment account that does not say `is_active` deactivates it, even the
  active one (`schemas/paymentAccount.schema.ts:12` fills in false,
  `PaymentAccount.service.ts:281` assigns it); two activations at once leave two accounts active;
  `save` brings back an account that was deleted.
* A retention batch is fetched outside of its transaction and its status is not looked at
  again (`orderRetention`): an order that was reopened in between is deleted. A batch that
  always fails ends every cycle before purchases and logs are looked at.
* `products.model.ts:207` merges an update into the cached object itself, and saves it
  whole; updates of toppings, stock units and ingredients, through `save`, write back what
  they read. A stock category is written with all columns that were read.
* login and updateMe save the whole row that was read before the password was compared: a
  user disabled in between is enabled again. `SignIn` has these steps.
* A start of the server allows again what an administrator has denied to a role
  (`rbac-defaults.ts`), as it does for the default administrator's account.
* The review of an override forgets remembered decisions before its COMMIT, so that a
  process may remember the old one for the whole of its lifetime. An approval for a user
  who was disabled meanwhile takes effect.
* A socket's `disconnect` handler is registered after awaits (`socket.service.ts:464`): a
  socket that goes before leaves its user active. Two sockets of a user that connect
  together both count two, and neither reports the user as online.
* A `DECR` after the end of a window makes a key below zero that has no end, if its removal
  fails.

Hazards that no property covers: payments are edited without their order's lock
(`payments.service.ts:94`) and counted before the COMMIT (`:147`); a payment takes the id of a
shift that is about to be closed (`shifts.service.ts:255`); two edits of a purchase keep what
the other removes (`models/stock/orders.model.ts:288`). In each the code does reach the bad
state, through steps that the models have, so that a property would only be false; no doc or
test of the repository says otherwise.

## 4. What is proved, and what is not

The theorems hold for every value of the constants, under the `ASSUME`s of the modules,
which TLC evaluates for the values of each run. An assumption says that numbers are
numbers, that sets of names do not overlap, or, in `PublicSubmit` (`OneStore`), that
several processes share one Redis; none is about reachable states.

Each invariant is conjoined with what makes it inductive; the names are in the sections
above (`IInv` of `PosOrders`, `PublicSubmit`, `ReadModel` and `StockOrders`, `SeatInv`,
`LedgerInv`, `ShiftsIInv`, `QrInv`, `ShopInv`, `PoolInv`,
`RetentionInv`, `DataInv`, `PermInv`, `RealtimeInv`, `AdapterInv`,
`DefaultsInv`, `VisitorOK`, `SignTypeOK`). The proofs have one shape. The invariant consists of a part about rows and
a part about each request. A step is the step of one request. The rows it writes are those
that it holds (by a lock, a unique index, a guarded UPDATE), so nothing that the others
rely on changes; then its own part is looked at, action by action.

Checked by TLC only:

* liveness (`EveryRequestEnds`, `EveryCallEnds`, `DisabledIsLockedOut`, `OldOnesGo`,
  `DecisionsSettle`, `AdapterComesUp`, `LetInAgain`): the prover has no backend for
  fairness and ENABLED. What is proved of `DisabledIsLockedOut` and `AdapterComesUp` is a
  safety half: the state that comes about stays (`StaysOut`), or nobody gets to a state from
  which it does not go on (`AdapterGoesOn`). That steps which can be taken are taken is what
  fairness adds;
* that a sum over payments grows by the payment that is added, an induction over data
  (`SettlementCloses` is about the sum before and the payment's own part).

## 5. Plan

Done: Ledger and PosOrders, Shifts, PublicSubmit with KeyedOrders, ReadModel, StockOrders,
DbPool, Permissions, QrTokens, ShopAccounts, Retention, MasterData, RoleDefaults and
Endpoints, Realtime, RateLimit, SignIn; the proofs of every safety property that
the runs check; and the safety halves of two liveness properties.

Left, in order:

1. **DirectLines**: the endpoints that write lines without transactions, beside those
   with.
2. A process without Redis in ReadModel; the counting of a user's sockets in Realtime.
3. Connections that come back with row locks, beside the waits of `PosOrders`.
4. The safety half of `OldOnesGo`, `DecisionsSettle` and `LetInAgain`, as theorems.

## 6. Not modelled

Listings, search and dashboards (read-only), print settings (one row that is
overwritten), the serving board (updates of lines in a loop), background jobs (a library
that warms caches), layout and formatting of events and responses, input validation,
the retry on a duplicate order number, start-up, metrics and health probes, migrations.
Row-level security itself is the database's; `DbPool` has what is set for it. The direct
line endpoints write lines, and then the total, the status and the snapshot of the order
(`salesOrderItem.service.ts:161`), without a transaction or a lock, so nothing that `PosOrders`
promises holds beside them. `PROJECT.json` names every component with the reason.
