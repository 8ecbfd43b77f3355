# A verification development for the Uduakiet inventory API

The repository is a NestJS/TypeORM back end for inventory keeping: products and
their stock per store, an immutable ledger of stock movements, purchase orders
that are received in pieces, an outbox that turns low stock into notifications,
and the users, businesses and sessions around them. This directory holds TLA+
modules translated from its code (`src/src/...` below is abbreviated to the file
name), configurations that TLC checks, and proofs that TLAPS checks.

## 1. Inventory of the system

| component | state | operations | hard behaviour | what makes it correct |
|---|---|---|---|---|
| Stocks (`stock.service.ts`) | `stocks.current_quantity` per product and store | `create` (initial stock), `update` (physical count) | counts lock the row, `create` relies on the unique index, deliveries lock nothing | the balance is what the newest movement left, but for a count that was overtaken; movements chain |
| StockMovements | append-only ledger | written by the other two; reads | several writers per product | immutable, explains the balance |
| PurchaseOrders (`purchase_orders.service.ts`) | orders, items, `quantity_received`, status | `create`, `update`, `receive`, `remove_draft`, reads | partial deliveries race, lines are checked one by one, `update` has no transaction | nothing beyond the request, RECEIVED iff complete, receipts match the ledger |
| Outbox (`outbox_processor.service.ts`, `low_stock.handler.ts`) | `outbox_events`, `isRunning` | poll, process, retry, handler | several instances, failing saves, crashes, swallowed rejections | only a swallowed rejection loses a notification, bounded attempts, every event settles |
| Notifications (`notifications.service.ts`) | `notifications` | `create`, list by cursor, unread count, mark read | concurrent inserts, pages over a growing table | one per event and recipient, pages skip and repeat nothing but what the zone of the process makes them |
| NotificationsGateway | sockets per user | `emitToUser`, authentication | emission next to a transaction | only committed notifications are emitted |
| Auth (`auth.service.ts`) | `user_auth`: hashes, failed attempts, lock, reset and refresh tokens | login, logout, refresh, forgot/reset/change password | read-modify-write without locks | a lock after five failures, a revoked session comes back only by calls that had read before |
| Products, Users, Businesses | rows, status, image references | create, update, remove, role changes | images live outside the transaction; check-then-insert | no row names a deleted image, identifiers are unique, legal transitions |
| Stores, Categories, Suppliers, ProductSources | rows | create, update, remove | check-then-insert; a transaction without commit | unique names, what is answered is stored |
| AuditLogs, Cloudinary | appended rows, assets | create; upload, delete | called in the middle of other transactions | - |
| Migrations and seeders | the schema, sample data, the table of executed migrations | run, revert, seeding of a start in development | MySQL commits before each schema change, so that a command is only partly a transaction | a recorded schema is whole, commands follow each other, a tenant is seeded once |
| Dashboard, reports, guards, filters, DTOs | none of their own | reads, checks of one request | - | - |

**Interaction.** A count that crosses the reorder level inserts a row of
`outbox_events` in its own transaction. The processor polls that table every five
seconds and hands an event to `LowStockHandler` through the event emitter; the
handler stores notifications with `NotificationsService.create` in a transaction
of its own and emits them through the gateway after the commit. Deliveries,
counts and initial stocks meet in the rows of `stocks` and `stock_movements`;
deliveries and header edits meet in `purchase_orders`. The other services touch
no row of these and none of each other's that a property is about; what they share
is the pool of connections, which matters as soon as one of them gives a
connection back with a transaction open. Shared memory is only `isRunning`, the
event emitter and the socket server.

The hazards, with their lines and the properties that watch them, are listed in
`PROJECT.json`; those without a property say why.

## 2. Modules

| module | models |
|---|---|
| `Inventory` | `StocksService.create` and `update`, `PurchaseOrdersService.receive` and `update`, their transactions, locks, snapshots, commits and failures |
| `StockBook` | abstract: a request is carried out in one step, on the balances, items and order of that moment, or is refused and leaves no trace |
| `MCInventory` | one store, two or three products, three orders with four items, up to three requests |
| `Inventory_proofs` | types, the receiving of orders, balances and ledger, proved |
| `Sums` | what the sum of a function over a finite set does when a term is added, grows or moves |
| `Inventory_history_proofs` | low-stock rows, directions, complete orders, receipts, the chain of the ledger, the refinement of `StockBook`, proved |
| `Announcements` | abstract: a recorded event is announced to all its recipients in one step |
| `Outbox` | the processor, the handler, notifications' `create`, several instances, faults |
| `MCOutbox` | two events, two users, one or two instances |
| `Outbox_proofs` | the safety properties and the refinement of the outbox, proved |
| `Schema` | the statements of the migration `InitialSchema`, up and down |
| `Seeds` | the statements of the migration `InitialSeeding` for a tenant, up and down |
| `Deployment` | `migration:run`, `migration:revert` and a start in development, executing these statements on MySQL |
| `MCDeployment` | two tenants with one row of most kinds |
| `Deployment_proofs` | the statements of the migrations, the schema, the rows and the tenants that any sequence of commands leaves, proved |
| `Accounts` | `AuthService`: failed attempts, the temporary lock, passwords, refresh tokens |
| `Inbox` | the pages of `findAllForRecipient` over a growing table, the read flag |
| `Directory` | stores, categories, suppliers, product sources, creation and removal of orders, over a pool of connections |
| `Directory_proofs` | the invariant of rows and connections and the properties of the directory, proved |
| `Assets` | businesses, users and products next to their images and audit entries |
| `Assets_proofs` | the invariant of calls and images and the properties of assets, proved |
| `MCServices` | small instances of `Accounts`, `Inbox`, `Directory` and `Assets`, one of which moves in a behaviour |
| `Services_proofs` | types and properties of accounts, types and pages of the inbox, and that the services side by side keep what each of them promises, proved |

### Inventory

The committed tables are `quantity`, `ledger`, `received`, `status`, `outbox`;
`rowLock` and `orderLock` are the database's row locks. A request has a label
`pc`, its payload `req` and a `session`: what its transaction has written and not
committed, the snapshot plain reads see, and the handler's local variables. One
action is a stretch of a handler between two points where another request can
come in:

| code | actions |
|---|---|
| `StocksService.create` | `CreateCheck`, `CreateSave`, `Commit` |
| `StocksService.update` | `CountRead` (the product, which fixes the snapshot), `CountLock` (`pessimistic_write`), `CountInsert`, `CountSave`, `Commit` |
| `PurchaseOrdersService.receive` | `ReceiveLock`, then per line `ReceiveLine` (checks, plain read of the stock row) and `ReceiveSave`, then `ReceiveFinish`, `Commit` |
| `PurchaseOrdersService.update` | `EditLoad`, `EditSave` (no transaction) |
| catch blocks, lock timeouts, lost connections, dead processes | `Rollback` inside the actions, `Fail`, `DeadlockVictim` |

The database is InnoDB under REPEATABLE READ, which is what `startTransaction()`
without a level gives on MySQL: plain reads see the snapshot of the first one and
the transaction's own writes; locking reads and writes see committed rows and
wait. Gap locks are not modelled: two counts that both find no row race for the
insert, and the loser ends with `failed`, by the unique index in the model.

`save` first reads the row again as the transaction sees it, and updates only what
differs (`Saved`). For a delivery, which has read the row in the same snapshot,
that is always the balance. A count has its snapshot from the plain read of the
product and its balance from the locking read, which may be newer: say the balance
is 10, count A to 5 commits while count B to 10 waits for the row. B finds 5, and
records a movement from 5 to 10; `save` compares 10 with the 10 of B's snapshot and
updates nothing; the balance stays 5. Such a count is *overtaken* (the history
variable `overtaken`, `Overtakes`), and `Left` is the balance behind its movement.
That the balance is the newest movement's `quantity_after` is therefore false of
the code: TLC finds the case in `inventory` and in `inventory_separate` if it is
asked for that. What the code keeps is `BalanceIsLeftByLedger`, in which overtaken
counts, and no others, leave the balance they found.

Abstractions. One store: the rows of another store are other products. Lookups of
the product and the validation of formats are inputs: requests are those that
pass them. Quantities are integers.
A request runs once; a retry is another request. Names, prices and answers' texts
are left out. Edits of items inside `update` always fail on a NOT NULL column and
are `Fail`. The schema is that of the entities: with the migration's, where
`reason` is NOT NULL, every initial stock and every delivery fails unless the SQL
mode of the server is lax (run `refused_inserts`).

Initial states are the seeder's: an order is seeded with any status, its items
received in full, by half or not at all as the seeder does it, a stock row with
its opening movement.

### Outbox

`row` is `outbox_events`, `notified` counts the notifications of an event and a
user, `emitted` is what the gateway has sent, `isRunning` the flag of each
instance. A polling cycle is a process: `Tick` (the interval and the flag),
`Find`, then per event `Claim` (save PROCESSING), `StartHandler`, `Notify` per
recipient, `CommitHandler`, `Emit`, `Publish`, or `NoListener`; `HandleFailure`
for the catch. A cycle keeps the entities it has loaded, so that a slow instance
saves stale ones. `Faults` names the faults of a run: a poll, a save, a statement
of the handler, the answer to its commit, or a crash of the instance, at most
`MaxFaults` of them. A rejection of the
handler is swallowed (`AfterRejection`): `@OnEvent` leaves `suppressErrors` at its
default, so that `emitAsync` resolves; `swallowed` remembers the events. `Heard` are the events whose type has a listener.

Time is abstracted: `due` says whether `available_at` has passed, `Elapse` makes
it pass, and the length of the back-off plays no role. Recipients are fixed per
event; in which order they are read is left open, since the query has no order.

### Schema, Seeds and Deployment

A migration is a sequence of statements: `Schema` and `Seeds` list them in the
order of the code, as records. Of a table they keep the columns that decide
whether a row is accepted (NOT NULL without a default, unique, foreign keys); of a
seeded row those columns. Where the seeder draws at random, the statement has
several alternatives, of which the server gets one.

`Deployment` executes the statements one by one. `tables`, `keys` and `rows` are
the database, `executed` is TypeORM's table of migrations. `Run` executes what is
pending and `Revert` the last migration executed, each in one transaction
(`inTx`) until the first statement that changes the schema: MySQL commits before
it, and what follows is no longer covered. `createTable` and `dropTable` are
`Skipped` if there is nothing to do, as their second argument asks; indexes and
foreign keys are not. `StartInDevelopment` is the seeding in `bootstrap`, without a
transaction and without a record. `Refuse` is a statement that the database does
not accept, `Interrupt` a killed process or a lost connection. Commands and starts
follow one another. Of the scale of the sample data only the numbers of rows are
parameters; every store gets all products and every order all of them.

### Accounts

One row of `user_auth` and the calls about it; the services never lock it, and
calls interleave between their reads and writes: `LoginRead`, then `WrongPassword`
or `RightPassword`, `StoreToken`, `AuditLogin`; `RefreshRead`, `StoreToken`;
`Logout`; `ChangeRead`, `ChangeSave`; `CallFails` at any point. A lock has a time
left that `LockElapses` counts down. A password is a value that `ChangeSave`
replaces; a call knows the one it has read, and one that was sent is right if it is
that. History variables count failures and name the calls that had read the row
when a lock was set or a session ended. `changePassword`
is modelled although the controller's route is commented out. `forgotPassword` and
the reset are not: a reset looks the clear token up among hashes, finds nothing
and changes nothing.

### Inbox

The rows of one recipient, a client that reads page after page, and what happens
in between: rows are inserted in the handler's transaction (`InsertNote`) and
become visible with its commit (`CommitNotes`), are marked as read one by one or
all at once. `created_at` has seconds, so that rows share one; identifiers are
random. The column has no zone: the driver reads it as a time of the zone of the
Node process, the cursor is that time's UTC text, and the query compares the text
with the column. So the cursor is earlier than its row by the `offset` of the
process, for which the repository sets nothing (`Cursor`); it is 0 in UTC. What the
session's zone is plays no role, since the column is a DATETIME. A page is the
set of its rows (`Page`): the query orders by time and identifier, which decides
which rows a page holds and what the next cursor is, and nothing else here.

### Directory

The repositories of TypeORM take any free connection for a statement.
`ProductSourcesService.create` opens a transaction on a connection, answers
without committing and gives it back; `Execute`, `Transaction` and `Seen` say what
later statements do there: a plain statement joins the open transaction or reads
its snapshot, the next START TRANSACTION commits it. Calls are `CheckNew`,
`InsertNew`; `Load`, `CheckName`, `CheckCode`, `Save`; `LoadToRemove`,
`SoftDelete`, `SoftRemove` or, in either order, `CountSources` and `CountOrders`, then
`DeleteSupplier` or, where one of them has found a use, `CountLast` and the refusal;
`Start`, `InsertSource`; `Start`, `InsertOrder`, `ReadBack`. The last ones hold a
connection while they ask for a second one. `RequestFails` is any failing
statement, `CloseConnection` the end of a pooled connection.

One business; it, the creator and the products exist throughout, and sources are
of one product. A call that finds nothing and answers 404 is left out. The
collation of names is abstracted to equality, and `save()`, which reads the row
again, to one action. `softRemove` of a source or an order always fails, because
their entities have no date column for it. Nothing gives the `total_cost` of an
order's line: the server refuses it or stores a zero, as its SQL mode says.

### Assets

Rows, images at Cloudinary and audit entries, and calls that go through phases:
`upload`, `save`, `audit`, `commit`, `clear` (delete images first), `tidy` (delete
the old one last), `undo`. Businesses and users replace one picture
(`ReplacePicture`), products have several and a status (`UpdateProduct`). A body
may name any stored image to delete, of the product or not; and without a file a
business takes the logo that the body gives, which may be none or another row's
image (`GiveLogo`). `claimed` keeps the images that a body has named and the row did
not have.
`activate`, `deactivate` and `changeRole` all save the user as loaded
(`SaveUserAgain`). A failed deletion is answered and nobody looks at it
(`DeleteImages`); of several uploads some may be stored when one fails
(`UploadFails`). The checks of identifiers, roles, categories and the status count
as failures (`EditFails`), the status also as the guard `StatusAccepted`: it comes
after the images have been deleted and uploaded. A commit may also be done and its
answer lost (`AnswerLost`): the catch then deletes the upload that the row names.
The INSERT of a user and the
audit entry of a removed product give no business and are always refused.

## 3. Runs

| run | instance | shows |
|---|---|---|
| `inventory` | any three of the 18 requests (deliveries in full, in part, refused; counts to, above and below the reorder level; initial stocks; edits) | the safety properties of balances, ledger, orders and outbox, and the two inductive invariants, each of which contains the type invariant; counts that are overtaken occur |
| `inventory_separate` | three requests on three products, deliveries of two of them that complete an order in pieces, counts of the third, no edits | the ledger is a chain but for overtaken counts, directions are right, complete orders are RECEIVED, each crossing is announced; `Inventory` implements `StockBook` |
| `inventory_answers` | two deliveries with the same products in opposite order, a count, an edit | every request is answered |
| `lost_delivery` | one delivery, one count | *violation*: a delivery overwrites a movement committed between its read and its save |
| `late_edit` | one delivery, one edit | *violation*: an edit takes a RECEIVED order back |
| `outbox_instances` | two instances, two events, one without a listener, two faults of any kind | notifications are unique, all-or-nothing and committed before they are emitted; only a swallowed rejection leaves the recipients of a PUBLISHED event without it; attempts are bounded; the inductive invariant; `Outbox` implements `Announcements` |
| `outbox_alone` | one instance, two overlapping cycles, batches of one, three faults | every event settles and stays settled |
| `outbox_swallowed` | one instance, one fault | *violation*: with the default of `@OnEvent` a failed event is PUBLISHED with nobody notified |
| `outbox_duplicate` | two instances, one event | *violation*: the recovery from a duplicate reads the old snapshot |
| `deployment` | two executions of a run or of a start in development, any reverts, one interruption anywhere | commands are refused only after an interruption; a recorded schema is whole; an interrupted creation of the schema cannot be completed by running it again; migrations seed a tenant twice only where an interrupted seeding had no transaction |
| `refused_inserts` | one run without interruption | *violation*: the migration's schema refuses what the services insert |
| `services`, accounts | three calls, two passwords, two failures lock, three failures at most | locks, counters and sessions next to each other |
| `services`, inbox | three notifications, two seconds, pages of one or two, each filter; UTC, one second east and one west of it | what pages repeat and miss, which is nothing in UTC |
| `services`, directory | three calls, two connections; a store and a removed one, a category, two suppliers | what is answered is kept, store names differ, what is removed stays removed, each with the exceptions that the code has |
| `services`, assets | two calls, a business, a user and a product with an image each, two files, one image named at a time | images exist, orphans are explained, statuses follow the transitions |

**Bounds.** Three requests are enough for each conflict: two that race and a third
that finds the damage or completes a cycle of waits. Two products and items
of both on two orders give crossing lock orders and an order that is complete
only with both; the quantities reach the reorder level from above, exactly and
past it. `MaxAttempts` is 2, so that one retry and one exhausted event happen;
batches of one event make the second event wait for the first. The two
symmetric sets are the names of requests and calls, which the services share, and
of connections.

`deployment`: a first execution leaves each thing that can be left, a second one
meets it; two tenants, because permissions are global and roles are not. One row
of each kind has every foreign key and unique index of the schema in use.
`services`: each of the four parts moves alone (`part`), so that their state
spaces add up; they share no rows. Three calls about one account are two that
overlap and one that comes between; two attempts lock, so that a counter at the
limit and one below it occur (the proofs are for every number). Two passwords are
the old one and the new one. An offset of a second is as much as two seconds can
show, in either direction; four pages (`MaxPages`) are one more than three rows
need, which a reader west of UTC would turn for ever. A body names one image to
delete (`MaxNamed`): its own, or another row's. Products start
as ARCHIVED, the status with a forbidden transition. Deadlock is not
checked in the runs that end by their bounds: when all requests have been
made, all events settled, all executions used.

**Fairness.** `Inventory`: weak fairness of a handler's next step (Node runs it
when its query answers) and of deadlock detection. Clients need not send
anything and faults need not happen. `Outbox`: the interval keeps firing, a cycle
goes on, delays pass. `EventIsSettled` is checked without crashes and without
failures of the failure's own save: after either the row stays PROCESSING, which
no poll looks at, and the code promises no recovery from it.

## 4. Proofs

The theorems hold for every set of requests, products, orders and items, of
events, users, instances, cycles and faults, of calls, connections, images and
pages, of tenants, roles, permissions, executions and interruptions, under the
assumptions on the constants that the modules name
(`ConstantsAssumption`, `NoneAssumption`, `AccountsAssumption`,
`DirectoryAssumption`, `AssetsAssumption`, `InboxAssumption`, `TenantAssumption`,
`ScaleAssumption`, `BoundAssumption`). They say that values
which stand for "none" are no values, that identifiers of new rows are new,
that the initial live stores have different names, that tenants and roles are
sequences and tenants have different legal names, as those of
`independentBusinessBlueprints` that the profiles seed, and that each tenant gets
some rows of every kind and no more users than there are roles, as the profile in
use gives it; the runs evaluate them. What
else a theorem assumes of the constants is its third column.

| theorem | statement | assumes |
|---|---|---|
| `TypeCorrect` (of both) | `Spec => []TypeOK`, in `Inventory` and `Outbox` | |
| `ReceivingInvariant` | `Spec => []ReceivingInv` | |
| `ReceiptsStayWithinOrder` | nothing is received beyond its request; a RECEIVED order is complete | |
| `ReceivedGrows` | no step takes back a received quantity | |
| `LedgerInvariant` | `Spec => []LedgerInv` | |
| `BalanceIsLedger` | a balance is what its newest movement has left, or what an overtaken count has found | |
| `AdjustmentsAreNeverStale` | a count or an initial stock starts from the balance behind the movement before it | |
| `OutboxInvariant` (of `Inventory`) | `Spec => []OutboxInv` | |
| `LowStockRowsAreCounts` | low-stock rows are the counts that crossed the reorder level, no more and no fewer | |
| `DirectionsExplain` | the direction of a movement says how it changed the balance | `InitialStocksAdd` |
| `CompleteOrdersAreReceived` | an order whose items have all arrived is RECEIVED | `NoEdits` |
| `SeparateDeliveriesAreExplained` | each movement starts from the balance behind the one before it | `Separated` |
| `ReceiptsAddUp` | the receipts of a product add up to what its items have received | finitely many `Items` |
| `LowStockNeverPassesUnannounced` | no commit passes the reorder level without a row of the outbox | `Separated` |
| `RequestsAreSerial` | `Inventory` implements `StockBook` | `Separated`, `NoEdits` |
| `OutboxInvariant` (of `Outbox`) | `Spec => []OutboxInv` | |
| `NotificationsAreUnique` | a recipient has one notification of an event at most | |
| `EmissionsArePersisted` | what a client receives has been committed | |
| `AttemptsAreBounded` | a row that waits has attempts left, a FAILED one has none | |
| `OnlyRejectionsAreLost` | PUBLISHED means notified, unless a rejection was swallowed | |
| `OutboxAnnounces` | `Outbox` implements `Announcements` | |
| `CyclesOfAnInstanceAreApart` | `isRunning` keeps the cycles of one instance apart | |
| `SettledStaysSettled` | no PUBLISHED or FAILED event is taken up again | `ServedByOne` |
| `AccountTypes` | `AccountsSpec => []AccountsTypeOK` | |
| `LocksAfterFailures` | no lock before `MaxAttempts` failures | |
| `FailuresCount` | without overlapping logins the counter counts, and the lock follows it | |
| `LocksHold` | only a login that read the row before the lock lifts it early | |
| `EndedSessionsStayEnded` | after a logout or a change of password a token comes only from a login with the present password, or from a call that had read the row before | |
| `CallsFitTheirRows`, `AssetTypes` | `AssetsSpec => []AssetsInv`, and the types | |
| `ImagesStayStored` | a live row names stored images, with the exceptions of the code | |
| `OrphansHaveReasons` | an image without a row has one of the reasons that the property lists | |
| `StatusesFollow` | a product's status follows the transitions, with an audit entry | |
| `RowsAndConnectionsFit`, `DirectoryTypes` | `DirectorySpec => []DirectoryInv`, and the types | |
| `RemovedRowsStayRemoved` | only the save of a stale row brings a removed one back | |
| `NamesDiffer` | two live stores share a name only after overlapping calls | |
| `AnswersAreKept` | what was answered as done is in the database, with the exceptions of the code | |
| `InboxTypes` | `InboxSpec => []InboxTypeOK` | |
| `PagesShowEverything` | in UTC pages repeat nothing and show every row they promised; elsewhere they repeat only west of it and miss only what the offset hides | |
| `DeploymentTypes` | `Spec => []TypeOK`, in `Deployment` | |
| `RecordedSchemasAreWhole` | a recorded schema has every table and key, unless its revert is under way or was interrupted | |
| `InterruptedSchemasNeedRepair` | a creation that was interrupted behind its first key is never completed by commands | |
| `RunsAreNotRefused` | without interruptions the database refuses no statement of a run or a revert | |
| `NoTenantIsSeededTwice` | the migrations leave no tenant twice, with one exception | |
| `ServicesAreIndependent` | `MCServices` implements `Accounts`, `Inbox`, `Directory` and `Assets` | |
| `ServicesTypes` | `ServicesSpec => []ServicesTypeOK` | |

**The hypotheses.** `Separated` says of the requests that no product is delivered
which is also counted, or delivered on two orders: without it a delivery overwrites
what was committed between its read and its save (run `lost_delivery`, and two
deliveries do the same). `NoEdits` leaves out the header edits, one of which takes
a RECEIVED order back (run `late_edit`). `InitialStocksAdd` says that initial
stocks are sent as additions: `StocksService.create` writes the direction it is
given next to a movement from zero. `MCInventory` assumes the three of the requests
of `inventory_separate`, so that TLC evaluates them. `ServedByOne` says that one
instance of the application reads the table; two instances load the same rows, and
the slower one saves a settled event as PROCESSING (`outbox_instances` therefore
does not check `SettledIsFinal`). The run `outbox_alone` has one instance.

*Receiving.* Neither bound of an order is inductive: a commit copies what a
session holds. `ReceivingInv` adds that an order is locked exactly while a
delivery on it is between its locking read and its end (`OrdersHeld`), and that
the items such a session holds are those of the table, grown within the request
by the lines processed (`ItemsAgree`). Types follow from it rather than the other
way round, because a commit has the type of the table only if the session's
status is one. That a complete order is RECEIVED is a fact about what a delivery
is going to commit: `CompletionInv` adds that a delivery before its commit which
leaves no item open has noticed it. Two deliveries cannot each leave the last item
to the other, since the lock of the order makes one of them read after the
other's commit.

*Balances.* A session's written row is locked by it (`RowsHeld`), so no other
transaction commits that row, and the written balance is that of the session's
newest movement (`SessionsAgree`); a commit therefore appends movements and moves
the balance together. A count that has written no balance must have been overtaken,
which it was by the commit that changed the row while it waited: what such a count
has seen, and what the row holds by then, is the part of `LedgerInv` that speaks of
counts before their save (`CountsSee`). A delivery that read its row early may still *start* from a
stale balance; `AdjustmentsAgree` says that a count cannot: what it has read under
the lock is the balance on hand until it ends.

*History.* A low-stock row is written next to its movement and committed with it:
`OutboxInv` says of each open transaction what `OutboxMatchesLedger` says of the
tables, and a commit joins the two because rows are signed by their request. The
steps of a handler then have three shapes, which carry this proof: they leave
movements alone (`Quiet`), add one (`Records`), or commit. For the chain of the
ledger, `SeparateInv` says that a session's movements continue the committed
ones, which needs what a delivery holds in memory to be the balance on hand: a
plain read in an old snapshot is right if nobody else writes the product, and under
`Separated` only deliveries of the same order do, which wait for its lock.

*Receipts.* `ReceiptsExplainOrders` equates two sums. `ReceiptsInv` says of each open
delivery that its receipts add up to what it is going to add to its items
(`DeliveriesAddUp`): a receipt adds its quantity on both sides, since its item was
not submitted before, and a commit adds one sum to the other without touching the
items of another delivery, since each holds its own orders. What such a step does
to a sum is proved in `Sums`. The library's induction over finite sets takes a
predicate, which the provers cannot instantiate; `Sums` argues by a smallest
counterexample instead, a set of subsets that has a minimal element
(`SmallestMember`), and shows that the recursion behind `SumFunctionOnSet` exists and
does not depend on the order in which terms are taken (`SumByElement`). The
hypothesis that items are finitely many is that of a table's rows.

*The stock book.* `StockBook` has the tables, the request of each client and its
answer, and no locks, snapshots or sessions. Its `Do` creates a stock, counts one
or delivers the lines of an order in a single step on the current rows; `Refuse`
answers without changing anything. `Inventory` implements it with the commit as
the step that carries a request out, so that what a session holds at its commit
must be what the book asks for at that moment, although it was read earlier.
`BookInv` says so before the commit: a count holds its row and posts the
difference to it (`CountBooked`; the book has its own `overtaken` counts, right
when they were asked and wrong since, which post no balance), an initial stock its
one entry (`CreateBooked`), and a delivery the first lines of its request, each
once, on items as they are in the table, with receipts that continue the balance
on hand (`LinesBooked`, `DeliveryBooked`). Every step books one line at most, the
steps of others leave the rows and the order that a session has locked
(`StaysBooked`), and a commit turns what is booked into the step of the book
(`CommitDoes`). `BookInv` was checked on the instance of `inventory_separate`
before it was proved. The hypotheses are needed: the book knows no header edits,
which write without the lock of the order, and a delivery that overlaps a count
commits a balance no order of requests gives (run `lost_delivery`).

*Outbox.* What is PUBLISHED depends on what a cycle has done since it loaded the
row. `OutboxInv` therefore says, for each place a cycle can stand at, how what it
holds agrees with the tables: a loaded entity was recorded and waits with attempts
left until it is the event at hand (`BatchFits`); a cycle that is about to publish
has notified everybody or had its rejection swallowed; a transaction has seen only
notifications that are there, the ones it has inserted are still missing, and the
recipients it is done with have one or get one with its commit (`HandlerFits`);
two transactions never hold the same insert (`InsertsApart`), which is what keeps
a commit from making a second notification. The bound of attempts holds for
instances that overlap as well, because it is a bound of every loaded entity and
not of how often an event is handled. For the refinement, every step but
`Enqueue` and `CommitHandler` leaves recorded events and notifications alone.
That settled events stay settled needs cycles not to overlap (`CyclesApart`: the
flag is set exactly while a cycle is under way) and then that every loaded entity
is of an open row (`LoadedIsOpen`).

*Accounts.* What a call writes depends on what it has read, so the invariant
`AccountsInv` is about calls between their two statements: none has read more
failures than there were (`CountedWereFailures`); while no two logins overlap, the
one that stands between has read the counter as it is (`AloneReadsCounter`); a
call that may still reset a running lock had read before it was set
(`LockedReadEarly`), because a locked row ends the others at once; a refresh
that stands between while there is no session was there when it ended
(`EndedWhileRenewing`); and a login that has read the row since then knows the
password the row has (`LoginKnowsPassword`). The two action properties follow from
the last three.

*Assets.* Images live outside the transactions, so the properties are about what a
call is going to do. `AssetsInv` says what a call holds: uploads of its own, and
images of the row it has read, which no other row names unless a body has named
them (`TaskFits`, `RowsOwnImages`); the row it is going to save, as the phases leave
it (`EntityFits`); and, if no other call has touched the row, a row that still is as
it was read, or that a lost answer has written (`RowAgrees`).

*Directory.* An open transaction may sit on a free connection and every later
statement there becomes part of it, so that a call's write is either in the tables
or waits in a pool. `ConnectionFits` shows how little can wait: the source whose
creation left the transaction open, removals of stores, deletions of suppliers.
A step then commits rows, defers them to a connection, or drops a connection's
(`Commits`, `Defers`, `Drops` in the proofs), and each of the three properties is
proved once per form. Names differ because a call that met no other still finds
what it has checked (`NameIsChecked`); answers are kept because a row can be
deleted only with its supplier, whose removal was answered (`SuppliersFit`).

*Inbox.* From UTC eastward the next page begins after all rows that were shown, and
in every zone what was promised and still matches is shown, follows the cursor, or
lies behind the last row of a page within the offset (`ReaderInv`). A page of any
size is the rows down to some last one, so the rest follows it; that there is such a
row is not needed for the invariant, and TLC sees that pages are read to the end.

*Deployment.* `Schema` and `Seeds` are lists of statements, some of which are as
long as there are tenants, roles and rows, and what a command leaves depends on
their order. That order is proved first: a list is *in order* (`InOrder`) if each
statement needs only what an earlier one gives and makes nothing that one of them
has made. It is shown of each table's statements and of each group of INSERTs, and
carried through concatenation and through the loops of the seeders
(`InOrderConcat`, `LoopInOrder`), so that `SchemaIsInOrder` and
`SeedingIsInOrder` hold for every number of tenants and rows. With it come the
tables of what the code declares (`ReferenceTable`, `UniqueTable`,
`RequiredTable`), each entry of which is checked against the statement that makes
it.

The proof then follows the commands by stages (`Progress`): which migration the
next statement belongs to, and what a rollback restores. `SchemaInv` says which
tables and keys are there before the next statement: those of the statements
behind it (`CreatedSoFar`, `DroppedSoFar`), the indexes of every table that is
there (`InlineThere`), and after an interruption behind the first key that no run
gets past it (`Stuck`): this is what makes `InterruptedSchemaNeedsRepair`
inductive, because the property alone does not say why the next run fails.
`RowsInv` says the same of the rows: where each comes from (`KnownRows`), that
those of the execution at hand are what the statements behind the next one give
(`SeededSoFar`), and that the tables behind a revert are empty (`DeletedSoFar`).
That a statement is not refused then follows from the order: what it refers to is
there because an earlier statement gives it, and no row has its keys because each
unique key holds an identifier that this execution has drawn, and permissions are
inserted only where they are missing. A command loses its transaction when MySQL
commits before a schema change; `WholeOrSaved` says that this command has then
created all tables. `TenantsInv` adds that all tenants of migrations come from one
execution, in the tables and in what a rollback would restore (`TenantsOK`).

*Services.* A step of one service leaves the state of the others, so that the
parts behave as their own specifications say; every theorem about one of them
holds of it in `MCServices` as well.

**Only model-checked.** The liveness properties `EventIsSettled` and
`EveryRequestIsAnswered` rest on fairness, which is out of the provers' reach. The
violations are of runs. Every other property that a passing run checks is a
theorem.

## 5. Not modelled, and the plan

Not modelled: dashboards and reports (reads), guards, filters, validators and DTOs
(stateless checks of one request), the names and prices of the sample data, the
set-up of the HTTP server, the socket transport. The configuration allows
PostgreSQL as well as MySQL; the models are of MySQL. The endpoint of `receive`
passes its arguments in an order the service does not expect, answers 404 and
changes nothing; the models are of the services. Identifiers of users and
businesses that are checked and then inserted are refusals any call may meet:
two requests at once are not told apart there, as they are for stores.

The plan was: the inventory, the outbox, then the services around them and the
deployment; each with its runs first and its proofs after them. It is carried
out. What would come next is time: the delays of the back-off and of locks, which
are abstracted to flags here, and the reads of the dashboard next to writes.
