# Verification of remember_me

remember_me is a small CRM/ERP: a NestJS API with a worker (`apps/api`), a
Next.js user interface (`apps/web`) and a PostgreSQL schema accessed through
Prisma (`packages/prisma`). This directory holds TLA+ models of it, the TLC
runs that check them, and TLAPS proofs. The core is what concurrent requests
share and money depends on - stock, sales and purchases; around it are the
services every request passes through, accounts, catalogue and prices, the
start of the container, and the parts of the user interface that keep state.
Paths below are relative to `src/`; services are in `apps/api/src/`.

- [Inventory of the system](#inventory-of-the-system)
- [The modules](#the-modules)
- [How the code is modelled](#how-the-code-is-modelled)
- [The runs](#the-runs)
- [Where the code disagrees with its documents](#where-the-code-disagrees-with-its-documents)
- [What is proved](#what-is-proved)
- [What is not modelled](#what-is-not-modelled)
- [What could come next](#what-could-come-next)

## Inventory of the system

| Component | State | Operations that change it | What is hard | What makes it correct |
|---|---|---|---|---|
| Stock (`stock/`) | `StockItem`, `StockMovement` | createStockItem, createStockEntry (IMEI / QUANTITY), updateStockItem, deleteStockItem, restoreStockItem, adjustStock, bulkAddStock | quantities read, computed in memory and written as absolute values; IMEI checks before the insert; soft deletion | every quantity has its movement, quantities stay in range, IMEIs are unique, movements chain |
| Sales (`sales/`) | `Sale`, `SaleItem` | create, update, pay, cancel, ship, deliver, delete, restore | every handler decides on a read outside its transaction; paying writes several rows in a Serializable transaction that reads nothing; numbers are found outside the transaction that uses them | paid if and only if the goods were taken, taken once, status follows the state machine, nothing leaves unpaid |
| Purchases (`purchases/`) | `Purchase`, `PurchaseLine`, `PurchaseStockApplication` | create, update, transition (with the receipt into stock) | two commits per receipt; retries; status written by id after a stale check | goods enter once, before the purchase is RECEIVED, RECEIVED is final, totals match lines |
| Idempotency keys (`common/idempotency/`) | `IdempotencyKey` | begin, complete, fail, expire, clean up | a retry racing the first call; completion after the handler in an un-awaited callback; fails open | one effect per key, an answer belongs to the key |
| Integration jobs, runner, queue (`integrations/jobs/`, `worker.main.ts`) | `IntegrationJob`, `JobRunnerLock`, a BullMQ queue in Redis, an advisory lock | enqueue with its fall-back, process, markProcessing / Done / Failed, the cycles of the runner | row and queue entry written separately and counting attempts separately; stalled entries; advisory lock bound to a pooled connection; mutex set after an await | cycles of two workers never overlap, retries bounded, no job lost, each settled |
| Authentication (`auth/`, `bootstrap/`) | `User`, `Membership`, `Invitation`, `RefreshToken` | register with and without an invitation, login, choice of organization, refresh, logout, the owner seeded at boot | invitations checked outside the transaction that consumes them | an invitation makes one member, of the role it names |
| Organizations, sellers, users (`organizations/`, `sellers/`, `users/`) | the same tables, `Organization` | create, add, promote, remove, invite, cancel | rights looked at before the transaction | every organization has somebody to administer it |
| Catalogue (`items/`) | `Item`, `Folder` | CRUD, default folder, the seeder | checks before writes, no unique index on items, seeding in batches | items keep their folder, the catalogue is there once |
| Price lists and rules (`price-lists/`, `pricing/`) | `PriceList`, `PriceRule` | CRUD; quotes read the rules once per line | rules edited while a quote is made, equal priorities | equal lines cost the same, no withdrawn rule is used |
| Rate limit (`common/rate-limit/`) | one Redis counter per window | checkLimit, resetLimit | fails open; a pipeline is not a transaction; window boundary | at most the limit per window while Redis answers |
| Start-up (`apps/api/scripts/`, `package.json` start:api) | `_prisma_migrations`, the schema | resolve, recover, clean up, migrate deploy, serve | a death between any two steps; databases left half-migrated by earlier images; recovery by dropping tables | what is recorded as applied is there, nothing in use is dropped |
| Web: session and data (`lib/`, `components/auth/`) | tokens, user, organization, query cache | login, logout, reload, switch of organization, refresh and retry, reads, writes with invalidation | answers that arrive after the organization or the user changed; an expired token under several requests | the screen shows the organization it names, writes land there |
| Web: stock dialog (`components/stock/`) | rows, pasted and imported texts, a save under way | the wizard, rows, paste, import, save | a save, two matchings and the user at once; lost answers | what is reported saved is saved, nothing typed is lost |
| Web: list pages (`app/(dashboard)/*/page.tsx`) | filters, page number, ticks, dialogs | filter, page, tick, bulk-delete, create, edit | filter, page and answer belong to different moments | nothing that matches is out of reach |
| Customers, vendors, ledger, settings | one row each | CRUD | - | - |
| Audit (`common/audit/`) | `AuditLog` | emit, log, retention, alerts | written on another connection inside open transactions | no record of what did not happen |
| Dashboard, reports | none | read only | - | - |

Handlers interact only through the database (and Redis): the API is stateless,
several processes may run, and a request can be at any await of its handler
while others run. Stock, sales and purchases all write `StockItem.quantity`,
which is why they are the core and are composed. The other parts share no state
with them that a property could tell apart.

## The modules

    Database                StockItem and StockMovement, row locks, transactions
      |-- StockService          stock/stock.service.ts
      |-- SalesService          sales/sales.service.ts  ==> SaleLifecycle (abstract)
      |-- PurchasesService      purchases/purchases.service.ts
      `-- Inventory             the three together, lock waits, deadlocks
            `-- Serial          one request at a time

    Weather                 may things go wrong in this behaviour? (`calm')
      |-- Idempotency, RateLimit, JobRunner, IntegrationJobs     in Platform, MCPlatform
      |-- Accounts, Catalogue, Pricing, SaleNumbers, Migrations       in BackOffice, MCBackOffice
      `-- WebSession (uses WebQueries), StockForm, ListPages          in BackOffice, MCBackOffice

    MCInventory, MCPlatform, MCBackOffice                   instances for TLC
    MCStockService, MCSalesService, MCMigrations, MCWebSession   and those of counterexamples
    Sums, DatabaseProofs, StockProofs, TradeProofs (sales and purchases),
    InventoryProofs, PlatformProofs, BrowserProofs, BackOfficeProofs        proofs

### The inventory

- **Database** has three variables. `stock` is the committed `StockItem` table
  (state absent/active/deleted, quantity, status, IMEI, sku, catalogue item);
  `ledger` the committed movements of each row in insertion order; `tx` the
  open transaction of each request: the rows it has locked (`own`), their new
  versions (`buf`), the movements it has inserted (`moves`), and for a
  Serializable transaction what others committed since its snapshot (`stale`).
- **StockService** adds `call`, the local variables of each stock handler. `pc`
  names the next database round trip. IMEI entry is check / insert per IMEI /
  commit; update, delete, restore and adjust are read / write; bulk add is, for
  each item, find / write or create, then commit. An error on one item of a bulk
  add is caught: the loop goes on with the others, and the transaction is rolled
  back after the last one (`failed` in the call, `BulkEnds`).
- **SalesService** adds `sale` (with its lines and which of paidAt, shippedAt,
  deliveredAt are set) and `saleCall`. Every handler is read / write except
  paySale, which is read the sale / read the stock rows / begin / one step per
  line / commit.
- **PurchasesService** adds `purchase`, `applied` (the purchases that have a
  `PurchaseStockApplication` row) and `purchaseCall`. A transition to RECEIVED
  is check the application / read the lines / insert the application / find and
  write each line / commit / write the status.
- **SaleLifecycle** is the abstract specification of a sale: one atomic,
  correctly guarded step per operation, with paying taking all goods at once
  and only if they are there. `FollowsLifecycle` in SalesService states that the
  handlers implement it, under a mapping that forgets requests and
  transactions and sums the lines of a sale per stock item.
- **Inventory** interleaves the three services over the shared tables and adds
  who waits for whom, and PostgreSQL's deadlock victim.
- **Serial** is Inventory when each request is alone from its first step to its
  last: the specification of the promises that any race breaks, with the
  inductive invariant they rest on.
- **SaleNumbers** is how createSale finds the number of a sale: the greatest
  number *as text* of the organization, plus one, against an index that is
  unique over all organizations.

### The platform

- **Platform** puts the four services side by side, for TLC and for the proofs.
- **Idempotency**: `keyRow` is the table, by path and key; `idem` the state of
  each HTTP call, at a query of begin (find / delete / insert / reread), in its
  handler, or in complete or fail. With `Installed` it is the interceptor as
  IdempotencyModule provides it; the deployed API is the case `~Installed`, since
  app.module.ts does not register the interceptor. `alone` is history: whether a
  call had its key to itself and met no fault.
- **RateLimit**: the clock, one Redis counter per window with the time it
  expires, the processes that still talk to Redis, and each request between
  INCR and GET.
- **JobRunner**: the cycles of several worker processes, the session that holds
  the advisory lock and how often it took it, the lock record, the local mutex.
  `pool` is the connections in use: with one per process unlocking reaches the
  session that locked, with two it may not. `stray` is history: how many releases
  ran on a connection that does not hold the lock.
- **IntegrationJobs**: the row (status, attempts) and the BullMQ entry (state,
  attempts made, stalls, owner) of each job; enqueueing with either adapter and
  the fall-back; the worker slots, each at a query of processBullJob. `InitAt`
  says when onModuleInit of each provider is called: with the order in which
  integrations.module.ts lists them the worker does not start (`WorkerStarts`).

### The back office

- **Accounts**: users, memberships with roles, invitations, sessions, and the
  request each session has under way: the checks of a handler are one step, its
  transaction another. The owner seeded at boot runs beside them.
- **Catalogue**: folders, items, price lists, and clerks that are between the
  look and the write of a handler, or between two batches of the seeder. `mark`
  is an item's seedSource and seedVersion, which users may send too; `apple` is
  whether its sku, or its brand and name, are those by which the seeder takes a
  row without a mark for one of its own (`LooksLegacy`); `by`, history, is who
  really made it.
- **Pricing**: the rules, the stock items with what rules match on and their base
  price, desks that are between finding and writing a rule, and quotes that price
  their lines one at a time. A line of a sale has a total of its own, which no
  later edit of the item changes. `withdrawn` remembers which rules have been out
  of force ever since a quote began, `moved` whether a rule or an item was
  written while it was made.
- **Migrations**: `schema` (the objects there are), `rows` (the history of each
  migration in `_prisma_migrations`), and `step`, what the starting container is
  about to do. The initial states are the databases that earlier images or
  `prisma db push` can have left, a half-pushed ledger among them; wherever there
  is a table of accounts there may be accounts (`ledgerUsed`). The manual repair
  the scripts ask for is modelled with them. The migrations are the four the
  scripts treat by name and one they do not, of 32.

### The browser

- **WebQueries** is a table: for each hook of `lib/api/hooks`, the database
  tables its endpoint reads, or changes, and the queries it invalidates.
  `Overlooked` is computed from it: the pairs of a write and a query it should
  have invalidated and does not.
- **WebSession**: the stores (auth, organization), the cookies, the page, the
  query cache and every request, with the server that answers it; one refresh
  and one retry per request. A cache entry remembers for whom, for which
  organization and at which edition of the data it was read. `Refresh` is
  invalidateQueries of React Query 5: what it names becomes stale, and what is on
  screen is asked for again; but a first load under way is not replaced, nor is a
  fetch for a query off screen cancelled, and when either is answered its answer
  counts as fresh. `kept` marks those lines.
- **StockForm**: the stock dialog - wizard, rows, paste and import with their
  matching requests, and the save, with the server that adds the units.
- **ListPages**: one tab on one of eleven list pages; the differences between
  the pages (which controls reset the page number, what the server refuses,
  how the pager decides) are the records `Toolbars` and `Tables`.

Operators under a comment starting with "Fault" are wrong variants of the next
operator. Nothing uses them; PROJECT.json names them as the mutants which show
that each checked property can fail.

## How the code is modelled

*Atomicity.* An action is the code between two points where another request can
come in: an `await` on a query. One SQL statement is atomic. Prisma loads every
relation of an `include` with a query of its own, so paySale's read of the sale
and of its stock items are two actions. When a transaction writes one row only,
its write and its commit are one action (`CommitRow`): the row is locked in
between, so nobody could see the difference. Transactions that write several
rows are modelled row by row in the core, because their locks are what others
wait for. In Accounts, Catalogue and Pricing, where no two transactions write
the same rows in different orders, a handler is its look (reads and refusals)
and its write (one transaction).

*Isolation.* Transactions run at READ COMMITTED (a read sees the latest commit,
and the transaction's own writes) unless the code asks for Serializable, as
paySale and cancelSale do. Their transactions contain no read, only updates by
primary key; what remains of Serializable is that an update of a row committed
by somebody else since the snapshot fails. The snapshot is taken by the first
statement (`PayBegin`), after everything the handler decides on was read.

*Unique indexes* cover soft-deleted rows and make an insert wait for an open
transaction that has inserted the same key.

*Crashes.* `Abandon`, `AbandonSaleCall` and `AbandonPurchaseCall` end a handler
between any two of its steps and roll its transaction back: the process dies,
the connection is lost, Prisma's five-second limit for interactive transactions
expires, PostgreSQL picks it as a deadlock victim, or (purchases, with
`AUDIT_FAIL_MODE=CLOSED`) writing the audit row fails. What was committed
before stays. The other modules have faults of their own: a database query of
the idempotency service that fails, a Redis that stops answering, a worker that
dies with its entry, a container that dies between two statements of its
start, an answer that never reaches the browser.

*Weather.* Some promises the code keeps under every fault and interleaving, some
only when nothing goes wrong. `calm`, chosen once and for all in the initial
state, says which kind of behaviour this is: the fault actions are guarded by
`~calm`, and in Accounts, Catalogue, Pricing and SaleNumbers, whose code is
itself open to races, a request of a calm behaviour starts only when no other is
under way. Every run but those of one counterexample explores both kinds. What
is promised in calm weather only:

| Property | What breaks it otherwise |
|---|---|
| `SomebodyAdministers` | two administrators demote or remove each other |
| `CatalogueOnce` | two seeders at once find no catalogue and make it twice |
| `OneInstance`, `LockComesBack` | a connection is closed and PostgreSQL gives its lock away; a query of acquireLock fails after the lock was taken |
| `WritesLandWhereMeant` | the organization is changed while a form is on its way, and the repeated request names the new one |
| of `ItemsKeepFolder`, that what a user made stays in a folder | deleteFolder between the check and the insert of createItem |
| of `WindowLimit`, the limit | Redis does not answer, and requests are let through |
| of `NumbersRunOn`, that no sale is refused | two sales of one organization find the same last number |
| of `StockFormFaithful`, that nothing is lost or saved twice | a lost answer |

The others, and the other parts of these four, hold in any weather; where a
promise has an exception (two calls of one key at once, an edit between the lines
of a quote, a first load under way) the property names it.

*Data, inventory.* One organization (every query filters by it); prices are left
out except that a purchase costs one cent per unit, so that totals can be
compared with lines; roles are left out, every caller may do everything;
movements keep their type, both quantities and the document they belong to (the
column `quantity` is their difference). Purchase lines are read back without
ORDER BY, hence a set from which the receipt takes any next element. `MaxQty` is
the largest value of the INTEGER column; exceeding it is an error that rolls
back. `LegacyItem` is the hard-coded catalogue id (`legacy-no-item`,
`legacy-purchase-no-item`) that createStockItem and the receipt's placeholder
refer to; no migration inserts it, and where it is not in `Items` these inserts
fail on the foreign key. `SaleStatus.RESERVED` is not modelled: no handler
writes it.

*Data, elsewhere.* Passwords, token signatures and hashes are members of small
sets; two bodies have the same hash exactly when they are equal. A token is
valid, expired or revoked, whatever the time. The clock of RateLimit counts in
units of the window's resolution. Migrations keeps of a schema the objects the
scripts ask about, and of the recovery script's fingerprint checks their answer.
What the browser shows is the edition of the data it was read from, not the
data; a list page is its rows' filter attributes and where they stand.

## The runs

Every request in a model is one HTTP call of any kind with any of the inputs of
the configuration. All requests done is a state in which nothing happens.
`MCStockService`, `MCSalesService` and `MCInventory` have an `Idle` disjunct
that makes it legal, and deadlock is checked everywhere else. `MCPlatform` and
`MCBackOffice` bound requests and clicks, and a system without requests may
rest, so their configurations switch the deadlock check off; that nothing is
stuck is stated as a property where the code promises it (`SomebodyCommits`,
`LockComesBack`).

`MCInventory` lets one set of requests out of `Mixes` arrive in each behaviour,
so that one run covers several combinations of services; in `ConcurrentSpec`
requests of stock alone, or of sales alone, find tables of their own. `Platform` and
`BackOffice` combine modules that share no state: `focus`, chosen at the start,
names the one that moves while the others rest in an initial state. Every
behaviour of `MCPlatform` and `MCBackOffice` is one of theirs with requests
counted, so what is proved of the former holds in the runs.

| Run | Question | Instance |
|---|---|---|
| `InventoryConcurrent` | Do quantities equal the end of the ledger (`QuantityIsLastMovement`), stay in range, and IMEIs stay unique (`ImeiUnique`), when calls interleave and crash? Does a bulk add leave all or nothing (`BulkAddsAllOrNothing`)? Do payment and stock agree (`PaidIffTaken`), and do stamps keep their order (`StampsInOrder`), although every handler overwrites on a stale read? Does a purchase enter stock in exactly one commit (`AppliedOnce`), before it is RECEIVED (`ReceivedIsInStock`)? Is the inductive invariant of the proofs an invariant? | three stock calls over a deleted phone and two batches; three sale calls over two drafts that ask for the same two rows in opposite orders, one line without stock, and a sale still to be created; three purchase calls; one call of each service; a payment and two purchase calls. 2 IMEIs, room for 4 more rows, MaxQty 2 so that both ends of the range are met; 244 000 states, a minute and a half |
| `InventorySerial` (`SerialSpec` over the mixes) | Do the promises hold for every *sequence* of calls, crashes included? Among them: a sale implements SaleLifecycle, the ledger chains, no line is paid twice, nothing is oversold, deleted rows are frozen, totals and received units match the lines, RECEIVED is final | up to 4 calls one after the other, six mixes |
| `InventoryContention` | When bulk adds, payments and receipts lock rows in opposite orders, is something always committed in the end? | three transactions over two rows, four mixes, fairness below |
| `PlatformFaults` | Does a key whose first call ran alone have one effect (`OncePerKey`), and its own answer (`AnswerIsOurs`)? Does a window stay within its limit (`WindowLimit`)? Do the cycles of two workers exclude each other (`OneInstance`), and is the lock lost to the connection pool only (`LockComesBack`)? Is every queued job done, running, waiting or out of attempts (`JobAccounted`), and none failed before its attempts are used up (`FailedMeansExhausted`)? | 3 callers of one key and two bodies; 2 servers, limit 1, window 2; 3 cycles of 2 processes over 3 connections; 2 jobs, 2 worker slots, 2 attempts, 1 stall; 394,758 states, 17 s |
| `BackOffice` | Accounts: who may be ADMIN where (`FoundedHaveNoAdmins`), somebody administers every organization (`SomebodyAdministers`), an invitation makes one member of its role (`InvitationsConsistent`). Catalogue: `ItemsKeepFolder`, `CatalogueOnce`. Prices: `QuoteConsistent`. Numbers: `NumbersRunOn`. Start-up: `SchemaKept`. Browser: `StockFormFaithful`, `ScreenIsCurrent`, `WritesLandWhereMeant`, `NothingHidden` | at most 4 account requests, 3 of the catalogue, 4 of the rules, 5 sales, 2 starts, 8 clicks in the dialog, 3 or 4 on a list page, 3 (6 when calm) in the session; 1.4 million states, two minutes |
| `StockLostUpdate`, `SalesPaidTwice`, `SalesOversold`, `PurchasesReceivedUndone`, `IdempotencyAsDeployed`, `MigrationsDropAccounts`, `WebOrganizationsMixed` | Counterexamples, see the next section | one to three calls, starts or clicks |

*Why the bounds suffice, inventory.* The hazards are races between a stale read
and a write, so two calls on one row show them; a third can act between. What
holds for any number of calls is proved. Two rows are needed for opposite lock
orders, a deleted and a new row for the queries that filter by deletion, two
purchases and two sales for calls that must not affect each other. `MaxQty` is
small so that both ends of the column are reached. At most as many sales,
purchases and rows are created as the sets hold (`SaleIdsLeft`,
`CreatePurchase`, `Fresh`); there are as many row ids as three stock calls can
use.

*Why the bounds suffice, platform.* One key with three callers has a first call,
a retry while it runs and a retry after it; a second body tests the hash. Limit
1 with two servers is the smallest window that a second request exceeds; time
runs over one window and into the next. Three cycles are two of one process and
one of another: the first two share the local mutex and a pool, the third is
the instance the advisory lock is for; one process has two connections and the
other one. Two attempts and one stall reach both ends of an entry's life, two
jobs with one deduplication key meet. The jobs run with the runner initialised
last, as its own tests have it. As deployed it is first and no entry is ever
taken: those behaviours are among the checked ones, and the properties, which
are all of safety, hold of them.

*Why the bounds suffice, back office.* A race in Accounts is a look, another
request's look and write, and a write: two sessions, four requests. A catalogue
of two batches lets the seeder die between them and be started again. A quote of
two lines lets a rule be changed between them. Base 2 and width 2 put the step
from the widest number to a longer one within five sales, two of them of another
organization. A start after the first lets a recovery fail and be
repeated; a start is in the storm only, which can do all it does in the calm and
of which `SchemaKept` speaks too. Users mark items like the seeder's in calm
weather only, the only one in which `CatalogueOnce` promises anything.
Two rows to a page and three or four rows put an end of a page within the reach
of the clicks. Two stock items of two kinds, edited into each other, are what a
rule can tell apart.

*Why serial and concurrent runs.* The promises of `InventorySerial` are broken
by races; four counterexamples are kept as runs of their own. The others were
met while modelling and are reproduced by checking the property under `MCSpec`
with two requests: a bulk add that found a row before its deletion writes it
afterwards (`DeletedIsFrozen`), two edits of one purchase keep both sets of
lines (`TotalMatchesLines`), an edit racing a receipt makes the received goods
differ from the lines (`StockMatchesLines`), a cancellation overwrites SHIPPED
(`FollowsLifecycle`). The serial run shows that nothing but concurrency (or,
for `SalesOversold`, two lines of one item) is to blame; carts in the passing
runs therefore name a stock item once.

*Fairness.* One property needs it. `SomebodyCommits`: `ContentionSpec` excludes
crashes and assumes weak fairness of each handler's next step (Node.js resumes a
handler whose query has returned, and PostgreSQL grants a lock when it is free)
and of deadlock resolution (PostgreSQL checks for a cycle after
`deadlock_timeout`). The property is deliberately not "every call succeeds": a
serialization failure or a deadlock answers with an error and nothing in the API
retries it. That queued jobs are settled is not a property of this project: the
worker which would have to be fair is not started by the deployed application.

*Mutants.* For every property of a passing run PROJECT.json names a change of
one modelled operator - a dropped check, a statement outside its transaction, an
index that ignores deleted rows, a lock that is never released, a query that a
write forgets to invalidate - under which TLC finds the property violated in
the same configuration.

## Where the code disagrees with its documents

### With a run

- **Lost update of a quantity** (`StockLostUpdate`, `LedgerContinuous`).
  adjustStock reads the row without locking it and writes `before + change`.
  Two adjustments that read the same quantity leave a ledger whose second
  movement starts from a quantity that was no longer there.
- **One sale paid twice** (`SalesPaidTwice`, `PaidOnce`). paySale tests the
  status outside its Serializable transaction; if the first payment commits
  between the second one's read and its snapshot, PostgreSQL sees no conflict
  and both take the goods. `sales.service.spec.ts:1251` expects a refusal, and
  exercises only the sequential case.
- **Overselling in one call** (`SalesOversold`, `NeverOversold`). Two lines of
  the same stock item are each compared with the same quantity read earlier.
- **RECEIVED undone** (`PurchasesReceivedUndone`, `ReceivedIsFinal`). A
  cancellation validated before a receipt is written after it.
- **Idempotency keys do nothing** (`IdempotencyAsDeployed`, `OncePerKey`). The
  decorator on createSale and paySale only sets metadata, no module registers
  the interceptor, and `request.organizationId`, without which it would let
  every request through, is set nowhere. `IDEMPOTENCY.md:77` promises that the
  second request creates nothing. `PlatformFaults` shows what the interceptor
  would do if it were registered.
- **Accounts dropped at a start** (`MigrationsDropAccounts`, `AccountsKept`). When
  the accounting migration is recorded as failed and not all of its objects are
  there, the recovery drops the ledger's tables without looking into them
  (`prisma-recover.ts:1065-1072`): accounts made in a ledger that `db push` had
  completed by half are gone. `PRISMA_MIGRATION_RECOVERY.md:218` says that the
  script aborts when it cannot resolve safely.
- **The data of two organizations mixed** (`WebOrganizationsMixed`, `NeverMixed`).
  A change of organization invalidates every query, the keys of which name no
  organization; the reload that would follow it is commented out
  (`org-switcher.tsx:42`). React Query does not replace a first load under way,
  so the answer for the organization just left is shown, as fresh, under the
  name of the new one. `PERFORMANCE_P1.md:121` says the invalidation avoids just
  this.

### Seen while modelling, without a run

Inventory: the placeholder of an unknown sku, and createStockItem, refer to a
catalogue item that nothing creates; receipts find soft-deleted rows by sku and
payments write rows deleted since the sale was drafted; deleteSale can delete a
sale that is being paid. updateStockItem refuses AVAILABLE for a SOLD item on the
row as read and then updates by id, so that a payment in between sells an item
which the edit puts back on sale; and it lets SOLD become DAMAGED or RETURNED, and
either become AVAILABLE. deleteStockItem does not look at the status, though
`stock/README.md:214` and `:362` say that SOLD and RESERVED items cannot be
deleted. createSale replaces the price of a line that names a
stock item by that item's base price.

Platform: RateLimit calls its windows sliding; they are fixed, so twice the
limit passes around a boundary, and its pipeline is not a transaction. The local
mutex of the job runner is tested before an await and set after it, so two
cycles of one process overlap. With more than one connection in the pool an
unlock may run on a connection that does not hold the advisory lock; it stays
taken by one that lives on, and no other instance gets it any more, which
`job-runner-lock.service.e2e.spec.ts:55-60` expects. The worker does not start
with `QUEUE_MODE=bullmq` (`job-runner.service.ts:49`): onModuleInit of the
provider that decides is called before those of the ones it asks
(`integrations.module.ts:27-38`), so that every entry waits for ever, where
`BULLMQ_MIGRATION.md:138` has it processed immediately. A row whose entry Redis
deduplicated against a kept failed one stays PENDING. fetchNext has no caller, so
with the database adapter, and after a fall-back to it, rows are only written,
where `BULLMQ_MIGRATION.md:131` says the worker polls them; webhook events never
get a job.

Accounts: `ENDPOINTS_AUTH_ORGS.md:33-41` shows the founder of an organization as
ADMIN; the code makes him OWNER, and the document is out of date.

Catalogue and prices: the default folder can never be made once a user has made
a folder of that name; reseeding soft-deletes users' items whose sku looks
generated or whose name is that of an iPhone; rules of equal priority are in no
defined order, `allowStacking` is read nowhere and the currency of a rule is not
compared. A second organization's
first automatic sale number collides for ever with the first one's, and after
999 the text order finds 999 again.

Start-up: a fresh database cannot be built through this chain, since the
migration of the ledger's accounts and items fails for ever; what a clean-up
leaves behind makes the retry fail again; the price list audit looks
at tables only; migrations dated 2025 sort before the initial one; no migration
creates the purchase tables.

Browser, queries: `Overlooked` in WebQueries lists every query a write forgets:
a new sale refreshes no stock view, a purchase transition none either, an
adjustment neither the summary nor the global movements, an edited customer not
the customer's own page, items not the folder counts. Leads and reservations
have hooks and no endpoint.

Browser, session: a first load, and a fetch for a page that is no longer on
screen, that a write invalidates is not repeated, and what it had read before the
write counts as fresh; logging out keeps the organization and the query cache, so
the next user of the tab sees cached data of the former for up to half a minute,
sends the former's organization, is refused and logged out; the page that
chooses an organization never fills its list; several requests that find the
token expired each refresh it; a refresh that succeeds after a logout puts a
token back without a user; a repeated request goes to the organization chosen
by then.

Browser, stock dialog: pasted rows of one paste share an id; edits and pastes
made while a save is under way vanish when it ends; a lost answer makes the
user save, and the server add, the same units twice.

Browser, lists: the audit page's search is always refused (a numeric validator
on a string); the ledger's accounts send a parameter the server refuses and have
no pager; a folder opened after the browser's Back keeps the page number; the
pager is drawn inside the branch for a non-empty page, so a user whose page
emptied is stranded; a seller's search of sales shows other sellers' sales, and
of customers finds nothing new; a bulk delete before the new page's rows have
arrived deletes those of the former page.

## What is proved

The TLAPS proofs hold for every instance: any number of requests, rows, sales,
purchases, users, organizations, containers and calls, any tables to start from
and any inputs that satisfy the named assumptions, which TLC evaluates in the
runs. What the assumptions ask, beyond sentinels that are no values:

- `SeedAssumption`: the table a behaviour starts from has no IMEI twice (its
  unique index sees to that) and nothing in rows that do not exist.
- `StockInputs`, `SalesInputs`, `PurchaseInputs`: inputs have the types the DTOs
  validate. Seeded purchases have lines - finitely many, since they are a list -
  and the total of their lines; seeded sales are drafts.
- `RateAssumption`, `RunnerAssumption`, `JobsAssumption`, `CatalogueAssumption`:
  the requests, cycles, slots, products and items that are counted are finitely
  many. Every product is in one portion of the seeder, as slicing a list into
  portions makes it.
- `PricingAssumption`: prices and totals are whole numbers of cents, priorities
  and values of rules are integers, and lines name stock items that exist. Nothing
  is assumed of how the total of a sale's line relates to its item's price.
- `NumbersAssumption`: the widest short number, `Base ^ Width`, is a natural
  number - the provers know nothing of powers - and somebody has a shop.
- `FormAssumption`: the catalogue is finite, a search finds an item of it or
  none, and what users paste or import are lists of texts with numbers.
- `ListsAssumption`: rows are numbered up to a bound.
- `WebKeys`, `WebNames`: the pages a user opens show queries, and the forms he
  sends are writes, of the hooks in `WebQueries`; no query has the name of a
  write.

Two theorems have a hypothesis more. `NoTwinLines` - no cart and no seeded sale
names a stock item on two lines - is needed because with such a cart one client
alone oversells (`SalesOversold`) and breaks the chain of movements.
`StockAlwaysMatches` sums over the stock items and asks that they be finitely
many.

| Theorem | States |
|---|---|
| **InventoryProofs, StockProofs, TradeProofs** | *under every interleaving and crash* |
| `InventoryInvariant` | `Spec => []InventoryInv` for the three services together |
| `QuantityFollowsLedger` | the committed quantity of a stock item is the one its last committed movement ends in |
| `ImeiAlwaysUnique` | no two stock items, deleted ones included, carry one IMEI, although three services check first and insert later |
| `StampsAlwaysInOrder` | nothing is shipped unpaid or delivered unshipped |
| `PaidExactlyIfTaken` | a sale has paidAt exactly when each of its stock lines has left stock, and no other sale has taken any |
| `ReceivedAlwaysInStock` | a purchase is RECEIVED only when its goods are in stock |
| `AppliedAtMostOnce` | the goods of a purchase enter stock in one commit, with the application row, and never again |
| `StockTypeCorrect`, `SalesTypeCorrect` | types; in particular no stock handler leaves the range of the quantity column |
| **InventoryProofs**, over `SerialSpec` | *with one request at a time, wherever each is abandoned* |
| `SerialInvariant` | what a handler has read or checked is still so when it writes |
| `DeletedStaysFrozen`, `ReceivedStaysReceived` | action properties: the quantity of a deleted item does not change, RECEIVED is final |
| `TotalAlwaysMatches`, `StockAlwaysMatches` | the total of a purchase is the sum over its lines; what it brought into stock are the units of its lines |
| `LedgerAlwaysContinuous`, `NeverSoldShort` | movements chain, and no more is sold than came in (`NoTwinLines`) |
| `PaidAtMostOnce` | each line of a sale is taken from stock once |
| `SalesFollowLifecycle` | the sale handlers implement `SaleLifecycle` (`NoTwinLines`) |
| **PlatformProofs** | |
| `OneInstanceAlways`, `LockAlwaysComesBack` | in calm weather the cycles of two processes never overlap, and the session's count of the lock is exactly the cycles that hold it and the releases that ran on another connection of the pool: it is lost in no other way, and never with one connection per process |
| `AnswersAlwaysOurs` | an answer belongs to the call's key and path under every fault, and to its body if the call that gave it ran alone |
| `InterceptorKeepsOncePerKey` | with the interceptor in place, in any weather: once a call has committed and ended with nobody else at its key, no call of that key takes effect until it expires |
| `WindowAlwaysLimited` | in calm weather a window admits at most the limit and any stretch of that length twice it; nobody is refused in a window that has seen no more than the limit, whatever fails |
| `FailedAlwaysExhausted`, `JobsInvariant` | no row is FAILED before its last attempt unless its entry stalled, and no row counts more failures than attempts and stalls, under every fault |
| `JobAlwaysAccounted` | whatever fails, a job that was queued is done, waiting, running or out of attempts or stalls, and one dropped as a duplicate was dropped for another of its key that was queued |
| `PlatformRunsEach`, `PlatformTypeCorrect` | a behaviour of the four services side by side is one of each; types |
| **BackOfficeProofs** | |
| `FoundedNeverHaveAdmins`, `AccountsInvariant`, `AccountsTypeCorrect` | an organization founded through the API never has an ADMIN, nor an invitation for one |
| `InvitationsAlwaysConsistent` | invitations name members and organizations that are there, and an accepted one has a verified user |
| `SomebodyAlwaysAdministers` | in calm weather no organization is without somebody who administers it |
| `ItemsAlwaysKeepFolder`, `CatalogueAlwaysOnce` | items are in folders that exist; in calm weather what users made stays in a folder, and the seeder has made each product at most once, however often it runs and whatever users mark as seeded |
| `QuotesAlwaysConsistent` | no line is priced by a rule withdrawn before the quote began; equal lines cost the same unless two rules share a priority, a rule or an item was written while the quote was made, or the queries of one of the lines failed |
| `NumbersAlwaysRunOn`, `NumbersTypeCorrect` | sale numbers are unique; an organization selling alone has them numbered one by one, up to the widest |
| `NothingEverHidden` | a list page is empty though rows match only after a folder was opened on a later page or rows have left the list; it offers the next page exactly when there are more rows |
| `SchemaAlwaysKept`, `MigrationsTypeCorrect` | what is recorded as applied is there, only a migrated database is served, no recovery drops the tables of a whole ledger with accounts in it (of a half-pushed one it does, `MigrationsDropAccounts`); the schema has only what is pushed or some file makes |
| `BackOfficeRunsEach`, `BackOfficeTypeCorrect` | a behaviour of the eight parts side by side is one of each; types |
| **BrowserProofs** | |
| `ScreenAlwaysCurrent`, `WebInvariant` | once nothing is being asked for, a page shows what was read for its user, in the organization the switcher names, after each of his writes that its hook covers, unless it answers a request that an invalidation met and React Query did not replace |
| `WritesAlwaysLand` | a user who waits for one answer before changing organization has every write made where his form showed, however often the token runs out |
| `StockFormAlwaysFaithful`, `FormInvariant` | what the stock dialog has reported as saved is on the shelf; in calm weather nothing else is, and no row with contents is lost; rows made at different moments have the items chosen for them |

### The inventory

"Quantity equals the end of the ledger" is not inductive: a commit
publishes rows and movements written earlier. `DbInv` strengthens it with
`BuffersMatch` (the movements a transaction has pending for a row it holds end
in the quantity it has written there, and there are none for other rows),
`LocksExclusive` (a row has one holder, so nothing is published under another
transaction's feet) and the types. `DatabaseProofs` proves, once for each
database operator, that it keeps `DbInv`; these lemmas ask that the written row
have its type and that its movement end in its quantity. Each service's
invariant (`StockInv`, `SalesInv`, `PurchasesInv`) adds the types of its local
variables and what a handler knows when it is about to write, so that each
action satisfies the lemma it calls: for a receipt, that `before + qty` fits
the column, since the row's version cannot change in between for it to matter.
A service's invariant speaks of the shared tables only through `DbInv`;
`InventoryProofs` therefore composes them with three frame lemmas: a step of
one service keeps the others' invariants because it keeps `DbInv` and leaves
their own variables alone.

`ImeiUnique` is about committed rows, but an index entry is there from the
insert on, and a rollback brings the former one back. `ImeiInv` therefore says
it of every version there is of a row, the committed one and the one some
transaction has written: two versions with one IMEI are of one row.

`StampsInOrder` needs its own strengthening, `StampsInv`: handlers overwrite
each other's status on stale reads, so the order of the stamps rests on what a
handler has seen. One about to ship has seen paidAt and one about to deliver has
seen shippedAt; no handler clears a stamp, so what was seen still stands when it
writes; and a sale that does not exist yet has no stamp.

`ReceivedIsInStock` and `AppliedOnce` rest on `ReceiptInv`. The status is written
by a handler that saw the application row or wrote it, and application rows are
never deleted; what remains is that the row and the goods commit together, and
only they. Movements of a purchase that are pending belong to the one transaction
whose INSERT of the application row is open, because the unique index keeps every
other one waiting; a receipt that has worked through its lines has some pending,
since a purchase never loses its lines (an edit inserts others in the same
transaction). Steps of stock and sale handlers are `Quiet` for such movements: a
transaction without any stays so and publishes none. That seeded purchases have
lines is part of `PurchaseInputs`; the code refuses to make one without
(`purchases.service.ts:202`, `:320`).

`PaidIffTaken` rests on `PaymentInv`, built the same way. SOLD movements that are
pending belong to a payment in its transaction, are of the sale it pays, and
include one for each stock line it has worked through; the lines it read are
still the sale's, since a sale that exists keeps its lines. When the payment
commits it has been through all of them, and writes paidAt in the same step.
Steps of stock and purchase handlers are `Quiet` for SOLD movements. The proof
takes `StampsInv` along: it says that a sale which has a stamp exists.

### One request at a time

`SerialInv` has five parts. `OneAtATime`: one request runs, and the others,
being new or done, have no transaction; a request that is abandoned rolls its
own back. `HandlersFit`: what the running handler has read, or checked, is still
so - a stock row at the quantity read, a sale in the status checked, the lines
of a purchase those an edit deletes. It is preserved because nobody else writes,
and it is what every action's promise follows from. `TablesInv`: what the
transaction is about to publish removes no row, and its movements lead on from
the row's quantity. `SaleTable` and
`PurchaseTable` say the rest of the tables. A serial step is a step of
Inventory (`SerialIsSpec`), so that the invariants above can be used.

Sums: a receipt enters a line at a time, and what it has entered plus what it
has still to enter is the purchase (`PurchaseFits`); the commit makes it a fact
of the ledger. `NeverOversold` telescopes: movements that lead on from each
other add up to the last quantity less the first. That a sum does not depend on
the order in which its terms are taken, and is the sum of the sums over two
parts, is proved in `Sums` from the definition in the community modules, by
taking a minimal subset of which it fails.

`SalesFollowLifecycle` maps each step of a handler to a step of `SaleLifecycle`
or to none: the write of createSale, updateSale and so on to the operation it
performs, the commit of a payment to `Pay`, every other step to a stutter,
because the mapping forgets requests and transactions. The guard of the abstract
step is what `HandlersFit` says of the handler.

### The platform

*Job runner.* `RunnerInv` says that the session holding the advisory lock has
taken it at least as often as there are cycles running that took it, and that
they all belong to the process that owns the connection; another process's
cycle can then not begin while one of them runs, whatever connection unlocks.
For `LockComesBack` "at least" must be "exactly" (`ExactCount`): every cycle that
holds the lock has one taking, and every release that went astray (`stray`) has
left one, which needs two connections in the pool of the process that holds it.

*Idempotency.* `IdemInv` says that a stored answer is that of a call which ran
under that key, and what a call that is `alone` finds: while it is in the server
nobody else of its key is, so that the row is pending, with its own hash, just
while it runs; when it is over its answer is stored, and stays until the key
expires, because whoever comes later reads it and goes to neither complete nor
fail. Nothing of this needs calm weather.

*Rate limit.* `RateInv` compares a counter with the requests it was raised for:
it never exceeds the number of requests counted in its window, so that a refusal
means more of them than the limit; in calm weather it is exactly that number, a
request that passed read no more than the limit, and no key expires before its
window has ended. Any stretch as long as a window meets two of them.

*Jobs.* The row counts failures, BullMQ attempts and stalls, and different
queries write them. `JobsInv` carries two counts: the failures a row has counted
and those its workers may still count are no more than the times its entry was
taken (`Takes`), and an entry that has not stalled has one worker, so that at
most one failure is yet unwritten when BullMQ rejects the last attempt. For
`JobAccounted` `JobsFollowed` adds that the row of a completed entry that never
stalled is done, that a call's entry is there once it is queued, and that of a
call dropped as a duplicate another call of its key has put an entry in.

### The back office

*Accounts.* `AccountsInv` says of each table what its rows can be and of each
session what its request under way may be about: a request that gives away a
role looked at the rights of its sender earlier, and those may have been taken
away since, so the invariant must carry the conclusion (the organization is a
seeded one) rather than the right. `PeopleInv` adds what the tables promise each
other, and for calm weather that whoever has looked, and is about to write,
still administers the organization: he is not the one demoted or removed, so
somebody remains.

*Catalogue.* `CatalogueInv`: what a clerk looked up is still so when he writes in
calm weather; and the seeded rows that are there are the portions the seeder has
made so far, which are disjoint, each product of them once. Between portions
the rows made are counted against the products of the portions done. Rows that
users mark like the seeder's only make the seeder stop earlier, and those that
look like an older seeding are deleted, which takes away none of its own.

*Prices.* `PricingInv` says that a rule withdrawn before a quote began stays out
of force and has priced no line of it; and, as long as no rule and no item is
written (`moved`), that every line priced so far has the price the rules give it
now, of which there is only one when no two rules share a priority.

*Numbers.* A till that sells alone and brings no numbers of its own is about to
insert the greatest number plus one, because in text of one length the order is
that of the numbers (`NextIsOneMore`); past the widest number nothing is
promised. `LastNumber` is the set of the numbers last in the order, not a choice
among them, so that no proof rests on there being one.

*List pages.* `ListsInv`: as long as rows only come, an answer counts no more rows
than there are, and one that is not invalidated is what would be answered now; a
page number above one, unless a folder was opened on it, was reached by a pager
that saw more rows. That a page has as many rows as it should follows from
numbering the rows by rank (`RanksCount`, `Slices`).

The attempt to prove this showed that the property had been too strong in
instances larger than TLC's: with two folders, a page asked for and found empty
earlier is shown again, from the cache, when rows have come since, until the
answer to the repeated request arrives. `NothingHidden` now excepts an answer
that is being asked for again.

*Start-up.* `MigrationsInv` ties the history to the schema (a migration
recorded as applied has made its objects, and nothing drops them while it is
recorded), and each point of a start to what the script has found out by then.

### The browser session

`WebInv` says of every request who it belongs to and how far it can be. One that
a loaded page waits for is the user's own and bears his token (`OursFits`),
because whoever was logged in before left none; one left by a page that was
loaded anew has nobody to answer. Of the cache it says in three steps what a
screen may show. A line that waits for an answer waits for a request for its own
query (`LineFits`), sent under the organization the header names now, and an
answer the server has already given covers the writes the line is owed
(`Coming`). What counts as fresh is current (`Ready`): read for this user, in
that organization, after those writes. And a line on the screen that waits for
nothing and has not failed is current (`ScreenFits`), fresh or not. The last
part is what a switch of organization and a completed write could break: both
invalidate lines, and every line on the screen that they leave out of date is
asked for again in the same step (`Refreshes`), unless the pair of write and
query is in `Overlooked`, or the line's request is a first load or one for a
page off screen, which React Query lets answer. Such a line is `kept`, and the
invariant promises nothing of it until it is asked for anew. For the writes,
`FormsFit` says that in calm weather a form is alone on its way and that the
organization in its header, on the first attempt and on the repeated one, is the
one its user saw.

Two instances beyond TLC's bounds showed that `ScreenIsCurrent` had been too
strong: a second user who logs in on the same page without loading it anew, after
the first one's session has ended and while one of his requests is still
answered; and a token refreshed for an earlier user that is in the cookie when
the page is loaded again. `again` now records exactly whether a login or a reload
found anything of somebody else: an organization, data, a request or a token.

### The stock dialog

`FormInv` follows the units from the rows to the shelf. A save - the one under
way, and one whose answer was lost and may still reach the server - sends as
many units as the dialog showed (`SaveFits`): the rows it takes, summed by item,
come to the rows summed one after the other, because every valid row has one
item (`Sums` does this by splitting the rows by item). What was reported, and
what the server has added and is about to be reported, is on the shelf, and in
calm weather nothing else is (`ShelfFits`): a save is added at most once, and
only a lost answer lets a second one be under way.

That calm weather loses no row rests on `RowsWait`: nothing is matched while a
save is under way and rows do not move, so the rows the dialog keeps when the
save ends are the ones the save knew. The rows a save leaves for later have no
item (`Unassigned`), which is what keeps `RowsFit` over a save: a row with an
item that was not chosen for it shares its id with another row. Ids are the
clock's milliseconds. A choice goes to every row with the id of the one it was
made for; a row it was not made for is then one of two with that id - until the
other one is removed, which takes away every row of that id.

### Only model-checked

Liveness (`SomebodyCommits`) and `ENABLED` are beyond the prover, and
`BulkAddsAllOrNothing` has not been proved. Every other invariant, action property
and refinement that a passing run checks is a theorem.

## What is not modelled

Within the modelled services: totals, discounts and prices of a sale, leads and
attribution (`createAttributionSnapshot`, called by paySale, has its body
commented out), seller permissions beyond what lists find, audit rows, and
`PurchaseLine.stockItemId` (written only by the transaction that also writes the
application row, and not read after it); commissions, statistics and settings
(single rows or reads); overrides of single lines of a price list and its
export.

The audit log is written on its own connection and read by no modelled code.
Dashboard and reports aggregate and change nothing. The operational scripts are
run by hand against a deployment. The job processors have been removed from the
code, so a job is its attempts. In the browser, detail pages, the purchase form
and widgets show one answer and send one request, which WebSession covers for
any page. The sale form keeps state of its own, but nothing it sends is
accepted: the DTO converts `unitPrice` to a number and then demands a decimal
string, does not know `priceListId`, and refuses an empty e-mail address; a
property of what the form saves would hold because nothing is saved.

## What could come next

- A run for the queue of audit rows, whose failure mode CLOSED is in the core
  only as one more way for a purchase handler to end.
- A proof of `BulkAddsAllOrNothing`: an invariant that relates the items a bulk add
  has been through to the movements its transaction has pending.
- Progress of the queue, once the worker starts after the queue has its adapter.
- The sale form, once its DTO accepts what it sends; settings and commissions,
  if they ever depend on more than one row.
