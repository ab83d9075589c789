# Verification of estoque-saas

TLA+ models, TLC runs and TLAPS proofs for estoque-saas, a
multi-tenant stock and subscription system for small Brazilian shops (Next.js
route handlers, a BullMQ worker, PostgreSQL through Prisma, the PagBank and
Vindi payment gateways). Paths below are relative to the repository root, `M/`
is `services/app/src/modules/`.

    tlc -workers 2 -config StockConcurrency.cfg MCStockLedger.tla
    tlc -workers 2 -config NfeImport.cfg MCNfeImport.tla
    tlc -workers 2 -config Billing.cfg MCBilling.tla
    tlc -workers 2 -config Office.cfg MCOffice.tla
    tlapm StockLedgerProofs.tla          # and the other *Proofs.tla, and Sums.tla

## 1. The system

| Component | State | Operations | Interacts through |
|---|---|---|---|
| Stock ledger (`M/stock`, `M/sales/sales.ts`) | `stock_movements` (append only, `balance_after` on each row), `batches`, advisory locks | manual entry, exit, sale, transfer, FEFO suggestion | one `withTenant` transaction per request; `pg_advisory_xact_lock` per (tenant, product, store) |
| NF-e import (`M/stock/nfe-import.ts`, worker) | `nfe_imports.status`, `nfe_import_items`, BullMQ job | upload, parse job, link item, create products in bulk, confirm | the job queue (retries, no transaction with the row it works on); the ledger on confirmation |
| Billing (`M/billing`, `libs/shared/src/payments`) | `subscriptions.status`, provider and ids, `invoices`, the gateway's own subscriptions | checkout (card, PIX, per provider), change of plan, webhooks, monthly charge job | HTTP to the gateway inside and outside transactions; webhooks, repeated and out of order |
| Platform admin (`M/admin/tenants.ts`) | the same `subscriptions` row, tenant status | grant trial, grant and revoke access, end trial, suspend, reactivate | writes the row that webhooks and reads of the session also write |
| Access (`M/auth`) | users, invites, stores, session, manager PIN and its cookie | sign-up, login, invite and accept, roles, PIN set/check/unlock, subscription gate | the gate reads (and, at trial expiry, writes) `subscriptions` on every request |
| Catalog and plan limits (`M/catalog`, `libs/shared/src/plan-limits`) | products, stores, users counted against the plan | create, update, delete product; CSV import; create store; invite | count-then-create with no lock, while `changePlan` moves the limit |
| Worker (`services/app/src/worker`, `M/billing/monthly-charge.ts`, `M/stock/expiry-scan.ts`) | repeatable jobs and their attempts in Redis, `notifications` | start, schedule, drain, die; two daily jobs over all active tenants | the queue; one transaction per tenant; billing; the ledger, which it reads |
| Payment providers (`libs/shared/src/payments/providers`) | customers, agreements and bills at Vindi and PagBank | find or make a customer, subscribe, poll for the QR code, cancel | HTTP calls of the checkout, each of which may be lost |
| Edge: `lib/rate-limit.ts`, `lib/http.ts`, `proxy.ts` | counters in Redis or memory | limit by key and window | in front of the PIN, login and sign-up |
| Web interface (`services/app/src/app`) | the fields of a form, the cache of the queries, a cursor | submit, invalidate, poll, page, choose a lot | calls to the route handlers |
| Queries (`M/sales/dashboard.ts`, `M/stock/{alerts,queries}.ts`) | none of their own | ABC curve, stalled products, low stock, lists by cursor | several reads at READ COMMITTED beside the writers |
| Metrics, storage, e-mail, audit | none of their own | export, upload, send, record | read-only or best effort |

What is hard in it:

* **Interleaving.** Stock has no balance row to lock: the balance is the latest
  movement, read and then extended in a separate statement under READ COMMITTED.
  Everything rests on one advisory lock taken first.
* **Order of locks.** Locks last until commit and are taken item by item.
* **Order of rows.** "Latest" is `created_at DESC`, a millisecond, no tie-break.
* **Two books.** A perishable product has both a balance and lots; an exit checks
  only one of the two and must move both.
* **Outside parties.** The gateway calls when it likes, repeats itself, and keeps
  subscriptions that a failed transaction here knows nothing about; jobs are
  retried three times; nothing ties a queue message to a commit.
* **One row, many writers.** A subscription's status is written by webhooks,
  checkout, the plan change, the admin and the reads of the session.
* **Check, then act.** A plan's limit, an invitation, a PIN are read in one
  statement and acted upon in another, with no lock between; what a browser
  holds (a session's role, the cookie of the PIN, a form) outlives what it rests on.
* **Calls in a chain.** A recurring checkout asks the provider many times
  in a row, and each call may be carried out and its answer lost; what was made
  before must be taken back.
* **A process that comes and goes.** Deploys drain or kill the worker with a job
  in hand; the queue hands it on once.
* **Answers out of order.** A page reads lists again while older answers and
  other calls are on their way, and is left or clicked twice meanwhile.

What makes each component correct: the ledger never forks, never goes below
zero, moves whole requests, takes the lot that expires first, and its
transactions end; an import enters stock once; a subscription never grants
access nobody paid for nor blocks one who did, and one period has one invoice;
no agreement bills a tenant behind the system's back; a tenant stays within its
plan; an invitation is used once; the financial area is open to who typed the
PIN; a daily job comes to every tenant and ends; a page writes a form once,
shows what it wrote, and lists every row once.

## 2. Modules

| Module | Models | Source |
|---|---|---|
| `StockLedger` | the stock transactions, statement by statement | `M/stock/{balance,resolve-batches,fefo,entries,exits,transfers}.ts`, `M/sales/sales.ts`, the stock part of `confirmNfeImport` |
| `StockBook` | the abstract promise: a book of balances that posts whole deals; `StockLedger` and `NfeImport` implement it | as above |
| `MCStockLedger` | instances of `StockLedger` for TLC: requests, hash functions, symmetry | |
| `StockLedgerProofs` | theorems about `StockLedger`: its types and the chain of movements, what it adds up to, who waits for whom | |
| `Sums` | lemmas about `SumFunctionOnSet` that all proofs about sums share | |
| `NfeImport` | one import: its row, its items, its job, the operators at work on it | `M/stock/nfe-import.ts`, `api/nfe-imports`, `libs/shared/src/queues`, the worker |
| `MCNfeImport` | an instance of `NfeImport` | |
| `Billing` | one tenant's subscription, its invoices, the gateway and all who write the row | `M/billing/{subscriptions,monthly-charge,webhook}.ts`, `M/admin/tenants.ts`, `M/auth/rbac.ts` |
| `MCBilling` | an instance of `Billing` | |
| `Gateway` | one tenant's recurring checkouts, call by call | `M/billing/subscriptions.ts`, `payments/providers/{vindi,pagbank}.ts` |
| `Accounts` | users, invitations, sessions, the manager's PIN, the counters of attempts | `M/auth`, `M/admin`, `lib/rate-limit.ts` |
| `Catalog` | products, stores and users against the plan, labels, the CSV import | `M/catalog`, `M/auth/{stores,invite}.ts`, `libs/shared/src/plan-limits` |
| `Worker` | the process, its queue and its two daily jobs | `worker/index.ts`, `M/billing/monthly-charge.ts`, `M/stock/expiry-scan.ts`, `libs/shared/src/queues` |
| `Screens` | every form and page: calls, buttons, the queries' cache, polling | `app/**/page.tsx`, `app/providers.tsx` |
| `LotPicker` | the item of a sale or an exit while it is filled in | `vendas/nova`, `estoque/saida`, `M/stock/fefo.ts` |
| `Paging` | lists by cursor, page and query | the four pages with a cursor, `M/stock/queries.ts`, `M/sales/sales.ts`, `M/catalog/products.ts`, `M/admin/tenants.ts` |
| `Reports` | the low-stock list read in several statements, the ABC curve, stalled products | `M/stock/alerts.ts`, `M/sales/dashboard.ts` |
| `MCOffice` | an instance of these eight, side by side | |
| `NfeImportProofs`, `BillingProofs`, `CatalogProofs` | theorems about the module of that name | |
| `OfficeProofs` | theorems about `Gateway`, `Accounts` and `Worker` | |
| `WebProofs` | theorems about `LotPicker`, `Screens`, `Paging` and `Reports` | |
| `MCOfficeProofs` | theorems about `MCOffice`: what is proved of each part holds of them side by side | |

`StockLedger`, `NfeImport` and `Billing` touch at two places. Confirming an import is, for the
ledger, a request of kind `nfe` that posts all its items or none; `NfeImport`
says only which items are posted, and `StockLedger` how. Both are tied to the one
`StockBook`: `RefinesBook` says that a request of the ledger is one deal of the
book, and `NoteIsOneDeal` that a note is one too. The subscription gates
every request by `Blocked`; no model of the stock reads it, because a request
that passed the gate is not looked at again.

The eight modules below share no variable with these nor with one another: what
one of them takes from another is a nondeterministic step here (the news a
checkout's row gets in `Gateway` is what `Billing` writes; the writes `Screens`
counts are the operations of all the others). `MCOffice` checks them side by
side: a behaviour is one of a single part, its `scene`, with the others at rest.

### 2.1 StockLedger and the code

| Model | Code |
|---|---|
| `rows[p]`, a set of `[at, qty, bal]` | the rows of `stock_movements` of a (product, store); `bal` is `balance_after` |
| `CreatedAt`, `Resolution`, `clock` | `created_at`, a `TIMESTAMP(3)`: `Resolution` movements of a pair may fall in one millisecond. 1 means that no two do |
| `lots` | `batches` |
| `owner`, `LockKey` | advisory locks and `hashtext`; the function is a constant, so keys may collide |
| `mine`, `dirty` | what a transaction has written and nobody else sees under READ COMMITTED; `dirty` is also the row lock on a batch |
| `Begin` | the handler calls `withTenant`, a request at a time |
| `Lock` | `lockStockRow`; both ends of a transfer, smaller store id first |
| `Resolve`, `Refuse` | `resolveExitLines` with the reads of `getCurrentStock` or `suggestFefoBatches`; `ConflictError` |
| `Pick`, `Debit` | one line of the exit: `nextBalanceAfter`, then the insert and the decrement of the lot |
| `Receive`, `Credit` | the same on the receiving side: entry, NF-e item, destination of a transfer |
| `Commit`, `Abort` | the end of the callback; any error, timeout or crash |

Simplifications. A write nobody else can see before the commit is merged with
the write next to it (the insert of a movement with the update of its lot); in a
transfer the destination's lot is found at `Credit` and not before the balance
is read, between which the code writes nothing. A lot the caller names is picked
at `Resolve`, as `findUnique` does. `NamesOwnLot = TRUE` in every run: operators
name lots of the pair at hand, which the code does not verify (a listed hazard).
`isPerishable` does not change. Reasons, prices, sale rows, dates and audit rows
decide nothing here and are left out.

### 2.2 NfeImport and the code

`Upload` and `Enqueue` are two steps because the route commits the row before it
adds the job. The worker's steps are `StartJob`, `MatchItems`, `ParseCommit` (or
`ParseFails`, the catch block) and `Ack`; `DbError` and `WorkerDies` end an
attempt. Postgres refuses further statements in a transaction that has failed,
so after a database error the catch block's own update throws and the queue
tries again, three times in all (`Attempts`); BullMQ hands a stalled job on
once. Each operator's operation is a read and a commit: `LinkRead`/`LinkCommit`,
`BulkRead`/`BulkCommit`, `ConfirmRead`/`ConfirmCommit`, with no lock between.
The reads of the import and of its items, two statements, are one step.

A line has one code, the one bulk creation keys it by; matching goes by cEAN and
picks any product that bears it. The same file parses or fails each time it is
read. Quantities, rounding, prices and lots of the note are left out, and so is
the deletion of a product.

### 2.3 Billing and the code

`gateway` is chosen once (`PAYMENT_PROVIDER`). Time is a month, dates are
months, `Never` stands for null and `Forever` for the ten years of a courtesy.

* The checkout is `CheckoutRead`, then `FailOpen` and `CancelOld` when an unpaid
  agreement is replaced, `AskGateway` (PagBank's `ACTIVE` is a first bill that is
  paid: `subscriptions.ts:166-169` takes it for one) or `GatewayRefuses`, and `Persist` or
  `PersistFails`: between the first and the last anyone else may write the row,
  and `op[t].sub` is what it read. `LocalPix` is the write of PagBank's PIX.
* `ChargeRead` .. `ChargeCommit` is `generateChargeForTenant` under its advisory
  lock, run by the scan and by the checkout. `Order` carries the idempotency key.
* Webhooks: `sent` is what the gateway will deliver. An event stays there after
  delivery, so it comes again and in any order; only `Drop` ends it, the 200
  that answers an event nobody knows (Vindi gets an error and tries again).
  A handler is one step: each of its updates is conditional on its own row, and
  a lookup that has matched finds the same tenant whatever happens meanwhile.
* Admin operations and the end of a trial are a read with its guard and, later,
  an update by id.

Two rows of `invoices` with one charge id are one record with `rows = 2`.
Amounts, `changePlan`, suspended tenants, e-mail and payloads are left out.

### 2.4 Gateway and the code

One request at a time goes through `createSubscription`. `checkout.at` is the
call it waits for; each call is answered (`"ok"`), refused without effect, or
carried out with its answer lost (`"lost"`), which is what a timeout of
`request` and `pagbankFetch` leaves open. `Find`, `CreateCustomer`, `CodeTaken`,
`FindAgain` and `UpdateCustomer` are `getOrCreateCustomer`, whose search may
miss a customer; `SubscribeVindi` answers with any bill, `PollBill` is
`waitForPixQrCode`, `AssertInitialCharge` and `Withdraw` are
`assertInitialCharge` with its cancelation, which swallows an error.
`Persist`/`PersistFails` are the last transaction and its catch block.
`RequestDies` is the process of the request. `row`, `open` and `address` are what
the database has; others write it in `StatusChanges` and `SaveAddress`. An
address is saved only between checkouts, as the form saves it before it goes on.
Two histories name what the code gives up: `unsure`, agreements of which a call
was not answered well, and `superseded`, those a later checkout left open.

### 2.5 Accounts and the code

`account`, `tenant` and `pin` are rows; `invites` are the links in people's
mail, each a token with its end; `session[b]` is the token in a browser with the
role of the login, never read again; `unlocked[b]` is the cookie of the PIN,
which `Logout` leaves where it is. `AcceptRead`/`AcceptCommit` are
`loadPendingInvite` and the update by id; `UnlockRead`/`UnlockDone` are the check
of the PIN and the answer that sets the cookie, which may reach a browser that
has changed hands. `counter` is Redis: `Passes`, `RefuseTry`, or `Uncounted` when
Redis does not answer and the attempt goes through. Guards are `requireRole`,
`requireFinancialAccess`, `requirePlatformAdmin`. Only the limit on the PIN is
modelled; that of logins and sign-ups is the same counter under another key.
A token's signature and a password's hash are what they promise.

### 2.6 Catalog and the code

`shelf` is `products` in the order of creation, deleted rows included, since
`@@unique([tenantId, sku])` holds of them. `CreateBegin` reads the plan,
`CreateCount` is `assertWithinPlanLimit`, `CreateCommit` the insert; the same
three steps are a product, a store, an invitation and the bulk creation of an
NF-e (`n = 2`). `ChangePlanRead`/`ChangePlanCommit` are `changePlan`. The CSV
import reads row by row (`CsvRow`) in one transaction that sees the products of
others as they are at each row, writes all (`CsvCommit`) or fails
(`CsvFails`), and is a job: it runs again after `CsvWorkerDies`, before or after
its commit. `LabelsRead`/`LabelsCommit` draw a barcode and write it.

`csv-import.ts:6-8` says that a row's error leaves the other rows alone ("Best-effort
por linha"). That is so of a row whose sku exists, which is skipped. An error of
the database is thrown out of the one `withTenant` around all rows, and the whole
file is rolled back: `CsvFails` does what the code does, and no property is about
the file that fails.

### 2.7 Worker and the code

The two jobs have queues of their own, so a behaviour follows one (`followed`).
`Boot`, `Schedule` (or `ScheduleFails`, which nothing repeats until the next
start), `Shutdown`, `Exit`, `Killed` are the process; `Take`, `TakeAgain`,
`Stalled`, `Finish` the queue; `Scan`, `Charge`, `TenantFails`, `AttemptFails` the
processors. An attempt starts over with every tenant; the charge job goes on
after a tenant's error and the scan does not; a job whose process died is handed
on once (`maxStalledCount`), and that is no attempt. `told` is when a notification
of a type was last written, and `Rested` is `alreadyNotifiedRecently`: 20 of the
24 hours between two scans, here 1 of 2. Two processes never run at once: the
deployment starts one container.

### 2.8 Screens, LotPicker, Paging, Reports

`Screens` gives every page of the application that submits something as a record
of forms (how many calls, which may be the first, whether the button is shut,
whether it pushes a page, what it invalidates) and mounted lists. Two forms may
skip their first call: the PIX when the address is known, the product when no
minimum of a store was changed. A page's record stands for its hooks, queries and
handlers; of a page with its form in line, also for the form, whose button says
when it is shut. The server is a counter of writes, and a
list shows all of them up to the one it was read at. `Invalidate` is
`invalidateQueries` of the version in use: an answer on its way is dropped
unless it is the list's first.

`LotPicker` follows the item of a sale and of an exit, which differ in
`ClearProduct`; each product has two lots at each store, one due before the
other. `Paging` is the query of the server (`take`, `cursor`, `skip: 1`) and the
page's stack of cursors, over rows that others add in any place, move between
the filters and remove. `Reports` reads the low-stock list as the code does:
products, then balances and overrides, then one read per store that has an
override; the ABC curve and the stalled products are operators over the sales
and movements, and `Curves` is every order a sort may leave. A product's class
goes by the share before it, as `dashboard.ts:97-98` says at the line; the header
at `:47-48` ("classe A = até 80% acumulado") still words the older rule, by which a
product above 80 % on its own was a C.

## 3. Runs

| Run | Question | Result |
|---|---|---|
| `StockConcurrency` | do three concurrent transactions, of any kind and with several items, keep the ledger? | pass |
| `StockLockOrder` | with one item per request and colliding keys, do all transactions end? | pass |
| `StockItemOrder` | the same of transfers of several items | `NoWaitCycle` violated |
| `StockTies` | does the balance survive two movements in one millisecond? | `BalanceIsSum` violated |
| `StockMixedLots` | may a product without lots receive one? | `NoOversell` violated |
| `NfeImport` | is each line entered once, in full and under the product shown, with crashes and retries? | pass |
| `NfeDoubleConfirm` | two confirmations at once | `EntersOnce` violated |
| `NfeRedelivery` | a job whose acknowledgement is lost | `StatusOrder` violated |
| `Billing` | one invoice per charge, payments applied once and never lost, no activation unpaid | pass |
| `BillingAccess` | is a tenant kept out until it has paid? | `AccessEarned` violated |
| `BillingFailure` | is a failure applied once? | `FailureAppliedOnce` violated |
| `Office` | do the parts around the stock and the subscription keep what they promise? | pass |

### 3.1 Stock

`StockConcurrency` runs 11 requests (receipts, sales, exits by name and by FEFO,
transfers both ways, repeated products, several items) in three transactions
that may abort anywhere. `LedgerChains`: each row carries the balance of the row
before it plus its quantity. `BalanceIsSum`: the balance is the sum of the
history. `DealsAddUp`: the history is what the requests that ended well asked
for, each of them whole and once. `NoOversell`, `LotsMatchBalance`: neither of
the two books goes below zero, and they agree. `FefoOrder` and `RefusedOnlyWhenShort` are
about steps. `RefinesBook`: the committed balances move as `StockBook` says, one
whole request at a time.

Three transactions are the least in which two conflict while a third changes
what both have read; two products and two stores are the least for a transfer, a
mixed request and an opposite order; four lot ids leave room for both lots at
both stores. Transactions and lot ids are interchangeable (`LotSymmetry`);
symmetry is not used where liveness is checked.

`StockLockOrder` assumes weak fairness of each transaction's own steps: a
session that can proceed is served by Postgres. It leaves faults out, since a
timeout would end any wait; so `EveryTxEnds` says the locks alone suffice.

What the three violations show: items are locked in request order, and two
transfers with the same two products listed in opposite order wait for each
other until Postgres aborts one; two movements of one pair in one millisecond
leave it open which of them `ORDER BY created_at DESC` returns, and a balance is
built on the older; a lot typed for a product without lots is sold once through
the balance and once by name. The last is outside the documented use of
`batchNumber`, which `StockConcurrency` keeps to.

### 3.2 NF-e

Two lines, of which one has a cEAN, three products, one operator who links or
creates in bulk and one who confirms, two operations each, two database errors
and one death of the worker before its commit. `EntersOnce` and
`PostedAsShown` are what ADR-005 asks of a confirmation; `StatusOrder` is
the chain of states of `docs/api/stock.md`. `NoteIsOneDeal` is the same seen from
the stock: all that an import does, from the upload on, implements `StockBook`
with one deal for the whole note. `ParseSettles` (weak fairness of the
worker's own steps: it takes jobs and finishes them) says that an import whose
job is queued does not stay `pending_parse`. It rests on `MaxErrors` being below
`Attempts`: a third error does leave the import `pending_parse`, although the
comment at `nfe-import.ts:208-210` wants it never to.

The bounds leave out what the two other runs show: two operators who confirm
post every line twice (`NfeDoubleConfirm`), and a worker that dies after its
commit has the job run again and takes a confirmed import back to
`pending_review` (`NfeRedelivery`). With two linkers the last commit wins, which
no document rules out.

### 3.3 Billing

One checkout tab, two chargers, one admin, one visitor, two agreements and two
charges over two months, both gateways, with and without a trial; two checkouts
or admin operations start in all. Two charges are enough to tell a renewal from
a first payment, and a replaced agreement from its successor. Nothing is assumed
fair: `PaymentNotLost` says that what would apply a payment is still under way,
and not that it arrives.

`OneInvoicePerCharge` has an exception, which the property states: `revokeAccess`
resets the period's end, the next order goes by a key already used, and the
gateway answers with the old order.

The two violations: a first charge that fails makes the subscription `past_due`,
which `BLOCKED_SUBSCRIPTION_STATUSES` lets in; and a failure delivered a second
time after the payment undoes it, since its guard is the invoice's status and
not the event.

Known and without a property: `grantTrial` and the end of a trial overwrite a
payment that comes between their read and their write (`tenants.ts:66`,
`rbac.ts:43`); `revokeAccess` takes a PIX payer for a courtesy (`tenants.ts:95`);
after one failed charge PIX by PagBank is never charged again
(`monthly-charge.ts:78`).

### 3.4 The parts around them

`Office` runs eight parts, each with bounds of its own. A property that the code
keeps only up to some case names that case, and the case is a step of the model.

| Part | Bounds, and what they are enough for | Properties |
|---|---|---|
| `Gateway` | two checkouts, two calls that go wrong, two changes from outside, two polls, either provider: an agreement, its successor and a failure of both the call and its undoing | `NoStrayAgreement`, `PixHasAddress` |
| `Accounts` | four users (owner, two sellers, one to invite), one browser that changes hands, two requests in flight, four operations, three instants, one attempt per window of two | `InviteSpent`, `UnlockEarned`, `TriesCounted` |
| `Catalog` | two requests at once, two plans, a file of a row with a sku and one with a barcode, three attempts, one death; one product more than the small plan has room for | `WithinPlan`, `LabelsScan`, `RowsOnce` |
| `Worker` | two tenants, two attempts, two stops, two errors, one change, an occurrence and the next | `ChargeReaches`, `ScanReaches`, `JobsEnd` |
| `Screens` | all 23 pages, two submissions (one on pages with two lists), one call or read that goes wrong | `WrittenOnce`, `ShowsOwnWrite`, `PollEnds` |
| `LotPicker` | two products, two stores, two lots each, quantities 1 and 2, one unit sold by others | `LotOfItem` |
| `Paging` | pages of one row, rows at two places with room between and above them, one row added, one moved or removed, three clicks | `EachRowOnce` |
| `Reports` | two products, two stores, two days, two movements or settings while the list is read; prices of 4 and 1 put a product on each side of the 80 % | `ReportsAgree` |

`OfficeTypeOK` joins the eight type invariants. Deadlock is not checked: every
part stops where its bounds end.

What the exceptions say of the code:

* `NoStrayAgreement`: a checkout by card, or one during a trial or over an active
  agreement, never cancels the agreement before it (`subscriptions.ts:127-130`,
  `:243`), which goes on billing; an answer lost to a timeout leaves one that
  nobody knows (`vindi.ts:126`).
* `WithinPlan`: two requests that count at once exceed the plan, and so does the
  CSV import, which does not count.
* `UnlockEarned` holds although the cookie outlives the logout, because it names
  its user. `InviteSpent` leaves two acceptances at once to the later commit.
* `WrittenOnce`: the handlers of `vendas/nova`, `entrada`, `saida` and others push
  a page and open their button in `finally` before it is there: a click in
  between writes twice. Calls bear no key, so a retry after a lost answer does too.
* `ShowsOwnWrite`: a write while a list is read for the first time joins that read.
* `PollEnds`: a list whose first read fails never polls; the invoices stop being
  polled when the subscription is paid, whatever they show (`assinatura/page.tsx:58`).
* `LotOfItem`: both forms keep the lot when the store is changed.
* `EachRowOnce`: `skip: 1` drops the next row when the cursor's has left the
  filter, and two lists keep their cursor when the filter changes. A page that
  the low-stock filter empties hides its own buttons (`produtos/page.tsx:142`).
* `ScanReaches` looks at one occurrence. One that comes late, after a restart,
  writes notifications that keep the next, less than 20 hours later, silent.

What the properties do not catch of the hazards they stand for, in this part and
in those above:

* a lot of another store (`resolve-batches.ts:30`): `LotOfItem` is about the
  product, and the ledger assumes the pair (`NamesOwnLot`);
* two confirmations at once and a job delivered again (`nfe-import.ts:240`, `:166`)
  go wrong in the code: `NfeDoubleConfirm` and `NfeRedelivery` show it, and the
  passing run has one confirmer and no redelivery after the commit;
* two operators who link one item (`nfe-import.ts:37`): one links in every run;
* a status written over a newer one (`subscriptions.ts:169`): `ActiveEarned` sees
  access that is given unpaid, not access that was paid and is taken away;
* count, then create (`products.ts:85`): `WithinPlan` holds of requests one after
  another and of changes of plan, not of two at once;
* two acceptances of one invitation at once (`invite.ts:182`): the later wins;
* a form that pushes a page before it opens its button, and a retry after a lost
  answer (`vendas/nova/page.tsx:106`): both write twice.

Fairness. `WorkFair`: Docker starts the process again and kills one that does not
drain; a process that is up takes what waits and goes on with what it has; a visit
of a tenant comes back, with an answer or an error. Nothing makes a death, an
error or a change happen or not happen. `ScrFair`: of the two lists that are
waited for, a read comes back and the timer of the polling fires; the user need
not stay.

## 4. Proofs

`StockLedgerProofs` proves, for any transactions, products, stores, lot ids and
requests, any number of items in a request, and any hash function:

* `TypeCorrect`: `Spec => []TypeOK`. It needs `SourcesExist`: a line never
  debits a lot that does not exist.
* `LedgerNeverForks`: `Spec => []LedgerChains`, if `Resolution = 1`.
* `NoStaleBalance`: `Spec => []ReadStillFresh`, if `Resolution = 1`: nobody
  commits between the read of a balance and the write that rests on it.

`LedgerChains` is not inductive. A movement written now extends the last row of
its pair only if the balance read a step before was that row's, and it still is
only if no one else has written since. The invariant `LedgerInv` therefore adds:

* `WritesUnderLock`: a transaction between its locks and its last write holds
  the keys of both its pairs, and one with uncommitted rows of a pair holds that
  pair's key. Two transactions never have rows of one pair at once;
* `RowsNumbered`: the rows of a pair lie below its `clock`;
* `RowsChain`, per transaction's view, and `ReadStillFresh`.

Colliding keys do no harm: they lock more. `Resolution = 1` is needed, as
`StockTies` shows. `ConstantsAssumption` is the only other assumption: among
others that lot ids are finitely many and that `NoLabel` is no label. TLC
evaluates it in every run.

The second half of the module proves what the ledger adds up to. The balance, the
lots of a pair and the rest of a request are all sums, `SumFunctionOnSet` of the community
modules, a function that recurs over subsets. The library's induction theorems
take the formula to prove as a parameter, which no backend can instantiate;
`Sums` goes around them by a smallest counterexample: the strict subsets of a
finite set are well founded (`FS_StrictSubsetOrderingWellFounded`), so a set of
subsets for which a fact fails has a smallest member, and it has one element more
than a set for which the fact holds. The same argument gives a finite set of
numbers its least member (`LeastOf`) and a list its order (`OrderExists`).

| Theorem | Property | Hypotheses |
|---|---|---|
| `DealsAreBooked` | `DealsAddUp` | none |
| `BalanceAddsUp` | `BalanceIsSum` | `Resolution = 1` |
| `LotsStayAboveZero` | `LotsNotNegative`, the second half of `NoOversell` | `NamesOwnLot` |
| `LotsWithinBalance` | the lots never hold more than the balance | `NamesOwnLot` |
| `BooksAgree` | `LotsMatchBalance` | `NamesOwnLot`, `LabelsPerishables` |
| `NothingOversold` | `NoOversell` | `Resolution = 1`, `NamesOwnLot`, `LabelsOnlyPerishables` |
| `NoFalseRefusal` | `RefusedOnlyWhenShort` | `Resolution = 1`, `NamesOwnLot`, `LabelsPerishables` |
| `FirstExpiredFirstOut` | `FefoOrder` | `NamesOwnLot` |
| `StockImplementsBook` | `RefinesBook`: `StockBook` with the committed balances | those of `NothingOversold` |
| `ClimbersNeverDeadlock` | `NoWaitCycle` | keys have heights that every request climbs, `Climb(f)` |
| `OneItemNeverDeadlocks` | `NoWaitCycle` | requests of one item; no hash shared between stores |

The hypotheses are what the code leaves to its callers; for three of them a run
shows what goes wrong without. `Resolution = 1`: `StockTies`. `NamesOwnLot`: the
code looks a named lot up by its id alone (`resolve-batches.ts:30`).
`LabelsPerishables` and `LabelsOnlyPerishables`: `createManualEntry` makes a lot
when both a number and an expiry are given, whatever the product
(`entries.ts:31`), while `docs/api/stock.md:21` says that they are for perishable
products; an NF-e makes one only for a perishable product
(`nfe-import.ts`), and only if both are given. `StockMixedLots` is the
counterexample without the second. The instances of
`StockConcurrency` and `StockLockOrder` satisfy all four. `Climb(f)` asks that no
key of a later item be lower than one of an earlier item: it holds for items
ordered by key, colliding keys included, and `StockItemOrder` is the deadlock of two requests
without it.

None of these is inductive. `LotsInv` adds that who writes a lot holds the key of
its pair and that the plan of an exit still fits the lots it was made from;
`AllItemsLeft` and `AllAccounted` that what a transaction has written plus what it
has still to write is what its request asks for, so that a commit moves the book
by the whole request. Neither depends on what the clock, a named lot or a label
is: `AccountInv`, which the refinement shares with `DealsAreBooked`, supposes
nothing. `BalancesCover` adds that the balance an exit has checked covers
its lines to come; `AllInOrder` that every lot that expires before one it took
from is empty in its view. In the refinement every step but `Commit` leaves the
committed balances as they are, and `Commit` is one `Post`.

`DealsAreBooked` adds `DealsInv`: only finitely many requests are done,
and the rows of a pair are the sum over them of what each asked for; a commit adds
its transaction to the one side and its rows, which `AllAccounted` says are the
whole request, to the other, and an abort adds to neither. So a lot of another
pair, two movements in a millisecond or a lot of a product without lots may turn
a balance wrong, but no movement is ever lost, doubled or half made.

The other modules, for any values of their constants under the assumption each
of them states:

* `BillingProofs`, from `BillInv`: `BillTypeCorrect`; `OneInvoice`
  (`OneInvoicePerCharge`), `PaymentsApplyOnce` (`PaidAppliedOnce`),
  `ActiveIsEarned` (`ActiveEarned`) and `PaymentsSurvive` (`PaymentNotLost`).
  None is inductive. `Holds`: a checkout that has still to write owns its
  agreement and bill, no row names either, and what it believes paid is paid; so
  no webhook can write that invoice first. `BillTrue`: no invoice precedes its
  bill, an event tells the truth, Vindi repeats the news of a payment for ever,
  and an order of Pix is paid only after its invoice is written, so an event
  PagBank drops is of no invoice. `KeyPast`: the end of the period lies past the
  key of every order written, unless a courtesy was revoked, and `OneCharger` is
  the lock; hence no second invoice. `RoomToPay`: a row that was not paid since
  it was last written has room for a payment. `ActorsAssumption` (a request of
  one kind is none of another) is needed for the types alone.
* `NfeImportProofs`: `NfeTypeCorrect`, for any operators and redeliveries; and
  from `NfeInv`, under `OneOfEach` (one operator links, one confirms) and
  `~Redelivers`, `StatusNeverBack` (`StatusOrder`) and `ShownIsPosted`
  (`PostedAsShown`); under `OneConfirmer` and `~Redelivers`, with any number of
  linkers, `LinesEnterOnce` (`EntersOnce`) and `NoLineSkipped` (`ConfirmedWhole`:
  a confirmed import has entered every line),
  for which what has been posted of a line is counted along the confirmation.
  `Linking`: what a linker is about to write still waits for
  a product, so no one can be confirming meanwhile; `Confirming`: what is about to
  be posted is what the items show; `Pipeline`: a job that is not done finds the
  import as the upload left it. The assumptions are the cases in which
  `NfeDoubleConfirm` and `NfeRedelivery` find the code to fail, and the second
  linker whose last commit wins. `ImportIsOneDeal` (`NoteIsOneDeal`), under
  `OneConfirmer` and `~Redelivers` and for finitely many lines: every step but
  the end of a confirmation leaves what is posted as it is, and that one is a
  `Post` of the note, a line under each product its item was matched to. It rests
  on the counting of `LinesEnterOnce`: nothing had been posted before, every item
  that is confirmed has a product, and the items are as many as the lines, so
  that the sums over items and over lines agree.
* `OfficeProofs` on `Gateway`, from `GatInvariant`: `GatTypeCorrect`,
  `NoAgreementStrays` (`NoStrayAgreement`)
  and `PixAddressed` (`PixHasAddress`). The first is not inductive: a checkout
  that ends must have held what it leaves. `HoldsLate` says that it holds an
  agreement exactly from the provider's answer on, `OldClosed` that a checkout by
  Pix past its first call has closed the agreement it replaces or doubts it;
  `PixReady` that it only comes to subscribe for a customer with an address.
* `OfficeProofs` on `Accounts`: `AccTypeCorrect`; `InvitesAreSpent` (`InviteSpent`, an action
  property: a settled account is not accepted again in any step);
  `UnlocksAreEarned` (`UnlockEarned`, from the stronger fact that every cookie
  that still holds has a typed PIN of its own browser, user and time);
  `TriesAreCounted` (`TriesCounted`, from `CountersAgree`: while a window is open
  the counter is what has been tried since it was opened, and what was tried
  before it is one limit at most). A limit of zero is excluded.
* `OfficeProofs` on `Worker`: `WorkTypeCorrect` (from `TriesLeft`: an occurrence
  that waits has an attempt left); and from `WorkInvariant` `ChargesReachAll` (`ChargeReaches`) and
  `ScansReachAll` (`ScanReaches`). `AttemptsCostErrors`: each attempt but the one
  under way has cost an error, and one cut off by a death is none.
  `OwedIsAhead`: what is owed would be told now and belongs to a tenant that the
  attempt has not come to, which is why starting over misses nothing: what a
  failed attempt wrote was told.
* `CatalogProofs`: `LabelsKeepScanning` (`LabelsScan`, with `LabelsFit`: what a
  request is about to print is the product's code or its first) and `LimitsHold`
  (`WithinPlan`). `PlanInv` says that until two requests that count overlap or a
  file is imported, at most one of them is under way, the room it read is the
  plan's, what it counted still fits when it writes, and the plan it changes to
  still holds all there is. It uses that every plan has room for the store and
  the user of the sign-up. `RowsEnterOnce` (`RowsOnce`): what the file has left on
  sale, and nobody edited, still bears the codes of its row (`RowsKept`), so that
  a file read again finds it, and of what is read for the first time no two rows
  bear one code (`PendingRows`); a label never gives away a code that a product has,
  which is `LabelsFit` again. `CatTypeCorrect` uses that the queue makes one
  attempt at least.
* `WebProofs` on `LotPicker`, from `LotInvariant`: `LotTypeCorrect`,
  `LotFollowsItem` (`LotOfItem`, with `SuggestionOfItem`: what the query shows is
  of the product and store it was asked for).
* `WebProofs` on `Screens`: `ScrTypeCorrect`, `DraftsWrittenOnce` (`WrittenOnce`),
  `OwnWriteShows` (`ShowsOwnWrite`), for the 23 pages and any number of
  submissions. A call under way keeps its button shut and its draft current; a
  list that a write has to reach is either seen as new as the write, or invalid,
  or being read from a state that has it, at every stage of the call's chain.
* `WebProofs` on `Paging`: `PagTypeCorrect`, `EachRowSeenOnce` (`EachRowOnce`),
  for any size of page. `Walks`: what was walked is in falling order and lies
  behind the cursor; what was there from the first page on, and was not walked,
  lies ahead of it. The order of a page is the only falling sequence of a set of
  rows, stated by `CHOOSE`; `OrderExists` says that there is one.
* `WebProofs` on `Reports`: `RepTypeCorrect`, `DashboardAgrees` (`ReportsAgree`).
  For the list of the products under the minimum, `FoundRight`: each statement
  that was made has found the products that belong there by what it looks at and
  have belonged since the list was begun, and all it found did so when it was
  made. For the curve, the products of a class are the first so many, and their
  worth is what the curve has taken up to there (`SumOfImage`), whichever of two
  equal products comes first. For stalled products, `SalesSeen`: a sale is dated
  on or before the day of its movement. It uses that products, stores and minima
  are finitely many, and that no store is called by the name of a view or a
  statement of the model.

`WebProofs` and `OfficeProofs` hold the theorems of several modules that share no
variable; each theorem is about the specification of its own module.
`MCOfficeProofs` carries them over to the composition. `EachPartPlays`: whichever
part is the scene, a step of `MCOffice` is a step of one part and stutters the
others, so `OfficeSpec` implies the specification of every part but the worker.
That one is followed only in its own scene (`WorkerPlays`); in the others it
rests in a state that is not its first, so `WorkerInvariant` shows that the rest
satisfies `WorkInv` too. Hence `OfficeTypeCorrect` (`OfficeTypeOK`, the eight type
invariants at once), `PartsStaySafe` (the twelve state invariants) and
`PartsStepSafely` (`InviteSpent`, `ChargeReaches`, `ScanReaches`).

Only model-checked: the liveness properties (`EveryTxEnds`, `ParseSettles`,
`JobsEnd`, `PollEnds`), since fairness and `ENABLED` are out of the prover's
reach. Every safety property of a passing run is stated by a theorem.
`ParseSettles` and the others say that
something happens; that it does so in every schedule the fairness allows is shown
for the bounds of the runs.

## 5. Not modelled

The parser of the NF-e and of a CSV file are pure functions; their lines are
given. Row-level security is a policy of the database, and every model is of one
tenant. The proxy repeats at the edge what the handlers check; HTTP helpers
shape requests and answers. Audit, e-mail and storage are written beside the
operations and decide nothing. The landing page, layout, wording and the
validation of fields hold no state another part decides on. Sums by day, best
sellers, turnover and metrics are single reads; turnover by category is not
divided by the stock as that of a product is. Renaming a store or the company,
the data of categories, suppliers and customers, and a change of `isPerishable`
are left out.

## 6. Plan

1. Proofs: a second operator who links, for whom `PostedAsShown` has to say whose
   choice counts; the balances when a lot of another pair is named
   (`NamesOwnLot = FALSE`), which `DealsAddUp` and `BalanceIsSum` cover and the
   lots do not.
2. The operations listed as left out of a component that is modelled partly.
