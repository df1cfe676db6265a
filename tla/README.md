# Formal models of BookShop and Warehouse Management

TLA+ models of the two Django services of this repository, TLC configurations that
check them on small instances, and TLAPS proofs for every instance. Paths are relative
to the repository root.

```
tlc -workers 2 -config MCWarehouseHandlers.cfg MCWarehouse  # one run
tlapm Warehouse_proofs.tla                                  # proofs of one module
```

## 1. The system

| Part | State | Operations | Talks to |
| --- | --- | --- | --- |
| Warehouse: reservations (`django_management/reservations`) | `Reservation` (status, key, deadline) and its items | create, confirm, cancel; `expire_reservations` every minute | inventory rows, in the same transaction |
| Warehouse: inventory (`django_management/inventory`) | `Inventory.quantity`, `reserved_quantity`; `StockMovement` ledger; `StockReturn` | receipts, write-offs, adjustments, customer returns | reservations (a return locks the order's) |
| Warehouse: books (`django_management/books`) | `Book`, `is_active` | sync, create, deactivate | makes the inventory row |
| Warehouse: availability cache | Redis keys per book | filled by reads, dropped after commits | inventory, books |
| BookShop: checkout (`django_bookshop/books/views.py`, `orders/`) | `Order` (status, payment id, reservation id, last seen status) | place an order, reserve, confirm cash, make a Stripe session | Warehouse over HTTP, Stripe |
| BookShop: Stripe webhook | the same `Order` | paid, expired | Warehouse over HTTP, Celery (email) |
| BookShop: Warehouse client (`BookShop/integrations/warehouse.py`) | none | timeouts, bounded retries of POSTs, two error classes | Warehouse |
| BookShop: book sync (`books/signals.py`, `books/tasks.py`) | Celery messages | send each saved or deleted book, retry | Warehouse |
| BookShop: catalogue and its caches (`books/views.py`, `books/signals.py`) | rows, Redis keys | CRUD, cached pages and lists, deletions after commits | book sync |
| BookShop: cart (`books/views.py`) | a dictionary in the Django session | add, remove, clear; read and emptied by a checkout; moved by a login | checkout |
| Staff: the two admin sites, Warehouse's book API, BookShop's order API | forms and PATCH bodies read earlier | save whole rows over what the handlers wrote; delete | the rows of every part above |
| Accounts, health, logging, deployment | – | – | – |

The two services share no database. BookShop calls Warehouse synchronously, from a
gunicorn thread that holds no lock of its own database; Stripe calls BookShop, at least
once per event; Warehouse's own task gives overdue stock back without being asked.

### What is hard here, and what makes each part correct

* **Two transactions on one reservation.** A client, a webhook and several workers may
  settle the same reservation at once, and the task works from a list that grows stale.
  Correct: the first outcome is final, stock is released once, overdue stock is not sold
  and does come back.
* **Row locks.** Creates and returns lock books in order, confirmations and releases do
  not (`reservations/services.py:142,198`). Correct: every transaction ends, and seen
  from the tables each is one step.
* **Repeated requests.** Every POST may be repeated, or served after its client gave up.
  Correct: a repetition is answered with the first result, applied once, and never
  refused because the first try used up the stock.
* **Counters.** `quantity`, `reserved_quantity`, the ledger, reservations and returns say
  the same thing in five ways. Correct: they always agree.
* **Two services, one order.** Any of the three calls of a checkout may be lost before or
  after it took effect, any thread may die between them, Stripe repeats itself. Correct:
  PAID means paid and sold, a decided order stays decided, a forgotten reservation
  lets its stock go.
* **Messages without a version** (book sync). A message copies the book, Warehouse writes
  what it is sent, and messages are retried, lost, rejected and overtaken. Correct: once
  nothing is on its way the register lists what the shop lists, unless one of a few named
  things happened.
* **Cache-aside reads.** A read that misses fills the cache in a step of its own, a commit
  deletes keys in steps of its own, and the two may spell a book's id differently. Correct:
  an old answer needs an overlap, a crash or another spelling, and ends with the timeout.
* **The session cart.** A request reads the whole session when it starts and writes it whole
  when it ends, a checkout after calling Warehouse and Stripe in between. Correct: the cart is
  what the answers said, and no unit is ordered twice, unless one of a few named overlaps
  happened.
* **Staff.** A form or a PATCH writes a row back as it was read, over what handlers, webhooks
  and tasks did meanwhile. Correct: handlers neither add to the mistake nor stop working for
  what it does not touch, and each property says which guarantee a save can cost.

`PROJECT.json` lists these as hazards, each at the line where it bites.

## 2. The modules

| Module | What it is |
| --- | --- |
| `Warehouse.tla` | The Warehouse service; a handler's transaction is one step. The abstract specification of the service. |
| `Warehouse_proofs.tla` | TLAPS proofs about `Warehouse` and, at the end, `WarehouseAdmin`. |
| `WarehouseLocks_proofs.tla`, `Checkout_proofs.tla`, `Cart_proofs.tla`, `BookSync_proofs.tla`, `InventoryCache_proofs.tla`, `CatalogueCache_proofs.tla` | TLAPS proofs about the modules they are named after. |
| `Sums.tla` | Lemmas about sums of functions over finite sets, for the proofs. |
| `WarehouseAdmin.tla` | `Warehouse` together with its admin site. |
| `WarehouseLocks.tla` | The same transactions statement by statement: READ COMMITTED reads, row locks, unique inserts, deadlock victims. Implements `Warehouse`. |
| `Checkout.tla` | BookShop's checkout and webhooks, the network and Stripe, composed with all of `Warehouse`. |
| `Cart.tla` | The session cart of one customer and the checkouts made from it. |
| `BookSync.tla` | BookShop's catalogue, its signals, Celery and HTTP messages, the sync command, and Warehouse's register of books. |
| `InventoryCache.tla` | Warehouse's cached answers about books and stock. |
| `CatalogueCache.tla` | BookShop's layered caches of one book. |
| `MCWarehouse.tla`, `MCWarehouseAdmin.tla`, `MCWarehouseLocks.tla`, `MCCheckout.tla`, `MCCart.tla`, `MCBookSync.tla`, `MCInventoryCache.tla`, `MCCatalogueCache.tla` | Small instances for TLC. |

### Warehouse

A row is an entry of a function: `reservations[o]` is the reservation of order `o`
(`order_id` is unique), `listing[b]` the book row with its inventory, `movements[b]` the
sum posted for `b` under each movement type, `stockReturns[k]` the return that holds key
`k`, `returned[o]` everything the order's returns took back. A request's items are a
function from books to numbers, 0 where the request does not name the book.

`CreateOutcome`, `ConfirmOutcome`, `CancelOutcome` and `ReturnOutcome` translate each
handler's sequence of early returns and exceptions into the answer; the action of the same
name is taken when that answer writes. So a replay or a rejection is a value and no step,
and properties can speak about answers. The deadline is a flag `due` that `TtlElapses`
sets; the task's query, each of its iterations and its death are separate steps.

### WarehouseAdmin

EXTENDS `Warehouse`: every handler is a step as before, and two kinds of forms are added. An
open form is a copy of the columns that it shows (`stockForm`, `reservationForm`); saving it
writes each back as shown or as retyped, with no lock and no movement, and only the table's
`CheckConstraint` (`ValidCounters`) is asked. The branches of the handlers that are dead code
without staff (`InventoryInconsistent`, a release that the counter does not cover) come
alive here. The invariants that relate the counters to the ledger and the reservations
are gone, of course; what is left is that the difference (`Drift`) is the forms' alone, and
that a reservation that is still covered is still released.

### WarehouseLocks

Each client thread and worker runs one transaction, `tx[c]`, whose `pc` is the next
statement: `find` (the unlocked look-up), `row` (locking the reservation), `lock` (locking
books one by one), `check` (reading again under the locks), `insert` (the unique columns),
`commit`. `read` holds the objects in memory; commits write back values computed from
them, as `inventory.save()` does, so a missing lock loses an update in the model too. One
lock stands for a book's `Book` and `Inventory` rows, which every query locks together
(`select_related`). Deadlocks are circles of `WaitsFor`; any member may be the victim.

`AtomicWarehouse` is `Warehouse!Spec` under this refinement: all tables map to themselves
except for one thing the detailed model shows. A confirmation compares the clock with
`expires_at` when it has the reservation's row, and may commit later, after the deadline
and after the task has listed the reservation as overdue. In the abstract module it
happens "in time", so while such a sale is being decided its deadline counts as not
reached (`Selling`), and the history variable `onTime` leaves it out of the task's batch;
the task's iteration over it changes nothing.

### Checkout

`threads[t]` is what a gunicorn thread is doing: which call it waits for, the attempt, and
the answer. `ServeCall` lets Warehouse serve the request (one transaction of `Warehouse`,
imported with INSTANCE); between that and the answer being used the thread may time out
(`Retry`, `GiveUp`) or die, so an answer may be lost; a request that was not served when
its client gave up stays in `late` and may be served at any later time, any number of
times. Warehouse 4xx answers are `rejected`, timeouts and 5xx lead to `GiveUp`. A 429 that
outlasts the retries leaves the state as `GiveUp` does, and is not a case of its own.
`Init` lets the integration switch be on or off; it may be turned on while orders exist,
which is how a webhook comes to reserve for itself.

Staff act in it too. A deleted book nulls `OrderItem.book`, so a later request names fewer
books than the customer ordered (`Requested`); the synchronisation withdraws it at
Warehouse. An edit of an order is a read (`OpenForm`) and a later save of the row
(`SaveForm`): a PATCH writes every column that was read, the admin's form all but the
reservation's two. An order may be deleted (`DeleteOrder`, `bare`): the save that follows
the next answer from Warehouse finds no row and raises (`SaveFails`), and a PATCH that had
read the order brings the row back without its items. `ToldOnce`, `SaleIsAccounted` and
`OrderDecidedOnce` except orders whose status such an act changed; the other properties
make no exception for staff.

Left out: several Stripe sessions for one order (the code makes one, so the mismatch
branch of the webhook is unreachable here), users without an email address, creating orders
through the API, and staff who set a status on purpose rather than with an old form.

### Cart

`rows[k]` is the cart in the session with key `k`, `cookie` the key that the browser sends,
and each of `Requests` a request under way: it loads the session (`Start`), and its answer
saves its copy over whatever the session holds by then (`Save`), or does not
(`LeaveUnmodified`, `Reject`, `Fail`, `Die`), or finds the session deleted (`Interrupt`). A
checkout has a step more, `Place`, where its order is committed; how that order is settled
is `Checkout`. Django's own part is external: a login of a visitor moves the cart to a new
key, a logout deletes the session and drops the cookie, and an answer without a session
drops a cookie that was sent.

`wanted` is the cart that the answers add up to, and `excused` says that some answer saved an
old copy or sent the browser to another session. `CartIsWhatWasAsked` is that there is no
other reason for the cart to differ. `BoughtWasAdded` counts units: what was ordered and not
cancelled, and what any session still offers, was added, unless another request read the cart
between a checkout's order and its answer, that answer never came, or two logins each copied
the cart (`twice`).

### BookSync

`catalogue` and `register` are the two services' `Book` rows. A change passes through
`pending` (committed, its `on_commit` has not run), `queue` or `delayed` (Celery), `workers`
(a process that is calling Warehouse) and `requests` (at Warehouse). A request is served in
up to three steps, because `BookSyncSerializer` looks for the ISBN before the transaction
and `sync_book` has no row to lock when the book is new; one whose client timed out or died
is lost or belongs to `Nobody` (`Orphaned`) and is served at some later time. Requests are a
set: two equal late ones are one. A change's `edition` stands for title, author and every other field but
the ISBN, which is a field of its own because it is unique in both services.

Without versions no property can say "the register is always right", so `excuses[b]`
records what has happened to a book since its last undisturbed change: another copy of it
was on its way (`crossed`), any copy was (`busy`), one was `dropped` or `rejected`, or Warehouse's
`staff` wrote its row (withdrew it, made it by hand, saved a row that they had read). `RegisterIsCurrent` says that nothing else, no retry, repetition,
raced creation or server error, leaves the register behind. `command.alone` and `clean`
do the same for a run of the command.

### InventoryCache and CatalogueCache

A read is `Look`, `Query`, `Fill`; a write `Save`, `Commit`, then one `Invalidate` (or
`Delete`) per Redis call of its callbacks. Answers are not modelled as values: a snapshot is
current or it is old, and if old it carries the ticks since the commit that made it so. This
abstraction needs no bound on time or on the number of writes, and it is exact for the
question asked. `overlapped` and `died` are history: the last commit met a read
that held the old row, or its process died before the last deletion. One assumption about
time is made: no request takes more than `MaxRequest` ticks in all when it reads, or after its
commit when it writes. The code does not enforce it (a `gthread` worker's timeout does not
interrupt a thread); it is what makes the staleness bound finite.

A key of `InventoryCache` is made of a kind and of the book's id as somebody spelt it
(`Keys`). `BookViewSet.retrieve` takes the text of the URL, which `UUIDField` reads in upper
case or without hyphens too; `invalidate_book_state` takes `str(UUID)` (`Canonical`). So no
deletion names a detail page that was asked for in another way (`Respelt`). The stock
snapshots are safe from this by accident: `get_inventory_snapshots` looks its key up by the
row's own id, which under another spelling is a `KeyError` before the cache is filled
(`Fillable`). Which spellings there are does not matter, so `Spellings` is any set with
`Canonical` in it.

In `CatalogueCache` a page fragment is rendered from an object that may come from the cache,
so an old object can be copied into a fragment just before it expires: a page is old for
up to twice as long. The detail page shows no category, so a change of a category
concerns the list alone.

## 3. What TLC checks

All passing runs check deadlock unless said otherwise. Counts are distinct states.

| Run (cfg) | Instance | Checks | States |
| --- | --- | --- | --- |
| `handlers` (`MCWarehouseHandlers`) | 1 book, 2 orders, 1 key, up to 2 units a request, 2 workers, 1 death | typing; reserved is what is pending; ledger; returns within sales; sales and returns; retries answered; first outcome final; overdue stock is released (liveness) | 263 k |
| `forms` (`MCAdminForms`) | 2 books, 2 orders, 1 worker, 1 form, no returns | reserved within stock; only forms misstate; covered reservations are released (liveness) | 259 k |
| `deadlock` (`MCLocksDeadlock`) | 2 books, 1 order, 2 clients, 1 worker, 1 death | typing; copies are current; who can be in a deadlock; every transaction ends (liveness) | 60 k |
| `keys` (`MCLocksRetry`) | 2 books, 2 orders, 1 key, 2 clients | `AtomicWarehouse` where only the unique columns and the row locks protect | 455 k |
| `race` (`MCCheckoutRace`) | 2 orders, 1 unit, 2 threads, 1 attempt | typing; PAID is settled; sales are accounted for | 501 k |
| `retry` (`MCCheckoutRetry`) | 1 order of 2 books, 2 threads, 2 attempts, 1 act of staff | what BookShop remembers is true; the customer is told once; paid is reserved whole; orders are decided once; abandoned stock comes back (liveness) | 330 k |
| `cash` (`MCCheckoutCash`) | 1 order, 1 thread | a sentence of the README that the code does not keep | – |
| `tabs` (`MCCart`, `MCCartTabs`) | 1 book, 2 requests, 2 units, 2 orders, 2 sessions | typing; the cart is what was asked; bought was added | 1.6 M |
| `order` (`MCSyncOrder`) | 1 book, 2 Celery processes, 2 attempts, 1 retry, 2 changes | typing; the register is current; deliveries end (liveness) | 59 k |
| `resync` (`MCSyncRun`) | 2 books, 1 ISBN, 1 process and the command, 3 changes | the register is current; what a run repairs; what a rejection means | 1.4 M |
| `cache` (`MCCacheRace`) | 1 book spelt in 2 ways, 2 reads, 1 writer, timeout 2, requests 1 | typing; when an answer is old and for how long; withdrawn books are not offered | 520 k |
| `pages` (`MCPages`) | 1 language, 1 read, 2 writes, timeout 2, requests 1 | the same for the layered caches | 750 k |

Why these bounds are enough to be interesting: two orders and fewer units than they want
make them compete; two books are needed for locks to cross and for a request to be half
available; two workers with snapshots make the task race with itself; two units and two
receipts let a return come in instalments and one too many exceed the sale; one key for two
orders is a key that is reused; two attempts make a request that is repeated while the
first may still be served (the default is three). One act of staff is a book or an order
deleted, or one edit opened and saved, and the order may be deleted under an open edit. One form
in `forms` is enough for it to be older than everything the handlers do, and numbers
typed are 0 or what the form showed (`MaxTyped` is 0). In `Cart` two requests are two tabs,
two units make "one too many" differ from "all", two orders are a checkout submitted twice,
and two sessions a login that moves the cart. In `BookSync` two processes make messages overtake each other,
one retry is a message that is late, and three changes delete a book, give its ISBN to
another and edit that. In `resync` one request at a time is late, which is what it takes to
overtake; in `order` four may be. For the caches a timeout of two ticks and requests of one separate
"renewed", "expired" and "filled late"; the staleness bounds are reached, so they
cannot be lowered. One spelling besides the canonical one is enough, since entries under
different keys do not touch each other. The writer of `cache` writes again and again, also
after it died; a second one beside it would make 4.0 M states, and the proofs cover it. The
books of `InventoryCache` share nothing but the commit and the query that touch several of
them, so one book shows the races; the proofs cover several.

`MaxReceived`, `MaxAdjusted`, `MaxDeaths`, `MaxStaff`, `MaxForms`,
`MaxAdded`, `MaxOrders`, `MaxSessions`, `MaxLate`, `MaxChanges` and `MaxRuns` bound what would otherwise
grow for ever, and appear only in guards (`MaxTries` and `MaxRetries` are the program's own). The Checkout and BookSync runs do not
check deadlock: once every order is decided, or every change delivered, there is a last
state.
Symmetry is used only in runs without liveness, over sets that the specification treats
alike.

### Disagreements

Shown by a run whose trace TLC prints:

* `cash`, `CancelledSellsNothing`. A cash order is reserved and confirmed in one request.
  If the confirmation is served and every answer is lost, `warehouse_checkout_failure`
  (`django_bookshop/books/views.py:469`) cancels the order, and the sale stays. Trace:
  place, reserve, served, confirm, served, timeout. `SaleIsAccounted` shows that card
  orders do not have this problem, and that this is the only way to it for cash orders.
Met while modelling, and to be known by whoever relies on the documents:

* Reservations last 15 minutes, Stripe sessions longer. A payment in between is answered 409
  by the webhook and the order stays NEW, paid for and without stock. `PaidIsSettled`
  shows that it is at least never marked PAID.
* Deleting a book frees its ISBN in BookShop, but Warehouse keeps the inactive row. A new
  book with that ISBN is answered 400, which the task does not retry, so it never reaches
  the register. `RejectedByStaleRow` says what else can cause a rejection.
* An order edited by PATCH or in the admin site is saved as it was read: PAID can go back to
  NEW, and the next webhook pays it again (`OrderDecidedOnce`, `ToldOnce`). A deleted order
  can come back without items, and then asks Warehouse for nothing, which is rejected.
* A cart emptied by a checkout comes back when another tab, loaded before the checkout was
  answered, saves its copy (`BoughtWasAdded`).
* "Synchronize the complete Bookshop catalog" (`sync_warehouse_books.py:8`) sends the books
  that exist: a deletion that was lost stays lost after any number of runs.
  `RunSynchronisesListed` is what a run does achieve.
* Keys are deleted after each commit (`README.md:189`), but a read that queried before
  the commit may fill the cache afterwards: `FreshUnlessOverlapped`, `BoundedStaleness`.
* "Model signals invalidate affected keys" (`README.md:189`), but not the key of a detail page
  that was asked for under another spelling of the id (`django_management/books/views.py:45`):
  the old page stays until its timeout, with no overlap and no failure. `FreshUnlessOverlapped`
  shows that this is the only key that deletions miss, `BoundedStaleness` how long it lasts.
* The same sentence speaks of cached lists; Warehouse caches none.
* `GET /inventory/<id>/` with an id that is not spelt as `str(UUID)` fails with a
  `KeyError` (`inventory/cache.py:56`) if the book is active.
* "BookShop creates an order and asks Warehouse to reserve its items" (`README.md:36`), but
  `reserve_order` (`orders/warehouse.py:16`) leaves out the items whose book was deleted by then.
  The rest is reserved and confirmed, and the order is PAID in full. The time for it is short
  in a checkout, and long when the reservation is left to the webhook.

Some properties name cases in which they promise nothing, because the code does nothing about
them: a book deleted before it is reserved (`PaidIsReservedWhole`), requests of one session that
overlap (`CartIsWhatWasAsked`, `BoughtWasAdded`), copies that overtake each other or are dropped
(`RegisterIsCurrent`), another spelling of a detail page (`FreshUnlessOverlapped`). Such a
property does not say that the hazard is harmless. It says that nothing else leads to the same harm;
the hazard's note in `PROJECT.json` says so at each.

### Mistakes that the properties notice

Operators named `Fault...` are plausible mistakes in the definition that follows them; no
action uses them. Putting one in its definition's place makes TLC find the property next to
it violated:

| Mistake | Noticed by |
| --- | --- |
| reservation off by one / counting reserved units | `TypeOK` / `ReservedWithinStock` |
| adjustment that posts the new quantity | `LedgerReconciles` |
| cancelling twice, or after a confirmation | `ReservedIsPending`, `FirstOutcomeIsFinal` |
| confirming twice, after a cancellation, after the deadline | `SalesAndReturnsReconcile`, `FirstOutcomeIsFinal` |
| stock checked before the retry, looking a key up by order only | `CreateRetryAnswered` |
| returns that forget or overwrite earlier ones | `ReturnedWithinSold`, `SalesAndReturnsReconcile` |
| a task that lists the reservations that are not due | `OverdueIsReleased`, `AbandonedStockReturns` |
| a table without its constraint, a release that takes what is there, a task that stops at a reservation it cannot release | `ReservedWithinStock`, `OnlyFormsMisstate`, `CoveredIsReleased` |
| reservation row read without its lock, book row taken while locked, insert without uniqueness | `AtomicWarehouse`, `CopiesAreCurrent` |
| locks taken in no order, locks kept after the end, waiting for stock under locks | `OrderedLocksDoNotDeadlock`, `TypeOK`, `TransactionsEnd` |
| one retry too many | `TypeOK` |
| a deletion synced as active, an update that keeps the old ISBN, a book that clashes with itself | `RegisterIsCurrent`, `RejectedByStaleRow` |
| a command that goes on after a rejection, a task that retries for ever | `RunSynchronisesListed`, `SyncEnds` |
| a commit that forgets one kind of key or the list, or deletes fragments before the object | `FreshUnlessOverlapped` |
| snapshots of inactive books or stored under any spelling, entries without a timeout, fragments renewed when read | `WithdrawnIsNotOffered`, `BoundedStaleness` |
| an unavailable Warehouse taken as success, or as a reason to cancel a paid order | `PaidIsSettled`, `OrderDecidedOnce` |
| confirming before payment, committing PAID without reading again, assuming a cancellation | `SaleIsAccounted`, `ToldOnce`, `RemembersTruly` |
| asking Warehouse for one of the books | `PaidIsReservedWhole` |
| adding two, removing one, a checkout that keeps the cart | `TypeOK`, `CartIsWhatWasAsked`, `BoughtWasAdded` |

## 4. Fairness

* `Warehouse`, `Checkout`: weak fairness of the task's start (Celery beat sends
  `expire_reservations` every minute, `core/settings.py:220`) and of its next iteration (a
  worker goes on with what it started; its deaths are bounded). `Checkout` adds that clocks
  advance. No client, customer, thread or webhook is assumed to do anything.
* `WarehouseAdmin`: the same task; no form is ever assumed to be saved.
* `BookSync`: weak fairness of the callbacks, of each process's next message, of a request's
  being served or failing, of a late one's being served, and of the command's next book. Celery delivers what Redis
  holds, retries have a countdown, and the HTTP client has a timeout, so nothing that
  is out stays out. Which outcome a request has is free.
* `InventoryCache` and `CatalogueCache` have no liveness: their bounds on staleness are
  safety properties, since ages are part of the state. `Cart` has none either: nothing in
  it has to happen.
* `WarehouseLocks`: strong fairness of a transaction's next statement, since PostgreSQL
  queues the waiters of a row and a freed lock is granted to them in the end, and weak
  fairness of the victim's abort, since the deadlock detector always runs.

## 5. What is proved

Every theorem is about every value of the constants that satisfies the module's
assumption. The assumptions say that sentinels (`NoKey`, `NoReturn`, `Free`...) are none of
the values they stand beside, that bounds are natural numbers, that the sets which a sum or a
maximum ranges over are finite, and nothing else that the code would have to ensure; TLC
evaluates them on the runs.

All safety properties that the passing runs check are proved, the action properties and the
refinement included. TLC only checks the liveness properties (`OverdueIsReleased`,
`CoveredIsReleased`, `TransactionsEnd`, `AbandonedStockReturns` and `SyncEnds`), since the
provers do not reason about fairness here.

### Sums

Several properties say that a counter is a sum over a set (`SumFunctionOnSet`), whose
definition takes the members out in an unknown order. `SumIsMeasure` shows that any function
that gives 0 for the empty set and grows by `f[x]` when `x` joins, a measure, agrees with the
sum. `MeasureExists` shows that there is one. Induction theorems cannot be used with these
provers, so both argue from a smallest counterexample: a non-empty family of parts of a
finite set has a smallest member (`SmallestSubset`), and if that is a part for which the claim
fails, taking one element away gives a smaller one. From these follow what the proofs cite: a
sum of which one term changes, of which terms that are 0 are left out, that is compared term
by term.

### Warehouse

From `WarehouseAssumption`; that `Orders` is finite is for the sums.

1. `TypeCorrect`: `TypeOK` is inductive. The work is that no counter falls below zero,
   which is what each handler's guard is for.
2. `ReservedUnitsAreOnTheShelf`, `LedgerExplainsStock`: every step is a `StockStep`, which
   changes the counters and posts the matching movement, and so keeps the distance between
   ledger and counters (`LedgerDriftStays`), which is none at first; the guards keep what is
   reserved within the stock.
3. `FirstOutcomeStays`: every step treats each reservation in one of
   the few ways listed by `ReservationStep`.
4. `KeysStayUnique`, `CreateRetryIsAnswered`: a reservation is made only when nothing
   matches the order or the key.
5. `ReservedIsWhatIsPending`: the pending orders are a set that changes, so the proof sums over
   all orders what each holds, nothing if it is not pending; then a step changes one term of
   one sum (`HoldChanges`), by as much as it changes the counter. It follows that the counter
   covers every pending reservation (`PendingIsCovered`), which the next two need.
6. `DefensiveBranchesAreDead`, `PendingUnitsAreKept`: by 2, 5 and the fact that reserved
   books are listed.
7. `ReturnsStayWithinSales`: `returned` changes only for confirmed orders and within the
   limit, and items never change.
8. `SalesAndReturnsAreOrders`: the same way as 5, one sum over the confirmed orders, one over the
   orders' returns, and for each order the keyed returns, a set of keys that grows by one,
   against all its returns.
9. `AdminKeepsReservedOnTheShelf`, `OnlyFormsCanMisstate`: of `WarehouseAdmin`, from
   `AdminAssumption` too. With forms the counters agree with neither the ledger nor the
   reservations. But the lemmas about a step in 2 and 5 are about distances, and need only types
   and the table's constraint, which forms keep (`AdminInv`); so they hold of the handlers here too.

`KeysAreUnique`, `NeverInconsistent` and `OthersKeepTheirUnits` are properties of `Warehouse`
that are proved and that no run repeats.

### WarehouseLocks

From `LocksAssumption`. It describes the requests that the serializers let through, and repeats
the model's bound on adjustments, without which the two modules would bound them differently.

1. `Invariance`. `TypeInv` are the types. For each running transaction, `Formed` relates its
   statement, its request and the books it has and has not locked; `Locked` says which locks it
   owns, no others, and that one which locks in order holds no book after one it still wants;
   `Current` says that what it read is still so, the copies and what its guards rest
   on (the reservation's status, what may still be returned); `Unique` that an insert to be
   committed conflicts with no row and no other insert. Beside them a lock's owner runs
   (`OwnersRun`), reserved books have an inventory, and what a worker's batch holds is overdue.
   `Unique` is needed because the look-up and the insert are apart, `Current` because the copies
   are written back. Most statements write no table and touch one transaction, so the
   rest of the invariant is carried by frame lemmas (`SilentKeeps`). A commit is first shown to
   have the effect of the action of `Warehouse` (`CreateIs`, `ReleaseIs`, `SaleIs`...), and since it
   writes under its locks no other transaction's copies get old (`EndAlone`, `OthersStaySound`).
2. `TypeCorrect`, `CopiesStayCurrent`: from the invariant.
3. `DeadlocksNeedUnorderedLocks`: suppose a circle of requests that lock in order and of requests
   about one book. None of them waits to insert, for that would be for a transaction that is
   about to commit and waits for nothing. One that waits for a reservation's row waits for a return,
   which holds the row and so waits for a book itself. So some wait for a book. Take the greatest
   book waited for: its owner waits for a greater one (`WaitsForLater`).
4. `TransactionsAreAtomic`: the refinement. Through the mapping (`Seen`) every step is a stutter
   (`Unseen`) or a step of `Warehouse`; `StepSeen` and `NextSeen` put the cases together. A
   commit is seen as the action that 1 says it is, a sale as one of a reservation that is not yet
   due. When the time of such a sale runs out while it is being decided, nothing is seen, and
   `TtlElapses` is seen later if the confirmation is refused or aborted instead. A worker's
   iteration that ends having written nothing is seen as an `ExpireNext` that skips, its death in a
   deadlock as `ExpiryDies`. Where `onTime` leaves a reservation out of a batch, a skip is not
   seen, and a release (the sale was refused or aborted after all) is seen as a confirmation that
   came too late. Because `Warehouse` has its theorems, its safety properties hold of the interleaved
   transactions as well.

### Checkout

From `CheckoutAssumption`. `Invariance`: `TypeInv`, then layers each of which rests on those
before.

* `Path`: which steps each kind of request takes.
* `Decisions`: an order that was not placed has left no trace; a form is no younger than the
  decision it holds; an order whose session is unpaid is PAID nowhere and nobody is making it
  so; a checkout at work has its order and session to itself. `DecidedForGood` needs these.
* `Memory`: what rows, forms and answers say of a reservation is or was so, and a final status
  is the status: `RemembersTheTruth`.
* `Off`, `Sold`: nothing is asked of Warehouse while the integration is off, and PAID is written
  only after the sale or on an order without a reservation. `PaidSettled` adds the payment from
  `Decisions`.
* `Whole`: what is reserved, and every request that may still be served, late ones included,
  asks for the whole cart as far as its books still exist: `ReservedWhole`.
* `Account`: a sale is made, and may still be asked for, only after a payment or for cash; a
  cancelled order cannot be paid any more; a cash order is at work in one thread, which asks for
  the sale last: `SaleAccounted`.
* `Told`: an order that is paid has had one mail, or one thread is about to send it, or it
  was lost: `ToldExactlyOnce`.

What a step does at Warehouse is one of four moves of one reservation (`Moves`), so the
layers above need not look at its handlers again.

### Cart

From `CartAssumption` (books and requests are finite). `Invariance`: a copy that is not stale
equals its session's cart (`Loaded`), sessions not made are empty, and while nothing excuses
the cart, copies that are not old are the browser's session's (`OneSession`); with that
`CartIsWhatWasAsked` is inductive. `NothingBoughtTwice` needs an account for each
book: how many units may still come out of each session (`claim`), bounded below by what its
cart, the copies that may be saved into it and the order that waits for its answer
hold. What was bought, together with these claims, is at most what was added, together with the
orders that wait (`Claimed`). The invariant says that there is such an account; each step shows
how it moves.

### BookSync

From `BookSyncAssumption`. `Inv`: a waiting client has one request out (`OneOut`); ISBNs are
unique among listed books; only saved books are on the way; `Settles`, while nothing but
`busy` excuses a book, all its copies are the shop's and a task, which forgets nothing,
still carries one or the register agrees; `Alone` and `RunIsClean` say the same of a run of the
command. Steps are grouped by what they do to messages and register (`Step`: copies flow,
one arrives, the catalogue changes, staff write, a run starts). `RegisterCurrent`,
`RunSynchronises` and `RejectedStale` follow.

### InventoryCache and CatalogueCache

`InventoryCache_proofs.tla`, for any books, spellings, readers, writers, timeout and longest
request, from `InventoryCacheAssumption` (the timeout is positive, `str(UUID)` is a spelling):

1. `Invariant`: the four invariants of run `cache` are inductive together with three more.
   `AgesBounded` says that an entry's age and the time it has left never exceed
   `Ttl + MaxRequest` together, and that a row in a reader's hands is no older than the
   reader; types are not inductive without it. `HeldRowsAreCurrent` says what a
   reader holds when no commit has overlapped it; a fill puts that into the cache.
   `SnapshotsAreCanonical` says that no stock snapshot is ever cached, or about to be,
   under another spelling; without it a deletion could miss one.
2. `TypeCorrect`, `StalenessIsBounded`: from `AgesBounded`.
3. `OldAnswersAreExplained`, `WithdrawnStaysUnoffered`: `EntryStep` shows of each step that
   an entry whose book has no excuse afterwards, and whose key is not that of a detail page
   under another spelling, was filled with a current row, or
   was there before the step, when the book had no excuse either. Several books in
   one commit or query, which run `cache` does not have, are covered here.

`CatalogueCache_proofs.tla`, for any languages, readers, writers, timeout and longest request,
from `CatalogueCacheAssumption` (the timeout is positive, languages are not names of keys):

1. `Invariant`: four invariants are inductive together. `AgesBounded` is the arithmetic: the
   age and the time left of the object and the list add up to about one `Span` (a timeout
   and a request), those of a fragment to two, since what a reader is about to render from
   may be an object as old as that. `DeletionsInOrder` says that what a writer has still to
   delete is always an end of the whole sequence, so that a writer that will delete the
   object will delete every fragment after it; `OldIsExplained` needs this, because a reader
   that holds an old object passes its reason on to a fragment.
2. `TypeCorrect`, `LayersStalenessIsBounded`: from `AgesBounded`.
3. `OldLayersAreExplained`: from `OldIsExplained`, which extends `FreshUnlessOverlapped` to
   what readers hold.

## 6. Abstractions

Books are an id and their listing; titles, isbn and prices play no part. Sums replace
ledger rows, one entry per type, because properties are about sums; a return without a
key is only counted. Reservation ids are the orders they belong to. Time is the flag
`due`. The order in which the task lists ids is free. Payload validation is the set
`Payloads`: at least one book, positive quantities, none twice. Unlocked reads that only
answer GET requests change nothing and are left out. The proofs and the runs of `Warehouse` and
`Checkout` are about the API and the task; what Warehouse's admin site does to them is
`WarehouseAdmin`, alone.

`BookSync`: the order in which Celery hands out messages to its processes is the
queue's (prefetching is a process that holds a message longer); ids are not reused. Staff
write a register row in one step: since they may write any row, a form opened earlier
is one of the choices. `CatalogueCache`: the footer and welcome fragments show no
data and never change. Redis loses nothing before its timeout; losing an entry early
would only cause a read that misses.

`Cart`: the session is the cart; other session values play no part. Session keys are not
reused and are bounded by `MaxSessions`. Each of the browser's cookies is the last one that
an answer set, in any order of the answers.

## 7. Plan

Order of work, most important first; 1 to 8 are done.

1. `Warehouse` with run `handlers`, and its proofs.
2. `WarehouseLocks`, implementing 1; runs `deadlock`, `keys`.
3. `Checkout`, composing BookShop and Stripe with 1; runs `race`, `retry`, `cash`.
4. `BookSync`; runs `order`, `resync`.
5. `InventoryCache` and `CatalogueCache`, and their proofs; runs `cache`, `pages`.
6. `Cart`; run `tabs`.
7. Staff: `WarehouseAdmin` with run `forms`, and their part in `Checkout` and `BookSync`.
8. Proofs of the safety properties of 2, 3, 4, 6 and 7.
9. Left: that what `Checkout` does at Warehouse are steps of `Warehouse` (a refinement that maps
   every table to itself), which would carry the theorems of 1 over to the composition; and which
   refusals of `WarehouseLocks` are dead code, by 1 and the refinement.

## 8. Not modelled

Both services are Python. The only JavaScript in the repository is Bootstrap and the files that
Django's admin ships (`django_bookshop/static/`, vendored and unchanged); nothing of this
system is decided there, so no definition maps to it.

* Accounts, JWT and the service key: no state shared with the rest. What a login and a
  logout do to the session is in `Cart`.
* Pages and APIs that create, edit and list books, authors, publishers and categories:
  Django's generic views. What follows from a saved or deleted book is in `BookSync`,
  `CatalogueCache`, `Cart` and `Checkout`.
* Warehouse's other admin forms: adding and deleting rows, editing movements and returns,
  moving an inventory to another book. They break the ledger at will, and no code is
  meant to cope with it.
* Giving a book another `external_id` through Warehouse's API; creating orders through
  BookShop's API, which neither reserves nor asks for payment.
* The tasks that send mail, write the daily report and clear sessions: one call each.
* Health checks, request ids, logging; settings, containers, NGINX; migrations, templates and
  translations; the course exercises beside the services.
