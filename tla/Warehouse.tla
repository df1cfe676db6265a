------------------------------ MODULE Warehouse ------------------------------
(***************************************************************************)
(* The Warehouse service (django_management): the stock of each book, the  *)
(* reservations BookShop makes against it, customer returns, and the       *)
(* periodic task that expires overdue reservations.                        *)
(*                                                                         *)
(* Every HTTP handler and every iteration of the task runs in one database *)
(* transaction that locks the rows it reads, so here a transaction is one  *)
(* step.  A request that changes nothing (a replay, a rejection) is the    *)
(* value of an "outcome" operator, a function of the state; the action is  *)
(* taken only when the outcome writes.  WarehouseLocks.tla opens the       *)
(* transactions up and shows that they are atomic.                         *)
(*                                                                         *)
(* An operator whose name starts with Fault is a plausible mistake in the  *)
(* definition that follows it.  No action uses one; they show that the     *)
(* properties notice the mistake (README.md lists which).                  *)
(*                                                                         *)
(* A request's items are a function from every book to a number of units,  *)
(* 0 for the books it does not name.                                       *)
(***************************************************************************)
EXTENDS Integers, FiniteSets, Functions

CONSTANTS
    Books,        \* external book ids
    Orders,       \* order ids of BookShop; a reservation is named by its order
    Keys,         \* Idempotency-Key header values
    NoKey,        \* no Idempotency-Key header
    NoReturn,     \* no StockReturn row holds the key
    Reasons,      \* reasons of a customer return
    Workers,      \* Celery workers that may run expire_reservations
    MaxItem,      \* bound: units of one book in one request
    MaxReceived,  \* bound: units of one book ever received
    MaxAdjusted,  \* bound: how far adjustments may move one book, either way
    MaxDeaths     \* bound: runs of the expiry task that die half-way

ASSUME WarehouseAssumption ==
    /\ IsFiniteSet(Orders)
    /\ NoKey \notin Keys
    /\ NoReturn \notin [order : Orders, items : [Books -> 0..MaxItem],
                        reason : Reasons]
    /\ MaxItem \in Nat /\ MaxReceived \in Nat
    /\ MaxAdjusted \in Nat /\ MaxDeaths \in Nat

VARIABLES
    listing,       \* the Book row and its Inventory: absent, active, inactive
    quantity,      \* Inventory.quantity
    reserved,      \* Inventory.reserved_quantity
    movements,     \* StockMovement: per book, the sum posted under each type
    reservations,  \* Reservation and its items, by order_id (unique)
    created,       \* reservations made so far, the next created_at
    stockReturns,  \* StockReturn rows that carry an idempotency key
    returned,      \* units returned so far, by order and book (all returns)
    batches,       \* the ids each worker's expiry task has still to visit
    deaths         \* runs of the expiry task that died

stock == <<quantity, reserved, movements>>
returns == <<stockReturns, returned>>
task == <<batches, deaths>>
vars == <<listing, stock, reservations, created, returns, task>>

-----------------------------------------------------------------------------
Statuses == {"NONE", "PENDING", "CONFIRMED", "CANCELLED", "EXPIRED"}
MovementTypes == {"receipt", "reservation", "reservation_release", "sale",
                  "return", "write_off", "adjustment"}
Listings == {"absent", "active", "inactive"}

ItemMaps == [Books -> 0..MaxItem]
NoItems == [b \in Books |-> 0]
\* What the request serializers let through: at least one book, each once,
\* each with a positive quantity.
Payloads == {p \in ItemMaps : \E b \in Books : p[b] > 0}

Reservation == [status : Statuses, items : ItemMaps, key : Keys \cup {NoKey},
                due : BOOLEAN,       \* expires_at <= now
                serial : Nat]        \* created_at
NoReservation == [status |-> "NONE", items |-> NoItems, key |-> NoKey,
                  due |-> FALSE, serial |-> 0]

StockReturn == [order : Orders, items : ItemMaps, reason : Reasons]

Exists(o) == reservations[o].status # "NONE"
Items(o) == reservations[o].items
Available(b) == quantity[b] - reserved[b]

\* The ledger after posting delta[b] under type for every book b.
Posted(type, delta) ==
    [b \in Books |-> [movements[b] EXCEPT ![type] = @ + delta[b]]]
\* n units of book b alone.
Only(b, n) == [NoItems EXCEPT ![b] = n]

Init ==
    /\ listing = [b \in Books |-> "absent"]
    /\ quantity = [b \in Books |-> 0]
    /\ reserved = [b \in Books |-> 0]
    /\ movements = [b \in Books |-> [t \in MovementTypes |-> 0]]
    /\ reservations = [o \in Orders |-> NoReservation]
    /\ created = 0
    /\ stockReturns = [k \in Keys |-> NoReturn]
    /\ returned = [o \in Orders |-> NoItems]
    /\ batches = [w \in Workers |-> {}]
    /\ deaths = 0

-----------------------------------------------------------------------------
(* Books: BookViewSet.perform_create, perform_destroy and the sync endpoint *)

\* sync_book locks the book, creates or updates it, and makes sure that it
\* has an inventory row (of quantity 0 when it is new).
SyncBook(b, active) ==
    /\ listing' = [listing EXCEPT ![b] = IF active THEN "active" ELSE "inactive"]
    /\ UNCHANGED <<stock, reservations, created, returns, task>>

-----------------------------------------------------------------------------
(* Stock: receipts, write-offs and adjustments of InventoryViewSet          *)

\* These three reject a book without an inventory (404), active or not.
Receive(b, n) ==
    /\ listing[b] # "absent"
    /\ movements[b]["receipt"] + n <= MaxReceived
    /\ quantity' = [quantity EXCEPT ![b] = @ + n]
    /\ movements' = Posted("receipt", Only(b, n))
    /\ UNCHANGED <<listing, reserved, reservations, created, returns, task>>

FaultFulfillOffByOne(b, n) == Available(b) >= n - 1
FaultFulfillCountsReserved(b, n) == quantity[b] >= n
CanFulfill(b, n) == Available(b) >= n

WriteOff(b, n) ==
    /\ listing[b] # "absent"
    /\ CanFulfill(b, n)
    /\ quantity' = [quantity EXCEPT ![b] = @ - n]
    /\ movements' = Posted("write_off", Only(b, -n))
    /\ UNCHANGED <<listing, reserved, reservations, created, returns, task>>

CanAdjust(b, n) == n >= reserved[b] /\ n # quantity[b]

FaultAdjustPostsQuantity(b, n) ==
    /\ listing[b] # "absent"
    /\ CanAdjust(b, n)
    /\ movements[b]["adjustment"] + n \in -MaxAdjusted..MaxAdjusted
    /\ quantity' = [quantity EXCEPT ![b] = n]
    /\ movements' = Posted("adjustment", Only(b, n))
    /\ UNCHANGED <<listing, reserved, reservations, created, returns, task>>

\* The movement holds the difference, not the new quantity.
Adjust(b, n) ==
    LET difference == n - quantity[b] IN
    /\ listing[b] # "absent"
    /\ CanAdjust(b, n)
    /\ movements[b]["adjustment"] + difference \in -MaxAdjusted..MaxAdjusted
    /\ quantity' = [quantity EXCEPT ![b] = n]
    /\ movements' = Posted("adjustment", Only(b, difference))
    /\ UNCHANGED <<listing, reserved, reservations, created, returns, task>>

-----------------------------------------------------------------------------
(* Reservations                                                             *)

FaultMatchByOrderOnly(o, k) == {r \in Orders : Exists(r) /\ r = o}

\* _find_existing_reservation: the order's own reservation, or the one that
\* holds the key; the newest when these differ (Meta.ordering, first()).
Matches(o, k) ==
    {r \in Orders : /\ Exists(r)
                    /\ r = o \/ (k # NoKey /\ reservations[r].key = k)}
Found(o, k) ==
    {r \in Matches(o, k) : \A s \in Matches(o, k) :
                              reservations[s].serial <= reservations[r].serial}

\* Every book is known, active and has that many unreserved units.
Sufficient(p) ==
    \A b \in Books : p[b] > 0 => listing[b] = "active" /\ CanFulfill(b, p[b])

FaultStockBeforeRetry(o, p, k) ==
    IF ~Sufficient(p) THEN "insufficient_stock"
    ELSE IF Matches(o, k) = {} THEN "created"
    ELSE IF \A r \in Found(o, k) : r = o /\ Items(r) = p
           THEN "existing" ELSE "idempotency_conflict"

CreateOutcome(o, p, k) ==
    IF Matches(o, k) # {}
      THEN IF \A r \in Found(o, k) : r = o /\ Items(r) = p
             THEN "existing" ELSE "idempotency_conflict"
      ELSE IF Sufficient(p) THEN "created" ELSE "insufficient_stock"

CreateReservation(o, p, k) ==
    /\ CreateOutcome(o, p, k) = "created"
    /\ reserved' = [b \in Books |-> reserved[b] + p[b]]
    /\ movements' = Posted("reservation", [b \in Books |-> -p[b]])
    /\ reservations' =
         [reservations EXCEPT ![o] =
            [status |-> "PENDING", items |-> p, key |-> k, due |-> FALSE,
             serial |-> created]]
    /\ created' = created + 1
    /\ UNCHANGED <<listing, quantity, returns, task>>

\* RESERVATION_TTL_MINUTES go by: expires_at <= now from here on.
TtlElapses(o) ==
    /\ reservations[o].status = "PENDING" /\ ~reservations[o].due
    /\ reservations' = [reservations EXCEPT ![o].due = TRUE]
    /\ UNCHANGED <<listing, stock, created, returns, task>>

\* The guards of _release_locked_reservation and of confirm_reservation, which
\* raise ReservationStateConflict when the counters cannot cover the items.
Releasable(o) == \A b \in Books : Items(o)[b] <= reserved[b]
Sellable(o) == Releasable(o) /\ \A b \in Books : Items(o)[b] <= quantity[b]

FaultConfirmIgnoresTtl(o) ==
    CASE reservations[o].status = "CONFIRMED" -> "unchanged"
      [] reservations[o].status = "PENDING" ->
           IF Sellable(o) THEN "sold" ELSE "inconsistent"
      [] OTHER -> "state_conflict"
FaultConfirmAfterCancel(o) ==
    IF reservations[o].status = "CONFIRMED" THEN "unchanged"
    ELSE IF ~Exists(o) THEN "not_found"
    ELSE IF Sellable(o) THEN "sold" ELSE "inconsistent"
FaultConfirmTwice(o) ==
    IF reservations[o].status \in {"PENDING", "CONFIRMED"} /\ Sellable(o)
      THEN "sold" ELSE "state_conflict"

ConfirmOutcome(o) ==
    CASE reservations[o].status = "CONFIRMED" -> "unchanged"
      [] reservations[o].status \in {"CANCELLED", "EXPIRED"} -> "state_conflict"
      [] reservations[o].status = "PENDING" /\ reservations[o].due ->
           IF Releasable(o) THEN "expired" ELSE "inconsistent"
      [] reservations[o].status = "PENDING" /\ ~reservations[o].due ->
           IF Sellable(o) THEN "sold" ELSE "inconsistent"
      [] OTHER -> "not_found"

FaultCancelTwice(o) ==
    CASE reservations[o].status = "CONFIRMED" -> "state_conflict"
      [] reservations[o].status \in {"PENDING", "CANCELLED", "EXPIRED"} ->
           IF Releasable(o) THEN "released" ELSE "inconsistent"
      [] OTHER -> "not_found"
FaultCancelAfterConfirm(o) ==
    CASE reservations[o].status \in {"CANCELLED", "EXPIRED"} -> "unchanged"
      [] reservations[o].status \in {"PENDING", "CONFIRMED"} ->
           IF Releasable(o) THEN "released" ELSE "inconsistent"
      [] OTHER -> "not_found"

CancelOutcome(o) ==
    CASE reservations[o].status = "CONFIRMED" -> "state_conflict"
      [] reservations[o].status \in {"CANCELLED", "EXPIRED"} -> "unchanged"
      [] reservations[o].status = "PENDING" ->
           IF Releasable(o) THEN "released" ELSE "inconsistent"
      [] OTHER -> "not_found"

\* _release_locked_reservation
Release(o, status) ==
    /\ reserved' = [b \in Books |-> reserved[b] - Items(o)[b]]
    /\ movements' = Posted("reservation_release", Items(o))
    /\ reservations' = [reservations EXCEPT ![o].status = status]
    /\ UNCHANGED quantity

Sell(o) ==
    /\ quantity' = [b \in Books |-> quantity[b] - Items(o)[b]]
    /\ reserved' = [b \in Books |-> reserved[b] - Items(o)[b]]
    /\ movements' = Posted("sale", [b \in Books |-> -Items(o)[b]])
    /\ reservations' = [reservations EXCEPT ![o].status = "CONFIRMED"]

\* A confirmation that comes after the TTL gives the stock back and commits
\* that, although the client is told 409.
ConfirmReservation(o) ==
    /\ \/ ConfirmOutcome(o) = "sold" /\ Sell(o)
       \/ ConfirmOutcome(o) = "expired" /\ Release(o, "EXPIRED")
    /\ UNCHANGED <<listing, created, returns, task>>

FaultCancelClamps(o) ==
    /\ reservations[o].status = "PENDING"
    /\ reserved' = [b \in Books |-> IF Items(o)[b] <= reserved[b]
                                     THEN reserved[b] - Items(o)[b] ELSE 0]
    /\ movements' = Posted("reservation_release", Items(o))
    /\ reservations' = [reservations EXCEPT ![o].status = "CANCELLED"]
    /\ UNCHANGED <<listing, quantity, created, returns, task>>

CancelReservation(o) ==
    /\ CancelOutcome(o) = "released"
    /\ Release(o, "CANCELLED")
    /\ UNCHANGED <<listing, created, returns, task>>

-----------------------------------------------------------------------------
(* The expiry task: a query for the overdue ids, then one transaction each  *)

Overdue == {o \in Orders : reservations[o].status = "PENDING" /\ reservations[o].due}

FaultExpireYoung(w) ==
    LET young == {o \in Orders : reservations[o].status = "PENDING"
                                   /\ ~reservations[o].due} IN
    /\ batches[w] = {} /\ young # {}
    /\ batches' = [batches EXCEPT ![w] = young]
    /\ UNCHANGED <<listing, stock, reservations, created, returns, deaths>>

StartExpiry(w) ==
    /\ batches[w] = {} /\ Overdue # {}
    /\ batches' = [batches EXCEPT ![w] = Overdue]
    /\ UNCHANGED <<listing, stock, reservations, created, returns, deaths>>

FaultStopsAtInconsistent(w, o) ==
    /\ o \in batches[w]
    /\ batches' = [batches EXCEPT ![w] = IF CancelOutcome(o) = "inconsistent"
                                           THEN {} ELSE batches[w] \ {o}]
    /\ IF CancelOutcome(o) = "released"
         THEN Release(o, "EXPIRED")
         ELSE UNCHANGED <<stock, reservations>>
    /\ UNCHANGED <<listing, created, returns, deaths>>

\* cancel_reservation(expired=True); a reservation that was confirmed or is
\* inconsistent is skipped, one that was released meanwhile is left alone.
\* The order in which the query lists the ids is abstracted away.
ExpireNext(w, o) ==
    /\ o \in batches[w]
    /\ batches' = [batches EXCEPT ![w] = @ \ {o}]
    /\ IF CancelOutcome(o) = "released"
         THEN Release(o, "EXPIRED")
         ELSE UNCHANGED <<stock, reservations>>
    /\ UNCHANGED <<listing, created, returns, deaths>>

\* The run dies: an error other than the two that are caught, or the worker.
ExpiryDies(w) ==
    /\ batches[w] # {} /\ deaths < MaxDeaths
    /\ batches' = [batches EXCEPT ![w] = {}]
    /\ deaths' = deaths + 1
    /\ UNCHANGED <<listing, stock, reservations, created, returns>>

-----------------------------------------------------------------------------
(* Customer returns                                                         *)

FaultReturnForgetsEarlier(o, p) == \A b \in Books : p[b] <= Items(o)[b]

\* _validate_return_quantities: sold, less what earlier returns took back.
Returnable(o, p) == \A b \in Books : p[b] <= Items(o)[b] - returned[o][b]

ReturnOutcome(o, p, reason, k) ==
    IF k # NoKey /\ stockReturns[k] # NoReturn
      THEN IF stockReturns[k] = [order |-> o, items |-> p, reason |-> reason]
             THEN "existing" ELSE "idempotency_conflict"
      ELSE CASE reservations[o].status # "CONFIRMED" -> "not_fulfilled"
             [] reservations[o].status = "CONFIRMED" /\ ~Returnable(o, p) ->
                  "invalid_quantity"
             [] reservations[o].status = "CONFIRMED" /\ Returnable(o, p) ->
                  IF \E b \in Books : p[b] > 0 /\ listing[b] = "absent"
                    THEN "inventory_not_found" ELSE "created"

FaultReturnOverwrites(o, p, reason, k) ==
    /\ ReturnOutcome(o, p, reason, k) = "created"
    /\ quantity' = [b \in Books |-> quantity[b] + p[b]]
    /\ movements' = Posted("return", p)
    /\ returned' = [returned EXCEPT ![o] = p]
    /\ stockReturns' =
         IF k = NoKey THEN stockReturns
         ELSE [stockReturns EXCEPT ![k] =
                 [order |-> o, items |-> p, reason |-> reason]]
    /\ UNCHANGED <<listing, reserved, reservations, created, task>>

CreateStockReturn(o, p, reason, k) ==
    /\ ReturnOutcome(o, p, reason, k) = "created"
    /\ quantity' = [b \in Books |-> quantity[b] + p[b]]
    /\ movements' = Posted("return", p)
    /\ returned' = [returned EXCEPT ![o] = [b \in Books |-> @[b] + p[b]]]
    /\ stockReturns' =
         IF k = NoKey THEN stockReturns
         ELSE [stockReturns EXCEPT ![k] =
                 [order |-> o, items |-> p, reason |-> reason]]
    /\ UNCHANGED <<listing, reserved, reservations, created, task>>

-----------------------------------------------------------------------------
Next ==
    \/ \E b \in Books : \E active \in BOOLEAN : SyncBook(b, active)
    \/ \E b \in Books, n \in 1..MaxItem : Receive(b, n)
    \/ \E b \in Books, n \in 1..MaxItem : WriteOff(b, n)
    \/ \E b \in Books, n \in 0..(MaxReceived + MaxAdjusted) : Adjust(b, n)
    \/ \E o \in Orders, p \in Payloads, k \in Keys \cup {NoKey} :
          CreateReservation(o, p, k)
    \/ \E o \in Orders : TtlElapses(o)
    \/ \E o \in Orders : ConfirmReservation(o)
    \/ \E o \in Orders : CancelReservation(o)
    \/ \E w \in Workers : StartExpiry(w)
    \/ \E w \in Workers, o \in Orders : ExpireNext(w, o)
    \/ \E w \in Workers : ExpiryDies(w)
    \/ \E o \in Orders, p \in Payloads, reason \in Reasons, k \in Keys \cup {NoKey} :
          CreateStockReturn(o, p, reason, k)

Spec == Init /\ [][Next]_vars

\* Celery beat sends the task every minute and a worker goes on with a task
\* that it has started.  No client is assumed to do anything.
Fairness ==
    \A w \in Workers : /\ WF_vars(StartExpiry(w))
                       /\ WF_vars(\E o \in Orders : ExpireNext(w, o))

FairSpec == Spec /\ Fairness

-----------------------------------------------------------------------------
(* Properties *)

\* Every variable has its type; in particular the two counters, which are
\* PositiveIntegerFields, are never driven below zero by any handler.
TypeOK ==
    /\ listing \in [Books -> Listings]
    /\ quantity \in [Books -> Nat]
    /\ reserved \in [Books -> Nat]
    /\ movements \in [Books -> [MovementTypes -> Int]]
    /\ reservations \in [Orders -> Reservation]
    /\ created \in Nat
    /\ stockReturns \in [Keys -> StockReturn \cup {NoReturn}]
    /\ returned \in [Orders -> [Books -> Nat]]
    /\ batches \in [Workers -> SUBSET Orders]
    /\ deaths \in Nat

\* What is promised to a customer is on the shelf: no sequence of write-offs,
\* adjustments, sales, releases and returns leaves a book with fewer units than
\* are reserved.  The table's CheckConstraint (inventory/models.py) never fires,
\* nor does the check that a PositiveIntegerField brings.
ReservedWithinStock == \A b \in Books : reserved[b] \in 0..quantity[b]

\* Exactly the pending reservations hold stock: reserved_quantity is the sum of
\* their items, so nothing is released twice (a cancellation racing the expiry
\* task, a confirmation after the TTL) and nothing stays held for good.
ReservedIsPending ==
    \A b \in Books :
       reserved[b] = SumFunctionOnSet([o \in Orders |-> Items(o)[b]],
                        {o \in Orders : reservations[o].status = "PENDING"})

\* The StockMovement table explains both counters of every book: each handler
\* posts a movement of the right type, sign and size for what it changes.
LedgerReconciles ==
    \A b \in Books :
       /\ quantity[b] = movements[b]["receipt"] + movements[b]["write_off"]
                          + movements[b]["adjustment"] + movements[b]["sale"]
                          + movements[b]["return"]
       /\ reserved[b] = movements[b]["sale"] - movements[b]["reservation"]
                          - movements[b]["reservation_release"]

\* Over all of an order's returns, with and without a key, first tries and
\* replays, no more units of a book come back than a confirmed reservation sold.
ReturnedWithinSold ==
    \A o \in Orders, b \in Books :
       returned[o][b] <= IF reservations[o].status = "CONFIRMED"
                           THEN Items(o)[b] ELSE 0

\* The ledger's sales are the confirmed orders, its returns are the units that
\* orders gave back, and every keyed return is counted once among them.
SalesAndReturnsReconcile ==
    /\ \A b \in Books :
         /\ movements[b]["sale"] =
              -SumFunctionOnSet([o \in Orders |-> Items(o)[b]],
                 {o \in Orders : reservations[o].status = "CONFIRMED"})
         /\ movements[b]["return"] =
              SumFunctionOnSet([o \in Orders |-> returned[o][b]], Orders)
    /\ \A o \in Orders, b \in Books :
         LET keyed == {k \in Keys : stockReturns[k] # NoReturn
                                      /\ stockReturns[k].order = o}
         IN SumFunctionOnSet([k \in keyed |-> stockReturns[k].items[b]], keyed)
              <= returned[o][b]

\* No two reservations hold one idempotency key: the unique column never fires
\* outside the race that create_reservation handles with its savepoint.
KeysAreUnique ==
    \A o, r \in Orders :
       Exists(o) /\ Exists(r) /\ reservations[o].key # NoKey
          /\ reservations[o].key = reservations[r].key => o = r

\* An idempotency key names one reservation, and a client that repeats a create
\* request it never saw the answer to is given its reservation again, whatever
\* became of the stock, the book or the reservation: it is never told that its
\* own units are missing.
CreateRetryAnswered ==
    /\ KeysAreUnique
    /\ \A o \in Orders : Exists(o) =>
          CreateOutcome(o, Items(o), reservations[o].key) = "existing"

\* The defensive branches are dead code: the counters always cover a pending
\* reservation, so confirming or releasing it never finds the stock
\* inconsistent, and a return never misses an inventory row.
NeverInconsistent ==
    \A o \in Orders :
       /\ ConfirmOutcome(o) # "inconsistent"
       /\ CancelOutcome(o) # "inconsistent"
       /\ \A p \in Payloads, reason \in Reasons, k \in Keys \cup {NoKey} :
             ReturnOutcome(o, p, reason, k) # "inventory_not_found"

\* A reservation's order, items, key and age never change, and the first of
\* CONFIRMED, CANCELLED and EXPIRED to commit is final, however the client, the
\* webhook and the expiry task race; it is not CONFIRMED once the time has run
\* out.
FirstOutcomeIsFinal ==
    [][\A o \in Orders : Exists(o) =>
          /\ reservations'[o].items = Items(o)
          /\ reservations'[o].key = reservations[o].key
          /\ reservations'[o].serial = reservations[o].serial
          /\ reservations[o].status # "PENDING" =>
                reservations'[o].status = reservations[o].status
          /\ o \in Overdue => reservations'[o].status # "CONFIRMED"]_vars

\* Whatever a step does, a pending reservation that it leaves alone still finds
\* its units afterwards: no write-off, adjustment, sale, release or other order
\* drops a counter below what that reservation counts on.
OthersKeepTheirUnits ==
    [][\A o \in Orders :
          reservations[o].status = "PENDING" /\ reservations'[o] = reservations[o]
            => \A b \in Books : reserved'[b] >= Items(o)[b]
                                  /\ quantity'[b] >= Items(o)[b]]_vars

\* A reservation nobody confirms or cancels does not hold stock for ever.
OverdueIsReleased ==
    \A o \in Orders : o \in Overdue ~> reservations[o].status # "PENDING"

=============================================================================
