------------------------------- MODULE Checkout -------------------------------
(***************************************************************************)
(* Checkout across the two services: BookShop's order, Warehouse's         *)
(* reservation (all of module Warehouse) and Stripe's session.             *)
(*                                                                         *)
(* BookShop's requests run on gunicorn threads (Threads): a checkout form  *)
(* or a Stripe webhook.  Between two calls to Warehouse a thread holds no  *)
(* lock, so threads interleave at every call and at every commit, and a    *)
(* thread may die anywhere.  A call is an HTTP request that Warehouse may  *)
(* serve at once, late (after the client gave up) or never, and whose      *)
(* answer may be lost; the client repeats it a bounded number of times.    *)
(*                                                                         *)
(* An operator whose name starts with Fault is a plausible mistake in the  *)
(* definition that follows it, used by no action.                          *)
(***************************************************************************)
EXTENDS Integers, FiniteSets

CONSTANTS
    Books, Orders, NoKey, NoReturn,
    NoOrder,      \* the order of an idle thread
    Threads,      \* gunicorn threads of BookShop
    Beat,         \* the Warehouse worker that runs the expiry task
    Cart,         \* the units of each book in each order (module Cart: how they
                  \* get there)
    MaxItem,      \* bound: units of one book in one order
    InStock,      \* units of each book at the start
    MaxTries,     \* attempts of one Warehouse call (1 + WAREHOUSE_HTTP_RETRIES)
    MaxStaff      \* bound: books and orders deleted and orders edited by
                  \* staff, together

VARIABLES listing, quantity, reserved, movements, reservations, created,
          stockReturns, returned, batches, deaths    \* Warehouse, see there
VARIABLES
    enabled,      \* WAREHOUSE_INTEGRATION_ENABLED; once on it stays on
    orders,       \* BookShop's Order rows
    threads,      \* what each thread is doing
    late,         \* requests whose client gave up, that may still be served
    sessions,     \* Stripe's Checkout session of each order
    emails,       \* confirmation emails enqueued for each order
    unsent,       \* history: orders whose confirmation was lost before that
    catalogue,    \* BookShop's books; deleting one nulls OrderItem.book
    bare,         \* orders whose OrderItem rows were deleted with them
    form,         \* the order that staff are editing, as they read it
    edits,        \* saves of such edits
    edited        \* history: orders whose status staff have changed

\* BookShop sends the key "<order>-reserve", so the order is its own key.
W == INSTANCE Warehouse
       WITH Keys <- Orders, Reasons <- {}, Workers <- {Beat},
            MaxReceived <- InStock, MaxAdjusted <- 0, MaxDeaths <- 0

ASSUME CheckoutAssumption ==
    /\ IsFiniteSet(Books) /\ IsFiniteSet(Orders) /\ NoOrder \notin Orders
    /\ MaxItem \in Nat /\ Cart \in [Orders -> W!ItemMaps]
    /\ MaxTries \in Nat \ {0} /\ MaxStaff \in Nat

warehouse == <<listing, quantity, reserved, movements, reservations, created,
               stockReturns, returned, batches, deaths>>
mail == <<emails, unsent>>
staff == <<form, edits, bare, edited>>
shop == <<enabled, orders, threads, late, sessions, mail, catalogue, staff>>
vars == <<warehouse, shop>>

-----------------------------------------------------------------------------
OrderStatuses == {"none", "new", "paid", "cancelled", "deleted"}
Methods == {"card", "cash"}
Order == [status : OrderStatuses, method : Methods,
          payment : BOOLEAN,               \* payment_id is set
          reservation : BOOLEAN,           \* warehouse_reservation_id is set
          seen : W!Statuses]               \* warehouse_status, "NONE" when blank

Calls == {"reserve", "confirm", "cancel"}
\* answer is "none" while no request is out, "awaited" while one is, and then
\* "rejected" (a 4xx) or the reservation's status in a 2xx body.
Thread == [at : Calls \cup {"idle", "items", "stripe", "redirect", "commit", "email"},
           event : {"checkout", "paid", "expired"}, order : Orders \cup {NoOrder},
           reservation : BOOLEAN,          \* the id in this thread's copy
           items : W!ItemMaps,             \* the payload of a reserve
           tries : 0..MaxTries,
           answer : {"none", "awaited", "rejected"} \cup W!Statuses]

\* An edit through OrderViewSet or the admin site; no order while there is none.
Form == [order : Orders \cup {NoOrder}, via : {"api", "admin"}, row : Order]

\* "unseen": it exists at Stripe, but the customer was never sent there.
SessionStates == {"none", "unseen", "open", "paid", "expired"}

Idle == [at |-> "idle", event |-> "checkout", order |-> NoOrder,
         reservation |-> FALSE, items |-> W!NoItems, tries |-> 0, answer |-> "none"]

NoRow == [status |-> "none", method |-> "card", payment |-> FALSE,
          reservation |-> FALSE, seen |-> "NONE"]
NoForm == [order |-> NoOrder, via |-> "api", row |-> NoRow]

\* The shop opens with every book synchronised and InStock units received.
Init ==
    /\ listing = [b \in Books |-> "active"]
    /\ quantity = [b \in Books |-> InStock]
    /\ reserved = [b \in Books |-> 0]
    /\ movements = [b \in Books |-> [t \in W!MovementTypes |->
                                       IF t = "receipt" THEN InStock ELSE 0]]
    /\ reservations = [o \in Orders |-> W!NoReservation]
    /\ created = 0
    /\ stockReturns = [k \in Orders |-> NoReturn]
    /\ returned = [o \in Orders |-> W!NoItems]
    /\ batches = [w \in {Beat} |-> {}]
    /\ deaths = 0
    /\ enabled \in BOOLEAN
    /\ orders = [o \in Orders |-> NoRow]
    /\ threads = [t \in Threads |-> Idle]
    /\ late = {}
    /\ sessions = [o \in Orders |-> "none"]
    /\ emails = [o \in Orders |-> 0]
    /\ unsent = {}
    /\ catalogue = Books
    /\ form = NoForm
    /\ edits = 0
    /\ bare = {} /\ edited = {}

-----------------------------------------------------------------------------
(* Threads                                                                  *)

\* The order a thread works on.
Of(t) == threads[t].order
Awaits(t) == threads[t].at \in Calls /\ threads[t].answer = "awaited"

\* The thread goes on to a local step, or sends the first attempt of a call.
Goes(t, at) ==
    threads' = [threads EXCEPT ![t].at = at, ![t].tries = 0, ![t].answer = "none"]
Sends(t, call) ==
    threads' = [threads EXCEPT ![t].at = call, ![t].tries = 1, ![t].answer = "awaited"]
Ends(t) == threads' = [threads EXCEPT ![t] = Idle]

\* An idle thread takes up a request about order o; known is the reservation id
\* in the copy of the order that it reads.
Starts(t, event, o, known, at) ==
    threads' = [threads EXCEPT ![t] =
                  [at |-> at, event |-> event, order |-> o, reservation |-> known,
                   items |-> W!NoItems, tries |-> IF at \in Calls THEN 1 ELSE 0,
                   answer |-> IF at \in Calls THEN "awaited" ELSE "none"]]

\* save(update_fields=...) raises when the row was deleted.
Deleted(o) == orders[o].status = "deleted"
Cancelled(o) ==
    orders' = IF Deleted(o) THEN orders ELSE [orders EXCEPT ![o].status = "cancelled"]

-----------------------------------------------------------------------------
(* Warehouse serves a request: one transaction of module Warehouse.  The    *)
(* body of the answer is the reservation's status after it; a 400 (no items *)
(* left to ask for) or a 409 (no stock, other items than before, a final    *)
(* status, an overdue reservation) is "rejected".                           *)

Serve(call, o, items, answer) ==
    \/ /\ call = "reserve" /\ items \in W!Payloads
       /\ \/ W!CreateReservation(o, items, o) /\ answer = "PENDING"
          \/ /\ W!CreateOutcome(o, items, o) # "created"
             /\ UNCHANGED warehouse
             /\ answer = IF W!CreateOutcome(o, items, o) = "existing"
                           THEN reservations[o].status ELSE "rejected"
    \/ /\ call = "reserve" /\ items \notin W!Payloads
       /\ UNCHANGED warehouse
       /\ answer = "rejected"
    \/ /\ call = "confirm"
       /\ \/ /\ W!ConfirmReservation(o)
             /\ answer = IF W!ConfirmOutcome(o) = "sold" THEN "CONFIRMED" ELSE "rejected"
          \/ /\ W!ConfirmOutcome(o) \notin {"sold", "expired"}
             /\ UNCHANGED warehouse
             /\ answer = IF W!ConfirmOutcome(o) = "unchanged"
                           THEN "CONFIRMED" ELSE "rejected"
    \/ /\ call = "cancel"
       /\ \/ W!CancelReservation(o) /\ answer = "CANCELLED"
          \/ /\ W!CancelOutcome(o) # "released"
             /\ UNCHANGED warehouse
             /\ answer = IF W!CancelOutcome(o) = "unchanged"
                           THEN reservations[o].status ELSE "rejected"

ServeCall(t) ==
    /\ Awaits(t)
    /\ \E answer \in {"rejected"} \cup W!Statuses :
          /\ Serve(threads[t].at, Of(t), threads[t].items, answer)
          /\ threads' = [threads EXCEPT ![t].answer = answer]
    /\ UNCHANGED <<enabled, orders, late, sessions, mail, catalogue, staff>>

ServeLate ==
    /\ \E r \in late, answer \in {"rejected"} \cup W!Statuses :
          Serve(r[1], r[2], r[3], answer)
    /\ UNCHANGED shop

-----------------------------------------------------------------------------
(* WarehouseClient: timeouts, 5xx answers and retries                       *)

\* No answer arrives (or a 5xx, which changed nothing): the attempt times out.
\* A request that was not served yet is left on its way.
Abandoned(t) ==
    IF Awaits(t) THEN late \cup {<<threads[t].at, Of(t), threads[t].items>>} ELSE late

FaultRetryOnceMore(t) ==
    /\ threads[t].at \in Calls /\ threads[t].tries <= MaxTries
    /\ late' = Abandoned(t)
    /\ threads' = [threads EXCEPT ![t].tries = @ + 1, ![t].answer = "awaited"]
    /\ UNCHANGED <<warehouse, enabled, orders, sessions, mail, catalogue, staff>>

Retry(t) ==
    /\ threads[t].at \in Calls /\ threads[t].tries < MaxTries
    /\ late' = Abandoned(t)
    /\ threads' = [threads EXCEPT ![t].tries = @ + 1, ![t].answer = "awaited"]
    /\ UNCHANGED <<warehouse, enabled, orders, sessions, mail, catalogue, staff>>

FaultUnavailableIsPaid(t) ==
    /\ threads[t].at \in Calls /\ threads[t].tries = MaxTries
    /\ late' = Abandoned(t)
    /\ IF threads[t].event = "checkout" THEN Cancelled(Of(t)) /\ Ends(t)
       ELSE Goes(t, "commit") /\ UNCHANGED orders
    /\ UNCHANGED <<warehouse, enabled, sessions, mail, catalogue, staff>>
FaultUnavailableCancels(t) ==
    /\ threads[t].at \in Calls /\ threads[t].tries = MaxTries
    /\ late' = Abandoned(t)
    /\ Ends(t) /\ Cancelled(Of(t))
    /\ UNCHANGED <<warehouse, enabled, sessions, mail, catalogue, staff>>

\* WarehouseUnavailable after the last attempt.  A checkout cancels its order
\* (warehouse_checkout_failure, and stripe_checkout_failure, which ignores that
\* the release failed); a webhook answers 503 and leaves everything as it was.
GiveUp(t) ==
    /\ threads[t].at \in Calls /\ threads[t].tries = MaxTries
    /\ late' = Abandoned(t)
    /\ Ends(t)
    /\ IF threads[t].event = "checkout" THEN Cancelled(Of(t)) ELSE UNCHANGED orders
    /\ UNCHANGED <<warehouse, enabled, sessions, mail, catalogue, staff>>

\* WarehouseRejected: the same, the webhook's answer being 409.
Rejected(t) ==
    /\ threads[t].at \in Calls /\ threads[t].answer = "rejected"
    /\ Ends(t)
    /\ IF threads[t].event = "checkout" THEN Cancelled(Of(t)) ELSE UNCHANGED orders
    /\ UNCHANGED <<warehouse, enabled, late, sessions, mail, catalogue, staff>>

\* A 2xx answer.  Its status is saved on the order, the reservation's id too
\* when the call made it, and the thread goes on.
Answered(t, call) ==
    /\ threads[t].at = call /\ threads[t].answer \in W!Statuses
    /\ ~Deleted(Of(t))

\* That save, or the one of payment_id, raises: the request is answered 500.
SaveFails(t) ==
    /\ \/ threads[t].at \in Calls /\ threads[t].answer \in W!Statuses
       \/ threads[t].at = "redirect"
    /\ Deleted(Of(t))
    /\ Ends(t)
    /\ UNCHANGED <<warehouse, enabled, orders, late, sessions, mail, catalogue, staff>>

FaultConfirmBeforePayment(t) ==
    /\ Answered(t, "reserve")
    /\ orders' = [orders EXCEPT ![Of(t)].reservation = TRUE,
                                ![Of(t)].seen = threads[t].answer]
    /\ threads' = [threads EXCEPT ![t].reservation = TRUE, ![t].items = W!NoItems,
                     ![t].at = "confirm", ![t].tries = 1, ![t].answer = "awaited"]
    /\ UNCHANGED <<warehouse, enabled, late, sessions, mail, catalogue, staff>>

Reserved(t) ==
    /\ Answered(t, "reserve")
    /\ orders' = [orders EXCEPT ![Of(t)].reservation = TRUE,
                                ![Of(t)].seen = threads[t].answer]
    /\ LET confirms == threads[t].event = "paid" \/ orders[Of(t)].method = "cash" IN
       threads' = [threads EXCEPT ![t].reservation = TRUE, ![t].items = W!NoItems,
                     ![t].at = IF confirms THEN "confirm" ELSE "stripe",
                     ![t].tries = IF confirms THEN 1 ELSE 0,
                     ![t].answer = IF confirms THEN "awaited" ELSE "none"]
    /\ UNCHANGED <<warehouse, enabled, late, sessions, mail, catalogue, staff>>

\* A cash checkout is done; a webhook goes on to commit the payment.
Confirmed(t) ==
    /\ Answered(t, "confirm")
    /\ orders' = [orders EXCEPT ![Of(t)].seen = threads[t].answer]
    /\ IF threads[t].event = "checkout" THEN Ends(t) ELSE Goes(t, "commit")
    /\ UNCHANGED <<warehouse, enabled, late, sessions, mail, catalogue, staff>>

FaultAssumesCancelled(t) ==
    /\ Answered(t, "cancel")
    /\ IF threads[t].event = "checkout"
         THEN /\ orders' = [orders EXCEPT ![Of(t)].seen = "CANCELLED",
                                          ![Of(t)].status = "cancelled"]
              /\ Ends(t)
         ELSE /\ orders' = [orders EXCEPT ![Of(t)].seen = "CANCELLED"]
              /\ Goes(t, "commit")
    /\ UNCHANGED <<warehouse, enabled, late, sessions, mail, catalogue, staff>>

\* A failed checkout cancels its order; an expiry webhook goes on to do so.
Released(t) ==
    /\ Answered(t, "cancel")
    /\ IF threads[t].event = "checkout"
         THEN /\ orders' = [orders EXCEPT ![Of(t)].seen = threads[t].answer,
                                          ![Of(t)].status = "cancelled"]
              /\ Ends(t)
         ELSE /\ orders' = [orders EXCEPT ![Of(t)].seen = threads[t].answer]
              /\ Goes(t, "commit")
    /\ UNCHANGED <<warehouse, enabled, late, sessions, mail, catalogue, staff>>

-----------------------------------------------------------------------------
(* CheckoutView.post                                                        *)

\* The order is committed before any call; the foreign keys of its items make
\* sure that the books are there.  Without the integration nothing is reserved,
\* and a cash order is complete.
PlaceOrder(t, o, method) ==
    /\ threads[t].at = "idle" /\ orders[o].status = "none"
    /\ \A b \in Books : Cart[o][b] > 0 => b \in catalogue
    /\ orders' = [orders EXCEPT ![o].status = "new", ![o].method = method]
    /\ IF ~enabled /\ method = "cash" THEN UNCHANGED threads
       ELSE Starts(t, "checkout", o, FALSE, IF enabled THEN "items" ELSE "stripe")
    /\ UNCHANGED <<warehouse, enabled, late, sessions, mail, catalogue, staff>>

FaultAskForOneBook(o) ==
    [b \in Books |-> IF b = CHOOSE x \in Books : Cart[o][x] > 0
                       THEN Cart[o][b] ELSE 0]
\* reserve_order: the order's items, without those whose book was deleted.
Requested(o) ==
    [b \in Books |-> IF b \in catalogue /\ o \notin bare THEN Cart[o][b] ELSE 0]

Reserve(t) ==
    /\ threads[t].at = "items"
    /\ threads' = [threads EXCEPT ![t].at = "reserve", ![t].items = Requested(Of(t)),
                                  ![t].tries = 1, ![t].answer = "awaited"]
    /\ UNCHANGED <<warehouse, enabled, orders, late, sessions, mail, catalogue, staff>>

\* Stripe makes the session, or the call fails (StripeError), perhaps after
\* Stripe made it; then the reservation is cancelled, if there is one.
CreateStripeSession(t) ==
    /\ threads[t].at = "stripe"
    /\ sessions' = [sessions EXCEPT ![Of(t)] = "unseen"]
    /\ Goes(t, "redirect")
    /\ UNCHANGED <<warehouse, enabled, orders, late, mail, catalogue, staff>>

FailStripeSession(t) ==
    /\ threads[t].at = "stripe"
    /\ \E s \in {"none", "unseen"} : sessions' = [sessions EXCEPT ![Of(t)] = s]
    /\ IF enabled /\ threads[t].reservation
         THEN Sends(t, "cancel") /\ UNCHANGED orders
         ELSE Ends(t) /\ Cancelled(Of(t))
    /\ UNCHANGED <<warehouse, enabled, late, mail, catalogue, staff>>

\* payment_id is saved, the cart is cleared and the customer is sent to Stripe,
\* if the response arrives.
Redirect(t) ==
    /\ threads[t].at = "redirect" /\ ~Deleted(Of(t))
    /\ orders' = [orders EXCEPT ![Of(t)].payment = TRUE]
    /\ \E arrives \in BOOLEAN :
          sessions' = [sessions EXCEPT ![Of(t)] =
                         IF arrives /\ @ = "unseen" THEN "open" ELSE @]
    /\ Ends(t)
    /\ UNCHANGED <<warehouse, enabled, late, mail, catalogue, staff>>

-----------------------------------------------------------------------------
(* Stripe and its webhooks: delivered at least once, in any number          *)

Pay(o) ==
    /\ sessions[o] = "open"
    /\ sessions' = [sessions EXCEPT ![o] = "paid"]
    /\ UNCHANGED <<warehouse, enabled, orders, threads, late, mail, catalogue, staff>>

SessionExpires(o) ==
    /\ sessions[o] \in {"unseen", "open"}
    /\ sessions' = [sessions EXCEPT ![o] = "expired"]
    /\ UNCHANGED <<warehouse, enabled, orders, threads, late, mail, catalogue, staff>>

\* _confirm_paid_stripe_order up to its first call: the order is read without a
\* lock, a decided order is answered at once, one without a reservation id is
\* reserved first.  (An order has one session, so payment_id always matches.)
PaidWebhook(t, o) ==
    /\ threads[t].at = "idle" /\ sessions[o] = "paid"
    /\ orders[o].status \notin {"paid", "cancelled", "deleted"}
    /\ Starts(t, "paid", o, orders[o].reservation,
              IF ~enabled THEN "commit"
              ELSE IF orders[o].reservation THEN "confirm" ELSE "items")
    /\ UNCHANGED <<warehouse, enabled, orders, late, sessions, mail, catalogue, staff>>

\* _expire_stripe_order up to its call.
ExpiredWebhook(t, o) ==
    /\ threads[t].at = "idle" /\ sessions[o] = "expired"
    /\ orders[o].status \notin {"paid", "cancelled", "deleted"}
    /\ Starts(t, "expired", o, orders[o].reservation,
              IF enabled /\ orders[o].reservation THEN "cancel" ELSE "commit")
    /\ UNCHANGED <<warehouse, enabled, orders, late, sessions, mail, catalogue, staff>>

FaultCommitWithoutReread(t) ==
    /\ threads[t].at = "commit" /\ threads[t].event = "paid"
    /\ orders' = [orders EXCEPT ![Of(t)].status = "paid", ![Of(t)].payment = TRUE]
    /\ Goes(t, "email")
    /\ UNCHANGED <<warehouse, enabled, late, sessions, mail, catalogue, staff>>

\* The final transaction locks the order, if it is still there, and reads its
\* status again.
CommitPaid(t) ==
    /\ threads[t].at = "commit" /\ threads[t].event = "paid"
    /\ IF orders[Of(t)].status = "new"
         THEN /\ orders' = [orders EXCEPT ![Of(t)].status = "paid",
                                          ![Of(t)].payment = TRUE]
              /\ Goes(t, "email")
         ELSE UNCHANGED orders /\ Ends(t)
    /\ UNCHANGED <<warehouse, enabled, late, sessions, mail, catalogue, staff>>

CommitExpired(t) ==
    /\ threads[t].at = "commit" /\ threads[t].event = "expired"
    /\ IF orders[Of(t)].status = "new" THEN Cancelled(Of(t)) ELSE UNCHANGED orders
    /\ Ends(t)
    /\ UNCHANGED <<warehouse, enabled, late, sessions, mail, catalogue, staff>>

\* An error of the message broker is logged and swallowed.
SendConfirmation(t) ==
    /\ threads[t].at = "email"
    /\ \/ emails' = [emails EXCEPT ![Of(t)] = @ + 1] /\ UNCHANGED unsent
       \/ unsent' = unsent \cup {Of(t)} /\ UNCHANGED emails
    /\ Ends(t)
    /\ UNCHANGED <<warehouse, enabled, orders, late, sessions, catalogue, staff>>

-----------------------------------------------------------------------------
(* Staff: BookShop's catalogue, and edits of orders                         *)

StaffActs == Cardinality(Books \ catalogue) + Cardinality(bare) + edits
               + IF form = NoForm THEN 0 ELSE 1

\* Bound: staff delete an order once, while it is being edited or as an act of
\* its own.
MayDelete(o) == o \notin bare /\ (form.order = o \/ StaffActs < MaxStaff)

\* OrderItem.book is set to NULL; later the synchronisation (module BookSync)
\* withdraws the book at Warehouse.
DeleteBook(b) ==
    /\ b \in catalogue /\ StaffActs < MaxStaff
    /\ catalogue' = catalogue \ {b}
    /\ UNCHANGED <<warehouse, enabled, orders, threads, late, sessions, mail, staff>>

SyncDeletion(b) ==
    /\ b \notin catalogue /\ listing[b] = "active"
    /\ W!SyncBook(b, FALSE)
    /\ UNCHANGED shop

\* A PATCH of OrderViewSet, or the admin's form: the order is read, and later
\* saved whole, without a lock.  Staff change other fields (an address) than
\* those modelled; arbitrary values for them are not part of the model.
OpenForm(o, via) ==
    /\ form = NoForm /\ StaffActs < MaxStaff
    /\ orders[o].status \notin {"none", "deleted"}
    /\ form' = [order |-> o, via |-> via, row |-> orders[o]]
    /\ UNCHANGED <<warehouse, enabled, orders, threads, late, sessions, mail,
                   catalogue, edits, bare, edited>>

\* The admin reads the row again for the fields that its form does not contain,
\* and saves nothing when the row is gone.  A PATCH saves a row that was deleted
\* since as a new one: the order is back, without its items.
SaveForm ==
    LET o == form.order
        row == IF form.via = "api" THEN form.row
               ELSE IF Deleted(o) THEN orders[o]
               ELSE [form.row EXCEPT !.reservation = orders[o].reservation,
                                     !.seen = orders[o].seen]
    IN
    /\ form # NoForm
    /\ orders' = [orders EXCEPT ![o] = row]
    /\ edited' = IF row.status = orders[o].status THEN edited ELSE edited \cup {o}
    /\ edits' = edits + 1 /\ form' = NoForm
    /\ UNCHANGED <<warehouse, enabled, threads, late, sessions, mail, catalogue, bare>>

\* OrderViewSet or the admin site; the items go with the order, the reservation
\* stays as it is.
DeleteOrder(o) ==
    /\ orders[o].status \notin {"none", "deleted"} /\ MayDelete(o)
    /\ orders' = [orders EXCEPT ![o] = [NoRow EXCEPT !.status = "deleted"]]
    /\ bare' = bare \cup {o} /\ edited' = edited \cup {o}
    /\ UNCHANGED <<warehouse, enabled, threads, late, sessions, mail, catalogue,
                   form, edits>>

-----------------------------------------------------------------------------
(* Failures and the rest of the world                                       *)

\* The gunicorn worker dies, or the browser's request is cut.
ThreadDies(t) ==
    /\ threads[t].at # "idle"
    /\ late' = Abandoned(t)
    /\ unsent' = IF threads[t].at = "email" THEN unsent \cup {Of(t)} ELSE unsent
    /\ Ends(t)
    /\ UNCHANGED <<warehouse, enabled, orders, sessions, emails, catalogue, staff>>

\* A setting changes by a restart, which no request survives.
EnableIntegration ==
    /\ ~enabled /\ enabled' = TRUE
    /\ \A t \in Threads : threads[t].at = "idle"
    /\ form = NoForm \/ form.via = "admin"
    /\ UNCHANGED <<warehouse, orders, threads, late, sessions, mail, catalogue, staff>>

\* Warehouse's clock and its expiry task.
TtlElapses(o) == W!TtlElapses(o) /\ UNCHANGED shop
StartExpiry == W!StartExpiry(Beat) /\ UNCHANGED shop
ExpireNext == (\E o \in Orders : W!ExpireNext(Beat, o)) /\ UNCHANGED shop

Next ==
    \/ \E t \in Threads :
         \/ \E o \in Orders, method \in Methods : PlaceOrder(t, o, method)
         \/ Reserve(t) \/ ServeCall(t) \/ Retry(t) \/ GiveUp(t)
         \/ Rejected(t) \/ Reserved(t) \/ Confirmed(t) \/ Released(t) \/ SaveFails(t)
         \/ CreateStripeSession(t) \/ FailStripeSession(t) \/ Redirect(t)
         \/ \E o \in Orders : PaidWebhook(t, o) \/ ExpiredWebhook(t, o)
         \/ CommitPaid(t) \/ CommitExpired(t) \/ SendConfirmation(t)
         \/ ThreadDies(t)
    \/ ServeLate
    \/ \E b \in Books : DeleteBook(b) \/ SyncDeletion(b)
    \/ \E o \in Orders, via \in {"api", "admin"} : OpenForm(o, via)
    \/ SaveForm \/ \E o \in Orders : DeleteOrder(o)
    \/ \E o \in Orders : Pay(o) \/ SessionExpires(o) \/ TtlElapses(o)
    \/ StartExpiry \/ ExpireNext
    \/ EnableIntegration

Spec == Init /\ [][Next]_vars

\* Only time and Warehouse's own task are relied on: clocks advance, beat sends
\* the task, a worker finishes it.  No customer, thread, call or webhook is.
Fairness == /\ \A o \in Orders : WF_vars(TtlElapses(o))
            /\ WF_vars(StartExpiry) /\ WF_vars(ExpireNext)

FairSpec == Spec /\ Fairness

-----------------------------------------------------------------------------
(* Properties *)

TypeOK ==
    /\ enabled \in BOOLEAN
    /\ orders \in [Orders -> Order]
    /\ threads \in [Threads -> Thread]
    /\ late \subseteq Calls \X Orders \X W!ItemMaps
    /\ sessions \in [Orders -> SessionStates]
    /\ emails \in [Orders -> Nat] /\ unsent \subseteq Orders
    /\ catalogue \subseteq Books
    /\ form \in Form /\ edits \in 0..MaxStaff
    /\ bare \subseteq Orders /\ edited \subseteq Orders

\* A paid order was paid for at Stripe, and if BookShop ever had a reservation
\* for it, Warehouse has sold that reservation: whatever is lost, repeated or
\* served late, PAID is never written on an order whose stock went back.
PaidIsSettled ==
    \A o \in Orders : orders[o].status = "paid" =>
       /\ sessions[o] = "paid"
       /\ orders[o].reservation => reservations[o].status = "CONFIRMED"

\* The customer is told of a payment exactly once, however often Stripe repeats
\* its webhook and however many threads process it at the same time: the email is
\* enqueued, or a thread is about to do that, or it was lost with the thread or
\* the broker.  Only staff who changed the status (an old form saved over PAID,
\* an order deleted) make it more or less than once.
ToldOnce ==
    \A o \in Orders \ edited :
       LET telling == {t \in Threads : threads[t].at = "email" /\ Of(t) = o}
           lost == IF o \in unsent THEN 1 ELSE 0
       IN emails[o] + Cardinality(telling) + lost =
            IF orders[o].status = "paid" THEN 1 ELSE 0

\* Stock is sold on a card order only against a payment, and not on one that was
\* cancelled (a failed Stripe call, an expired session, a late confirmation).
\* It is sold on a cancelled order only if that is a cash order whose
\* confirmation BookShop never saw answered.
SaleIsAccounted ==
    \A o \in Orders \ edited :
       reservations[o].status = "CONFIRMED" =>
          /\ orders[o].method = "card" => sessions[o] = "paid"
          /\ orders[o].status = "cancelled" =>
                orders[o].method = "cash" /\ orders[o].seen # "CONFIRMED"

\* A paid order is reserved whole: of the books that BookShop still sells none
\* is missing from what Warehouse holds or has sold for the order, although each
\* request names the books that were there when it was built, several requests
\* may be on their way, and the first to be served decides.
PaidIsReservedWhole ==
    \A o \in Orders :
       orders[o].status = "paid" /\ orders[o].reservation =>
          \A b \in catalogue : W!Items(o)[b] = Cart[o][b]

\* What BookShop remembers of Warehouse is true or merely old: an id it saved
\* names a reservation, and a final status it saved is the status.
RemembersTruly ==
    \A o \in Orders :
       /\ orders[o].reservation => W!Exists(o)
       /\ orders[o].seen \in {"CONFIRMED", "CANCELLED", "EXPIRED"} =>
             reservations[o].status = orders[o].seen

\* Every customer's order is decided once: checkout's unlocked write of
\* CANCELLED never overwrites PAID, no webhook revives a cancelled order, and
\* staff do so only by saving a form that they opened before the decision.
OrderDecidedOnce ==
    [][\A o \in Orders :
          \/ orders[o].status \in {"paid", "cancelled"} =>
                orders'[o].status = orders[o].status
          \/ form.order = o /\ form.row.status # orders[o].status /\ o \in edited'
          \/ Deleted(o)'
      ]_vars

\* A reservation that its checkout forgot (a lost answer, a dead thread, a
\* release that failed, a late request) gives its stock back in the end.
AbandonedStockReturns ==
    \A o \in Orders :
       reservations[o].status = "PENDING" ~> reservations[o].status # "PENDING"

\* README.md:43, "Failed or cancelled payment releases the reservation": a
\* cancelled order has not sold any stock.
CancelledSellsNothing ==
    \A o \in Orders :
       orders[o].status = "cancelled" => reservations[o].status # "CONFIRMED"

=============================================================================
