--------------------------- MODULE Checkout_proofs ---------------------------
(***************************************************************************)
(* Proofs about Checkout, for any books, orders, threads, carts and bounds *)
(***************************************************************************)
EXTENDS Checkout, FiniteSetTheorems, TLAPS

(***************************************************************************)
(* Invariants, each of which rests on the ones before it                   *)
(***************************************************************************)

ThreadsOK ==
    /\ threads \in [Threads -> Thread]
    /\ \A t \in Threads : /\ threads[t].at = "idle" => threads[t] = Idle
                          /\ threads[t].at # "idle" => Of(t) \in Orders

\* Types, with what Thread and Form leave open: a thread that is not idle works
\* on an order, an open form is about one, and edits stay within their bound.
TypeInv ==
    /\ TypeOK
    /\ reservations \in [Orders -> W!Reservation] /\ created \in Nat
    /\ ThreadsOK
    /\ form # NoForm => form.order \in Orders
    /\ edits + (IF form = NoForm THEN 0 ELSE 1) <= MaxStaff

\* Which steps each kind of request takes.
Path ==
    \A t \in Threads :
       /\ threads[t].at \in {"items", "reserve", "confirm"} =>
             threads[t].event \in {"checkout", "paid"}
       /\ threads[t].at \in {"stripe", "redirect"} => threads[t].event = "checkout"
       /\ threads[t].at = "cancel" => threads[t].event \in {"checkout", "expired"}
       /\ threads[t].at = "commit" => threads[t].event \in {"paid", "expired"}
       /\ threads[t].at = "email" => threads[t].event = "paid"

Checks(t, o) == threads[t].at # "idle" /\ threads[t].event = "checkout" /\ Of(t) = o
Expires(t, o) == threads[t].at # "idle" /\ threads[t].event = "expired" /\ Of(t) = o
Pays(t, o) == threads[t].at # "idle" /\ threads[t].event = "paid" /\ Of(t) = o

\* The status of o as the shop has it, or as a form may still write it back.
MayRead(o, status) ==
    orders[o].status = status \/ (form.order = o /\ form.row.status = status)

\* An order that was not placed has left no trace.
NotPlaced(o) ==
    orders[o].status = "none" =>
       /\ sessions[o] = "none"
       /\ \A t \in Threads : threads[t].at # "idle" => Of(t) # o

\* A form that holds a decision is not older than it.
FormIsOld(o) ==
    form # NoForm /\ form.order = o =>
       /\ form.row.status \notin {"none", "deleted"}
       /\ orders[o].status # "none"
       /\ form.row.status \in {"paid", "cancelled"} =>
             orders[o].status \in {form.row.status, "deleted"}

\* An order that Stripe has not been paid for is PAID nowhere, and no thread is
\* about to make it so.
Unpaid(o) ==
    sessions[o] # "paid" => ~MayRead(o, "paid") /\ \A t \in Threads : ~Pays(t, o)

Expired(o) == \A t \in Threads : Expires(t, o) => sessions[o] = "expired"

\* A checkout at work has its order and its session to itself, and the customer
\* does not have the link yet.
InCheckout(o) ==
    \A t \in Threads : Checks(t, o) =>
       /\ sessions[o] \in {"none", "unseen", "expired"}
       /\ threads[t].at \notin {"redirect", "cancel"} => sessions[o] = "none"
       /\ \A u \in Threads : Checks(u, o) => u = t

Decisions ==
    \A o \in Orders : /\ NotPlaced(o) /\ FormIsOld(o) /\ Unpaid(o) /\ Expired(o)
                      /\ InCheckout(o)

FinalStatuses == {"CONFIRMED", "CANCELLED", "EXPIRED"}

\* A reservation with this status was or is there, and if it is final it is the
\* reservation's status for ever.
True(o, status) ==
    /\ status # "NONE" => W!Exists(o)
    /\ status \in FinalStatuses => reservations[o].status = status

\* The id of a reservation and its status, as a row remembers them.
Knows(o, row) == (row.reservation => W!Exists(o)) /\ True(o, row.seen)

\* What the order's row, a form and a thread's last answer say of a reservation.
\* A reservation is stored under its order as the key.
Memory ==
    /\ \A o \in Orders : /\ W!Exists(o) => reservations[o].key = o
                         /\ Knows(o, orders[o])
    /\ form # NoForm => Knows(form.order, form.row)
    /\ \A t \in Threads : threads[t].at \in Calls /\ threads[t].answer \in W!Statuses =>
          /\ threads[t].answer # "NONE" /\ True(Of(t), threads[t].answer)
          /\ threads[t].at = "confirm" => threads[t].answer = "CONFIRMED"

\* A request about o that Warehouse may still be asked to serve.
Underway(call, o, items) ==
    \/ <<call, o, items>> \in late
    \/ \E t \in Threads : threads[t].at = call /\ Of(t) = o /\ threads[t].items = items

\* The sale of what is reserved for o may still be asked for.
Asked(o) == \E p \in W!ItemMaps : Underway("confirm", o, p)

\* Nothing about Warehouse has happened while the integration is off.
Off ==
    ~enabled =>
       /\ late = {}
       /\ \A o \in Orders : ~orders[o].reservation
       /\ \A t \in Threads :
             ~threads[t].reservation /\ threads[t].at \notin Calls \cup {"items"}
       /\ ~form.row.reservation

\* No reservation is known for o, and no thread is about to learn of one.
Unreserved(o) ==
    /\ ~orders[o].reservation
    /\ form # NoForm /\ form.order = o => ~form.row.reservation
    /\ \A t \in Threads : Of(t) = o => threads[t].at \notin {"items", "reserve"}

\* PAID is written after the sale, or on an order without a reservation.
Sold ==
    /\ \A o \in Orders :
          MayRead(o, "paid") => reservations[o].status = "CONFIRMED" \/ Unreserved(o)
    /\ \A t \in Threads :
          threads[t].at = "commit" /\ threads[t].event = "paid" /\ enabled =>
             reservations[Of(t)].status = "CONFIRMED"

\* What Warehouse holds, or may be asked to hold, of the books still sold.
Whole ==
    \A o \in Orders, b \in catalogue :
       /\ W!Exists(o) => W!Items(o)[b] = Cart[o][b]
       /\ \A p \in W!Payloads : Underway("reserve", o, p) => p[b] = Cart[o][b]

\* Nothing was asked of Warehouse about an order that was not placed.
NothingAsked(o) ==
    orders[o].status = "none" =>
       /\ ~W!Exists(o)
       /\ \A call \in Calls, p \in W!ItemMaps : <<call, o, p>> \notin late

FormHasMethod(o) ==
    form # NoForm /\ form.order = o => form.row.method = orders[o].method

\* A sale is made, and asked for, only after the payment or for cash.
Backed(o) == orders[o].method = "cash" \/ sessions[o] = "paid"
SaleBacked(o) == (reservations[o].status = "CONFIRMED" \/ Asked(o)) => Backed(o)

\* A cancelled order can not be paid for any more.
Closed(o) ==
    orders[o].status = "cancelled" =>
       /\ sessions[o] \notin {"open", "paid"}
       /\ \A t \in Threads : Checks(t, o) => sessions[o] = "expired"

\* A cash order is at work in one thread only, which asks for the sale last.
CashPath(o) ==
    orders[o].method = "cash" =>
       /\ sessions[o] = "none"
       /\ \A t \in Threads : Checks(t, o) =>
             /\ threads[t].at \in {"items", "reserve", "confirm"}
             /\ threads[t].at # "confirm" =>
                   reservations[o].status # "CONFIRMED" /\ ~Asked(o)

\* While that thread works, and after it has cancelled the order, no copy of the
\* order says CONFIRMED.
CashUnseen(o) ==
    orders[o].method = "cash" =>
       ((orders[o].status = "cancelled" \/ \E t \in Threads : Checks(t, o)) =>
          /\ orders[o].seen # "CONFIRMED"
          /\ form # NoForm /\ form.order = o => form.row.seen # "CONFIRMED")

\* The rest is about orders whose status staff have not changed.
Account ==
    /\ \A o \in Orders : NothingAsked(o)
    /\ \A o \in Orders \ edited :
          /\ FormHasMethod(o) /\ SaleBacked(o) /\ Closed(o)
          /\ CashPath(o) /\ CashUnseen(o)

Tells(t, o) == threads[t].at = "email" /\ Of(t) = o

\* ToldOnce without counting: of a paid order one of three things is true.
Told ==
    \A o \in Orders \ edited :
       IF orders[o].status = "paid"
         THEN \/ /\ emails[o] = 1 /\ o \notin unsent
                 /\ \A t \in Threads : ~Tells(t, o)
              \/ /\ emails[o] = 0 /\ o \notin unsent
                 /\ \E t \in Threads : \A u \in Threads : Tells(u, o) <=> u = t
              \/ /\ emails[o] = 0 /\ o \in unsent
                 /\ \A t \in Threads : ~Tells(t, o)
         ELSE /\ emails[o] = 0 /\ o \notin unsent
              /\ \A t \in Threads : ~Tells(t, o)

(***************************************************************************)
(* Warehouse's part of a step                                              *)
(***************************************************************************)

\* What a step may do to the reservation of o: nothing, make it for a request
\* that is underway, let its time run out, or settle it; it is sold only for a
\* confirm request that is underway.
Moves(o) ==
    \/ reservations'[o] = reservations[o]
    \/ /\ ~W!Exists(o)
       /\ reservations'[o].status = "PENDING" /\ reservations'[o].key = o
       /\ reservations'[o].items \in W!Payloads
       /\ Underway("reserve", o, reservations'[o].items)
    \/ /\ reservations[o].status = "PENDING"
       /\ reservations'[o].items = reservations[o].items
       /\ reservations'[o].key = reservations[o].key
       /\ reservations'[o].status \in FinalStatuses \cup {"PENDING"}
       /\ reservations'[o].status = "CONFIRMED" => Asked(o)

AllMove ==
    /\ reservations' \in [Orders -> W!Reservation] /\ created' \in Nat
    /\ \A o \in Orders : Moves(o)

\* Releasing or letting time pass settles nothing as CONFIRMED.
LEMMA ReleaseMoves ==
    ASSUME TypeInv, NEW o \in Orders, NEW s \in {"CANCELLED", "EXPIRED"},
           reservations[o].status = "PENDING", W!Release(o, s), created' = created
    PROVE  AllMove
  BY DEF TypeInv, W!Release, AllMove, Moves, FinalStatuses, W!Reservation, W!Statuses

\* Serving a request moves the reservation that it is about.
LEMMA ServeMoves ==
    ASSUME TypeInv, NEW call \in Calls, NEW o \in Orders, NEW items \in W!ItemMaps,
           NEW answer, Underway(call, o, items), Serve(call, o, items, answer)
    PROVE  AllMove
<1>1. CASE UNCHANGED warehouse
  BY <1>1 DEF TypeInv, warehouse, AllMove, Moves
<1>2. CASE call = "reserve" /\ items \in W!Payloads /\ W!CreateReservation(o, items, o)
  <2>1. ~W!Exists(o)
    BY <1>2 DEF W!CreateReservation, W!CreateOutcome, W!Matches
  <2>2. reservations' = [reservations EXCEPT ![o] =
            [status |-> "PENDING", items |-> items, key |-> o, due |-> FALSE,
             serial |-> created]]
        /\ created' = created + 1
    BY <1>2 DEF W!CreateReservation
  <2>3. reservations' \in [Orders -> W!Reservation]
    BY <2>2 DEF TypeInv, W!Reservation, W!Statuses
  <2>. QED BY <1>2, <2>1, <2>2, <2>3 DEF TypeInv, AllMove, Moves
<1>3. CASE call = "confirm" /\ W!ConfirmReservation(o)
  <2>1. reservations[o].status = "PENDING"
    BY <1>3 DEF W!ConfirmReservation, W!ConfirmOutcome, TypeInv, W!Reservation,
                W!Statuses
  <2>2. CASE W!Sell(o)
    <3>1. Asked(o)
      BY <1>3 DEF Asked
    <3>. QED
      BY <1>3, <2>1, <2>2, <3>1 DEF W!ConfirmReservation, W!Sell, TypeInv, AllMove,
         Moves, FinalStatuses, W!Reservation, W!Statuses
  <2>3. CASE W!Release(o, "EXPIRED")
    BY <1>3, <2>1, <2>3, ReleaseMoves DEF W!ConfirmReservation
  <2>. QED BY <1>3, <2>2, <2>3 DEF W!ConfirmReservation
<1>4. CASE call = "cancel" /\ W!CancelReservation(o)
  <2>1. reservations[o].status = "PENDING"
    BY <1>4 DEF W!CancelReservation, W!CancelOutcome, TypeInv, W!Reservation, W!Statuses
  <2>. QED BY <1>4, <2>1, ReleaseMoves DEF W!CancelReservation
<1>. QED BY <1>1, <1>2, <1>3, <1>4 DEF Serve

\* Every step moves reservations in these ways only.
LEMMA ReservationMoves ==
    ASSUME TypeInv, [Next]_vars
    PROVE  AllMove
<1>1. ASSUME NEW t \in Threads, ServeCall(t) PROVE AllMove
  <2>1. threads[t].at \in Calls /\ Of(t) \in Orders /\ threads[t].items \in W!ItemMaps
    BY <1>1 DEF ServeCall, Awaits, TypeInv, ThreadsOK, Thread, Calls
  <2>2. Underway(threads[t].at, Of(t), threads[t].items)
    BY DEF Underway
  <2>. QED BY <1>1, <2>1, <2>2, ServeMoves DEF ServeCall
<1>2. CASE ServeLate
  <2>1. PICK r \in late, answer \in {"rejected"} \cup W!Statuses :
               Serve(r[1], r[2], r[3], answer)
    BY <1>2 DEF ServeLate
  <2>2. r[1] \in Calls /\ r[2] \in Orders /\ r[3] \in W!ItemMaps
        /\ r = <<r[1], r[2], r[3]>>
    BY DEF TypeInv, TypeOK
  <2>3. Underway(r[1], r[2], r[3])
    BY <2>2 DEF Underway
  <2>. QED BY <2>1, <2>2, <2>3, ServeMoves
<1>3. ASSUME NEW o \in Orders, TtlElapses(o) PROVE AllMove
  BY <1>3 DEF TtlElapses, W!TtlElapses, TypeInv, AllMove, Moves, W!Reservation,
              FinalStatuses
<1>4. CASE StartExpiry
  BY <1>4 DEF StartExpiry, W!StartExpiry, TypeInv, AllMove, Moves
<1>5. CASE ExpireNext
  <2>1. PICK o \in Orders : W!ExpireNext(Beat, o)
    BY <1>5 DEF ExpireNext
  <2>2. CASE W!CancelOutcome(o) = "released"
    <3>1. reservations[o].status = "PENDING"
      BY <2>2 DEF W!CancelOutcome, TypeInv, W!Reservation, W!Statuses
    <3>. QED BY <2>1, <2>2, <3>1, ReleaseMoves DEF W!ExpireNext
  <2>3. CASE W!CancelOutcome(o) # "released"
    BY <2>1, <2>3 DEF W!ExpireNext, TypeInv, AllMove, Moves
  <2>. QED BY <2>2, <2>3
<1>6. ASSUME NEW b \in Books, SyncDeletion(b) PROVE AllMove
  BY <1>6 DEF SyncDeletion, W!SyncBook, TypeInv, AllMove, Moves
<1>7. CASE UNCHANGED warehouse
  BY <1>7 DEF warehouse, TypeInv, AllMove, Moves
<1>8. ASSUME NEW t \in Threads,
             \/ \E o \in Orders, method \in Methods : PlaceOrder(t, o, method)
             \/ Reserve(t) \/ Retry(t) \/ GiveUp(t) \/ Rejected(t) \/ Reserved(t)
             \/ Confirmed(t) \/ Released(t) \/ SaveFails(t)
      PROVE  UNCHANGED warehouse
  BY <1>8 DEF PlaceOrder, Reserve, Retry, GiveUp, Rejected, Reserved, Confirmed,
              Released, SaveFails
<1>9. ASSUME NEW t \in Threads,
             \/ CreateStripeSession(t) \/ FailStripeSession(t) \/ Redirect(t)
             \/ \E o \in Orders : PaidWebhook(t, o) \/ ExpiredWebhook(t, o)
             \/ CommitPaid(t) \/ CommitExpired(t) \/ SendConfirmation(t)
             \/ ThreadDies(t)
      PROVE  UNCHANGED warehouse
  BY <1>9 DEF CreateStripeSession, FailStripeSession, Redirect, PaidWebhook,
              ExpiredWebhook, CommitPaid, CommitExpired, SendConfirmation, ThreadDies
<1>10. ASSUME \/ \E b \in Books : DeleteBook(b)
              \/ \E o \in Orders, via \in {"api", "admin"} : OpenForm(o, via)
              \/ SaveForm \/ \E o \in Orders : DeleteOrder(o)
              \/ \E o \in Orders : Pay(o) \/ SessionExpires(o)
              \/ EnableIntegration \/ UNCHANGED vars
       PROVE  UNCHANGED warehouse
  BY <1>10 DEF DeleteBook, OpenForm, SaveForm, DeleteOrder, Pay, SessionExpires,
               EnableIntegration, vars
<1>. QED
  BY <1>1, <1>2, <1>3, <1>4, <1>5, <1>6, <1>7, <1>8, <1>9, <1>10 DEF Next

\* The steps of Warehouse alone leave the shop as it is.
LEMMA WorldSteps ==
    ASSUME \/ ServeLate \/ StartExpiry \/ ExpireNext \/ UNCHANGED vars
           \/ \E b \in Books : SyncDeletion(b)
           \/ \E o \in Orders : TtlElapses(o)
    PROVE  UNCHANGED shop
  BY DEF ServeLate, StartExpiry, ExpireNext, SyncDeletion, TtlElapses, vars

(***************************************************************************)
(* Threads: what a step makes of the one that takes it                     *)
(***************************************************************************)

Becomes(t, at, event, order, known, items, answer) ==
    /\ threads' \in [Threads -> Thread]
    /\ \A u \in Threads \ {t} : threads'[u] = threads[u]
    /\ threads'[t].at = at /\ threads'[t].event = event /\ threads'[t].order = order
    /\ threads'[t].reservation = known /\ threads'[t].items = items
    /\ threads'[t].answer = answer

\* A thread that is not idle works on an order.
LEMMA WorksOnOrder ==
    ASSUME TypeInv, NEW t \in Threads, threads[t].at # "idle"
    PROVE  Of(t) \in Orders /\ Of(t) # NoOrder
  BY CheckoutAssumption DEF TypeInv, ThreadsOK

\* The attempt numbers 0 and 1 are in bounds.
LEMMA TriesType == 0 \in 0..MaxTries /\ 1 \in 0..MaxTries
  BY CheckoutAssumption

\* An idle thread and an empty payload are well typed.
LEMMA IdleType == Idle \in Thread /\ W!NoItems \in W!ItemMaps
<1>1. W!NoItems \in W!ItemMaps
  BY CheckoutAssumption DEF W!NoItems, W!ItemMaps
<1>. QED BY <1>1, TriesType DEF Idle, Thread

\* A thread that is given a well-typed state, and the others keep theirs.
LEMMA SetEffect ==
    ASSUME TypeInv, NEW t \in Threads, NEW new \in Thread,
           threads' = [threads EXCEPT ![t] = new]
    PROVE  Becomes(t, new.at, new.event, new.order, new.reservation, new.items,
                   new.answer)
  BY DEF TypeInv, ThreadsOK, Becomes

\* A thread that ends is idle.
LEMMA EndsEffect ==
    ASSUME TypeInv, NEW t \in Threads, Ends(t)
    PROVE  /\ Becomes(t, "idle", "checkout", NoOrder, FALSE, W!NoItems, "none")
           /\ threads'[t] = Idle
<1>1. threads' = [threads EXCEPT ![t] = Idle]
  BY DEF Ends
<1>2. threads'[t] = Idle
  BY <1>1 DEF TypeInv, ThreadsOK
<1>. QED BY <1>1, <1>2, IdleType DEF Becomes, TypeInv, ThreadsOK, Idle

\* A thread that goes on to a local step keeps the rest of its state.
LEMMA GoesEffect ==
    ASSUME TypeInv, NEW t \in Threads, NEW at \in {"redirect", "commit", "email"},
           Goes(t, at)
    PROVE  Becomes(t, at, threads[t].event, threads[t].order, threads[t].reservation,
                   threads[t].items, "none")
<1>. DEFINE new == [threads[t] EXCEPT !.at = at, !.tries = 0, !.answer = "none"]
<1>1. threads' = [threads EXCEPT ![t] = new]
  BY DEF TypeInv, ThreadsOK, Goes
<1>2. new \in Thread
  BY TriesType DEF TypeInv, ThreadsOK, Thread
<1>3. /\ new.at = at /\ new.event = threads[t].event /\ new.order = threads[t].order
      /\ new.reservation = threads[t].reservation /\ new.items = threads[t].items
      /\ new.answer = "none"
  BY DEF TypeInv, ThreadsOK, Thread
<1>. HIDE DEF new
<1>. QED BY <1>1, <1>2, <1>3, SetEffect

\* A thread that sends a cancel request keeps the rest of its state.
LEMMA SendsEffect ==
    ASSUME TypeInv, NEW t \in Threads, Sends(t, "cancel")
    PROVE  Becomes(t, "cancel", threads[t].event, threads[t].order,
                   threads[t].reservation, threads[t].items, "awaited")
<1>. DEFINE new == [threads[t] EXCEPT !.at = "cancel", !.tries = 1,
                                      !.answer = "awaited"]
<1>1. threads' = [threads EXCEPT ![t] = new]
  BY DEF TypeInv, ThreadsOK, Sends
<1>2. new \in Thread
  BY TriesType DEF TypeInv, ThreadsOK, Thread, Calls
<1>3. /\ new.at = "cancel" /\ new.event = threads[t].event
      /\ new.order = threads[t].order /\ new.reservation = threads[t].reservation
      /\ new.items = threads[t].items /\ new.answer = "awaited"
  BY DEF TypeInv, ThreadsOK, Thread
<1>. HIDE DEF new
<1>. QED BY <1>1, <1>2, <1>3, SetEffect

\* What a thread's answer is when it turns to a step.
First(at) == IF at \in Calls THEN "awaited" ELSE "none"

\* A thread takes up a request with the copy of the order it has read.
LEMMA StartsEffect ==
    ASSUME TypeInv, NEW t \in Threads, NEW event \in {"checkout", "paid", "expired"},
           NEW o \in Orders, NEW known \in BOOLEAN,
           NEW at \in Calls \cup {"items", "stripe", "commit"},
           Starts(t, event, o, known, at)
    PROVE  Becomes(t, at, event, o, known, W!NoItems, First(at))
<1>. DEFINE new == [at |-> at, event |-> event, order |-> o, reservation |-> known,
                    items |-> W!NoItems, tries |-> IF at \in Calls THEN 1 ELSE 0,
                    answer |-> IF at \in Calls THEN "awaited" ELSE "none"]
<1>1. threads' = [threads EXCEPT ![t] = new]
  BY DEF Starts
<1>2. new \in Thread
  BY TriesType, IdleType DEF Thread
<1>3. /\ new.at = at /\ new.event = event /\ new.order = o /\ new.reservation = known
      /\ new.items = W!NoItems /\ new.answer = First(at)
  BY DEF First
<1>. HIDE DEF new
<1>. QED BY <1>1, <1>2, <1>3, SetEffect

\* create_reservation sends what the order asks for.
LEMMA ReserveEffect ==
    ASSUME TypeInv, NEW t \in Threads, Reserve(t)
    PROVE  Becomes(t, "reserve", threads[t].event, threads[t].order,
                   threads[t].reservation, Requested(Of(t)), "awaited")
<1>. DEFINE items == Requested(Of(t))
            new == [threads[t] EXCEPT !.at = "reserve", !.items = items,
                                      !.tries = 1, !.answer = "awaited"]
<1>1. items \in W!ItemMaps
  <2>1. Of(t) \in Orders /\ Cart[Of(t)] \in [Books -> 0..MaxItem]
    BY WorksOnOrder, CheckoutAssumption DEF Reserve, W!ItemMaps
  <2>. QED BY <2>1, CheckoutAssumption DEF Requested, W!ItemMaps
<1>2. threads' = [threads EXCEPT ![t].at = "reserve", ![t].items = items,
                                 ![t].tries = 1, ![t].answer = "awaited"]
  BY DEF Reserve
<1>. HIDE DEF items
<1>3. threads' = [threads EXCEPT ![t] = new]
  BY <1>2 DEF TypeInv, ThreadsOK
<1>4. new \in Thread
  BY <1>1, TriesType DEF TypeInv, ThreadsOK, Thread, Calls
<1>5. /\ new.at = "reserve" /\ new.event = threads[t].event
      /\ new.order = threads[t].order /\ new.reservation = threads[t].reservation
      /\ new.items = items /\ new.answer = "awaited"
  BY DEF TypeInv, ThreadsOK, Thread
<1>. HIDE DEF new
<1>6. Becomes(t, "reserve", threads[t].event, threads[t].order,
              threads[t].reservation, items, "awaited")
  BY <1>3, <1>4, <1>5, SetEffect
<1>. QED BY <1>6 DEF items

\* The answer of a call that was served.
LEMMA AnswerEffect ==
    ASSUME TypeInv, NEW t \in Threads, NEW answer \in {"rejected"} \cup W!Statuses,
           threads' = [threads EXCEPT ![t].answer = answer]
    PROVE  Becomes(t, threads[t].at, threads[t].event, threads[t].order,
                   threads[t].reservation, threads[t].items, answer)
<1>. DEFINE new == [threads[t] EXCEPT !.answer = answer]
<1>1. threads' = [threads EXCEPT ![t] = new]
  BY DEF TypeInv, ThreadsOK
<1>2. new \in Thread
  BY DEF TypeInv, ThreadsOK, Thread
<1>3. /\ new.at = threads[t].at /\ new.event = threads[t].event
      /\ new.order = threads[t].order /\ new.reservation = threads[t].reservation
      /\ new.items = threads[t].items /\ new.answer = answer
  BY DEF TypeInv, ThreadsOK, Thread
<1>. HIDE DEF new
<1>. QED BY <1>1, <1>2, <1>3, SetEffect

\* A repeated request is the same request.
LEMMA RetryEffect ==
    ASSUME TypeInv, NEW t \in Threads, Retry(t)
    PROVE  Becomes(t, threads[t].at, threads[t].event, threads[t].order,
                   threads[t].reservation, threads[t].items, "awaited")
<1>. DEFINE tries == threads[t].tries + 1
            new == [threads[t] EXCEPT !.tries = tries, !.answer = "awaited"]
<1>1. threads' = [threads EXCEPT ![t].tries = tries, ![t].answer = "awaited"]
  BY DEF Retry, TypeInv, ThreadsOK
<1>2. tries \in 0..MaxTries
  BY CheckoutAssumption DEF Retry, TypeInv, ThreadsOK, Thread
<1>. HIDE DEF tries
<1>3. threads' = [threads EXCEPT ![t] = new]
  BY <1>1 DEF TypeInv, ThreadsOK
<1>4. new \in Thread
  BY <1>2 DEF TypeInv, ThreadsOK, Thread
<1>5. /\ new.at = threads[t].at /\ new.event = threads[t].event
      /\ new.order = threads[t].order /\ new.reservation = threads[t].reservation
      /\ new.items = threads[t].items /\ new.answer = "awaited"
  BY DEF TypeInv, ThreadsOK, Thread
<1>. HIDE DEF new
<1>. QED BY <1>3, <1>4, <1>5, SetEffect

\* After its reservation a thread asks for the sale, or goes to Stripe.
Sells(t) == threads[t].event = "paid" \/ orders[Of(t)].method = "cash"
After(t) == IF Sells(t) THEN "confirm" ELSE "stripe"

\* After the reserve call a thread confirms the sale or goes to Stripe.
LEMMA ReservedEffect ==
    ASSUME TypeInv, NEW t \in Threads, Reserved(t)
    PROVE  Becomes(t, After(t), threads[t].event, threads[t].order, TRUE, W!NoItems,
                   First(After(t)))
<1>. DEFINE at == IF Sells(t) THEN "confirm" ELSE "stripe"
            tries == IF Sells(t) THEN 1 ELSE 0
            answer == IF Sells(t) THEN "awaited" ELSE "none"
            copy == [threads[t] EXCEPT !.reservation = TRUE, !.items = W!NoItems]
            f == [threads EXCEPT ![t] = copy]
            new == [copy EXCEPT !.at = at, !.tries = tries, !.answer = answer]
<1>1. threads[t] \in Thread /\ copy \in Thread
  BY IdleType DEF TypeInv, ThreadsOK, Thread
<1>2. /\ copy.event = threads[t].event /\ copy.order = threads[t].order
      /\ copy.reservation = TRUE /\ copy.items = W!NoItems
  BY <1>1 DEF Thread
<1>3. f = [threads EXCEPT ![t].reservation = TRUE, ![t].items = W!NoItems]
  BY DEF TypeInv, ThreadsOK
<1>4. threads' = [f EXCEPT ![t].at = at, ![t].tries = tries, ![t].answer = answer]
  BY <1>3 DEF Reserved, Sells
<1>5. at \in Calls \cup {"stripe"} /\ tries \in 0..MaxTries
      /\ answer \in {"none", "awaited"}
  BY TriesType DEF Calls
<1>. HIDE DEF copy, at, tries, answer
<1>6. new \in Thread
  BY <1>1, <1>5 DEF Thread
<1>7. /\ new.at = at /\ new.event = copy.event /\ new.order = copy.order
      /\ new.reservation = copy.reservation /\ new.items = copy.items
      /\ new.answer = answer
  BY <1>1 DEF Thread
<1>8. threads' = [threads EXCEPT ![t] = new]
  BY <1>1, <1>4 DEF TypeInv, ThreadsOK
<1>. HIDE DEF new
<1>9. Becomes(t, at, threads[t].event, threads[t].order, TRUE, W!NoItems, answer)
  BY <1>2, <1>6, <1>7, <1>8, SetEffect
<1>10. at = After(t) /\ answer = First(After(t))
  BY DEF at, answer, After, First, Calls
<1>. QED BY <1>9, <1>10

(***************************************************************************)
(* Typing                                                                  *)
(***************************************************************************)

\* A thread that goes on goes on about an order.
LEMMA BecomesType ==
    ASSUME TypeInv, NEW t \in Threads, NEW at, NEW event, NEW o \in Orders, NEW known,
           NEW items, NEW answer, at # "idle",
           Becomes(t, at, event, o, known, items, answer)
    PROVE  ThreadsOK'
  BY DEF TypeInv, ThreadsOK, Of, Becomes

\* A thread that ends is well typed.
LEMMA EndsType ==
    ASSUME TypeInv, NEW t \in Threads, Ends(t)
    PROVE  ThreadsOK'
  BY EndsEffect DEF TypeInv, ThreadsOK, Of, Becomes, Idle

\* A thread that goes on is well typed.
LEMMA GoesType ==
    ASSUME TypeInv, NEW t \in Threads, threads[t].at # "idle",
           NEW at \in {"redirect", "commit", "email"}, Goes(t, at)
    PROVE  ThreadsOK'
  BY GoesEffect, BecomesType, WorksOnOrder DEF Of

\* Cancelling an order keeps its row well typed.
LEMMA CancelledType ==
    ASSUME TypeInv, NEW o \in Orders, Cancelled(o)
    PROVE  orders' \in [Orders -> Order]
  BY DEF TypeInv, TypeOK, Cancelled, Order, OrderStatuses

\* A request that is given up is well typed.
LEMMA AbandonedType ==
    ASSUME TypeInv, NEW t \in Threads
    PROVE  Abandoned(t) \subseteq Calls \X Orders \X W!ItemMaps
  BY DEF TypeInv, TypeOK, ThreadsOK, Abandoned, Awaits, Thread, Calls

\* Every step keeps the types.
LEMMA TypeStep ==
    ASSUME TypeInv, [Next]_vars
    PROVE  TypeInv'
<1>0. reservations' \in [Orders -> W!Reservation] /\ created' \in Nat
  BY ReservationMoves DEF AllMove
<1>. USE CheckoutAssumption
<1>1. ASSUME NEW t \in Threads, NEW o \in Orders, NEW method \in Methods,
             PlaceOrder(t, o, method)
      PROVE  TypeInv'
  <2>1. ThreadsOK'
    <3>1. CASE UNCHANGED threads
      BY <3>1 DEF TypeInv, ThreadsOK, Of
    <3>2. ASSUME NEW at \in {"items", "stripe"}, Starts(t, "checkout", o, FALSE, at)
          PROVE  ThreadsOK'
      <4>1. Becomes(t, at, "checkout", o, FALSE, W!NoItems, First(at))
        BY <3>2, StartsEffect
      <4>. QED BY <4>1, BecomesType
    <3>3. CASE ~UNCHANGED threads /\ enabled
      <4>1. Starts(t, "checkout", o, FALSE, "items")
        BY <1>1, <3>3 DEF PlaceOrder, Starts
      <4>. QED BY <3>2, <4>1
    <3>4. CASE ~UNCHANGED threads /\ ~enabled
      <4>1. Starts(t, "checkout", o, FALSE, "stripe")
        BY <1>1, <3>4 DEF PlaceOrder, Starts
      <4>. QED BY <3>2, <4>1
    <3>. QED BY <3>1, <3>3, <3>4
  <2>2. orders' \in [Orders -> Order]
    <3>. DEFINE rows == [orders EXCEPT ![o].status = "new"]
    <3>1. rows \in [Orders -> Order]
      BY DEF TypeInv, TypeOK, Order, OrderStatuses
    <3>2. orders' = [rows EXCEPT ![o].method = method]
      BY <1>1 DEF PlaceOrder
    <3>. HIDE DEF rows
    <3>. QED BY <3>1, <3>2 DEF Order, Methods
  <2>. QED BY <1>1, <1>0, <2>1, <2>2
       DEF PlaceOrder, TypeInv, TypeOK, ThreadsOK, mail, staff
<1>2. ASSUME NEW t \in Threads, Reserve(t)
      PROVE  TypeInv'
  <2>1. ThreadsOK'
    BY <1>2, ReserveEffect, BecomesType, WorksOnOrder DEF Reserve, Of
  <2>. QED BY <1>2, <1>0, <2>1 DEF Reserve, TypeInv, TypeOK, ThreadsOK, mail, staff
<1>3. ASSUME NEW t \in Threads, ServeCall(t)
      PROVE  TypeInv'
  <2>1. ThreadsOK'
    BY <1>3, AnswerEffect, BecomesType, WorksOnOrder DEF ServeCall, Awaits, Of, Calls
  <2>. QED BY <1>3, <1>0, <2>1 DEF ServeCall, TypeInv, TypeOK, ThreadsOK, mail, staff
<1>4. ASSUME NEW t \in Threads, Retry(t)
      PROVE  TypeInv'
  <2>1. ThreadsOK'
    BY <1>4, RetryEffect, BecomesType, WorksOnOrder DEF Retry, Of, Calls
  <2>. QED BY <1>4, <1>0, <2>1, AbandonedType
       DEF Retry, TypeInv, TypeOK, ThreadsOK, mail, staff
<1>5. ASSUME NEW t \in Threads, GiveUp(t)
      PROVE  TypeInv'
  <2>1. ThreadsOK'
    BY <1>5, EndsType DEF GiveUp
  <2>2. orders' \in [Orders -> Order]
    BY <1>5, CancelledType, WorksOnOrder DEF GiveUp, TypeInv, TypeOK, Calls
  <2>. QED BY <1>5, <1>0, <2>1, <2>2, AbandonedType
       DEF GiveUp, TypeInv, TypeOK, ThreadsOK, mail, staff
<1>6. ASSUME NEW t \in Threads, Rejected(t)
      PROVE  TypeInv'
  <2>1. ThreadsOK'
    BY <1>6, EndsType DEF Rejected
  <2>2. orders' \in [Orders -> Order]
    BY <1>6, CancelledType, WorksOnOrder DEF Rejected, TypeInv, TypeOK, Calls
  <2>. QED BY <1>6, <1>0, <2>1, <2>2 DEF Rejected, TypeInv, TypeOK, ThreadsOK, mail, staff
<1>7. ASSUME NEW t \in Threads, Reserved(t)
      PROVE  TypeInv'
  <2>1. ThreadsOK'
    <3>1. Of(t) \in Orders /\ After(t) # "idle"
      BY <1>7, WorksOnOrder DEF Reserved, Answered, After
    <3>. QED BY <1>7, <3>1, ReservedEffect, BecomesType DEF Of
  <2>2. orders' \in [Orders -> Order]
    <3>. DEFINE rows == [orders EXCEPT ![Of(t)].reservation = TRUE]
    <3>1. rows \in [Orders -> Order]
      BY DEF TypeInv, TypeOK, Order
    <3>2. orders' = [rows EXCEPT ![Of(t)].seen = threads[t].answer]
          /\ threads[t].answer \in W!Statuses
      BY <1>7 DEF Reserved, Answered
    <3>. HIDE DEF rows
    <3>. QED BY <3>1, <3>2 DEF Order
  <2>. QED BY <1>7, <1>0, <2>1, <2>2 DEF Reserved, TypeInv, TypeOK, ThreadsOK, mail, staff
<1>8. ASSUME NEW t \in Threads, Confirmed(t)
      PROVE  TypeInv'
  <2>1. ThreadsOK'
    BY <1>8, EndsType, GoesType, WorksOnOrder DEF Confirmed, Answered, Calls
  <2>2. orders' \in [Orders -> Order]
    BY <1>8, WorksOnOrder DEF Confirmed, Answered, TypeInv, TypeOK, Order, Calls
  <2>. QED BY <1>8, <1>0, <2>1, <2>2
       DEF Confirmed, TypeInv, TypeOK, ThreadsOK, mail, staff
<1>9. ASSUME NEW t \in Threads, Released(t)
      PROVE  TypeInv'
  <2>1. ThreadsOK'
    BY <1>9, EndsType, GoesType, WorksOnOrder DEF Released, Answered, Calls
  <2>2. orders' \in [Orders -> Order]
    <3>1. Of(t) \in Orders /\ threads[t].answer \in W!Statuses
      BY <1>9, WorksOnOrder DEF Released, Answered, Calls
    <3>. DEFINE rows == [orders EXCEPT ![Of(t)].seen = threads[t].answer]
    <3>2. rows \in [Orders -> Order]
      BY <3>1 DEF TypeInv, TypeOK, Order
    <3>3. orders' = rows \/ orders' = [rows EXCEPT ![Of(t)].status = "cancelled"]
      BY <1>9 DEF Released
    <3>. HIDE DEF rows
    <3>. QED BY <3>1, <3>2, <3>3 DEF Order, OrderStatuses
  <2>. QED BY <1>9, <1>0, <2>1, <2>2 DEF Released, TypeInv, TypeOK, ThreadsOK, mail, staff
<1>10. ASSUME NEW t \in Threads, SaveFails(t)
      PROVE  TypeInv'
  <2>1. ThreadsOK'
    BY <1>10, EndsType DEF SaveFails
  <2>. QED BY <1>10, <1>0, <2>1 DEF SaveFails, TypeInv, TypeOK, ThreadsOK, mail, staff
<1>11. ASSUME NEW t \in Threads, CreateStripeSession(t)
      PROVE  TypeInv'
  <2>1. ThreadsOK'
    BY <1>11, GoesType DEF CreateStripeSession
  <2>. QED BY <1>11, <1>0, <2>1
       DEF CreateStripeSession, SessionStates, Of, TypeInv, TypeOK, ThreadsOK, mail,
       staff
<1>12. ASSUME NEW t \in Threads, FailStripeSession(t)
      PROVE  TypeInv'
  <2>1. ThreadsOK'
    BY <1>12, EndsType, SendsEffect, BecomesType, WorksOnOrder DEF FailStripeSession, Of
  <2>2. orders' \in [Orders -> Order]
    BY <1>12, CancelledType, WorksOnOrder DEF FailStripeSession, TypeInv, TypeOK
  <2>3. sessions' \in [Orders -> SessionStates]
    BY <1>12 DEF FailStripeSession, TypeInv, TypeOK, SessionStates
  <2>. QED BY <1>12, <1>0, <2>1, <2>2, <2>3
           DEF FailStripeSession, TypeInv, TypeOK, ThreadsOK, mail, staff
<1>13. ASSUME NEW t \in Threads, Redirect(t)
      PROVE  TypeInv'
  <2>1. ThreadsOK'
    BY <1>13, EndsType DEF Redirect
  <2>2. orders' \in [Orders -> Order]
    <3>1. orders' = [orders EXCEPT ![Of(t)].payment = TRUE]
      BY <1>13 DEF Redirect
    <3>. QED BY <3>1 DEF TypeInv, TypeOK, Order
  <2>3. sessions' \in [Orders -> SessionStates]
    BY <1>13 DEF Redirect, TypeInv, TypeOK, SessionStates
  <2>. QED BY <1>13, <1>0, <2>1, <2>2, <2>3
           DEF Redirect, TypeInv, TypeOK, ThreadsOK, mail, staff
<1>14. ASSUME NEW t \in Threads, NEW o \in Orders, PaidWebhook(t, o)
      PROVE  TypeInv'
  <2>1. ThreadsOK'
    BY <1>14, StartsEffect, BecomesType DEF PaidWebhook, TypeInv, TypeOK, Order, Calls
  <2>. QED BY <1>14, <1>0, <2>1 DEF PaidWebhook, TypeInv, TypeOK, ThreadsOK, mail, staff
<1>15. ASSUME NEW t \in Threads, NEW o \in Orders, ExpiredWebhook(t, o)
      PROVE  TypeInv'
  <2>1. ThreadsOK'
    BY <1>15, StartsEffect, BecomesType DEF ExpiredWebhook, TypeInv, TypeOK, Order, Calls
  <2>. QED BY <1>15, <1>0, <2>1
       DEF ExpiredWebhook, TypeInv, TypeOK, ThreadsOK, mail, staff
<1>16. ASSUME NEW t \in Threads, CommitPaid(t)
      PROVE  TypeInv'
  <2>1. ThreadsOK'
    BY <1>16, EndsType, GoesType DEF CommitPaid
  <2>2. orders' \in [Orders -> Order]
    BY <1>16 DEF CommitPaid, TypeInv, TypeOK, Order, OrderStatuses
  <2>. QED BY <1>16, <1>0, <2>1, <2>2
       DEF CommitPaid, TypeInv, TypeOK, ThreadsOK, mail, staff
<1>17. ASSUME NEW t \in Threads, CommitExpired(t)
      PROVE  TypeInv'
  <2>1. ThreadsOK'
    BY <1>17, EndsType DEF CommitExpired
  <2>2. orders' \in [Orders -> Order]
    BY <1>17, CancelledType DEF CommitExpired, TypeInv, TypeOK, ThreadsOK
  <2>. QED BY <1>17, <1>0, <2>1, <2>2
       DEF CommitExpired, TypeInv, TypeOK, ThreadsOK, mail, staff
<1>18. ASSUME NEW t \in Threads, SendConfirmation(t)
      PROVE  TypeInv'
  <2>1. ThreadsOK'
    BY <1>18, EndsType DEF SendConfirmation
  <2>. QED BY <1>18, <1>0, <2>1
       DEF SendConfirmation, TypeInv, TypeOK, ThreadsOK, mail, staff
<1>19. ASSUME NEW t \in Threads, ThreadDies(t)
      PROVE  TypeInv'
  <2>1. ThreadsOK'
    BY <1>19, EndsType DEF ThreadDies
  <2>. QED BY <1>19, <1>0, <2>1, AbandonedType
       DEF ThreadDies, TypeInv, TypeOK, ThreadsOK, mail, staff
<1>20. ASSUME NEW b \in Books, DeleteBook(b)
      PROVE  TypeInv'
  BY <1>20, <1>0
       DEF DeleteBook, TypeInv, TypeOK, ThreadsOK, shop, mail, staff, Of, Order,
       OrderStatuses, SessionStates, Form, NoForm
<1>21. ASSUME NEW o \in Orders, NEW via \in {"api", "admin"}, OpenForm(o, via)
      PROVE  TypeInv'
  <2>1. Cardinality(Books \ catalogue) \in Nat /\ Cardinality(bare) \in Nat
    BY FS_CardinalityType, FS_Subset DEF TypeInv, TypeOK
  <2>2. form = NoForm /\ edits + 1 <= MaxStaff
    BY <1>21, <2>1 DEF OpenForm, StaffActs, TypeInv, TypeOK
  <2>3. form' \in Form /\ form'.order = o
    BY <1>21 DEF OpenForm, Form, TypeInv, TypeOK
  <2>4. form' # NoForm
    BY <2>3 DEF NoForm
  <2>. QED BY <1>21, <1>0, <2>2, <2>3, <2>4
           DEF OpenForm, TypeInv, TypeOK, ThreadsOK, Of, mail
<1>22. ASSUME SaveForm
      PROVE  TypeInv'
  <2>1. form.order \in Orders /\ form.row \in Order /\ orders[form.order] \in Order
    BY <1>22 DEF SaveForm, TypeInv, TypeOK, Form
  <2>2. orders' \in [Orders -> Order]
    BY <1>22, <2>1 DEF SaveForm, TypeInv, TypeOK, Order
  <2>3. form' = NoForm /\ NoForm \in Form
    BY <1>22 DEF SaveForm, NoForm, NoRow, Form, Order, OrderStatuses, Methods, W!Statuses
  <2>4. edits' \in 0..MaxStaff /\ edits' + 0 <= MaxStaff
    BY <1>22 DEF SaveForm, TypeInv, TypeOK
  <2>5. edited' \subseteq Orders
    BY <1>22, <2>1 DEF SaveForm, TypeInv, TypeOK
  <2>. QED BY <1>22, <1>0, <2>2, <2>3, <2>4, <2>5
           DEF SaveForm, TypeInv, TypeOK, ThreadsOK, Of, mail
<1>23. ASSUME NEW o \in Orders, DeleteOrder(o)
      PROVE  TypeInv'
  <2>1. orders' \in [Orders -> Order]
    BY <1>23 DEF DeleteOrder, TypeInv, TypeOK, NoRow, Order, OrderStatuses, Methods,
                 W!Statuses
  <2>. QED BY <1>23, <1>0, <2>1 DEF DeleteOrder, TypeInv, TypeOK, ThreadsOK, Of, mail
<1>24. ASSUME NEW o \in Orders, Pay(o)
      PROVE  TypeInv'
  BY <1>24, <1>0
       DEF Pay, TypeInv, TypeOK, ThreadsOK, shop, mail, staff, Of, Order, OrderStatuses,
       SessionStates, Form, NoForm
<1>25. ASSUME NEW o \in Orders, SessionExpires(o)
      PROVE  TypeInv'
  BY <1>25, <1>0
       DEF SessionExpires, TypeInv, TypeOK, ThreadsOK, shop, mail, staff, Of, Order,
       OrderStatuses, SessionStates, Form, NoForm
<1>26. ASSUME EnableIntegration
      PROVE  TypeInv'
  BY <1>26, <1>0
       DEF EnableIntegration, TypeInv, TypeOK, ThreadsOK, shop, mail, staff, Of, Order,
       OrderStatuses, SessionStates, Form, NoForm
<1>27. CASE UNCHANGED shop
  BY <1>27, <1>0
       DEF shop, TypeInv, TypeOK, ThreadsOK, shop, mail, staff, Of, Order,
       OrderStatuses, SessionStates, Form, NoForm
<1>. QED BY <1>1, <1>2, <1>3, <1>4, <1>5, <1>6, <1>7, <1>8, <1>9, <1>10, <1>11, <1>12,
     <1>13, <1>14, <1>15, <1>16, <1>17, <1>18, <1>19, <1>20, <1>21, <1>22, <1>23, <1>24,
     <1>25, <1>26, <1>27, WorldSteps
     DEF Next

(***************************************************************************)
(* The shop's steps, variable by variable and field by field               *)
(***************************************************************************)

\* Of the rows that the properties are about, only that of o is written.
Writes(o, status, method, known, seen) ==
    /\ orders' \in [Orders -> Order]
    /\ \A p \in Orders \ {o} : orders'[p] = orders[p]
    /\ orders'[o].status = status /\ orders'[o].method = method
    /\ orders'[o].reservation = known /\ orders'[o].seen = seen

Learns(o, known, seen) == Writes(o, orders[o].status, orders[o].method, known, seen)

Decides(o, status) ==
    Writes(o, status, orders[o].method, orders[o].reservation, orders[o].seen)

Stops(t) == Becomes(t, "idle", "checkout", NoOrder, FALSE, W!NoItems, "none")
Turns(t, at, answer) ==
    Becomes(t, at, threads[t].event, threads[t].order, threads[t].reservation,
            threads[t].items, answer)

\* A row that was deleted is not cancelled any more.
Cancels(o) == (Deleted(o) /\ UNCHANGED orders) \/ Decides(o, "cancelled")

\* A write of the status (with or without payment_id) leaves the rest of the rows.
LEMMA WritesEffect ==
    ASSUME TypeInv, TypeInv', NEW o \in Orders, NEW status,
           \/ orders' = [orders EXCEPT ![o].status = status]
           \/ orders' = [orders EXCEPT ![o].status = status, ![o].payment = TRUE]
    PROVE  Decides(o, status)
<1>1. CASE orders' = [orders EXCEPT ![o].status = status]
  BY <1>1 DEF TypeInv, TypeOK, Order, Decides, Writes
<1>2. CASE orders' = [orders EXCEPT ![o].status = status, ![o].payment = TRUE]
  <2>. DEFINE new == [orders[o] EXCEPT !.status = status, !.payment = TRUE]
  <2>1. orders' = [orders EXCEPT ![o] = new]
    BY <1>2 DEF TypeInv, TypeOK
  <2>2. /\ new.status = status /\ new.method = orders[o].method
        /\ new.reservation = orders[o].reservation /\ new.seen = orders[o].seen
    BY DEF TypeInv, TypeOK, Order
  <2>. HIDE DEF new
  <2>. QED BY <2>1, <2>2 DEF TypeInv, TypeOK, Decides, Writes
<1>. QED BY <1>1, <1>2

\* Cancelled writes the status, unless the row was deleted.
LEMMA CancelledEffect ==
    ASSUME TypeInv, TypeInv', NEW o \in Orders, Cancelled(o)
    PROVE  Cancels(o)
<1>1. CASE Deleted(o)
  BY <1>1 DEF Cancelled, Cancels
<1>2. CASE ~Deleted(o)
  BY <1>2, WritesEffect DEF Cancelled, Cancels
<1>. QED BY <1>1, <1>2

PlaceOrderDoes(t, o, method) ==
    /\ threads[t].at = "idle" /\ orders[o].status = "none"
    /\ \A b \in Books : Cart[o][b] > 0 => b \in catalogue
    /\ Writes(o, "new", method, orders[o].reservation, orders[o].seen)
    /\ \/ ~enabled /\ method = "cash" /\ UNCHANGED threads
       \/ enabled /\ Becomes(t, "items", "checkout", o, FALSE, W!NoItems, "none")
       \/ ~enabled /\ method = "card"
          /\ Becomes(t, "stripe", "checkout", o, FALSE, W!NoItems, "none")
    /\ UNCHANGED <<enabled, late, sessions, emails, unsent, catalogue, form, bare,
                   edited>>

\* views.checkout stores the order; the thread stops, or goes on to reserve or to
\* Stripe.
LEMMA PlaceOrderStep ==
    ASSUME TypeInv, TypeInv', NEW t \in Threads, NEW o \in Orders, NEW method \in Methods,
           PlaceOrder(t, o, method)
    PROVE  PlaceOrderDoes(t, o, method)
<1>. USE DEF PlaceOrderDoes
<1>1. Writes(o, "new", method, orders[o].reservation, orders[o].seen)
  <2>. DEFINE new == [orders[o] EXCEPT !.status = "new", !.method = method]
  <2>1. orders' = [orders EXCEPT ![o] = new]
    BY DEF PlaceOrder, TypeInv, TypeOK
  <2>2. /\ new.status = "new" /\ new.method = method
        /\ new.reservation = orders[o].reservation /\ new.seen = orders[o].seen
    BY DEF TypeInv, TypeOK, Order
  <2>. HIDE DEF new
  <2>. QED BY <2>1, <2>2 DEF TypeInv, TypeOK, Writes
<1>2. CASE ~enabled /\ method = "cash"
  BY <1>1, <1>2 DEF PlaceOrder, mail, staff, Methods
<1>3. CASE enabled
  <2>1. Starts(t, "checkout", o, FALSE, "items")
    BY <1>3 DEF PlaceOrder, Starts
  <2>2. Becomes(t, "items", "checkout", o, FALSE, W!NoItems, "none")
    BY <2>1, StartsEffect DEF First, Calls
  <2>. QED BY <1>1, <1>3, <2>2 DEF PlaceOrder, mail, staff
<1>4. CASE ~enabled /\ method = "card"
  <2>1. Starts(t, "checkout", o, FALSE, "stripe")
    BY <1>4 DEF PlaceOrder, Starts
  <2>2. Becomes(t, "stripe", "checkout", o, FALSE, W!NoItems, "none")
    BY <2>1, StartsEffect DEF First, Calls
  <2>. QED BY <1>1, <1>4, <2>2 DEF PlaceOrder, mail, staff
<1>. QED BY <1>2, <1>3, <1>4 DEF Methods

ReserveDoes(t) ==
    /\ Of(t) \in Orders
    /\ threads[t].at = "items"
    /\ Becomes(t, "reserve", threads[t].event, threads[t].order,
               threads[t].reservation, Requested(Of(t)), "awaited")
    /\ UNCHANGED <<enabled, orders, late, sessions, emails, unsent, catalogue,
                   form, bare, edited>>

\* The first attempt of a reserve request.
LEMMA ReserveStep ==
    ASSUME TypeInv, NEW t \in Threads, Reserve(t)
    PROVE  ReserveDoes(t)
  BY ReserveEffect, WorksOnOrder DEF Reserve, mail, staff, ReserveDoes

ServeCallDoes(t) ==
    /\ Of(t) \in Orders
    /\ threads[t].at \in Calls /\ threads[t].answer = "awaited"
    /\ \E answer \in {"rejected"} \cup W!Statuses :
          /\ Serve(threads[t].at, Of(t), threads[t].items, answer)
          /\ Turns(t, threads[t].at, answer)
    /\ UNCHANGED <<enabled, orders, late, sessions, emails, unsent, catalogue,
                   form, bare, edited>>

\* Warehouse serves the request and its answer arrives.
LEMMA ServeCallStep ==
    ASSUME TypeInv, NEW t \in Threads, ServeCall(t)
    PROVE  ServeCallDoes(t)
  BY AnswerEffect, WorksOnOrder
       DEF ServeCall, Calls, Awaits, Turns, mail, staff, ServeCallDoes

\* What stays of the request of a thread that gives up on it.
Leaves(t) ==
    late' = late \/ late' = late \cup {<<threads[t].at, Of(t), threads[t].items>>}

\* The request that a thread gives up may still be served.
LEMMA LeavesEffect ==
    ASSUME NEW t \in Threads, late' = Abandoned(t)
    PROVE  Leaves(t) /\ (threads[t].at \notin Calls => late' = late)
  BY DEF Abandoned, Leaves, Awaits

RetryDoes(t) ==
    /\ Of(t) \in Orders
    /\ threads[t].at \in Calls
    /\ Turns(t, threads[t].at, "awaited") /\ Leaves(t)
    /\ UNCHANGED <<enabled, orders, sessions, emails, unsent, catalogue, form,
                   bare, edited>>

\* An attempt fails and the request is repeated.
LEMMA RetryStep ==
    ASSUME TypeInv, NEW t \in Threads, Retry(t)
    PROVE  RetryDoes(t)
  BY RetryEffect, LeavesEffect, WorksOnOrder
       DEF Retry, Calls, Turns, mail, staff, RetryDoes

\* GiveUp or Rejected.
GiveUpDoes(t) ==
    /\ Of(t) \in Orders
    /\ threads[t].at \in Calls
    /\ Stops(t) /\ Leaves(t)
    /\ IF threads[t].event = "checkout" THEN Cancels(Of(t)) ELSE UNCHANGED orders
    /\ UNCHANGED <<enabled, sessions, emails, unsent, catalogue, form, bare,
                   edited>>

\* The last attempt fails.
LEMMA GiveUpStep ==
    ASSUME TypeInv, TypeInv', NEW t \in Threads, GiveUp(t) \/ Rejected(t)
    PROVE  GiveUpDoes(t)
<1>. USE DEF GiveUpDoes
<1>1. threads[t].at \in Calls /\ threads[t].at # "idle"
  BY DEF GiveUp, Rejected, Calls
<1>2. Stops(t) /\ Leaves(t)
  BY EndsEffect, LeavesEffect DEF GiveUp, Rejected, Stops, Leaves
<1>3. IF threads[t].event = "checkout" THEN Cancels(Of(t)) ELSE UNCHANGED orders
  BY <1>1, WorksOnOrder, CancelledEffect DEF GiveUp, Rejected
<1>. QED BY <1>1, <1>2, <1>3, WorksOnOrder DEF GiveUp, Rejected, mail, staff

ReservedDoes(t) ==
    /\ Of(t) \in Orders
    /\ threads[t].at = "reserve" /\ threads[t].answer \in W!Statuses
    /\ ~Deleted(Of(t))
    /\ Becomes(t, After(t), threads[t].event, threads[t].order, TRUE, W!NoItems,
               First(After(t)))
    /\ Learns(Of(t), TRUE, threads[t].answer)
    /\ UNCHANGED <<enabled, late, sessions, emails, unsent, catalogue, form, bare,
                   edited>>

\* The order learns of its reservation.
LEMMA ReservedStep ==
    ASSUME TypeInv, TypeInv', NEW t \in Threads, Reserved(t)
    PROVE  ReservedDoes(t)
<1>. USE DEF ReservedDoes
<1>1. Of(t) \in Orders
  BY WorksOnOrder DEF Reserved, Answered
<1>2. Learns(Of(t), TRUE, threads[t].answer)
  <2>. DEFINE o == Of(t)
              new == [orders[o] EXCEPT !.reservation = TRUE, !.seen = threads[t].answer]
  <2>1. orders' = [orders EXCEPT ![o] = new]
    BY <1>1 DEF Reserved, TypeInv, TypeOK
  <2>2. /\ new.status = orders[o].status /\ new.method = orders[o].method
        /\ new.reservation = TRUE /\ new.seen = threads[t].answer
    BY <1>1 DEF TypeInv, TypeOK, Order
  <2>. HIDE DEF new
  <2>. QED BY <1>1, <2>1, <2>2 DEF TypeInv, TypeOK, Learns, Writes
<1>. QED BY <1>1, <1>2, ReservedEffect DEF Reserved, Answered, mail, staff

\* A write of warehouse_status leaves the rest of the rows.
LEMMA SeenEffect ==
    ASSUME TypeInv, TypeInv', NEW o \in Orders, NEW seen,
           orders' = [orders EXCEPT ![o].seen = seen]
    PROVE  Learns(o, orders[o].reservation, seen)
  BY DEF TypeInv, TypeOK, Order, Learns, Writes

ConfirmedDoes(t) ==
    /\ Of(t) \in Orders
    /\ threads[t].at = "confirm" /\ threads[t].answer \in W!Statuses
    /\ ~Deleted(Of(t))
    /\ Learns(Of(t), orders[Of(t)].reservation, threads[t].answer)
    /\ IF threads[t].event = "checkout" THEN Stops(t) ELSE Turns(t, "commit", "none")
    /\ UNCHANGED <<enabled, late, sessions, emails, unsent, catalogue, form, bare,
                   edited>>

\* The order learns of the sale.
LEMMA ConfirmedStep ==
    ASSUME TypeInv, TypeInv', NEW t \in Threads, Confirmed(t)
    PROVE  ConfirmedDoes(t)
<1>. USE DEF ConfirmedDoes
<1>1. Of(t) \in Orders
  BY WorksOnOrder DEF Confirmed, Answered
<1>2. Learns(Of(t), orders[Of(t)].reservation, threads[t].answer)
  BY <1>1, SeenEffect DEF Confirmed
<1>3. IF threads[t].event = "checkout" THEN Stops(t) ELSE Turns(t, "commit", "none")
  BY EndsEffect, GoesEffect DEF Confirmed, Stops, Turns
<1>. QED BY <1>1, <1>2, <1>3 DEF Confirmed, Answered, mail, staff

ReleasedDoes(t) ==
    /\ Of(t) \in Orders
    /\ threads[t].at = "cancel" /\ threads[t].answer \in W!Statuses
    /\ ~Deleted(Of(t))
    /\ \/ /\ threads[t].event = "checkout"
          /\ Writes(Of(t), "cancelled", orders[Of(t)].method,
                    orders[Of(t)].reservation, threads[t].answer)
          /\ Stops(t)
       \/ /\ threads[t].event # "checkout"
          /\ Learns(Of(t), orders[Of(t)].reservation, threads[t].answer)
          /\ Turns(t, "commit", "none")
    /\ UNCHANGED <<enabled, late, sessions, emails, unsent, catalogue, form, bare,
                   edited>>

\* The order learns that its reservation was released.
LEMMA ReleasedStep ==
    ASSUME TypeInv, TypeInv', NEW t \in Threads, Released(t)
    PROVE  ReleasedDoes(t)
<1>. USE DEF ReleasedDoes
<1>1. Of(t) \in Orders
  BY WorksOnOrder DEF Released, Answered
<1>2. CASE threads[t].event = "checkout"
  <2>. DEFINE o == Of(t)
              new == [orders[o] EXCEPT !.seen = threads[t].answer, !.status = "cancelled"]
  <2>1. orders' = [orders EXCEPT ![o] = new]
    BY <1>1, <1>2 DEF Released, TypeInv, TypeOK
  <2>2. /\ new.status = "cancelled" /\ new.method = orders[o].method
        /\ new.reservation = orders[o].reservation /\ new.seen = threads[t].answer
    BY <1>1 DEF TypeInv, TypeOK, Order
  <2>. HIDE DEF new
  <2>3. Writes(o, "cancelled", orders[o].method, orders[o].reservation, threads[t].answer)
    BY <1>1, <2>1, <2>2 DEF TypeInv, TypeOK, Writes
  <2>. QED BY <1>1, <1>2, <2>3, EndsEffect DEF Released, Answered, Stops, mail, staff
<1>3. CASE threads[t].event # "checkout"
  <2>1. Learns(Of(t), orders[Of(t)].reservation, threads[t].answer)
    BY <1>1, <1>3, SeenEffect DEF Released
  <2>2. Turns(t, "commit", "none")
    BY <1>3, GoesEffect DEF Released, Turns
  <2>. QED BY <1>1, <1>3, <2>1, <2>2 DEF Released, Answered, mail, staff
<1>. QED BY <1>2, <1>3

SaveFailsDoes(t) ==
    /\ Of(t) \in Orders
    /\ threads[t].at # "idle" /\ Deleted(Of(t)) /\ Stops(t)
    /\ UNCHANGED <<enabled, orders, late, sessions, emails, unsent, catalogue,
                   form, bare, edited>>
    /\ threads[t].at # "email"

\* The row was deleted under the thread.
LEMMA SaveFailsStep ==
    ASSUME TypeInv, NEW t \in Threads, SaveFails(t)
    PROVE  SaveFailsDoes(t)
  BY EndsEffect, WorksOnOrder DEF SaveFails, Stops, mail, staff, Calls, SaveFailsDoes

CreateStripeSessionDoes(t) ==
    /\ Of(t) \in Orders
    /\ threads[t].at = "stripe"
    /\ Turns(t, "redirect", "none")
    /\ sessions' = [sessions EXCEPT ![Of(t)] = "unseen"]
    /\ UNCHANGED <<enabled, orders, late, emails, unsent, catalogue, form, bare,
                   edited>>

\* Stripe creates the session.
LEMMA CreateStripeSessionStep ==
    ASSUME TypeInv, NEW t \in Threads, CreateStripeSession(t)
    PROVE  CreateStripeSessionDoes(t)
  BY GoesEffect, WorksOnOrder
       DEF CreateStripeSession, Turns, mail, staff, CreateStripeSessionDoes

FailStripeSessionDoes(t) ==
    /\ Of(t) \in Orders
    /\ threads[t].at = "stripe"
    /\ \E s \in {"none", "unseen"} : sessions' = [sessions EXCEPT ![Of(t)] = s]
    /\ \/ enabled /\ threads[t].reservation /\ Turns(t, "cancel", "awaited")
          /\ UNCHANGED orders
       \/ Stops(t) /\ Cancels(Of(t))
    /\ UNCHANGED <<enabled, late, emails, unsent, catalogue, form, bare, edited>>

\* Stripe fails and the order is to be cancelled.
LEMMA FailStripeSessionStep ==
    ASSUME TypeInv, TypeInv', NEW t \in Threads, FailStripeSession(t)
    PROVE  FailStripeSessionDoes(t)
<1>. USE DEF FailStripeSessionDoes
<1>1. threads[t].at = "stripe" /\ Of(t) \in Orders
  BY WorksOnOrder DEF FailStripeSession
<1>2. \/ enabled /\ threads[t].reservation /\ Turns(t, "cancel", "awaited")
         /\ UNCHANGED orders
      \/ Stops(t) /\ Cancels(Of(t))
  BY <1>1, SendsEffect, EndsEffect, CancelledEffect
     DEF FailStripeSession, Turns, Stops
<1>. QED BY <1>1, <1>2 DEF FailStripeSession, mail, staff

RedirectDoes(t) ==
    /\ Of(t) \in Orders
    /\ threads[t].at = "redirect" /\ ~Deleted(Of(t))
    /\ Learns(Of(t), orders[Of(t)].reservation, orders[Of(t)].seen)
    /\ \A o \in Orders :
          \/ sessions'[o] = sessions[o]
          \/ o = Of(t) /\ sessions[o] = "unseen" /\ sessions'[o] = "open"
    /\ Stops(t)
    /\ UNCHANGED <<enabled, late, emails, unsent, catalogue, form, bare, edited>>

\* The customer gets the link, unless the row was deleted.
LEMMA RedirectStep ==
    ASSUME TypeInv, TypeInv', NEW t \in Threads, Redirect(t)
    PROVE  RedirectDoes(t)
<1>. USE DEF RedirectDoes
<1>1. threads[t].at = "redirect" /\ Of(t) \in Orders
  BY WorksOnOrder DEF Redirect
<1>2. Learns(Of(t), orders[Of(t)].reservation, orders[Of(t)].seen)
  <2>1. orders' = [orders EXCEPT ![Of(t)].payment = TRUE]
    BY DEF Redirect
  <2>. QED BY <1>1, <2>1 DEF TypeInv, TypeOK, Order, Learns, Writes
<1>3. \A o \in Orders :
         \/ sessions'[o] = sessions[o]
         \/ o = Of(t) /\ sessions[o] = "unseen" /\ sessions'[o] = "open"
  BY <1>1 DEF Redirect, TypeInv, TypeOK
<1>. QED BY <1>1, <1>2, <1>3, EndsEffect DEF Redirect, Stops, mail, staff

PaidWebhookDoes(t, o) ==
    /\ threads[t].at = "idle" /\ sessions[o] = "paid"
    /\ orders[o].status \notin {"paid", "cancelled", "deleted"}
    /\ \/ /\ ~enabled
          /\ Becomes(t, "commit", "paid", o, orders[o].reservation, W!NoItems, "none")
       \/ /\ enabled /\ orders[o].reservation
          /\ Becomes(t, "confirm", "paid", o, TRUE, W!NoItems, "awaited")
       \/ /\ enabled /\ ~orders[o].reservation
          /\ Becomes(t, "items", "paid", o, FALSE, W!NoItems, "none")
    /\ UNCHANGED <<enabled, orders, late, sessions, emails, unsent, catalogue,
                   form, bare, edited>>

\* Stripe reports a payment.
LEMMA PaidWebhookStep ==
    ASSUME TypeInv, NEW t \in Threads, NEW o \in Orders, PaidWebhook(t, o)
    PROVE  PaidWebhookDoes(t, o)
<1>. USE DEF PaidWebhookDoes
<1>1. orders[o].reservation \in BOOLEAN
  BY DEF TypeInv, TypeOK, Order
<1>2. CASE ~enabled
  <2>1. Starts(t, "paid", o, orders[o].reservation, "commit")
    BY <1>2 DEF PaidWebhook, Starts
  <2>2. Becomes(t, "commit", "paid", o, orders[o].reservation, W!NoItems, "none")
    BY <1>1, <2>1, StartsEffect DEF First, Calls
  <2>. QED BY <1>2, <2>2 DEF PaidWebhook, mail, staff
<1>3. CASE enabled /\ orders[o].reservation
  <2>1. Starts(t, "paid", o, TRUE, "confirm")
    BY <1>1, <1>3 DEF PaidWebhook, Starts
  <2>2. Becomes(t, "confirm", "paid", o, TRUE, W!NoItems, "awaited")
    BY <2>1, StartsEffect DEF First, Calls
  <2>. QED BY <1>3, <2>2 DEF PaidWebhook, mail, staff
<1>4. CASE enabled /\ ~orders[o].reservation
  <2>1. Starts(t, "paid", o, FALSE, "items")
    BY <1>1, <1>4 DEF PaidWebhook, Starts
  <2>2. Becomes(t, "items", "paid", o, FALSE, W!NoItems, "none")
    BY <2>1, StartsEffect DEF First, Calls
  <2>. QED BY <1>4, <2>2 DEF PaidWebhook, mail, staff
<1>. QED BY <1>2, <1>3, <1>4

ExpiredWebhookDoes(t, o) ==
    /\ threads[t].at = "idle" /\ sessions[o] = "expired"
    /\ orders[o].status \notin {"paid", "cancelled", "deleted"}
    /\ \/ /\ enabled
          /\ Becomes(t, "cancel", "expired", o, TRUE, W!NoItems, "awaited")
       \/ Becomes(t, "commit", "expired", o, orders[o].reservation, W!NoItems, "none")
    /\ UNCHANGED <<enabled, orders, late, sessions, emails, unsent, catalogue,
                   form, bare, edited>>

\* Stripe reports an expired session.
LEMMA ExpiredWebhookStep ==
    ASSUME TypeInv, NEW t \in Threads, NEW o \in Orders, ExpiredWebhook(t, o)
    PROVE  ExpiredWebhookDoes(t, o)
<1>. USE DEF ExpiredWebhookDoes
<1>1. orders[o].reservation \in BOOLEAN
  BY DEF TypeInv, TypeOK, Order
<1>2. CASE enabled /\ orders[o].reservation
  <2>1. Starts(t, "expired", o, TRUE, "cancel")
    BY <1>1, <1>2 DEF ExpiredWebhook, Starts
  <2>2. Becomes(t, "cancel", "expired", o, TRUE, W!NoItems, "awaited")
    BY <2>1, StartsEffect DEF First, Calls
  <2>. QED BY <1>2, <2>2 DEF ExpiredWebhook, mail, staff
<1>3. CASE ~(enabled /\ orders[o].reservation)
  <2>1. Starts(t, "expired", o, orders[o].reservation, "commit")
    BY <1>3 DEF ExpiredWebhook, Starts
  <2>2. Becomes(t, "commit", "expired", o, orders[o].reservation, W!NoItems, "none")
    BY <1>1, <2>1, StartsEffect DEF First, Calls
  <2>. QED BY <1>3, <2>2 DEF ExpiredWebhook, mail, staff
<1>. QED BY <1>2, <1>3

CommitPaidDoes(t) ==
    /\ Of(t) \in Orders
    /\ threads[t].at = "commit" /\ threads[t].event = "paid"
    /\ IF orders[Of(t)].status = "new"
         THEN Decides(Of(t), "paid") /\ Turns(t, "email", "none")
         ELSE UNCHANGED orders /\ Stops(t)
    /\ UNCHANGED <<enabled, late, sessions, emails, unsent, catalogue, form, bare,
                   edited>>

\* The order becomes PAID.
LEMMA CommitPaidStep ==
    ASSUME TypeInv, TypeInv', NEW t \in Threads, CommitPaid(t)
    PROVE  CommitPaidDoes(t)
<1>. USE DEF CommitPaidDoes
<1>1. threads[t].at = "commit" /\ Of(t) \in Orders
  BY WorksOnOrder DEF CommitPaid
<1>. QED
  BY <1>1, WritesEffect, EndsEffect, GoesEffect
     DEF CommitPaid, Turns, Stops, mail, staff

CommitExpiredDoes(t) ==
    /\ Of(t) \in Orders
    /\ threads[t].at = "commit" /\ threads[t].event = "expired"
    /\ IF orders[Of(t)].status = "new" THEN Decides(Of(t), "cancelled")
       ELSE UNCHANGED orders
    /\ Stops(t)
    /\ UNCHANGED <<enabled, late, sessions, emails, unsent, catalogue, form, bare,
                   edited>>

\* The order is cancelled after its session expired.
LEMMA CommitExpiredStep ==
    ASSUME TypeInv, TypeInv', NEW t \in Threads, CommitExpired(t)
    PROVE  CommitExpiredDoes(t)
<1>. USE DEF CommitExpiredDoes
<1>1. threads[t].at = "commit" /\ Of(t) \in Orders
  BY WorksOnOrder DEF CommitExpired
<1>. QED
  BY <1>1, CancelledEffect, EndsEffect
     DEF CommitExpired, Cancels, Deleted, Stops, mail, staff

SendConfirmationDoes(t) ==
    /\ Of(t) \in Orders
    /\ threads[t].at = "email" /\ Stops(t)
    /\ \/ emails' = [emails EXCEPT ![Of(t)] = @ + 1] /\ UNCHANGED unsent
       \/ unsent' = unsent \cup {Of(t)} /\ UNCHANGED emails
    /\ UNCHANGED <<enabled, orders, late, sessions, catalogue, form, bare, edited>>

\* The email is enqueued or lost.
LEMMA SendConfirmationStep ==
    ASSUME TypeInv, NEW t \in Threads, SendConfirmation(t)
    PROVE  SendConfirmationDoes(t)
  BY EndsEffect, WorksOnOrder DEF SendConfirmation, Stops, staff, SendConfirmationDoes

ThreadDiesDoes(t) ==
    /\ Of(t) \in Orders
    /\ threads[t].at # "idle" /\ Stops(t)
    /\ (threads[t].at \in Calls /\ Leaves(t)) \/ UNCHANGED late
    /\ unsent' = IF threads[t].at = "email" THEN unsent \cup {Of(t)} ELSE unsent
    /\ UNCHANGED <<enabled, orders, sessions, emails, catalogue, form, bare,
                   edited>>

\* The thread stops anywhere.
LEMMA ThreadDiesStep ==
    ASSUME TypeInv, NEW t \in Threads, ThreadDies(t)
    PROVE  ThreadDiesDoes(t)
  BY EndsEffect, LeavesEffect, WorksOnOrder DEF ThreadDies, Stops, staff, ThreadDiesDoes

SaveFormDoes ==
    LET o == form.order IN
    /\ o \in Orders /\ form # NoForm
    /\ orders' \in [Orders -> Order]
    /\ \A p \in Orders \ {o} : orders'[p] = orders[p]
    /\ \/ Deleted(o) /\ orders'[o] = orders[o]
       \/ orders'[o] = form.row
       \/ /\ orders'[o].status = form.row.status
          /\ orders'[o].method = form.row.method
          /\ orders'[o].reservation = orders[o].reservation
          /\ orders'[o].seen = orders[o].seen
    /\ edited' = IF orders'[o].status = orders[o].status THEN edited
                 ELSE edited \cup {o}
    /\ form' = NoForm
    /\ UNCHANGED <<enabled, threads, late, sessions, emails, unsent, catalogue,
                   bare>>

\* Staff save the form they have open.
LEMMA SaveFormStep ==
    ASSUME TypeInv, TypeInv', SaveForm
    PROVE  SaveFormDoes
<1>. USE DEF SaveFormDoes
<1>. DEFINE o == form.order
            row == IF form.via = "api" THEN form.row
                   ELSE IF Deleted(o) THEN orders[o]
                   ELSE [form.row EXCEPT !.reservation = orders[o].reservation,
                                         !.seen = orders[o].seen]
<1>1. o \in Orders /\ form # NoForm /\ form.row \in Order /\ orders[o] \in Order
  BY DEF SaveForm, TypeInv, TypeOK, Form
<1>2. /\ orders' = [orders EXCEPT ![o] = row] /\ form' = NoForm
      /\ edited' = IF row.status = orders[o].status THEN edited ELSE edited \cup {o}
      /\ UNCHANGED <<enabled, threads, late, sessions, emails, unsent, catalogue, bare>>
  BY DEF SaveForm, mail
<1>3. \/ Deleted(o) /\ row = orders[o]
      \/ row = form.row
      \/ /\ row.status = form.row.status /\ row.method = form.row.method
         /\ row.reservation = orders[o].reservation /\ row.seen = orders[o].seen
  BY <1>1 DEF Order
<1>. HIDE DEF row
<1>4. orders'[o] = row /\ \A p \in Orders \ {o} : orders'[p] = orders[p]
  BY <1>1, <1>2 DEF TypeInv, TypeOK
<1>. QED BY <1>1, <1>2, <1>3, <1>4 DEF TypeInv, TypeOK

DeleteOrderDoes(o) ==
    /\ orders[o].status \notin {"none", "deleted"}
    /\ Writes(o, "deleted", "card", FALSE, "NONE")
    /\ bare' = bare \cup {o} /\ edited' = edited \cup {o}
    /\ UNCHANGED <<enabled, threads, late, sessions, emails, unsent, catalogue,
                   form>>

\* Staff delete the order.
LEMMA DeleteOrderStep ==
    ASSUME TypeInv, TypeInv', NEW o \in Orders, DeleteOrder(o)
    PROVE  DeleteOrderDoes(o)
<1>. USE DEF DeleteOrderDoes
<1>. DEFINE new == [NoRow EXCEPT !.status = "deleted"]
<1>1. orders' = [orders EXCEPT ![o] = new]
  BY DEF DeleteOrder
<1>2. /\ new.status = "deleted" /\ new.method = "card" /\ new.reservation = FALSE
      /\ new.seen = "NONE"
  BY DEF NoRow
<1>. HIDE DEF new
<1>3. Writes(o, "deleted", "card", FALSE, "NONE")
  BY <1>1, <1>2 DEF TypeInv, TypeOK, Writes
<1>. QED BY <1>3 DEF DeleteOrder, mail

\* A step, as far as the shop is concerned.
ThreadDoes(t) ==
    \/ \E o \in Orders, method \in Methods : PlaceOrderDoes(t, o, method)
    \/ ReserveDoes(t) \/ ServeCallDoes(t) \/ RetryDoes(t) \/ GiveUpDoes(t)
    \/ ReservedDoes(t) \/ ConfirmedDoes(t) \/ ReleasedDoes(t) \/ SaveFailsDoes(t)
    \/ CreateStripeSessionDoes(t) \/ FailStripeSessionDoes(t) \/ RedirectDoes(t)
    \/ \E o \in Orders : PaidWebhookDoes(t, o) \/ ExpiredWebhookDoes(t, o)
    \/ CommitPaidDoes(t) \/ CommitExpiredDoes(t) \/ SendConfirmationDoes(t)
    \/ ThreadDiesDoes(t)

Step ==
    /\ TypeInv /\ TypeInv' /\ AllMove
    /\ \/ \E t \in Threads : ThreadDoes(t)
       \/ \E b \in Books : DeleteBook(b)
       \/ \E o \in Orders, via \in {"api", "admin"} : OpenForm(o, via)
       \/ SaveFormDoes
       \/ \E o \in Orders : DeleteOrderDoes(o) \/ Pay(o) \/ SessionExpires(o)
       \/ EnableIntegration
       \/ UNCHANGED shop

\* Every step of Next is one of these.
LEMMA EveryStep ==
    ASSUME TypeInv, [Next]_vars
    PROVE  Step
<1>1. TypeInv' /\ AllMove
  BY TypeStep, ReservationMoves
<1>2. ASSUME NEW t \in Threads,
             \/ \E o \in Orders, method \in Methods : PlaceOrder(t, o, method)
             \/ Reserve(t) \/ ServeCall(t) \/ Retry(t) \/ GiveUp(t) \/ Rejected(t)
             \/ Reserved(t) \/ Confirmed(t) \/ Released(t) \/ SaveFails(t)
      PROVE  ThreadDoes(t)
  BY <1>1, <1>2, PlaceOrderStep, ReserveStep, ServeCallStep, RetryStep, GiveUpStep,
     ReservedStep, ConfirmedStep, ReleasedStep, SaveFailsStep DEF ThreadDoes
<1>3. ASSUME NEW t \in Threads,
             \/ CreateStripeSession(t) \/ FailStripeSession(t) \/ Redirect(t)
             \/ \E o \in Orders : PaidWebhook(t, o) \/ ExpiredWebhook(t, o)
             \/ CommitPaid(t) \/ CommitExpired(t) \/ SendConfirmation(t)
             \/ ThreadDies(t)
      PROVE  ThreadDoes(t)
  BY <1>1, <1>3, CreateStripeSessionStep, FailStripeSessionStep, RedirectStep,
     PaidWebhookStep, ExpiredWebhookStep, CommitPaidStep, CommitExpiredStep,
     SendConfirmationStep, ThreadDiesStep DEF ThreadDoes
<1>. QED
  BY <1>1, <1>2, <1>3, SaveFormStep, DeleteOrderStep, WorldSteps DEF Next, Step

\* Each kind of request takes its own steps.
LEMMA PathStep ==
    ASSUME Step, Path
    PROVE  Path'
<1>1. ASSUME NEW t \in Threads, NEW o \in Orders, NEW method \in Methods,
             PlaceOrderDoes(t, o, method)
      PROVE  Path'
  BY <1>1 DEF PlaceOrderDoes, Path, Calls, Becomes, Turns, Stops, Of
<1>2. ASSUME NEW t \in Threads, ReserveDoes(t)
      PROVE  Path'
  BY <1>2 DEF ReserveDoes, Path, Calls, Becomes, Turns, Stops, Of
<1>3. ASSUME NEW t \in Threads, ServeCallDoes(t)
      PROVE  Path'
  BY <1>3 DEF ServeCallDoes, Path, Calls, Becomes, Turns, Stops, Of
<1>4. ASSUME NEW t \in Threads, RetryDoes(t)
      PROVE  Path'
  BY <1>4 DEF RetryDoes, Path, Calls, Becomes, Turns, Stops, Of
<1>5. ASSUME NEW t \in Threads, GiveUpDoes(t)
      PROVE  Path'
  BY <1>5 DEF GiveUpDoes, Path, Calls, Becomes, Turns, Stops, Of
<1>6. ASSUME NEW t \in Threads, ReservedDoes(t)
      PROVE  Path'
  BY <1>6 DEF ReservedDoes, Path, Calls, Becomes, Turns, Stops, Of, After, Sells
<1>7. ASSUME NEW t \in Threads, ConfirmedDoes(t)
      PROVE  Path'
  BY <1>7 DEF ConfirmedDoes, Path, Calls, Becomes, Turns, Stops, Of
<1>8. ASSUME NEW t \in Threads, ReleasedDoes(t)
      PROVE  Path'
  BY <1>8 DEF ReleasedDoes, Path, Calls, Becomes, Turns, Stops, Of
<1>9. ASSUME NEW t \in Threads, SaveFailsDoes(t)
      PROVE  Path'
  BY <1>9 DEF SaveFailsDoes, Path, Calls, Becomes, Turns, Stops, Of
<1>10. ASSUME NEW t \in Threads, CreateStripeSessionDoes(t)
      PROVE  Path'
  BY <1>10 DEF CreateStripeSessionDoes, Path, Calls, Becomes, Turns, Stops, Of
<1>11. ASSUME NEW t \in Threads, FailStripeSessionDoes(t)
      PROVE  Path'
  BY <1>11 DEF FailStripeSessionDoes, Path, Calls, Becomes, Turns, Stops, Of
<1>12. ASSUME NEW t \in Threads, RedirectDoes(t)
      PROVE  Path'
  BY <1>12 DEF RedirectDoes, Path, Calls, Becomes, Turns, Stops, Of
<1>13. ASSUME NEW t \in Threads, NEW o \in Orders, PaidWebhookDoes(t, o)
      PROVE  Path'
  BY <1>13 DEF PaidWebhookDoes, Path, Calls, Becomes, Turns, Stops, Of
<1>14. ASSUME NEW t \in Threads, NEW o \in Orders, ExpiredWebhookDoes(t, o)
      PROVE  Path'
  BY <1>14 DEF ExpiredWebhookDoes, Path, Calls, Becomes, Turns, Stops, Of
<1>15. ASSUME NEW t \in Threads, CommitPaidDoes(t)
      PROVE  Path'
  BY <1>15 DEF CommitPaidDoes, Path, Calls, Becomes, Turns, Stops, Of
<1>16. ASSUME NEW t \in Threads, CommitExpiredDoes(t)
      PROVE  Path'
  BY <1>16 DEF CommitExpiredDoes, Path, Calls, Becomes, Turns, Stops, Of
<1>17. ASSUME NEW t \in Threads, SendConfirmationDoes(t)
      PROVE  Path'
  BY <1>17 DEF SendConfirmationDoes, Path, Calls, Becomes, Turns, Stops, Of
<1>18. ASSUME NEW t \in Threads, ThreadDiesDoes(t)
      PROVE  Path'
  BY <1>18 DEF ThreadDiesDoes, Path, Calls, Becomes, Turns, Stops, Of
<1>19. ASSUME NEW b \in Books, DeleteBook(b)
      PROVE  Path'
  BY <1>19 DEF DeleteBook, mail, staff, Path, Calls, Becomes, Turns, Stops, Of
<1>20. ASSUME NEW o \in Orders, NEW via \in {"api", "admin"}, OpenForm(o, via)
      PROVE  Path'
  BY <1>20 DEF OpenForm, mail, staff, Path, Calls, Becomes, Turns, Stops, Of
<1>21. ASSUME SaveFormDoes
      PROVE  Path'
  BY <1>21 DEF SaveFormDoes, Path, Calls, Becomes, Turns, Stops, Of
<1>22. ASSUME NEW o \in Orders, DeleteOrderDoes(o)
      PROVE  Path'
  BY <1>22 DEF DeleteOrderDoes, Path, Calls, Becomes, Turns, Stops, Of
<1>23. ASSUME NEW o \in Orders, Pay(o)
      PROVE  Path'
  BY <1>23 DEF Pay, mail, staff, Path, Calls, Becomes, Turns, Stops, Of
<1>24. ASSUME NEW o \in Orders, SessionExpires(o)
      PROVE  Path'
  BY <1>24 DEF SessionExpires, mail, staff, Path, Calls, Becomes, Turns, Stops, Of
<1>25. ASSUME EnableIntegration
      PROVE  Path'
  BY <1>25 DEF EnableIntegration, mail, staff, Path, Calls, Becomes, Turns, Stops, Of
<1>26. CASE UNCHANGED shop
  BY <1>26 DEF shop, mail, staff, Path, Calls, Becomes, Turns, Stops, Of
<1>. QED BY <1>1, <1>2, <1>3, <1>4, <1>5, <1>6, <1>7, <1>8, <1>9, <1>10, <1>11, <1>12,
     <1>13, <1>14, <1>15, <1>16, <1>17, <1>18, <1>19, <1>20, <1>21, <1>22, <1>23, <1>24,
     <1>25, <1>26 DEF Step, ThreadDoes

\* Payment, expiry and checkout exclude each other; a form may be stale, but it
\* holds no decision that the order does not have.
LEMMA DecisionsStep ==
    ASSUME Step, Path, Decisions
    PROVE  Decisions'
<1>1. ASSUME NEW t \in Threads, NEW o \in Orders, NEW method \in Methods,
             PlaceOrderDoes(t, o, method)
      PROVE  Decisions'
  BY <1>1 DEF PlaceOrderDoes, Decisions, Path, Calls, NotPlaced, FormIsOld, Unpaid,
     Expired, InCheckout, MayRead, Pays, Checks, Expires, Writes, Decides, Learns,
     Cancels, Deleted, Becomes, Turns, Stops, Of
<1>2. ASSUME NEW t \in Threads, ReserveDoes(t)
      PROVE  Decisions'
  BY <1>2 DEF ReserveDoes, Decisions, Path, Calls, NotPlaced, FormIsOld, Unpaid,
     Expired, InCheckout, MayRead, Pays, Checks, Expires, Writes, Decides, Learns,
     Cancels, Deleted, Becomes, Turns, Stops, Of
<1>3. ASSUME NEW t \in Threads, ServeCallDoes(t)
      PROVE  Decisions'
  BY <1>3 DEF ServeCallDoes, Decisions, Path, Calls, NotPlaced, FormIsOld, Unpaid,
     Expired, InCheckout, MayRead, Pays, Checks, Expires, Writes, Decides, Learns,
     Cancels, Deleted, Becomes, Turns, Stops, Of
<1>4. ASSUME NEW t \in Threads, RetryDoes(t)
      PROVE  Decisions'
  BY <1>4 DEF RetryDoes, Decisions, Path, Calls, NotPlaced, FormIsOld, Unpaid, Expired,
     InCheckout, MayRead, Pays, Checks, Expires, Writes, Decides, Learns, Cancels,
     Deleted, Becomes, Turns, Stops, Of
<1>5. ASSUME NEW t \in Threads, GiveUpDoes(t)
      PROVE  Decisions'
  BY <1>5 DEF GiveUpDoes, Decisions, Path, Calls, NotPlaced, FormIsOld, Unpaid, Expired,
     InCheckout, MayRead, Pays, Checks, Expires, Writes, Decides, Learns, Cancels,
     Deleted, Becomes, Turns, Stops, Of
<1>6. ASSUME NEW t \in Threads, ReservedDoes(t)
      PROVE  Decisions'
  BY <1>6 DEF ReservedDoes, Decisions, Path, Calls, NotPlaced, FormIsOld, Unpaid,
     Expired, InCheckout, MayRead, Pays, Checks, Expires, Writes, Decides, Learns,
     Cancels, Deleted, Becomes, Turns, Stops, Of
<1>7. ASSUME NEW t \in Threads, ConfirmedDoes(t)
      PROVE  Decisions'
  BY <1>7 DEF ConfirmedDoes, Decisions, Path, Calls, NotPlaced, FormIsOld, Unpaid,
     Expired, InCheckout, MayRead, Pays, Checks, Expires, Writes, Decides, Learns,
     Cancels, Deleted, Becomes, Turns, Stops, Of
<1>8. ASSUME NEW t \in Threads, ReleasedDoes(t)
      PROVE  Decisions'
  BY <1>8 DEF ReleasedDoes, Decisions, Path, Calls, NotPlaced, FormIsOld, Unpaid,
     Expired, InCheckout, MayRead, Pays, Checks, Expires, Writes, Decides, Learns,
     Cancels, Deleted, Becomes, Turns, Stops, Of
<1>9. ASSUME NEW t \in Threads, SaveFailsDoes(t)
      PROVE  Decisions'
  BY <1>9 DEF SaveFailsDoes, Decisions, Path, Calls, NotPlaced, FormIsOld, Unpaid,
     Expired, InCheckout, MayRead, Pays, Checks, Expires, Writes, Decides, Learns,
     Cancels, Deleted, Becomes, Turns, Stops, Of
<1>10. ASSUME NEW t \in Threads, CreateStripeSessionDoes(t)
      PROVE  Decisions'
  BY <1>10 DEF CreateStripeSessionDoes, Decisions, Path, Calls, NotPlaced, FormIsOld,
     Unpaid, Expired, InCheckout, MayRead, Pays, Checks, Expires, Writes, Decides,
     Learns, Cancels, Deleted, Becomes, Turns, Stops, Of
<1>11. ASSUME NEW t \in Threads, FailStripeSessionDoes(t)
      PROVE  Decisions'
  BY <1>11 DEF FailStripeSessionDoes, Decisions, Path, Calls, NotPlaced, FormIsOld,
     Unpaid, Expired, InCheckout, MayRead, Pays, Checks, Expires, Writes, Decides,
     Learns, Cancels, Deleted, Becomes, Turns, Stops, Of
<1>12. ASSUME NEW t \in Threads, RedirectDoes(t)
      PROVE  Decisions'
  BY <1>12 DEF RedirectDoes, Decisions, Path, Calls, NotPlaced, FormIsOld, Unpaid,
     Expired, InCheckout, MayRead, Pays, Checks, Expires, Writes, Decides, Learns,
     Cancels, Deleted, Becomes, Turns, Stops, Of
<1>13. ASSUME NEW t \in Threads, NEW o \in Orders, PaidWebhookDoes(t, o)
      PROVE  Decisions'
  BY <1>13 DEF PaidWebhookDoes, Decisions, Path, Calls, NotPlaced, FormIsOld, Unpaid,
     Expired, InCheckout, MayRead, Pays, Checks, Expires, Writes, Decides, Learns,
     Cancels, Deleted, Becomes, Turns, Stops, Of
<1>14. ASSUME NEW t \in Threads, NEW o \in Orders, ExpiredWebhookDoes(t, o)
      PROVE  Decisions'
  BY <1>14 DEF ExpiredWebhookDoes, Decisions, Path, Calls, NotPlaced, FormIsOld, Unpaid,
     Expired, InCheckout, MayRead, Pays, Checks, Expires, Writes, Decides, Learns,
     Cancels, Deleted, Becomes, Turns, Stops, Of
<1>15. ASSUME NEW t \in Threads, CommitPaidDoes(t)
      PROVE  Decisions'
  BY <1>15 DEF CommitPaidDoes, Decisions, Path, Calls, NotPlaced, FormIsOld, Unpaid,
     Expired, InCheckout, MayRead, Pays, Checks, Expires, Writes, Decides, Learns,
     Cancels, Deleted, Becomes, Turns, Stops, Of
<1>16. ASSUME NEW t \in Threads, CommitExpiredDoes(t)
      PROVE  Decisions'
  BY <1>16 DEF CommitExpiredDoes, Decisions, Path, Calls, NotPlaced, FormIsOld, Unpaid,
     Expired, InCheckout, MayRead, Pays, Checks, Expires, Writes, Decides, Learns,
     Cancels, Deleted, Becomes, Turns, Stops, Of
<1>17. ASSUME NEW t \in Threads, SendConfirmationDoes(t)
      PROVE  Decisions'
  BY <1>17 DEF SendConfirmationDoes, Decisions, Path, Calls, NotPlaced, FormIsOld,
     Unpaid, Expired, InCheckout, MayRead, Pays, Checks, Expires, Writes, Decides,
     Learns, Cancels, Deleted, Becomes, Turns, Stops, Of
<1>18. ASSUME NEW t \in Threads, ThreadDiesDoes(t)
      PROVE  Decisions'
  BY <1>18 DEF ThreadDiesDoes, Decisions, Path, Calls, NotPlaced, FormIsOld, Unpaid,
     Expired, InCheckout, MayRead, Pays, Checks, Expires, Writes, Decides, Learns,
     Cancels, Deleted, Becomes, Turns, Stops, Of
<1>19. ASSUME NEW b \in Books, DeleteBook(b)
      PROVE  Decisions'
  BY <1>19 DEF DeleteBook, mail, staff, Decisions, Path, Calls, NotPlaced, FormIsOld,
     Unpaid, Expired, InCheckout, MayRead, Pays, Checks, Expires, Writes, Decides,
     Learns, Cancels, Deleted, Becomes, Turns, Stops, Of
<1>20. ASSUME NEW o \in Orders, NEW via \in {"api", "admin"}, OpenForm(o, via)
      PROVE  Decisions'
  BY <1>20 DEF OpenForm, mail, staff, Decisions, Path, Calls, NotPlaced, FormIsOld,
     Unpaid, Expired, InCheckout, MayRead, Pays, Checks, Expires, Writes, Decides,
     Learns, Cancels, Deleted, Becomes, Turns, Stops, Of
<1>21. ASSUME SaveFormDoes
      PROVE  Decisions'
  <2>1. form'.order \notin Orders /\ form' = NoForm
    BY <1>21, CheckoutAssumption DEF SaveFormDoes, NoForm
  <2>. QED
    BY <1>21, <2>1 DEF SaveFormDoes, Decisions, NotPlaced, FormIsOld, Unpaid, Expired,
       InCheckout, MayRead, Pays, Checks, Expires, Deleted, Of
<1>22. ASSUME NEW o \in Orders, DeleteOrderDoes(o)
      PROVE  Decisions'
  BY <1>22 DEF DeleteOrderDoes, Decisions, Path, Calls, NotPlaced, FormIsOld, Unpaid,
     Expired, InCheckout, MayRead, Pays, Checks, Expires, Writes, Decides, Learns,
     Cancels, Deleted, Becomes, Turns, Stops, Of
<1>23. ASSUME NEW o \in Orders, Pay(o)
      PROVE  Decisions'
  BY <1>23 DEF Pay, mail, staff, Decisions, Path, Calls, NotPlaced, FormIsOld, Unpaid,
     Expired, InCheckout, MayRead, Pays, Checks, Expires, Writes, Decides, Learns,
     Cancels, Deleted, Becomes, Turns, Stops, Of
<1>24. ASSUME NEW o \in Orders, SessionExpires(o)
      PROVE  Decisions'
  BY <1>24 DEF SessionExpires, mail, staff, Decisions, Path, Calls, NotPlaced,
     FormIsOld, Unpaid, Expired, InCheckout, MayRead, Pays, Checks, Expires, Writes,
     Decides, Learns, Cancels, Deleted, Becomes, Turns, Stops, Of
<1>25. ASSUME EnableIntegration
      PROVE  Decisions'
  BY <1>25 DEF EnableIntegration, mail, staff, Decisions, Path, Calls, NotPlaced,
     FormIsOld, Unpaid, Expired, InCheckout, MayRead, Pays, Checks, Expires, Writes,
     Decides, Learns, Cancels, Deleted, Becomes, Turns, Stops, Of
<1>26. CASE UNCHANGED shop
  BY <1>26 DEF shop, mail, staff, Decisions, Path, Calls, NotPlaced, FormIsOld, Unpaid,
     Expired, InCheckout, MayRead, Pays, Checks, Expires, Writes, Decides, Learns,
     Cancels, Deleted, Becomes, Turns, Stops, Of
<1>. QED BY <1>1, <1>2, <1>3, <1>4, <1>5, <1>6, <1>7, <1>8, <1>9, <1>10, <1>11, <1>12,
     <1>13, <1>14, <1>15, <1>16, <1>17, <1>18, <1>19, <1>20, <1>21, <1>22, <1>23, <1>24,
     <1>25, <1>26 DEF Step, ThreadDoes

\* A reservation stays, and once final it stays as it is.
Stays(o) ==
    /\ W!Exists(o) => W!Exists(o)'
    /\ reservations[o].status \in FinalStatuses =>
          reservations'[o].status = reservations[o].status

\* A step keeps a reservation, and its final status.
LEMMA StaysFinal ==
    ASSUME AllMove, NEW o \in Orders
    PROVE  Stays(o)
  BY DEF AllMove, Moves, Stays, FinalStatuses, W!Exists

\* The body of a 2xx answer is the reservation's status.
LEMMA AnswerIsTrue ==
    ASSUME TypeInv, Memory, NEW call \in Calls, NEW o \in Orders,
           NEW items \in W!ItemMaps, NEW answer \in W!Statuses,
           Serve(call, o, items, answer)
    PROVE  /\ answer # "NONE" /\ True(o, answer)'
           /\ call = "confirm" => answer = "CONFIRMED"
<1>0. "rejected" \notin W!Statuses
  BY DEF W!Statuses
<1>. USE DEF True, W!Exists, FinalStatuses
<1>1. CASE call = "reserve"
  <2>1. CASE W!CreateReservation(o, items, o)
    BY <1>1, <2>1 DEF Serve, Calls, W!CreateReservation, TypeInv, W!Statuses
  <2>2. CASE W!CreateOutcome(o, items, o) = "existing" /\ UNCHANGED warehouse
    <3>1. W!Matches(o, o) # {}
      BY <2>2 DEF W!CreateOutcome
    <3>2. W!Exists(o)
      BY <3>1 DEF W!Matches, Memory
    <3>. QED BY <1>1, <2>2, <3>2 DEF Serve, warehouse
  <2>3. \/ W!CreateReservation(o, items, o)
        \/ W!CreateOutcome(o, items, o) = "existing" /\ UNCHANGED warehouse
    BY <1>1, <1>0 DEF Serve
  <2>. QED BY <2>1, <2>2, <2>3
<1>2. CASE call = "confirm"
  <2>1. CASE W!ConfirmReservation(o)
    <3>1. W!ConfirmOutcome(o) = "sold" /\ answer = "CONFIRMED" /\ W!Sell(o)
      BY <1>0, <1>2, <2>1 DEF Serve, W!ConfirmReservation
    <3>. QED BY <3>1 DEF W!Sell, TypeInv
  <2>2. CASE W!ConfirmOutcome(o) = "unchanged" /\ UNCHANGED warehouse
    BY <1>2, <2>2 DEF Serve, W!ConfirmOutcome, warehouse, TypeInv, W!Reservation,
                     W!Statuses
  <2>3. \/ W!ConfirmReservation(o)
        \/ W!ConfirmOutcome(o) = "unchanged" /\ UNCHANGED warehouse
    BY <1>2, <1>0 DEF Serve
  <2>. QED BY <2>1, <2>2, <2>3
<1>3. CASE call = "cancel"
  <2>1. CASE W!CancelReservation(o)
    BY <1>3, <2>1 DEF Serve, W!CancelReservation, W!Release, TypeInv, W!Statuses
  <2>2. CASE W!CancelOutcome(o) = "unchanged" /\ UNCHANGED warehouse
    <3>1. reservations[o].status \in {"CANCELLED", "EXPIRED"}
      BY <2>2 DEF W!CancelOutcome, TypeInv, W!Reservation, W!Statuses
    <3>2. answer = reservations[o].status
      BY <1>3, <2>2, <3>1 DEF Serve, W!CancelReservation
    <3>. QED BY <1>3, <2>2, <3>1, <3>2 DEF warehouse
  <2>3. \/ W!CancelReservation(o)
        \/ W!CancelOutcome(o) = "unchanged" /\ UNCHANGED warehouse
    BY <1>3, <1>0 DEF Serve
  <2>. QED BY <2>1, <2>2, <2>3
<1>. QED BY <1>1, <1>2, <1>3 DEF Calls

\* Rows, forms and answers are true of the reservation.
LEMMA MemoryStep ==
    ASSUME Step, Memory
    PROVE  Memory'
<1>0. /\ \A o \in Orders : Stays(o) /\ (W!Exists(o)' => reservations'[o].key = o)
      /\ form # NoForm => form.order \in Orders
      /\ \A t \in Threads : threads[t].at # "idle" => Of(t) \in Orders
  BY StaysFinal DEF Step, AllMove, Moves, Memory, TypeInv, ThreadsOK, W!Exists
<1>1. ASSUME NEW t \in Threads, NEW o \in Orders, NEW method \in Methods,
             PlaceOrderDoes(t, o, method)
      PROVE  Memory'
  BY <1>1, <1>0 DEF PlaceOrderDoes, Memory, Knows, True, Stays, Calls, W!Statuses,
     Writes, Decides, Learns, Cancels, Becomes, Turns, Stops, Of
<1>2. ASSUME NEW t \in Threads, ReserveDoes(t)
      PROVE  Memory'
  BY <1>2, <1>0 DEF ReserveDoes, Memory, Knows, True, Stays, Calls, W!Statuses, Writes,
     Decides, Learns, Cancels, Becomes, Turns, Stops, Of
<1>3. ASSUME NEW t \in Threads, ServeCallDoes(t)
      PROVE  Memory'
  <2>1. PICK answer \in {"rejected"} \cup W!Statuses :
           /\ Serve(threads[t].at, Of(t), threads[t].items, answer)
           /\ Turns(t, threads[t].at, answer)
    BY <1>3 DEF ServeCallDoes
  <2>2. threads[t].items \in W!ItemMaps /\ threads[t].at \in Calls /\ Of(t) \in Orders
    BY <1>3 DEF ServeCallDoes, Step, TypeInv, ThreadsOK, Thread
  <2>3. PICK o \in Orders : o = Of(t)
    BY <2>2
  <2>4. ASSUME answer \in W!Statuses
        PROVE  /\ answer # "NONE" /\ True(o, answer)'
               /\ threads[t].at = "confirm" => answer = "CONFIRMED"
    BY <2>1, <2>2, <2>3, <2>4, AnswerIsTrue DEF Step, True
  <2>. QED
    BY <1>3, <1>0, <2>1, <2>3, <2>4
       DEF ServeCallDoes, Memory, Knows, True, Stays, Calls, Becomes, Turns, Of
<1>4. ASSUME NEW t \in Threads, RetryDoes(t)
      PROVE  Memory'
  BY <1>4, <1>0 DEF RetryDoes, Memory, Knows, True, Stays, Calls, W!Statuses, Writes,
     Decides, Learns, Cancels, Becomes, Turns, Stops, Of
<1>5. ASSUME NEW t \in Threads, GiveUpDoes(t)
      PROVE  Memory'
  BY <1>5, <1>0 DEF GiveUpDoes, Memory, Knows, True, Stays, Calls, W!Statuses, Writes,
     Decides, Learns, Cancels, Becomes, Turns, Stops, Of
<1>6. ASSUME NEW t \in Threads, ReservedDoes(t)
      PROVE  Memory'
  BY <1>6, <1>0 DEF ReservedDoes, Memory, Knows, True, Stays, Calls, W!Statuses, Writes,
     Decides, Learns, Cancels, Becomes, Turns, Stops, Of, First, After, Sells
<1>7. ASSUME NEW t \in Threads, ConfirmedDoes(t)
      PROVE  Memory'
  BY <1>7, <1>0 DEF ConfirmedDoes, Memory, Knows, True, Stays, Calls, W!Statuses,
     Writes, Decides, Learns, Cancels, Becomes, Turns, Stops, Of
<1>8. ASSUME NEW t \in Threads, ReleasedDoes(t)
      PROVE  Memory'
  BY <1>8, <1>0 DEF ReleasedDoes, Memory, Knows, True, Stays, Calls, W!Statuses, Writes,
     Decides, Learns, Cancels, Becomes, Turns, Stops, Of
<1>9. ASSUME NEW t \in Threads, SaveFailsDoes(t)
      PROVE  Memory'
  BY <1>9, <1>0 DEF SaveFailsDoes, Memory, Knows, True, Stays, Calls, W!Statuses,
     Writes, Decides, Learns, Cancels, Becomes, Turns, Stops, Of
<1>10. ASSUME NEW t \in Threads, CreateStripeSessionDoes(t)
      PROVE  Memory'
  BY <1>10, <1>0 DEF CreateStripeSessionDoes, Memory, Knows, True, Stays, Calls,
     W!Statuses, Writes, Decides, Learns, Cancels, Becomes, Turns, Stops, Of
<1>11. ASSUME NEW t \in Threads, FailStripeSessionDoes(t)
      PROVE  Memory'
  BY <1>11, <1>0 DEF FailStripeSessionDoes, Memory, Knows, True, Stays, Calls,
     W!Statuses, Writes, Decides, Learns, Cancels, Becomes, Turns, Stops, Of
<1>12. ASSUME NEW t \in Threads, RedirectDoes(t)
      PROVE  Memory'
  BY <1>12, <1>0 DEF RedirectDoes, Memory, Knows, True, Stays, Calls, W!Statuses,
     Writes, Decides, Learns, Cancels, Becomes, Turns, Stops, Of
<1>13. ASSUME NEW t \in Threads, NEW o \in Orders, PaidWebhookDoes(t, o)
      PROVE  Memory'
  BY <1>13, <1>0 DEF PaidWebhookDoes, Memory, Knows, True, Stays, Calls, W!Statuses,
     Writes, Decides, Learns, Cancels, Becomes, Turns, Stops, Of
<1>14. ASSUME NEW t \in Threads, NEW o \in Orders, ExpiredWebhookDoes(t, o)
      PROVE  Memory'
  BY <1>14, <1>0 DEF ExpiredWebhookDoes, Memory, Knows, True, Stays, Calls, W!Statuses,
     Writes, Decides, Learns, Cancels, Becomes, Turns, Stops, Of
<1>15. ASSUME NEW t \in Threads, CommitPaidDoes(t)
      PROVE  Memory'
  BY <1>15, <1>0 DEF CommitPaidDoes, Memory, Knows, True, Stays, Calls, W!Statuses,
     Writes, Decides, Learns, Cancels, Becomes, Turns, Stops, Of
<1>16. ASSUME NEW t \in Threads, CommitExpiredDoes(t)
      PROVE  Memory'
  BY <1>16, <1>0 DEF CommitExpiredDoes, Memory, Knows, True, Stays, Calls, W!Statuses,
     Writes, Decides, Learns, Cancels, Becomes, Turns, Stops, Of
<1>17. ASSUME NEW t \in Threads, SendConfirmationDoes(t)
      PROVE  Memory'
  BY <1>17, <1>0 DEF SendConfirmationDoes, Memory, Knows, True, Stays, Calls,
     W!Statuses, Writes, Decides, Learns, Cancels, Becomes, Turns, Stops, Of
<1>18. ASSUME NEW t \in Threads, ThreadDiesDoes(t)
      PROVE  Memory'
  BY <1>18, <1>0 DEF ThreadDiesDoes, Memory, Knows, True, Stays, Calls, W!Statuses,
     Writes, Decides, Learns, Cancels, Becomes, Turns, Stops, Of
<1>19. ASSUME NEW b \in Books, DeleteBook(b)
      PROVE  Memory'
  BY <1>19, <1>0 DEF DeleteBook, mail, staff, Memory, Knows, True, Stays, Calls,
     W!Statuses, Writes, Decides, Learns, Cancels, Becomes, Turns, Stops, Of
<1>20. ASSUME NEW o \in Orders, NEW via \in {"api", "admin"}, OpenForm(o, via)
      PROVE  Memory'
  BY <1>20, <1>0 DEF OpenForm, mail, staff, Memory, Knows, True, Stays, Calls,
     W!Statuses, Writes, Decides, Learns, Cancels, Becomes, Turns, Stops, Of, NoForm
<1>21. ASSUME SaveFormDoes
      PROVE  Memory'
  BY <1>21, <1>0 DEF SaveFormDoes, Memory, Knows, True, Stays, Calls, W!Statuses,
     Writes, Decides, Learns, Cancels, Becomes, Turns, Stops, Of, NoForm
<1>22. ASSUME NEW o \in Orders, DeleteOrderDoes(o)
      PROVE  Memory'
  BY <1>22, <1>0 DEF DeleteOrderDoes, Memory, Knows, True, Stays, Calls, W!Statuses,
     Writes, Decides, Learns, Cancels, Becomes, Turns, Stops, Of, FinalStatuses
<1>23. ASSUME NEW o \in Orders, Pay(o)
      PROVE  Memory'
  BY <1>23, <1>0 DEF Pay, mail, staff, Memory, Knows, True, Stays, Calls, W!Statuses,
     Writes, Decides, Learns, Cancels, Becomes, Turns, Stops, Of
<1>24. ASSUME NEW o \in Orders, SessionExpires(o)
      PROVE  Memory'
  BY <1>24, <1>0 DEF SessionExpires, mail, staff, Memory, Knows, True, Stays, Calls,
     W!Statuses, Writes, Decides, Learns, Cancels, Becomes, Turns, Stops, Of
<1>25. ASSUME EnableIntegration
      PROVE  Memory'
  BY <1>25, <1>0 DEF EnableIntegration, mail, staff, Memory, Knows, True, Stays, Calls,
     W!Statuses, Writes, Decides, Learns, Cancels, Becomes, Turns, Stops, Of
<1>26. CASE UNCHANGED shop
  BY <1>26, <1>0 DEF shop, mail, staff, Memory, Knows, True, Stays, Calls, W!Statuses,
     Writes, Decides, Learns, Cancels, Becomes, Turns, Stops, Of
<1>. QED BY <1>1, <1>2, <1>3, <1>4, <1>5, <1>6, <1>7, <1>8, <1>9, <1>10, <1>11, <1>12,
     <1>13, <1>14, <1>15, <1>16, <1>17, <1>18, <1>19, <1>20, <1>21, <1>22, <1>23, <1>24,
     <1>25, <1>26 DEF Step, ThreadDoes

\* While the integration is off the shop asks Warehouse nothing.
LEMMA OffStep ==
    ASSUME Step, Off
    PROVE  Off'
<1>0. /\ form # NoForm => form.order \in Orders
      /\ \A t \in Threads : threads[t].at # "idle" => Of(t) \in Orders
      /\ NoForm.order \notin Orders /\ ~NoForm.row.reservation
  BY CheckoutAssumption DEF Step, TypeInv, ThreadsOK, NoForm, NoRow
<1>1. ASSUME NEW t \in Threads, NEW o \in Orders, NEW method \in Methods,
             PlaceOrderDoes(t, o, method)
      PROVE  Off'
  BY <1>1, <1>0 DEF PlaceOrderDoes, Off, Calls, Writes, Decides, Learns, Cancels,
     Becomes, Turns, Stops, Of
<1>2. ASSUME NEW t \in Threads, ReserveDoes(t)
      PROVE  Off'
  BY <1>2, <1>0 DEF ReserveDoes, Off, Calls, Writes, Decides, Learns, Cancels, Becomes,
     Turns, Stops, Of
<1>3. ASSUME NEW t \in Threads, ServeCallDoes(t)
      PROVE  Off'
  BY <1>3, <1>0 DEF ServeCallDoes, Off, Calls, Writes, Decides, Learns, Cancels,
     Becomes, Turns, Stops, Of
<1>4. ASSUME NEW t \in Threads, RetryDoes(t)
      PROVE  Off'
  BY <1>4, <1>0 DEF RetryDoes, Off, Calls, Writes, Decides, Learns, Cancels, Becomes,
     Turns, Stops, Of
<1>5. ASSUME NEW t \in Threads, GiveUpDoes(t)
      PROVE  Off'
  BY <1>5, <1>0 DEF GiveUpDoes, Off, Calls, Writes, Decides, Learns, Cancels, Becomes,
     Turns, Stops, Of, Leaves
<1>6. ASSUME NEW t \in Threads, ReservedDoes(t)
      PROVE  Off'
  BY <1>6, <1>0 DEF ReservedDoes, Off, Calls, Writes, Decides, Learns, Cancels, Becomes,
     Turns, Stops, Of
<1>7. ASSUME NEW t \in Threads, ConfirmedDoes(t)
      PROVE  Off'
  BY <1>7, <1>0 DEF ConfirmedDoes, Off, Calls, Writes, Decides, Learns, Cancels,
     Becomes, Turns, Stops, Of
<1>8. ASSUME NEW t \in Threads, ReleasedDoes(t)
      PROVE  Off'
  BY <1>8, <1>0 DEF ReleasedDoes, Off, Calls, Writes, Decides, Learns, Cancels, Becomes,
     Turns, Stops, Of
<1>9. ASSUME NEW t \in Threads, SaveFailsDoes(t)
      PROVE  Off'
  BY <1>9, <1>0 DEF SaveFailsDoes, Off, Calls, Writes, Decides, Learns, Cancels,
     Becomes, Turns, Stops, Of
<1>10. ASSUME NEW t \in Threads, CreateStripeSessionDoes(t)
      PROVE  Off'
  BY <1>10, <1>0 DEF CreateStripeSessionDoes, Off, Calls, Writes, Decides, Learns,
     Cancels, Becomes, Turns, Stops, Of
<1>11. ASSUME NEW t \in Threads, FailStripeSessionDoes(t)
      PROVE  Off'
  BY <1>11, <1>0 DEF FailStripeSessionDoes, Off, Calls, Writes, Decides, Learns,
     Cancels, Becomes, Turns, Stops, Of, Leaves
<1>12. ASSUME NEW t \in Threads, RedirectDoes(t)
      PROVE  Off'
  BY <1>12, <1>0 DEF RedirectDoes, Off, Calls, Writes, Decides, Learns, Cancels,
     Becomes, Turns, Stops, Of
<1>13. ASSUME NEW t \in Threads, NEW o \in Orders, PaidWebhookDoes(t, o)
      PROVE  Off'
  BY <1>13, <1>0 DEF PaidWebhookDoes, Off, Calls, Writes, Decides, Learns, Cancels,
     Becomes, Turns, Stops, Of
<1>14. ASSUME NEW t \in Threads, NEW o \in Orders, ExpiredWebhookDoes(t, o)
      PROVE  Off'
  BY <1>14, <1>0 DEF ExpiredWebhookDoes, Off, Calls, Writes, Decides, Learns, Cancels,
     Becomes, Turns, Stops, Of
<1>15. ASSUME NEW t \in Threads, CommitPaidDoes(t)
      PROVE  Off'
  BY <1>15, <1>0 DEF CommitPaidDoes, Off, Calls, Writes, Decides, Learns, Cancels,
     Becomes, Turns, Stops, Of
<1>16. ASSUME NEW t \in Threads, CommitExpiredDoes(t)
      PROVE  Off'
  BY <1>16, <1>0 DEF CommitExpiredDoes, Off, Calls, Writes, Decides, Learns, Cancels,
     Becomes, Turns, Stops, Of
<1>17. ASSUME NEW t \in Threads, SendConfirmationDoes(t)
      PROVE  Off'
  BY <1>17, <1>0 DEF SendConfirmationDoes, Off, Calls, Writes, Decides, Learns, Cancels,
     Becomes, Turns, Stops, Of
<1>18. ASSUME NEW t \in Threads, ThreadDiesDoes(t)
      PROVE  Off'
  BY <1>18, <1>0 DEF ThreadDiesDoes, Off, Calls, Writes, Decides, Learns, Cancels,
     Becomes, Turns, Stops, Of, Leaves
<1>19. ASSUME NEW b \in Books, DeleteBook(b)
      PROVE  Off'
  BY <1>19, <1>0 DEF DeleteBook, mail, staff, Off, Calls, Writes, Decides, Learns,
     Cancels, Becomes, Turns, Stops, Of
<1>20. ASSUME NEW o \in Orders, NEW via \in {"api", "admin"}, OpenForm(o, via)
      PROVE  Off'
  BY <1>20, <1>0 DEF OpenForm, mail, staff, Off, Calls, Writes, Decides, Learns,
     Cancels, Becomes, Turns, Stops, Of
<1>21. ASSUME SaveFormDoes
      PROVE  Off'
  BY <1>21, <1>0 DEF SaveFormDoes, Off, Calls, Writes, Decides, Learns, Cancels,
     Becomes, Turns, Stops, Of
<1>22. ASSUME NEW o \in Orders, DeleteOrderDoes(o)
      PROVE  Off'
  BY <1>22, <1>0 DEF DeleteOrderDoes, Off, Calls, Writes, Decides, Learns, Cancels,
     Becomes, Turns, Stops, Of
<1>23. ASSUME NEW o \in Orders, Pay(o)
      PROVE  Off'
  BY <1>23, <1>0 DEF Pay, mail, staff, Off, Calls, Writes, Decides, Learns, Cancels,
     Becomes, Turns, Stops, Of
<1>24. ASSUME NEW o \in Orders, SessionExpires(o)
      PROVE  Off'
  BY <1>24, <1>0 DEF SessionExpires, mail, staff, Off, Calls, Writes, Decides, Learns,
     Cancels, Becomes, Turns, Stops, Of
<1>25. ASSUME EnableIntegration
      PROVE  Off'
  BY <1>25, <1>0 DEF EnableIntegration, mail, staff, Off, Calls, Writes, Decides,
     Learns, Cancels, Becomes, Turns, Stops, Of
<1>26. CASE UNCHANGED shop
  BY <1>26, <1>0 DEF shop, mail, staff, Off, Calls, Writes, Decides, Learns, Cancels,
     Becomes, Turns, Stops, Of
<1>. QED BY <1>1, <1>2, <1>3, <1>4, <1>5, <1>6, <1>7, <1>8, <1>9, <1>10, <1>11, <1>12,
     <1>13, <1>14, <1>15, <1>16, <1>17, <1>18, <1>19, <1>20, <1>21, <1>22, <1>23, <1>24,
     <1>25, <1>26 DEF Step, ThreadDoes

\* PAID is written after the sale, or on an order without a reservation.
LEMMA SoldStep ==
    ASSUME Step, Path, Decisions, Memory, Off, Sold
    PROVE  Sold'
<1>0. /\ \A o \in Orders : Stays(o)
      /\ form # NoForm => form.order \in Orders
      /\ \A t \in Threads : threads[t].at # "idle" => Of(t) \in Orders
      /\ NoForm.order \notin Orders /\ ~NoForm.row.reservation
  BY StaysFinal, CheckoutAssumption DEF Step, TypeInv, ThreadsOK, NoForm, NoRow
<1>1. ASSUME NEW t \in Threads, NEW o \in Orders, NEW method \in Methods,
             PlaceOrderDoes(t, o, method)
      PROVE  Sold'
  BY <1>1, <1>0 DEF PlaceOrderDoes, Sold, Unreserved, Stays, MayRead, FinalStatuses,
     Writes, Decides, Learns, Cancels, Becomes, Turns, Stops, Of, Decisions, FormIsOld
<1>2. ASSUME NEW t \in Threads, ReserveDoes(t)
      PROVE  Sold'
  BY <1>2, <1>0 DEF ReserveDoes, Sold, Unreserved, Stays, MayRead, FinalStatuses,
     Writes, Decides, Learns, Cancels, Becomes, Turns, Stops, Of
<1>3. ASSUME NEW t \in Threads, ServeCallDoes(t)
      PROVE  Sold'
  BY <1>3, <1>0 DEF ServeCallDoes, Sold, Unreserved, Stays, MayRead, FinalStatuses,
     Writes, Decides, Learns, Cancels, Becomes, Turns, Stops, Of
<1>4. ASSUME NEW t \in Threads, RetryDoes(t)
      PROVE  Sold'
  BY <1>4, <1>0 DEF RetryDoes, Sold, Unreserved, Stays, MayRead, FinalStatuses, Writes,
     Decides, Learns, Cancels, Becomes, Turns, Stops, Of
<1>5. ASSUME NEW t \in Threads, GiveUpDoes(t)
      PROVE  Sold'
  BY <1>5, <1>0 DEF GiveUpDoes, Sold, Unreserved, Stays, MayRead, FinalStatuses, Writes,
     Decides, Learns, Cancels, Becomes, Turns, Stops, Of
<1>6. ASSUME NEW t \in Threads, ReservedDoes(t)
      PROVE  Sold'
  BY <1>6, <1>0 DEF ReservedDoes, Sold, Unreserved, Stays, MayRead, FinalStatuses,
     Writes, Decides, Learns, Cancels, Becomes, Turns, Stops, Of, After
<1>7. ASSUME NEW t \in Threads, ConfirmedDoes(t)
      PROVE  Sold'
  BY <1>7, <1>0 DEF ConfirmedDoes, Sold, Unreserved, Stays, MayRead, FinalStatuses,
     Writes, Decides, Learns, Cancels, Becomes, Turns, Stops, Of, Memory, Calls, True
<1>8. ASSUME NEW t \in Threads, ReleasedDoes(t)
      PROVE  Sold'
  BY <1>8, <1>0 DEF ReleasedDoes, Sold, Unreserved, Stays, MayRead, FinalStatuses,
     Writes, Decides, Learns, Cancels, Becomes, Turns, Stops, Of, Path
<1>9. ASSUME NEW t \in Threads, SaveFailsDoes(t)
      PROVE  Sold'
  BY <1>9, <1>0 DEF SaveFailsDoes, Sold, Unreserved, Stays, MayRead, FinalStatuses,
     Writes, Decides, Learns, Cancels, Becomes, Turns, Stops, Of
<1>10. ASSUME NEW t \in Threads, CreateStripeSessionDoes(t)
      PROVE  Sold'
  BY <1>10, <1>0 DEF CreateStripeSessionDoes, Sold, Unreserved, Stays, MayRead,
     FinalStatuses, Writes, Decides, Learns, Cancels, Becomes, Turns, Stops, Of
<1>11. ASSUME NEW t \in Threads, FailStripeSessionDoes(t)
      PROVE  Sold'
  BY <1>11, <1>0 DEF FailStripeSessionDoes, Sold, Unreserved, Stays, MayRead,
     FinalStatuses, Writes, Decides, Learns, Cancels, Becomes, Turns, Stops, Of
<1>12. ASSUME NEW t \in Threads, RedirectDoes(t)
      PROVE  Sold'
  BY <1>12, <1>0 DEF RedirectDoes, Sold, Unreserved, Stays, MayRead, FinalStatuses,
     Writes, Decides, Learns, Cancels, Becomes, Turns, Stops, Of
<1>13. ASSUME NEW t \in Threads, NEW o \in Orders, PaidWebhookDoes(t, o)
      PROVE  Sold'
  BY <1>13, <1>0 DEF PaidWebhookDoes, Sold, Unreserved, Stays, MayRead, FinalStatuses,
     Writes, Decides, Learns, Cancels, Becomes, Turns, Stops, Of, Decisions, FormIsOld
<1>14. ASSUME NEW t \in Threads, NEW o \in Orders, ExpiredWebhookDoes(t, o)
      PROVE  Sold'
  BY <1>14, <1>0 DEF ExpiredWebhookDoes, Sold, Unreserved, Stays, MayRead,
     FinalStatuses, Writes, Decides, Learns, Cancels, Becomes, Turns, Stops, Of,
     Decisions, FormIsOld
<1>15. ASSUME NEW t \in Threads, CommitPaidDoes(t)
      PROVE  Sold'
  BY <1>15, <1>0 DEF CommitPaidDoes, Sold, Unreserved, Stays, MayRead, FinalStatuses,
     Writes, Decides, Learns, Cancels, Becomes, Turns, Stops, Of, Off, Calls
<1>16. ASSUME NEW t \in Threads, CommitExpiredDoes(t)
      PROVE  Sold'
  BY <1>16, <1>0 DEF CommitExpiredDoes, Sold, Unreserved, Stays, MayRead, FinalStatuses,
     Writes, Decides, Learns, Cancels, Becomes, Turns, Stops, Of
<1>17. ASSUME NEW t \in Threads, SendConfirmationDoes(t)
      PROVE  Sold'
  BY <1>17, <1>0 DEF SendConfirmationDoes, Sold, Unreserved, Stays, MayRead,
     FinalStatuses, Writes, Decides, Learns, Cancels, Becomes, Turns, Stops, Of
<1>18. ASSUME NEW t \in Threads, ThreadDiesDoes(t)
      PROVE  Sold'
  BY <1>18, <1>0 DEF ThreadDiesDoes, Sold, Unreserved, Stays, MayRead, FinalStatuses,
     Writes, Decides, Learns, Cancels, Becomes, Turns, Stops, Of
<1>19. ASSUME NEW b \in Books, DeleteBook(b)
      PROVE  Sold'
  BY <1>19, <1>0 DEF DeleteBook, mail, staff, Sold, Unreserved, Stays, MayRead,
     FinalStatuses, Writes, Decides, Learns, Cancels, Becomes, Turns, Stops, Of
<1>20. ASSUME NEW o \in Orders, NEW via \in {"api", "admin"}, OpenForm(o, via)
      PROVE  Sold'
  BY <1>20, <1>0 DEF OpenForm, mail, staff, Sold, Unreserved, Stays, MayRead,
     FinalStatuses, Writes, Decides, Learns, Cancels, Becomes, Turns, Stops, Of
<1>21. ASSUME SaveFormDoes
      PROVE  Sold'
  BY <1>21, <1>0 DEF SaveFormDoes, Sold, Unreserved, Stays, MayRead, FinalStatuses,
     Writes, Decides, Learns, Cancels, Becomes, Turns, Stops, Of
<1>22. ASSUME NEW o \in Orders, DeleteOrderDoes(o)
      PROVE  Sold'
  BY <1>22, <1>0 DEF DeleteOrderDoes, Sold, Unreserved, Stays, MayRead, FinalStatuses,
     Writes, Decides, Learns, Cancels, Becomes, Turns, Stops, Of
<1>23. ASSUME NEW o \in Orders, Pay(o)
      PROVE  Sold'
  BY <1>23, <1>0 DEF Pay, mail, staff, Sold, Unreserved, Stays, MayRead, FinalStatuses,
     Writes, Decides, Learns, Cancels, Becomes, Turns, Stops, Of
<1>24. ASSUME NEW o \in Orders, SessionExpires(o)
      PROVE  Sold'
  BY <1>24, <1>0 DEF SessionExpires, mail, staff, Sold, Unreserved, Stays, MayRead,
     FinalStatuses, Writes, Decides, Learns, Cancels, Becomes, Turns, Stops, Of
<1>25. ASSUME EnableIntegration
      PROVE  Sold'
  BY <1>25, <1>0 DEF EnableIntegration, mail, staff, Sold, Unreserved, Stays, MayRead,
     FinalStatuses, Writes, Decides, Learns, Cancels, Becomes, Turns, Stops, Of
<1>26. CASE UNCHANGED shop
  BY <1>26, <1>0 DEF shop, mail, staff, Sold, Unreserved, Stays, MayRead, FinalStatuses,
     Writes, Decides, Learns, Cancels, Becomes, Turns, Stops, Of
<1>. QED BY <1>1, <1>2, <1>3, <1>4, <1>5, <1>6, <1>7, <1>8, <1>9, <1>10, <1>11, <1>12,
     <1>13, <1>14, <1>15, <1>16, <1>17, <1>18, <1>19, <1>20, <1>21, <1>22, <1>23, <1>24,
     <1>25, <1>26 DEF Step, ThreadDoes

\* What is requested and reserved is what the cart holds of the books still sold.
LEMMA WholeStep ==
    ASSUME Step, Whole
    PROVE  Whole'
<1>0. \A o \in Orders, b \in catalogue : W!Exists(o)' => W!Items(o)'[b] = Cart[o][b]
  BY DEF Step, AllMove, Moves, Whole, W!Exists, W!Items
<1>1. ASSUME NEW t \in Threads, NEW o \in Orders, NEW method \in Methods,
             PlaceOrderDoes(t, o, method)
      PROVE  Whole'
  BY <1>1, <1>0 DEF PlaceOrderDoes, Whole, Underway, Becomes, Turns, Stops, Of,
     W!NoItems
<1>2. ASSUME NEW t \in Threads, ReserveDoes(t)
      PROVE  Whole'
  <2>1. ASSUME NEW o \in Orders, NEW b \in catalogue, NEW p \in W!Payloads,
               p = Requested(o)
        PROVE  p[b] = Cart[o][b]
    <3>1. PICK x \in Books : p[x] > 0
      BY DEF W!Payloads
    <3>2. o \notin bare
      BY <2>1, <3>1 DEF Requested
    <3>3. b \in Books
      BY DEF Step, TypeInv, TypeOK
    <3>. QED BY <2>1, <3>2, <3>3 DEF Requested
  <2>. QED BY <1>2, <1>0, <2>1 DEF ReserveDoes, Whole, Underway, Becomes, Of
<1>3. ASSUME NEW t \in Threads, ServeCallDoes(t)
      PROVE  Whole'
  BY <1>3, <1>0 DEF ServeCallDoes, Whole, Underway, Becomes, Turns, Stops, Of
<1>4. ASSUME NEW t \in Threads, RetryDoes(t)
      PROVE  Whole'
  BY <1>4, <1>0 DEF RetryDoes, Whole, Underway, Becomes, Turns, Stops, Of, Leaves
<1>5. ASSUME NEW t \in Threads, GiveUpDoes(t)
      PROVE  Whole'
  BY <1>5, <1>0 DEF GiveUpDoes, Whole, Underway, Becomes, Turns, Stops, Of, Leaves
<1>6. ASSUME NEW t \in Threads, ReservedDoes(t)
      PROVE  Whole'
  BY <1>6, <1>0 DEF ReservedDoes, Whole, Underway, Becomes, Turns, Stops, Of, After
<1>7. ASSUME NEW t \in Threads, ConfirmedDoes(t)
      PROVE  Whole'
  BY <1>7, <1>0 DEF ConfirmedDoes, Whole, Underway, Becomes, Turns, Stops, Of
<1>8. ASSUME NEW t \in Threads, ReleasedDoes(t)
      PROVE  Whole'
  BY <1>8, <1>0 DEF ReleasedDoes, Whole, Underway, Becomes, Turns, Stops, Of
<1>9. ASSUME NEW t \in Threads, SaveFailsDoes(t)
      PROVE  Whole'
  BY <1>9, <1>0 DEF SaveFailsDoes, Whole, Underway, Becomes, Turns, Stops, Of
<1>10. ASSUME NEW t \in Threads, CreateStripeSessionDoes(t)
      PROVE  Whole'
  BY <1>10, <1>0 DEF CreateStripeSessionDoes, Whole, Underway, Becomes, Turns, Stops, Of
<1>11. ASSUME NEW t \in Threads, FailStripeSessionDoes(t)
      PROVE  Whole'
  BY <1>11, <1>0 DEF FailStripeSessionDoes, Whole, Underway, Becomes, Turns, Stops, Of
<1>12. ASSUME NEW t \in Threads, RedirectDoes(t)
      PROVE  Whole'
  BY <1>12, <1>0 DEF RedirectDoes, Whole, Underway, Becomes, Turns, Stops, Of
<1>13. ASSUME NEW t \in Threads, NEW o \in Orders, PaidWebhookDoes(t, o)
      PROVE  Whole'
  BY <1>13, <1>0 DEF PaidWebhookDoes, Whole, Underway, Becomes, Turns, Stops, Of
<1>14. ASSUME NEW t \in Threads, NEW o \in Orders, ExpiredWebhookDoes(t, o)
      PROVE  Whole'
  BY <1>14, <1>0 DEF ExpiredWebhookDoes, Whole, Underway, Becomes, Turns, Stops, Of
<1>15. ASSUME NEW t \in Threads, CommitPaidDoes(t)
      PROVE  Whole'
  BY <1>15, <1>0 DEF CommitPaidDoes, Whole, Underway, Becomes, Turns, Stops, Of
<1>16. ASSUME NEW t \in Threads, CommitExpiredDoes(t)
      PROVE  Whole'
  BY <1>16, <1>0 DEF CommitExpiredDoes, Whole, Underway, Becomes, Turns, Stops, Of
<1>17. ASSUME NEW t \in Threads, SendConfirmationDoes(t)
      PROVE  Whole'
  BY <1>17, <1>0 DEF SendConfirmationDoes, Whole, Underway, Becomes, Turns, Stops, Of
<1>18. ASSUME NEW t \in Threads, ThreadDiesDoes(t)
      PROVE  Whole'
  BY <1>18, <1>0 DEF ThreadDiesDoes, Whole, Underway, Becomes, Turns, Stops, Of, Leaves
<1>19. ASSUME NEW b \in Books, DeleteBook(b)
      PROVE  Whole'
  BY <1>19, <1>0 DEF DeleteBook, mail, staff, Whole, Underway, Becomes, Turns, Stops, Of
<1>20. ASSUME NEW o \in Orders, NEW via \in {"api", "admin"}, OpenForm(o, via)
      PROVE  Whole'
  BY <1>20, <1>0 DEF OpenForm, mail, staff, Whole, Underway, Becomes, Turns, Stops, Of
<1>21. ASSUME SaveFormDoes
      PROVE  Whole'
  BY <1>21, <1>0 DEF SaveFormDoes, Whole, Underway, Becomes, Turns, Stops, Of
<1>22. ASSUME NEW o \in Orders, DeleteOrderDoes(o)
      PROVE  Whole'
  BY <1>22, <1>0 DEF DeleteOrderDoes, Whole, Underway, Becomes, Turns, Stops, Of
<1>23. ASSUME NEW o \in Orders, Pay(o)
      PROVE  Whole'
  BY <1>23, <1>0 DEF Pay, mail, staff, Whole, Underway, Becomes, Turns, Stops, Of
<1>24. ASSUME NEW o \in Orders, SessionExpires(o)
      PROVE  Whole'
  BY <1>24, <1>0 DEF SessionExpires, mail, staff, Whole, Underway, Becomes, Turns,
     Stops, Of
<1>25. ASSUME EnableIntegration
      PROVE  Whole'
  BY <1>25, <1>0 DEF EnableIntegration, mail, staff, Whole, Underway, Becomes, Turns,
     Stops, Of
<1>26. CASE UNCHANGED shop
  BY <1>26, <1>0 DEF shop, mail, staff, Whole, Underway, Becomes, Turns, Stops, Of
<1>. QED BY <1>1, <1>2, <1>3, <1>4, <1>5, <1>6, <1>7, <1>8, <1>9, <1>10, <1>11, <1>12,
     <1>13, <1>14, <1>15, <1>16, <1>17, <1>18, <1>19, <1>20, <1>21, <1>22, <1>23, <1>24,
     <1>25, <1>26 DEF Step, ThreadDoes

\* Each paid order is told once: the email was sent, is about to be, or was lost.
LEMMA ToldStep ==
    ASSUME Step, Path, Decisions, Told
    PROVE  Told'
<1>0. /\ emails \in [Orders -> Nat] /\ unsent \subseteq Orders
      /\ \A t \in Threads, o \in Orders :
            /\ threads[t].at # "idle" /\ threads[t].event = "checkout" /\ Of(t) = o
            => orders[o].status # "paid"
  BY DEF Step, TypeInv, TypeOK, Decisions, InCheckout, Unpaid, MayRead, Checks
<1>1. ASSUME NEW t \in Threads, NEW o \in Orders, NEW method \in Methods,
             PlaceOrderDoes(t, o, method)
      PROVE  Told'
  BY <1>1, <1>0 DEF PlaceOrderDoes, Told, Tells, Deleted, Writes, Decides, Learns,
     Cancels, Becomes, Turns, Stops, Of
<1>2. ASSUME NEW t \in Threads, ReserveDoes(t)
      PROVE  Told'
  BY <1>2, <1>0 DEF ReserveDoes, Told, Tells, Deleted, Writes, Decides, Learns, Cancels,
     Becomes, Turns, Stops, Of
<1>3. ASSUME NEW t \in Threads, ServeCallDoes(t)
      PROVE  Told'
  BY <1>3, <1>0 DEF ServeCallDoes, Told, Tells, Deleted, Writes, Decides, Learns,
     Cancels, Becomes, Turns, Stops, Of
<1>4. ASSUME NEW t \in Threads, RetryDoes(t)
      PROVE  Told'
  BY <1>4, <1>0 DEF RetryDoes, Told, Tells, Deleted, Writes, Decides, Learns, Cancels,
     Becomes, Turns, Stops, Of
<1>5. ASSUME NEW t \in Threads, GiveUpDoes(t)
      PROVE  Told'
  BY <1>5, <1>0 DEF GiveUpDoes, Told, Tells, Deleted, Writes, Decides, Learns, Cancels,
     Becomes, Turns, Stops, Of, Calls
<1>6. ASSUME NEW t \in Threads, ReservedDoes(t)
      PROVE  Told'
  BY <1>6, <1>0 DEF ReservedDoes, Told, Tells, Deleted, Writes, Decides, Learns,
     Cancels, Becomes, Turns, Stops, Of, After
<1>7. ASSUME NEW t \in Threads, ConfirmedDoes(t)
      PROVE  Told'
  BY <1>7, <1>0 DEF ConfirmedDoes, Told, Tells, Deleted, Writes, Decides, Learns,
     Cancels, Becomes, Turns, Stops, Of
<1>8. ASSUME NEW t \in Threads, ReleasedDoes(t)
      PROVE  Told'
  BY <1>8, <1>0 DEF ReleasedDoes, Told, Tells, Deleted, Writes, Decides, Learns,
     Cancels, Becomes, Turns, Stops, Of, Path
<1>9. ASSUME NEW t \in Threads, SaveFailsDoes(t)
      PROVE  Told'
  BY <1>9, <1>0 DEF SaveFailsDoes, Told, Tells, Deleted, Writes, Decides, Learns,
     Cancels, Becomes, Turns, Stops, Of
<1>10. ASSUME NEW t \in Threads, CreateStripeSessionDoes(t)
      PROVE  Told'
  BY <1>10, <1>0 DEF CreateStripeSessionDoes, Told, Tells, Deleted, Writes, Decides,
     Learns, Cancels, Becomes, Turns, Stops, Of
<1>11. ASSUME NEW t \in Threads, FailStripeSessionDoes(t)
      PROVE  Told'
  BY <1>11, <1>0 DEF FailStripeSessionDoes, Told, Tells, Deleted, Writes, Decides,
     Learns, Cancels, Becomes, Turns, Stops, Of, Path
<1>12. ASSUME NEW t \in Threads, RedirectDoes(t)
      PROVE  Told'
  BY <1>12, <1>0 DEF RedirectDoes, Told, Tells, Deleted, Writes, Decides, Learns,
     Cancels, Becomes, Turns, Stops, Of
<1>13. ASSUME NEW t \in Threads, NEW o \in Orders, PaidWebhookDoes(t, o)
      PROVE  Told'
  BY <1>13, <1>0 DEF PaidWebhookDoes, Told, Tells, Deleted, Writes, Decides, Learns,
     Cancels, Becomes, Turns, Stops, Of
<1>14. ASSUME NEW t \in Threads, NEW o \in Orders, ExpiredWebhookDoes(t, o)
      PROVE  Told'
  BY <1>14, <1>0 DEF ExpiredWebhookDoes, Told, Tells, Deleted, Writes, Decides, Learns,
     Cancels, Becomes, Turns, Stops, Of
<1>15. ASSUME NEW t \in Threads, CommitPaidDoes(t)
      PROVE  Told'
  BY <1>15, <1>0 DEF CommitPaidDoes, Told, Tells, Deleted, Writes, Decides, Learns,
     Cancels, Becomes, Turns, Stops, Of
<1>16. ASSUME NEW t \in Threads, CommitExpiredDoes(t)
      PROVE  Told'
  BY <1>16, <1>0 DEF CommitExpiredDoes, Told, Tells, Deleted, Writes, Decides, Learns,
     Cancels, Becomes, Turns, Stops, Of
<1>17. ASSUME NEW t \in Threads, SendConfirmationDoes(t)
      PROVE  Told'
  BY <1>17, <1>0 DEF SendConfirmationDoes, Told, Tells, Deleted, Writes, Decides,
     Learns, Cancels, Becomes, Turns, Stops, Of
<1>18. ASSUME NEW t \in Threads, ThreadDiesDoes(t)
      PROVE  Told'
  BY <1>18, <1>0 DEF ThreadDiesDoes, Told, Tells, Deleted, Writes, Decides, Learns,
     Cancels, Becomes, Turns, Stops, Of
<1>19. ASSUME NEW b \in Books, DeleteBook(b)
      PROVE  Told'
  BY <1>19, <1>0 DEF DeleteBook, mail, staff, Told, Tells, Deleted, Writes, Decides,
     Learns, Cancels, Becomes, Turns, Stops, Of
<1>20. ASSUME NEW o \in Orders, NEW via \in {"api", "admin"}, OpenForm(o, via)
      PROVE  Told'
  BY <1>20, <1>0 DEF OpenForm, mail, staff, Told, Tells, Deleted, Writes, Decides,
     Learns, Cancels, Becomes, Turns, Stops, Of
<1>21. ASSUME SaveFormDoes
      PROVE  Told'
  BY <1>21, <1>0 DEF SaveFormDoes, Told, Tells, Deleted, Writes, Decides, Learns,
     Cancels, Becomes, Turns, Stops, Of
<1>22. ASSUME NEW o \in Orders, DeleteOrderDoes(o)
      PROVE  Told'
  BY <1>22, <1>0 DEF DeleteOrderDoes, Told, Tells, Deleted, Writes, Decides, Learns,
     Cancels, Becomes, Turns, Stops, Of
<1>23. ASSUME NEW o \in Orders, Pay(o)
      PROVE  Told'
  BY <1>23, <1>0 DEF Pay, mail, staff, Told, Tells, Deleted, Writes, Decides, Learns,
     Cancels, Becomes, Turns, Stops, Of
<1>24. ASSUME NEW o \in Orders, SessionExpires(o)
      PROVE  Told'
  BY <1>24, <1>0 DEF SessionExpires, mail, staff, Told, Tells, Deleted, Writes, Decides,
     Learns, Cancels, Becomes, Turns, Stops, Of
<1>25. ASSUME EnableIntegration
      PROVE  Told'
  BY <1>25, <1>0 DEF EnableIntegration, mail, staff, Told, Tells, Deleted, Writes,
     Decides, Learns, Cancels, Becomes, Turns, Stops, Of
<1>26. CASE UNCHANGED shop
  BY <1>26, <1>0 DEF shop, mail, staff, Told, Tells, Deleted, Writes, Decides, Learns,
     Cancels, Becomes, Turns, Stops, Of
<1>. QED BY <1>1, <1>2, <1>3, <1>4, <1>5, <1>6, <1>7, <1>8, <1>9, <1>10, <1>11, <1>12,
     <1>13, <1>14, <1>15, <1>16, <1>17, <1>18, <1>19, <1>20, <1>21, <1>22, <1>23, <1>24,
     <1>25, <1>26 DEF Step, ThreadDoes

\* Only a thread that turns to it asks for a sale.
Asks(o) ==
    \E t \in Threads : /\ threads[t].at # "confirm"
                       /\ threads'[t].at = "confirm" /\ threads'[t].order = o

\* A sale comes to be asked for only when a thread turns to it.
LEMMA AskedStep ==
    ASSUME Step
    PROVE  \A p \in Orders : Asked(p)' => Asked(p) \/ Asks(p)
<1>0. \A t \in Threads : threads[t].items \in W!ItemMaps
  BY DEF Step, TypeInv, ThreadsOK, Thread
<1>1. ASSUME NEW t \in Threads, NEW o \in Orders, NEW method \in Methods,
             PlaceOrderDoes(t, o, method)
      PROVE  \A p \in Orders : Asked(p)' => Asked(p) \/ Asks(p)
  BY <1>1, <1>0 DEF PlaceOrderDoes, Asked, Asks, Underway, Becomes, Turns, Stops, Of
<1>2. ASSUME NEW t \in Threads, ReserveDoes(t)
      PROVE  \A p \in Orders : Asked(p)' => Asked(p) \/ Asks(p)
  BY <1>2, <1>0 DEF ReserveDoes, Asked, Asks, Underway, Becomes, Turns, Stops, Of
<1>3. ASSUME NEW t \in Threads, ServeCallDoes(t)
      PROVE  \A p \in Orders : Asked(p)' => Asked(p) \/ Asks(p)
  BY <1>3, <1>0 DEF ServeCallDoes, Asked, Asks, Underway, Becomes, Turns, Stops, Of
<1>4. ASSUME NEW t \in Threads, RetryDoes(t)
      PROVE  \A p \in Orders : Asked(p)' => Asked(p) \/ Asks(p)
  BY <1>4, <1>0 DEF RetryDoes, Asked, Asks, Underway, Becomes, Turns, Stops, Of, Leaves
<1>5. ASSUME NEW t \in Threads, GiveUpDoes(t)
      PROVE  \A p \in Orders : Asked(p)' => Asked(p) \/ Asks(p)
  BY <1>5, <1>0 DEF GiveUpDoes, Asked, Asks, Underway, Becomes, Turns, Stops, Of, Leaves
<1>6. ASSUME NEW t \in Threads, ReservedDoes(t)
      PROVE  \A p \in Orders : Asked(p)' => Asked(p) \/ Asks(p)
  BY <1>6, <1>0 DEF ReservedDoes, Asked, Asks, Underway, Becomes, Turns, Stops, Of,
     After
<1>7. ASSUME NEW t \in Threads, ConfirmedDoes(t)
      PROVE  \A p \in Orders : Asked(p)' => Asked(p) \/ Asks(p)
  BY <1>7, <1>0 DEF ConfirmedDoes, Asked, Asks, Underway, Becomes, Turns, Stops, Of
<1>8. ASSUME NEW t \in Threads, ReleasedDoes(t)
      PROVE  \A p \in Orders : Asked(p)' => Asked(p) \/ Asks(p)
  BY <1>8, <1>0 DEF ReleasedDoes, Asked, Asks, Underway, Becomes, Turns, Stops, Of
<1>9. ASSUME NEW t \in Threads, SaveFailsDoes(t)
      PROVE  \A p \in Orders : Asked(p)' => Asked(p) \/ Asks(p)
  BY <1>9, <1>0 DEF SaveFailsDoes, Asked, Asks, Underway, Becomes, Turns, Stops, Of
<1>10. ASSUME NEW t \in Threads, CreateStripeSessionDoes(t)
      PROVE  \A p \in Orders : Asked(p)' => Asked(p) \/ Asks(p)
  BY <1>10, <1>0 DEF CreateStripeSessionDoes, Asked, Asks, Underway, Becomes, Turns,
     Stops, Of
<1>11. ASSUME NEW t \in Threads, FailStripeSessionDoes(t)
      PROVE  \A p \in Orders : Asked(p)' => Asked(p) \/ Asks(p)
  BY <1>11, <1>0 DEF FailStripeSessionDoes, Asked, Asks, Underway, Becomes, Turns,
     Stops, Of
<1>12. ASSUME NEW t \in Threads, RedirectDoes(t)
      PROVE  \A p \in Orders : Asked(p)' => Asked(p) \/ Asks(p)
  BY <1>12, <1>0 DEF RedirectDoes, Asked, Asks, Underway, Becomes, Turns, Stops, Of
<1>13. ASSUME NEW t \in Threads, NEW o \in Orders, PaidWebhookDoes(t, o)
      PROVE  \A p \in Orders : Asked(p)' => Asked(p) \/ Asks(p)
  BY <1>13, <1>0 DEF PaidWebhookDoes, Asked, Asks, Underway, Becomes, Turns, Stops, Of
<1>14. ASSUME NEW t \in Threads, NEW o \in Orders, ExpiredWebhookDoes(t, o)
      PROVE  \A p \in Orders : Asked(p)' => Asked(p) \/ Asks(p)
  BY <1>14, <1>0 DEF ExpiredWebhookDoes, Asked, Asks, Underway, Becomes, Turns, Stops,
     Of
<1>15. ASSUME NEW t \in Threads, CommitPaidDoes(t)
      PROVE  \A p \in Orders : Asked(p)' => Asked(p) \/ Asks(p)
  BY <1>15, <1>0 DEF CommitPaidDoes, Asked, Asks, Underway, Becomes, Turns, Stops, Of
<1>16. ASSUME NEW t \in Threads, CommitExpiredDoes(t)
      PROVE  \A p \in Orders : Asked(p)' => Asked(p) \/ Asks(p)
  BY <1>16, <1>0 DEF CommitExpiredDoes, Asked, Asks, Underway, Becomes, Turns, Stops, Of
<1>17. ASSUME NEW t \in Threads, SendConfirmationDoes(t)
      PROVE  \A p \in Orders : Asked(p)' => Asked(p) \/ Asks(p)
  BY <1>17, <1>0 DEF SendConfirmationDoes, Asked, Asks, Underway, Becomes, Turns, Stops,
     Of
<1>18. ASSUME NEW t \in Threads, ThreadDiesDoes(t)
      PROVE  \A p \in Orders : Asked(p)' => Asked(p) \/ Asks(p)
  BY <1>18, <1>0 DEF ThreadDiesDoes, Asked, Asks, Underway, Becomes, Turns, Stops, Of,
     Leaves
<1>19. ASSUME NEW b \in Books, DeleteBook(b)
      PROVE  \A p \in Orders : Asked(p)' => Asked(p) \/ Asks(p)
  BY <1>19, <1>0 DEF DeleteBook, mail, staff, Asked, Asks, Underway, Becomes, Turns,
     Stops, Of
<1>20. ASSUME NEW o \in Orders, NEW via \in {"api", "admin"}, OpenForm(o, via)
      PROVE  \A p \in Orders : Asked(p)' => Asked(p) \/ Asks(p)
  BY <1>20, <1>0 DEF OpenForm, mail, staff, Asked, Asks, Underway, Becomes, Turns,
     Stops, Of
<1>21. ASSUME SaveFormDoes
      PROVE  \A p \in Orders : Asked(p)' => Asked(p) \/ Asks(p)
  BY <1>21, <1>0 DEF SaveFormDoes, Asked, Asks, Underway, Becomes, Turns, Stops, Of
<1>22. ASSUME NEW o \in Orders, DeleteOrderDoes(o)
      PROVE  \A p \in Orders : Asked(p)' => Asked(p) \/ Asks(p)
  BY <1>22, <1>0 DEF DeleteOrderDoes, Asked, Asks, Underway, Becomes, Turns, Stops, Of
<1>23. ASSUME NEW o \in Orders, Pay(o)
      PROVE  \A p \in Orders : Asked(p)' => Asked(p) \/ Asks(p)
  BY <1>23, <1>0 DEF Pay, mail, staff, Asked, Asks, Underway, Becomes, Turns, Stops, Of
<1>24. ASSUME NEW o \in Orders, SessionExpires(o)
      PROVE  \A p \in Orders : Asked(p)' => Asked(p) \/ Asks(p)
  BY <1>24, <1>0 DEF SessionExpires, mail, staff, Asked, Asks, Underway, Becomes, Turns,
     Stops, Of
<1>25. ASSUME EnableIntegration
      PROVE  \A p \in Orders : Asked(p)' => Asked(p) \/ Asks(p)
  BY <1>25, <1>0 DEF EnableIntegration, mail, staff, Asked, Asks, Underway, Becomes,
     Turns, Stops, Of
<1>26. CASE UNCHANGED shop
  BY <1>26, <1>0 DEF shop, mail, staff, Asked, Asks, Underway, Becomes, Turns, Stops, Of
<1>. QED BY <1>1, <1>2, <1>3, <1>4, <1>5, <1>6, <1>7, <1>8, <1>9, <1>10, <1>11, <1>12,
     <1>13, <1>14, <1>15, <1>16, <1>17, <1>18, <1>19, <1>20, <1>21, <1>22, <1>23, <1>24,
     <1>25, <1>26 DEF Step, ThreadDoes

\* Nothing is asked of Warehouse about an order that was not placed.
LEMMA NothingAskedStep ==
    ASSUME Step, Decisions, \A o \in Orders : NothingAsked(o)
    PROVE  \A p \in Orders : NothingAsked(p)'
<1>0. /\ \A o \in Orders : orders[o].status = "none" =>
            /\ ~W!Exists(o)'
            /\ \A t \in Threads : threads[t].at # "idle" => Of(t) # o
      /\ form # NoForm => form.order \in Orders /\ form.row.status # "none"
  BY DEF Step, AllMove, Moves, Underway, Calls, W!Exists, W!Payloads, Decisions,
     NotPlaced, NothingAsked, FormIsOld, TypeInv
<1>1. ASSUME NEW t \in Threads, NEW o \in Orders, NEW method \in Methods,
             PlaceOrderDoes(t, o, method)
      PROVE  \A p \in Orders : NothingAsked(p)'
  BY <1>1, <1>0 DEF PlaceOrderDoes, NothingAsked, Calls, Deleted, Writes, Decides,
     Learns, Cancels, Becomes, Turns, Stops, Of
<1>2. ASSUME NEW t \in Threads, ReserveDoes(t)
      PROVE  \A p \in Orders : NothingAsked(p)'
  BY <1>2, <1>0 DEF ReserveDoes, NothingAsked, Calls, Deleted, Writes, Decides, Learns,
     Cancels, Becomes, Turns, Stops, Of
<1>3. ASSUME NEW t \in Threads, ServeCallDoes(t)
      PROVE  \A p \in Orders : NothingAsked(p)'
  BY <1>3, <1>0 DEF ServeCallDoes, NothingAsked, Calls, Deleted, Writes, Decides,
     Learns, Cancels, Becomes, Turns, Stops, Of
<1>4. ASSUME NEW t \in Threads, RetryDoes(t)
      PROVE  \A p \in Orders : NothingAsked(p)'
  BY <1>4, <1>0 DEF RetryDoes, NothingAsked, Calls, Deleted, Writes, Decides, Learns,
     Cancels, Becomes, Turns, Stops, Of, Leaves
<1>5. ASSUME NEW t \in Threads, GiveUpDoes(t)
      PROVE  \A p \in Orders : NothingAsked(p)'
  BY <1>5, <1>0 DEF GiveUpDoes, NothingAsked, Calls, Deleted, Writes, Decides, Learns,
     Cancels, Becomes, Turns, Stops, Of, Leaves
<1>6. ASSUME NEW t \in Threads, ReservedDoes(t)
      PROVE  \A p \in Orders : NothingAsked(p)'
  BY <1>6, <1>0 DEF ReservedDoes, NothingAsked, Calls, Deleted, Writes, Decides, Learns,
     Cancels, Becomes, Turns, Stops, Of
<1>7. ASSUME NEW t \in Threads, ConfirmedDoes(t)
      PROVE  \A p \in Orders : NothingAsked(p)'
  BY <1>7, <1>0 DEF ConfirmedDoes, NothingAsked, Calls, Deleted, Writes, Decides,
     Learns, Cancels, Becomes, Turns, Stops, Of
<1>8. ASSUME NEW t \in Threads, ReleasedDoes(t)
      PROVE  \A p \in Orders : NothingAsked(p)'
  BY <1>8, <1>0 DEF ReleasedDoes, NothingAsked, Calls, Deleted, Writes, Decides, Learns,
     Cancels, Becomes, Turns, Stops, Of
<1>9. ASSUME NEW t \in Threads, SaveFailsDoes(t)
      PROVE  \A p \in Orders : NothingAsked(p)'
  BY <1>9, <1>0 DEF SaveFailsDoes, NothingAsked, Calls, Deleted, Writes, Decides,
     Learns, Cancels, Becomes, Turns, Stops, Of
<1>10. ASSUME NEW t \in Threads, CreateStripeSessionDoes(t)
      PROVE  \A p \in Orders : NothingAsked(p)'
  BY <1>10, <1>0 DEF CreateStripeSessionDoes, NothingAsked, Calls, Deleted, Writes,
     Decides, Learns, Cancels, Becomes, Turns, Stops, Of
<1>11. ASSUME NEW t \in Threads, FailStripeSessionDoes(t)
      PROVE  \A p \in Orders : NothingAsked(p)'
  BY <1>11, <1>0 DEF FailStripeSessionDoes, NothingAsked, Calls, Deleted, Writes,
     Decides, Learns, Cancels, Becomes, Turns, Stops, Of
<1>12. ASSUME NEW t \in Threads, RedirectDoes(t)
      PROVE  \A p \in Orders : NothingAsked(p)'
  BY <1>12, <1>0 DEF RedirectDoes, NothingAsked, Calls, Deleted, Writes, Decides,
     Learns, Cancels, Becomes, Turns, Stops, Of
<1>13. ASSUME NEW t \in Threads, NEW o \in Orders, PaidWebhookDoes(t, o)
      PROVE  \A p \in Orders : NothingAsked(p)'
  BY <1>13, <1>0 DEF PaidWebhookDoes, NothingAsked, Calls, Deleted, Writes, Decides,
     Learns, Cancels, Becomes, Turns, Stops, Of
<1>14. ASSUME NEW t \in Threads, NEW o \in Orders, ExpiredWebhookDoes(t, o)
      PROVE  \A p \in Orders : NothingAsked(p)'
  BY <1>14, <1>0 DEF ExpiredWebhookDoes, NothingAsked, Calls, Deleted, Writes, Decides,
     Learns, Cancels, Becomes, Turns, Stops, Of
<1>15. ASSUME NEW t \in Threads, CommitPaidDoes(t)
      PROVE  \A p \in Orders : NothingAsked(p)'
  BY <1>15, <1>0 DEF CommitPaidDoes, NothingAsked, Calls, Deleted, Writes, Decides,
     Learns, Cancels, Becomes, Turns, Stops, Of
<1>16. ASSUME NEW t \in Threads, CommitExpiredDoes(t)
      PROVE  \A p \in Orders : NothingAsked(p)'
  BY <1>16, <1>0 DEF CommitExpiredDoes, NothingAsked, Calls, Deleted, Writes, Decides,
     Learns, Cancels, Becomes, Turns, Stops, Of
<1>17. ASSUME NEW t \in Threads, SendConfirmationDoes(t)
      PROVE  \A p \in Orders : NothingAsked(p)'
  BY <1>17, <1>0 DEF SendConfirmationDoes, NothingAsked, Calls, Deleted, Writes,
     Decides, Learns, Cancels, Becomes, Turns, Stops, Of
<1>18. ASSUME NEW t \in Threads, ThreadDiesDoes(t)
      PROVE  \A p \in Orders : NothingAsked(p)'
  BY <1>18, <1>0 DEF ThreadDiesDoes, NothingAsked, Calls, Deleted, Writes, Decides,
     Learns, Cancels, Becomes, Turns, Stops, Of, Leaves
<1>19. ASSUME NEW b \in Books, DeleteBook(b)
      PROVE  \A p \in Orders : NothingAsked(p)'
  BY <1>19, <1>0 DEF DeleteBook, mail, staff, NothingAsked, Calls, Deleted, Writes,
     Decides, Learns, Cancels, Becomes, Turns, Stops, Of
<1>20. ASSUME NEW o \in Orders, NEW via \in {"api", "admin"}, OpenForm(o, via)
      PROVE  \A p \in Orders : NothingAsked(p)'
  BY <1>20, <1>0 DEF OpenForm, mail, staff, NothingAsked, Calls, Deleted, Writes,
     Decides, Learns, Cancels, Becomes, Turns, Stops, Of
<1>21. ASSUME SaveFormDoes
      PROVE  \A p \in Orders : NothingAsked(p)'
  BY <1>21, <1>0 DEF SaveFormDoes, NothingAsked, Calls, Deleted, Writes, Decides,
     Learns, Cancels, Becomes, Turns, Stops, Of
<1>22. ASSUME NEW o \in Orders, DeleteOrderDoes(o)
      PROVE  \A p \in Orders : NothingAsked(p)'
  BY <1>22, <1>0 DEF DeleteOrderDoes, NothingAsked, Calls, Deleted, Writes, Decides,
     Learns, Cancels, Becomes, Turns, Stops, Of
<1>23. ASSUME NEW o \in Orders, Pay(o)
      PROVE  \A p \in Orders : NothingAsked(p)'
  BY <1>23, <1>0 DEF Pay, mail, staff, NothingAsked, Calls, Deleted, Writes, Decides,
     Learns, Cancels, Becomes, Turns, Stops, Of
<1>24. ASSUME NEW o \in Orders, SessionExpires(o)
      PROVE  \A p \in Orders : NothingAsked(p)'
  BY <1>24, <1>0 DEF SessionExpires, mail, staff, NothingAsked, Calls, Deleted, Writes,
     Decides, Learns, Cancels, Becomes, Turns, Stops, Of
<1>25. ASSUME EnableIntegration
      PROVE  \A p \in Orders : NothingAsked(p)'
  BY <1>25, <1>0 DEF EnableIntegration, mail, staff, NothingAsked, Calls, Deleted,
     Writes, Decides, Learns, Cancels, Becomes, Turns, Stops, Of
<1>26. CASE UNCHANGED shop
  BY <1>26, <1>0 DEF shop, mail, staff, NothingAsked, Calls, Deleted, Writes, Decides,
     Learns, Cancels, Becomes, Turns, Stops, Of
<1>. QED BY <1>1, <1>2, <1>3, <1>4, <1>5, <1>6, <1>7, <1>8, <1>9, <1>10, <1>11, <1>12,
     <1>13, <1>14, <1>15, <1>16, <1>17, <1>18, <1>19, <1>20, <1>21, <1>22, <1>23, <1>24,
     <1>25, <1>26 DEF Step, ThreadDoes

\* A thread that asks for a sale has seen the payment, or the order is cash.
LEMMA AsksBacked ==
    ASSUME Step, Decisions
    PROVE  \A p \in Orders : Asks(p) => Backed(p)'
<1>0. \A t \in Threads : threads[t].at # "idle" /\ threads[t].event = "paid" =>
         sessions[Of(t)] = "paid"
  BY DEF Step, TypeInv, ThreadsOK, Decisions, Unpaid, Pays
<1>1. ASSUME NEW t \in Threads, NEW o \in Orders, NEW method \in Methods,
             PlaceOrderDoes(t, o, method)
      PROVE  \A p \in Orders : Asks(p) => Backed(p)'
  BY <1>1, <1>0 DEF PlaceOrderDoes, Asks, Becomes, Turns, Stops, Of
<1>2. ASSUME NEW t \in Threads, ReserveDoes(t)
      PROVE  \A p \in Orders : Asks(p) => Backed(p)'
  BY <1>2, <1>0 DEF ReserveDoes, Asks, Becomes, Turns, Stops, Of
<1>3. ASSUME NEW t \in Threads, ServeCallDoes(t)
      PROVE  \A p \in Orders : Asks(p) => Backed(p)'
  BY <1>3, <1>0 DEF ServeCallDoes, Asks, Becomes, Turns, Stops, Of
<1>4. ASSUME NEW t \in Threads, RetryDoes(t)
      PROVE  \A p \in Orders : Asks(p) => Backed(p)'
  BY <1>4, <1>0 DEF RetryDoes, Asks, Becomes, Turns, Stops, Of
<1>5. ASSUME NEW t \in Threads, GiveUpDoes(t)
      PROVE  \A p \in Orders : Asks(p) => Backed(p)'
  BY <1>5, <1>0 DEF GiveUpDoes, Asks, Becomes, Turns, Stops, Of
<1>6. ASSUME NEW t \in Threads, ReservedDoes(t)
      PROVE  \A p \in Orders : Asks(p) => Backed(p)'
  BY <1>6, <1>0 DEF ReservedDoes, Asks, Becomes, Turns, Stops, Of, After, Sells, Backed,
     Learns, Writes
<1>7. ASSUME NEW t \in Threads, ConfirmedDoes(t)
      PROVE  \A p \in Orders : Asks(p) => Backed(p)'
  BY <1>7, <1>0 DEF ConfirmedDoes, Asks, Becomes, Turns, Stops, Of
<1>8. ASSUME NEW t \in Threads, ReleasedDoes(t)
      PROVE  \A p \in Orders : Asks(p) => Backed(p)'
  BY <1>8, <1>0 DEF ReleasedDoes, Asks, Becomes, Turns, Stops, Of
<1>9. ASSUME NEW t \in Threads, SaveFailsDoes(t)
      PROVE  \A p \in Orders : Asks(p) => Backed(p)'
  BY <1>9, <1>0 DEF SaveFailsDoes, Asks, Becomes, Turns, Stops, Of
<1>10. ASSUME NEW t \in Threads, CreateStripeSessionDoes(t)
      PROVE  \A p \in Orders : Asks(p) => Backed(p)'
  BY <1>10, <1>0 DEF CreateStripeSessionDoes, Asks, Becomes, Turns, Stops, Of
<1>11. ASSUME NEW t \in Threads, FailStripeSessionDoes(t)
      PROVE  \A p \in Orders : Asks(p) => Backed(p)'
  BY <1>11, <1>0 DEF FailStripeSessionDoes, Asks, Becomes, Turns, Stops, Of
<1>12. ASSUME NEW t \in Threads, RedirectDoes(t)
      PROVE  \A p \in Orders : Asks(p) => Backed(p)'
  BY <1>12, <1>0 DEF RedirectDoes, Asks, Becomes, Turns, Stops, Of
<1>13. ASSUME NEW t \in Threads, NEW o \in Orders, PaidWebhookDoes(t, o)
      PROVE  \A p \in Orders : Asks(p) => Backed(p)'
  BY <1>13, <1>0 DEF PaidWebhookDoes, Asks, Becomes, Turns, Stops, Of, Backed
<1>14. ASSUME NEW t \in Threads, NEW o \in Orders, ExpiredWebhookDoes(t, o)
      PROVE  \A p \in Orders : Asks(p) => Backed(p)'
  BY <1>14, <1>0 DEF ExpiredWebhookDoes, Asks, Becomes, Turns, Stops, Of
<1>15. ASSUME NEW t \in Threads, CommitPaidDoes(t)
      PROVE  \A p \in Orders : Asks(p) => Backed(p)'
  BY <1>15, <1>0 DEF CommitPaidDoes, Asks, Becomes, Turns, Stops, Of
<1>16. ASSUME NEW t \in Threads, CommitExpiredDoes(t)
      PROVE  \A p \in Orders : Asks(p) => Backed(p)'
  BY <1>16, <1>0 DEF CommitExpiredDoes, Asks, Becomes, Turns, Stops, Of
<1>17. ASSUME NEW t \in Threads, SendConfirmationDoes(t)
      PROVE  \A p \in Orders : Asks(p) => Backed(p)'
  BY <1>17, <1>0 DEF SendConfirmationDoes, Asks, Becomes, Turns, Stops, Of
<1>18. ASSUME NEW t \in Threads, ThreadDiesDoes(t)
      PROVE  \A p \in Orders : Asks(p) => Backed(p)'
  BY <1>18, <1>0 DEF ThreadDiesDoes, Asks, Becomes, Turns, Stops, Of
<1>19. ASSUME NEW b \in Books, DeleteBook(b)
      PROVE  \A p \in Orders : Asks(p) => Backed(p)'
  BY <1>19, <1>0 DEF DeleteBook, mail, staff, Asks, Becomes, Turns, Stops, Of
<1>20. ASSUME NEW o \in Orders, NEW via \in {"api", "admin"}, OpenForm(o, via)
      PROVE  \A p \in Orders : Asks(p) => Backed(p)'
  BY <1>20, <1>0 DEF OpenForm, mail, staff, Asks, Becomes, Turns, Stops, Of
<1>21. ASSUME SaveFormDoes
      PROVE  \A p \in Orders : Asks(p) => Backed(p)'
  BY <1>21, <1>0 DEF SaveFormDoes, Asks, Becomes, Turns, Stops, Of
<1>22. ASSUME NEW o \in Orders, DeleteOrderDoes(o)
      PROVE  \A p \in Orders : Asks(p) => Backed(p)'
  BY <1>22, <1>0 DEF DeleteOrderDoes, Asks, Becomes, Turns, Stops, Of
<1>23. ASSUME NEW o \in Orders, Pay(o)
      PROVE  \A p \in Orders : Asks(p) => Backed(p)'
  BY <1>23, <1>0 DEF Pay, mail, staff, Asks, Becomes, Turns, Stops, Of
<1>24. ASSUME NEW o \in Orders, SessionExpires(o)
      PROVE  \A p \in Orders : Asks(p) => Backed(p)'
  BY <1>24, <1>0 DEF SessionExpires, mail, staff, Asks, Becomes, Turns, Stops, Of
<1>25. ASSUME EnableIntegration
      PROVE  \A p \in Orders : Asks(p) => Backed(p)'
  BY <1>25, <1>0 DEF EnableIntegration, mail, staff, Asks, Becomes, Turns, Stops, Of
<1>26. CASE UNCHANGED shop
  BY <1>26, <1>0 DEF shop, mail, staff, Asks, Becomes, Turns, Stops, Of
<1>. QED BY <1>1, <1>2, <1>3, <1>4, <1>5, <1>6, <1>7, <1>8, <1>9, <1>10, <1>11, <1>12,
     <1>13, <1>14, <1>15, <1>16, <1>17, <1>18, <1>19, <1>20, <1>21, <1>22, <1>23, <1>24,
     <1>25, <1>26 DEF Step, ThreadDoes

\* A form that has not changed its order has its payment method.
LEMMA FormHasMethodStep ==
    ASSUME Step, Decisions, Account
    PROVE  \A p \in Orders \ edited' : FormHasMethod(p)'
<1>0. /\ \A o \in Orders \ edited : FormHasMethod(o)
      /\ \A o \in Orders : form # NoForm /\ form.order = o => orders[o].status # "none"
      /\ form # NoForm => form.order \in Orders
  BY DEF Step, TypeInv, Account, Decisions, FormIsOld
<1>1. ASSUME NEW t \in Threads, NEW o \in Orders, NEW method \in Methods,
             PlaceOrderDoes(t, o, method)
      PROVE  \A p \in Orders \ edited' : FormHasMethod(p)'
  BY <1>1, <1>0 DEF PlaceOrderDoes, FormHasMethod, Writes, Decides, Learns, Cancels,
     Becomes, Turns, Stops, Of
<1>2. ASSUME NEW t \in Threads, ReserveDoes(t)
      PROVE  \A p \in Orders \ edited' : FormHasMethod(p)'
  BY <1>2, <1>0 DEF ReserveDoes, FormHasMethod, Writes, Decides, Learns, Cancels,
     Becomes, Turns, Stops, Of
<1>3. ASSUME NEW t \in Threads, ServeCallDoes(t)
      PROVE  \A p \in Orders \ edited' : FormHasMethod(p)'
  BY <1>3, <1>0 DEF ServeCallDoes, FormHasMethod, Writes, Decides, Learns, Cancels,
     Becomes, Turns, Stops, Of
<1>4. ASSUME NEW t \in Threads, RetryDoes(t)
      PROVE  \A p \in Orders \ edited' : FormHasMethod(p)'
  BY <1>4, <1>0 DEF RetryDoes, FormHasMethod, Writes, Decides, Learns, Cancels, Becomes,
     Turns, Stops, Of
<1>5. ASSUME NEW t \in Threads, GiveUpDoes(t)
      PROVE  \A p \in Orders \ edited' : FormHasMethod(p)'
  BY <1>5, <1>0 DEF GiveUpDoes, FormHasMethod, Writes, Decides, Learns, Cancels,
     Becomes, Turns, Stops, Of
<1>6. ASSUME NEW t \in Threads, ReservedDoes(t)
      PROVE  \A p \in Orders \ edited' : FormHasMethod(p)'
  BY <1>6, <1>0 DEF ReservedDoes, FormHasMethod, Writes, Decides, Learns, Cancels,
     Becomes, Turns, Stops, Of
<1>7. ASSUME NEW t \in Threads, ConfirmedDoes(t)
      PROVE  \A p \in Orders \ edited' : FormHasMethod(p)'
  BY <1>7, <1>0 DEF ConfirmedDoes, FormHasMethod, Writes, Decides, Learns, Cancels,
     Becomes, Turns, Stops, Of
<1>8. ASSUME NEW t \in Threads, ReleasedDoes(t)
      PROVE  \A p \in Orders \ edited' : FormHasMethod(p)'
  BY <1>8, <1>0 DEF ReleasedDoes, FormHasMethod, Writes, Decides, Learns, Cancels,
     Becomes, Turns, Stops, Of
<1>9. ASSUME NEW t \in Threads, SaveFailsDoes(t)
      PROVE  \A p \in Orders \ edited' : FormHasMethod(p)'
  BY <1>9, <1>0 DEF SaveFailsDoes, FormHasMethod, Writes, Decides, Learns, Cancels,
     Becomes, Turns, Stops, Of
<1>10. ASSUME NEW t \in Threads, CreateStripeSessionDoes(t)
      PROVE  \A p \in Orders \ edited' : FormHasMethod(p)'
  BY <1>10, <1>0 DEF CreateStripeSessionDoes, FormHasMethod, Writes, Decides, Learns,
     Cancels, Becomes, Turns, Stops, Of
<1>11. ASSUME NEW t \in Threads, FailStripeSessionDoes(t)
      PROVE  \A p \in Orders \ edited' : FormHasMethod(p)'
  BY <1>11, <1>0 DEF FailStripeSessionDoes, FormHasMethod, Writes, Decides, Learns,
     Cancels, Becomes, Turns, Stops, Of
<1>12. ASSUME NEW t \in Threads, RedirectDoes(t)
      PROVE  \A p \in Orders \ edited' : FormHasMethod(p)'
  BY <1>12, <1>0 DEF RedirectDoes, FormHasMethod, Writes, Decides, Learns, Cancels,
     Becomes, Turns, Stops, Of
<1>13. ASSUME NEW t \in Threads, NEW o \in Orders, PaidWebhookDoes(t, o)
      PROVE  \A p \in Orders \ edited' : FormHasMethod(p)'
  BY <1>13, <1>0 DEF PaidWebhookDoes, FormHasMethod, Writes, Decides, Learns, Cancels,
     Becomes, Turns, Stops, Of
<1>14. ASSUME NEW t \in Threads, NEW o \in Orders, ExpiredWebhookDoes(t, o)
      PROVE  \A p \in Orders \ edited' : FormHasMethod(p)'
  BY <1>14, <1>0 DEF ExpiredWebhookDoes, FormHasMethod, Writes, Decides, Learns,
     Cancels, Becomes, Turns, Stops, Of
<1>15. ASSUME NEW t \in Threads, CommitPaidDoes(t)
      PROVE  \A p \in Orders \ edited' : FormHasMethod(p)'
  BY <1>15, <1>0 DEF CommitPaidDoes, FormHasMethod, Writes, Decides, Learns, Cancels,
     Becomes, Turns, Stops, Of
<1>16. ASSUME NEW t \in Threads, CommitExpiredDoes(t)
      PROVE  \A p \in Orders \ edited' : FormHasMethod(p)'
  BY <1>16, <1>0 DEF CommitExpiredDoes, FormHasMethod, Writes, Decides, Learns, Cancels,
     Becomes, Turns, Stops, Of
<1>17. ASSUME NEW t \in Threads, SendConfirmationDoes(t)
      PROVE  \A p \in Orders \ edited' : FormHasMethod(p)'
  BY <1>17, <1>0 DEF SendConfirmationDoes, FormHasMethod, Writes, Decides, Learns,
     Cancels, Becomes, Turns, Stops, Of
<1>18. ASSUME NEW t \in Threads, ThreadDiesDoes(t)
      PROVE  \A p \in Orders \ edited' : FormHasMethod(p)'
  BY <1>18, <1>0 DEF ThreadDiesDoes, FormHasMethod, Writes, Decides, Learns, Cancels,
     Becomes, Turns, Stops, Of
<1>19. ASSUME NEW b \in Books, DeleteBook(b)
      PROVE  \A p \in Orders \ edited' : FormHasMethod(p)'
  BY <1>19, <1>0 DEF DeleteBook, mail, staff, FormHasMethod, Writes, Decides, Learns,
     Cancels, Becomes, Turns, Stops, Of
<1>20. ASSUME NEW o \in Orders, NEW via \in {"api", "admin"}, OpenForm(o, via)
      PROVE  \A p \in Orders \ edited' : FormHasMethod(p)'
  BY <1>20, <1>0 DEF OpenForm, mail, staff, FormHasMethod, Writes, Decides, Learns,
     Cancels, Becomes, Turns, Stops, Of
<1>21. ASSUME SaveFormDoes
      PROVE  \A p \in Orders \ edited' : FormHasMethod(p)'
  BY <1>21, <1>0 DEF SaveFormDoes, FormHasMethod, Writes, Decides, Learns, Cancels,
     Becomes, Turns, Stops, Of
<1>22. ASSUME NEW o \in Orders, DeleteOrderDoes(o)
      PROVE  \A p \in Orders \ edited' : FormHasMethod(p)'
  BY <1>22, <1>0 DEF DeleteOrderDoes, FormHasMethod, Writes, Decides, Learns, Cancels,
     Becomes, Turns, Stops, Of
<1>23. ASSUME NEW o \in Orders, Pay(o)
      PROVE  \A p \in Orders \ edited' : FormHasMethod(p)'
  BY <1>23, <1>0 DEF Pay, mail, staff, FormHasMethod, Writes, Decides, Learns, Cancels,
     Becomes, Turns, Stops, Of
<1>24. ASSUME NEW o \in Orders, SessionExpires(o)
      PROVE  \A p \in Orders \ edited' : FormHasMethod(p)'
  BY <1>24, <1>0 DEF SessionExpires, mail, staff, FormHasMethod, Writes, Decides,
     Learns, Cancels, Becomes, Turns, Stops, Of
<1>25. ASSUME EnableIntegration
      PROVE  \A p \in Orders \ edited' : FormHasMethod(p)'
  BY <1>25, <1>0 DEF EnableIntegration, mail, staff, FormHasMethod, Writes, Decides,
     Learns, Cancels, Becomes, Turns, Stops, Of
<1>26. CASE UNCHANGED shop
  BY <1>26, <1>0 DEF shop, mail, staff, FormHasMethod, Writes, Decides, Learns, Cancels,
     Becomes, Turns, Stops, Of
<1>. QED BY <1>1, <1>2, <1>3, <1>4, <1>5, <1>6, <1>7, <1>8, <1>9, <1>10, <1>11, <1>12,
     <1>13, <1>14, <1>15, <1>16, <1>17, <1>18, <1>19, <1>20, <1>21, <1>22, <1>23, <1>24,
     <1>25, <1>26 DEF Step, ThreadDoes

StaysBacked(o) == orders[o].status # "none" /\ Backed(o) => Backed(o)'

\* An order that is backed stays so.
LEMMA BackedStep ==
    ASSUME Step, Path, Decisions, Account
    PROVE  \A p \in Orders \ edited' : StaysBacked(p)
<1>0. /\ \A t \in Threads : threads[t].at = "stripe" => sessions[Of(t)] # "paid"
      /\ \A o \in Orders \ edited : FormHasMethod(o)
      /\ form # NoForm => form.order \in Orders
      /\ \A t \in Threads : threads[t].at # "idle" => Of(t) \in Orders
      /\ sessions \in [Orders -> SessionStates]
  BY DEF Step, TypeInv, TypeOK, ThreadsOK, Account, Decisions, InCheckout, Checks, Path
<1>1. ASSUME NEW t \in Threads, NEW o \in Orders, NEW method \in Methods,
             PlaceOrderDoes(t, o, method)
      PROVE  \A p \in Orders \ edited' : StaysBacked(p)
  BY <1>1, <1>0 DEF PlaceOrderDoes, StaysBacked, Backed, Writes, Decides, Learns,
     Cancels, Becomes, Turns, Stops, Of
<1>2. ASSUME NEW t \in Threads, ReserveDoes(t)
      PROVE  \A p \in Orders \ edited' : StaysBacked(p)
  BY <1>2, <1>0 DEF ReserveDoes, StaysBacked, Backed, Writes, Decides, Learns, Cancels,
     Becomes, Turns, Stops, Of
<1>3. ASSUME NEW t \in Threads, ServeCallDoes(t)
      PROVE  \A p \in Orders \ edited' : StaysBacked(p)
  BY <1>3, <1>0 DEF ServeCallDoes, StaysBacked, Backed, Writes, Decides, Learns,
     Cancels, Becomes, Turns, Stops, Of
<1>4. ASSUME NEW t \in Threads, RetryDoes(t)
      PROVE  \A p \in Orders \ edited' : StaysBacked(p)
  BY <1>4, <1>0 DEF RetryDoes, StaysBacked, Backed, Writes, Decides, Learns, Cancels,
     Becomes, Turns, Stops, Of
<1>5. ASSUME NEW t \in Threads, GiveUpDoes(t)
      PROVE  \A p \in Orders \ edited' : StaysBacked(p)
  BY <1>5, <1>0 DEF GiveUpDoes, StaysBacked, Backed, Writes, Decides, Learns, Cancels,
     Becomes, Turns, Stops, Of
<1>6. ASSUME NEW t \in Threads, ReservedDoes(t)
      PROVE  \A p \in Orders \ edited' : StaysBacked(p)
  BY <1>6, <1>0 DEF ReservedDoes, StaysBacked, Backed, Writes, Decides, Learns, Cancels,
     Becomes, Turns, Stops, Of
<1>7. ASSUME NEW t \in Threads, ConfirmedDoes(t)
      PROVE  \A p \in Orders \ edited' : StaysBacked(p)
  BY <1>7, <1>0 DEF ConfirmedDoes, StaysBacked, Backed, Writes, Decides, Learns,
     Cancels, Becomes, Turns, Stops, Of
<1>8. ASSUME NEW t \in Threads, ReleasedDoes(t)
      PROVE  \A p \in Orders \ edited' : StaysBacked(p)
  BY <1>8, <1>0 DEF ReleasedDoes, StaysBacked, Backed, Writes, Decides, Learns, Cancels,
     Becomes, Turns, Stops, Of
<1>9. ASSUME NEW t \in Threads, SaveFailsDoes(t)
      PROVE  \A p \in Orders \ edited' : StaysBacked(p)
  BY <1>9, <1>0 DEF SaveFailsDoes, StaysBacked, Backed, Writes, Decides, Learns,
     Cancels, Becomes, Turns, Stops, Of
<1>10. ASSUME NEW t \in Threads, CreateStripeSessionDoes(t)
      PROVE  \A p \in Orders \ edited' : StaysBacked(p)
  BY <1>10, <1>0 DEF CreateStripeSessionDoes, StaysBacked, Backed, Writes, Decides,
     Learns, Cancels, Becomes, Turns, Stops, Of
<1>11. ASSUME NEW t \in Threads, FailStripeSessionDoes(t)
      PROVE  \A p \in Orders \ edited' : StaysBacked(p)
  BY <1>11, <1>0 DEF FailStripeSessionDoes, StaysBacked, Backed, Writes, Decides,
     Learns, Cancels, Becomes, Turns, Stops, Of
<1>12. ASSUME NEW t \in Threads, RedirectDoes(t)
      PROVE  \A p \in Orders \ edited' : StaysBacked(p)
  BY <1>12, <1>0 DEF RedirectDoes, StaysBacked, Backed, Writes, Decides, Learns,
     Cancels, Becomes, Turns, Stops, Of
<1>13. ASSUME NEW t \in Threads, NEW o \in Orders, PaidWebhookDoes(t, o)
      PROVE  \A p \in Orders \ edited' : StaysBacked(p)
  BY <1>13, <1>0 DEF PaidWebhookDoes, StaysBacked, Backed, Writes, Decides, Learns,
     Cancels, Becomes, Turns, Stops, Of
<1>14. ASSUME NEW t \in Threads, NEW o \in Orders, ExpiredWebhookDoes(t, o)
      PROVE  \A p \in Orders \ edited' : StaysBacked(p)
  BY <1>14, <1>0 DEF ExpiredWebhookDoes, StaysBacked, Backed, Writes, Decides, Learns,
     Cancels, Becomes, Turns, Stops, Of
<1>15. ASSUME NEW t \in Threads, CommitPaidDoes(t)
      PROVE  \A p \in Orders \ edited' : StaysBacked(p)
  BY <1>15, <1>0 DEF CommitPaidDoes, StaysBacked, Backed, Writes, Decides, Learns,
     Cancels, Becomes, Turns, Stops, Of
<1>16. ASSUME NEW t \in Threads, CommitExpiredDoes(t)
      PROVE  \A p \in Orders \ edited' : StaysBacked(p)
  BY <1>16, <1>0 DEF CommitExpiredDoes, StaysBacked, Backed, Writes, Decides, Learns,
     Cancels, Becomes, Turns, Stops, Of
<1>17. ASSUME NEW t \in Threads, SendConfirmationDoes(t)
      PROVE  \A p \in Orders \ edited' : StaysBacked(p)
  BY <1>17, <1>0 DEF SendConfirmationDoes, StaysBacked, Backed, Writes, Decides, Learns,
     Cancels, Becomes, Turns, Stops, Of
<1>18. ASSUME NEW t \in Threads, ThreadDiesDoes(t)
      PROVE  \A p \in Orders \ edited' : StaysBacked(p)
  BY <1>18, <1>0 DEF ThreadDiesDoes, StaysBacked, Backed, Writes, Decides, Learns,
     Cancels, Becomes, Turns, Stops, Of
<1>19. ASSUME NEW b \in Books, DeleteBook(b)
      PROVE  \A p \in Orders \ edited' : StaysBacked(p)
  BY <1>19, <1>0 DEF DeleteBook, mail, staff, StaysBacked, Backed, Writes, Decides,
     Learns, Cancels, Becomes, Turns, Stops, Of
<1>20. ASSUME NEW o \in Orders, NEW via \in {"api", "admin"}, OpenForm(o, via)
      PROVE  \A p \in Orders \ edited' : StaysBacked(p)
  BY <1>20, <1>0 DEF OpenForm, mail, staff, StaysBacked, Backed, Writes, Decides,
     Learns, Cancels, Becomes, Turns, Stops, Of
<1>21. ASSUME SaveFormDoes
      PROVE  \A p \in Orders \ edited' : StaysBacked(p)
  BY <1>21, <1>0 DEF SaveFormDoes, StaysBacked, Backed, Writes, Decides, Learns,
     Cancels, Becomes, Turns, Stops, Of, FormHasMethod
<1>22. ASSUME NEW o \in Orders, DeleteOrderDoes(o)
      PROVE  \A p \in Orders \ edited' : StaysBacked(p)
  BY <1>22, <1>0 DEF DeleteOrderDoes, StaysBacked, Backed, Writes, Decides, Learns,
     Cancels, Becomes, Turns, Stops, Of
<1>23. ASSUME NEW o \in Orders, Pay(o)
      PROVE  \A p \in Orders \ edited' : StaysBacked(p)
  BY <1>23, <1>0 DEF Pay, mail, staff, StaysBacked, Backed, Writes, Decides, Learns,
     Cancels, Becomes, Turns, Stops, Of
<1>24. ASSUME NEW o \in Orders, SessionExpires(o)
      PROVE  \A p \in Orders \ edited' : StaysBacked(p)
  BY <1>24, <1>0 DEF SessionExpires, mail, staff, StaysBacked, Backed, Writes, Decides,
     Learns, Cancels, Becomes, Turns, Stops, Of
<1>25. ASSUME EnableIntegration
      PROVE  \A p \in Orders \ edited' : StaysBacked(p)
  BY <1>25, <1>0 DEF EnableIntegration, mail, staff, StaysBacked, Backed, Writes,
     Decides, Learns, Cancels, Becomes, Turns, Stops, Of
<1>26. CASE UNCHANGED shop
  BY <1>26, <1>0 DEF shop, mail, staff, StaysBacked, Backed, Writes, Decides, Learns,
     Cancels, Becomes, Turns, Stops, Of
<1>. QED BY <1>1, <1>2, <1>3, <1>4, <1>5, <1>6, <1>7, <1>8, <1>9, <1>10, <1>11, <1>12,
     <1>13, <1>14, <1>15, <1>16, <1>17, <1>18, <1>19, <1>20, <1>21, <1>22, <1>23, <1>24,
     <1>25, <1>26 DEF Step, ThreadDoes

\* A sale is made, and asked for, only for cash or after the payment.
LEMMA SaleBackedStep ==
    ASSUME Step, Path, Decisions, Account
    PROVE  \A o \in Orders \ edited' : o \notin edited /\ SaleBacked(o) => SaleBacked(o)'
<1>1. ASSUME NEW o \in Orders, o \notin edited', o \notin edited, SaleBacked(o)
      PROVE  SaleBacked(o)'
  <2>1. orders[o].status = "none" => reservations[o].status = "NONE" /\ ~Asked(o)
    BY <1>1
         DEF Decisions, NotPlaced, NothingAsked, Account, Asked, Underway, Calls,
         W!Exists
  <2>2. reservations'[o].status = "CONFIRMED" =>
           reservations[o].status = "CONFIRMED" \/ Asked(o)
    BY DEF Step, AllMove, Moves
  <2>. QED BY <1>1, <2>1, <2>2, AskedStep, AsksBacked, BackedStep DEF SaleBacked,
           StaysBacked
<1>. QED BY <1>1

\* A cancelled order can not be paid for any more.
LEMMA ClosedStep ==
    ASSUME Step, Path, Decisions, Account
    PROVE  \A p \in Orders \ edited' : Closed(p)'
<1>0. /\ \A o \in Orders \ edited : Closed(o)
      /\ \A o \in Orders : Expired(o) /\ InCheckout(o) /\ NotPlaced(o)
      /\ form # NoForm => form.order \in Orders
      /\ \A t \in Threads : threads[t].at # "idle" => Of(t) \in Orders
      /\ sessions \in [Orders -> SessionStates]
  BY DEF Step, TypeInv, TypeOK, ThreadsOK, Account, Decisions
<1>1. ASSUME NEW t \in Threads, NEW o \in Orders, NEW method \in Methods,
             PlaceOrderDoes(t, o, method)
      PROVE  \A p \in Orders \ edited' : Closed(p)'
  BY <1>1, <1>0 DEF PlaceOrderDoes, Closed, Checks, Deleted, Writes, Decides, Learns,
     Cancels, Becomes, Turns, Stops, Of
<1>2. ASSUME NEW t \in Threads, ReserveDoes(t)
      PROVE  \A p \in Orders \ edited' : Closed(p)'
  BY <1>2, <1>0 DEF ReserveDoes, Closed, Checks, Deleted, Writes, Decides, Learns,
     Cancels, Becomes, Turns, Stops, Of
<1>3. ASSUME NEW t \in Threads, ServeCallDoes(t)
      PROVE  \A p \in Orders \ edited' : Closed(p)'
  BY <1>3, <1>0 DEF ServeCallDoes, Closed, Checks, Deleted, Writes, Decides, Learns,
     Cancels, Becomes, Turns, Stops, Of
<1>4. ASSUME NEW t \in Threads, RetryDoes(t)
      PROVE  \A p \in Orders \ edited' : Closed(p)'
  BY <1>4, <1>0 DEF RetryDoes, Closed, Checks, Deleted, Writes, Decides, Learns,
     Cancels, Becomes, Turns, Stops, Of
<1>5. ASSUME NEW t \in Threads, GiveUpDoes(t)
      PROVE  \A p \in Orders \ edited' : Closed(p)'
  BY <1>5, <1>0 DEF GiveUpDoes, Closed, Checks, Deleted, Writes, Decides, Learns,
     Cancels, Becomes, Turns, Stops, Of, Expired, InCheckout, Calls, Expires, Path
<1>6. ASSUME NEW t \in Threads, ReservedDoes(t)
      PROVE  \A p \in Orders \ edited' : Closed(p)'
  BY <1>6, <1>0 DEF ReservedDoes, Closed, Checks, Deleted, Writes, Decides, Learns,
     Cancels, Becomes, Turns, Stops, Of
<1>7. ASSUME NEW t \in Threads, ConfirmedDoes(t)
      PROVE  \A p \in Orders \ edited' : Closed(p)'
  BY <1>7, <1>0 DEF ConfirmedDoes, Closed, Checks, Deleted, Writes, Decides, Learns,
     Cancels, Becomes, Turns, Stops, Of
<1>8. ASSUME NEW t \in Threads, ReleasedDoes(t)
      PROVE  \A p \in Orders \ edited' : Closed(p)'
  BY <1>8, <1>0 DEF ReleasedDoes, Closed, Checks, Deleted, Writes, Decides, Learns,
     Cancels, Becomes, Turns, Stops, Of, Expired, InCheckout, Calls, Expires, Path
<1>9. ASSUME NEW t \in Threads, SaveFailsDoes(t)
      PROVE  \A p \in Orders \ edited' : Closed(p)'
  BY <1>9, <1>0 DEF SaveFailsDoes, Closed, Checks, Deleted, Writes, Decides, Learns,
     Cancels, Becomes, Turns, Stops, Of
<1>10. ASSUME NEW t \in Threads, CreateStripeSessionDoes(t)
      PROVE  \A p \in Orders \ edited' : Closed(p)'
  BY <1>10, <1>0 DEF CreateStripeSessionDoes, Closed, Checks, Deleted, Writes, Decides,
     Learns, Cancels, Becomes, Turns, Stops, Of, Expired, InCheckout, Calls, Expires,
     Path
<1>11. ASSUME NEW t \in Threads, FailStripeSessionDoes(t)
      PROVE  \A p \in Orders \ edited' : Closed(p)'
  BY <1>11, <1>0 DEF FailStripeSessionDoes, Closed, Checks, Deleted, Writes, Decides,
     Learns, Cancels, Becomes, Turns, Stops, Of, Expired, InCheckout, Calls, Expires,
     Path
<1>12. ASSUME NEW t \in Threads, RedirectDoes(t)
      PROVE  \A p \in Orders \ edited' : Closed(p)'
  BY <1>12, <1>0 DEF RedirectDoes, Closed, Checks, Deleted, Writes, Decides, Learns,
     Cancels, Becomes, Turns, Stops, Of, Expired, InCheckout, Calls, Expires, Path
<1>13. ASSUME NEW t \in Threads, NEW o \in Orders, PaidWebhookDoes(t, o)
      PROVE  \A p \in Orders \ edited' : Closed(p)'
  BY <1>13, <1>0 DEF PaidWebhookDoes, Closed, Checks, Deleted, Writes, Decides, Learns,
     Cancels, Becomes, Turns, Stops, Of
<1>14. ASSUME NEW t \in Threads, NEW o \in Orders, ExpiredWebhookDoes(t, o)
      PROVE  \A p \in Orders \ edited' : Closed(p)'
  BY <1>14, <1>0 DEF ExpiredWebhookDoes, Closed, Checks, Deleted, Writes, Decides,
     Learns, Cancels, Becomes, Turns, Stops, Of
<1>15. ASSUME NEW t \in Threads, CommitPaidDoes(t)
      PROVE  \A p \in Orders \ edited' : Closed(p)'
  BY <1>15, <1>0 DEF CommitPaidDoes, Closed, Checks, Deleted, Writes, Decides, Learns,
     Cancels, Becomes, Turns, Stops, Of
<1>16. ASSUME NEW t \in Threads, CommitExpiredDoes(t)
      PROVE  \A p \in Orders \ edited' : Closed(p)'
  BY <1>16, <1>0 DEF CommitExpiredDoes, Closed, Checks, Deleted, Writes, Decides,
     Learns, Cancels, Becomes, Turns, Stops, Of, Expired, InCheckout, Calls, Expires,
     Path
<1>17. ASSUME NEW t \in Threads, SendConfirmationDoes(t)
      PROVE  \A p \in Orders \ edited' : Closed(p)'
  BY <1>17, <1>0 DEF SendConfirmationDoes, Closed, Checks, Deleted, Writes, Decides,
     Learns, Cancels, Becomes, Turns, Stops, Of
<1>18. ASSUME NEW t \in Threads, ThreadDiesDoes(t)
      PROVE  \A p \in Orders \ edited' : Closed(p)'
  BY <1>18, <1>0 DEF ThreadDiesDoes, Closed, Checks, Deleted, Writes, Decides, Learns,
     Cancels, Becomes, Turns, Stops, Of
<1>19. ASSUME NEW b \in Books, DeleteBook(b)
      PROVE  \A p \in Orders \ edited' : Closed(p)'
  BY <1>19, <1>0 DEF DeleteBook, mail, staff, Closed, Checks, Deleted, Writes, Decides,
     Learns, Cancels, Becomes, Turns, Stops, Of
<1>20. ASSUME NEW o \in Orders, NEW via \in {"api", "admin"}, OpenForm(o, via)
      PROVE  \A p \in Orders \ edited' : Closed(p)'
  BY <1>20, <1>0 DEF OpenForm, mail, staff, Closed, Checks, Deleted, Writes, Decides,
     Learns, Cancels, Becomes, Turns, Stops, Of
<1>21. ASSUME SaveFormDoes
      PROVE  \A p \in Orders \ edited' : Closed(p)'
  BY <1>21, <1>0 DEF SaveFormDoes, Closed, Checks, Deleted, Writes, Decides, Learns,
     Cancels, Becomes, Turns, Stops, Of
<1>22. ASSUME NEW o \in Orders, DeleteOrderDoes(o)
      PROVE  \A p \in Orders \ edited' : Closed(p)'
  BY <1>22, <1>0 DEF DeleteOrderDoes, Closed, Checks, Deleted, Writes, Decides, Learns,
     Cancels, Becomes, Turns, Stops, Of
<1>23. ASSUME NEW o \in Orders, Pay(o)
      PROVE  \A p \in Orders \ edited' : Closed(p)'
  BY <1>23, <1>0 DEF Pay, mail, staff, Closed, Checks, Deleted, Writes, Decides, Learns,
     Cancels, Becomes, Turns, Stops, Of
<1>24. ASSUME NEW o \in Orders, SessionExpires(o)
      PROVE  \A p \in Orders \ edited' : Closed(p)'
  BY <1>24, <1>0 DEF SessionExpires, mail, staff, Closed, Checks, Deleted, Writes,
     Decides, Learns, Cancels, Becomes, Turns, Stops, Of
<1>25. ASSUME EnableIntegration
      PROVE  \A p \in Orders \ edited' : Closed(p)'
  BY <1>25, <1>0 DEF EnableIntegration, mail, staff, Closed, Checks, Deleted, Writes,
     Decides, Learns, Cancels, Becomes, Turns, Stops, Of
<1>26. CASE UNCHANGED shop
  BY <1>26, <1>0 DEF shop, mail, staff, Closed, Checks, Deleted, Writes, Decides,
     Learns, Cancels, Becomes, Turns, Stops, Of
<1>. QED BY <1>1, <1>2, <1>3, <1>4, <1>5, <1>6, <1>7, <1>8, <1>9, <1>10, <1>11, <1>12,
     <1>13, <1>14, <1>15, <1>16, <1>17, <1>18, <1>19, <1>20, <1>21, <1>22, <1>23, <1>24,
     <1>25, <1>26 DEF Step, ThreadDoes

\* An order that was not placed has left no trace in Warehouse either.
LEMMA FreshOrder ==
    ASSUME Step, Decisions, Memory, Account, NEW o \in Orders, orders[o].status = "none"
    PROVE  /\ ~Asked(o) /\ reservations[o].status # "CONFIRMED" /\ sessions[o] = "none"
           /\ orders[o].seen # "CONFIRMED" /\ (form # NoForm => form.order # o)
           /\ \A t \in Threads : ~Checks(t, o)
<1>1. /\ ~W!Exists(o) /\ sessions[o] = "none" /\ (form # NoForm => form.order # o)
      /\ \A call \in Calls, p \in W!ItemMaps : <<call, o, p>> \notin late
      /\ \A t \in Threads : threads[t].at # "idle" => Of(t) # o
  BY DEF Decisions, NotPlaced, FormIsOld, Account, NothingAsked
<1>2. ~Asked(o)
  BY <1>1 DEF Asked, Underway, Calls
<1>. QED
  BY <1>1, <1>2 DEF W!Exists, Memory, Knows, True, FinalStatuses, Checks

\* A cash order is at work in one thread only, which asks for the sale last.
LEMMA CashPathStep ==
    ASSUME Step, Path, Decisions, Memory, Account
    PROVE  \A p \in Orders \ edited' : CashPath(p)'
<1>0. /\ \A o \in Orders \ edited : CashPath(o) /\ FormHasMethod(o)
      /\ \A o \in Orders : InCheckout(o) /\ Unpaid(o)
      /\ \A o \in Orders : Asked(o)' => Asked(o) \/ Asks(o)
      /\ \A o \in Orders : reservations'[o].status = "CONFIRMED" =>
            reservations[o].status = "CONFIRMED" \/ Asked(o)
      /\ form # NoForm => form.order \in Orders
      /\ \A t \in Threads : threads[t].at # "idle" => Of(t) \in Orders
      /\ sessions \in [Orders -> SessionStates]
  BY AskedStep DEF Step, AllMove, Moves, TypeInv, TypeOK, ThreadsOK, Account, Decisions
<1>fresh. \A o \in Orders : orders[o].status = "none" =>
            /\ ~Asked(o) /\ reservations[o].status # "CONFIRMED" /\ sessions[o] = "none"
            /\ \A t \in Threads : ~Checks(t, o)
  BY FreshOrder
<1>1. ASSUME NEW t \in Threads, NEW o \in Orders, NEW method \in Methods,
             PlaceOrderDoes(t, o, method)
      PROVE  \A p \in Orders \ edited' : CashPath(p)'
  BY <1>1, <1>0, <1>fresh DEF PlaceOrderDoes, CashPath, Checks, Asks, Writes, Decides,
     Learns, Cancels, Becomes, Turns, Stops, Of
<1>2. ASSUME NEW t \in Threads, ReserveDoes(t)
      PROVE  \A p \in Orders \ edited' : CashPath(p)'
  BY <1>2, <1>0, <1>fresh
       DEF ReserveDoes, CashPath, Checks, Asks, Writes, Decides, Learns,
     Cancels, Becomes, Turns, Stops, Of
<1>3. ASSUME NEW t \in Threads, ServeCallDoes(t)
      PROVE  \A p \in Orders \ edited' : CashPath(p)'
  BY <1>3, <1>0, <1>fresh DEF ServeCallDoes, CashPath, Checks, Asks, Writes, Decides,
     Learns, Cancels, Becomes, Turns, Stops, Of, Calls
<1>4. ASSUME NEW t \in Threads, RetryDoes(t)
      PROVE  \A p \in Orders \ edited' : CashPath(p)'
  BY <1>4, <1>0, <1>fresh DEF RetryDoes, CashPath, Checks, Asks, Writes, Decides, Learns,
     Cancels, Becomes, Turns, Stops, Of, Calls
<1>5. ASSUME NEW t \in Threads, GiveUpDoes(t)
      PROVE  \A p \in Orders \ edited' : CashPath(p)'
  BY <1>5, <1>0, <1>fresh DEF GiveUpDoes, CashPath, Checks, Asks, Writes, Decides, Learns,
     Cancels, Becomes, Turns, Stops, Of
<1>6. ASSUME NEW t \in Threads, ReservedDoes(t)
      PROVE  \A p \in Orders \ edited' : CashPath(p)'
  <2>1. ASSUME NEW o \in Orders \ edited', orders'[o].method = "cash", Of(t) # o
        PROVE  CashPath(o)'
    BY <1>6, <1>0, <2>1
       DEF ReservedDoes, CashPath, Checks, Asks, Learns, Writes, Becomes, Of
  <2>2. ASSUME NEW o \in Orders \ edited', orders'[o].method = "cash", Of(t) = o
        PROVE  CashPath(o)'
    <3>1. orders[o].method = "cash" /\ sessions[o] = "none" /\ o \notin edited
      BY <1>6, <1>0, <2>2 DEF ReservedDoes, Learns, Writes, CashPath
    <3>2. threads[t].event = "checkout" /\ Checks(t, o)
      BY <1>6, <1>0, <2>2, <3>1 DEF ReservedDoes, Path, Unpaid, Pays, Checks
    <3>3. After(t) = "confirm"
      BY <2>2, <3>1 DEF After, Sells
    <3>4. ASSUME NEW u \in Threads, Checks(u, o)'
          PROVE  u = t /\ threads'[u].at = "confirm"
      BY <1>6, <1>0, <2>2, <3>2, <3>3, <3>4
           DEF ReservedDoes, InCheckout, Checks, Becomes, Of
    <3>. QED BY <1>6, <3>1, <3>4 DEF ReservedDoes, CashPath
  <2>. QED BY <2>1, <2>2 DEF CashPath
<1>7. ASSUME NEW t \in Threads, ConfirmedDoes(t)
      PROVE  \A p \in Orders \ edited' : CashPath(p)'
  BY <1>7, <1>0, <1>fresh DEF ConfirmedDoes, CashPath, Checks, Asks, Writes, Decides,
     Learns, Cancels, Becomes, Turns, Stops, Of
<1>8. ASSUME NEW t \in Threads, ReleasedDoes(t)
      PROVE  \A p \in Orders \ edited' : CashPath(p)'
  BY <1>8, <1>0, <1>fresh DEF ReleasedDoes, CashPath, Checks, Asks, Writes, Decides,
     Learns, Cancels, Becomes, Turns, Stops, Of
<1>9. ASSUME NEW t \in Threads, SaveFailsDoes(t)
      PROVE  \A p \in Orders \ edited' : CashPath(p)'
  BY <1>9, <1>0, <1>fresh DEF SaveFailsDoes, CashPath, Checks, Asks, Writes, Decides,
     Learns, Cancels, Becomes, Turns, Stops, Of
<1>10. ASSUME NEW t \in Threads, CreateStripeSessionDoes(t)
      PROVE  \A p \in Orders \ edited' : CashPath(p)'
  BY <1>10, <1>0, <1>fresh DEF CreateStripeSessionDoes, CashPath, Checks, Asks, Writes,
     Decides, Learns, Cancels, Becomes, Turns, Stops, Of, Path
<1>11. ASSUME NEW t \in Threads, FailStripeSessionDoes(t)
      PROVE  \A p \in Orders \ edited' : CashPath(p)'
  BY <1>11, <1>0, <1>fresh DEF FailStripeSessionDoes, CashPath, Checks, Asks, Writes,
     Decides, Learns, Cancels, Becomes, Turns, Stops, Of, Path
<1>12. ASSUME NEW t \in Threads, RedirectDoes(t)
      PROVE  \A p \in Orders \ edited' : CashPath(p)'
  BY <1>12, <1>0, <1>fresh DEF RedirectDoes, CashPath, Checks, Asks, Writes, Decides,
     Learns, Cancels, Becomes, Turns, Stops, Of
<1>13. ASSUME NEW t \in Threads, NEW o \in Orders, PaidWebhookDoes(t, o)
      PROVE  \A p \in Orders \ edited' : CashPath(p)'
  BY <1>13, <1>0, <1>fresh DEF PaidWebhookDoes, CashPath, Checks, Asks, Writes, Decides,
     Learns, Cancels, Becomes, Turns, Stops, Of, InCheckout
<1>14. ASSUME NEW t \in Threads, NEW o \in Orders, ExpiredWebhookDoes(t, o)
      PROVE  \A p \in Orders \ edited' : CashPath(p)'
  BY <1>14, <1>0, <1>fresh
       DEF ExpiredWebhookDoes, CashPath, Checks, Asks, Writes, Decides,
     Learns, Cancels, Becomes, Turns, Stops, Of
<1>15. ASSUME NEW t \in Threads, CommitPaidDoes(t)
      PROVE  \A p \in Orders \ edited' : CashPath(p)'
  BY <1>15, <1>0, <1>fresh DEF CommitPaidDoes, CashPath, Checks, Asks, Writes, Decides,
     Learns, Cancels, Becomes, Turns, Stops, Of
<1>16. ASSUME NEW t \in Threads, CommitExpiredDoes(t)
      PROVE  \A p \in Orders \ edited' : CashPath(p)'
  BY <1>16, <1>0, <1>fresh DEF CommitExpiredDoes, CashPath, Checks, Asks, Writes, Decides,
     Learns, Cancels, Becomes, Turns, Stops, Of
<1>17. ASSUME NEW t \in Threads, SendConfirmationDoes(t)
      PROVE  \A p \in Orders \ edited' : CashPath(p)'
  BY <1>17, <1>0, <1>fresh DEF SendConfirmationDoes, CashPath, Checks, Asks, Writes,
     Decides, Learns, Cancels, Becomes, Turns, Stops, Of
<1>18. ASSUME NEW t \in Threads, ThreadDiesDoes(t)
      PROVE  \A p \in Orders \ edited' : CashPath(p)'
  BY <1>18, <1>0, <1>fresh DEF ThreadDiesDoes, CashPath, Checks, Asks, Writes, Decides,
     Learns, Cancels, Becomes, Turns, Stops, Of
<1>19. ASSUME NEW b \in Books, DeleteBook(b)
      PROVE  \A p \in Orders \ edited' : CashPath(p)'
  BY <1>19, <1>0, <1>fresh DEF DeleteBook, mail, staff, CashPath, Checks, Asks, Writes,
     Decides, Learns, Cancels, Becomes, Turns, Stops, Of
<1>20. ASSUME NEW o \in Orders, NEW via \in {"api", "admin"}, OpenForm(o, via)
      PROVE  \A p \in Orders \ edited' : CashPath(p)'
  BY <1>20, <1>0, <1>fresh DEF OpenForm, mail, staff, CashPath, Checks, Asks, Writes,
     Decides, Learns, Cancels, Becomes, Turns, Stops, Of
<1>21. ASSUME SaveFormDoes
      PROVE  \A p \in Orders \ edited' : CashPath(p)'
  BY <1>21, <1>0, <1>fresh DEF SaveFormDoes, CashPath, Checks, Asks, Writes, Decides,
     Learns, Cancels, Becomes, Turns, Stops, Of, FormHasMethod
<1>22. ASSUME NEW o \in Orders, DeleteOrderDoes(o)
      PROVE  \A p \in Orders \ edited' : CashPath(p)'
  BY <1>22, <1>0, <1>fresh DEF DeleteOrderDoes, CashPath, Checks, Asks, Writes, Decides,
     Learns, Cancels, Becomes, Turns, Stops, Of
<1>23. ASSUME NEW o \in Orders, Pay(o)
      PROVE  \A p \in Orders \ edited' : CashPath(p)'
  BY <1>23, <1>0, <1>fresh DEF Pay, mail, staff, CashPath, Checks, Asks, Writes, Decides,
     Learns, Cancels, Becomes, Turns, Stops, Of
<1>24. ASSUME NEW o \in Orders, SessionExpires(o)
      PROVE  \A p \in Orders \ edited' : CashPath(p)'
  BY <1>24, <1>0, <1>fresh
       DEF SessionExpires, mail, staff, CashPath, Checks, Asks, Writes,
     Decides, Learns, Cancels, Becomes, Turns, Stops, Of
<1>25. ASSUME EnableIntegration
      PROVE  \A p \in Orders \ edited' : CashPath(p)'
  BY <1>25, <1>0, <1>fresh DEF EnableIntegration, mail, staff, CashPath, Checks, Asks,
     Writes, Decides, Learns, Cancels, Becomes, Turns, Stops, Of
<1>26. CASE UNCHANGED shop
  BY <1>26, <1>0, <1>fresh DEF shop, mail, staff, CashPath, Checks, Asks, Writes, Decides,
     Learns, Cancels, Becomes, Turns, Stops, Of
<1>. QED BY <1>1, <1>2, <1>3, <1>4, <1>5, <1>6, <1>7, <1>8, <1>9, <1>10, <1>11, <1>12,
     <1>13, <1>14, <1>15, <1>16, <1>17, <1>18, <1>19, <1>20, <1>21, <1>22, <1>23, <1>24,
     <1>25, <1>26 DEF Step, ThreadDoes

\* A cash order that is cancelled is not known to be sold.
LEMMA CashUnseenStep ==
    ASSUME Step, Path, Decisions, Memory, Account
    PROVE  \A p \in Orders \ edited' : CashUnseen(p)'
<1>0. /\ \A o \in Orders \ edited :
            CashUnseen(o) /\ CashPath(o) /\ FormHasMethod(o) /\ Closed(o)
      /\ \A o \in Orders : InCheckout(o) /\ Expired(o) /\ Unpaid(o)
      /\ form # NoForm => form.order \in Orders
      /\ \A t \in Threads : threads[t].at # "idle" => Of(t) \in Orders
      /\ sessions \in [Orders -> SessionStates]
  BY DEF Step, TypeInv, TypeOK, ThreadsOK, Account, Decisions
<1>fresh. \A o \in Orders : orders[o].status = "none" =>
            /\ orders[o].seen # "CONFIRMED" /\ (form # NoForm => form.order # o)
            /\ \A t \in Threads : ~Checks(t, o)
  BY FreshOrder
<1>1. ASSUME NEW t \in Threads, NEW o \in Orders, NEW method \in Methods,
             PlaceOrderDoes(t, o, method)
      PROVE  \A p \in Orders \ edited' : CashUnseen(p)'
  BY <1>1, <1>0, <1>fresh DEF PlaceOrderDoes, CashUnseen, Checks, Writes, Decides, Learns,
     Cancels, Becomes, Turns, Stops, Of
<1>2. ASSUME NEW t \in Threads, ReserveDoes(t)
      PROVE  \A p \in Orders \ edited' : CashUnseen(p)'
  BY <1>2, <1>0, <1>fresh DEF ReserveDoes, CashUnseen, Checks, Writes, Decides, Learns,
     Cancels, Becomes, Turns, Stops, Of
<1>3. ASSUME NEW t \in Threads, ServeCallDoes(t)
      PROVE  \A p \in Orders \ edited' : CashUnseen(p)'
  BY <1>3, <1>0, <1>fresh DEF ServeCallDoes, CashUnseen, Checks, Writes, Decides, Learns,
     Cancels, Becomes, Turns, Stops, Of
<1>4. ASSUME NEW t \in Threads, RetryDoes(t)
      PROVE  \A p \in Orders \ edited' : CashUnseen(p)'
  BY <1>4, <1>0, <1>fresh DEF RetryDoes, CashUnseen, Checks, Writes, Decides, Learns,
     Cancels, Becomes, Turns, Stops, Of
<1>5. ASSUME NEW t \in Threads, GiveUpDoes(t)
      PROVE  \A p \in Orders \ edited' : CashUnseen(p)'
  BY <1>5, <1>0, <1>fresh DEF GiveUpDoes, CashUnseen, Checks, Writes, Decides, Learns,
     Cancels, Becomes, Turns, Stops, Of, Calls
<1>6. ASSUME NEW t \in Threads, ReservedDoes(t)
      PROVE  \A p \in Orders \ edited' : CashUnseen(p)'
  <2>1. ASSUME NEW o \in Orders \ edited', Of(t) # o
        PROVE  CashUnseen(o)'
    BY <1>6, <1>0, <2>1
       DEF ReservedDoes, CashUnseen, Checks, Learns, Writes, Becomes, Of
  <2>2. ASSUME NEW o \in Orders \ edited', orders'[o].method = "cash", Of(t) = o
        PROVE  CashUnseen(o)'
    <3>1. /\ orders[o].method = "cash" /\ sessions[o] = "none" /\ o \notin edited
          /\ orders'[o].seen = threads[t].answer
      BY <1>6, <1>0, <2>2 DEF ReservedDoes, Learns, Writes, CashPath
    <3>2. Checks(t, o)
      BY <1>6, <1>0, <2>2, <3>1 DEF ReservedDoes, Path, Unpaid, Pays, Checks
    <3>3. threads[t].answer # "CONFIRMED"
      BY <1>6, <1>0, <2>2, <3>1, <3>2
         DEF ReservedDoes, CashPath, Memory, True, FinalStatuses, Calls
    <3>. QED BY <1>6, <1>0, <2>2, <3>1, <3>2, <3>3 DEF ReservedDoes, CashUnseen
  <2>. QED BY <2>1, <2>2 DEF CashUnseen
<1>7. ASSUME NEW t \in Threads, ConfirmedDoes(t)
      PROVE  \A p \in Orders \ edited' : CashUnseen(p)'
  BY <1>7, <1>0, <1>fresh DEF ConfirmedDoes, CashUnseen, Checks, Writes, Decides, Learns,
     Cancels, Becomes, Turns, Stops, Of, CashPath, InCheckout, Path, Closed, Pays,
     Unpaid
<1>8. ASSUME NEW t \in Threads, ReleasedDoes(t)
      PROVE  \A p \in Orders \ edited' : CashUnseen(p)'
  BY <1>8, <1>0, <1>fresh DEF ReleasedDoes, CashUnseen, Checks, Writes, Decides, Learns,
     Cancels, Becomes, Turns, Stops, Of, CashPath, Expired, Expires, Path
<1>9. ASSUME NEW t \in Threads, SaveFailsDoes(t)
      PROVE  \A p \in Orders \ edited' : CashUnseen(p)'
  BY <1>9, <1>0, <1>fresh DEF SaveFailsDoes, CashUnseen, Checks, Writes, Decides, Learns,
     Cancels, Becomes, Turns, Stops, Of
<1>10. ASSUME NEW t \in Threads, CreateStripeSessionDoes(t)
      PROVE  \A p \in Orders \ edited' : CashUnseen(p)'
  BY <1>10, <1>0, <1>fresh DEF CreateStripeSessionDoes, CashUnseen, Checks, Writes,
     Decides, Learns, Cancels, Becomes, Turns, Stops, Of
<1>11. ASSUME NEW t \in Threads, FailStripeSessionDoes(t)
      PROVE  \A p \in Orders \ edited' : CashUnseen(p)'
  BY <1>11, <1>0, <1>fresh DEF FailStripeSessionDoes, CashUnseen, Checks, Writes, Decides,
     Learns, Cancels, Becomes, Turns, Stops, Of, CashPath, Path
<1>12. ASSUME NEW t \in Threads, RedirectDoes(t)
      PROVE  \A p \in Orders \ edited' : CashUnseen(p)'
  BY <1>12, <1>0, <1>fresh DEF RedirectDoes, CashUnseen, Checks, Writes, Decides, Learns,
     Cancels, Becomes, Turns, Stops, Of
<1>13. ASSUME NEW t \in Threads, NEW o \in Orders, PaidWebhookDoes(t, o)
      PROVE  \A p \in Orders \ edited' : CashUnseen(p)'
  BY <1>13, <1>0, <1>fresh DEF PaidWebhookDoes, CashUnseen, Checks, Writes, Decides,
     Learns, Cancels, Becomes, Turns, Stops, Of, InCheckout
<1>14. ASSUME NEW t \in Threads, NEW o \in Orders, ExpiredWebhookDoes(t, o)
      PROVE  \A p \in Orders \ edited' : CashUnseen(p)'
  BY <1>14, <1>0, <1>fresh DEF ExpiredWebhookDoes, CashUnseen, Checks, Writes, Decides,
     Learns, Cancels, Becomes, Turns, Stops, Of
<1>15. ASSUME NEW t \in Threads, CommitPaidDoes(t)
      PROVE  \A p \in Orders \ edited' : CashUnseen(p)'
  BY <1>15, <1>0, <1>fresh
       DEF CommitPaidDoes, CashUnseen, Checks, Writes, Decides, Learns,
     Cancels, Becomes, Turns, Stops, Of
<1>16. ASSUME NEW t \in Threads, CommitExpiredDoes(t)
      PROVE  \A p \in Orders \ edited' : CashUnseen(p)'
  BY <1>16, <1>0, <1>fresh DEF CommitExpiredDoes, CashUnseen, Checks, Writes, Decides,
     Learns, Cancels, Becomes, Turns, Stops, Of, CashPath, Expired, Expires
<1>17. ASSUME NEW t \in Threads, SendConfirmationDoes(t)
      PROVE  \A p \in Orders \ edited' : CashUnseen(p)'
  BY <1>17, <1>0, <1>fresh DEF SendConfirmationDoes, CashUnseen, Checks, Writes, Decides,
     Learns, Cancels, Becomes, Turns, Stops, Of
<1>18. ASSUME NEW t \in Threads, ThreadDiesDoes(t)
      PROVE  \A p \in Orders \ edited' : CashUnseen(p)'
  BY <1>18, <1>0, <1>fresh
       DEF ThreadDiesDoes, CashUnseen, Checks, Writes, Decides, Learns,
     Cancels, Becomes, Turns, Stops, Of
<1>19. ASSUME NEW b \in Books, DeleteBook(b)
      PROVE  \A p \in Orders \ edited' : CashUnseen(p)'
  BY <1>19, <1>0, <1>fresh DEF DeleteBook, mail, staff, CashUnseen, Checks, Writes,
     Decides, Learns, Cancels, Becomes, Turns, Stops, Of
<1>20. ASSUME NEW o \in Orders, NEW via \in {"api", "admin"}, OpenForm(o, via)
      PROVE  \A p \in Orders \ edited' : CashUnseen(p)'
  BY <1>20, <1>0, <1>fresh DEF OpenForm, mail, staff, CashUnseen, Checks, Writes, Decides,
     Learns, Cancels, Becomes, Turns, Stops, Of
<1>21. ASSUME SaveFormDoes
      PROVE  \A p \in Orders \ edited' : CashUnseen(p)'
  BY <1>21, <1>0, <1>fresh DEF SaveFormDoes, CashUnseen, Checks, Writes, Decides, Learns,
     Cancels, Becomes, Turns, Stops, Of, FormHasMethod
<1>22. ASSUME NEW o \in Orders, DeleteOrderDoes(o)
      PROVE  \A p \in Orders \ edited' : CashUnseen(p)'
  BY <1>22, <1>0, <1>fresh DEF DeleteOrderDoes, CashUnseen, Checks, Writes, Decides,
     Learns, Cancels, Becomes, Turns, Stops, Of
<1>23. ASSUME NEW o \in Orders, Pay(o)
      PROVE  \A p \in Orders \ edited' : CashUnseen(p)'
  BY <1>23, <1>0, <1>fresh DEF Pay, mail, staff, CashUnseen, Checks, Writes, Decides,
     Learns, Cancels, Becomes, Turns, Stops, Of
<1>24. ASSUME NEW o \in Orders, SessionExpires(o)
      PROVE  \A p \in Orders \ edited' : CashUnseen(p)'
  BY <1>24, <1>0, <1>fresh DEF SessionExpires, mail, staff, CashUnseen, Checks, Writes,
     Decides, Learns, Cancels, Becomes, Turns, Stops, Of
<1>25. ASSUME EnableIntegration
      PROVE  \A p \in Orders \ edited' : CashUnseen(p)'
  BY <1>25, <1>0, <1>fresh DEF EnableIntegration, mail, staff, CashUnseen, Checks, Writes,
     Decides, Learns, Cancels, Becomes, Turns, Stops, Of
<1>26. CASE UNCHANGED shop
  BY <1>26, <1>0, <1>fresh DEF shop, mail, staff, CashUnseen, Checks, Writes, Decides,
     Learns, Cancels, Becomes, Turns, Stops, Of
<1>. QED BY <1>1, <1>2, <1>3, <1>4, <1>5, <1>6, <1>7, <1>8, <1>9, <1>10, <1>11, <1>12,
     <1>13, <1>14, <1>15, <1>16, <1>17, <1>18, <1>19, <1>20, <1>21, <1>22, <1>23, <1>24,
     <1>25, <1>26 DEF Step, ThreadDoes

\* What OrderDecidedOnce says of one order.
DecidedOnce(o) ==
    \/ orders[o].status \in {"paid", "cancelled"} => orders'[o].status = orders[o].status
    \/ form.order = o /\ form.row.status # orders[o].status /\ o \in edited'
    \/ Deleted(o)'

\* No step but a stale form or a deletion changes a decided order.
LEMMA DecidedStep ==
    ASSUME Step, Path, Decisions
    PROVE  \A p \in Orders : DecidedOnce(p)
<1>0. /\ \A t \in Threads, o \in Orders : Checks(t, o) => orders[o].status # "paid"
      /\ form # NoForm => form.order \in Orders
  BY DEF Step, TypeInv, Decisions, InCheckout, Unpaid, MayRead
<1>1. ASSUME NEW t \in Threads, NEW o \in Orders, NEW method \in Methods,
             PlaceOrderDoes(t, o, method)
      PROVE  \A p \in Orders : DecidedOnce(p)
  BY <1>1, <1>0 DEF PlaceOrderDoes, DecidedOnce, Deleted, Writes, Decides, Learns,
     Cancels, Becomes, Turns, Stops, Of
<1>2. ASSUME NEW t \in Threads, ReserveDoes(t)
      PROVE  \A p \in Orders : DecidedOnce(p)
  BY <1>2, <1>0 DEF ReserveDoes, DecidedOnce, Deleted, Writes, Decides, Learns, Cancels,
     Becomes, Turns, Stops, Of
<1>3. ASSUME NEW t \in Threads, ServeCallDoes(t)
      PROVE  \A p \in Orders : DecidedOnce(p)
  BY <1>3, <1>0 DEF ServeCallDoes, DecidedOnce, Deleted, Writes, Decides, Learns,
     Cancels, Becomes, Turns, Stops, Of
<1>4. ASSUME NEW t \in Threads, RetryDoes(t)
      PROVE  \A p \in Orders : DecidedOnce(p)
  BY <1>4, <1>0 DEF RetryDoes, DecidedOnce, Deleted, Writes, Decides, Learns, Cancels,
     Becomes, Turns, Stops, Of
<1>5. ASSUME NEW t \in Threads, GiveUpDoes(t)
      PROVE  \A p \in Orders : DecidedOnce(p)
  BY <1>5, <1>0 DEF GiveUpDoes, DecidedOnce, Deleted, Writes, Decides, Learns, Cancels,
     Becomes, Turns, Stops, Of, Checks, Calls
<1>6. ASSUME NEW t \in Threads, ReservedDoes(t)
      PROVE  \A p \in Orders : DecidedOnce(p)
  BY <1>6, <1>0 DEF ReservedDoes, DecidedOnce, Deleted, Writes, Decides, Learns,
     Cancels, Becomes, Turns, Stops, Of
<1>7. ASSUME NEW t \in Threads, ConfirmedDoes(t)
      PROVE  \A p \in Orders : DecidedOnce(p)
  BY <1>7, <1>0 DEF ConfirmedDoes, DecidedOnce, Deleted, Writes, Decides, Learns,
     Cancels, Becomes, Turns, Stops, Of
<1>8. ASSUME NEW t \in Threads, ReleasedDoes(t)
      PROVE  \A p \in Orders : DecidedOnce(p)
  BY <1>8, <1>0 DEF ReleasedDoes, DecidedOnce, Deleted, Writes, Decides, Learns,
     Cancels, Becomes, Turns, Stops, Of, Checks
<1>9. ASSUME NEW t \in Threads, SaveFailsDoes(t)
      PROVE  \A p \in Orders : DecidedOnce(p)
  BY <1>9, <1>0 DEF SaveFailsDoes, DecidedOnce, Deleted, Writes, Decides, Learns,
     Cancels, Becomes, Turns, Stops, Of
<1>10. ASSUME NEW t \in Threads, CreateStripeSessionDoes(t)
      PROVE  \A p \in Orders : DecidedOnce(p)
  BY <1>10, <1>0 DEF CreateStripeSessionDoes, DecidedOnce, Deleted, Writes, Decides,
     Learns, Cancels, Becomes, Turns, Stops, Of
<1>11. ASSUME NEW t \in Threads, FailStripeSessionDoes(t)
      PROVE  \A p \in Orders : DecidedOnce(p)
  BY <1>11, <1>0 DEF FailStripeSessionDoes, DecidedOnce, Deleted, Writes, Decides,
     Learns, Cancels, Becomes, Turns, Stops, Of, Path, Checks
<1>12. ASSUME NEW t \in Threads, RedirectDoes(t)
      PROVE  \A p \in Orders : DecidedOnce(p)
  BY <1>12, <1>0 DEF RedirectDoes, DecidedOnce, Deleted, Writes, Decides, Learns,
     Cancels, Becomes, Turns, Stops, Of
<1>13. ASSUME NEW t \in Threads, NEW o \in Orders, PaidWebhookDoes(t, o)
      PROVE  \A p \in Orders : DecidedOnce(p)
  BY <1>13, <1>0 DEF PaidWebhookDoes, DecidedOnce, Deleted, Writes, Decides, Learns,
     Cancels, Becomes, Turns, Stops, Of
<1>14. ASSUME NEW t \in Threads, NEW o \in Orders, ExpiredWebhookDoes(t, o)
      PROVE  \A p \in Orders : DecidedOnce(p)
  BY <1>14, <1>0 DEF ExpiredWebhookDoes, DecidedOnce, Deleted, Writes, Decides, Learns,
     Cancels, Becomes, Turns, Stops, Of
<1>15. ASSUME NEW t \in Threads, CommitPaidDoes(t)
      PROVE  \A p \in Orders : DecidedOnce(p)
  BY <1>15, <1>0 DEF CommitPaidDoes, DecidedOnce, Deleted, Writes, Decides, Learns,
     Cancels, Becomes, Turns, Stops, Of
<1>16. ASSUME NEW t \in Threads, CommitExpiredDoes(t)
      PROVE  \A p \in Orders : DecidedOnce(p)
  BY <1>16, <1>0 DEF CommitExpiredDoes, DecidedOnce, Deleted, Writes, Decides, Learns,
     Cancels, Becomes, Turns, Stops, Of
<1>17. ASSUME NEW t \in Threads, SendConfirmationDoes(t)
      PROVE  \A p \in Orders : DecidedOnce(p)
  BY <1>17, <1>0 DEF SendConfirmationDoes, DecidedOnce, Deleted, Writes, Decides,
     Learns, Cancels, Becomes, Turns, Stops, Of
<1>18. ASSUME NEW t \in Threads, ThreadDiesDoes(t)
      PROVE  \A p \in Orders : DecidedOnce(p)
  BY <1>18, <1>0 DEF ThreadDiesDoes, DecidedOnce, Deleted, Writes, Decides, Learns,
     Cancels, Becomes, Turns, Stops, Of
<1>19. ASSUME NEW b \in Books, DeleteBook(b)
      PROVE  \A p \in Orders : DecidedOnce(p)
  BY <1>19, <1>0 DEF DeleteBook, mail, staff, DecidedOnce, Deleted, Writes, Decides,
     Learns, Cancels, Becomes, Turns, Stops, Of
<1>20. ASSUME NEW o \in Orders, NEW via \in {"api", "admin"}, OpenForm(o, via)
      PROVE  \A p \in Orders : DecidedOnce(p)
  BY <1>20, <1>0 DEF OpenForm, mail, staff, DecidedOnce, Deleted, Writes, Decides,
     Learns, Cancels, Becomes, Turns, Stops, Of
<1>21. ASSUME SaveFormDoes
      PROVE  \A p \in Orders : DecidedOnce(p)
  BY <1>21, <1>0 DEF SaveFormDoes, DecidedOnce, Deleted, Writes, Decides, Learns,
     Cancels, Becomes, Turns, Stops, Of
<1>22. ASSUME NEW o \in Orders, DeleteOrderDoes(o)
      PROVE  \A p \in Orders : DecidedOnce(p)
  BY <1>22, <1>0 DEF DeleteOrderDoes, DecidedOnce, Deleted, Writes, Decides, Learns,
     Cancels, Becomes, Turns, Stops, Of
<1>23. ASSUME NEW o \in Orders, Pay(o)
      PROVE  \A p \in Orders : DecidedOnce(p)
  BY <1>23, <1>0 DEF Pay, mail, staff, DecidedOnce, Deleted, Writes, Decides, Learns,
     Cancels, Becomes, Turns, Stops, Of
<1>24. ASSUME NEW o \in Orders, SessionExpires(o)
      PROVE  \A p \in Orders : DecidedOnce(p)
  BY <1>24, <1>0 DEF SessionExpires, mail, staff, DecidedOnce, Deleted, Writes, Decides,
     Learns, Cancels, Becomes, Turns, Stops, Of
<1>25. ASSUME EnableIntegration
      PROVE  \A p \in Orders : DecidedOnce(p)
  BY <1>25, <1>0 DEF EnableIntegration, mail, staff, DecidedOnce, Deleted, Writes,
     Decides, Learns, Cancels, Becomes, Turns, Stops, Of
<1>26. CASE UNCHANGED shop
  BY <1>26, <1>0 DEF shop, mail, staff, DecidedOnce, Deleted, Writes, Decides, Learns,
     Cancels, Becomes, Turns, Stops, Of
<1>. QED BY <1>1, <1>2, <1>3, <1>4, <1>5, <1>6, <1>7, <1>8, <1>9, <1>10, <1>11, <1>12,
     <1>13, <1>14, <1>15, <1>16, <1>17, <1>18, <1>19, <1>20, <1>21, <1>22, <1>23, <1>24,
     <1>25, <1>26 DEF Step, ThreadDoes

(***************************************************************************)
(* The invariant and the theorems                                          *)
(***************************************************************************)

Inv == /\ TypeInv /\ Path /\ Decisions /\ Memory
       /\ Off /\ Sold /\ Whole /\ Account /\ Told

\* The initial state is well typed.
LEMMA InitTypes ==
    ASSUME Init
    PROVE  TypeInv
<1>1. W!NoItems \in W!ItemMaps
  BY IdleType
<1>2. W!NoReservation \in W!Reservation
  BY <1>1 DEF W!NoReservation, W!Reservation, W!Statuses
<1>3. NoRow \in Order /\ NoForm \in Form
  BY DEF NoRow, NoForm, Order, Form, OrderStatuses, Methods, W!Statuses
<1>4. ThreadsOK
  BY IdleType DEF Init, ThreadsOK, Idle
<1>. QED
  BY <1>2, <1>3, <1>4, CheckoutAssumption
     DEF Init, TypeInv, TypeOK, ThreadsOK, SessionStates

\* The invariant holds at the start.
LEMMA InitHolds ==
    ASSUME Init
    PROVE  Inv
<1>1. TypeInv
  BY InitTypes
<1>2. /\ \A t \in Threads : threads[t] = Idle
      /\ \A o \in Orders : orders[o] = NoRow /\ reservations[o] = W!NoReservation
      /\ \A o \in Orders : sessions[o] = "none" /\ emails[o] = 0
      /\ late = {} /\ form = NoForm /\ unsent = {} /\ edited = {}
      /\ form.order \notin Orders
  BY CheckoutAssumption DEF Init, NoForm
<1>3. Path /\ Off /\ Told
  BY <1>2 DEF Path, Off, Told, Tells, Idle, Calls, NoRow, NoForm
<1>4. Decisions
  BY <1>2 DEF Decisions, NotPlaced, FormIsOld, Unpaid, Expired, InCheckout, MayRead,
              Pays, Checks, Expires, Idle, NoRow
<1>5. Memory /\ Sold
  BY <1>2 DEF Memory, Knows, True, FinalStatuses, Sold, MayRead, Idle, Calls, NoRow,
              W!Exists, W!NoReservation
<1>6. Whole
  BY <1>2 DEF Whole, Underway, W!Exists, W!NoReservation, Idle
<1>7. Account
  BY <1>2 DEF Account, NothingAsked, FormHasMethod, SaleBacked, Closed, CashPath,
              CashUnseen, Asked, Underway, Checks, W!Exists, W!NoReservation, Idle, NoRow
<1>. QED BY <1>1, <1>3, <1>4, <1>5, <1>6, <1>7 DEF Inv

\* Account is kept: staff only add to the orders that they have changed.
LEMMA AccountStep ==
    ASSUME Step, Path, Decisions, Memory, Account
    PROVE  Account'
<1>1. ASSUME NEW t \in Threads, ThreadDoes(t)
      PROVE  edited' = edited
  BY <1>1
       DEF ThreadDoes, PlaceOrderDoes, ReserveDoes, ServeCallDoes, RetryDoes,
       GiveUpDoes,
     ReservedDoes, ConfirmedDoes, ReleasedDoes, SaveFailsDoes, CreateStripeSessionDoes,
     FailStripeSessionDoes, RedirectDoes, PaidWebhookDoes, ExpiredWebhookDoes,
     CommitPaidDoes, CommitExpiredDoes, SendConfirmationDoes, ThreadDiesDoes
<1>2. edited \subseteq edited'
  BY <1>1 DEF Step, DeleteBook, OpenForm, SaveFormDoes, DeleteOrderDoes, Pay,
     SessionExpires, EnableIntegration, shop, staff
<1>. QED
  BY <1>2, NothingAskedStep, FormHasMethodStep, SaleBackedStep, ClosedStep,
     CashPathStep, CashUnseenStep DEF Account

\* The invariant is inductive.
LEMMA InvStep ==
    ASSUME Inv, [Next]_vars
    PROVE  Inv'
<1>1. Step
  BY EveryStep DEF Inv
<1>2. TypeInv' /\ Path' /\ Decisions' /\ Memory'
  BY <1>1, PathStep, DecisionsStep, MemoryStep DEF Inv, Step
<1>3. Off' /\ Sold' /\ Whole'
  BY <1>1, OffStep, SoldStep, WholeStep DEF Inv
<1>4. Account' /\ Told'
  BY <1>1, AccountStep, ToldStep DEF Inv
<1>. QED BY <1>2, <1>3, <1>4 DEF Inv

\* The inductive invariant holds in every reachable state.
THEOREM Invariance == Spec => []Inv
<1>1. Init => Inv
  BY InitHolds
<1>2. Inv /\ [Next]_vars => Inv'
  BY InvStep
<1>. QED BY <1>1, <1>2, PTL DEF Spec

\* Checkout.TypeOK: every variable keeps its type (models.Order, the threads of
\* views.checkout and the webhook, the requests of the Warehouse client).
THEOREM TypeCorrect == Spec => []TypeOK
<1>1. Inv => TypeOK
  BY DEF Inv, TypeInv
<1>. QED BY <1>1, Invariance, PTL

\* Checkout.PaidIsSettled: an order that the webhook (or a cash checkout) made PAID
\* is paid for, and what it has reserved was sold.
THEOREM PaidSettled == Spec => []PaidIsSettled
<1>1. Inv => PaidIsSettled
  BY DEF Inv, PaidIsSettled, Sold, Unreserved, Decisions, Unpaid, MayRead
<1>. QED BY <1>1, Invariance, PTL

\* Checkout.SaleIsAccounted: what Warehouse sold is paid for or cash, and the order
\* is not cancelled, but for a cash checkout whose confirmation was not answered.
THEOREM SaleAccounted == Spec => []SaleIsAccounted
<1>1. Inv => SaleIsAccounted
  <2>1. ASSUME Inv, NEW o \in Orders \ edited, reservations[o].status = "CONFIRMED"
        PROVE  /\ orders[o].method = "card" => sessions[o] = "paid"
               /\ orders[o].status = "cancelled" =>
                     orders[o].method = "cash" /\ orders[o].seen # "CONFIRMED"
    <3>1. Backed(o) /\ Closed(o) /\ CashUnseen(o)
      BY <2>1 DEF Inv, Account, SaleBacked
    <3>. QED BY <3>1 DEF Backed, Closed, CashUnseen
  <2>. QED BY <2>1 DEF SaleIsAccounted
<1>. QED BY <1>1, Invariance, PTL

\* Checkout.RemembersTruly: the id and the status that an order remembers of its
\* reservation are those of one that exists, and a final status is the right one.
THEOREM RemembersTheTruth == Spec => []RemembersTruly
<1>1. Inv => RemembersTruly
  BY DEF Inv, RemembersTruly, Memory, Knows, True, FinalStatuses
<1>. QED BY <1>1, Invariance, PTL

\* Checkout.PaidIsReservedWhole: a paid order holds all that its cart asks for.
THEOREM ReservedWhole == Spec => []PaidIsReservedWhole
<1>1. Inv => PaidIsReservedWhole
  BY DEF Inv, PaidIsReservedWhole, Memory, Knows, Whole
<1>. QED BY <1>1, Invariance, PTL

\* Checkout.ToldOnce: the confirmation email of a paid order is enqueued once, is
\* about to be, or was lost with its thread; others have none.
THEOREM ToldExactlyOnce == Spec => []ToldOnce
<1>1. ASSUME Inv PROVE ToldOnce
  <2>1. ASSUME NEW o \in Orders \ edited
        PROVE  emails[o]
                 + Cardinality({t \in Threads : threads[t].at = "email" /\ Of(t) = o})
                 + (IF o \in unsent THEN 1 ELSE 0)
               = IF orders[o].status = "paid" THEN 1 ELSE 0
    <3>. DEFINE telling == {t \in Threads : threads[t].at = "email" /\ Of(t) = o}
    <3>1. CASE \A t \in Threads : ~Tells(t, o)
      <4>1. telling = {}
        BY <3>1 DEF Tells
      <4>2. Cardinality(telling) = 0
        BY <4>1, FS_EmptySet
      <4>. QED BY <1>1, <3>1, <4>2 DEF Inv, Told
    <3>2. ASSUME NEW t \in Threads, \A u \in Threads : Tells(u, o) <=> u = t
          PROVE  telling = {t}
      BY <3>2 DEF Tells
    <3>3. CASE /\ orders[o].status = "paid" /\ emails[o] = 0 /\ o \notin unsent
               /\ \E t \in Threads : \A u \in Threads : Tells(u, o) <=> u = t
      <4>1. PICK t \in Threads : \A u \in Threads : Tells(u, o) <=> u = t
        BY <3>3
      <4>2. telling = {t}
        BY <3>2, <4>1
      <4>3. Cardinality(telling) = 1
        BY <4>2, FS_Singleton
      <4>. QED BY <3>3, <4>3
    <3>. QED BY <1>1, <3>1, <3>3 DEF Inv, Told
  <2>. QED BY <2>1 DEF ToldOnce
<1>. QED BY <1>1, Invariance, PTL

\* Checkout.OrderDecidedOnce: a paid or cancelled order keeps its status, but for a
\* stale form and a deletion.
THEOREM DecidedForGood == Spec => OrderDecidedOnce
<1>1. ASSUME Inv, [Next]_vars
      PROVE  \A p \in Orders : DecidedOnce(p)
  BY <1>1, EveryStep, DecidedStep DEF Inv
<1>2. Inv /\ [Next]_vars =>
        [\A o \in Orders :
          \/ orders[o].status \in {"paid", "cancelled"} =>
                orders'[o].status = orders[o].status
          \/ form.order = o /\ form.row.status # orders[o].status /\ o \in edited'
          \/ Deleted(o)']_vars
  BY <1>1 DEF DecidedOnce
<1>. QED BY <1>2, Invariance, PTL DEF Spec, OrderDecidedOnce
==============================================================================
