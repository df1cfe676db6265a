-------------------------- MODULE Warehouse_proofs --------------------------
(***************************************************************************)
(* Proofs about Warehouse, for any books, orders, keys, workers and        *)
(* bounds, and, at the end, about Warehouse together with its admin site   *)
(* (WarehouseAdmin, which extends it).                                     *)
(***************************************************************************)
EXTENDS WarehouseAdmin, Sums, TLAPS

(***************************************************************************)
(* Typing                                                                  *)
(***************************************************************************)

\* A request names some units of every book, an item map is never negative.
LEMMA ItemMapType ==
    ASSUME NEW p \in ItemMaps, NEW b \in Books
    PROVE  p[b] \in Nat /\ p[b] \in Int
  BY WarehouseAssumption DEF ItemMaps

\* Posting integers keeps the ledger a table of integers.
LEMMA PostedType ==
    ASSUME movements \in [Books -> [MovementTypes -> Int]],
           NEW t \in MovementTypes, NEW delta \in [Books -> Int]
    PROVE  Posted(t, delta) \in [Books -> [MovementTypes -> Int]]
  BY DEF Posted

\* n units of one book, nothing of the others.
LEMMA OnlyType ==
    ASSUME NEW b \in Books, NEW n \in Int
    PROVE  Only(b, n) \in [Books -> Int]
  BY DEF Only, NoItems

\* Releasing a reservation that the counters cover keeps the types.
LEMMA ReleaseType ==
    ASSUME TypeOK, NEW o \in Orders, NEW s \in Statuses, Releasable(o), Release(o, s)
    PROVE  /\ quantity' \in [Books -> Nat] /\ reserved' \in [Books -> Nat]
           /\ movements' \in [Books -> [MovementTypes -> Int]]
           /\ reservations' \in [Orders -> Reservation]
<1>1. Items(o) \in ItemMaps
  BY DEF TypeOK, Reservation, Items
<1>2. \A b \in Books : Items(o)[b] \in Nat
  BY <1>1, ItemMapType
<1>3. reserved' \in [Books -> Nat]
  BY <1>2 DEF TypeOK, Releasable, Release
<1>4. Items(o) \in [Books -> Int]
  BY <1>1, WarehouseAssumption DEF ItemMaps
<1>5. movements' \in [Books -> [MovementTypes -> Int]]
  BY <1>4, PostedType DEF TypeOK, Release, MovementTypes
<1>6. reservations' \in [Orders -> Reservation]
  BY DEF TypeOK, Release, Reservation
<1>. QED BY <1>3, <1>5, <1>6 DEF TypeOK, Release

\* Every step keeps every variable in its type; the counters stay natural
\* because each handler checks them before it subtracts.
LEMMA TypeStep == TypeOK /\ [Next]_vars => TypeOK'
<1>. SUFFICES ASSUME TypeOK, [Next]_vars PROVE TypeOK'
  OBVIOUS
<1>. USE WarehouseAssumption
<1>1. ASSUME NEW b \in Books, NEW active \in BOOLEAN, SyncBook(b, active)
      PROVE  TypeOK'
  BY <1>1 DEF TypeOK, SyncBook, Listings, stock, returns, task
<1>2. ASSUME NEW b \in Books, NEW n \in 1..MaxItem, Receive(b, n)
      PROVE  TypeOK'
  <2>1. movements' \in [Books -> [MovementTypes -> Int]]
    <3>1. Only(b, n) \in [Books -> Int]
      BY OnlyType
    <3>. QED BY <1>2, <3>1, PostedType DEF TypeOK, Receive, MovementTypes
  <2>. QED BY <1>2, <2>1 DEF TypeOK, Receive, returns, task
<1>3. ASSUME NEW b \in Books, NEW n \in 1..MaxItem, WriteOff(b, n)
      PROVE  TypeOK'
  <2>1. movements' \in [Books -> [MovementTypes -> Int]]
    <3>1. Only(b, -n) \in [Books -> Int]
      BY OnlyType
    <3>. QED BY <1>3, <3>1, PostedType DEF TypeOK, WriteOff, MovementTypes
  <2>. QED BY <1>3, <2>1 DEF TypeOK, WriteOff, CanFulfill, Available, returns, task
<1>4. ASSUME NEW b \in Books, NEW n \in 0..(MaxReceived + MaxAdjusted), Adjust(b, n)
      PROVE  TypeOK'
  <2>1. n - quantity[b] \in Int
    BY DEF TypeOK
  <2>2. movements' \in [Books -> [MovementTypes -> Int]]
    BY <1>4, <2>1, OnlyType, PostedType DEF TypeOK, Adjust, MovementTypes
  <2>. QED BY <1>4, <2>2 DEF TypeOK, Adjust, returns, task
<1>5. ASSUME NEW o \in Orders, NEW p \in Payloads, NEW k \in Keys \cup {NoKey},
             CreateReservation(o, p, k)
      PROVE  TypeOK'
  <2>1. p \in ItemMaps /\ \A b \in Books : p[b] \in Nat
    BY ItemMapType DEF Payloads
  <2>2. movements' \in [Books -> [MovementTypes -> Int]]
    <3>1. [b \in Books |-> -p[b]] \in [Books -> Int]
      BY <2>1
    <3>. QED BY <1>5, <3>1, PostedType DEF TypeOK, CreateReservation, MovementTypes
  <2>3. reserved' \in [Books -> Nat]
    BY <1>5, <2>1 DEF TypeOK, CreateReservation
  <2>4. reservations' \in [Orders -> Reservation] /\ created' \in Nat
    BY <1>5, <2>1 DEF TypeOK, CreateReservation, Reservation, Statuses
  <2>. QED BY <1>5, <2>2, <2>3, <2>4 DEF TypeOK, CreateReservation, returns, task
<1>6. ASSUME NEW o \in Orders, TtlElapses(o)
      PROVE  TypeOK'
  BY <1>6 DEF TypeOK, TtlElapses, Reservation, stock, returns, task
<1>7. ASSUME NEW o \in Orders, ConfirmReservation(o)
      PROVE  TypeOK'
  <2>1. CASE ConfirmOutcome(o) = "sold" /\ Sell(o)
    <3>1. Items(o) \in ItemMaps /\ \A b \in Books : Items(o)[b] \in Nat
      BY ItemMapType DEF TypeOK, Reservation, Items
    <3>2. Sellable(o)
      BY <2>1 DEF ConfirmOutcome, TypeOK, Reservation, Statuses
    <3>3. quantity' \in [Books -> Nat] /\ reserved' \in [Books -> Nat]
      BY <2>1, <3>1, <3>2 DEF TypeOK, Sell, Sellable, Releasable
    <3>4. movements' \in [Books -> [MovementTypes -> Int]]
      <4>1. [b \in Books |-> -Items(o)[b]] \in [Books -> Int]
        BY <3>1
      <4>. QED BY <2>1, <4>1, PostedType DEF TypeOK, Sell, MovementTypes
    <3>5. reservations' \in [Orders -> Reservation]
      BY <2>1 DEF TypeOK, Sell, Reservation, Statuses
    <3>. QED BY <1>7, <3>3, <3>4, <3>5 DEF TypeOK, ConfirmReservation, returns, task
  <2>2. CASE ConfirmOutcome(o) = "expired" /\ Release(o, "EXPIRED")
    <3>1. Releasable(o)
      BY <2>2 DEF ConfirmOutcome, TypeOK, Reservation, Statuses
    <3>. QED BY <1>7, <2>2, <3>1, ReleaseType
             DEF TypeOK, ConfirmReservation, returns, task, Statuses
  <2>. QED BY <1>7, <2>1, <2>2 DEF ConfirmReservation
<1>8. ASSUME NEW o \in Orders, CancelReservation(o)
      PROVE  TypeOK'
  <2>1. Releasable(o)
    BY <1>8 DEF CancelReservation, CancelOutcome, TypeOK, Reservation, Statuses
  <2>. QED BY <1>8, <2>1, ReleaseType
           DEF TypeOK, CancelReservation, returns, task, Statuses
<1>9. ASSUME NEW w \in Workers, StartExpiry(w)
      PROVE  TypeOK'
  BY <1>9 DEF TypeOK, StartExpiry, Overdue, stock, returns
<1>10. ASSUME NEW w \in Workers, NEW o \in Orders, ExpireNext(w, o)
      PROVE  TypeOK'
  <2>1. batches' \in [Workers -> SUBSET Orders]
    BY <1>10 DEF TypeOK, ExpireNext
  <2>2. CASE CancelOutcome(o) = "released" /\ Release(o, "EXPIRED")
    <3>1. Releasable(o)
      BY <2>2 DEF CancelOutcome, TypeOK, Reservation, Statuses
    <3>. QED BY <1>10, <2>1, <2>2, <3>1, ReleaseType
             DEF TypeOK, ExpireNext, returns, Statuses
  <2>3. CASE UNCHANGED <<stock, reservations>>
    BY <1>10, <2>1, <2>3 DEF TypeOK, ExpireNext, stock, returns
  <2>. QED BY <1>10, <2>2, <2>3 DEF ExpireNext
<1>11. ASSUME NEW w \in Workers, ExpiryDies(w)
      PROVE  TypeOK'
  BY <1>11 DEF TypeOK, ExpiryDies, stock, returns
<1>12. ASSUME NEW o \in Orders, NEW p \in Payloads, NEW reason \in Reasons,
              NEW k \in Keys \cup {NoKey}, CreateStockReturn(o, p, reason, k)
      PROVE  TypeOK'
  <2>1. p \in ItemMaps /\ \A b \in Books : p[b] \in Nat
    BY ItemMapType DEF Payloads
  <2>2. p \in [Books -> Int]
    BY <2>1 DEF ItemMaps
  <2>3. movements' \in [Books -> [MovementTypes -> Int]]
    BY <1>12, <2>2, PostedType DEF TypeOK, CreateStockReturn, MovementTypes
  <2>4. quantity' \in [Books -> Nat]
    BY <1>12, <2>1 DEF TypeOK, CreateStockReturn
  <2>5. returned' \in [Orders -> [Books -> Nat]]
    BY <1>12, <2>1 DEF TypeOK, CreateStockReturn
  <2>6. stockReturns' \in [Keys -> StockReturn \cup {NoReturn}]
    BY <1>12, <2>1 DEF TypeOK, CreateStockReturn, StockReturn
  <2>. QED BY <1>12, <2>3, <2>4, <2>5, <2>6 DEF TypeOK, CreateStockReturn, task
<1>13. CASE UNCHANGED vars
  BY <1>13 DEF TypeOK, vars, stock, returns, task
<1>. QED BY <1>1, <1>2, <1>3, <1>4, <1>5, <1>6, <1>7, <1>8, <1>9, <1>10, <1>11,
            <1>12, <1>13 DEF Next

\* The initial tables are well typed.
LEMMA TypeInit == Init => TypeOK
  BY WarehouseAssumption
     DEF Init, TypeOK, Listings, Reservation, NoReservation, NoItems, Statuses,
         ItemMaps

\* Every reachable state is well typed: no counter goes below zero.
THEOREM TypeCorrect == Spec => []TypeOK
  BY TypeInit, TypeStep, PTL DEF Spec

(***************************************************************************)
(* The counters and the ledger                                             *)
(***************************************************************************)

\* Every step moves the two counters and the ledger together: some units,
\* delta, are posted under one type of movement and the counters follow.
StockStep(t, delta) ==
    /\ movements' = Posted(t, delta)
    /\ \A b \in Books :
         /\ quantity'[b] = IF t \in {"reservation", "reservation_release"}
                             THEN quantity[b] ELSE quantity[b] + delta[b]
         /\ reserved'[b] = IF t \in {"reservation", "reservation_release"}
                             THEN reserved[b] - delta[b]
                           ELSE IF t = "sale" THEN reserved[b] + delta[b]
                           ELSE reserved[b]

\* n units of one book, nothing of the others.
LEMMA OnlyValue ==
    ASSUME NEW b \in Books, NEW n \in Int, NEW c \in Books
    PROVE  Only(b, n)[c] = IF c = b THEN n ELSE 0
  BY DEF Only, NoItems

\* Giving a reservation's units back is a stock step.
LEMMA ReleaseStock ==
    ASSUME TypeOK, NEW o \in Orders, NEW s \in Statuses, Release(o, s)
    PROVE  StockStep("reservation_release", Items(o)) /\ Items(o) \in [Books -> Int]
<1>1. Items(o) \in ItemMaps /\ \A b \in Books : Items(o)[b] \in Int
  BY ItemMapType DEF TypeOK, Reservation, Items
<1>. QED BY <1>1, WarehouseAssumption DEF StockStep, Release, ItemMaps

\* How far the counters of b are from what the movements say.
QuantityDrift(b) == quantity[b] - (movements[b]["receipt"] + movements[b]["write_off"]
                      + movements[b]["adjustment"] + movements[b]["sale"]
                      + movements[b]["return"])
ReservedDrift(b) == reserved[b] - (movements[b]["sale"] - movements[b]["reservation"]
                      - movements[b]["reservation_release"])

\* A stock step brings the counters no nearer to the ledger and no further from it.
LEMMA StockStepKeepsDrift ==
    ASSUME TypeOK, NEW t \in MovementTypes,
           NEW delta \in [Books -> Int], StockStep(t, delta), NEW b \in Books
    PROVE  QuantityDrift(b)' = QuantityDrift(b) /\ ReservedDrift(b)' = ReservedDrift(b)
<1>1. \A u \in MovementTypes : /\ movements[b][u] \in Int
                               /\ movements'[b][u] = IF u = t THEN movements[b][u] + delta[b]
                                                     ELSE movements[b][u]
  BY DEF StockStep, Posted, TypeOK
<1>2. delta[b] \in Int /\ quantity[b] \in Int /\ reserved[b] \in Int
  BY DEF TypeOK
<1>. QED BY <1>1, <1>2 DEF StockStep, MovementTypes, QuantityDrift, ReservedDrift

\* Whatever happens, the stock is left alone or makes one stock step, and the
\* guards of the handlers keep every reserved unit on the shelf.
LEMMA StockSteps ==
    ASSUME TypeOK, ReservedWithinStock, [Next]_vars
    PROVE  /\ \/ UNCHANGED stock
              \/ \E t \in MovementTypes : \E delta \in [Books -> Int] : StockStep(t, delta)
           /\ ReservedWithinStock'
<1>. DEFINE Goal == /\ \/ UNCHANGED stock
                       \/ \E t \in MovementTypes : \E delta \in [Books -> Int] :
                             StockStep(t, delta)
                    /\ ReservedWithinStock'
<1>. USE WarehouseAssumption
<1>0. \A b \in Books : reserved'[b] \in Nat
  BY TypeStep DEF TypeOK
<1>1. ASSUME NEW b \in Books, NEW active \in BOOLEAN, SyncBook(b, active)
      PROVE  Goal
  BY <1>1 DEF SyncBook, stock, ReservedWithinStock
<1>2. ASSUME NEW b \in Books, NEW n \in 1..MaxItem, Receive(b, n)
      PROVE  Goal
  <2>1. Only(b, n) \in [Books -> Int] /\ "receipt" \in MovementTypes
    BY OnlyType DEF MovementTypes
  <2>2. StockStep("receipt", Only(b, n))
    BY <1>2, OnlyValue DEF StockStep, Receive, TypeOK
  <2>3. ReservedWithinStock'
    BY <1>2 DEF ReservedWithinStock, Receive, TypeOK
  <2>. QED BY <2>1, <2>2, <2>3
<1>3. ASSUME NEW b \in Books, NEW n \in 1..MaxItem, WriteOff(b, n)
      PROVE  Goal
  <2>1. Only(b, -n) \in [Books -> Int] /\ "write_off" \in MovementTypes
    BY OnlyType DEF MovementTypes
  <2>2. StockStep("write_off", Only(b, -n))
    <3>1. \A c \in Books : Only(b, -n)[c] = IF c = b THEN -n ELSE 0
      BY DEF Only, NoItems
    <3>2. \A c \in Books : quantity'[c] = quantity[c] + Only(b, -n)[c]
      <4>. SUFFICES ASSUME NEW c \in Books
                    PROVE  quantity'[c] = quantity[c] + Only(b, -n)[c]
        OBVIOUS
      <4>1. quantity'[c] = IF c = b THEN quantity[c] - n ELSE quantity[c]
        BY <1>3 DEF WriteOff, TypeOK
      <4>2. quantity[c] \in Int /\ n \in Int
        BY DEF TypeOK
      <4>. QED BY <3>1, <4>1, <4>2
    <3>3. movements' = Posted("write_off", Only(b, -n)) /\ UNCHANGED reserved
      BY <1>3 DEF WriteOff
    <3>. QED BY <3>2, <3>3 DEF StockStep
  <2>3. ReservedWithinStock'
    BY <1>3 DEF ReservedWithinStock, WriteOff, CanFulfill, Available, TypeOK
  <2>. QED BY <2>1, <2>2, <2>3
<1>4. ASSUME NEW b \in Books, NEW n \in 0..(MaxReceived + MaxAdjusted), Adjust(b, n)
      PROVE  Goal
  <2>0. n - quantity[b] \in Int
    BY DEF TypeOK
  <2>1. Only(b, n - quantity[b]) \in [Books -> Int] /\ "adjustment" \in MovementTypes
    BY <2>0, OnlyType DEF MovementTypes
  <2>2. StockStep("adjustment", Only(b, n - quantity[b]))
    BY <1>4, <2>0, OnlyValue DEF StockStep, Adjust, TypeOK
  <2>3. ReservedWithinStock'
    BY <1>4 DEF ReservedWithinStock, Adjust, CanAdjust, TypeOK
  <2>. QED BY <2>1, <2>2, <2>3
<1>5. ASSUME NEW o \in Orders, NEW p \in Payloads, NEW k \in Keys \cup {NoKey},
             CreateReservation(o, p, k)
      PROVE  Goal
  <2>. DEFINE delta == [b \in Books |-> -p[b]]
  <2>1. \A b \in Books : p[b] \in Nat
    BY ItemMapType DEF Payloads
  <2>2. delta \in [Books -> Int] /\ "reservation" \in MovementTypes
    BY <2>1 DEF MovementTypes
  <2>3. StockStep("reservation", delta)
    BY <1>5, <2>1 DEF StockStep, CreateReservation, TypeOK
  <2>4. Sufficient(p)
    BY <1>5 DEF CreateReservation, CreateOutcome
  <2>5. ReservedWithinStock'
    BY <1>5, <2>1, <2>4 DEF ReservedWithinStock, CreateReservation, Sufficient,
                            CanFulfill, Available, TypeOK
  <2>. HIDE DEF delta
  <2>. QED BY <2>2, <2>3, <2>5
<1>6. ASSUME NEW o \in Orders, TtlElapses(o)
      PROVE  Goal
  BY <1>6 DEF TtlElapses, stock, ReservedWithinStock
<1>7. ASSUME NEW o \in Orders, NEW s \in Statuses, Release(o, s)
      PROVE  Goal
  <2>1. \A b \in Books : Items(o)[b] \in Nat
    BY ItemMapType DEF TypeOK, Reservation, Items
  <2>2. StockStep("reservation_release", Items(o)) /\ Items(o) \in [Books -> Int]
    BY <1>7, ReleaseStock
  <2>3. ReservedWithinStock'
    BY <1>0, <1>7, <2>1 DEF ReservedWithinStock, Release, TypeOK
  <2>4. "reservation_release" \in MovementTypes
    BY DEF MovementTypes
  <2>. QED BY <2>2, <2>3, <2>4
<1>8. ASSUME NEW o \in Orders, Sell(o)
      PROVE  Goal
  <2>. DEFINE delta == [b \in Books |-> -Items(o)[b]]
  <2>1. \A b \in Books : Items(o)[b] \in Nat
    BY ItemMapType DEF TypeOK, Reservation, Items
  <2>2. delta \in [Books -> Int] /\ "sale" \in MovementTypes
    BY <2>1 DEF MovementTypes
  <2>3. StockStep("sale", delta)
    BY <1>8, <2>1 DEF StockStep, Sell, TypeOK
  <2>4. ReservedWithinStock'
    BY <1>0, <1>8, <2>1 DEF ReservedWithinStock, Sell, TypeOK
  <2>. HIDE DEF delta
  <2>. QED BY <2>2, <2>3, <2>4
<1>9. ASSUME NEW o \in Orders, ConfirmReservation(o)
      PROVE  Goal
  BY <1>7, <1>8, <1>9 DEF ConfirmReservation, Statuses
<1>10. ASSUME NEW o \in Orders, CancelReservation(o)
      PROVE  Goal
  BY <1>7, <1>10 DEF CancelReservation, Statuses
<1>11. ASSUME NEW w \in Workers, StartExpiry(w)
      PROVE  Goal
  BY <1>11 DEF StartExpiry, stock, ReservedWithinStock
<1>12. ASSUME NEW w \in Workers, NEW o \in Orders, ExpireNext(w, o)
      PROVE  Goal
  <2>1. CASE Release(o, "EXPIRED")
    BY <1>7, <2>1 DEF Statuses
  <2>2. CASE UNCHANGED <<stock, reservations>>
    BY <2>2 DEF stock, ReservedWithinStock
  <2>. QED BY <1>12, <2>1, <2>2 DEF ExpireNext
<1>13. ASSUME NEW w \in Workers, ExpiryDies(w)
      PROVE  Goal
  BY <1>13 DEF ExpiryDies, stock, ReservedWithinStock
<1>14. ASSUME NEW o \in Orders, NEW p \in Payloads, NEW reason \in Reasons,
              NEW k \in Keys \cup {NoKey}, CreateStockReturn(o, p, reason, k)
      PROVE  Goal
  <2>1. \A b \in Books : p[b] \in Nat
    BY ItemMapType DEF Payloads
  <2>2. p \in [Books -> Int] /\ "return" \in MovementTypes
    BY WarehouseAssumption DEF Payloads, ItemMaps, MovementTypes
  <2>3. StockStep("return", p)
    BY <1>14, <2>1 DEF StockStep, CreateStockReturn, TypeOK
  <2>4. ReservedWithinStock'
    BY <1>14, <2>1 DEF ReservedWithinStock, CreateStockReturn, TypeOK
  <2>. QED BY <2>2, <2>3, <2>4
<1>15. CASE UNCHANGED vars
  BY <1>15 DEF vars, stock, ReservedWithinStock
<1>. QED BY <1>1, <1>2, <1>3, <1>4, <1>5, <1>6, <1>9, <1>10, <1>11, <1>12, <1>13,
            <1>14, <1>15 DEF Next

\* Reserved units are on the shelf in every reachable state, so the database's
\* CheckConstraint can never be what refuses a transaction.
THEOREM ReservedUnitsAreOnTheShelf == Spec => []ReservedWithinStock
<1>1. Init => ReservedWithinStock
  BY DEF Init, ReservedWithinStock
<1>2. TypeOK /\ ReservedWithinStock /\ [Next]_vars => ReservedWithinStock'
  BY StockSteps
<1>. QED BY <1>1, <1>2, TypeCorrect, PTL DEF Spec

\* No step changes how far the counters are from the ledger.
LEMMA LedgerDriftStays ==
    ASSUME TypeOK, ReservedWithinStock, [Next]_vars, NEW b \in Books
    PROVE  QuantityDrift(b)' = QuantityDrift(b) /\ ReservedDrift(b)' = ReservedDrift(b)
<1>1. CASE UNCHANGED stock
  BY <1>1 DEF QuantityDrift, ReservedDrift, stock
<1>2. CASE \E t \in MovementTypes : \E delta \in [Books -> Int] : StockStep(t, delta)
  BY <1>2, StockStepKeepsDrift
<1>. QED BY <1>1, <1>2, StockSteps

NoDrift == \A b \in Books : QuantityDrift(b) = 0 /\ ReservedDrift(b) = 0

\* The movement ledger explains both counters in every reachable state.
THEOREM LedgerExplainsStock == Spec => []LedgerReconciles
<1>1. Init => NoDrift
  BY DEF Init, NoDrift, QuantityDrift, ReservedDrift, MovementTypes
<1>2. TypeOK /\ ReservedWithinStock /\ NoDrift /\ [Next]_vars => NoDrift'
  BY LedgerDriftStays DEF NoDrift
<1>3. TypeOK /\ NoDrift => LedgerReconciles
  <2>. SUFFICES ASSUME TypeOK, NEW b \in Books, QuantityDrift(b) = 0, ReservedDrift(b) = 0
                PROVE  /\ quantity[b] = movements[b]["receipt"] + movements[b]["write_off"]
                                          + movements[b]["adjustment"] + movements[b]["sale"]
                                          + movements[b]["return"]
                       /\ reserved[b] = movements[b]["sale"] - movements[b]["reservation"]
                                          - movements[b]["reservation_release"]
    BY DEF LedgerReconciles, NoDrift
  <2>1. quantity[b] \in Int /\ reserved[b] \in Int /\ \A u \in MovementTypes : movements[b][u] \in Int
    BY DEF TypeOK
  <2>2. PICK receipt \in Int, written_off \in Int, adjusted \in Int, sold \in Int,
             given_back \in Int, held \in Int, released \in Int :
          /\ receipt = movements[b]["receipt"] /\ written_off = movements[b]["write_off"]
          /\ adjusted = movements[b]["adjustment"] /\ sold = movements[b]["sale"]
          /\ given_back = movements[b]["return"] /\ held = movements[b]["reservation"]
          /\ released = movements[b]["reservation_release"]
    BY <2>1 DEF MovementTypes
  <2>3. quantity[b] - (receipt + written_off + adjusted + sold + given_back) = 0
        /\ reserved[b] - (sold - held - released) = 0
    BY <2>2 DEF QuantityDrift, ReservedDrift
  <2>. QED BY <2>1, <2>2, <2>3
<1>. QED BY <1>1, <1>2, <1>3, TypeCorrect, ReservedUnitsAreOnTheShelf, PTL DEF Spec

(***************************************************************************)
(* The life of a reservation                                               *)
(***************************************************************************)

\* A pending reservation reaches its final status s and stops holding stock;
\* it is sold only while it is not overdue.
Settled(o, s) ==
    /\ reservations[o].status = "PENDING"
    /\ s = "CONFIRMED" => ~reservations[o].due
    /\ Releasable(o)
    /\ reserved' = [b \in Books |-> reserved[b] - Items(o)[b]]
    /\ reservations' = [reservations EXCEPT ![o].status = s]
    /\ UNCHANGED created

FinalStatuses == {"CONFIRMED", "CANCELLED", "EXPIRED"}

\* The four things a step may do to the reservations and what they hold.
ReservationStep ==
    \/ UNCHANGED <<reservations, reserved, created>>
    \/ \E o \in Orders, p \in Payloads, k \in Keys \cup {NoKey} :
          CreateReservation(o, p, k)
    \/ \E o \in Orders : TtlElapses(o)
    \/ \E o \in Orders, s \in FinalStatuses : Settled(o, s)

\* Every step is one of these.
LEMMA ReservationSteps ==
    ASSUME TypeOK, [Next]_vars
    PROVE  ReservationStep
<1>1. ASSUME NEW b \in Books, NEW active \in BOOLEAN, SyncBook(b, active)
      PROVE  ReservationStep
  BY <1>1 DEF SyncBook, stock, ReservationStep
<1>2. ASSUME NEW b \in Books, NEW n \in 1..MaxItem, Receive(b, n)
      PROVE  ReservationStep
  BY <1>2 DEF Receive, ReservationStep
<1>3. ASSUME NEW b \in Books, NEW n \in 1..MaxItem, WriteOff(b, n)
      PROVE  ReservationStep
  BY <1>3 DEF WriteOff, ReservationStep
<1>4. ASSUME NEW b \in Books, NEW n \in 0..(MaxReceived + MaxAdjusted), Adjust(b, n)
      PROVE  ReservationStep
  BY <1>4 DEF Adjust, ReservationStep
<1>5. ASSUME NEW o \in Orders, NEW p \in Payloads, NEW k \in Keys \cup {NoKey},
             CreateReservation(o, p, k)
      PROVE  ReservationStep
  BY <1>5 DEF ReservationStep
<1>6. ASSUME NEW o \in Orders, TtlElapses(o)
      PROVE  ReservationStep
  BY <1>6 DEF ReservationStep
<1>7. ASSUME NEW o \in Orders, ConfirmReservation(o)
      PROVE  ReservationStep
  <2>1. CASE ConfirmOutcome(o) = "sold" /\ Sell(o)
    <3>1. Settled(o, "CONFIRMED")
      BY <1>7, <2>1 DEF ConfirmReservation, ConfirmOutcome, Sell, Settled, Sellable,
                        TypeOK, Reservation, Statuses
    <3>. QED BY <3>1 DEF ReservationStep, FinalStatuses
  <2>2. CASE ConfirmOutcome(o) = "expired" /\ Release(o, "EXPIRED")
    <3>1. Settled(o, "EXPIRED")
      BY <1>7, <2>2 DEF ConfirmReservation, ConfirmOutcome, Release, Settled,
                        TypeOK, Reservation, Statuses
    <3>. QED BY <3>1 DEF ReservationStep, FinalStatuses
  <2>. QED BY <1>7, <2>1, <2>2 DEF ConfirmReservation
<1>8. ASSUME NEW o \in Orders, CancelReservation(o)
      PROVE  ReservationStep
  <2>1. Settled(o, "CANCELLED")
    BY <1>8 DEF CancelReservation, CancelOutcome, Release, Settled,
                TypeOK, Reservation, Statuses
  <2>. QED BY <2>1 DEF ReservationStep, FinalStatuses
<1>9. ASSUME NEW w \in Workers, StartExpiry(w)
      PROVE  ReservationStep
  BY <1>9 DEF StartExpiry, stock, ReservationStep
<1>10. ASSUME NEW w \in Workers, NEW o \in Orders, ExpireNext(w, o)
      PROVE  ReservationStep
  <2>1. CASE CancelOutcome(o) = "released"
    <3>1. Settled(o, "EXPIRED")
      BY <1>10, <2>1 DEF ExpireNext, CancelOutcome, Release, Settled,
                         TypeOK, Reservation, Statuses
    <3>. QED BY <3>1 DEF ReservationStep, FinalStatuses
  <2>2. CASE CancelOutcome(o) # "released"
    BY <1>10, <2>2 DEF ExpireNext, stock, ReservationStep
  <2>. QED BY <2>1, <2>2
<1>11. ASSUME NEW w \in Workers, ExpiryDies(w)
      PROVE  ReservationStep
  BY <1>11 DEF ExpiryDies, stock, ReservationStep
<1>12. ASSUME NEW o \in Orders, NEW p \in Payloads, NEW reason \in Reasons,
              NEW k \in Keys \cup {NoKey}, CreateStockReturn(o, p, reason, k)
      PROVE  ReservationStep
  BY <1>12 DEF CreateStockReturn, ReservationStep
<1>13. CASE UNCHANGED vars
  BY <1>13 DEF vars, stock, ReservationStep
<1>. QED BY <1>1, <1>2, <1>3, <1>4, <1>5, <1>6, <1>7, <1>8, <1>9, <1>10, <1>11,
            <1>12, <1>13 DEF Next

\* A reservation is made only for an order and under a key that have none.
LEMMA FreshlyMade ==
    ASSUME NEW o \in Orders, NEW p \in Payloads, NEW k \in Keys \cup {NoKey},
           CreateReservation(o, p, k)
    PROVE  /\ ~Exists(o)
           /\ \A r \in Orders : Exists(r) /\ k # NoKey => reservations[r].key # k
           /\ Sufficient(p)
  BY DEF CreateReservation, CreateOutcome, Matches

\* The first final status of a reservation to commit stays, with the order's
\* items and key, whatever clients, webhooks and expiry tasks do afterwards; a
\* reservation that is overdue is not confirmed.
THEOREM FirstOutcomeStays == Spec => FirstOutcomeIsFinal
<1>. DEFINE Kept == \A o \in Orders : Exists(o) =>
              /\ reservations'[o].items = Items(o)
              /\ reservations'[o].key = reservations[o].key
              /\ reservations'[o].serial = reservations[o].serial
              /\ reservations[o].status # "PENDING" =>
                    reservations'[o].status = reservations[o].status
              /\ o \in Overdue => reservations'[o].status # "CONFIRMED"
<1>1. TypeOK /\ [Next]_vars => Kept
  <2>. SUFFICES ASSUME TypeOK, [Next]_vars PROVE Kept
    OBVIOUS
  <2>1. CASE UNCHANGED <<reservations, reserved, created>>
    BY <2>1 DEF Items, Overdue
  <2>2. ASSUME NEW o \in Orders, NEW p \in Payloads, NEW k \in Keys \cup {NoKey},
               CreateReservation(o, p, k)
        PROVE  Kept
    BY <2>2, FreshlyMade DEF CreateReservation, Items, Overdue, TypeOK
  <2>3. ASSUME NEW o \in Orders, TtlElapses(o)
        PROVE  Kept
    BY <2>3 DEF TtlElapses, Items, Overdue, TypeOK, Reservation
  <2>4. ASSUME NEW o \in Orders, NEW s \in FinalStatuses, Settled(o, s)
        PROVE  Kept
    BY <2>4 DEF Settled, Items, Overdue, TypeOK, Reservation
  <2>. QED BY <2>1, <2>2, <2>3, <2>4, ReservationSteps DEF ReservationStep
<1>2. TypeOK /\ [Next]_vars => [Kept]_vars
  BY <1>1
<1>. QED BY <1>2, TypeCorrect, PTL DEF Spec, FirstOutcomeIsFinal

\* No two reservations ever hold the same idempotency key.
THEOREM KeysStayUnique == Spec => []KeysAreUnique
<1>1. Init => KeysAreUnique
  BY DEF Init, KeysAreUnique, Exists, NoReservation
<1>2. TypeOK /\ KeysAreUnique /\ [Next]_vars => KeysAreUnique'
  <2>. SUFFICES ASSUME TypeOK, KeysAreUnique, [Next]_vars PROVE KeysAreUnique'
    OBVIOUS
  <2>1. CASE UNCHANGED <<reservations, reserved, created>>
    BY <2>1 DEF KeysAreUnique, Exists
  <2>2. ASSUME NEW o \in Orders, NEW p \in Payloads, NEW k \in Keys \cup {NoKey},
               CreateReservation(o, p, k)
        PROVE  KeysAreUnique'
    BY <2>2, FreshlyMade DEF CreateReservation, KeysAreUnique, Exists, TypeOK
  <2>3. ASSUME NEW o \in Orders, TtlElapses(o)
        PROVE  KeysAreUnique'
    BY <2>3 DEF TtlElapses, KeysAreUnique, Exists, TypeOK, Reservation
  <2>4. ASSUME NEW o \in Orders, NEW s \in FinalStatuses, Settled(o, s)
        PROVE  KeysAreUnique'
    BY <2>4 DEF Settled, KeysAreUnique, Exists, TypeOK, Reservation
  <2>. QED BY <2>1, <2>2, <2>3, <2>4, ReservationSteps DEF ReservationStep
<1>. QED BY <1>1, <1>2, TypeCorrect, PTL DEF Spec

\* Repeating a create request always finds the reservation that it made.
THEOREM CreateRetryIsAnswered == Spec => []CreateRetryAnswered
<1>1. KeysAreUnique => CreateRetryAnswered
  <2>. SUFFICES ASSUME KeysAreUnique, NEW o \in Orders, Exists(o)
                PROVE  CreateOutcome(o, Items(o), reservations[o].key) = "existing"
    BY DEF CreateRetryAnswered
  <2>1. Matches(o, reservations[o].key) = {o}
    BY DEF Matches, KeysAreUnique
  <2>. QED BY <2>1 DEF CreateOutcome, Found
<1>. QED BY <1>1, KeysStayUnique, PTL

(***************************************************************************)
(* What the pending reservations hold                                      *)
(*                                                                         *)
(* ReservedIsPending sums over the pending orders, a set that changes.     *)
(* The proof sums over all orders what each holds, nothing for an order    *)
(* that is not pending: then a step changes one member of one sum.         *)
(***************************************************************************)

\* The units of book b that order o holds.
Held(o, b) == IF reservations[o].status = "PENDING" THEN Items(o)[b] ELSE 0
HeldOf(b) == [o \in Orders |-> Held(o, b)]

\* How far reserved_quantity is from the sum of the units that orders hold.
HeldDrift(b) == reserved[b] - SumFunctionOnSet(HeldOf(b), Orders)

\* The units that an order holds are a natural number.
LEMMA HeldType ==
    ASSUME TypeOK, NEW o \in Orders, NEW b \in Books
    PROVE  Held(o, b) \in Nat
  BY ItemMapType DEF TypeOK, Reservation, Held, Items

\* The units that an order holds after a step are a natural number.
LEMMA HeldTypeAfter ==
    ASSUME TypeOK', NEW o \in Orders, NEW b \in Books
    PROVE  Held(o, b)' \in Nat
<1>1. Items(o)' \in ItemMaps
  BY DEF TypeOK, Reservation, Items
<1>2. Items(o)'[b] \in Nat
  BY <1>1, ItemMapType
<1>. QED BY <1>2 DEF Held

\* When one order's hold changes, and reserved_quantity by the difference, the
\* counter is as far from the sum as before.
LEMMA HoldChanges ==
    ASSUME TypeOK, TypeOK', NEW o \in Orders,
           \A r \in Orders, b \in Books : r # o => Held(r, b)' = Held(r, b),
           \A b \in Books : reserved'[b] = reserved[b] - Held(o, b) + Held(o, b)',
           NEW b \in Books
    PROVE  HeldDrift(b)' = HeldDrift(b)
<1>1. PICK f : f = HeldOf(b)
  OBVIOUS
<1>2. PICK g : g = HeldOf(b)'
  OBVIOUS
<1>3. \A r \in Orders : f[r] = Held(r, b) /\ g[r] = Held(r, b)'
  BY <1>1, <1>2 DEF HeldOf
<1>4. \A r \in Orders : f[r] \in Int /\ g[r] \in Int
  BY <1>3, HeldType, HeldTypeAfter
<1>5. \A r \in Orders \ {o} : f[r] = g[r]
  BY <1>3
<1>6. SumFunctionOnSet(g, Orders) = SumFunctionOnSet(f, Orders) - f[o] + g[o]
  <2>1. IsFiniteSet(Orders)
    BY WarehouseAssumption
  <2>. QED BY <1>4, <1>5, <2>1, SumOfChange
<1>7. SumFunctionOnSet(f, Orders) \in Int /\ reserved[b] \in Int
  BY <1>4, SumType, WarehouseAssumption DEF TypeOK
<1>8. /\ HeldDrift(b) = reserved[b] - SumFunctionOnSet(f, Orders)
      /\ HeldDrift(b)' = reserved'[b] - SumFunctionOnSet(g, Orders)
  BY <1>1, <1>2 DEF HeldDrift
<1>9. reserved'[b] = reserved[b] - f[o] + g[o]
  BY <1>3
<1>10. f[o] \in Int /\ g[o] \in Int
  BY <1>4
<1>. QED BY <1>6, <1>7, <1>8, <1>9, <1>10

\* No step changes how far the counter is from what orders hold.
LEMMA HeldDriftStays ==
    ASSUME TypeOK, TypeOK', [Next]_vars, NEW b \in Books
    PROVE  HeldDrift(b)' = HeldDrift(b)
<1>1. CASE UNCHANGED <<reservations, reserved, created>>
  BY <1>1 DEF HeldDrift, HeldOf, Held, Items
<1>2. ASSUME NEW o \in Orders, NEW p \in Payloads, NEW k \in Keys \cup {NoKey},
             CreateReservation(o, p, k)
      PROVE  HeldDrift(b)' = HeldDrift(b)
  <2>1. \A r \in Orders, c \in Books : r # o => Held(r, c)' = Held(r, c)
    BY <1>2 DEF CreateReservation, Held, Items, TypeOK
  <2>2. \A c \in Books : Held(o, c) = 0 /\ Held(o, c)' = p[c]
    BY <1>2, FreshlyMade DEF CreateReservation, Held, Items, Exists, TypeOK
  <2>3. \A c \in Books : p[c] \in Nat /\ reserved[c] \in Int
    BY ItemMapType DEF Payloads, TypeOK
  <2>4. \A c \in Books : reserved'[c] = reserved[c] - Held(o, c) + Held(o, c)'
    BY <1>2, <2>2, <2>3 DEF CreateReservation
  <2>. QED BY <2>1, <2>4, HoldChanges
<1>3. ASSUME NEW o \in Orders, TtlElapses(o)
      PROVE  HeldDrift(b)' = HeldDrift(b)
  <2>1. \A r \in Orders : Held(r, b)' = Held(r, b)
    BY <1>3 DEF TtlElapses, Held, Items, TypeOK, Reservation
  <2>2. reserved' = reserved
    BY <1>3 DEF TtlElapses, stock
  <2>. QED BY <2>1, <2>2 DEF HeldDrift, HeldOf
<1>4. ASSUME NEW o \in Orders, NEW s \in FinalStatuses, Settled(o, s)
      PROVE  HeldDrift(b)' = HeldDrift(b)
  <2>1. \A r \in Orders, c \in Books : r # o => Held(r, c)' = Held(r, c)
    BY <1>4 DEF Settled, Held, Items, TypeOK
  <2>2. \A c \in Books : Held(o, c) = Items(o)[c] /\ Held(o, c)' = 0
    BY <1>4 DEF Settled, Held, Items, TypeOK, Reservation, FinalStatuses
  <2>3. \A c \in Books : Items(o)[c] \in Nat /\ reserved[c] \in Int
    BY ItemMapType DEF TypeOK, Reservation, Items
  <2>4. \A c \in Books : reserved'[c] = reserved[c] - Held(o, c) + Held(o, c)'
    BY <1>4, <2>2, <2>3 DEF Settled
  <2>. QED BY <2>1, <2>4, HoldChanges
<1>. QED BY <1>1, <1>2, <1>3, <1>4, ReservationSteps DEF ReservationStep

\* The sum of what orders hold is an integer.
LEMMA HeldSumType ==
    ASSUME TypeOK, NEW b \in Books
    PROVE  SumFunctionOnSet(HeldOf(b), Orders) \in Int
<1>1. PICK f : f = HeldOf(b)
  OBVIOUS
<1>2. \A o \in Orders : f[o] \in Int
  BY <1>1, HeldType DEF HeldOf
<1>. QED BY <1>1, <1>2, SumType, WarehouseAssumption

\* reserved_quantity is the sum of the units that orders hold.
ReservedIsHeld == \A b \in Books : reserved[b] = SumFunctionOnSet(HeldOf(b), Orders)
NoHeldDrift == \A b \in Books : HeldDrift(b) = 0

LEMMA ReservedIsHeldInv == Spec => []ReservedIsHeld
<1>1. Init => NoHeldDrift
  <2>. SUFFICES ASSUME Init, NEW b \in Books
                PROVE  HeldDrift(b) = 0
    BY DEF NoHeldDrift
  <2>1. \A o \in Orders : HeldOf(b)[o] = 0
    BY DEF Init, NoReservation, Held, HeldOf
  <2>2. SumFunctionOnSet(HeldOf(b), {}) = SumFunctionOnSet(HeldOf(b), Orders)
    BY <2>1, SumOfSupport, WarehouseAssumption
  <2>3. SumFunctionOnSet(HeldOf(b), {}) = 0
    BY SumOfNone
  <2>. QED BY <2>2, <2>3 DEF Init, HeldDrift
<1>2. TypeOK /\ TypeOK' /\ NoHeldDrift /\ [Next]_vars => NoHeldDrift'
  BY HeldDriftStays DEF NoHeldDrift
<1>3. TypeOK /\ NoHeldDrift => ReservedIsHeld
  <2>. SUFFICES ASSUME TypeOK, NEW b \in Books, HeldDrift(b) = 0
                PROVE  reserved[b] = SumFunctionOnSet(HeldOf(b), Orders)
    BY DEF NoHeldDrift, ReservedIsHeld
  <2>1. reserved[b] \in Int /\ SumFunctionOnSet(HeldOf(b), Orders) \in Int
    BY HeldSumType DEF TypeOK
  <2>. QED BY <2>1 DEF HeldDrift
<1>. QED BY <1>1, <1>2, <1>3, TypeCorrect, PTL DEF Spec

\* A sum over the orders of one status is a sum over all of them.
WithStatus(s) == {o \in Orders : reservations[o].status = s}
UnitsOf(b) == [o \in Orders |-> Items(o)[b]]
UnitsIf(s, b) == [o \in Orders |-> IF reservations[o].status = s THEN Items(o)[b] ELSE 0]

\* A sum over a part is one over the whole of what counts nothing outside the part.
LEMMA SumOfSome ==
    ASSUME NEW S, IsFiniteSet(S), NEW P \in SUBSET S, NEW all, NEW part,
           \A x \in S : all[x] \in Int,
           \A x \in S : part[x] = IF x \in P THEN all[x] ELSE 0
    PROVE  SumFunctionOnSet(all, P) = SumFunctionOnSet(part, S)
<1>1. /\ \A x \in S : part[x] \in Int
      /\ \A x \in S \ P : part[x] = 0
      /\ \A x \in P : part[x] = all[x] /\ part[x] \in Int
  OBVIOUS
<1>2. IsFiniteSet(P)
  BY FS_Subset
<1>3. SumFunctionOnSet(part, P) = SumFunctionOnSet(all, P)
  BY <1>1, <1>2, SumOfSame
<1>4. SumFunctionOnSet(part, P) = SumFunctionOnSet(part, S)
  BY <1>1, SumOfSupport
<1>. QED BY <1>3, <1>4

LEMMA SumOfStatus ==
    ASSUME TypeOK, NEW s, NEW b \in Books
    PROVE  SumFunctionOnSet(UnitsOf(b), WithStatus(s))
             = SumFunctionOnSet(UnitsIf(s, b), Orders)
<1>1. \A o \in Orders : Items(o)[b] \in Int
  BY ItemMapType DEF TypeOK, Reservation, Items
<1>2. PICK some, part, all : some = WithStatus(s) /\ part = UnitsIf(s, b) /\ all = UnitsOf(b)
  OBVIOUS
<1>3. /\ some \in SUBSET Orders /\ \A o \in Orders : all[o] \in Int
      /\ \A o \in Orders : part[o] = IF o \in some THEN all[o] ELSE 0
  BY <1>1, <1>2 DEF WithStatus, UnitsIf, UnitsOf
<1>. QED BY <1>2, <1>3, SumOfSome, WarehouseAssumption

\* reserved_quantity of a book is exactly what the pending reservations hold.
THEOREM ReservedIsWhatIsPending == Spec => []ReservedIsPending
<1>1. TypeOK /\ ReservedIsHeld => ReservedIsPending
  <2>. SUFFICES ASSUME TypeOK, ReservedIsHeld, NEW b \in Books
                PROVE  reserved[b] = SumFunctionOnSet(UnitsOf(b), WithStatus("PENDING"))
    BY DEF ReservedIsPending, UnitsOf, WithStatus
  <2>1. HeldOf(b) = UnitsIf("PENDING", b)
    BY DEF HeldOf, Held, UnitsIf
  <2>. QED BY <2>1, SumOfStatus DEF ReservedIsHeld
<1>. QED BY <1>1, TypeCorrect, ReservedIsHeldInv, PTL

\* No order holds more of a book than is reserved of it.
LEMMA HeldIsReserved ==
    ASSUME TypeOK, ReservedIsHeld, NEW o \in Orders, NEW b \in Books
    PROVE  Held(o, b) <= reserved[b]
<1>1. \A r \in Orders : HeldOf(b)[r] \in Nat
  BY HeldType DEF HeldOf
<1>2. HeldOf(b)[o] <= SumFunctionOnSet(HeldOf(b), Orders)
  BY <1>1, SumBoundsMembers, WarehouseAssumption
<1>. QED BY <1>2 DEF ReservedIsHeld, HeldOf

\* A pending reservation can be released, and sold, in every reachable state.
LEMMA PendingIsCovered ==
    ASSUME TypeOK, ReservedWithinStock, ReservedIsHeld,
           NEW o \in Orders, reservations[o].status = "PENDING"
    PROVE  Releasable(o) /\ Sellable(o)
<1>. SUFFICES ASSUME NEW b \in Books
              PROVE  Items(o)[b] <= reserved[b] /\ Items(o)[b] <= quantity[b]
  BY DEF Releasable, Sellable
<1>1. Items(o)[b] <= reserved[b]
  BY HeldIsReserved DEF Held
<1>2. Items(o)[b] \in Nat /\ reserved[b] \in Nat /\ quantity[b] \in Nat
  BY ItemMapType DEF TypeOK, Reservation, Items
<1>. QED BY <1>1, <1>2 DEF ReservedWithinStock

(***************************************************************************)
(* Returns                                                                 *)
(***************************************************************************)

\* A book that a reservation names has an inventory row.
ReservedAreListed ==
    \A o \in Orders, b \in Books : Items(o)[b] > 0 => listing[b] # "absent"

\* A book that was ever known stays known.
LEMMA ListedStays ==
    ASSUME TypeOK, [Next]_vars, NEW b \in Books, listing[b] # "absent"
    PROVE  listing'[b] # "absent"
<1>1. ASSUME NEW c \in Books, NEW active \in BOOLEAN, SyncBook(c, active)
      PROVE  listing'[b] # "absent"
  BY <1>1 DEF SyncBook, TypeOK
<1>2. CASE UNCHANGED listing
  BY <1>2
<1>. QED BY <1>1, <1>2
        DEF Next, vars, Receive, WriteOff, Adjust, CreateReservation, TtlElapses,
            ConfirmReservation, CancelReservation, StartExpiry, ExpireNext,
            ExpiryDies, CreateStockReturn

\* Only known books are ever reserved.
LEMMA ReservedAreListedInv == Spec => []ReservedAreListed
<1>1. Init => ReservedAreListed
  BY DEF Init, ReservedAreListed, Items, NoReservation, NoItems
<1>2. TypeOK /\ ReservedAreListed /\ [Next]_vars => ReservedAreListed'
  <2>. SUFFICES ASSUME TypeOK, ReservedAreListed, [Next]_vars,
                       NEW r \in Orders, NEW b \in Books, Items(r)'[b] > 0
                PROVE  listing'[b] # "absent"
    BY DEF ReservedAreListed
  <2>1. CASE Items(r)' = Items(r)
    BY <2>1, ListedStays DEF ReservedAreListed
  <2>2. ASSUME NEW o \in Orders, NEW p \in Payloads, NEW k \in Keys \cup {NoKey},
               CreateReservation(o, p, k)
        PROVE  listing'[b] # "absent"
    <3>1. CASE r # o
      BY <2>1, <2>2, <3>1 DEF CreateReservation, Items, TypeOK
    <3>2. CASE r = o
      <4>1. Items(r)' = p
        BY <2>2, <3>2 DEF CreateReservation, Items, TypeOK
      <4>. QED BY <2>2, <4>1, FreshlyMade DEF Sufficient, CreateReservation
    <3>. QED BY <3>1, <3>2
  <2>3. ASSUME NEW o \in Orders, TtlElapses(o)
        PROVE  Items(r)' = Items(r)
    BY <2>3 DEF TtlElapses, Items, TypeOK, Reservation
  <2>4. ASSUME NEW o \in Orders, NEW s \in FinalStatuses, Settled(o, s)
        PROVE  Items(r)' = Items(r)
    BY <2>4 DEF Settled, Items, TypeOK, Reservation
  <2>5. CASE UNCHANGED <<reservations, reserved, created>>
    BY <2>1, <2>5 DEF Items
  <2>. QED BY <2>1, <2>2, <2>3, <2>4, <2>5, ReservationSteps DEF ReservationStep
<1>. QED BY <1>1, <1>2, TypeCorrect, PTL DEF Spec

\* Only a stock return changes what was returned.
LEMMA ReturnedSteps ==
    ASSUME [Next]_vars
    PROVE  \/ UNCHANGED returned
           \/ \E o \in Orders, p \in Payloads, reason \in Reasons, k \in Keys \cup {NoKey} :
                 CreateStockReturn(o, p, reason, k)
  BY DEF Next, vars, returns, SyncBook, Receive, WriteOff, Adjust, CreateReservation,
         TtlElapses, ConfirmReservation, CancelReservation, StartExpiry, ExpireNext,
         ExpiryDies

\* No order gets more units of a book back than its confirmed reservation sold.
THEOREM ReturnsStayWithinSales == Spec => []ReturnedWithinSold
<1>1. Init => ReturnedWithinSold
  BY DEF Init, ReturnedWithinSold, NoReservation, NoItems
<1>2. TypeOK /\ ReturnedWithinSold /\ [Next]_vars => ReturnedWithinSold'
  <2>. SUFFICES ASSUME TypeOK, ReturnedWithinSold, [Next]_vars,
                       NEW r \in Orders, NEW b \in Books
                PROVE  returned'[r][b] <= IF reservations'[r].status = "CONFIRMED"
                                            THEN Items(r)'[b] ELSE 0
    BY DEF ReturnedWithinSold
  <2>1. \/ reservations[r].status = "CONFIRMED" /\ reservations'[r] = reservations[r]
        \/ reservations[r].status # "CONFIRMED" /\ Items(r)'[b] \in Nat
    <3>2. Items(r)' \in ItemMaps
      BY TypeStep DEF TypeOK, Reservation, Items
    <3>3. Items(r)'[b] \in Nat
      BY <3>2, ItemMapType
    <3>4. reservations[r].status = "CONFIRMED" => reservations'[r] = reservations[r]
      <4>1. ASSUME NEW o \in Orders, NEW p \in Payloads, NEW k \in Keys \cup {NoKey},
                   CreateReservation(o, p, k), reservations[r].status = "CONFIRMED"
            PROVE  reservations'[r] = reservations[r]
        BY <4>1, FreshlyMade DEF CreateReservation, TypeOK, Exists
      <4>2. ASSUME NEW o \in Orders, TtlElapses(o), reservations[r].status = "CONFIRMED"
            PROVE  reservations'[r] = reservations[r]
        BY <4>2 DEF TtlElapses, TypeOK
      <4>3. ASSUME NEW o \in Orders, NEW s \in FinalStatuses, Settled(o, s),
                   reservations[r].status = "CONFIRMED"
            PROVE  reservations'[r] = reservations[r]
        BY <4>3 DEF Settled, TypeOK
      <4>. QED BY <4>1, <4>2, <4>3, ReservationSteps DEF ReservationStep
    <3>. QED BY <3>3, <3>4
  <2>2. returned[r][b] \in Nat /\ Items(r)[b] \in Nat
    BY ItemMapType DEF TypeOK, Reservation, Items
  <2>3. returned[r][b] <= IF reservations[r].status = "CONFIRMED"
                            THEN Items(r)[b] ELSE 0
    BY DEF ReturnedWithinSold
  <2>4. CASE UNCHANGED returned
    BY <2>1, <2>2, <2>3, <2>4 DEF Items
  <2>5. ASSUME NEW o \in Orders, NEW p \in Payloads, NEW reason \in Reasons,
               NEW k \in Keys \cup {NoKey}, CreateStockReturn(o, p, reason, k)
        PROVE  returned'[r][b] <= IF reservations'[r].status = "CONFIRMED"
                                    THEN Items(r)'[b] ELSE 0
    <3>1. UNCHANGED reservations
      BY <2>5 DEF CreateStockReturn
    <3>2. reservations[o].status = "CONFIRMED" /\ Returnable(o, p)
      BY <2>5 DEF CreateStockReturn, ReturnOutcome
    <3>3. CASE r # o
      BY <2>3, <2>5, <3>1, <3>3 DEF CreateStockReturn, TypeOK, Items
    <3>4. CASE r = o
      <4>1. returned'[r][b] = returned[r][b] + p[b]
        BY <2>5, <3>4 DEF CreateStockReturn, TypeOK
      <4>2. p[b] \in Nat /\ p[b] <= Items(r)[b] - returned[r][b]
        BY <3>2, <3>4, ItemMapType DEF Returnable, Payloads
      <4>. QED BY <2>2, <3>1, <3>2, <3>4, <4>1, <4>2 DEF Items
    <3>. QED BY <3>3, <3>4
  <2>. QED BY <2>4, <2>5, ReturnedSteps
<1>. QED BY <1>1, <1>2, TypeCorrect, PTL DEF Spec

\* The branches of confirm, cancel, release and return that report inconsistent
\* stock are never taken: a pending reservation is always covered by both
\* counters, and a returned book always has an inventory row.
THEOREM DefensiveBranchesAreDead == Spec => []NeverInconsistent
<1>1. TypeOK /\ ReservedWithinStock /\ ReservedIsHeld /\ ReservedAreListed
        => NeverInconsistent
  <2>. SUFFICES ASSUME TypeOK, ReservedWithinStock, ReservedIsHeld,
                       ReservedAreListed, NEW o \in Orders
                PROVE  /\ ConfirmOutcome(o) # "inconsistent"
                       /\ CancelOutcome(o) # "inconsistent"
                       /\ \A p \in Payloads, reason \in Reasons, k \in Keys \cup {NoKey} :
                             ReturnOutcome(o, p, reason, k) # "inventory_not_found"
    BY DEF NeverInconsistent
  <2>1. reservations[o].status \in Statuses /\ reservations[o].due \in BOOLEAN
    BY DEF TypeOK, Reservation
  <2>2. ConfirmOutcome(o) # "inconsistent"
    BY <2>1, PendingIsCovered DEF ConfirmOutcome, Statuses
  <2>3. CancelOutcome(o) # "inconsistent"
    BY <2>1, PendingIsCovered DEF CancelOutcome, Statuses
  <2>4. ASSUME NEW p \in Payloads, NEW reason \in Reasons, NEW k \in Keys \cup {NoKey},
               Returnable(o, p), NEW b \in Books, p[b] > 0
        PROVE  listing[b] # "absent"
    <3>1. p[b] \in Nat /\ returned[o][b] \in Nat /\ Items(o)[b] \in Nat
      BY ItemMapType DEF Payloads, TypeOK, Reservation, Items
    <3>2. Items(o)[b] > 0
      BY <2>4, <3>1 DEF Returnable
    <3>. QED BY <3>2 DEF ReservedAreListed
  <2>5. ASSUME NEW p \in Payloads, NEW reason \in Reasons, NEW k \in Keys \cup {NoKey}
        PROVE  ReturnOutcome(o, p, reason, k) # "inventory_not_found"
    BY <2>4 DEF ReturnOutcome
  <2>. QED BY <2>2, <2>3, <2>5
<1>. QED BY <1>1, TypeCorrect, ReservedUnitsAreOnTheShelf, ReservedIsHeldInv,
            ReservedAreListedInv, PTL

\* No step takes units that another order's pending reservation counts on.
THEOREM PendingUnitsAreKept == Spec => OthersKeepTheirUnits
<1>. DEFINE Covered == \A o \in Orders : reservations[o].status = "PENDING" =>
                          \A b \in Books : reserved[b] >= Items(o)[b]
                                             /\ quantity[b] >= Items(o)[b]
            Kept == \A o \in Orders :
                       reservations[o].status = "PENDING"
                         /\ reservations'[o] = reservations[o]
                       => \A b \in Books : reserved'[b] >= Items(o)[b]
                                             /\ quantity'[b] >= Items(o)[b]
<1>1. TypeOK /\ ReservedWithinStock /\ ReservedIsHeld => Covered
  <2>. SUFFICES ASSUME TypeOK, ReservedWithinStock, ReservedIsHeld,
                       NEW o \in Orders, reservations[o].status = "PENDING",
                       NEW b \in Books
                PROVE  reserved[b] >= Items(o)[b] /\ quantity[b] >= Items(o)[b]
    OBVIOUS
  <2>1. Items(o)[b] <= reserved[b] /\ Items(o)[b] <= quantity[b]
    BY PendingIsCovered DEF Releasable, Sellable
  <2>2. Items(o)[b] \in Nat /\ reserved[b] \in Nat /\ quantity[b] \in Nat
    BY ItemMapType DEF TypeOK, Reservation, Items
  <2>. QED BY <2>1, <2>2
<1>2. Covered' => [Kept]_vars
  BY DEF Items
<1>. QED BY <1>1, <1>2, TypeCorrect, ReservedUnitsAreOnTheShelf,
            ReservedIsHeldInv, PTL DEF OthersKeepTheirUnits

(***************************************************************************)
(* The ledger and the orders                                               *)
(***************************************************************************)

\* What each order's keyed returns are, and how many units of b they took back.
Keyed(o) == {k \in Keys : stockReturns[k] # NoReturn /\ stockReturns[k].order = o}
KeyedUnits(o, b) == [k \in Keyed(o) |-> stockReturns[k].items[b]]
ReturnedOf(b) == [o \in Orders |-> returned[o][b]]

SalesAreOrders ==
    \A b \in Books :
       movements[b]["sale"] = -SumFunctionOnSet(UnitsIf("CONFIRMED", b), Orders)
ReturnsAreOrders ==
    \A b \in Books : movements[b]["return"] = SumFunctionOnSet(ReturnedOf(b), Orders)
KeyedAreReturned ==
    \A o \in Orders :
       /\ IsFiniteSet(Keyed(o))
       /\ \A b \in Books :
             SumFunctionOnSet(KeyedUnits(o, b), Keyed(o)) <= returned[o][b]

\* What a step does to the sales and the returns: nothing, a sale, or a return.
NoSaleNorReturn ==
    /\ \A b \in Books : /\ movements'[b]["sale"] = movements[b]["sale"]
                        /\ movements'[b]["return"] = movements[b]["return"]
    /\ \A o \in Orders : reservations[o].status = "CONFIRMED"
                            => reservations'[o] = reservations[o]
    /\ \A o \in Orders : reservations'[o].status = "CONFIRMED"
                            => reservations[o].status = "CONFIRMED"
    /\ UNCHANGED returns
Sale(o) ==
    /\ reservations[o].status = "PENDING"
    /\ reservations' = [reservations EXCEPT ![o].status = "CONFIRMED"]
    /\ \A b \in Books : /\ movements'[b]["sale"] = movements[b]["sale"] - Items(o)[b]
                        /\ movements'[b]["return"] = movements[b]["return"]
    /\ UNCHANGED returns

\* Posting under one type leaves the others.
LEMMA PostedEntry ==
    ASSUME TypeOK, NEW t \in MovementTypes, NEW delta, NEW b \in Books,
           NEW u \in MovementTypes
    PROVE  Posted(t, delta)[b][u] = IF u = t THEN movements[b][u] + delta[b]
                                    ELSE movements[b][u]
  BY DEF TypeOK, Posted

\* A release is neither.
LEMMA ReleaseEffect ==
    ASSUME TypeOK, NEW o \in Orders, NEW s \in {"CANCELLED", "EXPIRED"},
           reservations[o].status = "PENDING", Release(o, s), UNCHANGED returns
    PROVE  NoSaleNorReturn
<1>1. movements' = Posted("reservation_release", Items(o))
      /\ reservations' = [reservations EXCEPT ![o].status = s]
  BY DEF Release
<1>2. \A b \in Books : /\ movements'[b]["sale"] = movements[b]["sale"]
                       /\ movements'[b]["return"] = movements[b]["return"]
  BY <1>1, PostedEntry DEF MovementTypes
<1>3. reservations'[o].status = s /\ \A r \in Orders \ {o} : reservations'[r] = reservations[r]
  BY <1>1 DEF TypeOK, Reservation
<1>. QED BY <1>2, <1>3 DEF NoSaleNorReturn

LEMMA SalesSteps ==
    ASSUME TypeOK, [Next]_vars
    PROVE  \/ NoSaleNorReturn
           \/ \E o \in Orders : Sale(o)
           \/ \E o \in Orders, p \in Payloads, reason \in Reasons, k \in Keys \cup {NoKey} :
                 CreateStockReturn(o, p, reason, k)
<1>type. "sale" \in MovementTypes /\ "return" \in MovementTypes
  BY DEF MovementTypes
<1>1. ASSUME UNCHANGED <<movements, reservations, returns>> PROVE NoSaleNorReturn
  BY <1>1 DEF NoSaleNorReturn
<1>2. ASSUME UNCHANGED <<reservations, returns>>,
             NEW t \in {"receipt", "write_off", "adjustment"}, NEW delta,
             movements' = Posted(t, delta)
      PROVE  NoSaleNorReturn
  <2>1. t \in MovementTypes /\ t # "sale" /\ t # "return"
    BY DEF MovementTypes
  <2>. QED BY <1>2, <1>type, <2>1, PostedEntry DEF NoSaleNorReturn
<1>3. ASSUME NEW o \in Orders, NEW p \in Payloads, NEW k \in Keys \cup {NoKey},
             CreateReservation(o, p, k)
      PROVE  NoSaleNorReturn
  <2>1. ~Exists(o) /\ UNCHANGED returns
    BY <1>3, FreshlyMade DEF CreateReservation
  <2>2. \A b \in Books : /\ movements'[b]["sale"] = movements[b]["sale"]
                         /\ movements'[b]["return"] = movements[b]["return"]
    BY <1>3, PostedEntry DEF CreateReservation, MovementTypes
  <2>3. reservations'[o].status = "PENDING"
        /\ \A r \in Orders \ {o} : reservations'[r] = reservations[r]
    BY <1>3 DEF CreateReservation, TypeOK
  <2>. QED BY <2>1, <2>2, <2>3 DEF NoSaleNorReturn, Exists
<1>4. ASSUME NEW o \in Orders, TtlElapses(o) PROVE NoSaleNorReturn
  BY <1>4 DEF TtlElapses, NoSaleNorReturn, stock, TypeOK, Reservation
<1>5. ASSUME NEW o \in Orders, ConfirmReservation(o)
      PROVE  NoSaleNorReturn \/ Sale(o)
  <2>1. CASE ConfirmOutcome(o) = "sold" /\ Sell(o)
    <3>1. reservations[o].status = "PENDING"
      BY <2>1 DEF ConfirmOutcome, TypeOK, Reservation, Statuses
    <3>2. movements' = Posted("sale", [b \in Books |-> -Items(o)[b]])
          /\ reservations' = [reservations EXCEPT ![o].status = "CONFIRMED"]
      BY <2>1 DEF Sell
    <3>3. \A b \in Books : movements[b]["sale"] \in Int /\ Items(o)[b] \in Int
      BY <1>type, ItemMapType DEF TypeOK, Reservation, Items
    <3>4. ASSUME NEW b \in Books
          PROVE  /\ movements'[b]["sale"] = movements[b]["sale"] - Items(o)[b]
                 /\ movements'[b]["return"] = movements[b]["return"]
      BY <1>type, <3>2, <3>3, PostedEntry
    <3>. QED BY <1>5, <3>1, <3>2, <3>4 DEF Sale, ConfirmReservation
  <2>2. CASE ConfirmOutcome(o) = "expired" /\ Release(o, "EXPIRED")
    <3>1. reservations[o].status = "PENDING"
      BY <2>2 DEF ConfirmOutcome, TypeOK, Reservation, Statuses
    <3>. QED BY <1>5, <2>2, <3>1, ReleaseEffect DEF ConfirmReservation
  <2>. QED BY <1>5, <2>1, <2>2 DEF ConfirmReservation
<1>6. ASSUME NEW o \in Orders, NEW s \in {"CANCELLED", "EXPIRED"},
             CancelOutcome(o) = "released", Release(o, s), UNCHANGED returns
      PROVE  NoSaleNorReturn
  <2>1. reservations[o].status = "PENDING"
    BY <1>6 DEF CancelOutcome, TypeOK, Reservation, Statuses
  <2>. QED BY <1>6, <2>1, ReleaseEffect
<1>7. ASSUME NEW w \in Workers, NEW o \in Orders, ExpireNext(w, o)
      PROVE  NoSaleNorReturn
  BY <1>1, <1>6, <1>7 DEF ExpireNext, returns, stock
<1>8. ASSUME NEW o \in Orders, CancelReservation(o) PROVE NoSaleNorReturn
  BY <1>6, <1>8 DEF CancelReservation
<1>9. ASSUME NEW b \in Books, NEW n, Receive(b, n) \/ WriteOff(b, n) \/ Adjust(b, n)
      PROVE  NoSaleNorReturn
  BY <1>2, <1>9 DEF Receive, WriteOff, Adjust
<1>10. ASSUME \/ \E b \in Books : \E active \in BOOLEAN : SyncBook(b, active)
              \/ \E w \in Workers : StartExpiry(w)
              \/ \E w \in Workers : ExpiryDies(w)
              \/ UNCHANGED vars
       PROVE  NoSaleNorReturn
  BY <1>1, <1>10 DEF SyncBook, StartExpiry, ExpiryDies, vars, stock, returns
<1>. QED BY <1>3, <1>4, <1>5, <1>7, <1>8, <1>9, <1>10 DEF Next

\* What a table of reservations sells is made of natural numbers.
LEMMA UnitsIfType ==
    ASSUME TypeOK, NEW s, NEW b \in Books
    PROVE  \A o \in Orders : UnitsIf(s, b)[o] \in Nat
  BY ItemMapType DEF TypeOK, Reservation, Items, UnitsIf

LEMMA UnitsIfTypeAfter ==
    ASSUME TypeOK', NEW s, NEW b \in Books
    PROVE  \A o \in Orders : UnitsIf(s, b)'[o] \in Nat
<1>1. \A o \in Orders : Items(o)' \in ItemMaps
  BY DEF TypeOK, Reservation, Items
<1>2. \A o \in Orders : Items(o)'[b] \in Nat
  BY <1>1, ItemMapType
<1>. QED BY <1>2 DEF UnitsIf

\* A sale adds one order's units to what the confirmed orders hold.
LEMMA SaleReconciles ==
    ASSUME TypeOK, TypeOK', SalesAreOrders, NEW o \in Orders, Sale(o)
    PROVE  SalesAreOrders'
<1>. SUFFICES ASSUME NEW b \in Books
              PROVE  movements'[b]["sale"]
                       = -SumFunctionOnSet(UnitsIf("CONFIRMED", b)', Orders)
  BY DEF SalesAreOrders
<1>1. PICK f : f = UnitsIf("CONFIRMED", b)
  OBVIOUS
<1>2. PICK g : g = UnitsIf("CONFIRMED", b)'
  OBVIOUS
<1>3. reservations'[o] = [reservations[o] EXCEPT !.status = "CONFIRMED"]
      /\ \A r \in Orders \ {o} : reservations'[r] = reservations[r]
  BY DEF Sale, TypeOK
<1>4. f[o] = 0 /\ g[o] = Items(o)[b] /\ \A r \in Orders \ {o} : f[r] = g[r]
  BY <1>1, <1>2, <1>3 DEF UnitsIf, Sale, Items, TypeOK, Reservation
<1>5. \A r \in Orders : f[r] \in Int /\ g[r] \in Int
  BY <1>1, <1>2, UnitsIfType, UnitsIfTypeAfter
<1>6. SumFunctionOnSet(g, Orders) = SumFunctionOnSet(f, Orders) - f[o] + g[o]
  BY <1>4, <1>5, SumOfChange, WarehouseAssumption
<1>7. SumFunctionOnSet(f, Orders) \in Int
  BY <1>5, SumType, WarehouseAssumption
<1>8. movements[b]["sale"] = -SumFunctionOnSet(f, Orders)
  BY <1>1 DEF SalesAreOrders
<1>9. movements'[b]["sale"] = movements[b]["sale"] - Items(o)[b]
  BY DEF Sale
<1>10. Items(o)[b] \in Int
  BY ItemMapType DEF TypeOK, Reservation, Items
<1>11. movements'[b]["sale"] = -SumFunctionOnSet(g, Orders)
  BY <1>4, <1>6, <1>7, <1>8, <1>9, <1>10
<1>. QED BY <1>2, <1>11

\* What a return writes, for every order and key.
LEMMA ReturnEffect ==
    ASSUME TypeOK, NEW o \in Orders, NEW p \in Payloads, NEW reason \in Reasons,
           NEW k \in Keys \cup {NoKey}, CreateStockReturn(o, p, reason, k)
    PROVE  /\ reservations' = reservations
           /\ \A b \in Books : /\ movements'[b]["return"] = movements[b]["return"] + p[b]
                               /\ movements'[b]["sale"] = movements[b]["sale"]
           /\ \A r \in Orders, b \in Books :
                 returned'[r][b] = IF r = o THEN returned[r][b] + p[b] ELSE returned[r][b]
           /\ k = NoKey => stockReturns' = stockReturns
           /\ k # NoKey => /\ k \in Keys /\ stockReturns[k] = NoReturn
                           /\ stockReturns'[k] # NoReturn /\ stockReturns'[k].order = o
                           /\ stockReturns'[k].items = p
                           /\ \A j \in Keys \ {k} : stockReturns'[j] = stockReturns[j]
<1>1. /\ ReturnOutcome(o, p, reason, k) = "created"
      /\ movements' = Posted("return", p) /\ reservations' = reservations
      /\ returned' = [returned EXCEPT ![o] = [b \in Books |-> @[b] + p[b]]]
      /\ stockReturns' =
           IF k = NoKey THEN stockReturns
           ELSE [stockReturns EXCEPT ![k] =
                   [order |-> o, items |-> p, reason |-> reason]]
  BY DEF CreateStockReturn
<1>2. k # NoKey => stockReturns[k] = NoReturn
  BY <1>1 DEF ReturnOutcome
<1>3. [order |-> o, items |-> p, reason |-> reason] # NoReturn
  BY WarehouseAssumption DEF Payloads, ItemMaps
<1>4. \A b \in Books : /\ movements'[b]["return"] = movements[b]["return"] + p[b]
                       /\ movements'[b]["sale"] = movements[b]["sale"]
  BY <1>1, PostedEntry DEF MovementTypes
<1>5. \A r \in Orders, b \in Books :
         returned'[r][b] = IF r = o THEN returned[r][b] + p[b] ELSE returned[r][b]
  BY <1>1 DEF TypeOK
<1>6. k # NoKey => /\ k \in Keys
                   /\ stockReturns'[k] = [order |-> o, items |-> p, reason |-> reason]
                   /\ \A j \in Keys \ {k} : stockReturns'[j] = stockReturns[j]
  BY <1>1 DEF TypeOK
<1>. QED BY <1>1, <1>2, <1>3, <1>4, <1>5, <1>6

\* A return adds its units to what its order gave back.
LEMMA ReturnReconciles ==
    ASSUME TypeOK, TypeOK', ReturnsAreOrders, NEW o \in Orders, NEW p \in Payloads,
           NEW reason \in Reasons, NEW k \in Keys \cup {NoKey},
           CreateStockReturn(o, p, reason, k)
    PROVE  ReturnsAreOrders'
<1>. SUFFICES ASSUME NEW b \in Books
              PROVE  movements'[b]["return"] = SumFunctionOnSet(ReturnedOf(b)', Orders)
  BY DEF ReturnsAreOrders
<1>1. PICK f : f = ReturnedOf(b)
  OBVIOUS
<1>2. PICK g : g = ReturnedOf(b)'
  OBVIOUS
<1>3. p[b] \in Int /\ \A r \in Orders : returned[r][b] \in Int /\ returned'[r][b] \in Int
  BY ItemMapType DEF Payloads, TypeOK
<1>4. /\ g[o] = f[o] + p[b] /\ \A r \in Orders \ {o} : f[r] = g[r]
      /\ \A r \in Orders : f[r] \in Int /\ g[r] \in Int
  BY <1>1, <1>2, <1>3, ReturnEffect DEF ReturnedOf
<1>5. SumFunctionOnSet(g, Orders) = SumFunctionOnSet(f, Orders) - f[o] + g[o]
  BY <1>4, SumOfChange, WarehouseAssumption
<1>6. SumFunctionOnSet(f, Orders) \in Int
  BY <1>4, SumType, WarehouseAssumption
<1>7. movements[b]["return"] = SumFunctionOnSet(f, Orders)
  BY <1>1 DEF ReturnsAreOrders
<1>8. movements'[b]["return"] = movements[b]["return"] + p[b]
  BY ReturnEffect
<1>9. movements'[b]["return"] = SumFunctionOnSet(g, Orders)
  BY <1>3, <1>4, <1>5, <1>6, <1>7, <1>8
<1>. QED BY <1>2, <1>9

\* A keyed return counts once, among its order's returns.
LEMMA KeyedReturnCounts ==
    ASSUME TypeOK, TypeOK', KeyedAreReturned, NEW o \in Orders, NEW p \in Payloads,
           NEW reason \in Reasons, NEW k \in Keys \cup {NoKey},
           CreateStockReturn(o, p, reason, k)
    PROVE  KeyedAreReturned'
<1>. SUFFICES ASSUME NEW r \in Orders
              PROVE  /\ IsFiniteSet(Keyed(r)')
                     /\ \A b \in Books :
                           SumFunctionOnSet(KeyedUnits(r, b)', Keyed(r)') <= returned'[r][b]
  BY DEF KeyedAreReturned
<1>1. IsFiniteSet(Keyed(r))
      /\ \A b \in Books : SumFunctionOnSet(KeyedUnits(r, b), Keyed(r)) <= returned[r][b]
  BY DEF KeyedAreReturned
<1>2. \A b \in Books : p[b] \in Nat /\ returned[r][b] \in Int /\ returned'[r][b] \in Int
  BY ItemMapType DEF Payloads, TypeOK
<1>3. ASSUME NEW b \in Books
      PROVE  /\ \A j \in Keyed(r) : stockReturns[j].items[b] \in Int
             /\ SumFunctionOnSet(KeyedUnits(r, b), Keyed(r)) \in Int
  <2>1. \A j \in Keyed(r) : stockReturns[j].items \in ItemMaps
    BY DEF TypeOK, Keyed, StockReturn
  <2>2. \A j \in Keyed(r) : stockReturns[j].items[b] \in Int
    BY <2>1, ItemMapType
  <2>3. \A j \in Keyed(r) : KeyedUnits(r, b)[j] \in Int
    BY <2>2 DEF KeyedUnits
  <2>. QED BY <1>1, <2>2, <2>3, SumType
<1>4. CASE k = NoKey \/ r # o
  <2>1. Keyed(r)' = Keyed(r)
    BY <1>4, ReturnEffect DEF Keyed
  <2>2. \A b \in Books : KeyedUnits(r, b)' = KeyedUnits(r, b)
    BY <1>4, <2>1, ReturnEffect DEF KeyedUnits, Keyed
  <2>3. \A b \in Books : returned[r][b] <= returned'[r][b]
    BY <1>2, ReturnEffect
  <2>. QED BY <1>1, <1>2, <1>3, <2>1, <2>2, <2>3
<1>5. CASE k # NoKey /\ r = o
  <2>1. Keyed(r)' = Keyed(r) \cup {k} /\ k \notin Keyed(r)
    BY <1>5, ReturnEffect DEF Keyed
  <2>2. IsFiniteSet(Keyed(r)')
    BY <1>1, <2>1, FS_AddElement
  <2>3. ASSUME NEW b \in Books
        PROVE  SumFunctionOnSet(KeyedUnits(r, b)', Keyed(r)') <= returned'[r][b]
    <3>1. PICK f : f = KeyedUnits(r, b)
      OBVIOUS
    <3>2. PICK g : g = KeyedUnits(r, b)'
      OBVIOUS
    <3>3. g[k] = p[b] /\ \A j \in Keyed(r) : g[j] = f[j] /\ f[j] \in Int
      <4>1. g = [j \in Keyed(r) \cup {k} |-> stockReturns'[j].items[b]]
        BY <2>1, <3>2 DEF KeyedUnits
      <4>2. f = [j \in Keyed(r) |-> stockReturns[j].items[b]]
        BY <3>1 DEF KeyedUnits
      <4>3. stockReturns'[k].items = p
            /\ \A j \in Keys \ {k} : stockReturns'[j] = stockReturns[j]
        BY <1>5, ReturnEffect
      <4>4. Keyed(r) \subseteq Keys \ {k}
        BY <2>1 DEF Keyed
      <4>5. g[k] = p[b]
        BY <4>1, <4>3
      <4>6. \A j \in Keyed(r) : g[j] = f[j]
        BY <4>1, <4>2, <4>3, <4>4
      <4>7. \A j \in Keyed(r) : f[j] \in Int
        BY <1>3, <4>2
      <4>. QED BY <4>5, <4>6, <4>7
    <3>4. SumFunctionOnSet(f, Keyed(r)) = SumFunctionOnSet(g, Keyed(r))
      BY <1>1, <3>3, SumOfSame
    <3>5. \A j \in Keyed(r) \cup {k} : g[j] \in Int
      BY <1>2, <3>3
    <3>6. SumFunctionOnSet(g, Keyed(r) \cup {k}) = SumFunctionOnSet(g, Keyed(r)) + g[k]
      BY <1>1, <2>1, <3>5, SumWith
    <3>7. SumFunctionOnSet(f, Keyed(r)) <= returned[r][b]
          /\ SumFunctionOnSet(f, Keyed(r)) \in Int
      BY <1>1, <1>3, <3>1
    <3>8. returned'[r][b] = returned[r][b] + p[b]
      BY <1>5, ReturnEffect
    <3>9. SumFunctionOnSet(g, Keyed(r) \cup {k}) <= returned'[r][b]
      BY <1>2, <3>3, <3>4, <3>6, <3>7, <3>8
    <3>. QED BY <2>1, <3>2, <3>9
  <2>. QED BY <2>2, <2>3
<1>. QED BY <1>4, <1>5

\* The three, step by step.
LEMMA OrdersReconcile ==
    Spec => [](SalesAreOrders /\ ReturnsAreOrders /\ KeyedAreReturned)
<1>1. Init => SalesAreOrders /\ ReturnsAreOrders /\ KeyedAreReturned
  <2>. SUFFICES ASSUME Init PROVE SalesAreOrders /\ ReturnsAreOrders /\ KeyedAreReturned
    OBVIOUS
  <2>1. ASSUME NEW f, \A o \in Orders : f[o] = 0
        PROVE  SumFunctionOnSet(f, Orders) = 0
    <3>1. SumFunctionOnSet(f, {}) = SumFunctionOnSet(f, Orders)
      BY <2>1, SumOfSupport, WarehouseAssumption
    <3>. QED BY <3>1, SumOfNone
  <2>2. ASSUME NEW b \in Books
        PROVE  /\ \A o \in Orders : UnitsIf("CONFIRMED", b)[o] = 0 /\ ReturnedOf(b)[o] = 0
               /\ movements[b]["sale"] = 0 /\ movements[b]["return"] = 0
    BY DEF Init, UnitsIf, ReturnedOf, NoReservation, NoItems, MovementTypes
  <2>3. SalesAreOrders /\ ReturnsAreOrders
    BY <2>1, <2>2 DEF SalesAreOrders, ReturnsAreOrders
  <2>4. \A o \in Orders : Keyed(o) = {}
    BY DEF Init, Keyed
  <2>5. \A o \in Orders, b \in Books : returned[o][b] = 0
    BY DEF Init, NoItems
  <2>6. KeyedAreReturned
    BY <2>4, <2>5, SumOfNone, FS_EmptySet DEF KeyedAreReturned
  <2>. QED BY <2>3, <2>6
<1>2. TypeOK /\ TypeOK' /\ SalesAreOrders /\ ReturnsAreOrders /\ KeyedAreReturned
        /\ [Next]_vars => SalesAreOrders' /\ ReturnsAreOrders' /\ KeyedAreReturned'
  <2>. SUFFICES ASSUME TypeOK, TypeOK', SalesAreOrders, ReturnsAreOrders,
                       KeyedAreReturned, [Next]_vars
                PROVE  SalesAreOrders' /\ ReturnsAreOrders' /\ KeyedAreReturned'
    OBVIOUS
  <2>1. ASSUME UNCHANGED returns,
               \A b \in Books : movements'[b]["return"] = movements[b]["return"]
        PROVE  ReturnsAreOrders' /\ KeyedAreReturned'
    BY <2>1 DEF returns, ReturnsAreOrders, KeyedAreReturned, ReturnedOf, Keyed, KeyedUnits
  <2>2. CASE NoSaleNorReturn
    <3>1. \A b \in Books : UnitsIf("CONFIRMED", b)' = UnitsIf("CONFIRMED", b)
      BY <2>2 DEF NoSaleNorReturn, UnitsIf, Items
    <3>2. SalesAreOrders'
      BY <2>2, <3>1 DEF NoSaleNorReturn, SalesAreOrders
    <3>. QED BY <2>1, <2>2, <3>2 DEF NoSaleNorReturn
  <2>3. ASSUME NEW o \in Orders, Sale(o)
        PROVE  SalesAreOrders' /\ ReturnsAreOrders' /\ KeyedAreReturned'
    BY <2>1, <2>3, SaleReconciles DEF Sale
  <2>4. ASSUME NEW o \in Orders, NEW p \in Payloads, NEW reason \in Reasons,
               NEW k \in Keys \cup {NoKey}, CreateStockReturn(o, p, reason, k)
        PROVE  SalesAreOrders' /\ ReturnsAreOrders' /\ KeyedAreReturned'
    <3>1. SalesAreOrders'
      BY <2>4, ReturnEffect DEF SalesAreOrders, UnitsIf, Items
    <3>. QED BY <2>4, <3>1, ReturnReconciles, KeyedReturnCounts
  <2>. QED BY <2>2, <2>3, <2>4, SalesSteps
<1>. QED BY <1>1, <1>2, TypeCorrect, PTL DEF Spec

\* The ledger's sales are the confirmed orders' units and its returns are what
\* the orders gave back, each keyed return among them once, however often a
\* request is repeated.
THEOREM SalesAndReturnsAreOrders == Spec => []SalesAndReturnsReconcile
<1>1. TypeOK /\ SalesAreOrders /\ ReturnsAreOrders /\ KeyedAreReturned
        => SalesAndReturnsReconcile
  <2>. SUFFICES ASSUME TypeOK, SalesAreOrders, ReturnsAreOrders, KeyedAreReturned
                PROVE  SalesAndReturnsReconcile
    OBVIOUS
  <2>1. \A b \in Books : movements[b]["sale"] =
           -SumFunctionOnSet(UnitsOf(b), WithStatus("CONFIRMED"))
    BY SumOfStatus DEF SalesAreOrders
  <2>2. \A b \in Books : movements[b]["return"] = SumFunctionOnSet(ReturnedOf(b), Orders)
    BY DEF ReturnsAreOrders
  <2>3. \A o \in Orders, b \in Books :
           SumFunctionOnSet(KeyedUnits(o, b), Keyed(o)) <= returned[o][b]
    BY DEF KeyedAreReturned
  <2>. QED BY <2>1, <2>2, <2>3
           DEF SalesAndReturnsReconcile, UnitsOf, WithStatus, ReturnedOf, KeyedUnits, Keyed
<1>. QED BY <1>1, TypeCorrect, OrdersReconcile, PTL

(***************************************************************************)
(* With the admin site: whatever is wrong, forms made it wrong             *)
(*                                                                         *)
(* A form may leave the counters, the ledger and the reservations at odds, *)
(* so none of the relations above holds any more; but the lemmas about a   *)
(* step (StockSteps, LedgerDriftStays, HeldDriftStays) need only typing    *)
(* and the table's CheckConstraint, which the forms keep.                  *)
(***************************************************************************)

AdminInv ==
    /\ TypeOK /\ ReservedWithinStock
    /\ stockForm \in [book : Books, quantity : Nat, reserved : Nat] \cup {NoForm}
    /\ reservationForm \in [order : Orders, status : Statuses] \cup {NoForm}

LEMMA AdminInit_AdminInv == AdminInit => AdminInv
BY TypeInit DEF AdminInit, AdminInv, Init, ReservedWithinStock

\* Saving an inventory form keeps the counters natural and within each other.
LEMMA StockFormKeeps ==
    ASSUME AdminInv, NEW q, NEW r, SaveStockForm(q, r)
    PROVE  AdminInv'
<1>1. PICK form \in [book : Books, quantity : Nat, reserved : Nat] : form = stockForm
  BY DEF AdminInv, SaveStockForm
<1>2. q \in Nat /\ r \in Nat /\ r <= q /\ form.book \in Books
  BY <1>1, AdminAssumption DEF SaveStockForm, ValidCounters
<1>3. /\ quantity' = [quantity EXCEPT ![form.book] = q]
      /\ reserved' = [reserved EXCEPT ![form.book] = r]
      /\ UNCHANGED <<listing, movements, reservations, created, stockReturns, returned,
                     batches, deaths, reservationForm>> /\ stockForm' = NoForm
  BY <1>1 DEF SaveStockForm, returns, task
<1>4. quantity' \in [Books -> Nat] /\ reserved' \in [Books -> Nat]
  BY <1>2, <1>3 DEF AdminInv, TypeOK
<1>5. TypeOK'
  BY <1>3, <1>4 DEF AdminInv, TypeOK
<1>6. ReservedWithinStock'
  <2>. SUFFICES ASSUME NEW b \in Books PROVE reserved'[b] \in 0..quantity'[b]
    BY DEF ReservedWithinStock
  <2>1. CASE b = form.book
    BY <1>2, <1>3, <2>1 DEF AdminInv, TypeOK
  <2>2. CASE b # form.book
    BY <1>3, <2>2 DEF AdminInv, TypeOK, ReservedWithinStock
  <2>. QED BY <2>1, <2>2
<1>. QED BY <1>3, <1>5, <1>6 DEF AdminInv

\* Saving a reservation form writes a status and a deadline.
LEMMA ReservationFormKeeps ==
    ASSUME AdminInv, NEW status \in Statuses, NEW due \in BOOLEAN,
           SaveReservationForm(status, due)
    PROVE  AdminInv'
<1>1. PICK form \in [order : Orders, status : Statuses] : form = reservationForm
  BY DEF AdminInv, SaveReservationForm
<1>2. PICK o \in Orders : o = form.order
  BY <1>1
<1>3. /\ reservations' = [reservations EXCEPT ![o].status = status, ![o].due = due]
      /\ UNCHANGED <<listing, quantity, reserved, movements, created, stockReturns, returned,
                     batches, deaths, stockForm>> /\ reservationForm' = NoForm
  BY <1>1, <1>2 DEF SaveReservationForm, stock, returns, task
<1>4. PICK old \in Reservation : old = reservations[o]
  BY DEF AdminInv, TypeOK
<1>5. [[old EXCEPT !.status = status] EXCEPT !.due = due] \in Reservation
  BY DEF Reservation
<1>6. reservations' = [reservations EXCEPT ![o] = [[old EXCEPT !.status = status] EXCEPT !.due = due]]
  BY <1>3, <1>4 DEF AdminInv, TypeOK
<1>7. reservations' \in [Orders -> Reservation]
  BY <1>5, <1>6 DEF AdminInv, TypeOK
<1>8. TypeOK' /\ ReservedWithinStock'
  BY <1>3, <1>7 DEF AdminInv, TypeOK, ReservedWithinStock
<1>. QED BY <1>3, <1>8 DEF AdminInv

\* A form that opens shows a row as it is.
LEMMA OpeningKeeps ==
    ASSUME AdminInv,
           \/ \E b \in Books : OpenStockForm(b)
           \/ \E o \in Orders : OpenReservationForm(o)
    PROVE  AdminInv' /\ UNCHANGED vars
<1>1. TypeOK' /\ ReservedWithinStock' /\ UNCHANGED vars
  <2>1. UNCHANGED vars
    BY DEF OpenStockForm, OpenReservationForm
  <2>. QED BY <2>1 DEF AdminInv, TypeOK, ReservedWithinStock, vars, stock, returns, task
<1>2. CASE \E b \in Books : OpenStockForm(b)
  BY <1>1, <1>2 DEF AdminInv, OpenStockForm, TypeOK
<1>3. CASE \E o \in Orders : OpenReservationForm(o)
  <2>1. PICK o \in Orders : OpenReservationForm(o)
    BY <1>3
  <2>2. reservations[o].status \in Statuses
    BY DEF AdminInv, TypeOK, Reservation
  <2>. QED BY <1>1, <2>1, <2>2 DEF AdminInv, OpenReservationForm
<1>. QED BY <1>1, <1>2, <1>3

LEMMA HandlersKeep ==
    ASSUME AdminInv, [Next]_vars, UNCHANGED staff
    PROVE  AdminInv'
BY TypeStep, StockSteps DEF AdminInv, staff

LEMMA AdminKeeps == AdminInv /\ [AdminNext]_adminVars => AdminInv'
<1>. SUFFICES ASSUME AdminInv, [AdminNext]_adminVars PROVE AdminInv'
  OBVIOUS
<1>1. CASE Handlers
  BY <1>1, HandlersKeep DEF Handlers
<1>2. CASE UNCHANGED adminVars
  BY <1>2, HandlersKeep DEF adminVars
<1>3. CASE \E q, r \in 0..(MaxTyped + MaxReceived + MaxAdjusted) : SaveStockForm(q, r)
  BY <1>3, StockFormKeeps
<1>4. CASE \E status \in Statuses \ {"NONE"}, due \in BOOLEAN : SaveReservationForm(status, due)
  BY <1>4, ReservationFormKeeps
<1>5. CASE \/ \E b \in Books : OpenStockForm(b)
           \/ \E o \in Orders : OpenReservationForm(o)
  BY <1>5, OpeningKeeps
<1>. QED BY <1>1, <1>2, <1>3, <1>4, <1>5 DEF AdminNext

LEMMA AdminInvariance == AdminSpec => []AdminInv
BY AdminInit_AdminInv, AdminKeeps, PTL DEF AdminSpec

\* Staff who save old inventory forms over sales and receipts can misstate the
\* stock, but the CheckConstraint keeps what is reserved on the shelf, and no
\* handler fails it afterwards.
THEOREM AdminKeepsReservedOnTheShelf == AdminSpec => []ReservedWithinStock
<1>1. AdminInv => ReservedWithinStock
  BY DEF AdminInv
<1>. QED BY <1>1, AdminInvariance, PTL

\* No handler changes how far the counters are from the ledger or from what is
\* pending.
LEMMA DriftStays ==
    ASSUME AdminInv, AdminInv', [Next]_vars
    PROVE  Drift' = Drift
<1>1. TypeOK /\ TypeOK' /\ ReservedWithinStock
  BY DEF AdminInv
<1>2. \A b \in Books : /\ QuantityDrift(b)' = QuantityDrift(b) /\ ReservedDrift(b)' = ReservedDrift(b)
                       /\ HeldDrift(b)' = HeldDrift(b)
  BY <1>1, LedgerDriftStays, HeldDriftStays
<1>3. \A b \in Books : HeldDrift(b) = reserved[b] - SumFunctionOnSet(UnitsOf(b), WithStatus("PENDING"))
  <2>1. \A b \in Books : HeldOf(b) = UnitsIf("PENDING", b)
    BY DEF HeldOf, Held, UnitsIf
  <2>. QED BY <1>1, <2>1, SumOfStatus DEF HeldDrift
<1>4. \A b \in Books : HeldDrift(b)' = reserved'[b] - SumFunctionOnSet(UnitsOf(b)', WithStatus("PENDING")')
  <2>. SUFFICES ASSUME NEW b \in Books
                PROVE  SumFunctionOnSet(HeldOf(b)', Orders)
                         = SumFunctionOnSet(UnitsOf(b)', WithStatus("PENDING")')
    BY DEF HeldDrift
  <2>1. \A o \in Orders : Items(o)'[b] \in Int
    <3>1. \A o \in Orders : Items(o)' \in ItemMaps
      BY <1>1 DEF TypeOK, Reservation, Items
    <3>. QED BY <3>1, ItemMapType
  <2>2. PICK some, part, all : some = WithStatus("PENDING")' /\ part = HeldOf(b)' /\ all = UnitsOf(b)'
    OBVIOUS
  <2>3. /\ some \in SUBSET Orders /\ \A o \in Orders : all[o] \in Int
        /\ \A o \in Orders : part[o] = IF o \in some THEN all[o] ELSE 0
    BY <2>1, <2>2 DEF WithStatus, HeldOf, Held, UnitsOf
  <2>4. SumFunctionOnSet(all, some) = SumFunctionOnSet(part, Orders)
    BY <2>3, SumOfSome, WarehouseAssumption
  <2>. QED BY <2>2, <2>4
<1>. QED
  BY <1>2, <1>3, <1>4 DEF Drift, QuantityDrift, ReservedDrift, UnitsOf, WithStatus

\* A mistake of staff stays what it was: only saving a form changes how far the
\* counters are from the movements and from what the pending reservations hold;
\* no sale, release, return, receipt or expiry adds to it, hides it or moves it.
THEOREM OnlyFormsCanMisstate == AdminSpec => OnlyFormsMisstate
<1>1. AdminInv /\ AdminInv' /\ [AdminNext]_adminVars =>
        [Drift' # Drift => \/ stockForm # NoForm /\ stockForm' = NoForm
                           \/ reservationForm # NoForm /\ reservationForm' = NoForm]_adminVars
  <2>. SUFFICES ASSUME AdminInv, AdminInv', [AdminNext]_adminVars, Drift' # Drift
                PROVE  \/ stockForm # NoForm /\ stockForm' = NoForm
                       \/ reservationForm # NoForm /\ reservationForm' = NoForm
    OBVIOUS
  <2>1. CASE [Next]_vars
    BY <2>1, DriftStays
  <2>2. CASE Handlers \/ UNCHANGED adminVars
    BY <2>1, <2>2 DEF Handlers, adminVars
  <2>3. CASE \/ \E b \in Books : OpenStockForm(b)
             \/ \E o \in Orders : OpenReservationForm(o)
    BY <2>1, <2>3, OpeningKeeps
  <2>4. CASE \E q, r \in 0..(MaxTyped + MaxReceived + MaxAdjusted) : SaveStockForm(q, r)
    BY <2>4 DEF SaveStockForm
  <2>5. CASE \E status \in Statuses \ {"NONE"}, due \in BOOLEAN : SaveReservationForm(status, due)
    BY <2>5 DEF SaveReservationForm
  <2>. QED BY <2>2, <2>3, <2>4, <2>5 DEF AdminNext
<1>. QED BY <1>1, AdminInvariance, PTL DEF AdminSpec, OnlyFormsMisstate

=============================================================================
