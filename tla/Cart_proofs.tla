----------------------------- MODULE Cart_proofs -----------------------------
(***************************************************************************)
(* Proofs about Cart, for any books, any number of requests at a time and  *)
(* any bounds.                                                             *)
(***************************************************************************)
EXTENDS Cart, Sums, FiniteSetTheorems, TLAPS

(***************************************************************************)
(* Invariants                                                              *)
(***************************************************************************)

\* What a request holds is what its operation needs, and no session that has
\* still to be made.  Its copy is its session's cart as long as it is not stale.
Fit(r) ==
    /\ requests[r].op \in {"add", "remove"} => requests[r].book \in Books
    /\ requests[r].key <= made
    /\ requests[r].key # 0 => requests[r].sent
    /\ requests[r].key = 0 => requests[r].cart = Empty
    /\ requests[r].key # 0 /\ ~requests[r].stale =>
          /\ Alive(requests[r].key)
          /\ requests[r].op \notin {"clear", "logout"} =>
                requests[r].cart = rows[requests[r].key]
Loaded == \A r \in Requests : Active(r) => Fit(r)

NotYetMade == \A k \in SessionKeys : k > made => rows[k] = Gone

\* No cart, saved or copied, holds more of a book than was added, and what is
\* being added keeps to the bounds.
Bounded ==
    \A b \in Books :
       /\ \A k \in SessionKeys : Alive(k) => rows[k][b] <= added[b]
       /\ \A r \in Requests : requests[r].cart[b] <= added[b]
       /\ wanted[b] <= added[b]
       /\ added[b] + Cardinality(Adding(b)) <= MaxAdded
Room == placed + Cardinality(Ordering) <= MaxOrders

\* While nothing excuses the cart, a copy that is not old is the browser's.
OneSession ==
    ~excused =>
       \A r \in Requests :
          Active(r) /\ requests[r].key # 0 /\ ~requests[r].stale => requests[r].key = cookie

TypeInv == TypeOK /\ Bounded /\ Room
SessionInv == Loaded /\ NotYetMade /\ OneSession /\ CartIsWhatWasAsked
Inv == TypeInv /\ SessionInv

(***************************************************************************)
(* What a step does to the requests                                        *)
(***************************************************************************)

\* Request q goes on; if it had loaded session k its copy is old from now on.
Kept(q, k) ==
    /\ requests'[q].at = requests[q].at /\ requests'[q].op = requests[q].op
    /\ requests'[q].book = requests[q].book /\ requests'[q].sent = requests[q].sent
    /\ requests'[q].key = requests[q].key /\ requests'[q].cart = requests[q].cart
    /\ requests'[q].items = requests[q].items
    /\ requests'[q].stale =
          (requests[q].stale \/ (Active(q) /\ k # 0 /\ requests[q].key = k))

\* Request r ends, and session k changes if k is not 0.
Leaves(r, k) == requests'[r] = Idle /\ \A q \in Requests \ {r} : Kept(q, k)

\* A request of no operation: Idle is one, and so is all that a step writes.
LEMMA IdleType == Idle \in Request /\ Empty \in Carts
BY CartAssumption DEF Idle, Request, Operations, Empty, Carts

\* Only the copy's age changes: it stays a request.
LEMMA AgeType ==
    ASSUME NEW q \in Request, NEW s \in BOOLEAN
    PROVE  [q EXCEPT !.stale = s] \in Request /\ [q EXCEPT !.old = s] \in Request
BY DEF Request

LEMMA EndsLeaves ==
    ASSUME requests \in [Requests -> Request], NEW r \in Requests, Ends(r)
    PROVE  requests' \in [Requests -> Request] /\ Leaves(r, 0)
<1>1. requests' \in [Requests -> Request]
  BY IdleType DEF Ends
<1>2. requests'[r] = Idle /\ \A q \in Requests \ {r} : requests'[q] = requests[q]
  BY DEF Ends
<1>3. ASSUME NEW q \in Requests \ {r} PROVE Kept(q, 0)
  <2>1. requests[q].stale \in BOOLEAN
    BY DEF Request
  <2> QED
    BY <1>2, <2>1 DEF Kept
<1> QED
  BY <1>1, <1>2, <1>3 DEF Leaves

LEMMA EndsChangingLeaves ==
    ASSUME requests \in [Requests -> Request], NEW r \in Requests, NEW k,
           EndsChanging(r, k)
    PROVE  requests' \in [Requests -> Request] /\ Leaves(r, k)
<1> DEFINE age(q) == requests[q].stale \/ (Active(q) /\ k # 0 /\ requests[q].key = k)
<1>1. ASSUME NEW q \in Requests \ {r}
      PROVE  requests'[q] = [requests[q] EXCEPT !.stale = age(q)]
  BY DEF EndsChanging
<1>2. requests'[r] = Idle /\ requests' = [q \in Requests |-> requests'[q]]
  BY DEF EndsChanging
<1>3. ASSUME NEW q \in Requests
      PROVE  age(q) \in BOOLEAN /\ requests[q] \in Request
  BY DEF Request
<1>4. ASSUME NEW q \in Requests \ {r} PROVE requests'[q] \in Request /\ Kept(q, k)
  <2>1. requests[q] \in Request /\ age(q) \in BOOLEAN
    BY <1>3
  <2>2. requests'[q] \in Request
    BY <1>1, <2>1, AgeType
  <2>3. Kept(q, k)
    BY <1>1, <2>1 DEF Kept, Request
  <2> QED
    BY <2>2, <2>3
<1> QED
  BY <1>2, <1>4, IdleType DEF Leaves

\* The requests that count against the bounds: r is one less.
LEMMA LeavesCounts ==
    ASSUME NEW r \in Requests, NEW k, Leaves(r, k)
    PROVE  /\ \A b \in Books : Adding(b)' = Adding(b) \ {r}
           /\ Ordering' = Ordering \ {r}
<1>1. \A q \in Requests : q # r =>
         /\ requests'[q].at = requests[q].at /\ requests'[q].op = requests[q].op
         /\ requests'[q].book = requests[q].book
  BY DEF Leaves, Kept
<1>2. requests'[r].at = "idle"
  BY DEF Leaves, Idle
<1>3. ASSUME NEW b \in Books PROVE Adding(b)' = Adding(b) \ {r}
  BY <1>1, <1>2 DEF Adding, Active
<1>4. Ordering' = Ordering \ {r}
  BY <1>1, <1>2 DEF Ordering
<1> QED
  BY <1>3, <1>4

\* Sets of requests are finite, and smaller without one of their members.
LEMMA Fewer ==
    ASSUME NEW S \in SUBSET Requests, NEW r
    PROVE  /\ Cardinality(S) \in Nat /\ Cardinality(S \ {r}) \in Nat
           /\ Cardinality(S \ {r}) <= Cardinality(S)
           /\ r \in S => Cardinality(S \ {r}) = Cardinality(S) - 1
           /\ Cardinality(S \cup {r}) \in Nat
           /\ Cardinality(S \cup {r}) <= Cardinality(S) + 1
<1>1. IsFiniteSet(S)
  BY FS_Subset, CartAssumption
<1>2. /\ Cardinality(S \ {r}) = IF r \in S THEN Cardinality(S)-1 ELSE Cardinality(S)
      /\ IsFiniteSet(S \ {r})
  BY <1>1, FS_RemoveElement
<1>3. /\ Cardinality(S \cup {r}) = IF r \in S THEN Cardinality(S) ELSE Cardinality(S)+1
      /\ IsFiniteSet(S \cup {r})
  BY <1>1, FS_AddElement
<1>4. Cardinality(S) \in Nat /\ Cardinality(S \ {r}) \in Nat /\ Cardinality(S \cup {r}) \in Nat
  BY <1>1, <1>2, <1>3, FS_CardinalityType
<1> QED
  BY <1>2, <1>3, <1>4

\* When r has left, the bounds hold of what the step wrote.
LEMMA LeavesBounds ==
    ASSUME TypeInv, NEW r \in Requests, NEW k, Leaves(r, k),
           requests' \in [Requests -> Request], placed' = placed,
           rows' \in [SessionKeys -> Carts \cup {Gone}], wanted' \in Carts, added' \in Carts,
           \A b \in Books :
              \/ added'[b] = added[b]
              \/ added'[b] = added[b] + 1 /\ r \in Adding(b),
           \A b \in Books : wanted'[b] <= added'[b],
           \A b \in Books, j \in SessionKeys : rows'[j] # Gone => rows'[j][b] <= added'[b]
    PROVE  Bounded' /\ Room'
<1>1. /\ \A b \in Books : Adding(b)' = Adding(b) \ {r}
      /\ Ordering' = Ordering \ {r}
  BY LeavesCounts
<1>2. ASSUME NEW b \in Books
      PROVE  added'[b] + Cardinality(Adding(b))' <= MaxAdded
  <2>1. Adding(b) \in SUBSET Requests
    BY DEF Adding
  <2>2. Cardinality(Adding(b))' = Cardinality(Adding(b) \ {r})
    BY <1>1
  <2>3. added[b] + Cardinality(Adding(b)) <= MaxAdded
    BY DEF TypeInv, Bounded
  <2>4. added[b] \in Nat /\ added'[b] \in Nat /\ MaxAdded \in Nat
    BY CartAssumption DEF TypeInv, TypeOK, Carts
  <2>5. /\ Cardinality(Adding(b)) \in Nat /\ Cardinality(Adding(b) \ {r}) \in Nat
        /\ Cardinality(Adding(b) \ {r}) <= Cardinality(Adding(b))
        /\ r \in Adding(b) => Cardinality(Adding(b) \ {r}) = Cardinality(Adding(b)) - 1
    BY <2>1, Fewer
  <2>6. added'[b] = added[b] \/ (added'[b] = added[b] + 1 /\ r \in Adding(b))
    OBVIOUS
  <2> QED
    BY <2>2, <2>3, <2>4, <2>5, <2>6
<1>3. Room'
  <2>1. Ordering \in SUBSET Requests
    BY DEF Ordering
  <2>2. Cardinality(Ordering)' = Cardinality(Ordering \ {r})
    BY <1>1
  <2>3. /\ Cardinality(Ordering) \in Nat /\ Cardinality(Ordering \ {r}) \in Nat
        /\ Cardinality(Ordering \ {r}) <= Cardinality(Ordering)
    BY <2>1, Fewer
  <2>4. placed + Cardinality(Ordering) <= MaxOrders /\ placed \in Nat /\ MaxOrders \in Nat
    BY CartAssumption DEF TypeInv, Room, TypeOK
  <2> QED
    BY <2>2, <2>3, <2>4 DEF Room
<1>4. ASSUME NEW b \in Books, NEW q \in Requests
      PROVE  requests'[q].cart[b] <= added'[b]
  <2>1. added[b] \in Nat /\ added'[b] \in Nat /\ added[b] <= added'[b]
    BY CartAssumption DEF TypeInv, TypeOK, Carts
  <2>2. CASE q = r
    BY <2>1, <2>2 DEF Leaves, Idle, Empty
  <2>3. CASE q # r
    <3>1. requests'[q].cart = requests[q].cart
      BY <2>3 DEF Leaves, Kept
    <3>2. requests[q].cart[b] <= added[b] /\ requests[q].cart[b] \in Nat
      BY CartAssumption DEF TypeInv, TypeOK, Bounded, Request, Carts
    <3> QED
      BY <3>1, <3>2, <2>1
  <2> QED
    BY <2>2, <2>3
<1>5. \A b \in Books, j \in SessionKeys : Alive(j)' => rows'[j][b] <= added'[b]
  BY DEF Alive
<1> QED
  BY <1>2, <1>3, <1>4, <1>5 DEF Bounded

\* The same when only requests may have changed, or a session was lost.
LEMMA LeavesTypes ==
    ASSUME TypeInv, NEW r \in Requests, NEW k, Leaves(r, k),
           requests' \in [Requests -> Request], UNCHANGED <<made, known, catalogue, placed, added>>,
           rows' \in [SessionKeys -> Carts \cup {Gone}],
           \A j \in SessionKeys : rows'[j] = rows[j] \/ rows'[j] = Gone,
           cookie' \in {0, cookie}, wanted' \in {Empty, wanted},
           bought' \in [Books -> Int], excused' \in BOOLEAN, twice' \in BOOLEAN
    PROVE  TypeInv'
<1>1. wanted' \in Carts /\ added' \in Carts
  BY IdleType DEF TypeInv, TypeOK
<1>2. \A b \in Books : wanted'[b] <= added'[b]
  <2>1. ASSUME NEW b \in Books PROVE wanted'[b] <= added'[b]
    <3>1. added[b] \in Nat /\ wanted[b] <= added[b]
      BY CartAssumption DEF TypeInv, TypeOK, Carts, Bounded
    <3> QED
      BY <3>1 DEF Empty
  <2> QED
    BY <2>1
<1>3. \A b \in Books, j \in SessionKeys : rows'[j] # Gone => rows'[j][b] <= added'[b]
  <2>1. ASSUME NEW b \in Books, NEW j \in SessionKeys, rows'[j] # Gone
        PROVE  rows'[j][b] <= added'[b]
    <3>1. Alive(j) /\ rows'[j] = rows[j]
      BY <2>1 DEF Alive, SessionKeys
    <3> QED
      BY <3>1 DEF TypeInv, Bounded
  <2> QED
    BY <2>1
<1>4. Bounded' /\ Room'
  BY <1>1, <1>2, <1>3, LeavesBounds
<1>5. TypeOK'
  <2>1. made \in Nat /\ cookie' \in 0..made
    BY CartAssumption DEF TypeInv, TypeOK
  <2> QED
    BY <1>1, <2>1 DEF TypeInv, TypeOK
<1> QED
  BY <1>4, <1>5 DEF TypeInv

(***************************************************************************)
(* Types and bounds                                                        *)
(***************************************************************************)

\* What a request reads is a cart within the bounds.
LEMMA InRowType ==
    ASSUME TypeInv, NEW k \in 0..MaxSessions
    PROVE  /\ InRow(k) \in Carts
           /\ \A b \in Books : InRow(k)[b] <= added[b]
<1>1. \A b \in Books : added[b] \in Nat
  BY CartAssumption DEF TypeInv, TypeOK, Carts
<1>2. CASE Alive(k)
  <2>1. k \in SessionKeys
    BY <1>2, CartAssumption DEF Alive, SessionKeys
  <2>2. rows[k] \in Carts /\ InRow(k) = rows[k]
    BY <1>2, <2>1 DEF TypeInv, TypeOK, InRow, Alive
  <2> QED
    BY <1>2, <2>1, <2>2 DEF TypeInv, Bounded
<1>3. CASE ~Alive(k)
  BY <1>3, <1>1, IdleType DEF InRow, Empty
<1> QED
  BY <1>2, <1>3

\* A request that starts is one more to be counted, within the bounds.
LEMMA StartTypes ==
    ASSUME TypeInv, NEW r \in Requests, NEW op \in Operations, NEW b, Start(r, op, b)
    PROVE  TypeInv'
<1> DEFINE key == IF Alive(cookie) THEN cookie ELSE 0
           cart == IF op \in {"clear", "logout"} THEN Empty ELSE InRow(key)
           items == [x \in Books |->
                       IF op = "checkout" /\ x \in catalogue THEN InRow(key)[x] ELSE 0]
           old == \E q \in Requests : requests[q].at = "placed" /\ requests[q].key = key
           new == [at |-> "running", op |-> op, book |-> b, sent |-> cookie # 0,
                   key |-> key, cart |-> cart, items |-> items, stale |-> FALSE, old |-> old]
<1>1. requests' = [requests EXCEPT ![r] = new]
  BY DEF Start
<1>2. /\ UNCHANGED <<session, shop, history>> /\ ~Active(r)
      /\ b \in Books \cup {NoBook}
      /\ op = "add" => b \in Books /\ added[b] + Cardinality(Adding(b)) < MaxAdded
      /\ op = "checkout" => placed + Cardinality(Ordering) < MaxOrders
  BY DEF Start
<1>3. key \in 0..MaxSessions
  BY CartAssumption DEF TypeInv, TypeOK
<1>4. InRow(key) \in Carts /\ \A x \in Books : InRow(key)[x] <= added[x]
  BY <1>3, InRowType
<1>5. cart \in Carts /\ items \in Carts /\ \A x \in Books : cart[x] <= added[x]
  <2>1. \A x \in Books : added[x] \in Nat
    BY CartAssumption DEF TypeInv, TypeOK, Carts
  <2>2. cart \in Carts /\ items \in Carts
    BY <1>4, IdleType, CartAssumption DEF Carts
  <2> QED
    BY <1>4, <2>1, <2>2 DEF Empty
<1>6. new \in Request
  BY <1>2, <1>3, <1>5 DEF Request, Operations
<1>7. requests' \in [Requests -> Request] /\ new.at = "running" /\ new.op = op
      /\ new.book = b /\ new.cart = cart
  BY <1>1, <1>6 DEF TypeInv, TypeOK
<1> HIDE DEF new, cart, items, key, old
<1>8. TypeOK'
  BY <1>2, <1>7 DEF TypeInv, TypeOK, session, shop, history
<1>9. requests'[r] = new /\ \A q \in Requests \ {r} : requests'[q] = requests[q]
  BY <1>1 DEF TypeInv, TypeOK
<1>10. ASSUME NEW x \in Books
       PROVE  /\ added'[x] = added[x] /\ added[x] + Cardinality(Adding(x))' <= MaxAdded
  <2>1. Adding(x) \in SUBSET Requests
    BY DEF Adding
  <2>2. /\ Cardinality(Adding(x)) \in Nat /\ Cardinality(Adding(x) \cup {r}) \in Nat
        /\ Cardinality(Adding(x) \cup {r}) <= Cardinality(Adding(x)) + 1
    BY <2>1, Fewer
  <2>3. added[x] \in Nat /\ MaxAdded \in Nat /\ added' = added
        /\ added[x] + Cardinality(Adding(x)) <= MaxAdded
    BY <1>2, CartAssumption DEF TypeInv, TypeOK, Carts, history, Bounded
  <2>4. CASE op = "add" /\ b = x
    <3>1. Adding(x)' = Adding(x) \cup {r}
      BY <1>7, <1>9, <2>4 DEF Adding, Active
    <3> QED
      BY <1>2, <2>2, <2>3, <2>4, <3>1
  <2>5. CASE ~(op = "add" /\ b = x)
    <3>1. Adding(x)' = Adding(x)
      BY <1>2, <1>7, <1>9, <2>5 DEF Adding, Active
    <3> QED
      BY <2>3, <3>1
  <2> QED
    BY <2>4, <2>5
<1>11. Bounded'
  <2>1. ASSUME NEW x \in Books, NEW q \in Requests PROVE requests'[q].cart[x] <= added'[x]
    BY <1>5, <1>7, <1>9, <1>10 DEF TypeInv, Bounded
  <2>2. rows' = rows /\ wanted' = wanted
    BY <1>2 DEF session, history
  <2>3. ASSUME NEW x \in Books, NEW j \in SessionKeys, Alive(j)'
        PROVE  rows'[j][x] <= added'[x]
    BY <1>10, <2>2, <2>3 DEF TypeInv, Bounded, Alive
  <2>4. \A x \in Books : wanted'[x] <= added'[x]
    BY <1>10, <2>2 DEF TypeInv, Bounded
  <2> QED
    BY <1>10, <2>1, <2>3, <2>4 DEF Bounded
<1>12. Room'
  <2>1. Ordering \in SUBSET Requests
    BY DEF Ordering
  <2>2. /\ Cardinality(Ordering) \in Nat /\ Cardinality(Ordering \cup {r}) \in Nat
        /\ Cardinality(Ordering \cup {r}) <= Cardinality(Ordering) + 1
    BY <2>1, Fewer
  <2>3. placed \in Nat /\ MaxOrders \in Nat /\ placed' = placed
        /\ placed + Cardinality(Ordering) <= MaxOrders
    BY <1>2, CartAssumption DEF TypeInv, TypeOK, shop, Room
  <2>4. CASE op = "checkout"
    <3>1. Ordering' = Ordering \cup {r}
      BY <1>7, <1>9, <2>4 DEF Ordering
    <3> QED
      BY <1>2, <2>2, <2>3, <2>4, <3>1 DEF Room
  <2>5. CASE op # "checkout"
    <3>1. Ordering' = Ordering
      BY <1>2, <1>7, <1>9, <2>5 DEF Ordering, Active
    <3> QED
      BY <2>3, <3>1 DEF Room
  <2> QED
    BY <2>4, <2>5
<1> QED
  BY <1>8, <1>11, <1>12 DEF TypeInv

\* An addition keeps a place for its unit.
LEMMA RoomToAdd ==
    ASSUME TypeInv, Loaded, NEW r \in Requests, Active(r), requests[r].op = "add"
    PROVE  /\ requests[r].book \in Books /\ r \in Adding(requests[r].book)
           /\ added[requests[r].book] < MaxAdded
<1> DEFINE b == requests[r].book
<1>1. b \in Books /\ r \in Adding(b)
  BY DEF Loaded, Fit, Adding
<1>2. Adding(b) \in SUBSET Requests
  BY DEF Adding
<1>3. Cardinality(Adding(b)) \in Nat /\ Cardinality(Adding(b) \ {r}) \in Nat
      /\ Cardinality(Adding(b) \ {r}) = Cardinality(Adding(b)) - 1
  BY <1>1, <1>2, Fewer
<1>4. added[b] + Cardinality(Adding(b)) <= MaxAdded /\ added[b] \in Nat /\ MaxAdded \in Nat
  BY <1>1, CartAssumption DEF TypeInv, TypeOK, Carts, Bounded
<1> QED
  BY <1>1, <1>3, <1>4

\* The cart that is saved, and what the answer adds to the histories.
LEMMA AfterTypes ==
    ASSUME TypeInv, Loaded, NEW r \in Requests, Answered(r),
           NEW cart, cart = After(requests[r].op, requests[r].book, requests[r].cart),
           Remembers(r, cart)
    PROVE  /\ cart \in Carts /\ added' \in Carts /\ wanted' \in Carts
           /\ \A b \in Books :
                 /\ \/ added'[b] = added[b]
                    \/ added'[b] = added[b] + 1 /\ r \in Adding(b)
                 /\ cart[b] <= added'[b] /\ wanted'[b] <= added'[b]
<1> DEFINE op == requests[r].op
           book == requests[r].book
           copy == requests[r].cart
<1>1. Active(r) /\ op \in {"add", "remove", "clear", "checkout", "login"}
  BY DEF Answered, Active, TypeInv, TypeOK, Request, Operations
<1>2. op \in {"add", "remove"} => book \in Books
  BY <1>1 DEF Loaded, Fit
<1>3. op = "add" => r \in Adding(book) /\ added[book] < MaxAdded
  BY <1>1, RoomToAdd
<1>4. copy \in Carts /\ added \in Carts /\ wanted \in Carts /\ MaxAdded \in Nat
      /\ \A b \in Books : copy[b] <= added[b] /\ wanted[b] <= added[b]
  BY CartAssumption DEF TypeInv, TypeOK, Request, Bounded
<1>5. cart = IF op = "add" THEN [copy EXCEPT ![book] = @ + 1]
             ELSE IF op = "remove" THEN [copy EXCEPT ![book] = 0]
             ELSE IF op = "login" THEN copy ELSE Empty
  BY <1>1 DEF After
<1>6. /\ added' = IF op = "add" THEN [added EXCEPT ![book] = @ + 1] ELSE added
      /\ wanted' = [x \in Books |-> Asked(r, x)]
  BY DEF Remembers
<1>7. \A x \in Books : Asked(r, x) =
         IF op \in {"clear", "checkout"} \/ (op = "remove" /\ book = x) THEN 0
         ELSE IF op = "add" /\ book = x THEN wanted[x] + 1 ELSE wanted[x]
  BY DEF Asked
<1> HIDE DEF op, book, copy
<1>8. ASSUME NEW b \in Books
      PROVE  /\ copy[b] \in 0..MaxAdded /\ added[b] \in 0..MaxAdded
             /\ wanted[b] \in 0..MaxAdded
             /\ copy[b] <= added[b] /\ wanted[b] <= added[b]
  BY <1>4 DEF Carts
<1>9. CASE op = "add"
  <2>1. /\ book \in Books /\ r \in Adding(book) /\ added[book] < MaxAdded
        /\ cart = [copy EXCEPT ![book] = @ + 1] /\ added' = [added EXCEPT ![book] = @ + 1]
        /\ wanted' = [x \in Books |-> IF book = x THEN wanted[x] + 1 ELSE wanted[x]]
    BY <1>2, <1>3, <1>5, <1>6, <1>7, <1>9
  <2>2. /\ DOMAIN cart = Books /\ DOMAIN added' = Books /\ DOMAIN wanted' = Books
        /\ cart = [x \in Books |-> cart[x]] /\ added' = [x \in Books |-> added'[x]]
        /\ wanted' = [x \in Books |-> wanted'[x]]
    BY <2>1, <1>4 DEF Carts
  <2>3. ASSUME NEW b \in Books
        PROVE  /\ cart[b] \in 0..MaxAdded /\ added'[b] \in 0..MaxAdded
               /\ wanted'[b] \in 0..MaxAdded
               /\ \/ added'[b] = added[b]
                  \/ added'[b] = added[b] + 1 /\ r \in Adding(b)
               /\ cart[b] <= added'[b] /\ wanted'[b] <= added'[b]
    <3>1. CASE b = book
      <4>1. cart[b] = copy[b] + 1 /\ added'[b] = added[b] + 1 /\ wanted'[b] = wanted[b] + 1
        BY <2>1, <1>4, <3>1 DEF Carts
      <4> QED
        BY <4>1, <1>8, <2>1, <3>1, <1>4
    <3>2. CASE b # book
      <4>1. cart[b] = copy[b] /\ added'[b] = added[b] /\ wanted'[b] = wanted[b]
        BY <2>1, <1>4, <3>2 DEF Carts
      <4> QED
        BY <4>1, <1>8
    <3> QED
      BY <3>1, <3>2
  <2>4. cart \in Carts /\ added' \in Carts /\ wanted' \in Carts
    BY <2>2, <2>3 DEF Carts
  <2> QED
    BY <2>3, <2>4
<1>10. CASE op # "add"
  <2>1. added' = added
    BY <1>6, <1>10
  <2>2. /\ cart = [x \in Books |-> cart[x]] /\ wanted' = [x \in Books |-> wanted'[x]]
    BY <1>5, <1>6, <1>4, <1>10 DEF Carts, Empty
  <2>3. ASSUME NEW b \in Books
        PROVE  cart[b] \in {copy[b], 0} /\ wanted'[b] \in {wanted[b], 0}
    BY <1>4, <1>5, <1>6, <1>7, <1>10 DEF Carts, Empty
  <2>4. ASSUME NEW b \in Books
        PROVE  /\ cart[b] \in 0..MaxAdded /\ wanted'[b] \in 0..MaxAdded
               /\ cart[b] <= added'[b] /\ wanted'[b] <= added'[b]
    BY <1>8, <2>1, <2>3, <1>4
  <2>5. cart \in Carts /\ wanted' \in Carts
    BY <2>2, <2>4 DEF Carts
  <2> QED
    BY <1>4, <2>1, <2>4, <2>5
<1> QED
  BY <1>9, <1>10

LEMMA SaveTypes ==
    ASSUME TypeInv, Loaded, NEW r \in Requests, Save(r)
    PROVE  TypeInv'
<1> DEFINE key == requests[r].key
           new == made + 1
<1>1. PICK cart : cart = After(requests[r].op, requests[r].book, requests[r].cart)
  OBVIOUS
<1>2. /\ Answered(r) /\ EndsChanging(r, key) /\ Remembers(r, cart) /\ UNCHANGED shop
      /\ IF MakesSession(r)
         THEN /\ made < MaxSessions
              /\ made' = new /\ cookie' = new
              /\ known' = IF requests[r].op = "login" THEN known \cup {new} ELSE known
              /\ rows' = [k \in SessionKeys |-> IF k = new THEN cart
                                                ELSE IF k = key THEN Gone ELSE rows[k]]
         ELSE /\ Alive(key)
              /\ rows' = [rows EXCEPT ![key] = cart]
              /\ cookie' = key /\ UNCHANGED <<made, known>>
  BY <1>1 DEF Save
<1>3. /\ cart \in Carts /\ added' \in Carts /\ wanted' \in Carts
      /\ \A b \in Books :
            /\ \/ added'[b] = added[b]
               \/ added'[b] = added[b] + 1 /\ r \in Adding(b)
            /\ cart[b] <= added'[b] /\ wanted'[b] <= added'[b]
  BY <1>1, <1>2, AfterTypes
<1>4. requests \in [Requests -> Request] /\ rows \in [SessionKeys -> Carts \cup {Gone}]
  BY DEF TypeInv, TypeOK
<1>5. requests' \in [Requests -> Request] /\ Leaves(r, key)
  BY <1>2, <1>4, EndsChangingLeaves
<1>6. Active(r) /\ key \in 0..made /\ made \in 0..MaxSessions /\ MaxSessions \in Nat
  <2>1. key \in 0..MaxSessions /\ made \in 0..MaxSessions /\ MaxSessions \in Nat
    BY <1>4, CartAssumption DEF TypeInv, TypeOK, Request
  <2>2. Active(r)
    BY <1>2 DEF Answered, Active
  <2> QED
    BY <2>1, <2>2 DEF Loaded, Fit
<1> HIDE DEF key
<1>7. /\ rows' \in [SessionKeys -> Carts \cup {Gone}]
      /\ \A j \in SessionKeys : rows'[j] \in {cart, Gone, rows[j]}
  BY <1>2, <1>3, <1>4
<1>8. made' \in 0..MaxSessions /\ known' \subseteq 1..made' /\ cookie' \in 0..made'
  <2>1. known \subseteq 1..made
    BY DEF TypeInv, TypeOK
  <2> QED
    BY <1>2, <1>6, <2>1
<1>9. TypeOK'
  <2>1. excused' \in BOOLEAN /\ twice' \in BOOLEAN
    BY <1>2 DEF Remembers, ExcusedAfter, TypeInv, TypeOK
  <2> QED
    BY <1>2, <1>3, <1>5, <1>7, <1>8, <2>1 DEF TypeInv, TypeOK, shop
<1>10. Bounded' /\ Room'
  <2>1. ASSUME NEW b \in Books, NEW j \in SessionKeys, rows'[j] # Gone
        PROVE  rows'[j][b] <= added'[b]
    <3>1. rows'[j] = cart \/ (rows'[j] = rows[j] /\ rows[j] # Gone)
      BY <1>7, <2>1
    <3>2. cart[b] <= added'[b] /\ added[b] <= added'[b] /\ added[b] \in Nat /\ added'[b] \in Nat
      <4>1. cart[b] <= added'[b] /\ (added'[b] = added[b] \/ added'[b] = added[b] + 1)
        BY <1>3
      <4>2. added[b] \in Nat /\ added'[b] \in Nat
        BY <1>3, CartAssumption DEF TypeInv, TypeOK, Carts
      <4> QED
        BY <4>1, <4>2
    <3>3. ASSUME rows[j] # Gone PROVE rows[j][b] <= added[b] /\ rows[j][b] \in Nat
      <4>1. Alive(j)
        BY <3>3 DEF Alive, SessionKeys
      <4>2. rows[j] \in Carts
        BY <3>3, <1>4
      <4> QED
        BY <4>1, <4>2, CartAssumption DEF TypeInv, Bounded, Carts
    <3> QED
      BY <3>1, <3>2, <3>3
  <2>2. placed' = placed
    BY <1>2 DEF shop
  <2>3. \A b \in Books : \/ added'[b] = added[b]
                         \/ added'[b] = added[b] + 1 /\ r \in Adding(b)
    BY <1>3
  <2>4. \A b \in Books : wanted'[b] <= added'[b]
    BY <1>3
  <2>5. \A b \in Books, j \in SessionKeys : rows'[j] # Gone => rows'[j][b] <= added'[b]
    BY <2>1
  <2> QED
    BY <1>3, <1>5, <1>7, <2>2, <2>3, <2>4, <2>5, LeavesBounds
<1> QED
  BY <1>9, <1>10 DEF TypeInv

LEMMA PlaceTypes ==
    ASSUME TypeInv, NEW r \in Requests, Place(r)
    PROVE  TypeInv'
<1> DEFINE new == [requests[r] EXCEPT !.at = "placed"]
           old(q) == requests[q].old \/ (Active(q) /\ requests[q].key = requests[r].key)
<1>1. /\ requests[r].at = "running" /\ requests[r].op = "checkout"
      /\ requests' = [q \in Requests |->
            IF q = r THEN new ELSE [requests[q] EXCEPT !.old = old(q)]]
      /\ placed' = placed + 1
      /\ bought' = [b \in Books |-> bought[b] + requests[r].items[b]]
      /\ twice' = (twice \/ requests[r].old)
      /\ UNCHANGED <<session, catalogue, added, wanted, excused>>
  BY DEF Place, Ordered
<1>2. requests \in [Requests -> Request]
  BY DEF TypeInv, TypeOK
<1>3. new \in Request /\ \A q \in Requests : old(q) \in BOOLEAN
  BY <1>2 DEF Request
<1>4. \A q \in Requests : [requests[q] EXCEPT !.old = old(q)] \in Request
  BY <1>2, <1>3, AgeType
<1>5. requests' \in [Requests -> Request]
  BY <1>1, <1>3, <1>4
<1>6. /\ requests'[r].at = "placed"
      /\ \A q \in Requests :
            /\ requests'[q].op = requests[q].op /\ requests'[q].book = requests[q].book
            /\ requests'[q].cart = requests[q].cart
            /\ q # r => requests'[q].at = requests[q].at
  BY <1>1, <1>2 DEF Request
<1> HIDE DEF new, old
<1>7. \A b \in Books : Adding(b)' = Adding(b)
  BY <1>1, <1>6 DEF Adding, Active
<1>8. Ordering' = Ordering \ {r} /\ r \in Ordering
  BY <1>1, <1>6 DEF Ordering
<1>9. Room' /\ placed' \in 0..MaxOrders
  <2>1. Ordering \in SUBSET Requests
    BY DEF Ordering
  <2>2. Cardinality(Ordering)' = Cardinality(Ordering \ {r})
    BY <1>8
  <2>3. /\ Cardinality(Ordering) \in Nat /\ Cardinality(Ordering \ {r}) \in Nat
        /\ Cardinality(Ordering \ {r}) = Cardinality(Ordering) - 1
    BY <1>8, <2>1, Fewer
  <2>4. placed + Cardinality(Ordering) <= MaxOrders /\ placed \in Nat /\ MaxOrders \in Nat
    BY CartAssumption DEF TypeInv, Room, TypeOK
  <2> QED
    BY <1>1, <2>2, <2>3, <2>4 DEF Room
<1>10. TypeOK'
  <2>1. bought' \in [Books -> Int]
    <3>1. requests[r].items \in [Books -> Nat] /\ bought \in [Books -> Int]
      BY <1>2, CartAssumption DEF TypeInv, TypeOK, Request, Carts
    <3> QED
      BY <1>1, <3>1
  <2>2. twice' \in BOOLEAN
    BY <1>1 DEF TypeInv, TypeOK
  <2> QED
    BY <1>1, <1>5, <1>9, <2>1, <2>2 DEF TypeInv, TypeOK, session
<1>11. Bounded'
  BY <1>1, <1>6, <1>7 DEF TypeInv, Bounded, Alive, session
<1> QED
  BY <1>9, <1>10, <1>11 DEF TypeInv

LEMMA FailTypes ==
    ASSUME TypeInv, NEW r \in Requests, Fail(r)
    PROVE  TypeInv'
<1>1. requests \in [Requests -> Request] /\ Ends(r)
  BY DEF TypeInv, TypeOK, Fail
<1>2. requests' \in [Requests -> Request] /\ Leaves(r, 0)
  BY <1>1, EndsLeaves
<1>3. bought' \in [Books -> Int]
  <2>1. requests[r].items \in [Books -> Nat] /\ bought \in [Books -> Int]
    BY <1>1, CartAssumption DEF TypeInv, TypeOK, Request, Carts
  <2> QED
    BY <2>1 DEF Fail, Ordered
<1>4. /\ UNCHANGED <<made, known, catalogue, placed, added, rows, cookie, wanted,
                     excused, twice>>
      /\ rows \in [SessionKeys -> Carts \cup {Gone}]
      /\ excused \in BOOLEAN /\ twice \in BOOLEAN
  BY DEF Fail, session, history, TypeInv, TypeOK
<1> QED
  BY <1>2, <1>3, <1>4, LeavesTypes

\* The requests that end without a cart to save.
LEMMA EndTypes ==
    ASSUME TypeInv, NEW r \in Requests,
           LeaveUnmodified(r) \/ Interrupt(r) \/ Logout(r) \/ Reject(r) \/ Die(r)
    PROVE  TypeInv'
<1>1. requests \in [Requests -> Request]
  BY DEF TypeInv, TypeOK
<1>2. PICK k : requests' \in [Requests -> Request] /\ Leaves(r, k)
  <2>1. Ends(r) \/ EndsChanging(r, requests[r].key)
    BY DEF LeaveUnmodified, Interrupt, Logout, Reject, Die
  <2> QED
    BY <1>1, <2>1, EndsLeaves, EndsChangingLeaves
<1>3. /\ UNCHANGED <<made, known, catalogue, placed, added>>
      /\ wanted' \in {Empty, wanted}
      /\ bought' = bought
  BY DEF LeaveUnmodified, Interrupt, Logout, Reject, Die, session, shop
<1>4. cookie' \in {0, cookie} /\ excused' \in BOOLEAN
  BY DEF LeaveUnmodified, Interrupt, Logout, Reject, Die, session, DropsCookie, TypeInv, TypeOK
<1>5. twice' \in BOOLEAN
  BY DEF LeaveUnmodified, Interrupt, Logout, Reject, Die, TypeInv, TypeOK
<1>6. /\ rows' \in [SessionKeys -> Carts \cup {Gone}]
      /\ \A j \in SessionKeys : rows'[j] = rows[j] \/ rows'[j] = Gone
  <2>1. rows \in [SessionKeys -> Carts \cup {Gone}]
    BY DEF TypeInv, TypeOK
  <2>2. CASE Logout(r)
    BY <2>1, <2>2 DEF Logout
  <2>3. CASE ~Logout(r)
    <3>1. rows' = rows
      BY <2>3 DEF LeaveUnmodified, Interrupt, Reject, Die, session
    <3> QED
      BY <2>1, <3>1
  <2> QED
    BY <2>2, <2>3
<1>7. bought' \in [Books -> Int]
  BY <1>3 DEF TypeInv, TypeOK
<1> QED
  BY <1>2, <1>3, <1>4, <1>5, <1>6, <1>7, LeavesTypes

\* A session is lost: the copies of it are old.
LEMMA ExpireKeeps ==
    ASSUME TypeInv, NEW k \in SessionKeys, Expire(k)
    PROVE  requests' \in [Requests -> Request] /\ \A q \in Requests : Kept(q, k)
<1> DEFINE age(q) == requests[q].stale \/ (Active(q) /\ requests[q].key = k)
<1>1. requests \in [Requests -> Request]
  BY DEF TypeInv, TypeOK
<1>2. requests' = [q \in Requests |-> [requests[q] EXCEPT !.stale = age(q)]]
  BY DEF Expire
<1>3. \A q \in Requests : age(q) \in BOOLEAN
  BY <1>1 DEF Request
<1>4. \A q \in Requests : [requests[q] EXCEPT !.stale = age(q)] \in Request
  BY <1>1, <1>3, AgeType
<1>5. requests' \in [Requests -> Request]
  BY <1>2, <1>4
<1>6. k # 0
  BY DEF Expire, Alive
<1> QED
  BY <1>1, <1>2, <1>5, <1>6 DEF Kept, Request

LEMMA ExpireTypes ==
    ASSUME TypeInv, NEW k \in SessionKeys, Expire(k)
    PROVE  TypeInv'
<1>1. requests' \in [Requests -> Request] /\ \A q \in Requests : Kept(q, k)
  BY ExpireKeeps
<1>2. /\ rows' = [rows EXCEPT ![k] = Gone] /\ wanted' \in {Empty, wanted}
      /\ UNCHANGED <<made, known, cookie, shop, added, excused, twice>>
  BY DEF Expire
<1>3. (\A b \in Books : Adding(b)' = Adding(b)) /\ Ordering' = Ordering
  BY <1>1 DEF Adding, Ordering, Active, Kept
<1>4. \A b \in Books : added[b] \in Nat
  BY CartAssumption DEF TypeInv, TypeOK, Carts
<1>5. TypeOK'
  BY <1>1, <1>2, IdleType DEF TypeInv, TypeOK, shop
<1>6. Room'
  BY <1>2, <1>3 DEF TypeInv, Room, shop
<1>7. ASSUME NEW b \in Books, NEW j \in SessionKeys, Alive(j)'
      PROVE  rows'[j][b] <= added'[b]
  <2>1. rows'[j] = rows[j] /\ Alive(j)
    BY <1>2, <1>7 DEF TypeInv, TypeOK, Alive
  <2> QED
    BY <1>2, <2>1 DEF TypeInv, Bounded
<1>8. \A b \in Books : wanted'[b] <= added'[b]
  BY <1>2, <1>4 DEF TypeInv, Bounded, Empty
<1>9. \A b \in Books, q \in Requests : requests'[q].cart[b] <= added'[b]
  BY <1>1, <1>2 DEF TypeInv, Bounded, Kept
<1>10. \A b \in Books : added'[b] + Cardinality(Adding(b))' <= MaxAdded
  BY <1>2, <1>3 DEF TypeInv, Bounded
<1>11. Bounded'
  BY <1>7, <1>8, <1>9, <1>10 DEF Bounded
<1> QED
  BY <1>5, <1>6, <1>11 DEF TypeInv

\* What no step of a request or a session touches.
LEMMA StillTypes ==
    ASSUME TypeInv, (\E b \in Books : DeleteBook(b)) \/ UNCHANGED vars
    PROVE  TypeInv'
<1>1. /\ UNCHANGED <<session, requests, placed, bought, history>>
      /\ catalogue' \subseteq catalogue
  BY DEF DeleteBook, vars, shop
<1>2. TypeOK'
  BY <1>1 DEF TypeInv, TypeOK, session, history
<1>3. Bounded'
  BY <1>1 DEF TypeInv, Bounded, Alive, Adding, Active, session, history
<1>4. Room'
  BY <1>1 DEF TypeInv, Room, Ordering
<1> QED
  BY <1>2, <1>3, <1>4 DEF TypeInv

(***************************************************************************)
(* Sessions, and the cart that was asked for                               *)
(***************************************************************************)

\* A request that goes on stays fit when only the session it is told of changes.
LEMMA KeptFit ==
    ASSUME TypeInv, Loaded, NEW q \in Requests, NEW k, Kept(q, k),
           made <= made', made' \in Nat,
           \A j \in SessionKeys : j <= made /\ j # k => rows'[j] = rows[j]
    PROVE  Active(q)' => Fit(q)'
<1> DEFINE key == requests[q].key
<1>1. ASSUME Active(q)' PROVE Fit(q) /\ Active(q)
  BY <1>1 DEF Loaded, Kept, Active
<1>2. key \in 0..MaxSessions /\ made \in Nat /\ MaxSessions \in Nat
  BY CartAssumption DEF TypeInv, TypeOK, Request
<1>3. ASSUME Active(q)', key # 0, ~requests'[q].stale
      PROVE  Alive(key) /\ key \in SessionKeys /\ rows'[key] = rows[key]
  <2>1. ~requests[q].stale /\ requests'[q].stale =
           (requests[q].stale \/ (Active(q) /\ k # 0 /\ requests[q].key = k))
    BY <1>3 DEF Kept
  <2>2. Fit(q) /\ Alive(key) /\ key <= made
    BY <1>1, <1>3, <2>1 DEF Fit
  <2>3. key \in SessionKeys
    BY <1>2, <1>3 DEF SessionKeys
  <2>4. key # k
    BY <1>1, <1>3, <2>1
  <2> QED
    BY <2>2, <2>3, <2>4
<1>4. ASSUME Active(q)'
      PROVE  /\ requests'[q].op = requests[q].op /\ requests'[q].book = requests[q].book
             /\ requests'[q].key = key /\ requests'[q].cart = requests[q].cart
             /\ requests'[q].sent = requests[q].sent
             /\ ~requests'[q].stale => ~requests[q].stale
  BY DEF Kept
<1>5. SUFFICES ASSUME Active(q)' PROVE Fit(q)'
  OBVIOUS
<1>6. /\ requests'[q].op \in {"add", "remove"} => requests'[q].book \in Books
      /\ requests'[q].key <= made'
      /\ requests'[q].key # 0 => requests'[q].sent
      /\ requests'[q].key = 0 => requests'[q].cart = Empty
  BY <1>1, <1>2, <1>4, <1>5 DEF Fit
<1>7. ASSUME requests'[q].key # 0, ~requests'[q].stale
      PROVE  /\ requests'[q].key # 0 /\ rows'[requests'[q].key] # Gone
             /\ requests'[q].op \notin {"clear", "logout"} =>
                   requests'[q].cart = rows'[requests'[q].key]
  BY <1>1, <1>3, <1>4, <1>5, <1>7 DEF Fit, Alive
<1> QED
  BY <1>6, <1>7 DEF Fit, Alive

LEMMA StartSession ==
    ASSUME TypeInv, SessionInv, NEW r \in Requests, NEW op \in Operations, NEW b,
           Start(r, op, b)
    PROVE  SessionInv'
<1> DEFINE key == IF Alive(cookie) THEN cookie ELSE 0
           cart == IF op \in {"clear", "logout"} THEN Empty ELSE InRow(key)
           items == [x \in Books |->
                       IF op = "checkout" /\ x \in catalogue THEN InRow(key)[x] ELSE 0]
           old == \E q \in Requests : requests[q].at = "placed" /\ requests[q].key = key
           new == [at |-> "running", op |-> op, book |-> b, sent |-> cookie # 0,
                   key |-> key, cart |-> cart, items |-> items, stale |-> FALSE, old |-> old]
<1>1. /\ requests' = [requests EXCEPT ![r] = new]
      /\ UNCHANGED <<session, shop, history>>
      /\ op \in {"add", "remove"} => b \in Books
  BY DEF Start
<1>2. requests \in [Requests -> Request] /\ made \in Nat /\ cookie \in 0..made
  BY CartAssumption DEF TypeInv, TypeOK
<1>3. /\ requests'[r].op = op /\ requests'[r].book = b /\ requests'[r].key = key
      /\ requests'[r].sent = (cookie # 0) /\ requests'[r].cart = cart
      /\ ~requests'[r].stale
      /\ \A q \in Requests \ {r} : requests'[q] = requests[q]
  BY <1>1, <1>2
<1>4. key \in {0, cookie} /\ (key # 0 => Alive(key)) /\ (key = 0 => InRow(key) = Empty)
  BY DEF InRow, Alive
<1>5. cart = IF op \in {"clear", "logout"} THEN Empty ELSE InRow(key)
  OBVIOUS
<1> HIDE DEF key, cart, items, old, new
<1>6. UNCHANGED <<rows, made, cookie, wanted, excused>>
  BY <1>1 DEF session, history
<1>7. Fit(r)'
  <2>1. /\ key <= made /\ (key # 0 => cookie # 0) /\ (key = 0 => cart = Empty)
        /\ key # 0 => Alive(key) /\ (op \notin {"clear", "logout"} => cart = rows[key])
    BY <1>2, <1>4, <1>5 DEF InRow
  <2> QED
    BY <1>1, <1>3, <1>6, <2>1 DEF Fit, Alive
<1>8. ASSUME NEW q \in Requests \ {r} PROVE Active(q)' => Fit(q)'
  BY <1>3, <1>6 DEF SessionInv, Loaded, Fit, Alive, Active
<1>9. Loaded'
  BY <1>7, <1>8 DEF Loaded
<1>10. OneSession'
  BY <1>3, <1>4, <1>6 DEF SessionInv, OneSession, Active
<1>11. NotYetMade' /\ CartIsWhatWasAsked'
  BY <1>6 DEF SessionInv, NotYetMade, CartIsWhatWasAsked, InRow, Alive
<1> QED
  BY <1>9, <1>10, <1>11 DEF SessionInv

\* Request r ends without a trace, or takes away a cookie of no session.
LEMMA LeavesSession ==
    ASSUME TypeInv, SessionInv, NEW r \in Requests, Leaves(r, 0),
           UNCHANGED <<rows, made, wanted>>,
           \/ UNCHANGED <<cookie, excused>>
           \/ DropsCookie(r) /\ requests[r].key = 0
    PROVE  SessionInv'
<1>1. made \in Nat /\ cookie \in 0..made
  BY CartAssumption DEF TypeInv, TypeOK
<1>2. ASSUME NEW q \in Requests \ {r} PROVE Kept(q, 0)
  BY DEF Leaves
<1>3. ASSUME NEW q \in Requests PROVE Active(q)' => Fit(q)'
  <2>1. CASE q = r
    BY <2>1 DEF Leaves, Idle, Active
  <2>2. CASE q # r
    BY <1>1, <1>2, <2>2, KeptFit DEF SessionInv
  <2> QED
    BY <2>1, <2>2
<1>4. ASSUME NEW q \in Requests, Active(q)', requests'[q].key # 0, ~requests'[q].stale
      PROVE  /\ Active(q) /\ requests[q].key = requests'[q].key /\ ~requests[q].stale
             /\ requests[q].key # 0 /\ Alive(requests[q].key)
  <2>1. q # r /\ Kept(q, 0)
    BY <1>2, <1>4 DEF Leaves, Idle, Active
  <2>2. Active(q) /\ requests[q].key = requests'[q].key /\ ~requests[q].stale
    BY <1>4, <2>1 DEF Kept, Active
  <2> QED
    BY <1>4, <2>2 DEF SessionInv, Loaded, Fit
<1>5. CASE UNCHANGED <<cookie, excused>>
  <2>1. OneSession'
    BY <1>4, <1>5 DEF SessionInv, OneSession
  <2>2. NotYetMade' /\ CartIsWhatWasAsked'
    BY <1>5 DEF SessionInv, NotYetMade, CartIsWhatWasAsked, InRow, Alive
  <2> QED
    BY <1>3, <2>1, <2>2 DEF SessionInv, Loaded
<1>6. CASE DropsCookie(r) /\ requests[r].key = 0
  <2>1. cookie' \in {0, cookie} /\ excused' = (excused \/ Forks(r))
    BY <1>6 DEF DropsCookie
  <2>2. ASSUME ~excused' PROVE ~excused /\ ~Alive(cookie)
    BY <2>1, <2>2, <1>6 DEF Forks, Alive
  <2>3. OneSession'
    BY <1>4, <2>2 DEF SessionInv, OneSession
  <2>4. CartIsWhatWasAsked'
    <3>1. ASSUME ~excused' PROVE wanted = Empty
      BY <2>2, <3>1 DEF SessionInv, CartIsWhatWasAsked, InRow
    <3>2. ASSUME ~excused' PROVE ~Alive(cookie)'
      BY <2>1, <2>2, <3>2 DEF Alive
    <3> QED
      BY <3>1, <3>2 DEF CartIsWhatWasAsked, InRow
  <2>5. NotYetMade'
    BY DEF SessionInv, NotYetMade
  <2> QED
    BY <1>3, <2>3, <2>4, <2>5 DEF SessionInv, Loaded
<1> QED
  BY <1>5, <1>6

LEMMA LogoutSession ==
    ASSUME TypeInv, SessionInv, NEW r \in Requests, Logout(r)
    PROVE  SessionInv'
<1> DEFINE key == requests[r].key
<1>1. /\ requests[r].at = "running"
      /\ rows' = [k \in SessionKeys |-> IF k = key THEN Gone ELSE rows[k]]
      /\ EndsChanging(r, key) /\ wanted' = Empty /\ made' = made
      /\ cookie' = IF requests[r].sent THEN 0 ELSE cookie
      /\ excused' = (excused \/ Forks(r))
  BY DEF Logout, DropsCookie
<1>2. Leaves(r, key)
  BY <1>1, EndsChangingLeaves DEF TypeInv, TypeOK
<1>3. made \in Nat /\ made <= MaxSessions /\ MaxSessions \in Nat /\ cookie \in 0..made
  BY CartAssumption DEF TypeInv, TypeOK
<1>4. Active(r) /\ Fit(r)
  BY <1>1 DEF Active, SessionInv, Loaded
<1> HIDE DEF key
<1>5. ASSUME NEW q \in Requests PROVE Active(q)' => Fit(q)'
  <2>1. CASE q = r
    BY <2>1, <1>2 DEF Leaves, Idle, Active
  <2>2. CASE q # r
    <3>1. Kept(q, key)
      BY <1>2, <2>2 DEF Leaves
    <3>2. \A j \in SessionKeys : j <= made /\ j # key => rows'[j] = rows[j]
      BY <1>1
    <3> QED
      BY <1>1, <1>3, <3>1, <3>2, KeptFit DEF SessionInv
  <2> QED
    BY <2>1, <2>2
<1>6. ~excused' => ~excused /\ (Alive(cookie) => key = cookie)
  BY <1>1 DEF Forks, key
<1>7. OneSession'
  <2>1. ASSUME ~excused', NEW q \in Requests, Active(q)', requests'[q].key # 0,
               ~requests'[q].stale
        PROVE  FALSE
    <3>1. q # r /\ Kept(q, key)
      BY <1>2, <2>1 DEF Leaves, Idle, Active
    <3>2. /\ Active(q) /\ requests[q].key = requests'[q].key /\ ~requests[q].stale
          /\ requests[q].key # 0 /\ requests[q].key # key
      BY <2>1, <3>1 DEF Kept, Active
    <3>3. Alive(requests[q].key) /\ requests[q].key = cookie
      BY <1>6, <2>1, <3>2 DEF SessionInv, Loaded, Fit, OneSession
    <3> QED
      BY <1>6, <2>1, <3>2, <3>3
  <2> QED
    BY <2>1 DEF OneSession
<1>8. CartIsWhatWasAsked'
  <2>1. ASSUME ~excused' PROVE ~Alive(cookie)'
    <3>1. CASE requests[r].sent
      BY <1>1, <3>1 DEF Alive
    <3>2. CASE ~requests[r].sent
      <4>1. key = 0 /\ cookie' = cookie
        BY <1>1, <1>4, <3>2 DEF Fit, key
      <4>2. ~Alive(cookie)
        BY <1>6, <2>1, <4>1 DEF Alive
      <4>3. cookie = 0 \/ (cookie \in SessionKeys /\ rows[cookie] = Gone)
        BY <1>3, <4>2 DEF Alive, SessionKeys
      <4> QED
        BY <1>1, <4>1, <4>3 DEF Alive
    <3> QED
      BY <3>1, <3>2
  <2> QED
    BY <1>1, <2>1 DEF CartIsWhatWasAsked, InRow
<1>9. NotYetMade'
  BY <1>1 DEF SessionInv, NotYetMade
<1> QED
  BY <1>5, <1>7, <1>8, <1>9 DEF SessionInv, Loaded

\* What is saved is what was asked for: the copy was, and both change alike.
LEMMA AfterAsked ==
    ASSUME TypeInv, NEW r \in Requests, Active(r), Answered(r), Fit(r),
           requests[r].op \notin {"clear", "checkout"} => requests[r].cart = wanted
    PROVE  After(requests[r].op, requests[r].book, requests[r].cart)
              = [x \in Books |-> Asked(r, x)]
<1> DEFINE op == requests[r].op
           book == requests[r].book
<1>1. op \in {"add", "remove", "clear", "checkout", "login"}
  BY DEF Answered, TypeInv, TypeOK, Request, Operations
<1>2. wanted = [x \in Books |-> wanted[x]]
  BY DEF TypeInv, TypeOK, Carts
<1>3. CASE op \in {"clear", "checkout"}
  BY <1>3 DEF After, Asked, Empty
<1>4. CASE op = "login"
  BY <1>2, <1>4 DEF After, Asked
<1>5. CASE op = "remove"
  <2>1. After(op, book, wanted) = [wanted EXCEPT ![book] = 0]
    BY <1>5 DEF After
  <2>2. [wanted EXCEPT ![book] = 0] = [x \in Books |-> IF book = x THEN 0 ELSE wanted[x]]
    BY <1>2
  <2>3. \A x \in Books : Asked(r, x) = IF book = x THEN 0 ELSE wanted[x]
    BY <1>5 DEF Asked
  <2> QED
    BY <1>5, <2>1, <2>2, <2>3
<1>6. CASE op = "add"
  <2>1. After(op, book, wanted) = [wanted EXCEPT ![book] = @ + 1]
    BY <1>6 DEF After
  <2>2. [wanted EXCEPT ![book] = @ + 1]
           = [x \in Books |-> IF book = x THEN wanted[x] + 1 ELSE wanted[x]]
    BY <1>2
  <2>3. \A x \in Books : Asked(r, x) = IF book = x THEN wanted[x] + 1 ELSE wanted[x]
    BY <1>6 DEF Asked
  <2> QED
    BY <1>6, <2>1, <2>2, <2>3
<1> QED
  BY <1>1, <1>3, <1>4, <1>5, <1>6

LEMMA SaveSession ==
    ASSUME TypeInv, SessionInv, NEW r \in Requests, Save(r)
    PROVE  SessionInv'
<1> DEFINE key == requests[r].key
           new == made + 1
<1>1. PICK cart : cart = After(requests[r].op, requests[r].book, requests[r].cart)
  OBVIOUS
<1>2. /\ Answered(r) /\ EndsChanging(r, key) /\ Remembers(r, cart)
      /\ IF MakesSession(r)
         THEN /\ made < MaxSessions
              /\ made' = new /\ cookie' = new
              /\ rows' = [k \in SessionKeys |-> IF k = new THEN cart
                                                ELSE IF k = key THEN Gone ELSE rows[k]]
         ELSE /\ Alive(key)
              /\ rows' = [rows EXCEPT ![key] = cart]
              /\ cookie' = key /\ made' = made
  BY <1>1 DEF Save
<1>3. Leaves(r, key)
  BY <1>2, EndsChangingLeaves DEF TypeInv, TypeOK
<1>4. /\ Active(r) /\ Fit(r) /\ key \in 0..made /\ made \in 0..MaxSessions
      /\ MaxSessions \in Nat /\ cookie \in 0..made
  <2>1. key \in 0..MaxSessions /\ made \in 0..MaxSessions /\ MaxSessions \in Nat
        /\ cookie \in 0..made
    BY CartAssumption DEF TypeInv, TypeOK, Request
  <2>2. Active(r) /\ Fit(r)
    BY <1>2 DEF Answered, Active, SessionInv, Loaded
  <2> QED
    BY <2>1, <2>2 DEF Fit
<1>5. /\ wanted' = [x \in Books |-> Asked(r, x)]
      /\ ~excused' => /\ ~requests[r].stale /\ (Alive(cookie) => key = cookie)
                      /\ ~excused \/ (requests[r].op \in {"clear", "checkout"} /\ Alone(r))
  BY <1>2 DEF Remembers, ExcusedAfter, Forks
<1>6. key = 0 => MakesSession(r)
  BY DEF MakesSession
<1>7. requests[r].key = key
  OBVIOUS
<1>8. rows \in [SessionKeys -> Carts \cup {Gone}] /\ cart \in Carts /\ Gone \notin Carts
  BY <1>1, <1>2, AfterTypes, CartAssumption DEF TypeInv, TypeOK, SessionInv, Carts
<1> HIDE DEF key
<1>9. /\ made <= made' /\ made' \in Nat /\ made' <= MaxSessions /\ cookie' \in SessionKeys
      /\ rows'[cookie'] = cart
      /\ \A j \in SessionKeys : j <= made /\ j # key => rows'[j] = rows[j]
      /\ \A j \in SessionKeys : j > made' => rows'[j] = rows[j] /\ j > made
      /\ cookie' \in {key, new}
  BY <1>2, <1>4, <1>6, <1>8 DEF SessionKeys
<1>10. ASSUME NEW q \in Requests PROVE Active(q)' => Fit(q)'
  <2>1. CASE q = r
    BY <2>1, <1>3 DEF Leaves, Idle, Active
  <2>2. CASE q # r
    <3>1. Kept(q, key)
      BY <1>3, <2>2 DEF Leaves
    <3> QED
      BY <1>9, <3>1, KeptFit DEF SessionInv
  <2> QED
    BY <2>1, <2>2
<1>11. OneSession'
  <2>1. ASSUME ~excused', NEW q \in Requests, Active(q)', requests'[q].key # 0,
               ~requests'[q].stale
        PROVE  FALSE
    <3>1. q # r /\ Kept(q, key)
      BY <1>3, <2>1 DEF Leaves, Idle, Active
    <3>2. /\ Active(q) /\ ~requests[q].stale
          /\ requests[q].key # 0 /\ requests[q].key # key
      BY <2>1, <3>1 DEF Kept, Active
    <3>3. ~excused
      BY <1>5, <2>1, <3>1, <3>2 DEF Alone
    <3>4. Alive(requests[q].key) /\ requests[q].key = cookie
      BY <3>2, <3>3 DEF SessionInv, Loaded, Fit, OneSession
    <3> QED
      BY <1>5, <2>1, <3>2, <3>4
  <2> QED
    BY <2>1 DEF OneSession
<1>12. CartIsWhatWasAsked'
  <2>1. ASSUME ~excused', requests[r].op \notin {"clear", "checkout"}
        PROVE  requests[r].cart = wanted
    <3>1. ~excused /\ ~requests[r].stale /\ (Alive(cookie) => key = cookie)
          /\ InRow(cookie) = wanted
      BY <1>5, <2>1 DEF SessionInv, CartIsWhatWasAsked
    <3>2. CASE key = 0
      BY <1>4, <1>7, <3>1, <3>2 DEF Fit, InRow, Alive
    <3>3. CASE key # 0
      <4>1. key = cookie /\ Alive(key)
        BY <1>4, <1>7, <3>1, <3>3 DEF SessionInv, OneSession, Fit
      <4>2. requests[r].op # "logout"
        BY <1>2 DEF Answered
      <4>3. requests[r].cart = rows[key]
        BY <1>4, <1>7, <2>1, <3>1, <3>3, <4>2 DEF Fit
      <4> QED
        BY <3>1, <4>1, <4>3 DEF InRow
    <3> QED
      BY <3>2, <3>3
  <2>2. ASSUME ~excused' PROVE cart = wanted'
    BY <1>1, <1>2, <1>4, <1>5, <2>1, <2>2, AfterAsked
  <2>3. InRow(cookie)' = cart
    <3>1. cookie' # 0
      BY <1>9 DEF SessionKeys
    <3> QED
      BY <1>8, <1>9, <3>1 DEF InRow, Alive
  <2> QED
    BY <2>2, <2>3 DEF CartIsWhatWasAsked
<1>13. NotYetMade'
  BY <1>9 DEF SessionInv, NotYetMade
<1> QED
  BY <1>10, <1>11, <1>12, <1>13 DEF SessionInv, Loaded

LEMMA PlaceSession ==
    ASSUME TypeInv, SessionInv, NEW r \in Requests, Place(r)
    PROVE  SessionInv'
<1>1. requests \in [Requests -> Request]
  BY DEF TypeInv, TypeOK
<1>2. UNCHANGED <<rows, made, cookie, wanted, excused>> /\ requests[r].at = "running"
  BY DEF Place, session
<1>3. ASSUME NEW q \in Requests
      PROVE  /\ Active(q)' <=> Active(q)
             /\ requests'[q].op = requests[q].op /\ requests'[q].book = requests[q].book
             /\ requests'[q].sent = requests[q].sent /\ requests'[q].key = requests[q].key
             /\ requests'[q].cart = requests[q].cart
             /\ requests'[q].stale = requests[q].stale
  <2>1. requests[q] \in Request
    BY <1>1
  <2>2. CASE q = r
    <3>1. requests'[q] = [requests[q] EXCEPT !.at = "placed"]
      BY <2>2 DEF Place
    <3> QED
      BY <1>2, <2>1, <2>2, <3>1 DEF Active, Request
  <2>3. CASE q # r
    <3>1. requests'[q] = [requests[q] EXCEPT !.old =
             requests[q].old \/ (Active(q) /\ requests[q].key = requests[r].key)]
      BY <2>3 DEF Place
    <3> QED
      BY <2>1, <3>1 DEF Active, Request
  <2> QED
    BY <2>2, <2>3
<1>4. ASSUME NEW q \in Requests PROVE Fit(q)' <=> Fit(q)
  BY <1>2, <1>3 DEF Fit, Alive
<1>5. Loaded'
  BY <1>3, <1>4 DEF SessionInv, Loaded
<1>6. OneSession'
  BY <1>2, <1>3 DEF SessionInv, OneSession
<1>7. NotYetMade' /\ CartIsWhatWasAsked'
  BY <1>2 DEF SessionInv, NotYetMade, CartIsWhatWasAsked, InRow, Alive
<1> QED
  BY <1>5, <1>6, <1>7 DEF SessionInv

LEMMA ExpireSession ==
    ASSUME TypeInv, SessionInv, NEW k \in SessionKeys, Expire(k)
    PROVE  SessionInv'
<1>1. \A q \in Requests : Kept(q, k)
  BY ExpireKeeps
<1>2. /\ rows' = [rows EXCEPT ![k] = Gone] /\ Alive(k)
      /\ wanted' = IF k = cookie THEN Empty ELSE wanted
      /\ UNCHANGED <<made, cookie, excused>>
  BY DEF Expire
<1>3. made \in Nat /\ cookie \in 0..MaxSessions /\ rows = [j \in SessionKeys |-> rows[j]]
      /\ MaxSessions \in Nat
  BY CartAssumption DEF TypeInv, TypeOK
<1>4. rows'[k] = Gone /\ \A j \in SessionKeys \ {k} : rows'[j] = rows[j]
  BY <1>2, <1>3
<1>5. Loaded'
  <2>1. ASSUME NEW q \in Requests PROVE Active(q)' => Fit(q)'
    BY <1>1, <1>2, <1>3, <1>4, KeptFit DEF SessionInv
  <2> QED
    BY <2>1 DEF Loaded
<1>6. OneSession'
  BY <1>1, <1>2 DEF SessionInv, OneSession, Kept, Active
<1>7. CartIsWhatWasAsked'
  <2>1. CASE k = cookie
    BY <1>2, <1>4, <2>1 DEF CartIsWhatWasAsked, InRow, Alive
  <2>2. CASE k # cookie
    <3>1. cookie = 0 \/ (cookie \in SessionKeys \ {k})
      BY <1>3, <2>2 DEF SessionKeys
    <3>2. InRow(cookie)' = InRow(cookie)
      BY <1>2, <1>4, <3>1 DEF InRow, Alive
    <3> QED
      BY <1>2, <2>2, <3>2 DEF SessionInv, CartIsWhatWasAsked
  <2> QED
    BY <2>1, <2>2
<1>8. NotYetMade'
  BY <1>2, <1>4 DEF SessionInv, NotYetMade
<1> QED
  BY <1>5, <1>6, <1>7, <1>8 DEF SessionInv

(***************************************************************************)
(* What was bought                                                         *)
(***************************************************************************)

\* A checkout orders no more than its copy holds.
Holding ==
    \A r \in Requests :
       Active(r) /\ requests[r].op = "checkout" =>
          \A b \in Books : requests[r].items[b] <= requests[r].cart[b]

\* An order that waits for its answer was made in a session, and every other
\* request that loaded that session has a copy of the units it ordered.
Waiting ==
    \A r \in Placing :
       /\ requests[r].op = "checkout" /\ requests[r].key # 0
       /\ \A q \in Requests : q # r /\ Active(q) /\ requests[q].key = requests[r].key
                                => requests[q].old

OneOrder ==
    ~twice => \A r, q \in Placing : r # q => requests[r].key # requests[q].key

\* claim[k] units are still to come from session k, or were just ordered: as
\* many as its cart holds, as a request may yet save into it, as the order that
\* waits for its answer took.
Covered(b, claim) ==
    \A k \in SessionKeys : Alive(k) =>
       /\ rows[k][b] <= claim[k]
       /\ \A q \in Requests : requests[q].key = k =>
             /\ requests[q].at = "placed" => requests[q].items[b] <= claim[k]
             /\ requests[q].at = "running" /\ ~requests[q].old =>
                   requests[q].cart[b] <= claim[k]
Due(b) == [r \in Requests |-> IF requests[r].at = "placed" THEN requests[r].items[b] ELSE 0]
Accounts(b, claim) ==
    /\ claim \in [SessionKeys -> Nat]
    /\ Covered(b, claim)
    /\ bought[b] + SumFunctionOnSet(claim, SessionKeys)
          <= added[b] + SumFunctionOnSet(Due(b), Requests)
Claimed == ~twice => \A b \in Books : \E claim : Accounts(b, claim)

SaleInv == Holding /\ Waiting /\ OneOrder /\ Claimed

\* The sums are over finite sets and of integers.
LEMMA SumsAreFinite ==
    ASSUME TypeInv, NEW b \in Books
    PROVE  /\ IsFiniteSet(SessionKeys) /\ IsFiniteSet(Requests)
           /\ \A r \in Requests : /\ requests[r].items[b] \in Nat
                                  /\ requests[r].cart[b] \in Nat
                                  /\ Due(b)[r] \in Nat
           /\ bought[b] \in Int /\ added[b] \in Nat
           /\ SumFunctionOnSet(Due(b), Requests) \in Int
<1>1. IsFiniteSet(SessionKeys) /\ IsFiniteSet(Requests)
  BY CartAssumption, FS_Interval DEF SessionKeys
<1>2. /\ \A r \in Requests : requests[r].items[b] \in Nat /\ requests[r].cart[b] \in Nat
      /\ bought[b] \in Int /\ added[b] \in Nat
  BY CartAssumption DEF TypeInv, TypeOK, Request, Carts
<1>3. \A r \in Requests : Due(b)[r] \in Nat
  BY <1>2 DEF Due
<1>4. PICK f : f = Due(b)
  OBVIOUS
<1>5. SumFunctionOnSet(f, Requests) \in Int
  BY <1>1, <1>3, <1>4, SumType
<1> QED
  BY <1>1, <1>2, <1>3, <1>4, <1>5

LEMMA ClaimSum ==
    ASSUME NEW claim \in [SessionKeys -> Nat]
    PROVE  SumFunctionOnSet(claim, SessionKeys) \in Int
<1>1. IsFiniteSet(SessionKeys)
  BY CartAssumption, FS_Interval DEF SessionKeys
<1> QED
  BY <1>1, SumType

\* Due changes with the requests: not at all, or at one of them.
LEMMA DueSame ==
    ASSUME TypeInv, TypeInv', NEW b \in Books,
           \A q \in Requests : Due(b)'[q] = Due(b)[q]
    PROVE  SumFunctionOnSet(Due(b), Requests)' = SumFunctionOnSet(Due(b), Requests)
<1>1. PICK f : f = Due(b)
  OBVIOUS
<1>2. PICK g : g = Due(b)'
  OBVIOUS
<1>3. IsFiniteSet(Requests) /\ \A q \in Requests : f[q] \in Int /\ f[q] = g[q]
  BY <1>1, <1>2, SumsAreFinite
<1>4. SumFunctionOnSet(f, Requests) = SumFunctionOnSet(g, Requests)
  BY <1>3, SumOfSame
<1> QED
  BY <1>1, <1>2, <1>4

LEMMA DueChanges ==
    ASSUME TypeInv, TypeInv', NEW b \in Books, NEW r \in Requests,
           \A q \in Requests \ {r} : Due(b)'[q] = Due(b)[q],
           NEW i \in Int, NEW j \in Int, i = Due(b)[r], j = Due(b)'[r]
    PROVE  SumFunctionOnSet(Due(b), Requests)'
              = SumFunctionOnSet(Due(b), Requests) - i + j
<1>1. PICK f : f = Due(b)
  OBVIOUS
<1>2. PICK g : g = Due(b)'
  OBVIOUS
<1>3. IsFiniteSet(Requests) /\ (\A q \in Requests : f[q] \in Int)
      /\ f[r] = i /\ g[r] = j
  BY <1>1, <1>2, SumsAreFinite
<1>4. \A q \in Requests \ {r} : f[q] = g[q]
  BY <1>1, <1>2
<1>5. \A q \in Requests : f[q] \in Int /\ g[q] \in Int
  BY <1>3, <1>4
<1>6. IsFiniteSet(Requests)
  BY <1>3
<1>7. SumFunctionOnSet(g, Requests) = SumFunctionOnSet(f, Requests) - f[r] + g[r]
  BY <1>4, <1>5, <1>6, SumOfChange
<1> QED
  BY <1>1, <1>2, <1>3, <1>7

LEMMA ClaimChanges ==
    ASSUME NEW claim \in [SessionKeys -> Nat], NEW new \in [SessionKeys -> Nat],
           NEW k \in SessionKeys, \A j \in SessionKeys \ {k} : claim[j] = new[j]
    PROVE  SumFunctionOnSet(new, SessionKeys)
              = SumFunctionOnSet(claim, SessionKeys) - claim[k] + new[k]
<1>1. IsFiniteSet(SessionKeys)
  BY CartAssumption, FS_Interval DEF SessionKeys
<1>2. \A j \in SessionKeys : claim[j] \in Int /\ new[j] \in Int
  OBVIOUS
<1> QED
  BY <1>1, <1>2, SumOfChange

\* Request q goes on as it was, or with an older copy.
Same(q) ==
    /\ requests'[q].at = requests[q].at /\ requests'[q].op = requests[q].op
    /\ requests'[q].key = requests[q].key /\ requests'[q].cart = requests[q].cart
    /\ requests'[q].items = requests[q].items /\ requests'[q].old = requests[q].old

LEMMA OthersAreSame ==
    ASSUME requests \in [Requests -> Request], NEW r \in Requests, NEW k,
           Ends(r) \/ EndsChanging(r, k)
    PROVE  requests'[r] = Idle /\ \A q \in Requests \ {r} : Same(q)
<1>1. CASE Ends(r)
  BY <1>1 DEF Ends, Same
<1>2. CASE EndsChanging(r, k)
  <2> DEFINE age(q) == requests[q].stale \/ (Active(q) /\ k # 0 /\ requests[q].key = k)
  <2>1. ASSUME NEW q \in Requests \ {r}
        PROVE  requests[q] \in Request /\ requests'[q] = [requests[q] EXCEPT !.stale = age(q)]
    BY <1>2 DEF EndsChanging
  <2> HIDE DEF age
  <2>2. ASSUME NEW q \in Requests \ {r} PROVE Same(q)
    BY <2>1 DEF Same, Request
  <2> QED
    BY <1>2, <2>2 DEF EndsChanging
<1> QED
  BY <1>1, <1>2

\* Who ends leaves the others and their copies as they are.
LEMMA OrdersStay ==
    ASSUME Holding, Waiting, OneOrder, twice => twice',
           \A q \in Requests : Same(q) \/ requests'[q] = Idle
    PROVE  Holding' /\ Waiting' /\ OneOrder'
<1>1. ASSUME NEW q \in Requests, Active(q)' PROVE Same(q) /\ Active(q)
  BY <1>1 DEF Active, Idle, Same
<1>2. Holding'
  BY <1>1 DEF Holding, Same
<1>3. ASSUME NEW q \in Requests, q \in Placing' PROVE Same(q) /\ q \in Placing
  BY <1>3 DEF Placing, Idle, Same
<1>4. Placing' \in SUBSET Requests
  BY DEF Placing
<1>5. ASSUME NEW p \in Placing'
      PROVE  /\ requests'[p].op = "checkout" /\ requests'[p].key # 0
             /\ \A q \in Requests : q # p /\ Active(q)' /\ requests'[q].key = requests'[p].key
                                      => requests'[q].old
  <2>1. p \in Requests /\ Same(p) /\ p \in Placing
    BY <1>3, <1>4
  <2>2. ASSUME NEW q \in Requests, q # p, Active(q)', requests'[q].key = requests'[p].key
        PROVE  requests'[q].old
    <3>1. Same(q) /\ Active(q)
      BY <1>1, <2>2
    <3>2. requests[q].old
      BY <2>1, <2>2, <3>1 DEF Waiting, Same
    <3> QED
      BY <3>1, <3>2 DEF Same
  <2> QED
    BY <2>1, <2>2 DEF Waiting, Same
<1>6. Waiting'
  BY <1>5 DEF Waiting
<1>7. OneOrder'
  BY <1>3, <1>4 DEF OneOrder, Same
<1> QED
  BY <1>2, <1>6, <1>7

\* A step that buys, adds and saves nothing leaves every claim as it is.
LEMMA QuietSale ==
    ASSUME TypeInv, TypeInv', SaleInv,
           \A q \in Requests :
              Same(q) \/ (requests'[q] = Idle /\ (requests[q].at # "placed" \/ twice')),
           \A k \in SessionKeys : rows'[k] = rows[k] \/ rows'[k] = Gone,
           bought' = bought, added' = added, twice => twice'
    PROVE  SaleInv'
<1>1. Holding' /\ Waiting' /\ OneOrder'
  BY OrdersStay DEF SaleInv
<1>2. ASSUME ~twice', NEW b \in Books PROVE \E claim : Accounts(b, claim)'
  <2>1. PICK claim : Accounts(b, claim)
    BY <1>2 DEF SaleInv, Claimed
  <2>2. ASSUME NEW q \in Requests PROVE Due(b)'[q] = Due(b)[q]
    BY <1>2 DEF Due, Same, Idle
  <2>3. SumFunctionOnSet(Due(b), Requests)' = SumFunctionOnSet(Due(b), Requests)
    BY <2>2, DueSame
  <2>4. Covered(b, claim)'
    <3>1. ASSUME NEW k \in SessionKeys, Alive(k)'
          PROVE  Alive(k) /\ rows'[k] = rows[k] /\ k # 0
      BY <3>1 DEF Alive
    <3>2. ASSUME NEW q \in Requests, requests'[q].at # "idle" PROVE Same(q)
      BY <3>2 DEF Idle
    <3>3. Covered(b, claim)
      BY <2>1 DEF Accounts
    <3> QED
      BY <3>1, <3>2, <3>3 DEF Covered, Same
  <2>5. Accounts(b, claim)'
    BY <2>1, <2>3, <2>4 DEF Accounts
  <2> QED
    BY <2>5
<1>3. Claimed'
  BY <1>2 DEF Claimed
<1> QED
  BY <1>1, <1>3 DEF SaleInv

LEMMA StartSale ==
    ASSUME TypeInv, TypeInv', Loaded', SaleInv, NEW r \in Requests, NEW op \in Operations, NEW b,
           Start(r, op, b)
    PROVE  SaleInv'
<1> DEFINE key == IF Alive(cookie) THEN cookie ELSE 0
           cart == IF op \in {"clear", "logout"} THEN Empty ELSE InRow(key)
           items == [x \in Books |->
                       IF op = "checkout" /\ x \in catalogue THEN InRow(key)[x] ELSE 0]
           old == \E q \in Requests : requests[q].at = "placed" /\ requests[q].key = key
           new == [at |-> "running", op |-> op, book |-> b, sent |-> cookie # 0,
                   key |-> key, cart |-> cart, items |-> items, stale |-> FALSE, old |-> old]
<1>1. /\ requests' = [requests EXCEPT ![r] = new] /\ ~Active(r)
      /\ UNCHANGED <<rows, bought, added, twice>>
  BY DEF Start, session, shop, history
<1>2. /\ requests'[r].at = "running" /\ requests'[r].op = op /\ requests'[r].key = key
      /\ requests'[r].cart = cart /\ requests'[r].items = items
      /\ requests'[r].old = old
      /\ \A q \in Requests \ {r} : requests'[q] = requests[q]
  BY <1>1 DEF TypeInv, TypeOK
<1>3. key \in 0..MaxSessions
  BY CartAssumption DEF TypeInv, TypeOK
<1>4. \A x \in Books : InRow(key)[x] \in Nat
  BY <1>3, InRowType, CartAssumption DEF Carts
<1>5. \A x \in Books : items[x] <= InRow(key)[x] /\ cart[x] <= InRow(key)[x]
  BY <1>4 DEF Empty
<1>6. op = "checkout" => cart = InRow(key)
  OBVIOUS
<1>7. old <=> \E q \in Requests : requests[q].at = "placed" /\ requests[q].key = key
  OBVIOUS
<1> HIDE DEF key, cart, items, old, new
<1>8. Holding'
  <2>1. ASSUME NEW q \in Requests, Active(q)', requests'[q].op = "checkout", NEW x \in Books
        PROVE  requests'[q].items[x] <= requests'[q].cart[x]
    <3>1. CASE q = r
      BY <1>2, <1>5, <1>6, <2>1, <3>1
    <3>2. CASE q # r
      BY <1>2, <2>1, <3>2 DEF SaleInv, Holding, Active
    <3> QED
      BY <3>1, <3>2
  <2> QED
    BY <2>1 DEF Holding
<1>9. Placing' = Placing /\ r \notin Placing /\ Placing \in SUBSET Requests
  BY <1>1, <1>2 DEF Placing, Active
<1>10. Waiting'
  <2>1. ASSUME NEW p \in Placing, NEW q \in Requests, q # p, Active(q)',
               requests'[q].key = requests'[p].key
        PROVE  requests'[q].old
    <3>1. p \in Requests /\ p # r /\ requests'[p] = requests[p] /\ requests[p].at = "placed"
      BY <1>2, <1>9 DEF Placing
    <3>2. CASE q = r
      BY <1>2, <1>7, <2>1, <3>1, <3>2
    <3>3. CASE q # r
      BY <1>2, <2>1, <3>1, <3>3 DEF SaleInv, Waiting, Active
    <3> QED
      BY <3>2, <3>3
  <2>2. ASSUME NEW p \in Placing
        PROVE  requests'[p].op = "checkout" /\ requests'[p].key # 0
    BY <1>2, <1>9 DEF SaleInv, Waiting
  <2> QED
    BY <1>9, <2>1, <2>2 DEF Waiting
<1>11. OneOrder'
  BY <1>1, <1>2, <1>9 DEF SaleInv, OneOrder
<1>12. ASSUME ~twice', NEW x \in Books PROVE \E claim : Accounts(x, claim)'
  <2>1. PICK claim : Accounts(x, claim)
    BY <1>1, <1>12 DEF SaleInv, Claimed
  <2>2. ASSUME NEW q \in Requests PROVE Due(x)'[q] = Due(x)[q]
    BY <1>1, <1>2 DEF Due, Active
  <2>3. SumFunctionOnSet(Due(x), Requests)' = SumFunctionOnSet(Due(x), Requests)
    BY <2>2, DueSame
  <2>4. Covered(x, claim) /\ claim \in [SessionKeys -> Nat]
    BY <2>1 DEF Accounts
  <2>5. ASSUME NEW k \in SessionKeys, Alive(k), NEW q \in Requests, requests'[q].key = k
        PROVE  /\ requests'[q].at = "placed" => requests'[q].items[x] <= claim[k]
               /\ requests'[q].at = "running" /\ ~requests'[q].old =>
                     requests'[q].cart[x] <= claim[k]
    <3>1. CASE q = r
      <4>1. InRow(key) = rows[k] /\ rows[k][x] <= claim[k] /\ claim[k] \in Nat
        BY <1>2, <2>4, <2>5, <3>1 DEF InRow, Covered
      <4>2. cart[x] \in Nat /\ InRow(key)[x] \in Nat
        <5>1. requests'[r].cart[x] \in Nat
          BY CartAssumption DEF TypeInv, TypeOK, Request, Carts
        <5> QED
          BY <5>1, <1>2, <1>4
      <4> QED
        BY <1>2, <1>5, <3>1, <4>1, <4>2
    <3>2. CASE q # r
      BY <1>2, <2>4, <2>5, <3>2 DEF Covered
    <3> QED
      BY <3>1, <3>2
  <2>6. Covered(x, claim)'
    BY <1>1, <2>4, <2>5 DEF Covered, Alive
  <2>7. Accounts(x, claim)'
    BY <1>1, <2>1, <2>3, <2>6 DEF Accounts
  <2> QED
    BY <2>7
<1>13. Claimed'
  BY <1>12 DEF Claimed
<1> QED
  BY <1>8, <1>10, <1>11, <1>13 DEF SaleInv

\* An order takes its units from its session's cart, which nobody may then save.
LEMMA PlaceSale ==
    ASSUME TypeInv, TypeInv', SaleInv, NEW r \in Requests, Place(r)
    PROVE  SaleInv'
<1>1. /\ requests[r].at = "running" /\ requests[r].op = "checkout" /\ requests[r].key \in known
      /\ bought' = [b \in Books |-> bought[b] + requests[r].items[b]]
      /\ twice' = (twice \/ requests[r].old)
      /\ UNCHANGED <<rows, added>>
  BY DEF Place, Ordered, session
<1>2. /\ requests[r].key \in SessionKeys /\ requests[r].key # 0
      /\ requests \in [Requests -> Request]
  <2>1. /\ made \in 0..MaxSessions /\ MaxSessions \in Nat /\ known \subseteq 1..made
        /\ requests \in [Requests -> Request]
    BY CartAssumption DEF TypeInv, TypeOK
  <2>2. requests[r].key \in 1..made
    BY <1>1, <2>1
  <2> QED
    BY <2>1, <2>2 DEF SessionKeys
<1>3. /\ requests'[r].at = "placed" /\ requests'[r].op = requests[r].op
      /\ requests'[r].key = requests[r].key /\ requests'[r].cart = requests[r].cart
      /\ requests'[r].items = requests[r].items
  <2>1. requests'[r] = [requests[r] EXCEPT !.at = "placed"] /\ requests[r] \in Request
    BY <1>2 DEF Place
  <2> QED
    BY <2>1 DEF Request
<1>4. ASSUME NEW q \in Requests \ {r}
      PROVE  /\ requests'[q].at = requests[q].at /\ requests'[q].op = requests[q].op
             /\ requests'[q].key = requests[q].key /\ requests'[q].cart = requests[q].cart
             /\ requests'[q].items = requests[q].items
             /\ requests[q].old => requests'[q].old
             /\ Active(q) /\ requests[q].key = requests[r].key => requests'[q].old
  <2> DEFINE old == requests[q].old \/ (Active(q) /\ requests[q].key = requests[r].key)
  <2>1. requests'[q] = [requests[q] EXCEPT !.old = old] /\ requests[q] \in Request
    BY <1>2 DEF Place
  <2>2. old <=> requests[q].old \/ (Active(q) /\ requests[q].key = requests[r].key)
    OBVIOUS
  <2> HIDE DEF old
  <2>3. requests'[q].old = old
    BY <2>1 DEF Request
  <2> QED
    BY <2>1, <2>2, <2>3 DEF Request
<1>5. Placing' = Placing \cup {r} /\ r \notin Placing /\ Placing \in SUBSET Requests
  BY <1>1, <1>3, <1>4 DEF Placing
<1>6. Holding'
  <2>1. ASSUME NEW q \in Requests
        PROVE  /\ requests'[q].items = requests[q].items /\ requests'[q].cart = requests[q].cart
               /\ requests'[q].op = requests[q].op /\ (Active(q)' => Active(q))
    BY <1>1, <1>3, <1>4 DEF Active
  <2> QED
    BY <2>1 DEF SaleInv, Holding
<1>7. Waiting'
  <2>1. ASSUME NEW p \in Placing \cup {r}
        PROVE  requests'[p].op = "checkout" /\ requests'[p].key # 0
    BY <1>1, <1>2, <1>3, <1>4, <1>5 DEF SaleInv, Waiting
  <2>2. ASSUME NEW p \in Placing \cup {r}, NEW q \in Requests, q # p, Active(q)',
               requests'[q].key = requests'[p].key
        PROVE  requests'[q].old
    <3>1. CASE p = r
      BY <1>3, <1>4, <2>2, <3>1 DEF Active
    <3>2. CASE p # r /\ q # r
      <4>1. Active(q) /\ requests[q].key = requests[p].key
        BY <1>4, <1>5, <2>2, <3>2 DEF Active
      <4> QED
        BY <1>4, <2>2, <3>2, <4>1 DEF SaleInv, Waiting
    <3>3. CASE p # r /\ q = r
      <4>1. requests'[r].old = requests[r].old
        <5>1. requests'[r] = [requests[r] EXCEPT !.at = "placed"] /\ requests[r] \in Request
          BY <1>2 DEF Place
        <5> QED
          BY <5>1 DEF Request
      <4>2. Active(r) /\ requests[r].key = requests[p].key /\ p \in Placing
        BY <1>1, <1>3, <1>4, <1>5, <2>2, <3>3 DEF Active
      <4> QED
        BY <2>2, <3>3, <4>1, <4>2 DEF SaleInv, Waiting
    <3> QED
      BY <3>1, <3>2, <3>3
  <2> QED
    BY <1>5, <2>1, <2>2 DEF Waiting
<1>8. ASSUME ~twice', NEW p \in Placing PROVE requests[p].key # requests[r].key
  <2>1. Active(r) /\ p # r
    BY <1>1, <1>5 DEF Active
  <2> QED
    BY <1>1, <1>8, <2>1 DEF SaleInv, Waiting
<1>9. OneOrder'
  <2>1. ASSUME ~twice', NEW p \in Placing \cup {r}, NEW q \in Placing \cup {r}, p # q
        PROVE  requests'[p].key # requests'[q].key
    <3>1. /\ requests'[p].key = requests[p].key /\ requests'[q].key = requests[q].key
      BY <1>3, <1>4, <1>5
    <3>2. CASE p \in Placing /\ q \in Placing
      BY <1>1, <2>1, <3>1, <3>2 DEF SaleInv, OneOrder
    <3>3. CASE p = r \/ q = r
      BY <1>8, <2>1, <3>1, <3>3
    <3> QED
      BY <3>2, <3>3
  <2> QED
    BY <1>5, <2>1 DEF OneOrder
<1>10. ASSUME ~twice', NEW b \in Books PROVE \E claim : Accounts(b, claim)'
  <2>1. PICK claim : Accounts(b, claim)
    BY <1>1, <1>10 DEF SaleInv, Claimed
  <2>2. Covered(b, claim) /\ claim \in [SessionKeys -> Nat]
    BY <2>1 DEF Accounts
  <2> DEFINE n == requests[r].items[b]
  <2>3. /\ n \in Int /\ bought[b] \in Int /\ SumFunctionOnSet(Due(b), Requests) \in Int
        /\ requests[r].cart[b] \in Nat /\ added[b] \in Nat
    BY SumsAreFinite
  <2>4. 0 = Due(b)[r] /\ n = Due(b)'[r] /\ \A q \in Requests \ {r} : Due(b)'[q] = Due(b)[q]
    BY <1>1, <1>3, <1>4 DEF Due
  <2>5. SumFunctionOnSet(Due(b), Requests)' = SumFunctionOnSet(Due(b), Requests) - 0 + n
    <3> HIDE DEF n
    <3> QED
      BY <2>3, <2>4, DueChanges
  <2>6. ASSUME NEW k \in SessionKeys, Alive(k), NEW q \in Requests, requests'[q].key = k
        PROVE  /\ requests'[q].at = "placed" => requests'[q].items[b] <= claim[k]
               /\ requests'[q].at = "running" /\ ~requests'[q].old =>
                     requests'[q].cart[b] <= claim[k]
    <3>1. CASE q = r
      <4>1. requests[r].cart[b] <= claim[k] /\ n <= requests[r].cart[b] /\ claim[k] \in Nat
        BY <1>1, <1>3, <1>10, <2>2, <2>6, <3>1 DEF Covered, SaleInv, Holding, Active
      <4> QED
        BY <1>3, <2>3, <3>1, <4>1
    <3>2. CASE q # r
      BY <1>4, <2>2, <2>6, <3>2 DEF Covered
    <3> QED
      BY <3>1, <3>2
  <2>7. Covered(b, claim)'
    BY <1>1, <2>2, <2>6 DEF Covered, Alive
  <2>8. bought'[b] = bought[b] + n /\ added' = added
    BY <1>1
  <2>9. SumFunctionOnSet(claim, SessionKeys) \in Int
    BY <2>2, ClaimSum
  <2>10. bought[b] + SumFunctionOnSet(claim, SessionKeys)
            <= added[b] + SumFunctionOnSet(Due(b), Requests)
    BY <2>1 DEF Accounts
  <2> HIDE DEF n
  <2>11. bought'[b] + SumFunctionOnSet(claim, SessionKeys)
            <= added'[b] + SumFunctionOnSet(Due(b), Requests)'
    BY <2>3, <2>5, <2>8, <2>9, <2>10
  <2>12. Accounts(b, claim)'
    BY <2>2, <2>7, <2>11 DEF Accounts
  <2> QED
    BY <2>12
<1>11. Claimed'
  BY <1>10 DEF Claimed
<1> QED
  BY <1>6, <1>7, <1>9, <1>11 DEF SaleInv

\* A cancelled order gives its units back, and its session keeps them.
LEMMA FailSale ==
    ASSUME TypeInv, TypeInv', SaleInv, NEW r \in Requests, Fail(r)
    PROVE  SaleInv'
<1>1. /\ requests[r].at = "placed" /\ Ends(r)
      /\ bought' = [b \in Books |-> bought[b] - requests[r].items[b]]
      /\ UNCHANGED <<rows, added, twice>>
  BY DEF Fail, Ordered, session, history
<1>2. requests'[r] = Idle /\ \A q \in Requests \ {r} : Same(q)
  BY <1>1, OthersAreSame DEF TypeInv, TypeOK
<1>3. Holding' /\ Waiting' /\ OneOrder'
  BY <1>1, <1>2, OrdersStay DEF SaleInv
<1>4. ASSUME ~twice', NEW b \in Books PROVE \E claim : Accounts(b, claim)'
  <2>1. PICK claim : Accounts(b, claim)
    BY <1>1, <1>4 DEF SaleInv, Claimed
  <2>2. Covered(b, claim) /\ claim \in [SessionKeys -> Nat]
    BY <2>1 DEF Accounts
  <2> DEFINE n == requests[r].items[b]
  <2>3. /\ n \in Int /\ bought[b] \in Int /\ SumFunctionOnSet(Due(b), Requests) \in Int
        /\ added[b] \in Nat
    BY SumsAreFinite
  <2>4. n = Due(b)[r] /\ 0 = Due(b)'[r] /\ \A q \in Requests \ {r} : Due(b)'[q] = Due(b)[q]
    BY <1>1, <1>2 DEF Due, Same, Idle
  <2>5. SumFunctionOnSet(Due(b), Requests)' = SumFunctionOnSet(Due(b), Requests) - n + 0
    <3> HIDE DEF n
    <3> QED
      BY <2>3, <2>4, DueChanges
  <2>6. Covered(b, claim)'
    <3>1. ASSUME NEW q \in Requests, requests'[q].at # "idle" PROVE Same(q)
      BY <1>2, <3>1 DEF Idle
    <3> QED
      BY <1>1, <2>2, <3>1 DEF Covered, Alive, Same
  <2>7. bought'[b] = bought[b] - n /\ added' = added
    BY <1>1
  <2>8. SumFunctionOnSet(claim, SessionKeys) \in Int
    BY <2>2, ClaimSum
  <2>9. bought[b] + SumFunctionOnSet(claim, SessionKeys)
            <= added[b] + SumFunctionOnSet(Due(b), Requests)
    BY <2>1 DEF Accounts
  <2> HIDE DEF n
  <2>10. bought'[b] + SumFunctionOnSet(claim, SessionKeys)
            <= added'[b] + SumFunctionOnSet(Due(b), Requests)'
    BY <2>3, <2>5, <2>7, <2>8, <2>9
  <2>11. Accounts(b, claim)'
    BY <2>2, <2>6, <2>10 DEF Accounts
  <2> QED
    BY <2>11
<1>5. Claimed'
  BY <1>4 DEF Claimed
<1> QED
  BY <1>3, <1>5 DEF SaleInv

\* What a request saves: its copy changed by its operation, at most by a unit.
LEMMA SavedUnits ==
    ASSUME TypeInv, Loaded, NEW r \in Requests, Answered(r),
           NEW cart, cart = After(requests[r].op, requests[r].book, requests[r].cart),
           Remembers(r, cart), NEW b \in Books
    PROVE  /\ cart[b] \in Nat
           /\ \E u \in {0, 1} : /\ added'[b] = added[b] + u
                                /\ cart[b] <= requests[r].cart[b] + u
                                /\ u = 1 => cart # Empty
                                /\ requests[r].op = "login" => u = 0
           /\ requests[r].op = "checkout" => cart = Empty
           /\ requests[r].op = "login" => cart = requests[r].cart
<1> DEFINE op == requests[r].op
           book == requests[r].book
           copy == requests[r].cart
<1>1. Active(r) /\ op \in {"add", "remove", "clear", "checkout", "login"}
  BY DEF Answered, Active, TypeInv, TypeOK, Request, Operations
<1>2. op \in {"add", "remove"} => book \in Books
  BY <1>1 DEF Loaded, Fit
<1>3. copy \in [Books -> Nat] /\ added \in [Books -> Nat]
  BY CartAssumption DEF TypeInv, TypeOK, Request, Carts
<1>4. cart = IF op = "add" THEN [copy EXCEPT ![book] = @ + 1]
             ELSE IF op = "remove" THEN [copy EXCEPT ![book] = 0]
             ELSE IF op = "login" THEN copy ELSE Empty
  BY <1>1 DEF After
<1>5. added' = IF op = "add" THEN [added EXCEPT ![book] = @ + 1] ELSE added
  BY DEF Remembers
<1> HIDE DEF op, book, copy
<1>6. copy[b] \in Nat /\ added[b] \in Nat
  BY <1>3
<1>7. CASE op = "add" /\ book = b
  <2>1. cart[b] = copy[b] + 1 /\ added'[b] = added[b] + 1
    BY <1>3, <1>4, <1>5, <1>7
  <2>2. cart # Empty
    BY <1>6, <2>1 DEF Empty
  <2>3. \E u \in {0, 1} : /\ added'[b] = added[b] + u /\ cart[b] <= copy[b] + u
                          /\ u = 1 => cart # Empty
                          /\ op = "login" => u = 0
    BY <1>6, <1>7, <2>1, <2>2
  <2> QED
    BY <1>6, <1>7, <2>1, <2>3 DEF op, copy
<1>8. CASE ~(op = "add" /\ book = b)
  <2>1. added'[b] = added[b] /\ cart[b] \in {copy[b], 0}
    BY <1>2, <1>3, <1>4, <1>5, <1>8 DEF Empty
  <2>2. \E u \in {0, 1} : /\ added'[b] = added[b] + u /\ cart[b] <= copy[b] + u
                          /\ u = 1 => cart # Empty
                          /\ op = "login" => u = 0
    BY <1>6, <2>1
  <2>3. cart[b] \in Nat
    BY <1>6, <2>1
  <2> QED
    BY <1>4, <2>2, <2>3 DEF op, copy
<1> QED
  BY <1>7, <1>8

\* Claims that cover the row that is saved, and that no request goes without.
LEMMA SaveCovers ==
    ASSUME TypeInv, NEW r \in Requests, NEW b \in Books, NEW claim, NEW new,
           claim \in [SessionKeys -> Nat], new \in [SessionKeys -> Nat], Covered(b, claim),
           requests'[r] = Idle, \A q \in Requests \ {r} : Same(q),
           \A k \in SessionKeys :
              \/ rows'[k] = Gone
              \/ rows'[k] = rows[k] /\ claim[k] <= new[k]
              \/ /\ rows'[k][b] <= new[k]
                 /\ \/ Alive(k) /\ claim[k] <= new[k]
                    \/ \A q \in Requests \ {r} :
                          requests[q].key = k =>
                             requests[q].at = "idle" \/ (requests[q].at = "running" /\ requests[q].old)
    PROVE  Covered(b, new)'
<1>1. ASSUME NEW k \in SessionKeys, Alive(k)' PROVE rows'[k][b] <= new[k]
  <2>1. rows'[k] # Gone /\ claim[k] \in Nat /\ new[k] \in Nat
    BY <1>1 DEF Alive
  <2>2. CASE rows'[k] = rows[k] /\ claim[k] <= new[k]
    <3>1. rows[k][b] <= claim[k] /\ rows[k] \in Carts
      BY <1>1, <2>1, <2>2 DEF Covered, Alive, TypeInv, TypeOK
    <3>2. rows[k][b] \in Nat
      BY <3>1, CartAssumption DEF Carts
    <3> QED
      BY <2>1, <2>2, <3>1, <3>2
  <2> QED
    BY <1>1, <2>1, <2>2
<1>2. ASSUME NEW k \in SessionKeys, Alive(k)', NEW q \in Requests, requests'[q].key = k
      PROVE  /\ requests'[q].at = "placed" => requests'[q].items[b] <= new[k]
             /\ requests'[q].at = "running" /\ ~requests'[q].old =>
                   requests'[q].cart[b] <= new[k]
  <2>1. CASE q = r
    BY <2>1 DEF Idle
  <2>2. CASE q # r
    <3>1. Same(q) /\ requests[q].key = k
      BY <1>2, <2>2 DEF Same
    <3>2. /\ rows'[k] # Gone /\ claim[k] \in Nat /\ new[k] \in Nat /\ k # 0
          /\ requests[q].items[b] \in Nat /\ requests[q].cart[b] \in Nat
      BY <1>2, SumsAreFinite DEF Alive
    <3>3. CASE Alive(k) /\ claim[k] <= new[k]
      <4>1. /\ requests[q].at = "placed" => requests[q].items[b] <= claim[k]
            /\ requests[q].at = "running" /\ ~requests[q].old =>
                  requests[q].cart[b] <= claim[k]
        BY <3>1, <3>3 DEF Covered
      <4>2. /\ requests[q].at = "placed" => requests[q].items[b] <= new[k]
            /\ requests[q].at = "running" /\ ~requests[q].old =>
                  requests[q].cart[b] <= new[k]
        BY <3>2, <3>3, <4>1
      <4> QED
        BY <3>1, <4>2 DEF Same
    <3>4. CASE requests[q].at = "idle" \/ (requests[q].at = "running" /\ requests[q].old)
      BY <3>1, <3>4 DEF Same
    <3> QED
      BY <1>2, <2>2, <3>1, <3>2, <3>3, <3>4 DEF Alive
  <2> QED
    BY <2>1, <2>2
<1> QED
  BY <1>1, <1>2 DEF Covered

\* A checkout's answer empties the cart that its order was taken from.
LEMMA CheckoutAnswered ==
    ASSUME TypeInv, TypeInv', SaleInv, NEW r \in Requests, requests[r].at = "placed", Save(r),
           NEW b \in Books, ~twice', NEW claim, Accounts(b, claim)
    PROVE  \E new : Accounts(b, new)'
<1>1. PICK key : key = requests[r].key
  OBVIOUS
<1>2. PICK cart : cart = After(requests[r].op, requests[r].book, requests[r].cart)
  OBVIOUS
<1>3. requests[r].op = "checkout" /\ key # 0 /\ key \in SessionKeys /\ r \in Placing
  <2>1. r \in Placing
    BY DEF Placing
  <2>2. key \in 0..MaxSessions /\ MaxSessions \in Nat
    BY <1>1, CartAssumption DEF TypeInv, TypeOK, Request
  <2> QED
    BY <1>1, <2>1, <2>2 DEF SaleInv, Waiting, SessionKeys
<1>4. /\ ~MakesSession(r) /\ Alive(key) /\ rows' = [rows EXCEPT ![key] = Empty]
      /\ EndsChanging(r, key) /\ added' = added /\ bought' = bought /\ ~twice
  BY <1>1, <1>2, <1>3 DEF Save, MakesSession, After, Remembers, shop
<1>5. requests'[r] = Idle /\ \A q \in Requests \ {r} : Same(q)
  BY <1>4, OthersAreSame DEF TypeInv, TypeOK
<1>6. /\ rows'[key] = Empty /\ \A k \in SessionKeys \ {key} : rows'[k] = rows[k]
  BY <1>3, <1>4 DEF TypeInv, TypeOK
<1>7. Covered(b, claim) /\ claim \in [SessionKeys -> Nat]
      /\ bought[b] + SumFunctionOnSet(claim, SessionKeys)
            <= added[b] + SumFunctionOnSet(Due(b), Requests)
  BY DEF Accounts
<1>8. PICK n : n = requests[r].items[b]
  OBVIOUS
<1>9. n <= claim[key]
  BY <1>1, <1>3, <1>4, <1>7, <1>8 DEF Covered
<1>10. /\ n \in Int /\ bought[b] \in Int /\ SumFunctionOnSet(Due(b), Requests) \in Int
       /\ added[b] \in Int
  BY <1>8, SumsAreFinite
<1>11. n = Due(b)[r] /\ 0 = Due(b)'[r] /\ \A q \in Requests \ {r} : Due(b)'[q] = Due(b)[q]
  BY <1>5, <1>8 DEF Due, Same, Idle
<1>12. SumFunctionOnSet(Due(b), Requests)' = SumFunctionOnSet(Due(b), Requests) - n + 0
  BY <1>10, <1>11, DueChanges
<1>13. PICK new : new = [claim EXCEPT ![key] = 0]
  OBVIOUS
<1>14. /\ new \in [SessionKeys -> Nat]
       /\ SumFunctionOnSet(new, SessionKeys)
             = SumFunctionOnSet(claim, SessionKeys) - claim[key] + 0
  <2>1. /\ claim \in [SessionKeys -> Nat] /\ new \in [SessionKeys -> Nat]
        /\ key \in SessionKeys /\ new[key] = 0
    BY <1>3, <1>7, <1>13
  <2>2. \A j \in SessionKeys \ {key} : claim[j] = new[j]
    BY <1>7, <1>13
  <2>3. SumFunctionOnSet(new, SessionKeys)
           = SumFunctionOnSet(claim, SessionKeys) - claim[key] + new[key]
    BY <2>1, <2>2, ClaimChanges
  <2> QED
    BY <2>1, <2>3
<1>15. ASSUME NEW q \in Requests \ {r}, requests[q].key = key
       PROVE  requests[q].at = "idle" \/ (requests[q].at = "running" /\ requests[q].old)
  <2>1. requests[q].at \in {"idle", "running", "placed"}
    BY DEF TypeInv, TypeOK, Request
  <2>2. requests[q].at # "idle" => requests[q].old
    BY <1>1, <1>3, <1>15 DEF SaleInv, Waiting, Active
  <2>3. requests[q].at # "placed"
    BY <1>1, <1>3, <1>4, <1>15 DEF SaleInv, OneOrder, Placing
  <2> QED
    BY <2>1, <2>2, <2>3
<1>16. ASSUME NEW k \in SessionKeys
       PROVE  \/ rows'[k] = Gone
              \/ rows'[k] = rows[k] /\ claim[k] <= new[k]
              \/ /\ rows'[k][b] <= new[k]
                 /\ \/ Alive(k) /\ claim[k] <= new[k]
                    \/ \A q \in Requests \ {r} :
                          requests[q].key = k =>
                             requests[q].at = "idle" \/ (requests[q].at = "running" /\ requests[q].old)
  <2>1. CASE k = key
    BY <1>6, <1>7, <1>13, <1>15, <2>1 DEF Empty
  <2>2. CASE k # key
    <3>1. new[k] = claim[k] /\ claim[k] \in Nat
      BY <1>7, <1>13, <2>2
    <3> QED
      BY <1>6, <2>2, <3>1
  <2> QED
    BY <2>1, <2>2
<1>17. Covered(b, new)'
  BY <1>5, <1>7, <1>14, <1>16, SaveCovers
<1>18. SumFunctionOnSet(claim, SessionKeys) \in Int /\ claim[key] \in Nat
  BY <1>3, <1>7, ClaimSum
<1>19. bought'[b] + SumFunctionOnSet(new, SessionKeys)
          <= added'[b] + SumFunctionOnSet(Due(b), Requests)'
  BY <1>4, <1>7, <1>9, <1>10, <1>12, <1>14, <1>18
<1> QED
  BY <1>14, <1>17, <1>19 DEF Accounts

\* An answer that saves a cart of u more units, or moves one to a new session:
\* the claims that cover it exceed the old ones by no more than u.
LEMMA SaveClaims ==
    ASSUME TypeInv, TypeInv', Loaded, NotYetMade, SaleInv, NEW r \in Requests, requests[r].at = "running", Save(r),
           NEW b \in Books, ~twice', NEW claim, Accounts(b, claim), NEW u \in {0, 1}, NEW cart,
           cart = After(requests[r].op, requests[r].book, requests[r].cart),
           cart[b] \in Nat, cart[b] <= requests[r].cart[b] + u, u = 1 => cart # Empty,
           requests[r].op = "login" => u = 0 /\ cart = requests[r].cart
    PROVE  \E new \in [SessionKeys -> Nat] :
              /\ Covered(b, new)'
              /\ SumFunctionOnSet(new, SessionKeys)
                    <= SumFunctionOnSet(claim, SessionKeys) + u
<1>1. PICK key : key = requests[r].key
  OBVIOUS
<1>2. PICK made1 : made1 = made + 1
  OBVIOUS
<1>3. /\ EndsChanging(r, key) /\ Remembers(r, cart)
      /\ MakesSession(r) =>
            /\ made < MaxSessions
            /\ rows' = [k \in SessionKeys |-> IF k = made1 THEN cart
                                              ELSE IF k = key THEN Gone ELSE rows[k]]
      /\ ~MakesSession(r) => Alive(key) /\ rows' = [rows EXCEPT ![key] = cart]
  BY <1>1, <1>2 DEF Save
<1>4. requests'[r] = Idle /\ \A q \in Requests \ {r} : Same(q)
  BY <1>3, OthersAreSame DEF TypeInv, TypeOK
<1>5. /\ key \in 0..MaxSessions /\ made \in Nat /\ MaxSessions \in Nat
      /\ requests[r].cart[b] \in Nat /\ made <= MaxSessions
  BY <1>1, SumsAreFinite, CartAssumption DEF TypeInv, TypeOK, Request
<1>6. /\ key <= made /\ (key = 0 => requests[r].cart = Empty) /\ Active(r)
      /\ key # 0 /\ ~requests[r].stale => Alive(key)
  BY <1>1 DEF Loaded, Fit, Active
<1>7. cart # Empty => ~requests[r].old /\ ~(requests[r].op = "login" /\ requests[r].stale)
  BY <1>3 DEF Remembers
<1>8. Covered(b, claim) /\ claim \in [SessionKeys -> Nat]
  BY DEF Accounts
<1>9. SumFunctionOnSet(claim, SessionKeys) \in Int
  BY <1>8, ClaimSum
<1>10. ~requests[r].old /\ key # 0 /\ Alive(key) => requests[r].cart[b] <= claim[key]
  <2>1. key # 0 => key \in SessionKeys
    BY <1>5 DEF SessionKeys
  <2> QED
    BY <1>1, <1>8, <2>1 DEF Covered
<1>11. cart = Empty => cart[b] = 0 /\ u = 0
  BY DEF Empty
<1>12. \A k \in SessionKeys : claim[k] \in Nat
  BY <1>8
\* The session that a new key names was not there, and nobody has loaded it.
<1>13. MakesSession(r) =>
          /\ made1 \in SessionKeys /\ made1 # key
          /\ \A q \in Requests : requests[q].key = made1 => requests[q].at = "idle"
  <2>1. MakesSession(r) => made1 \in SessionKeys /\ made1 # key
    BY <1>2, <1>3, <1>5, <1>6 DEF SessionKeys
  <2>2. ASSUME NEW q \in Requests, requests[q].key = made1, requests[q].at # "idle"
        PROVE  FALSE
    <3>1. requests[q].key <= made
      BY <2>2 DEF Loaded, Fit, Active
    <3> QED
      BY <1>2, <1>5, <2>2, <3>1
  <2> QED
    BY <2>1, <2>2
<1>14. CASE ~MakesSession(r)
  <2>1. /\ key \in SessionKeys /\ key # 0 /\ Alive(key) /\ rows'[key] = cart
        /\ \A k \in SessionKeys \ {key} : rows'[k] = rows[k]
    <3>1. key \in SessionKeys
      BY <1>1, <1>5, <1>14 DEF MakesSession, SessionKeys
    <3> QED
      BY <1>1, <1>3, <1>14, <3>1 DEF MakesSession, TypeInv, TypeOK
  <2>2. PICK new : new = [claim EXCEPT ![key] = claim[key] + u]
    OBVIOUS
  <2>3. claim[key] \in Nat /\ claim[key] + u \in Nat
    BY <1>12, <2>1
  <2>4. /\ new \in [SessionKeys -> Nat]
        /\ SumFunctionOnSet(new, SessionKeys)
              = SumFunctionOnSet(claim, SessionKeys) - claim[key] + (claim[key] + u)
    <3>1. /\ claim \in [SessionKeys -> Nat] /\ new \in [SessionKeys -> Nat]
          /\ key \in SessionKeys /\ new[key] = claim[key] + u
      BY <1>8, <2>1, <2>2, <2>3
    <3>2. \A j \in SessionKeys \ {key} : claim[j] = new[j]
      BY <1>8, <2>1, <2>2, <2>3
    <3>3. SumFunctionOnSet(new, SessionKeys)
             = SumFunctionOnSet(claim, SessionKeys) - claim[key] + new[key]
      BY <3>1, <3>2, ClaimChanges
    <3> QED
      BY <3>1, <3>3
  <2>5. cart[b] <= claim[key] + u
    BY <1>5, <1>7, <1>10, <1>11, <2>1, <2>3
  <2>6. ASSUME NEW k \in SessionKeys
        PROVE  \/ rows'[k] = rows[k] /\ claim[k] <= new[k]
               \/ rows'[k][b] <= new[k] /\ Alive(k) /\ claim[k] <= new[k]
    <3>1. CASE k = key
      <4>1. new[k] = claim[k] + u
        BY <1>8, <2>1, <2>2, <3>1
      <4> QED
        BY <2>1, <2>3, <2>5, <3>1, <4>1
    <3>2. CASE k # key
      <4>1. new[k] = claim[k]
        BY <1>8, <2>2, <3>2
      <4> QED
        BY <1>12, <2>1, <3>2, <4>1
    <3> QED
      BY <3>1, <3>2
  <2>7. Covered(b, new)'
    BY <1>4, <1>8, <2>4, <2>6, SaveCovers
  <2> QED
    BY <1>9, <2>3, <2>4, <2>7
<1>15. CASE MakesSession(r) /\ (key = 0 \/ cart = Empty)
  <2>1. /\ rows'[made1] = cart
        /\ \A k \in SessionKeys \ {made1} : rows'[k] = rows[k] \/ rows'[k] = Gone
    BY <1>3, <1>13, <1>15
  <2>2. PICK new : new = [claim EXCEPT ![made1] = claim[made1] + u]
    OBVIOUS
  <2>3. claim[made1] \in Nat /\ claim[made1] + u \in Nat
    BY <1>12, <1>13, <1>15
  <2>4. /\ new \in [SessionKeys -> Nat]
        /\ SumFunctionOnSet(new, SessionKeys)
              = SumFunctionOnSet(claim, SessionKeys) - claim[made1] + (claim[made1] + u)
    <3>1. /\ claim \in [SessionKeys -> Nat] /\ new \in [SessionKeys -> Nat]
          /\ made1 \in SessionKeys /\ new[made1] = claim[made1] + u
      BY <1>8, <1>13, <1>15, <2>2, <2>3
    <3>2. \A j \in SessionKeys \ {made1} : claim[j] = new[j]
      BY <1>8, <1>13, <1>15, <2>2, <2>3
    <3>3. SumFunctionOnSet(new, SessionKeys)
             = SumFunctionOnSet(claim, SessionKeys) - claim[made1] + new[made1]
      BY <3>1, <3>2, ClaimChanges
    <3> QED
      BY <3>1, <3>3
  <2>5. cart[b] <= u
    <3>1. CASE key = 0
      BY <1>6, <3>1 DEF Empty
    <3>2. CASE cart = Empty
      BY <1>11, <3>2
    <3> QED
      BY <1>15, <3>1, <3>2
  <2>6. ASSUME NEW k \in SessionKeys
        PROVE  \/ rows'[k] = Gone
               \/ rows'[k] = rows[k] /\ claim[k] <= new[k]
               \/ /\ rows'[k][b] <= new[k]
                  /\ \A q \in Requests \ {r} : requests[q].key = k => requests[q].at = "idle"
    <3>1. CASE k = made1
      <4>1. new[k] = claim[k] + u
        BY <1>8, <2>2, <3>1
      <4>2. rows'[k][b] <= new[k]
        BY <2>1, <2>3, <2>5, <3>1, <4>1
      <4> QED
        BY <1>13, <1>15, <3>1, <4>2
    <3>2. CASE k # made1
      <4>1. new[k] = claim[k]
        BY <1>8, <2>2, <3>2
      <4> QED
        BY <1>12, <2>1, <3>2, <4>1
    <3> QED
      BY <3>1, <3>2
  <2>7. Covered(b, new)'
    BY <1>4, <1>8, <2>4, <2>6, SaveCovers
  <2> QED
    BY <1>9, <2>3, <2>4, <2>7
<1>16. CASE MakesSession(r) /\ key # 0 /\ cart # Empty
  <2>1. requests[r].op = "login" /\ u = 0 /\ cart = requests[r].cart
    BY <1>1, <1>16 DEF MakesSession
  <2>2. Alive(key) /\ cart[b] <= claim[key]
    BY <1>6, <1>7, <1>10, <1>16, <2>1
  <2>3. /\ key \in SessionKeys /\ made1 \in SessionKeys /\ made1 # key
        /\ rows'[made1] = cart /\ rows'[key] = Gone
        /\ \A k \in SessionKeys \ {made1, key} : rows'[k] = rows[k]
    <3>1. key \in SessionKeys
      BY <1>5, <1>16 DEF SessionKeys
    <3> QED
      BY <1>3, <1>13, <1>16, <3>1
  <2>4. PICK half : half = [claim EXCEPT ![key] = 0]
    OBVIOUS
  <2>5. PICK new : new = [half EXCEPT ![made1] = claim[key]]
    OBVIOUS
  <2>6. claim[key] \in Nat /\ claim[made1] \in Nat
    BY <1>12, <2>3
  <2>7. /\ half \in [SessionKeys -> Nat]
        /\ SumFunctionOnSet(half, SessionKeys)
              = SumFunctionOnSet(claim, SessionKeys) - claim[key] + 0
    <3>1. /\ claim \in [SessionKeys -> Nat] /\ half \in [SessionKeys -> Nat]
          /\ key \in SessionKeys /\ half[key] = 0
      BY <1>8, <2>3, <2>4
    <3>2. \A j \in SessionKeys \ {key} : claim[j] = half[j]
      BY <1>8, <2>3, <2>4
    <3>3. SumFunctionOnSet(half, SessionKeys)
             = SumFunctionOnSet(claim, SessionKeys) - claim[key] + half[key]
      BY <3>1, <3>2, ClaimChanges
    <3> QED
      BY <3>1, <3>3
  <2>8. /\ new \in [SessionKeys -> Nat]
        /\ SumFunctionOnSet(new, SessionKeys)
              = SumFunctionOnSet(half, SessionKeys) - half[made1] + claim[key]
    <3>1. /\ half \in [SessionKeys -> Nat] /\ new \in [SessionKeys -> Nat]
          /\ made1 \in SessionKeys /\ new[made1] = claim[key]
      BY <2>3, <2>5, <2>6, <2>7
    <3>2. \A j \in SessionKeys \ {made1} : half[j] = new[j]
      BY <2>3, <2>5, <2>6, <2>7
    <3>3. SumFunctionOnSet(new, SessionKeys)
             = SumFunctionOnSet(half, SessionKeys) - half[made1] + new[made1]
      BY <3>1, <3>2, ClaimChanges
    <3> QED
      BY <3>1, <3>3
  <2>9. half[made1] = claim[made1]
    BY <1>8, <2>3, <2>4
  <2>10. SumFunctionOnSet(new, SessionKeys) <= SumFunctionOnSet(claim, SessionKeys)
    BY <1>9, <2>6, <2>7, <2>8, <2>9
  <2>11. ASSUME NEW k \in SessionKeys
         PROVE  \/ rows'[k] = Gone
                \/ rows'[k] = rows[k] /\ claim[k] <= new[k]
                \/ /\ rows'[k][b] <= new[k]
                   /\ \A q \in Requests \ {r} : requests[q].key = k => requests[q].at = "idle"
    <3>1. CASE k = made1
      <4>1. new[k] = claim[key]
        BY <2>5, <2>7, <3>1
      <4> QED
        BY <1>13, <1>16, <2>2, <2>3, <3>1, <4>1
    <3>2. CASE k = key
      BY <2>3, <3>2
    <3>3. CASE k # made1 /\ k # key
      <4>1. new[k] = claim[k]
        BY <1>8, <2>4, <2>5, <2>7, <3>3
      <4> QED
        BY <1>12, <2>3, <3>3, <4>1
    <3> QED
      BY <3>1, <3>2, <3>3
  <2>12. Covered(b, new)'
    BY <1>4, <1>8, <2>8, <2>11, SaveCovers
  <2> QED
    BY <1>9, <2>1, <2>8, <2>10, <2>12
<1> QED
  BY <1>14, <1>15, <1>16

LEMMA SaveSale ==
    ASSUME TypeInv, TypeInv', Loaded, NotYetMade, SaleInv, NEW r \in Requests, Save(r)
    PROVE  SaleInv'
<1>1. PICK cart : cart = After(requests[r].op, requests[r].book, requests[r].cart)
  OBVIOUS
<1>2. /\ Answered(r) /\ Remembers(r, cart) /\ bought' = bought
      /\ EndsChanging(r, requests[r].key) /\ (twice => twice')
  BY <1>1 DEF Save, Remembers, shop
<1>3. requests'[r] = Idle /\ \A q \in Requests \ {r} : Same(q)
  BY <1>2, OthersAreSame DEF TypeInv, TypeOK
<1>4. Holding' /\ Waiting' /\ OneOrder'
  BY <1>2, <1>3, OrdersStay DEF SaleInv
<1>5. ASSUME ~twice', NEW b \in Books PROVE \E new : Accounts(b, new)'
  <2>1. PICK claim : Accounts(b, claim)
    BY <1>2, <1>5 DEF SaleInv, Claimed
  <2>2. CASE requests[r].at = "placed"
    BY <1>5, <2>1, <2>2, CheckoutAnswered
  <2>3. CASE requests[r].at # "placed"
    <3>1. requests[r].at = "running"
      BY <1>2, <2>3 DEF Answered
    <3>2. /\ cart[b] \in Nat
          /\ \E u \in {0, 1} : /\ added'[b] = added[b] + u
                               /\ cart[b] <= requests[r].cart[b] + u
                               /\ u = 1 => cart # Empty
                               /\ requests[r].op = "login" => u = 0
          /\ requests[r].op = "login" => cart = requests[r].cart
      BY <1>1, <1>2, SavedUnits
    <3>3. PICK u \in {0, 1} : /\ added'[b] = added[b] + u
                              /\ cart[b] <= requests[r].cart[b] + u
                              /\ u = 1 => cart # Empty
                              /\ requests[r].op = "login" => u = 0
      BY <3>2
    <3>4. PICK new \in [SessionKeys -> Nat] :
              /\ Covered(b, new)'
              /\ SumFunctionOnSet(new, SessionKeys)
                    <= SumFunctionOnSet(claim, SessionKeys) + u
      BY <1>1, <1>5, <2>1, <3>1, <3>2, <3>3, SaveClaims
    <3>5. ASSUME NEW q \in Requests PROVE Due(b)'[q] = Due(b)[q]
      BY <1>3, <2>3 DEF Due, Same, Idle
    <3>6. SumFunctionOnSet(Due(b), Requests)' = SumFunctionOnSet(Due(b), Requests)
      BY <3>5, DueSame
    <3>7. /\ bought[b] \in Int /\ added[b] \in Int
          /\ SumFunctionOnSet(Due(b), Requests) \in Int
      BY SumsAreFinite
    <3>8. /\ bought[b] + SumFunctionOnSet(claim, SessionKeys)
                <= added[b] + SumFunctionOnSet(Due(b), Requests)
          /\ SumFunctionOnSet(claim, SessionKeys) \in Int
          /\ SumFunctionOnSet(new, SessionKeys) \in Int
      BY <2>1, <3>4, ClaimSum DEF Accounts
    <3>9. bought'[b] + SumFunctionOnSet(new, SessionKeys)
             <= added'[b] + SumFunctionOnSet(Due(b), Requests)'
      BY <1>2, <3>3, <3>4, <3>6, <3>7, <3>8
    <3>10. Accounts(b, new)'
      BY <3>4, <3>9 DEF Accounts
    <3> QED
      BY <3>10
  <2> QED
    BY <2>2, <2>3
<1>6. Claimed'
  BY <1>5 DEF Claimed
<1> QED
  BY <1>4, <1>6 DEF SaleInv

LEMMA SaleInitially == Init => SaleInv
<1> SUFFICES ASSUME Init PROVE SaleInv
  OBVIOUS
<1>1. \A r \in Requests : requests[r] = Idle
  BY DEF Init
<1>2. Holding /\ Waiting /\ OneOrder
  BY <1>1 DEF Holding, Waiting, OneOrder, Placing, Active, Idle
<1>3. ASSUME NEW b \in Books PROVE \E claim : Accounts(b, claim)
  <2>1. PICK claim : claim = [k \in SessionKeys |-> 0]
    OBVIOUS
  <2>2. PICK due : due = Due(b)
    OBVIOUS
  <2>3. \A r \in Requests : due[r] = 0
    BY <1>1, <2>2 DEF Due, Idle
  <2>4. IsFiniteSet(SessionKeys) /\ IsFiniteSet(Requests)
    BY CartAssumption, FS_Interval DEF SessionKeys
  <2>5. \A S : SumFunctionOnSet(claim, {}) = 0 /\ SumFunctionOnSet(due, {}) = 0
    BY SumOfNone
  <2>6. SumFunctionOnSet(claim, {}) = SumFunctionOnSet(claim, SessionKeys)
    <3>1. \A k \in SessionKeys : claim[k] = 0
      BY <2>1
    <3>2. {} \in SUBSET SessionKeys /\ \A k \in SessionKeys : claim[k] \in Int
      BY <3>1
    <3> QED
      BY <2>4, <3>1, <3>2, SumOfSupport
  <2>7. SumFunctionOnSet(due, {}) = SumFunctionOnSet(due, Requests)
    <3>1. {} \in SUBSET Requests /\ \A r \in Requests : due[r] \in Int
      BY <2>3
    <3> QED
      BY <2>3, <2>4, <3>1, SumOfSupport
  <2>8. Covered(b, claim)
    BY DEF Init, Covered, Alive
  <2>9. bought[b] = 0 /\ added[b] = 0
    BY DEF Init, Empty
  <2>10. claim \in [SessionKeys -> Nat]
    BY <2>1
  <2> QED
    BY <2>2, <2>5, <2>6, <2>7, <2>8, <2>9, <2>10 DEF Accounts
<1> QED
  BY <1>2, <1>3 DEF SaleInv, Claimed

LEMMA SaleInductive == Inv /\ Inv' /\ SaleInv /\ [Next]_vars => SaleInv'
<1> SUFFICES ASSUME TypeInv, TypeInv', Loaded, Loaded', NotYetMade, SaleInv, [Next]_vars
             PROVE  SaleInv'
  BY DEF Inv, SessionInv
<1>1. ASSUME NEW r \in Requests, NEW op \in Operations, NEW b \in Books \cup {NoBook},
             Start(r, op, b)
      PROVE  SaleInv'
  BY <1>1, StartSale
<1>2. ASSUME NEW r \in Requests, Save(r) PROVE SaleInv'
  BY <1>2, SaveSale
<1>3. ASSUME NEW r \in Requests,
             LeaveUnmodified(r) \/ Interrupt(r) \/ Logout(r) \/ Reject(r) \/ Die(r)
      PROVE  SaleInv'
  <2>1. \E k : Ends(r) \/ EndsChanging(r, k)
    BY <1>3 DEF LeaveUnmodified, Interrupt, Logout, Reject, Die
  <2>2. requests'[r] = Idle /\ \A q \in Requests \ {r} : Same(q)
    BY <2>1, OthersAreSame DEF TypeInv, TypeOK
  <2>3. \A k \in SessionKeys : rows'[k] = rows[k] \/ rows'[k] = Gone
    BY <1>3 DEF LeaveUnmodified, Interrupt, Logout, Reject, Die, session
  <2>4. bought' = bought /\ added' = added /\ (twice => twice')
    <3>1. CASE LeaveUnmodified(r) \/ Logout(r) \/ Reject(r)
      BY <3>1 DEF LeaveUnmodified, Logout, Reject, shop
    <3>2. CASE Interrupt(r)
      BY <3>2 DEF Interrupt, shop
    <3>3. CASE Die(r)
      BY <3>3 DEF Die, shop
    <3> QED
      BY <1>3, <3>1, <3>2, <3>3
  <2>5. requests[r].at # "placed" \/ twice'
    <3>1. r \in Placing => requests[r].op = "checkout"
      BY DEF SaleInv, Waiting
    <3>2. CASE LeaveUnmodified(r)
      BY <3>1, <3>2 DEF LeaveUnmodified, Modifies, Placing
    <3>3. CASE Interrupt(r) \/ Logout(r) \/ Reject(r) \/ Die(r)
      BY <3>3 DEF Interrupt, Logout, Reject, Die
    <3> QED
      BY <1>3, <3>2, <3>3
  <2> QED
    BY <2>2, <2>3, <2>4, <2>5, QuietSale
<1>4. ASSUME NEW r \in Requests, Place(r) PROVE SaleInv'
  BY <1>4, PlaceSale
<1>5. ASSUME NEW r \in Requests, Fail(r) PROVE SaleInv'
  BY <1>5, FailSale
<1>6. ASSUME NEW k \in SessionKeys, Expire(k) PROVE SaleInv'
  <2>1. \A q \in Requests : requests[q] \in Request
    BY DEF TypeInv, TypeOK
  <2>2. ASSUME NEW q \in Requests PROVE Same(q)
    <3> DEFINE age == requests[q].stale \/ (Active(q) /\ requests[q].key = k)
    <3>1. requests'[q] = [requests[q] EXCEPT !.stale = age] /\ requests[q] \in Request
      BY <1>6, <2>1 DEF Expire
    <3> HIDE DEF age
    <3> QED
      BY <3>1 DEF Same, Request
  <2>3. \A j \in SessionKeys : rows'[j] = rows[j] \/ rows'[j] = Gone
    BY <1>6 DEF Expire, TypeInv, TypeOK
  <2>4. bought' = bought /\ added' = added /\ (twice => twice')
    BY <1>6 DEF Expire, shop
  <2> QED
    BY <2>2, <2>3, <2>4, QuietSale
<1>7. ASSUME (\E b \in Books : DeleteBook(b)) \/ UNCHANGED vars PROVE SaleInv'
  <2>1. UNCHANGED <<rows, requests, bought, added, twice>>
    BY <1>7 DEF DeleteBook, vars, session, shop, history
  <2>2. \A q \in Requests : Same(q)
    BY <2>1 DEF Same
  <2> QED
    BY <2>1, <2>2, QuietSale
<1> QED
  BY <1>1, <1>2, <1>3, <1>4, <1>5, <1>6, <1>7 DEF Next

\* The claims exceed what the sessions hold, and what is due is what the orders
\* took that wait for their answers.
LEMMA ClaimedIsBought == TypeInv /\ SaleInv => BoughtWasAdded
<1> SUFFICES ASSUME TypeInv, SaleInv, ~twice, NEW b \in Books
             PROVE  bought[b] + SumFunctionOnSet([k \in SessionKeys |-> InRow(k)[b]], SessionKeys)
                      <= added[b] + SumFunctionOnSet([r \in Requests |-> Ordered(r)[b]], Placing)
  BY DEF BoughtWasAdded
<1>1. PICK claim : Accounts(b, claim)
  BY DEF SaleInv, Claimed
<1>2. PICK held : held = [k \in SessionKeys |-> InRow(k)[b]]
  OBVIOUS
<1>3. PICK ordered : ordered = [r \in Requests |-> Ordered(r)[b]]
  OBVIOUS
<1>4. PICK due : due = Due(b)
  OBVIOUS
<1>5. /\ IsFiniteSet(SessionKeys) /\ IsFiniteSet(Requests)
      /\ \A r \in Requests : requests[r].items[b] \in Int /\ due[r] \in Int
      /\ bought[b] \in Int /\ added[b] \in Int /\ SumFunctionOnSet(due, Requests) \in Int
  BY <1>4, SumsAreFinite
<1>6. ASSUME NEW k \in SessionKeys
      PROVE  held[k] \in Int /\ claim[k] \in Int /\ held[k] <= claim[k]
  <2>1. k \in 0..MaxSessions /\ claim \in [SessionKeys -> Nat] /\ Covered(b, claim)
    BY <1>1, CartAssumption DEF SessionKeys, Accounts
  <2>2. InRow(k)[b] \in Int
    BY <2>1, InRowType, CartAssumption DEF Carts
  <2>3. claim[k] \in Nat
    BY <2>1
  <2>4. CASE Alive(k)
    BY <1>2, <2>1, <2>2, <2>3, <2>4 DEF InRow, Covered
  <2>5. CASE ~Alive(k)
    BY <1>2, <2>2, <2>3, <2>5 DEF InRow, Empty
  <2> QED
    BY <2>4, <2>5
<1>7. /\ SumFunctionOnSet(held, SessionKeys) <= SumFunctionOnSet(claim, SessionKeys)
      /\ SumFunctionOnSet(held, SessionKeys) \in Int
      /\ SumFunctionOnSet(claim, SessionKeys) \in Int
  BY <1>5, <1>6, SumOrder, SumType
<1>8. Placing \in SUBSET Requests /\ IsFiniteSet(Placing)
  BY <1>5, FS_Subset DEF Placing
<1>9. SumFunctionOnSet(due, Placing) = SumFunctionOnSet(due, Requests)
  <2>1. \A r \in Requests \ Placing : due[r] = 0
    BY <1>4 DEF Due, Placing
  <2>2. \A r \in Requests : due[r] \in Int
    BY <1>5
  <2> QED
    BY <1>5, <1>8, <2>1, <2>2, SumOfSupport
<1>10. SumFunctionOnSet(ordered, Placing) = SumFunctionOnSet(due, Placing)
  <2>1. \A r \in Placing : ordered[r] \in Int /\ ordered[r] = due[r]
    BY <1>3, <1>4, <1>5, <1>8 DEF Due, Ordered, Placing
  <2> QED
    BY <1>8, <2>1, SumOfSame
<1>11. bought[b] + SumFunctionOnSet(claim, SessionKeys)
          <= added[b] + SumFunctionOnSet(due, Requests)
  BY <1>1, <1>4 DEF Accounts
<1>12. bought[b] + SumFunctionOnSet(held, SessionKeys)
          <= added[b] + SumFunctionOnSet(ordered, Placing)
  BY <1>5, <1>7, <1>9, <1>10, <1>11
<1> QED
  BY <1>2, <1>3, <1>12

(***************************************************************************)
(* Theorems                                                                *)
(***************************************************************************)

LEMMA Initially == Init => Inv
<1> SUFFICES ASSUME Init PROVE Inv
  OBVIOUS
<1>1. \A r \in Requests : requests[r] = Idle
  BY DEF Init
<1>2. (\A b \in Books : Adding(b) = {}) /\ Ordering = {}
  BY <1>1 DEF Adding, Ordering, Active, Idle
<1>3. Cardinality({}) = 0
  BY FS_EmptySet
<1>4. TypeOK
  <2>1. requests \in [Requests -> Request] /\ Empty \in [Books -> Int]
    BY IdleType DEF Init, Empty
  <2>2. made \in 0..MaxSessions /\ known \subseteq 1..made /\ cookie \in 0..made
        /\ placed \in 0..MaxOrders
    BY CartAssumption DEF Init
  <2>3. rows \in [SessionKeys -> Carts \cup {Gone}]
    BY DEF Init
  <2> QED
    BY <2>1, <2>2, <2>3, IdleType DEF Init, TypeOK
<1>5. Bounded
  <2>1. \A k \in SessionKeys : ~Alive(k)
    BY DEF Init, Alive
  <2>2. ASSUME NEW b \in Books
        PROVE  /\ added[b] = 0 /\ wanted[b] = 0 /\ Adding(b) = {}
               /\ \A r \in Requests : requests[r].cart[b] = 0
    BY <1>1, <1>2 DEF Init, Idle, Empty
  <2> QED
    BY <1>3, <2>1, <2>2, CartAssumption DEF Bounded
<1>6. Room
  BY <1>2, <1>3, CartAssumption DEF Room, Init
<1>7. Loaded /\ OneSession
  BY <1>1 DEF Loaded, OneSession, Active, Idle
<1>8. NotYetMade /\ CartIsWhatWasAsked
  BY DEF Init, NotYetMade, CartIsWhatWasAsked, InRow, Alive
<1> QED
  BY <1>4, <1>5, <1>6, <1>7, <1>8 DEF Inv, TypeInv, SessionInv

LEMMA Inductive == Inv /\ [Next]_vars => Inv'
<1> SUFFICES ASSUME TypeInv, SessionInv, [Next]_vars PROVE TypeInv' /\ SessionInv'
  BY DEF Inv
<1>fit. Loaded
  BY DEF SessionInv
<1>1. ASSUME NEW r \in Requests, NEW op \in Operations, NEW b \in Books \cup {NoBook},
             Start(r, op, b)
      PROVE  TypeInv' /\ SessionInv'
  BY <1>1, StartTypes, StartSession
<1>2. ASSUME NEW r \in Requests, Save(r) PROVE TypeInv' /\ SessionInv'
  BY <1>2, <1>fit, SaveTypes, SaveSession
<1>3. ASSUME NEW r \in Requests,
             LeaveUnmodified(r) \/ Interrupt(r) \/ Reject(r) \/ Fail(r) \/ Die(r)
      PROVE  TypeInv' /\ SessionInv'
  <2>1. Leaves(r, 0)
    BY <1>3, EndsLeaves DEF LeaveUnmodified, Interrupt, Reject, Fail, Die, TypeInv, TypeOK
  <2>2. /\ UNCHANGED <<rows, made, wanted>>
        /\ \/ UNCHANGED <<cookie, excused>>
           \/ DropsCookie(r) /\ requests[r].key = 0
    BY <1>3 DEF LeaveUnmodified, Interrupt, Reject, Fail, Die, session, history
  <2>3. SessionInv'
    BY <2>1, <2>2, LeavesSession
  <2>4. TypeInv'
    BY <1>3, EndTypes, FailTypes
  <2> QED
    BY <2>3, <2>4
<1>4. ASSUME NEW r \in Requests, Logout(r) PROVE TypeInv' /\ SessionInv'
  BY <1>4, EndTypes, LogoutSession
<1>5. ASSUME NEW r \in Requests, Place(r) PROVE TypeInv' /\ SessionInv'
  BY <1>5, PlaceTypes, PlaceSession
<1>6. ASSUME NEW k \in SessionKeys, Expire(k) PROVE TypeInv' /\ SessionInv'
  BY <1>6, ExpireTypes, ExpireSession
<1>7. ASSUME (\E b \in Books : DeleteBook(b)) \/ UNCHANGED vars
      PROVE  TypeInv' /\ SessionInv'
  <2>1. UNCHANGED <<rows, made, cookie, requests, wanted, excused>>
    BY <1>7 DEF DeleteBook, vars, session, history
  <2>2. SessionInv'
    BY <2>1 DEF SessionInv, Loaded, Fit, NotYetMade, OneSession, CartIsWhatWasAsked,
                InRow, Alive, Active
  <2> QED
    BY <1>7, <2>2, StillTypes
<1> QED
  BY <1>1, <1>2, <1>3, <1>4, <1>5, <1>6, <1>7 DEF Next

\* The invariant holds in every reachable state.
THEOREM Invariance == Spec => []Inv
BY Initially, Inductive, PTL DEF Spec

\* Every cart, saved, copied or ordered, keeps to the bound, every session that
\* a cookie or a user names was made, and orders keep to theirs.
THEOREM TypeCorrect == Spec => []TypeOK
<1>1. Inv => TypeOK
  BY DEF Inv, TypeInv
<1> QED
  BY <1>1, Invariance, PTL

\* However the browser's requests overlap, and whichever of them fail or die: as
\* long as no answer saved an old copy or moved the browser to another session,
\* the cart that its next request finds is what the answers add up to.
THEOREM CartAsAsked == Spec => []CartIsWhatWasAsked
<1>1. Inv => CartIsWhatWasAsked
  BY DEF Inv, SessionInv
<1> QED
  BY <1>1, Invariance, PTL

\* Whatever a browser does in several tabs, however its checkouts overlap, fail
\* or are cancelled: as long as no other request of the session read the cart
\* between a checkout's order and its answer, and every answer came, what the
\* orders took and what any session still offers was added.
THEOREM NothingBoughtTwice == Spec => []BoughtWasAdded
<1>1. Inv /\ SaleInv => BoughtWasAdded
  BY ClaimedIsBought DEF Inv
<1>2. Spec => []SaleInv
  BY Invariance, SaleInitially, SaleInductive, PTL DEF Spec
<1> QED
  BY <1>1, <1>2, Invariance, PTL

=============================================================================
