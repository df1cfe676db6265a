-------------------------------- MODULE Cart --------------------------------
(***************************************************************************)
(* One customer's cart, a value of the Django session, and the checkouts   *)
(* made from it.                                                           *)
(*                                                                         *)
(* A request loads the whole session when it starts and, if it changed     *)
(* something, saves the whole session when it is answered; in between it   *)
(* holds no lock, and a checkout waits there for Warehouse and Stripe.  So *)
(* requests of one browser (two tabs, a double click, a repeated GET of    *)
(* to_cart) overwrite each other's carts.  What becomes of an order after  *)
(* it was placed is module Checkout; here it succeeds, fails, or its       *)
(* thread dies.                                                            *)
(*                                                                         *)
(* An operator whose name starts with Fault is a plausible mistake in the  *)
(* definition that follows it, used by no action.                          *)
(***************************************************************************)
EXTENDS Integers, FiniteSets, Functions

CONSTANTS
    Books,
    NoBook,       \* the operation is about no book
    Requests,     \* requests of the browser that may be under way at once
    Gone,         \* no such session in Redis
    MaxAdded,     \* bound: units of one book ever added
    MaxOrders,    \* bound: orders ever placed
    MaxSessions   \* bound: sessions ever created

ASSUME CartAssumption ==
    /\ IsFiniteSet(Books) /\ NoBook \notin Books /\ IsFiniteSet(Requests)
    /\ MaxAdded \in Nat /\ MaxOrders \in Nat /\ MaxSessions \in Nat
    /\ Gone \notin [Books -> 0..MaxAdded]

VARIABLES
    rows,        \* Redis: the cart in each session
    made,        \* sessions created so far
    known,       \* the sessions of a user who has logged in
    cookie,      \* the session key that the browser sends, 0 when it has none
    requests,    \* what each request is doing
    catalogue,   \* the books there are
    placed,      \* orders placed so far
    bought,      \* units of each book in orders that were not cancelled
    added,       \* history: units of each book that answered requests added
    wanted,      \* history: the cart that the answers add up to
    excused,     \* history: the cart may differ from that, see ExcusedAfter
    twice        \* history: units may have been bought twice, see BoughtWasAdded

session == <<rows, made, known, cookie>>
shop == <<catalogue, placed, bought>>
history == <<added, wanted, excused, twice>>
vars == <<session, requests, shop, history>>

-----------------------------------------------------------------------------
\* A cart maps each book to a quantity, 0 when it has no entry.
Carts == [Books -> 0..MaxAdded]
Empty == [b \in Books |-> 0]
SessionKeys == 1..MaxSessions

Operations == {"add", "remove", "clear", "checkout", "login", "logout"}
Request == [at : {"idle", "running", "placed"}, op : Operations,
            book : Books \cup {NoBook},
            sent : BOOLEAN,         \* it carried a session cookie
            key : 0..MaxSessions,   \* the session that it loaded, 0 if none
            cart : Carts,           \* its copy, when it reads it
            items : Carts,          \* what a checkout orders: the books that exist
            stale : BOOLEAN,        \* history: its session changed since
            old : BOOLEAN]          \* history: its copy holds units that a
                                    \* checkout under way has ordered
Idle == [at |-> "idle", op |-> "clear", book |-> NoBook,
         sent |-> FALSE, key |-> 0, cart |-> Empty, items |-> Empty,
         stale |-> FALSE, old |-> FALSE]

Active(r) == requests[r].at # "idle"
Alive(k) == k # 0 /\ rows[k] # Gone
InRow(k) == IF Alive(k) THEN rows[k] ELSE Empty

Init ==
    /\ rows = [k \in SessionKeys |-> Gone] /\ made = 0
    /\ known = {} /\ cookie = 0
    /\ requests = [r \in Requests |-> Idle]
    /\ catalogue = Books /\ placed = 0 /\ bought = Empty
    /\ added = Empty /\ wanted = Empty /\ excused = FALSE /\ twice = FALSE

-----------------------------------------------------------------------------
(* Requests                                                                 *)

Adding(b) == {r \in Requests : Active(r) /\ requests[r].op = "add" /\ requests[r].book = b}
Placing == {r \in Requests : requests[r].at = "placed"}
Ordering == {r \in Requests : requests[r].at = "running" /\ requests[r].op = "checkout"}

\* The session is loaded, and by a checkout the books in its cart.
Start(r, op, b) ==
    LET key == IF Alive(cookie) THEN cookie ELSE 0 IN
    /\ ~Active(r)
    /\ b \in IF op \in {"add", "remove"} THEN Books ELSE {NoBook}
    /\ op = "add" => added[b] + Cardinality(Adding(b)) < MaxAdded
    /\ op = "checkout" => placed + Cardinality(Ordering) < MaxOrders
    /\ requests' = [requests EXCEPT ![r] =
         [at |-> "running", op |-> op, book |-> b, sent |-> cookie # 0,
          key |-> key,
          cart |-> IF op \in {"clear", "logout"} THEN Empty ELSE InRow(key),
          items |-> [x \in Books |->
                       IF op = "checkout" /\ x \in catalogue THEN InRow(key)[x] ELSE 0],
          stale |-> FALSE,
          old |-> \E q \in Requests : requests[q].at = "placed" /\ requests[q].key = key]]
    /\ UNCHANGED <<session, shop, history>>

\* r ends; the others that loaded session k now hold an old copy.
EndsChanging(r, k) ==
    requests' = [q \in Requests |->
       IF q = r THEN Idle
       ELSE [requests[q] EXCEPT !.stale =
               requests[q].stale \/ (Active(q) /\ k # 0 /\ requests[q].key = k)]]
Ends(r) == requests' = [requests EXCEPT ![r] = Idle]

\* CartViewSet and the views of the same names; login keeps the cart.
FaultAddTwice(op, b, cart) ==
    IF op = "add" THEN [cart EXCEPT ![b] = @ + 2]
    ELSE IF op = "remove" THEN [cart EXCEPT ![b] = 0]
    ELSE IF op = "login" THEN cart ELSE Empty
FaultRemoveOne(op, b, cart) ==
    IF op \in {"add", "remove"} THEN [cart EXCEPT ![b] = IF op = "add" THEN @ + 1 ELSE @ - 1]
    ELSE IF op = "login" THEN cart ELSE Empty
FaultCheckoutKeepsCart(op, b, cart) ==
    IF op = "add" THEN [cart EXCEPT ![b] = @ + 1]
    ELSE IF op = "remove" THEN [cart EXCEPT ![b] = 0]
    ELSE IF op = "clear" THEN Empty ELSE cart
After(op, b, cart) ==
    CASE op = "add" -> [cart EXCEPT ![b] = @ + 1]
      [] op = "remove" -> [cart EXCEPT ![b] = 0]
      [] op \in {"clear", "checkout"} -> Empty
      [] op = "login" -> cart

\* Removing a book that the copy does not hold leaves the session unmodified.
Modifies(r) == requests[r].op = "remove" => requests[r].cart[requests[r].book] > 0

-----------------------------------------------------------------------------
(* Answers                                                                  *)

Answered(r) ==
    /\ requests[r].op # "logout"
    /\ requests[r].at = IF requests[r].op = "checkout" THEN "placed" ELSE "running"

\* A request without a session makes one; the login of a visitor who was not
\* logged in moves the copy to a new key (cycle_key).
MakesSession(r) ==
    requests[r].key = 0 \/ (requests[r].op = "login" /\ requests[r].key \notin known)
Alone(r) == \A q \in Requests \ {r} : ~Active(q)

\* What a customer asked for who was told: the units added since the book was
\* last removed and the cart last emptied.
Asked(r, x) ==
    LET op == requests[r].op IN
    IF op \in {"clear", "checkout"} \/ (op = "remove" /\ requests[r].book = x) THEN 0
    ELSE IF op = "add" /\ requests[r].book = x THEN wanted[x] + 1 ELSE wanted[x]

\* Why the answer of r may make the cart differ from the answers so far: its
\* copy is old, or the browser is sent from one session to another.  Emptying
\* the cart while nothing else is under way ends all such differences.
Forks(r) == Alive(cookie) /\ requests[r].key # cookie
ExcusedAfter(r) ==
    \/ requests[r].stale \/ Forks(r)
    \/ excused /\ ~(requests[r].op \in {"clear", "checkout"} /\ Alone(r))

Remembers(r, cart) ==
    LET op == requests[r].op
        b == requests[r].book
    IN /\ added' = IF op = "add" THEN [added EXCEPT ![b] = @ + 1] ELSE added
       /\ wanted' = [x \in Books |-> Asked(r, x)]
       /\ excused' = ExcusedAfter(r)
       /\ twice' = (twice \/ (cart # Empty /\ (requests[r].old
                                               \/ (op = "login" /\ requests[r].stale))))

\* SessionMiddleware saves the copy over whatever the session holds by now, and
\* the answer sets the cookie to the session that was saved.
Save(r) ==
    LET key == requests[r].key
        new == made + 1
        cart == After(requests[r].op, requests[r].book, requests[r].cart)
    IN
    /\ Answered(r) /\ Modifies(r)
    /\ IF MakesSession(r)
         THEN /\ made < MaxSessions
              /\ made' = new /\ cookie' = new
              /\ known' = IF requests[r].op = "login" THEN known \cup {new} ELSE known
              /\ rows' = [k \in SessionKeys |-> IF k = new THEN cart
                                                ELSE IF k = key THEN Gone ELSE rows[k]]
         ELSE /\ Alive(key)
              /\ rows' = [rows EXCEPT ![key] = cart]
              /\ cookie' = key /\ UNCHANGED <<made, known>>
    /\ EndsChanging(r, key)
    /\ Remembers(r, cart)
    /\ UNCHANGED shop

\* An answer without a session takes away the cookie that was sent, even when
\* the browser has got another one since.
DropsCookie(r) ==
    /\ cookie' = IF requests[r].sent THEN 0 ELSE cookie
    /\ excused' = (excused \/ Forks(r))

\* The view changed nothing, and nothing is saved.
LeaveUnmodified(r) ==
    /\ Answered(r) /\ ~Modifies(r)
    /\ Ends(r)
    /\ IF requests[r].key = 0 THEN DropsCookie(r) ELSE UNCHANGED <<cookie, excused>>
    /\ UNCHANGED <<rows, made, known, shop, added, wanted, twice>>

\* SessionInterrupted: the session was deleted meanwhile, the answer is 400.
Interrupt(r) ==
    /\ Answered(r) /\ Modifies(r) /\ ~MakesSession(r) /\ ~Alive(requests[r].key)
    /\ Ends(r)
    /\ twice' = (twice \/ requests[r].at = "placed")
    /\ UNCHANGED <<session, shop, added, wanted, excused>>

\* flush: the row is deleted and the browser drops its cookie.
Logout(r) ==
    LET key == requests[r].key IN
    /\ requests[r].at = "running" /\ requests[r].op = "logout"
    /\ rows' = [k \in SessionKeys |-> IF k = key THEN Gone ELSE rows[k]]
    /\ DropsCookie(r)
    /\ EndsChanging(r, key)
    /\ wanted' = Empty
    /\ UNCHANGED <<made, known, shop, added, twice>>

-----------------------------------------------------------------------------
(* CheckoutView.post                                                        *)

Ordered(r) == requests[r].items

\* The visitor is sent to log in, or the page is shown again: the form is
\* invalid or no book is left to order.
Reject(r) ==
    /\ requests[r].at = "running" /\ requests[r].op = "checkout"
    /\ Ends(r)
    /\ IF requests[r].key = 0 THEN DropsCookie(r) ELSE UNCHANGED <<cookie, excused>>
    /\ UNCHANGED <<rows, made, known, shop, added, wanted, twice>>

\* create_checkout_order commits the order, or fails (Die) when a book was
\* deleted since it was read.
Place(r) ==
    LET items == Ordered(r) IN
    /\ requests[r].at = "running" /\ requests[r].op = "checkout"
    /\ requests[r].key \in known /\ items # Empty
    /\ \A b \in Books : items[b] > 0 => b \in catalogue
    /\ requests' = [q \in Requests |->
          IF q = r THEN [requests[q] EXCEPT !.at = "placed"]
          ELSE [requests[q] EXCEPT !.old =
                  requests[q].old \/ (Active(q) /\ requests[q].key = requests[r].key)]]
    /\ placed' = placed + 1
    /\ bought' = [b \in Books |-> bought[b] + items[b]]
    /\ twice' = (twice \/ requests[r].old)
    /\ UNCHANGED <<session, catalogue, added, wanted, excused>>

\* warehouse_checkout_failure and stripe_checkout_failure: the order is
\* cancelled, the page is shown again and the session is not touched.
Fail(r) ==
    /\ requests[r].at = "placed"
    /\ bought' = [b \in Books |-> bought[b] - Ordered(r)[b]]
    /\ Ends(r)
    /\ UNCHANGED <<session, catalogue, placed, history>>

-----------------------------------------------------------------------------
(* Everything else                                                          *)

\* A worker dies, or an error is answered 500: the session is not saved.
Die(r) ==
    /\ Active(r)
    /\ Ends(r)
    /\ twice' = (twice \/ requests[r].at = "placed")
    /\ UNCHANGED <<session, shop, added, wanted, excused>>

\* The session's time is over, or Redis lost it.
Expire(k) ==
    /\ Alive(k)
    /\ rows' = [rows EXCEPT ![k] = Gone]
    /\ requests' = [q \in Requests |->
          [requests[q] EXCEPT !.stale =
             requests[q].stale \/ (Active(q) /\ requests[q].key = k)]]
    /\ wanted' = IF k = cookie THEN Empty ELSE wanted
    /\ UNCHANGED <<made, known, cookie, shop, added, excused, twice>>

DeleteBook(b) ==
    /\ b \in catalogue
    /\ catalogue' = catalogue \ {b}
    /\ UNCHANGED <<session, requests, placed, bought, history>>

Next ==
    \/ \E r \in Requests :
         \/ \E op \in Operations, b \in Books \cup {NoBook} : Start(r, op, b)
         \/ Save(r) \/ LeaveUnmodified(r) \/ Interrupt(r) \/ Logout(r)
         \/ Reject(r) \/ Place(r) \/ Fail(r) \/ Die(r)
    \/ \E k \in SessionKeys : Expire(k)
    \/ \E b \in Books : DeleteBook(b)

Spec == Init /\ [][Next]_vars

-----------------------------------------------------------------------------
(* Properties *)

TypeOK ==
    /\ rows \in [SessionKeys -> Carts \cup {Gone}]
    /\ made \in 0..MaxSessions /\ known \subseteq 1..made /\ cookie \in 0..made
    /\ requests \in [Requests -> Request]
    /\ catalogue \subseteq Books
    /\ placed \in 0..MaxOrders
    /\ bought \in [Books -> Int]
    /\ added \in Carts /\ wanted \in Carts
    /\ excused \in BOOLEAN /\ twice \in BOOLEAN

\* The cart is what the answers say: every addition, removal, clearing and
\* checkout that was answered shows in the cart that the browser's next request
\* finds, unless an answer saved an old copy or moved the browser to another
\* session.  Failed checkouts, errors and deaths change nothing.
CartIsWhatWasAsked == ~excused => InRow(cookie) = wanted

\* No unit is bought twice: what the orders hold and what any session still
\* offers to a checkout was added.  The exceptions all concern a checkout's
\* interval from its order to its answer: another request read the cart before
\* that answer and saved or ordered it later, or the answer never came (death,
\* or a session deleted under it), or two logins each copied the cart.
BoughtWasAdded ==
    ~twice =>
       \A b \in Books :
          bought[b] + SumFunctionOnSet([k \in SessionKeys |-> InRow(k)[b]], SessionKeys)
             <= added[b] + SumFunctionOnSet([r \in Requests |-> Ordered(r)[b]], Placing)

=============================================================================
