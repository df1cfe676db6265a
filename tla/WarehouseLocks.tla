---------------------------- MODULE WarehouseLocks ----------------------------
(***************************************************************************)
(* Warehouse's transactions, statement by statement, as PostgreSQL runs    *)
(* them under READ COMMITTED: a read sees what is committed at that        *)
(* moment, SELECT ... FOR UPDATE takes row locks one at a time and reads   *)
(* the newest version of each row, an insert into a unique column waits    *)
(* for an uncommitted equal one, writes appear at the commit, which frees  *)
(* the locks, and of transactions that wait for each other in a circle one *)
(* is aborted.                                                             *)
(*                                                                         *)
(* Objects in memory are copies: a commit writes back values computed from *)
(* the copy its transaction read.  The claim, AtomicWarehouse, is that the *)
(* tables change only as the one-step actions of module Warehouse say.     *)
(*                                                                         *)
(* An operator whose name starts with Fault is a plausible mistake in the  *)
(* definition that follows it, used by no action.                          *)
(***************************************************************************)
EXTENDS Integers, FiniteSets

CONSTANTS
    Books,        \* the books by primary key, a number
    Orders, Keys, NoKey, NoReturn, Reasons, Workers,
    Clients,      \* gunicorn threads of Warehouse
    Free,         \* the owner of a row that nobody has locked
    NoBook,       \* waiting for no book
    Requests,     \* the requests that clients may send
    MaxItem, MaxReceived, MaxAdjusted, MaxDeaths   \* bounds, see Warehouse

VARIABLES
    listing, quantity, reserved, movements, reservations, created,
    stockReturns, returned, batches, deaths,     \* committed, see Warehouse
    tx,           \* the transaction that each process runs
    bookLock,     \* the owner of each book's rows (Book and Inventory)
    rowLock,      \* the owner of each order's Reservation row
    onTime        \* history: what each batch held that no sale was deciding

tables == <<listing, quantity, reserved, movements, reservations, created,
            stockReturns, returned>>
task == <<batches, deaths, onTime>>
locks == <<bookLock, rowLock>>
vars == <<tables, task, tx, locks>>

\* The tables' operators.  Reads use them; no action of theirs is taken here.
T == INSTANCE Warehouse

-----------------------------------------------------------------------------
Procs == Clients \cup Workers
Ops == {"create", "confirm", "cancel", "expire", "return", "receive", "write_off",
        "adjust"}

\* Requests are what the serializers let through: a receipt, a write-off or an
\* adjustment is of one book.  (Adjustments keep to the bound that module
\* Warehouse puts on them.)
ASSUME LocksAssumption ==
    /\ Books \subseteq Nat /\ IsFiniteSet(Books) /\ NoBook \notin Books
    /\ Clients \cap Workers = {} /\ Free \notin Procs
    /\ NoKey \notin Keys /\ NoReturn \notin T!StockReturn
    /\ MaxItem \in Nat /\ MaxReceived \in Nat /\ MaxAdjusted \in Nat
    /\ Requests \subseteq [op : Ops \ {"expire"}, order : Orders, items : T!Payloads,
                           key : Keys \cup {NoKey}, reason : Reasons \cup {"none"}]
    /\ \A req \in Requests :
          /\ req.op = "return" => req.reason \in Reasons
          /\ req.op \in {"receive", "write_off", "adjust"} =>
                \E b \in Books, n \in 1..MaxItem :
                   /\ req.items = T!Only(b, n)
                   /\ req.op = "adjust" => n <= MaxReceived + MaxAdjusted

\* A request; order and key only where the operation has them.
Request(op, o, p, k, reason) ==
    [op |-> op, order |-> o, items |-> p, key |-> k, reason |-> reason]

\* pc is the statement to come.  todo are the books still to lock, next the
\* one waited for, rows those whose copy is held, read the copies; to is the
\* status that a reservation is about to be given.
NoTx == [pc |-> "idle"]
Started(req, pc, todo) ==
    [req |-> req, pc |-> pc, todo |-> todo, next |-> NoBook, rows |-> {},
     read |-> [b \in Books |-> [quantity |-> 0, reserved |-> 0]], to |-> "NONE"]

Running(c) == tx[c].pc # "idle"
Op(c) == tx[c].req.op
Ord(c) == tx[c].req.order
Its(c) == tx[c].req.items
Key(c) == tx[c].req.key
Named(p) == {b \in Books : p[b] > 0}

Init ==
    /\ T!Init
    /\ tx = [c \in Procs |-> NoTx]
    /\ bookLock = [b \in Books |-> Free]
    /\ rowLock = [o \in Orders |-> Free]
    /\ onTime = [w \in Workers |-> {}]

-----------------------------------------------------------------------------
(* Beginning and ending                                                     *)

Goes(c, pc) == tx' = [tx EXCEPT ![c].pc = pc]

FaultKeepsBookLocks(c) ==
    /\ tx' = [tx EXCEPT ![c] = NoTx]
    /\ rowLock' = [o \in Orders |-> IF rowLock[o] = c THEN Free ELSE rowLock[o]]
    /\ UNCHANGED bookLock

\* Commit or rollback: every lock is freed.
Ends(c) ==
    /\ tx' = [tx EXCEPT ![c] = NoTx]
    /\ bookLock' = [b \in Books |-> IF bookLock[b] = c THEN Free ELSE bookLock[b]]
    /\ rowLock' = [o \in Orders |-> IF rowLock[o] = c THEN Free ELSE rowLock[o]]

\* The iteration of the expiry task over o is over.
Visited(w, o) ==
    /\ batches' = [batches EXCEPT ![w] = @ \ {o}]
    /\ onTime' = [onTime EXCEPT ![w] = @ \ {o}]
    /\ UNCHANGED deaths

\* The transaction ends having written nothing.
EndsUnchanged(c) ==
    /\ Ends(c)
    /\ IF Op(c) = "expire" THEN Visited(c, Ord(c)) ELSE UNCHANGED task
    /\ UNCHANGED tables

FirstStatement(op) ==
    CASE op \in {"create", "return"} -> "find"
      [] op \in {"confirm", "cancel", "expire"} -> "row"
      [] op \in {"receive", "write_off", "adjust"} -> "lock"

\* confirm and cancel look the reservation up first and answer 404 without one.
Begin(c, req) ==
    /\ ~Running(c)
    /\ req.op \in {"confirm", "cancel"} => T!Exists(req.order)
    /\ req.op \in {"receive", "write_off", "adjust"} =>
          \A b \in Named(req.items) : listing[b] # "absent"
    /\ tx' = [tx EXCEPT ![c] = Started(req, FirstStatement(req.op),
                IF FirstStatement(req.op) = "lock" THEN Named(req.items) ELSE {})]
    /\ UNCHANGED <<tables, task, locks>>

-----------------------------------------------------------------------------
(* Reading by order or by key, without locks                                *)

\* A StockReturn row holds the request's key.
KeyReturned(c) == Key(c) \in {k \in Keys : stockReturns[k] # NoReturn}

\* A create that finds nothing goes on to its locking query, which picks the
\* active books it will lock.  (The two reads are one step: that nothing was
\* found is read again under the locks, so only what was found matters.)
Find(c) ==
    /\ tx[c].pc = "find"
    /\ \/ /\ Op(c) = "create" /\ T!Matches(Ord(c), Key(c)) # {}
          /\ EndsUnchanged(c)
       \/ /\ Op(c) = "create" /\ T!Matches(Ord(c), Key(c)) = {}
          /\ tx' = [tx EXCEPT ![c].pc = "lock",
                      ![c].todo = {b \in Named(Its(c)) : listing[b] = "active"}]
          /\ UNCHANGED <<tables, task, locks>>
       \/ /\ Op(c) = "return" /\ KeyReturned(c)
          /\ EndsUnchanged(c)
       \/ /\ Op(c) = "return" /\ ~KeyReturned(c)
          /\ Goes(c, "row")
          /\ UNCHANGED <<tables, task, locks>>

-----------------------------------------------------------------------------
(* Locking the Reservation row, and what its status decides                 *)

\* The status that a confirmation, a cancellation or the task will give.
Decided(c) ==
    CASE Op(c) = "confirm" -> IF reservations[Ord(c)].due THEN "EXPIRED" ELSE "CONFIRMED"
      [] Op(c) = "cancel" -> "CANCELLED"
      [] Op(c) = "expire" -> "EXPIRED"

FaultRowNotLocked(c) ==
    /\ tx[c].pc = "row"
    /\ IF reservations[Ord(c)].status = IF Op(c) = "return" THEN "CONFIRMED" ELSE "PENDING"
         THEN /\ tx' = IF Op(c) = "return" THEN [tx EXCEPT ![c].pc = "check"]
                       ELSE [tx EXCEPT ![c].pc = "lock", ![c].to = Decided(c),
                                       ![c].req.items = T!Items(Ord(c)),
                                       ![c].todo = Named(T!Items(Ord(c)))]
              /\ UNCHANGED <<tables, task, locks>>
         ELSE EndsUnchanged(c)

\* The row is locked and read; a status that ends the matter ends the request.
LockRow(c) ==
    /\ tx[c].pc = "row" /\ rowLock[Ord(c)] = Free
    /\ \/ /\ Op(c) = "return" /\ reservations[Ord(c)].status = "CONFIRMED"
          /\ rowLock' = [rowLock EXCEPT ![Ord(c)] = c]
          /\ Goes(c, "check")
          /\ UNCHANGED <<tables, task, bookLock>>
       \/ /\ Op(c) # "return" /\ reservations[Ord(c)].status = "PENDING"
          /\ rowLock' = [rowLock EXCEPT ![Ord(c)] = c]
          /\ tx' = [tx EXCEPT ![c].pc = "lock", ![c].to = Decided(c),
                      ![c].req.items = T!Items(Ord(c)),
                      ![c].todo = Named(T!Items(Ord(c)))]
          /\ UNCHANGED <<tables, task, bookLock>>
       \/ /\ reservations[Ord(c)].status #
                IF Op(c) = "return" THEN "CONFIRMED" ELSE "PENDING"
          /\ EndsUnchanged(c)

-----------------------------------------------------------------------------
(* Locking books: create and return in the order of their keys, the others  *)
(* in any order, for their query has no ORDER BY                            *)

FaultUnordered(op) == FALSE
Ordered(op) == op \in {"create", "return"}

Candidates(c) ==
    IF tx[c].next # NoBook THEN {tx[c].next}
    ELSE IF Ordered(Op(c))
      THEN {b \in tx[c].todo : \A d \in tx[c].todo : b <= d}
      ELSE tx[c].todo

FaultTakesLockedBook(c, b) ==
    /\ tx[c].pc = "lock" /\ b \in Candidates(c)
    /\ tx' = [tx EXCEPT ![c].todo = @ \ {b}, ![c].next = NoBook,
                ![c].rows = IF Op(c) = "create" /\ listing[b] # "active"
                              THEN @ ELSE @ \cup {b},
                ![c].read[b] = [quantity |-> quantity[b], reserved |-> reserved[b]]]
    /\ UNCHANGED <<tables, task, locks>>

\* The row's newest version is read; create's query drops it when the book is
\* no longer active, and keeps the lock.
TakeBook(c, b) ==
    /\ tx[c].pc = "lock" /\ b \in Candidates(c) /\ bookLock[b] = Free
    /\ bookLock' = [bookLock EXCEPT ![b] = c]
    /\ tx' = [tx EXCEPT ![c].todo = @ \ {b}, ![c].next = NoBook,
                ![c].rows = IF Op(c) = "create" /\ listing[b] # "active"
                              THEN @ ELSE @ \cup {b},
                ![c].read[b] = [quantity |-> quantity[b], reserved |-> reserved[b]]]
    /\ UNCHANGED <<tables, task, rowLock>>

WaitForBook(c, b) ==
    /\ tx[c].pc = "lock" /\ tx[c].next = NoBook
    /\ b \in Candidates(c) /\ bookLock[b] # Free
    /\ tx' = [tx EXCEPT ![c].next = b]
    /\ UNCHANGED <<tables, task, locks>>

HasBooks(c) ==
    /\ tx[c].pc = "lock" /\ tx[c].todo = {}
    /\ Goes(c, IF Op(c) = "create" THEN "check"
               ELSE IF Op(c) = "return" THEN "insert" ELSE "commit")
    /\ UNCHANGED <<tables, task, locks>>

-----------------------------------------------------------------------------
(* Reading again under the locks, and the checks                            *)

Copy(c, b) == tx[c].read[b]
Enough(c) == \A b \in Named(Its(c)) :
                /\ b \in tx[c].rows
                /\ Copy(c, b).quantity - Copy(c, b).reserved >= Its(c)[b]

\* Looked for again: a retry may have been waiting for the locks.
MayCreate(c) == T!Matches(Ord(c), Key(c)) = {} /\ Enough(c)
MayReturn(c) == ~KeyReturned(c) /\ T!Returnable(Ord(c), Its(c))

FaultWaitsForStock(c) ==
    /\ tx[c].pc = "check"
    /\ IF Op(c) = "create" /\ MayCreate(c)
         THEN Goes(c, "insert") /\ UNCHANGED <<tables, task, locks>>
         ELSE IF Op(c) = "return" /\ MayReturn(c)
           THEN /\ tx' = [tx EXCEPT ![c].pc = "lock", ![c].todo = Named(Its(c))]
                /\ UNCHANGED <<tables, task, locks>>
           ELSE UNCHANGED vars

Check(c) ==
    /\ tx[c].pc = "check"
    /\ \/ /\ Op(c) = "create" /\ MayCreate(c)
          /\ Goes(c, "insert") /\ UNCHANGED <<tables, task, locks>>
       \/ /\ Op(c) = "return" /\ MayReturn(c)
          /\ tx' = [tx EXCEPT ![c].pc = "lock", ![c].todo = Named(Its(c))]
          /\ UNCHANGED <<tables, task, locks>>
       \/ /\ ~IF Op(c) = "create" THEN MayCreate(c) ELSE MayReturn(c)
          /\ EndsUnchanged(c)

-----------------------------------------------------------------------------
(* Inserting the Reservation or StockReturn row into its unique columns     *)

\* Transactions whose uncommitted insert c has to wait for.
SameUnique(c, d) ==
    /\ Op(c) = Op(d)
    /\ \/ Op(c) = "create" /\ Ord(c) = Ord(d)
       \/ Key(c) # NoKey /\ Key(c) = Key(d)
Inserting(c) ==
    {d \in Procs \ {c} : /\ tx[d].pc = "commit" /\ Op(d) \in {"create", "return"}
                         /\ SameUnique(c, d)}
Taken(c) ==
    IF Op(c) = "create" THEN T!Matches(Ord(c), Key(c)) # {} ELSE KeyReturned(c)

FaultInsertsAnyway(c) ==
    /\ tx[c].pc = "insert"
    /\ Goes(c, "commit") /\ UNCHANGED <<tables, task, locks>>

\* A row that was committed meanwhile makes the insert fail; the savepoint is
\* rolled back and the request is answered with that row, or with a conflict.
Insert(c) ==
    /\ tx[c].pc = "insert" /\ Inserting(c) = {}
    /\ IF Taken(c) THEN EndsUnchanged(c)
       ELSE Goes(c, "commit") /\ UNCHANGED <<tables, task, locks>>

-----------------------------------------------------------------------------
(* Committing                                                               *)

\* One counter of the books that c read, written back from the copies.
WrittenBack(c, table, field, sign) ==
    [b \in Books |-> IF b \in tx[c].rows
                       THEN Copy(c, b)[field] + sign * Its(c)[b] ELSE table[b]]
Posts(c, type, sign) == movements' = T!Posted(type, [b \in Books |-> sign * Its(c)[b]])
Covered(c, field) == \A b \in Named(Its(c)) : Copy(c, b)[field] >= Its(c)[b]

\* The new quantity is the request's; the movement is its difference from the copy.
Difference(c) ==
    [b \in Books |-> IF b \in tx[c].rows THEN Its(c)[b] - Copy(c, b).quantity ELSE 0]

\* The guards that are left, and the model's bounds.  A confirmation or a release
\* that the counters cannot cover is a conflict.
Sells(c) == Op(c) = "confirm" /\ tx[c].to = "CONFIRMED"
Allowed(c) ==
    CASE Op(c) \in {"create", "return"} -> TRUE
      [] Op(c) \in {"confirm", "cancel", "expire"} ->
           Covered(c, "reserved") /\ (Sells(c) => Covered(c, "quantity"))
      [] Op(c) = "receive" ->
           \A b \in tx[c].rows : movements[b]["receipt"] + Its(c)[b] <= MaxReceived
      [] Op(c) = "write_off" -> Enough(c)
      [] Op(c) = "adjust" ->
           \A b \in tx[c].rows :
              /\ Its(c)[b] >= Copy(c, b).reserved /\ Difference(c)[b] # 0
              /\ movements[b]["adjustment"] + Difference(c)[b]
                    \in -MaxAdjusted..MaxAdjusted

CommitCreate(c) ==
    /\ Op(c) = "create"
    /\ reserved' = WrittenBack(c, reserved, "reserved", 1)
    /\ Posts(c, "reservation", -1)
    /\ reservations' = [reservations EXCEPT ![Ord(c)] =
                          [status |-> "PENDING", items |-> Its(c), key |-> Key(c),
                           due |-> FALSE, serial |-> created]]
    /\ created' = created + 1
    /\ UNCHANGED <<listing, quantity, stockReturns, returned, task>>

CommitRelease(c) ==
    /\ Op(c) \in {"confirm", "cancel", "expire"} /\ ~Sells(c)
    /\ reserved' = WrittenBack(c, reserved, "reserved", -1)
    /\ Posts(c, "reservation_release", 1)
    /\ reservations' = [reservations EXCEPT ![Ord(c)].status = tx[c].to]
    /\ IF Op(c) = "expire" THEN Visited(c, Ord(c)) ELSE UNCHANGED task
    /\ UNCHANGED <<listing, quantity, created, stockReturns, returned>>

CommitSale(c) ==
    /\ Sells(c)
    /\ quantity' = WrittenBack(c, quantity, "quantity", -1)
    /\ reserved' = WrittenBack(c, reserved, "reserved", -1)
    /\ Posts(c, "sale", -1)
    /\ reservations' = [reservations EXCEPT ![Ord(c)].status = "CONFIRMED"]
    /\ UNCHANGED <<listing, created, stockReturns, returned, task>>

CommitReturn(c) ==
    /\ Op(c) = "return"
    /\ quantity' = WrittenBack(c, quantity, "quantity", 1)
    /\ Posts(c, "return", 1)
    /\ returned' = [returned EXCEPT ![Ord(c)] = [b \in Books |-> @[b] + Its(c)[b]]]
    /\ stockReturns' = IF Key(c) = NoKey THEN stockReturns
                       ELSE [stockReturns EXCEPT ![Key(c)] =
                               [order |-> Ord(c), items |-> Its(c),
                                reason |-> tx[c].req.reason]]
    /\ UNCHANGED <<listing, reserved, reservations, created, task>>

CommitReceipt(c) ==
    /\ Op(c) = "receive"
    /\ quantity' = WrittenBack(c, quantity, "quantity", 1)
    /\ Posts(c, "receipt", 1)
    /\ UNCHANGED <<listing, reserved, reservations, created, stockReturns, returned, task>>

CommitWriteOff(c) ==
    /\ Op(c) = "write_off"
    /\ quantity' = WrittenBack(c, quantity, "quantity", -1)
    /\ Posts(c, "write_off", -1)
    /\ UNCHANGED <<listing, reserved, reservations, created, stockReturns, returned, task>>

CommitAdjustment(c) ==
    /\ Op(c) = "adjust"
    /\ quantity' = [b \in Books |-> IF b \in tx[c].rows THEN Its(c)[b] ELSE quantity[b]]
    /\ movements' = T!Posted("adjustment", Difference(c))
    /\ UNCHANGED <<listing, reserved, reservations, created, stockReturns, returned, task>>

Commit(c) ==
    /\ tx[c].pc = "commit" /\ Allowed(c)
    /\ \/ CommitCreate(c) \/ CommitRelease(c) \/ CommitSale(c) \/ CommitReturn(c)
       \/ CommitReceipt(c) \/ CommitWriteOff(c) \/ CommitAdjustment(c)
    /\ Ends(c)

\* A guard fails: the request is answered 400 or 409 and rolled back.
Refuse(c) ==
    /\ tx[c].pc = "commit" /\ ~Allowed(c)
    /\ EndsUnchanged(c)

-----------------------------------------------------------------------------
(* Deadlock detection                                                       *)

WaitsFor(c) ==
    CASE tx[c].pc = "row" -> {rowLock[Ord(c)]} \ {Free}
      [] tx[c].pc = "lock" /\ tx[c].next # NoBook -> {bookLock[tx[c].next]} \ {Free}
      [] tx[c].pc = "insert" -> Inserting(c)
      [] OTHER -> {}

\* Circles of processes, each of which waits for another of them.
Circles == {S \in SUBSET Procs :
              /\ S # {}
              /\ \A c \in S : WaitsFor(c) \cap S # {}
              /\ \A c \in S : \E d \in S : c \in WaitsFor(d)}

\* The victim's request fails (500).  An expiry task does not catch the error:
\* it dies with the ids it had left.
DeadlockAbort(c) ==
    /\ \E S \in Circles : c \in S
    /\ c \in Workers => deaths < MaxDeaths
    /\ Ends(c)
    /\ IF c \in Workers
         THEN /\ batches' = [batches EXCEPT ![c] = {}]
              /\ onTime' = [onTime EXCEPT ![c] = {}]
              /\ deaths' = IF onTime[c] = {} THEN deaths ELSE deaths + 1
         ELSE UNCHANGED task
    /\ UNCHANGED tables

-----------------------------------------------------------------------------
(* The expiry task, books and time                                          *)

\* A confirmation that read the clock in time and will sell the reservation.
Selling(o) == \E c \in Procs : /\ tx[c].pc \in {"lock", "commit"} /\ Op(c) = "confirm"
                               /\ Ord(c) = o /\ tx[c].to = "CONFIRMED"

StartExpiry(w) ==
    /\ batches[w] = {} /\ ~Running(w) /\ T!Overdue # {}
    /\ batches' = [batches EXCEPT ![w] = T!Overdue]
    /\ onTime' = [onTime EXCEPT ![w] = {o \in T!Overdue : ~Selling(o)}]
    /\ UNCHANGED <<tables, deaths, tx, locks>>

BeginExpiry(w, o) ==
    /\ ~Running(w) /\ o \in batches[w]
    /\ tx' = [tx EXCEPT ![w] = Started(Request("expire", o, T!NoItems, NoKey, "none"),
                                       "row", {})]
    /\ UNCHANGED <<tables, task, locks>>

\* One statement each; an update of a locked row waits.
SyncBook(b, active) ==
    /\ bookLock[b] = Free
    /\ listing' = [listing EXCEPT ![b] = IF active THEN "active" ELSE "inactive"]
    /\ UNCHANGED <<quantity, reserved, movements, reservations, created, stockReturns,
                   returned, task, tx, locks>>

\* Time does not wait for locks.
TtlElapses(o) ==
    /\ reservations[o].status = "PENDING" /\ ~reservations[o].due
    /\ reservations' = [reservations EXCEPT ![o].due = TRUE]
    /\ UNCHANGED <<listing, quantity, reserved, movements, created, stockReturns,
                   returned, task, tx, locks>>

-----------------------------------------------------------------------------
\* A process goes on with its transaction.
Step(c) ==
    \/ Find(c) \/ LockRow(c) \/ HasBooks(c) \/ Check(c) \/ Insert(c)
    \/ \E b \in Books : TakeBook(c, b) \/ WaitForBook(c, b)
    \/ Commit(c) \/ Refuse(c)

Next ==
    \/ \E c \in Clients, req \in Requests : Begin(c, req)
    \/ \E c \in Procs : Step(c) \/ DeadlockAbort(c)
    \/ \E w \in Workers : StartExpiry(w)
    \/ \E w \in Workers, o \in Orders : BeginExpiry(w, o)
    \/ \E b \in Books, active \in BOOLEAN : SyncBook(b, active)
    \/ \E o \in Orders : TtlElapses(o)

Spec == Init /\ [][Next]_vars

\* PostgreSQL runs what can run, queues the waiters of a row (so a lock that is
\* freed again and again is granted in the end), and detects deadlocks.
Fairness == \A c \in Procs : SF_vars(Step(c)) /\ WF_vars(DeadlockAbort(c))

FairSpec == Spec /\ Fairness

-----------------------------------------------------------------------------
(* Properties *)

\* Each process runs one well-formed transaction, and a lock's owner runs.
TypeOK ==
    /\ T!TypeOK
    /\ \A c \in Procs : Running(c) =>
          /\ Op(c) \in Ops /\ tx[c].rows \subseteq Books /\ tx[c].todo \subseteq Books
          /\ tx[c].pc \in {"find", "row", "lock", "check", "insert", "commit"}
    /\ \A b \in Books : bookLock[b] # Free => Running(bookLock[b])
    /\ \A o \in Orders : rowLock[o] # Free => Running(rowLock[o])

\* What a transaction read under its locks is still so when it writes it back.
CopiesAreCurrent ==
    \A c \in Procs : Running(c) =>
       \A b \in tx[c].rows : Copy(c, b) = [quantity |-> quantity[b], reserved |-> reserved[b]]

\* The refinement.  The deadline of a reservation that is being sold passes, for
\* module Warehouse, after the sale commits: the confirmation read the clock
\* before.  A batch holds there what was overdue in that sense.
A == INSTANCE Warehouse WITH
       batches <- onTime,
       reservations <-
         [o \in Orders |-> [reservations[o] EXCEPT !.due =
            @ /\ ~Selling(o) /\ reservations[o].status # "CONFIRMED"]]

\* Seen from the tables every transaction is one step: no update is lost, no
\* check is stale when its result is written, no request is applied twice,
\* however statements, lock waits, uniqueness races and aborts interleave.
AtomicWarehouse == A!Spec

\* Requests that lock their books in order never block each other for good:
\* in every circle of waiters there is a confirmation, a cancellation or an
\* expiry, whose query has no ORDER BY.
OrderedLocksDoNotDeadlock ==
    \A S \in Circles : \E c \in S : Op(c) \in {"confirm", "cancel", "expire"}

\* Every transaction commits or fails; nobody waits for a lock for ever.
TransactionsEnd == \A c \in Procs : Running(c) ~> ~Running(c)

=============================================================================
