------------------------- MODULE WarehouseLocks_proofs -------------------------
(***************************************************************************)
(* Proofs about WarehouseLocks, for any books, orders, clients, workers    *)
(* and requests: what a transaction read under its locks is current, and   *)
(* the statements of all transactions together change the tables only as   *)
(* the one-step actions of module Warehouse do.                            *)
(***************************************************************************)
EXTENDS WarehouseLocks, FiniteSetTheorems, TLAPS

(***************************************************************************)
(* Invariants                                                              *)
(***************************************************************************)

Settles(op) == op \in {"confirm", "cancel", "expire"}
Stocks(op) == op \in {"receive", "write_off", "adjust"}

Asking == [op : Ops, order : Orders, items : T!ItemMaps, key : Keys \cup {NoKey},
           reason : Reasons \cup {"none"}]
Counters == [quantity : Nat, reserved : Nat]
Txs == [req : Asking, pc : {"find", "row", "lock", "check", "insert", "commit"},
        todo : SUBSET Books, next : Books \cup {NoBook}, rows : SUBSET Books,
        read : [Books -> Counters], to : {"NONE", "CONFIRMED", "CANCELLED", "EXPIRED"}]

TypeInv ==
    /\ T!TypeOK
    /\ onTime \in [Workers -> SUBSET Orders]
    /\ tx \in [Procs -> Txs \cup {NoTx}]
    /\ bookLock \in [Books -> Procs \cup {Free}]
    /\ rowLock \in [Orders -> Procs \cup {Free}]

\* Which statements hold the lock of their order's row, and which come before any
\* book is locked.
HoldsRow(c) ==
    \/ Settles(Op(c)) /\ tx[c].pc \in {"lock", "commit"}
    \/ Op(c) = "return" /\ tx[c].pc \in {"check", "lock", "insert", "commit"}
BeforeBooks(c) ==
    tx[c].pc \in {"find", "row"} \/ (Op(c) = "return" /\ tx[c].pc = "check")

\* A transaction by itself: its request, its statement, the books it has locked
\* and those it has not.
Formed(c) ==
    /\ Op(c) = "expire" <=> c \in Workers
    /\ ~Settles(Op(c)) => tx[c].req \in Requests
    /\ Op(c) = "create" => tx[c].pc \in {"find", "lock", "check", "insert", "commit"}
    /\ Settles(Op(c)) => tx[c].pc \in {"row", "lock", "commit"}
    /\ Stocks(Op(c)) => tx[c].pc \in {"lock", "commit"}
    /\ BeforeBooks(c) => tx[c].rows = {} /\ tx[c].todo = {}
    /\ tx[c].pc # "lock" => tx[c].todo = {}
    /\ Op(c) # "create" /\ ~BeforeBooks(c) => tx[c].rows \cup tx[c].todo = Named(Its(c))
    /\ Op(c) = "create" => tx[c].rows \cup tx[c].todo \subseteq Named(Its(c))
    /\ Op(c) = "create" /\ tx[c].pc \in {"insert", "commit"} => Enough(c)
    /\ tx[c].next # NoBook => /\ tx[c].next \in tx[c].todo
                              /\ Ordered(Op(c)) => \A d \in tx[c].todo : tx[c].next <= d
    /\ Settles(Op(c)) /\ HoldsRow(c) =>
          /\ Op(c) = "cancel" => tx[c].to = "CANCELLED"
          /\ Op(c) = "expire" => tx[c].to = "EXPIRED"
          /\ Op(c) = "confirm" => tx[c].to \in {"CONFIRMED", "EXPIRED"}

\* What a transaction has locked, all of it and nothing else; those that lock in
\* order hold no book that comes after one they still want.
Locked(c) ==
    /\ \A b \in tx[c].rows : bookLock[b] = c
    /\ HoldsRow(c) => rowLock[Ord(c)] = c
    /\ \A b \in Books : bookLock[b] = c =>
          /\ ~BeforeBooks(c)
          /\ Ordered(Op(c)) => \A d \in tx[c].todo : b < d
          /\ Stocks(Op(c)) => tx[c].todo = {}
    /\ \A o \in Orders : rowLock[o] = c => HoldsRow(c) /\ o = Ord(c)

\* What a transaction read is still so.
Current(c) ==
    /\ \A b \in tx[c].rows : /\ Copy(c, b) = [quantity |-> quantity[b], reserved |-> reserved[b]]
                             /\ Op(c) = "create" => listing[b] = "active"
    /\ Settles(Op(c)) => T!Exists(Ord(c))
    /\ Op(c) = "expire" => reservations[Ord(c)].due
    /\ Settles(Op(c)) /\ HoldsRow(c) =>
          /\ reservations[Ord(c)].status = "PENDING" /\ Its(c) = T!Items(Ord(c))
          /\ Op(c) = "confirm" /\ tx[c].to = "EXPIRED" => reservations[Ord(c)].due
    /\ Op(c) = "return" /\ HoldsRow(c) => reservations[Ord(c)].status = "CONFIRMED"
    /\ Op(c) = "return" /\ HoldsRow(c) /\ tx[c].pc # "check" => T!Returnable(Ord(c), Its(c))
    /\ Stocks(Op(c)) => \A b \in Named(Its(c)) : listing[b] # "absent"

\* An uncommitted insert is of a row that nobody has, and nobody else inserts it.
Unique(c) ==
    tx[c].pc = "commit" =>
       /\ Op(c) = "create" => T!Matches(Ord(c), Key(c)) = {}
       /\ Op(c) = "return" => ~KeyReturned(c)
       /\ Inserting(c) = {} \/ ~(Op(c) \in {"create", "return"})

Sound(c) == Formed(c) /\ Locked(c) /\ Current(c) /\ Unique(c)
TxInv == \A c \in Procs : Running(c) => Sound(c)
OwnersRun ==
    /\ \A b \in Books : bookLock[b] # Free => Running(bookLock[b])
    /\ \A o \in Orders : rowLock[o] # Free => Running(rowLock[o])

\* A reserved book has an inventory; the task's batches hold what is overdue.
ReservedAreListed ==
    \A o \in Orders, b \in Books : T!Items(o)[b] > 0 => listing[b] # "absent"
BatchesAreOverdue ==
    \A w \in Workers : /\ onTime[w] \subseteq batches[w]
                       /\ \A o \in batches[w] : T!Exists(o) /\ reservations[o].due

Inv == TypeInv /\ TxInv /\ OwnersRun /\ ReservedAreListed /\ BatchesAreOverdue

(***************************************************************************)
(* Types                                                                   *)
(***************************************************************************)

\* A request that is sent is one that can be asked; so is what it becomes when
\* its reservation's items are read.
LEMMA RequestType ==
    ASSUME NEW req \in Requests
    PROVE  /\ req \in Asking /\ req.op # "expire" /\ req.items \in T!Payloads
           /\ req.op = "return" => req.reason \in Reasons
           /\ Stocks(req.op) =>
                 \E b \in Books, n \in 1..MaxItem :
                    /\ req.items = T!Only(b, n)
                    /\ req.op = "adjust" => n <= MaxReceived + MaxAdjusted
BY LocksAssumption DEF Asking, Stocks, T!Payloads

LEMMA ItemMapType ==
    ASSUME NEW p \in T!ItemMaps, NEW b \in Books
    PROVE  p[b] \in Nat /\ p[b] <= MaxItem
BY LocksAssumption DEF T!ItemMaps

LEMMA NoItemsType == T!NoItems \in T!ItemMaps /\ Named(T!NoItems) = {}
BY LocksAssumption DEF T!NoItems, T!ItemMaps, Named

\* What runs is a transaction, NoTx is none.
LEMMA RunningType ==
    ASSUME TypeInv, NEW c \in Procs
    PROVE  /\ Running(c) <=> tx[c] \in Txs
           /\ ~Running(c) <=> tx[c] = NoTx
<1>1. tx[c] \in Txs \cup {NoTx}
  BY DEF TypeInv
<1>2. tx[c] \in Txs => tx[c].pc # "idle"
  BY DEF Txs
<1>3. NoTx.pc = "idle"
  BY DEF NoTx
<1> QED
  BY <1>1, <1>2, <1>3 DEF Running

LEMMA TxFields ==
    ASSUME TypeInv, NEW c \in Procs, Running(c)
    PROVE  /\ tx[c].req \in Asking /\ Op(c) \in Ops /\ Ord(c) \in Orders
           /\ Its(c) \in T!ItemMaps /\ Key(c) \in Keys \cup {NoKey}
           /\ tx[c].pc \in {"find", "row", "lock", "check", "insert", "commit"}
           /\ tx[c].todo \in SUBSET Books /\ tx[c].rows \in SUBSET Books
           /\ tx[c].next \in Books \cup {NoBook} /\ tx[c].read \in [Books -> Counters]
           /\ \A b \in Books : /\ Copy(c, b).quantity \in Nat /\ Copy(c, b).reserved \in Nat
                               /\ Its(c)[b] \in Nat
           /\ Named(Its(c)) \in SUBSET Books
<1>1. tx[c] \in Txs
  BY RunningType
<1>2. /\ tx[c].req \in Asking
      /\ tx[c].pc \in {"find", "row", "lock", "check", "insert", "commit"}
      /\ tx[c].todo \in SUBSET Books /\ tx[c].rows \in SUBSET Books
      /\ tx[c].next \in Books \cup {NoBook} /\ tx[c].read \in [Books -> Counters]
  BY <1>1 DEF Txs
<1>3. /\ Op(c) \in Ops /\ Ord(c) \in Orders
      /\ Its(c) \in T!ItemMaps /\ Key(c) \in Keys \cup {NoKey}
  BY <1>2 DEF Asking, Op, Ord, Its, Key
<1>4. \A b \in Books : Copy(c, b).quantity \in Nat /\ Copy(c, b).reserved \in Nat
  BY <1>2 DEF Copy, Counters
<1> QED
  BY <1>2, <1>3, <1>4, ItemMapType DEF Named

\* The transaction of c is new, the others stay.
Replaced(c, new) == tx' = [tx EXCEPT ![c] = new]

LEMMA ReplacedType ==
    ASSUME TypeInv, NEW c \in Procs, NEW new \in Txs \cup {NoTx}, Replaced(c, new)
    PROVE  /\ tx' \in [Procs -> Txs \cup {NoTx}]
           /\ tx'[c] = new /\ \A d \in Procs \ {c} : tx'[d] = tx[d]
BY DEF TypeInv, Replaced

LEMMA EndsType ==
    ASSUME TypeInv, NEW c \in Procs, Ends(c)
    PROVE  /\ tx' \in [Procs -> Txs \cup {NoTx}]
           /\ bookLock' \in [Books -> Procs \cup {Free}]
           /\ rowLock' \in [Orders -> Procs \cup {Free}]
           /\ tx'[c] = NoTx /\ \A d \in Procs \ {c} : tx'[d] = tx[d]
           /\ \A b \in Books : bookLock'[b] = IF bookLock[b] = c THEN Free ELSE bookLock[b]
           /\ \A o \in Orders : rowLock'[o] = IF rowLock[o] = c THEN Free ELSE rowLock[o]
BY DEF TypeInv, Ends

(***************************************************************************)
(* What each statement makes of its transaction                            *)
(***************************************************************************)

\* The transaction of c becomes this one, and the others stay.
Becomes(c, req, pc, todo, next, rows, read, to) ==
    /\ tx' \in [Procs -> Txs \cup {NoTx}] /\ tx'[c] \in Txs
    /\ tx'[c].req = req /\ tx'[c].pc = pc /\ tx'[c].todo = todo /\ tx'[c].next = next
    /\ tx'[c].rows = rows /\ tx'[c].read = read /\ tx'[c].to = to
    /\ \A d \in Procs \ {c} : tx'[d] = tx[d]

LEMMA StartedBecomes ==
    ASSUME TypeInv, NEW c \in Procs, NEW req \in Asking,
           NEW pc \in {"find", "row", "lock"}, NEW todo \in SUBSET Books,
           tx' = [tx EXCEPT ![c] = Started(req, pc, todo)]
    PROVE  Becomes(c, req, pc, todo, NoBook, {},
                   [b \in Books |-> [quantity |-> 0, reserved |-> 0]], "NONE")
<1>1. PICK read : read = [b \in Books |-> [quantity |-> 0, reserved |-> 0]]
  OBVIOUS
<1>2. read \in [Books -> Counters]
  BY <1>1 DEF Counters
<1>3. PICK new : new = Started(req, pc, todo)
  OBVIOUS
<1>4. new = [req |-> req, pc |-> pc, todo |-> todo, next |-> NoBook, rows |-> {},
             read |-> read, to |-> "NONE"]
  BY <1>1, <1>3 DEF Started
<1>5. new \in Txs
  BY <1>2, <1>4 DEF Txs
<1>6. tx' = [tx EXCEPT ![c] = new]
  BY <1>3
<1>7. tx'[c] = new /\ tx' \in [Procs -> Txs \cup {NoTx}]
      /\ \A d \in Procs \ {c} : tx'[d] = tx[d]
  BY <1>5, <1>6, ReplacedType DEF Replaced
<1> QED
  BY <1>1, <1>4, <1>5, <1>7 DEF Becomes

LEMMA GoesBecomes ==
    ASSUME TypeInv, NEW c \in Procs, Running(c),
           NEW pc \in {"find", "row", "lock", "check", "insert", "commit"}, Goes(c, pc)
    PROVE  Becomes(c, tx[c].req, pc, tx[c].todo, tx[c].next, tx[c].rows, tx[c].read, tx[c].to)
<1>1. PICK old : old = tx[c]
  OBVIOUS
<1>2. PICK new : new = [old EXCEPT !.pc = pc]
  OBVIOUS
<1>3. old \in Txs
  BY <1>1, RunningType
<1>4. /\ new \in Txs /\ new.pc = pc
      /\ new.req = old.req /\ new.todo = old.todo /\ new.next = old.next
      /\ new.rows = old.rows /\ new.read = old.read /\ new.to = old.to
  BY <1>2, <1>3 DEF Txs
<1>5. tx' = [tx EXCEPT ![c] = new]
  BY <1>1, <1>2 DEF Goes
<1>6. tx'[c] = new /\ tx' \in [Procs -> Txs \cup {NoTx}]
      /\ \A d \in Procs \ {c} : tx'[d] = tx[d]
  BY <1>4, <1>5, ReplacedType DEF Replaced
<1> QED
  BY <1>1, <1>4, <1>6 DEF Becomes

\* The books to lock are known.
LEMMA ListsBecomes ==
    ASSUME TypeInv, NEW c \in Procs, Running(c), NEW todo \in SUBSET Books,
           tx' = [tx EXCEPT ![c].pc = "lock", ![c].todo = todo]
    PROVE  Becomes(c, tx[c].req, "lock", todo, tx[c].next, tx[c].rows, tx[c].read, tx[c].to)
<1>1. PICK old : old = tx[c]
  OBVIOUS
<1>2. PICK new : new = [old EXCEPT !.pc = "lock", !.todo = todo]
  OBVIOUS
<1>3. old \in Txs
  BY <1>1, RunningType
<1>4. /\ new \in Txs /\ new.pc = "lock" /\ new.todo = todo
      /\ new.req = old.req /\ new.next = old.next
      /\ new.rows = old.rows /\ new.read = old.read /\ new.to = old.to
  BY <1>2, <1>3 DEF Txs
<1>5. tx' = [tx EXCEPT ![c] = new]
  BY <1>1, <1>2 DEF TypeInv
<1>6. tx'[c] = new /\ tx' \in [Procs -> Txs \cup {NoTx}]
      /\ \A d \in Procs \ {c} : tx'[d] = tx[d]
  BY <1>4, <1>5, ReplacedType DEF Replaced
<1> QED
  BY <1>1, <1>4, <1>6 DEF Becomes

LEMMA DecidesBecomes ==
    ASSUME TypeInv, NEW c \in Procs, Running(c), NEW items \in T!ItemMaps,
           NEW to \in {"CONFIRMED", "CANCELLED", "EXPIRED"}, NEW todo \in SUBSET Books,
           tx' = [tx EXCEPT ![c].pc = "lock", ![c].to = to, ![c].req.items = items,
                            ![c].todo = todo]
    PROVE  Becomes(c, [tx[c].req EXCEPT !.items = items], "lock", todo, tx[c].next,
                   tx[c].rows, tx[c].read, to)
<1>1. PICK old : old = tx[c]
  OBVIOUS
<1>2. PICK req : req = [old.req EXCEPT !.items = items]
  OBVIOUS
<1>3. PICK new : new = [old EXCEPT !.pc = "lock", !.to = to, !.req.items = items,
                                   !.todo = todo]
  OBVIOUS
<1>4. old \in Txs /\ old.req \in Asking
  BY <1>1, RunningType, TxFields
<1>5. req \in Asking
  BY <1>2, <1>4 DEF Asking
<1>a. new = [old EXCEPT !.pc = "lock", !.to = to, !.req = req, !.todo = todo]
  BY <1>2, <1>3, <1>4 DEF Txs
<1>6. /\ new \in Txs /\ new.pc = "lock" /\ new.todo = todo /\ new.to = to
      /\ new.req = req /\ new.next = old.next
      /\ new.rows = old.rows /\ new.read = old.read
  BY <1>a, <1>4, <1>5 DEF Txs
<1>b. tx \in [Procs -> Txs \cup {NoTx}]
  BY DEF TypeInv
<1>7. tx'[c] = new /\ \A d \in Procs \ {c} : tx'[d] = tx[d]
  BY <1>1, <1>3, <1>b
<1>c. tx' = [d \in Procs |-> tx'[d]]
  BY <1>b
<1>8. tx'[c] = new /\ tx' \in [Procs -> Txs \cup {NoTx}]
      /\ \A d \in Procs \ {c} : tx'[d] = tx[d]
  BY <1>6, <1>7, <1>b, <1>c
<1> QED
  BY <1>1, <1>2, <1>6, <1>8 DEF Becomes

LEMMA WaitsBecomes ==
    ASSUME TypeInv, NEW c \in Procs, Running(c), NEW b \in Books,
           tx' = [tx EXCEPT ![c].next = b]
    PROVE  Becomes(c, tx[c].req, tx[c].pc, tx[c].todo, b, tx[c].rows, tx[c].read, tx[c].to)
<1>1. PICK old : old = tx[c]
  OBVIOUS
<1>2. PICK new : new = [old EXCEPT !.next = b]
  OBVIOUS
<1>3. old \in Txs
  BY <1>1, RunningType
<1>4. /\ new \in Txs /\ new.next = b /\ new.pc = old.pc
      /\ new.req = old.req /\ new.todo = old.todo
      /\ new.rows = old.rows /\ new.read = old.read /\ new.to = old.to
  BY <1>2, <1>3 DEF Txs
<1>5. tx' = [tx EXCEPT ![c] = new]
  BY <1>1, <1>2
<1>6. tx'[c] = new /\ tx' \in [Procs -> Txs \cup {NoTx}]
      /\ \A d \in Procs \ {c} : tx'[d] = tx[d]
  BY <1>4, <1>5, ReplacedType DEF Replaced
<1> QED
  BY <1>1, <1>4, <1>6 DEF Becomes

LEMMA TakesBecomes ==
    ASSUME TypeInv, NEW c \in Procs, Running(c), NEW b \in Books, TakeBook(c, b)
    PROVE  Becomes(c, tx[c].req, "lock", tx[c].todo \ {b}, NoBook,
                   IF Op(c) = "create" /\ listing[b] # "active"
                     THEN tx[c].rows ELSE tx[c].rows \cup {b},
                   [tx[c].read EXCEPT ![b] = [quantity |-> quantity[b], reserved |-> reserved[b]]],
                   tx[c].to)
<1>1. PICK old : old = tx[c]
  OBVIOUS
<1>2. PICK rows : rows = IF Op(c) = "create" /\ listing[b] # "active"
                           THEN old.rows ELSE old.rows \cup {b}
  OBVIOUS
<1>3. PICK now : now = [quantity |-> quantity[b], reserved |-> reserved[b]]
  OBVIOUS
<1>4. PICK read : read = [old.read EXCEPT ![b] = now]
  OBVIOUS
<1>5. PICK new : new = [old EXCEPT !.todo = old.todo \ {b}, !.next = NoBook, !.rows = rows,
                                   !.read[b] = now]
  OBVIOUS
<1>6. now \in Counters
  BY <1>3 DEF Counters, TypeInv, T!TypeOK
<1>7. old \in Txs /\ old.rows \in SUBSET Books /\ old.todo \in SUBSET Books
      /\ old.read \in [Books -> Counters] /\ old.pc = "lock"
  BY <1>1, RunningType, TxFields DEF TakeBook
<1>8. rows \in SUBSET Books /\ read \in [Books -> Counters]
  BY <1>2, <1>4, <1>6, <1>7
<1>a. new = [old EXCEPT !.todo = old.todo \ {b}, !.next = NoBook, !.rows = rows,
                        !.read = read]
  BY <1>4, <1>5, <1>7 DEF Txs
<1>9. /\ new \in Txs /\ new.next = NoBook /\ new.pc = "lock" /\ new.todo = old.todo \ {b}
      /\ new.req = old.req /\ new.rows = rows /\ new.read = read /\ new.to = old.to
  BY <1>a, <1>7, <1>8 DEF Txs
<1>b. tx \in [Procs -> Txs \cup {NoTx}]
  BY DEF TypeInv
<1>10. tx'[c] = new /\ \A d \in Procs \ {c} : tx'[d] = tx[d]
  BY <1>1, <1>2, <1>3, <1>5, <1>b DEF TakeBook
<1>d. tx' = [tx EXCEPT ![c].todo = @ \ {b}, ![c].next = NoBook, ![c].rows = rows,
                       ![c].read[b] = now]
  BY <1>1, <1>2, <1>3, <1>b DEF TakeBook
<1>c. tx' = [d \in Procs |-> tx'[d]]
  BY <1>b, <1>d
<1>11. tx'[c] = new /\ tx' \in [Procs -> Txs \cup {NoTx}]
      /\ \A d \in Procs \ {c} : tx'[d] = tx[d]
  BY <1>9, <1>10, <1>b, <1>c
<1> QED
  BY <1>1, <1>2, <1>3, <1>4, <1>9, <1>11 DEF Becomes

(***************************************************************************)
(* What a step leaves to the other transactions                            *)
(***************************************************************************)

\* A step of c touches no row that another holds, takes no lock from another, and
\* whatever exists goes on existing.
Frame(c) ==
    /\ \A b \in Books, d \in Procs : d # c => (bookLock'[b] = d <=> bookLock[b] = d)
    /\ \A o \in Orders, d \in Procs : d # c => (rowLock'[o] = d <=> rowLock[o] = d)
    /\ \A b \in Books : bookLock[b] \notin {c, Free} =>
          quantity'[b] = quantity[b] /\ reserved'[b] = reserved[b] /\ listing'[b] = listing[b]
    /\ \A b \in Books : listing[b] # "absent" => listing'[b] # "absent"
    /\ \A o \in Orders : T!Exists(o) =>
          /\ reservations'[o].status # "NONE"
          /\ reservations[o].due => reservations'[o].due
          /\ reservations'[o].items = reservations[o].items
    /\ \A o \in Orders : rowLock[o] \notin {c, Free} =>
          reservations'[o].status = reservations[o].status /\ returned'[o] = returned[o]

LEMMA FormedStays ==
    ASSUME NEW d, Formed(d), tx'[d] = tx[d]
    PROVE  Formed(d)'
BY DEF Formed, Op, Ord, Its, Named, BeforeBooks, HoldsRow, Settles, Stocks, Enough, Copy, Ordered

LEMMA LockedStays ==
    ASSUME NEW c, NEW d \in Procs, d # c, Locked(d), tx'[d] = tx[d], TypeInv, Running(d), Frame(c)
    PROVE  Locked(d)'
<1>1. Ord(d) \in Orders /\ tx[d].rows \in SUBSET Books
  BY TxFields
<1>2. /\ \A b \in Books : bookLock'[b] = d <=> bookLock[b] = d
      /\ \A o \in Orders : rowLock'[o] = d <=> rowLock[o] = d
  BY DEF Frame
<1>3. Op(d)' = Op(d) /\ Ord(d)' = Ord(d)
  BY DEF Op, Ord
<1>4. (HoldsRow(d)' <=> HoldsRow(d)) /\ (BeforeBooks(d)' <=> BeforeBooks(d))
  BY <1>3 DEF HoldsRow, BeforeBooks, Settles
<1>5. /\ \A b \in tx'[d].rows : bookLock'[b] = d
      /\ HoldsRow(d)' => rowLock'[Ord(d)'] = d
  BY <1>1, <1>2, <1>3, <1>4 DEF Locked
<1>6. \A b \in Books : bookLock'[b] = d =>
          /\ ~BeforeBooks(d)'
          /\ Ordered(Op(d)') => \A e \in tx'[d].todo : b < e
          /\ Stocks(Op(d)') => tx'[d].todo = {}
  BY <1>2, <1>3, <1>4 DEF Locked
<1>7. \A o \in Orders : rowLock'[o] = d => HoldsRow(d)' /\ o = Ord(d)'
  BY <1>2, <1>3, <1>4 DEF Locked
<1> QED
  BY <1>5, <1>6, <1>7 DEF Locked

LEMMA CurrentStays ==
    ASSUME NEW c, NEW d \in Procs, d # c, Free # d, Locked(d), Current(d), tx'[d] = tx[d], TypeInv,
           Running(d), Frame(c)
    PROVE  Current(d)'
<1>1. Ord(d) \in Orders /\ tx[d].rows \in SUBSET Books /\ Named(Its(d)) \in SUBSET Books
  BY TxFields
<1>2. Op(d)' = Op(d) /\ Ord(d)' = Ord(d) /\ Its(d)' = Its(d) /\ tx'[d].rows = tx[d].rows
  BY DEF Op, Ord, Its
<1>3. HoldsRow(d)' <=> HoldsRow(d)
  BY <1>2 DEF HoldsRow, Settles
<1>4. \A b \in tx[d].rows : quantity'[b] = quantity[b] /\ reserved'[b] = reserved[b]
                               /\ listing'[b] = listing[b]
  BY <1>1 DEF Locked, Frame
<1>5. \A b \in Books : Copy(d, b)' = Copy(d, b)
  BY DEF Copy
<1>6. \A b \in tx'[d].rows :
         /\ Copy(d, b)' = [quantity |-> quantity'[b], reserved |-> reserved'[b]]
         /\ Op(d)' = "create" => listing'[b] = "active"
  BY <1>1, <1>2, <1>4, <1>5 DEF Current
<1>7. Settles(Op(d)) => T!Exists(Ord(d))'
  BY <1>1, <1>2 DEF Current, Frame, T!Exists
<1>8. Op(d)' = "expire" => reservations'[Ord(d)'].due
  BY <1>1, <1>2 DEF Current, Frame, T!Exists, Settles
<1>9. Settles(Op(d)) /\ HoldsRow(d) =>
         /\ reservations'[Ord(d)].status = "PENDING" /\ Its(d) = reservations'[Ord(d)].items
         /\ Op(d) = "confirm" /\ tx[d].to = "EXPIRED" => reservations'[Ord(d)].due
  BY <1>1 DEF Current, Frame, Locked, T!Exists, T!Items
<1>10. Op(d) = "return" /\ HoldsRow(d) =>
         /\ reservations'[Ord(d)].status = "CONFIRMED"
         /\ tx[d].pc # "check" => T!Returnable(Ord(d), Its(d))'
  BY <1>1, <1>2 DEF Current, Frame, Locked, T!Exists, T!Items, T!Returnable
<1>11. Stocks(Op(d)) => \A b \in Named(Its(d)) : listing'[b] # "absent"
  BY <1>1 DEF Current, Frame
<1>12. Named(Its(d))' = Named(Its(d))
  BY <1>2 DEF Named
<1> QED
  BY <1>2, <1>3, <1>6, <1>7, <1>8, <1>9, <1>10, <1>11, <1>12 DEF Current, T!Items

\* An uncommitted insert of another is still the only one of its kind.
Alone(c) ==
    \A d \in Procs : d # c /\ Running(d) /\ tx[d].pc = "commit" =>
       /\ Op(d) = "create" => (T!Matches(Ord(d), Key(d)) = {})'
       /\ Op(d) = "return" => ~KeyReturned(d)'
       /\ Op(d) \in {"create", "return"} => c \notin Inserting(d)'

LEMMA UniqueStays ==
    ASSUME NEW c, NEW d \in Procs, d # c, Running(d), Unique(d), Alone(c), tx'[d] = tx[d],
           \A e \in Procs \ {c} : tx'[e] = tx[e]
    PROVE  Unique(d)'
<1>1. Op(d)' = Op(d) /\ Ord(d)' = Ord(d) /\ Key(d)' = Key(d)
  BY DEF Op, Ord, Key
<1>2. \A e \in Procs \ {c, d} : e \in Inserting(d)' => e \in Inserting(d)
  BY <1>1 DEF Inserting, SameUnique, Op, Ord, Key
<1>3. \A e \in Inserting(d)' : e \in Procs \ {d}
  BY DEF Inserting
<1>4. tx[d].pc = "commit" /\ Op(d) \in {"create", "return"} => Inserting(d)' = {}
  BY <1>2, <1>3 DEF Unique, Alone
<1> QED
  BY <1>1, <1>4 DEF Unique, Alone

LEMMA OthersStaySound ==
    ASSUME NEW c, NEW d \in Procs, d # c, Running(d), Inv, Frame(c), Alone(c),
           \A e \in Procs \ {c} : tx'[e] = tx[e]
    PROVE  Running(d)' /\ Sound(d)'
<1>1. tx'[d] = tx[d] /\ Free # d
  BY LocksAssumption
<1>2. TypeInv /\ Sound(d)
  BY DEF Inv, TxInv
<1> QED
  BY <1>1, <1>2, FormedStays, LockedStays, CurrentStays, UniqueStays DEF Sound, Running

(***************************************************************************)
(* Steps that write nothing                                                *)
(***************************************************************************)

\* c goes on, perhaps with a lock that was free; the tables stay.
Silent(c) ==
    /\ UNCHANGED <<tables, task>>
    /\ bookLock' \in [Books -> Procs \cup {Free}] /\ rowLock' \in [Orders -> Procs \cup {Free}]
    /\ \A b \in Books : bookLock'[b] # bookLock[b] => bookLock[b] = Free /\ bookLock'[b] = c
    /\ \A o \in Orders : rowLock'[o] # rowLock[o] => rowLock[o] = Free /\ rowLock'[o] = c
    /\ tx' \in [Procs -> Txs \cup {NoTx}] /\ tx'[c] \in Txs
    /\ \A d \in Procs \ {c} : tx'[d] = tx[d]

\* No other transaction inserts what c now inserts.
NoRival(c) ==
    \A d \in Procs : d # c /\ Running(d) /\ tx[d].pc = "commit" /\ Op(d) \in {"create", "return"}
                        => c \notin Inserting(d)'

LEMMA SilentFrame ==
    ASSUME NEW c \in Procs, Silent(c), TypeInv
    PROVE  Frame(c)
<1>1. Free \notin Procs
  BY LocksAssumption
<1> QED
  BY <1>1 DEF Silent, Frame, tables, T!Exists

LEMMA SilentAlone ==
    ASSUME NEW c \in Procs, Silent(c), NoRival(c), TxInv
    PROVE  Alone(c)
<1> SUFFICES ASSUME NEW d \in Procs, d # c, Running(d), tx[d].pc = "commit"
             PROVE  /\ Op(d) = "create" => (T!Matches(Ord(d), Key(d)) = {})'
                    /\ Op(d) = "return" => ~KeyReturned(d)'
                    /\ Op(d) \in {"create", "return"} => c \notin Inserting(d)'
  BY DEF Alone
<1>1. Unique(d)
  BY DEF TxInv, Sound
<1>2. Op(d)' = Op(d) /\ Ord(d)' = Ord(d) /\ Key(d)' = Key(d)
  BY DEF Op, Ord, Key, Silent
<1>3. reservations' = reservations /\ stockReturns' = stockReturns
  BY DEF Silent, tables
<1>4. T!Matches(Ord(d), Key(d))' = T!Matches(Ord(d), Key(d)) /\ (KeyReturned(d)' <=> KeyReturned(d))
  BY <1>2, <1>3 DEF T!Matches, KeyReturned, T!Exists
<1> QED
  BY <1>1, <1>4 DEF Unique, NoRival

LEMMA SilentKeeps ==
    ASSUME NEW c \in Procs, Inv, Silent(c), NoRival(c), Sound(c)'
    PROVE  Inv'
<1>1. TypeInv /\ TxInv
  BY DEF Inv
<1>2. Frame(c) /\ Alone(c)
  BY <1>1, SilentFrame, SilentAlone
<1>3. TypeInv'
  BY <1>1 DEF TypeInv, Silent, tables, task, T!TypeOK
<1>4. TxInv'
  <2> SUFFICES ASSUME NEW d \in Procs, Running(d)'
               PROVE  Sound(d)'
    BY DEF TxInv
  <2>1. CASE d = c
    BY <2>1
  <2>2. CASE d # c
    <3>1. Running(d) /\ \A e \in Procs \ {c} : tx'[e] = tx[e]
      BY <2>2 DEF Silent, Running
    <3> QED
      BY <1>2, <2>2, <3>1, OthersStaySound
  <2> QED
    BY <2>1, <2>2
<1>5. Running(c)' /\ \A d \in Procs \ {c} : Running(d)' <=> Running(d)
  BY DEF Silent, Running, Txs
<1>6. OwnersRun'
  <2>1. \A b \in Books : bookLock'[b] \in Procs \cup {Free} /\ bookLock[b] \in Procs \cup {Free}
    BY <1>1 DEF TypeInv, Silent
  <2>2. \A o \in Orders : rowLock'[o] \in Procs \cup {Free} /\ rowLock[o] \in Procs \cup {Free}
    BY <1>1 DEF TypeInv, Silent
  <2>3. OwnersRun
    BY DEF Inv
  <2>4. \A b \in Books : bookLock'[b] # Free => bookLock'[b] = c \/ bookLock'[b] = bookLock[b]
    BY DEF Silent
  <2>5. \A o \in Orders : rowLock'[o] # Free => rowLock'[o] = c \/ rowLock'[o] = rowLock[o]
    BY DEF Silent
  <2>6. \A b \in Books : bookLock'[b] # Free => tx'[bookLock'[b]].pc # "idle"
    BY <1>5, <2>1, <2>3, <2>4 DEF OwnersRun, Running
  <2>7. \A o \in Orders : rowLock'[o] # Free => tx'[rowLock'[o]].pc # "idle"
    BY <1>5, <2>2, <2>3, <2>5 DEF OwnersRun, Running
  <2> QED
    BY <2>6, <2>7 DEF OwnersRun, Running
<1>7. ReservedAreListed'
  BY DEF Inv, ReservedAreListed, Silent, tables, T!Items
<1>8. BatchesAreOverdue'
  BY DEF Inv, BatchesAreOverdue, Silent, tables, task, T!Exists
<1> QED
  BY <1>3, <1>4, <1>6, <1>7, <1>8 DEF Inv

\* When c does not come to insert, no one else waits for it to.
LEMMA NoInsert ==
    ASSUME NEW c \in Procs, tx'[c].pc # "commit" \/ ~(Op(c)' \in {"create", "return"})
    PROVE  NoRival(c)
BY DEF NoRival, Inserting

LEMMA SilentBecomes ==
    ASSUME NEW c \in Procs, NEW req, NEW pc, NEW todo, NEW next, NEW rows, NEW read, NEW to,
           TypeInv, Becomes(c, req, pc, todo, next, rows, read, to),
           UNCHANGED <<tables, task, locks>>
    PROVE  Silent(c)
BY DEF TypeInv, Silent, Becomes, locks

\* A process that runs nothing owns nothing.
LEMMA IdleOwnsNothing ==
    ASSUME Inv, NEW c \in Procs, ~Running(c)
    PROVE  /\ \A b \in Books : bookLock[b] # c
           /\ \A o \in Orders : rowLock[o] # c
BY LocksAssumption DEF Inv, OwnersRun

LEMMA BeginKeeps ==
    ASSUME Inv, NEW c \in Clients, NEW req \in Requests, Begin(c, req)
    PROVE  Inv'
<1> DEFINE first == FirstStatement(req.op)
           todo == IF first = "lock" THEN Named(req.items) ELSE {}
           zeros == [b \in Books |-> [quantity |-> 0, reserved |-> 0]]
<1>1. c \in Procs /\ c \notin Workers /\ TypeInv /\ ~Running(c)
  BY LocksAssumption DEF Procs, Inv, Begin
<1>2. req \in Asking /\ req.op # "expire"
  BY RequestType
<1>3. req.op \in Ops /\ req.order \in Orders
  BY <1>2 DEF Asking
<1>4. first \in {"find", "row", "lock"} /\ todo \in SUBSET Books
  BY <1>3 DEF FirstStatement, Ops, Named
<1>5. /\ req.op \in {"create", "return"} => first = "find"
      /\ Settles(req.op) => first = "row"
      /\ Stocks(req.op) => first = "lock"
      /\ todo = IF Stocks(req.op) THEN Named(req.items) ELSE {}
  <2>1. /\ req.op \in {"create", "return"} => first = "find"
        /\ req.op \in {"confirm", "cancel", "expire"} => first = "row"
        /\ req.op \in {"receive", "write_off", "adjust"} => first = "lock"
    BY DEF FirstStatement
  <2> HIDE DEF first
  <2> QED
    BY <1>3, <2>1 DEF Settles, Stocks, Ops
<1>6. tx' = [tx EXCEPT ![c] = Started(req, first, todo)] /\ UNCHANGED <<tables, task, locks>>
  BY DEF Begin
<1>7. Becomes(c, req, first, todo, NoBook, {}, zeros, "NONE")
  <2> HIDE DEF first, todo
  <2> QED
    BY <1>1, <1>2, <1>4, <1>6, StartedBecomes
<1> HIDE DEF first, todo, zeros
<1>8. Silent(c)
  BY <1>1, <1>6, <1>7, SilentBecomes
<1>9. /\ Op(c)' = req.op /\ Ord(c)' = req.order /\ Its(c)' = req.items /\ tx'[c].req = req
      /\ tx'[c].pc = first /\ tx'[c].todo = todo /\ tx'[c].next = NoBook /\ tx'[c].rows = {}
  BY <1>7 DEF Becomes, Op, Ord, Its
<1>10. Named(Its(c))' = Named(req.items)
  BY <1>9 DEF Named
<1>11. ~HoldsRow(c)' /\ (BeforeBooks(c)' <=> ~Stocks(req.op))
  BY <1>3, <1>5, <1>9 DEF HoldsRow, BeforeBooks, Settles, Stocks, Ops
<1>12. Formed(c)'
  BY <1>1, <1>2, <1>3, <1>5, <1>9, <1>10, <1>11 DEF Formed, Settles, Stocks, Ops
<1>13. /\ \A b \in Books : bookLock'[b] # c
       /\ \A o \in Orders : rowLock'[o] # c
  BY <1>1, <1>6, IdleOwnsNothing DEF locks
<1>14. Locked(c)'
  BY <1>9, <1>11, <1>13 DEF Locked
<1>15. /\ Settles(req.op) => reservations'[req.order].status # "NONE"
       /\ Stocks(req.op) => \A b \in Named(req.items) : listing'[b] # "absent"
  BY <1>2, <1>6 DEF Begin, Settles, Stocks, T!Exists, tables
<1>16. Current(c)'
  BY <1>2, <1>9, <1>10, <1>11, <1>15 DEF Current, T!Exists
<1>17. Unique(c)' /\ NoRival(c)
  BY <1>1, <1>4, <1>9, NoInsert DEF Unique
<1> QED
  BY <1>1, <1>8, <1>12, <1>14, <1>16, <1>17, SilentKeeps DEF Sound

LEMMA BeginExpiryKeeps ==
    ASSUME Inv, NEW w \in Workers, NEW o \in Orders, BeginExpiry(w, o)
    PROVE  Inv'
<1> DEFINE req == Request("expire", o, T!NoItems, NoKey, "none")
           zeros == [b \in Books |-> [quantity |-> 0, reserved |-> 0]]
<1>1. w \in Procs /\ TypeInv /\ ~Running(w)
  BY DEF Procs, Inv, BeginExpiry
<1>2. req \in Asking /\ req.op = "expire" /\ req.order = o /\ req.items = T!NoItems
  BY NoItemsType DEF Asking, Request, Ops
<1>3. T!Exists(o) /\ reservations[o].due
  BY DEF BeginExpiry, Inv, BatchesAreOverdue
<1>4. tx' = [tx EXCEPT ![w] = Started(req, "row", {})] /\ UNCHANGED <<tables, task, locks>>
  BY DEF BeginExpiry
<1> HIDE DEF req
<1>5. Becomes(w, req, "row", {}, NoBook, {}, zeros, "NONE")
  BY <1>1, <1>2, <1>4, StartedBecomes
<1> HIDE DEF zeros
<1>6. Silent(w)
  BY <1>1, <1>4, <1>5, SilentBecomes
<1>7. /\ Op(w)' = "expire" /\ Ord(w)' = o /\ tx'[w].pc = "row"
      /\ tx'[w].todo = {} /\ tx'[w].next = NoBook /\ tx'[w].rows = {}
  BY <1>2, <1>5 DEF Becomes, Op, Ord
<1>8. ~HoldsRow(w)' /\ BeforeBooks(w)'
  BY <1>7 DEF HoldsRow, BeforeBooks
<1>9. Formed(w)'
  BY <1>7, <1>8 DEF Formed, Settles, Stocks
<1>10. /\ \A b \in Books : bookLock'[b] # w
       /\ \A r \in Orders : rowLock'[r] # w
  BY <1>1, <1>4, IdleOwnsNothing DEF locks
<1>11. Locked(w)'
  BY <1>7, <1>8, <1>10 DEF Locked
<1>12. reservations'[o].status # "NONE" /\ reservations'[o].due
  BY <1>3, <1>4 DEF T!Exists, tables
<1>13. Current(w)'
  BY <1>7, <1>8, <1>12 DEF Current, T!Exists, Stocks
<1>14. Unique(w)' /\ NoRival(w)
  BY <1>1, <1>7, NoInsert DEF Unique
<1> QED
  BY <1>1, <1>6, <1>9, <1>11, <1>13, <1>14, SilentKeeps DEF Sound

\* Before it has locked a book, and its order's row, a transaction owns nothing.
LEMMA OwnsNothingYet ==
    ASSUME NEW c \in Procs, Locked(c), BeforeBooks(c), ~HoldsRow(c)
    PROVE  /\ \A b \in Books : bookLock[b] # c
           /\ \A o \in Orders : rowLock[o] # c
BY DEF Locked

\* Of a transaction that runs and the state it runs in.
LEMMA OfRunning ==
    ASSUME Inv, NEW c \in Procs, Running(c)
    PROVE  TypeInv /\ Formed(c) /\ Locked(c) /\ Current(c) /\ Unique(c)
BY DEF Inv, TxInv, Sound

LEMMA FindKeeps ==
    ASSUME Inv, NEW c \in Procs, Running(c), Find(c), ~EndsUnchanged(c)
    PROVE  Inv'
<1>1. /\ TypeInv /\ Formed(c) /\ Locked(c) /\ tx[c].pc = "find"
      /\ UNCHANGED <<tables, task, locks>>
  BY OfRunning DEF Find
<1>2. BeforeBooks(c) /\ ~HoldsRow(c) /\ tx[c].rows = {} /\ tx[c].todo = {} /\ tx[c].next = NoBook
  <2>1. BeforeBooks(c) /\ ~HoldsRow(c)
    BY <1>1 DEF BeforeBooks, HoldsRow
  <2>2. tx[c].rows = {} /\ tx[c].todo = {}
    BY <1>1, <2>1 DEF Formed
  <2> QED
    BY <1>1, <2>1, <2>2 DEF Formed
<1>3. /\ \A b \in Books : bookLock'[b] # c
      /\ \A o \in Orders : rowLock'[o] # c
  BY <1>1, <1>2, OwnsNothingYet DEF locks
<1>4. Op(c) \in {"create", "return"}
  BY DEF Find
<1>5. CASE /\ Op(c) = "create"
           /\ tx' = [tx EXCEPT ![c].pc = "lock",
                       ![c].todo = {b \in Named(Its(c)) : listing[b] = "active"}]
  <2>1. PICK todo \in SUBSET Named(Its(c)) : todo = {b \in Named(Its(c)) : listing[b] = "active"}
    OBVIOUS
  <2>2. todo \in SUBSET Books
    BY DEF Named
  <2>3. Becomes(c, tx[c].req, "lock", todo, tx[c].next, tx[c].rows, tx[c].read, tx[c].to)
    BY <1>1, <1>5, <2>1, <2>2, ListsBecomes
  <2>4. Silent(c)
    BY <1>1, <2>3, SilentBecomes
  <2>5. /\ Op(c)' = "create" /\ Its(c)' = Its(c) /\ tx'[c].req = tx[c].req /\ tx'[c].pc = "lock"
        /\ tx'[c].todo = todo /\ tx'[c].rows = {} /\ tx'[c].next = NoBook
    BY <1>2, <1>5, <2>3 DEF Becomes, Op, Its
  <2>6. ~HoldsRow(c)' /\ ~BeforeBooks(c)' /\ Named(Its(c))' = Named(Its(c))
    BY <2>5 DEF HoldsRow, BeforeBooks, Settles, Named
  <2>7. tx[c].req \in Requests /\ c \notin Workers
    BY <1>1, <1>5 DEF Formed, Settles
  <2>8. Formed(c)'
    BY <2>5, <2>6, <2>7 DEF Formed, Settles, Stocks
  <2>9. Locked(c)'
    BY <1>3, <2>5, <2>6 DEF Locked
  <2>10. Current(c)' /\ Unique(c)' /\ NoRival(c)
    BY <2>5, NoInsert DEF Current, Unique, Settles, Stocks
  <2> QED
    BY <2>4, <2>8, <2>9, <2>10, SilentKeeps DEF Sound
<1>6. CASE Op(c) = "return" /\ Goes(c, "row")
  <2>1. Becomes(c, tx[c].req, "row", tx[c].todo, tx[c].next, tx[c].rows, tx[c].read, tx[c].to)
    BY <1>1, <1>6, GoesBecomes
  <2>2. Silent(c)
    BY <1>1, <2>1, SilentBecomes
  <2>3. /\ Op(c)' = "return" /\ tx'[c].req = tx[c].req /\ tx'[c].pc = "row"
        /\ tx'[c].todo = {} /\ tx'[c].rows = {} /\ tx'[c].next = NoBook
    BY <1>2, <1>6, <2>1 DEF Becomes, Op
  <2>4. ~HoldsRow(c)' /\ BeforeBooks(c)'
    BY <2>3 DEF HoldsRow, BeforeBooks, Settles
  <2>5. tx[c].req \in Requests /\ c \notin Workers
    BY <1>1, <1>6 DEF Formed, Settles
  <2>6. Formed(c)'
    BY <2>3, <2>4, <2>5 DEF Formed, Settles, Stocks
  <2>7. Locked(c)'
    BY <1>3, <2>3, <2>4 DEF Locked
  <2>8. Current(c)' /\ Unique(c)' /\ NoRival(c)
    BY <2>3, <2>4, NoInsert DEF Current, Unique, Settles, Stocks
  <2> QED
    BY <2>2, <2>6, <2>7, <2>8, SilentKeeps DEF Sound
<1> QED
  BY <1>5, <1>6 DEF Find

LEMMA WaitKeeps ==
    ASSUME Inv, NEW c \in Procs, Running(c), NEW b \in Books, WaitForBook(c, b)
    PROVE  Inv'
<1>1. TypeInv /\ Formed(c) /\ Locked(c) /\ Current(c) /\ tx[c].pc = "lock" /\ tx[c].next = NoBook
  BY OfRunning DEF WaitForBook
<1>2. /\ b \in tx[c].todo
      /\ Ordered(Op(c)) => \A d \in tx[c].todo : b <= d
  BY <1>1 DEF WaitForBook, Candidates
<1>3. Becomes(c, tx[c].req, tx[c].pc, tx[c].todo, b, tx[c].rows, tx[c].read, tx[c].to)
  BY <1>1, WaitsBecomes DEF WaitForBook
<1>4. UNCHANGED <<tables, task, locks>>
  BY DEF WaitForBook
<1>5. Silent(c)
  BY <1>1, <1>3, <1>4, SilentBecomes
<1>6. /\ tx'[c].req = tx[c].req /\ tx'[c].pc = "lock"
      /\ tx'[c].todo = tx[c].todo /\ tx'[c].rows = tx[c].rows /\ tx'[c].next = b
      /\ tx'[c].read = tx[c].read /\ tx'[c].to = tx[c].to
  BY <1>1, <1>3 DEF Becomes
<1>7. Op(c)' = Op(c) /\ Ord(c)' = Ord(c) /\ Its(c)' = Its(c)
  BY <1>6 DEF Op, Ord, Its
<1>8. /\ (HoldsRow(c)' <=> HoldsRow(c)) /\ (BeforeBooks(c)' <=> BeforeBooks(c))
      /\ Named(Its(c))' = Named(Its(c))
  BY <1>1, <1>6, <1>7 DEF HoldsRow, BeforeBooks, Named
<1>9. Formed(c)'
  BY <1>1, <1>2, <1>6, <1>7, <1>8 DEF Formed
<1>10. Locked(c)'
  BY <1>1, <1>4, <1>6, <1>7, <1>8 DEF Locked, locks
<1>11. Current(c)'
  BY <1>1, <1>4, <1>6, <1>7, <1>8
     DEF Current, tables, Copy, T!Exists, T!Items, T!Returnable
<1>12. Unique(c)' /\ NoRival(c)
  BY <1>1, <1>6, NoInsert DEF Unique
<1> QED
  BY <1>5, <1>9, <1>10, <1>11, <1>12, SilentKeeps DEF Sound

\* A row, or a book, that was free is locked.
LEMMA SilentRow ==
    ASSUME NEW c \in Procs, NEW req, NEW pc, NEW todo, NEW next, NEW rows, NEW read, NEW to,
           TypeInv, Becomes(c, req, pc, todo, next, rows, read, to), NEW o \in Orders,
           rowLock[o] = Free, rowLock' = [rowLock EXCEPT ![o] = c],
           UNCHANGED <<tables, task, bookLock>>
    PROVE  Silent(c) /\ rowLock'[o] = c /\ \A r \in Orders \ {o} : rowLock'[r] = rowLock[r]
BY DEF TypeInv, Silent, Becomes

LEMMA SilentBook ==
    ASSUME NEW c \in Procs, NEW req, NEW pc, NEW todo, NEW next, NEW rows, NEW read, NEW to,
           TypeInv, Becomes(c, req, pc, todo, next, rows, read, to), NEW b \in Books,
           bookLock[b] = Free, bookLock' = [bookLock EXCEPT ![b] = c],
           UNCHANGED <<tables, task, rowLock>>
    PROVE  Silent(c) /\ bookLock'[b] = c /\ \A d \in Books \ {b} : bookLock'[d] = bookLock[d]
BY DEF TypeInv, Silent, Becomes

LEMMA LockRowKeeps ==
    ASSUME Inv, NEW c \in Procs, Running(c), LockRow(c), ~EndsUnchanged(c)
    PROVE  Inv'
<1>1. /\ TypeInv /\ Formed(c) /\ Locked(c) /\ Current(c) /\ tx[c].pc = "row"
      /\ UNCHANGED <<tables, task, bookLock>>
      /\ rowLock[Ord(c)] = Free /\ rowLock' = [rowLock EXCEPT ![Ord(c)] = c]
  BY OfRunning DEF LockRow
<1>2. /\ Op(c) \in Ops /\ Ord(c) \in Orders /\ Its(c) \in T!ItemMaps
      /\ tx[c].todo \in SUBSET Books /\ tx[c].req \in Asking
  BY <1>1, TxFields
<1>3. BeforeBooks(c) /\ ~HoldsRow(c) /\ tx[c].rows = {} /\ tx[c].todo = {} /\ tx[c].next = NoBook
  <2>1. BeforeBooks(c) /\ ~HoldsRow(c)
    BY <1>1 DEF BeforeBooks, HoldsRow
  <2>2. tx[c].rows = {} /\ tx[c].todo = {}
    BY <1>1, <2>1 DEF Formed
  <2> QED
    BY <1>1, <2>1, <2>2 DEF Formed
<1>4. /\ \A b \in Books : bookLock'[b] # c
      /\ \A o \in Orders : rowLock[o] # c
  BY <1>1, <1>3, OwnsNothingYet
<1>5. reservations' = reservations
  BY <1>1 DEF tables
<1>6. CASE Op(c) = "return" /\ reservations[Ord(c)].status = "CONFIRMED" /\ Goes(c, "check")
  <2>1. Becomes(c, tx[c].req, "check", tx[c].todo, tx[c].next, tx[c].rows, tx[c].read, tx[c].to)
    BY <1>1, <1>6, GoesBecomes
  <2>2. Silent(c) /\ rowLock'[Ord(c)] = c /\ \A r \in Orders \ {Ord(c)} : rowLock'[r] = rowLock[r]
    BY <1>1, <1>2, <2>1, SilentRow
  <2>3. /\ Op(c)' = "return" /\ Ord(c)' = Ord(c) /\ tx'[c].req = tx[c].req /\ tx'[c].pc = "check"
        /\ tx'[c].todo = {} /\ tx'[c].rows = {} /\ tx'[c].next = NoBook
    BY <1>3, <1>6, <2>1 DEF Becomes, Op, Ord
  <2>4. HoldsRow(c)' /\ BeforeBooks(c)'
    BY <2>3 DEF HoldsRow, BeforeBooks
  <2>5. tx[c].req \in Requests /\ c \notin Workers
    BY <1>1, <1>6 DEF Formed, Settles
  <2>6. Formed(c)'
    BY <2>3, <2>4, <2>5 DEF Formed, Settles, Stocks
  <2>7. Locked(c)'
    BY <1>4, <2>2, <2>3, <2>4 DEF Locked
  <2>8. Current(c)' /\ Unique(c)' /\ NoRival(c)
    BY <1>5, <1>6, <2>3, <2>4, NoInsert DEF Current, Unique, Settles, Stocks
  <2> QED
    BY <2>2, <2>6, <2>7, <2>8, SilentKeeps DEF Sound
<1>7. CASE /\ Op(c) # "return" /\ reservations[Ord(c)].status = "PENDING"
           /\ tx' = [tx EXCEPT ![c].pc = "lock", ![c].to = Decided(c),
                      ![c].req.items = T!Items(Ord(c)),
                      ![c].todo = Named(T!Items(Ord(c)))]
  <2>1. PICK items \in T!ItemMaps : items = T!Items(Ord(c))
    BY <1>1, <1>2 DEF TypeInv, T!TypeOK, T!Reservation, T!Items
  <2>2. Op(c) \in {"confirm", "cancel", "expire"}
    BY <1>1, <1>2, <1>7 DEF Formed, Stocks, Ops
  <2>3. PICK to \in {"CONFIRMED", "CANCELLED", "EXPIRED"} : to = Decided(c)
    BY <2>2 DEF Decided
  <2>4. Named(items) \in SUBSET Books
    BY DEF Named
  <2>5. Becomes(c, [tx[c].req EXCEPT !.items = items], "lock", Named(items), tx[c].next,
                tx[c].rows, tx[c].read, to)
    BY <1>1, <1>7, <2>1, <2>3, <2>4, DecidesBecomes
  <2>6. Silent(c) /\ rowLock'[Ord(c)] = c /\ \A r \in Orders \ {Ord(c)} : rowLock'[r] = rowLock[r]
    BY <1>1, <1>2, <2>5, SilentRow
  <2>7. /\ Op(c)' = Op(c) /\ Ord(c)' = Ord(c) /\ Its(c)' = items /\ tx'[c].pc = "lock"
        /\ tx'[c].todo = Named(items) /\ tx'[c].rows = {} /\ tx'[c].next = NoBook /\ tx'[c].to = to
    BY <1>2, <1>3, <2>5 DEF Becomes, Op, Ord, Its, Asking
  <2>8. HoldsRow(c)' /\ ~BeforeBooks(c)' /\ Settles(Op(c)) /\ Named(Its(c))' = Named(items)
    BY <2>2, <2>7 DEF HoldsRow, BeforeBooks, Settles, Named
  <2>9. /\ Op(c) = "cancel" => to = "CANCELLED"
        /\ Op(c) = "expire" => to = "EXPIRED"
        /\ Op(c) = "confirm" => /\ to \in {"CONFIRMED", "EXPIRED"}
                                /\ to = "EXPIRED" => reservations[Ord(c)].due
    BY <2>2, <2>3 DEF Decided
  <2>10. Op(c) = "expire" <=> c \in Workers
    BY <1>1 DEF Formed
  <2>11. Formed(c)'
    BY <2>2, <2>7, <2>8, <2>9, <2>10 DEF Formed, Settles, Stocks
  <2>12. Locked(c)'
    BY <1>4, <2>6, <2>7, <2>8 DEF Locked
  <2>13. Current(c)'
    <3>1. Op(c) = "expire" => reservations[Ord(c)].due
      BY <1>1 DEF Current
    <3> QED
      BY <1>5, <1>7, <2>1, <2>2, <2>7, <2>8, <2>9, <3>1
         DEF Current, Stocks, T!Exists, T!Items
  <2>14. Unique(c)' /\ NoRival(c)
    BY <2>7, NoInsert DEF Unique
  <2> QED
    BY <2>6, <2>11, <2>12, <2>13, <2>14, SilentKeeps DEF Sound
<1> QED
  BY <1>6, <1>7 DEF LockRow

\* A receipt, a write-off or an adjustment names one book.
LEMMA OneBook ==
    ASSUME Inv, NEW c \in Procs, Running(c), Stocks(Op(c))
    PROVE  \E b \in Books, n \in 1..MaxItem :
              /\ Its(c) = T!Only(b, n) /\ Named(Its(c)) = {b} /\ Its(c)[b] = n
              /\ \A d \in Books \ {b} : Its(c)[d] = 0
              /\ Op(c) = "adjust" => n <= MaxReceived + MaxAdjusted
<1>1. tx[c].req \in Requests
  BY OfRunning DEF Formed, Settles, Stocks
<1>2. PICK b \in Books, n \in 1..MaxItem :
         Its(c) = T!Only(b, n) /\ (Op(c) = "adjust" => n <= MaxReceived + MaxAdjusted)
  BY <1>1, RequestType DEF Op, Its
<1>3. /\ Its(c)[b] = n /\ \A d \in Books \ {b} : Its(c)[d] = 0
  BY <1>2 DEF T!Only, T!NoItems
<1>4. n > 0
  BY <1>2, LocksAssumption
<1>5. Named(Its(c)) = {b}
  BY <1>3, <1>4 DEF Named
<1> QED
  BY <1>2, <1>3, <1>5

LEMMA TakeKeeps ==
    ASSUME Inv, NEW c \in Procs, Running(c), NEW b \in Books, TakeBook(c, b)
    PROVE  Inv'
<1>1. /\ TypeInv /\ Formed(c) /\ Locked(c) /\ Current(c) /\ tx[c].pc = "lock"
      /\ bookLock[b] = Free /\ bookLock' = [bookLock EXCEPT ![b] = c]
      /\ UNCHANGED <<tables, task, rowLock>>
  BY OfRunning DEF TakeBook
<1>2. /\ Op(c) \in Ops /\ Ord(c) \in Orders
      /\ tx[c].todo \in SUBSET Books /\ tx[c].rows \in SUBSET Books
      /\ tx[c].read \in [Books -> Counters]
  BY <1>1, TxFields
<1>3. /\ b \in tx[c].todo
      /\ Ordered(Op(c)) => \A d \in tx[c].todo : b <= d
  BY <1>1 DEF TakeBook, Candidates, Formed
<1>4. PICK rows \in SUBSET Books : rows = IF Op(c) = "create" /\ listing[b] # "active"
                                            THEN tx[c].rows ELSE tx[c].rows \cup {b}
  BY <1>2
<1>5. PICK read : read = [tx[c].read EXCEPT ![b] = [quantity |-> quantity[b], reserved |-> reserved[b]]]
  OBVIOUS
<1>6. Becomes(c, tx[c].req, "lock", tx[c].todo \ {b}, NoBook, rows, read, tx[c].to)
  BY <1>1, <1>4, <1>5, TakesBecomes
<1>7. Silent(c) /\ bookLock'[b] = c /\ \A d \in Books \ {b} : bookLock'[d] = bookLock[d]
  BY <1>1, <1>6, SilentBook
<1>8. /\ tx'[c].req = tx[c].req /\ tx'[c].pc = "lock"
      /\ tx'[c].todo = tx[c].todo \ {b} /\ tx'[c].rows = rows /\ tx'[c].next = NoBook
      /\ tx'[c].read = read /\ tx'[c].to = tx[c].to
  BY <1>6 DEF Becomes
<1>9. Op(c)' = Op(c) /\ Ord(c)' = Ord(c) /\ Its(c)' = Its(c)
  BY <1>8 DEF Op, Ord, Its
<1>10. /\ (HoldsRow(c)' <=> HoldsRow(c)) /\ (BeforeBooks(c)' <=> BeforeBooks(c))
       /\ ~BeforeBooks(c) /\ Named(Its(c))' = Named(Its(c))
  BY <1>1, <1>8, <1>9 DEF HoldsRow, BeforeBooks, Named
<1>11. /\ Op(c) # "create" => rows \cup (tx[c].todo \ {b}) = tx[c].rows \cup tx[c].todo
       /\ rows \cup (tx[c].todo \ {b}) \subseteq tx[c].rows \cup tx[c].todo
  BY <1>3, <1>4
<1>12. Formed(c)'
  BY <1>1, <1>8, <1>9, <1>10, <1>11 DEF Formed
<1>13. Stocks(Op(c)) => tx[c].todo \ {b} = {}
  <2> SUFFICES ASSUME Stocks(Op(c)) PROVE tx[c].todo \ {b} = {}
    OBVIOUS
  <2>1. PICK d \in Books : Named(Its(c)) = {d}
    BY OneBook
  <2>2. tx[c].todo \subseteq {d}
    BY <1>1, <1>10, <2>1 DEF Formed, Stocks
  <2> QED
    BY <1>3, <2>2
<1>14. Locked(c)'
  <2>1. \A d \in rows : bookLock'[d] = c
    BY <1>1, <1>2, <1>4, <1>7 DEF Locked
  <2>2. HoldsRow(c) => rowLock'[Ord(c)] = c
    BY <1>1 DEF Locked
  <2>3. \A d \in Books : bookLock'[d] = c => d = b \/ bookLock[d] = c
    BY <1>7
  <2>4. Ordered(Op(c)) => \A e \in tx[c].todo \ {b} : b < e
    <3>1. \A e \in tx[c].todo : e \in Nat /\ b \in Nat
      BY <1>2, LocksAssumption
    <3> QED
      BY <1>3, <3>1
  <2>5. \A d \in Books : bookLock'[d] = c /\ Ordered(Op(c)) =>
           \A e \in tx[c].todo \ {b} : d < e
    BY <1>1, <2>3, <2>4 DEF Locked
  <2>6. \A o \in Orders : rowLock'[o] = c => HoldsRow(c) /\ o = Ord(c)
    BY <1>1 DEF Locked
  <2> QED
    BY <1>8, <1>9, <1>10, <1>13, <2>1, <2>2, <2>5, <2>6 DEF Locked
<1>15. \A d \in rows : /\ read[d] = [quantity |-> quantity[d], reserved |-> reserved[d]]
                       /\ Op(c) = "create" => listing[d] = "active"
  <2> SUFFICES ASSUME NEW d \in rows
               PROVE  /\ read[d] = [quantity |-> quantity[d], reserved |-> reserved[d]]
                      /\ Op(c) = "create" => listing[d] = "active"
    OBVIOUS
  <2>1. CASE d = b
    <3>1. read[d] = [quantity |-> quantity[d], reserved |-> reserved[d]]
      BY <1>2, <1>5, <2>1
    <3>2. Op(c) = "create" => listing[b] = "active"
      <4>1. b \notin tx[c].rows
        BY <1>1, LocksAssumption DEF Locked
      <4> QED
        BY <1>4, <2>1, <4>1
    <3> QED
      BY <2>1, <3>1, <3>2
  <2>2. CASE d # b
    <3>1. d \in tx[c].rows /\ read[d] = Copy(c, d)
      BY <1>2, <1>4, <1>5, <2>2 DEF Copy
    <3> QED
      BY <1>1, <3>1 DEF Current
  <2> QED
    BY <2>1, <2>2
<1>16. Current(c)'
  BY <1>1, <1>8, <1>9, <1>10, <1>15
     DEF Current, tables, Copy, T!Exists, T!Items, T!Returnable
<1>17. Unique(c)' /\ NoRival(c)
  BY <1>8, NoInsert DEF Unique
<1> QED
  BY <1>7, <1>12, <1>14, <1>16, <1>17, SilentKeeps DEF Sound

LEMMA HasBooksKeeps ==
    ASSUME Inv, NEW c \in Procs, Running(c), HasBooks(c)
    PROVE  Inv'
<1>1. /\ TypeInv /\ Formed(c) /\ Locked(c) /\ Current(c) /\ tx[c].pc = "lock"
      /\ UNCHANGED <<tables, task, locks>> /\ tx[c].todo = {} /\ tx[c].next = NoBook
  BY OfRunning DEF HasBooks, Formed
<1>2. PICK pc \in {"check", "insert", "commit"} :
         pc = IF Op(c) = "create" THEN "check" ELSE IF Op(c) = "return" THEN "insert" ELSE "commit"
  OBVIOUS
<1>3. Becomes(c, tx[c].req, pc, tx[c].todo, tx[c].next, tx[c].rows, tx[c].read, tx[c].to)
  BY <1>1, <1>2, GoesBecomes DEF HasBooks
<1>4. Silent(c)
  BY <1>1, <1>3, SilentBecomes
<1>5. /\ tx'[c].req = tx[c].req /\ tx'[c].pc = pc
      /\ tx'[c].todo = {} /\ tx'[c].rows = tx[c].rows /\ tx'[c].next = NoBook
      /\ tx'[c].read = tx[c].read /\ tx'[c].to = tx[c].to
  BY <1>1, <1>3 DEF Becomes
<1>6. Op(c)' = Op(c) /\ Ord(c)' = Ord(c) /\ Its(c)' = Its(c) /\ Op(c) \in Ops
  BY <1>1, <1>5, TxFields DEF Op, Ord, Its
<1>7. /\ (HoldsRow(c)' <=> HoldsRow(c)) /\ (BeforeBooks(c)' <=> BeforeBooks(c))
      /\ ~BeforeBooks(c) /\ Named(Its(c))' = Named(Its(c))
  BY <1>1, <1>2, <1>5, <1>6 DEF HoldsRow, BeforeBooks, Named, Settles, Ops
<1>8. /\ Op(c) = "create" => pc = "check"
      /\ Op(c) = "return" => pc = "insert"
      /\ Settles(Op(c)) \/ Stocks(Op(c)) => pc = "commit"
  BY <1>2 DEF Settles, Stocks
<1>9. Formed(c)'
  BY <1>1, <1>5, <1>6, <1>7, <1>8 DEF Formed
<1>10. Locked(c)'
  BY <1>1, <1>5, <1>6, <1>7 DEF Locked, locks
<1>11. Current(c)'
  BY <1>1, <1>5, <1>6, <1>7
     DEF Current, tables, Copy, T!Exists, T!Items, T!Returnable
<1>12. Unique(c)' /\ NoRival(c)
  BY <1>5, <1>6, <1>8, NoInsert DEF Unique
<1> QED
  BY <1>4, <1>9, <1>10, <1>11, <1>12, SilentKeeps DEF Sound

LEMMA CheckKeeps ==
    ASSUME Inv, NEW c \in Procs, Running(c), Check(c), ~EndsUnchanged(c)
    PROVE  Inv'
<1>1. /\ TypeInv /\ Formed(c) /\ Locked(c) /\ Current(c) /\ tx[c].pc = "check"
      /\ UNCHANGED <<tables, task, locks>> /\ tx[c].todo = {} /\ tx[c].next = NoBook
  BY OfRunning DEF Check, Formed
<1>2. CASE Op(c) = "create" /\ MayCreate(c) /\ Goes(c, "insert")
  <2>1. Becomes(c, tx[c].req, "insert", tx[c].todo, tx[c].next, tx[c].rows, tx[c].read, tx[c].to)
    BY <1>1, <1>2, GoesBecomes
  <2>2. Silent(c)
    BY <1>1, <2>1, SilentBecomes
  <2>3. /\ tx'[c].req = tx[c].req /\ tx'[c].pc = "insert"
        /\ tx'[c].todo = {} /\ tx'[c].rows = tx[c].rows /\ tx'[c].next = NoBook
        /\ tx'[c].read = tx[c].read
    BY <1>1, <2>1 DEF Becomes
  <2>4. Op(c)' = "create" /\ Ord(c)' = Ord(c) /\ Its(c)' = Its(c)
    BY <1>2, <2>3 DEF Op, Ord, Its
  <2>5. /\ ~HoldsRow(c)' /\ ~HoldsRow(c) /\ ~BeforeBooks(c)' /\ Named(Its(c))' = Named(Its(c))
    BY <1>1, <1>2, <2>3, <2>4 DEF HoldsRow, BeforeBooks, Named, Settles
  <2>6. Enough(c)'
    BY <1>2, <2>3, <2>4, <2>5 DEF MayCreate, Enough, Copy
  <2>7. Formed(c)'
    BY <1>1, <1>2, <2>3, <2>4, <2>5, <2>6 DEF Formed, Settles, Stocks
  <2>8. Locked(c)'
    BY <1>1, <1>2, <2>3, <2>4, <2>5 DEF Locked, locks
  <2>9. Current(c)'
    BY <1>1, <1>2, <2>3, <2>4, <2>5 DEF Current, tables, Copy, Settles, Stocks
  <2>10. Unique(c)' /\ NoRival(c)
    BY <2>3, NoInsert DEF Unique
  <2> QED
    BY <2>2, <2>7, <2>8, <2>9, <2>10, SilentKeeps DEF Sound
<1>3. CASE /\ Op(c) = "return" /\ MayReturn(c)
           /\ tx' = [tx EXCEPT ![c].pc = "lock", ![c].todo = Named(Its(c))]
  <2>1. PICK todo \in SUBSET Books : todo = Named(Its(c))
    BY DEF Named
  <2>2. Becomes(c, tx[c].req, "lock", todo, tx[c].next, tx[c].rows, tx[c].read, tx[c].to)
    BY <1>1, <1>3, <2>1, ListsBecomes
  <2>3. Silent(c)
    BY <1>1, <2>2, SilentBecomes
  <2>4. tx[c].rows = {} /\ BeforeBooks(c) /\ HoldsRow(c)
    BY <1>1, <1>3 DEF Formed, BeforeBooks, HoldsRow
  <2>5. /\ tx'[c].req = tx[c].req /\ tx'[c].pc = "lock"
        /\ tx'[c].todo = todo /\ tx'[c].rows = {} /\ tx'[c].next = NoBook
    BY <1>1, <2>2, <2>4 DEF Becomes
  <2>6. Op(c)' = "return" /\ Ord(c)' = Ord(c) /\ Its(c)' = Its(c)
    BY <1>3, <2>5 DEF Op, Ord, Its
  <2>7. HoldsRow(c)' /\ ~BeforeBooks(c)' /\ Named(Its(c))' = todo
    BY <2>1, <2>5, <2>6 DEF HoldsRow, BeforeBooks, Named
  <2>8. Formed(c)'
    BY <1>1, <1>3, <2>5, <2>6, <2>7 DEF Formed, Settles, Stocks
  <2>9. Locked(c)'
    BY <1>1, <1>3, <2>4, <2>5, <2>6, <2>7 DEF Locked, locks
  <2>10. T!Returnable(Ord(c), Its(c))'
    BY <1>1, <1>3, <2>6 DEF MayReturn, T!Returnable, T!Items, tables
  <2>11. Current(c)'
    BY <1>1, <1>3, <2>4, <2>5, <2>6, <2>7, <2>10 DEF Current, tables, Settles, Stocks
  <2>12. Unique(c)' /\ NoRival(c)
    BY <2>5, NoInsert DEF Unique
  <2> QED
    BY <2>3, <2>8, <2>9, <2>11, <2>12, SilentKeeps DEF Sound
<1> QED
  BY <1>2, <1>3 DEF Check

LEMMA InsertKeeps ==
    ASSUME Inv, NEW c \in Procs, Running(c), Insert(c), ~EndsUnchanged(c)
    PROVE  Inv'
<1>1. /\ TypeInv /\ Formed(c) /\ Locked(c) /\ Current(c) /\ tx[c].pc = "insert"
      /\ UNCHANGED <<tables, task, locks>> /\ tx[c].todo = {} /\ tx[c].next = NoBook
      /\ Inserting(c) = {} /\ ~Taken(c) /\ Goes(c, "commit")
  BY OfRunning DEF Insert, Formed
<1>2. Op(c) \in {"create", "return"}
  BY <1>1, TxFields DEF Formed, Settles, Stocks, Ops
<1>3. Becomes(c, tx[c].req, "commit", tx[c].todo, tx[c].next, tx[c].rows, tx[c].read, tx[c].to)
  BY <1>1, GoesBecomes
<1>4. Silent(c)
  BY <1>1, <1>3, SilentBecomes
<1>5. /\ tx'[c].req = tx[c].req /\ tx'[c].pc = "commit"
      /\ tx'[c].todo = {} /\ tx'[c].rows = tx[c].rows /\ tx'[c].next = NoBook
      /\ tx'[c].read = tx[c].read
      /\ \A d \in Procs \ {c} : tx'[d] = tx[d]
  BY <1>1, <1>3 DEF Becomes
<1>6. Op(c)' = Op(c) /\ Ord(c)' = Ord(c) /\ Its(c)' = Its(c) /\ Key(c)' = Key(c)
  BY <1>5 DEF Op, Ord, Its, Key
<1>7. /\ (HoldsRow(c)' <=> HoldsRow(c)) /\ ~BeforeBooks(c)' /\ ~BeforeBooks(c)
      /\ Named(Its(c))' = Named(Its(c)) /\ (Enough(c)' <=> Enough(c))
  BY <1>1, <1>2, <1>5, <1>6 DEF HoldsRow, BeforeBooks, Named, Settles, Enough, Copy
<1>8. Formed(c)'
  BY <1>1, <1>2, <1>5, <1>6, <1>7 DEF Formed, Settles, Stocks
<1>9. Locked(c)'
  BY <1>1, <1>5, <1>6, <1>7 DEF Locked, locks
<1>10. Current(c)'
  BY <1>1, <1>2, <1>5, <1>6, <1>7
     DEF Current, tables, Copy, Settles, Stocks, T!Items, T!Returnable
<1>11. /\ T!Matches(Ord(c), Key(c))' = T!Matches(Ord(c), Key(c))
       /\ KeyReturned(c)' <=> KeyReturned(c)
  BY <1>1, <1>6 DEF T!Matches, KeyReturned, T!Exists, tables
<1>12. \A d \in Procs \ {c} : Op(d)' = Op(d) /\ Ord(d)' = Ord(d) /\ Key(d)' = Key(d)
  BY <1>5 DEF Op, Ord, Key
<1>13. Inserting(c)' = Inserting(c)
  BY <1>5, <1>6, <1>12 DEF Inserting, SameUnique
<1>14. Unique(c)'
  BY <1>1, <1>2, <1>6, <1>11, <1>13 DEF Unique, Taken
<1>15. NoRival(c)
  <2> SUFFICES ASSUME NEW d \in Procs, d # c, tx[d].pc = "commit", Op(d) \in {"create", "return"},
                      c \in Inserting(d)'
               PROVE  FALSE
    BY DEF NoRival
  <2>1. SameUnique(c, d)
    BY <1>6, <1>12 DEF Inserting, SameUnique
  <2> QED
    BY <1>1, <2>1 DEF Inserting
<1> QED
  BY <1>4, <1>8, <1>9, <1>10, <1>14, <1>15, SilentKeeps DEF Sound

(***************************************************************************)
(* Steps that end a transaction                                            *)
(***************************************************************************)

LEMMA EndFrees ==
    ASSUME NEW c \in Procs, TypeInv, Ends(c)
    PROVE  /\ \A b \in Books, d \in Procs : d # c => (bookLock'[b] = d <=> bookLock[b] = d)
           /\ \A o \in Orders, d \in Procs : d # c => (rowLock'[o] = d <=> rowLock[o] = d)
           /\ \A b \in Books : bookLock'[b] # c /\ (bookLock'[b] # Free => bookLock'[b] = bookLock[b])
           /\ \A o \in Orders : rowLock'[o] # c /\ (rowLock'[o] # Free => rowLock'[o] = rowLock[o])
BY EndsType, LocksAssumption

LEMMA EndKeeps ==
    ASSUME Inv, NEW c \in Procs, Ends(c), Frame(c), Alone(c), T!TypeOK',
           onTime' \in [Workers -> SUBSET Orders], ReservedAreListed', BatchesAreOverdue'
    PROVE  Inv'
<1>1. TypeInv /\ OwnersRun
  BY DEF Inv
<1>2. TypeInv'
  BY <1>1, EndsType DEF TypeInv
<1>3. ~Running(c)' /\ \A d \in Procs \ {c} : tx'[d] = tx[d]
  BY <1>1, EndsType DEF Running, NoTx
<1>4. TxInv'
  <2> SUFFICES ASSUME NEW d \in Procs, Running(d)'
               PROVE  Sound(d)'
    BY DEF TxInv
  <2>1. d # c /\ Running(d)
    BY <1>3 DEF Running
  <2> QED
    BY <1>3, <2>1, OthersStaySound
<1>5. OwnersRun'
  <2>1. \A b \in Books : bookLock[b] \in Procs \cup {Free}
    BY <1>1 DEF TypeInv
  <2>2. \A o \in Orders : rowLock[o] \in Procs \cup {Free}
    BY <1>1 DEF TypeInv
  <2>3. /\ \A b \in Books : bookLock'[b] # c /\ (bookLock'[b] # Free => bookLock'[b] = bookLock[b])
        /\ \A o \in Orders : rowLock'[o] # c /\ (rowLock'[o] # Free => rowLock'[o] = rowLock[o])
    BY <1>1, EndFrees
  <2>4. \A b \in Books : bookLock'[b] # Free => tx'[bookLock'[b]].pc # "idle"
    BY <1>1, <1>3, <2>1, <2>3 DEF OwnersRun, Running
  <2>5. \A o \in Orders : rowLock'[o] # Free => tx'[rowLock'[o]].pc # "idle"
    BY <1>1, <1>3, <2>2, <2>3 DEF OwnersRun, Running
  <2> QED
    BY <2>4, <2>5 DEF OwnersRun, Running
<1> QED
  BY <1>2, <1>4, <1>5 DEF Inv

\* What c has not inserted does not disturb the inserts of others.
LEMMA EndAlone ==
    ASSUME Inv, NEW c, tx'[c] = NoTx \/ c \notin Procs, \A d \in Procs \ {c} : tx'[d] = tx[d],
           \A o \in Orders : /\ T!Exists(o)' <=> T!Exists(o)
                             /\ reservations'[o].key = reservations[o].key,
           stockReturns' = stockReturns
    PROVE  Alone(c)
<1> SUFFICES ASSUME NEW d \in Procs, d # c, Running(d), tx[d].pc = "commit"
             PROVE  /\ Op(d) = "create" => (T!Matches(Ord(d), Key(d)) = {})'
                    /\ Op(d) = "return" => ~KeyReturned(d)'
                    /\ Op(d) \in {"create", "return"} => c \notin Inserting(d)'
  BY DEF Alone
<1>1. Unique(d)
  BY DEF Inv, TxInv, Sound
<1>2. Op(d)' = Op(d) /\ Ord(d)' = Ord(d) /\ Key(d)' = Key(d)
  BY DEF Op, Ord, Key
<1>3. T!Matches(Ord(d), Key(d))' = T!Matches(Ord(d), Key(d)) /\ (KeyReturned(d)' <=> KeyReturned(d))
  BY <1>2 DEF T!Matches, KeyReturned
<1>4. c \notin Inserting(d)'
  BY DEF Inserting, NoTx
<1> QED
  BY <1>1, <1>3, <1>4 DEF Unique

\* The transaction ends, the tables stay, a batch may get smaller.
LEMMA AbortKeeps ==
    ASSUME Inv, NEW c \in Procs, Ends(c), UNCHANGED tables,
           batches' \in [Workers -> SUBSET Orders], onTime' \in [Workers -> SUBSET Orders],
           deaths' \in Nat,
           \A w \in Workers : batches'[w] \subseteq batches[w] /\ onTime'[w] \subseteq batches'[w]
    PROVE  Inv'
<1>1. TypeInv
  BY DEF Inv
<1>2. Frame(c)
  <2>1. /\ \A b \in Books, d \in Procs : d # c => (bookLock'[b] = d <=> bookLock[b] = d)
        /\ \A o \in Orders, d \in Procs : d # c => (rowLock'[o] = d <=> rowLock[o] = d)
    BY <1>1, EndFrees
  <2> QED
    BY <2>1 DEF Frame, tables, T!Exists
<1>3. Alone(c)
  <2>1. tx'[c] = NoTx /\ \A d \in Procs \ {c} : tx'[d] = tx[d]
    BY <1>1, EndsType
  <2> QED
    BY <2>1, EndAlone DEF tables, T!Exists
<1>4. T!TypeOK'
  BY <1>1 DEF TypeInv, T!TypeOK, tables
<1>5. ReservedAreListed'
  BY DEF Inv, ReservedAreListed, tables, T!Items
<1>6. BatchesAreOverdue'
  BY DEF Inv, BatchesAreOverdue, tables, T!Exists
<1> QED
  BY <1>2, <1>3, <1>4, <1>5, <1>6, EndKeeps

LEMMA VisitedTypes ==
    ASSUME Inv, NEW c \in Procs, NEW op \in Ops, op = "expire" => c \in Workers, NEW o \in Orders,
           IF op = "expire" THEN Visited(c, o) ELSE UNCHANGED task
    PROVE  /\ batches' \in [Workers -> SUBSET Orders] /\ onTime' \in [Workers -> SUBSET Orders]
           /\ deaths' \in Nat
           /\ \A w \in Workers : batches'[w] \subseteq batches[w] /\ onTime'[w] \subseteq batches'[w]
<1>1. /\ batches \in [Workers -> SUBSET Orders] /\ onTime \in [Workers -> SUBSET Orders]
      /\ deaths \in Nat
      /\ \A w \in Workers : onTime[w] \subseteq batches[w]
  BY DEF Inv, TypeInv, T!TypeOK, BatchesAreOverdue
<1>2. CASE op = "expire"
  BY <1>1, <1>2 DEF Visited
<1>3. CASE op # "expire"
  BY <1>1, <1>3 DEF task
<1> QED
  BY <1>2, <1>3

LEMMA EndsUnchangedKeeps ==
    ASSUME Inv, NEW c \in Procs, Running(c), EndsUnchanged(c)
    PROVE  Inv'
<1>1. TypeInv /\ Formed(c)
  BY OfRunning
<1>2. Op(c) \in Ops /\ Ord(c) \in Orders
  BY <1>1, TxFields
<1>3. PICK op \in Ops, o \in Orders : op = Op(c) /\ o = Ord(c)
  BY <1>2
<1>4. IF op = "expire" THEN Visited(c, o) ELSE UNCHANGED task
  BY <1>3 DEF EndsUnchanged
<1>5. op = "expire" => c \in Workers
  BY <1>1, <1>3 DEF Formed
<1> QED
  BY <1>4, <1>5, VisitedTypes, AbortKeeps DEF EndsUnchanged

\* Who waits in a circle runs.
LEMMA WaitersRun ==
    ASSUME NEW c \in Procs, NEW S \in Circles, c \in S
    PROVE  Running(c)
BY DEF Circles, WaitsFor, Running

LEMMA DeadlockAbortKeeps ==
    ASSUME Inv, NEW c \in Procs, DeadlockAbort(c)
    PROVE  Inv'
<1>1. /\ batches \in [Workers -> SUBSET Orders] /\ onTime \in [Workers -> SUBSET Orders]
      /\ deaths \in Nat
      /\ \A w \in Workers : onTime[w] \subseteq batches[w]
  BY DEF Inv, TypeInv, T!TypeOK, BatchesAreOverdue
<1>2. /\ batches' \in [Workers -> SUBSET Orders] /\ onTime' \in [Workers -> SUBSET Orders]
      /\ deaths' \in Nat
      /\ \A w \in Workers : batches'[w] \subseteq batches[w] /\ onTime'[w] \subseteq batches'[w]
  <2>1. CASE c \in Workers
    <3>1. /\ batches' = [batches EXCEPT ![c] = {}] /\ onTime' = [onTime EXCEPT ![c] = {}]
          /\ deaths' = IF onTime[c] = {} THEN deaths ELSE deaths + 1
      BY <2>1 DEF DeadlockAbort
    <3> QED
      BY <1>1, <2>1, <3>1
  <2>2. CASE c \notin Workers
    BY <1>1, <2>2 DEF DeadlockAbort, task
  <2> QED
    BY <2>1, <2>2
<1> QED
  BY <1>2, AbortKeeps DEF DeadlockAbort

(***************************************************************************)
(* Steps that are of no transaction                                        *)
(***************************************************************************)

LEMMA OutsideKeeps ==
    ASSUME Inv, UNCHANGED <<tx, locks>>, Frame(Free), Alone(Free), T!TypeOK',
           onTime' \in [Workers -> SUBSET Orders], ReservedAreListed', BatchesAreOverdue'
    PROVE  Inv'
<1>1. TypeInv'
  BY DEF Inv, TypeInv, locks
<1>2. TxInv'
  <2> SUFFICES ASSUME NEW d \in Procs, Running(d)'
               PROVE  Sound(d)'
    BY DEF TxInv
  <2>1. d # Free /\ Running(d) /\ \A e \in Procs \ {Free} : tx'[e] = tx[e]
    BY LocksAssumption DEF Running
  <2> QED
    BY <2>1, OthersStaySound
<1>3. OwnersRun'
  BY DEF Inv, OwnersRun, Running, locks
<1> QED
  BY <1>1, <1>2, <1>3 DEF Inv

LEMMA SyncBookKeeps ==
    ASSUME Inv, NEW b \in Books, NEW active \in BOOLEAN, SyncBook(b, active)
    PROVE  Inv'
<1> DEFINE new == IF active THEN "active" ELSE "inactive"
<1>1. /\ bookLock[b] = Free /\ listing' = [listing EXCEPT ![b] = new] /\ new \in T!Listings \ {"absent"}
      /\ quantity' = quantity /\ reserved' = reserved /\ movements' = movements
      /\ reservations' = reservations /\ created' = created /\ stockReturns' = stockReturns
      /\ returned' = returned /\ UNCHANGED <<task, tx, locks>>
  BY DEF SyncBook, T!Listings
<1> HIDE DEF new
<1>2. T!TypeOK
  BY DEF Inv, TypeInv
<1>3. listing' \in [Books -> T!Listings] /\ listing'[b] # "absent"
      /\ \A d \in Books : d # b => listing'[d] = listing[d]
  BY <1>1, <1>2 DEF T!TypeOK
<1>4. T!TypeOK'
  BY <1>1, <1>2, <1>3 DEF T!TypeOK, task
<1>5. Frame(Free)
  BY <1>1, <1>3 DEF Frame, locks, T!Exists
<1>6. Alone(Free)
  BY <1>1, EndAlone, LocksAssumption DEF T!Exists
<1>7. ReservedAreListed'
  BY <1>1, <1>3 DEF Inv, ReservedAreListed, T!Items
<1>8. BatchesAreOverdue' /\ onTime' \in [Workers -> SUBSET Orders]
  BY <1>1 DEF Inv, BatchesAreOverdue, T!Exists, task, TypeInv
<1> QED
  BY <1>1, <1>4, <1>5, <1>6, <1>7, <1>8, OutsideKeeps

LEMMA TtlElapsesKeeps ==
    ASSUME Inv, NEW o \in Orders, TtlElapses(o)
    PROVE  Inv'
<1>1. T!TypeOK
  BY DEF Inv, TypeInv
<1>2. /\ listing' = listing /\ quantity' = quantity /\ reserved' = reserved /\ movements' = movements
      /\ created' = created /\ stockReturns' = stockReturns /\ returned' = returned
      /\ UNCHANGED <<task, tx, locks>>
  BY DEF TtlElapses
<1>3. /\ reservations' \in [Orders -> T!Reservation]
      /\ \A r \in Orders : /\ reservations'[r].status = reservations[r].status
                           /\ reservations'[r].items = reservations[r].items
                           /\ reservations'[r].key = reservations[r].key
                           /\ reservations[r].due => reservations'[r].due
  BY <1>1 DEF TtlElapses, T!TypeOK, T!Reservation
<1>4. T!TypeOK'
  BY <1>1, <1>2, <1>3 DEF T!TypeOK, task
<1>5. Frame(Free)
  BY <1>2, <1>3 DEF Frame, locks, T!Exists
<1>6. Alone(Free)
  BY <1>2, <1>3, EndAlone, LocksAssumption DEF T!Exists
<1>7. ReservedAreListed'
  BY <1>2, <1>3 DEF Inv, ReservedAreListed, T!Items
<1>8. batches' = batches /\ onTime' = onTime /\ batches \in [Workers -> SUBSET Orders]
      /\ onTime \in [Workers -> SUBSET Orders]
  BY <1>1, <1>2 DEF task, Inv, TypeInv, T!TypeOK
<1>9. BatchesAreOverdue'
  BY <1>3, <1>8 DEF Inv, BatchesAreOverdue, T!Exists
<1> QED
  BY <1>2, <1>4, <1>5, <1>6, <1>7, <1>8, <1>9, OutsideKeeps

LEMMA StartExpiryKeeps ==
    ASSUME Inv, NEW w \in Workers, StartExpiry(w)
    PROVE  Inv'
<1>1. T!TypeOK /\ onTime \in [Workers -> SUBSET Orders] /\ BatchesAreOverdue /\ ReservedAreListed
  BY DEF Inv, TypeInv
<1>2. UNCHANGED <<tables, deaths, tx, locks>>
  BY DEF StartExpiry
<1>3. PICK all \in SUBSET Orders : all = T!Overdue
  BY DEF T!Overdue
<1>4. PICK some \in SUBSET all : some = {o \in T!Overdue : ~Selling(o)}
  BY <1>3
<1>5. batches' = [batches EXCEPT ![w] = all] /\ onTime' = [onTime EXCEPT ![w] = some]
  BY <1>3, <1>4 DEF StartExpiry
<1>6. batches' \in [Workers -> SUBSET Orders] /\ onTime' \in [Workers -> SUBSET Orders]
      /\ batches'[w] = all /\ onTime'[w] = some
      /\ \A v \in Workers : v # w => batches'[v] = batches[v] /\ onTime'[v] = onTime[v]
  BY <1>1, <1>4, <1>5 DEF T!TypeOK
<1>7. T!TypeOK'
  BY <1>1, <1>2, <1>6 DEF T!TypeOK, tables
<1>8. Frame(Free) /\ ReservedAreListed'
  BY <1>1, <1>2 DEF Frame, tables, locks, T!Exists, ReservedAreListed, T!Items
<1>9. Alone(Free)
  BY <1>2, EndAlone, LocksAssumption DEF tables, T!Exists
<1>10. \A o \in all : T!Exists(o) /\ reservations[o].due
  BY <1>3 DEF T!Overdue, T!Exists
<1>11. BatchesAreOverdue'
  BY <1>1, <1>2, <1>6, <1>10 DEF BatchesAreOverdue, tables, T!Exists
<1> QED
  BY <1>2, <1>6, <1>7, <1>8, <1>9, <1>11, OutsideKeeps

(***************************************************************************)
(* What a commit writes                                                    *)
(***************************************************************************)

\* The copies that a transaction writes back are of the books it names, all of
\* them, and are current.
LEMMA CommitRows ==
    ASSUME Inv, NEW c \in Procs, Running(c), tx[c].pc = "commit"
    PROVE  /\ tx[c].rows = Named(Its(c)) /\ Its(c) \in T!ItemMaps
           /\ \A b \in Books : Its(c)[b] \in Nat /\ quantity[b] \in Nat /\ reserved[b] \in Nat
           /\ \A b \in Books : b \in tx[c].rows =>
                 /\ Copy(c, b)["quantity"] = quantity[b] /\ Copy(c, b)["reserved"] = reserved[b]
                 /\ bookLock[b] = c
           /\ \A b \in Books : b \notin tx[c].rows => Its(c)[b] = 0
<1>1. TypeInv /\ Formed(c) /\ Locked(c) /\ Current(c)
  BY OfRunning
<1>2. /\ Op(c) \in Ops /\ Its(c) \in T!ItemMaps /\ tx[c].rows \in SUBSET Books
      /\ \A b \in Books : Its(c)[b] \in Nat
  BY <1>1, TxFields
<1>3. tx[c].todo = {} /\ ~BeforeBooks(c)
  BY <1>1 DEF Formed, BeforeBooks
<1>4. tx[c].rows = Named(Its(c))
  <2>1. CASE Op(c) # "create"
    BY <1>1, <1>3, <2>1 DEF Formed
  <2>2. CASE Op(c) = "create"
    <3>1. tx[c].rows \subseteq Named(Its(c)) /\ Enough(c)
      BY <1>1, <2>2 DEF Formed
    <3> QED
      BY <3>1 DEF Enough
  <2> QED
    BY <2>1, <2>2
<1>5. \A b \in Books : quantity[b] \in Nat /\ reserved[b] \in Nat
  BY <1>1 DEF TypeInv, T!TypeOK
<1>6. \A b \in Books : b \notin tx[c].rows => Its(c)[b] = 0
  BY <1>2, <1>4 DEF Named
<1>7. \A b \in tx[c].rows : Copy(c, b) = [quantity |-> quantity[b], reserved |-> reserved[b]]
  BY <1>1 DEF Current
<1>8. \A b \in tx[c].rows : bookLock[b] = c
  BY <1>1 DEF Locked
<1> QED
  BY <1>2, <1>4, <1>5, <1>6, <1>7, <1>8

LEMMA WrittenBackIs ==
    ASSUME Inv, NEW c \in Procs, Running(c), tx[c].pc = "commit"
    PROVE  /\ WrittenBack(c, quantity, "quantity", 1) = [b \in Books |-> quantity[b] + Its(c)[b]]
           /\ WrittenBack(c, quantity, "quantity", -1) = [b \in Books |-> quantity[b] - Its(c)[b]]
           /\ WrittenBack(c, reserved, "reserved", 1) = [b \in Books |-> reserved[b] + Its(c)[b]]
           /\ WrittenBack(c, reserved, "reserved", -1) = [b \in Books |-> reserved[b] - Its(c)[b]]
<1>1. /\ \A b \in Books : Its(c)[b] \in Nat /\ quantity[b] \in Nat /\ reserved[b] \in Nat
      /\ \A b \in Books : b \in tx[c].rows =>
            Copy(c, b)["quantity"] = quantity[b] /\ Copy(c, b)["reserved"] = reserved[b]
      /\ \A b \in Books : b \notin tx[c].rows => Its(c)[b] = 0
  BY CommitRows
<1>2. \A b \in Books :
         (IF b \in tx[c].rows THEN Copy(c, b)["quantity"] + 1 * Its(c)[b] ELSE quantity[b])
            = quantity[b] + Its(c)[b]
  BY <1>1
<1>3. \A b \in Books :
         (IF b \in tx[c].rows THEN Copy(c, b)["quantity"] + (-1) * Its(c)[b] ELSE quantity[b])
            = quantity[b] - Its(c)[b]
  BY <1>1
<1>4. \A b \in Books :
         (IF b \in tx[c].rows THEN Copy(c, b)["reserved"] + 1 * Its(c)[b] ELSE reserved[b])
            = reserved[b] + Its(c)[b]
  BY <1>1
<1>5. \A b \in Books :
         (IF b \in tx[c].rows THEN Copy(c, b)["reserved"] + (-1) * Its(c)[b] ELSE reserved[b])
            = reserved[b] - Its(c)[b]
  BY <1>1
<1> QED
  BY <1>2, <1>3, <1>4, <1>5 DEF WrittenBack

LEMMA PostsIs ==
    ASSUME Inv, NEW c \in Procs, Running(c), NEW type
    PROVE  /\ Posts(c, type, 1) => movements' = T!Posted(type, Its(c))
           /\ Posts(c, type, -1) => movements' = T!Posted(type, [b \in Books |-> -Its(c)[b]])
<1>1. Its(c) \in [Books -> Nat] /\ \A b \in Books : Its(c)[b] \in Nat
  BY OfRunning, TxFields, LocksAssumption DEF T!ItemMaps
<1>2. [b \in Books |-> 1 * Its(c)[b]] = Its(c)
  BY <1>1
<1>3. [b \in Books |-> (-1) * Its(c)[b]] = [b \in Books |-> -Its(c)[b]]
  BY <1>1
<1> QED
  BY <1>2, <1>3 DEF Posts

\* A commit of a transaction that may commit is the one-step action of module
\* Warehouse, as far as the tables tell.
LEMMA CreateIs ==
    ASSUME Inv, NEW c \in Procs, Running(c), tx[c].pc = "commit", CommitCreate(c)
    PROVE  /\ T!CreateReservation(Ord(c), Its(c), Key(c))
           /\ Ord(c) \in Orders /\ Its(c) \in T!Payloads /\ Key(c) \in Keys \cup {NoKey}
           /\ UNCHANGED task
<1>1. TypeInv /\ Formed(c) /\ Current(c) /\ Unique(c) /\ Op(c) = "create"
  BY OfRunning DEF CommitCreate
<1>2. Ord(c) \in Orders /\ Key(c) \in Keys \cup {NoKey}
  BY <1>1, TxFields
<1>3. Its(c) \in T!Payloads
  BY <1>1, RequestType DEF Formed, Settles, Its
<1>4. T!Matches(Ord(c), Key(c)) = {}
  BY <1>1 DEF Unique
<1>5. T!Sufficient(Its(c))
  <2> SUFFICES ASSUME NEW b \in Books, Its(c)[b] > 0
               PROVE  listing[b] = "active" /\ quantity[b] - reserved[b] >= Its(c)[b]
    BY DEF T!Sufficient, T!CanFulfill, T!Available
  <2>1. b \in tx[c].rows /\ Copy(c, b).quantity - Copy(c, b).reserved >= Its(c)[b]
    BY <1>1 DEF Formed, Enough, Named
  <2>2. Copy(c, b).quantity = quantity[b] /\ Copy(c, b).reserved = reserved[b]
        /\ listing[b] = "active"
    BY <1>1, <2>1 DEF Current
  <2> QED
    BY <2>1, <2>2
<1>6. T!CreateOutcome(Ord(c), Its(c), Key(c)) = "created"
  BY <1>4, <1>5 DEF T!CreateOutcome
<1>7. reserved' = [b \in Books |-> reserved[b] + Its(c)[b]]
  BY WrittenBackIs DEF CommitCreate
<1>8. movements' = T!Posted("reservation", [b \in Books |-> -Its(c)[b]])
  BY PostsIs DEF CommitCreate
<1>9. T!CreateReservation(Ord(c), Its(c), Key(c))
  BY <1>6, <1>7, <1>8 DEF CommitCreate, T!CreateReservation, T!returns, T!task, task
<1> QED
  BY <1>2, <1>3, <1>9 DEF CommitCreate

LEMMA SettledIs ==
    ASSUME Inv, NEW c \in Procs, Running(c), tx[c].pc = "commit", Settles(Op(c))
    PROVE  /\ reservations[Ord(c)].status = "PENDING" /\ Its(c) = T!Items(Ord(c))
           /\ Ord(c) \in Orders /\ rowLock[Ord(c)] = c
           /\ \A b \in Books : T!Items(Ord(c))[b] \in Nat
           /\ Covered(c, "reserved") => T!Releasable(Ord(c))
           /\ Covered(c, "reserved") /\ Covered(c, "quantity") => T!Sellable(Ord(c))
           /\ T!Releasable(Ord(c)) => Covered(c, "reserved")
           /\ T!Sellable(Ord(c)) => Covered(c, "quantity")
<1>1. TypeInv /\ Formed(c) /\ Current(c) /\ Locked(c) /\ HoldsRow(c)
  BY OfRunning DEF HoldsRow
<1>2. reservations[Ord(c)].status = "PENDING" /\ Its(c) = T!Items(Ord(c)) /\ Ord(c) \in Orders
      /\ rowLock[Ord(c)] = c
  BY <1>1, TxFields DEF Current, Locked
<1>3. /\ \A b \in Books : Its(c)[b] \in Nat /\ quantity[b] \in Nat /\ reserved[b] \in Nat
      /\ \A b \in Books : b \in tx[c].rows =>
            Copy(c, b)["quantity"] = quantity[b] /\ Copy(c, b)["reserved"] = reserved[b]
      /\ \A b \in Books : b \notin tx[c].rows => Its(c)[b] = 0
      /\ Named(Its(c)) = tx[c].rows
  BY CommitRows
<1>4. /\ Covered(c, "reserved") <=> \A b \in Books : Its(c)[b] <= reserved[b]
      /\ Covered(c, "quantity") <=> \A b \in Books : Its(c)[b] <= quantity[b]
  <2>1. \A b \in Named(Its(c)) : b \in Books /\ b \in tx[c].rows
    BY <1>3 DEF Named
  <2>2. \A b \in Books : b \in Named(Its(c)) \/ Its(c)[b] = 0
    BY <1>3
  <2>3. Covered(c, "reserved") <=> \A b \in Named(Its(c)) : reserved[b] >= Its(c)[b]
    BY <1>3, <2>1 DEF Covered
  <2>4. Covered(c, "quantity") <=> \A b \in Named(Its(c)) : quantity[b] >= Its(c)[b]
    BY <1>3, <2>1 DEF Covered
  <2> QED
    BY <1>3, <2>1, <2>2, <2>3, <2>4
<1> QED
  BY <1>2, <1>3, <1>4 DEF T!Releasable, T!Sellable

LEMMA ReleaseIs ==
    ASSUME Inv, NEW c \in Procs, Running(c), tx[c].pc = "commit", CommitRelease(c), Allowed(c)
    PROVE  /\ T!Release(Ord(c), tx[c].to) /\ T!Releasable(Ord(c))
           /\ Settles(Op(c)) /\ tx[c].to \in {"CANCELLED", "EXPIRED"}
           /\ Op(c) = "confirm" => tx[c].to = "EXPIRED" /\ reservations[Ord(c)].due
           /\ UNCHANGED <<listing, quantity, created, stockReturns, returned>>
<1>1. Settles(Op(c)) /\ ~Sells(c)
  BY DEF CommitRelease, Settles
<1>2. Covered(c, "reserved")
  BY <1>1 DEF Allowed, Settles
<1>3. Its(c) = T!Items(Ord(c)) /\ T!Releasable(Ord(c))
  BY <1>1, <1>2, SettledIs
<1>4. /\ reserved' = [b \in Books |-> reserved[b] - Its(c)[b]]
      /\ movements' = T!Posted("reservation_release", Its(c))
  BY WrittenBackIs, PostsIs DEF CommitRelease
<1>5. T!Release(Ord(c), tx[c].to)
  BY <1>3, <1>4 DEF CommitRelease, T!Release
<1>6. /\ tx[c].to \in {"CANCELLED", "EXPIRED"}
      /\ Op(c) = "confirm" => tx[c].to = "EXPIRED" /\ reservations[Ord(c)].due
  <2>1. Formed(c) /\ Current(c) /\ HoldsRow(c)
    BY <1>1, OfRunning DEF HoldsRow
  <2> QED
    BY <1>1, <2>1 DEF Formed, Current, Settles, Sells
<1> QED
  BY <1>1, <1>3, <1>5, <1>6 DEF CommitRelease

LEMMA SaleIs ==
    ASSUME Inv, NEW c \in Procs, Running(c), tx[c].pc = "commit", CommitSale(c), Allowed(c)
    PROVE  /\ T!Sell(Ord(c)) /\ T!Sellable(Ord(c)) /\ Settles(Op(c))
           /\ UNCHANGED <<listing, created, stockReturns, returned, task>>
<1>1. Settles(Op(c)) /\ Sells(c)
  BY DEF CommitSale, Settles, Sells
<1>2. Covered(c, "reserved") /\ Covered(c, "quantity")
  BY <1>1 DEF Allowed, Settles
<1>3. Its(c) = T!Items(Ord(c)) /\ T!Sellable(Ord(c))
  BY <1>1, <1>2, SettledIs
<1>4. /\ quantity' = [b \in Books |-> quantity[b] - Its(c)[b]]
      /\ reserved' = [b \in Books |-> reserved[b] - Its(c)[b]]
      /\ movements' = T!Posted("sale", [b \in Books |-> -Its(c)[b]])
  BY WrittenBackIs, PostsIs DEF CommitSale
<1>5. T!Sell(Ord(c))
  BY <1>3, <1>4 DEF CommitSale, T!Sell
<1> QED
  BY <1>1, <1>3, <1>5 DEF CommitSale

LEMMA ReturnIs ==
    ASSUME Inv, NEW c \in Procs, Running(c), tx[c].pc = "commit", CommitReturn(c)
    PROVE  /\ T!CreateStockReturn(Ord(c), Its(c), tx[c].req.reason, Key(c))
           /\ Ord(c) \in Orders /\ Its(c) \in T!Payloads /\ Key(c) \in Keys \cup {NoKey}
           /\ tx[c].req.reason \in Reasons /\ rowLock[Ord(c)] = c
           /\ UNCHANGED task
<1>1. TypeInv /\ Formed(c) /\ Current(c) /\ Unique(c) /\ Locked(c) /\ Op(c) = "return"
  BY OfRunning DEF CommitReturn
<1>2. Ord(c) \in Orders /\ Key(c) \in Keys \cup {NoKey}
  BY <1>1, TxFields
<1>3. Its(c) \in T!Payloads /\ tx[c].req.reason \in Reasons
  BY <1>1, RequestType DEF Formed, Settles, Its, Op
<1>4. Key(c) = NoKey \/ stockReturns[Key(c)] = NoReturn
  BY <1>1, <1>2 DEF Unique, KeyReturned
<1>5. /\ reservations[Ord(c)].status = "CONFIRMED" /\ T!Returnable(Ord(c), Its(c))
      /\ rowLock[Ord(c)] = c
  BY <1>1 DEF Current, Locked, HoldsRow
<1>6. \A b \in Books : Its(c)[b] > 0 => listing[b] # "absent"
  <2> SUFFICES ASSUME NEW b \in Books, Its(c)[b] > 0
               PROVE  listing[b] # "absent"
    OBVIOUS
  <2>1. returned[Ord(c)][b] \in Nat /\ T!Items(Ord(c))[b] \in Nat /\ Its(c)[b] \in Nat
    BY <1>1, <1>2, <1>3, LocksAssumption
       DEF TypeInv, T!TypeOK, T!Items, T!Reservation, T!ItemMaps, T!Payloads
  <2>2. T!Items(Ord(c))[b] > 0
    BY <1>5, <2>1 DEF T!Returnable
  <2> QED
    BY <1>2, <2>2 DEF Inv, ReservedAreListed
<1>7. T!ReturnOutcome(Ord(c), Its(c), tx[c].req.reason, Key(c)) = "created"
  BY <1>4, <1>5, <1>6 DEF T!ReturnOutcome
<1>8. /\ quantity' = [b \in Books |-> quantity[b] + Its(c)[b]]
      /\ movements' = T!Posted("return", Its(c))
  BY WrittenBackIs, PostsIs DEF CommitReturn
<1>9. T!CreateStockReturn(Ord(c), Its(c), tx[c].req.reason, Key(c))
  BY <1>7, <1>8 DEF CommitReturn, T!CreateStockReturn, T!task, task
<1> QED
  BY <1>2, <1>3, <1>5, <1>9 DEF CommitReturn

LEMMA StockedIs ==
    ASSUME Inv, NEW c \in Procs, Running(c), tx[c].pc = "commit", Stocks(Op(c))
    PROVE  \E b \in Books, n \in 1..MaxItem :
              /\ tx[c].rows = {b} /\ Its(c) = T!Only(b, n) /\ Its(c)[b] = n
              /\ \A d \in Books \ {b} : Its(c)[d] = 0
              /\ Op(c) = "adjust" => n <= MaxReceived + MaxAdjusted
              /\ Copy(c, b).quantity = quantity[b] /\ Copy(c, b).reserved = reserved[b]
              /\ listing[b] # "absent" /\ n \in Nat /\ n > 0
<1>1. PICK b \in Books, n \in 1..MaxItem :
              /\ Its(c) = T!Only(b, n) /\ Named(Its(c)) = {b} /\ Its(c)[b] = n
              /\ \A d \in Books \ {b} : Its(c)[d] = 0
              /\ Op(c) = "adjust" => n <= MaxReceived + MaxAdjusted
  BY OneBook
<1>2. tx[c].rows = {b} /\ Copy(c, b).quantity = quantity[b] /\ Copy(c, b).reserved = reserved[b]
  BY <1>1, CommitRows
<1>3. listing[b] # "absent"
  BY <1>1, OfRunning DEF Current
<1>4. n \in Nat /\ n > 0
  BY LocksAssumption
<1> QED
  BY <1>1, <1>2, <1>3, <1>4

LEMMA ReceiptIs ==
    ASSUME Inv, NEW c \in Procs, Running(c), tx[c].pc = "commit", CommitReceipt(c), Allowed(c)
    PROVE  /\ \E b \in Books, n \in 1..MaxItem : T!Receive(b, n) /\ Its(c)[b] = n
           /\ UNCHANGED task
<1>1. Stocks(Op(c)) /\ Op(c) = "receive"
  BY DEF CommitReceipt, Stocks
<1>2. PICK b \in Books, n \in 1..MaxItem :
              /\ tx[c].rows = {b} /\ Its(c) = T!Only(b, n) /\ Its(c)[b] = n
              /\ \A d \in Books \ {b} : Its(c)[d] = 0
              /\ listing[b] # "absent" /\ n \in Nat
  BY <1>1, StockedIs
<1>3. movements[b]["receipt"] + n <= MaxReceived
  BY <1>1, <1>2 DEF Allowed
<1>4. quantity' = [d \in Books |-> quantity[d] + Its(c)[d]]
  BY WrittenBackIs DEF CommitReceipt
<1>5. movements' = T!Posted("receipt", T!Only(b, n))
  BY <1>2, PostsIs DEF CommitReceipt
<1>6. quantity' = [quantity EXCEPT ![b] = @ + n]
  <2>1. quantity \in [Books -> Nat]
    BY DEF Inv, TypeInv, T!TypeOK
  <2>2. \A d \in Books : quantity[d] + Its(c)[d] = IF d = b THEN quantity[b] + n ELSE quantity[d]
    BY <1>2, <2>1
  <2>3. quantity' = [d \in Books |-> IF d = b THEN quantity[b] + n ELSE quantity[d]]
    BY <1>4, <2>2
  <2> QED
    BY <2>1, <2>3
<1>7. T!Receive(b, n)
  BY <1>2, <1>3, <1>5, <1>6 DEF T!Receive, CommitReceipt, T!returns, T!task, task
<1> QED
  BY <1>2, <1>7 DEF CommitReceipt

LEMMA WriteOffIs ==
    ASSUME Inv, NEW c \in Procs, Running(c), tx[c].pc = "commit", CommitWriteOff(c), Allowed(c)
    PROVE  /\ \E b \in Books, n \in 1..MaxItem : T!WriteOff(b, n) /\ Its(c)[b] = n
           /\ UNCHANGED task
<1>1. Stocks(Op(c)) /\ Op(c) = "write_off"
  BY DEF CommitWriteOff, Stocks
<1>2. PICK b \in Books, n \in 1..MaxItem :
              /\ tx[c].rows = {b} /\ Its(c) = T!Only(b, n) /\ Its(c)[b] = n
              /\ \A d \in Books \ {b} : Its(c)[d] = 0
              /\ Copy(c, b).quantity = quantity[b] /\ Copy(c, b).reserved = reserved[b]
              /\ listing[b] # "absent" /\ n \in Nat /\ n > 0
  BY <1>1, StockedIs
<1>3. T!CanFulfill(b, n)
  <2>1. Enough(c)
    BY <1>1 DEF Allowed
  <2>2. b \in Named(Its(c))
    BY <1>2 DEF Named
  <2> QED
    BY <1>2, <2>1, <2>2 DEF Enough, T!CanFulfill, T!Available
<1>4. quantity' = [d \in Books |-> quantity[d] - Its(c)[d]]
  BY WrittenBackIs DEF CommitWriteOff
<1>5. [d \in Books |-> -Its(c)[d]] = T!Only(b, -n)
  BY <1>2 DEF T!Only, T!NoItems
<1>6. movements' = T!Posted("write_off", T!Only(b, -n))
  BY <1>5, PostsIs DEF CommitWriteOff
<1>7. quantity' = [quantity EXCEPT ![b] = @ - n]
  <2>1. quantity \in [Books -> Nat]
    BY DEF Inv, TypeInv, T!TypeOK
  <2>2. \A d \in Books : quantity[d] - Its(c)[d] = IF d = b THEN quantity[b] - n ELSE quantity[d]
    BY <1>2, <2>1
  <2>3. quantity' = [d \in Books |-> IF d = b THEN quantity[b] - n ELSE quantity[d]]
    BY <1>4, <2>2
  <2> QED
    BY <2>1, <2>3
<1>8. T!WriteOff(b, n)
  BY <1>2, <1>3, <1>6, <1>7 DEF T!WriteOff, CommitWriteOff, T!returns, T!task, task
<1> QED
  BY <1>2, <1>8 DEF CommitWriteOff

LEMMA AdjustmentIs ==
    ASSUME Inv, NEW c \in Procs, Running(c), tx[c].pc = "commit", CommitAdjustment(c), Allowed(c)
    PROVE  /\ \E b \in Books, n \in 0..(MaxReceived + MaxAdjusted) : T!Adjust(b, n) /\ Its(c)[b] = n /\ n > 0
           /\ UNCHANGED task
<1>1. Stocks(Op(c)) /\ Op(c) = "adjust"
  BY DEF CommitAdjustment, Stocks
<1>2. PICK b \in Books, n \in 1..MaxItem :
              /\ tx[c].rows = {b} /\ Its(c)[b] = n
              /\ n <= MaxReceived + MaxAdjusted
              /\ Copy(c, b).quantity = quantity[b] /\ Copy(c, b).reserved = reserved[b]
              /\ listing[b] # "absent" /\ n \in Nat /\ n > 0
  BY <1>1, StockedIs
<1>3. quantity \in [Books -> Nat]
  BY DEF Inv, TypeInv, T!TypeOK
<1>4. PICK difference \in Int : difference = n - quantity[b]
  BY <1>2, <1>3
<1>5. Difference(c) = T!Only(b, difference)
  <2>1. \A d \in Books : Difference(c)[d] = IF d = b THEN difference ELSE 0
    BY <1>2, <1>4 DEF Difference
  <2>2. T!Only(b, difference) = [d \in Books |-> IF d = b THEN difference ELSE 0]
    BY DEF T!Only, T!NoItems
  <2>3. Difference(c) = [d \in Books |-> Difference(c)[d]]
    BY DEF Difference
  <2> QED
    BY <2>1, <2>2, <2>3
<1>6. Difference(c)[b] = difference
  BY <1>2, <1>4 DEF Difference
<1>7. /\ n >= reserved[b] /\ difference # 0
      /\ movements[b]["adjustment"] + difference \in -MaxAdjusted..MaxAdjusted
  BY <1>1, <1>2, <1>6 DEF Allowed
<1>8. quantity' = [quantity EXCEPT ![b] = n]
  BY <1>2, <1>3 DEF CommitAdjustment
<1>9. movements' = T!Posted("adjustment", T!Only(b, difference))
  BY <1>5 DEF CommitAdjustment
<1>10. n # quantity[b]
  BY <1>2, <1>3, <1>4, <1>7
<1>11. T!Adjust(b, n)
  BY <1>2, <1>4, <1>7, <1>8, <1>9, <1>10
     DEF T!Adjust, T!CanAdjust, CommitAdjustment, T!returns, T!task, task
<1>12. n \in 0..(MaxReceived + MaxAdjusted)
  BY <1>2, LocksAssumption
<1> QED
  BY <1>2, <1>11, <1>12 DEF CommitAdjustment

(***************************************************************************)
(* A commit keeps the invariant                                            *)
(***************************************************************************)

LEMMA PostedType ==
    ASSUME T!TypeOK, NEW type \in T!MovementTypes, NEW delta, \A b \in Books : delta[b] \in Int
    PROVE  T!Posted(type, delta) \in [Books -> [T!MovementTypes -> Int]]
BY DEF T!TypeOK, T!Posted

\* A commit that changes the counters of the books it names, and otherwise only
\* the row of an order that it has locked or that is new.
LEMMA CommitKeeps ==
    ASSUME Inv, NEW c \in Procs, Running(c), tx[c].pc = "commit", Ends(c),
           T!TypeOK', listing' = listing,
           \A b \in Books : Its(c)[b] = 0 => quantity'[b] = quantity[b] /\ reserved'[b] = reserved[b],
           \A o \in Orders : T!Exists(o) =>
              /\ reservations'[o].status # "NONE"
              /\ reservations[o].due => reservations'[o].due
              /\ reservations'[o].items = reservations[o].items,
           \A o \in Orders : T!Exists(o) /\ rowLock[o] # c =>
              reservations'[o].status = reservations[o].status /\ returned'[o] = returned[o],
           Alone(c), ReservedAreListed',
           \A w \in Workers : batches'[w] \subseteq batches[w] /\ onTime'[w] \subseteq batches'[w],
           onTime' \in [Workers -> SUBSET Orders]
    PROVE  Inv'
<1>1. TypeInv /\ TxInv /\ OwnersRun /\ BatchesAreOverdue
  BY DEF Inv
<1>2. /\ \A b \in Books, d \in Procs : d # c => (bookLock'[b] = d <=> bookLock[b] = d)
      /\ \A o \in Orders, d \in Procs : d # c => (rowLock'[o] = d <=> rowLock[o] = d)
  BY <1>1, EndFrees
<1>3. \A b \in Books : bookLock[b] # c => Its(c)[b] = 0
  BY CommitRows
<1>4. \A o \in Orders : rowLock[o] \notin {c, Free} => T!Exists(o)
  <2> SUFFICES ASSUME NEW o \in Orders, rowLock[o] \notin {c, Free}
               PROVE  T!Exists(o)
    OBVIOUS
  <2>1. rowLock[o] \in Procs /\ Running(rowLock[o])
    BY <1>1 DEF TypeInv, OwnersRun
  <2>2. PICK d \in Procs : d = rowLock[o] /\ Running(d)
    BY <2>1
  <2>3. Locked(d) /\ Current(d)
    BY <2>2, OfRunning
  <2>4. HoldsRow(d) /\ o = Ord(d)
    BY <2>2, <2>3 DEF Locked
  <2>5. reservations[o].status \in {"PENDING", "CONFIRMED"}
    BY <2>3, <2>4 DEF Current, HoldsRow
  <2> QED
    BY <2>5 DEF T!Exists
<1>5. Frame(c)
  BY <1>2, <1>3, <1>4 DEF Frame
<1>6. BatchesAreOverdue'
  <2>1. \A w \in Workers : \A o \in batches[w] : o \in Orders
    BY <1>1 DEF TypeInv, T!TypeOK
  <2> QED
    BY <1>1, <2>1 DEF BatchesAreOverdue, T!Exists
<1> QED
  BY <1>5, <1>6, EndKeeps

\* The tasks of a commit that is no worker's go on.
LEMMA TaskStays ==
    ASSUME Inv, UNCHANGED task
    PROVE  /\ batches' = batches /\ onTime' = onTime /\ deaths' = deaths
           /\ \A w \in Workers : batches'[w] \subseteq batches[w] /\ onTime'[w] \subseteq batches'[w]
           /\ onTime' \in [Workers -> SUBSET Orders]
BY DEF Inv, TypeInv, BatchesAreOverdue, task

\* Statuses, expiry and counters have no part in what the inserts of others wait for.
LEMMA EndsAlone ==
    ASSUME Inv, NEW c \in Procs, Ends(c), stockReturns' = stockReturns,
           \A o \in Orders : /\ T!Exists(o)' <=> T!Exists(o)
                             /\ reservations'[o].key = reservations[o].key
    PROVE  Alone(c)
<1>1. tx'[c] = NoTx /\ \A d \in Procs \ {c} : tx'[d] = tx[d]
  BY EndsType DEF Inv
<1> QED
  BY <1>1, EndAlone

LEMMA CreateKeeps ==
    ASSUME Inv, NEW c \in Procs, Running(c), tx[c].pc = "commit", CommitCreate(c), Ends(c)
    PROVE  Inv'
<1>1. PICK o \in Orders, p \in T!Payloads, k \in Keys \cup {NoKey} :
         o = Ord(c) /\ p = Its(c) /\ k = Key(c) /\ T!CreateReservation(o, p, k) /\ UNCHANGED task
  BY CreateIs
<1>2. T!TypeOK /\ TypeInv
  BY DEF Inv, TypeInv
<1>3. p \in T!ItemMaps /\ \A b \in Books : p[b] \in Nat
  BY ItemMapType DEF T!Payloads
<1>4. /\ T!Matches(o, k) = {} /\ T!Sufficient(p)
  BY <1>1 DEF T!CreateReservation, T!CreateOutcome
<1>5. ~T!Exists(o)
  BY <1>4 DEF T!Matches
<1>6. /\ reserved' = [b \in Books |-> reserved[b] + p[b]]
      /\ movements' = T!Posted("reservation", [b \in Books |-> -p[b]])
      /\ created' = created + 1 /\ listing' = listing /\ quantity' = quantity
      /\ stockReturns' = stockReturns /\ returned' = returned /\ batches' = batches /\ deaths' = deaths
  BY <1>1 DEF T!CreateReservation, T!returns, T!task
<1>7. PICK row \in T!Reservation : /\ row.status = "PENDING" /\ row.items = p /\ row.key = k
                                   /\ reservations' = [reservations EXCEPT ![o] = row]
  <2>1. [status |-> "PENDING", items |-> p, key |-> k, due |-> FALSE, serial |-> created]
          \in T!Reservation
    BY <1>2, <1>3 DEF T!TypeOK, T!Reservation, T!Statuses
  <2> QED
    BY <1>1, <2>1 DEF T!CreateReservation
<1>8. /\ reservations' \in [Orders -> T!Reservation] /\ reservations'[o] = row
      /\ \A r \in Orders \ {o} : reservations'[r] = reservations[r]
  BY <1>2, <1>7 DEF T!TypeOK
<1>9. T!TypeOK'
  <2>1. movements' \in [Books -> [T!MovementTypes -> Int]]
    BY <1>2, <1>3, <1>6, PostedType DEF T!MovementTypes
  <2>2. reserved' \in [Books -> Nat]
    BY <1>2, <1>3, <1>6 DEF T!TypeOK
  <2> QED
    BY <1>2, <1>6, <1>8, <2>1, <2>2 DEF T!TypeOK
<1>10. \A b \in Books : Its(c)[b] = 0 => quantity'[b] = quantity[b] /\ reserved'[b] = reserved[b]
  BY <1>1, <1>2, <1>6 DEF T!TypeOK
<1>11. /\ \A r \in Orders : T!Exists(r) => reservations'[r] = reservations[r]
  BY <1>5, <1>8
<1>12. Alone(c)
  <2> SUFFICES ASSUME NEW d \in Procs, d # c, Running(d), tx[d].pc = "commit"
               PROVE  /\ Op(d) = "create" => (T!Matches(Ord(d), Key(d)) = {})'
                      /\ Op(d) = "return" => ~KeyReturned(d)'
                      /\ Op(d) \in {"create", "return"} => c \notin Inserting(d)'
    BY DEF Alone
  <2>1. Unique(d)
    BY OfRunning
  <2>2. tx'[c] = NoTx /\ tx'[d] = tx[d]
    BY <1>2, EndsType
  <2>3. Op(d)' = Op(d) /\ Ord(d)' = Ord(d) /\ Key(d)' = Key(d)
    BY <2>2 DEF Op, Ord, Key
  <2>4. c \notin Inserting(d)'
    BY <2>2 DEF Inserting, NoTx
  <2>5. Op(d) = "return" => ~KeyReturned(d)'
    BY <1>6, <2>1, <2>3 DEF Unique, KeyReturned
  <2>6. Op(d) = "create" => Ord(d) # o /\ (Key(d) = NoKey \/ Key(d) # k)
    <3>1. Op(c) = "create"
      BY DEF CommitCreate
    <3>2. Op(d) = "create" => c \notin Inserting(d)
      BY <2>1 DEF Unique
    <3> QED
      BY <1>1, <3>1, <3>2 DEF Inserting, SameUnique
  <2>7. Op(d) = "create" => (T!Matches(Ord(d), Key(d)) = {})'
    BY <1>7, <1>8, <2>1, <2>3, <2>6 DEF Unique, T!Matches, T!Exists
  <2> QED
    BY <2>4, <2>5, <2>7
<1>13. ReservedAreListed'
  <2> SUFFICES ASSUME NEW r \in Orders, NEW b \in Books, reservations'[r].items[b] > 0
               PROVE  listing[b] # "absent"
    BY <1>6 DEF ReservedAreListed, T!Items
  <2>1. CASE r = o
    BY <1>4, <1>7, <1>8, <2>1 DEF T!Sufficient
  <2>2. CASE r # o
    BY <1>8, <2>2 DEF Inv, ReservedAreListed, T!Items
  <2> QED
    BY <2>1, <2>2
<1>14. /\ \A w \in Workers : batches'[w] \subseteq batches[w] /\ onTime'[w] \subseteq batches'[w]
       /\ onTime' \in [Workers -> SUBSET Orders]
  BY <1>1, TaskStays
<1>15. /\ \A r \in Orders : T!Exists(r) =>
              /\ reservations'[r].status # "NONE"
              /\ reservations[r].due => reservations'[r].due
              /\ reservations'[r].items = reservations[r].items
       /\ \A r \in Orders : T!Exists(r) /\ rowLock[r] # c =>
              reservations'[r].status = reservations[r].status /\ returned'[r] = returned[r]
  BY <1>6, <1>11 DEF T!Exists
<1> QED
  BY <1>6, <1>9, <1>10, <1>12, <1>13, <1>14, <1>15, CommitKeeps

\* A reservation that c has locked gets a status, and nothing else in the tables
\* of reservations and returns changes.
LEMMA SettlesKeeps ==
    ASSUME Inv, NEW c \in Procs, Running(c), tx[c].pc = "commit", Ends(c), Settles(Op(c)),
           NEW status \in {"CONFIRMED", "CANCELLED", "EXPIRED"},
           reservations' = [reservations EXCEPT ![Ord(c)].status = status],
           quantity' \in [Books -> Nat], reserved' \in [Books -> Nat],
           \A b \in Books : Its(c)[b] = 0 => quantity'[b] = quantity[b] /\ reserved'[b] = reserved[b],
           movements' \in [Books -> [T!MovementTypes -> Int]],
           UNCHANGED <<listing, created, stockReturns, returned>>,
           IF Op(c) = "expire" THEN Visited(c, Ord(c)) ELSE UNCHANGED task
    PROVE  Inv'
<1>1. T!TypeOK /\ TypeInv /\ Formed(c)
  BY OfRunning DEF TypeInv
<1>2. Op(c) \in Ops /\ Ord(c) \in Orders /\ rowLock[Ord(c)] = c
      /\ reservations[Ord(c)].status = "PENDING"
  BY <1>1, TxFields, SettledIs
<1>3. PICK o \in Orders, op \in Ops : o = Ord(c) /\ op = Op(c)
  BY <1>2
<1>4. /\ reservations' \in [Orders -> T!Reservation]
      /\ \A r \in Orders : /\ reservations'[r].items = reservations[r].items
                           /\ reservations'[r].key = reservations[r].key
                           /\ reservations'[r].due = reservations[r].due
                           /\ reservations'[r].status = IF r = o THEN status ELSE reservations[r].status
  BY <1>1, <1>3 DEF T!TypeOK, T!Reservation, T!Statuses
<1>5. /\ batches' \in [Workers -> SUBSET Orders] /\ onTime' \in [Workers -> SUBSET Orders]
      /\ deaths' \in Nat
      /\ \A w \in Workers : batches'[w] \subseteq batches[w] /\ onTime'[w] \subseteq batches'[w]
  <2>1. op = "expire" => c \in Workers
    BY <1>1, <1>3 DEF Formed
  <2>2. IF op = "expire" THEN Visited(c, o) ELSE UNCHANGED task
    BY <1>3
  <2> QED
    BY <2>1, <2>2, VisitedTypes
<1>6. T!TypeOK'
  BY <1>1, <1>4, <1>5 DEF T!TypeOK
<1>7. \A r \in Orders : T!Exists(r)' <=> T!Exists(r)
  BY <1>2, <1>3, <1>4 DEF T!Exists
<1>8. Alone(c)
  BY <1>4, <1>7, EndsAlone
<1>9. ReservedAreListed'
  BY <1>4 DEF Inv, ReservedAreListed, T!Items
<1>10. /\ \A r \in Orders : T!Exists(r) =>
              /\ reservations'[r].status # "NONE"
              /\ reservations[r].due => reservations'[r].due
              /\ reservations'[r].items = reservations[r].items
       /\ \A r \in Orders : T!Exists(r) /\ rowLock[r] # c =>
              reservations'[r].status = reservations[r].status /\ returned'[r] = returned[r]
  BY <1>2, <1>3, <1>4, <1>7 DEF T!Exists
<1> QED
  BY <1>5, <1>6, <1>8, <1>9, <1>10, CommitKeeps

LEMMA ReleaseKeeps ==
    ASSUME Inv, NEW c \in Procs, Running(c), tx[c].pc = "commit", CommitRelease(c), Allowed(c),
           Ends(c)
    PROVE  Inv'
<1>1. /\ T!Release(Ord(c), tx[c].to) /\ T!Releasable(Ord(c))
      /\ Settles(Op(c)) /\ tx[c].to \in {"CANCELLED", "EXPIRED"}
      /\ UNCHANGED <<listing, quantity, created, stockReturns, returned>>
  BY ReleaseIs
<1>2. Its(c) = T!Items(Ord(c)) /\ \A b \in Books : Its(c)[b] \in Nat
  BY <1>1, SettledIs
<1>3. T!TypeOK
  BY DEF Inv, TypeInv
<1>4. \A b \in Books : quantity[b] \in Nat /\ reserved[b] \in Nat /\ Its(c)[b] <= reserved[b]
  BY <1>1, <1>2, <1>3 DEF T!Releasable, T!TypeOK
<1>5. /\ reserved' = [b \in Books |-> reserved[b] - Its(c)[b]]
      /\ movements' = T!Posted("reservation_release", Its(c))
      /\ reservations' = [reservations EXCEPT ![Ord(c)].status = tx[c].to]
  BY <1>1, <1>2 DEF T!Release
<1>6. quantity' \in [Books -> Nat] /\ reserved' \in [Books -> Nat]
  BY <1>1, <1>2, <1>3, <1>4, <1>5 DEF T!TypeOK
<1>7. movements' \in [Books -> [T!MovementTypes -> Int]]
  BY <1>2, <1>3, <1>5, PostedType DEF T!MovementTypes
<1>8. \A b \in Books : Its(c)[b] = 0 => quantity'[b] = quantity[b] /\ reserved'[b] = reserved[b]
  BY <1>1, <1>4, <1>5
<1>9. IF Op(c) = "expire" THEN Visited(c, Ord(c)) ELSE UNCHANGED task
  BY DEF CommitRelease
<1> QED
  BY <1>1, <1>5, <1>6, <1>7, <1>8, <1>9, SettlesKeeps

LEMMA SaleKeeps ==
    ASSUME Inv, NEW c \in Procs, Running(c), tx[c].pc = "commit", CommitSale(c), Allowed(c),
           Ends(c)
    PROVE  Inv'
<1>1. /\ T!Sell(Ord(c)) /\ T!Sellable(Ord(c)) /\ Settles(Op(c)) /\ Op(c) # "expire"
      /\ UNCHANGED <<listing, created, stockReturns, returned, task>>
  BY SaleIs DEF CommitSale, Sells
<1>2. Its(c) = T!Items(Ord(c)) /\ \A b \in Books : Its(c)[b] \in Nat
  BY <1>1, SettledIs
<1>3. T!TypeOK
  BY DEF Inv, TypeInv
<1>4. \A b \in Books : /\ quantity[b] \in Nat /\ reserved[b] \in Nat
                       /\ Its(c)[b] <= reserved[b] /\ Its(c)[b] <= quantity[b]
  BY <1>1, <1>2, <1>3 DEF T!Sellable, T!Releasable, T!TypeOK
<1>5. /\ quantity' = [b \in Books |-> quantity[b] - Its(c)[b]]
      /\ reserved' = [b \in Books |-> reserved[b] - Its(c)[b]]
      /\ movements' = T!Posted("sale", [b \in Books |-> -Its(c)[b]])
      /\ reservations' = [reservations EXCEPT ![Ord(c)].status = "CONFIRMED"]
  BY <1>1, <1>2 DEF T!Sell
<1>6. quantity' \in [Books -> Nat] /\ reserved' \in [Books -> Nat]
  BY <1>2, <1>4, <1>5
<1>7. movements' \in [Books -> [T!MovementTypes -> Int]]
  BY <1>2, <1>3, <1>5, PostedType DEF T!MovementTypes
<1>8. \A b \in Books : Its(c)[b] = 0 => quantity'[b] = quantity[b] /\ reserved'[b] = reserved[b]
  BY <1>4, <1>5
<1> QED
  BY <1>1, <1>5, <1>6, <1>7, <1>8, SettlesKeeps

LEMMA ReturnKeeps ==
    ASSUME Inv, NEW c \in Procs, Running(c), tx[c].pc = "commit", CommitReturn(c), Ends(c)
    PROVE  Inv'
<1>1. PICK o \in Orders, p \in T!Payloads, k \in Keys \cup {NoKey}, reason \in Reasons :
         /\ o = Ord(c) /\ p = Its(c) /\ k = Key(c) /\ rowLock[o] = c
         /\ T!CreateStockReturn(o, p, reason, k) /\ UNCHANGED task
  BY ReturnIs
<1>2. T!TypeOK /\ TypeInv
  BY DEF Inv, TypeInv
<1>3. p \in T!ItemMaps /\ \A b \in Books : p[b] \in Nat
  BY ItemMapType DEF T!Payloads
<1>4. /\ quantity' = [b \in Books |-> quantity[b] + p[b]] /\ movements' = T!Posted("return", p)
      /\ returned' = [returned EXCEPT ![o] = [b \in Books |-> returned[o][b] + p[b]]]
      /\ stockReturns' = IF k = NoKey THEN stockReturns
                         ELSE [stockReturns EXCEPT ![k] = [order |-> o, items |-> p, reason |-> reason]]
      /\ listing' = listing /\ reserved' = reserved /\ reservations' = reservations
      /\ created' = created /\ batches' = batches /\ deaths' = deaths
  BY <1>1 DEF T!CreateStockReturn, T!task
<1>5. /\ returned' \in [Orders -> [Books -> Nat]]
      /\ \A r \in Orders \ {o} : returned'[r] = returned[r]
  <2>1. [b \in Books |-> returned[o][b] + p[b]] \in [Books -> Nat]
    BY <1>2, <1>3 DEF T!TypeOK
  <2> QED
    BY <1>2, <1>4, <2>1 DEF T!TypeOK
<1>6. stockReturns' \in [Keys -> T!StockReturn \cup {NoReturn}]
  BY <1>2, <1>3, <1>4 DEF T!TypeOK, T!StockReturn
<1>7. T!TypeOK'
  <2>1. movements' \in [Books -> [T!MovementTypes -> Int]]
    BY <1>2, <1>3, <1>4, PostedType DEF T!MovementTypes
  <2>2. quantity' \in [Books -> Nat]
    BY <1>2, <1>3, <1>4 DEF T!TypeOK
  <2> QED
    BY <1>2, <1>4, <1>5, <1>6, <2>1, <2>2 DEF T!TypeOK
<1>8. \A b \in Books : Its(c)[b] = 0 => quantity'[b] = quantity[b] /\ reserved'[b] = reserved[b]
  BY <1>1, <1>2, <1>4 DEF T!TypeOK
<1>9. Alone(c)
  <2> SUFFICES ASSUME NEW d \in Procs, d # c, Running(d), tx[d].pc = "commit"
               PROVE  /\ Op(d) = "create" => (T!Matches(Ord(d), Key(d)) = {})'
                      /\ Op(d) = "return" => ~KeyReturned(d)'
                      /\ Op(d) \in {"create", "return"} => c \notin Inserting(d)'
    BY DEF Alone
  <2>1. Unique(d)
    BY OfRunning
  <2>2. tx'[c] = NoTx /\ tx'[d] = tx[d]
    BY <1>2, EndsType
  <2>3. Op(d)' = Op(d) /\ Ord(d)' = Ord(d) /\ Key(d)' = Key(d)
    BY <2>2 DEF Op, Ord, Key
  <2>4. c \notin Inserting(d)'
    BY <2>2 DEF Inserting, NoTx
  <2>5. Op(d) = "create" => (T!Matches(Ord(d), Key(d)) = {})'
    BY <1>4, <2>1, <2>3 DEF Unique, T!Matches, T!Exists
  <2>6. Op(d) = "return" => Key(d) = NoKey \/ Key(d) # k
    <3>1. Op(c) = "return"
      BY DEF CommitReturn
    <3>2. Op(d) = "return" => c \notin Inserting(d)
      BY <2>1 DEF Unique
    <3> QED
      BY <1>1, <3>1, <3>2 DEF Inserting, SameUnique
  <2>7. Op(d) = "return" => ~KeyReturned(d)'
    <3> SUFFICES ASSUME Op(d) = "return", Key(d) \in Keys, stockReturns'[Key(d)] # NoReturn
                 PROVE  FALSE
      BY <2>3 DEF KeyReturned
    <3>1. stockReturns[Key(d)] = NoReturn
      BY <2>1 DEF Unique, KeyReturned
    <3>2. Key(d) # k
      BY <2>6, LocksAssumption
    <3>3. stockReturns'[Key(d)] = stockReturns[Key(d)]
      BY <1>2, <1>4, <3>2 DEF T!TypeOK
    <3> QED
      BY <3>1, <3>3
  <2> QED
    BY <2>4, <2>5, <2>7
<1>10. ReservedAreListed'
  BY <1>4 DEF Inv, ReservedAreListed, T!Items
<1>11. /\ \A w \in Workers : batches'[w] \subseteq batches[w] /\ onTime'[w] \subseteq batches'[w]
       /\ onTime' \in [Workers -> SUBSET Orders]
  BY <1>1, TaskStays
<1>12. /\ \A r \in Orders : T!Exists(r) =>
              /\ reservations'[r].status # "NONE"
              /\ reservations[r].due => reservations'[r].due
              /\ reservations'[r].items = reservations[r].items
       /\ \A r \in Orders : T!Exists(r) /\ rowLock[r] # c =>
              reservations'[r].status = reservations[r].status /\ returned'[r] = returned[r]
  BY <1>1, <1>4, <1>5 DEF T!Exists
<1> QED
  BY <1>4, <1>7, <1>8, <1>9, <1>10, <1>11, <1>12, CommitKeeps

\* A receipt, a write-off or an adjustment changes one book's quantity.
LEMMA StockKeeps ==
    ASSUME Inv, NEW c \in Procs, Running(c), tx[c].pc = "commit", Ends(c), NEW b \in Books,
           Its(c)[b] > 0, NEW n \in Nat, quantity' = [quantity EXCEPT ![b] = n],
           NEW type \in T!MovementTypes, NEW m \in Int, movements' = T!Posted(type, T!Only(b, m)),
           UNCHANGED <<listing, reserved, reservations, created, stockReturns, returned, task>>
    PROVE  Inv'
<1>1. T!TypeOK /\ TypeInv
  BY DEF Inv, TypeInv
<1>2. \A d \in Books : T!Only(b, m)[d] \in Int
  BY DEF T!Only, T!NoItems
<1>3. movements' \in [Books -> [T!MovementTypes -> Int]]
  BY <1>1, <1>2, PostedType
<1>4. quantity' \in [Books -> Nat] /\ \A d \in Books \ {b} : quantity'[d] = quantity[d]
  BY <1>1 DEF T!TypeOK
<1>5. T!TypeOK'
  BY <1>1, <1>3, <1>4 DEF T!TypeOK, task
<1>6. \A d \in Books : Its(c)[d] = 0 => quantity'[d] = quantity[d] /\ reserved'[d] = reserved[d]
  BY <1>4
<1>7. Alone(c)
  BY EndsAlone DEF T!Exists
<1>8. ReservedAreListed'
  BY DEF Inv, ReservedAreListed, T!Items
<1>9. /\ \A w \in Workers : batches'[w] \subseteq batches[w] /\ onTime'[w] \subseteq batches'[w]
      /\ onTime' \in [Workers -> SUBSET Orders]
  BY TaskStays
<1> QED
  BY <1>5, <1>6, <1>7, <1>8, <1>9, CommitKeeps DEF T!Exists

LEMMA ReceiptKeeps ==
    ASSUME Inv, NEW c \in Procs, Running(c), tx[c].pc = "commit", CommitReceipt(c), Allowed(c),
           Ends(c)
    PROVE  Inv'
<1>1. PICK b \in Books, n \in 1..MaxItem : T!Receive(b, n) /\ Its(c)[b] = n
  BY ReceiptIs
<1>2. quantity[b] \in Nat /\ n \in Nat /\ n > 0
  BY LocksAssumption DEF Inv, TypeInv, T!TypeOK
<1>3. PICK q \in Nat : q = quantity[b] + n
  BY <1>2
<1>4. quantity' = [quantity EXCEPT ![b] = q] /\ movements' = T!Posted("receipt", T!Only(b, n))
  BY <1>1, <1>3 DEF T!Receive
<1>5. UNCHANGED <<listing, reserved, reservations, created, stockReturns, returned, task>>
  BY DEF CommitReceipt
<1>6. "receipt" \in T!MovementTypes /\ Its(c)[b] > 0 /\ n \in Int
  BY <1>1, <1>2 DEF T!MovementTypes
<1> QED
  BY <1>4, <1>5, <1>6, StockKeeps

LEMMA WriteOffKeeps ==
    ASSUME Inv, NEW c \in Procs, Running(c), tx[c].pc = "commit", CommitWriteOff(c), Allowed(c),
           Ends(c)
    PROVE  Inv'
<1>1. PICK b \in Books, n \in 1..MaxItem : T!WriteOff(b, n) /\ Its(c)[b] = n
  BY WriteOffIs
<1>2. quantity[b] \in Nat /\ reserved[b] \in Nat /\ n \in Nat /\ n > 0 /\ -n \in Int
  BY LocksAssumption DEF Inv, TypeInv, T!TypeOK
<1>3. quantity[b] - reserved[b] >= n
  BY <1>1 DEF T!WriteOff, T!CanFulfill, T!Available
<1>4. PICK q \in Nat : q = quantity[b] - n
  BY <1>2, <1>3
<1>5. quantity' = [quantity EXCEPT ![b] = q] /\ movements' = T!Posted("write_off", T!Only(b, -n))
  BY <1>1, <1>4 DEF T!WriteOff
<1>6. UNCHANGED <<listing, reserved, reservations, created, stockReturns, returned, task>>
  BY DEF CommitWriteOff
<1> QED
  BY <1>1, <1>2, <1>5, <1>6, StockKeeps DEF T!MovementTypes

LEMMA AdjustmentKeeps ==
    ASSUME Inv, NEW c \in Procs, Running(c), tx[c].pc = "commit", CommitAdjustment(c), Allowed(c),
           Ends(c)
    PROVE  Inv'
<1>1. PICK b \in Books, n \in 0..(MaxReceived + MaxAdjusted) :
         T!Adjust(b, n) /\ Its(c)[b] = n /\ n > 0
  BY AdjustmentIs
<1>2. quantity[b] \in Nat /\ n \in Nat
  BY LocksAssumption DEF Inv, TypeInv, T!TypeOK
<1>3. PICK m \in Int : m = n - quantity[b]
  BY <1>2
<1>4. quantity' = [quantity EXCEPT ![b] = n] /\ movements' = T!Posted("adjustment", T!Only(b, m))
  BY <1>1, <1>3 DEF T!Adjust
<1>5. UNCHANGED <<listing, reserved, reservations, created, stockReturns, returned, task>>
  BY DEF CommitAdjustment
<1> QED
  BY <1>1, <1>2, <1>4, <1>5, StockKeeps DEF T!MovementTypes

(***************************************************************************)
(* The invariant                                                           *)
(***************************************************************************)

LEMMA StepKeeps ==
    ASSUME Inv, NEW c \in Procs, Step(c)
    PROVE  Inv'
<1>1. Running(c)
  BY DEF Step, Running, Find, LockRow, HasBooks, Check, Insert, TakeBook, WaitForBook, Commit, Refuse
<1>2. CASE EndsUnchanged(c)
  BY <1>1, <1>2, EndsUnchangedKeeps
<1>3. CASE ~EndsUnchanged(c)
  <2>1. CASE Find(c)
    BY <1>1, <1>3, <2>1, FindKeeps
  <2>2. CASE LockRow(c)
    BY <1>1, <1>3, <2>2, LockRowKeeps
  <2>3. CASE HasBooks(c)
    BY <1>1, <2>3, HasBooksKeeps
  <2>4. CASE Check(c)
    BY <1>1, <1>3, <2>4, CheckKeeps
  <2>5. CASE Insert(c)
    BY <1>1, <1>3, <2>5, InsertKeeps
  <2>6. CASE \E b \in Books : TakeBook(c, b) \/ WaitForBook(c, b)
    BY <1>1, <2>6, TakeKeeps, WaitKeeps
  <2>7. CASE Commit(c)
    <3>1. tx[c].pc = "commit" /\ Allowed(c) /\ Ends(c)
      BY <2>7 DEF Commit
    <3>2. CASE CommitCreate(c)
      BY <1>1, <3>1, <3>2, CreateKeeps
    <3>3. CASE CommitRelease(c)
      BY <1>1, <3>1, <3>3, ReleaseKeeps
    <3>4. CASE CommitSale(c)
      BY <1>1, <3>1, <3>4, SaleKeeps
    <3>5. CASE CommitReturn(c)
      BY <1>1, <3>1, <3>5, ReturnKeeps
    <3>6. CASE CommitReceipt(c)
      BY <1>1, <3>1, <3>6, ReceiptKeeps
    <3>7. CASE CommitWriteOff(c)
      BY <1>1, <3>1, <3>7, WriteOffKeeps
    <3>8. CASE CommitAdjustment(c)
      BY <1>1, <3>1, <3>8, AdjustmentKeeps
    <3> QED
      BY <2>7, <3>2, <3>3, <3>4, <3>5, <3>6, <3>7, <3>8 DEF Commit
  <2>8. ~Refuse(c)
    BY <1>3 DEF Refuse
  <2> QED
    BY <2>1, <2>2, <2>3, <2>4, <2>5, <2>6, <2>7, <2>8 DEF Step
<1> QED
  BY <1>2, <1>3

LEMMA NextKeeps ==
    ASSUME Inv, Next
    PROVE  Inv'
<1>1. CASE \E c \in Clients, req \in Requests : Begin(c, req)
  BY <1>1, BeginKeeps
<1>2. CASE \E c \in Procs : Step(c)
  BY <1>2, StepKeeps
<1>3. CASE \E c \in Procs : DeadlockAbort(c)
  BY <1>3, DeadlockAbortKeeps
<1>4. CASE \E w \in Workers : StartExpiry(w)
  BY <1>4, StartExpiryKeeps
<1>5. CASE \E w \in Workers, o \in Orders : BeginExpiry(w, o)
  BY <1>5, BeginExpiryKeeps
<1>6. CASE \E b \in Books, active \in BOOLEAN : SyncBook(b, active)
  BY <1>6, SyncBookKeeps
<1>7. CASE \E o \in Orders : TtlElapses(o)
  BY <1>7, TtlElapsesKeeps
<1> QED
  BY <1>1, <1>2, <1>3, <1>4, <1>5, <1>6, <1>7 DEF Next

LEMMA StutterKeeps ==
    ASSUME Inv, UNCHANGED vars
    PROVE  Inv'
<1>1. UNCHANGED <<tx, locks>> /\ UNCHANGED <<tables, task>>
  BY DEF vars
<1>2. T!TypeOK' /\ onTime' \in [Workers -> SUBSET Orders]
  BY <1>1 DEF Inv, TypeInv, T!TypeOK, tables, task
<1>3. Frame(Free)
  BY <1>1 DEF Frame, tables, locks, T!Exists
<1>4. Alone(Free)
  BY <1>1, EndAlone, LocksAssumption DEF tables, T!Exists
<1>5. ReservedAreListed' /\ BatchesAreOverdue'
  BY <1>1 DEF Inv, ReservedAreListed, BatchesAreOverdue, tables, task, T!Items, T!Exists
<1> QED
  BY <1>1, <1>2, <1>3, <1>4, <1>5, OutsideKeeps

LEMMA InitInv == Init => Inv
<1> SUFFICES ASSUME Init PROVE Inv
  OBVIOUS
<1>1. T!TypeOK
  <2>1. T!NoReservation \in T!Reservation
    BY NoItemsType DEF T!NoReservation, T!Reservation, T!Statuses
  <2>2. T!NoItems \in [Books -> Nat]
    BY DEF T!NoItems
  <2> QED
    BY <2>1, <2>2 DEF Init, T!Init, T!TypeOK, T!Listings, T!MovementTypes
<1>2. TypeInv
  BY <1>1 DEF Init, TypeInv
<1>3. \A c \in Procs : ~Running(c)
  BY DEF Init, Running, NoTx
<1>4. TxInv /\ OwnersRun
  BY <1>3 DEF Init, TxInv, OwnersRun
<1>5. ReservedAreListed /\ BatchesAreOverdue
  BY DEF Init, T!Init, ReservedAreListed, BatchesAreOverdue, T!Items, T!NoReservation, T!NoItems
<1> QED
  BY <1>2, <1>4, <1>5 DEF Inv

THEOREM Invariance == Spec => []Inv
<1>1. Inv /\ [Next]_vars => Inv'
  BY NextKeeps, StutterKeeps
<1> QED
  BY InitInv, <1>1, PTL DEF Spec

\* Each process runs one well-formed transaction, a lock's owner runs, the counters
\* that are written back are not negative: the values have the types that
\* WarehouseLocks.tla states, whatever statements and aborts interleave.
THEOREM TypeCorrect == Spec => []TypeOK
<1>1. Inv => TypeOK
  <2> SUFFICES ASSUME Inv PROVE TypeOK
    OBVIOUS
  <2>1. T!TypeOK /\ TypeInv /\ OwnersRun
    BY DEF Inv, TypeInv
  <2>2. \A c \in Procs : Running(c) =>
          /\ Op(c) \in Ops /\ tx[c].rows \subseteq Books /\ tx[c].todo \subseteq Books
          /\ tx[c].pc \in {"find", "row", "lock", "check", "insert", "commit"}
    BY <2>1, TxFields
  <2> QED
    BY <2>1, <2>2 DEF TypeOK, OwnersRun
<1> QED
  BY <1>1, Invariance, PTL

\* What a transaction has read under its locks (select_for_update) is still so when
\* it writes it back, so that no update is lost and no check is stale.
THEOREM CopiesStayCurrent == Spec => []CopiesAreCurrent
<1>1. Inv => CopiesAreCurrent
  BY OfRunning DEF CopiesAreCurrent, Current
<1> QED
  BY <1>1, Invariance, PTL

(***************************************************************************)
(* Deadlocks                                                               *)
(***************************************************************************)

\* Books have a greatest among any of them, as they are finitely many numbers.
LEMMA GreatestBook ==
    ASSUME NEW N \in SUBSET Books, N # {}
    PROVE  \E m \in N : \A n \in N : n <= m
<1> DEFINE Above(n) == {b \in N : b > n}
           F == {Above(n) : n \in N}
<1>1. N \in SUBSET Nat /\ IsFiniteSet(N)
  BY FS_Subset, LocksAssumption
<1>2. IsWellFoundedOn(StrictSubsetOrdering(N), SUBSET N)
  BY <1>1, FS_StrictSubsetOrderingWellFounded, FS_FiniteSubsetsOfFinite
<1>3. F \in SUBSET (SUBSET N) /\ F # {}
  OBVIOUS
<1>4. PICK least \in F : \A U \in F : <<U, least>> \notin StrictSubsetOrdering(N)
  <2> HIDE DEF F
  <2> QED
    BY <1>2, <1>3, WFMin
<1>5. PICK m \in N : least = Above(m)
  BY <1>4
<1>6. ASSUME NEW n \in N, ~(n <= m) PROVE FALSE
  <2>1. n > m /\ n \in Nat /\ m \in Nat
    BY <1>1, <1>6
  <2>2. Above(n) \subseteq Above(m) /\ n \in Above(m) /\ n \notin Above(n)
    <3>1. \A b \in N : b > n => b > m
      BY <1>1, <2>1
    <3>2. ~(n > n) /\ n > m
      BY <2>1
    <3> QED
      BY <3>1, <3>2
  <2>3. <<Above(n), least>> \in StrictSubsetOrdering(N)
    BY <1>5, <2>2 DEF StrictSubsetOrdering
  <2> QED
    BY <1>4, <2>3
<1> QED
  BY <1>6

\* Of a member that waits and is no confirmation, cancellation or expiry: it waits
\* for a row, or for a book; if for a book, and its owner waits too, then the owner
\* waits for a later book.
LEMMA WaitsForLater ==
    ASSUME Inv, NEW S \in Circles, \A c \in S : ~Settles(Op(c)), NEW c \in S
    PROVE  /\ tx[c].pc \in {"row", "lock"}
           /\ \E d \in S : tx[d].pc = "lock" /\ tx[d].next \in Books
           /\ tx[c].pc = "lock" /\ tx[c].next \in Books =>
                 \E d \in S : /\ tx[d].pc = "lock" /\ tx[d].next \in Books
                              /\ tx[c].next < tx[d].next
<1>1. \A e \in S : e \in Procs /\ Running(e) /\ WaitsFor(e) \cap S # {} /\ ~Settles(Op(e))
  BY WaitersRun DEF Circles
<1>2. \A e \in S : /\ tx[e].pc \in {"row", "lock", "insert"}
                   /\ tx[e].pc = "lock" => tx[e].next # NoBook
  BY <1>1 DEF WaitsFor
<1>3. \A e \in S : tx[e].pc # "insert"
  <2> SUFFICES ASSUME NEW e \in S, tx[e].pc = "insert" PROVE FALSE
    OBVIOUS
  <2>1. PICK d \in S : d \in Inserting(e)
    BY <1>1 DEF WaitsFor
  <2>2. tx[d].pc = "commit"
    BY <2>1 DEF Inserting
  <2> QED
    BY <1>2, <2>2
<1>4. \A e \in S : tx[e].pc = "lock" => tx[e].next \in Books /\ tx[e].next \in tx[e].todo
  <2> SUFFICES ASSUME NEW e \in S, tx[e].pc = "lock"
               PROVE  tx[e].next \in Books /\ tx[e].next \in tx[e].todo
    OBVIOUS
  <2>1. TypeInv /\ Formed(e)
    BY <1>1, OfRunning
  <2>2. tx[e].next \in tx[e].todo
    BY <1>2, <2>1 DEF Formed
  <2> QED
    BY <1>1, <2>1, <2>2, TxFields
<1>5. \A e \in S : tx[e].pc = "row" => \E d \in S : tx[d].pc = "lock"
  <2> SUFFICES ASSUME NEW e \in S, tx[e].pc = "row" PROVE \E d \in S : tx[d].pc = "lock"
    OBVIOUS
  <2>1. PICK d \in S : d = rowLock[Ord(e)]
    BY <1>1 DEF WaitsFor
  <2>2. Ord(e) \in Orders /\ d \in Procs /\ Running(d) /\ Locked(d)
    BY <1>1, <2>1, OfRunning, TxFields
  <2>3. HoldsRow(d)
    BY <2>1, <2>2 DEF Locked
  <2>4. tx[d].pc # "row"
    BY <2>3 DEF HoldsRow
  <2> QED
    BY <1>2, <1>3, <2>4
<1>6. ASSUME tx[c].pc = "lock"
      PROVE  \E d \in S : /\ tx[d].pc = "lock" /\ tx[d].next \in Books
                          /\ tx[c].next < tx[d].next
  <2>1. tx[c].next \in Books
    BY <1>4, <1>6
  <2>2. PICK d \in S : d = bookLock[tx[c].next]
    BY <1>1, <1>2, <1>6 DEF WaitsFor
  <2>3. d \in Procs /\ Running(d) /\ Locked(d) /\ Formed(d) /\ TypeInv
    BY <1>1, OfRunning
  <2>4. /\ ~BeforeBooks(d)
        /\ Ordered(Op(d)) => \A e \in tx[d].todo : tx[c].next < e
        /\ Stocks(Op(d)) => tx[d].todo = {}
    BY <2>1, <2>2, <2>3 DEF Locked
  <2>5. tx[d].pc = "lock"
    BY <1>2, <1>3, <2>4 DEF BeforeBooks
  <2>6. tx[d].next \in Books /\ tx[d].next \in tx[d].todo
    BY <1>4, <2>5
  <2>7. Op(d) \in Ops /\ ~Settles(Op(d)) /\ ~Stocks(Op(d))
    BY <1>1, <2>3, <2>4, <2>6, TxFields
  <2>8. Ordered(Op(d))
    BY <2>7 DEF Ordered, Ops, Settles, Stocks
  <2> QED
    BY <2>4, <2>5, <2>6, <2>8
<1> QED
  BY <1>2, <1>3, <1>4, <1>5, <1>6

\* create_reservation and create_stock_return lock their books in order, the others
\* but the confirmations, cancellations and expiries one only: so every circle of
\* transactions that wait for each other has one of the latter in it.
THEOREM DeadlocksNeedUnorderedLocks == Spec => []OrderedLocksDoNotDeadlock
<1>1. Inv => OrderedLocksDoNotDeadlock
  <2> SUFFICES ASSUME Inv, NEW S \in Circles, \A c \in S : ~Settles(Op(c))
               PROVE  FALSE
    BY DEF OrderedLocksDoNotDeadlock, Settles
  <2> DEFINE N == {b \in Books : \E c \in S : tx[c].pc = "lock" /\ tx[c].next = b}
  <2>1. PICK e \in S : TRUE
    BY DEF Circles
  <2>2. N # {}
    BY <2>1, WaitsForLater
  <2>3. PICK m \in N : \A n \in N : n <= m
    <3> HIDE DEF N
    <3>1. N \in SUBSET Books
      BY DEF N
    <3> QED
      BY <2>2, <3>1, GreatestBook
  <2>4. PICK c \in S : tx[c].pc = "lock" /\ tx[c].next = m /\ m \in Books
    OBVIOUS
  <2>5. PICK d \in S : tx[d].pc = "lock" /\ tx[d].next \in Books /\ m < tx[d].next
    BY <2>4, WaitsForLater
  <2>6. tx[d].next <= m
    BY <2>3, <2>5
  <2>7. m \in Nat /\ tx[d].next \in Nat
    BY <2>4, <2>5, LocksAssumption
  <2> QED
    BY <2>5, <2>6, <2>7
<1> QED
  BY <1>1, Invariance, PTL

(***************************************************************************)
(* The tables, seen from outside                                           *)
(***************************************************************************)

\* The reservations that WarehouseLocks shows to module Warehouse.
Seen == [o \in Orders |-> [reservations[o] EXCEPT !.due =
            @ /\ ~Selling(o) /\ reservations[o].status # "CONFIRMED"]]

\* c is about to sell the reservation of o.
SellsOrder(c, o) == tx[c].pc \in {"lock", "commit"} /\ Sells(c) /\ Ord(c) = o

LEMMA SellingIs ==
    ASSUME NEW o
    PROVE  Selling(o) <=> \E c \in Procs : SellsOrder(c, o)
BY DEF Selling, SellsOrder, Sells

LEMMA SellerHoldsRow ==
    ASSUME Inv, NEW c \in Procs, NEW o, SellsOrder(c, o)
    PROVE  Running(c) /\ rowLock[o] = c /\ reservations[o].status = "PENDING" /\ Op(c) = "confirm"
<1>1. Running(c) /\ Op(c) = "confirm" /\ HoldsRow(c)
  BY DEF SellsOrder, Sells, Running, HoldsRow, Settles
<1>2. Locked(c) /\ Current(c)
  BY <1>1, OfRunning
<1> QED
  BY <1>1, <1>2 DEF Locked, Current, Settles, SellsOrder

\* What is sold changes only by what c does.
LEMMA SellingStays ==
    ASSUME NEW c, \A d \in Procs \ {c} : tx'[d] = tx[d], NEW o,
           SellsOrder(c, o)' <=> SellsOrder(c, o)
    PROVE  Selling(o)' <=> Selling(o)
<1>1. \A d \in Procs \ {c} : SellsOrder(d, o)' <=> SellsOrder(d, o)
  BY DEF SellsOrder, Sells, Op, Ord
<1>2. Selling(o)' <=> \E d \in Procs : SellsOrder(d, o)'
  BY DEF Selling, SellsOrder, Sells
<1> QED
  BY <1>1, <1>2, SellingIs

LEMMA SeenIs ==
    ASSUME T!TypeOK
    PROVE  \A o \in Orders :
              /\ Seen[o].status = reservations[o].status /\ Seen[o].items = reservations[o].items
              /\ Seen[o].key = reservations[o].key /\ Seen[o].serial = reservations[o].serial
              /\ Seen[o].due <=> /\ reservations[o].due /\ ~Selling(o)
                                 /\ reservations[o].status # "CONFIRMED"
              /\ Seen[o] = [status |-> Seen[o].status, items |-> Seen[o].items, key |-> Seen[o].key,
                            due |-> Seen[o].due, serial |-> Seen[o].serial]
BY DEF Seen, T!TypeOK, T!Reservation

\* The same rows are seen when what counts of them is the same.
LEMMA SeenRow ==
    ASSUME T!TypeOK, T!TypeOK', NEW o \in Orders, reservations'[o] = reservations[o],
           \/ Selling(o)' <=> Selling(o)
           \/ ~reservations[o].due
    PROVE  Seen'[o] = Seen[o]
<1>1. PICK old \in T!Reservation : old = reservations[o]
  BY DEF T!TypeOK
<1>2. PICK sold \in BOOLEAN, sold1 \in BOOLEAN : (sold <=> Selling(o)) /\ (sold1 <=> Selling(o)')
  OBVIOUS
<1>3. Seen[o] = [old EXCEPT !.due = old.due /\ ~sold /\ old.status # "CONFIRMED"]
  BY <1>1, <1>2 DEF Seen
<1>4. Seen'[o] = [old EXCEPT !.due = old.due /\ ~sold1 /\ old.status # "CONFIRMED"]
  BY <1>1, <1>2 DEF Seen
<1>5. (old.due /\ ~sold /\ old.status # "CONFIRMED") = (old.due /\ ~sold1 /\ old.status # "CONFIRMED")
  BY <1>1, <1>2
<1> QED
  BY <1>3, <1>4, <1>5

LEMMA SeenStays ==
    ASSUME T!TypeOK, T!TypeOK', \A o \in Orders : Seen'[o] = Seen[o]
    PROVE  Seen' = Seen
BY DEF Seen

\* Nothing to be seen happens.
Unseen == UNCHANGED <<listing, quantity, reserved, movements, Seen, created, stockReturns,
                      returned, onTime, deaths>>

LEMMA UnseenStutters ==
    ASSUME Unseen
    PROVE  UNCHANGED A!vars
BY DEF Unseen, Seen, A!vars, A!stock, A!returns, A!task

LEMMA SilentUnseen ==
    ASSUME Inv, Inv', NEW c \in Procs, UNCHANGED <<tables, task>>,
           \A d \in Procs \ {c} : tx'[d] = tx[d],
           \A o \in Orders : (SellsOrder(c, o)' <=> SellsOrder(c, o)) \/ ~reservations[o].due
    PROVE  Unseen
<1>1. T!TypeOK /\ T!TypeOK'
  BY DEF Inv, TypeInv
<1>2. \A o \in Orders : (Selling(o)' <=> Selling(o)) \/ ~reservations[o].due
  BY SellingStays
<1>3. reservations' = reservations
  BY DEF tables
<1>4. \A o \in Orders : Seen'[o] = Seen[o]
  BY <1>1, <1>2, <1>3, SeenRow
<1>5. Seen' = Seen
  BY <1>1, <1>4, SeenStays
<1> QED
  BY <1>5 DEF Unseen, tables, task

LEMMA TypeNow == Inv => T!TypeOK
BY DEF Inv, TypeInv

\* Only a settled reservation's transaction sells.
LEMMA NoSeller ==
    ASSUME NEW c, tx[c].pc \notin {"lock", "commit"} \/ Op(c) # "confirm" \/ tx[c].to # "CONFIRMED"
    PROVE  \A o : ~SellsOrder(c, o)
BY DEF SellsOrder, Sells

LEMMA NoSellerNext ==
    ASSUME NEW c, tx'[c].pc \notin {"lock", "commit"} \/ tx'[c].req.op # "confirm" \/ tx'[c].to # "CONFIRMED"
    PROVE  \A o : ~SellsOrder(c, o)'
BY DEF SellsOrder, Sells, Op

LEMMA BeginUnseen ==
    ASSUME Inv, Inv', NEW c \in Clients, NEW req \in Requests, Begin(c, req)
    PROVE  Unseen
<1> DEFINE first == FirstStatement(req.op)
           todo == IF first = "lock" THEN Named(req.items) ELSE {}
           zeros == [b \in Books |-> [quantity |-> 0, reserved |-> 0]]
<1>1. c \in Procs /\ TypeInv /\ ~Running(c)
  BY DEF Procs, Inv, Begin
<1>2. req \in Asking /\ req.op \in Ops
  BY RequestType DEF Asking
<1>3. first \in {"find", "row", "lock"} /\ todo \in SUBSET Books
  BY <1>2 DEF FirstStatement, Ops, Named
<1>4. tx' = [tx EXCEPT ![c] = Started(req, first, todo)] /\ UNCHANGED <<tables, task, locks>>
  BY DEF Begin
<1>5. Becomes(c, req, first, todo, NoBook, {}, zeros, "NONE")
  <2> HIDE DEF first, todo
  <2> QED
    BY <1>1, <1>2, <1>3, <1>4, StartedBecomes
<1> HIDE DEF first, todo, zeros
<1>6. tx'[c].to # "CONFIRMED" /\ tx[c].pc \notin {"lock", "commit"}
      /\ \A d \in Procs \ {c} : tx'[d] = tx[d]
  BY <1>1, <1>5 DEF Becomes, Running
<1>7. \A o \in Orders : SellsOrder(c, o)' <=> SellsOrder(c, o)
  BY <1>6, NoSeller, NoSellerNext
<1> QED
  BY <1>1, <1>4, <1>6, <1>7, SilentUnseen

LEMMA BeginExpiryUnseen ==
    ASSUME Inv, Inv', NEW w \in Workers, NEW o \in Orders, BeginExpiry(w, o)
    PROVE  Unseen
<1> DEFINE req == Request("expire", o, T!NoItems, NoKey, "none")
           zeros == [b \in Books |-> [quantity |-> 0, reserved |-> 0]]
<1>1. w \in Procs /\ TypeInv /\ ~Running(w)
  BY DEF Procs, Inv, BeginExpiry
<1>2. req \in Asking
  BY NoItemsType DEF Asking, Request, Ops
<1>3. tx' = [tx EXCEPT ![w] = Started(req, "row", {})] /\ UNCHANGED <<tables, task, locks>>
  BY DEF BeginExpiry
<1> HIDE DEF req
<1>4. Becomes(w, req, "row", {}, NoBook, {}, zeros, "NONE")
  BY <1>1, <1>2, <1>3, StartedBecomes
<1> HIDE DEF zeros
<1>5. tx'[w].to # "CONFIRMED" /\ tx[w].pc \notin {"lock", "commit"}
      /\ \A d \in Procs \ {w} : tx'[d] = tx[d]
  BY <1>1, <1>4 DEF Becomes, Running
<1>6. \A r \in Orders : SellsOrder(w, r)' <=> SellsOrder(w, r)
  BY <1>5, NoSeller, NoSellerNext
<1> QED
  BY <1>1, <1>3, <1>5, <1>6, SilentUnseen

\* A statement that leaves c's request as it is, and neither decides nor ends it.
LEMMA GoesUnseen ==
    ASSUME Inv, Inv', NEW c \in Procs, Running(c),
           NEW pc, NEW todo, NEW next, NEW rows, NEW read,
           Becomes(c, tx[c].req, pc, todo, next, rows, read, tx[c].to), UNCHANGED <<tables, task>>,
           Op(c) = "confirm" => (tx[c].pc \in {"lock", "commit"} <=> pc \in {"lock", "commit"})
    PROVE  Unseen
<1>1. /\ tx'[c].req = tx[c].req /\ tx'[c].pc = pc /\ tx'[c].to = tx[c].to
      /\ \A d \in Procs \ {c} : tx'[d] = tx[d]
  BY DEF Becomes
<1>2. Op(c)' = Op(c) /\ Ord(c)' = Ord(c)
  BY <1>1 DEF Op, Ord
<1>3. \A o \in Orders : SellsOrder(c, o)' <=> SellsOrder(c, o)
  BY <1>1, <1>2 DEF SellsOrder, Sells
<1> QED
  BY <1>1, <1>3, SilentUnseen

LEMMA GoingUnseen ==
    ASSUME Inv, Inv', NEW c \in Procs, Running(c), ~EndsUnchanged(c),
           \/ Find(c) \/ HasBooks(c) \/ Check(c) \/ Insert(c)
           \/ \E b \in Books : TakeBook(c, b) \/ WaitForBook(c, b)
    PROVE  Unseen
<1>1. TypeInv /\ Formed(c)
  BY OfRunning
<1>2. CASE Find(c)
  <2>1. UNCHANGED <<tables, task>> /\ Op(c) # "confirm"
    BY <1>2 DEF Find
  <2>2. CASE /\ Op(c) = "create"
             /\ tx' = [tx EXCEPT ![c].pc = "lock",
                         ![c].todo = {b \in Named(Its(c)) : listing[b] = "active"}]
    <3>1. PICK todo \in SUBSET Books : todo = {b \in Named(Its(c)) : listing[b] = "active"}
      BY DEF Named
    <3>2. Becomes(c, tx[c].req, "lock", todo, tx[c].next, tx[c].rows, tx[c].read, tx[c].to)
      BY <1>1, <2>2, <3>1, ListsBecomes
    <3> QED
      BY <2>1, <3>2, GoesUnseen
  <2>3. CASE Goes(c, "row")
    <3>1. Becomes(c, tx[c].req, "row", tx[c].todo, tx[c].next, tx[c].rows, tx[c].read, tx[c].to)
      BY <1>1, <2>3, GoesBecomes
    <3> QED
      BY <2>1, <3>1, GoesUnseen
  <2> QED
    BY <1>2, <2>2, <2>3 DEF Find
<1>3. CASE HasBooks(c)
  <2>1. PICK pc \in {"check", "insert", "commit"} :
         pc = IF Op(c) = "create" THEN "check" ELSE IF Op(c) = "return" THEN "insert" ELSE "commit"
    OBVIOUS
  <2>2. UNCHANGED <<tables, task>> /\ Goes(c, pc) /\ tx[c].pc = "lock"
    BY <1>3, <2>1 DEF HasBooks
  <2>3. Becomes(c, tx[c].req, pc, tx[c].todo, tx[c].next, tx[c].rows, tx[c].read, tx[c].to)
    BY <1>1, <2>2, GoesBecomes
  <2>4. Op(c) = "confirm" => pc = "commit"
    BY <2>1
  <2> QED
    BY <2>2, <2>3, <2>4, GoesUnseen
<1>4. CASE Check(c)
  <2>1. UNCHANGED <<tables, task>> /\ Op(c) # "confirm"
    BY <1>4 DEF Check
  <2>2. CASE Goes(c, "insert")
    <3>1. Becomes(c, tx[c].req, "insert", tx[c].todo, tx[c].next, tx[c].rows, tx[c].read, tx[c].to)
      BY <1>1, <2>2, GoesBecomes
    <3> QED
      BY <2>1, <3>1, GoesUnseen
  <2>3. CASE tx' = [tx EXCEPT ![c].pc = "lock", ![c].todo = Named(Its(c))]
    <3>1. PICK todo \in SUBSET Books : todo = Named(Its(c))
      BY DEF Named
    <3>2. Becomes(c, tx[c].req, "lock", todo, tx[c].next, tx[c].rows, tx[c].read, tx[c].to)
      BY <1>1, <2>3, <3>1, ListsBecomes
    <3> QED
      BY <2>1, <3>2, GoesUnseen
  <2> QED
    BY <1>4, <2>2, <2>3 DEF Check
<1>5. CASE Insert(c)
  <2>1. UNCHANGED <<tables, task>> /\ Goes(c, "commit") /\ tx[c].pc = "insert"
    BY <1>5 DEF Insert
  <2>2. Op(c) # "confirm"
    BY <1>1, <2>1 DEF Formed, Settles
  <2>3. Becomes(c, tx[c].req, "commit", tx[c].todo, tx[c].next, tx[c].rows, tx[c].read, tx[c].to)
    BY <1>1, <2>1, GoesBecomes
  <2> QED
    BY <2>1, <2>2, <2>3, GoesUnseen
<1>6. CASE \E b \in Books : TakeBook(c, b)
  <2>1. PICK b \in Books : TakeBook(c, b)
    BY <1>6
  <2>2. PICK rows, read, todo : Becomes(c, tx[c].req, "lock", todo, NoBook, rows, read, tx[c].to)
    BY <1>1, <2>1, TakesBecomes
  <2>3. UNCHANGED <<tables, task>> /\ tx[c].pc = "lock"
    BY <2>1 DEF TakeBook
  <2> QED
    BY <2>2, <2>3, GoesUnseen
<1>7. CASE \E b \in Books : WaitForBook(c, b)
  <2>1. PICK b \in Books : WaitForBook(c, b)
    BY <1>7
  <2>2. Becomes(c, tx[c].req, tx[c].pc, tx[c].todo, b, tx[c].rows, tx[c].read, tx[c].to)
    BY <1>1, <2>1, WaitsBecomes DEF WaitForBook
  <2>3. UNCHANGED <<tables, task>>
    BY <2>1 DEF WaitForBook
  <2> QED
    BY <2>2, <2>3, GoesUnseen
<1> QED
  BY <1>2, <1>3, <1>4, <1>5, <1>6, <1>7

\* A confirmation that decides to sell has read that the time has not run out.
LEMMA LockRowUnseen ==
    ASSUME Inv, Inv', NEW c \in Procs, Running(c), LockRow(c), ~EndsUnchanged(c)
    PROVE  Unseen
<1>1. /\ TypeInv /\ Formed(c) /\ tx[c].pc = "row" /\ Op(c) \in Ops /\ Ord(c) \in Orders
      /\ tx[c].req \in Asking /\ UNCHANGED <<tables, task>>
  BY OfRunning, TxFields DEF LockRow
<1>2. CASE Op(c) = "return" /\ Goes(c, "check")
  <2>1. Becomes(c, tx[c].req, "check", tx[c].todo, tx[c].next, tx[c].rows, tx[c].read, tx[c].to)
    BY <1>1, <1>2, GoesBecomes
  <2> QED
    BY <1>1, <1>2, <2>1, GoesUnseen
<1>3. CASE /\ Op(c) # "return"
           /\ tx' = [tx EXCEPT ![c].pc = "lock", ![c].to = Decided(c),
                      ![c].req.items = T!Items(Ord(c)),
                      ![c].todo = Named(T!Items(Ord(c)))]
  <2>1. PICK items \in T!ItemMaps : items = T!Items(Ord(c))
    BY <1>1 DEF TypeInv, T!TypeOK, T!Reservation, T!Items
  <2>2. Op(c) \in {"confirm", "cancel", "expire"}
    BY <1>1, <1>3 DEF Formed, Stocks, Ops
  <2>3. PICK to \in {"CONFIRMED", "CANCELLED", "EXPIRED"} : to = Decided(c)
    BY <2>2 DEF Decided
  <2>4. Named(items) \in SUBSET Books
    BY DEF Named
  <2>5. Becomes(c, [tx[c].req EXCEPT !.items = items], "lock", Named(items), tx[c].next,
                tx[c].rows, tx[c].read, to)
    BY <1>1, <1>3, <2>1, <2>3, <2>4, DecidesBecomes
  <2>6. /\ tx'[c].req.op = Op(c) /\ tx'[c].req.order = Ord(c) /\ tx'[c].to = to
        /\ \A d \in Procs \ {c} : tx'[d] = tx[d]
    BY <1>1, <2>5 DEF Becomes, Asking, Op, Ord
  <2>7. \A o \in Orders : ~SellsOrder(c, o)
    BY <1>1, NoSeller
  <2>8. \A o \in Orders : SellsOrder(c, o)' => o = Ord(c) /\ Op(c) = "confirm" /\ to = "CONFIRMED"
    BY <2>6 DEF SellsOrder, Sells, Op, Ord
  <2>9. Op(c) = "confirm" /\ to = "CONFIRMED" => ~reservations[Ord(c)].due
    BY <2>3 DEF Decided
  <2> QED
    BY <1>1, <2>6, <2>7, <2>8, <2>9, SilentUnseen
<1> QED
  BY <1>2, <1>3 DEF LockRow

(***************************************************************************)
(* Ends that write nothing                                                 *)
(***************************************************************************)

\* All that module Warehouse sees but the reservations.
Rest == <<listing, quantity, reserved, movements, created, stockReturns, returned>>

LEMMA TtlSeen ==
    ASSUME NEW o \in Orders, Seen[o].status = "PENDING", ~Seen[o].due,
           Seen' = [Seen EXCEPT ![o].due = TRUE], UNCHANGED <<Rest, onTime, deaths>>
    PROVE  A!TtlElapses(o)
BY DEF A!TtlElapses, Seen, Rest, A!stock, A!returns, A!task

\* The row of o is seen with a new time, the others as before.
LEMMA SeenElapses ==
    ASSUME T!TypeOK, T!TypeOK', NEW o \in Orders, reservations[o].status = "PENDING",
           \A r \in Orders \ {o} : Seen'[r] = Seen[r],
           reservations' = [reservations EXCEPT ![o].due = TRUE], ~(Selling(o)')
    PROVE  Seen' = [Seen EXCEPT ![o].due = TRUE]
<1>1. PICK old \in T!Reservation : old = reservations[o]
  BY DEF T!TypeOK
<1>2. PICK seen \in BOOLEAN : seen = (old.due /\ ~Selling(o) /\ old.status # "CONFIRMED")
  BY <1>1
<1>3. Seen[o] = [old EXCEPT !.due = seen]
  BY <1>1, <1>2 DEF Seen
<1>4. PICK new \in T!Reservation : new = reservations'[o] /\ new = [old EXCEPT !.due = TRUE]
  BY <1>1 DEF T!TypeOK
<1>5. new.due = TRUE /\ new.status = "PENDING"
  BY <1>1, <1>4 DEF T!Reservation
<1>6. Seen'[o] = [new EXCEPT !.due = TRUE]
  BY <1>4, <1>5 DEF Seen
<1>7. Seen'[o] = [Seen[o] EXCEPT !.due = TRUE]
  BY <1>3, <1>4, <1>6 DEF T!Reservation
<1>8. Seen' = [r \in Orders |-> Seen'[r]] /\ Seen = [r \in Orders |-> Seen[r]]
  BY DEF Seen
<1>9. \A r \in Orders : Seen'[r] = [Seen EXCEPT ![o].due = TRUE][r]
  BY <1>7, <1>8
<1>10. PICK target : target = [Seen EXCEPT ![o].due = TRUE]
  OBVIOUS
<1>11. target = [r \in Orders |-> target[r]]
  BY <1>8, <1>10
<1> HIDE DEF Seen
<1> QED
  BY <1>8, <1>9, <1>10, <1>11

\* A confirmation that gives up lets the time run out that it had read before; for
\* all others nothing happens.
LEMMA AbortSeen ==
    ASSUME Inv, Inv', NEW c \in Procs, Ends(c), UNCHANGED tables, UNCHANGED <<onTime, deaths>>
    PROVE  Unseen \/ \E o \in Orders : A!TtlElapses(o)
<1>1. tx'[c] = NoTx /\ \A d \in Procs \ {c} : tx'[d] = tx[d]
  BY EndsType DEF Inv
<1>2. \A o : ~SellsOrder(c, o)'
  BY <1>1 DEF SellsOrder, NoTx
<1>3. T!TypeOK /\ T!TypeOK' /\ reservations' = reservations
  BY DEF Inv, TypeInv, tables
<1>4. CASE \E o \in Orders : SellsOrder(c, o) /\ reservations[o].due
  <2>1. PICK o \in Orders : SellsOrder(c, o) /\ reservations[o].due
    BY <1>4
  <2>2. reservations[o].status = "PENDING" /\ rowLock[o] = c
    BY <2>1, SellerHoldsRow
  <2>3. Selling(o)
    BY <2>1, SellingIs
  <2>4. ~(Selling(o)')
    <3>1. \A d \in Procs : d # c => ~SellsOrder(d, o)
      BY <2>2, SellerHoldsRow
    <3>2. \A d \in Procs : ~SellsOrder(d, o)'
      BY <1>1, <1>2, <3>1 DEF SellsOrder, Sells, Op, Ord
    <3> QED
      BY <3>2 DEF Selling, SellsOrder, Sells
  <2>5. \A r \in Orders \ {o} : Seen'[r] = Seen[r]
    <3>1. \A r \in Orders \ {o} : ~SellsOrder(c, r)
      BY <2>1 DEF SellsOrder
    <3>2. \A r \in Orders \ {o} : Selling(r)' <=> Selling(r)
      BY <1>1, <1>2, <3>1, SellingStays
    <3> QED
      BY <1>3, <3>2, SeenRow
  <2>6. reservations' = [reservations EXCEPT ![o].due = TRUE]
    <3>1. PICK old \in T!Reservation : old = reservations[o]
      BY <1>3 DEF T!TypeOK
    <3>2. old = [old EXCEPT !.due = TRUE]
      BY <2>1, <3>1 DEF T!Reservation
    <3>3. reservations = [reservations EXCEPT ![o] = old]
      BY <1>3, <3>1 DEF T!TypeOK
    <3> QED
      BY <1>3, <3>1, <3>2, <3>3
  <2>7. Seen' = [Seen EXCEPT ![o].due = TRUE]
    BY <1>3, <2>2, <2>4, <2>5, <2>6, SeenElapses
  <2>8. Seen[o].status = "PENDING" /\ ~Seen[o].due
    BY <1>3, <2>2, <2>3, SeenIs
  <2>9. UNCHANGED <<Rest, onTime, deaths>>
    BY DEF tables, Rest
  <2> QED
    BY <2>7, <2>8, <2>9, TtlSeen
<1>5. CASE \A o \in Orders : SellsOrder(c, o) => ~reservations[o].due
  <2>2. \A o \in Orders : (SellsOrder(c, o)' <=> SellsOrder(c, o)) \/ ~reservations[o].due
    BY <1>2, <1>5
  <2>3. \A o \in Orders : (Selling(o)' <=> Selling(o)) \/ ~reservations[o].due
    BY <1>1, <2>2, SellingStays
  <2>4. \A o \in Orders : Seen'[o] = Seen[o]
    BY <1>3, <2>3, SeenRow
  <2>5. Seen' = Seen
    BY <1>3, <2>4, SeenStays
  <2> QED
    BY <2>5 DEF Unseen, tables
<1> QED
  BY <1>4, <1>5

\* What the one-step task skips, it drops from its batch.
LEMMA SkipSeen ==
    ASSUME NEW w \in Workers, NEW o \in Orders, o \in onTime[w],
           \/ Seen[o].status # "PENDING"
           \/ \E b \in Books : ~(Seen[o].items[b] <= reserved[b]),
           onTime' = [onTime EXCEPT ![w] = @ \ {o}], UNCHANGED <<Rest, Seen, deaths>>
    PROVE  A!ExpireNext(w, o)
<1>1. A!CancelOutcome(o) # "released"
  BY DEF A!CancelOutcome, A!Releasable, A!Items, Seen
<1> QED
  BY <1>1 DEF A!ExpireNext, Rest, Seen, A!stock, A!returns, A!task

LEMMA EndsUnchangedSeen ==
    ASSUME Inv, Inv', NEW c \in Procs, Running(c), EndsUnchanged(c),
           Op(c) = "expire" => \/ reservations[Ord(c)].status # "PENDING"
                               \/ ~T!Releasable(Ord(c))
    PROVE  Unseen \/ A!Next
<1>1. TypeInv /\ Formed(c) /\ T!TypeOK /\ T!TypeOK'
  BY OfRunning DEF Inv, TypeInv
<1>2. Ends(c) /\ UNCHANGED tables /\ Ord(c) \in Orders
  BY <1>1, TxFields DEF EndsUnchanged
<1>3. CASE Op(c) # "expire"
  <2>1. UNCHANGED <<onTime, deaths>>
    BY <1>3 DEF EndsUnchanged, task
  <2>2. Unseen \/ \E o \in Orders : A!TtlElapses(o)
    BY <1>2, <2>1, AbortSeen
  <2> QED
    BY <2>2 DEF A!Next
<1>4. CASE Op(c) = "expire"
  <2>1. PICK o \in Orders : o = Ord(c)
    BY <1>2
  <2>2. c \in Workers /\ Visited(c, o)
    BY <1>1, <1>4, <2>1 DEF Formed, EndsUnchanged
  <2>3. tx'[c] = NoTx /\ \A d \in Procs \ {c} : tx'[d] = tx[d]
    BY <1>1, <1>2, EndsType
  <2>4. \A r : ~SellsOrder(c, r) /\ ~SellsOrder(c, r)'
    BY <1>4, <2>3 DEF SellsOrder, Sells, NoTx
  <2>5. \A r \in Orders : Selling(r)' <=> Selling(r)
    BY <2>3, <2>4, SellingStays
  <2>6. \A r \in Orders : Seen'[r] = Seen[r]
    BY <1>1, <1>2, <2>5, SeenRow DEF tables
  <2>7. Seen' = Seen
    BY <1>1, <2>6, SeenStays
  <2>8. onTime' = [onTime EXCEPT ![c] = @ \ {o}] /\ deaths' = deaths
    BY <2>2 DEF Visited
  <2>9. UNCHANGED Rest
    BY <1>2 DEF tables, Rest
  <2>10. CASE o \in onTime[c]
    <3>1. Seen[o].status = reservations[o].status /\ Seen[o].items = reservations[o].items
      BY <1>1, SeenIs
    <3>2. \/ Seen[o].status # "PENDING"
          \/ \E b \in Books : ~(Seen[o].items[b] <= reserved[b])
      BY <1>4, <2>1, <3>1 DEF T!Releasable, T!Items
    <3>3. A!ExpireNext(c, o)
      BY <2>2, <2>7, <2>8, <2>9, <2>10, <3>2, SkipSeen
    <3> QED
      BY <2>2, <3>3 DEF A!Next
  <2>11. CASE o \notin onTime[c]
    <3>1. onTime[c] \ {o} = onTime[c]
      BY <2>11
    <3>2. onTime' = onTime
      BY <1>1, <2>8, <3>1 DEF TypeInv
    <3> QED
      BY <2>7, <2>8, <2>9, <3>2 DEF Unseen, Rest
  <2> QED
    BY <2>10, <2>11
<1> QED
  BY <1>3, <1>4

LEMMA DeadlockAbortSeen ==
    ASSUME Inv, Inv', NEW c \in Procs, DeadlockAbort(c)
    PROVE  Unseen \/ A!Next
<1>1. TypeInv /\ T!TypeOK /\ T!TypeOK' /\ Running(c) /\ Formed(c) /\ Ends(c) /\ UNCHANGED tables
  BY WaitersRun, OfRunning DEF Inv, TypeInv, DeadlockAbort
<1>2. CASE c \notin Workers
  <2>1. UNCHANGED <<onTime, deaths>>
    BY <1>2 DEF DeadlockAbort, task
  <2>2. Unseen \/ \E o \in Orders : A!TtlElapses(o)
    BY <1>1, <2>1, AbortSeen
  <2> QED
    BY <2>2 DEF A!Next
<1>3. CASE c \in Workers
  <2>1. Op(c) = "expire"
    BY <1>1, <1>3 DEF Formed
  <2>2. tx'[c] = NoTx /\ \A d \in Procs \ {c} : tx'[d] = tx[d]
    BY <1>1, EndsType
  <2>3. \A r : ~SellsOrder(c, r) /\ ~SellsOrder(c, r)'
    BY <2>1, <2>2 DEF SellsOrder, Sells, NoTx
  <2>4. \A r \in Orders : Selling(r)' <=> Selling(r)
    BY <2>2, <2>3, SellingStays
  <2>5. \A r \in Orders : Seen'[r] = Seen[r]
    BY <1>1, <2>4, SeenRow DEF tables
  <2>6. Seen' = Seen
    BY <1>1, <2>5, SeenStays
  <2>7. /\ onTime' = [onTime EXCEPT ![c] = {}] /\ deaths < MaxDeaths
        /\ deaths' = IF onTime[c] = {} THEN deaths ELSE deaths + 1
    BY <1>3 DEF DeadlockAbort
  <2>8. UNCHANGED Rest
    BY <1>1 DEF tables, Rest
  <2>9. CASE onTime[c] = {}
    <3>1. onTime' = onTime
      BY <1>1, <2>7, <2>9 DEF TypeInv
    <3> QED
      BY <2>6, <2>7, <2>8, <2>9, <3>1 DEF Unseen, Rest
  <2>10. CASE onTime[c] # {}
    <3>1. A!ExpiryDies(c)
      BY <2>6, <2>7, <2>8, <2>10 DEF A!ExpiryDies, Rest, Seen, A!stock, A!returns
    <3> QED
      BY <1>3, <3>1 DEF A!Next
  <2> QED
    BY <2>9, <2>10
<1> QED
  BY <1>2, <1>3

(***************************************************************************)
(* Steps of no transaction, seen from outside                              *)
(***************************************************************************)

LEMMA SeenWithSameTx ==
    ASSUME Inv, Inv', tx' = tx
    PROVE  /\ \A o \in Orders : Selling(o)' <=> Selling(o)
           /\ \A o \in Orders : reservations'[o] = reservations[o] => Seen'[o] = Seen[o]
           /\ reservations' = reservations => Seen' = Seen
<1>1. \A o \in Orders : Selling(o)' <=> Selling(o)
  BY DEF Selling, Op, Ord
<1>2. T!TypeOK /\ T!TypeOK'
  BY DEF Inv, TypeInv
<1>3. \A o \in Orders : reservations'[o] = reservations[o] => Seen'[o] = Seen[o]
  BY <1>1, <1>2, SeenRow
<1> QED
  BY <1>1, <1>2, <1>3, SeenStays

LEMMA SyncBookSeen ==
    ASSUME Inv, Inv', NEW b \in Books, NEW active \in BOOLEAN, SyncBook(b, active)
    PROVE  A!Next
<1>1. Seen' = Seen
  BY SeenWithSameTx DEF SyncBook
<1>2. A!SyncBook(b, active)
  BY <1>1 DEF SyncBook, Seen, A!SyncBook, A!stock, A!returns, A!task, task
<1> QED
  BY <1>2 DEF A!Next

LEMMA StartExpirySeen ==
    ASSUME Inv, Inv', NEW w \in Workers, StartExpiry(w)
    PROVE  Unseen \/ A!Next
<1>1. Seen' = Seen
  BY SeenWithSameTx DEF StartExpiry, tables
<1>2. onTime[w] = {} /\ onTime \in [Workers -> SUBSET Orders] /\ T!TypeOK
  BY DEF StartExpiry, Inv, TypeInv, BatchesAreOverdue
<1>3. PICK some : some = {o \in T!Overdue : ~Selling(o)}
  OBVIOUS
<1>4. onTime' = [onTime EXCEPT ![w] = some] /\ UNCHANGED <<Rest, deaths>>
  BY <1>3 DEF StartExpiry, tables, Rest
<1>5. \A o \in Orders : o \in some <=> Seen[o].status = "PENDING" /\ Seen[o].due
  BY <1>2, <1>3, SeenIs DEF T!Overdue
<1>6. some \subseteq Orders
  BY <1>3 DEF T!Overdue
<1>7. some = {o \in Orders : Seen[o].status = "PENDING" /\ Seen[o].due}
  BY <1>5, <1>6
<1>8. A!Overdue = some
  BY <1>7 DEF A!Overdue, Seen
<1>9. CASE some = {}
  <2>1. onTime' = onTime
    BY <1>2, <1>4, <1>9
  <2> QED
    BY <1>1, <1>4, <2>1 DEF Unseen, Rest
<1>10. CASE some # {}
  <2>1. A!StartExpiry(w)
    BY <1>1, <1>2, <1>4, <1>8, <1>10 DEF A!StartExpiry, Rest, Seen, A!stock, A!returns
  <2> QED
    BY <2>1 DEF A!Next
<1> QED
  BY <1>9, <1>10

LEMMA TtlElapsesUnseen ==
    ASSUME Inv, Inv', NEW o \in Orders, TtlElapses(o)
    PROVE  Unseen \/ A!Next
<1>1. T!TypeOK /\ T!TypeOK' /\ tx' = tx
  BY DEF Inv, TypeInv, TtlElapses
<1>2. \A r \in Orders : Selling(r)' <=> Selling(r)
  BY <1>1, SeenWithSameTx
<1>3. /\ reservations' = [reservations EXCEPT ![o].due = TRUE]
      /\ reservations[o].status = "PENDING" /\ ~reservations[o].due
      /\ UNCHANGED <<Rest, onTime, deaths>>
  BY DEF TtlElapses, Rest, task
<1>4. \A r \in Orders \ {o} : reservations'[r] = reservations[r]
  BY <1>1, <1>3 DEF T!TypeOK
<1>5. \A r \in Orders \ {o} : Seen'[r] = Seen[r]
  BY <1>1, <1>4, SeenWithSameTx
<1>6. CASE Selling(o)
  <2>1. PICK old \in T!Reservation : old = reservations[o]
    BY <1>1 DEF T!TypeOK
  <2>2. PICK new \in T!Reservation : new = reservations'[o] /\ new = [old EXCEPT !.due = TRUE]
    BY <1>1, <1>3, <2>1 DEF T!TypeOK
  <2>3. Seen[o] = [old EXCEPT !.due = FALSE]
    BY <1>6, <2>1 DEF Seen
  <2>4. Seen'[o] = [new EXCEPT !.due = FALSE]
    BY <1>2, <1>6, <2>2 DEF Seen
  <2>5. Seen'[o] = Seen[o]
    BY <2>2, <2>3, <2>4 DEF T!Reservation
  <2>6. Seen' = Seen
    BY <1>1, <1>5, <2>5, SeenStays
  <2> QED
    BY <1>3, <2>6 DEF Unseen, Rest
<1>7. CASE ~Selling(o)
  <2>1. Seen' = [Seen EXCEPT ![o].due = TRUE]
    BY <1>1, <1>2, <1>3, <1>5, <1>7, SeenElapses
  <2>2. Seen[o].status = "PENDING" /\ ~Seen[o].due
    BY <1>1, <1>3, SeenIs
  <2>3. A!TtlElapses(o)
    BY <1>3, <2>1, <2>2, TtlSeen
  <2> QED
    BY <2>3 DEF A!Next
<1> QED
  BY <1>6, <1>7

(***************************************************************************)
(* Commits, seen from outside                                              *)
(***************************************************************************)

\* A transaction that ends and does not sell leaves alone what others sell.
LEMMA EndsSelling ==
    ASSUME Inv, Inv', NEW c \in Procs, Ends(c)
    PROVE  /\ \A o : SellsOrder(c, o) \/ (Selling(o)' <=> Selling(o))
           /\ \A o \in Orders : ~SellsOrder(c, o) /\ reservations'[o] = reservations[o]
                                   => Seen'[o] = Seen[o]
           /\ (\A o : ~SellsOrder(c, o)) /\ reservations' = reservations => Seen' = Seen
<1>1. tx'[c] = NoTx /\ \A d \in Procs \ {c} : tx'[d] = tx[d]
  BY EndsType DEF Inv
<1>2. \A o : ~SellsOrder(c, o)'
  BY <1>1 DEF SellsOrder, NoTx
<1>3. \A o : SellsOrder(c, o) \/ (Selling(o)' <=> Selling(o))
  BY <1>1, <1>2, SellingStays
<1>4. T!TypeOK /\ T!TypeOK'
  BY DEF Inv, TypeInv
<1>5. \A o \in Orders : ~SellsOrder(c, o) /\ reservations'[o] = reservations[o] => Seen'[o] = Seen[o]
  BY <1>3, <1>4, SeenRow
<1>6. (\A o : ~SellsOrder(c, o)) /\ reservations' = reservations => Seen' = Seen
  BY <1>4, <1>5, SeenStays
<1> QED
  BY <1>3, <1>5, <1>6

\* The row of o is seen with a new status, the others as before.
LEMMA SeenSettles ==
    ASSUME T!TypeOK, T!TypeOK', NEW o \in Orders, NEW status,
           \A r \in Orders \ {o} : Seen'[r] = Seen[r],
           reservations' = [reservations EXCEPT ![o].status = status],
           Seen'[o].due <=> Seen[o].due
    PROVE  Seen' = [Seen EXCEPT ![o].status = status]
<1>1. PICK old \in T!Reservation : old = reservations[o]
  BY DEF T!TypeOK
<1>2. PICK due \in BOOLEAN : due = (old.due /\ ~Selling(o) /\ old.status # "CONFIRMED")
  BY <1>1
<1>3. Seen[o] = [old EXCEPT !.due = due]
  BY <1>1, <1>2 DEF Seen
<1>4. PICK new \in T!Reservation : new = reservations'[o] /\ new = [old EXCEPT !.status = status]
  BY <1>1 DEF T!TypeOK
<1>5. PICK due1 \in BOOLEAN : due1 = (new.due /\ ~(Selling(o)') /\ new.status # "CONFIRMED")
  BY <1>4
<1>6. Seen'[o] = [new EXCEPT !.due = due1]
  BY <1>4, <1>5 DEF Seen
<1>7. due1 = due
  <2>1. Seen[o].due = due
    BY <1>1, <1>3 DEF T!Reservation
  <2>2. Seen'[o].due = due1
    BY <1>4, <1>6 DEF T!Reservation
  <2> QED
    BY <1>2, <1>5, <2>1, <2>2
<1>8. Seen'[o] = [Seen[o] EXCEPT !.status = status]
  BY <1>3, <1>4, <1>6, <1>7 DEF T!Reservation
<1>9. Seen' = [r \in Orders |-> Seen'[r]] /\ Seen = [r \in Orders |-> Seen[r]]
  BY DEF Seen
<1>10. PICK target : target = [Seen EXCEPT ![o].status = status]
  OBVIOUS
<1>11. target = [r \in Orders |-> target[r]] /\ \A r \in Orders : Seen'[r] = target[r]
  BY <1>8, <1>9, <1>10
<1> HIDE DEF Seen
<1> QED
  BY <1>9, <1>10, <1>11

LEMMA CreateSeen ==
    ASSUME Inv, Inv', NEW c \in Procs, Running(c), tx[c].pc = "commit", CommitCreate(c), Ends(c)
    PROVE  A!Next
<1>1. PICK o \in Orders, p \in T!Payloads, k \in Keys \cup {NoKey} :
         o = Ord(c) /\ p = Its(c) /\ k = Key(c) /\ T!CreateReservation(o, p, k) /\ UNCHANGED task
  BY CreateIs
<1>2. T!TypeOK /\ T!TypeOK'
  BY DEF Inv, TypeInv
<1>3. T!Matches(o, k) = {} /\ T!Sufficient(p)
  BY <1>1 DEF T!CreateReservation, T!CreateOutcome
<1>4. \A r : ~SellsOrder(c, r)
  BY DEF CommitCreate, SellsOrder, Sells
<1>5. PICK row : row = [status |-> "PENDING", items |-> p, key |-> k, due |-> FALSE, serial |-> created]
  OBVIOUS
<1>6. reservations' = [reservations EXCEPT ![o] = row]
  BY <1>1, <1>5 DEF T!CreateReservation
<1>7. \A r \in Orders \ {o} : Seen'[r] = Seen[r]
  <2>1. \A r \in Orders \ {o} : reservations'[r] = reservations[r]
    BY <1>2, <1>6 DEF T!TypeOK
  <2> QED
    BY <1>4, <2>1, EndsSelling
<1>8. Seen'[o] = row
  <2>1. reservations'[o] = row
    BY <1>2, <1>6 DEF T!TypeOK
  <2>2. PICK due \in BOOLEAN : due = (row.due /\ ~(Selling(o)') /\ row.status # "CONFIRMED")
    BY <1>5
  <2>3. row.due = FALSE
    BY <1>5
  <2>4. due = FALSE
    BY <2>2, <2>3
  <2>5. Seen'[o] = [row EXCEPT !.due = due]
    BY <2>1, <2>2 DEF Seen
  <2>6. row \in T!Reservation
    BY <1>2, <2>1 DEF T!TypeOK
  <2>7. row = [row EXCEPT !.due = FALSE]
    BY <2>3, <2>6 DEF T!Reservation
  <2> QED
    BY <2>4, <2>5, <2>7
<1>9. Seen' = [Seen EXCEPT ![o] = row]
  <2>1. Seen' = [r \in Orders |-> Seen'[r]] /\ Seen = [r \in Orders |-> Seen[r]]
    BY DEF Seen
  <2> HIDE DEF Seen
  <2> QED
    BY <1>7, <1>8, <2>1
<1>10. A!Matches(o, k) = {}
  <2>1. \A r \in Orders : Seen[r].status = reservations[r].status /\ Seen[r].key = reservations[r].key
    BY <1>2, SeenIs
  <2>2. {r \in Orders : /\ Seen[r].status # "NONE"
                        /\ r = o \/ (k # NoKey /\ Seen[r].key = k)} = {}
    BY <1>3, <2>1 DEF T!Matches, T!Exists
  <2> QED
    BY <2>2 DEF A!Matches, A!Exists, Seen
<1>11. A!CreateOutcome(o, p, k) = "created"
  <2>1. A!Sufficient(p)
    BY <1>3 DEF A!Sufficient, T!Sufficient, A!CanFulfill, T!CanFulfill, A!Available, T!Available
  <2> QED
    BY <1>10, <2>1 DEF A!CreateOutcome
<1>12. /\ reserved' = [b \in Books |-> reserved[b] + p[b]]
       /\ movements' = A!Posted("reservation", [b \in Books |-> -p[b]])
       /\ created' = created + 1
       /\ UNCHANGED <<listing, quantity, stockReturns, returned, onTime, deaths>>
  BY <1>1 DEF T!CreateReservation, T!Posted, A!Posted, T!returns, T!task, task
<1>13. A!CreateReservation(o, p, k)
  BY <1>5, <1>9, <1>11, <1>12 DEF A!CreateReservation, Seen, A!returns, A!task
<1>14. p \in A!Payloads
  BY DEF T!Payloads, A!Payloads, T!ItemMaps, A!ItemMaps
<1> QED
  BY <1>13, <1>14 DEF A!Next

LEMMA ReturnSeen ==
    ASSUME Inv, Inv', NEW c \in Procs, Running(c), tx[c].pc = "commit", CommitReturn(c), Ends(c)
    PROVE  A!Next
<1>1. PICK o \in Orders, p \in T!Payloads, k \in Keys \cup {NoKey}, reason \in Reasons :
         T!CreateStockReturn(o, p, reason, k) /\ UNCHANGED task
  BY ReturnIs
<1>2. \A r : ~SellsOrder(c, r)
  BY DEF CommitReturn, SellsOrder, Sells
<1>3. Seen' = Seen
  BY <1>1, <1>2, EndsSelling DEF T!CreateStockReturn
<1>4. Seen[o].status = reservations[o].status /\ Seen[o].items = reservations[o].items
  BY SeenIs, TypeNow
<1>5. A!ReturnOutcome(o, p, reason, k) = T!ReturnOutcome(o, p, reason, k)
  <2>1. A!Returnable(o, p) <=> T!Returnable(o, p)
    BY <1>4 DEF A!Returnable, T!Returnable, A!Items, T!Items, Seen
  <2>2. PICK able \in BOOLEAN : able = A!Returnable(o, p) /\ able = T!Returnable(o, p)
    BY <2>1 DEF A!Returnable, T!Returnable
  <2>3. PICK status : status = reservations[o].status /\ status = Seen[o].status
    BY <1>4
  <2> QED
    BY <2>2, <2>3 DEF A!ReturnOutcome, T!ReturnOutcome, Seen
<1>6. A!CreateStockReturn(o, p, reason, k)
  BY <1>1, <1>3, <1>5
     DEF A!CreateStockReturn, T!CreateStockReturn, Seen, A!Posted, T!Posted, A!task, task
<1>7. p \in A!Payloads
  BY DEF T!Payloads, A!Payloads, T!ItemMaps, A!ItemMaps
<1> QED
  BY <1>6, <1>7 DEF A!Next

LEMMA StockSeen ==
    ASSUME Inv, Inv', NEW c \in Procs, Running(c), tx[c].pc = "commit", Allowed(c), Ends(c),
           CommitReceipt(c) \/ CommitWriteOff(c) \/ CommitAdjustment(c)
    PROVE  A!Next
<1>1. Seen' = Seen
  <2>1. \A r : ~SellsOrder(c, r)
    BY DEF CommitReceipt, CommitWriteOff, CommitAdjustment, SellsOrder, Sells
  <2> QED
    BY <2>1, EndsSelling DEF CommitReceipt, CommitWriteOff, CommitAdjustment
<1>2. CASE CommitReceipt(c)
  <2>1. PICK b \in Books, n \in 1..MaxItem : T!Receive(b, n) /\ UNCHANGED task
    BY <1>2, ReceiptIs
  <2>2. A!Receive(b, n)
    BY <1>1, <2>1 DEF A!Receive, T!Receive, A!Posted, T!Posted, A!Only, T!Only, A!NoItems, T!NoItems,
                      Seen, A!returns, T!returns, A!task, task
  <2> QED
    BY <2>2 DEF A!Next
<1>3. CASE CommitWriteOff(c)
  <2>1. PICK b \in Books, n \in 1..MaxItem : T!WriteOff(b, n) /\ UNCHANGED task
    BY <1>3, WriteOffIs
  <2>2. A!WriteOff(b, n)
    BY <1>1, <2>1 DEF A!WriteOff, T!WriteOff, A!Posted, T!Posted, A!Only, T!Only, A!NoItems, T!NoItems,
                      A!CanFulfill, T!CanFulfill, A!Available, T!Available,
                      Seen, A!returns, T!returns, A!task, task
  <2> QED
    BY <2>2 DEF A!Next
<1>4. CASE CommitAdjustment(c)
  <2>1. PICK b \in Books, n \in 0..(MaxReceived + MaxAdjusted) : T!Adjust(b, n) /\ UNCHANGED task
    BY <1>4, AdjustmentIs
  <2>2. A!Adjust(b, n)
    BY <1>1, <2>1 DEF A!Adjust, T!Adjust, A!Posted, T!Posted, A!Only, T!Only, A!NoItems, T!NoItems,
                      A!CanAdjust, T!CanAdjust, Seen, A!returns, T!returns, A!task, task
  <2> QED
    BY <2>2 DEF A!Next
<1> QED
  BY <1>2, <1>3, <1>4

\* Two processes do not settle one reservation at a time.
LEMMA NobodyElseSells ==
    ASSUME Inv, NEW c \in Procs, NEW o \in Orders, rowLock[o] = c
    PROVE  \A d \in Procs : SellsOrder(d, o) => d = c
BY SellerHoldsRow

\* The step as module Warehouse takes it, once what it sees is known.
LEMMA ReleaseActs ==
    ASSUME T!TypeOK, NEW o \in Orders, NEW status, T!Release(o, status), T!Releasable(o),
           Seen[o].status = "PENDING",
           Seen' = [Seen EXCEPT ![o].status = status],
           UNCHANGED <<listing, quantity, created, stockReturns, returned>>
    PROVE  /\ A!CancelOutcome(o) = "released"
           /\ Seen[o].due => A!ConfirmOutcome(o) = "expired"
           /\ A!Release(o, status)
           /\ UNCHANGED <<listing, created, A!returns>>
<1>1. Seen[o].items = reservations[o].items
  BY SeenIs
<1>2. A!Releasable(o)
  BY <1>1 DEF A!Releasable, T!Releasable, A!Items, T!Items, Seen
<1>3. A!CancelOutcome(o) = "released"
  BY <1>2 DEF A!CancelOutcome, Seen
<1>4. Seen[o].due => A!ConfirmOutcome(o) = "expired"
  BY <1>2 DEF A!ConfirmOutcome, Seen
<1>5. A!Items(o) = T!Items(o)
  BY <1>1 DEF A!Items, T!Items, Seen
<1>6. A!Release(o, status)
  BY <1>5 DEF A!Release, T!Release, A!Posted, T!Posted, Seen
<1> QED
  BY <1>3, <1>4, <1>6 DEF A!returns

LEMMA ReleaseSeen ==
    ASSUME Inv, Inv', NEW c \in Procs, Running(c), tx[c].pc = "commit", Allowed(c), Ends(c),
           CommitRelease(c)
    PROVE  A!Next
<1>1. PICK o \in Orders, to \in {"CANCELLED", "EXPIRED"} : o = Ord(c) /\ to = tx[c].to
  BY ReleaseIs, SettledIs
<1>2. /\ T!Release(o, to) /\ T!Releasable(o) /\ Settles(Op(c))
      /\ Op(c) = "confirm" => to = "EXPIRED" /\ reservations[o].due
      /\ UNCHANGED <<listing, quantity, created, stockReturns, returned>>
      /\ reservations[o].status = "PENDING" /\ rowLock[o] = c
  BY <1>1, ReleaseIs, SettledIs
<1>3. TypeInv /\ T!TypeOK /\ T!TypeOK' /\ Formed(c) /\ Current(c) /\ HoldsRow(c)
  BY <1>2, OfRunning DEF Inv, TypeInv, HoldsRow
<1>4. \A r : ~SellsOrder(c, r)
  BY DEF CommitRelease, SellsOrder
<1>5. ~Selling(o) /\ ~(Selling(o)')
  <2>1. ~Selling(o)
    BY <1>2, <1>4, NobodyElseSells, SellingIs
  <2> QED
    BY <1>4, <2>1, EndsSelling
<1>6. reservations' = [reservations EXCEPT ![o].status = to]
  BY <1>2 DEF T!Release
<1>7. \A r \in Orders \ {o} : Seen'[r] = Seen[r]
  <2>1. \A r \in Orders \ {o} : reservations'[r] = reservations[r]
    BY <1>3, <1>6 DEF T!TypeOK
  <2> QED
    BY <1>4, <2>1, EndsSelling
<1>8. Seen[o].status = "PENDING" /\ (Seen[o].due <=> reservations[o].due)
  BY <1>2, <1>3, <1>5, SeenIs
<1>9. Seen'[o].due <=> Seen[o].due
  <2>1. PICK new \in T!Reservation : new = reservations'[o]
    BY <1>3 DEF T!TypeOK
  <2>2. PICK old \in T!Reservation : old = reservations[o]
    BY <1>3 DEF T!TypeOK
  <2>3. new.due = old.due /\ new.status # "CONFIRMED"
    BY <1>3, <1>6, <2>1, <2>2 DEF T!TypeOK, T!Reservation
  <2>4. PICK due \in BOOLEAN : due = (new.due /\ ~(Selling(o)') /\ new.status # "CONFIRMED")
    BY <2>1
  <2>5. Seen'[o] = [new EXCEPT !.due = due]
    BY <2>1, <2>4 DEF Seen
  <2>6. Seen'[o].due = due
    BY <2>1, <2>5 DEF T!Reservation
  <2>7. due <=> new.due
    BY <1>5, <2>3, <2>4
  <2> QED
    BY <1>8, <2>2, <2>3, <2>6, <2>7
<1>10. Seen' = [Seen EXCEPT ![o].status = to]
  BY <1>3, <1>6, <1>7, <1>9, SeenSettles
<1>11. /\ A!CancelOutcome(o) = "released"
       /\ Seen[o].due => A!ConfirmOutcome(o) = "expired"
       /\ A!Release(o, to)
       /\ UNCHANGED <<listing, created, A!returns>>
  BY <1>2, <1>3, <1>8, <1>10, ReleaseActs
<1>12. CASE Op(c) = "cancel"
  <2>1. to = "CANCELLED" /\ UNCHANGED <<onTime, deaths>>
    BY <1>1, <1>2, <1>3, <1>12 DEF Formed, CommitRelease, task
  <2>2. A!CancelReservation(o)
    BY <1>11, <2>1 DEF A!CancelReservation, A!task
  <2> QED
    BY <2>2 DEF A!Next
<1>13. CASE Seen[o].due /\ to = "EXPIRED" /\ UNCHANGED <<onTime, deaths>>
  <2>1. A!ConfirmReservation(o)
    BY <1>11, <1>13 DEF A!ConfirmReservation, A!task
  <2> QED
    BY <2>1 DEF A!Next
<1>14. CASE Op(c) = "confirm"
  BY <1>2, <1>8, <1>13, <1>14 DEF CommitRelease, task
<1>15. CASE Op(c) = "expire"
  <2>1. to = "EXPIRED" /\ c \in Workers /\ reservations[o].due
    BY <1>1, <1>2, <1>3, <1>15 DEF Formed, Current
  <2>2. onTime' = [onTime EXCEPT ![c] = @ \ {o}] /\ deaths' = deaths
    BY <1>1, <1>15 DEF CommitRelease, Visited
  <2>3. CASE o \in onTime[c]
    <3>1. A!ExpireNext(c, o)
      BY <1>11, <2>1, <2>2, <2>3 DEF A!ExpireNext
    <3> QED
      BY <2>1, <3>1 DEF A!Next
  <2>4. CASE o \notin onTime[c]
    <3>1. onTime[c] \ {o} = onTime[c]
      BY <2>4
    <3>2. onTime' = onTime
      BY <1>3, <2>2, <3>1 DEF TypeInv
    <3> QED
      BY <1>8, <1>13, <2>1, <2>2, <3>2
  <2> QED
    BY <2>3, <2>4
<1> QED
  BY <1>2, <1>12, <1>14, <1>15 DEF Settles

LEMMA SaleSeen ==
    ASSUME Inv, Inv', NEW c \in Procs, Running(c), tx[c].pc = "commit", Allowed(c), Ends(c),
           CommitSale(c)
    PROVE  A!Next
<1>1. PICK o \in Orders : o = Ord(c)
  BY SaleIs, SettledIs
<1>2. /\ T!Sell(o) /\ T!Sellable(o)
      /\ UNCHANGED <<listing, created, stockReturns, returned, onTime, deaths>>
      /\ SellsOrder(c, o)
  BY <1>1, SaleIs DEF CommitSale, SellsOrder, task
<1>3. T!TypeOK /\ T!TypeOK' /\ reservations[o].status = "PENDING" /\ Selling(o)
  BY <1>2, SellerHoldsRow, SellingIs DEF Inv, TypeInv
<1>4. reservations' = [reservations EXCEPT ![o].status = "CONFIRMED"]
  BY <1>2 DEF T!Sell
<1>5. \A r \in Orders \ {o} : Seen'[r] = Seen[r]
  <2>1. \A r \in Orders \ {o} : reservations'[r] = reservations[r] /\ ~SellsOrder(c, r)
    BY <1>1, <1>3, <1>4 DEF T!TypeOK, SellsOrder
  <2> QED
    BY <2>1, EndsSelling
<1>6. Seen[o].status = "PENDING" /\ Seen[o].items = reservations[o].items /\ ~Seen[o].due
  BY <1>3, SeenIs
<1>7. ~Seen'[o].due
  <2>1. PICK new \in T!Reservation : new = reservations'[o]
    BY <1>3 DEF T!TypeOK
  <2>2. new.status = "CONFIRMED"
    BY <1>3, <1>4, <2>1 DEF T!TypeOK, T!Reservation
  <2>3. PICK due \in BOOLEAN : due = (new.due /\ ~(Selling(o)') /\ new.status # "CONFIRMED")
    BY <2>1
  <2>4. Seen'[o] = [new EXCEPT !.due = due]
    BY <2>1, <2>3 DEF Seen
  <2>5. Seen'[o].due = due
    BY <2>1, <2>4 DEF T!Reservation
  <2>6. ~due
    BY <2>2, <2>3
  <2> QED
    BY <2>5, <2>6
<1>8. Seen' = [Seen EXCEPT ![o].status = "CONFIRMED"]
  BY <1>3, <1>4, <1>5, <1>6, <1>7, SeenSettles
<1>9. A!Items(o) = T!Items(o)
  BY <1>6 DEF A!Items, T!Items, Seen
<1>10. A!Sellable(o)
  BY <1>2, <1>9 DEF A!Sellable, T!Sellable, A!Releasable, T!Releasable
<1>11. A!ConfirmOutcome(o) = "sold"
  BY <1>6, <1>10 DEF A!ConfirmOutcome, Seen
<1>12. A!Sell(o)
  BY <1>2, <1>8, <1>9 DEF A!Sell, T!Sell, A!Posted, T!Posted, Seen
<1>13. A!ConfirmReservation(o)
  BY <1>2, <1>11, <1>12 DEF A!ConfirmReservation, A!returns, A!task
<1> QED
  BY <1>13 DEF A!Next

LEMMA CommitSeen ==
    ASSUME Inv, Inv', NEW c \in Procs, Running(c), Commit(c)
    PROVE  A!Next
<1>1. tx[c].pc = "commit" /\ Allowed(c) /\ Ends(c)
  BY DEF Commit
<1>2. \/ CommitCreate(c) \/ CommitRelease(c) \/ CommitSale(c) \/ CommitReturn(c)
      \/ CommitReceipt(c) \/ CommitWriteOff(c) \/ CommitAdjustment(c)
  BY DEF Commit
<1>3. CommitCreate(c) => A!Next
  BY <1>1, CreateSeen
<1>4. CommitRelease(c) => A!Next
  BY <1>1, ReleaseSeen
<1>5. CommitSale(c) => A!Next
  BY <1>1, SaleSeen
<1>6. CommitReturn(c) => A!Next
  BY <1>1, ReturnSeen
<1>7. CommitReceipt(c) \/ CommitWriteOff(c) \/ CommitAdjustment(c) => A!Next
  BY <1>1, StockSeen
<1> QED
  BY <1>2, <1>3, <1>4, <1>5, <1>6, <1>7

\* When the task's transaction ends having written nothing, another has settled the
\* reservation or the counters do not cover it.
LEMMA TaskSkips ==
    ASSUME Inv, NEW c \in Procs, Running(c), Op(c) = "expire", EndsUnchanged(c),
           Find(c) \/ LockRow(c) \/ Check(c) \/ Insert(c) \/ Refuse(c)
    PROVE  reservations[Ord(c)].status # "PENDING" \/ ~T!Releasable(Ord(c))
<1>1. Formed(c) /\ TypeInv /\ Ord(c) \in Orders
  BY OfRunning, TxFields
<1>2. tx[c].pc \in {"row", "lock", "commit"}
  BY <1>1 DEF Formed, Settles
<1>3. tx'[c] = NoTx
  BY <1>1, EndsType DEF EndsUnchanged
<1>4. CASE Find(c) \/ Check(c) \/ Insert(c)
  BY <1>2, <1>4 DEF Find, Check, Insert
<1>5. CASE LockRow(c)
  <2>1. tx'[c].pc # "lock"
    BY <1>3 DEF NoTx
  <2>2. tx' # [tx EXCEPT ![c].pc = "lock", ![c].to = Decided(c),
                      ![c].req.items = T!Items(Ord(c)),
                      ![c].todo = Named(T!Items(Ord(c)))]
    <3>1. SUFFICES ASSUME tx' = [tx EXCEPT ![c].pc = "lock", ![c].to = Decided(c),
                      ![c].req.items = T!Items(Ord(c)),
                      ![c].todo = Named(T!Items(Ord(c)))]
                   PROVE FALSE
      OBVIOUS
    <3>2. PICK items \in T!ItemMaps : items = T!Items(Ord(c))
      BY <1>1 DEF TypeInv, T!TypeOK, T!Reservation, T!Items
    <3>3. Decided(c) = "EXPIRED"
      BY DEF Decided
    <3>4. Named(items) \in SUBSET Books
      BY DEF Named
    <3>5. Becomes(c, [tx[c].req EXCEPT !.items = items], "lock", Named(items), tx[c].next,
                  tx[c].rows, tx[c].read, "EXPIRED")
      BY <1>1, <3>1, <3>2, <3>3, <3>4, DecidesBecomes
    <3> QED
      BY <2>1, <3>5 DEF Becomes
  <2> QED
    BY <1>5, <2>2 DEF LockRow
<1>6. CASE Refuse(c)
  <2>1. tx[c].pc = "commit" /\ ~Allowed(c) /\ Settles(Op(c))
    BY <1>6 DEF Refuse, Settles
  <2>2. ~Covered(c, "reserved")
    BY <2>1 DEF Allowed, Sells
  <2> QED
    BY <2>1, <2>2, SettledIs
<1> QED
  BY <1>4, <1>5, <1>6

LEMMA StepSeen ==
    ASSUME Inv, Inv', NEW c \in Procs, Step(c)
    PROVE  Unseen \/ A!Next
<1>1. Running(c)
  BY DEF Step, Find, LockRow, HasBooks, Check, Insert, TakeBook, WaitForBook, Commit, Refuse, Running
<1>2. CASE Commit(c)
  BY <1>1, <1>2, CommitSeen
<1>3. CASE HasBooks(c) \/ \E b \in Books : TakeBook(c, b) \/ WaitForBook(c, b)
  <2>1. ~EndsUnchanged(c)
    <3>1. tx[c].pc = "lock" /\ UNCHANGED task /\ TypeInv
      BY <1>3 DEF HasBooks, TakeBook, WaitForBook, Inv
    <3>2. tx'[c].pc # "idle"
      <4>1. CASE HasBooks(c)
        <5>1. PICK pc \in {"check", "insert", "commit"} : Goes(c, pc)
          BY <4>1 DEF HasBooks
        <5>2. Becomes(c, tx[c].req, pc, tx[c].todo, tx[c].next, tx[c].rows, tx[c].read, tx[c].to)
          BY <1>1, <3>1, <5>1, GoesBecomes
        <5> QED
          BY <5>2 DEF Becomes
      <4>2. CASE \E b \in Books : TakeBook(c, b)
        <5>1. PICK rows, read, todo : Becomes(c, tx[c].req, "lock", todo, NoBook, rows, read, tx[c].to)
          BY <1>1, <3>1, <4>2, TakesBecomes
        <5> QED
          BY <5>1 DEF Becomes
      <4>3. CASE \E b \in Books : WaitForBook(c, b)
        <5>1. PICK b \in Books : Becomes(c, tx[c].req, tx[c].pc, tx[c].todo, b, tx[c].rows, tx[c].read, tx[c].to)
          BY <1>1, <3>1, <4>3, WaitsBecomes DEF WaitForBook
        <5> QED
          BY <3>1, <5>1 DEF Becomes
      <4> QED
        BY <1>3, <4>1, <4>2, <4>3
    <3>3. EndsUnchanged(c) => tx'[c] = NoTx
      BY <3>1, EndsType DEF EndsUnchanged
    <3> QED
      BY <3>2, <3>3 DEF NoTx
  <2> QED
    BY <1>1, <1>3, <2>1, GoingUnseen
<1>4. CASE Find(c) \/ LockRow(c) \/ Check(c) \/ Insert(c) \/ Refuse(c)
  <2>1. CASE EndsUnchanged(c)
    BY <1>1, <1>4, <2>1, TaskSkips, EndsUnchangedSeen
  <2>2. CASE ~EndsUnchanged(c)
    BY <1>1, <1>4, <2>2, GoingUnseen, LockRowUnseen DEF Refuse
  <2> QED
    BY <2>1, <2>2
<1> QED
  BY <1>2, <1>3, <1>4 DEF Step

LEMMA NextSeen ==
    ASSUME Inv, Inv', Next
    PROVE  Unseen \/ A!Next
<1>1. ASSUME NEW c \in Clients, NEW req \in Requests, Begin(c, req)
      PROVE Unseen
  BY <1>1, BeginUnseen
<1>2. ASSUME NEW c \in Procs, Step(c)
      PROVE Unseen \/ A!Next
  BY <1>2, StepSeen
<1>3. ASSUME NEW c \in Procs, DeadlockAbort(c)
      PROVE Unseen \/ A!Next
  BY <1>3, DeadlockAbortSeen
<1>4. ASSUME NEW w \in Workers, StartExpiry(w)
      PROVE Unseen \/ A!Next
  BY <1>4, StartExpirySeen
<1>5. ASSUME NEW w \in Workers, NEW o \in Orders, BeginExpiry(w, o)
      PROVE Unseen
  BY <1>5, BeginExpiryUnseen
<1>6. ASSUME NEW b \in Books, NEW active \in BOOLEAN, SyncBook(b, active)
      PROVE A!Next
  BY <1>6, SyncBookSeen
<1>7. ASSUME NEW o \in Orders, TtlElapses(o)
      PROVE Unseen \/ A!Next
  BY <1>7, TtlElapsesUnseen
<1> QED
  BY <1>1, <1>2, <1>3, <1>4, <1>5, <1>6, <1>7 DEF Next

LEMMA StutterUnseen ==
    ASSUME Inv, Inv', UNCHANGED vars
    PROVE  Unseen
<1>1. tx' = tx /\ UNCHANGED <<tables, task>>
  BY DEF vars
<1>2. Seen' = Seen
  BY <1>1, SeenWithSameTx DEF tables
<1> QED
  BY <1>1, <1>2 DEF Unseen, tables, task

LEMMA InitSeen ==
    ASSUME Inv, Init
    PROVE  A!Init
<1>1. \A o : ~Selling(o)
  BY DEF Init, NoTx, Selling
<1>2. \A o \in Orders : reservations[o] = T!NoReservation
  BY DEF Init, T!Init
<1>3. T!NoReservation = A!NoReservation
  BY DEF T!NoReservation, A!NoReservation, T!NoItems, A!NoItems
<1>4. \A o \in Orders : Seen[o] = T!NoReservation
  <2> SUFFICES ASSUME NEW o \in Orders PROVE Seen[o] = T!NoReservation
    OBVIOUS
  <2>1. PICK none \in T!Reservation : none = T!NoReservation /\ none = reservations[o]
    BY <1>2 DEF Inv, TypeInv, T!TypeOK
  <2>2. ~none.due
    BY <2>1 DEF T!NoReservation
  <2>3. PICK due \in BOOLEAN : due = (none.due /\ ~Selling(o) /\ none.status # "CONFIRMED")
    BY <2>1
  <2>4. Seen[o] = [none EXCEPT !.due = due]
    BY <2>1, <2>3 DEF Seen
  <2>5. none = [none EXCEPT !.due = due]
    BY <2>2, <2>3 DEF T!Reservation
  <2> QED
    BY <2>1, <2>4, <2>5
<1>5. Seen = [o \in Orders |-> A!NoReservation]
  <2>1. Seen = [o \in Orders |-> Seen[o]]
    BY DEF Seen
  <2> HIDE DEF Seen
  <2> QED
    BY <1>3, <1>4, <2>1
<1> QED
  BY <1>5 DEF Init, T!Init, A!Init, Seen, A!NoItems, T!NoItems, A!MovementTypes, T!MovementTypes

\* Statement by statement, with locks, lock waits, uniqueness races, aborts and the
\* clock, the transactions of Warehouse (transaction.atomic, select_for_update)
\* change its tables only as the one-step handlers of module Warehouse do: whatever
\* holds of those holds of the interleaved program.
THEOREM TransactionsAreAtomic == Spec => AtomicWarehouse
<1>1. Inv /\ Init => A!Init
  BY InitSeen
<1>2. Inv /\ Inv' /\ [Next]_vars => [A!Next]_(A!vars)
  BY NextSeen, StutterUnseen, UnseenStutters
<1> QED
  BY <1>1, <1>2, Invariance, PTL DEF Spec, AtomicWarehouse, A!Spec

================================================================================
