------------------------------- MODULE BookSync -------------------------------
(***************************************************************************)
(* How BookShop's catalogue reaches Warehouse's book register: the signal  *)
(* handler of each committed change, the Celery task and its retries, the  *)
(* HTTP call, Warehouse's sync endpoint, and the sync_warehouse_books      *)
(* command.                                                                *)
(*                                                                         *)
(* A message carries a copy of the book and no version, and Warehouse      *)
(* writes what it is sent, so the order in which messages arrive is all    *)
(* that decides what the register says.  excuses is a history variable: it *)
(* names, per book, what has happened that the code does not guard         *)
(* against.  Operators whose name starts with Fault are plausible          *)
(* mistakes, used by no action.                                            *)
(***************************************************************************)
EXTENDS Integers, Sequences, FiniteSets

CONSTANTS
    Books,        \* BookShop's public_id, Warehouse's external_id
    Isbns, NoIsbn,
    Workers,      \* bookshop-celery processes
    Command,      \* the process that runs sync_warehouse_books
    Nobody,       \* the client of a request that was given up
    MaxTries,     \* attempts of one HTTP call (1 + WAREHOUSE_HTTP_RETRIES)
    MaxRetries,   \* retries of the task (5)
    MaxLate,      \* bound: requests given up, and not served yet
    MaxChanges,   \* bound: changes of books, in the shop and by Warehouse's staff
    MaxRuns       \* bound: runs of the command

ASSUME BookSyncAssumption ==
    /\ NoIsbn \notin Isbns
    /\ Command \notin Workers /\ Nobody \notin Workers \cup {Command}
    /\ MaxTries \in Nat \ {0} /\ MaxRetries \in Nat /\ MaxLate \in Nat
    /\ MaxChanges \in Nat /\ MaxRuns \in Nat

VARIABLES
    enabled,      \* WAREHOUSE_INTEGRATION_ENABLED
    catalogue,    \* BookShop's Book rows
    pending,      \* committed changes whose on_commit has not enqueued yet
    queue,        \* Celery's queue in Redis
    delayed,      \* messages that wait for their retry
    workers,      \* the task each Celery process runs
    command,      \* the run of sync_warehouse_books
    requests,     \* HTTP requests at Warehouse
    register,     \* Warehouse's Book rows
    changes, runs,
    excuses       \* history: see above

shop == <<catalogue, pending, changes>>
broker == <<queue, delayed>>
vars == <<enabled, shop, broker, workers, command, requests, register, runs, excuses>>

-----------------------------------------------------------------------------
Editions == 0..MaxChanges
\* edition stands for everything but the ISBN: title and author.
Row == [listing : {"absent", "listed", "deleted"}, isbn : Isbns \cup {NoIsbn},
        edition : Editions]
Payload == [book : Books, isbn : Isbns \cup {NoIsbn}, edition : Editions,
            active : BOOLEAN]
Message == [payload : Payload, retries : 0..MaxRetries]
Registered == [listing : {"absent", "active", "inactive"},
               isbn : Isbns \cup {NoIsbn}, edition : Editions]
\* sent: not looked at; valid: the serializer let it pass; creating: sync_book
\* found no row.
Request == [payload : Payload, from : Workers \cup {Command, Nobody},
            phase : {"sent", "valid", "creating"}]

\* A client that waits for an answer: what it sent, and its attempts.
Idle == [busy |-> FALSE]
Calling(payload, retries) ==
    [busy |-> TRUE, payload |-> payload, retries |-> retries, tries |-> 1]

\* left: what the run has still to send, without the call that is out.
NoRun == [running |-> FALSE, left |-> {}, alone |-> {}, clean |-> FALSE,
          synchronised |-> FALSE]

Reasons == {"crossed", "busy", "dropped", "rejected", "staff"}

Init ==
    /\ enabled \in BOOLEAN
    /\ catalogue = [b \in Books |-> [listing |-> "absent", isbn |-> NoIsbn, edition |-> 0]]
    /\ pending = {} /\ queue = <<>> /\ delayed = {}
    /\ workers = [p \in Workers \cup {Command} |-> Idle]
    /\ command = NoRun
    /\ requests = {}
    /\ register = [b \in Books |-> [listing |-> "absent", isbn |-> NoIsbn, edition |-> 0]]
    /\ changes = 0 /\ runs = 0
    /\ excuses = [b \in Books |-> {}]

\* Every payload on its way, wherever it is.
OnTheWay ==
    pending \cup {queue[i].payload : i \in DOMAIN queue}
    \cup {m.payload : m \in delayed} \cup {q.payload : q \in requests}
    \cup {workers[p].payload : p \in {p \in DOMAIN workers : workers[p].busy}}
    \cup command.left
InFlight(b) == \E payload \in OnTheWay : payload.book = b

Excuse(b, reason) == excuses' = [excuses EXCEPT ![b] = @ \cup {reason}]

EnableIntegration ==
    /\ ~enabled /\ enabled' = TRUE
    /\ UNCHANGED <<shop, broker, workers, command, requests, register, runs, excuses>>

-----------------------------------------------------------------------------
(* BookShop: a committed change, then its on_commit callback                *)

\* The payload that handle_book_changes builds from the saved or deleted row.
FaultAlwaysActive(b, row) ==
    [book |-> b, isbn |-> row.isbn, edition |-> row.edition, active |-> TRUE]
Copy(b, row) ==
    [book |-> b, isbn |-> row.isbn, edition |-> row.edition,
     active |-> row.listing = "listed"]

\* BookShop's own ISBNs are unique, and a deleted row frees its ISBN.
Free(b, isbn) ==
    isbn = NoIsbn \/ \A other \in Books \ {b} :
        catalogue[other].listing = "listed" => catalogue[other].isbn # isbn

\* history: a change starts a book afresh unless a copy is still on its way.
Reexcused(b) == (IF InFlight(b) THEN {"crossed"} ELSE {})
                \cup (IF OnTheWay # {} THEN {"busy"} ELSE {})

Changes(b, row) ==
    /\ changes < MaxChanges
    /\ changes' = changes + 1
    /\ catalogue' = [catalogue EXCEPT ![b] = row]
    /\ pending' = pending \cup {Copy(b, row)}
    /\ excuses' = [excuses EXCEPT ![b] = Reexcused(b)]
    /\ command' = [command EXCEPT !.alone = @ \ {b}, !.clean = FALSE,
                                  !.synchronised = FALSE]
    /\ UNCHANGED <<enabled, broker, workers, requests, register, runs>>

\* The admin site, AddBookView or the books API.  A public_id is never reused.
SaveBook(b) ==
    /\ catalogue[b].listing # "deleted"
    /\ \E isbn \in {i \in Isbns \cup {NoIsbn} : Free(b, i)} :
          Changes(b, [listing |-> "listed", isbn |-> isbn,
                      edition |-> catalogue[b].edition + 1])
DeleteBook(b) ==
    /\ catalogue[b].listing = "listed"
    /\ Changes(b, [catalogue[b] EXCEPT !.listing = "deleted"])

Enqueue(payload) ==
    /\ payload \in pending
    /\ pending' = pending \ {payload}
    /\ queue' = Append(queue, [payload |-> payload, retries |-> 0])
    /\ UNCHANGED <<enabled, catalogue, changes, delayed, workers, command, requests,
                   register, runs, excuses>>

\* The web process dies before its callback, or Redis refuses the message.
LoseCallback(payload) ==
    /\ payload \in pending
    /\ pending' = pending \ {payload}
    /\ Excuse(payload.book, "dropped")
    /\ UNCHANGED <<enabled, catalogue, changes, broker, workers, command, requests,
                   register, runs>>

-----------------------------------------------------------------------------
(* The task, sync_book_with_warehouse                                       *)

\* A process starts a message: it calls Warehouse, or the integration is off.
Runs(w, message) ==
    IF enabled
      THEN /\ workers' = [workers EXCEPT ![w] = Calling(message.payload, message.retries)]
           /\ requests' = requests \cup
                {[payload |-> message.payload, from |-> w, phase |-> "sent"]}
           /\ UNCHANGED excuses
      ELSE Excuse(message.payload.book, "dropped") /\ UNCHANGED <<workers, requests>>

Take(w) ==
    /\ ~workers[w].busy /\ queue # <<>>
    /\ queue' = Tail(queue)
    /\ Runs(w, Head(queue))
    /\ UNCHANGED <<enabled, shop, delayed, command, register, runs>>

TakeRetry(w) ==
    /\ ~workers[w].busy
    /\ \E message \in delayed :
          delayed' = delayed \ {message} /\ Runs(w, message)
    /\ UNCHANGED <<enabled, shop, queue, command, register, runs>>

\* The request of client p that is out, if any.
Out(p) == {q \in requests : q.from = p}

\* The task raised: autoretry_for covers WarehouseUnavailable alone.
FaultRetriesForever(w) ==
    /\ delayed' = delayed \cup {[payload |-> workers[w].payload, retries |-> 0]}
    /\ UNCHANGED excuses
GivesUp(w) ==
    IF workers[w].retries < MaxRetries
      THEN /\ delayed' = delayed \cup {[payload |-> workers[w].payload,
                                        retries |-> workers[w].retries + 1]}
           /\ UNCHANGED excuses
      ELSE Excuse(workers[w].payload.book, "dropped") /\ UNCHANGED delayed

FaultOneTryTooMany(p, kept) ==
    /\ workers' = [workers EXCEPT ![p].tries = @ + 1]
    /\ requests' = kept \cup {[payload |-> workers[p].payload, from |-> p,
                               phase |-> "sent"]}
    /\ UNCHANGED <<delayed, excuses, command>>
\* An attempt ended without an answer below 500: the HTTP adapter sends it
\* again or the client raises WarehouseUnavailable.  kept are the requests
\* that may still be served.
Unanswered(p, kept) ==
    IF workers[p].tries < MaxTries
      THEN /\ workers' = [workers EXCEPT ![p].tries = @ + 1]
           /\ requests' = kept \cup {[payload |-> workers[p].payload, from |-> p,
                                      phase |-> "sent"]}
           /\ UNCHANGED <<delayed, excuses, command>>
      ELSE /\ workers' = [workers EXCEPT ![p] = Idle]
           /\ requests' = kept
           /\ IF p = Command
                THEN command' = NoRun /\ UNCHANGED <<delayed, excuses>>
                ELSE GivesUp(p) /\ UNCHANGED command

\* What is left of the requests when nobody waits for p's answer any more: p's
\* is lost, or it is served later.
Orphaned(p) ==
    {kept \in {(requests \ Out(p)) \cup {[q EXCEPT !.from = Nobody] : q \in late} :
                  late \in SUBSET Out(p)} :
       Cardinality({q \in kept : q.from = Nobody}) <= MaxLate}

\* No answer in time.
CallFails(p) ==
    /\ Out(p) # {}
    /\ \E kept \in Orphaned(p) : Unanswered(p, kept)
    /\ UNCHANGED <<enabled, shop, queue, register, runs>>

\* A Celery process dies: its message was acknowledged when it was taken.
WorkerDies(w) ==
    /\ workers[w].busy
    /\ workers' = [workers EXCEPT ![w] = Idle]
    /\ requests' \in Orphaned(w)
    /\ Excuse(workers[w].payload.book, "dropped")
    /\ UNCHANGED <<enabled, shop, broker, command, register, runs>>

-----------------------------------------------------------------------------
(* The command                                                              *)

IsListed(b) == catalogue[b].listing = "listed"

\* Book.objects.iterator() reads the catalogue; is_active is always True.
StartRun ==
    LET listed == {b \in Books : IsListed(b)} IN
    /\ ~command.running /\ runs < MaxRuns
    /\ runs' = runs + 1
    /\ command' = [running |-> TRUE,
                   left |-> {[Copy(b, catalogue[b]) EXCEPT !.active = TRUE] : b \in listed},
                   alone |-> {b \in listed : ~InFlight(b)},
                   clean |-> OnTheWay = {}, synchronised |-> FALSE]
    /\ excuses' = [b \in Books |-> IF b \in listed /\ InFlight(b)
                                     THEN excuses[b] \cup {"crossed"} ELSE excuses[b]]
    /\ UNCHANGED <<enabled, shop, broker, workers, requests, register>>

SendNext ==
    /\ command.running /\ ~workers[Command].busy
    /\ \E payload \in command.left :
          /\ command' = [command EXCEPT !.left = @ \ {payload}]
          /\ workers' = [workers EXCEPT ![Command] = Calling(payload, 0)]
          /\ requests' = requests \cup
               {[payload |-> payload, from |-> Command, phase |-> "sent"]}
    /\ UNCHANGED <<enabled, shop, broker, register, runs, excuses>>

\* synchronised: nothing else was going on since the run started.
FinishRun ==
    /\ command.running /\ ~workers[Command].busy /\ command.left = {}
    /\ command' = [NoRun EXCEPT !.synchronised = command.clean]
    /\ UNCHANGED <<enabled, shop, broker, workers, requests, register, runs, excuses>>

-----------------------------------------------------------------------------
(* Warehouse: BookSyncSerializer.validate, then sync_book                   *)

\* Another row, active or not, holds the ISBN.
FaultClashesWithItself(payload) ==
    payload.isbn # NoIsbn /\ \E b \in Books :
        register[b].listing # "absent" /\ register[b].isbn = payload.isbn
Clash(payload) ==
    payload.isbn # NoIsbn /\ \E b \in Books \ {payload.book} :
        register[b].listing # "absent" /\ register[b].isbn = payload.isbn

\* The answer reaches the client, if there still is one.
Accepted(q) ==
    /\ requests' = requests \ {q}
    /\ IF q.from = Nobody THEN UNCHANGED <<workers, excuses>>
       ELSE /\ workers' = [workers EXCEPT ![q.from] = Idle]
            /\ excuses' = IF q.from = Command /\ q.payload.book \in command.alone
                            THEN [excuses EXCEPT ![q.payload.book] = {}] ELSE excuses
    /\ UNCHANGED <<delayed, command>>

FaultRunGoesOn(q) ==
    /\ requests' = requests \ {q}
    /\ IF q.from = Nobody THEN UNCHANGED <<workers, excuses>>
       ELSE /\ workers' = [workers EXCEPT ![q.from] = Idle]
            /\ Excuse(q.payload.book, "rejected")
    /\ UNCHANGED <<delayed, command>>
\* 400: WarehouseRejected, which neither the task nor the command survives.
Rejected(q) ==
    /\ requests' = requests \ {q}
    /\ IF q.from = Nobody THEN UNCHANGED <<workers, excuses, command>>
       ELSE /\ workers' = [workers EXCEPT ![q.from] = Idle]
            /\ Excuse(q.payload.book, "rejected")
            /\ command' = IF q.from = Command THEN NoRun ELSE command
    /\ UNCHANGED delayed

\* 500: the database refused the row.
ServerError(q) ==
    IF q.from = Nobody
      THEN requests' = requests \ {q} /\ UNCHANGED <<workers, delayed, excuses, command>>
      ELSE Unanswered(q.from, requests \ {q})

Validate(q) ==
    /\ q.phase = "sent"
    /\ IF Clash(q.payload) THEN Rejected(q)
       ELSE /\ requests' = (requests \ {q}) \cup {[q EXCEPT !.phase = "valid"]}
            /\ UNCHANGED <<workers, delayed, excuses, command>>
    /\ UNCHANGED register

\* What the register says after payload is written.
FaultKeepsIsbn(payload) ==
    [register EXCEPT ![payload.book] =
       [listing |-> IF payload.active THEN "active" ELSE "inactive",
        isbn |-> IF @.listing = "absent" THEN payload.isbn ELSE @.isbn,
        edition |-> payload.edition]]
Written(payload) ==
    [register EXCEPT ![payload.book] =
       [listing |-> IF payload.active THEN "active" ELSE "inactive",
        isbn |-> payload.isbn, edition |-> payload.edition]]

\* sync_book locks the row and overwrites it.  ISBNs are unique in the table.
Update(q) ==
    /\ q.phase = "valid" /\ register[q.payload.book].listing # "absent"
    /\ IF Clash(q.payload) THEN ServerError(q) /\ UNCHANGED register
       ELSE register' = Written(q.payload) /\ Accepted(q)

\* There is no row to lock.
FindNone(q) ==
    /\ q.phase = "valid" /\ register[q.payload.book].listing = "absent"
    /\ requests' = (requests \ {q}) \cup {[q EXCEPT !.phase = "creating"]}
    /\ UNCHANGED <<workers, delayed, excuses, command, register>>

\* The insert fails when another request created the row in the meantime.
Create(q) ==
    /\ q.phase = "creating"
    /\ IF register[q.payload.book].listing # "absent" \/ Clash(q.payload)
         THEN ServerError(q) /\ UNCHANGED register
         ELSE register' = Written(q.payload) /\ Accepted(q)

Serve(q) == Validate(q) \/ Update(q) \/ FindNone(q) \/ Create(q)
ServeRequest(p) ==
    /\ \E q \in Out(p) : Serve(q)
    /\ UNCHANGED <<enabled, shop, queue, runs>>

-----------------------------------------------------------------------------
(* Warehouse's staff                                                        *)

StaffWrite(b, row) ==
    /\ changes < MaxChanges
    /\ changes' = changes + 1
    /\ register' = [register EXCEPT ![b] = row]
    /\ Excuse(b, "staff")
    /\ command' = [command EXCEPT !.alone = @ \ {b}, !.clean = FALSE,
                                  !.synchronised = FALSE]
    /\ UNCHANGED <<enabled, catalogue, pending, broker, workers, requests, runs>>

\* DELETE on Warehouse's own API: BookViewSet.perform_destroy.
StaffWithdraw(b) ==
    /\ register[b].listing # "absent"
    /\ StaffWrite(b, [register[b] EXCEPT !.listing = "inactive"])

\* POST, PUT and PATCH of BookViewSet, and the admin's form: a row for a book of
\* the shop that is written by hand, or written back as it was read earlier.
StaffSave(b) ==
    /\ catalogue[b].listing # "absent"
    /\ \E listing \in {"active", "inactive"}, isbn \in Isbns \cup {NoIsbn},
          edition \in {0, register[b].edition} :
          /\ ~Clash([book |-> b, isbn |-> isbn, edition |-> edition,
                     active |-> listing = "active"])
          /\ StaffWrite(b, [listing |-> listing, isbn |-> isbn, edition |-> edition])

-----------------------------------------------------------------------------
Clients == Workers \cup {Command}

Next ==
    \/ EnableIntegration
    \/ \E b \in Books : SaveBook(b) \/ DeleteBook(b) \/ StaffWithdraw(b) \/ StaffSave(b)
    \/ \E payload \in pending : Enqueue(payload) \/ LoseCallback(payload)
    \/ \E w \in Workers : Take(w) \/ TakeRetry(w) \/ WorkerDies(w)
    \/ \E p \in Clients : CallFails(p)
    \/ \E p \in Clients \cup {Nobody} : ServeRequest(p)
    \/ StartRun \/ SendNext \/ FinishRun

Spec == Init /\ [][Next]_vars

\* BookShop's callbacks run, Celery takes messages and fires retries, and a
\* request that is out is served or times out.
Fairness ==
    /\ WF_vars(\E payload \in pending : Enqueue(payload) \/ LoseCallback(payload))
    /\ \A w \in Workers : WF_vars(Take(w)) /\ WF_vars(TakeRetry(w))
    /\ \A p \in Clients : WF_vars(ServeRequest(p) \/ CallFails(p))
    /\ WF_vars(ServeRequest(Nobody))
    /\ WF_vars(SendNext)
FairSpec == Spec /\ Fairness

-----------------------------------------------------------------------------
TypeOK ==
    /\ catalogue \in [Books -> Row]
    /\ pending \subseteq Payload /\ delayed \subseteq Message /\ requests \subseteq Request
    /\ queue \in Seq(Message)
    /\ \A p \in Clients : workers[p].busy => workers[p].payload \in Payload
                             /\ workers[p].retries \in 0..MaxRetries
                             /\ workers[p].tries \in 1..MaxTries
                             /\ Cardinality(Out(p)) = 1
    /\ command.left \subseteq Payload
    /\ register \in [Books -> Registered]
    /\ excuses \in [Books -> SUBSET Reasons]

Agrees(b) ==
    CASE catalogue[b].listing = "absent" -> register[b].listing = "absent"
      [] catalogue[b].listing = "deleted" -> register[b].listing # "active"
      [] OTHER -> register[b] = [catalogue[b] EXCEPT !.listing = "active"]

\* When no copy of a book is on its way, Warehouse lists it exactly as BookShop
\* does, unless since its last undisturbed change two copies were on their way
\* together, one was dropped or rejected, or Warehouse's staff wrote its row.  So
\* retries, duplicates and raced creations alone never lose or revert a change.
RegisterIsCurrent ==
    \A b \in Books :
        excuses[b] \subseteq {"busy"} /\ ~InFlight(b) => Agrees(b)

\* After a run of the command that nothing disturbed, every book of the shop is
\* in the register as it is in the shop, whatever was lost before.
RunSynchronisesListed ==
    command.synchronised => \A b \in Books : IsListed(b) => Agrees(b)

\* The current copy of a listed book is rejected only on account of another book that
\* was deleted, and whose row keeps its ISBN for ever, or that is unsettled (its own
\* copy is late or lost, or staff gave it the ISBN).  The task does not retry a
\* rejection, so the first kind stays out of the register for good.
RejectedByStaleRow ==
    [][\A b \in Books : "rejected" \in excuses'[b] \ excuses[b] =>
          \E q \in requests \ requests' : q.payload.book = b /\
              \E other \in Books \ {b} :
                 /\ register[other].isbn = q.payload.isbn
                 /\ IsListed(b) /\ Copy(b, catalogue[b]) = q.payload =>
                       \/ ~IsListed(other) \/ InFlight(other)
                       \/ ~(excuses[other] \subseteq {"busy"})]_vars

\* Every copy that is on its way arrives or is given up.
SyncEnds == \A b \in Books : InFlight(b) ~> ~InFlight(b)
=============================================================================
