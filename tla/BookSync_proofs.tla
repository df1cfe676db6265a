--------------------------- MODULE BookSync_proofs ---------------------------
(***************************************************************************)
(* Proofs about BookSync, for any books, ISBNs, Celery processes and       *)
(* bounds.                                                                 *)
(***************************************************************************)
EXTENDS BookSync, FiniteSetTheorems, TLAPS

(***************************************************************************)
(* Invariants                                                              *)
(***************************************************************************)

\* A client that waits for an answer.
Busy == [busy : {TRUE}, payload : Payload, retries : 0..MaxRetries, tries : 1..MaxTries]

Run == [running : BOOLEAN, left : SUBSET Payload, alone : SUBSET Books, clean : BOOLEAN,
        synchronised : BOOLEAN]

TypeInv ==
    /\ enabled \in BOOLEAN
    /\ catalogue \in [Books -> Row] /\ changes \in 0..MaxChanges
    /\ \A b \in Books : catalogue[b].edition <= changes
    /\ pending \subseteq Payload /\ queue \in Seq(Message) /\ delayed \subseteq Message
    /\ workers \in [Clients -> {Idle} \cup Busy]
    /\ command \in Run /\ (command.running \/ command.left = {})
    /\ requests \subseteq Request
    /\ register \in [Books -> Registered] /\ excuses \in [Books -> SUBSET Reasons]

\* A client that waits has one request out, for what it sent; others have none.
OneOut ==
    \A p \in Clients :
       IF workers[p].busy
         THEN \E q \in requests : Out(p) = {q} /\ q.payload = workers[p].payload
         ELSE Out(p) = {}

\* BookShop's ISBNs are unique among the books it lists.
UniqueIsbns ==
    \A a, b \in Books :
       a # b /\ IsListed(a) /\ IsListed(b) /\ catalogue[a].isbn = catalogue[b].isbn =>
          catalogue[a].isbn = NoIsbn

\* Only a book that was saved is on its way.
Saved == \A payload \in OnTheWay : catalogue[payload.book].listing # "absent"

\* Every copy of b on its way is what the shop has.
Current(b) == \A payload \in OnTheWay : payload.book = b => payload = Copy(b, catalogue[b])

\* A change of b is on its way, with somebody who does not forget it: requests
\* and the command's run may end without anyone noticing.
Tasks ==
    pending \cup {queue[i].payload : i \in DOMAIN queue} \cup {m.payload : m \in delayed}
    \cup {workers[p].payload : p \in {p \in Workers : workers[p].busy}}
Carried(b) == \E payload \in Tasks : payload.book = b

\* While nothing excuses b, its copies are alike, and until Warehouse has got
\* one a task carries one.
Settles ==
    \A b \in Books :
       excuses[b] \subseteq {"busy"} => Current(b) /\ (Carried(b) \/ Agrees(b))

\* A book whose copy the run alone sends.
Alone == \A b \in command.alone : IsListed(b) /\ Current(b)

\* The run has still to send b, or waits for its answer.
Left(b) ==
    \/ \E payload \in command.left : payload.book = b
    \/ workers[Command].busy /\ workers[Command].payload.book = b

\* What a run that nothing disturbs has done and will have done.
RunIsClean ==
    /\ command.clean =>
          \A b \in Books : Current(b) /\ (IsListed(b) => Agrees(b) \/ Left(b))
    /\ command.synchronised => \A b \in Books : Current(b) /\ (IsListed(b) => Agrees(b))

Inv == TypeInv /\ OneOut /\ UniqueIsbns /\ Saved /\ Settles /\ Alone /\ RunIsClean

(***************************************************************************)
(* What a step does, as far as the register is concerned                   *)
(***************************************************************************)

\* Copies move on, are repeated, given up or rejected; none is written.
Flow ==
    /\ catalogue' = catalogue /\ register' = register /\ OnTheWay' \subseteq OnTheWay
    /\ \A b \in Books :
          /\ excuses[b] \subseteq excuses'[b]
          /\ Carried(b) /\ excuses'[b] \subseteq {"busy"} => Carried(b)'

\* What that does to the run: it goes on, ends early, or is done.
RunGoesOn ==
    /\ command'.alone \subseteq command.alone /\ command'.clean = command.clean
    /\ command'.synchronised = command.synchronised
    /\ \A b \in Books : Left(b) => Left(b)'
RunEnds ==
    /\ command'.alone = {} /\ ~command'.clean
    /\ command'.synchronised => command.clean /\ \A b \in Books : ~Left(b)

\* A copy is written; the run goes on.
Arrival(payload) ==
    /\ payload \in OnTheWay
    /\ catalogue' = catalogue /\ register' = Written(payload)
    /\ OnTheWay' \subseteq OnTheWay /\ command' = command
    /\ \A b \in Books \ {payload.book} :
          /\ excuses'[b] = excuses[b]
          /\ Carried(b) => Carried(b)'
          /\ Left(b) => Left(b)'
    /\ payload.book \notin command.alone =>
          excuses'[payload.book] = excuses[payload.book]

\* A change of b or a row of b that is written by hand disturbs the run.
Disturbs(b) ==
    /\ command'.alone = command.alone \ {b}
    /\ ~command'.clean /\ ~command'.synchronised

Change(b) ==
    /\ Disturbs(b) /\ register' = register
    /\ catalogue' \in [Books -> Row]
    /\ \A a \in Books \ {b} : catalogue'[a] = catalogue[a] /\ excuses'[a] = excuses[a]
    /\ excuses'[b] = Reexcused(b)
    /\ catalogue'[b].listing # "absent"
    /\ IsListed(b)' => Free(b, catalogue'[b].isbn)
    /\ OnTheWay' = OnTheWay \cup {Copy(b, catalogue'[b])}
    /\ \A a \in Books : Carried(a) \/ a = b => Carried(a)'

ByHand(b) ==
    /\ Disturbs(b) /\ catalogue' = catalogue
    /\ \A a \in Books \ {b} : register'[a] = register[a] /\ excuses'[a] = excuses[a]
    /\ "staff" \in excuses'[b]
    /\ OnTheWay' = OnTheWay
    /\ \A a \in Books : Carried(a) => Carried(a)'

\* A run starts: it takes a copy of every book listed.
Starting ==
    LET listed == {b \in Books : IsListed(b)} IN
    /\ catalogue' = catalogue /\ register' = register
    /\ OnTheWay' = OnTheWay \cup {Copy(b, catalogue[b]) : b \in listed}
    /\ \A b \in Books : excuses'[b] = IF b \in listed /\ InFlight(b)
                                        THEN excuses[b] \cup {"crossed"} ELSE excuses[b]
    /\ \A b \in Books : Carried(b) => Carried(b)'
    /\ command'.alone = {b \in listed : ~InFlight(b)}
    /\ command'.clean => OnTheWay = {}
    /\ ~command'.synchronised
    /\ \A b \in listed : Left(b)'

Step ==
    \/ Flow /\ (RunGoesOn \/ RunEnds)
    \/ \E payload \in Payload : Arrival(payload)
    \/ \E b \in Books : Change(b) \/ ByHand(b)
    \/ Starting

(***************************************************************************)
(* The invariants over such steps                                          *)
(***************************************************************************)

\* A client that is not idle is at a call.
LEMMA BusyIs ==
    ASSUME TypeInv, NEW p \in Clients
    PROVE  /\ workers[p].busy \in BOOLEAN
           /\ workers[p].busy => /\ workers[p] \in Busy
                                 /\ workers[p].payload \in Payload
                                 /\ workers[p].retries \in 0..MaxRetries
                                 /\ workers[p].tries \in 1..MaxTries
           /\ ~workers[p].busy => workers[p] = Idle
<1>1. CASE workers[p] = Idle
  <2>1. workers[p].busy = FALSE
    BY <1>1 DEF Idle
  <2>. QED BY <1>1, <2>1
<1>2. CASE workers[p] \in Busy
  <2>1. workers[p].busy = TRUE
    BY <1>2 DEF Busy
  <2>2. /\ workers[p].payload \in Payload /\ workers[p].retries \in 0..MaxRetries
        /\ workers[p].tries \in 1..MaxTries
    BY <1>2 DEF Busy
  <2>. QED BY <1>2, <2>1, <2>2
<1>. QED BY <1>1, <1>2 DEF TypeInv

\* What is on its way is a payload, whoever has it.
LEMMA OnTheWayType ==
    ASSUME TypeInv
    PROVE  OnTheWay \subseteq Payload /\ Tasks \subseteq OnTheWay
<1>1. \A i \in DOMAIN queue : queue[i].payload \in Payload
  <2>1. \A i \in DOMAIN queue : queue[i] \in Message
    BY DEF TypeInv
  <2>. QED BY <2>1 DEF Message
<1>2. DOMAIN workers = Clients /\ Workers \subseteq Clients
  BY DEF TypeInv, Clients
<1>3. \A p \in DOMAIN workers : workers[p].busy => workers[p].payload \in Payload
  BY <1>2, BusyIs
<1>. QED
  BY <1>1, <1>2, <1>3 DEF OnTheWay, Tasks, TypeInv, Message, Request, Run

\* A copy that is what the shop has makes Warehouse agree with the shop.
LEMMA CurrentAgrees ==
    ASSUME TypeInv, NEW b \in Books, catalogue[b].listing # "absent",
           register' = Written(Copy(b, catalogue[b])), catalogue' = catalogue
    PROVE  Agrees(b)'
<1>1. register'[b] = [listing |-> IF catalogue[b].listing = "listed"
                                    THEN "active" ELSE "inactive",
                      isbn |-> catalogue[b].isbn, edition |-> catalogue[b].edition]
  BY DEF Written, Copy, TypeInv
<1>. QED BY <1>1 DEF Agrees, TypeInv, Row

\* Warehouse agrees about a book as long as neither row changes.
LEMMA StillAgrees ==
    ASSUME NEW b \in Books, Agrees(b), catalogue'[b] = catalogue[b],
           register'[b] = register[b]
    PROVE  Agrees(b)'
  BY DEF Agrees

\* The copies of b stay current unless others than the shop's are sent.
LEMMA StillCurrent ==
    ASSUME NEW b \in Books, Current(b), catalogue'[b] = catalogue[b],
           \A payload \in OnTheWay' :
              payload.book = b => payload \in OnTheWay \/ payload = Copy(b, catalogue[b])
    PROVE  Current(b)'
  BY DEF Current, Copy

\* A write changes one row of the register.
LEMMA WrittenElsewhere ==
    ASSUME TypeInv, NEW payload \in Payload, register' = Written(payload),
           NEW b \in Books \ {payload.book}
    PROVE  register'[b] = register[b]
  BY DEF Written, TypeInv

\* The shop's unique ISBNs: Book.isbn, which deletion frees.
LEMMA UniqueIsbnsStep ==
    ASSUME TypeInv, UniqueIsbns, Step
    PROVE  UniqueIsbns'
<1>1. CASE catalogue' = catalogue
  BY <1>1 DEF UniqueIsbns, IsListed
<1>2. ASSUME NEW b \in Books, Change(b)
      PROVE  UniqueIsbns'
  BY <1>2 DEF Change, UniqueIsbns, IsListed, Free
<1>. QED BY <1>1, <1>2 DEF Step, Flow, Arrival, ByHand, Starting

\* A book that was saved is never absent again.
LEMMA SavedStep ==
    ASSUME TypeInv, Saved, Step
    PROVE  Saved'
<1>0. OnTheWay \subseteq Payload
  BY OnTheWayType
<1>1. CASE catalogue' = catalogue /\ OnTheWay' \subseteq OnTheWay
  BY <1>1 DEF Saved
<1>2. ASSUME NEW b \in Books, Change(b)
      PROVE  Saved'
  BY <1>0, <1>2 DEF Change, Saved, Copy, Payload
<1>3. CASE Starting
  BY <1>3 DEF Starting, Saved, Copy, IsListed
<1>. QED BY <1>1, <1>2, <1>3 DEF Step, Flow, Arrival, ByHand

\* A book that the run alone sends is only sent as it is.
LEMMA AloneStep ==
    ASSUME TypeInv, Alone, Step
    PROVE  Alone'
<1>0. OnTheWay \subseteq Payload /\ command.alone \subseteq Books
  BY OnTheWayType DEF TypeInv, Run
<1>1. CASE /\ command'.alone \subseteq command.alone
           /\ catalogue' = catalogue /\ OnTheWay' \subseteq OnTheWay
  BY <1>0, <1>1, StillCurrent DEF Alone, IsListed
<1>2. ASSUME NEW b \in Books, Change(b)
      PROVE  Alone'
  BY <1>0, <1>2, StillCurrent DEF Change, Disturbs, Alone, IsListed, Copy
<1>3. CASE Starting
  <2>1. ASSUME NEW b \in Books, IsListed(b), ~InFlight(b)
        PROVE  Current(b)'
    BY <1>3, <2>1 DEF Starting, InFlight, Current, Copy
  <2>. QED BY <1>3, <2>1 DEF Starting, Alone, IsListed
<1>. QED
  BY <1>0, <1>1, <1>2, <1>3
     DEF Step, Flow, RunGoesOn, RunEnds, Arrival, ByHand, Disturbs

\* What a write does to the books that nothing excuses.
LEMMA SettlesArrival ==
    ASSUME TypeInv, Saved, Settles, Alone, NEW payload \in Payload, Arrival(payload)
    PROVE  Settles'
<1>0. catalogue' = catalogue /\ OnTheWay' \subseteq OnTheWay /\ payload \in OnTheWay
  BY DEF Arrival
<1>1. ASSUME NEW b \in Books, excuses'[b] \subseteq {"busy"}
      PROVE  Current(b)' /\ (Carried(b)' \/ Agrees(b)')
  <2>1. CASE b # payload.book
    <3>1. excuses[b] \subseteq {"busy"} /\ register'[b] = register[b]
      BY <1>1, <2>1, WrittenElsewhere DEF Arrival
    <3>2. Current(b) /\ (Carried(b) \/ Agrees(b))
      BY <3>1 DEF Settles
    <3>. QED BY <1>0, <2>1, <3>1, <3>2, StillCurrent, StillAgrees DEF Arrival
  <2>2. CASE b = payload.book
    <3>1. Current(b)
      BY <1>1, <2>2 DEF Arrival, Settles, Alone
    <3>2. payload = Copy(b, catalogue[b]) /\ catalogue[b].listing # "absent"
      BY <1>0, <2>2, <3>1 DEF Current, Saved
    <3>3. Agrees(b)'
      BY <1>0, <3>2, CurrentAgrees DEF Arrival
    <3>. QED BY <1>0, <3>1, <3>3, StillCurrent
  <2>. QED BY <2>1, <2>2
<1>. QED BY <1>1 DEF Settles

\* Nothing is lost without an excuse.
LEMMA SettlesStep ==
    ASSUME TypeInv, Saved, Settles, Alone, Step
    PROVE  Settles'
<1>0. OnTheWay \subseteq Payload
  BY OnTheWayType
<1>1. CASE Flow
  BY <1>1, StillCurrent, StillAgrees DEF Flow, Settles
<1>2. ASSUME NEW b \in Books, Change(b)
      PROVE  Settles'
  <2>1. ASSUME NEW a \in Books \ {b}, excuses'[a] \subseteq {"busy"}
        PROVE  Current(a)' /\ (Carried(a)' \/ Agrees(a)')
    <3>1. Current(a) /\ (Carried(a) \/ Agrees(a))
      BY <1>2, <2>1 DEF Change, Settles
    <3>. QED BY <1>2, <3>1, StillCurrent, StillAgrees DEF Change, Copy
  <2>2. ASSUME excuses'[b] \subseteq {"busy"}
        PROVE  Current(b)' /\ Carried(b)'
    <3>1. ~InFlight(b)
      BY <1>2, <2>2 DEF Change, Reexcused
    <3>. QED BY <1>2, <3>1 DEF Change, InFlight, Current
  <2>. QED BY <2>1, <2>2 DEF Settles
<1>3. ASSUME NEW b \in Books, ByHand(b)
      PROVE  Settles'
  BY <1>3, StillCurrent, StillAgrees DEF ByHand, Settles
<1>4. CASE Starting
  <2>1. ASSUME NEW b \in Books, excuses'[b] \subseteq {"busy"}
        PROVE  Current(b)' /\ (Carried(b)' \/ Agrees(b)')
    <3>1. Current(b) /\ (Carried(b) \/ Agrees(b))
      BY <1>4, <2>1 DEF Starting, Settles
    <3>. QED BY <1>4, <3>1, StillCurrent, StillAgrees DEF Starting, Copy
  <2>. QED BY <2>1 DEF Settles
<1>. QED BY <1>1, <1>2, <1>3, <1>4, SettlesArrival DEF Step

\* A run that nothing disturbs leaves no listed book behind.
LEMMA RunIsCleanStep ==
    ASSUME TypeInv, Saved, RunIsClean, Step
    PROVE  RunIsClean'
<1>0. OnTheWay \subseteq Payload
  BY OnTheWayType
<1>1. CASE Flow /\ (RunGoesOn \/ RunEnds)
  BY <1>1, StillCurrent, StillAgrees DEF Flow, RunGoesOn, RunEnds, RunIsClean, IsListed
<1>2. ASSUME NEW payload \in Payload, Arrival(payload)
      PROVE  RunIsClean'
  <2>1. /\ catalogue' = catalogue /\ OnTheWay' \subseteq OnTheWay /\ payload \in OnTheWay
        /\ command' = command
    BY <1>2 DEF Arrival
  <2>2. ASSUME NEW b \in Books, Current(b)
        PROVE  /\ Current(b)'
               /\ IsListed(b) /\ Agrees(b) => Agrees(b)'
               /\ IsListed(b) /\ Left(b) => Agrees(b)' \/ Left(b)'
    <3>1. Current(b)'
      BY <2>1, <2>2, StillCurrent
    <3>2. CASE b = payload.book
      <4>1. payload = Copy(b, catalogue[b]) /\ catalogue[b].listing # "absent"
        BY <2>1, <2>2, <3>2 DEF Current, Saved
      <4>. QED BY <1>2, <2>1, <3>1, <4>1, CurrentAgrees DEF Arrival
    <3>3. CASE b # payload.book
      <4>1. register'[b] = register[b]
        BY <1>2, <3>3, WrittenElsewhere DEF Arrival
      <4>. QED BY <1>2, <2>1, <3>1, <3>3, <4>1, StillAgrees DEF Arrival
    <3>. QED BY <3>2, <3>3
  <2>. QED BY <2>1, <2>2 DEF RunIsClean, IsListed
<1>3. ASSUME NEW b \in Books, Change(b) \/ ByHand(b)
      PROVE  RunIsClean'
  BY <1>3 DEF Change, ByHand, Disturbs, RunIsClean
<1>4. CASE Starting
  <2>1. ASSUME command'.clean, NEW b \in Books
        PROVE  Current(b)' /\ (IsListed(b)' => Left(b)')
    BY <1>4, <2>1 DEF Starting, Current, Copy, IsListed
  <2>. QED BY <1>4, <2>1 DEF Starting, RunIsClean
<1>. QED BY <1>1, <1>2, <1>3, <1>4 DEF Step

(***************************************************************************)
(* Every action is such a step                                             *)
(***************************************************************************)

Whole == TypeInv' /\ OneOut' /\ Step

\* Where a payload on its way can be, before and after a step.
LEMMA OnTheWayHas ==
    ASSUME TypeInv
    PROVE  /\ pending \subseteq OnTheWay /\ command.left \subseteq OnTheWay
           /\ \A i \in DOMAIN queue : queue[i].payload \in OnTheWay
           /\ \A m \in delayed : m.payload \in OnTheWay
           /\ \A q \in requests : q.payload \in OnTheWay
           /\ \A p \in Clients : workers[p].busy => workers[p].payload \in OnTheWay
<1>1. DOMAIN workers = Clients
  BY DEF TypeInv
<1>. QED BY <1>1 DEF OnTheWay

\* What is on its way after a step, from its parts.
LEMMA OnTheWayWithin ==
    ASSUME NEW S, TypeInv',
           pending' \subseteq S, command'.left \subseteq S,
           \A i \in DOMAIN queue' : queue'[i].payload \in S,
           \A m \in delayed' : m.payload \in S,
           \A q \in requests' : q.payload \in S,
           \A p \in Clients : workers'[p].busy => workers'[p].payload \in S
    PROVE  OnTheWay' \subseteq S
<1>1. DOMAIN workers' = Clients
  BY DEF TypeInv
<1>. QED BY <1>1 DEF OnTheWay

\* Nobody forgets a change unless it leaves the task that carries it.
LEMMA StillCarried ==
    ASSUME pending \subseteq pending', queue' = queue, delayed \subseteq delayed',
           NEW b \in Books, Carried(b),
           \A p \in Workers : workers[p].busy /\ workers[p].payload.book = b =>
              workers'[p].busy /\ workers'[p].payload = workers[p].payload
    PROVE  Carried(b)'
  BY DEF Carried, Tasks

\* A committed change of a book.
LEMMA ChangesStep ==
    ASSUME TypeInv, OneOut, NEW b \in Books, NEW row \in Row, Changes(b, row),
           row.listing # "absent", row.edition <= changes + 1,
           row.listing = "listed" => Free(b, row.isbn)
    PROVE  Whole
<1>1. catalogue' = [catalogue EXCEPT ![b] = row] /\ catalogue'[b] = row
      /\ catalogue' \in [Books -> Row] /\ changes' \in 0..MaxChanges
      /\ changes' = changes + 1
  BY BookSyncAssumption DEF Changes, TypeInv
<1>2. \A a \in Books : catalogue'[a].edition <= changes'
  BY <1>1 DEF TypeInv, Row, Editions
<1>3. Copy(b, row) \in Payload
  BY DEF Copy, Row, Payload
<1>4. /\ command' \in Run /\ command'.left = command.left
      /\ command'.running = command.running
      /\ command'.alone = command.alone \ {b} /\ ~command'.clean /\ ~command'.synchronised
  BY DEF Changes, TypeInv, Run
<1>5. excuses' \in [Books -> SUBSET Reasons] /\ excuses'[b] = Reexcused(b)
      /\ \A a \in Books \ {b} : excuses'[a] = excuses[a]
  BY DEF Changes, TypeInv, Reexcused, Reasons
<1>6. TypeInv'
  BY <1>1, <1>2, <1>3, <1>4, <1>5 DEF Changes, TypeInv, broker
<1>7. OneOut'
  BY DEF Changes, OneOut, Out
<1>8. OnTheWay' = OnTheWay \cup {Copy(b, row)}
  BY <1>4 DEF Changes, broker, OnTheWay
<1>9. \A a \in Books : Carried(a) \/ a = b => Carried(a)'
  <2>1. ASSUME NEW a \in Books, Carried(a)
        PROVE  Carried(a)'
    BY <2>1, StillCarried DEF Changes, broker
  <2>2. Carried(b)'
    <3>1. Copy(b, row) \in Tasks' /\ Copy(b, row).book = b
      BY DEF Changes, Tasks, Copy
    <3>. QED BY <3>1 DEF Carried
  <2>. QED BY <2>1, <2>2
<1>10. IsListed(b)' => Free(b, catalogue'[b].isbn)
  BY <1>1 DEF IsListed
<1>11. Change(b)
  BY <1>1, <1>4, <1>5, <1>8, <1>9, <1>10 DEF Changes, Change, Disturbs
<1>. QED BY <1>6, <1>7, <1>11 DEF Whole, Step

\* handle_book_changes on a save.
LEMMA SaveBookStep ==
    ASSUME TypeInv, OneOut, NEW b \in Books, SaveBook(b)
    PROVE  Whole
<1>1. PICK isbn \in Isbns \cup {NoIsbn} :
          /\ Free(b, isbn)
          /\ Changes(b, [listing |-> "listed", isbn |-> isbn,
                         edition |-> catalogue[b].edition + 1])
  BY DEF SaveBook
<1>. DEFINE row == [listing |-> "listed", isbn |-> isbn,
                    edition |-> catalogue[b].edition + 1]
<1>2. /\ row \in Row /\ row.listing = "listed" /\ row.isbn = isbn
      /\ row.edition <= changes + 1
  BY <1>1, BookSyncAssumption DEF Changes, TypeInv, Row, Editions
<1>. HIDE DEF row
<1>3. Changes(b, row)
  BY <1>1 DEF row
<1>. QED BY <1>1, <1>2, <1>3, ChangesStep

\* handle_book_changes on a deletion.
LEMMA DeleteBookStep ==
    ASSUME TypeInv, OneOut, NEW b \in Books, DeleteBook(b)
    PROVE  Whole
<1>. DEFINE row == [catalogue[b] EXCEPT !.listing = "deleted"]
<1>1. /\ row \in Row /\ row.listing = "deleted" /\ row.edition = catalogue[b].edition
  BY DEF TypeInv, Row
<1>3. row.edition <= changes + 1
  BY <1>1, BookSyncAssumption DEF TypeInv, Row, Editions
<1>. HIDE DEF row
<1>2. Changes(b, row)
  BY DEF DeleteBook, row
<1>. QED BY <1>1, <1>2, <1>3, ChangesStep

\* A row that Warehouse's staff write.
LEMMA StaffWriteStep ==
    ASSUME TypeInv, OneOut, NEW b \in Books, NEW row \in Registered, StaffWrite(b, row)
    PROVE  Whole
<1>1. /\ command' \in Run /\ command'.left = command.left
      /\ command'.running = command.running
      /\ command'.alone = command.alone \ {b} /\ ~command'.clean /\ ~command'.synchronised
  BY DEF StaffWrite, TypeInv, Run
<1>2. excuses' \in [Books -> SUBSET Reasons] /\ "staff" \in excuses'[b]
      /\ \A a \in Books \ {b} : excuses'[a] = excuses[a]
  BY DEF StaffWrite, Excuse, TypeInv, Reasons
<1>3. TypeInv'
  <2>1. changes' \in 0..MaxChanges /\ \A a \in Books : catalogue'[a].edition <= changes'
    BY BookSyncAssumption DEF StaffWrite, TypeInv, Row, Editions
  <2>2. register' \in [Books -> Registered]
    BY DEF StaffWrite, TypeInv
  <2>. QED BY <1>1, <1>2, <2>1, <2>2 DEF StaffWrite, TypeInv, broker
<1>4. OneOut'
  BY DEF StaffWrite, OneOut, Out
<1>5. ByHand(b)
  BY <1>1, <1>2
     DEF StaffWrite, ByHand, Disturbs, broker, OnTheWay, Carried, Tasks, TypeInv
<1>. QED BY <1>3, <1>4, <1>5 DEF Whole, Step

\* Both ways in which they do.
LEMMA StaffStep ==
    ASSUME TypeInv, OneOut, NEW b \in Books, StaffWithdraw(b) \/ StaffSave(b)
    PROVE  Whole
<1>1. CASE StaffWithdraw(b)
  <2>1. [register[b] EXCEPT !.listing = "inactive"] \in Registered
    BY DEF TypeInv, Registered
  <2>. QED BY <1>1, <2>1, StaffWriteStep DEF StaffWithdraw
<1>2. CASE StaffSave(b)
  <2>1. PICK listing \in {"active", "inactive"}, isbn \in Isbns \cup {NoIsbn},
             edition \in {0, register[b].edition} :
           StaffWrite(b, [listing |-> listing, isbn |-> isbn, edition |-> edition])
    BY <1>2 DEF StaffSave
  <2>2. [listing |-> listing, isbn |-> isbn, edition |-> edition] \in Registered
    BY BookSyncAssumption DEF TypeInv, Registered, Editions
  <2>. QED BY <2>1, <2>2, StaffWriteStep
<1>. QED BY <1>1, <1>2

\* The switch is turned on.
LEMMA EnableStep ==
    ASSUME TypeInv, OneOut, EnableIntegration
    PROVE  Whole
<1>1. TypeInv' /\ OneOut'
  BY DEF EnableIntegration, shop, broker, TypeInv, OneOut, Out
<1>2. Flow /\ RunGoesOn
  BY DEF EnableIntegration, shop, broker, Flow, RunGoesOn, OnTheWay, Carried, Tasks, Left
<1>. QED BY <1>1, <1>2 DEF Whole, Step

(***************************************************************************)
(* Broker, task and command                                                *)
(***************************************************************************)

\* What a queue holds when a message is put in, and taken out.
LEMMA QueueGrows ==
    ASSUME NEW s \in Seq(Message), NEW m \in Message
    PROVE  /\ Append(s, m) \in Seq(Message)
           /\ \A i \in DOMAIN s : \E j \in DOMAIN Append(s, m) : Append(s, m)[j] = s[i]
           /\ \E j \in DOMAIN Append(s, m) : Append(s, m)[j] = m
           /\ \A j \in DOMAIN Append(s, m) :
                 Append(s, m)[j] = m \/ \E i \in DOMAIN s : Append(s, m)[j] = s[i]
<1>1. /\ Append(s, m) \in Seq(Message) /\ Len(s) \in Nat
      /\ DOMAIN s = 1..Len(s) /\ DOMAIN Append(s, m) = 1..(Len(s) + 1)
      /\ \A i \in 1..Len(s) : Append(s, m)[i] = s[i]
      /\ Append(s, m)[Len(s) + 1] = m
  OBVIOUS
<1>2. \A j \in 1..(Len(s) + 1) : j = Len(s) + 1 \/ j \in 1..Len(s)
  BY <1>1
<1>3. Len(s) + 1 \in 1..(Len(s) + 1) /\ 1..Len(s) \subseteq 1..(Len(s) + 1)
  BY <1>1
<1>. QED BY <1>1, <1>2, <1>3

\* The queue without its first message.
LEMMA QueueShrinks ==
    ASSUME NEW s \in Seq(Message), s # <<>>
    PROVE  /\ Tail(s) \in Seq(Message) /\ Head(s) \in Message
           /\ \E i \in DOMAIN s : s[i] = Head(s)
           /\ \A i \in DOMAIN s :
                 s[i] = Head(s) \/ \E j \in DOMAIN Tail(s) : Tail(s)[j] = s[i]
           /\ \A j \in DOMAIN Tail(s) : \E i \in DOMAIN s : Tail(s)[j] = s[i]
<1>1. /\ Tail(s) \in Seq(Message) /\ Head(s) = s[1] /\ Len(s) \in Nat /\ Len(s) >= 1
      /\ DOMAIN s = 1..Len(s) /\ DOMAIN Tail(s) = 1..(Len(s) - 1)
      /\ \A i \in 1..(Len(s) - 1) : Tail(s)[i] = s[i + 1]
      /\ \A i \in 1..Len(s) : s[i] \in Message
  OBVIOUS
<1>2. 1 \in 1..Len(s) /\ \A j \in 1..(Len(s) - 1) : j + 1 \in 1..Len(s)
  BY <1>1
<1>3. \A i \in 1..Len(s) : i = 1 \/ (i - 1 \in 1..(Len(s) - 1) /\ (i - 1) + 1 = i)
  BY <1>1
<1>4. \A i \in 1..Len(s) : i = 1 \/ \E j \in 1..(Len(s) - 1) : Tail(s)[j] = s[i]
  BY <1>1, <1>3
<1>. QED BY <1>1, <1>2, <1>4

\* The callback enqueues the message, or is lost.
LEMMA EnqueueStep ==
    ASSUME TypeInv, OneOut, NEW payload \in pending,
           Enqueue(payload) \/ LoseCallback(payload)
    PROVE  Whole
<1>0. payload \in Payload /\ payload.book \in Books
  BY DEF TypeInv, Payload
<1>1. CASE Enqueue(payload)
  <2>. DEFINE m == [payload |-> payload, retries |-> 0]
  <2>1. m \in Message /\ m.payload = payload /\ queue' = Append(queue, m)
    BY <1>0, <1>1, BookSyncAssumption DEF Enqueue, Message
  <2>. HIDE DEF m
  <2>2. /\ queue' \in Seq(Message)
        /\ \A i \in DOMAIN queue : \E j \in DOMAIN queue' : queue'[j] = queue[i]
        /\ \E j \in DOMAIN queue' : queue'[j] = m
        /\ \A j \in DOMAIN queue' :
              queue'[j] = m \/ \E i \in DOMAIN queue : queue'[j] = queue[i]
    BY <2>1, QueueGrows DEF TypeInv
  <2>3. TypeInv' /\ OneOut'
    BY <1>1, <2>2 DEF Enqueue, TypeInv, OneOut, Out
  <2>4. OnTheWay' \subseteq OnTheWay
    BY <1>1, <2>1, <2>2, <2>3, OnTheWayHas, OnTheWayWithin DEF Enqueue
  <2>5. Tasks \subseteq Tasks'
    BY <1>1, <2>1, <2>2 DEF Enqueue, Tasks
  <2>6. Flow /\ RunGoesOn
    BY <1>1, <2>4, <2>5 DEF Enqueue, Flow, RunGoesOn, Carried, Left
  <2>. QED BY <2>3, <2>6 DEF Whole, Step
<1>2. CASE LoseCallback(payload)
  <2>1. /\ excuses' \in [Books -> SUBSET Reasons] /\ "dropped" \in excuses'[payload.book]
        /\ \A b \in Books : excuses[b] \subseteq excuses'[b]
    BY <1>0, <1>2 DEF LoseCallback, Excuse, TypeInv, Reasons
  <2>2. TypeInv' /\ OneOut'
    BY <1>2, <2>1 DEF LoseCallback, broker, TypeInv, OneOut, Out
  <2>3. OnTheWay' \subseteq OnTheWay
    BY <1>2, <2>2, OnTheWayHas, OnTheWayWithin DEF LoseCallback, broker
  <2>4. ASSUME NEW b \in Books \ {payload.book}, Carried(b)
        PROVE  Carried(b)'
    BY <1>2, <2>4 DEF LoseCallback, broker, Carried, Tasks
  <2>5. Flow /\ RunGoesOn
    BY <1>2, <2>1, <2>3, <2>4 DEF LoseCallback, Flow, RunGoesOn, Left
  <2>. QED BY <2>2, <2>5 DEF Whole, Step
<1>. QED BY <1>1, <1>2

\* A client that is idle sends the first attempt of a call.
LEMMA CallStarts ==
    ASSUME TypeInv, OneOut, NEW p \in Clients, ~workers[p].busy,
           NEW payload \in Payload, NEW retries \in 0..MaxRetries,
           workers' = [workers EXCEPT ![p] = Calling(payload, retries)],
           requests' = requests \cup {[payload |-> payload, from |-> p, phase |-> "sent"]}
    PROVE  /\ workers' \in [Clients -> {Idle} \cup Busy] /\ requests' \subseteq Request
           /\ OneOut'
           /\ workers'[p].busy /\ workers'[p].payload = payload
           /\ \A r \in Clients \ {p} : workers'[r] = workers[r]
           /\ \A q \in requests' : q \in requests \/ q.payload = payload
<1>. DEFINE new == [payload |-> payload, from |-> p, phase |-> "sent"]
            call == Calling(payload, retries)
<1>1. /\ new \in Request /\ new.payload = payload /\ new.from = p
      /\ requests' = requests \cup {new}
  BY DEF Request, Clients
<1>2. call \in Busy /\ call.busy /\ call.payload = payload
  BY BookSyncAssumption DEF Calling, Busy
<1>3. workers' = [workers EXCEPT ![p] = call]
  OBVIOUS
<1>. HIDE DEF new, call
<1>4. /\ workers' \in [Clients -> {Idle} \cup Busy] /\ workers'[p] = call
      /\ \A r \in Clients \ {p} : workers'[r] = workers[r]
  BY <1>2, <1>3 DEF TypeInv
<1>5. Out(p)' = {new} /\ \A r \in Clients \ {p} : Out(r)' = Out(r)
  BY <1>1 DEF OneOut, Out
<1>6. OneOut'
  <2>1. ASSUME NEW r \in Clients \ {p}
        PROVE  IF workers'[r].busy
                 THEN \E q \in requests' : Out(r)' = {q} /\ q.payload = workers'[r].payload
                 ELSE Out(r)' = {}
    BY <1>1, <1>4, <1>5, <2>1 DEF OneOut
  <2>2. /\ workers'[p].busy
        /\ \E q \in requests' : Out(p)' = {q} /\ q.payload = workers'[p].payload
    BY <1>1, <1>2, <1>4, <1>5
  <2>. QED BY <2>1, <2>2 DEF OneOut
<1>. QED BY <1>1, <1>2, <1>4, <1>6 DEF TypeInv

\* A Celery process takes a message, and calls Warehouse unless the integration
\* is off.
LEMMA TaskStarts ==
    ASSUME TypeInv, OneOut, NEW w \in Workers, ~workers[w].busy, NEW message \in Message,
           Runs(w, message)
    PROVE  /\ workers' \in [Clients -> {Idle} \cup Busy] /\ requests' \subseteq Request
           /\ excuses' \in [Books -> SUBSET Reasons] /\ OneOut'
           /\ \A b \in Books : excuses[b] \subseteq excuses'[b]
           /\ \A r \in Clients \ {w} : workers'[r] = workers[r]
           /\ workers'[w].busy => workers'[w].payload = message.payload
           /\ \A q \in requests' : q \in requests \/ q.payload = message.payload
           /\ workers'[w].busy \/ "dropped" \in excuses'[message.payload.book]
<1>0. message.payload \in Payload /\ message.retries \in 0..MaxRetries
      /\ w \in Clients /\ message.payload.book \in Books
  BY DEF Message, Payload, Clients
<1>1. CASE enabled
  BY <1>0, <1>1, CallStarts DEF Runs, TypeInv
<1>2. CASE ~enabled
  BY <1>0, <1>2 DEF Runs, Excuse, TypeInv, OneOut, Out, Reasons
<1>. QED BY <1>1, <1>2

\* A message comes from the queue or from the retries.
LEMMA TakeStep ==
    ASSUME TypeInv, OneOut, NEW w \in Workers, Take(w) \/ TakeRetry(w)
    PROVE  Whole
<1>1. PICK m \in Message :
          /\ ~workers[w].busy /\ Runs(w, m) /\ m.payload \in OnTheWay
          /\ queue' \in Seq(Message) /\ delayed' \subseteq delayed
          /\ \A j \in DOMAIN queue' : \E i \in DOMAIN queue : queue'[j] = queue[i]
          /\ \A i \in DOMAIN queue :
                queue[i] = m \/ \E j \in DOMAIN queue' : queue'[j] = queue[i]
          /\ \A d \in delayed : d = m \/ d \in delayed'
          /\ UNCHANGED <<enabled, catalogue, pending, changes, command, register, runs>>
  <2>1. CASE Take(w)
    <3>1. /\ queue # <<>> /\ queue' = Tail(queue) /\ queue \in Seq(Message)
      BY <2>1 DEF Take, TypeInv
    <3>2. Head(queue) \in Message /\ Head(queue).payload \in OnTheWay
      BY <3>1, QueueShrinks, OnTheWayHas
    <3>3. /\ queue' \in Seq(Message)
          /\ \A j \in DOMAIN queue' : \E i \in DOMAIN queue : queue'[j] = queue[i]
          /\ \A i \in DOMAIN queue :
                queue[i] = Head(queue) \/ \E j \in DOMAIN queue' : queue'[j] = queue[i]
      BY <3>1, QueueShrinks
    <3>. QED BY <2>1, <3>2, <3>3 DEF Take, shop
  <2>2. CASE TakeRetry(w)
    <3>1. PICK m \in delayed : delayed' = delayed \ {m} /\ Runs(w, m)
      BY <2>2 DEF TakeRetry
    <3>2. m \in Message /\ m.payload \in OnTheWay
      BY OnTheWayHas DEF TypeInv
    <3>. QED BY <2>2, <3>1, <3>2 DEF TakeRetry, shop, TypeInv
  <2>. QED BY <2>1, <2>2
<1>2. /\ workers' \in [Clients -> {Idle} \cup Busy] /\ requests' \subseteq Request
      /\ excuses' \in [Books -> SUBSET Reasons] /\ OneOut'
      /\ \A b \in Books : excuses[b] \subseteq excuses'[b]
      /\ \A r \in Clients \ {w} : workers'[r] = workers[r]
      /\ workers'[w].busy => workers'[w].payload = m.payload
      /\ \A q \in requests' : q \in requests \/ q.payload = m.payload
      /\ workers'[w].busy \/ "dropped" \in excuses'[m.payload.book]
  BY <1>1, TaskStarts
<1>3. TypeInv'
  BY <1>1, <1>2 DEF TypeInv
<1>4. OnTheWay' \subseteq OnTheWay
  BY <1>1, <1>2, <1>3, OnTheWayHas, OnTheWayWithin
<1>5. ASSUME NEW b \in Books, Carried(b), excuses'[b] \subseteq {"busy"}
      PROVE  Carried(b)'
  <2>1. Workers \subseteq Clients
    BY DEF Clients
  <2>2. Tasks \ {m.payload} \subseteq Tasks'
    BY <1>1, <1>2, <2>1 DEF Tasks
  <2>3. workers'[w].busy => m.payload \in Tasks'
    BY <1>2 DEF Tasks
  <2>. QED BY <1>2, <1>5, <2>2, <2>3 DEF Carried
<1>6. Command \in Clients \ {w}
  BY BookSyncAssumption DEF Clients
<1>7. Flow /\ RunGoesOn
  BY <1>1, <1>2, <1>4, <1>5, <1>6 DEF Flow, RunGoesOn, Left
<1>. QED BY <1>2, <1>3, <1>7 DEF Whole, Step

\* The command reads the catalogue.
LEMMA StartRunStep ==
    ASSUME TypeInv, OneOut, StartRun
    PROVE  Whole
<1>. DEFINE listed == {b \in Books : IsListed(b)}
            left == {Copy(b, catalogue[b]) : b \in listed}
<1>1. left \subseteq Payload /\ \A b \in listed : Copy(b, catalogue[b]).book = b
  <2>1. ASSUME NEW b \in Books
        PROVE  Copy(b, catalogue[b]) \in Payload /\ Copy(b, catalogue[b]).book = b
    <3>1. catalogue[b] \in Row
      BY DEF TypeInv
    <3>. QED BY <3>1 DEF Copy, Row, Payload
  <2>. QED BY <2>1
<1>2. command' = [running |-> TRUE, left |-> left, alone |-> {b \in listed : ~InFlight(b)},
                  clean |-> OnTheWay = {}, synchronised |-> FALSE]
  <2>1. ASSUME NEW b \in listed
        PROVE  [Copy(b, catalogue[b]) EXCEPT !.active = TRUE] = Copy(b, catalogue[b])
    <3>1. Copy(b, catalogue[b]) \in Payload /\ Copy(b, catalogue[b]).active = TRUE
      BY <1>1 DEF Copy, IsListed
    <3>. QED BY <3>1 DEF Payload
  <2>. QED BY <2>1 DEF StartRun
<1>3. /\ command' \in Run /\ command'.left = left /\ command'.running
      /\ command'.alone = {b \in listed : ~InFlight(b)}
      /\ command'.clean <=> OnTheWay = {}
      /\ ~command'.synchronised
  BY <1>1, <1>2 DEF Run
<1>4. excuses' \in [Books -> SUBSET Reasons]
      /\ \A b \in Books : excuses'[b] = IF b \in listed /\ InFlight(b)
                                          THEN excuses[b] \cup {"crossed"} ELSE excuses[b]
  BY DEF StartRun, TypeInv, Reasons
<1>5. TypeInv' /\ OneOut'
  BY <1>3, <1>4 DEF StartRun, shop, broker, TypeInv, OneOut, Out
<1>6. OnTheWay' = OnTheWay \cup left
  <2>1. command.left = {}
    BY DEF StartRun, TypeInv
  <2>. QED BY <1>3, <2>1 DEF StartRun, shop, broker, OnTheWay
<1>7. Starting
  BY <1>1, <1>3, <1>4, <1>6 DEF StartRun, Starting, shop, broker, Carried, Tasks, Left
<1>. QED BY <1>5, <1>7 DEF Whole, Step

\* The command sends the next book.
LEMMA SendNextStep ==
    ASSUME TypeInv, OneOut, SendNext
    PROVE  Whole
<1>1. PICK payload \in command.left :
          /\ command' = [command EXCEPT !.left = @ \ {payload}]
          /\ workers' = [workers EXCEPT ![Command] = Calling(payload, 0)]
          /\ requests' = requests \cup
               {[payload |-> payload, from |-> Command, phase |-> "sent"]}
  BY DEF SendNext
<1>2. /\ payload \in Payload /\ payload \in OnTheWay
      /\ Command \in Clients /\ ~workers[Command].busy /\ command.running
  BY OnTheWayHas DEF SendNext, TypeInv, Run, Clients
<1>3. /\ workers' \in [Clients -> {Idle} \cup Busy] /\ requests' \subseteq Request
      /\ OneOut'
      /\ workers'[Command].busy /\ workers'[Command].payload = payload
      /\ \A r \in Clients \ {Command} : workers'[r] = workers[r]
      /\ \A q \in requests' : q \in requests \/ q.payload = payload
  <2>1. 0 \in 0..MaxRetries
    BY BookSyncAssumption
  <2>. QED BY <1>1, <1>2, <2>1, CallStarts
<1>4. /\ command' \in Run /\ command'.running /\ command'.left = command.left \ {payload}
      /\ command'.alone = command.alone /\ command'.clean = command.clean
      /\ command'.synchronised = command.synchronised
  BY <1>1, <1>2 DEF TypeInv, Run
<1>5. TypeInv'
  BY <1>3, <1>4 DEF SendNext, TypeInv, shop, broker
<1>6. OnTheWay' \subseteq OnTheWay
  BY <1>2, <1>3, <1>4, <1>5, OnTheWayHas, OnTheWayWithin DEF SendNext, shop, broker
<1>7. \A b \in Books : Carried(b) => Carried(b)'
  <2>1. \A p \in Workers : workers'[p] = workers[p]
    BY <1>3, BookSyncAssumption DEF Clients
  <2>. QED BY <2>1, StillCarried DEF SendNext, shop, broker
<1>8. \A b \in Books : Left(b) => Left(b)'
  BY <1>2, <1>3, <1>4 DEF Left
<1>9. Flow /\ RunGoesOn
  BY <1>4, <1>6, <1>7, <1>8 DEF SendNext, Flow, RunGoesOn, shop
<1>. QED BY <1>3, <1>5, <1>9 DEF Whole, Step

\* The command is done.
LEMMA FinishRunStep ==
    ASSUME TypeInv, OneOut, FinishRun
    PROVE  Whole
<1>1. /\ command' \in Run /\ ~command'.running /\ command'.left = {}
      /\ command'.alone = {}
      /\ ~command'.clean /\ command'.synchronised = command.clean
  BY DEF FinishRun, NoRun, TypeInv, Run
<1>2. TypeInv' /\ OneOut'
  BY <1>1 DEF FinishRun, TypeInv, OneOut, Out, shop, broker
<1>3. OnTheWay' \subseteq OnTheWay
  BY <1>1, <1>2, OnTheWayHas, OnTheWayWithin DEF FinishRun, shop, broker
<1>4. \A b \in Books : ~Left(b) /\ (Carried(b) => Carried(b)')
  BY StillCarried DEF FinishRun, shop, broker, Left
<1>5. Flow /\ RunEnds
  BY <1>1, <1>3, <1>4 DEF FinishRun, Flow, RunEnds, shop
<1>. QED BY <1>2, <1>5 DEF Whole, Step

(***************************************************************************)
(* Calls that are not answered                                             *)
(***************************************************************************)

\* What is left of the requests when p's is gone or an orphan.
Rest(p, kept) ==
    /\ kept \subseteq Request
    /\ \A q \in kept : q.from # p /\ \E r \in requests : r.payload = q.payload
    /\ \A r \in Clients \ {p} : {q \in kept : q.from = r} = Out(r)

\* A request that is given up is nobody's.
LEMMA OrphanedRest ==
    ASSUME TypeInv, NEW p \in Clients, NEW kept \in Orphaned(p)
    PROVE  Rest(p, kept)
<1>1. PICK gone \in SUBSET Out(p) :
          kept = (requests \ Out(p)) \cup {[q EXCEPT !.from = Nobody] : q \in gone}
  BY DEF Orphaned
<1>2. ASSUME NEW q \in gone
      PROVE  /\ [q EXCEPT !.from = Nobody] \in Request
             /\ [q EXCEPT !.from = Nobody].from = Nobody
             /\ [q EXCEPT !.from = Nobody].payload = q.payload /\ q \in requests
  BY DEF Out, TypeInv, Request
<1>3. Nobody \notin Clients
  BY BookSyncAssumption DEF Clients
<1>4. kept \subseteq Request /\ \A q \in kept : q.from # p
  BY <1>1, <1>2, <1>3 DEF Out, TypeInv
<1>5. \A q \in kept : \E r \in requests : r.payload = q.payload
  BY <1>1, <1>2
<1>6. \A r \in Clients \ {p} : {q \in kept : q.from = r} = Out(r)
  BY <1>1, <1>2, <1>3 DEF Out
<1>. QED BY <1>4, <1>5, <1>6 DEF Rest

\* The only request of a client that waits is this one.
LEMMA TheRequest ==
    ASSUME TypeInv, OneOut, NEW q \in requests, q.from \in Clients
    PROVE  /\ workers[q.from].busy /\ Out(q.from) = {q}
           /\ workers[q.from].payload = q.payload
           /\ Rest(q.from, requests \ {q})
<1>1. q \in Out(q.from)
  BY DEF Out
<1>2. workers[q.from].busy /\ Out(q.from) = {q} /\ workers[q.from].payload = q.payload
  BY <1>1 DEF OneOut
<1>. QED BY <1>2 DEF Rest, Out, TypeInv

\* p is idle, and kept is left of the requests.
LEMMA CallEnds ==
    ASSUME TypeInv, OneOut, NEW p \in Clients, NEW kept, Rest(p, kept),
           workers' = [workers EXCEPT ![p] = Idle], requests' = kept
    PROVE  /\ workers' \in [Clients -> {Idle} \cup Busy] /\ requests' \subseteq Request
           /\ OneOut'
           /\ ~workers'[p].busy
           /\ \A r \in Clients \ {p} : workers'[r] = workers[r]
           /\ \A q \in requests' : \E r \in requests : r.payload = q.payload
<1>1. /\ workers' \in [Clients -> {Idle} \cup Busy] /\ workers'[p] = Idle
      /\ \A r \in Clients \ {p} : workers'[r] = workers[r]
  BY DEF TypeInv
<1>2. Out(p)' = {} /\ \A r \in Clients \ {p} : Out(r)' = Out(r)
  BY DEF Rest, Out
<1>3. ~workers'[p].busy
  BY <1>1 DEF Idle
<1>4. OneOut'
  <2>1. ASSUME NEW r \in Clients \ {p}
        PROVE  IF workers'[r].busy
                 THEN \E q \in requests' : Out(r)' = {q} /\ q.payload = workers'[r].payload
                 ELSE Out(r)' = {}
    <3>1. \A q : Out(r)' = {q} => q \in requests'
      BY DEF Out
    <3>. QED BY <1>1, <1>2, <3>1 DEF OneOut
  <2>. QED BY <1>2, <1>3, <2>1 DEF OneOut
<1>. QED BY <1>1, <1>3, <1>4 DEF Rest

\* p repeats its request.
LEMMA CallRepeats ==
    ASSUME TypeInv, OneOut, NEW p \in Clients, workers[p].busy, NEW kept, Rest(p, kept),
           workers[p].tries < MaxTries,
           workers' = [workers EXCEPT ![p].tries = @ + 1],
           requests' = kept \cup {[payload |-> workers[p].payload, from |-> p,
                                   phase |-> "sent"]}
    PROVE  /\ workers' \in [Clients -> {Idle} \cup Busy] /\ requests' \subseteq Request
           /\ OneOut'
           /\ workers'[p].busy /\ workers'[p].payload = workers[p].payload
           /\ \A r \in Clients \ {p} : workers'[r] = workers[r]
           /\ \A q \in requests' :
                 q.payload = workers[p].payload \/ \E r \in requests : r.payload = q.payload
<1>. DEFINE call == [workers[p] EXCEPT !.tries = @ + 1]
            new == [payload |-> workers[p].payload, from |-> p, phase |-> "sent"]
<1>1. call \in Busy /\ call.busy /\ call.payload = workers[p].payload
  <2>1. workers[p] \in Busy /\ workers[p].tries + 1 \in 1..MaxTries
    BY BusyIs, BookSyncAssumption
  <2>. QED BY <2>1 DEF Busy
<1>2. new \in Request /\ new.payload = workers[p].payload /\ new.from = p
  BY BusyIs DEF Request, Clients
<1>3. workers' = [workers EXCEPT ![p] = call] /\ requests' = kept \cup {new}
  BY DEF TypeInv
<1>. HIDE DEF call, new
<1>4. /\ workers' \in [Clients -> {Idle} \cup Busy] /\ workers'[p] = call
      /\ \A r \in Clients \ {p} : workers'[r] = workers[r]
  BY <1>1, <1>3 DEF TypeInv
<1>5. Out(p)' = {new} /\ \A r \in Clients \ {p} : Out(r)' = Out(r)
  BY <1>2, <1>3 DEF Rest, Out
<1>6. OneOut'
  <2>1. ASSUME NEW r \in Clients \ {p}
        PROVE  IF workers'[r].busy
                 THEN \E q \in requests' : Out(r)' = {q} /\ q.payload = workers'[r].payload
                 ELSE Out(r)' = {}
    <3>1. \A q : Out(r)' = {q} => q \in requests'
      BY DEF Out
    <3>. QED BY <1>4, <1>5, <3>1 DEF OneOut
  <2>2. /\ workers'[p].busy
        /\ \E q \in requests' : Out(p)' = {q} /\ q.payload = workers'[p].payload
    BY <1>1, <1>2, <1>3, <1>4, <1>5
  <2>. QED BY <2>1, <2>2 DEF OneOut
<1>. QED BY <1>1, <1>2, <1>3, <1>4, <1>6 DEF Rest

\* A run that is over has nothing left.
LEMMA NoRunIs ==
    /\ NoRun \in Run /\ NoRun.left = {} /\ NoRun.alone = {} /\ ~NoRun.clean
    /\ ~NoRun.synchronised
  BY DEF NoRun, Run

\* An attempt that fails is repeated, or the task or the command gives up.
LEMMA UnansweredStep ==
    ASSUME TypeInv, OneOut, NEW p \in Clients, workers[p].busy, NEW kept, Rest(p, kept),
           Unanswered(p, kept), UNCHANGED <<enabled, shop, queue, register, runs>>
    PROVE  Whole
<1>0. /\ Workers \subseteq Clients /\ Command \in Clients \ Workers
      /\ \A r \in Clients : r # Command => r \in Workers
      /\ workers[p].payload \in Payload /\ workers[p].payload \in OnTheWay
      /\ workers[p].retries \in 0..MaxRetries /\ workers[p].payload.book \in Books
  BY BusyIs, OnTheWayHas, BookSyncAssumption DEF Clients, Payload
<1>1. CASE workers[p].tries < MaxTries
  <2>1. /\ workers' = [workers EXCEPT ![p].tries = @ + 1]
        /\ requests' = kept \cup {[payload |-> workers[p].payload, from |-> p,
                                   phase |-> "sent"]}
        /\ UNCHANGED <<delayed, excuses, command>>
    BY <1>1 DEF Unanswered
  <2>2. /\ workers' \in [Clients -> {Idle} \cup Busy] /\ requests' \subseteq Request
        /\ OneOut'
        /\ workers'[p].busy /\ workers'[p].payload = workers[p].payload
        /\ \A r \in Clients \ {p} : workers'[r] = workers[r]
        /\ \A q \in requests' :
              q.payload = workers[p].payload \/ \E r \in requests : r.payload = q.payload
    BY <1>1, <2>1, CallRepeats
  <2>3. TypeInv'
    BY <2>1, <2>2 DEF TypeInv, shop
  <2>4. OnTheWay' \subseteq OnTheWay
    BY <1>0, <2>1, <2>2, <2>3, OnTheWayHas, OnTheWayWithin DEF shop
  <2>5. \A b \in Books : (Carried(b) => Carried(b)') /\ (Left(b) => Left(b)')
    BY <1>0, <2>1, <2>2, StillCarried DEF shop, Left
  <2>6. Flow /\ RunGoesOn
    BY <2>1, <2>4, <2>5 DEF Flow, RunGoesOn, shop
  <2>. QED BY <2>2, <2>3, <2>6 DEF Whole, Step
<1>2. CASE ~(workers[p].tries < MaxTries)
  <2>1. /\ workers' = [workers EXCEPT ![p] = Idle] /\ requests' = kept
        /\ IF p = Command
             THEN command' = NoRun /\ UNCHANGED <<delayed, excuses>>
             ELSE GivesUp(p) /\ UNCHANGED command
    BY <1>2 DEF Unanswered
  <2>2. /\ workers' \in [Clients -> {Idle} \cup Busy] /\ requests' \subseteq Request
        /\ OneOut'
        /\ ~workers'[p].busy
        /\ \A r \in Clients \ {p} : workers'[r] = workers[r]
        /\ \A q \in requests' : \E r \in requests : r.payload = q.payload
    BY <2>1, CallEnds
  <2>3. CASE p = Command
    <3>1. /\ command' \in Run /\ command'.left = {} /\ command'.alone = {}
          /\ ~command'.clean /\ ~command'.synchronised
          /\ UNCHANGED <<delayed, excuses>>
      <4>1. command' = NoRun /\ UNCHANGED <<delayed, excuses>>
        BY <2>1, <2>3
      <4>. QED BY <4>1, NoRunIs
    <3>2. TypeInv'
      BY <2>2, <3>1 DEF TypeInv, shop
    <3>3. OnTheWay' \subseteq OnTheWay
      BY <2>2, <2>3, <3>1, <3>2, OnTheWayHas, OnTheWayWithin DEF shop
    <3>4. \A b \in Books : Carried(b) => Carried(b)'
      BY <1>0, <2>2, <2>3, <3>1, StillCarried DEF shop
    <3>5. Flow /\ RunEnds
      BY <3>1, <3>3, <3>4 DEF Flow, RunEnds, shop
    <3>. QED BY <2>2, <3>2, <3>5 DEF Whole, Step
  <2>4. CASE p # Command
    <3>. DEFINE again == [payload |-> workers[p].payload,
                          retries |-> workers[p].retries + 1]
                book == workers[p].payload.book
    <3>1. p \in Workers /\ GivesUp(p) /\ command' = command
      BY <1>0, <2>1, <2>4
    <3>2. /\ delayed \subseteq delayed' /\ delayed' \subseteq Message
          /\ excuses' \in [Books -> SUBSET Reasons]
          /\ \A b \in Books : excuses[b] \subseteq excuses'[b]
          /\ \A m \in delayed' : m \in delayed \/ m.payload = workers[p].payload
          /\ \/ "dropped" \in excuses'[book]
             \/ \E m \in delayed' : m.payload = workers[p].payload
      <4>1. CASE workers[p].retries < MaxRetries
        <5>1. delayed' = delayed \cup {again} /\ UNCHANGED excuses
          BY <3>1, <4>1 DEF GivesUp
        <5>2. again \in Message /\ again.payload = workers[p].payload
          BY <1>0, <4>1, BookSyncAssumption DEF Message
        <5>. HIDE DEF again
        <5>. QED BY <5>1, <5>2 DEF TypeInv
      <4>2. CASE ~(workers[p].retries < MaxRetries)
        <5>1. UNCHANGED delayed /\ excuses' = [excuses EXCEPT ![book] = @ \cup {"dropped"}]
          BY <3>1, <4>2 DEF GivesUp, Excuse
        <5>. QED BY <1>0, <5>1 DEF TypeInv, Reasons
      <4>. QED BY <4>1, <4>2
    <3>3. TypeInv'
      BY <2>2, <3>1, <3>2 DEF TypeInv, shop
    <3>4. OnTheWay' \subseteq OnTheWay
      BY <1>0, <2>2, <3>1, <3>2, <3>3, OnTheWayHas, OnTheWayWithin DEF shop
    <3>5. ASSUME NEW b \in Books, Carried(b), excuses'[b] \subseteq {"busy"}
          PROVE  Carried(b)'
      <4>1. CASE b = book
        <5>1. PICK m \in delayed' : m.payload = workers[p].payload
          BY <3>2, <3>5, <4>1
        <5>2. workers[p].payload \in Tasks'
          BY <5>1 DEF Tasks
        <5>. QED BY <4>1, <5>2 DEF Carried
      <4>2. CASE b # book
        BY <1>0, <2>2, <3>2, <3>5, <4>2, StillCarried DEF shop
      <4>. QED BY <4>1, <4>2
    <3>6. \A b \in Books : Left(b) => Left(b)'
      BY <1>0, <2>2, <2>4, <3>1 DEF Left
    <3>7. Flow /\ RunGoesOn
      BY <3>1, <3>2, <3>4, <3>5, <3>6 DEF Flow, RunGoesOn, shop
    <3>. QED BY <2>2, <3>3, <3>7 DEF Whole, Step
  <2>. QED BY <2>3, <2>4
<1>. QED BY <1>1, <1>2

\* A call fails.
LEMMA CallFailsStep ==
    ASSUME TypeInv, OneOut, NEW p \in Clients, CallFails(p)
    PROVE  Whole
<1>1. PICK kept \in Orphaned(p) : Unanswered(p, kept)
  BY DEF CallFails
<1>2. workers[p].busy
  BY DEF CallFails, OneOut
<1>3. Rest(p, kept)
  BY <1>1, OrphanedRest
<1>. QED BY <1>1, <1>2, <1>3, UnansweredStep DEF CallFails

\* A Celery process dies.
LEMMA WorkerDiesStep ==
    ASSUME TypeInv, OneOut, NEW w \in Workers, WorkerDies(w)
    PROVE  Whole
<1>. DEFINE book == workers[w].payload.book
<1>0. /\ Workers \subseteq Clients /\ w \in Clients /\ Command \in Clients \ {w}
      /\ book \in Books
  BY BusyIs, BookSyncAssumption DEF WorkerDies, Clients, Payload
<1>1. PICK kept \in Orphaned(w) : requests' = kept
  BY DEF WorkerDies
<1>2. Rest(w, kept)
  BY <1>0, <1>1, OrphanedRest
<1>3. /\ workers' \in [Clients -> {Idle} \cup Busy] /\ requests' \subseteq Request
      /\ OneOut'
      /\ ~workers'[w].busy
      /\ \A r \in Clients \ {w} : workers'[r] = workers[r]
      /\ \A q \in requests' : \E r \in requests : r.payload = q.payload
  BY <1>0, <1>1, <1>2, CallEnds DEF WorkerDies
<1>4. /\ excuses' \in [Books -> SUBSET Reasons] /\ "dropped" \in excuses'[book]
      /\ \A b \in Books : excuses[b] \subseteq excuses'[b]
  BY <1>0 DEF WorkerDies, Excuse, TypeInv, Reasons
<1>5. TypeInv'
  BY <1>3, <1>4 DEF WorkerDies, TypeInv, shop, broker
<1>6. OnTheWay' \subseteq OnTheWay
  BY <1>0, <1>3, <1>5, OnTheWayHas, OnTheWayWithin DEF WorkerDies, shop, broker
<1>7. ASSUME NEW b \in Books, Carried(b), b # book
      PROVE  Carried(b)'
  BY <1>0, <1>3, <1>7, StillCarried DEF WorkerDies, shop, broker
<1>8. \A b \in Books : Left(b) => Left(b)'
  BY <1>0, <1>3 DEF WorkerDies, Left
<1>9. Flow /\ RunGoesOn
  BY <1>4, <1>6, <1>7, <1>8 DEF WorkerDies, Flow, RunGoesOn, shop
<1>. QED BY <1>3, <1>5, <1>9 DEF Whole, Step

(***************************************************************************)
(* Warehouse serves a request                                              *)
(***************************************************************************)

\* An orphan is gone without notice.
LEMMA OrphanGone ==
    ASSUME TypeInv, OneOut, NEW q \in requests, q.from = Nobody,
           requests' = requests \ {q}, workers' = workers
    PROVE  requests' \subseteq Request /\ OneOut'
<1>1. \A r \in Clients : Out(r)' = Out(r)
  BY BookSyncAssumption DEF Clients, Out
<1>2. \A r \in Clients : \A x : Out(r) = {x} => x \in requests'
  <2>1. \A r \in Clients : \A x : Out(r) = {x} => x \in Out(r)'
    BY <1>1
  <2>. QED BY <2>1 DEF Out
<1>. QED BY <1>1, <1>2 DEF OneOut, TypeInv

\* The serializer lets a request pass, or there is no row to lock.
LEMMA RequestGoesOn ==
    ASSUME TypeInv, OneOut, NEW q \in requests, NEW phase \in {"valid", "creating"},
           requests' = (requests \ {q}) \cup {[q EXCEPT !.phase = phase]},
           UNCHANGED <<enabled, shop, broker, workers, command, register, runs, excuses>>
    PROVE  Whole
<1>. DEFINE new == [q EXCEPT !.phase = phase]
<1>1. new \in Request /\ new.payload = q.payload /\ new.from = q.from
  BY DEF TypeInv, Request
<1>2. requests' = (requests \ {q}) \cup {new}
  OBVIOUS
<1>. HIDE DEF new
<1>3. \A r \in Clients : Out(r)' = IF q.from = r THEN (Out(r) \ {q}) \cup {new} ELSE Out(r)
  BY <1>1, <1>2 DEF Out
<1>4. OneOut'
  <2>1. ASSUME NEW r \in Clients
        PROVE  IF workers'[r].busy
                 THEN \E x \in requests' : Out(r)' = {x} /\ x.payload = workers'[r].payload
                 ELSE Out(r)' = {}
    <3>1. CASE q.from = r
      <4>1. workers[r].busy /\ Out(r) = {q} /\ workers[r].payload = q.payload
        BY <3>1, TheRequest
      <4>2. Out(r)' = {new} /\ new \in requests'
        BY <1>2, <1>3, <3>1, <4>1
      <4>. QED BY <1>1, <4>1, <4>2
    <3>2. CASE q.from # r
      <4>1. Out(r)' = Out(r) /\ \A x \in requests : Out(r) = {x} => x \in requests'
        BY <1>3, <3>2 DEF Out
      <4>. QED BY <4>1 DEF OneOut
    <3>. QED BY <3>1, <3>2
  <2>. QED BY <2>1 DEF OneOut
<1>5. TypeInv'
  BY <1>1, <1>2 DEF TypeInv, shop, broker
<1>6. OnTheWay' \subseteq OnTheWay
  BY <1>1, <1>2, <1>5, OnTheWayHas, OnTheWayWithin DEF shop, broker
<1>7. Flow /\ RunGoesOn
  BY <1>6 DEF Flow, RunGoesOn, shop, broker, Carried, Tasks, Left
<1>. QED BY <1>4, <1>5, <1>7 DEF Whole, Step

\* A 400 or a 500 for a client that waits no more.
LEMMA OrphanAnswered ==
    ASSUME TypeInv, OneOut, NEW q \in requests, q.from = Nobody,
           requests' = requests \ {q},
           UNCHANGED <<enabled, shop, broker, workers, command, register, runs, excuses>>
    PROVE  Whole
<1>1. requests' \subseteq Request /\ OneOut'
  BY OrphanGone
<1>2. TypeInv'
  BY <1>1 DEF TypeInv, shop, broker
<1>3. OnTheWay' \subseteq OnTheWay
  BY <1>2, OnTheWayHas, OnTheWayWithin DEF shop, broker
<1>4. Flow /\ RunGoesOn
  BY <1>3 DEF Flow, RunGoesOn, shop, broker, Carried, Tasks, Left
<1>. QED BY <1>1, <1>2, <1>4 DEF Whole, Step

\* A request is from a client or from nobody.
LEMMA FromWhom ==
    ASSUME TypeInv, NEW q \in requests
    PROVE  /\ q.from \in Clients \/ q.from = Nobody
           /\ q.payload \in Payload /\ q.payload.book \in Books
  BY DEF TypeInv, Request, Payload, Clients

\* A 400: the task or the command ends.
LEMMA RejectedStep ==
    ASSUME TypeInv, OneOut, NEW q \in requests, Rejected(q),
           UNCHANGED <<enabled, shop, queue, runs, register>>
    PROVE  Whole
<1>1. CASE q.from = Nobody
  BY <1>1, OrphanAnswered DEF Rejected, broker
<1>2. CASE q.from \in Clients
  <2>. DEFINE p == q.from
              book == q.payload.book
  <2>1. /\ requests' = requests \ {q} /\ workers' = [workers EXCEPT ![p] = Idle]
        /\ excuses' = [excuses EXCEPT ![book] = @ \cup {"rejected"}]
        /\ command' = IF p = Command THEN NoRun ELSE command
        /\ delayed' = delayed
    BY <1>2, BookSyncAssumption DEF Rejected, Clients, Excuse
  <2>2. /\ workers' \in [Clients -> {Idle} \cup Busy] /\ requests' \subseteq Request
        /\ OneOut'
        /\ ~workers'[p].busy
        /\ \A r \in Clients \ {p} : workers'[r] = workers[r]
        /\ \A x \in requests' : \E r \in requests : r.payload = x.payload
    BY <1>2, <2>1, TheRequest, CallEnds
  <2>3. /\ excuses' \in [Books -> SUBSET Reasons] /\ "rejected" \in excuses'[book]
        /\ \A b \in Books : excuses[b] \subseteq excuses'[b]
    BY <2>1, FromWhom DEF TypeInv, Reasons
  <2>4. /\ command' \in Run /\ (command'.running \/ command'.left = {})
        /\ command'.left \subseteq command.left
    BY <2>1, NoRunIs DEF TypeInv
  <2>5. TypeInv'
    BY <2>1, <2>2, <2>3, <2>4 DEF TypeInv, shop
  <2>6. OnTheWay' \subseteq OnTheWay
    BY <1>2, <2>1, <2>2, <2>4, <2>5, OnTheWayHas, OnTheWayWithin DEF shop
  <2>7. ASSUME NEW b \in Books, Carried(b), b # book
        PROVE  Carried(b)'
    <3>1. workers[p].payload = q.payload /\ Workers \subseteq Clients
      BY <1>2, TheRequest DEF Clients
    <3>. QED BY <2>1, <2>2, <2>7, <3>1, StillCarried DEF shop
  <2>8. CASE p = Command
    <3>1. RunEnds
      BY <2>1, <2>8, NoRunIs DEF RunEnds
    <3>2. Flow
      BY <2>1, <2>3, <2>6, <2>7 DEF Flow, shop
    <3>. QED BY <2>2, <2>5, <3>1, <3>2 DEF Whole, Step
  <2>9. CASE p # Command
    <3>1. Command \in Clients \ {p}
      BY <2>9 DEF Clients
    <3>2. RunGoesOn
      BY <2>1, <2>2, <2>9, <3>1 DEF RunGoesOn, Left
    <3>3. Flow
      BY <2>1, <2>3, <2>6, <2>7 DEF Flow, shop
    <3>. QED BY <2>2, <2>5, <3>2, <3>3 DEF Whole, Step
  <2>. QED BY <2>2, <2>5, <2>8, <2>9
<1>. QED BY <1>1, <1>2, FromWhom

\* A 500 counts as no answer.
LEMMA ServerErrorStep ==
    ASSUME TypeInv, OneOut, NEW q \in requests, ServerError(q),
           UNCHANGED <<enabled, shop, queue, runs, register>>
    PROVE  Whole
<1>1. CASE q.from = Nobody
  BY <1>1, OrphanAnswered DEF ServerError, broker
<1>2. CASE q.from \in Clients
  <2>1. Unanswered(q.from, requests \ {q})
    BY <1>2, BookSyncAssumption DEF ServerError, Clients
  <2>. QED BY <1>2, <2>1, TheRequest, UnansweredStep
<1>. QED BY <1>1, <1>2, FromWhom

\* sync_book writes the row and answers.
LEMMA AcceptedStep ==
    ASSUME TypeInv, OneOut, NEW q \in requests, Accepted(q),
           register' = Written(q.payload), UNCHANGED <<enabled, shop, queue, runs>>
    PROVE  Whole
<1>. DEFINE book == q.payload.book
<1>0. q.payload \in Payload /\ q.payload \in OnTheWay /\ book \in Books
  BY FromWhom, OnTheWayHas
<1>1. register' \in [Books -> Registered]
  BY <1>0 DEF Written, TypeInv, Registered, Payload
<1>2. /\ requests' = requests \ {q} /\ UNCHANGED <<delayed, command>>
      /\ excuses' \in [Books -> SUBSET Reasons]
      /\ \A b \in Books \ {book} : excuses'[b] = excuses[b]
      /\ book \notin command.alone => excuses'[book] = excuses[book]
  BY <1>0 DEF Accepted, TypeInv
<1>3. /\ workers' \in [Clients -> {Idle} \cup Busy] /\ requests' \subseteq Request
      /\ OneOut'
      /\ \A r \in Clients : \/ workers'[r] = workers[r]
                            \/ ~workers'[r].busy /\ workers[r].payload = q.payload
  <2>1. CASE q.from = Nobody
    BY <2>1, OrphanGone DEF Accepted, TypeInv
  <2>2. CASE q.from \in Clients
    <3>1. workers' = [workers EXCEPT ![q.from] = Idle]
      BY <2>2, BookSyncAssumption DEF Accepted, Clients
    <3>2. /\ workers' \in [Clients -> {Idle} \cup Busy] /\ requests' \subseteq Request
          /\ OneOut'
          /\ ~workers'[q.from].busy
          /\ \A r \in Clients \ {q.from} : workers'[r] = workers[r]
      BY <1>2, <2>2, <3>1, TheRequest, CallEnds
    <3>. QED BY <2>2, <3>2, TheRequest
  <2>. QED BY <2>1, <2>2, FromWhom
<1>4. TypeInv'
  BY <1>1, <1>2, <1>3 DEF TypeInv, shop
<1>5. OnTheWay' \subseteq OnTheWay
  BY <1>2, <1>3, <1>4, OnTheWayHas, OnTheWayWithin DEF shop
<1>6. ASSUME NEW b \in Books \ {book}
      PROVE  (Carried(b) => Carried(b)') /\ (Left(b) => Left(b)')
  <2>1. Workers \subseteq Clients /\ Command \in Clients
    BY DEF Clients
  <2>2. Carried(b) => Carried(b)'
    BY <1>2, <1>3, <2>1, StillCarried DEF shop
  <2>. QED BY <1>2, <1>3, <2>1, <2>2 DEF Left
<1>7. Arrival(q.payload)
  BY <1>0, <1>2, <1>5, <1>6 DEF Arrival, shop
<1>. QED BY <1>0, <1>3, <1>4, <1>7 DEF Whole, Step

\* The sync endpoint: it validates, then updates or creates the row.
LEMMA ServeStep ==
    ASSUME TypeInv, OneOut, NEW p \in Clients \cup {Nobody}, ServeRequest(p)
    PROVE  Whole
<1>1. PICK q \in requests : Serve(q)
  BY DEF ServeRequest, Out
<1>2. UNCHANGED <<enabled, shop, queue, runs>>
  BY DEF ServeRequest
<1>3. CASE Validate(q)
  <2>1. CASE Clash(q.payload)
    BY <1>2, <1>3, <2>1, RejectedStep DEF Validate
  <2>2. CASE ~Clash(q.payload)
    BY <1>2, <1>3, <2>2, RequestGoesOn DEF Validate, broker
  <2>. QED BY <2>1, <2>2
<1>4. CASE Update(q)
  BY <1>2, <1>4, ServerErrorStep, AcceptedStep DEF Update
<1>5. CASE FindNone(q)
  BY <1>2, <1>5, RequestGoesOn DEF FindNone, broker
<1>6. CASE Create(q)
  BY <1>2, <1>6, ServerErrorStep, AcceptedStep DEF Create
<1>. QED BY <1>1, <1>3, <1>4, <1>5, <1>6 DEF Serve

(***************************************************************************)
(* The invariant and the theorems                                          *)
(***************************************************************************)

\* Nothing happens.
LEMMA StutterStep ==
    ASSUME TypeInv, OneOut, UNCHANGED vars
    PROVE  Whole
<1>1. TypeInv' /\ OneOut'
  BY DEF vars, shop, broker, TypeInv, OneOut, Out
<1>2. Flow /\ RunGoesOn
  BY DEF vars, shop, broker, Flow, RunGoesOn, OnTheWay, Carried, Tasks, Left
<1>. QED BY <1>1, <1>2 DEF Whole, Step

\* Every step of Next is one of these.
LEMMA EveryStep ==
    ASSUME TypeInv, OneOut, [Next]_vars
    PROVE  Whole
<1>1. ASSUME NEW b \in Books,
             SaveBook(b) \/ DeleteBook(b) \/ StaffWithdraw(b) \/ StaffSave(b)
      PROVE  Whole
  BY <1>1, SaveBookStep, DeleteBookStep, StaffStep
<1>2. ASSUME NEW w \in Workers, Take(w) \/ TakeRetry(w) \/ WorkerDies(w)
      PROVE  Whole
  BY <1>2, TakeStep, WorkerDiesStep
<1>. QED
  BY <1>1, <1>2, EnableStep, EnqueueStep, CallFailsStep, ServeStep, StartRunStep,
     SendNextStep, FinishRunStep, StutterStep DEF Next

\* The invariant holds at the start.
LEMMA InitHolds ==
    ASSUME Init
    PROVE  Inv
<1>1. TypeInv
  <2>1. NoRun \in Run /\ NoRun.left = {}
    BY NoRunIs
  <2>2. catalogue \in [Books -> Row] /\ register \in [Books -> Registered]
        /\ \A b \in Books : catalogue[b].edition <= changes
    BY BookSyncAssumption DEF Init, Row, Registered, Editions
  <2>. QED BY <2>1, <2>2, BookSyncAssumption DEF Init, TypeInv, Clients, Reasons
<1>2. \A p \in Clients : ~workers[p].busy
  BY DEF Init, Idle, Clients
<1>3. OneOut
  BY <1>2 DEF Init, OneOut, Out
<1>4. OnTheWay = {}
  <2>1. {p \in DOMAIN workers : workers[p].busy} = {}
    BY <1>2 DEF Init, Clients
  <2>. QED BY <2>1, NoRunIs DEF Init, OnTheWay
<1>5. \A b \in Books : Agrees(b) /\ ~IsListed(b)
  BY DEF Init, Agrees, IsListed
<1>6. UniqueIsbns /\ Saved /\ Settles /\ Alone /\ RunIsClean
  BY <1>4, <1>5, NoRunIs DEF Init, UniqueIsbns, Saved, Settles, Alone, RunIsClean, Current
<1>. QED BY <1>1, <1>3, <1>6 DEF Inv

\* The invariant is inductive.
LEMMA InvStep ==
    ASSUME Inv, [Next]_vars
    PROVE  Inv'
<1>1. TypeInv' /\ OneOut' /\ Step
  BY EveryStep DEF Inv, Whole
<1>. QED
  BY <1>1, UniqueIsbnsStep, SavedStep, SettlesStep, AloneStep, RunIsCleanStep DEF Inv

\* The inductive invariant holds in every reachable state.
THEOREM Invariance == Spec => []Inv
<1>1. Init => Inv
  BY InitHolds
<1>2. Inv /\ [Next]_vars => Inv'
  BY InvStep
<1>. QED BY <1>1, <1>2, PTL DEF Spec

\* BookSync.TypeOK: rows, payloads, messages, requests and the register keep
\* their types, and a client that waits has exactly one request out.
THEOREM TypeCorrect == Spec => []TypeOK
<1>1. ASSUME Inv PROVE TypeOK
  <2>1. ASSUME NEW p \in Clients, workers[p].busy
        PROVE  /\ workers[p].payload \in Payload /\ workers[p].retries \in 0..MaxRetries
               /\ workers[p].tries \in 1..MaxTries /\ Cardinality(Out(p)) = 1
    <3>1. PICK q \in requests : Out(p) = {q}
      BY <1>1, <2>1 DEF Inv, OneOut
    <3>2. Cardinality({q}) = 1
      BY FS_Singleton
    <3>. QED BY <1>1, <2>1, <3>1, <3>2, BusyIs DEF Inv
  <2>2. command.left \subseteq Payload
    BY <1>1 DEF Inv, TypeInv, Run
  <2>. QED BY <1>1, <2>1, <2>2 DEF Inv, TypeInv, TypeOK
<1>. QED BY <1>1, Invariance, PTL

\* BookSync.RegisterIsCurrent: retries, duplicates, overtaking and raced
\* creations alone never lose or revert a change of a book.
THEOREM RegisterCurrent == Spec => []RegisterIsCurrent
<1>1. ASSUME Inv PROVE RegisterIsCurrent
  <2>1. Tasks \subseteq OnTheWay
    BY <1>1, OnTheWayType DEF Inv
  <2>. QED BY <1>1, <2>1 DEF Inv, Settles, RegisterIsCurrent, Carried, InFlight
<1>. QED BY <1>1, Invariance, PTL

\* BookSync.RunSynchronisesListed: a run of sync_warehouse_books that nothing
\* disturbs leaves every listed book in the register as it is in the shop.
THEOREM RunSynchronises == Spec => []RunSynchronisesListed
<1>1. Inv => RunSynchronisesListed
  BY DEF Inv, RunIsClean, RunSynchronisesListed
<1>. QED BY <1>1, Invariance, PTL

\* A book is newly rejected only when Warehouse answers a request about it 400.
LEMMA RejectedOnClash ==
    ASSUME TypeInv, [Next]_vars, NEW b \in Books, "rejected" \in excuses'[b] \ excuses[b]
    PROVE  \E q \in requests \ requests' : q.payload.book = b /\ Clash(q.payload)
<1>0. excuses \in [Books -> SUBSET Reasons]
  BY DEF TypeInv
<1>1. ASSUME NEW a \in Books,
             SaveBook(a) \/ DeleteBook(a) \/ StaffWithdraw(a) \/ StaffSave(a)
      PROVE  FALSE
  <2>1. ASSUME NEW row, Changes(a, row)
        PROVE  FALSE
    BY <1>0, <2>1 DEF Changes, Reexcused
  <2>2. ASSUME NEW row, StaffWrite(a, row)
        PROVE  FALSE
    BY <1>0, <2>2 DEF StaffWrite, Excuse
  <2>. QED
    BY <1>1, <2>1, <2>2 DEF SaveBook, DeleteBook, StaffWithdraw, StaffSave
<1>2. ASSUME NEW payload \in pending, Enqueue(payload) \/ LoseCallback(payload)
      PROVE  FALSE
  BY <1>0, <1>2 DEF Enqueue, LoseCallback, Excuse
<1>3. ASSUME NEW w \in Workers, Take(w) \/ TakeRetry(w) \/ WorkerDies(w)
      PROVE  FALSE
  BY <1>0, <1>3 DEF Take, TakeRetry, WorkerDies, Runs, Excuse
<1>4. ASSUME NEW p \in Clients, NEW kept, Unanswered(p, kept)
      PROVE  FALSE
  BY <1>0, <1>4 DEF Unanswered, GivesUp, Excuse
<1>5. ASSUME NEW p \in Clients, CallFails(p)
      PROVE  FALSE
  BY <1>4, <1>5 DEF CallFails
<1>6. CASE EnableIntegration \/ StartRun \/ SendNext \/ FinishRun \/ UNCHANGED vars
  BY <1>0, <1>6 DEF EnableIntegration, StartRun, SendNext, FinishRun, vars
<1>7. ASSUME NEW p \in Clients \cup {Nobody}, ServeRequest(p)
      PROVE  \E q \in requests \ requests' : q.payload.book = b /\ Clash(q.payload)
  <2>1. PICK q \in requests : Serve(q)
    BY <1>7 DEF ServeRequest, Out
  <2>2. ~Accepted(q)
    BY <1>0 DEF Accepted
  <2>3. ~ServerError(q)
    <3>1. q.from \in Clients \/ q.from = Nobody
      BY FromWhom
    <3>. QED BY <1>0, <1>4, <3>1 DEF ServerError
  <2>4. excuses' # excuses
    BY <1>0
  <2>5. Validate(q) /\ Clash(q.payload) /\ Rejected(q)
    BY <2>1, <2>2, <2>3, <2>4 DEF Serve, Validate, Update, FindNone, Create
  <2>. QED BY <1>0, <2>4, <2>5 DEF Rejected, Excuse
<1>. QED BY <1>1, <1>2, <1>3, <1>5, <1>6, <1>7 DEF Next

\* BookSync.RejectedByStaleRow: the ISBN of a rejected current copy is held by a
\* book that was deleted, or whose own row is not settled.
THEOREM RejectedStale == Spec => RejectedByStaleRow
<1>1. ASSUME Inv, [Next]_vars, NEW b \in Books, "rejected" \in excuses'[b] \ excuses[b]
      PROVE  \E q \in requests \ requests' : q.payload.book = b /\
                \E other \in Books \ {b} :
                   /\ register[other].isbn = q.payload.isbn
                   /\ IsListed(b) /\ Copy(b, catalogue[b]) = q.payload =>
                         \/ ~IsListed(other) \/ InFlight(other)
                         \/ ~(excuses[other] \subseteq {"busy"})
  <2>1. PICK q \in requests \ requests' : q.payload.book = b /\ Clash(q.payload)
    BY <1>1, RejectedOnClash DEF Inv
  <2>2. PICK other \in Books \ {b} :
           /\ register[other].listing # "absent" /\ register[other].isbn = q.payload.isbn
           /\ q.payload.isbn # NoIsbn
    BY <2>1 DEF Clash
  <2>3. ASSUME IsListed(b), Copy(b, catalogue[b]) = q.payload, IsListed(other),
               ~InFlight(other), excuses[other] \subseteq {"busy"}
        PROVE  FALSE
    <3>1. catalogue[b].isbn = q.payload.isbn
      BY <2>3 DEF Copy
    <3>2. Agrees(other)
      <4>1. Tasks \subseteq OnTheWay
        BY <1>1, OnTheWayType DEF Inv
      <4>. QED BY <1>1, <2>3, <4>1 DEF Inv, Settles, Carried, InFlight
    <3>3. register[other].isbn = catalogue[other].isbn
      BY <1>1, <2>3, <3>2 DEF Agrees, IsListed, Inv, TypeInv, Row
    <3>. QED BY <1>1, <2>2, <2>3, <3>1, <3>3 DEF Inv, UniqueIsbns
  <2>. QED BY <2>1, <2>2, <2>3
<1>2. Inv /\ [Next]_vars =>
        [\A b \in Books : "rejected" \in excuses'[b] \ excuses[b] =>
            \E q \in requests \ requests' : q.payload.book = b /\
                \E other \in Books \ {b} :
                   /\ register[other].isbn = q.payload.isbn
                   /\ IsListed(b) /\ Copy(b, catalogue[b]) = q.payload =>
                         \/ ~IsListed(other) \/ InFlight(other)
                         \/ ~(excuses[other] \subseteq {"busy"})]_vars
  BY <1>1
<1>. QED BY <1>2, Invariance, PTL DEF Spec, RejectedByStaleRow
==============================================================================
