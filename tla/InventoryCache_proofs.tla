------------------------ MODULE InventoryCache_proofs ------------------------
(***************************************************************************)
(* Proofs about InventoryCache, for any books, spellings of their ids,     *)
(* readers, writers, timeout and longest request.                          *)
(***************************************************************************)
EXTENDS InventoryCache, TLAPS

\* The age of an entry and the time that it has left never exceed Ttl +
\* MaxRequest together, and the age of a row in a reader's hands never exceeds
\* the reader's own: this is what bounds staleness.
AgesBounded ==
    /\ \A key \in Keys, b \in Books :
          /\ cache[key][b].left + cache[key][b].shows.age <= MaxAge
          /\ ~cache[key][b].shows.stale => cache[key][b].shows.age = 0
    /\ \A r \in Readers, b \in Books :
          /\ readers[r].rows[b].age <= readers[r].since
          /\ ~readers[r].rows[b].stale => readers[r].rows[b].age = 0

\* A read has no stale rows before its query.  After it and without an overlap it
\* holds current rows, and no stock of a book that is withdrawn.
HeldRowsAreCurrent ==
    \A r \in Readers, b \in Books :
        /\ readers[r].at # "fill" => ~readers[r].rows[b].stale
        /\ HoldsRow(r, b) /\ ~overlapped[b] =>
              /\ ~readers[r].rows[b].stale
              /\ readers[r].key.kind = "inventory" => active[b]

\* No read that asked for stock under another spelling reaches the cache, which
\* is why a deletion need not name such a key.
SnapshotsAreCanonical ==
    /\ \A r \in Readers : readers[r].at = "fill" => Fillable(readers[r].key)
    /\ \A key \in Keys, b \in Books : ~Fillable(key) => ~Cached(key, b)

Inv ==
    /\ TypeOK /\ AgesBounded /\ HeldRowsAreCurrent /\ SnapshotsAreCanonical
    /\ FreshUnlessOverlapped /\ WithdrawnIsNotOffered

-----------------------------------------------------------------------------
\* What the assumption says of the three numbers.
LEMMA Bounds == /\ Ttl \in Nat /\ Ttl > 0 /\ MaxRequest \in Nat
                /\ MaxAge \in Nat /\ Ttl <= MaxAge /\ MaxRequest <= MaxAge
  BY InventoryCacheAssumption DEF MaxAge

\* Both keys of every spelling are keys.
LEMMA KeyTypes == /\ Canonical \in Spellings
                  /\ Detail(Canonical) \in Keys /\ Stock(Canonical) \in Keys
                  /\ \A spelling \in Spellings : Stock(spelling) \in Keys
  BY InventoryCacheAssumption DEF Detail, Stock, Keys

\* The idle records and the empty entry have the types of TypeOK.
LEMMA BlankTypes == NoEntry \in Entry /\ NoRead \in Reader /\ NoWrite \in Writer
                    /\ Current \in Snapshot
  BY Bounds, KeyTypes DEF NoEntry, Entry, NoRead, Reader, NoWrite, Writer, Current,
                          Snapshot, Changes

\* A commit does not change how old a snapshot is.
LEMMA OutdatedType ==
    ASSUME NEW s \in Snapshot
    PROVE  Outdated(s) \in Snapshot /\ Outdated(s).stale /\ Outdated(s).age = s.age
  BY DEF Snapshot, Outdated

\* A tick ages a stale snapshot by one.
LEMMA OlderType ==
    ASSUME NEW s \in Snapshot, ~s.stale => s.age = 0, s.age < MaxAge
    PROVE  /\ Older(s) \in Snapshot /\ Older(s).stale = s.stale
           /\ Older(s).age <= s.age + 1
           /\ ~Older(s).stale => Older(s).age = 0
  BY Bounds DEF Snapshot, Older

\* A deletion takes the two entries of the book whose keys str(UUID) spells, and
\* leaves every other one.
LEMMA DeletedEntries ==
    ASSUME TypeOK, NEW c \in Books, invalidate_book_state(c)
    PROVE  /\ cache' \in [Keys -> [Books -> Entry]]
           /\ \A key \in Keys, b \in Books :
                 cache'[key][b] = IF b = c /\ key.spelling = Canonical
                                    THEN NoEntry ELSE cache[key][b]
<1>1. cache \in [Keys -> [Books -> Entry]] /\ NoEntry \in Entry
  BY BlankTypes DEF TypeOK
<1>2. Detail(Canonical) # Stock(Canonical)
  BY DEF Detail, Stock
<1>3. \A key \in Keys : key.spelling = Canonical
                          <=> key = Detail(Canonical) \/ key = Stock(Canonical)
  BY DEF Keys, Detail, Stock
<1>. QED BY <1>1, <1>2, <1>3, KeyTypes DEF invalidate_book_state

-----------------------------------------------------------------------------
\* Every variable stays in its type; ages do because AgesBounded holds.
LEMMA TypeStep == TypeOK /\ AgesBounded /\ [Next]_vars => TypeOK'
<1>. SUFFICES ASSUME TypeOK, AgesBounded, [Next]_vars PROVE TypeOK'
  OBVIOUS
<1>. USE Bounds, BlankTypes
<1>1. ASSUME NEW r \in Readers, NEW key \in Keys, NEW wanted \in SUBSET Books,
             Look(r, key, wanted)
      PROVE  TypeOK'
  <2>1. [NoRead EXCEPT !.at = "query", !.key = key,
                       !.books = {b \in wanted : ~Cached(key, b)}] \in Reader
    BY DEF Reader, NoRead
  <2>. QED BY <1>1, <2>1 DEF TypeOK, Look
<1>2. ASSUME NEW r \in Readers, Query(r)
      PROVE  TypeOK'
  <2>1. readers[r] \in Reader
    BY DEF TypeOK
  <2>2. [readers[r] EXCEPT !.at = "fill", !.books =
           {b \in readers[r].books : Shown(readers[r].key, b)}] \in Reader
    BY <2>1 DEF Reader
  <2>. QED BY <1>2, <2>2 DEF TypeOK, Query
<1>3. ASSUME NEW r \in Readers, Fill(r)
      PROVE  TypeOK'
  <2>1. readers[r] \in Reader
    BY DEF TypeOK
  <2>2. \A b \in Books : Stored(readers[r].rows[b]) \in Entry
    BY <2>1 DEF Stored, Entry, Reader
  <2>3. cache' \in [Keys -> [Books -> Entry]]
    BY <1>3, <2>1, <2>2 DEF TypeOK, Fill, Reader
  <2>. QED BY <1>3, <2>3 DEF TypeOK, Fill
<1>4. ASSUME NEW r \in Readers, ReadFails(r)
      PROVE  TypeOK'
  BY <1>4 DEF TypeOK, ReadFails
<1>5. ASSUME NEW w \in Writers, NEW change \in Changes, NEW books \in SUBSET Books,
             Save(w, change, books)
      PROVE  TypeOK'
  <2>1. [at |-> "open", change |-> change, left |-> books, since |-> 0] \in Writer
    BY DEF Writer
  <2>. QED BY <1>5, <2>1 DEF TypeOK, Save
<1>6. ASSUME NEW w \in Writers, Rollback(w)
      PROVE  TypeOK'
  BY <1>6 DEF TypeOK, Rollback
<1>7. ASSUME NEW w \in Writers, Commit(w)
      PROVE  TypeOK'
  <2>1. writers[w] \in Writer
    BY DEF TypeOK
  <2>2. [writers[w] EXCEPT !.at = "committed"] \in Writer
    BY <2>1 DEF Writer
  <2>3. cache' \in [Keys -> [Books -> Entry]]
    <3>1. ASSUME NEW key \in Keys, NEW b \in Books
          PROVE  [cache[key][b] EXCEPT !.shows = Outdated(@)] \in Entry
      <4>1. cache[key][b] \in Entry
        BY DEF TypeOK
      <4>2. Outdated(cache[key][b].shows) \in Snapshot
        BY <4>1, OutdatedType DEF Entry
      <4>. QED BY <4>1, <4>2 DEF Entry
    <3>. QED BY <1>7, <3>1 DEF TypeOK, Commit, Outdates
  <2>4. readers' \in [Readers -> Reader]
    <3>1. ASSUME NEW r \in Readers
          PROVE  [readers[r] EXCEPT !.rows =
                    [b \in Books |-> IF b \in writers[w].left /\ HoldsRow(r, b)
                                       THEN Outdated(@[b]) ELSE @[b]]] \in Reader
      <4>1. readers[r] \in Reader
        BY DEF TypeOK
      <4>2. \A b \in Books : readers[r].rows[b] \in Snapshot
        BY <4>1 DEF Reader
      <4>3. \A b \in Books : Outdated(readers[r].rows[b]) \in Snapshot
        BY <4>2, OutdatedType
      <4>. QED BY <4>1, <4>2, <4>3 DEF Reader
    <3>. QED BY <1>7, <3>1 DEF TypeOK, Commit, Outdates
  <2>5. active' \in [Books -> BOOLEAN]
    BY <1>7 DEF TypeOK, Commit
  <2>6. overlapped' \in [Books -> BOOLEAN] /\ died' \in [Books -> BOOLEAN]
    BY <1>7 DEF TypeOK, Commit
  <2>. QED BY <1>7, <2>2, <2>3, <2>4, <2>5, <2>6 DEF TypeOK, Commit
<1>8. ASSUME NEW w \in Writers, Invalidate(w)
      PROVE  TypeOK'
  <2>1. PICK b \in writers[w].left :
          /\ invalidate_book_state(b)
          /\ writers' = [writers EXCEPT ![w] =
                           IF writers[w].left = {b} THEN NoWrite
                           ELSE [writers[w] EXCEPT !.left = @ \ {b}]]
    BY <1>8 DEF Invalidate
  <2>2. writers[w] \in Writer
    BY DEF TypeOK
  <2>3. [writers[w] EXCEPT !.left = @ \ {b}] \in Writer
    BY <2>2 DEF Writer
  <2>4. cache' \in [Keys -> [Books -> Entry]]
    BY <2>1, <2>2, DeletedEntries DEF Writer
  <2>. QED BY <1>8, <2>1, <2>3, <2>4 DEF TypeOK, Invalidate
<1>9. ASSUME NEW w \in Writers, WriterDies(w)
      PROVE  TypeOK'
  BY <1>9 DEF TypeOK, WriterDies
<1>10. ASSUME Tick
       PROVE  TypeOK'
  <2>1. cache' \in [Keys -> [Books -> Entry]]
    <3>1. ASSUME NEW key \in Keys, NEW b \in Books
          PROVE  Aged(cache[key][b]) \in Entry
      <4>1. cache[key][b] \in Entry
        BY DEF TypeOK
      <4>2. CASE cache[key][b].left <= 1
        BY <4>2 DEF Aged
      <4>3. CASE cache[key][b].left > 1
        <5>1. Older(cache[key][b].shows) \in Snapshot
          BY <4>1, <4>3, OlderType DEF AgesBounded, Entry, Snapshot
        <5>. QED BY <4>1, <4>3, <5>1 DEF Aged, Entry
      <4>. QED BY <4>1, <4>2, <4>3 DEF Entry
    <3>. QED BY <1>10, <3>1 DEF Tick
  <2>2. readers' \in [Readers -> Reader]
    <3>1. ASSUME NEW r \in Readers, readers[r].at # "idle"
          PROVE  [readers[r] EXCEPT !.since = @ + 1,
                    !.rows = [b \in Books |-> Older(@[b])]] \in Reader
      <4>1. readers[r] \in Reader /\ readers[r].since < MaxRequest
        BY <1>10, <3>1 DEF TypeOK, Tick
      <4>2. ASSUME NEW b \in Books PROVE Older(readers[r].rows[b]) \in Snapshot
        BY <4>1, OlderType DEF AgesBounded, Reader, Snapshot
      <4>3. readers[r].since + 1 \in 0..MaxRequest
        BY <4>1 DEF Reader
      <4>4. [b \in Books |-> Older(readers[r].rows[b])] \in [Books -> Snapshot]
        BY <4>2
      <4>. QED BY <4>1, <4>3, <4>4 DEF Reader
    <3>. QED BY <1>10, <3>1 DEF Tick
  <2>3. writers' \in [Writers -> Writer]
    <3>1. ASSUME NEW w \in Writers, writers[w].at = "committed"
          PROVE  [writers[w] EXCEPT !.since = @ + 1] \in Writer
      <4>1. writers[w] \in Writer /\ writers[w].since < MaxRequest
        BY <1>10, <3>1 DEF TypeOK, Tick
      <4>. QED BY <4>1 DEF Writer
    <3>. QED BY <1>10, <3>1 DEF TypeOK, Tick
  <2>. QED BY <1>10, <2>1, <2>2, <2>3 DEF TypeOK, Tick
<1>11. CASE UNCHANGED vars
  BY <1>11 DEF TypeOK, vars
<1>. QED BY <1>1, <1>2, <1>3, <1>4, <1>5, <1>6, <1>7, <1>8, <1>9, <1>10, <1>11,
            KeyTypes DEF Next

\* Ages and lifetimes: an entry is stored with a full lifetime and an age of at
\* most one request, and each tick takes from one what it adds to the other.
LEMMA AgesStep == TypeOK /\ AgesBounded /\ [Next]_vars => AgesBounded'
<1>. SUFFICES ASSUME TypeOK, AgesBounded, [Next]_vars PROVE AgesBounded'
  OBVIOUS
<1>. USE Bounds
<1>a. \A key \in Keys, b \in Books : cache[key][b] \in Entry
  BY DEF TypeOK
<1>b. \A r \in Readers : readers[r] \in Reader
  BY DEF TypeOK
<1>c. \A b \in Books : NoRead.rows[b] = Current
  BY DEF NoRead
<1>d. /\ NoRead.since = 0 /\ NoEntry.left = 0 /\ NoEntry.shows = Current
      /\ Current.age = 0 /\ Current.stale = FALSE
  BY DEF NoRead, NoEntry, Current
<1>1. ASSUME NEW r \in Readers, NEW key \in Keys, NEW wanted \in SUBSET Books,
             Look(r, key, wanted)
      PROVE  AgesBounded'
  <2>1. readers'[r].rows = NoRead.rows /\ readers'[r].since = 0
    BY <1>1 DEF Look, TypeOK, NoRead
  <2>2. \A q \in Readers : q # r => readers'[q] = readers[q]
    BY <1>1 DEF Look, TypeOK
  <2>. QED BY <1>1, <1>c, <1>d, <2>1, <2>2 DEF AgesBounded, Look
<1>2. ASSUME NEW r \in Readers, Query(r)
      PROVE  AgesBounded'
  <2>1. \/ readers'[r] = NoRead
        \/ readers'[r].rows = readers[r].rows /\ readers'[r].since = readers[r].since
    BY <1>2, <1>b DEF Query, TypeOK, Reader
  <2>2. \A q \in Readers : q # r => readers'[q] = readers[q]
    BY <1>2 DEF Query, TypeOK
  <2>. QED BY <1>2, <1>c, <1>d, <2>1, <2>2 DEF AgesBounded, Query
<1>3. ASSUME NEW r \in Readers, Fill(r)
      PROVE  AgesBounded'
  <2>1. \A q \in Readers : readers'[q] = readers[q] \/ readers'[q] = NoRead
    BY <1>3 DEF Fill, TypeOK
  <2>2. ASSUME NEW key \in Keys, NEW b \in Books
        PROVE  \/ cache'[key][b] = cache[key][b]
               \/ cache'[key][b] = Stored(readers[r].rows[b])
    BY <1>3 DEF Fill, TypeOK
  <2>3. ASSUME NEW b \in Books
        PROVE  /\ Stored(readers[r].rows[b]).left = Ttl
               /\ Stored(readers[r].rows[b]).shows = readers[r].rows[b]
               /\ Ttl + readers[r].rows[b].age <= MaxAge
    BY <1>b DEF Stored, AgesBounded, Reader, Snapshot, MaxAge
  <2>. QED BY <1>c, <1>d, <2>1, <2>2, <2>3 DEF AgesBounded
<1>4. ASSUME NEW r \in Readers, ReadFails(r)
      PROVE  AgesBounded'
  <2>1. \A q \in Readers : readers'[q] = readers[q] \/ readers'[q] = NoRead
    BY <1>4 DEF ReadFails, TypeOK
  <2>. QED BY <1>4, <1>c, <1>d, <2>1 DEF AgesBounded, ReadFails
<1>5. ASSUME NEW w \in Writers,
             \/ \E change \in Changes, books \in SUBSET Books : Save(w, change, books)
             \/ Rollback(w) \/ WriterDies(w)
      PROVE  AgesBounded'
  BY <1>5 DEF AgesBounded, Save, Rollback, WriterDies
<1>6. ASSUME NEW w \in Writers, Commit(w)
      PROVE  AgesBounded'
  <2>1. ASSUME NEW key \in Keys, NEW b \in Books
        PROVE  /\ cache'[key][b].left = cache[key][b].left
               /\ \/ cache'[key][b].shows = cache[key][b].shows
                  \/ cache'[key][b].shows = Outdated(cache[key][b].shows)
    BY <1>6, <1>a DEF Commit, Outdates, Entry
  <2>2. ASSUME NEW r \in Readers, NEW b \in Books
        PROVE  /\ readers'[r].since = readers[r].since
               /\ \/ readers'[r].rows[b] = readers[r].rows[b]
                  \/ readers'[r].rows[b] = Outdated(readers[r].rows[b])
    BY <1>6, <1>b DEF Commit, Outdates, Reader
  <2>3. \A key \in Keys, b \in Books : cache[key][b].shows \in Snapshot
    BY <1>a DEF Entry
  <2>4. \A r \in Readers, b \in Books : readers[r].rows[b] \in Snapshot
    BY <1>b DEF Reader
  <2>. QED BY <2>1, <2>2, <2>3, <2>4, OutdatedType DEF AgesBounded
<1>7. ASSUME NEW w \in Writers, Invalidate(w)
      PROVE  AgesBounded'
  <2>1. \A key \in Keys, b \in Books :
           cache'[key][b] = cache[key][b] \/ cache'[key][b] = NoEntry
    <3>1. writers[w].left \subseteq Books
      BY DEF TypeOK, Writer
    <3>. QED BY <1>7, <3>1, DeletedEntries DEF Invalidate
  <2>. QED BY <1>7, <1>d, <2>1 DEF AgesBounded, Invalidate
<1>8. ASSUME Tick
      PROVE  AgesBounded'
  <2>1. ASSUME NEW key \in Keys, NEW b \in Books
        PROVE  /\ cache'[key][b].left + cache'[key][b].shows.age <= MaxAge
               /\ ~cache'[key][b].shows.stale => cache'[key][b].shows.age = 0
    <3>1. cache'[key][b] = Aged(cache[key][b])
      BY <1>8 DEF Tick
    <3>2. CASE cache[key][b].left <= 1
      BY <1>d, <3>1, <3>2 DEF Aged
    <3>3. CASE cache[key][b].left > 1
      <4>1. /\ cache'[key][b].left = cache[key][b].left - 1
            /\ cache'[key][b].shows = Older(cache[key][b].shows)
        BY <1>a, <3>1, <3>3 DEF Aged, Entry
      <4>2. cache[key][b].shows \in Snapshot /\ cache[key][b].left \in Nat
        BY <1>a DEF Entry
      <4>3. cache[key][b].shows.age < MaxAge /\ cache[key][b].shows.age \in Nat
        BY <3>3, <4>2 DEF AgesBounded, Snapshot
      <4>4. Older(cache[key][b].shows) \in Snapshot
        BY <4>2, <4>3, OlderType DEF AgesBounded
      <4>. QED BY <4>1, <4>2, <4>3, <4>4, OlderType DEF AgesBounded, Snapshot
    <3>. QED BY <1>a, <3>2, <3>3 DEF Entry
  <2>2. ASSUME NEW r \in Readers, NEW b \in Books
        PROVE  /\ readers'[r].rows[b].age <= readers'[r].since
               /\ ~readers'[r].rows[b].stale => readers'[r].rows[b].age = 0
    <3>1. CASE readers[r].at = "idle"
      <4>1. readers'[r] = NoRead
        BY <1>8, <3>1 DEF Tick
      <4>. QED BY <1>c, <1>d, <4>1
    <3>2. CASE readers[r].at # "idle"
      <4>1. /\ readers'[r].since = readers[r].since + 1
            /\ readers'[r].rows[b] = Older(readers[r].rows[b])
        BY <1>8, <1>b, <3>2 DEF Tick, Reader
      <4>2. /\ readers[r].rows[b] \in Snapshot /\ readers[r].since \in Nat
            /\ readers[r].since < MaxRequest
        <5>1. readers[r].since < MaxRequest
          BY <1>8, <3>2 DEF Tick
        <5>2. readers[r] \in Reader
          BY <1>b
        <5>. QED BY <5>1, <5>2 DEF Reader
      <4>3. readers[r].rows[b].age < MaxAge /\ readers[r].rows[b].age \in Nat
        BY <4>2 DEF AgesBounded, Snapshot
      <4>4. Older(readers[r].rows[b]) \in Snapshot
        BY <4>2, <4>3, OlderType DEF AgesBounded
      <4>. QED BY <4>1, <4>2, <4>3, <4>4, OlderType DEF AgesBounded, Snapshot
    <3>. QED BY <3>1, <3>2
  <2>. QED BY <2>1, <2>2 DEF AgesBounded
<1>9. CASE UNCHANGED vars
  BY <1>9 DEF AgesBounded, vars
<1>. QED BY KeyTypes, <1>1, <1>2, <1>3, <1>4, <1>5, <1>6, <1>7, <1>8, <1>9 DEF Next
-----------------------------------------------------------------------------
\* What a step that is no commit and no query does to a reader: it stays as it
\* is but for its rows' ages, or it is done.
Keeps(r) ==
    \/ readers'[r].at # "fill" /\ \A b \in Books : ~readers'[r].rows[b].stale
    \/ /\ readers'[r].at = readers[r].at
       /\ readers'[r].key = readers[r].key /\ readers'[r].books = readers[r].books
       /\ \A b \in Books : readers'[r].rows[b].stale = readers[r].rows[b].stale

\* Such steps leave the history of commits and the books alone too, unless a
\* writer dies.
LEMMA KeptRows ==
    ASSUME HeldRowsAreCurrent, \A r \in Readers : Keeps(r),
           active' = active, overlapped' = overlapped
    PROVE  HeldRowsAreCurrent'
  BY DEF HeldRowsAreCurrent, HoldsRow, Keeps

\* A query returns current rows, and no stock of books that are inactive.  A
\* commit that meets a reader of one of its books is an overlap.
LEMMA HeldStep == TypeOK /\ AgesBounded /\ HeldRowsAreCurrent /\ [Next]_vars
                    => HeldRowsAreCurrent'
<1>. SUFFICES ASSUME TypeOK, AgesBounded, HeldRowsAreCurrent, [Next]_vars
              PROVE  HeldRowsAreCurrent'
  OBVIOUS
<1>a. \A r \in Readers : readers[r] \in Reader
  BY DEF TypeOK
<1>b. NoRead.at # "fill" /\ \A b \in Books : ~NoRead.rows[b].stale
  BY DEF NoRead, Current
<1>1. ASSUME NEW r \in Readers, NEW key \in Keys, NEW wanted \in SUBSET Books,
             Look(r, key, wanted)
      PROVE  HeldRowsAreCurrent'
  <2>1. readers'[r].at # "fill" /\ readers'[r].rows = NoRead.rows
    BY <1>1 DEF Look, TypeOK, NoRead
  <2>2. \A q \in Readers : q # r => readers'[q] = readers[q]
    BY <1>1 DEF Look, TypeOK
  <2>3. \A q \in Readers : Keeps(q)
    BY <1>b, <2>1, <2>2 DEF Keeps
  <2>. QED BY <1>1, <2>3, KeptRows DEF Look
<1>2. ASSUME NEW r \in Readers, Query(r)
      PROVE  HeldRowsAreCurrent'
  <2>. DEFINE found == {b \in readers[r].books : Shown(readers[r].key, b)}
  <2>1. \A q \in Readers : q # r => readers'[q] = readers[q]
    BY <1>2 DEF Query, TypeOK
  <2>2. CASE found = {} \/ ~Fillable(readers[r].key)
    <3>1. \A q \in Readers : Keeps(q)
      BY <1>2, <1>b, <2>1, <2>2 DEF Keeps, Query, TypeOK
    <3>. QED BY <1>2, <3>1, KeptRows DEF Query
  <2>3. CASE found # {} /\ Fillable(readers[r].key)
    <3>1. /\ readers'[r].key = readers[r].key /\ readers'[r].books = found
          /\ readers'[r].rows = readers[r].rows
      BY <1>2, <1>a, <2>3 DEF Query, TypeOK, Reader
    <3>2. active' = active /\ overlapped' = overlapped /\ readers[r].at = "query"
      BY <1>2 DEF Query
    <3>3. \A b \in Books : ~readers'[r].rows[b].stale
      BY <3>1, <3>2 DEF HeldRowsAreCurrent
    <3>4. ASSUME NEW b \in Books, b \in found, readers[r].key.kind = "inventory"
          PROVE  active[b]
      BY <3>4 DEF Shown
    <3>5. \A q \in Readers, b \in Books : q # r => (HoldsRow(q, b)' <=> HoldsRow(q, b))
      BY <2>1 DEF HoldsRow
    <3>6. \A b \in Books : HoldsRow(r, b)' => b \in found
      BY <3>1 DEF HoldsRow
    <3>. QED BY <2>1, <3>1, <3>2, <3>3, <3>4, <3>5, <3>6 DEF HeldRowsAreCurrent
  <2>. QED BY <2>2, <2>3
<1>3. ASSUME NEW r \in Readers, Fill(r) \/ ReadFails(r)
      PROVE  HeldRowsAreCurrent'
  <2>1. \A q \in Readers : Keeps(q)
    BY <1>3, <1>b DEF Fill, ReadFails, Keeps, TypeOK
  <2>. QED BY <1>3, <2>1, KeptRows DEF Fill, ReadFails
<1>4. ASSUME NEW w \in Writers,
             \/ \E change \in Changes, books \in SUBSET Books : Save(w, change, books)
             \/ Rollback(w) \/ WriterDies(w) \/ Invalidate(w)
      PROVE  HeldRowsAreCurrent'
  <2>1. active' = active /\ overlapped' = overlapped /\ readers' = readers
    BY <1>4 DEF Save, Rollback, WriterDies, Invalidate
  <2>. QED BY <2>1, KeptRows DEF Keeps
<1>5. ASSUME NEW w \in Writers, Commit(w)
      PROVE  HeldRowsAreCurrent'
  <2>1. ASSUME NEW r \in Readers, NEW b \in Books
        PROVE  /\ readers'[r].at = readers[r].at /\ readers'[r].books = readers[r].books
               /\ readers'[r].key = readers[r].key
               /\ b \notin writers[w].left \/ ~HoldsRow(r, b)
                    => readers'[r].rows[b] = readers[r].rows[b]
    BY <1>5, <1>a DEF Commit, Outdates, Reader
  <2>2. ASSUME NEW r \in Readers, NEW b \in Books, readers'[r].at # "fill"
        PROVE  ~readers'[r].rows[b].stale
    BY <2>1, <2>2 DEF HeldRowsAreCurrent, HoldsRow
  <2>3. ASSUME NEW r \in Readers, NEW b \in Books, HoldsRow(r, b)', ~overlapped'[b]
        PROVE  /\ ~readers'[r].rows[b].stale
               /\ readers'[r].key.kind = "inventory" => active'[b]
    <3>1. HoldsRow(r, b)
      BY <2>1, <2>3 DEF HoldsRow
    <3>2. b \notin writers[w].left
      BY <1>5, <2>3, <3>1 DEF Commit
    <3>3. overlapped'[b] = overlapped[b] /\ active'[b] = active[b]
      BY <1>5, <3>2 DEF Commit
    <3>. QED BY <2>1, <2>3, <3>1, <3>2, <3>3 DEF HeldRowsAreCurrent
  <2>. QED BY <2>2, <2>3 DEF HeldRowsAreCurrent
<1>6. ASSUME Tick
      PROVE  HeldRowsAreCurrent'
  <2>1. ASSUME NEW r \in Readers PROVE Keeps(r)
    <3>1. CASE readers[r].at = "idle"
      <4>1. readers'[r] = NoRead
        BY <1>6, <3>1 DEF Tick
      <4>. QED BY <1>b, <4>1 DEF Keeps
    <3>2. CASE readers[r].at # "idle"
      <4>1. /\ readers'[r].at = readers[r].at /\ readers'[r].key = readers[r].key
            /\ readers'[r].books = readers[r].books
            /\ \A b \in Books : readers'[r].rows[b] = Older(readers[r].rows[b])
        BY <1>6, <1>a, <3>2 DEF Tick, Reader
      <4>2. \A b \in Books : Older(readers[r].rows[b]).stale = readers[r].rows[b].stale
        BY <1>a DEF Older, Reader, Snapshot
      <4>. QED BY <4>1, <4>2 DEF Keeps
    <3>. QED BY <3>1, <3>2
  <2>. QED BY <1>6, <2>1, KeptRows DEF Tick
<1>7. CASE UNCHANGED vars
  BY <1>7, KeptRows DEF vars, Keeps
<1>. QED BY KeyTypes, <1>1, <1>2, <1>3, <1>4, <1>5, <1>6, <1>7 DEF Next
-----------------------------------------------------------------------------
\* What may explain an old answer about b.
Excuse(b) == Pending(b) \/ died[b] \/ overlapped[b]

\* An entry of a book without an excuse is the one it was, for a book that had
\* none before either, or it was filled with a row that is current.
Entered(key, b) ==
    \/ ~Cached(key, b)'
    \/ /\ ~Excuse(b) /\ active'[b] = active[b] /\ Cached(key, b)
       /\ cache'[key][b].shows.stale = cache[key][b].shows.stale
    \/ ~cache'[key][b].shows.stale /\ (key.kind = "inventory" => active'[b])

\* Every entry is one of these after a step, unless its key is of the detail page
\* and no deletion names it.
LEMMA EntryStep ==
    ASSUME TypeOK, HeldRowsAreCurrent, SnapshotsAreCanonical, [Next]_vars,
           NEW key \in Keys, NEW b \in Books, ~Excuse(b)', ~Respelt(key)
    PROVE  Entered(key, b)
<1>. USE Bounds
<1>a. cache[key][b] \in Entry
  BY DEF TypeOK
<1>b. \A w \in Writers : writers[w] \in Writer
  BY DEF TypeOK
<1>c. ~(NoEntry.left > 0) /\ NoWrite.at = "idle"
  BY DEF NoEntry, NoWrite
<1>1. ASSUME active' = active, cache' = cache, overlapped' = overlapped, died' = died,
             \A w \in Writers : \/ writers'[w].at = writers[w].at
                                      /\ writers'[w].left = writers[w].left
                                \/ writers[w].at # "committed"
      PROVE  Entered(key, b)
  <2>1. ~Excuse(b)
    BY <1>1 DEF Excuse, Pending
  <2>. QED BY <1>1, <2>1 DEF Entered, Cached
<1>2. ASSUME NEW r \in Readers,
             \/ \E k \in Keys, wanted \in SUBSET Books : Look(r, k, wanted)
             \/ Query(r) \/ ReadFails(r)
      PROVE  Entered(key, b)
  BY <1>1, <1>2 DEF Look, Query, ReadFails
<1>3. ASSUME NEW r \in Readers, Fill(r)
      PROVE  Entered(key, b)
  <2>1. ~Excuse(b)
    BY <1>3 DEF Fill, Excuse, Pending
  <2>2. CASE cache'[key][b] = cache[key][b]
    BY <1>3, <2>1, <2>2 DEF Entered, Cached, Fill
  <2>3. CASE cache'[key][b] # cache[key][b]
    <3>1. /\ cache'[key][b].shows = readers[r].rows[b]
          /\ readers[r].key = key /\ HoldsRow(r, b)
      BY <1>3, <2>3 DEF Fill, TypeOK, Stored, HoldsRow
    <3>. QED BY <1>3, <2>1, <3>1 DEF HeldRowsAreCurrent, Entered, Excuse, Fill
  <2>. QED BY <2>2, <2>3
<1>4. ASSUME NEW w \in Writers,
             \/ \E change \in Changes, books \in SUBSET Books : Save(w, change, books)
             \/ Rollback(w)
      PROVE  Entered(key, b)
  <2>1. \A v \in Writers : v # w => writers'[v] = writers[v]
    BY <1>4 DEF Save, Rollback, TypeOK
  <2>2. writers[w].at # "committed"
    BY <1>4 DEF Save, Rollback
  <2>. QED BY <1>1, <1>4, <2>1, <2>2 DEF Save, Rollback
<1>5. ASSUME NEW w \in Writers, Commit(w)
      PROVE  Entered(key, b)
  <2>1. /\ writers'[w].at = "committed" /\ writers'[w].left = writers[w].left
        /\ \A v \in Writers : v # w => writers'[v] = writers[v]
    BY <1>5, <1>b DEF Commit, TypeOK, Writer
  <2>2. b \notin writers[w].left
    BY <2>1 DEF Excuse, Pending
  <2>3. ~Pending(b)
    BY <1>5, <2>1 DEF Excuse, Pending, Commit
  <2>4. ~Excuse(b) /\ active'[b] = active[b]
    BY <1>5, <2>2, <2>3 DEF Excuse, Commit
  <2>5. cache'[key][b] = cache[key][b]
    BY <1>5, <2>2 DEF Commit, Outdates
  <2>. QED BY <2>4, <2>5 DEF Entered, Cached
<1>6. ASSUME NEW w \in Writers, Invalidate(w)
      PROVE  Entered(key, b)
  <2>1. PICK c \in writers[w].left :
          /\ invalidate_book_state(c)
          /\ writers' = [writers EXCEPT ![w] =
                           IF writers[w].left = {c} THEN NoWrite
                           ELSE [writers[w] EXCEPT !.left = @ \ {c}]]
    BY <1>6 DEF Invalidate
  <2>0. c \in Books
    BY <1>b DEF Writer
  <2>2. CASE b = c
    <3>1. CASE key.spelling = Canonical
      <4>1. cache'[key][b] = NoEntry
        BY <2>0, <2>1, <2>2, <3>1, DeletedEntries
      <4>. QED BY <1>c, <4>1 DEF Entered, Cached
    <3>2. CASE key.spelling # Canonical
      <4>1. cache'[key][b] = cache[key][b]
        BY <2>0, <2>1, <3>2, DeletedEntries
      <4>2. ~Cached(key, b)
        BY <3>2 DEF SnapshotsAreCanonical, Fillable, Respelt, Keys
      <4>. QED BY <4>1, <4>2 DEF Entered, Cached
    <3>. QED BY <3>1, <3>2
  <2>3. CASE b # c
    <3>1. cache'[key][b] = cache[key][b]
      BY <2>0, <2>1, <2>3, DeletedEntries
    <3>2. \A v \in Writers : v # w => writers'[v] = writers[v]
      BY <2>1 DEF TypeOK
    <3>3. b \in writers[w].left => /\ writers'[w].at = writers[w].at
                                   /\ b \in writers'[w].left
      BY <1>b, <2>1, <2>3 DEF TypeOK, Writer
    <3>4. ~Excuse(b) /\ active' = active
      BY <1>6, <3>2, <3>3 DEF Invalidate, Excuse, Pending
    <3>. QED BY <3>1, <3>4 DEF Entered, Cached
  <2>. QED BY <2>2, <2>3
<1>7. ASSUME NEW w \in Writers, WriterDies(w)
      PROVE  Entered(key, b)
  <2>1. \A v \in Writers : v # w => writers'[v] = writers[v]
    BY <1>7 DEF WriterDies, TypeOK
  <2>2. ~died[b] /\ b \notin writers[w].left
    BY <1>7 DEF WriterDies, Excuse
  <2>3. ~Excuse(b)
    BY <1>7, <2>1, <2>2 DEF WriterDies, Excuse, Pending
  <2>. QED BY <1>7, <2>3 DEF WriterDies, Entered, Cached
<1>8. ASSUME Tick
      PROVE  Entered(key, b)
  <2>1. \A w \in Writers : /\ writers'[w].at = writers[w].at
                           /\ writers'[w].left = writers[w].left
    BY <1>8, <1>b DEF Tick, Writer
  <2>2. ~Excuse(b) /\ active' = active
    BY <1>8, <2>1 DEF Tick, Excuse, Pending
  <2>3. cache'[key][b] = Aged(cache[key][b])
    BY <1>8 DEF Tick
  <2>4. cache[key][b].left \in Nat
    BY <1>a DEF Entry
  <2>5. CASE cache[key][b].left <= 1
    BY <1>c, <2>3, <2>5 DEF Aged, Entered, Cached
  <2>6. CASE cache[key][b].left > 1
    <3>1. cache'[key][b].shows = Older(cache[key][b].shows)
      BY <1>a, <2>3, <2>6 DEF Aged, Entry
    <3>2. cache'[key][b].shows.stale = cache[key][b].shows.stale
      BY <1>a, <3>1 DEF Older, Entry, Snapshot
    <3>3. Cached(key, b) /\ active'[b] = active[b]
      BY <2>2, <2>6, <2>4 DEF Cached
    <3>. QED BY <2>2, <3>2, <3>3 DEF Entered
  <2>. QED BY <2>5, <2>6, <2>4
<1>9. CASE UNCHANGED vars
  BY <1>1, <1>9 DEF vars
<1>. QED BY KeyTypes, <1>2, <1>3, <1>4, <1>5, <1>6, <1>7, <1>8, <1>9 DEF Next

\* Only a query lets a reader go on to fill, and only a fill makes an entry.
LEMMA CanonicalStep == TypeOK /\ SnapshotsAreCanonical /\ [Next]_vars
                         => SnapshotsAreCanonical'
<1>. SUFFICES ASSUME TypeOK, SnapshotsAreCanonical, [Next]_vars
              PROVE  SnapshotsAreCanonical'
  OBVIOUS
<1>. DEFINE NoNewEntry == \A key \in Keys, b \in Books : Cached(key, b)' => Cached(key, b)
            NoNewFill == \A r \in Readers : readers'[r].at = "fill" =>
                            /\ readers[r].at = "fill" /\ readers'[r].key = readers[r].key
<1>a. NoRead.at # "fill" /\ ~(NoEntry.left > 0)
  BY DEF NoRead, NoEntry
<1>b. \A r \in Readers : readers[r] \in Reader
  BY DEF TypeOK
<1>c. \A key \in Keys, b \in Books : cache[key][b] \in Entry
  BY DEF TypeOK
<1>d. ASSUME NoNewEntry, NoNewFill PROVE SnapshotsAreCanonical'
  BY <1>d DEF SnapshotsAreCanonical, Fillable
<1>1. ASSUME NEW r \in Readers, NEW key \in Keys, NEW wanted \in SUBSET Books,
             Look(r, key, wanted)
      PROVE  SnapshotsAreCanonical'
  <2>1. NoNewFill
    BY <1>1 DEF Look, TypeOK, NoRead
  <2>. QED BY <1>1, <1>d, <2>1 DEF Look, Cached
<1>2. ASSUME NEW r \in Readers, Query(r)
      PROVE  SnapshotsAreCanonical'
  <2>1. readers'[r].at = "fill" => Fillable(readers'[r].key)
    BY <1>2, <1>a, <1>b DEF Query, TypeOK, Reader, Fillable
  <2>2. \A q \in Readers : q # r => readers'[q] = readers[q]
    BY <1>2 DEF Query, TypeOK
  <2>3. cache' = cache
    BY <1>2 DEF Query
  <2>. QED BY <2>1, <2>2, <2>3 DEF SnapshotsAreCanonical, Fillable, Cached
<1>3. ASSUME NEW r \in Readers, Fill(r)
      PROVE  SnapshotsAreCanonical'
  <2>1. NoNewFill
    BY <1>3, <1>a DEF Fill, TypeOK
  <2>2. Fillable(readers[r].key)
    BY <1>3 DEF SnapshotsAreCanonical, Fill
  <2>3. \A key \in Keys, b \in Books :
           key # readers[r].key => cache'[key][b] = cache[key][b]
    BY <1>3 DEF Fill, TypeOK
  <2>. QED BY <2>1, <2>2, <2>3 DEF SnapshotsAreCanonical, Fillable, Cached
<1>4. ASSUME NEW r \in Readers, ReadFails(r)
      PROVE  SnapshotsAreCanonical'
  <2>1. NoNewFill
    BY <1>4, <1>a DEF ReadFails, TypeOK
  <2>. QED BY <1>4, <1>d, <2>1 DEF ReadFails, Cached
<1>5. ASSUME NEW w \in Writers,
             \/ \E change \in Changes, books \in SUBSET Books : Save(w, change, books)
             \/ Rollback(w) \/ WriterDies(w)
      PROVE  SnapshotsAreCanonical'
  <2>1. cache' = cache /\ readers' = readers
    BY <1>5 DEF Save, Rollback, WriterDies
  <2>. QED BY <1>d, <2>1 DEF Cached
<1>6. ASSUME NEW w \in Writers, Commit(w)
      PROVE  SnapshotsAreCanonical'
  <2>1. NoNewFill
    BY <1>6, <1>b DEF Commit, Outdates, Reader
  <2>2. \A key \in Keys, b \in Books : cache'[key][b].left = cache[key][b].left
    BY <1>6, <1>c DEF Commit, Outdates, Entry
  <2>. QED BY <1>d, <2>1, <2>2 DEF Cached
<1>7. ASSUME NEW w \in Writers, Invalidate(w)
      PROVE  SnapshotsAreCanonical'
  <2>1. writers[w].left \subseteq Books /\ readers' = readers
    BY <1>7 DEF TypeOK, Writer, Invalidate
  <2>2. \A key \in Keys, b \in Books :
           cache'[key][b] = cache[key][b] \/ cache'[key][b] = NoEntry
    BY <1>7, <2>1, DeletedEntries DEF Invalidate
  <2>. QED BY <1>a, <1>d, <2>1, <2>2 DEF Cached
<1>8. ASSUME Tick
      PROVE  SnapshotsAreCanonical'
  <2>1. NoNewFill
    BY <1>8, <1>a, <1>b DEF Tick, Reader
  <2>2. ASSUME NEW key \in Keys, NEW b \in Books, Cached(key, b)'
        PROVE  Cached(key, b)
    <3>1. cache'[key][b] = Aged(cache[key][b])
      BY <1>8 DEF Tick
    <3>2. cache[key][b].left > 1
      BY <1>a, <1>c, <2>2, <3>1 DEF Aged, Cached, Entry
    <3>. QED BY <1>c, <3>2, Bounds DEF Cached, Entry
  <2>. QED BY <1>d, <2>1, <2>2
<1>9. CASE UNCHANGED vars
  BY <1>9, <1>d DEF vars, Cached
<1>. QED BY KeyTypes, <1>1, <1>2, <1>3, <1>4, <1>5, <1>6, <1>7, <1>8, <1>9 DEF Next

\* The invariant is inductive: without an excuse an entry was filled with current
\* rows or was current already.
LEMMA InvStep == Inv /\ [Next]_vars => Inv'
<1>. SUFFICES ASSUME Inv, [Next]_vars PROVE Inv'
  OBVIOUS
<1>1. TypeOK' /\ AgesBounded' /\ HeldRowsAreCurrent' /\ SnapshotsAreCanonical'
  BY TypeStep, AgesStep, HeldStep, CanonicalStep DEF Inv
<1>2. \A key \in Keys, b \in Books : ~Excuse(b)' /\ ~Respelt(key) => Entered(key, b)
  BY EntryStep DEF Inv
<1>3. FreshUnlessOverlapped'
  BY <1>2 DEF Inv, FreshUnlessOverlapped, Entered, Excuse
<1>4. WithdrawnIsNotOffered'
  <2>1. \A spelling \in Spellings, b \in Books :
           ~Excuse(b)' => Entered(Stock(spelling), b)
    BY <1>2, KeyTypes DEF Respelt, Stock
  <2>2. \A spelling \in Spellings : Stock(spelling).kind = "inventory"
    BY DEF Stock
  <2>. QED BY <2>1, <2>2 DEF Inv, WithdrawnIsNotOffered, Entered, Excuse
<1>. QED BY <1>1, <1>3, <1>4 DEF Inv

\* It holds of the empty cache.
LEMMA InvInit == Init => Inv
<1>. SUFFICES ASSUME Init PROVE Inv
  OBVIOUS
<1>. USE Bounds, BlankTypes
<1>1. TypeOK
  BY DEF Init, TypeOK
<1>2. AgesBounded
  BY DEF Init, AgesBounded, NoEntry, NoRead, Current
<1>3. HeldRowsAreCurrent
  BY DEF Init, HeldRowsAreCurrent, HoldsRow, NoRead, Current
<1>4. \A key \in Keys, b \in Books : ~Cached(key, b)
  BY DEF Init, Cached, NoEntry
<1>5. FreshUnlessOverlapped /\ WithdrawnIsNotOffered
  BY <1>4, KeyTypes DEF FreshUnlessOverlapped, WithdrawnIsNotOffered
<1>6. SnapshotsAreCanonical
  BY <1>4 DEF Init, SnapshotsAreCanonical, NoRead
<1>. QED BY <1>1, <1>2, <1>3, <1>5, <1>6 DEF Inv

-----------------------------------------------------------------------------
\* The conjunction of the invariants is inductive.
THEOREM Invariant == Spec => []Inv
<1>. QED BY InvInit, InvStep, PTL DEF Spec

\* Every variable keeps its type; in particular no lifetime and no age leaves its
\* range, whatever the order of fills, commits, deletions and ticks.
THEOREM TypeCorrect == Spec => []TypeOK
<1>1. Inv => TypeOK
  BY DEF Inv
<1>. QED BY <1>1, Invariant, PTL

\* An old answer in the cache always has one of the four named reasons: whatever
\* is cached under a key that deletions name, and every stock snapshot, is current
\* unless the deletion is to come, died, or the commit met a read.
THEOREM OldAnswersAreExplained == Spec => []FreshUnlessOverlapped
<1>1. Inv => FreshUnlessOverlapped
  BY DEF Inv
<1>. QED BY <1>1, Invariant, PTL

\* A withdrawn book is not offered from the cache under any spelling of its id,
\* unless the deletion is to come, died, or the commit met a read.
THEOREM WithdrawnStaysUnoffered == Spec => []WithdrawnIsNotOffered
<1>1. Inv => WithdrawnIsNotOffered
  BY DEF Inv
<1>. QED BY <1>1, Invariant, PTL

\* No answer is old for Ttl + MaxRequest ticks, for whatever reason.
THEOREM StalenessIsBounded == Spec => []BoundedStaleness
<1>1. Inv => BoundedStaleness
  <2>. SUFFICES ASSUME Inv, NEW key \in Keys, NEW b \in Books, Cached(key, b)
                PROVE  cache[key][b].shows.age < Ttl + MaxRequest
    BY DEF BoundedStaleness
  <2>1. cache[key][b].left \in Nat /\ cache[key][b].shows.age \in Nat
    BY Bounds DEF Inv, TypeOK, Entry, Snapshot
  <2>2. cache[key][b].left + cache[key][b].shows.age <= Ttl + MaxRequest
    BY DEF Inv, AgesBounded, MaxAge
  <2>. QED BY <2>1, <2>2, Bounds DEF Cached
<1>. QED BY <1>1, Invariant, PTL
=============================================================================
