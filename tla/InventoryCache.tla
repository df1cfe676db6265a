---------------------------- MODULE InventoryCache ----------------------------
(***************************************************************************)
(* Warehouse's cached answers about a book: the detail page of             *)
(* BookViewSet.retrieve and the stock snapshots of InventoryViewSet.       *)
(*                                                                         *)
(* A read that misses looks in the cache, reads the database and fills the *)
(* cache in three steps; a write commits and then deletes the keys of      *)
(* every book it touched.  Nothing orders the two, so a fill may overtake  *)
(* a deletion: the question is how long, and after what, an answer can be  *)
(* out of date.                                                            *)
(*                                                                         *)
(* The URL of a read may spell the id of a book in any way that a UUID can *)
(* be read from (upper case, no hyphens).  The query does not mind, but a  *)
(* key is made of the text, and a deletion makes its keys of the UUID.     *)
(*                                                                         *)
(* The contents of a snapshot are abstracted to whether the database has   *)
(* moved on since it was read, and for how long it has.  Operators whose   *)
(* name starts with Fault are plausible mistakes, used by no action.       *)
(***************************************************************************)
EXTENDS Integers, FiniteSets

CONSTANTS
    Books,
    Spellings,    \* texts that UUIDField reads as the id of a book
    Canonical,    \* str(UUID): lower case, with hyphens
    Readers,      \* threads that serve a read
    Writers,      \* threads that change books or stock
    Ttl,          \* WAREHOUSE_CACHE_TIMEOUT, in ticks
    MaxRequest    \* ticks that a request takes at most

ASSUME InventoryCacheAssumption ==
    Ttl \in Nat \ {0} /\ MaxRequest \in Nat /\ Canonical \in Spellings

VARIABLES
    active,       \* Book.is_active, as committed
    cache,        \* per key and book, the entry in Redis
    readers,
    writers,
    overlapped,   \* history: the last commit about the book met a read of it
    died          \* history: the writer of the last commit died before deleting

vars == <<active, cache, readers, writers, overlapped, died>>

-----------------------------------------------------------------------------
\* book_cache_key and inventory_cache_key, of the id as it was spelt.
Keys == [kind : {"book", "inventory"}, spelling : Spellings]
Detail(spelling) == [kind |-> "book", spelling |-> spelling]
Stock(spelling) == [kind |-> "inventory", spelling |-> spelling]
MaxAge == Ttl + MaxRequest

\* stale: a later commit changed what it says; age: ticks since that commit.
Snapshot == [stale : BOOLEAN, age : 0..MaxAge]
Current == [stale |-> FALSE, age |-> 0]

\* An entry with no time left is not there.
Entry == [left : 0..Ttl, shows : Snapshot]
NoEntry == [left |-> 0, shows |-> Current]
Cached(key, b) == cache[key][b].left > 0

\* books: those not cached, then those that the query found; rows: what it returned.
Reader == [at : {"idle", "query", "fill"}, key : Keys, books : SUBSET Books,
           rows : [Books -> Snapshot], since : 0..MaxRequest]
NoRead == [at |-> "idle", key |-> Detail(Canonical), books |-> {},
           rows |-> [b \in Books |-> Current], since |-> 0]

\* left: the books whose keys the writer's on_commit callbacks still delete.
Changes == {"stock", "activate", "withdraw"}
Writer == [at : {"idle", "open", "committed"}, change : Changes,
           left : SUBSET Books, since : 0..MaxRequest]
NoWrite == [at |-> "idle", change |-> "stock", left |-> {}, since |-> 0]

Init ==
    /\ active \in [Books -> BOOLEAN]
    /\ cache = [key \in Keys |-> [b \in Books |-> NoEntry]]
    /\ readers = [r \in Readers |-> NoRead]
    /\ writers = [w \in Writers |-> NoWrite]
    /\ overlapped = [b \in Books |-> FALSE]
    /\ died = [b \in Books |-> FALSE]

-----------------------------------------------------------------------------
(* Reads                                                                    *)

\* cache.get / get_many.  A read that finds every key ends there.
Look(r, key, wanted) ==
    LET missing == {b \in wanted : ~Cached(key, b)} IN
    /\ readers[r].at = "idle"
    /\ missing # {}
    /\ readers' = [readers EXCEPT ![r] = [NoRead EXCEPT !.at = "query",
                                            !.key = key, !.books = missing]]
    /\ UNCHANGED <<active, cache, writers, overlapped, died>>

\* The stock snapshots leave inactive books out; the detail page does not.
FaultShowsInactive(key, b) == TRUE
Shown(key, b) == key.kind = "inventory" => active[b]

\* get_inventory_snapshots finds its key by the row's own id: under any other
\* spelling that is a KeyError, before the cache is filled.
FaultFillsAsAsked(key) == TRUE
Fillable(key) == key.kind = "inventory" => key.spelling = Canonical

\* One SELECT for all the books that were not cached, by their ids as UUIDs.  A
\* read that finds none answers without filling the cache.
Query(r) ==
    LET found == {b \in readers[r].books : Shown(readers[r].key, b)} IN
    /\ readers[r].at = "query"
    /\ readers' = [readers EXCEPT ![r] =
                     IF found = {} \/ ~Fillable(readers[r].key) THEN NoRead
                     ELSE [readers[r] EXCEPT !.at = "fill", !.books = found]]
    /\ UNCHANGED <<active, cache, writers, overlapped, died>>

\* What cache.set stores.
FaultKeepsForever(snapshot) == [left |-> Ttl + MaxAge, shows |-> snapshot]
Stored(snapshot) == [left |-> Ttl, shows |-> snapshot]

\* cache.set / set_many with WAREHOUSE_CACHE_TIMEOUT, whatever is there by now.
Fill(r) ==
    /\ readers[r].at = "fill"
    /\ cache' = [cache EXCEPT ![readers[r].key] =
                   [b \in Books |-> IF b \in readers[r].books
                                      THEN Stored(readers[r].rows[b]) ELSE @[b]]]
    /\ readers' = [readers EXCEPT ![r] = NoRead]
    /\ UNCHANGED <<active, writers, overlapped, died>>

\* The thread dies, or Redis or the database fails it.
ReadFails(r) ==
    /\ readers[r].at # "idle"
    /\ readers' = [readers EXCEPT ![r] = NoRead]
    /\ UNCHANGED <<active, cache, writers, overlapped, died>>

-----------------------------------------------------------------------------
(* Writes                                                                   *)

\* The keys of book b go from the cache, as str(UUID) spells them.
FaultForgetsDetail(b) ==
    cache' = [cache EXCEPT ![Stock(Canonical)][b] = NoEntry]
FaultForgetsInventory(b) ==
    cache' = [cache EXCEPT ![Detail(Canonical)][b] = NoEntry]
invalidate_book_state(b) ==
    cache' = [cache EXCEPT ![Detail(Canonical)][b] = NoEntry,
                           ![Stock(Canonical)][b] = NoEntry]

\* A transaction saves the Inventory rows of some books (stock) or one Book row.
\* A save only registers the deletion of the keys, with on_commit.
Save(w, change, books) ==
    /\ writers[w].at = "idle"
    /\ books # {} /\ (change # "stock" => Cardinality(books) = 1)
    /\ writers' = [writers EXCEPT ![w] = [at |-> "open", change |-> change,
                                          left |-> books, since |-> 0]]
    /\ UNCHANGED <<active, cache, readers, overlapped, died>>

\* Nothing is deleted: Django drops the callbacks.
Rollback(w) ==
    /\ writers[w].at = "open"
    /\ writers' = [writers EXCEPT ![w] = NoWrite]
    /\ UNCHANGED <<active, cache, readers, overlapped, died>>

HoldsRow(r, b) == readers[r].at = "fill" /\ b \in readers[r].books

\* Every snapshot of these books, in Redis or in a reader's hands, is now old.
Outdated(snapshot) == [snapshot EXCEPT !.stale = TRUE]
Outdates(books) ==
    /\ cache' = [key \in Keys |-> [b \in Books |->
                   IF b \in books /\ Cached(key, b)
                     THEN [cache[key][b] EXCEPT !.shows = Outdated(@)]
                     ELSE cache[key][b]]]
    /\ readers' = [r \in Readers |-> [readers[r] EXCEPT !.rows =
                     [b \in Books |-> IF b \in books /\ HoldsRow(r, b)
                                        THEN Outdated(@[b]) ELSE @[b]]]]

Commit(w) ==
    LET books == writers[w].left IN
    /\ writers[w].at = "open"
    /\ active' = [b \in Books |->
                    IF b \in books /\ writers[w].change # "stock"
                      THEN writers[w].change = "activate" ELSE active[b]]
    /\ Outdates(books)
    /\ writers' = [writers EXCEPT ![w].at = "committed"]
    /\ overlapped' = [b \in Books |-> IF b \in books
                        THEN \E r \in Readers : HoldsRow(r, b) ELSE overlapped[b]]
    /\ died' = [b \in Books |-> b \notin books /\ died[b]]

\* The next on_commit callback.  The request answers after the last one.
Invalidate(w) ==
    /\ writers[w].at = "committed"
    /\ \E b \in writers[w].left :
          /\ invalidate_book_state(b)
          /\ writers' = [writers EXCEPT ![w] =
                           IF writers[w].left = {b} THEN NoWrite
                           ELSE [writers[w] EXCEPT !.left = @ \ {b}]]
    /\ UNCHANGED <<active, readers, overlapped, died>>

\* The process dies, or Redis fails a callback and Django skips the rest.
WriterDies(w) ==
    /\ writers[w].at = "committed"
    /\ died' = [b \in Books |-> died[b] \/ b \in writers[w].left]
    /\ writers' = [writers EXCEPT ![w] = NoWrite]
    /\ UNCHANGED <<active, cache, readers, overlapped>>

-----------------------------------------------------------------------------
(* Time                                                                     *)

Older(snapshot) == IF snapshot.stale THEN [snapshot EXCEPT !.age = @ + 1] ELSE snapshot
Aged(entry) == IF entry.left <= 1 THEN NoEntry
               ELSE [left |-> entry.left - 1, shows |-> Older(entry.shows)]

\* Redis drops the entries whose time is up.  No request outlives MaxRequest.
Tick ==
    /\ \A r \in Readers : readers[r].since < MaxRequest \/ readers[r].at = "idle"
    /\ \A w \in Writers : writers[w].since < MaxRequest \/ writers[w].at # "committed"
    /\ cache' = [key \in Keys |-> [b \in Books |-> Aged(cache[key][b])]]
    /\ readers' = [r \in Readers |-> IF readers[r].at = "idle" THEN NoRead
                     ELSE [readers[r] EXCEPT !.since = @ + 1,
                             !.rows = [b \in Books |-> Older(@[b])]]]
    /\ writers' = [w \in Writers |-> IF writers[w].at # "committed" THEN writers[w]
                     ELSE [writers[w] EXCEPT !.since = @ + 1]]
    /\ UNCHANGED <<active, overlapped, died>>

Next ==
    \/ \E r \in Readers :
          \/ \E key \in Keys, b \in Books : Look(r, key, {b})
          \/ \E wanted \in SUBSET Books : Look(r, Stock(Canonical), wanted)
          \/ Query(r) \/ Fill(r) \/ ReadFails(r)
    \/ \E w \in Writers :
          \/ \E change \in Changes : \E books \in SUBSET Books : Save(w, change, books)
          \/ Commit(w) \/ Rollback(w) \/ Invalidate(w) \/ WriterDies(w)
    \/ Tick

Spec == Init /\ [][Next]_vars

-----------------------------------------------------------------------------
TypeOK ==
    /\ active \in [Books -> BOOLEAN]
    /\ cache \in [Keys -> [Books -> Entry]]
    /\ readers \in [Readers -> Reader]
    /\ writers \in [Writers -> Writer]
    /\ overlapped \in [Books -> BOOLEAN] /\ died \in [Books -> BOOLEAN]

\* A commit about b whose keys are not deleted yet.
Pending(b) == \E w \in Writers : writers[w].at = "committed" /\ b \in writers[w].left

\* Four things leave an old answer in the cache, and no other: the deletion is
\* still to come, its process died first, the commit met a read that already had
\* the old row in its hands, or it is a detail page that was asked for under
\* another spelling of the id, whose key no deletion names.
Respelt(key) == key.kind = "book" /\ key.spelling # Canonical
FreshUnlessOverlapped ==
    \A key \in Keys, b \in Books :
        Cached(key, b) /\ ~Respelt(key) /\ ~Pending(b) /\ ~died[b] /\ ~overlapped[b]
            => ~cache[key][b].shows.stale

\* Whatever happens, even when the deletion is lost or names another key, the
\* cache stops serving a fact at most Ttl plus one request after the commit that
\* changed it.
BoundedStaleness ==
    \A key \in Keys, b \in Books :
        Cached(key, b) /\ cache[key][b].shows.stale
            => cache[key][b].shows.age < Ttl + MaxRequest

\* A book that was withdrawn from sale has no stock snapshot, under any key: the
\* filter on is_active and the deletion of the keys on a change of the Book row
\* together keep POST /inventory/check/ from offering it, unless that deletion
\* is to come or was lost, or the commit met a read.
WithdrawnIsNotOffered ==
    \A b \in Books :
        ~active[b] /\ ~Pending(b) /\ ~died[b] /\ ~overlapped[b]
            => \A spelling \in Spellings : ~Cached(Stock(spelling), b)
=============================================================================
