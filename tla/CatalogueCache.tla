---------------------------- MODULE CatalogueCache ----------------------------
(***************************************************************************)
(* BookShop's caches of one book: the object that BookDetailView keeps,    *)
(* the page fragment that its template keeps in each language, and the     *)
(* "views" cache of the books API list.                                    *)
(*                                                                         *)
(* The caches are layered: a fragment is rendered from an object that may  *)
(* itself come from the cache, so their lifetimes add up.  A committed     *)
(* change of the book deletes the object, then the fragments, then the     *)
(* list, one Redis call after another; a change of its category, which     *)
(* only the list shows, deletes the list alone.  Another book shares       *)
(* nothing with this one but the list, which its changes delete as well.   *)
(*                                                                         *)
(* Operators whose name starts with Fault are plausible mistakes, used by  *)
(* no action.                                                              *)
(***************************************************************************)
EXTENDS Integers, Sequences

CONSTANTS
    Languages,    \* settings.LANGUAGES
    Readers, Writers,
    Ttl,          \* 15 minutes, in ticks: every timeout is the same
    MaxRequest    \* ticks that a request takes at most

ASSUME CatalogueCacheAssumption ==
    /\ Ttl \in Nat \ {0} /\ MaxRequest \in Nat
    /\ {"object", "list"} \cap Languages = {}

VARIABLES
    cache,        \* the entry under each key
    readers, writers,
    overlapped,   \* history: the last change of this kind met a read
    died          \* history: its writer died before deleting everything

vars == <<cache, readers, writers, overlapped, died>>

-----------------------------------------------------------------------------
Changes == {"book", "category"}
Keys == {"object", "list"} \cup Languages
MaxAge == 2 * (Ttl + MaxRequest)

\* An answer is abstracted to its age: 0 while the database says the same, else
\* 1 + the ticks since the commit that changed it.
Ages == 0..MaxAge
Entry == [left : 0..Ttl, age : Ages]
NoEntry == [left |-> 0, age |-> 0]
Cached(key) == cache[key].left > 0

\* wants: the key that the request is about, a language for a detail page.
Reader == [at : {"idle", "query", "store", "render", "write"},
           wants : {"list"} \cup Languages, holds : Ages, since : 0..MaxRequest]
NoRead == [at |-> "idle", wants |-> "list", holds |-> 0, since |-> 0]

\* left: the Redis calls that the on_commit callbacks have still to make.
Writer == [at : {"idle", "open", "committed"}, change : Changes,
           left : Seq(SUBSET Keys), since : 0..MaxRequest]
NoWrite == [at |-> "idle", change |-> "book", left |-> <<>>, since |-> 0]

Init ==
    /\ cache = [key \in Keys |-> NoEntry]
    /\ readers = [r \in Readers |-> NoRead]
    /\ writers = [w \in Writers |-> NoWrite]
    /\ overlapped = [c \in Changes |-> FALSE] /\ died = [c \in Changes |-> FALSE]

-----------------------------------------------------------------------------
(* Reads                                                                    *)

Goes(r, at) == readers' = [readers EXCEPT ![r].at = at]
Done(r) == readers' = [readers EXCEPT ![r] = NoRead]

\* get_object finds the object in the cache or goes to the database.
OpenPage(r, language) ==
    /\ readers[r].at = "idle"
    /\ readers' = [readers EXCEPT ![r] =
         IF Cached("object")
           THEN [NoRead EXCEPT !.at = "render", !.wants = language,
                               !.holds = cache["object"].age]
           ELSE [NoRead EXCEPT !.at = "query", !.wants = language]]
    /\ UNCHANGED <<cache, writers, overlapped, died>>

\* cache_page: a list that is cached is served at once.
OpenList(r) ==
    /\ readers[r].at = "idle" /\ ~Cached("list")
    /\ readers' = [readers EXCEPT ![r] = [NoRead EXCEPT !.at = "query"]]
    /\ UNCHANGED <<cache, writers, overlapped, died>>

Query(r) ==
    /\ readers[r].at = "query"
    /\ Goes(r, IF readers[r].wants = "list" THEN "write" ELSE "store")
    /\ UNCHANGED <<cache, writers, overlapped, died>>

FaultNoTimeout(age) == [left |-> Ttl + MaxAge, age |-> age]
Stored(age) == [left |-> Ttl, age |-> age]

StoreObject(r) ==
    /\ readers[r].at = "store"
    /\ cache' = [cache EXCEPT !["object"] = Stored(readers[r].holds)]
    /\ Goes(r, "render")
    /\ UNCHANGED <<writers, overlapped, died>>

FaultRenewsFragment(r) ==
    /\ readers[r].at = "render"
    /\ IF Cached(readers[r].wants)
         THEN Done(r) /\ cache' = [cache EXCEPT ![readers[r].wants].left = Ttl]
         ELSE Goes(r, "write") /\ UNCHANGED cache
    /\ UNCHANGED <<writers, overlapped, died>>
\* The template's cache tag: a fragment that is cached is served as it is.
Render(r) ==
    /\ readers[r].at = "render"
    /\ IF Cached(readers[r].wants) THEN Done(r) ELSE Goes(r, "write")
    /\ UNCHANGED <<cache, writers, overlapped, died>>

\* The rendered fragment, or the list's response, goes into the cache.
Write(r) ==
    /\ readers[r].at = "write"
    /\ cache' = [cache EXCEPT ![readers[r].wants] = Stored(readers[r].holds)]
    /\ Done(r)
    /\ UNCHANGED <<writers, overlapped, died>>

ReadFails(r) ==
    /\ readers[r].at # "idle"
    /\ Done(r)
    /\ UNCHANGED <<cache, writers, overlapped, died>>

-----------------------------------------------------------------------------
(* Changes                                                                  *)

\* invalidate_book_cache, or invalidate_catalog_view_cache.
FaultFragmentsFirst(change) ==
    IF change = "book" THEN <<Languages, {"object"}, {"list"}>> ELSE <<{"list"}>>
FaultForgetsFragments(change) ==
    IF change = "book" THEN <<{"object"}, {"list"}>> ELSE <<{"list"}>>
FaultIgnoresCategory(change) ==
    IF change = "book" THEN <<{"object"}, Languages, {"list"}>> ELSE <<{}>>
Deletions(change) ==
    IF change = "book" THEN <<{"object"}, Languages, {"list"}>> ELSE <<{"list"}>>

\* The signal handler only registers the deletions, with on_commit.
Save(w, change) ==
    /\ writers[w].at = "idle"
    /\ writers' = [writers EXCEPT ![w] = [at |-> "open", change |-> change,
                                          left |-> Deletions(change), since |-> 0]]
    /\ UNCHANGED <<cache, readers, overlapped, died>>

Rollback(w) ==
    /\ writers[w].at = "open"
    /\ writers' = [writers EXCEPT ![w] = NoWrite]
    /\ UNCHANGED <<cache, readers, overlapped, died>>

\* The keys whose answer a change makes old.
Shows(change) == IF change = "book" THEN Keys ELSE {"list"}
\* The read holds an answer that the change is about.
Holds(r, change) ==
    \/ readers[r].at \in {"store", "render"} /\ change = "book"
    \/ readers[r].at = "write" /\ readers[r].wants \in Shows(change)
Outdated(age) == IF age = 0 THEN 1 ELSE age

Commit(w) ==
    LET change == writers[w].change IN
    /\ writers[w].at = "open"
    /\ writers' = [writers EXCEPT ![w].at = "committed"]
    /\ cache' = [key \in Keys |-> IF Cached(key) /\ key \in Shows(change)
                   THEN [cache[key] EXCEPT !.age = Outdated(cache[key].age)]
                   ELSE cache[key]]
    /\ readers' = [r \in Readers |-> IF Holds(r, change)
                   THEN [readers[r] EXCEPT !.holds = Outdated(readers[r].holds)]
                   ELSE readers[r]]
    /\ overlapped' = [overlapped EXCEPT ![change] = \E r \in Readers : Holds(r, change)]
    /\ died' = [died EXCEPT ![change] = FALSE]

\* The next Redis call.  A page that took the object just before it went may
\* still be rendered from it.
Delete(w) ==
    LET keys == Head(writers[w].left) IN
    /\ writers[w].at = "committed"
    /\ cache' = [key \in Keys |-> IF key \in keys THEN NoEntry ELSE cache[key]]
    /\ writers' = [writers EXCEPT ![w] =
                     IF Len(writers[w].left) = 1 THEN NoWrite
                     ELSE [writers[w] EXCEPT !.left = Tail(writers[w].left)]]
    /\ overlapped' = [overlapped EXCEPT !["book"] =
                        overlapped["book"] \/ ("object" \in keys /\
                              \E r \in Readers : Holds(r, "book") /\ readers[r].holds > 0)]
    /\ UNCHANGED <<readers, died>>

\* The process dies, or Redis fails a call and Django skips the rest.
WriterDies(w) ==
    /\ writers[w].at = "committed"
    /\ died' = [died EXCEPT ![writers[w].change] = TRUE]
    /\ writers' = [writers EXCEPT ![w] = NoWrite]
    /\ UNCHANGED <<cache, readers, overlapped>>

-----------------------------------------------------------------------------
(* Time                                                                     *)

Older(age) == IF age = 0 THEN 0 ELSE age + 1
Aged(entry) == IF entry.left <= 1 THEN NoEntry
               ELSE [left |-> entry.left - 1, age |-> Older(entry.age)]

\* Redis drops what is out of time.  No request outlives MaxRequest.
Tick ==
    /\ \A r \in Readers : readers[r].since < MaxRequest \/ readers[r].at = "idle"
    /\ \A w \in Writers : writers[w].since < MaxRequest \/ writers[w].at # "committed"
    /\ cache' = [key \in Keys |-> Aged(cache[key])]
    /\ readers' = [r \in Readers |-> IF readers[r].at = "idle" THEN NoRead
                     ELSE [readers[r] EXCEPT !.since = readers[r].since + 1,
                                             !.holds = Older(readers[r].holds)]]
    /\ writers' = [w \in Writers |-> IF writers[w].at # "committed" THEN writers[w]
                     ELSE [writers[w] EXCEPT !.since = writers[w].since + 1]]
    /\ UNCHANGED <<overlapped, died>>

Next ==
    \/ \E r \in Readers :
          \/ \E language \in Languages : OpenPage(r, language)
          \/ OpenList(r) \/ Query(r) \/ StoreObject(r) \/ Render(r) \/ Write(r)
          \/ ReadFails(r)
    \/ \E w \in Writers :
          \/ \E change \in Changes : Save(w, change)
          \/ Commit(w) \/ Rollback(w) \/ Delete(w) \/ WriterDies(w)
    \/ Tick

Spec == Init /\ [][Next]_vars

-----------------------------------------------------------------------------
TypeOK ==
    /\ cache \in [Keys -> Entry]
    /\ readers \in [Readers -> Reader]
    /\ writers \in [Writers -> Writer]
    /\ \A w \in Writers : writers[w].at = "committed" => writers[w].left # <<>>
    /\ overlapped \in [Changes -> BOOLEAN] /\ died \in [Changes -> BOOLEAN]

\* The caches that a kind of change clears need an excuse to be out of date.
Excused(change) ==
    \/ overlapped[change] \/ died[change]
    \/ \E w \in Writers : writers[w].at = "committed" /\ writers[w].change = change

\* Once a change's deletions are done, the caches say what the database says,
\* unless the change met a read that already had the old row or the old object
\* in its hands, or its process died before the last deletion.
FreshUnlessOverlapped ==
    \A key \in Keys :
        (\A change \in Changes : key \in Shows(change) => ~Excused(change))
            => cache[key].age = 0

\* However a read, a change and a crash fall together, the cached object and the
\* list are out of date for less than one timeout and one request.  A page may be
\* for twice as long, and not longer: its fragment may be rendered from an old
\* object that is about to expire.
BoundedStaleness ==
    /\ \A key \in {"object", "list"} : cache[key].age <= Ttl + MaxRequest
    /\ \A language \in Languages : cache[language].age < 2 * (Ttl + MaxRequest)
=============================================================================
