------------------------ MODULE CatalogueCache_proofs ------------------------
(***************************************************************************)
(* Proofs about CatalogueCache, for any languages, readers, writers,       *)
(* timeout and longest request.                                            *)
(***************************************************************************)
EXTENDS CatalogueCache, TLAPS

\* One timeout and one request: about how long an object may be old.
Span == Ttl + MaxRequest

\* An entry's age and the time it has left do not exceed one span together, or two
\* for a fragment.  A reader that has asked the database holds an answer that is
\* no older than its own request, one that took the object from the cache an
\* answer that was less than a span old when it did.
AgesBounded ==
    /\ \A key \in Keys : /\ ~Cached(key) => cache[key].age = 0
                         /\ cache[key].left + cache[key].age <= 2 * Span
    /\ \A key \in {"object", "list"} : cache[key].left + cache[key].age <= Span + 1
    /\ \A r \in Readers :
          /\ readers[r].at \in {"idle", "query"} => readers[r].holds = 0
          /\ readers[r].at \in {"store", "render"} => readers[r].wants \in Languages
          /\ readers[r].holds <= Span + readers[r].since
          /\ readers[r].at = "store" \/ readers[r].wants = "list"
                => readers[r].holds <= readers[r].since + 1

-----------------------------------------------------------------------------
\* The deletions that a writer may still have before it.
All == <<{"object"}, Languages, {"list"}>>
Fragments == <<Languages, {"list"}>>
ListOnly == <<{"list"}>>

\* A writer deletes in the order of Deletions, the list last.
DeletionsInOrder ==
    \A w \in Writers : writers[w].at # "idle" =>
        /\ writers[w].at = "open" => writers[w].left = Deletions(writers[w].change)
        /\ writers[w].change = "book" => writers[w].left \in {All, Fragments, ListOnly}
        /\ writers[w].change = "category" => writers[w].left = ListOnly

\* Writer w has committed a change and the deletion of the key is still to come.
WillDelete(w, key) ==
    /\ writers[w].at = "committed"
    /\ key = "object" => writers[w].left = All
    /\ key \in Languages => writers[w].left \in {All, Fragments}

\* Something accounts for an old answer under the key.
Explained(change, key) ==
    \/ overlapped[change] \/ died[change]
    \/ \E w \in Writers : WillDelete(w, key) /\ writers[w].change = change

\* What is old in the cache has an explanation, and so has what is old in the
\* hands of a reader: a page from an object that was about to be deleted, a list
\* because a commit has met it.
OldIsExplained ==
    /\ \A key \in {"object"} \cup Languages :
          cache[key].age # 0 => Explained("book", key)
    /\ cache["list"].age # 0 => \E change \in Changes : Explained(change, "list")
    /\ \A r \in Readers : readers[r].holds # 0 =>
          /\ readers[r].wants \in Languages => Explained("book", "object")
          /\ readers[r].wants = "list" => \E change \in Changes : overlapped[change]

Inv == TypeOK /\ AgesBounded /\ DeletionsInOrder /\ OldIsExplained

-----------------------------------------------------------------------------
\* What the assumption says of the numbers and of the names of keys.
LEMMA Bounds ==
    /\ Ttl \in Nat /\ Ttl >= 1 /\ MaxRequest \in Nat
    /\ Span \in Nat /\ Span = Ttl + MaxRequest /\ MaxAge = 2 * Span
    /\ "object" \notin Languages /\ "list" \notin Languages
  BY CatalogueCacheAssumption DEF Span, MaxAge

\* The sequence that is left before and after each Redis call.
LEMMA Tuples ==
    /\ Head(All) = {"object"} /\ Tail(All) = Fragments /\ Len(All) = 3
    /\ Head(Fragments) = Languages /\ Tail(Fragments) = ListOnly /\ Len(Fragments) = 2
    /\ Head(ListOnly) = {"list"} /\ Len(ListOnly) = 1
    /\ All # Fragments /\ All # ListOnly /\ Fragments # ListOnly
    /\ \A left \in {All, Fragments, ListOnly} : left \in Seq(SUBSET Keys) /\ left # <<>>
<1>1. /\ Head(All) = {"object"} /\ Tail(All) = Fragments /\ Len(All) = 3
  BY DEF All, Fragments
<1>2. Head(Fragments) = Languages /\ Tail(Fragments) = ListOnly /\ Len(Fragments) = 2
  BY DEF Fragments, ListOnly
<1>3. Head(ListOnly) = {"list"} /\ Len(ListOnly) = 1
  BY DEF ListOnly
<1>4. All # Fragments /\ All # ListOnly /\ Fragments # ListOnly
  BY <1>1, <1>2, <1>3
<1>5. {"object"} \in SUBSET Keys /\ Languages \in SUBSET Keys /\ {"list"} \in SUBSET Keys
  BY DEF Keys
<1>6. All \in Seq(SUBSET Keys)
  BY <1>5 DEF All
<1>7. Fragments \in Seq(SUBSET Keys)
  BY <1>5 DEF Fragments
<1>8. ListOnly \in Seq(SUBSET Keys)
  BY <1>5 DEF ListOnly
<1>9. All # <<>> /\ Fragments # <<>> /\ ListOnly # <<>>
  BY DEF All, Fragments, ListOnly
<1>. QED BY <1>1, <1>2, <1>3, <1>4, <1>6, <1>7, <1>8, <1>9

\* The idle records and the empty entry have their types.
LEMMA BlankTypes == NoEntry \in Entry /\ NoRead \in Reader /\ NoWrite \in Writer
  BY Bounds DEF NoEntry, Entry, NoRead, Reader, NoWrite, Writer, Ages, Changes

\* A commit makes a current answer one tick old and leaves old ones as they are.
LEMMA OutdatedAge ==
    ASSUME NEW age \in Ages
    PROVE  /\ Outdated(age) \in Ages /\ Outdated(age) # 0
           /\ Outdated(age) = 1 \/ Outdated(age) = age
  BY Bounds DEF Ages, Outdated

\* A tick ages what is old.
LEMMA OlderAge ==
    ASSUME NEW age \in Ages, age < MaxAge
    PROVE  /\ Older(age) \in Ages /\ Older(age) <= age + 1
           /\ Older(age) = 0 <=> age = 0
  BY Bounds DEF Ages, Older

\* A tick takes from an entry's time what it may add to its age.
LEMMA AgedEntry ==
    ASSUME NEW entry \in Entry, entry.left + entry.age <= 2 * Span,
           entry.left = 0 => entry.age = 0
    PROVE  /\ Aged(entry) \in Entry
           /\ Aged(entry).left = 0 => Aged(entry).age = 0
           /\ \A n \in Nat : entry.left + entry.age <= n
                 => Aged(entry).left + Aged(entry).age <= n
           /\ entry.age = 0 => Aged(entry).age = 0
<1>1. entry.left \in 0..Ttl /\ entry.age \in Ages
  BY DEF Entry
<1>2. CASE entry.left <= 1
  <2>1. Aged(entry) = NoEntry
    BY <1>2 DEF Aged
  <2>2. Aged(entry).left = 0 /\ Aged(entry).age = 0
    BY <2>1 DEF NoEntry
  <2>3. \A n \in Nat : 0 + 0 <= n
    OBVIOUS
  <2>. QED BY <2>1, <2>2, <2>3, BlankTypes
<1>3. CASE entry.left > 1
  <2>1. Aged(entry) = [left |-> entry.left - 1, age |-> Older(entry.age)]
    BY <1>1, <1>3, Bounds DEF Aged
  <2>2. entry.age < MaxAge
    BY <1>1, <1>3, Bounds DEF Ages
  <2>3. /\ Older(entry.age) \in Ages /\ Older(entry.age) <= entry.age + 1
        /\ entry.age = 0 => Older(entry.age) = 0
    BY <1>1, <2>2, OlderAge
  <2>4. Aged(entry).left = entry.left - 1 /\ Aged(entry).age = Older(entry.age)
    BY <2>1
  <2>5. entry.left - 1 \in 0..Ttl /\ entry.left - 1 # 0
    BY <1>1, <1>3, Bounds
  <2>6. Aged(entry) \in Entry
    BY <2>1, <2>3, <2>5 DEF Entry
  <2>7. \A n \in Nat : entry.left + entry.age <= n
           => (entry.left - 1) + Older(entry.age) <= n
    BY <1>1, <2>3, Bounds DEF Ages
  <2>. QED BY <2>3, <2>4, <2>5, <2>6, <2>7
<1>. QED BY <1>1, <1>2, <1>3, Bounds

-----------------------------------------------------------------------------
\* Every variable stays in its type; ages do because they are bounded.
LEMMA TypeStep ==
    TypeOK /\ AgesBounded /\ DeletionsInOrder /\ [Next]_vars => TypeOK'
<1>. SUFFICES ASSUME TypeOK, AgesBounded, DeletionsInOrder, [Next]_vars PROVE TypeOK'
  OBVIOUS
<1>. USE Bounds, BlankTypes
<1>1. ASSUME NEW r \in Readers, NEW language \in Languages, OpenPage(r, language)
      PROVE  TypeOK'
  <2>1. cache["object"].age \in Ages
    BY DEF TypeOK, Keys, Entry
  <2>2. /\ [NoRead EXCEPT !.at = "render", !.wants = language,
                          !.holds = cache["object"].age] \in Reader
        /\ [NoRead EXCEPT !.at = "query", !.wants = language] \in Reader
    BY <2>1 DEF NoRead, Reader, Ages
  <2>. QED BY <1>1, <2>2 DEF TypeOK, OpenPage
<1>2. ASSUME NEW r \in Readers, OpenList(r)
      PROVE  TypeOK'
  <2>1. [NoRead EXCEPT !.at = "query"] \in Reader
    BY DEF NoRead, Reader, Ages
  <2>. QED BY <1>2, <2>1 DEF TypeOK, OpenList
<1>3. ASSUME NEW r \in Readers, NEW at \in {"store", "render", "write"}, Goes(r, at),
             UNCHANGED <<writers, overlapped, died>>, cache' \in [Keys -> Entry]
      PROVE  TypeOK'
  <2>1. readers[r] \in Reader
    BY DEF TypeOK
  <2>2. [readers[r] EXCEPT !.at = at] \in Reader
    BY <2>1 DEF Reader
  <2>. QED BY <1>3, <2>2 DEF TypeOK, Goes
<1>4. ASSUME NEW r \in Readers, Done(r), UNCHANGED <<writers, overlapped, died>>,
             cache' \in [Keys -> Entry]
      PROVE  TypeOK'
  BY <1>4 DEF TypeOK, Done
<1>5. ASSUME NEW r \in Readers, NEW key \in Keys,
             cache' = [cache EXCEPT ![key] = Stored(readers[r].holds)]
      PROVE  cache' \in [Keys -> Entry]
  <2>1. readers[r].holds \in Ages
    BY DEF TypeOK, Reader
  <2>2. Stored(readers[r].holds) \in Entry
    BY <2>1 DEF Stored, Entry
  <2>. QED BY <1>5, <2>2 DEF TypeOK
<1>6. ASSUME NEW r \in Readers, Query(r)
      PROVE  TypeOK'
  BY <1>3, <1>6 DEF Query, TypeOK
<1>7. ASSUME NEW r \in Readers, StoreObject(r)
      PROVE  TypeOK'
  BY <1>3, <1>5, <1>7 DEF StoreObject, Keys
<1>8. ASSUME NEW r \in Readers, Render(r)
      PROVE  TypeOK'
  BY <1>3, <1>4, <1>8 DEF Render, TypeOK
<1>9. ASSUME NEW r \in Readers, Write(r)
      PROVE  TypeOK'
  <2>1. readers[r].wants \in Keys
    BY DEF TypeOK, Reader, Keys
  <2>. QED BY <1>4, <1>5, <1>9, <2>1 DEF Write
<1>10. ASSUME NEW r \in Readers, ReadFails(r)
       PROVE  TypeOK'
  BY <1>4, <1>10 DEF ReadFails, TypeOK
<1>11. ASSUME NEW w \in Writers, NEW change \in Changes, Save(w, change)
       PROVE  TypeOK'
  <2>1. Deletions(change) \in {All, ListOnly}
    BY DEF Deletions, All, ListOnly
  <2>2. [at |-> "open", change |-> change, left |-> Deletions(change), since |-> 0]
           \in Writer
    BY <2>1, Tuples DEF Writer
  <2>. QED BY <1>11, <2>2 DEF TypeOK, Save
<1>12. ASSUME NEW w \in Writers, Rollback(w)
       PROVE  TypeOK'
  BY <1>12 DEF TypeOK, Rollback, NoWrite
<1>13. ASSUME NEW w \in Writers, Commit(w)
       PROVE  TypeOK'
  <2>1. /\ writers[w] \in Writer /\ writers[w].at = "open"
        /\ writers[w].left \in {All, Fragments, ListOnly}
    BY <1>13 DEF TypeOK, Commit, DeletionsInOrder, Writer, Changes
  <2>2. /\ [writers[w] EXCEPT !.at = "committed"] \in Writer
        /\ [writers[w] EXCEPT !.at = "committed"].left # <<>>
    BY <2>1, Tuples DEF Writer
  <2>3. /\ writers' \in [Writers -> Writer]
        /\ \A v \in Writers : writers'[v].at = "committed" => writers'[v].left # <<>>
    BY <1>13, <2>2 DEF TypeOK, Commit
  <2>4. cache' \in [Keys -> Entry]
    <3>1. ASSUME NEW key \in Keys
          PROVE  [cache[key] EXCEPT !.age = Outdated(cache[key].age)] \in Entry
      <4>1. cache[key] \in Entry
        BY DEF TypeOK
      <4>. QED BY <4>1, OutdatedAge DEF Entry
    <3>. QED BY <1>13, <3>1 DEF TypeOK, Commit
  <2>5. readers' \in [Readers -> Reader]
    <3>1. ASSUME NEW r \in Readers
          PROVE  [readers[r] EXCEPT !.holds = Outdated(readers[r].holds)] \in Reader
      <4>1. readers[r] \in Reader
        BY DEF TypeOK
      <4>. QED BY <4>1, OutdatedAge DEF Reader
    <3>. QED BY <1>13, <3>1 DEF TypeOK, Commit
  <2>6. overlapped' \in [Changes -> BOOLEAN] /\ died' \in [Changes -> BOOLEAN]
    BY <1>13 DEF TypeOK, Commit
  <2>. QED BY <2>3, <2>4, <2>5, <2>6 DEF TypeOK
<1>14. ASSUME NEW w \in Writers, Delete(w)
       PROVE  TypeOK'
  <2>1. /\ writers[w] \in Writer /\ writers[w].at = "committed"
        /\ writers[w].left \in {All, Fragments, ListOnly}
    BY <1>14 DEF TypeOK, Delete, DeletionsInOrder, Writer, Changes
  <2>2. CASE Len(writers[w].left) = 1
    BY <1>14, <2>2 DEF TypeOK, Delete, NoWrite
  <2>3. CASE Len(writers[w].left) # 1
    <3>1. Tail(writers[w].left) \in {Fragments, ListOnly}
      BY <2>1, <2>3, Tuples
    <3>2. /\ [writers[w] EXCEPT !.left = Tail(writers[w].left)] \in Writer
          /\ [writers[w] EXCEPT !.left = Tail(writers[w].left)].left # <<>>
      BY <2>1, <3>1, Tuples DEF Writer
    <3>3. writers' = [writers EXCEPT ![w] =
                        [writers[w] EXCEPT !.left = Tail(writers[w].left)]]
      BY <1>14, <2>3 DEF Delete
    <3>4. /\ writers' \in [Writers -> Writer]
          /\ \A v \in Writers : writers'[v].at = "committed" => writers'[v].left # <<>>
      BY <3>2, <3>3 DEF TypeOK
    <3>5. /\ cache' \in [Keys -> Entry] /\ readers' \in [Readers -> Reader]
          /\ overlapped' \in [Changes -> BOOLEAN] /\ died' \in [Changes -> BOOLEAN]
      BY <1>14 DEF TypeOK, Delete
    <3>. QED BY <3>4, <3>5 DEF TypeOK
  <2>. QED BY <2>2, <2>3
<1>15. ASSUME NEW w \in Writers, WriterDies(w)
       PROVE  TypeOK'
  BY <1>15 DEF TypeOK, WriterDies, NoWrite
<1>16. CASE Tick
  <2>1. cache' \in [Keys -> Entry]
    <3>1. ASSUME NEW key \in Keys
          PROVE  Aged(cache[key]) \in Entry
      <4>1. /\ cache[key] \in Entry
            /\ cache[key].left + cache[key].age <= 2 * Span
            /\ cache[key].left = 0 => cache[key].age = 0
        BY DEF TypeOK, AgesBounded, Cached, Entry
      <4>. QED BY <4>1, AgedEntry
    <3>. QED BY <1>16, <3>1 DEF Tick
  <2>2. readers' \in [Readers -> Reader]
    <3>1. ASSUME NEW r \in Readers, readers[r].at # "idle"
          PROVE  [readers[r] EXCEPT !.since = readers[r].since + 1,
                                    !.holds = Older(readers[r].holds)] \in Reader
      <4>1. readers[r] \in Reader /\ readers[r].since < MaxRequest
        BY <1>16, <3>1 DEF TypeOK, Tick
      <4>2. readers[r].holds \in Ages /\ readers[r].since \in 0..MaxRequest
        BY <4>1 DEF Reader
      <4>3. readers[r].holds <= Span + readers[r].since
        BY DEF AgesBounded
      <4>4. readers[r].holds < MaxAge
        BY <4>1, <4>2, <4>3 DEF Ages
      <4>5. Older(readers[r].holds) \in Ages
        BY <4>2, <4>4, OlderAge
      <4>6. readers[r].since + 1 \in 0..MaxRequest
        BY <4>1, <4>2
      <4>. QED BY <4>1, <4>5, <4>6 DEF Reader
    <3>. QED BY <1>16, <3>1 DEF Tick
  <2>3. /\ writers' \in [Writers -> Writer]
        /\ \A w \in Writers : writers'[w].at = "committed" => writers'[w].left # <<>>
    <3>1. ASSUME NEW w \in Writers, writers[w].at = "committed"
          PROVE  /\ [writers[w] EXCEPT !.since = writers[w].since + 1] \in Writer
                 /\ [writers[w] EXCEPT !.since = writers[w].since + 1].left # <<>>
      <4>1. writers[w] \in Writer /\ writers[w].since < MaxRequest
        BY <1>16, <3>1 DEF TypeOK, Tick
      <4>2. writers[w].since + 1 \in 0..MaxRequest
        BY <4>1 DEF Writer
      <4>3. writers[w].left # <<>>
        BY <3>1 DEF TypeOK
      <4>. QED BY <4>1, <4>2, <4>3 DEF Writer
    <3>2. writers' = [w \in Writers |-> IF writers[w].at # "committed" THEN writers[w]
                        ELSE [writers[w] EXCEPT !.since = writers[w].since + 1]]
      BY <1>16 DEF Tick
    <3>. QED BY <3>1, <3>2 DEF TypeOK
  <2>. QED BY <1>16, <2>1, <2>2, <2>3 DEF TypeOK, Tick
<1>17. CASE UNCHANGED vars
  BY <1>17 DEF TypeOK, vars
<1>. QED BY <1>1, <1>2, <1>6, <1>7, <1>8, <1>9, <1>10, <1>11, <1>12, <1>13, <1>14,
            <1>15, <1>16, <1>17 DEF Next

-----------------------------------------------------------------------------
\* What AgesBounded says of one entry, and of one reader.
EntryBounded(key) ==
    /\ ~Cached(key) => cache[key].age = 0
    /\ cache[key].left + cache[key].age <= 2 * Span
    /\ key \in {"object", "list"} => cache[key].left + cache[key].age <= Span + 1
ReaderBounded(r) ==
    /\ readers[r].at \in {"idle", "query"} => readers[r].holds = 0
    /\ readers[r].at \in {"store", "render"} => readers[r].wants \in Languages
    /\ readers[r].holds <= Span + readers[r].since
    /\ readers[r].at = "store" \/ readers[r].wants = "list"
          => readers[r].holds <= readers[r].since + 1

LEMMA BoundedParts ==
    AgesBounded <=> /\ \A key \in Keys : EntryBounded(key)
                    /\ \A r \in Readers : ReaderBounded(r)
  BY DEF AgesBounded, EntryBounded, ReaderBounded, Keys

\* No step takes an age or a lifetime out of its bounds.
LEMMA AgesStep ==
    TypeOK /\ AgesBounded /\ [Next]_vars => AgesBounded'
<1>. SUFFICES ASSUME TypeOK, AgesBounded, [Next]_vars
              PROVE  /\ \A key \in Keys : EntryBounded(key)'
                     /\ \A r \in Readers : ReaderBounded(r)'
  BY DEF AgesBounded, EntryBounded, ReaderBounded, Keys, Cached
<1>. USE Bounds
<1>a. /\ \A key \in Keys : EntryBounded(key)
      /\ \A r \in Readers : ReaderBounded(r)
  BY BoundedParts
<1>b. /\ \A key \in Keys : /\ cache[key] \in Entry /\ cache[key].left \in 0..Ttl
                           /\ cache[key].age \in Ages /\ cache[key].age \in Nat
      /\ \A r \in Readers : /\ readers[r] \in Reader /\ readers[r].holds \in Ages
                              /\ readers[r].holds \in Nat
                              /\ readers[r].since \in 0..MaxRequest
                              /\ readers[r].wants \in Keys
  BY DEF TypeOK, Entry, Reader, Ages, Keys
<1>c. ASSUME UNCHANGED cache
      PROVE  \A key \in Keys : EntryBounded(key)'
  BY <1>a, <1>c DEF EntryBounded, Cached
<1>d. ASSUME UNCHANGED readers
      PROVE  \A r \in Readers : ReaderBounded(r)'
  BY <1>a, <1>d DEF ReaderBounded
<1>e. ASSUME NEW r \in Readers, Done(r)
      PROVE  \A q \in Readers : ReaderBounded(q)'
  BY <1>a, <1>e DEF Done, NoRead, ReaderBounded, TypeOK
<1>f. ASSUME NEW r \in Readers, NEW key \in Keys, readers[r].at # "query",
             cache' = [cache EXCEPT ![key] = Stored(readers[r].holds)],
             key \in {"object", "list"} => readers[r].holds <= readers[r].since + 1
      PROVE  \A k \in Keys : EntryBounded(k)'
  <2>1. Stored(readers[r].holds).left = Ttl
        /\ Stored(readers[r].holds).age = readers[r].holds
    BY DEF Stored
  <2>2. readers[r].holds <= Span + readers[r].since
    BY <1>a DEF ReaderBounded
  <2>3. Ttl + readers[r].holds <= 2 * Span
    BY <1>b, <2>2
  <2>4. key \in {"object", "list"} => Ttl + readers[r].holds <= Span + 1
    BY <1>b, <1>f
  <2>5. cache'[key] = Stored(readers[r].holds)
    BY <1>f DEF TypeOK
  <2>6. EntryBounded(key)'
    BY <2>1, <2>3, <2>4, <2>5 DEF EntryBounded, Cached
  <2>7. \A k \in Keys \ {key} : cache'[k] = cache[k]
    BY <1>f DEF TypeOK
  <2>. QED BY <1>a, <2>6, <2>7 DEF EntryBounded, Cached
<1>1. ASSUME NEW r \in Readers, NEW language \in Languages, OpenPage(r, language)
      PROVE  \A q \in Readers : ReaderBounded(q)'
  <2>1. "object" \in Keys /\ EntryBounded("object")
    BY <1>a DEF Keys
  <2>2. Cached("object") => cache["object"].age <= Span
    BY <1>b, <2>1 DEF EntryBounded, Cached
  <2>3. CASE Cached("object")
    <3>1. readers' = [readers EXCEPT ![r] = [NoRead EXCEPT !.at = "render",
                        !.wants = language, !.holds = cache["object"].age]]
      BY <1>1, <2>3 DEF OpenPage
    <3>2. /\ readers'[r].at = "render" /\ readers'[r].wants = language
          /\ readers'[r].holds = cache["object"].age /\ readers'[r].since = 0
      BY <3>1 DEF TypeOK, NoRead
    <3>3. ReaderBounded(r)'
      BY <2>2, <2>3, <3>2 DEF ReaderBounded
    <3>. QED BY <1>a, <3>1, <3>3 DEF ReaderBounded, TypeOK
  <2>4. CASE ~Cached("object")
    <3>1. readers' = [readers EXCEPT ![r] = [NoRead EXCEPT !.at = "query",
                        !.wants = language]]
      BY <1>1, <2>4 DEF OpenPage
    <3>2. /\ readers'[r].at = "query" /\ readers'[r].wants = language
          /\ readers'[r].holds = 0 /\ readers'[r].since = 0
      BY <3>1 DEF TypeOK, NoRead
    <3>3. ReaderBounded(r)'
      BY <3>2 DEF ReaderBounded
    <3>. QED BY <1>a, <3>1, <3>3 DEF ReaderBounded, TypeOK
  <2>. QED BY <2>3, <2>4
<1>2. ASSUME NEW r \in Readers, OpenList(r)
      PROVE  \A q \in Readers : ReaderBounded(q)'
  <2>1. /\ readers'[r].at = "query" /\ readers'[r].wants = "list"
        /\ readers'[r].holds = 0 /\ readers'[r].since = 0
    BY <1>2 DEF OpenList, TypeOK, NoRead
  <2>2. ReaderBounded(r)'
    BY <2>1 DEF ReaderBounded
  <2>. QED BY <1>2, <1>a, <2>2 DEF OpenList, ReaderBounded, TypeOK
<1>3. ASSUME NEW r \in Readers, NEW at \in {"store", "render", "write"}, Goes(r, at),
             at \in {"store", "render"} => readers[r].wants \in Languages,
             at = "store" => readers[r].holds <= readers[r].since + 1
      PROVE  \A q \in Readers : ReaderBounded(q)'
  <2>1. readers' = [readers EXCEPT ![r].at = at]
    BY <1>3 DEF Goes
  <2>2. /\ readers'[r].at = at /\ readers'[r].wants = readers[r].wants
        /\ readers'[r].holds = readers[r].holds /\ readers'[r].since = readers[r].since
    BY <1>b, <2>1 DEF TypeOK, Reader
  <2>3. ReaderBounded(r)
    BY <1>a
  <2>4. ReaderBounded(r)'
    BY <1>3, <2>2, <2>3 DEF ReaderBounded
  <2>. QED BY <1>a, <2>1, <2>4 DEF ReaderBounded, TypeOK
<1>4. ASSUME NEW r \in Readers, Query(r)
      PROVE  \A q \in Readers : ReaderBounded(q)'
  <2>1. readers[r].holds = 0 /\ readers[r].wants \in {"list"} \cup Languages
    BY <1>4, <1>a, <1>b DEF Query, ReaderBounded, Reader
  <2>2. readers[r].holds <= readers[r].since + 1
    BY <1>b, <2>1
  <2>. QED BY <1>3, <1>4, <2>1, <2>2 DEF Query
<1>5. ASSUME NEW r \in Readers, StoreObject(r)
      PROVE  AgesBounded'
  <2>1. readers[r].wants \in Languages /\ readers[r].holds <= readers[r].since + 1
    BY <1>5, <1>a DEF StoreObject, ReaderBounded
  <2>2. \A k \in Keys : EntryBounded(k)'
    BY <1>5, <1>f, <2>1 DEF StoreObject, Keys
  <2>3. \A q \in Readers : ReaderBounded(q)'
    BY <1>3, <1>5, <2>1 DEF StoreObject
  <2>. QED BY <2>2, <2>3 DEF AgesBounded, EntryBounded, ReaderBounded, Keys, Cached
<1>6. ASSUME NEW r \in Readers, Render(r)
      PROVE  \A q \in Readers : ReaderBounded(q)'
  <2>1. CASE Done(r)
    BY <1>e, <2>1
  <2>2. CASE Goes(r, "write")
    BY <1>3, <2>2
  <2>. QED BY <1>6, <2>1, <2>2 DEF Render
<1>7. ASSUME NEW r \in Readers, Write(r)
      PROVE  \A key \in Keys : EntryBounded(key)'
  <2>1. readers[r].wants \in {"object", "list"} => readers[r].wants = "list"
    BY <1>b DEF Reader
  <2>2. readers[r].wants = "list" => readers[r].holds <= readers[r].since + 1
    BY <1>a DEF ReaderBounded
  <2>. QED BY <1>7, <1>b, <1>f, <2>1, <2>2 DEF Write
<1>8. ASSUME NEW w \in Writers, Commit(w)
      PROVE  AgesBounded'
  <2>. DEFINE change == writers[w].change
  <2>1. ASSUME NEW key \in Keys
        PROVE  EntryBounded(key)'
    <3>1. CASE Cached(key) /\ key \in Shows(change)
      <4>1. cache'[key] = [cache[key] EXCEPT !.age = Outdated(cache[key].age)]
        BY <1>8, <3>1 DEF Commit
      <4>2. cache'[key].left = cache[key].left
            /\ cache'[key].age = Outdated(cache[key].age)
        BY <1>b, <4>1 DEF Entry
      <4>3. Outdated(cache[key].age) = 1 \/ Outdated(cache[key].age) = cache[key].age
        BY <1>b, OutdatedAge
      <4>4. EntryBounded(key) /\ cache[key].left > 0
        BY <1>a, <3>1 DEF Cached
      <4>5. cache[key].left + 1 <= 2 * Span /\ cache[key].left + 1 <= Span + 1
        BY <1>b
      <4>. QED BY <4>2, <4>3, <4>4, <4>5 DEF EntryBounded, Cached
    <3>2. CASE ~(Cached(key) /\ key \in Shows(change))
      <4>1. cache'[key] = cache[key]
        BY <1>8, <3>2 DEF Commit
      <4>. QED BY <1>a, <4>1 DEF EntryBounded, Cached
    <3>. QED BY <3>1, <3>2
  <2>2. ASSUME NEW r \in Readers
        PROVE  ReaderBounded(r)'
    <3>1. CASE Holds(r, change)
      <4>1. readers'[r] = [readers[r] EXCEPT !.holds = Outdated(readers[r].holds)]
        BY <1>8, <3>1 DEF Commit
      <4>2. /\ readers'[r].holds = Outdated(readers[r].holds)
            /\ readers'[r].at = readers[r].at /\ readers'[r].wants = readers[r].wants
            /\ readers'[r].since = readers[r].since
        BY <1>b, <4>1 DEF Reader
      <4>3. \/ Outdated(readers[r].holds) = 1
            \/ Outdated(readers[r].holds) = readers[r].holds
        BY <1>b, OutdatedAge
      <4>4. readers[r].at \notin {"idle", "query"}
        BY <3>1 DEF Holds
      <4>5. 1 <= Span + readers[r].since /\ 1 <= readers[r].since + 1
        BY <1>b
      <4>6. ReaderBounded(r)
        BY <1>a
      <4>. QED BY <4>2, <4>3, <4>4, <4>5, <4>6 DEF ReaderBounded
    <3>2. CASE ~Holds(r, change)
      <4>1. readers'[r] = readers[r]
        BY <1>8, <3>2 DEF Commit
      <4>. QED BY <1>a, <4>1 DEF ReaderBounded
    <3>. QED BY <3>1, <3>2
  <2>. QED BY <2>1, <2>2 DEF AgesBounded, EntryBounded, ReaderBounded, Keys, Cached
<1>9. ASSUME NEW w \in Writers, Delete(w)
      PROVE  \A key \in Keys : EntryBounded(key)'
  <2>1. ASSUME NEW key \in Keys
        PROVE  EntryBounded(key)'
    <3>1. cache'[key] = NoEntry \/ cache'[key] = cache[key]
      BY <1>9 DEF Delete
    <3>2. cache'[key] = NoEntry => EntryBounded(key)'
      BY DEF EntryBounded, NoEntry, Cached
    <3>. QED BY <1>a, <3>1, <3>2 DEF EntryBounded, Cached
  <2>. QED BY <2>1
<1>10. CASE Tick
  <2>1. ASSUME NEW key \in Keys
        PROVE  EntryBounded(key)'
    <3>1. cache'[key] = Aged(cache[key])
      BY <1>10 DEF Tick
    <3>2. EntryBounded(key)
      BY <1>a
    <3>3. cache[key].left = 0 => cache[key].age = 0
      BY <1>b, <3>2 DEF EntryBounded, Cached
    <3>4. /\ Aged(cache[key]) \in Entry
          /\ Aged(cache[key]).left = 0 => Aged(cache[key]).age = 0
          /\ Aged(cache[key]).left + Aged(cache[key]).age <= 2 * Span
          /\ cache[key].left + cache[key].age <= Span + 1
                => Aged(cache[key]).left + Aged(cache[key]).age <= Span + 1
      <4>1. 2 * Span \in Nat /\ Span + 1 \in Nat
        OBVIOUS
      <4>2. cache[key].left + cache[key].age <= 2 * Span
        BY <3>2 DEF EntryBounded
      <4>. QED BY <1>b, <3>3, <4>1, <4>2, AgedEntry
    <3>5. Aged(cache[key]).left \in Nat
      BY <3>4 DEF Entry
    <3>. QED BY <3>1, <3>2, <3>4, <3>5 DEF EntryBounded, Cached
  <2>2. ASSUME NEW r \in Readers
        PROVE  ReaderBounded(r)'
    <3>1. CASE readers[r].at = "idle"
      <4>1. readers'[r] = NoRead
        BY <1>10, <3>1 DEF Tick
      <4>. QED BY <4>1 DEF ReaderBounded, NoRead
    <3>2. CASE readers[r].at # "idle"
      <4>1. readers'[r] = [readers[r] EXCEPT !.since = readers[r].since + 1,
                                             !.holds = Older(readers[r].holds)]
        BY <1>10, <3>2 DEF Tick
      <4>2. /\ readers'[r].holds = Older(readers[r].holds)
            /\ readers'[r].at = readers[r].at /\ readers'[r].wants = readers[r].wants
            /\ readers'[r].since = readers[r].since + 1
        BY <1>b, <4>1 DEF Reader
      <4>3. ReaderBounded(r) /\ readers[r].since < MaxRequest
        BY <1>10, <1>a, <3>2 DEF Tick
      <4>4. readers[r].holds < MaxAge
        BY <1>b, <4>3 DEF ReaderBounded
      <4>5. /\ Older(readers[r].holds) \in Nat
            /\ Older(readers[r].holds) <= readers[r].holds + 1
            /\ readers[r].holds = 0 => Older(readers[r].holds) = 0
        BY <1>b, <4>4, OlderAge DEF Ages
      <4>. QED BY <1>b, <4>2, <4>3, <4>5 DEF ReaderBounded
    <3>. QED BY <3>1, <3>2
  <2>. QED BY <2>1, <2>2
<1>11. CASE \E w \in Writers, change \in Changes :
              Save(w, change) \/ Rollback(w) \/ WriterDies(w)
  BY <1>11, <1>c, <1>d DEF Save, Rollback, WriterDies
<1>12. CASE \E r \in Readers : ReadFails(r)
  BY <1>12, <1>c, <1>e DEF ReadFails
<1>13. CASE UNCHANGED vars
  BY <1>13, <1>c, <1>d DEF vars
<1>14. CASE \E r \in Readers :
              \/ \E language \in Languages : OpenPage(r, language)
              \/ OpenList(r) \/ Query(r) \/ Render(r)
  BY <1>14, <1>c, <1>1, <1>2, <1>4, <1>6 DEF OpenPage, OpenList, Query, Render
<1>15. CASE \E r \in Readers : Write(r)
  BY <1>15, <1>e, <1>7 DEF Write
<1>16. CASE \E w \in Writers : Delete(w)
  BY <1>16, <1>d, <1>9 DEF Delete
<1>17. CASE (\E r \in Readers : StoreObject(r)) \/ (\E w \in Writers : Commit(w))
  <2>1. AgesBounded'
    BY <1>17, <1>5, <1>8
  <2>. QED BY <2>1 DEF AgesBounded, EntryBounded, ReaderBounded, Keys, Cached
<1>18. Changes # {}
  BY DEF Changes
<1>. QED BY <1>10, <1>11, <1>12, <1>13, <1>14, <1>15, <1>16, <1>17, <1>18 DEF Next

-----------------------------------------------------------------------------
\* What is left to delete is always an end of the whole sequence.
LEMMA OrderStep ==
    TypeOK /\ DeletionsInOrder /\ [Next]_vars => DeletionsInOrder'
<1>. SUFFICES ASSUME TypeOK, DeletionsInOrder, [Next]_vars PROVE DeletionsInOrder'
  OBVIOUS
<1>1. ASSUME NEW w \in Writers, NEW change \in Changes, Save(w, change)
      PROVE  DeletionsInOrder'
  <2>1. /\ change = "book" => Deletions(change) = All
        /\ change = "category" => Deletions(change) = ListOnly
    BY DEF Deletions, All, ListOnly
  <2>2. /\ writers'[w].change = change /\ writers'[w].left = Deletions(change)
        /\ \A v \in Writers \ {w} : writers'[v] = writers[v]
    BY <1>1 DEF Save, TypeOK
  <2>. QED BY <2>1, <2>2 DEF DeletionsInOrder
<1>2. ASSUME NEW w \in Writers, Commit(w)
      PROVE  DeletionsInOrder'
  <2>1. /\ writers'[w].change = writers[w].change /\ writers'[w].left = writers[w].left
        /\ writers'[w].at = "committed" /\ writers[w].at = "open"
        /\ \A v \in Writers \ {w} : writers'[v] = writers[v]
    BY <1>2 DEF Commit, TypeOK, Writer
  <2>. QED BY <2>1 DEF DeletionsInOrder
<1>3. ASSUME NEW w \in Writers, Delete(w)
      PROVE  DeletionsInOrder'
  <2>1. \A v \in Writers \ {w} : writers'[v] = writers[v]
    BY <1>3 DEF Delete, TypeOK
  <2>2. CASE Len(writers[w].left) = 1
    <3>1. writers'[w].at = "idle"
      BY <1>3, <2>2 DEF Delete, TypeOK, NoWrite
    <3>. QED BY <2>1, <3>1 DEF DeletionsInOrder
  <2>3. CASE Len(writers[w].left) # 1
    <3>1. writers[w] \in Writer /\ writers[w].at = "committed"
      BY <1>3 DEF Delete, TypeOK
    <3>2. /\ writers'[w].left = Tail(writers[w].left)
          /\ writers'[w].change = writers[w].change
          /\ writers'[w].at = "committed"
      BY <1>3, <2>3, <3>1 DEF Delete, TypeOK, Writer
    <3>3. writers[w].change = "book" /\ writers[w].left \in {All, Fragments}
      BY <2>3, <3>1, Tuples DEF DeletionsInOrder, Writer, Changes
    <3>. QED BY <2>1, <3>2, <3>3, Tuples DEF DeletionsInOrder
  <2>. QED BY <2>2, <2>3
<1>4. ASSUME NEW w \in Writers, Rollback(w) \/ WriterDies(w)
      PROVE  DeletionsInOrder'
  BY <1>4 DEF Rollback, WriterDies, NoWrite, TypeOK, DeletionsInOrder
<1>5. CASE UNCHANGED writers
  BY <1>5 DEF DeletionsInOrder
<1>6. CASE Tick
  <2>1. ASSUME NEW w \in Writers
        PROVE  /\ writers'[w].at = writers[w].at /\ writers'[w].left = writers[w].left
               /\ writers'[w].change = writers[w].change
    BY <1>6 DEF Tick, TypeOK, Writer
  <2>. QED BY <2>1 DEF DeletionsInOrder
<1>. QED BY <1>1, <1>2, <1>3, <1>4, <1>5, <1>6
         DEF Next, OpenPage, OpenList, Query, StoreObject, Render, Write, ReadFails, vars

-----------------------------------------------------------------------------
\* A writer that will delete the object will delete the fragments after it.
LEMMA ObjectFirst ==
    \A language \in Languages : Explained("book", "object") => Explained("book", language)
  BY Bounds DEF Explained, WillDelete

\* No step makes an answer old, or lets one be read or written, without an
\* explanation; and an explanation ends only with the old answer.
LEMMA OldStep ==
    Inv /\ [Next]_vars => OldIsExplained'
<1>. SUFFICES ASSUME Inv, [Next]_vars PROVE OldIsExplained'
  OBVIOUS
<1>. USE Bounds
<1>a. /\ TypeOK /\ DeletionsInOrder /\ OldIsExplained
      /\ \A r \in Readers : ReaderBounded(r)
  BY BoundedParts DEF Inv
<1>b. /\ \A key \in Keys : cache[key] \in Entry
      /\ \A r \in Readers : /\ readers[r] \in Reader /\ readers[r].holds \in Ages
                              /\ readers[r].wants \in {"list"} \cup Languages
      /\ \A w \in Writers : writers[w] \in Writer /\ writers[w].change \in Changes
      /\ Keys = {"object", "list"} \cup Languages /\ Changes = {"book", "category"}
  BY <1>a DEF TypeOK, Entry, Reader, Writer, Keys, Changes
<1>c. ASSUME UNCHANGED <<overlapped, died>>,
             \A w \in Writers : writers[w].at = "committed" =>
                /\ writers'[w].at = "committed" /\ writers'[w].left = writers[w].left
                /\ writers'[w].change = writers[w].change
      PROVE  \A change \in Changes, key \in Keys :
                Explained(change, key) => Explained(change, key)'
  BY <1>c DEF Explained, WillDelete
<1>d. ASSUME UNCHANGED <<cache, writers, overlapped, died>>,
             NEW r \in Readers, \A q \in Readers \ {r} : readers'[q] = readers[q],
             \/ readers'[r].holds = 0
             \/ readers'[r].holds = readers[r].holds /\ readers'[r].wants = readers[r].wants
      PROVE  OldIsExplained'
  BY <1>a, <1>c, <1>d DEF OldIsExplained, Keys, Changes
<1>e. ASSUME NEW r \in Readers, NEW at, Goes(r, at)
      PROVE  /\ \A q \in Readers \ {r} : readers'[q] = readers[q]
             /\ readers'[r].holds = readers[r].holds
             /\ readers'[r].wants = readers[r].wants
  BY <1>a, <1>b, <1>e DEF Goes, TypeOK, Reader
<1>f. ASSUME NEW r \in Readers, Done(r)
      PROVE  /\ \A q \in Readers \ {r} : readers'[q] = readers[q]
             /\ readers'[r].holds = 0
  BY <1>a, <1>f DEF Done, NoRead, TypeOK
<1>1. ASSUME NEW r \in Readers, NEW language \in Languages, OpenPage(r, language)
      PROVE  OldIsExplained'
  <2>1. /\ \A q \in Readers \ {r} : readers'[q] = readers[q]
        /\ readers'[r].wants = language
        /\ readers'[r].holds \in {0, cache["object"].age}
    BY <1>1, <1>a DEF OpenPage, TypeOK, NoRead
  <2>2. cache["object"].age # 0 => Explained("book", "object")
    BY <1>a DEF OldIsExplained
  <2>3. Explained("book", "object") => Explained("book", "object")'
    BY <1>1, <1>c, <1>b DEF OpenPage
  <2>4. UNCHANGED <<cache, writers, overlapped, died>>
    BY <1>1 DEF OpenPage
  <2>5. \A change \in Changes, key \in Keys :
           Explained(change, key) => Explained(change, key)'
    BY <1>c, <2>4
  <2>. QED BY <1>a, <1>b, <2>1, <2>2, <2>3, <2>4, <2>5 DEF OldIsExplained
<1>2. ASSUME NEW r \in Readers, OpenList(r)
      PROVE  OldIsExplained'
  <2>1. readers'[r].holds = 0 /\ \A q \in Readers \ {r} : readers'[q] = readers[q]
    BY <1>2, <1>a DEF OpenList, NoRead, TypeOK
  <2>. QED BY <1>2, <1>d, <2>1 DEF OpenList
<1>3. ASSUME NEW r \in Readers, Query(r)
      PROVE  OldIsExplained'
  BY <1>3, <1>d, <1>e DEF Query
<1>4. ASSUME NEW r \in Readers, Render(r)
      PROVE  OldIsExplained'
  BY <1>4, <1>d, <1>e, <1>f DEF Render
<1>5. ASSUME NEW r \in Readers, ReadFails(r)
      PROVE  OldIsExplained'
  BY <1>5, <1>d, <1>f DEF ReadFails
<1>6. ASSUME NEW r \in Readers, StoreObject(r)
      PROVE  OldIsExplained'
  <2>1. /\ \A change \in Changes, key \in Keys :
              Explained(change, key) => Explained(change, key)'
        /\ UNCHANGED overlapped
    BY <1>6, <1>c DEF StoreObject
  <2>2. /\ \A q \in Readers \ {r} : readers'[q] = readers[q]
        /\ readers'[r].holds = readers[r].holds
        /\ readers'[r].wants = readers[r].wants
    BY <1>6, <1>e DEF StoreObject
  <2>3. /\ cache'["object"].age = readers[r].holds
        /\ \A key \in Keys \ {"object"} : cache'[key] = cache[key]
    BY <1>6, <1>a, <1>b DEF StoreObject, Stored, TypeOK
  <2>4. readers[r].wants \in Languages
    BY <1>6, <1>a DEF StoreObject, ReaderBounded
  <2>5. readers[r].holds # 0 => Explained("book", "object")
    BY <1>a, <2>4 DEF OldIsExplained
  <2>. QED BY <1>a, <1>b, <2>1, <2>2, <2>3, <2>5 DEF OldIsExplained
<1>7. ASSUME NEW r \in Readers, Write(r)
      PROVE  OldIsExplained'
  <2>1. /\ \A change \in Changes, key \in Keys :
              Explained(change, key) => Explained(change, key)'
        /\ UNCHANGED overlapped
    BY <1>7, <1>c DEF Write
  <2>2. /\ \A q \in Readers \ {r} : readers'[q] = readers[q]
        /\ readers'[r].holds = 0
    BY <1>7, <1>f DEF Write
  <2>3. /\ cache'[readers[r].wants].age = readers[r].holds
        /\ \A key \in Keys \ {readers[r].wants} : cache'[key] = cache[key]
    BY <1>7, <1>a, <1>b DEF Write, Stored, TypeOK
  <2>4. CASE readers[r].wants \in Languages
    <3>1. readers[r].holds # 0 => Explained("book", readers[r].wants)
      BY <1>a, <2>4, ObjectFirst DEF OldIsExplained
    <3>. QED BY <1>a, <1>b, <2>1, <2>2, <2>3, <2>4, <3>1 DEF OldIsExplained
  <2>5. CASE readers[r].wants = "list"
    <3>1. readers[r].holds # 0 => \E change \in Changes : Explained(change, "list")
      BY <1>a, <2>5 DEF OldIsExplained, Explained
    <3>. QED BY <1>a, <1>b, <2>1, <2>2, <2>3, <2>5, <3>1 DEF OldIsExplained
  <2>. QED BY <1>b, <2>4, <2>5
<1>8. ASSUME NEW w \in Writers, Commit(w)
      PROVE  OldIsExplained'
  <2>. DEFINE change == writers[w].change
  <2>1. /\ writers[w].at = "open" /\ writers[w].left = Deletions(change)
        /\ writers'[w].at = "committed" /\ writers'[w].left = writers[w].left
        /\ writers'[w].change = change
        /\ \A v \in Writers \ {w} : writers'[v] = writers[v]
    BY <1>8, <1>a, <1>b DEF Commit, DeletionsInOrder, TypeOK, Writer
  <2>2. /\ overlapped'[change] = (\E r \in Readers : Holds(r, change))
        /\ \A c \in Changes \ {change} :
              overlapped'[c] = overlapped[c] /\ died'[c] = died[c]
    BY <1>8, <1>a, <1>b DEF Commit, TypeOK
  <2>3. ASSUME NEW r \in Readers, readers'[r].holds # 0, readers[r].wants = "list"
        PROVE  \E c \in Changes : overlapped'[c]
    <3>1. CASE Holds(r, change)
      BY <2>2, <3>1, <1>b
    <3>2. CASE ~Holds(r, change)
      <4>1. readers'[r] = readers[r]
        BY <1>8, <3>2 DEF Commit
      <4>2. readers[r].at # "write"
        BY <1>b, <2>3, <3>2 DEF Holds, Shows
      <4>3. readers[r].holds = 0
        BY <1>a, <1>b, <2>3, <4>2 DEF ReaderBounded, Reader
      <4>. QED BY <2>3, <4>1, <4>3
    <3>. QED BY <3>1, <3>2
  <2>4. \A r \in Readers : readers'[r].wants = readers[r].wants
    BY <1>8, <1>b DEF Commit, Reader
  <2>5. CASE change = "book"
    <3>1. writers'[w].left = All
      BY <2>1, <2>5 DEF Deletions, All
    <3>2. \A key \in Keys : WillDelete(w, key)'
      BY <2>1, <3>1 DEF WillDelete
    <3>3. \A key \in Keys : Explained("book", key)'
      BY <2>1, <2>5, <3>2 DEF Explained
    <3>. QED BY <1>b, <2>3, <2>4, <3>3 DEF OldIsExplained
  <2>6. CASE change = "category"
    <3>1. writers'[w].left = ListOnly
      BY <2>1, <2>6 DEF Deletions, ListOnly
    <3>2. WillDelete(w, "list")'
      BY <2>1, <3>1 DEF WillDelete
    <3>3. Explained("category", "list")'
      BY <2>1, <2>6, <3>2 DEF Explained
    <3>4. \A key \in Keys : Explained("book", key) => Explained("book", key)'
      <4>1. overlapped'["book"] = overlapped["book"] /\ died'["book"] = died["book"]
        BY <1>b, <2>2, <2>6
      <4>2. \A v \in Writers, key \in Keys : WillDelete(v, key) => v # w
        BY <2>1 DEF WillDelete
      <4>. QED BY <2>1, <4>1, <4>2 DEF Explained, WillDelete
    <3>5. \A key \in {"object"} \cup Languages : cache'[key] = cache[key]
      BY <1>8, <1>b, <2>6 DEF Commit, Shows
    <3>6. \A r \in Readers : readers[r].wants \in Languages =>
             readers'[r] = readers[r]
      BY <1>8, <2>6 DEF Commit, Holds, Shows
    <3>. QED BY <1>a, <1>b, <2>3, <2>4, <3>3, <3>4, <3>5, <3>6 DEF OldIsExplained
  <2>. QED BY <1>b, <2>5, <2>6
<1>9. ASSUME NEW w \in Writers, Delete(w)
      PROVE  OldIsExplained'
  <2>. DEFINE keys == Head(writers[w].left)
              change == writers[w].change
  <2>1. /\ writers[w].at = "committed" /\ UNCHANGED <<readers, died>>
        /\ \A key \in Keys : cache'[key] = IF key \in keys THEN NoEntry ELSE cache[key]
        /\ \A v \in Writers \ {w} : writers'[v] = writers[v]
        /\ \A c \in Changes : overlapped[c] => overlapped'[c]
    BY <1>9, <1>a DEF Delete, TypeOK
  <2>2. /\ change = "book" => writers[w].left \in {All, Fragments, ListOnly}
        /\ change = "category" => writers[w].left = ListOnly
    BY <1>a, <2>1 DEF DeletionsInOrder
  <2>3. ASSUME Len(writers[w].left) # 1
        PROVE  /\ writers'[w].at = "committed" /\ writers'[w].change = change
               /\ writers'[w].left = Tail(writers[w].left)
    BY <1>9, <1>a, <1>b, <2>3 DEF Delete, TypeOK, Writer
  <2>4. ASSUME NEW key \in Keys, key \notin keys, WillDelete(w, key)
        PROVE  WillDelete(w, key)' /\ writers'[w].change = change
    <3>1. writers[w].left # ListOnly
      BY <1>b, <2>2, <2>4, Tuples DEF WillDelete
    <3>2. writers[w].left \in {All, Fragments}
      BY <1>b, <2>2, <3>1
    <3>3. writers'[w].left = Tail(writers[w].left)
          /\ writers'[w].at = "committed" /\ writers'[w].change = change
      BY <2>3, <3>2, Tuples
    <3>4. writers'[w].left = IF writers[w].left = All THEN Fragments ELSE ListOnly
      BY <3>2, <3>3, Tuples
    <3>. QED BY <1>b, <2>4, <3>2, <3>3, <3>4, Tuples DEF WillDelete
  <2>5. \A c \in Changes, key \in Keys :
           key \notin keys /\ Explained(c, key) => Explained(c, key)'
    <3>1. ASSUME NEW c \in Changes, NEW key \in Keys, key \notin keys,
                 NEW v \in Writers, WillDelete(v, key), writers[v].change = c
          PROVE  WillDelete(v, key)' /\ writers'[v].change = c
      BY <2>1, <2>4, <3>1 DEF WillDelete
    <3>. QED BY <2>1, <3>1 DEF Explained
  <2>6. ASSUME NEW key \in Keys, cache'[key].age # 0
        PROVE  key \notin keys /\ cache[key].age # 0
    BY <2>1, <2>6 DEF NoEntry
  <2>7. ASSUME NEW r \in Readers, readers[r].holds # 0, readers[r].wants \in Languages
        PROVE  Explained("book", "object")'
    <3>1. Explained("book", "object")
      BY <1>a, <2>7 DEF OldIsExplained
    <3>2. CASE "object" \in keys
      <4>1. Holds(r, "book")
        BY <1>a, <1>b, <2>7 DEF Holds, Shows, ReaderBounded, Reader, Keys
      <4>2. readers[r].holds > 0
        BY <1>b, <2>7 DEF Ages
      <4>3. overlapped'["book"]
        BY <1>9, <1>a, <1>b, <3>2, <4>1, <4>2 DEF Delete, TypeOK
      <4>. QED BY <4>3 DEF Explained
    <3>3. CASE "object" \notin keys
      BY <1>b, <2>5, <3>1, <3>3
    <3>. QED BY <3>2, <3>3
  <2>8. \A key \in {"object"} \cup Languages :
           cache'[key].age # 0 => Explained("book", key)'
    BY <1>a, <1>b, <2>5, <2>6 DEF OldIsExplained
  <2>9. cache'["list"].age # 0 => \E c \in Changes : Explained(c, "list")'
    BY <1>a, <1>b, <2>5, <2>6 DEF OldIsExplained
  <2>10. \A r \in Readers : readers'[r].holds # 0 /\ readers'[r].wants = "list" =>
            \E c \in Changes : overlapped'[c]
    BY <1>a, <2>1 DEF OldIsExplained
  <2>. QED BY <2>1, <2>7, <2>8, <2>9, <2>10 DEF OldIsExplained
<1>10. ASSUME NEW w \in Writers, WriterDies(w)
       PROVE  OldIsExplained'
  <2>1. /\ UNCHANGED <<cache, readers, overlapped>> /\ died'[writers[w].change]
        /\ \A c \in Changes : died[c] => died'[c]
        /\ \A v \in Writers \ {w} : writers'[v] = writers[v]
    BY <1>10, <1>a, <1>b DEF WriterDies, TypeOK
  <2>2. \A change \in Changes, key \in Keys :
           Explained(change, key) => Explained(change, key)'
    BY <2>1 DEF Explained, WillDelete
  <2>. QED BY <1>a, <1>b, <2>1, <2>2 DEF OldIsExplained
<1>11. ASSUME NEW w \in Writers, (\E change \in Changes : Save(w, change)) \/ Rollback(w)
       PROVE  OldIsExplained'
  <2>1. /\ UNCHANGED <<cache, readers, overlapped, died>>
        /\ writers[w].at # "committed"
        /\ \A v \in Writers \ {w} : writers'[v] = writers[v]
    BY <1>11, <1>a DEF Save, Rollback, TypeOK
  <2>2. \A c \in Changes, key \in Keys : Explained(c, key) => Explained(c, key)'
    BY <1>c, <2>1
  <2>. QED BY <1>a, <1>b, <2>1, <2>2 DEF OldIsExplained
<1>12. CASE Tick
  <2>1. \A w \in Writers : writers[w].at = "committed" =>
           /\ writers'[w].at = "committed" /\ writers'[w].left = writers[w].left
           /\ writers'[w].change = writers[w].change
    BY <1>12, <1>b DEF Tick, Writer
  <2>2. \A c \in Changes, key \in Keys : Explained(c, key) => Explained(c, key)'
    BY <1>12, <1>c, <2>1 DEF Tick
  <2>3. ASSUME NEW key \in Keys, cache'[key].age # 0
        PROVE  cache[key].age # 0
    <3>1. cache'[key] = Aged(cache[key])
      BY <1>12 DEF Tick
    <3>2. EntryBounded(key)
      BY BoundedParts DEF Inv
    <3>3. cache[key].left + cache[key].age <= 2 * Span
      BY <3>2 DEF EntryBounded
    <3>4. cache[key] \in Entry
      BY <1>b
    <3>5. cache[key].left = 0 => cache[key].age = 0
      BY <3>2, <3>4 DEF EntryBounded, Cached
    <3>. QED BY <2>3, <3>1, <3>3, <3>4, <3>5, AgedEntry
  <2>4. ASSUME NEW r \in Readers, readers'[r].holds # 0
        PROVE  readers[r].holds # 0 /\ readers'[r].wants = readers[r].wants
    <3>1. readers[r].at # "idle"
      BY <1>12, <2>4 DEF Tick, NoRead
    <3>2. readers'[r] = [readers[r] EXCEPT !.since = readers[r].since + 1,
                                           !.holds = Older(readers[r].holds)]
      BY <1>12, <3>1 DEF Tick
    <3>3. readers'[r].holds = Older(readers[r].holds)
          /\ readers'[r].wants = readers[r].wants
      BY <1>b, <3>2 DEF Reader
    <3>. QED BY <2>4, <3>3 DEF Older
  <2>5. UNCHANGED overlapped
    BY <1>12 DEF Tick
  <2>6. \A key \in {"object"} \cup Languages :
           cache'[key].age # 0 => Explained("book", key)'
    BY <1>a, <1>b, <2>2, <2>3 DEF OldIsExplained
  <2>7. cache'["list"].age # 0 => \E change \in Changes : Explained(change, "list")'
    BY <1>a, <1>b, <2>2, <2>3 DEF OldIsExplained
  <2>8. \A r \in Readers : readers'[r].holds # 0 =>
           /\ readers'[r].wants \in Languages => Explained("book", "object")'
           /\ readers'[r].wants = "list" => \E change \in Changes : overlapped'[change]
    <3>1. ASSUME NEW r \in Readers, readers[r].holds # 0, readers[r].wants \in Languages
          PROVE  Explained("book", "object")'
      <4>1. Explained("book", "object")
        BY <1>a, <3>1 DEF OldIsExplained
      <4>. QED BY <1>b, <2>2, <4>1
    <3>2. ASSUME NEW r \in Readers, readers[r].holds # 0, readers[r].wants = "list"
          PROVE  \E change \in Changes : overlapped'[change]
      BY <1>a, <2>5, <3>2 DEF OldIsExplained
    <3>. QED BY <2>4, <3>1, <3>2
  <2>. QED BY <2>6, <2>7, <2>8 DEF OldIsExplained
<1>13. CASE UNCHANGED vars
  <2>1. UNCHANGED <<cache, readers, writers, overlapped, died>>
    BY <1>13 DEF vars
  <2>. QED BY <1>a, <2>1 DEF OldIsExplained, Explained, WillDelete
<1>. QED BY <1>1, <1>2, <1>3, <1>4, <1>5, <1>6, <1>7, <1>8, <1>9, <1>10, <1>11, <1>12,
            <1>13 DEF Next

-----------------------------------------------------------------------------
LEMMA InvInit == Init => Inv
<1>. SUFFICES ASSUME Init PROVE Inv
  OBVIOUS
<1>. USE Bounds, BlankTypes
<1>1. TypeOK
  BY DEF Init, TypeOK, NoWrite
<1>2. AgesBounded
  BY DEF Init, AgesBounded, NoEntry, NoRead, Cached, Keys
<1>3. DeletionsInOrder
  BY DEF Init, DeletionsInOrder, NoWrite
<1>4. OldIsExplained
  BY DEF Init, OldIsExplained, NoEntry, NoRead, Keys
<1>. QED BY <1>1, <1>2, <1>3, <1>4 DEF Inv

LEMMA InvStep == Inv /\ [Next]_vars => Inv'
  BY TypeStep, AgesStep, OrderStep, OldStep DEF Inv

\* The conjunction of the four invariants is inductive.
THEOREM Invariant == Spec => []Inv
<1>. QED BY InvInit, InvStep, PTL DEF Spec

\* Every variable keeps its type; in particular no age and no lifetime leaves its
\* range, whatever the order of reads, stores, commits, deletions and ticks.
THEOREM TypeCorrect == Spec => []TypeOK
<1>1. Inv => TypeOK
  BY DEF Inv
<1>. QED BY <1>1, Invariant, PTL

\* What is old in a layer of the cache always has one of the named reasons: a
\* deletion to come, a read that a change met, or a writer that died.
THEOREM OldLayersAreExplained == Spec => []FreshUnlessOverlapped
<1>1. Inv => FreshUnlessOverlapped
  <2>. SUFFICES ASSUME Inv, NEW key \in Keys,
                       \A change \in Changes : key \in Shows(change) => ~Excused(change)
                PROVE  cache[key].age = 0
    BY DEF FreshUnlessOverlapped
  <2>1. \A change \in Changes : Explained(change, key) => Excused(change)
    BY DEF Explained, WillDelete, Excused
  <2>2. "book" \in Changes /\ key \in Shows("book")
        /\ (key = "list" => \A change \in Changes : key \in Shows(change))
    BY DEF Changes, Shows
  <2>3. CASE key = "list"
    BY <2>1, <2>2, <2>3 DEF Inv, OldIsExplained
  <2>4. CASE key \in {"object"} \cup Languages
    BY <2>1, <2>2, <2>4 DEF Inv, OldIsExplained
  <2>. QED BY <2>3, <2>4 DEF Keys
<1>. QED BY <1>1, Invariant, PTL

\* The object and the list are old for at most a timeout and a request, a page for
\* less than twice that.
THEOREM LayersStalenessIsBounded == Spec => []BoundedStaleness
<1>1. Inv => BoundedStaleness
  <2>. SUFFICES ASSUME Inv PROVE BoundedStaleness
    OBVIOUS
  <2>1. \A key \in Keys : cache[key].left \in Nat /\ cache[key].age \in Nat
    BY Bounds DEF Inv, TypeOK, Entry, Ages
  <2>2. \A key \in Keys : EntryBounded(key)
    BY BoundedParts DEF Inv
  <2>3. \A key \in {"object", "list"} : cache[key].age <= Span
    <3>1. \A key \in {"object", "list"} : key \in Keys
      BY DEF Keys
    <3>. QED BY <2>1, <2>2, <3>1, Bounds DEF EntryBounded, Cached
  <2>4. \A language \in Languages : cache[language].age < 2 * Span
    <3>. SUFFICES ASSUME NEW language \in Languages
                  PROVE  cache[language].age < 2 * Span
      OBVIOUS
    <3>1. language \in Keys
      BY DEF Keys
    <3>2. /\ cache[language].left = 0 => cache[language].age = 0
          /\ cache[language].left + cache[language].age <= 2 * Span
      BY <2>1, <2>2, <3>1 DEF EntryBounded, Cached
    <3>3. Span \in Nat /\ Span >= 1
      BY Bounds
    <3>. QED BY <2>1, <3>1, <3>2, <3>3
  <2>. QED BY <2>3, <2>4 DEF BoundedStaleness, Span
<1>. QED BY <1>1, Invariant, PTL
=============================================================================
