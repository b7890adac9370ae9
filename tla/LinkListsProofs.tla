--------------------------- MODULE LinkListsProofs ---------------------------
(***************************************************************************)
(* For any number of links and mutations: a list at rest knows what was    *)
(* confirmed before its fetch began, and the analytics page selects a link *)
(* whenever its list comes.                                                *)
(***************************************************************************)
EXTENDS LinkLists, FiniteSetTheorems, TLAPS

-----------------------------------------------------------------------------
(* Finitely many links: a newest one.                                      *)

\* Of finitely many links one is the newest: the one with the fewest links above it.
LEMMA NewestExists ==
  ASSUME NEW S \in SUBSET Codes, S # {}
  PROVE  \E d \in S : \A e \in S : e <= d
<1> DEFINE Above(d) == {e \in S : e >= d}
           Counts == {n \in Nat : \E d \in S : n = Cardinality(Above(d))}
<1>1. Codes \subseteq Nat /\ IsFiniteSet(S)
  BY ConstantsAssumption, FS_Subset
<1>2. ASSUME NEW d \in S
      PROVE  IsFiniteSet(Above(d)) /\ Cardinality(Above(d)) \in Nat
  BY <1>1, FS_Subset, FS_CardinalityType
<1>3. Counts \subseteq Nat /\ Counts # {}
  BY <1>2
<1> HIDE DEF Counts
<1>4. PICK n \in Counts : \A m \in Counts : ~ (<<m, n>> \in OpToRel(<, Nat))
  BY <1>3, NatLessThanWellFounded, WFMin
<1>5. \A m \in Counts : n <= m
  <2>1. \A m \in Counts : ~ (m < n)
    BY <1>3, <1>4 DEF OpToRel
  <2> QED
    BY <1>3, <2>1
<1> USE DEF Counts
<1>6. PICK d \in S : n = Cardinality(Above(d))
  OBVIOUS
<1>7. SUFFICES ASSUME NEW e \in S, ~ (e <= d)
               PROVE  FALSE
  OBVIOUS
<1>8. Above(e) \subseteq Above(d) /\ d \in Above(d) /\ d \notin Above(e)
  <2>1. S \subseteq Nat /\ d \in Nat /\ e \in Nat /\ d < e /\ e \in S
    BY <1>1, <1>7
  <2>2. ASSUME NEW x \in Above(e)
        PROVE  x \in Above(d)
    <3>1. x \in S /\ x >= e /\ x \in Nat
      BY <2>1
    <3> QED
      BY <2>1, <3>1
  <2>3. d \in Above(d) /\ d \notin Above(e)
    BY <2>1
  <2> HIDE DEF Above
  <2> QED
    BY <2>2, <2>3
<1>9. Cardinality(Above(e)) < n
  <2>1. Cardinality(Above(e)) <= Cardinality(Above(d)) /\ Cardinality(Above(e)) # Cardinality(Above(d))
    BY <1>2, <1>8, FS_Subset
  <2> HIDE DEF Above
  <2> QED
    BY <1>2, <1>6, <2>1
<1>10. Cardinality(Above(e)) \in Counts
  BY <1>2
<1> QED
  BY <1>2, <1>3, <1>5, <1>9, <1>10

-----------------------------------------------------------------------------
(* What a list at rest knows.                                              *)

\* the part of TypeOK that the lists need
Typed ==
  /\ links \subseteq Codes /\ mine \subseteq Codes /\ gone \subseteq Codes
  /\ removed \subseteq Codes /\ raced \subseteq Keys
  /\ job \in [Codes -> {"none", "create", "created", "delete", "deleted"}]
  /\ cache \in [Keys -> Entry]

\* A code is given to one link only, which is on the server until it is deleted.
Unused ==
  /\ removed \cap links = {}
  /\ gone \subseteq removed
  /\ mine \subseteq links \cup removed
  /\ \A c \in Codes :
       /\ job[c] = "create" => c \notin links \cup removed
       /\ job[c] = "created" => c \in links
       /\ job[c] = "deleted" => c \in removed

\* A list fetched again is stale until the answer is there.
StaleInFlight == \A k \in Keys : cache[k].has /\ cache[k].fetch # "idle" => cache[k].stale

Knows(list) == list \cap gone = {} /\ mine \cap links \subseteq list

\* A list at rest, and an answer on its way, know what was confirmed.
Known ==
  \A k \in Keys \ raced :
    /\ Rests(k) => Knows(cache[k].data)
    /\ cache[k].fetch = "served" => Knows(cache[k].got)

ListsInv == Typed /\ Unused /\ StaleInFlight /\ Known

\* How the helpers of the cache change an entry, and a whole step of the page the lists.
LEMMA AskedIsEntry ==
  ASSUME NEW e \in Entry
  PROVE  /\ Asked(e) \in Entry /\ Asked(e).has = e.has /\ Asked(e).data = e.data
         /\ Asked(e).stale = e.stale /\ Asked(e).fetch = "asked"
BY DEF Asked, Entry

LEMMA ObservedIsCache ==
  ASSUME Typed, NEW k
  PROVE  /\ Observed(cache, k) \in [Keys -> Entry]
         /\ \A i \in Keys :
              \/ Observed(cache, k)[i] = cache[i]
              \/ /\ Observed(cache, k)[i] = Asked(cache[i]) /\ cache[i].fetch = "idle"
                 /\ ~ cache[i].has \/ cache[i].stale
BY AskedIsEntry DEF Observed, Typed

LEMMA ShowKeeps ==
  ASSUME ListsInv, NEW r, NEW term, NEW code, Show(r, term, code),
         UNCHANGED <<links, job, mine, gone, removed>>
  PROVE  ListsInv'
<1>1. /\ cache' \in [Keys -> Entry]
      /\ \A i \in Keys :
           \/ cache'[i] = cache[i]
           \/ /\ cache'[i] = Asked(cache[i]) /\ cache[i].fetch = "idle"
              /\ ~ cache[i].has \/ cache[i].stale
  BY ObservedIsCache DEF Show, ListsInv
<1>2. \A i \in Keys : cache'[i] = Asked(cache[i]) =>
        cache'[i].fetch = "asked" /\ cache'[i].has = cache[i].has /\ cache'[i].stale = cache[i].stale
  BY AskedIsEntry DEF ListsInv, Typed
<1>3. raced' = raced \ {k \in Keys : cache'[k].fetch = "asked" /\ cache[k].fetch = "idle"}
  BY DEF Show
<1>4. Typed' /\ Unused'
  BY <1>1, <1>3 DEF ListsInv, Typed, Unused
<1>5. StaleInFlight'
  BY <1>1, <1>2 DEF ListsInv, StaleInFlight
<1>6. Known'
  <2> SUFFICES ASSUME NEW k \in Keys \ raced'
               PROVE  /\ Rests(k)' => Knows(cache[k].data)'
                      /\ cache'[k].fetch = "served" => Knows(cache[k].got)'
    BY DEF Known
  <2>1. CASE cache'[k] = cache[k]
    <3>1. k \notin raced
      BY <1>3, <2>1
    <3> QED
      BY <2>1, <3>1 DEF ListsInv, Known, Rests, Knows
  <2>2. CASE cache'[k] = Asked(cache[k])
    BY <1>2, <2>2 DEF Rests
  <2> QED
    BY <1>1, <2>1, <2>2
<1> QED
  BY <1>4, <1>5, <1>6 DEF ListsInv

\* Invalidation leaves no list at rest, and marks the fetches it cannot restart.
LEMMA InvalidateKeeps ==
  ASSUME Typed, StaleInFlight, Invalidate
  PROVE  /\ cache' \in [Keys -> Entry] /\ raced' \subseteq Keys
         /\ StaleInFlight' /\ Known'
<1>1. ASSUME NEW k \in Keys
      PROVE  /\ cache'[k] \in Entry
             /\ cache'[k].has => cache'[k].stale
             /\ cache'[k].fetch = "asked" \/ cache'[k].fetch = cache[k].fetch
  <2>1. CASE Restarts(k)
    <3>1. cache'[k] = [Asked(cache[k]) EXCEPT !.stale = TRUE]
      BY <2>1 DEF Invalidate
    <3>2. Asked(cache[k]) \in Entry /\ Asked(cache[k]).fetch = "asked"
      BY AskedIsEntry DEF Typed
    <3> QED
      BY <3>1, <3>2 DEF Entry
  <2>2. CASE ~ Restarts(k)
    <3>1. cache'[k] = [cache[k] EXCEPT !.stale = cache[k].has \/ cache[k].fetch # "idle"]
      BY <2>2 DEF Invalidate
    <3>2. cache[k] \in Entry
      BY DEF Typed
    <3>3. PICK b \in BOOLEAN : b = (cache[k].has \/ cache[k].fetch # "idle")
      OBVIOUS
    <3>4. cache'[k] = [cache[k] EXCEPT !.stale = b]
      BY <3>1, <3>3
    <3>5. /\ cache'[k] \in Entry /\ cache'[k].stale = b /\ cache'[k].has = cache[k].has
          /\ cache'[k].fetch = cache[k].fetch
      BY <3>2, <3>4 DEF Entry
    <3> QED
      BY <3>3, <3>5
  <2> QED
    BY <2>1, <2>2
<1>2. cache' \in [Keys -> Entry]
  <2>1. cache' = [k \in Keys |-> cache'[k]]
    BY DEF Invalidate
  <2> QED
    BY <1>1, <2>1
<1>3. raced' \subseteq Keys
  BY DEF Invalidate, Typed
<1>4. StaleInFlight'
  BY <1>1 DEF StaleInFlight
<1>5. ASSUME NEW k \in Keys \ raced'
      PROVE  ~ Rests(k)' /\ cache'[k].fetch # "served"
  <2>1. ~ Rests(k)'
    BY <1>1 DEF Rests
  <2>2. CASE Restarts(k)
    <3>1. cache'[k] = [Asked(cache[k]) EXCEPT !.stale = TRUE]
      BY <2>2 DEF Invalidate
    <3>2. Asked(cache[k]) \in Entry /\ Asked(cache[k]).fetch = "asked"
      BY AskedIsEntry DEF Typed
    <3> QED
      BY <2>1, <3>1, <3>2 DEF Entry
  <2>3. CASE ~ Restarts(k)
    <3>1. cache[k].fetch = "idle"
      BY <2>3 DEF Invalidate
    <3> QED
      BY <1>1, <2>1, <3>1
  <2> QED
    BY <2>2, <2>3
<1>6. Known'
  BY <1>5 DEF Known
<1> QED
  BY <1>2, <1>3, <1>4, <1>6

\* A fetch that ends or begins touches one list.
LEMMA OneListKeeps ==
  ASSUME ListsInv, NEW k \in Keys, NEW e \in Entry,
         cache' = [cache EXCEPT ![k] = e], UNCHANGED <<links, job, mine, gone, removed>>,
         raced' \subseteq Keys, \A i \in Keys \ {k} : i \notin raced' => i \notin raced,
         e.has /\ e.fetch # "idle" => e.stale,
         k \notin raced' => /\ e.has /\ ~ e.stale /\ e.fetch = "idle" => Knows(e.data)
                            /\ e.fetch = "served" => Knows(e.got)
  PROVE  ListsInv'
<1>1. cache' \in [Keys -> Entry] /\ cache'[k] = e /\ \A i \in Keys \ {k} : cache'[i] = cache[i]
  BY DEF ListsInv, Typed
<1>2. Typed' /\ Unused'
  BY <1>1 DEF ListsInv, Typed, Unused
<1>3. StaleInFlight'
  BY <1>1 DEF ListsInv, StaleInFlight
<1>4. \A list : Knows(list) => Knows(list)'
  BY DEF Knows
<1>5. Known'
  <2> SUFFICES ASSUME NEW i \in Keys \ raced'
               PROVE  /\ Rests(i)' => Knows(cache[i].data)'
                      /\ cache'[i].fetch = "served" => Knows(cache[i].got)'
    BY DEF Known
  <2>1. CASE i = k
    BY <1>1, <2>1 DEF Rests, Knows
  <2>2. CASE i # k
    BY <1>1, <2>2 DEF ListsInv, Known, Rests, Knows
  <2> QED
    BY <2>1, <2>2
<1> QED
  BY <1>2, <1>3, <1>5 DEF ListsInv

LEMMA ListsInit == Init => ListsInv
<1> SUFFICES ASSUME Init
             PROVE  ListsInv
  OBVIOUS
<1>1. NoEntry \in Entry /\ ~ NoEntry.has /\ NoEntry.fetch = "idle"
  BY DEF NoEntry, Entry
<1>2. /\ cache \in [Keys -> Entry]
      /\ \A i \in Keys : cache[i] = NoEntry \/ cache[i] = Asked(NoEntry)
  <2>1. PICK empty : empty = [k \in Keys |-> NoEntry]
    OBVIOUS
  <2>2. empty \in [Keys -> Entry] /\ \A i \in Keys : empty[i] = NoEntry
    BY <1>1, <2>1
  <2>3. cache = Observed(empty, Key)
    BY <2>1 DEF Init
  <2>4. cache = empty \/ cache = [empty EXCEPT ![Key] = Asked(@)]
    BY <2>3 DEF Observed
  <2> QED
    BY <1>1, <2>2, <2>4, AskedIsEntry
<1>3. \A i \in Keys : ~ cache[i].has /\ cache[i].fetch # "served"
  BY <1>1, <1>2, AskedIsEntry
<1>4. Typed /\ Unused
  BY <1>2 DEF Init, Typed, Unused
<1> QED
  BY <1>3, <1>4 DEF ListsInv, StaleInFlight, Known, Rests

LEMMA ListsFetch ==
  ASSUME ListsInv, NEW k \in Keys,
         Serve(k) \/ Answer(k) \/ FetchFails(k) \/ Age(k) \/ Evict(k)
  PROVE  ListsInv'
<1> USE DEF work, server
<1>1. /\ cache[k] \in Entry /\ cache \in [Keys -> Entry] /\ raced \subseteq Keys
      /\ links \subseteq Codes
  BY DEF ListsInv, Typed
<1>2. UNCHANGED <<links, job, mine, gone, removed>>
  BY DEF Serve, Answer, FetchFails, Age, Evict
<1>3. CASE Serve(k)
  <2>1. PICK e : e = [cache[k] EXCEPT !.fetch = "served", !.got = links]
    OBVIOUS
  <2>2. e \in Entry /\ e.fetch = "served" /\ e.got = links /\ e.has = cache[k].has /\ e.stale = cache[k].stale
    BY <1>1, <2>1 DEF Entry
  <2>3. cache' = [cache EXCEPT ![k] = e] /\ raced' = raced /\ cache[k].fetch = "asked"
    BY <1>1, <1>3, <2>1 DEF Serve, Entry
  <2>4. Knows(links)
    BY DEF ListsInv, Unused, Knows
  <2>5. e.has /\ e.fetch # "idle" => e.stale
    BY <2>2, <2>3 DEF ListsInv, StaleInFlight
  <2> QED
    BY <1>1, <1>2, <2>2, <2>3, <2>4, <2>5, OneListKeeps
<1>4. CASE Answer(k)
  <2>1. PICK e : e = [NoEntry EXCEPT !.has = TRUE, !.data = cache[k].got]
    OBVIOUS
  <2>2. e \in Entry /\ e.fetch = "idle" /\ e.data = cache[k].got
    BY <1>1, <2>1 DEF Entry, NoEntry
  <2>3. cache' = [cache EXCEPT ![k] = e] /\ raced' = raced /\ cache[k].fetch = "served"
    BY <1>4, <2>1 DEF Answer
  <2>4. k \notin raced => Knows(e.data)
    BY <2>2, <2>3 DEF ListsInv, Known
  <2> QED
    BY <1>1, <1>2, <2>2, <2>3, <2>4, OneListKeeps
<1>5. CASE FetchFails(k)
  <2>1. PICK b \in BOOLEAN, d \in BOOLEAN :
          b = (~ cache[k].has) /\ d = (cache[k].has /\ cache[k].stale)
    OBVIOUS
  <2>2. PICK e : e = [cache[k] EXCEPT !.fetch = "idle", !.got = {}, !.failed = b, !.stale = d]
    OBVIOUS
  <2>3. e \in Entry /\ e.fetch = "idle" /\ e.has = cache[k].has /\ e.stale = d
    BY <1>1, <2>1, <2>2 DEF Entry
  <2>4. cache' = [cache EXCEPT ![k].fetch = "idle", ![k].got = {}, ![k].failed = b, ![k].stale = d]
    BY <1>5, <2>1 DEF FetchFails
  <2>5. cache' = [cache EXCEPT ![k] = e] /\ raced' = raced
    BY <1>1, <1>5, <2>2, <2>4 DEF FetchFails, Entry
  <2>6. e.has => e.stale
    BY <1>5, <2>1, <2>3 DEF FetchFails, ListsInv, StaleInFlight
  <2> QED
    BY <1>1, <1>2, <2>3, <2>5, <2>6, OneListKeeps
<1>6. CASE Age(k)
  <2>1. PICK e : e = [cache[k] EXCEPT !.stale = TRUE]
    OBVIOUS
  <2>2. e \in Entry /\ e.stale /\ e.fetch = cache[k].fetch /\ e.got = cache[k].got
    BY <1>1, <2>1 DEF Entry
  <2>3. cache' = [cache EXCEPT ![k] = e] /\ raced' = raced
    BY <1>1, <1>6, <2>1 DEF Age, Entry
  <2>4. k \notin raced => (e.fetch = "served" => Knows(e.got))
    BY <2>2 DEF ListsInv, Known
  <2> QED
    BY <1>1, <1>2, <2>2, <2>3, <2>4, OneListKeeps
<1>7. CASE Evict(k)
  <2>1. NoEntry \in Entry /\ ~ NoEntry.has /\ NoEntry.fetch = "idle"
    BY DEF NoEntry, Entry
  <2>2. cache' = [cache EXCEPT ![k] = NoEntry] /\ raced' = raced \ {k}
    BY <1>7 DEF Evict
  <2> QED
    BY <1>1, <1>2, <2>1, <2>2, OneListKeeps
<1> QED
  BY <1>3, <1>4, <1>5, <1>6, <1>7

\* The server's part of a mutation: the lists on their way need not know of it yet.
LEMMA ListsServer ==
  ASSUME ListsInv, NEW c \in Codes,
         Create(c) \/ Created(c) \/ Delete(c) \/ Deleted(c) \/ MutationFails(c)
  PROVE  ListsInv'
<1> USE DEF work, server, ui
<1>1. UNCHANGED <<cache, mine, gone, raced>>
  BY DEF Create, Created, Delete, Deleted, MutationFails
<1>2. Typed /\ Unused /\ StaleInFlight /\ Known
  BY DEF ListsInv
<1>3. Typed'
  BY <1>1, <1>2 DEF Typed, Create, Created, Delete, Deleted, MutationFails, Mutate
<1>4. StaleInFlight'
  BY <1>1, <1>2 DEF StaleInFlight
<1>5. /\ \A d \in Codes \ {c} : job'[d] = job[d]
      /\ c \in Codes /\ Codes \subseteq Nat
  BY <1>2, ConstantsAssumption DEF Typed, Create, Created, Delete, Deleted, MutationFails, Mutate
<1>6. Unused' /\ mine \cap links' \subseteq links
  <2>1. CASE Create(c)
    <3>1. links' = links /\ removed' = removed /\ job'[c] = "create" /\ job[c] = "none"
      BY <1>2, <2>1 DEF Create, Mutate, Typed
    <3>2. c \notin links \cup removed
      BY <1>5, <2>1 DEF Create
    <3> QED
      BY <1>1, <1>2, <1>5, <3>1, <3>2 DEF Unused
  <2>2. CASE Created(c)
    <3>1. links' = links \cup {c} /\ removed' = removed /\ job'[c] = "created" /\ job[c] = "create"
      BY <1>2, <2>2 DEF Created, Mutate, Typed
    <3>2. c \notin links \cup removed
      BY <1>2, <3>1 DEF Unused
    <3> QED
      BY <1>1, <1>2, <1>5, <3>1, <3>2 DEF Unused
  <2>3. CASE Deleted(c)
    <3>1. /\ links' = links \ {c} /\ removed' = removed \cup {c} /\ c \in links
          /\ job'[c] = "deleted" /\ job[c] = "delete"
      BY <1>2, <2>3 DEF Deleted, Mutate, Typed
    <3> QED
      BY <1>1, <1>2, <1>5, <3>1 DEF Unused
  <2>4. CASE Delete(c) \/ MutationFails(c)
    <3>1. links' = links /\ removed' = removed /\ job'[c] \in {"delete", "none"}
      BY <1>2, <2>4 DEF Delete, MutationFails, Mutate, Typed
    <3> QED
      BY <1>1, <1>2, <1>5, <3>1 DEF Unused
  <2> QED
    BY <2>1, <2>2, <2>3, <2>4
<1>7. \A list : Knows(list) => Knows(list)'
  BY <1>1, <1>6 DEF Knows
<1>8. Known'
  <2> SUFFICES ASSUME NEW k \in Keys \ raced'
               PROVE  /\ Rests(k)' => Knows(cache[k].data)'
                      /\ cache'[k].fetch = "served" => Knows(cache[k].got)'
    BY DEF Known
  <2>1. /\ Rests(k) => Knows(cache[k].data)
        /\ cache[k].fetch = "served" => Knows(cache[k].got)
    BY <1>1, <1>2 DEF Known
  <2> QED
    BY <1>1, <1>6, <2>1 DEF Knows, Rests
<1> QED
  BY <1>3, <1>4, <1>6, <1>8 DEF ListsInv

LEMMA ListsAnswered ==
  ASSUME ListsInv, NEW c \in Codes, CreateAnswered(c) \/ DeleteAnswered(c)
  PROVE  ListsInv'
<1> USE DEF server
<1>1. Typed /\ Unused /\ StaleInFlight
  BY DEF ListsInv
<1>2. Invalidate /\ UNCHANGED <<links, removed>>
  BY DEF CreateAnswered, DeleteAnswered
<1>3. cache' \in [Keys -> Entry] /\ raced' \subseteq Keys /\ StaleInFlight' /\ Known'
  BY <1>1, <1>2, InvalidateKeeps
<1>4. /\ job' \in [Codes -> {"none", "create", "created", "delete", "deleted"}]
      /\ job'[c] = "none" /\ \A d \in Codes \ {c} : job'[d] = job[d]
  BY <1>1 DEF Typed, CreateAnswered, DeleteAnswered, Mutate
<1>5. \/ mine' = mine \cup {c} /\ gone' = gone /\ c \in links
      \/ gone' = gone \cup {c} /\ mine' = mine /\ c \in removed
  BY <1>1 DEF CreateAnswered, DeleteAnswered, Mutate, Unused
<1>6. Typed'
  BY <1>1, <1>2, <1>3, <1>4, <1>5 DEF Typed
<1>7. Unused'
  BY <1>1, <1>2, <1>4, <1>5 DEF Unused
<1> QED
  BY <1>3, <1>6, <1>7 DEF ListsInv

LEMMA ListsStep == ListsInv /\ [Next]_vars => ListsInv'
<1> SUFFICES ASSUME ListsInv, [Next]_vars
             PROVE  ListsInv'
  OBVIOUS
<1> USE DEF work, server
<1>1. ASSUME NEW k \in Keys, Serve(k) \/ Answer(k) \/ FetchFails(k) \/ Age(k) \/ Evict(k)
      PROVE  ListsInv'
  BY <1>1, ListsFetch
<1>2. CASE Focus
  BY <1>2, ShowKeeps DEF Focus
<1>3. CASE Refresh
  <2>1. cache' \in [Keys -> Entry] /\ raced' \subseteq Keys /\ StaleInFlight' /\ Known'
    BY <1>3, InvalidateKeeps DEF Refresh, ListsInv
  <2>2. Typed' /\ Unused'
    BY <1>3, <2>1 DEF Refresh, ListsInv, Typed, Unused
  <2> QED
    BY <2>1, <2>2 DEF ListsInv
<1>4. ASSUME NEW r \in Routes, Visit(r)
      PROVE  ListsInv'
  BY <1>4, ShowKeeps DEF Visit
<1>5. ASSUME NEW c \in Codes, ViewAnalytics(c)
      PROVE  ListsInv'
  BY <1>5, ShowKeeps DEF ViewAnalytics
<1>6. CASE Search
  BY <1>6, ShowKeeps DEF Search
<1>7. ASSUME NEW c \in Codes,
             Create(c) \/ Created(c) \/ Delete(c) \/ Deleted(c) \/ MutationFails(c)
      PROVE  ListsInv'
  BY <1>7, ListsServer
<1>8. ASSUME NEW c \in Codes, CreateAnswered(c) \/ DeleteAnswered(c)
      PROVE  ListsInv'
  BY <1>8, ListsAnswered
<1>9. CASE UNCHANGED vars \/ \E c \in Codes : Select(c)
  <2>1. UNCHANGED <<links, job, cache, mine, gone, raced, removed>>
    BY <1>9 DEF vars, Select
  <2> QED
    BY <2>1 DEF ListsInv, Typed, Unused, StaleInFlight, Known, Rests, Knows
<1> QED
  BY <1>1, <1>2, <1>3, <1>4, <1>5, <1>6, <1>7, <1>8, <1>9 DEF Next

\* A list at rest knows every creation and deletion confirmed before its fetch began,
\* for any number of links, searches and mutations (useURLs.ts:50 and :102).
THEOREM ListsAlwaysKnowOwnWork == Spec => []ListsKnowOwnWork
<1>1. ListsInv => ListsKnowOwnWork
  BY DEF ListsInv, Known, ListsKnowOwnWork, Knows
<1> QED
  BY <1>1, ListsInit, ListsStep, PTL DEF Spec

-----------------------------------------------------------------------------
(* The selection of the analytics page: each step that puts rows into the  *)
(* list it observes, or brings the page, selects the newest of them.       *)

AllLinks == KeyOf("analytics", FALSE)

SelectionInv == route = "analytics" /\ selected = None => cache[AllLinks].data = {}

LEMMA AllLinksIsKey == AllLinks \in Keys /\ \A term : KeyOf("analytics", term) = AllLinks
BY DEF AllLinks, KeyOf, Keys

LEMMA SelectFirstSelects ==
  ASSUME NEW c \in [Keys -> Entry], NEW code,
         SelectFirst("analytics", c, code) = None
  PROVE  c[AllLinks].data = {}
<1> DEFINE list == c[KeyOf("analytics", FALSE)].data
<1>1. list = c[AllLinks].data /\ list \in SUBSET Codes
  BY AllLinksIsKey DEF AllLinks, Entry
<1>2. CASE code # None
  BY <1>2 DEF SelectFirst
<1>3. CASE code = None /\ list # {}
  <2>1. PICK d \in list : \A e \in list : e <= d
    BY <1>1, <1>3, NewestExists
  <2>2. SelectFirst("analytics", c, code) = CHOOSE x \in list : \A e \in list : e <= x
    BY <1>3 DEF SelectFirst
  <2>3. (CHOOSE x \in list : \A e \in list : e <= x) \in list
    BY <2>1
  <2>4. None \notin list
    BY <1>1, ConstantsAssumption
  <2> QED
    BY <2>2, <2>3, <2>4
<1> QED
  BY <1>1, <1>2, <1>3

LEMMA SelectionStep ==
  ASSUME ListsInv, ListsInv', SelectionInv, [Next]_vars
  PROVE  SelectionInv'
<1> USE DEF work, server, ui
<1>0. /\ cache \in [Keys -> Entry] /\ cache' \in [Keys -> Entry]
      /\ AllLinks \in Keys /\ cache[AllLinks] \in Entry
  BY AllLinksIsKey DEF ListsInv, Typed
<1>1. ASSUME NEW r, NEW term, NEW code, Show(r, term, code)
      PROVE  SelectionInv'
  <2>1. cache'[AllLinks].data = cache[AllLinks].data
    BY <1>0, <1>1, ObservedIsCache, AskedIsEntry DEF Show, ListsInv
  <2>2. route' = r /\ selected' = SelectFirst(r, cache, code)
    BY <1>1 DEF Show
  <2>3. CASE r = "analytics"
    BY <1>0, <2>1, <2>2, <2>3, SelectFirstSelects DEF SelectionInv
  <2>4. CASE r # "analytics"
    BY <2>2, <2>4 DEF SelectionInv
  <2> QED
    BY <2>3, <2>4
<1>2. ASSUME UNCHANGED <<route, selected>>, cache'[AllLinks].data = cache[AllLinks].data
      PROVE  SelectionInv'
  BY <1>2 DEF SelectionInv
<1>3. ASSUME NEW k \in Keys, Answer(k)
      PROVE  SelectionInv'
  <2>1. route' = route /\ selected' = SelectFirst(route, cache', selected)
    BY <1>3 DEF Answer
  <2> QED
    BY <1>0, <2>1, SelectFirstSelects DEF SelectionInv
<1>4. ASSUME NEW k \in Keys, Serve(k) \/ FetchFails(k) \/ Age(k)
      PROVE  SelectionInv'
  <2>1. UNCHANGED <<route, selected>>
    BY <1>4 DEF Serve, FetchFails, Age
  <2>2. cache'[AllLinks].data = cache[AllLinks].data
    BY <1>0, <1>4 DEF Serve, FetchFails, Age, Entry
  <2> QED
    BY <1>2, <2>1, <2>2
<1>5. ASSUME NEW k \in Keys, Evict(k)
      PROVE  SelectionInv'
  <2>1. route' = route /\ selected' = selected /\ k # Key /\ cache' = [cache EXCEPT ![k] = NoEntry]
    BY <1>5 DEF Evict
  <2>2. route = "analytics" => k # AllLinks
    BY <2>1, AllLinksIsKey DEF Key
  <2> QED
    BY <1>0, <2>1, <2>2 DEF SelectionInv
<1>6. ASSUME Invalidate
      PROVE  cache'[AllLinks].data = cache[AllLinks].data
  <2>1. Asked(cache[AllLinks]) \in Entry /\ Asked(cache[AllLinks]).data = cache[AllLinks].data
    BY <1>0, AskedIsEntry
  <2>2. \/ cache'[AllLinks] = [Asked(cache[AllLinks]) EXCEPT !.stale = TRUE]
        \/ \E b : cache'[AllLinks] = [cache[AllLinks] EXCEPT !.stale = b]
    BY <1>0, <1>6 DEF Invalidate
  <2> QED
    BY <1>0, <2>1, <2>2 DEF Entry
<1>7. CASE Refresh
  BY <1>2, <1>6, <1>7 DEF Refresh
<1>8. ASSUME NEW c \in Codes, CreateAnswered(c) \/ DeleteAnswered(c)
      PROVE  SelectionInv'
  BY <1>2, <1>6, <1>8 DEF CreateAnswered, DeleteAnswered
<1>9. ASSUME NEW c \in Codes, Select(c)
      PROVE  SelectionInv'
  BY <1>9, ConstantsAssumption DEF Select, SelectionInv
<1>10. ASSUME NEW c \in Codes,
              Create(c) \/ Created(c) \/ Delete(c) \/ Deleted(c) \/ MutationFails(c)
       PROVE  SelectionInv'
  BY <1>2, <1>10 DEF Create, Created, Delete, Deleted, MutationFails
<1>11. CASE UNCHANGED vars
  BY <1>2, <1>11 DEF vars
<1>12. CASE Focus \/ Search
  BY <1>1, <1>12 DEF Focus, Search
<1>13. ASSUME NEW r \in Routes, Visit(r)
       PROVE  SelectionInv'
  BY <1>1, <1>13 DEF Visit
<1>14. ASSUME NEW c \in Codes, ViewAnalytics(c)
       PROVE  SelectionInv'
  BY <1>1, <1>14 DEF ViewAnalytics
<1> QED
  BY <1>3, <1>4, <1>5, <1>7, <1>8, <1>9, <1>10, <1>11, <1>12, <1>13, <1>14 DEF Next

\* The analytics page has no selection only while it has no
\* link to offer, whenever and however often its list comes (analytics/page.tsx:54).
THEOREM SelectionAlwaysMade == Spec => []SelectionIsMade
<1>1. Init => SelectionInv
  <2> SUFFICES ASSUME Init
               PROVE  SelectionInv
    OBVIOUS
  <2>1. NoEntry \in Entry /\ NoEntry.data = {}
    BY DEF NoEntry, Entry
  <2>2. cache[AllLinks] = NoEntry \/ cache[AllLinks] = Asked(NoEntry)
    BY AllLinksIsKey DEF Init, Observed
  <2> QED
    BY <2>1, <2>2, AskedIsEntry DEF SelectionInv
<1>2. ListsInv /\ ListsInv' /\ SelectionInv /\ [Next]_vars => SelectionInv'
  BY SelectionStep
<1>3. SelectionInv => SelectionIsMade
  BY AllLinksIsKey DEF SelectionInv, SelectionIsMade, Key
<1> QED
  BY <1>1, <1>2, <1>3, ListsInit, ListsStep, PTL DEF Spec

-----------------------------------------------------------------------------
(* The types of the screen and of the entries.                             *)

Screen ==
  /\ route \in Routes /\ debouncedSearch \in BOOLEAN
  /\ lastKey \in Keys \cup {None} /\ selected \in Codes \cup {None}

\* An entry has data only once it was answered and an answer only in flight; it is failed
\* only at rest.
Sound(e) ==
  /\ e.failed => ~ e.has /\ e.fetch = "idle"
  /\ e.data # {} => e.has
  /\ e.got # {} => e.fetch = "served"

ScreenInv == Screen /\ \A k \in Keys : Sound(cache[k])

LEMMA KeyType ==
  ASSUME NEW r, NEW term \in BOOLEAN
  PROVE  KeyOf(r, term) \in Keys
BY DEF KeyOf, Keys

LEMMA AskedIsSound ==
  ASSUME NEW e \in Entry, Sound(e)
  PROVE  Sound(Asked(e))
BY DEF Sound, Asked, Entry

LEMMA NoEntryIsSound == NoEntry \in Entry /\ Sound(NoEntry)
BY DEF NoEntry, Entry, Sound

LEMMA SelectFirstType ==
  ASSUME NEW r, NEW c \in [Keys -> Entry], NEW code \in Codes \cup {None}
  PROVE  SelectFirst(r, c, code) \in Codes \cup {None}
<1> DEFINE list == c[KeyOf(r, FALSE)].data
<1>1. list \in SUBSET Codes
  BY KeyType DEF Entry
<1>2. CASE r # "analytics" \/ code # None \/ list = {}
  BY <1>2 DEF SelectFirst
<1>3. CASE r = "analytics" /\ code = None /\ list # {}
  <2>1. \E d \in list : \A e \in list : e <= d
    BY <1>1, <1>3, NewestExists
  <2>2. SelectFirst(r, c, code) = CHOOSE x \in list : \A e \in list : e <= x
    BY <1>3 DEF SelectFirst
  <2> QED
    BY <1>1, <2>1, <2>2
<1> QED
  BY <1>2, <1>3

LEMMA LastKeyType ==
  ASSUME NEW r, NEW term \in BOOLEAN, NEW c, lastKey \in Keys \cup {None}
  PROVE  LastKey(r, term, c) \in Keys \cup {None}
BY KeyType DEF LastKey

LEMMA RowsType == ASSUME Typed, Screen PROVE Rows \subseteq Codes
<1>1. Shown \in Keys \cup {None}
  BY KeyType DEF Shown, Key, Screen
<1>2. CASE Shown = None
  BY <1>2 DEF Rows
<1>3. CASE Shown # None
  <2>1. cache[Shown].data \subseteq Codes
    BY <1>1, <1>3 DEF Typed, Entry
  <2>2. Rows \subseteq cache[Shown].data
    BY <1>3 DEF Rows, RowsOf, Found
  <2> QED
    BY <2>1, <2>2
<1> QED
  BY <1>2, <1>3

LEMMA ShowType ==
  ASSUME ListsInv, ScreenInv, NEW r \in Routes, NEW term \in BOOLEAN, NEW code \in Codes \cup {None},
         Show(r, term, code)
  PROVE  ScreenInv'
<1>1. cache \in [Keys -> Entry] /\ \A i \in Keys : cache[i] \in Entry /\ Sound(cache[i])
  BY DEF ListsInv, Typed, ScreenInv
<1>2. \A i \in Keys : Sound(cache[i])'
  BY <1>1, ObservedIsCache, AskedIsSound DEF Show, ListsInv, Sound
<1>3. route' = r /\ debouncedSearch' = term /\ lastKey' \in Keys \cup {None} /\ selected' \in Codes \cup {None}
  BY <1>1, LastKeyType, SelectFirstType DEF Show, ScreenInv, Screen
<1> QED
  BY <1>2, <1>3 DEF ScreenInv, Screen

LEMMA InvalidateSound ==
  ASSUME Typed, ScreenInv, Invalidate
  PROVE  \A k \in Keys : Sound(cache'[k])
<1> SUFFICES ASSUME NEW k \in Keys
             PROVE  Sound(cache'[k])
  OBVIOUS
<1>1. cache[k] \in Entry /\ Sound(cache[k])
  BY DEF Typed, ScreenInv
<1>2. PICK e \in {cache[k], Asked(cache[k])} : \E b : cache'[k] = [e EXCEPT !.stale = b]
  BY DEF Invalidate
<1>3. e \in Entry /\ Sound(e)
  BY <1>1, <1>2, AskedIsEntry, AskedIsSound
<1> QED
  BY <1>2, <1>3 DEF Sound, Entry

LEMMA FetchScreen ==
  ASSUME ListsInv, ScreenInv, NEW k \in Keys,
         Serve(k) \/ Answer(k) \/ FetchFails(k) \/ Age(k) \/ Evict(k)
  PROVE  ScreenInv'
<1> USE DEF ui, server
<1>1. /\ cache[k] \in Entry /\ Sound(cache[k]) /\ cache \in [Keys -> Entry] /\ Screen
      /\ route \in Routes /\ debouncedSearch \in BOOLEAN
  BY DEF ListsInv, Typed, ScreenInv, Screen
<1>2. ASSUME NEW e, cache' = [cache EXCEPT ![k] = e], Sound(e)
      PROVE  \A i \in Keys : Sound(cache[i])'
  <2>1. \A i \in Keys : cache'[i] = IF i = k THEN e ELSE cache[i]
    BY <1>1, <1>2
  <2> QED
    BY <1>2, <2>1 DEF ScreenInv, Sound
<1>3. \A i \in Keys : Sound(cache[i])'
  <2>1. CASE Serve(k)
    <3>1. PICK e : e = [cache[k] EXCEPT !.fetch = "served", !.got = links]
      OBVIOUS
    <3>2. Sound(e) /\ cache' = [cache EXCEPT ![k] = e]
      BY <1>1, <2>1, <3>1 DEF Serve, Sound, Entry
    <3> QED
      BY <1>2, <3>2
  <2>2. CASE Answer(k)
    <3>1. PICK e : e = [NoEntry EXCEPT !.has = TRUE, !.data = cache[k].got]
      OBVIOUS
    <3>2. Sound(e) /\ cache' = [cache EXCEPT ![k] = e]
      BY <1>1, <2>2, <3>1 DEF Answer, Sound, Entry, NoEntry
    <3> QED
      BY <1>2, <3>2
  <2>3. CASE FetchFails(k)
    <3>1. PICK b \in BOOLEAN, d \in BOOLEAN :
            b = (~ cache[k].has) /\ d = (cache[k].has /\ cache[k].stale)
      OBVIOUS
    <3>2. PICK e : e = [cache[k] EXCEPT !.fetch = "idle", !.got = {}, !.failed = b, !.stale = d]
      OBVIOUS
    <3>3. cache' = [cache EXCEPT ![k].fetch = "idle", ![k].got = {}, ![k].failed = b, ![k].stale = d]
      BY <2>3, <3>1 DEF FetchFails
    <3>4. cache' = [cache EXCEPT ![k] = e]
      BY <1>1, <3>2, <3>3 DEF Entry
    <3>5. e.failed = b /\ e.fetch = "idle" /\ e.got = {} /\ e.has = cache[k].has /\ e.data = cache[k].data
      BY <1>1, <3>2 DEF Entry
    <3>6. Sound(e)
      BY <1>1, <3>1, <3>5 DEF Sound
    <3> QED
      BY <1>2, <3>4, <3>6
  <2>4. CASE Age(k)
    <3>1. PICK e : e = [cache[k] EXCEPT !.stale = TRUE]
      OBVIOUS
    <3>2. Sound(e) /\ cache' = [cache EXCEPT ![k] = e]
      BY <1>1, <2>4, <3>1 DEF Age, Sound, Entry
    <3> QED
      BY <1>2, <3>2
  <2>5. CASE Evict(k)
    BY <1>2, <2>5, NoEntryIsSound DEF Evict
  <2> QED
    BY <2>1, <2>2, <2>3, <2>4, <2>5
<1>4. Screen'
  <2>1. CASE Answer(k)
    <3>1. /\ UNCHANGED <<route, debouncedSearch>> /\ lastKey' = LastKey(route, debouncedSearch, cache')
          /\ selected' = SelectFirst(route, cache', selected)
      BY <2>1 DEF Answer
    <3>2. cache' \in [Keys -> Entry]
      BY ListsFetch DEF ListsInv, Typed
    <3> QED
      BY <1>1, <3>1, <3>2, LastKeyType, SelectFirstType DEF Screen
  <2>2. CASE ~ Answer(k)
    <3>1. UNCHANGED <<route, debouncedSearch, lastKey, selected>>
      BY <2>2 DEF Serve, FetchFails, Age, Evict
    <3> QED
      BY <1>1, <3>1 DEF Screen
  <2> QED
    BY <2>1, <2>2
<1> QED
  BY <1>3, <1>4 DEF ScreenInv

LEMMA ScreenStep == ListsInv /\ ListsInv' /\ ScreenInv /\ [Next]_vars => ScreenInv'
<1> SUFFICES ASSUME ListsInv, ListsInv', ScreenInv, [Next]_vars
             PROVE  ScreenInv'
  OBVIOUS
<1> USE DEF work, server, ui
<1>0. Typed /\ Screen /\ \A k \in Keys : Sound(cache[k])
  BY DEF ListsInv, ScreenInv
<1>1. ASSUME NEW k \in Keys, Serve(k) \/ Answer(k) \/ FetchFails(k) \/ Age(k) \/ Evict(k)
      PROVE  ScreenInv'
  BY <1>1, FetchScreen
<1>2. CASE Focus
  BY <1>0, <1>2, ShowType DEF Focus, Screen
<1>3. ASSUME NEW r \in Routes, Visit(r)
      PROVE  ScreenInv'
  BY <1>0, <1>3, ShowType DEF Visit, Screen
<1>4. ASSUME NEW c \in Codes, ViewAnalytics(c)
      PROVE  ScreenInv'
  <2>1. "analytics" \in Routes /\ Show("analytics", FALSE, c)
    BY <1>0, <1>4 DEF ViewAnalytics, Screen
  <2> QED
    BY <2>1, ShowType
<1>5. CASE Search
  BY <1>0, <1>5, ShowType DEF Search, Screen
<1>6. CASE Refresh
  BY <1>0, <1>6, InvalidateSound DEF Refresh, ScreenInv, Screen
<1>7. ASSUME NEW c \in Codes, CreateAnswered(c) \/ DeleteAnswered(c)
      PROVE  ScreenInv'
  BY <1>0, <1>7, InvalidateSound DEF CreateAnswered, DeleteAnswered, ScreenInv, Screen
<1>8. ASSUME NEW c \in Codes, Select(c)
       PROVE  ScreenInv'
  BY <1>0, <1>8 DEF Select, ScreenInv, Screen, Sound
<1>9. CASE UNCHANGED vars \/ \E c \in Codes :
              Create(c) \/ Created(c) \/ Delete(c) \/ Deleted(c) \/ MutationFails(c)
  <2>1. UNCHANGED <<cache, route, debouncedSearch, lastKey, selected>>
    BY <1>9 DEF vars, Create, Created, Delete, Deleted, MutationFails
  <2> QED
    BY <1>0, <2>1 DEF ScreenInv, Screen, Sound
<1> QED
  BY <1>1, <1>2, <1>3, <1>4, <1>5, <1>6, <1>7, <1>8, <1>9 DEF Next

LEMMA ScreenInit == Init => ScreenInv
<1> SUFFICES ASSUME Init
             PROVE  ScreenInv
  OBVIOUS
<1>1. \A i \in Keys : cache[i] = NoEntry \/ cache[i] = Asked(NoEntry)
  BY DEF Init, Observed
<1>2. \A i \in Keys : Sound(cache[i])
  BY <1>1, NoEntryIsSound, AskedIsSound
<1> QED
  BY <1>2 DEF Init, ScreenInv, Screen

\* The lists, the pages and the selection keep their types: no step of the page or of the
\* cache leaves the keys that exist, or an answer without its fetch.
THEOREM TypeCorrect == Spec => []TypeOK
<1>1. ListsInv /\ ScreenInv => TypeOK
  BY DEF ListsInv, Typed, ScreenInv, Screen, Sound, TypeOK
<1> QED
  BY <1>1, ListsInit, ListsStep, ScreenInit, ScreenStep, PTL DEF Spec
=============================================================================
