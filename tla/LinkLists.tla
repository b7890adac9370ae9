------------------------------ MODULE LinkLists ----------------------------
(***************************************************************************)
(* The lists of links in the dashboard: the query cache of React Query as  *)
(* hooks/useURLs.ts uses it, the pages that show it (the searchable "My    *)
(* Links", the dashboard, the QR codes, the analytics selector) and the    *)
(* mutations that create and delete links.                                 *)
(*                                                                         *)
(* The cache is a library: an entry per key, fresh for a minute, refetched *)
(* on mount, on focus and when it is invalidated, a fetch in flight being  *)
(* restarted unless it is the first one of its key.  The answer of a fetch *)
(* is the state of the server at some moment between the request and the   *)
(* answer.  An entry holds the whole list; the query of its key selects    *)
(* the rows.  "My Links" asks for its first page only: it reads the number *)
(* of pages from a field, "pages", that no answer has (the server calls it *)
(* total_pages), takes that for one page, and shows no button to turn it.  *)
(* Codes are numbers, newer links having higher ones.  Sorting is left     *)
(* out, as are the clicks.                                                 *)
(***************************************************************************)
EXTENDS FiniteSets, Naturals

CONSTANTS
  Codes,    \* bound: the links, ordered by their creation
  Matching, \* those that a search finds
  PageSize, \* page_size of "My Links"
  Routes,   \* bound: the pages that are visited
  MaxCached,  \* bound: lists in the cache at once
  MaxChanges, \* bound: mutations
  None

ASSUME ConstantsAssumption ==
  /\ Codes \subseteq Nat /\ Matching \subseteq Codes
  /\ {PageSize, MaxCached, MaxChanges} \subseteq Nat \ {0}
  /\ Routes \subseteq {"urls", "dashboard", "qr-codes", "analytics"}
  /\ None \notin Nat
  /\ IsFiniteSet(Codes)

\* The dashboard's key, that of the pages with 100 links, and those of "My Links"
Keys == [view : {"recent", "all"}, query : {FALSE}] \cup [view : {"urls"}, query : BOOLEAN]

ASSUME NoneIsNoKey == None \notin Keys

Entry == [has : BOOLEAN, data : SUBSET Codes, stale : BOOLEAN, failed : BOOLEAN,
          fetch : {"idle", "asked", "served"}, got : SUBSET Codes]
NoEntry == [has |-> FALSE, data |-> {}, stale |-> FALSE, failed |-> FALSE,
            fetch |-> "idle", got |-> {}]

VARIABLES
  links,     \* the links of the user, on the server
  removed,   \* those with deleted_at, whose codes are not given again
  job,       \* the mutation of each link that is under way
  cache,     \* the query cache
  route,     \* the page that is mounted
  debouncedSearch, \* of URLsPage: whether it holds a term
  lastKey,   \* the key whose rows its list showed last
  selected,  \* selectedCode of the analytics page
  mine,      \* history: links whose creation was confirmed
  gone,      \* history: links whose deletion was confirmed
  raced      \* history: keys whose fetch was in flight when the lists were invalidated

ui == <<route, debouncedSearch, lastKey, selected>>
work == <<mine, gone>>
server == <<links, removed, job>>
vars == <<server, cache, ui, work, raced>>

TypeOK ==
  /\ links \subseteq Codes /\ removed \subseteq Codes
  /\ job \in [Codes -> {"none", "create", "created", "delete", "deleted"}]
  /\ cache \in [Keys -> Entry]
  /\ \A k \in Keys : /\ cache[k].failed => ~ cache[k].has /\ cache[k].fetch = "idle"
                     /\ cache[k].data # {} => cache[k].has
                     /\ cache[k].got # {} => cache[k].fetch = "served"
  /\ route \in Routes
  /\ debouncedSearch \in BOOLEAN
  /\ lastKey \in Keys \cup {None}
  /\ selected \in Codes \cup {None}
  /\ mine \subseteq Codes /\ gone \subseteq Codes
  /\ raced \subseteq Keys

\* ------------------------------------------------------------- what is shown
\* The key a page observes.
KeyOf(r, term) ==
  CASE r = "urls" -> [view |-> "urls", query |-> term]
    [] r = "dashboard" -> [view |-> "recent", query |-> FALSE]
    [] OTHER -> [view |-> "all", query |-> FALSE]

Key == KeyOf(route, debouncedSearch)

Found(k, set) == IF k.query THEN set \cap Matching ELSE set

\* The newest PageSize links of a list that is shown in pages
RowsOf(k, set) ==
  IF k.view # "urls" THEN set
  ELSE {c \in Found(k, set) : Cardinality({d \in Found(k, set) : d >= c}) <= PageSize}

\* keepPreviousData: while a key has neither data nor an error, the rows of the key
\* before stay.
Shown == IF cache[Key].has THEN Key
         ELSE IF cache[Key].failed THEN None ELSE lastKey

Rows == IF Shown = None THEN {} ELSE RowsOf(Shown, cache[Shown].data)

\* ----------------------------------------------------------- the query cache
Asked(e) == [e EXCEPT !.fetch = "asked", !.got = {}, !.failed = FALSE]

\* A page that observes a key fetches what is missing or stale.
Observed(c, k) ==
  IF (~ c[k].has \/ c[k].stale) /\ c[k].fetch = "idle" THEN [c EXCEPT ![k] = Asked(@)] ELSE c

LastKey(r, term, c) ==
  IF r # "urls" THEN None
  ELSE IF c[KeyOf(r, term)].has THEN KeyOf(r, term)
  ELSE IF route = "urls" THEN lastKey ELSE None

\* The analytics page selects the newest link when none is selected.
SelectFirst(r, c, code) ==
  LET list == c[KeyOf(r, FALSE)].data
  IN IF r # "analytics" THEN None
     ELSE IF code # None \/ list = {} THEN code
     ELSE CHOOSE d \in list : \A e \in list : e <= d

\* A step of the page: another route or key is observed.
Show(r, term, code) ==
  /\ route' = r
  /\ debouncedSearch' = term
  /\ cache' = Observed(cache, KeyOf(r, term))
  /\ Cardinality({k \in Keys : cache'[k] # NoEntry}) <= MaxCached
  /\ lastKey' = LastKey(r, term, cache)
  /\ selected' = SelectFirst(r, cache, code)
  /\ raced' = raced \ {k \in Keys : cache'[k].fetch = "asked" /\ cache[k].fetch = "idle"}

\* invalidateQueries(["urls"]): every list is stale and the one observed is fetched again,
\* unless its first fetch is in flight.
Restarts(k) == k = Key /\ (cache[k].has \/ cache[k].fetch = "idle")
Invalidate ==
  /\ cache' = [k \in Keys |->
                 IF Restarts(k) THEN [Asked(cache[k]) EXCEPT !.stale = TRUE]
                 ELSE [cache[k] EXCEPT !.stale = cache[k].has \/ cache[k].fetch # "idle"]]
  /\ raced' = {k \in raced \cup {j \in Keys : cache[j].fetch # "idle"} : ~ Restarts(k)}

\* The server reads the list.
Serve(k) ==
  /\ cache[k].fetch = "asked"
  /\ cache' = [cache EXCEPT ![k].fetch = "served", ![k].got = links]
  /\ UNCHANGED <<server, ui, work, raced>>

\* mutant: the effect runs at mount only
AnswerUnselected(k) ==
  /\ cache[k].fetch = "served"
  /\ cache' = [cache EXCEPT ![k] = [NoEntry EXCEPT !.has = TRUE, !.data = cache[k].got]]
  /\ lastKey' = LastKey(route, debouncedSearch, cache')
  /\ UNCHANGED <<server, route, debouncedSearch, selected, work, raced>>

Answer(k) ==
  /\ cache[k].fetch = "served"
  /\ cache' = [cache EXCEPT ![k] = [NoEntry EXCEPT !.has = TRUE, !.data = cache[k].got]]
  /\ lastKey' = LastKey(route, debouncedSearch, cache')
  /\ selected' = SelectFirst(route, cache', selected)
  /\ UNCHANGED <<server, route, debouncedSearch, work, raced>>

\* mutant: a failed refetch hides what was there
FetchFailsLoudly(k) ==
  /\ cache[k].fetch # "idle"
  /\ cache' = [cache EXCEPT ![k].fetch = "idle", ![k].got = {}, ![k].failed = TRUE]
  /\ UNCHANGED <<server, ui, work, raced>>

\* After a retry; what was shown stays.
FetchFails(k) ==
  /\ cache[k].fetch # "idle"
  /\ cache' = [cache EXCEPT ![k].fetch = "idle", ![k].got = {}, ![k].failed = ~ cache[k].has,
                            ![k].stale = cache[k].has /\ cache[k].stale]
  /\ UNCHANGED <<server, ui, work, raced>>

\* staleTime is over.
Age(k) ==
  /\ cache[k].has /\ ~ cache[k].stale
  /\ cache' = [cache EXCEPT ![k].stale = TRUE]
  /\ UNCHANGED <<server, ui, work, raced>>

\* gcTime of a list that is no longer observed is over.
Evict(k) ==
  /\ cache[k] # NoEntry /\ k \notin {Key, lastKey} /\ cache[k].fetch = "idle"
  /\ cache' = [cache EXCEPT ![k] = NoEntry]
  /\ raced' = raced \ {k}
  /\ UNCHANGED <<server, ui, work>>

\* The window gets the focus.
Focus ==
  /\ cache[Key].fetch = "idle"
  /\ Show(route, debouncedSearch, selected)
  /\ cache' # cache
  /\ UNCHANGED <<server, work>>

\* PullToRefresh of DashboardShell invalidates everything.
Refresh ==
  /\ Invalidate
  /\ UNCHANGED <<server, ui, work>>

\* ----------------------------------------------------------------- the pages
Visit(r) ==
  /\ r # route
  /\ Show(r, FALSE, None)
  /\ UNCHANGED <<server, work>>

\* "View analytics" of a row
ViewAnalytics(c) ==
  /\ route \in {"urls", "dashboard"} /\ "analytics" \in Routes
  /\ c \in Rows
  /\ Show("analytics", FALSE, c)
  /\ UNCHANGED <<server, work>>

\* The selector of the analytics page
Select(c) ==
  /\ route = "analytics"
  /\ c \in Rows \ {selected}
  /\ selected' = c
  /\ UNCHANGED <<server, cache, route, debouncedSearch, lastKey, work, raced>>

\* 300 ms after the last keystroke.  The page is set to 1, which it is.
Search ==
  /\ route = "urls"
  /\ Show(route, ~ debouncedSearch, None)
  /\ UNCHANGED <<server, work>>

\* ------------------------------------------------------------- the mutations
Mutate(c, from, to) ==
  /\ job[c] = from
  /\ job' = [job EXCEPT ![c] = to]

MayChange == Cardinality(mine \cup gone \cup {c \in Codes : job[c] # "none"}) < MaxChanges

Create(c) ==
  /\ MayChange
  /\ \A d \in Codes : d \in links \cup removed \/ job[d] # "none" => d < c
  /\ Mutate(c, "none", "create")
  /\ UNCHANGED <<links, cache, ui, work, raced, removed>>

Created(c) ==
  /\ Mutate(c, "create", "created")
  /\ links' = links \cup {c}
  /\ UNCHANGED <<cache, ui, work, raced, removed>>

CreateAnswered(c) ==
  /\ Mutate(c, "created", "none")
  /\ mine' = mine \cup {c}
  /\ Invalidate
  /\ UNCHANGED <<links, ui, gone, removed>>

\* Confirmed in the toast of a row
Delete(c) ==
  /\ MayChange
  /\ route \in {"urls", "dashboard"} /\ c \in Rows
  /\ Mutate(c, "none", "delete")
  /\ UNCHANGED <<links, cache, ui, work, raced, removed>>

Deleted(c) ==
  /\ Mutate(c, "delete", "deleted")
  /\ c \in links
  /\ links' = links \ {c}
  /\ removed' = removed \cup {c}
  /\ UNCHANGED <<cache, ui, work, raced>>

\* mutant: the lists are not invalidated
DeleteAnsweredQuietly(c) ==
  /\ Mutate(c, "deleted", "none")
  /\ gone' = gone \cup {c}
  /\ UNCHANGED <<links, cache, raced, ui, mine, removed>>

DeleteAnswered(c) ==
  /\ Mutate(c, "deleted", "none")
  /\ gone' = gone \cup {c}
  /\ Invalidate
  /\ UNCHANGED <<links, ui, mine, removed>>

\* The request or its answer is lost, or the link is there no more: the lists stay.
MutationFails(c) ==
  /\ job[c] # "none"
  /\ job' = [job EXCEPT ![c] = "none"]
  /\ UNCHANGED <<links, cache, ui, work, raced, removed>>

\* ------------------------------------------------------------- specification
Init ==
  /\ links \in SUBSET Codes /\ removed = {}
  /\ job = [c \in Codes |-> "none"]
  /\ route \in Routes /\ debouncedSearch = FALSE
  /\ cache = Observed([k \in Keys |-> NoEntry], Key)
  /\ lastKey = None /\ selected = None
  /\ mine = {} /\ gone = {} /\ raced = {}

Next ==
  \/ \E k \in Keys : Serve(k) \/ Answer(k) \/ FetchFails(k) \/ Age(k) \/ Evict(k)
  \/ Focus \/ Refresh
  \/ \E r \in Routes : Visit(r)
  \/ \E c \in Codes : ViewAnalytics(c) \/ Select(c)
  \/ Search
  \/ \E c \in Codes : Create(c) \/ Created(c) \/ CreateAnswered(c)
                      \/ Delete(c) \/ Deleted(c) \/ DeleteAnswered(c) \/ MutationFails(c)

Spec == Init /\ [][Next]_vars

\* ----------------------------------------------------------------- properties
\* A list at rest knows every creation and deletion that was confirmed, unless its fetch
\* was in flight at the confirmation (the onSuccess of useURLs.ts:50 and :102).
Rests(k) == cache[k].has /\ ~ cache[k].stale /\ cache[k].fetch = "idle"
ListsKnowOwnWork ==
  \A k \in Keys \ raced : Rests(k) =>
    cache[k].data \cap gone = {} /\ mine \cap links \subseteq cache[k].data

\* The analytics page asks for a selection only when it has no link to offer
\* (the effect of analytics/page.tsx:54).
SelectionIsMade ==
  route = "analytics" /\ selected = None => cache[Key].data = {}
=============================================================================
