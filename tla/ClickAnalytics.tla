--------------------------- MODULE ClickAnalytics --------------------------
(***************************************************************************)
(* The clicks of a link, from the redirect to the chart: the transaction   *)
(* of the redirect (app/api/v1/router.py) that inserts the click and       *)
(* counts it, the summary that app/services/analytics.py caches in Redis,  *)
(* and the two pages that show it, the analytics of the dashboard and the  *)
(* public ones, with the query cache of the browser in between.            *)
(*                                                                         *)
(* Postgres runs at READ COMMITTED: a statement sees what is committed,    *)
(* and an UPDATE waits for the transaction that updated the row before.    *)
(* Every key of the two caches holds the code, so one link is enough.  A   *)
(* click is named by the visit that makes it.  What the summary aggregates *)
(* (visitors, browsers, days) is a function of the clicks it saw, so it    *)
(* keeps these; only the total is a number, for it comes from a counter.   *)
(* The browser fetches a query again whenever its data may be stale; time  *)
(* itself is left out.                                                     *)
(***************************************************************************)
EXTENDS FiniteSets, Naturals

CONSTANTS
  Visits,    \* bound: the redirects, numbered as they begin
  VisitorOf, \* the IP hash of a visit
  Old,       \* the visits older than a week
  Here,      \* the browser whose page is modelled
  Others,    \* other readers of the summary: browsers and the exports
  None

ASSUME ConstantsAssumption ==
  /\ Visits \subseteq Nat /\ IsFiniteSet(Visits) /\ Old \subseteq Visits
  /\ DOMAIN VisitorOf = Visits
  /\ \A u, v \in Old : VisitorOf[u] = VisitorOf[v] => u = v
  /\ Here \notin Others

Readers == {Here} \cup Others
Days == {7, 30}
Totals == 0..Cardinality(Visits)
Summary == [total : Totals, seen : SUBSET Visits]
Series == [seen : SUBSET Visits]
Request == [at : {"idle", "asked", "missed", "counted"}, total : Totals, seen : SUBSET Visits]

ASSUME NoneAssumption == None \notin Summary \cup Series

VARIABLES
  visit,      \* where the redirect of a visit is
  repeat,     \* is_repeat of its click
  read,       \* the total_clicks it has read
  rows,       \* the clicks that are committed
  total,      \* total_clicks of the committed link
  deleted,    \* deleted_at of the committed link is set
  summary,    \* the summary in Redis
  request,    \* GET /api/v1/analytics/{code} of a reader
  page,       \* the page that is mounted, and its days
  figures,    \* the query of the summary
  chart,      \* the query of the time series of these days
  overlapped, \* history: two visits were under way at once
  raced       \* history: a click, or another summary, came between the steps of a summary,
              \* or Redis hid the one it had

server == <<visit, repeat, read, rows, total, deleted>>
browser == <<page, figures, chart>>
history == <<overlapped, raced>>
vars == <<server, summary, request, browser, history>>

TypeOK ==
  /\ visit \in [Visits -> {"new", "checked", "read", "skipped", "done", "undone"}]
  /\ repeat \in [Visits -> BOOLEAN]
  /\ read \in [Visits -> Totals]
  /\ rows = {v \in Visits : visit[v] = "done"}
  /\ total \in Totals
  /\ deleted \in BOOLEAN
  /\ summary \in Summary \cup {None}
  /\ request \in [Readers -> Request]
  /\ page \in [name : {"analytics", "public", "none"}, days : Days]
  /\ figures \in [data : Summary \cup {None}, failed : BOOLEAN]
  /\ chart \in Series \cup {None}
  /\ overlapped \in BOOLEAN /\ raced \in BOOLEAN

\* ------------------------------------------------------------- the redirect
UnderWay(v) == visit[v] \in {"checked", "read", "skipped"}

Goes(v, from, to) ==
  /\ visit[v] = from
  /\ visit' = [visit EXCEPT ![v] = to]

\* mutant: the link was clicked before, by whomever
CheckPriorOfAnyone(v) ==
  /\ Goes(v, "new", "checked")
  /\ \A u \in Visits : u < v => visit[u] # "new"
  /\ repeat' = [repeat EXCEPT ![v] = rows # {}]
  /\ overlapped' = (overlapped \/ \E u \in Visits : UnderWay(u))
  /\ UNCHANGED <<read, rows, total, deleted, summary, request, browser, raced>>

\* The link was resolved, from the cache also when it is deleted already, and track_click
\* asks for an earlier click of this visitor.
CheckPrior(v) ==
  /\ Goes(v, "new", "checked")
  /\ \A u \in Visits : u < v => visit[u] # "new"
  /\ repeat' = [repeat EXCEPT ![v] = \E u \in rows : VisitorOf[u] = VisitorOf[v]]
  /\ overlapped' = (overlapped \/ \E u \in Visits : UnderWay(u))
  /\ UNCHANGED <<read, rows, total, deleted, summary, request, browser, raced>>

\* The click is inserted, a key that nobody sets is deleted in Redis (the summary is
\* cached under another), and increment_clicks reads the link.
ReadTotal(v) ==
  /\ ~ deleted
  /\ Goes(v, "checked", "read")
  /\ read' = [read EXCEPT ![v] = total]
  /\ UNCHANGED <<repeat, rows, total, deleted, summary, request, browser, history>>

\* ... and finds no link that is not deleted: the counter is left alone, the click stays.
ReadNothing(v) ==
  /\ deleted
  /\ Goes(v, "checked", "skipped")
  /\ UNCHANGED <<repeat, read, rows, total, deleted, summary, request, browser, history>>

\* mutant: the visit is counted, its click is not inserted
CommitVisitWithoutClick(v) ==
  /\ Goes(v, "read", "done")
  /\ total' = read[v] + 1
  /\ read' = [read EXCEPT ![v] = 0]
  /\ UNCHANGED <<repeat, rows, deleted, summary, request, browser, history>>

\* The counter is written as it was read, plus one (the row is locked from here to the
\* commit, so a second one waits and then writes its own), LINK_VISITED is published (its
\* job deletes two keys that nobody sets) and get_db commits.
CommitVisit(v) ==
  /\ Goes(v, "read", "done") \/ Goes(v, "skipped", "done")
  /\ rows' = rows \cup {v}
  /\ total' = IF visit[v] = "read" THEN read[v] + 1 ELSE total
  /\ read' = [read EXCEPT ![v] = 0]
  /\ raced' = (raced \/ \E r \in Readers : request[r].at = "missed")
  /\ UNCHANGED <<repeat, deleted, summary, request, browser, overlapped>>

\* mutant: the counter has a transaction of its own
RollBackRow(v) ==
  /\ UnderWay(v)
  /\ visit' = [visit EXCEPT ![v] = "undone"]
  /\ repeat' = [repeat EXCEPT ![v] = FALSE]
  /\ read' = [read EXCEPT ![v] = 0]
  /\ total' = IF visit[v] = "read" THEN read[v] + 1 ELSE total
  /\ UNCHANGED <<rows, deleted, summary, request, browser, history>>

\* The database, or the queue when the event is published, raises: get_db rolls back.
RollBack(v) ==
  /\ UnderWay(v)
  /\ visit' = [visit EXCEPT ![v] = "undone"]
  /\ repeat' = [repeat EXCEPT ![v] = FALSE]
  /\ read' = [read EXCEPT ![v] = 0]
  /\ UNCHANGED <<rows, total, deleted, summary, request, browser, history>>

\* The transaction that sets deleted_at commits.  It writes no other column that is read
\* here, and drops no summary.
DeleteLink ==
  /\ ~ deleted
  /\ deleted' = TRUE
  /\ UNCHANGED <<visit, repeat, read, rows, total, summary, request, browser, history>>

\* ------------------------------------------------------------- get_analytics
\* The link is read first: once it is deleted, a request that has not read it fails
\* (RequestFails), whatever is cached.
NoRequest == [at |-> "idle", total |-> 0, seen |-> {}]

\* The request of the browser answers its query.
Answer(r, s) ==
  /\ request' = [request EXCEPT ![r] = NoRequest]
  /\ figures' = IF r = Here THEN [data |-> s, failed |-> FALSE] ELSE figures
  /\ UNCHANGED <<server, page, chart>>

\* The page of this browser has asked; the other readers may ask at any time.
Asks(r) == request[r].at = IF r = Here THEN "asked" ELSE "idle"

LookupHit(r) ==
  /\ Asks(r) /\ ~ deleted
  /\ summary # None
  /\ Answer(r, summary)
  /\ UNCHANGED <<summary, history>>

\* The counter of the link goes into the summary.  Nothing is cached, or Redis does not
\* answer.
LookupMiss(r) ==
  /\ Asks(r) /\ ~ deleted
  /\ request' = [request EXCEPT ![r].at = "missed", ![r].total = total]
  /\ raced' = (raced \/ summary # None
                    \/ \E q \in Readers : request[q].at \in {"missed", "counted"})
  /\ UNCHANGED <<server, summary, browser, overlapped>>

\* The clicks are aggregated.
Aggregate(r) ==
  /\ request[r].at = "missed"
  /\ request' = [request EXCEPT ![r].at = "counted", ![r].seen = rows]
  /\ UNCHANGED <<server, summary, browser, history>>

\* The summary is cached, unless Redis fails, and answered.
Remember(r) ==
  /\ request[r].at = "counted"
  /\ LET s == [total |-> request[r].total, seen |-> request[r].seen]
     IN  summary' \in {summary, s} /\ Answer(r, s)
  /\ UNCHANGED history

\* mutant: a failure is a summary of nothing
RequestFailsToZero(r) ==
  /\ request[r] # NoRequest
  /\ request' = [request EXCEPT ![r] = NoRequest]
  /\ figures' = IF r = Here THEN [data |-> [total |-> 0, seen |-> {}], failed |-> FALSE]
                ELSE figures
  /\ UNCHANGED <<server, summary, page, chart, history>>

\* The request fails, for the browser at the second attempt: the data it had stay.
RequestFails(r) ==
  /\ request[r] # NoRequest
  /\ request' = [request EXCEPT ![r] = NoRequest]
  /\ figures' = IF r = Here THEN [figures EXCEPT !.failed = TRUE] ELSE figures
  /\ UNCHANGED <<server, summary, page, chart, history>>

\* mutant: the summary is set without a TTL
ExpireNever ==
  /\ summary # None
  /\ UNCHANGED vars

\* REDIS_CACHE_TTL
Expire ==
  /\ summary # None
  /\ summary' = None
  /\ UNCHANGED <<server, request, browser, history>>

\* ----------------------------------------------------- the pages of a browser
InWindow(d) == {v \in rows : d = 7 => v \notin Old}

\* useAnalyticsSummary: missing data are fetched, those that are there may be stale and
\* fetched again.  An error without data is forgotten when it is tried anew.
ObserveSummary ==
  \/ /\ request[Here] = NoRequest
     /\ request' = [request EXCEPT ![Here].at = "asked"]
     /\ figures' = [figures EXCEPT !.failed = @ /\ figures.data # None]
  \/ /\ figures.data # None \/ request[Here] # NoRequest
     /\ UNCHANGED <<request, figures>>

\* mutant: the query key lacks the days
ObserveSeriesOfAnyDays(d) == UNCHANGED chart

\* useTimeSeries: other days are another query, and no answer to the former one is shown.
ObserveSeries(d) == chart' = IF d = page.days THEN chart ELSE None

\* The link to the analytics, or /analytics/{code}; 30 days are shown first.
Visit(name) ==
  /\ page.name = "none"
  /\ page' = [name |-> name, days |-> 30]
  /\ ObserveSummary
  /\ ObserveSeries(30)
  /\ UNCHANGED <<server, summary, history>>

SetDays(d) ==
  /\ page.name # "none" /\ d # page.days
  /\ page' = [page EXCEPT !.days = d]
  /\ ObserveSeries(d)
  /\ UNCHANGED <<server, summary, request, figures, history>>

\* The window gets the focus.
Focus ==
  /\ page.name # "none"
  /\ ObserveSummary
  /\ UNCHANGED <<server, summary, page, chart, history>>

\* The page is left; the query of the summary stays for a while.
Leave ==
  /\ page.name # "none"
  /\ page' = [name |-> "none", days |-> 30]
  /\ chart' = None
  /\ UNCHANGED <<server, summary, request, figures, history>>

\* gcTime of a query that is no longer observed
Evict ==
  /\ page.name = "none" /\ request[Here] = NoRequest
  /\ figures' = [data |-> None, failed |-> FALSE]
  /\ UNCHANGED <<server, summary, request, page, chart, history>>

\* The time series is answered from the database, at any time, for it may be asked for at
\* any time; a failure, which the deletion of the link is, leaves it as it is.
SeriesAnswered ==
  /\ page.name # "none" /\ ~ deleted
  /\ chart' = [seen |-> InWindow(page.days)]
  /\ UNCHANGED <<server, summary, request, page, figures, history>>

\* ------------------------------------------------------------- what is shown
\* A skeleton while there are no data and a request is under way
SumLoading == figures.data = None /\ request[Here] # NoRequest

\* The public page replaces everything by "Analytics not found" on an error, also on one
\* of a refetch.
NotFound == page.name = "public" /\ figures.failed
PublicShown == page.name = "public" /\ ~ NotFound /\ ~ SumLoading

\* The dashboard shows what it has, whatever failed.
DashboardShown == page.name = "analytics" /\ ~ SumLoading

FiguresShown == PublicShown \/ DashboardShown

\* The cards show 0 where there are no data.
TotalClicks == IF figures.data = None THEN 0 ELSE figures.data.total
UniqueVisitors ==
  IF figures.data = None THEN 0 ELSE Cardinality({VisitorOf[v] : v \in figures.data.seen})

\* The clicks of the chart, and of the average over the days that have any
Chart == IF NotFound \/ chart = None THEN {} ELSE chart.seen

\* ------------------------------------------------------------- specification
Init ==
  /\ visit = [v \in Visits |-> IF v \in Old THEN "done" ELSE "new"]
  /\ repeat = [v \in Visits |-> FALSE]
  /\ read = [v \in Visits |-> 0]
  /\ rows = Old
  /\ total = Cardinality(Old)
  /\ deleted = FALSE
  /\ summary = None
  /\ request = [r \in Readers |-> NoRequest]
  /\ page = [name |-> "none", days |-> 30]
  /\ figures = [data |-> None, failed |-> FALSE]
  /\ chart = None
  /\ overlapped = FALSE /\ raced = FALSE

Redirect(v) == CheckPrior(v) \/ ReadTotal(v) \/ ReadNothing(v) \/ CommitVisit(v)

GetAnalytics(r) == LookupHit(r) \/ LookupMiss(r) \/ Aggregate(r) \/ Remember(r)

Next ==
  \/ \E v \in Visits : Redirect(v) \/ RollBack(v)
  \/ DeleteLink
  \/ \E r \in Readers : GetAnalytics(r) \/ RequestFails(r)
  \/ Expire
  \/ \E name \in {"analytics", "public"} : Visit(name)
  \/ \E d \in Days : SetDays(d)
  \/ SeriesAnswered \/ Focus \/ Leave \/ Evict

Spec == Init /\ [][Next]_vars

\* A request that has begun runs to its end, and Redis drops the summary when its TTL has
\* passed.
FairSpec ==
  /\ Spec
  /\ \A r \in Readers : WF_vars(Aggregate(r) \/ Remember(r))
  /\ WF_vars(Expire)

\* ----------------------------------------------------------------- properties
\* The counter never counts a click that is not there, and counts each of them unless two
\* visits overlapped (repositories/url.py:97) or the link is deleted: the clicks that come
\* after that are kept and not counted (services/url.py:313).
CountIsRows ==
  /\ total <= Cardinality(rows)
  /\ ~ overlapped /\ ~ deleted => total = Cardinality(rows)

\* Of the clicks of a visitor one is the first; several are only when visits overlapped
\* (analytics.py:90).
FirstClickIsNew ==
  \A v \in rows :
    LET new == {u \in rows : VisitorOf[u] = VisitorOf[v] /\ ~ repeat[u]}
    IN  new # {} /\ (~ overlapped => Cardinality(new) = 1)

\* A page counts no click that is not there and charts only those of its window, and it has
\* no more visitors than clicks, unless a click came between two reads of the summary or
\* was lost to the counter (analytics.py:124 and api/v1/analytics.py:38).
FiguresAreReal ==
  /\ FiguresShown =>
       /\ TotalClicks <= Cardinality(rows)
       /\ ~ raced /\ ~ overlapped => UniqueVisitors <= TotalClicks
  /\ Chart \subseteq InWindow(page.days)

\* The total of a page that stays does not go down, unless visits lost a click or two
\* summaries were built at once and the older one was cached last, or Redis failed in
\* between (analytics.py:122 and :160).
TotalNeverShrinks ==
  [][FiguresShown /\ FiguresShown' /\ ~ overlapped' /\ ~ raced'
       => TotalClicks' >= TotalClicks]_vars

\* No visit invalidates the summary (the comment at analytics.py:107 says it does), but the
\* TTL does: in the end the summary in Redis knows every click.
SummaryCatchesUp == <>[](summary = None \/ summary.seen = rows)
=============================================================================
