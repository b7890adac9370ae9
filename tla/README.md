# NikkaLink in TLA+

A verification development for NikkaLink, a URL shortener: a FastAPI backend
(`app/`) on PostgreSQL and Redis, with a Next.js frontend (`frontend/`). It models
the parts whose correctness depends on the order of events: the Redis job queue, the
redirect cache in front of the links table, the counting of clicks, and the four places
of the frontend where answers come late (the token bridge, the landing page, the create
modal and the lists). Model checking covers small instances of each, and theorems
cover every instance of what matters most. `src/` in the paths of `PROJECT.json` is the
root of the repository.

## 1. Inventory

The backend is started as `uvicorn --workers 2`
(`docs/RENDER_DEPLOYMENT.md`); each process serves requests **and** runs every
background worker. Redis is shared, with `allkeys-lru` eviction at 128 MB
(`docker-compose.yml`); PostgreSQL runs at READ COMMITTED. A request's session commits after its
handler returned and before the response is sent (`app/api/deps.py`, `get_db`). The
frontend is one page application per tab; tabs share the session cookie and
localStorage.

| Component | State | Operations | Interacts with | Hard behaviour | What makes it correct |
|---|---|---|---|---|---|
| Job queue and workers (`app/workers/`) | per-type sorted sets, delayed set, dead letters, status hashes | enqueue, dequeue, promote, complete, fail, cancel, dispatch | event bus (producer), every handler | two processes without coordination; a crash or a Redis error between two commands; eviction; retry counts carried in the payload | nothing lost without a fault; bounded runs; buried only when exhausted; honest, final status; every job settles |
| Links and the redirect cache (`app/services/url.py`, `cache.py`, `cache_invalidation.py`, `app/repositories/url.py`, `app/api/v1/router.py`, three handlers) | `urls` row, Redis entry, queued WARM/INVALIDATE jobs | create, update, delete, redirect, WARM_CACHE, INVALIDATE_CACHE, EXPIRED_CLEANUP | queue, clicks, PostgreSQL locks | cache changed before the commit; refill races; jobs that run late; expiry; failing commit | only committed targets; deleted or expired links do not redirect; a stale entry does not last |
| Event bus (`app/events/`) | none of its own; Redis pub/sub | publish: broadcast, enqueue per registry | every service, queue, SSE | a failing enqueue among several | a failure stays inside |
| Clicks and per-link analytics (`app/services/analytics.py`, `app/repositories/click.py`, the two analytics pages) | `clicks`, `total_clicks`, summary in Redis, queries in the browser | track_click, increment_clicks, get_summary, the pages | redirect, cache | read-modify-write counter, a link deleted under its click, check-then-insert of the repeat flag, a summary read in two statements and cached | the counter agrees with the clicks; figures are real; a summary is not stale for ever |
| Frontend token bridge (`frontend/lib/backend-auth.ts`, `BackendAuthSync.tsx`, `BackendSyncBanner.tsx`, `api.ts`, `proxy.ts`) | tokens in localStorage, one sync in flight per tab | sync, clear, retry, sign-in, sign-out, 401 | NextAuth session, backend SSO | a sync that ends after the sign-out, a session that ends unnoticed, several callers, reloads, tabs | no token of somebody else; one sync at a time; a signed-in tab gets its token |
| Landing shortener (`frontend/components/landing/LiveShortener.tsx`, `useRecentLinks`, `useMetadataPreview`, the clipboard prompt) | field, result, QR image, preview, recent links | type, submit, reset, switch tabs, paste | backend, other windows | answers after a reset or a switch, two windows that write one list | what is shown belongs together; no link disappears |
| Create modal and live events (`CreateURLModal.tsx`, `DuplicateDialog.tsx`, `useLinkEvents.ts`, `app/api/v1/events.py`) | form, previews, dialog, link shown, stream | open, type, submit, reuse, create another, close, hear | backend, event bus | answers and events after the close or for another link; a stream that ends | metadata belong to the link; no second link unasked; the stream comes back |
| Link lists (`useURLs.ts`, the pages of the dashboard) | query cache, search, selection | fetch, invalidate, create, delete, search | backend | a mutation while a fetch is in flight; a list that comes after its page | a list at rest knows one's own work; a page with links has one selected |
| Analytics aggregation (`app/services/analytics_aggregation.py`) | daily aggregates, dashboard cache | aggregate, dashboard | queue, clicks | two processes upsert one day | one row per day that adds up |
| Rate limiter (`app/middleware/rate_limiter.py`) | a sorted set per client | dispatch | every request | members named by time, refused requests counted, endpoint called twice on a Redis error | at most N requests per window; each request handled once |
| Health monitor (`app/services/health_monitor.py`) | `url_health`, history | init, due checks, run check | schedulers of two processes | get-or-create race, double check | one row per link |
| Metadata, summaries | one row per link and a cache | fetch, generate, request | queue, HTTP | insert race, retry of a job already done | one row per link |
| Collections, profiles | rows, slugs | create, add item, reorder, publish | cache | unique slugs and items under races | no duplicate, no lost reorder |
| Authentication (`app/services/auth.py`) | users, JWTs | register, login, refresh, SSO | token bridge | check-then-insert of e-mail | one account per e-mail |
| Link intelligence, feedback, URL utilities, Redis client, request plumbing, other pages, migrations | little or none | | | | not planned: pure functions, rendering, configuration, schema |

`PROJECT.json` lists all of them under `components`, and under `hazards` every place
where this code can go wrong in a way a test would hardly reach, with the properties
that would show it.

## 2. Plan

| Step | State |
|---|---|
| 1. `JobQueue`, its abstract specification `JobLifecycle` and the refinement | modelled, checked; all invariants, the safety refinement and `TerminalIsFinal` proved |
| 2. `LinkCache` | modelled for one short code, checked; its four invariants proved |
| 3. `BackendAuth`, the token bridge | modelled, checked; its four invariants proved |
| 4. `LiveShortener`, `CreateLink`, `LinkLists`: the frontend | modelled, checked; all their invariants and `NoSilentLoss` proved |
| 5. `ClickAnalytics` | modelled, checked; its four invariants and `TotalNeverShrinks` proved |
| 6. `RateLimiter` with a window of a few ticks; the check-then-insert pattern shared by the health monitor, authentication, metadata and summaries; daily aggregates | left |
| 7. `bulk_create`, which commits links it reported as errors | left |
| 8. A composition of `JobQueue` and `LinkCache`: the WARM and INVALIDATE jobs taken from the real queue, with priorities and retries, in place of the sets of `LinkCache` | left |

What steps 6 to 8 would add is listed as hazards without a property.

## 3. The modules

### JobQueue (with MCJobQueue)

Models `app/workers/queue.py`, `consumers.py` and `dispatch_job`. An agent of the
model is a task of the code: a consumer is a pair (process, worker group), a promoter
is a process. Each `await` of a Redis command that matters is a step.

| Model | Code |
|---|---|
| `status` | hash `urlshort:job:status:<id>` |
| `queue` | members of `urlshort:jobs:<type>`, one set for all types; `Queued(t)` is one of them |
| `delayed`, `dead` | `urlshort:jobs:delayed`; length of the dead letters of each job |
| `enq[j]` | how far the call of `enqueue` for job `j` got |
| `scan`, `cpc`, `held` | the `for` over the types, the position in `dequeue`/`dispatch_job`/`fail`, the job popped |
| `ppc`, `lifted` | position and `item` of `dequeue_delayed` |
| `EnqueueStatus`, `EnqueueAdd`, `EnqueueParked` | `_set_status(PENDING)`, `zadd`, `_set_status(RETRYING)` of a delayed job |
| `FindEmpty`, `Pop`, `Start` | `zpopmin` finding nothing / a job, `_set_status(RUNNING)` and entering the handler |
| `HandlerReturns`, `HandlerRaises`, `Complete`, `Reschedule`, `Bury`, `RecordFailure` | the `try` of `dispatch_job`, `complete`, the two halves of `fail` |
| `PromoterReads/Removes/Pushes` | `zrangebyscore`, `zrem`, `zadd` |
| `...Raises`, `EnqueueAborts`, `Crash`, `Evict` | an exception at that command (executed by Redis or not), a process that dies, LRU eviction |

An entry is the serialised job: its id, its `attempts`, its `last_error`. Two entries
that serialise alike are one member of a sorted set, as in Redis.

Abstractions: a delayed entry may be due at any time (back-off times are left out, so
every order of due entries is covered); jobs of equal priority are taken in any order
(the code adds the time as a tie-breaker); `zrem` and `zadd` of one promoter are
separate steps but a status hash and its expiry are one; metrics are left out, their
failure is part of the `...Raises` actions; the two schedulers are callers of
`enqueue` like the requests are. Without Redis (`available` is false) the queue
does nothing and is not modelled.

### JobLifecycle and JobQueueRefinement

`JobLifecycle` is what the queue promises: a job waits, is active in one place, and
finishes or fails; after a failure it waits again or, the last time, is buried; only
a fault loses it. `JobQueueRefinement` gives the phase of a job from the place of its
only copy and states that `JobQueue` implements it, with one process. With two
processes it does not: two promoters lift the same entry, so two copies exist. That
case is checked with invariants instead (`RunsBounded`, `NoJobLost`).

### LinkCache

Models the life of one short code. A request is one activity with a program counter.

| Model | Code |
|---|---|
| `row`, `lock` | the committed row of `urls`; the uncommitted INSERT/UPDATE that holds its lock |
| `cache` | key `urlshort:url:<short_code>` |
| `warm`, `inval` | WARM_CACHE and INVALIDATE_CACHE jobs in the queue |
| `late` | the clock has passed the link's `expires_at` |
| `CheckAlias`, `FlushCreate`, `CacheCreate`, `PublishCreated`, `CommitCreate` | `create_short_url` and the commit of `get_db` |
| `ReadForWrite`, `FlushWrite`, `Uncache`, `PublishChanged`, `CommitWrite` | `update_url`/`soft_delete_url` and the commit |
| `PublishRaises`, `Abort` | a failing enqueue; a crash or failing commit: the session rolls back |
| `Lookup`, `ReadRow`, `Fill`, `Redirect` | `get_original_url` and the rest of `redirect`, the click's foreign key included |
| `WarmCache`, `InvalidateCache`, `SelectExpired`/`PublishExpired`/`Deactivate` | the three handlers; a job whose `complete()` raised runs again |
| `CacheExpires`, `Deadline` | TTL or eviction; time |

The `expired` history records the redirects that began on a committed link past its
expiry, `began` what had been acknowledged by then: a redirect is judged by the state
it was called in.

A target URL is named by the request that set it, so different targets never look
alike, and the id of a row is the create that inserted it. `expires` says that the
row carries an `expires_at` that `late` puts in the past; `extend` moves it beyond
the time considered. A PATCH changes one attribute; a write changes only the attributes that differ from what it
loaded, as the ORM does, so two overlapping writes merge by attribute.

Abstractions: one short code (the links do not share state); links with a custom
alias (a random code that exists is drawn again); ownership checks; the click
counters; jobs that do not touch the entry; and the order in which the queue delivers
the jobs, which is arbitrary here. The branch of `get_original_url` for a cached entry
with `is_active` false is modelled (`Verdict`) and is never taken: nothing writes
such an entry.

Assumptions about PostgreSQL: an INSERT waits for an uncommitted row with the same
unique value and is refused by a committed one, deleted or not; an UPDATE waits for
the row lock; a foreign key wants a committed row.

### ClickAnalytics (with MCClickAnalytics)

Models the clicks of one link from the redirect to the chart. A visit is a redirect,
named in the order in which redirects begin.

| Model | Code |
|---|---|
| `visit`, `repeat`, `read` | the transaction of a redirect: how far it is, `is_repeat` of its click, the `total_clicks` it has read |
| `rows`, `total`, `deleted` | committed `clicks`; committed `total_clicks`; committed `deleted_at` |
| `summary`, `request` | key `analytics:summary:{url_id}`; `GET /api/v1/analytics/{code}` of each reader |
| `page`, `figures`, `chart` | the mounted page with its number of days; its two queries |
| `CheckPrior`, `ReadTotal`, `ReadNothing`, `CommitVisit`, `RollBack` | `has_prior_click`; the read of `increment_clicks`, which finds the link or not; its UPDATE with the insert and the commit; any exception |
| `DeleteLink` | the commit of `soft_delete_url` |
| `LookupHit`, `LookupMiss`, `Aggregate`, `Remember`, `RequestFails` | `get_summary` with the counter of the link read before |
| `Expire` | TTL or eviction of the summary |
| `Visit`, `SetDays`, `SeriesAnswered`, `Focus`, `Leave`, `Evict` | `useAnalytics` and the pages |

Merged steps: a reader's miss reads the counter in the same step, a visit's UPDATE
and commit are one step (the row lock is held in between). The chart is
modelled for the window that is shown. What a summary aggregates is a function of the
clicks it saw, so it keeps these; only the total is a number, since it is a counter of its
own. The history `overlapped` says that two visits were under way at once, `raced` that
something came between the two reads of a summary, or another summary between its
building and its caching.

### BackendAuth

Models how a browser gets from a Google session to the token of the API.

| Model | Code |
|---|---|
| `session`, `store`, `configured` | the session cookie; `access_token` in localStorage; `FRONTEND_SSO_SECRET` on the server |
| `tab[t]` | one load of one page: `useSession`, `syncPromise`, the refs of `BackendAuthSync`, the states of `BackendSyncBanner`, the pending sign-out, the token on the API page |
| `Await`, `Resume`, `ForgetSync`, `Sync` | `ensureBackendToken` with its callers; `resetBackendSyncState` |
| `Granted`, `Refused`, `SyncFails` | the answers of `/api/auth/backend-token` |
| `SessionAnswered`, `SessionFails`, `SessionTimesOut` | `useSession` and the timer of `ProtectedRoute` |
| `SignIn`, `Logout`, `SignedOut`, `SignOutFails` | `useAuth.ts` and NextAuth |
| `SessionEnds` | the cookie's `maxAge`, or a `signOut()` that the server executes before its answer, which may never come |
| `Tick`, `StatusAnswered`, `StatusFails`, `Retry` | the interval of `BackendAuthSync`; the banner |
| `Query`, `Answered`, `Rejected` | a hook of React Query and the interceptors of `lib/api.ts` |
| `Visit`, `Leave`, `Click`, `RefreshKey` | navigation, with `proxy.ts` and the layout; the API page |

A callback runs to its next `await` in one step, as JavaScript does. The two tokens
are written and removed together and only one is read, so they are one value, named by
the user it was issued to. `Slots` bounds the requests of one tab (`CanAwait`); with two,
a forgotten request and its successor coexist. The history `ended` is
the account whose session is over without a tab having noticed: its token stays in localStorage
until a tab asks for the session and `BackendAuthSync` removes it. `outlived` marks a session that
ended under a token request of its own, and a sign-in of another account before anybody
noticed the end; `forgot` a promise that was reset under its request.

### LiveShortener (with MCLiveShortener)

Models both tabs of the shortener on the landing page, its URL field with the preview,
the clipboard prompt and the list of recent links.

| Model | Code |
|---|---|
| `view`, `shorten`, `generate` | the mounted tab; the states of `ShortenTab` and `QRTab` |
| `preview` | `useMetadataPreview`: timer, requests that were not aborted, result |
| `post`, `qrAsked`, `genAsked` | requests in flight, those of an unmounted tab as `orphaned` |
| `initialUrl`, `detectedUrl`, `dismissed` | the prompt and its window events |
| `recent`, `stored` | the list each window holds in memory; localStorage |
| `Submit`, `PostAnswered`, `PostFails`, `OrphanAnswered` | `handleShorten` |
| `Reset`, `ShowQr`, `HideQr`, `QrAnswered`, `GenerateQr`, `GenAnswered`, `GenerateNew` | results and images |
| `OpenQr`, `OpenShorten`, `Type`, `PreviewAsks`, `PreviewAnswered` | tabs and field |
| `Detect`, `PromptShortens`, `PromptUnheard`, `PromptPastes`, `PromptDismissed` | `LandingClipboardPrompt` |
| `RemoveLink`, `Toggle`, `AddElsewhere`, `Reopen` | `useRecentLinks` in every window |

A link is named by the request that creates it; a URL is an abstract value. URLs and
links occur in the specification only as sets, so the run uses symmetry over both.

### CreateLink (with MCCreateLink)

Models the modal of the dashboard, which stays mounted while it is closed.

| Model | Code |
|---|---|
| `open`, `form`, `initialUrl` | the modal, its field and the debounced value, the URL of the clipboard banner |
| `preview`, `alias` | the cached previews; the suggestions |
| `created`, `liveMetadata`, `metadataLoading` | the states of the "Link Created" view |
| `stream`, `leftover` | `useLinkEvents`; a cancelled reader that still waits for one message |
| `dialog`, `post`, `original`, `last`, `deleted` | `DuplicateDialog`; the submissions, what `useCreateURL` reports on, and the links deleted since |
| `Submit`, `CheckAnswered`, `CheckFinds`, `CreateAnswered`, `CreateFails` | `handleSubmit` and the two mutations |
| `Owned`, `Commits`, `Delete` | `find_duplicate`; the commits of `create_short_url` and `soft_delete_url` |
| `CreateAnother`, `Reuse`, `DismissDialog` | the dialog |
| `Connect`, `Disconnect`, `Ping`, `Publish` | the event stream and the broadcast of METADATA_FETCHED |
| `OpenPalette`, `OpenBanner`, `Cancel`, `Type`, `Debounce`, `PreviewAnswered`, `AliasesAnswered` | the rest of the modal |

An effect belongs to the step that changes what it depends on. The histories `late`
(an answer while the modal was closed), `replaced` (a link shown in place of another)
and `waived` (URLs the user asked to shorten again, that were edited under their check, or
whose check failed) name the exceptions of the properties. `CheckFinds` may find a
duplicate for any URL, since links are made elsewhere, too. `DuplicatesAreKnown` is about the
links of one modal that are not deleted: another window that shortens the URL between the check and the creation is not
excluded by the code, and not by the property.

### LinkLists

Models the query cache of React Query as `useURLs.ts` uses it and the pages that show it.

| Model | Code |
|---|---|
| `links`, `removed`, `job` | the links on the server, and the deleted ones; the mutation of each link |
| `cache` | an entry per query key: data, staleness, failure, fetch in flight |
| `route`, `debouncedSearch`, `lastKey`, `selected` | the mounted page; whether "My Links" searches; `keepPreviousData`; the selector of the analytics page |
| `Serve`, `Answer`, `FetchFails`, `Age`, `Evict`, `Focus`, `Refresh` | fetches; `staleTime`, `gcTime`; refetch on focus; `PullToRefresh` |
| `Visit`, `ViewAnalytics`, `Select`, `Search` | the pages |
| `Create`, `Created`, `CreateAnswered`, `Delete`, `Deleted`, `DeleteAnswered`, `MutationFails` | `useCreateURL`, `useDeleteURL` |

React Query is a library: how it treats an invalidation under a fetch (it restarts it,
except the first one of a key) is modelled from its documented defaults as the code
configures them. Codes are numbers, newer links having higher ones. The history `raced`
holds the keys whose fetch was in flight when the lists were invalidated.

There is no action that turns a page. The server counts the pages as `total_pages`, the
page reads `pages`, and takes what is missing for one page: its buttons are never
rendered, and `page` stays 1. `Rows` are therefore those of the first page, and what does not
fit on it appears only under another query.

### Proof modules

One per component: `JobQueueProofs`, `JobQueueRefinementProofs`, `LinkCacheProofs`,
`ClickAnalyticsProofs`, `BackendAuthProofs`, `LiveShortenerProofs`, `CreateLinkProofs`,
`LinkListsProofs`; see section 6.

## 4. Runs

Checks that hold:

| Run | Shows | Instance |
|---|---|---|
| `jobs_two_processes` | `TypeOK`, `NoJobLost`, `DeadOnlyAfterMaxAttempts`, `RunsBounded` | 2 jobs of one type, 2 processes, 2 error texts, 2 attempts, any 1 fault, 1 cancel |
| `jobs_settle` | `ImplementsFairLifecycle`, `EveryJobSettles`, `TerminalIsFinal`, `QueuesDrain`, `StatusIsHonest` | 2 jobs of different types and priorities in one group, one delayed; 1 process; 3 attempts; 2 crashes; fair |
| `links_all` | `TypeOK`, `RedirectsOnlyCommitted`, `EventuallyFresh` | 2 creates of one alias, 1 write of any of 6 kinds, 1 redirect, 1 cleanup, workers, 1 fault, fair |
| `links_fresh` | `FreshUnlessRaced`, `ExpiredNeverRedirects` | 2 overlapping writes, 1 redirect, no workers, a timed link |
| `auth_sync` | `TypeOK`, `TokenIsOfSession`, `OneSyncAtATime`, `SyncingIsReal`, `EventuallySynced` | 1 tab, 2 accounts, 2 requests in flight, 1 failure or rejection, fair |
| `landing` | `TypeOK`, `LoadingIsReal`, `QrIsOfResult`, `ResultIsRemembered`, `PreviewIsOfField`, `NoSilentLoss` | 2 URLs, 2 links, 2 windows, lists of 2 |
| `create` | `TypeOK`, `SpinnerIsReal`, `MetadataIsOfLink`, `ClosedIsClean`, `DuplicatesAreKnown` | 2 URLs, 2 submissions |
| `lists` | `TypeOK`, `ListsKnowOwnWork`, `SelectionIsMade` | "My Links" and the analytics page, 2 links, 2 cached lists, 2 mutations |
| `clicks` | `TypeOK`, `CountIsRows`, `FirstClickIsNew`, `FiguresAreReal`, `TotalNeverShrinks`, `SummaryCatchesUp` | 3 visits of 2 visitors, one a week old, 2 readers, 1 deletion, fair |

Disagreements between the code and what the repository says of it; each run ends in
a counterexample, and `findings` in `PROJECT.json` quotes the statement:

| Run | What happens |
|---|---|
| `links_deleted_refill` | a redirect reads the row between the deletion of the cache entry and the commit and caches it again; the deleted link redirects for a TTL |
| `auth_bounce` | after a 401 the interceptor looks for an httpOnly cookie in `document.cookie`, so a tab with a living session is sent to /login |
| `create_reconnect` | an event stream that has ended is not opened again |

Seen while modelling, without a run of their own:

- WARM_CACHE replaces the entry of a new link by one without `expires_at`; with the
  workers on, such a link redirects after it has expired, which is why `links_fresh`
  leaves them out.
- EXPIRED_CLEANUP deactivates an expired link, which then answers 404 instead of 410.
- An error of `enqueue` propagates through `publish` and fails the request.
- Of two concurrent creates of an alias, or for the alias of a deleted link, the loser is
  answered 500 instead of 409.
- A `complete()` that raises hands a job whose handler succeeded to `fail()`: COMPLETED can be
  taken back and the job runs again. `jobs_settle` has crashes but no failing commands for
  this reason. Of a job enqueued with a delay, RETRYING (`queue.py:101`) may overwrite
  what a consumer has written.
- "Invalidate analytics cache for this URL" (`analytics.py:107`) deletes `analytics:{url_id}`
  while the summary is under `analytics:summary:{url_id}`, so a summary is stale until its
  TTL. The counter loses clicks when redirects overlap; a click between the two reads of a
  summary makes a link with more visitors than clicks.
- The public page shows "Analytics not found" when a refetch fails over figures it has.
- A redirect of a link that is deleted meanwhile, or that comes from the cache after the
  deletion, leaves a click that `total_clicks` does not count (`url.py:313`).
- A session that ends unnoticed leaves its token: a different account that signs in then finds one
  and asks for none (`backend-auth.ts:50`), until the token is rejected.
- The API page says its token "is refreshed automatically" (`api-keys/page.tsx:141`); it is
  read once, at mount.
- On the landing page, the image of an earlier URL may be under a later one; two windows
  overwrite each other's recent links.
- In the modal, an answer after the close reopens the former "Link Created"; an event
  missed while no stream was open leaves "Fetching metadata" for ever; a field edited
  during the duplicate check is created unchecked by "Create Another".
- "My Links" reads `pages` (`urls/page.tsx:34`, `types/index.ts:48`), the API sends
  `total_pages` (`schemas/common.py:53`): no pager is shown, and links beyond the first 20
  can only be reached by sorting or searching.
- The `?code` of the analytics page is not followed after the first selection, and the page
  is not part of the key of `useClickList` (`useAnalytics.ts:22`).

Why the bounds are enough. Three attempts separate first, middle and last attempt
(the code has five); with two processes two attempts are enough for the promoters to
double a retried entry. Two jobs are what priorities, the order of types and a queue with
more than one member need; two processes are what the promoter race needs. Two error
texts make two failed copies of one job differ as members of the sorted set. One fault at
any point, after any prefix, shows what that fault does; two let a crash follow another.
Two creates are one alias race, also with a rolled-back first create; the second write
of `links_fresh` is what a lost or out-of-order invalidation needs. Two accounts are
what a token of somebody else needs, two request slots what a forgotten request next to its
successor needs; several tabs are left to the proofs. Two links and two URLs are
what an answer for the wrong one needs, two windows what a lost update needs; lists of two
make the oldest link drop out. In `lists`, a search that finds one of two links
makes two queries, two cached lists are the one shown and the one shown before, and two mutations
are the creation of a link and its deletion, each with every fetch in flight (`MayChange`);
one link to the page stands for the 20 of the code. Three visits
are an earlier click, its repeat and an overlap. Counters grow only with faults, cancels and
attempts, so every instance is finite without a state constraint. Symmetry is used
in `landing` and `create`, over sets that occur only as sets, for safety properties only.

`CHECK_DEADLOCK FALSE` is set where the system may stop: requests, links, submissions and
visits are finitely many and all may end. The job runs check deadlock: the consumers poll.

`RunsBounded` states the bound the code really has: with P promoters an entry with k
failed attempts can be pushed P times per run of its predecessor, so a job runs up to
1 + P + ... + P^(MAX_ATTEMPTS-1) times, and P times as often when it is enqueued with a
delay. With one process this is MAX_ATTEMPTS; with two and five attempts it is 31. Both the
bound and the case of one process are proved.

`NoJobLost` and `StatusIsHonest` carry `faults = 0`: with a fault they are false, as
the code takes a job out of Redis before it is done and has no list of jobs in
progress. The refinement and the liveness properties state what remains true then.

The exceptions of the other properties (`overlapped`, `raced`, `outlived`, `forgot`, `late`,
`replaced`, `waived`, `qrRaced`, `stale`, `ended`) are history variables: they record
the one interleaving in which the code does break the property, and the property says
that there is no other. `CountIsRows` has an exception that is a state of the code, `deleted`.

## 5. Fairness

`JobQueue!Fairness`: weak fairness of each consumer, of each promoter and of a call of
`enqueue` in progress. Each is one task of an event loop that never blocks, and
handlers end because their network calls have timeouts. The choice among a consumer's
own steps (its handler returns or raises) is not fair.

`LinkCache!Fairness`: a request that has begun runs to its end, the workers keep
polling, and Redis expires keys (`ex=ttl` in `CacheService.set`). That a request is
ever made is not assumed.

`BackendAuth!Fairness`: requests are answered, in whatever way; the interval of
`BackendAuthSync` fires; a location that was set is followed; a page that loads is told of its session.
Nothing is assumed of the user, and `EventuallySynced` is about servers that keep the secret.

`ClickAnalytics!FairSpec`: a summary that is being built is finished, and its key expires.
`CreateLink!FairSpec`: a connection is opened or refused. `LiveShortener` and `LinkLists`
state safety only.

## 6. What is proved

With TLAPS, for every value of the constants that satisfies the `ConstantsAssumption`
of the module; further assumptions are named. `theorems` in `PROJECT.json` lists all
of them.

`JobQueueProofs`
- `TypeCorrect`. The type of an entry bounds its attempts by MAX_ATTEMPTS - 1, so this
  also says that `fail` never stores an exhausted job.
- `DeadLettersAreExhausted`. Not inductive as stated; the strengthening says that every
  copy of a job, in Redis, in a consumer's or a promoter's hands, carries at most as many
  attempts as the job has failed.
- `NoJobIsLost`, for any number of processes: a fault-free step takes a copy of a job from
  one place only when it puts it in the next, or finishes it.
- `RunsAlwaysBounded`, for finitely many processes: each copy of a job, wherever it is,
  carries the runs it may still cause (`Rights`): as many as its remaining attempts allow,
  and a delayed entry as many for each process, since each promoter may push it.
  A run uses one of them up, and no other step makes their number grow (`Budgeted`), not
  even when a command raises after Redis has executed it. Two facts are needed of numbers:
  that `MostRuns` satisfies its recursion, and induction over the attempts. The latter is
  stated for sets instead of predicates (`SetInduction`, from the least element that is
  missing), which the provers can use.
- `NoMoreThanMaxAttempts`: with one process the bound is MAX_ATTEMPTS.

`JobQueueRefinementProofs`, for one process (`OneProcess`) and a Redis that evicts nothing
- `OnePlace`: `Places`, the inductive invariant of the module. A job has one entry in
  Redis at most; what a consumer works on or the promoter has removed is nowhere else; each copy
  claims as many failed attempts as `fails` counts, and belongs to a job neither completed
  nor buried. That a consumer works on jobs of its own group (`OwnGroup`) is needed to
  see that two consumers never hold the same job. With two processes `Places` is false.
- `StatusAlwaysHonest` (also without calls of `cancel`): on top of `Places`, a consumer past
  `dequeue` finds the RUNNING it wrote, and one that has moved its job has the copy or the dead
  letter to show for the status it is about to write (`Midway`).
- `RefinesLifecycle`: `Spec => Life!Spec`. `PhaseFacts` reads the phase of a job off its
  place, and there is one lemma per actor: each step is one move of `JobLifecycle`, loses what
  was in hand at a fault, or stutters.
- `TerminalStaysFinal`, when the faults are crashes (`OnlyCrashes`) and nobody cancels, as in
  `jobs_settle`: of a job whose status is COMPLETED or FAILED nobody is left that could write it
  again (`Closed`): it has no entry, nobody holds it and its `enqueue` has returned. Without the
  two hypotheses it is false: a `complete()` that raises takes COMPLETED back.

`LinkCacheProofs`
- `TypeCorrect`. It needs `Prepared`: a write or a cleanup in progress has a row, a
  reader past the lookup holds an entry.
- `OnlyCommittedTargets`. The strengthening is `GroundedInv`: the target of every entry,
  wherever it is, is committed or the one its own create set. An entry that passes the
  click's foreign key has the id of the row, so its target is committed either way.
- `ExpiredAlwaysRefused`, without background jobs and without writes of the expiry: every
  entry carries the expiry the link was created with (`SameExpiry`), and who began too late
  found nothing or was refused. The run `links_fresh` has the same instance.
- `FreshAlwaysUnlessRaced`, without background jobs: who holds the row lock is between flush
  and commit (`LockInv`), and the entry agrees with the row outside of that (`Coherent`).

`ClickAnalyticsProofs`: `TypeCorrect`; `CounterIsSound` (a transaction that has read the
counter is alone, or `overlapped` holds, and none skips the counter of a link that is there); `FirstClickIsFirst` (a visit that found no earlier
click is the first of its visitor, unless overlapped); `FiguresAlwaysReal` (every summary,
in Redis, in a request or in the browser, was real when it was built, and clicks only grow);
`TotalNeverGoesDown`, the action property `TotalNeverShrinks`: while no two summaries are
built at once, what the page shows, what Redis has and what is being built are in the order
in which they were counted (`Ordered`).

`BackendAuthProofs`, for any number of tabs: `TypeCorrect`, `TokenAlwaysOfSession`,
`AlwaysOneSyncAtATime`, `SyncingAlwaysReal`. `TabInv` is shown to be preserved by every
helper on one tab (the promise is that of a request in flight, a flag has its request);
`TokensOf` says that the store and everything asked for is of the owner of the tokens: the present
session, or the one that ended unnoticed.

`LiveShortenerProofs`: `TypeCorrect`, with the bound MAX_LINKS on every list; `LoadingAlwaysReal`,
`QrAlwaysOfResult`, `PreviewAlwaysOfField`: an answer that will be heard was asked for by the
tab that is mounted (`SentFromHere`), and requests that were not aborted are for the field;
`ResultAlwaysRemembered`: an answer enters the list at its head, and what the other windows
write is not what this one holds in memory; `NeverSilentLoss`, an action property: adding
drops the last element of a full list and nothing else, and a window whose memory is not
what is stored has missed a write (`stale`).

`CreateLinkProofs`: `TypeCorrect`, `SpinnerAlwaysReal`, `MetadataAlwaysOfLink`,
`ClosedAlwaysClean`, `DuplicatesAlwaysKnown`. What is shown is a finished submission
(`Finished`), so the next answer is a link nothing is known of; one submission is under way
and the buttons know of it (`Alone`), and what was checked stays new until it is
committed (`New`); a deletion only makes fewer links live.

`LinkListsProofs`: `TypeCorrect`; `ListsAlwaysKnowOwnWork`: an answer on its way knows what was confirmed
(`Known`), a list that is fetched again is stale until then (`StaleInFlight`), and a code
is given to one link only (`Unused`); `SelectionAlwaysMade`: a non-empty list has a newest link
(`NewestExists`: the one with the fewest links above it).

The constants these theorems are about: processes and codes are finitely many, and `None` is neither a code nor a key. The code has no others.

Only model-checked: liveness, which is beyond the prover: `EveryJobSettles`, `QueuesDrain`,
`EventuallyFresh`, `EventuallySynced`, `SummaryCatchesUp` and the fairness of `JobLifecycle` in
`ImplementsFairLifecycle`. Every invariant and every action property that a passing run checks
is the statement of a theorem, under the hypotheses named above.

## 7. Not modelled

See `components` in `PROJECT.json`. Rate limiter, health monitor, metadata and
summaries, authentication and the daily aggregates: their defects are visible in single
lines or are one check-then-insert each; they are listed as hazards. Collections and
profiles: single statements behind unique indexes. Link intelligence composes
the others' reads; URL utilities are pure string functions; logging, configuration,
migrations and the rest of the pages have no behaviour of interest here. Of the modelled
parts are left out: `bulk_create`, random codes, searching on the server, sorting, QR images
of the dashboard, the exports, user agents, the stream that `HealthBadge` opens for every
row, the PATCH of a link from the frontend (no page calls it), metrics.

## 8. Running

    tlc -config jobs_settle.cfg JobQueueRefinement
    tlc -config auth_sync.cfg BackendAuth
    tlapm LinkCacheProofs.tla

The module of each run is in `PROJECT.json`. Definitions whose comment begins with
`mutant` are deliberately wrong variants of the definition next to them; each property
of a passing run is violated when one of them takes its place, which shows that the
property depends on that piece of code.
