---------------------------- MODULE BackendAuth -----------------------------
(***************************************************************************)
(* How a browser gets from a Google session to the JWT of the API: the     *)
(* token bridge of frontend/lib/backend-auth.ts, its callers               *)
(* (BackendAuthSync, BackendSyncBanner, the React Query hooks), the axios  *)
(* interceptors of lib/api.ts, the sign-in and sign-out paths and the      *)
(* three guards of the dashboard (proxy.ts, the layout, ProtectedRoute).   *)
(*                                                                         *)
(* The session cookie and localStorage are shared by the tabs of the       *)
(* browser.  Everything else (the promise of the running sync, the state   *)
(* of the components) belongs to one load of one page and is a record per  *)
(* tab.  A callback runs to its next await in one step.  A token is named  *)
(* by the user it was issued to; access and refresh token are written and  *)
(* removed together and the second is never read, so they are one value.   *)
(***************************************************************************)
EXTENDS Naturals, FiniteSets

CONSTANTS
  Tabs,       \* the open tabs of one browser
  Users,      \* Google accounts that sign in on this browser
  Slots,      \* bound: token requests one tab may have in flight
  MaxFaults,  \* bound: failing requests and rejected tokens
  Nobody,     \* no session, no token
  Loading,    \* the status of a session that was not answered yet
  Idle,       \* a slot without a request
  NoSync      \* syncPromise is null

ASSUME ConstantsAssumption ==
  /\ MaxFaults \in Nat
  /\ Nobody \notin Users /\ Loading \notin Users /\ Nobody # Loading
  /\ NoSync \notin Slots
  /\ IsFiniteSet(Slots)

Page == {"home", "login", "dashboard", "keys"}  \* two of the pages of the dashboard
Waiter == {"sync", "banner", "query"}
Request == [for : Users \cup {Nobody}, waiters : SUBSET Waiter]

ASSUME IdleAssumption == Idle \notin Request

TabState == [page : Page,
             seen : Users \cup {Nobody, Loading},  \* what useSession returns
             fetch : [Slots -> Request \cup {Idle}],
             promise : Slots \cup {NoSync},        \* syncPromise
             syncing : BOOLEAN,                    \* refs of BackendAuthSync
             warned : BOOLEAN,
             asking : BOOLEAN,                     \* the banner awaits /api/auth/status
             checking : BOOLEAN,                   \* state of BackendSyncBanner
             synced : BOOLEAN,
             query : Users \cup {"none", "waiting", "error"},
             signingOut : BOOLEAN,                 \* useLogout awaits signOut()
             leaving : BOOLEAN,                    \* location was set to /login
             key : Users \cup {Nobody},            \* the token the API page shows
             forgot : BOOLEAN]                     \* history: see OneSyncAtATime

VARIABLES
  session,    \* the user of the NextAuth session cookie
  store,      \* the user of the tokens in localStorage
  configured, \* FRONTEND_SSO_SECRET is set on the server
  tab,
  faults,
  ended,      \* history: whose session ended with no tab having noticed since
  outlived    \* history: a session ended before everything done for it had

vars == <<session, store, configured, tab, faults, ended, outlived>>

TypeOK ==
  /\ session \in Users \cup {Nobody}
  /\ store \in Users \cup {Nobody}
  /\ configured \in BOOLEAN
  /\ tab \in [Tabs -> TabState]
  /\ \A t \in Tabs : tab[t].promise = NoSync \/ tab[t].fetch[tab[t].promise] # Idle
  /\ faults \in Nat
  /\ ended \in Users \cup {Nobody}
  /\ outlived \in BOOLEAN

\* A page right after it was loaded: nothing in flight, the session unknown.
FreshPage(p) ==
  [page |-> p, seen |-> Loading, fetch |-> [s \in Slots |-> Idle], promise |-> NoSync,
   syncing |-> FALSE, warned |-> FALSE, asking |-> FALSE, checking |-> FALSE,
   synced |-> TRUE, query |-> "none", signingOut |-> FALSE, leaving |-> FALSE,
   key |-> Nobody, forgot |-> FALSE]

Init ==
  /\ session = Nobody
  /\ store = Nobody
  /\ configured \in BOOLEAN
  /\ tab = [t \in Tabs |-> FreshPage("home")]
  /\ faults = 0
  /\ ended = Nobody
  /\ outlived = FALSE

Fault == faults < MaxFaults /\ faults' = faults + 1

InFlight(tb) == {s \in Slots : tb.fetch[s] # Idle}

SignedIn(tb) == tb.seen \in Users

InDashboard(p) == p \in {"dashboard", "keys"}

\* The session cookie is set with httpOnly, so document.cookie never shows it.
HasSessionCookie == FALSE

\* What the server of Next makes of a request for a page: /dashboard needs a session
\* (proxy.ts, and the layout once more), /login is for those without one.
Route(p) ==
  IF InDashboard(p) /\ session = Nobody THEN "login"
  ELSE IF p = "login" /\ session # Nobody THEN "dashboard"
  ELSE p

\* ------------------------------------------------------ lib/backend-auth.ts
\* A bound on the model only: a slot for the request is left.
CanAwait(tb) == tb.promise # NoSync \/ InFlight(tb) # Slots

\* mutant: every caller starts a request of its own
AwaitAlone(tb, w) ==
  IF InFlight(tb) = Slots
  THEN [tb EXCEPT !.fetch[tb.promise].waiters = @ \cup {w}]
  ELSE LET s == CHOOSE free \in Slots \ InFlight(tb) : TRUE
       IN  [tb EXCEPT !.fetch[s] = [for |-> session, waiters |-> {w}], !.promise = s]

\* ensureBackendToken when localStorage is empty: wait for the sync in flight, or
\* start one.  The request carries the cookie of this moment.
Await(tb, w) ==
  IF tb.promise # NoSync
  THEN [tb EXCEPT !.fetch[tb.promise].waiters = @ \cup {w}]
  ELSE LET s == CHOOSE free \in Slots \ InFlight(tb) : TRUE
       IN  [tb EXCEPT !.fetch[s] = [for |-> session, waiters |-> {w}], !.promise = s]

\* clearBackendTokens and resetBackendSyncState forget the sync, not its request.
ForgetSync(tb) ==
  [tb EXCEPT !.promise = NoSync, !.forgot = @ \/ InFlight(tb) # {}]

\* -------------------------------------------------- what the components call
\* sync() of BackendAuthSync: on sign-in and every 30 s
SyncDue(tb) == SignedIn(tb) /\ ~ tb.syncing /\ store = Nobody
Sync(tb) ==
  IF SyncDue(tb) THEN [Await(tb, "sync") EXCEPT !.syncing = TRUE] ELSE tb

\* evaluate() of BackendSyncBanner, which is mounted with the children of ProtectedRoute
Evaluate(tb) ==
  IF InDashboard(tb.page) THEN [tb EXCEPT !.checking = TRUE, !.asking = TRUE] ELSE tb

\* The banner is unmounted: no answer reaches it any more.
DropBanner(tb) ==
  [tb EXCEPT !.asking = FALSE, !.checking = TRUE, !.synced = TRUE,
             !.fetch = [s \in Slots |->
                IF tb.fetch[s] = Idle THEN Idle
                ELSE [tb.fetch[s] EXCEPT !.waiters = @ \ {"banner"}]]]

BannerShown(tb) == ~ tb.checking /\ ~ tb.synced

\* What ProtectedRoute renders on the dashboard.
Screen(tb) ==
  IF tb.seen = Loading /\ ~ tb.leaving THEN "loading"
  ELSE IF SignedIn(tb) THEN "children"
  ELSE "redirecting"

\* The footer of the sidebar, with the button to log out, needs a user.
LogoutShown(tb) == InDashboard(tb.page) /\ Screen(tb) = "children"

\* ProtectedRoute sets the location when there is nobody to show the dashboard to.
Protect(tb) == [tb EXCEPT !.leaving = @ \/ InDashboard(tb.page)]

\* The API page reads the token when it is mounted and never again of its own accord.
KeyMounted(tb) == tb.page = "keys" /\ Screen(tb) = "children"
ReadKey(tb, now) ==
  [now EXCEPT !.key = IF ~ KeyMounted(now) THEN Nobody
                      ELSE IF KeyMounted(tb) THEN tb.key ELSE store]

\* The session provider learns who is signed in.  The effects depend on the status, not
\* on the user: nothing happens when one user takes the place of another.
Learn(tb, u) ==
  LET now == [tb EXCEPT !.seen = u]
  IN  IF u = Nobody THEN Protect(DropBanner(ForgetSync(ReadKey(tb, now))))
      ELSE IF SignedIn(tb) THEN now
      ELSE Evaluate(Sync(ReadKey(tb, now)))

\* mutant: the tokens stay
StoreKept(tb, u) == store

\* clearBackendTokens on "unauthenticated"
StoreAfter(tb, u) == IF u = Nobody /\ tb.seen # Nobody THEN Nobody ELSE store

\* ----------------------------------------------------------------- navigation
\* The user opens or reloads a page: the server routes it, the old page is gone with
\* everything it had in flight, a signOut() included (SessionEnds: it may be executed).
Visit(t, p) ==
  /\ tab' = [tab EXCEPT ![t] = FreshPage(Route(p))]
  /\ UNCHANGED <<session, store, configured, faults, ended, outlived>>

\* The browser follows a location that was set to /login.
Leave(t) ==
  /\ tab[t].leaving
  /\ tab' = [tab EXCEPT ![t] = FreshPage(Route("login"))]
  /\ UNCHANGED <<session, store, configured, faults, ended, outlived>>

\* A click on a link: React swaps the page, the module and the providers stay, and the
\* layout of the dashboard stays around its pages.
Show(tb, p) ==
  LET swapped == ReadKey(tb, [tb EXCEPT !.page = p])
      shown == DropBanner(swapped)
  IN  IF InDashboard(tb.page) /\ InDashboard(p) THEN swapped
      ELSE IF SignedIn(tb) THEN Evaluate(shown)
      ELSE IF tb.seen = Nobody THEN Protect(shown)
      ELSE shown

Click(t, p) ==
  /\ ~ tab[t].leaving
  /\ Route(p) # tab[t].page
  /\ tab' = [tab EXCEPT ![t] = Show(@, Route(p))]
  /\ UNCHANGED <<session, store, configured, faults, ended, outlived>>

\* ------------------------------------------------------------------ the session
\* Whose tokens may be stored: the account that is signed in, or the last one that was,
\* as long as no tab knows that its session is over.
Owner == IF session # Nobody THEN session ELSE ended

AskedFor == \E t \in Tabs : \E s \in InFlight(tab[t]) : tab[t].fetch[s].for \in Users

\* The session is over and no tab is told: its 30 days are up, or the server has executed
\* a signOut() whose answer is still on its way or never arrives (the tab is reloaded, or
\* SignOutFails).  "outlived": a token request of the user is still on its way.
SessionEnds ==
  /\ session # Nobody
  /\ session' = Nobody
  /\ ended' = session
  /\ outlived' = (outlived \/ AskedFor)
  /\ UNCHANGED <<store, configured, tab, faults>>

EndedAfter(tb, u) == IF u = Nobody /\ tb.seen # Nobody THEN Nobody ELSE ended

\* /api/auth/session is answered: on load, when the window gets the focus, and when
\* another tab signed in or out.  A request that fails reads as "nobody".
SessionAnswered(t) ==
  /\ \/ tab[t].seen # session
     \/ tab[t].seen = Loading
  /\ CanAwait(tab[t])
  /\ tab' = [tab EXCEPT ![t] = Learn(@, session)]
  /\ store' = StoreAfter(tab[t], session)
  /\ ended' = EndedAfter(tab[t], session)
  /\ UNCHANGED <<session, configured, faults, outlived>>

SessionFails(t) ==
  /\ tab[t].seen # Nobody
  /\ Fault
  /\ tab' = [tab EXCEPT ![t] = Learn(@, Nobody)]
  /\ store' = StoreAfter(tab[t], Nobody)
  /\ ended' = EndedAfter(tab[t], Nobody)
  /\ UNCHANGED <<session, configured, outlived>>

\* 8 s without an answer: ProtectedRoute gives up.
SessionTimesOut(t) ==
  /\ InDashboard(tab[t].page) /\ Screen(tab[t]) = "loading"
  /\ tab' = [tab EXCEPT ![t] = Protect(@)]
  /\ UNCHANGED <<session, store, configured, faults, ended, outlived>>

\* The login page: Google sends the browser back with a session, to the dashboard.
\* "outlived": the former user had not signed out, or no tab noticed that he is gone.
SignIn(t, u) ==
  /\ tab[t].page = "login"
  /\ session' = u
  /\ tab' = [tab EXCEPT ![t] = FreshPage("dashboard")]
  /\ outlived' = (outlived \/ Owner \notin {Nobody, u})
  /\ ended' = Nobody
  /\ UNCHANGED <<store, configured, faults>>

\* useLogout: the tokens are removed first, then signOut() is awaited.
Logout(t) ==
  /\ LogoutShown(tab[t])
  /\ ~ tab[t].signingOut
  /\ tab' = [tab EXCEPT ![t] = [ForgetSync(@) EXCEPT !.signingOut = TRUE]]
  /\ store' = Nobody
  /\ UNCHANGED <<session, configured, faults, ended, outlived>>

\* signOut() is answered: the cookie is gone, this tab has learned it, and the router
\* shows /login.  A tab that had taken the user for gone already sees no change of the
\* status, and removes nothing.
SignedOut(t) ==
  /\ tab[t].signingOut
  /\ session' = Nobody
  /\ store' = StoreAfter(tab[t], Nobody)
  /\ ended' = IF tab[t].seen = Nobody THEN Owner ELSE Nobody
  /\ tab' = [tab EXCEPT ![t] =
               [Learn(@, Nobody) EXCEPT !.signingOut = FALSE, !.page = "login"]]
  /\ outlived' = (outlived \/ AskedFor)
  /\ UNCHANGED <<configured, faults>>

\* signOut() rejects, and the tab takes the user for signed in still.  Whether he is has
\* been decided on the server: SessionEnds may have come before.
SignOutFails(t) ==
  /\ tab[t].signingOut
  /\ Fault
  /\ tab' = [tab EXCEPT ![t].signingOut = FALSE]
  /\ UNCHANGED <<session, store, configured, ended, outlived>>

\* ------------------------------------------------------------------- the sync
\* The interval of BackendAuthSync.
Tick(t) ==
  /\ SyncDue(tab[t])
  /\ CanAwait(tab[t])
  /\ tab' = [tab EXCEPT ![t] = Sync(@)]
  /\ UNCHANGED <<session, store, configured, faults, ended, outlived>>

\* mutant: the flag of the sync is reset on success only
ResumeSyncing(tb, s, ok) ==
  LET w == tb.fetch[s].waiters
  IN  [tb EXCEPT !.fetch[s] = Idle,
                 !.promise = NoSync,
                 !.syncing = @ /\ ~ ("sync" \in w /\ ok),
                 !.warned = IF "sync" \in w THEN ~ ok ELSE @,
                 !.checking = @ /\ "banner" \notin w,
                 !.synced = IF "banner" \in w THEN ok ELSE @,
                 !.query = IF "query" \notin w THEN @
                           ELSE IF ok THEN tb.fetch[s].for ELSE "error"]

\* mutant: the promise is kept when it settles
ResumePending(tb, s, ok) ==
  LET w == tb.fetch[s].waiters
  IN  [tb EXCEPT !.fetch[s] = Idle,
                 !.syncing = @ /\ "sync" \notin w,
                 !.warned = IF "sync" \in w THEN ~ ok ELSE @,
                 !.checking = @ /\ "banner" \notin w,
                 !.synced = IF "banner" \in w THEN ok ELSE @,
                 !.query = IF "query" \notin w THEN @
                           ELSE IF ok THEN tb.fetch[s].for ELSE "error"]

\* How those who awaited the promise go on: the sync warns once, the banner shows or
\* hides, requireBackendToken lets the query go or throws.
Resume(tb, s, ok) ==
  LET w == tb.fetch[s].waiters
  IN  [tb EXCEPT !.fetch[s] = Idle,
                 !.promise = NoSync,
                 !.syncing = @ /\ "sync" \notin w,
                 !.warned = IF "sync" \in w THEN ~ ok ELSE @,
                 !.checking = @ /\ "banner" \notin w,
                 !.synced = IF "banner" \in w THEN ok ELSE @,
                 !.query = IF "query" \notin w THEN @
                           ELSE IF ok THEN tb.fetch[s].for ELSE "error"]

\* /api/auth/backend-token hands out the tokens of the user whose cookie it was sent.
Granted(t, s) ==
  /\ s \in InFlight(tab[t])
  /\ tab[t].fetch[s].for \in Users
  /\ configured
  /\ store' = tab[t].fetch[s].for
  /\ tab' = [tab EXCEPT ![t] = Resume(@, s, TRUE)]
  /\ UNCHANGED <<session, configured, faults, ended, outlived>>

\* ... refuses: 401 without a session, 503 without the secret
Refused(t, s) ==
  /\ s \in InFlight(tab[t])
  /\ tab[t].fetch[s].for \in Users => ~ configured
  /\ tab' = [tab EXCEPT ![t] = Resume(@, s, FALSE)]
  /\ UNCHANGED <<session, store, configured, faults, ended, outlived>>

\* ... or fails: the backend's error is passed on, 502 when it cannot be reached
SyncFails(t, s) ==
  /\ s \in InFlight(tab[t])
  /\ Fault
  /\ tab' = [tab EXCEPT ![t] = Resume(@, s, FALSE)]
  /\ UNCHANGED <<session, store, configured, ended, outlived>>

\* ----------------------------------------------------------------- the banner
\* /api/auth/status is answered: without the secret the banner shows at once, with it
\* the banner waits for a token.
StatusAnswered(t) ==
  /\ tab[t].asking
  /\ LET tb == [tab[t] EXCEPT !.asking = FALSE]
     IN  /\ CanAwait(tb)
         /\ tab' = [tab EXCEPT ![t] =
              IF ~ configured THEN [tb EXCEPT !.synced = FALSE, !.checking = FALSE]
              ELSE IF store # Nobody THEN [tb EXCEPT !.synced = TRUE, !.checking = FALSE]
              ELSE Await(tb, "banner")]
  /\ UNCHANGED <<session, store, configured, faults, ended, outlived>>

StatusFails(t) ==
  /\ tab[t].asking
  /\ Fault
  /\ tab' = [tab EXCEPT ![t].asking = FALSE, ![t].synced = FALSE, ![t].checking = FALSE]
  /\ UNCHANGED <<session, store, configured, ended, outlived>>

\* "Retry sync"
Retry(t) ==
  /\ BannerShown(tab[t])
  /\ tab' = [tab EXCEPT ![t] = Evaluate(ForgetSync(@))]
  /\ UNCHANGED <<session, store, configured, faults, ended, outlived>>

\* -------------------------------------------------------------- the API page
\* The token itself and the examples made with it; without one the page says that nobody
\* is signed in and has no button.
KeyShown(tb) == KeyMounted(tb) /\ tb.key # Nobody

\* "Refresh"
RefreshKey(t) ==
  /\ KeyShown(tab[t])
  /\ tab' = [tab EXCEPT ![t].key = store]
  /\ UNCHANGED <<session, store, configured, faults, ended, outlived>>

\* Redeployed with or without the secret.
Redeploy ==
  /\ Fault
  /\ configured' = ~ configured
  /\ UNCHANGED <<session, store, tab, ended, outlived>>

\* -------------------------------------------------------- requests to the API
\* A query of the dashboard: requireBackendToken, then the interceptor adds the token.
Query(t) ==
  /\ LogoutShown(tab[t])
  /\ tab[t].query \in {"none", "error"}
  /\ CanAwait(tab[t])
  /\ tab' = [tab EXCEPT ![t] = IF store # Nobody
                               THEN [@ EXCEPT !.query = store]
                               ELSE [Await(@, "query") EXCEPT !.query = "waiting"]]
  /\ UNCHANGED <<session, store, configured, faults, ended, outlived>>

Answered(t) ==
  /\ tab[t].query \in Users
  /\ tab' = [tab EXCEPT ![t].query = "none"]
  /\ UNCHANGED <<session, store, configured, faults, ended, outlived>>

\* 401: whatever tokens are stored by now are removed, and the interceptor leaves for
\* /login unless it sees a session cookie.
Rejected(t) ==
  /\ tab[t].query \in Users
  /\ Fault
  /\ store' = Nobody
  /\ tab' = [tab EXCEPT ![t].query = "error",
                        ![t].leaving = @ \/ (~ HasSessionCookie /\ tab[t].page # "login")]
  /\ UNCHANGED <<session, configured, ended, outlived>>

\* -------------------------------------------------------------- specification
TabStep(t) ==
  \/ \E p \in Page : Visit(t, p) \/ Click(t, p)
  \/ Leave(t)
  \/ SessionAnswered(t) \/ SessionFails(t) \/ SessionTimesOut(t)
  \/ \E u \in Users : SignIn(t, u)
  \/ Logout(t) \/ SignedOut(t) \/ SignOutFails(t)
  \/ Tick(t)
  \/ \E s \in Slots : Granted(t, s) \/ Refused(t, s) \/ SyncFails(t, s)
  \/ StatusAnswered(t) \/ StatusFails(t) \/ Retry(t) \/ RefreshKey(t)
  \/ Query(t) \/ Answered(t) \/ Rejected(t)

Next == (\E t \in Tabs : TabStep(t)) \/ SessionEnds \/ Redeploy

Spec == Init /\ [][Next]_vars

\* The browser and the servers go on: requests are answered, intervals and timers fire,
\* a location that was set is followed.  Nothing is assumed of the user, so a tab asks for
\* the session once, when it is loaded, and need not get the focus ever again.
SyncAnswered(t) == \E s \in Slots : Granted(t, s) \/ Refused(t, s) \/ SyncFails(t, s)

Fairness ==
  \A t \in Tabs :
    /\ WF_vars(Leave(t))
    /\ WF_vars(tab[t].seen = Loading /\ SessionAnswered(t))
    /\ WF_vars(SignedOut(t) \/ SignOutFails(t))
    /\ WF_vars(Tick(t))
    /\ WF_vars(SyncAnswered(t))
    /\ WF_vars(StatusAnswered(t) \/ StatusFails(t))
    /\ WF_vars(Answered(t) \/ Rejected(t))

FairSpec == Spec /\ Fairness

\* ----------------------------------------------------------------- properties
\* The tokens in localStorage are those of the account that is signed in, or of the one
\* whose session ended while no tab looked; they never pass to another account unless a
\* session ended with a token request of its own on the way, or another account signed in
\* before any tab had noticed the end (lib/backend-auth.ts:43 looks only whether there is
\* a token, and BackendAuthSync removes it on "unauthenticated").  So is the one that the
\* API page of an only tab shows.
TokenIsOfSession ==
  ~ outlived =>
    /\ store \in {Nobody, Owner}
    /\ \A t \in Tabs : Tabs = {t} /\ KeyShown(tab[t]) => tab[t].key = Owner

\* However many callers ask, a tab has one token request in flight, unless the promise
\* was forgotten under it by a sign-out or a retry.
OneSyncAtATime == \A t \in Tabs : Cardinality(InFlight(tab[t])) > 1 => tab[t].forgot

\* BackendAuthSync waits for a request that exists: a tab never stops syncing because
\* the flag of a sync that is over was left behind.
SyncingIsReal ==
  \A t \in Tabs : tab[t].syncing =>
    \E s \in InFlight(tab[t]) : "sync" \in tab[t].fetch[s].waiters

\* "Avoid redirect loops with an active NextAuth session" (lib/api.ts:34): a tab whose
\* session lives is not sent to /login by a rejected token.
SessionStays ==
  [][\A t \in Tabs : session # Nobody /\ SignedIn(tab'[t]) /\ ~ tab[t].leaving
                       => ~ tab'[t].leaving]_vars

\* A tab whose user is signed in gets its token in the end, after failures, rejections and
\* lost races, when the server has the secret.  One that has not noticed that the session
\* is over goes without.
EventuallySynced ==
  <>[]configured =>
    \A t \in Tabs : SignedIn(tab[t]) ~>
      (store # Nobody \/ tab[t].seen \notin Users \cap {session} \/ tab[t].leaving)
=============================================================================
