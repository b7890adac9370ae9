------------------------- MODULE BackendAuthProofs --------------------------
(***************************************************************************)
(* The token bridge for any number of tabs, accounts and requests.  What   *)
(* concerns one load of one page (the promise, its requests and the flag   *)
(* of the sync) is an invariant of every tab by itself, and each helper    *)
(* of BackendAuth preserves it; what concerns the stored tokens relates    *)
(* the tabs to the session.                                                *)
(***************************************************************************)
EXTENDS BackendAuth, FiniteSetTheorems, TLAPS

USE ConstantsAssumption, IdleAssumption

\* ------------------------------------------------------------------ one tab
PromiseIsReal(tb) == tb.promise = NoSync \/ tb.fetch[tb.promise] # Idle

SyncIsReal(tb) ==
  tb.syncing => \E s \in Slots : tb.fetch[s] # Idle /\ "sync" \in tb.fetch[s].waiters

\* As long as no promise was forgotten, the promise is that of the only request.
OneRequest(tb) == ~ tb.forgot => \A s \in Slots : tb.fetch[s] # Idle => s = tb.promise

TabInv(tb) == tb \in TabState /\ PromiseIsReal(tb) /\ SyncIsReal(tb) /\ OneRequest(tb)

\* The requests of a tab are for one of us.
Asks(tb, us) == \A s \in Slots : tb.fetch[s] # Idle => tb.fetch[s].for \in us

\* Two states of a tab with the same page, the same user and the same shown token
SameView(tb, now) ==
  now.page = tb.page /\ now.seen = tb.seen /\ now.key = tb.key

LEMMA FreshPageInv ==
  ASSUME NEW p \in Page
  PROVE  TabInv(FreshPage(p)) /\ \A us : Asks(FreshPage(p), us)
BY DEF FreshPage, TabInv, TabState, PromiseIsReal, SyncIsReal, OneRequest, Asks

LEMMA RouteType == ASSUME NEW p \in Page PROVE Route(p) \in Page
BY DEF Route, Page

LEMMA AwaitInv ==
  ASSUME NEW tb, TabInv(tb), CanAwait(tb), NEW w \in Waiter, session \in Users \cup {Nobody},
         NEW us, Asks(tb, us), session \in us
  PROVE  LET now == Await(tb, w)
         IN  /\ TabInv(now) /\ Asks(now, us) /\ SameView(tb, now)
             /\ \E s \in Slots : now.fetch[s] # Idle /\ w \in now.fetch[s].waiters
<1> DEFINE now == Await(tb, w)
<1>1. CASE tb.promise # NoSync
  <2> DEFINE p == tb.promise
             r == [tb.fetch[p] EXCEPT !.waiters = @ \cup {w}]
  <2>1. p \in Slots /\ tb.fetch[p] # Idle /\ tb.fetch[p] \in Request
    BY <1>1 DEF TabInv, TabState, PromiseIsReal
  <2>2. r \in Request /\ r.for = tb.fetch[p].for /\ r.waiters = tb.fetch[p].waiters \cup {w}
    BY <2>1 DEF Request
  <2>3. now = [tb EXCEPT !.fetch = [tb.fetch EXCEPT ![p] = r]]
    BY <1>1 DEF Await
  <2>4. /\ now.fetch = [tb.fetch EXCEPT ![p] = r] /\ now.promise = p
        /\ now.syncing = tb.syncing /\ now.forgot = tb.forgot
        /\ SameView(tb, now)
    BY <2>3 DEF TabInv, TabState, SameView
  <2>5. now.fetch \in [Slots -> Request \cup {Idle}]
    <3>1. tb.fetch \in [Slots -> Request \cup {Idle}]
      BY DEF TabInv, TabState
    <3> HIDE DEF r, p, now
    <3> QED
      BY <2>2, <2>4, <3>1
  <2>6. now \in TabState
    <3> DEFINE f == now.fetch
    <3>1. f \in [Slots -> Request \cup {Idle}] /\ now = [tb EXCEPT !.fetch = f]
      BY <2>3, <2>4, <2>5
    <3> HIDE DEF f
    <3>2. [tb EXCEPT !.fetch = f] \in TabState
      BY <3>1 DEF TabInv, TabState
    <3> QED
      BY <3>1, <3>2
  <2>7. r # Idle
    BY <2>2
  <2>8. tb.fetch \in [Slots -> Request \cup {Idle}]
    BY DEF TabInv, TabState
  <2>9. PromiseIsReal(now) /\ SyncIsReal(now) /\ OneRequest(now) /\ Asks(now, us)
    BY <2>1, <2>2, <2>4, <2>7, <2>8
       DEF TabInv, PromiseIsReal, SyncIsReal, OneRequest, Asks
  <2>10. now.fetch[p] # Idle /\ w \in now.fetch[p].waiters
    BY <2>1, <2>2, <2>4, <2>7, <2>8
  <2> QED
    BY <2>1, <2>4, <2>6, <2>9, <2>10 DEF TabInv
<1>2. CASE tb.promise = NoSync
  <2> DEFINE p == CHOOSE free \in Slots \ InFlight(tb) : TRUE
             r == [for |-> session, waiters |-> {w}]
  <2>1. p \in Slots /\ tb.fetch[p] = Idle
    BY <1>2 DEF CanAwait, InFlight
  <2>2. r \in Request /\ r # Idle
    BY DEF Request
  <2>3. now = [tb EXCEPT !.fetch = [tb.fetch EXCEPT ![p] = r], !.promise = p]
    BY <1>2 DEF Await
  <2>4. /\ now.fetch = [tb.fetch EXCEPT ![p] = r] /\ now.promise = p
        /\ now.syncing = tb.syncing /\ now.forgot = tb.forgot
        /\ SameView(tb, now)
    BY <2>3 DEF TabInv, TabState, SameView
  <2>5. now.fetch \in [Slots -> Request \cup {Idle}]
    <3>1. tb.fetch \in [Slots -> Request \cup {Idle}]
      BY DEF TabInv, TabState
    <3> HIDE DEF r, p, now
    <3> QED
      BY <2>2, <2>4, <3>1
  <2>6. now \in TabState
    <3> DEFINE f == now.fetch
    <3>1. f \in [Slots -> Request \cup {Idle}] /\ now = [tb EXCEPT !.fetch = f, !.promise = p]
      BY <2>3, <2>4, <2>5
    <3> HIDE DEF f, p
    <3>2. [tb EXCEPT !.fetch = f, !.promise = p] \in TabState
      BY <2>1, <3>1 DEF TabInv, TabState
    <3> QED
      BY <3>1, <3>2
  <2>7. tb.fetch \in [Slots -> Request \cup {Idle}]
    BY DEF TabInv, TabState
  <2>8. \A s \in Slots : s # p => now.fetch[s] = tb.fetch[s]
    BY <2>4, <2>7
  <2>9. PromiseIsReal(now) /\ SyncIsReal(now) /\ Asks(now, us)
    <3>1. now.fetch[p] = r /\ r.for = session
      BY <2>1, <2>4, <2>7
    <3>2. PromiseIsReal(now)
      BY <2>2, <2>4, <3>1 DEF PromiseIsReal
    <3>3. SyncIsReal(now)
      BY <2>1, <2>4, <2>8 DEF TabInv, SyncIsReal
    <3>4. Asks(now, us)
      BY <2>8, <3>1 DEF Asks
    <3> QED
      BY <3>2, <3>3, <3>4
  <2>10. OneRequest(now)
    BY <1>2, <2>1, <2>2, <2>4, <2>7 DEF TabInv, OneRequest
  <2>11. now.fetch[p] # Idle /\ w \in now.fetch[p].waiters
    BY <2>1, <2>2, <2>4, <2>7
  <2> QED
    BY <2>1, <2>4, <2>6, <2>9, <2>10, <2>11 DEF TabInv
<1> QED
  BY <1>1, <1>2

LEMMA ForgetSyncInv ==
  ASSUME NEW tb, TabInv(tb)
  PROVE  LET now == ForgetSync(tb)
         IN  TabInv(now) /\ SameView(tb, now) /\ now.fetch = tb.fetch
<1> DEFINE now == ForgetSync(tb)
<1>1. /\ now.fetch = tb.fetch /\ now.promise = NoSync /\ now.syncing = tb.syncing
      /\ now.forgot = (tb.forgot \/ InFlight(tb) # {})
      /\ SameView(tb, now)
  BY DEF ForgetSync, TabInv, TabState, SameView
<1>2. now \in TabState
  BY DEF ForgetSync, TabInv, TabState
<1>3. OneRequest(now)
  BY <1>1 DEF OneRequest, InFlight
<1>4. PromiseIsReal(now) /\ SyncIsReal(now)
  BY <1>1 DEF TabInv, PromiseIsReal, SyncIsReal
<1> QED
  BY <1>1, <1>2, <1>3, <1>4 DEF TabInv

LEMMA SyncInv ==
  ASSUME NEW tb, TabInv(tb), CanAwait(tb), session \in Users \cup {Nobody},
         NEW us, Asks(tb, us), session \in us
  PROVE  LET now == Sync(tb)
         IN  TabInv(now) /\ Asks(now, us) /\ SameView(tb, now)
<1>1. CASE SyncDue(tb)
  <2> DEFINE a == Await(tb, "sync")
             now == [a EXCEPT !.syncing = TRUE]
  <2>1. /\ TabInv(a) /\ Asks(a, us) /\ SameView(tb, a)
        /\ \E s \in Slots : a.fetch[s] # Idle /\ "sync" \in a.fetch[s].waiters
    BY AwaitInv DEF Waiter
  <2> HIDE DEF a
  <2>2. /\ now.fetch = a.fetch /\ now.promise = a.promise /\ now.syncing = TRUE
        /\ now.forgot = a.forgot /\ SameView(a, now)
    BY <2>1 DEF TabInv, TabState, SameView
  <2>3. now \in TabState
    BY <2>1 DEF TabInv, TabState
  <2>4. TabInv(now) /\ Asks(now, us) /\ SameView(tb, now)
    BY <2>1, <2>2, <2>3 DEF TabInv, PromiseIsReal, SyncIsReal, OneRequest, Asks, SameView
  <2>5. Sync(tb) = now
    BY <1>1 DEF Sync, a
  <2> QED
    BY <2>4, <2>5
<1>2. CASE ~ SyncDue(tb)
  BY <1>2 DEF Sync, SameView
<1> QED
  BY <1>1, <1>2

\* What is said of a tab does not depend on the banner, the query, the key or the page.
LEMMA Elsewhere ==
  ASSUME NEW tb, NEW now \in TabState, TabInv(tb),
         now.fetch = tb.fetch, now.promise = tb.promise, now.syncing = tb.syncing,
         now.forgot = tb.forgot
  PROVE  TabInv(now) /\ \A us : Asks(tb, us) => Asks(now, us)
BY DEF TabInv, PromiseIsReal, SyncIsReal, OneRequest, Asks

LEMMA EvaluateInv ==
  ASSUME NEW tb, TabInv(tb)
  PROVE  LET now == Evaluate(tb)
         IN  TabInv(now) /\ SameView(tb, now) /\ \A us : Asks(tb, us) => Asks(now, us)
<1> DEFINE now == Evaluate(tb)
<1>1. /\ now \in TabState /\ SameView(tb, now)
      /\ now.fetch = tb.fetch /\ now.promise = tb.promise /\ now.syncing = tb.syncing
      /\ now.forgot = tb.forgot
  <2>1. CASE now = tb
    BY <2>1 DEF TabInv, SameView
  <2>2. CASE now = [tb EXCEPT !.checking = TRUE, !.asking = TRUE]
    BY <2>2 DEF TabInv, TabState, SameView
  <2> QED
    BY <2>1, <2>2 DEF Evaluate
<1> HIDE DEF now
<1>2. TabInv(now) /\ \A us : Asks(tb, us) => Asks(now, us)
  BY <1>1, Elsewhere
<1> QED
  BY <1>1, <1>2 DEF now

LEMMA ProtectInv ==
  ASSUME NEW tb, TabInv(tb)
  PROVE  LET now == Protect(tb)
         IN  TabInv(now) /\ SameView(tb, now) /\ \A us : Asks(tb, us) => Asks(now, us)
<1> DEFINE now == Protect(tb)
<1>1. /\ now \in TabState /\ SameView(tb, now)
      /\ now.fetch = tb.fetch /\ now.promise = tb.promise /\ now.syncing = tb.syncing
      /\ now.forgot = tb.forgot
  BY DEF Protect, TabInv, TabState, SameView, InDashboard
<1> HIDE DEF now
<1>2. TabInv(now) /\ \A us : Asks(tb, us) => Asks(now, us)
  BY <1>1, Elsewhere
<1> QED
  BY <1>1, <1>2 DEF now

LEMMA DropBannerInv ==
  ASSUME NEW tb, TabInv(tb)
  PROVE  LET now == DropBanner(tb)
         IN  TabInv(now) /\ SameView(tb, now) /\ \A us : Asks(tb, us) => Asks(now, us)
<1> DEFINE less(s) == [tb.fetch[s] EXCEPT !.waiters = @ \ {"banner"}]
           f == [s \in Slots |-> IF tb.fetch[s] = Idle THEN Idle ELSE less(s)]
           now == [tb EXCEPT !.asking = FALSE, !.checking = TRUE, !.synced = TRUE, !.fetch = f]
<1>1. ASSUME NEW s \in Slots, tb.fetch[s] # Idle
      PROVE  /\ less(s) \in Request /\ less(s) # Idle
             /\ less(s).for = tb.fetch[s].for
             /\ less(s).waiters = tb.fetch[s].waiters \ {"banner"}
  <2>1. tb.fetch[s] \in Request
    BY <1>1 DEF TabInv, TabState
  <2> QED
    BY <2>1 DEF Request
<1> HIDE DEF less
<1>2. /\ f \in [Slots -> Request \cup {Idle}]
      /\ \A s \in Slots : (f[s] = Idle) <=> (tb.fetch[s] = Idle)
      /\ \A s \in Slots : f[s] # Idle => /\ f[s].for = tb.fetch[s].for
                                         /\ f[s].waiters = tb.fetch[s].waiters \ {"banner"}
  BY <1>1
<1> HIDE DEF f
<1>3. /\ now.fetch = f /\ now.promise = tb.promise /\ now.syncing = tb.syncing
      /\ now.forgot = tb.forgot /\ SameView(tb, now)
  BY DEF TabInv, TabState, SameView
<1>4. now \in TabState
  BY <1>2 DEF TabInv, TabState
<1> HIDE DEF now
<1>5. tb.promise \in Slots \cup {NoSync}
  BY DEF TabInv, TabState
<1>6. TabInv(now)
  BY <1>2, <1>3, <1>4, <1>5 DEF TabInv, PromiseIsReal, SyncIsReal, OneRequest
<1>7. \A us : Asks(tb, us) => Asks(now, us)
  BY <1>2, <1>3 DEF Asks
<1>8. DropBanner(tb) = now
  BY DEF DropBanner, now, f, less
<1> QED
  BY <1>3, <1>6, <1>7, <1>8

LEMMA ReadKeyInv ==
  ASSUME NEW tb \in TabState, NEW at, TabInv(at), store \in Users \cup {Nobody}
  PROVE  LET now == ReadKey(tb, at)
         IN  /\ TabInv(now) /\ \A us : Asks(at, us) => Asks(now, us)
             /\ now.page = at.page /\ now.seen = at.seen
             /\ now.fetch = at.fetch /\ now.promise = at.promise
<1> DEFINE k == IF ~ KeyMounted(at) THEN Nobody ELSE IF KeyMounted(tb) THEN tb.key ELSE store
           now == [at EXCEPT !.key = k]
<1>1. k \in Users \cup {Nobody}
  BY DEF TabState
<1> HIDE DEF k
<1>2. /\ now \in TabState /\ now.page = at.page /\ now.seen = at.seen
      /\ now.fetch = at.fetch /\ now.promise = at.promise /\ now.syncing = at.syncing
      /\ now.forgot = at.forgot
  BY <1>1 DEF TabInv, TabState
<1> HIDE DEF now
<1>3. TabInv(now) /\ \A us : Asks(at, us) => Asks(now, us)
  BY <1>2, Elsewhere
<1>4. ReadKey(tb, at) = now
  BY DEF ReadKey, now, k
<1> QED
  BY <1>2, <1>3, <1>4

\* ------------------------------------------------------------ the key shown
KeyOf(tb, u) == KeyShown(tb) => tb.key = u

LEMMA Mounted ==
  ASSUME NEW tb \in TabState
  PROVE  KeyMounted(tb) <=> tb.page = "keys" /\ tb.seen \in Users
BY DEF KeyMounted, Screen, SignedIn

LEMMA SameKey ==
  ASSUME NEW tb \in TabState, NEW now \in TabState, SameView(tb, now), NEW u, KeyOf(tb, u)
  PROVE  KeyOf(now, u)
BY Mounted DEF SameView, KeyOf, KeyShown

LEMMA ReadKeyOf ==
  ASSUME NEW tb \in TabState, NEW at, TabInv(at), store \in Users \cup {Nobody},
         NEW u, KeyOf(tb, u), store \in {Nobody, u}
  PROVE  KeyOf(ReadKey(tb, at), u)
<1> DEFINE now == ReadKey(tb, at)
<1>1. at \in TabState /\ now \in TabState /\ now.page = at.page /\ now.seen = at.seen
  BY ReadKeyInv DEF TabInv
<1>2. now.key = IF ~ KeyMounted(at) THEN Nobody ELSE IF KeyMounted(tb) THEN tb.key ELSE store
  BY <1>1 DEF ReadKey, TabState
<1> HIDE DEF now
<1>3. KeyOf(now, u)
  BY <1>1, <1>2, Mounted DEF KeyOf, KeyShown
<1> QED
  BY <1>3 DEF now

\* --------------------------------------------- learning who is there, moving on
LEMMA LearnInv ==
  ASSUME NEW tb, TabInv(tb), NEW u \in Users \cup {Nobody},
         session \in Users \cup {Nobody}, store \in Users \cup {Nobody},
         NEW us, Asks(tb, us), u # Nobody => CanAwait(tb) /\ session \in us
  PROVE  LET now == Learn(tb, u)
         IN  /\ TabInv(now) /\ Asks(now, us) /\ now.page = tb.page /\ now.seen = u
             /\ \A v : KeyOf(tb, v) /\ store \in {Nobody, v} => KeyOf(now, v)
<1> DEFINE at == [tb EXCEPT !.seen = u]
           rk == ReadKey(tb, at)
<1>0. tb \in TabState
  BY DEF TabInv
<1>1. /\ at \in TabState /\ at.page = tb.page /\ at.seen = u /\ at.key = tb.key
      /\ at.fetch = tb.fetch /\ at.promise = tb.promise /\ at.syncing = tb.syncing
      /\ at.forgot = tb.forgot
  BY DEF TabInv, TabState
<1> HIDE DEF at
<1>2. TabInv(at) /\ Asks(at, us)
  BY <1>1, Elsewhere
<1>3. /\ TabInv(rk) /\ Asks(rk, us) /\ rk.page = tb.page /\ rk.seen = u
      /\ rk.fetch = tb.fetch /\ rk.promise = tb.promise
      /\ \A v : KeyOf(tb, v) /\ store \in {Nobody, v} => KeyOf(rk, v)
  BY <1>0, <1>1, <1>2, ReadKeyInv, ReadKeyOf
<1> HIDE DEF rk
<1>4. CASE u = Nobody
  <2> DEFINE fs == ForgetSync(rk)
             db == DropBanner(fs)
             now == Protect(db)
  <2>1. TabInv(fs) /\ SameView(rk, fs) /\ Asks(fs, us)
    BY <1>3, ForgetSyncInv DEF Asks
  <2> HIDE DEF fs
  <2>2. TabInv(db) /\ SameView(fs, db) /\ Asks(db, us)
    BY <2>1, DropBannerInv
  <2> HIDE DEF db
  <2>3. TabInv(now) /\ SameView(db, now) /\ Asks(now, us)
    BY <2>2, ProtectInv
  <2> HIDE DEF now
  <2>4. now.page = tb.page /\ now.seen = u
    BY <1>3, <2>1, <2>2, <2>3 DEF SameView
  <2>5. \A v : KeyOf(now, v)
    BY <1>4, <2>3, <2>4, Mounted DEF KeyOf, KeyShown, TabInv
  <2>6. Learn(tb, u) = now
    BY <1>4 DEF Learn, now, db, fs, rk, at
  <2> QED
    BY <2>3, <2>4, <2>5, <2>6
<1>5. CASE u # Nobody /\ SignedIn(tb)
  <2>1. Learn(tb, u) = at
    BY <1>5 DEF Learn, at
  <2>2. \A v : KeyOf(tb, v) => KeyOf(at, v)
    BY <1>0, <1>1, <1>5, Mounted DEF KeyOf, KeyShown, SignedIn
  <2> QED
    BY <1>1, <1>2, <2>1, <2>2
<1>6. CASE u # Nobody /\ ~ SignedIn(tb)
  <2> DEFINE sy == Sync(rk)
             now == Evaluate(sy)
  <2>1. CanAwait(rk)
    BY <1>3, <1>6 DEF CanAwait, InFlight
  <2>2. TabInv(sy) /\ SameView(rk, sy) /\ Asks(sy, us)
    BY <1>3, <1>6, <2>1, SyncInv
  <2> HIDE DEF sy
  <2>3. TabInv(now) /\ SameView(sy, now) /\ Asks(now, us)
    BY <2>2, EvaluateInv
  <2> HIDE DEF now
  <2>4. SameView(rk, now) /\ now.page = tb.page /\ now.seen = u
    BY <1>3, <2>2, <2>3 DEF SameView
  <2>5. \A v : KeyOf(rk, v) => KeyOf(now, v)
    BY <1>3, <2>3, <2>4, SameKey DEF TabInv
  <2>6. Learn(tb, u) = now
    BY <1>6 DEF Learn, now, sy, rk, at
  <2> QED
    BY <1>3, <2>3, <2>4, <2>5, <2>6
<1> QED
  BY <1>4, <1>5, <1>6

LEMMA ShowInv ==
  ASSUME NEW tb, TabInv(tb), NEW p \in Page, store \in Users \cup {Nobody}
  PROVE  LET now == Show(tb, p)
         IN  /\ TabInv(now) /\ \A us : Asks(tb, us) => Asks(now, us)
             /\ \A v : KeyOf(tb, v) /\ store \in {Nobody, v} => KeyOf(now, v)
<1> DEFINE at == [tb EXCEPT !.page = p]
           sw == ReadKey(tb, at)
           db == DropBanner(sw)
<1>0. tb \in TabState
  BY DEF TabInv
<1>1. /\ at \in TabState
      /\ at.fetch = tb.fetch /\ at.promise = tb.promise /\ at.syncing = tb.syncing
      /\ at.forgot = tb.forgot
  BY DEF TabInv, TabState
<1> HIDE DEF at
<1>2. TabInv(at) /\ \A us : Asks(tb, us) => Asks(at, us)
  BY <1>1, Elsewhere
<1>3. /\ TabInv(sw) /\ \A us : Asks(tb, us) => Asks(sw, us)
      /\ \A v : KeyOf(tb, v) /\ store \in {Nobody, v} => KeyOf(sw, v)
  BY <1>0, <1>2, ReadKeyInv, ReadKeyOf
<1> HIDE DEF sw
<1>4. TabInv(db) /\ SameView(sw, db) /\ \A us : Asks(tb, us) => Asks(db, us)
  BY <1>3, DropBannerInv
<1> HIDE DEF db
<1>5. \A now : TabInv(now) /\ SameView(db, now) =>
         \A v : KeyOf(tb, v) /\ store \in {Nobody, v} => KeyOf(now, v)
  BY <1>3, <1>4, SameKey DEF TabInv, SameView
<1>6. Show(tb, p) \in {sw, Evaluate(db), Protect(db), db}
  BY DEF Show, db, sw, at
<1>7. CASE Show(tb, p) = sw
  BY <1>3, <1>7
<1>8. CASE Show(tb, p) = Evaluate(db)
  BY <1>4, <1>5, <1>8, EvaluateInv
<1>9. CASE Show(tb, p) = Protect(db)
  BY <1>4, <1>5, <1>9, ProtectInv
<1>10. CASE Show(tb, p) = db
  BY <1>4, <1>5, <1>10 DEF SameView
<1> QED
  BY <1>6, <1>7, <1>8, <1>9, <1>10

LEMMA ResumeInv ==
  ASSUME NEW tb, TabInv(tb), NEW s \in InFlight(tb), NEW ok \in BOOLEAN,
         ok => tb.fetch[s].for \in Users
  PROVE  LET now == Resume(tb, s, ok)
         IN  TabInv(now) /\ SameView(tb, now) /\ \A us : Asks(tb, us) => Asks(now, us)
<1> DEFINE w == tb.fetch[s].waiters
           f == [tb.fetch EXCEPT ![s] = Idle]
           q == IF "query" \notin w THEN tb.query ELSE IF ok THEN tb.fetch[s].for ELSE "error"
           y == tb.syncing /\ "sync" \notin w
           e == IF "sync" \in w THEN ~ ok ELSE tb.warned
           d == IF "banner" \in w THEN ok ELSE tb.synced
           c == tb.checking /\ "banner" \notin w
           now == [tb EXCEPT !.fetch = f, !.promise = NoSync, !.syncing = y, !.warned = e,
                             !.checking = c, !.synced = d, !.query = q]
<1>1. s \in Slots /\ tb.fetch[s] # Idle /\ tb.fetch \in [Slots -> Request \cup {Idle}]
  BY DEF InFlight, TabInv, TabState
<1>2. f \in [Slots -> Request \cup {Idle}]
  BY <1>1
<1>3. q \in Users \cup {"none", "waiting", "error"}
  BY DEF TabInv, TabState
<1>4. y \in BOOLEAN /\ c \in BOOLEAN
  BY DEF TabInv, TabState
<1>5. e \in BOOLEAN /\ d \in BOOLEAN
  BY DEF TabInv, TabState
<1>6. Resume(tb, s, ok) = now
  BY DEF Resume
<1>7. y => tb.syncing /\ "sync" \notin w
  OBVIOUS
<1> HIDE DEF q, y, e, d, c
<1>8. /\ now.fetch = f /\ now.promise = NoSync /\ now.syncing = y /\ now.forgot = tb.forgot
      /\ SameView(tb, now)
  BY DEF TabInv, TabState, SameView
<1>9. now \in TabState
  BY <1>2, <1>3, <1>4, <1>5 DEF TabInv, TabState
<1> HIDE DEF now
<1>10. PromiseIsReal(now)
  BY <1>8 DEF PromiseIsReal
<1>11. SyncIsReal(now)
  BY <1>1, <1>7, <1>8 DEF TabInv, SyncIsReal
<1>12. OneRequest(now)
  BY <1>1, <1>8 DEF TabInv, OneRequest
<1>13. \A us : Asks(tb, us) => Asks(now, us)
  BY <1>1, <1>8 DEF Asks
<1> QED
  BY <1>6, <1>8, <1>9, <1>10, <1>11, <1>12, <1>13 DEF TabInv

\* --------------------------------------------------------------- the browser
\* The part of TokenIsOfSession that is seen, and the requests that will make the next
\* part: tokens are stored, and shown, for the owner; they are asked for by the account
\* that is signed in, which is the owner while it is.
TokensOf(o, u) ==
  /\ store \in {Nobody, o}
  /\ \A t \in Tabs : Asks(tab[t], {Nobody, u})
  /\ \A t \in Tabs : Tabs = {t} => KeyOf(tab[t], o)

Inv ==
  TypeOK /\ (\A t \in Tabs : TabInv(tab[t])) /\ (~ outlived => TokensOf(Owner, session))

LEMMA InitInv == Init => Inv
<1> SUFFICES ASSUME Init PROVE Inv
  OBVIOUS
<1>1. TabInv(FreshPage("home")) /\ \A us : Asks(FreshPage("home"), us)
  BY FreshPageInv DEF Page
<1>2. \A t \in Tabs : tab[t] = FreshPage("home")
  BY DEF Init
<1>3. FreshPage("home").seen = Loading
  BY DEF FreshPage
<1>4. \A t \in Tabs : KeyOf(tab[t], Owner)
  BY <1>1, <1>2, <1>3, Mounted DEF KeyOf, KeyShown, TabInv
<1>5. tab \in [Tabs -> TabState]
  BY <1>1 DEF Init, TabInv
<1>6. TypeOK
  BY <1>1, <1>2, <1>5 DEF Init, TypeOK, TabInv, PromiseIsReal
<1> QED
  BY <1>1, <1>2, <1>4, <1>6 DEF Inv, TokensOf, Init

\* The step of one tab, all others left alone
LEMMA TabChanges ==
  ASSUME Inv, NEW t \in Tabs, NEW now, TabInv(now), tab' = [tab EXCEPT ![t] = now],
         session' \in Users \cup {Nobody}, store' \in Users \cup {Nobody},
         configured' \in BOOLEAN, faults' \in Nat, ended' \in Users \cup {Nobody},
         outlived' \in BOOLEAN, NEW o, o = Owner',
         ~ outlived' =>
           /\ store' \in {Nobody, o}
           /\ Asks(now, {Nobody, session'})
           /\ \A u \in Tabs : u # t => Asks(tab[u], {Nobody, session'})
           /\ Tabs = {t} => KeyOf(now, o)
  PROVE  Inv'
<1>1. tab \in [Tabs -> TabState]
  BY DEF Inv, TypeOK
<1>2. tab'[t] = now /\ \A u \in Tabs : u # t => tab'[u] = tab[u]
  BY <1>1
<1>3. tab' \in [Tabs -> TabState]
  BY <1>1 DEF TabInv
<1>4. \A u \in Tabs : TabInv(tab'[u])
  BY <1>2 DEF Inv
<1>5. TypeOK'
  BY <1>3, <1>4 DEF TypeOK, TabInv, PromiseIsReal
<1>6. ~ outlived' => \A u \in Tabs : Asks(tab'[u], {Nobody, session'})
  BY <1>2
<1>7. ~ outlived' => \A u \in Tabs : Tabs = {u} => KeyOf(tab'[u], o)
  BY <1>2
<1>8. Inv' <=> /\ TypeOK' /\ \A u \in Tabs : TabInv(tab'[u])
               /\ ~ outlived' => /\ store' \in {Nobody, Owner'}
                                 /\ \A u \in Tabs : Asks(tab'[u], {Nobody, session'})
                                 /\ \A u \in Tabs : Tabs = {u} => KeyOf(tab'[u], Owner')
  BY DEF Inv, TokensOf, TabInv, PromiseIsReal, SyncIsReal, OneRequest, Asks, KeyOf, KeyShown,
         KeyMounted, Screen, SignedIn
<1> QED
  BY <1>4, <1>5, <1>6, <1>7, <1>8

\* ... when the owner of the tokens is the same before and after
LEMMA TabMoves ==
  ASSUME Inv, NEW t \in Tabs, NEW now, TabInv(now), tab' = [tab EXCEPT ![t] = now],
         session' = session, ended' = ended, store' \in Users \cup {Nobody},
         configured' \in BOOLEAN, faults' \in Nat, outlived' = outlived,
         ~ outlived => /\ store' \in {Nobody, Owner}
                       /\ Asks(now, {Nobody, session})
                       /\ KeyOf(tab[t], Owner) => KeyOf(now, Owner)
  PROVE  Inv'
<1>1. /\ session' \in Users \cup {Nobody} /\ ended' \in Users \cup {Nobody}
      /\ outlived' \in BOOLEAN
  BY DEF Inv, TypeOK
<1>2. ~ outlived => \A u \in Tabs : Asks(tab[u], {Nobody, session})
  BY DEF Inv, TokensOf
<1>3. ~ outlived /\ Tabs = {t} => KeyOf(now, Owner)
  BY DEF Inv, TokensOf
<1>4. Owner = Owner'
  BY DEF Owner
<1> QED
  BY <1>1, <1>2, <1>3, <1>4, TabChanges

\* ... and neither the requests nor what the tab shows are touched
LEMMA TabStays ==
  ASSUME Inv, NEW t \in Tabs, NEW now \in TabState, tab' = [tab EXCEPT ![t] = now],
         now.fetch = tab[t].fetch, now.promise = tab[t].promise,
         now.syncing = tab[t].syncing, now.forgot = tab[t].forgot,
         SameView(tab[t], now),
         session' = session, ended' = ended, store' \in {Nobody, store},
         configured' \in BOOLEAN, faults' \in Nat, outlived' = outlived
  PROVE  Inv'
<1>1. TabInv(tab[t]) /\ tab[t] \in TabState
  BY DEF Inv, TabInv
<1>2. TabInv(now) /\ \A us : Asks(tab[t], us) => Asks(now, us)
  BY <1>1, Elsewhere
<1>3. KeyOf(tab[t], Owner) => KeyOf(now, Owner)
  BY <1>1, SameKey
<1> QED
  BY <1>2, <1>3, TabMoves DEF Inv, TokensOf, TypeOK

\* ... when the tab learns that nobody is signed in, and the tokens are removed
LEMMA TabClears ==
  ASSUME Inv, NEW t \in Tabs, NEW now, TabInv(now), tab' = [tab EXCEPT ![t] = now],
         now.seen = Nobody \/ now.page # "keys",
         session' \in Users \cup {Nobody}, ended' \in Users \cup {Nobody},
         store' = Nobody, configured' \in BOOLEAN, faults' \in Nat, outlived' \in BOOLEAN,
         ~ outlived' => /\ Asks(now, {Nobody, session'})
                        /\ \A u \in Tabs : u # t => Asks(tab[u], {Nobody, session'})
  PROVE  Inv'
<1>1. KeyOf(now, Owner')
  BY Mounted DEF KeyOf, KeyShown, TabInv
<1> QED
  BY <1>1, TabChanges DEF Inv, TypeOK

LEMMA FreshPageMoves ==
  ASSUME Inv, NEW t \in Tabs, NEW p \in Page, tab' = [tab EXCEPT ![t] = FreshPage(p)],
         UNCHANGED <<session, store, configured, faults, ended, outlived>>
  PROVE  Inv'
<1>1. TabInv(FreshPage(p)) /\ \A us : Asks(FreshPage(p), us)
  BY FreshPageInv
<1>2. FreshPage(p).seen = Loading
  BY DEF FreshPage
<1>3. KeyOf(FreshPage(p), Owner)
  BY <1>1, <1>2, Mounted DEF KeyOf, KeyShown, TabInv
<1> QED
  BY <1>1, <1>3, TabMoves DEF Inv, TokensOf, TypeOK

LEMMA NoneAskedFor ==
  ASSUME Inv, ~ AskedFor
  PROVE  \A t \in Tabs : Asks(tab[t], {Nobody})
<1> SUFFICES ASSUME NEW t \in Tabs, NEW s \in Slots, tab[t].fetch[s] # Idle
             PROVE  tab[t].fetch[s].for = Nobody
  BY DEF Asks
<1>1. tab[t].fetch[s] \in Request
  BY DEF Inv, TypeOK, TabState
<1>2. tab[t].fetch[s].for \notin Users
  BY DEF AskedFor, InFlight
<1> QED
  BY <1>1, <1>2 DEF Request

LEMMA TabStepInv ==
  ASSUME Inv, NEW t \in Tabs, TabStep(t)
  PROVE  Inv'
<1> DEFINE tb == tab[t]
           mine == IF outlived THEN Users \cup {Nobody} ELSE {Nobody, session}
<1>1. /\ TabInv(tb) /\ tb \in TabState
      /\ session \in Users \cup {Nobody} /\ store \in Users \cup {Nobody}
      /\ configured \in BOOLEAN /\ faults \in Nat /\ faults + 1 \in Nat
      /\ ended \in Users \cup {Nobody} /\ outlived \in BOOLEAN
  BY DEF Inv, TypeOK, TabInv
<1>2. /\ session \in mine
      /\ Asks(tb, mine)
      /\ ~ outlived => /\ mine = {Nobody, session} /\ store \in {Nobody, Owner}
                       /\ \A u \in Tabs : Asks(tab[u], {Nobody, session})
  <2>1. tb.fetch \in [Slots -> Request \cup {Idle}]
    BY <1>1 DEF TabState
  <2>2. outlived => Asks(tb, mine)
    BY <2>1 DEF Asks, Request
  <2> QED
    BY <1>1, <2>2 DEF Inv, TokensOf
<1> HIDE DEF mine
<1>3. ASSUME NEW p \in Page, Visit(t, p)
      PROVE  Inv'
  BY <1>3, RouteType, FreshPageMoves DEF Visit
<1>4. ASSUME NEW p \in Page, Click(t, p)
      PROVE  Inv'
  <2>1. Route(p) \in Page
    BY RouteType
  <2> QED
    BY <1>1, <1>2, <1>4, <2>1, ShowInv, TabMoves DEF Click
<1>5. CASE Leave(t)
  BY <1>5, RouteType, FreshPageMoves DEF Leave, Page
<1>6. CASE SessionAnswered(t)
  <2> DEFINE now == Learn(tb, session)
  <2>1. /\ TabInv(now) /\ Asks(now, mine) /\ now.seen = session
        /\ \A v : KeyOf(tb, v) /\ store \in {Nobody, v} => KeyOf(now, v)
    BY <1>1, <1>2, <1>6, LearnInv DEF SessionAnswered
  <2>2. /\ tab' = [tab EXCEPT ![t] = now] /\ session' = session
        /\ store' = StoreAfter(tb, session) /\ ended' = EndedAfter(tb, session)
        /\ configured' = configured /\ faults' = faults /\ outlived' = outlived
    BY <1>6 DEF SessionAnswered
  <2> HIDE DEF now
  <2>3. CASE session = Nobody /\ tb.seen # Nobody
    BY <1>1, <1>2, <2>1, <2>2, <2>3, TabClears DEF StoreAfter, EndedAfter
  <2>4. CASE ~ (session = Nobody /\ tb.seen # Nobody)
    <3>1. store' = store /\ ended' = ended
      BY <2>2, <2>4 DEF StoreAfter, EndedAfter
    <3> QED
      BY <1>1, <1>2, <2>1, <2>2, <3>1, TabMoves
  <2> QED
    BY <2>3, <2>4
<1>7. CASE SessionFails(t)
  <2> DEFINE now == Learn(tb, Nobody)
  <2>1. TabInv(now) /\ Asks(now, mine) /\ now.seen = Nobody
    BY <1>1, <1>2, LearnInv
  <2>2. /\ tab' = [tab EXCEPT ![t] = now] /\ session' = session
        /\ store' = Nobody /\ ended' = Nobody
        /\ configured' = configured /\ faults' = faults + 1 /\ outlived' = outlived
    BY <1>7 DEF SessionFails, Fault, StoreAfter, EndedAfter
  <2> HIDE DEF now
  <2> QED
    BY <1>1, <1>2, <2>1, <2>2, TabClears
<1>8. CASE SessionTimesOut(t)
  <2>1. TabInv(Protect(tb)) /\ SameView(tb, Protect(tb)) /\ Asks(Protect(tb), mine)
    BY <1>1, <1>2, ProtectInv
  <2>2. \A v : KeyOf(tb, v) => KeyOf(Protect(tb), v)
    BY <1>1, <2>1, SameKey DEF TabInv
  <2> QED
    BY <1>1, <1>2, <1>8, <2>1, <2>2, TabMoves DEF SessionTimesOut
<1>9. ASSUME NEW u \in Users, SignIn(t, u)
      PROVE  Inv'
  <2> DEFINE now == FreshPage("dashboard")
  <2>1. TabInv(now) /\ \A us : Asks(now, us)
    BY FreshPageInv DEF Page
  <2>2. now.seen = Loading
    BY DEF FreshPage
  <2>3. KeyOf(now, u)
    BY <2>1, <2>2, Mounted DEF KeyOf, KeyShown, TabInv
  <2> HIDE DEF now
  <2>4. /\ tab' = [tab EXCEPT ![t] = now] /\ session' = u /\ store' = store
        /\ configured' = configured /\ faults' = faults
        /\ ended' = Nobody /\ outlived' \in BOOLEAN
        /\ ~ outlived' => ~ outlived /\ Owner \in {Nobody, u}
    BY <1>1, <1>9 DEF SignIn, now
  <2>5. ~ outlived' => session \in {Nobody, u}
    BY <2>4 DEF Owner
  <2>6. ~ outlived' => \A x \in Tabs : Asks(tab[x], {Nobody, u})
    BY <1>2, <2>4, <2>5 DEF Asks
  <2>7. u = Owner'
    BY <2>4 DEF Owner
  <2>8. u \in Users \cup {Nobody} /\ session' \in Users \cup {Nobody}
        /\ ended' \in Users \cup {Nobody}
    BY <2>4
  <2>9. ~ outlived' => store' \in {Nobody, u}
    BY <1>2, <2>4
  <2> QED
    BY <1>1, <2>1, <2>3, <2>4, <2>6, <2>7, <2>8, <2>9, TabChanges
<1>10. CASE Logout(t)
  <2> DEFINE fs == ForgetSync(tb)
             now == [fs EXCEPT !.signingOut = TRUE]
  <2>1. TabInv(fs) /\ SameView(tb, fs) /\ Asks(fs, mine)
    BY <1>1, <1>2, ForgetSyncInv DEF Asks
  <2> HIDE DEF fs
  <2>2. /\ now \in TabState /\ SameView(fs, now)
        /\ now.fetch = fs.fetch /\ now.promise = fs.promise /\ now.syncing = fs.syncing
        /\ now.forgot = fs.forgot
    BY <2>1 DEF TabInv, TabState, SameView
  <2> HIDE DEF now
  <2>3. TabInv(now) /\ Asks(now, mine) /\ SameView(tb, now)
    BY <2>1, <2>2, Elsewhere DEF SameView
  <2>4. \A v : KeyOf(tb, v) => KeyOf(now, v)
    BY <1>1, <2>3, SameKey DEF TabInv
  <2>5. tab' = [tab EXCEPT ![t] = now]
    BY <1>10 DEF Logout, now, fs
  <2> QED
    BY <1>1, <1>2, <1>10, <2>3, <2>4, <2>5, TabMoves DEF Logout
<1>11. CASE SignedOut(t)
  <2> DEFINE ln == Learn(tb, Nobody)
             now == [ln EXCEPT !.signingOut = FALSE, !.page = "login"]
  <2>1. TabInv(ln) /\ \A us : Asks(tb, us) => Asks(ln, us)
    <3>1. TabInv(ln)
      BY <1>1, <1>2, LearnInv
    <3>2. ASSUME NEW us, Asks(tb, us) PROVE Asks(ln, us)
      BY <1>1, <3>2, LearnInv
    <3> QED
      BY <3>1, <3>2
  <2> HIDE DEF ln
  <2>2. /\ now \in TabState /\ now.page = "login"
        /\ now.fetch = ln.fetch /\ now.promise = ln.promise /\ now.syncing = ln.syncing
        /\ now.forgot = ln.forgot
    BY <2>1 DEF TabInv, TabState, Page
  <2> HIDE DEF now
  <2>3. TabInv(now) /\ \A us : Asks(tb, us) => Asks(now, us)
    BY <2>1, <2>2, Elsewhere
  <2>4. /\ tab' = [tab EXCEPT ![t] = now] /\ session' = Nobody
        /\ store' = StoreAfter(tb, Nobody)
        /\ ended' = IF tb.seen = Nobody THEN Owner ELSE Nobody
        /\ configured' = configured /\ faults' = faults
        /\ outlived' = (outlived \/ AskedFor)
    BY <1>11 DEF SignedOut, now, ln
  <2>5. outlived' \in BOOLEAN /\ (~ outlived' => ~ outlived /\ ~ AskedFor)
    BY <1>1, <2>4 DEF AskedFor
  <2>6. ~ outlived' => \A u \in Tabs : Asks(tab[u], {Nobody})
    BY <2>5, NoneAskedFor
  <2>7. ~ outlived' => /\ Asks(now, {Nobody, session'})
                      /\ \A u \in Tabs : Asks(tab[u], {Nobody, session'})
    BY <2>3, <2>4, <2>6 DEF Asks
  <2>8. CASE tb.seen = Nobody
    <3>1. store' = store /\ ended' = Owner
      BY <2>4, <2>8 DEF StoreAfter
    <3>2. Owner = Owner' /\ Owner \in Users \cup {Nobody}
      BY <1>1, <2>4, <3>1 DEF Owner
    <3>3. KeyOf(now, Owner)
      BY <2>2, Mounted DEF KeyOf, KeyShown
    <3> QED
      BY <1>1, <1>2, <2>3, <2>4, <2>5, <2>7, <3>1, <3>2, <3>3, TabChanges
  <2>9. CASE tb.seen # Nobody
    <3>1. store' = Nobody /\ ended' = Nobody
      BY <2>4, <2>9 DEF StoreAfter
    <3> QED
      BY <1>1, <2>2, <2>3, <2>4, <2>5, <2>7, <3>1, TabClears
  <2> QED
    BY <2>8, <2>9
<1>12. CASE SignOutFails(t)
  <2> DEFINE now == [tb EXCEPT !.signingOut = FALSE]
  <2>1. /\ now \in TabState /\ SameView(tb, now)
        /\ now.fetch = tb.fetch /\ now.promise = tb.promise /\ now.syncing = tb.syncing
        /\ now.forgot = tb.forgot
    BY <1>1 DEF TabState, SameView
  <2> QED
    BY <1>1, <1>12, <2>1, TabStays DEF SignOutFails, Fault
<1>13. CASE Tick(t)
  <2>1. TabInv(Sync(tb)) /\ SameView(tb, Sync(tb)) /\ Asks(Sync(tb), mine)
    BY <1>1, <1>2, <1>13, SyncInv DEF Tick
  <2>2. \A v : KeyOf(tb, v) => KeyOf(Sync(tb), v)
    BY <1>1, <2>1, SameKey DEF TabInv
  <2> QED
    BY <1>1, <1>2, <1>13, <2>1, <2>2, TabMoves DEF Tick
<1>14. ASSUME NEW s \in Slots, NEW ok \in BOOLEAN, s \in InFlight(tb),
              ok => tb.fetch[s].for \in Users,
              tab' = [tab EXCEPT ![t] = Resume(tb, s, ok)],
              store' = IF ok THEN tb.fetch[s].for ELSE store,
              session' = session, configured' = configured, ended' = ended,
              outlived' = outlived, faults' \in Nat
       PROVE  Inv'
  <2> DEFINE now == Resume(tb, s, ok)
  <2>1. TabInv(now) /\ SameView(tb, now) /\ Asks(now, mine)
    BY <1>1, <1>2, <1>14, ResumeInv
  <2> HIDE DEF now
  <2>2. \A v : KeyOf(tb, v) => KeyOf(now, v)
    BY <1>1, <2>1, SameKey DEF TabInv
  <2>3. tb.fetch[s].for \in mine
    BY <1>2, <1>14 DEF Asks, InFlight
  <2>4. store' \in Users \cup {Nobody} /\ (~ outlived => store' \in {Nobody, Owner})
    BY <1>1, <1>2, <1>14, <2>3 DEF Owner
  <2>5. tab' = [tab EXCEPT ![t] = now]
    BY <1>14 DEF now
  <2> QED
    BY <1>1, <1>2, <1>14, <2>1, <2>2, <2>4, <2>5, TabMoves
<1>15. ASSUME NEW s \in Slots, Granted(t, s) \/ Refused(t, s) \/ SyncFails(t, s)
       PROVE  Inv'
  <2>1. CASE Granted(t, s)
    BY <1>1, <1>14, <2>1 DEF Granted
  <2>2. CASE Refused(t, s)
    BY <1>1, <1>14, <2>2 DEF Refused
  <2>3. CASE SyncFails(t, s)
    BY <1>1, <1>14, <2>3 DEF SyncFails, Fault
  <2> QED
    BY <1>15, <2>1, <2>2, <2>3
<1>16. CASE StatusAnswered(t)
  <2> DEFINE at == [tb EXCEPT !.asking = FALSE]
  <2>1. /\ at \in TabState /\ SameView(tb, at)
        /\ at.fetch = tb.fetch /\ at.promise = tb.promise /\ at.syncing = tb.syncing
        /\ at.forgot = tb.forgot
    BY <1>1 DEF TabState, SameView
  <2>2. CanAwait(at)
    BY <1>16 DEF StatusAnswered
  <2>3. tab'[t] \in {[at EXCEPT !.synced = FALSE, !.checking = FALSE],
                     [at EXCEPT !.synced = TRUE, !.checking = FALSE],
                     Await(at, "banner")}
        /\ tab' = [tab EXCEPT ![t] = tab'[t]]
    BY <1>16 DEF StatusAnswered, Inv, TypeOK
  <2> HIDE DEF at
  <2>4. ASSUME NEW b \in BOOLEAN,
               tab' = [tab EXCEPT ![t] = [at EXCEPT !.synced = b, !.checking = FALSE]]
        PROVE  Inv'
    <3> DEFINE now == [at EXCEPT !.synced = b, !.checking = FALSE]
    <3>1. /\ now \in TabState /\ SameView(tb, now)
          /\ now.fetch = tb.fetch /\ now.promise = tb.promise /\ now.syncing = tb.syncing
          /\ now.forgot = tb.forgot
      BY <2>1 DEF TabState, SameView
    <3> HIDE DEF now
    <3>2. tab' = [tab EXCEPT ![t] = now]
      BY <2>4 DEF now
    <3> QED
      BY <1>1, <1>16, <3>1, <3>2, TabStays DEF StatusAnswered
  <2>5. CASE tab' = [tab EXCEPT ![t] = Await(at, "banner")]
    <3> DEFINE now == Await(at, "banner")
    <3>1. TabInv(at) /\ Asks(at, mine)
      BY <1>1, <1>2, <2>1, Elsewhere
    <3>2. TabInv(now) /\ Asks(now, mine) /\ SameView(at, now)
      BY <1>1, <1>2, <2>2, <3>1, AwaitInv DEF Waiter
    <3> HIDE DEF now
    <3>3. \A v : KeyOf(tb, v) => KeyOf(now, v)
      BY <1>1, <2>1, <3>2, SameKey DEF TabInv, SameView
    <3>4. tab' = [tab EXCEPT ![t] = now]
      BY <2>5 DEF now
    <3> QED
      BY <1>1, <1>2, <1>16, <3>2, <3>3, <3>4, TabMoves DEF StatusAnswered
  <2> QED
    BY <2>3, <2>4, <2>5
<1>17. CASE StatusFails(t)
  <2> DEFINE now == [tb EXCEPT !.asking = FALSE, !.synced = FALSE, !.checking = FALSE]
  <2>1. /\ now \in TabState /\ SameView(tb, now)
        /\ now.fetch = tb.fetch /\ now.promise = tb.promise /\ now.syncing = tb.syncing
        /\ now.forgot = tb.forgot
    BY <1>1 DEF TabState, SameView
  <2>2. tab' = [tab EXCEPT ![t] = now]
    BY <1>17 DEF StatusFails
  <2> HIDE DEF now
  <2> QED
    BY <1>1, <1>17, <2>1, <2>2, TabStays DEF StatusFails, Fault
<1>18. CASE Retry(t)
  <2> DEFINE fs == ForgetSync(tb)
             now == Evaluate(fs)
  <2>1. TabInv(fs) /\ SameView(tb, fs) /\ Asks(fs, mine)
    BY <1>1, <1>2, ForgetSyncInv DEF Asks
  <2> HIDE DEF fs
  <2>2. TabInv(now) /\ SameView(fs, now) /\ Asks(now, mine)
    BY <2>1, EvaluateInv
  <2> HIDE DEF now
  <2>3. \A v : KeyOf(tb, v) => KeyOf(now, v)
    BY <1>1, <2>1, <2>2, SameKey DEF TabInv, SameView
  <2>4. tab' = [tab EXCEPT ![t] = now]
    BY <1>18 DEF Retry, now, fs
  <2> QED
    BY <1>1, <1>2, <1>18, <2>2, <2>3, <2>4, TabMoves DEF Retry
<1>19. CASE RefreshKey(t)
  <2> DEFINE now == [tb EXCEPT !.key = store]
  <2>1. /\ now \in TabState /\ now.key = store
        /\ now.fetch = tb.fetch /\ now.promise = tb.promise /\ now.syncing = tb.syncing
        /\ now.forgot = tb.forgot
    BY <1>1 DEF TabState
  <2>2. tab' = [tab EXCEPT ![t] = now]
    BY <1>19 DEF RefreshKey
  <2> HIDE DEF now
  <2>3. TabInv(now) /\ Asks(now, mine)
    BY <1>1, <1>2, <2>1, Elsewhere
  <2>4. ~ outlived => KeyOf(now, Owner)
    BY <1>2, <2>1 DEF KeyOf, KeyShown
  <2> QED
    BY <1>1, <1>2, <1>19, <2>2, <2>3, <2>4, TabMoves DEF RefreshKey
<1>20. CASE Query(t)
  <2>1. CASE store # Nobody
    <3> DEFINE now == [tb EXCEPT !.query = store]
    <3>0. store \in Users
      BY <1>1, <2>1
    <3>1. /\ now \in TabState /\ SameView(tb, now)
          /\ now.fetch = tb.fetch /\ now.promise = tb.promise /\ now.syncing = tb.syncing
          /\ now.forgot = tb.forgot
      BY <1>1, <3>0 DEF TabState, SameView
    <3>2. tab' = [tab EXCEPT ![t] = now]
      BY <1>20, <2>1 DEF Query
    <3> HIDE DEF now
    <3> QED
      BY <1>1, <1>20, <3>1, <3>2, TabStays DEF Query
  <2>2. CASE store = Nobody
    <3> DEFINE aw == Await(tb, "query")
               now == [aw EXCEPT !.query = "waiting"]
    <3>1. TabInv(aw) /\ Asks(aw, mine) /\ SameView(tb, aw)
      BY <1>1, <1>2, <1>20, AwaitInv DEF Query, Waiter
    <3> HIDE DEF aw
    <3>2. /\ now \in TabState /\ SameView(aw, now)
          /\ now.fetch = aw.fetch /\ now.promise = aw.promise /\ now.syncing = aw.syncing
          /\ now.forgot = aw.forgot
      BY <3>1 DEF TabInv, TabState, SameView
    <3>3. tab' = [tab EXCEPT ![t] = now]
      BY <1>20, <2>2 DEF Query, now, aw
    <3> HIDE DEF now
    <3>4. TabInv(now) /\ Asks(now, mine)
      BY <3>1, <3>2, Elsewhere
    <3>5. \A v : KeyOf(tb, v) => KeyOf(now, v)
      BY <1>1, <3>1, <3>2, SameKey DEF SameView
    <3> QED
      BY <1>1, <1>2, <1>20, <3>3, <3>4, <3>5, TabMoves DEF Query
  <2> QED
    BY <2>1, <2>2
<1>21. CASE Answered(t) \/ Rejected(t)
  <2>1. ASSUME NEW q \in {"none", "error"}, NEW l \in BOOLEAN,
               tab' = [tab EXCEPT ![t] = [tb EXCEPT !.query = q, !.leaving = l]]
        PROVE  Inv'
    <3> DEFINE now == [tb EXCEPT !.query = q, !.leaving = l]
    <3>1. /\ now \in TabState /\ SameView(tb, now)
          /\ now.fetch = tb.fetch /\ now.promise = tb.promise /\ now.syncing = tb.syncing
          /\ now.forgot = tb.forgot
      BY <1>1 DEF TabState, SameView
    <3> HIDE DEF now
    <3>2. tab' = [tab EXCEPT ![t] = now]
      BY <2>1 DEF now
    <3> QED
      BY <1>1, <1>21, <3>1, <3>2, TabStays DEF Answered, Rejected, Fault
  <2>2. CASE Answered(t)
    <3>1. [tb EXCEPT !.query = "none"] = [tb EXCEPT !.query = "none", !.leaving = tb.leaving]
      BY <1>1 DEF TabState
    <3> QED
      BY <1>1, <2>1, <2>2, <3>1 DEF Answered, TabState
  <2>3. CASE Rejected(t)
    <3> DEFINE l == tb.leaving \/ (~ HasSessionCookie /\ tb.page # "login")
    <3>1. l \in BOOLEAN
      BY <1>1 DEF TabState, HasSessionCookie
    <3>2. tab' = [tab EXCEPT ![t] = [tb EXCEPT !.query = "error", !.leaving = l]]
      BY <2>3 DEF Rejected
    <3> QED
      BY <2>1, <3>1, <3>2
  <2> QED
    BY <1>21, <2>2, <2>3
<1> QED
  BY <1>3, <1>4, <1>5, <1>6, <1>7, <1>8, <1>9, <1>10, <1>11, <1>12, <1>13, <1>15, <1>16,
     <1>17, <1>18, <1>19, <1>20, <1>21 DEF TabStep

LEMMA NextInv == Inv /\ [Next]_vars => Inv'
<1> SUFFICES ASSUME Inv, [Next]_vars PROVE Inv'
  OBVIOUS
<1>1. ASSUME NEW t \in Tabs, TabStep(t) PROVE Inv'
  BY <1>1, TabStepInv
<1>2. CASE SessionEnds
  <2>1. /\ session' = Nobody /\ ended' = session /\ store' = store /\ tab' = tab
        /\ configured' = configured /\ faults' = faults
        /\ outlived' = (outlived \/ AskedFor)
    BY <1>2 DEF SessionEnds
  <2>2. Owner' = Owner
    BY <1>2, <2>1 DEF Owner, SessionEnds
  <2>3. TypeOK'
    BY <2>1 DEF Inv, TypeOK, AskedFor
  <2>4. \A t \in Tabs : TabInv(tab'[t])
    BY <2>1 DEF Inv
  <2>5. ~ outlived' => \A t \in Tabs : Asks(tab[t], {Nobody, session'})
    BY <2>1, NoneAskedFor DEF Asks
  <2>6. ~ outlived' => /\ store' \in {Nobody, Owner'}
                       /\ \A t \in Tabs : Asks(tab'[t], {Nobody, session'})
                       /\ \A t \in Tabs : Tabs = {t} => KeyOf(tab'[t], Owner')
    BY <2>1, <2>2, <2>5 DEF Inv, TokensOf
  <2>7. Inv' <=> /\ TypeOK' /\ \A t \in Tabs : TabInv(tab'[t])
                 /\ ~ outlived' => /\ store' \in {Nobody, Owner'}
                                   /\ \A t \in Tabs : Asks(tab'[t], {Nobody, session'})
                                   /\ \A t \in Tabs : Tabs = {t} => KeyOf(tab'[t], Owner')
    BY DEF Inv, TokensOf, TabInv, PromiseIsReal, SyncIsReal, OneRequest, Asks, KeyOf,
           KeyShown, KeyMounted, Screen, SignedIn
  <2> QED
    BY <2>3, <2>4, <2>6, <2>7
<1>3. CASE Redeploy
  BY <1>3 DEF Redeploy, Fault, Inv, TypeOK, TokensOf, Owner, TabInv, PromiseIsReal, SyncIsReal,
              OneRequest, Asks, KeyOf, KeyShown, KeyMounted, Screen, SignedIn
<1>4. CASE UNCHANGED vars
  BY <1>4 DEF vars, Inv, TypeOK, TokensOf, Owner, TabInv, PromiseIsReal, SyncIsReal,
              OneRequest, Asks, KeyOf, KeyShown, KeyMounted, Screen, SignedIn
<1> QED
  BY <1>1, <1>2, <1>3, <1>4 DEF Next

LEMMA InvAlways == Spec => []Inv
BY InitInv, NextInv, PTL DEF Spec

\* Every tab keeps its type, and a promise that is kept is that of a request in flight
\* (lib/backend-auth.ts:38).
THEOREM TypeCorrect == Spec => []TypeOK
BY InvAlways, PTL DEF Inv

\* The stored tokens never pass to another account, whatever tabs, requests, failures and
\* unnoticed ends of a session there are, until a session ends with its own request on
\* the way or the next account signs in before any tab has looked
\* (lib/backend-auth.ts:43).
THEOREM TokenAlwaysOfSession == Spec => []TokenIsOfSession
<1>1. Inv => TokenIsOfSession
  BY DEF Inv, TokensOf, KeyOf, TokenIsOfSession
<1> QED
  BY <1>1, InvAlways, PTL

\* A tab asks for one token at a time until a promise is forgotten under its request
\* (lib/backend-auth.ts:52).
THEOREM AlwaysOneSyncAtATime == Spec => []OneSyncAtATime
<1>1. ASSUME Inv, NEW t \in Tabs, ~ tab[t].forgot
      PROVE  Cardinality(InFlight(tab[t])) \in Nat /\ Cardinality(InFlight(tab[t])) <= 1
  <2> DEFINE p == tab[t].promise
  <2>1. InFlight(tab[t]) \subseteq {p}
    BY <1>1 DEF Inv, TabInv, OneRequest, InFlight
  <2>2. IsFiniteSet({p}) /\ Cardinality({p}) = 1
    BY FS_Singleton
  <2> QED
    BY <2>1, <2>2, FS_Subset, FS_CardinalityType
<1>2. Inv => OneSyncAtATime
  BY <1>1 DEF OneSyncAtATime
<1> QED
  BY <1>2, InvAlways, PTL

\* The flag of BackendAuthSync never outlasts the request it stands for
\* (BackendAuthSync.tsx:21).
THEOREM SyncingAlwaysReal == Spec => []SyncingIsReal
<1>1. Inv => SyncingIsReal
  BY DEF Inv, TabInv, SyncIsReal, SyncingIsReal, InFlight
<1> QED
  BY <1>1, InvAlways, PTL
=============================================================================
