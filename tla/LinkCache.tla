----------------------------- MODULE LinkCache ------------------------------
(***************************************************************************)
(* The life of one short code: its row in PostgreSQL, its entry in Redis,  *)
(* and everything that touches the two: the requests of URLService         *)
(* (app/services/url.py) with the transaction of get_db around them        *)
(* (app/api/deps.py), the public redirect (app/api/v1/router.py), and the  *)
(* background jobs WARM_CACHE, INVALIDATE_CACHE and EXPIRED_CLEANUP        *)
(* (app/workers/handlers.py).                                              *)
(*                                                                         *)
(* A request is one activity with a program counter; each await of Redis   *)
(* or of the database is a step.  A write is flushed (it takes the row     *)
(* lock) before the handler touches the cache, and committed only after    *)
(* the handler returned.  A target URL is named by the request that set    *)
(* it, so targets are all different.                                       *)
(***************************************************************************)
EXTENDS Naturals

CONSTANTS
  Creators,    \* attempts to create the link, with their own ids
  Writers,     \* PATCH and DELETE requests of the owner
  Readers,     \* public redirects
  Cleaners,    \* runs of the EXPIRED_CLEANUP job
  Ops,         \* what a writer may ask for
  Timed,       \* whether the link is created with an expires_at
  Background,  \* ENABLE_BACKGROUND_WORKERS: whether queued jobs run
  MaxFaults,   \* bound: failing Redis commands, crashes and failed commits
  NoRow,       \* there is no row with this short code
  Miss,        \* there is no cache entry
  Free         \* nobody holds the row lock

Targets == Creators \cup Writers
Requests == Creators \cup Writers \cup Readers \cup Cleaners

\* expires: the row carries an expires_at; the clock decides whether it is past
Row == [id : Creators, target : Targets, active : BOOLEAN, expires : BOOLEAN,
        deleted : BOOLEAN]
Cached == [id : Creators, target : Targets, active : BOOLEAN, expires : BOOLEAN]

Stage == {"idle", "checked", "flushed", "cached", "published", "acked", "missed",
          "loaded", "found", "answered", "refused", "aborted", "enqueue failed"}
Answer == {"none", "404", "409", "410", "500"}

ASSUME ConstantsAssumption ==
  /\ Ops \subseteq {"retarget", "activate", "deactivate", "expire", "extend", "delete"}
  /\ Timed \in BOOLEAN
  /\ Background \in BOOLEAN
  /\ MaxFaults \in Nat
  /\ Creators \cap Writers = {}
  /\ Readers \cap Cleaners = {}
  /\ Targets \cap (Readers \cup Cleaners) = {}
  /\ Free \notin Targets
  /\ NoRow \notin Row
  /\ Miss \notin Cached
  /\ Targets \cap Answer = {}

VARIABLES
  row,       \* the committed row
  lock,      \* the request whose flushed write holds the row lock
  cache,     \* the entry of the "url" namespace
  warm,      \* WARM_CACHE jobs that were enqueued and have not run
  inval,     \* INVALIDATE_CACHE jobs that were enqueued and have not run
  late,      \* the clock is past the link's deadline
  pc,        \* the stage of each request
  op,        \* what each writer asked for
  read,      \* the row a writer, the entry a reader has in memory
  answer,    \* what each create and redirect was answered
  faults,
  committed, \* history: targets some commit made visible
  began,     \* history: the writers acknowledged when a redirect began
  expired,   \* history: redirects that began when the link had expired
  raced      \* history: a refill overlapped a write

vars == <<row, lock, cache, warm, inval, late, pc, op, read, answer, faults,
          committed, began, expired, raced>>
history == <<committed, began, expired, raced>>
jobs == <<warm, inval>>

TypeOK ==
  /\ row \in Row \cup {NoRow}
  /\ lock \in Targets \cup {Free}
  /\ cache \in Cached \cup {Miss}
  /\ warm \subseteq Creators
  /\ inval \in Nat
  /\ late \in BOOLEAN
  /\ pc \in [Requests -> Stage]
  /\ op \in [Writers -> Ops \cup {"none"}]
  /\ read \in [Writers \cup Readers -> Row \cup Cached \cup {Miss}]
  /\ answer \in [Creators \cup Readers -> Answer \cup Targets]
  /\ faults \in Nat
  /\ committed \subseteq Targets
  /\ began \in [Readers -> SUBSET Writers]
  /\ expired \subseteq Readers
  /\ raced \in BOOLEAN

Init ==
  /\ row = NoRow
  /\ lock = Free
  /\ cache = Miss
  /\ warm = {}
  /\ inval = 0
  /\ late \in BOOLEAN
  /\ pc = [q \in Requests |-> "idle"]
  /\ op = [w \in Writers |-> "none"]
  /\ read = [q \in Writers \cup Readers |-> Miss]
  /\ answer = [q \in Creators \cup Readers |-> "none"]
  /\ faults = 0
  /\ committed = {}
  /\ began = [r \in Readers |-> {}]
  /\ expired = {}
  /\ raced = FALSE

Fault == faults < MaxFaults /\ faults' = faults + 1

Goto(q, from, to) == pc[q] = from /\ pc' = [pc EXCEPT ![q] = to]

Visible == row # NoRow /\ ~ row.deleted

\* A write is flushed and not yet committed.
Writing == lock # Free

\* mutant: the entry is written without the expiry
EntryWithoutExpiry(r) ==
  [id |-> r.id, target |-> r.target, active |-> r.active, expires |-> FALSE]

EntryOf(r) == [id |-> r.id, target |-> r.target, active |-> r.active, expires |-> r.expires]

\* CacheService.set and .delete swallow every Redis error.
CacheSet(e) ==
  \/ cache' = e /\ UNCHANGED faults
  \/ Fault /\ UNCHANGED cache

-----------------------------------------------------------------------------
(* POST /urls: create_short_url                                            *)

NewRow(c) ==
  [id |-> c, target |-> c, active |-> TRUE, expires |-> Timed, deleted |-> FALSE]

\* get_by_short_code and get_by_custom_alias: neither sees a soft-deleted row.
CheckAlias(c) ==
  /\ pc[c] = "idle"
  /\ IF Visible
       THEN pc' = [pc EXCEPT ![c] = "refused"] /\ answer' = [answer EXCEPT ![c] = "409"]
       ELSE pc' = [pc EXCEPT ![c] = "checked"] /\ UNCHANGED answer
  /\ UNCHANGED <<row, lock, cache, jobs, late, op, read, faults, history>>

\* The INSERT waits for an uncommitted row of the same code, and the unique index
\* refuses it when a row is there, deleted or not.
FlushCreate(c) ==
  /\ pc[c] = "checked"
  /\ ~ Writing
  /\ IF row = NoRow
       THEN /\ pc' = [pc EXCEPT ![c] = "flushed"]
            /\ lock' = c
            /\ UNCHANGED answer
       ELSE /\ pc' = [pc EXCEPT ![c] = "refused"]
            /\ answer' = [answer EXCEPT ![c] = "500"]
            /\ UNCHANGED lock
  /\ UNCHANGED <<row, cache, jobs, late, op, read, faults, history>>

\* The entry is cached before the row is committed.
CacheCreate(c) ==
  /\ Goto(c, "flushed", "cached")
  /\ CacheSet(EntryOf(NewRow(c)))
  /\ UNCHANGED <<row, lock, jobs, late, op, read, answer, history>>

PublishCreated(c) ==
  /\ Goto(c, "cached", "published")
  /\ warm' = warm \cup {c}
  /\ UNCHANGED <<row, lock, cache, inval, late, op, read, answer, faults, history>>

CommitCreate(c) ==
  /\ Goto(c, "published", "acked")
  /\ row' = NewRow(c)
  /\ lock' = Free
  /\ committed' = committed \cup {c}
  /\ answer' = [answer EXCEPT ![c] = c]
  /\ UNCHANGED <<cache, jobs, late, op, read, faults, began, expired, raced>>

-----------------------------------------------------------------------------
(* PATCH and DELETE /urls/{short_code}: update_url and soft_delete_url     *)

Apply(w, r) ==
  CASE op[w] = "retarget"   -> [r EXCEPT !.target = w]
    [] op[w] = "activate"   -> [r EXCEPT !.active = TRUE]
    [] op[w] = "deactivate" -> [r EXCEPT !.active = FALSE]
    [] op[w] = "expire"     -> [r EXCEPT !.expires = TRUE]
    [] op[w] = "extend"     -> [r EXCEPT !.expires = FALSE]
    [] op[w] = "delete"     -> [r EXCEPT !.deleted = TRUE, !.active = FALSE]
    [] OTHER                -> r

\* the ORM emits an UPDATE only for attributes that differ from what it loaded
Changes(w) == Apply(w, read[w]) # read[w]

ReadForWrite(w, o) ==
  /\ pc[w] = "idle"
  /\ IF Visible
       THEN /\ pc' = [pc EXCEPT ![w] = "checked"]
            /\ op' = [op EXCEPT ![w] = o]
            /\ read' = [read EXCEPT ![w] = row]
       ELSE pc' = [pc EXCEPT ![w] = "refused"] /\ UNCHANGED <<op, read>>
  /\ UNCHANGED <<row, lock, cache, jobs, late, answer, faults, history>>

FlushWrite(w) ==
  /\ Goto(w, "checked", "flushed")
  /\ IF Changes(w) THEN ~ Writing /\ lock' = w ELSE UNCHANGED lock
  /\ UNCHANGED <<row, cache, jobs, late, op, read, answer, faults, history>>

\* mutant: a write leaves the entry alone
UncacheForgotten(w) ==
  /\ Goto(w, "flushed", "cached")
  /\ UNCHANGED <<row, lock, cache, jobs, late, op, read, answer, faults, history>>

\* The entry is deleted before the change is committed.
Uncache(w) ==
  /\ Goto(w, "flushed", "cached")
  /\ CacheSet(Miss)
  /\ UNCHANGED <<row, lock, jobs, late, op, read, answer, history>>

PublishChanged(w) ==
  /\ Goto(w, "cached", "published")
  /\ inval' = inval + 1
  /\ UNCHANGED <<row, lock, cache, warm, late, op, read, answer, faults, history>>

CommitWrite(w) ==
  /\ Goto(w, "published", "acked")
  /\ IF lock = w
       THEN /\ row' = Apply(w, row)
            /\ lock' = Free
            /\ committed' = committed \cup {row'.target}
       ELSE UNCHANGED <<row, lock, committed>>
  /\ UNCHANGED <<cache, jobs, late, op, read, answer, faults, began, expired, raced>>

-----------------------------------------------------------------------------
(* A create, a write or a cleanup that ends early: its session rolls back. *)

Unlock(q) == lock' = IF lock = q THEN Free ELSE lock

\* EventBus.publish does not guard enqueue: a Redis error there reaches the
\* handler.  Of a create's jobs, WARM_CACHE may already be in the queue.
PublishRaises(q) ==
  /\ Goto(q, "cached", "enqueue failed")
  /\ Fault
  /\ \/ UNCHANGED jobs
     \/ q \in Creators /\ warm' = warm \cup {q} /\ UNCHANGED inval
     \/ q \in Writers \cup Cleaners /\ inval' = inval + 1 /\ UNCHANGED warm
  /\ Unlock(q)
  /\ UNCHANGED <<row, cache, late, op, read, answer, history>>

\* The process dies, the client's connection to PostgreSQL breaks, or COMMIT fails.
Abort(q) ==
  /\ pc[q] \in {"flushed", "cached", "published"}
  /\ Fault
  /\ pc' = [pc EXCEPT ![q] = "aborted"]
  /\ Unlock(q)
  /\ UNCHANGED <<row, cache, jobs, late, op, read, answer, history>>

-----------------------------------------------------------------------------
(* GET /{short_code}: get_original_url, then the click, then the redirect  *)

Reply(r, code) ==
  /\ pc' = [pc EXCEPT ![r] = "answered"]
  /\ answer' = [answer EXCEPT ![r] = code]

Expired(e) == e.expires /\ late

\* what the reader remembers about the moment it was called
Begin(r) ==
  /\ began' = [began EXCEPT ![r] = {w \in Writers : pc[w] = "acked"}]
  /\ expired' = IF Visible /\ Expired(row) THEN expired \cup {r} ELSE expired

\* What get_original_url makes of an entry, and likewise of a visible row.
Verdict(e) ==
  CASE ~ e.active           -> "404"
    [] e.active /\ Expired(e) -> "410"
    [] OTHER                -> "redirect"

\* Cache hit: answer, or go on to the click.  A failing get() is a miss.
Lookup(r) ==
  /\ pc[r] = "idle"
  /\ Begin(r)
  /\ \/ /\ cache # Miss
        /\ IF Verdict(cache) = "redirect"
             THEN /\ pc' = [pc EXCEPT ![r] = "found"]
                  /\ read' = [read EXCEPT ![r] = cache]
                  /\ UNCHANGED answer
             ELSE Reply(r, Verdict(cache)) /\ UNCHANGED read
        /\ UNCHANGED faults
     \/ /\ (cache = Miss /\ UNCHANGED faults) \/ Fault
        /\ pc' = [pc EXCEPT ![r] = "missed"]
        /\ UNCHANGED <<read, answer>>
  /\ UNCHANGED <<row, lock, cache, jobs, late, op, committed, raced>>

ReadRow(r) ==
  /\ pc[r] = "missed"
  /\ \/ /\ Visible
        /\ Verdict(row) = "redirect"
        /\ pc' = [pc EXCEPT ![r] = "loaded"]
        /\ read' = [read EXCEPT ![r] = EntryOf(row)]
        /\ raced' = (raced \/ Writing)
        /\ UNCHANGED answer
     \/ /\ Visible
        /\ Verdict(row) # "redirect"
        /\ Reply(r, Verdict(row))
        /\ UNCHANGED <<read, raced>>
     \/ /\ ~ Visible
        /\ Reply(r, "404")
        /\ UNCHANGED <<read, raced>>
  /\ UNCHANGED <<row, lock, cache, jobs, late, op, faults, committed, began, expired>>

Fill(r) ==
  /\ Goto(r, "loaded", "found")
  /\ CacheSet(read[r])
  /\ raced' = (raced \/ Writing \/ ~ Visible \/ read[r] # EntryOf(row))
  /\ UNCHANGED <<row, lock, jobs, late, op, read, answer, committed, began, expired>>

\* mutant: the click only needs some committed row with this short code
RefersToAny(e) == row # NoRow

\* The id an entry carries is the id of a committed row.
Refers(e) == row # NoRow /\ row.id = e.id

\* track_click inserts a click (the foreign key wants a committed row of that
\* id), increment_clicks updates the row unless it is deleted, publish may raise.
Redirect(r) ==
  /\ pc[r] = "found"
  /\ \/ /\ Refers(read[r])
        /\ Visible => ~ Writing
        /\ Reply(r, read[r].target)
        /\ UNCHANGED faults
     \/ /\ ~ Refers(read[r])
        /\ Reply(r, "500")
        /\ UNCHANGED faults
     \/ Reply(r, "500") /\ Fault
  /\ UNCHANGED <<row, lock, cache, jobs, late, op, read, history>>

-----------------------------------------------------------------------------
(* The background jobs                                                     *)

\* mutant: the warmed entry lacks the id
WarmEntryWithoutId(c) == [target |-> c, active |-> TRUE, expires |-> FALSE]

\* The payload of LINK_CREATED carries neither expires_at nor is_active.
WarmEntry(c) == [id |-> c, target |-> c, active |-> TRUE, expires |-> FALSE]

\* A job whose complete() raised is retried: its handler runs once more.
WarmCache(c) ==
  /\ Background
  /\ c \in warm
  /\ \/ warm' = warm \ {c} /\ CacheSet(WarmEntry(c))
     \/ UNCHANGED warm /\ cache' = WarmEntry(c) /\ Fault
  /\ UNCHANGED <<row, lock, inval, late, pc, op, read, answer, history>>

InvalidateCache ==
  /\ Background
  /\ inval > 0
  /\ \/ inval' = inval - 1 /\ CacheSet(Miss)
     \/ UNCHANGED inval /\ cache' = Miss /\ Fault
  /\ UNCHANGED <<row, lock, warm, late, pc, op, read, answer, history>>

\* _expired_cleanup selects the expired rows, publishes LINK_EXPIRED for each and
\* commits is_active = False, whatever was committed in between.
SelectExpired(k) ==
  /\ Background
  /\ Visible /\ row.active /\ Expired(row)
  /\ Goto(k, "idle", "cached")
  /\ UNCHANGED <<row, lock, cache, jobs, late, op, read, answer, faults, history>>

PublishExpired(k) ==
  /\ Goto(k, "cached", "published")
  /\ inval' = inval + 1
  /\ UNCHANGED <<row, lock, cache, warm, late, op, read, answer, faults, history>>

Deactivate(k) ==
  /\ Goto(k, "published", "acked")
  /\ ~ Writing
  /\ row' = [row EXCEPT !.active = FALSE]
  /\ UNCHANGED <<lock, cache, jobs, late, op, read, answer, faults, history>>

-----------------------------------------------------------------------------
(* The environment: an entry reaches its TTL or is evicted; time passes.   *)

\* mutant: entries are written without a TTL
CacheKeeps ==
  /\ cache # Miss
  /\ UNCHANGED vars

CacheExpires ==
  /\ cache # Miss
  /\ cache' = Miss
  /\ UNCHANGED <<row, lock, jobs, late, pc, op, read, answer, faults, history>>

Deadline ==
  /\ ~ late
  /\ late' = TRUE
  /\ UNCHANGED <<row, lock, cache, jobs, pc, op, read, answer, faults, history>>

-----------------------------------------------------------------------------
Create(c) ==
  CheckAlias(c) \/ FlushCreate(c) \/ CacheCreate(c) \/ PublishCreated(c) \/ CommitCreate(c)

Write(w) ==
  \/ \E o \in Ops : ReadForWrite(w, o)
  \/ FlushWrite(w) \/ Uncache(w) \/ PublishChanged(w) \/ CommitWrite(w)

Visit(r) == Lookup(r) \/ ReadRow(r) \/ Fill(r) \/ Redirect(r)

Cleanup(k) == SelectExpired(k) \/ PublishExpired(k) \/ Deactivate(k)

Job == (\E c \in Creators : WarmCache(c)) \/ InvalidateCache

Next ==
  \/ \E c \in Creators : Create(c) \/ PublishRaises(c) \/ Abort(c)
  \/ \E w \in Writers : Write(w) \/ PublishRaises(w) \/ Abort(w)
  \/ \E r \in Readers : Visit(r)
  \/ \E k \in Cleaners : Cleanup(k) \/ PublishRaises(k) \/ Abort(k)
  \/ Job
  \/ CacheExpires
  \/ Deadline

Spec == Init /\ [][Next]_vars

\* A request that was read from the socket runs to its end; the workers keep
\* polling; Redis drops an entry when its TTL (REDIS_CACHE_TTL) has passed.
Fairness ==
  /\ \A c \in Creators : WF_vars(pc[c] # "idle" /\ Create(c))
  /\ \A w \in Writers : WF_vars(pc[w] # "idle" /\ Write(w))
  /\ \A r \in Readers : WF_vars(pc[r] # "idle" /\ Visit(r))
  /\ \A k \in Cleaners : WF_vars(pc[k] # "idle" /\ Cleanup(k))
  /\ WF_vars(Job)
  /\ WF_vars(CacheExpires)

FairSpec == Spec /\ Fairness

-----------------------------------------------------------------------------
(* Properties *)

\* No redirect leads to a target that was never committed: neither the entry cached
\* before the commit of a create that then fails, nor the WARM_CACHE job of such a
\* create, gets past the foreign key of the click.
RedirectsOnlyCommitted ==
  \A r \in Readers : answer[r] \in Targets => answer[r] \in committed

\* A redirect that began after a deletion was acknowledged leads nowhere.
DeletedNeverRedirects ==
  \A r \in Readers :
    (\E w \in began[r] : op[w] = "delete") => answer[r] \notin Targets

\* A redirect that began when the committed link had expired leads nowhere.
ExpiredNeverRedirects == \A r \in expired : answer[r] \notin Targets

\* The entry says what the row says.
Fresh == cache = Miss \/ (Visible /\ cache = EntryOf(row))

\* No create, write or rollback is between its first change and its end.
Settled == \A q \in Targets : pc[q] \notin {"flushed", "cached", "published"}

\* Without the workers and without errors, and apart from the refill of a reader that
\* overlapped a write, the entry agrees with the row whenever no write is under way.
FreshUnlessRaced == Settled /\ ~ raced /\ faults = 0 => Fresh

\* When requests stop coming, a stale entry does not outlive its TTL, whatever raced.
EventuallyFresh == <>[]Fresh
=============================================================================
