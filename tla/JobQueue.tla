------------------------------ MODULE JobQueue ------------------------------
(***************************************************************************)
(* The Redis job queue and the background workers that drain it:           *)
(* JobQueue (app/workers/queue.py), the consumer loops and the promoter of *)
(* delayed jobs (app/workers/consumers.py) and dispatch_job                *)
(* (app/workers/handlers.py).                                              *)
(*                                                                         *)
(* Uvicorn is started with several worker processes and each of them runs  *)
(* every consumer loop and a promoter of its own, so a consumer is a pair  *)
(* <<process, worker group>> and there is one promoter per process.  Every *)
(* await of a Redis command is a step of its own; within one helper, the   *)
(* status hash, its expiry and the metric counter are one step that may be *)
(* cut short by an error before or after the status is written.            *)
(*                                                                         *)
(* A job is its id.  What sits in a sorted set is the job serialised with  *)
(* its "attempts" and "last_error" fields: an Entry.  Two equal Entries    *)
(* are one member of the sorted set.                                       *)
(***************************************************************************)
EXTENDS Naturals, FiniteSets

CONSTANTS
  Jobs,         \* ids of the jobs handed to enqueue
  Types,        \* job types
  Groups,       \* worker groups (the keys of WORKER_GROUPS)
  Processes,    \* uvicorn worker processes
  Errors,       \* texts of the exceptions a handler may raise
  TypeOf,       \* the type of a job
  PriorityOf,   \* the priority of a job, the smaller the more urgent
  GroupOf,      \* the worker group a type is assigned to
  RankOf,       \* the position of a type in its group's list
  DelayedJobs,  \* jobs enqueued with delay_seconds > 0
  MaxAttempts,  \* JobQueue.MAX_ATTEMPTS
  FaultKinds,   \* faults the environment may inject
  MaxFaults,    \* bound: how many of them
  MaxCancels,   \* bound: how many calls of cancel()
  Nothing       \* what an agent holds that holds no entry

NoError == "no error"

ASSUME ConstantsAssumption ==
  /\ MaxAttempts \in Nat \ {0}
  /\ MaxFaults \in Nat
  /\ MaxCancels \in Nat
  /\ TypeOf \in [Jobs -> Types]
  /\ PriorityOf \in [Jobs -> Nat]
  /\ GroupOf \in [Types -> Groups]
  /\ RankOf \in [Types -> Nat]
  /\ DelayedJobs \subseteq Jobs
  /\ IsFiniteSet(Processes)
  /\ FaultKinds \subseteq {"crash", "redis", "evict"}

\* the member stored in Redis
Entry == [job : Jobs, attempts : 0 .. MaxAttempts - 1, error : Errors \cup {NoError}]
Consumers == Processes \X Groups
JobStatus == {"none", "pending", "running", "completed", "failed", "retrying"}

VARIABLES
  status,   \* the status hash of each job ("none": no such key)
  queue,    \* the members of the per-type priority queues
  delayed,  \* the members of the delayed set
  dead,     \* how many dead letters a job has left
  enq,      \* where the enqueue of each job is
  scan,     \* the types a consumer found empty in this pass
  cpc,      \* where each consumer is
  held,     \* the entry a consumer has popped
  ppc,      \* where each promoter is
  lifted,   \* the entry a promoter has read
  runs,     \* history: times the handler of a job was entered
  fails,    \* history: times dispatch_job reached fail()
  finished, \* history: complete() of this job returned normally
  faults,   \* faults injected so far
  cancels   \* calls of cancel() so far

consumerVars == <<scan, cpc, held>>
promoterVars == <<ppc, lifted>>
history == <<runs, fails, finished>>
vars == <<status, queue, delayed, dead, enq, consumerVars, promoterVars,
          history, faults, cancels>>

TypeOK ==
  /\ status \in [Jobs -> JobStatus]
  /\ queue \subseteq Entry
  /\ delayed \subseteq Entry
  /\ dead \in [Jobs -> Nat]
  /\ enq \in [Jobs -> {"new", "announced", "parked", "done", "aborted"}]
  /\ scan \in [Consumers -> SUBSET Types]
  /\ cpc \in [Consumers -> {"idle", "popped", "running", "succeeded", "raised",
                            "rescheduled", "buried"}]
  /\ held \in [Consumers -> Entry \cup {Nothing}]
  /\ \A c \in Consumers : cpc[c] # "idle" => held[c] \in Entry
  /\ ppc \in [Processes -> {"idle", "read", "removed"}]
  /\ lifted \in [Processes -> Entry \cup {Nothing}]
  /\ \A p \in Processes : ppc[p] # "idle" => lifted[p] \in Entry
  /\ runs \in [Jobs -> Nat]
  /\ fails \in [Jobs -> Nat]
  /\ finished \in [Jobs -> BOOLEAN]
  /\ faults \in Nat
  /\ cancels \in Nat

Init ==
  /\ status = [j \in Jobs |-> "none"]
  /\ queue = {}
  /\ delayed = {}
  /\ dead = [j \in Jobs |-> 0]
  /\ enq = [j \in Jobs |-> "new"]
  /\ scan = [c \in Consumers |-> {}]
  /\ cpc = [c \in Consumers |-> "idle"]
  /\ held = [c \in Consumers |-> Nothing]
  /\ ppc = [p \in Processes |-> "idle"]
  /\ lifted = [p \in Processes |-> Nothing]
  /\ runs = [j \in Jobs |-> 0]
  /\ fails = [j \in Jobs |-> 0]
  /\ finished = [j \in Jobs |-> FALSE]
  /\ faults = 0
  /\ cancels = 0

\* The environment uses up one unit of the fault budget.
Fault(kind) ==
  /\ kind \in FaultKinds
  /\ faults < MaxFaults
  /\ faults' = faults + 1

\* _set_status: the hash of job j now says s.
SetStatus(j, s) == status' = [status EXCEPT ![j] = s]

\* A command that raised may still have been executed by Redis.
MaybeSetStatus(j, s) == SetStatus(j, s) \/ UNCHANGED status

-----------------------------------------------------------------------------
(* JobQueue.enqueue: announce the job as PENDING, then add it to a set.    *)

FreshEntry(j) == [job |-> j, attempts |-> 0, error |-> NoError]

EnqueueStatus(j) ==
  /\ enq[j] = "new"
  /\ SetStatus(j, "pending")
  /\ enq' = [enq EXCEPT ![j] = "announced"]
  /\ UNCHANGED <<queue, delayed, dead, consumerVars, promoterVars, history, faults, cancels>>

\* mutant: the job is added before its status is written
EnqueueAddFirst(j) ==
  /\ enq[j] = "new"
  /\ queue' = queue \cup {FreshEntry(j)}
  /\ enq' = [enq EXCEPT ![j] = "parked"]
  /\ UNCHANGED <<status, delayed, dead, consumerVars, promoterVars, history, faults, cancels>>

EnqueueAdd(j) ==
  /\ enq[j] = "announced"
  /\ IF j \in DelayedJobs
       THEN /\ delayed' = delayed \cup {FreshEntry(j)}
            /\ enq' = [enq EXCEPT ![j] = "parked"]
            /\ UNCHANGED queue
       ELSE /\ queue' = queue \cup {FreshEntry(j)}
            /\ enq' = [enq EXCEPT ![j] = "done"]
            /\ UNCHANGED delayed
  /\ UNCHANGED <<status, dead, consumerVars, promoterVars, history, faults, cancels>>

EnqueueParked(j) ==
  /\ enq[j] = "parked"
  /\ SetStatus(j, "retrying")
  /\ enq' = [enq EXCEPT ![j] = "done"]
  /\ UNCHANGED <<queue, delayed, dead, consumerVars, promoterVars, history, faults, cancels>>

\* The caller of enqueue dies, or Redis refuses a command: nobody resumes it.
EnqueueAborts(j) ==
  /\ enq[j] \in {"announced", "parked"}
  /\ Fault("crash") \/ Fault("redis")
  /\ enq' = [enq EXCEPT ![j] = "aborted"]
  /\ UNCHANGED <<status, queue, delayed, dead, consumerVars, promoterVars, history, cancels>>

\* cancel(): only the status hash is rewritten; no caller checks who runs.
Cancel(j) ==
  /\ cancels < MaxCancels
  /\ enq[j] # "new"
  /\ cancels' = cancels + 1
  /\ SetStatus(j, "failed")
  /\ UNCHANGED <<queue, delayed, dead, enq, consumerVars, promoterVars, history, faults>>

-----------------------------------------------------------------------------
(* _consumer_loop: one pass over the types of the group, in list order.    *)

GroupTypes(c) == {t \in Types : GroupOf[t] = c[2]}

\* the type whose queue the consumer tries next in this pass
Tries(c, t) ==
  /\ t \in GroupTypes(c) \ scan[c]
  /\ \A u \in GroupTypes(c) \ scan[c] : RankOf[t] <= RankOf[u]

Queued(t) == {e \in queue : TypeOf[e.job] = t}

\* zpopmin takes a member of the least score: the priority is its integer part.
MostUrgent(e) ==
  \A o \in Queued(TypeOf[e.job]) : PriorityOf[e.job] <= PriorityOf[o.job]

\* mutant: the consumer never starts a new pass
FindEmptyForGood(c, t) ==
  /\ cpc[c] = "idle"
  /\ Tries(c, t)
  /\ Queued(t) = {}
  /\ scan' = [scan EXCEPT ![c] = @ \cup {t}]
  /\ UNCHANGED <<status, queue, delayed, dead, enq, cpc, held, promoterVars, history,
                 faults, cancels>>

FindEmpty(c, t) ==
  /\ cpc[c] = "idle"
  /\ Tries(c, t)
  /\ Queued(t) = {}
  /\ scan' = [scan EXCEPT ![c] = IF @ \cup {t} = GroupTypes(c) THEN {} ELSE @ \cup {t}]
  /\ UNCHANGED <<status, queue, delayed, dead, enq, cpc, held, promoterVars, history,
                 faults, cancels>>

\* mutant: the consumer reads the most urgent member and leaves it in the queue
PopLeaves(c, e) ==
  /\ cpc[c] = "idle"
  /\ e \in queue
  /\ Tries(c, TypeOf[e.job])
  /\ MostUrgent(e)
  /\ cpc' = [cpc EXCEPT ![c] = "popped"]
  /\ held' = [held EXCEPT ![c] = e]
  /\ scan' = [scan EXCEPT ![c] = {}]
  /\ UNCHANGED <<status, queue, delayed, dead, enq, promoterVars, history, faults, cancels>>

Pop(c, e) ==
  /\ cpc[c] = "idle"
  /\ e \in queue
  /\ Tries(c, TypeOf[e.job])
  /\ MostUrgent(e)
  /\ queue' = queue \ {e}
  /\ cpc' = [cpc EXCEPT ![c] = "popped"]
  /\ held' = [held EXCEPT ![c] = e]
  /\ scan' = [scan EXCEPT ![c] = {}]
  /\ UNCHANGED <<status, delayed, dead, enq, promoterVars, history, faults, cancels>>

\* The consumer leaves the job: it returned from dispatch_job, or an exception
\* reached the loop, which sleeps and starts a new pass.
LetGo(c) ==
  /\ cpc' = [cpc EXCEPT ![c] = "idle"]
  /\ held' = [held EXCEPT ![c] = Nothing]
  /\ scan' = [scan EXCEPT ![c] = {}]

\* The reply of zpopmin is lost: the member is gone and nobody holds it.
PopRaises(c, e) ==
  /\ cpc[c] = "idle"
  /\ e \in queue
  /\ Tries(c, TypeOf[e.job])
  /\ MostUrgent(e)
  /\ Fault("redis")
  /\ queue' = queue \ {e}
  /\ LetGo(c)
  /\ UNCHANGED <<status, delayed, dead, enq, promoterVars, history, cancels>>

\* dequeue() marks the popped job RUNNING; dispatch_job then enters the handler.
Start(c) ==
  /\ cpc[c] = "popped"
  /\ SetStatus(held[c].job, "running")
  /\ runs' = [runs EXCEPT ![held[c].job] = @ + 1]
  /\ cpc' = [cpc EXCEPT ![c] = "running"]
  /\ UNCHANGED <<queue, delayed, dead, enq, scan, held, promoterVars, fails, finished,
                 faults, cancels>>

StartRaises(c) ==
  /\ cpc[c] = "popped"
  /\ Fault("redis")
  /\ MaybeSetStatus(held[c].job, "running")
  /\ LetGo(c)
  /\ UNCHANGED <<queue, delayed, dead, enq, promoterVars, history, cancels>>

-----------------------------------------------------------------------------
(* dispatch_job: run the handler, then complete() or fail().               *)

HandlerReturns(c) ==
  /\ cpc[c] = "running"
  /\ cpc' = [cpc EXCEPT ![c] = "succeeded"]
  /\ UNCHANGED <<status, queue, delayed, dead, enq, scan, held, promoterVars, history,
                 faults, cancels>>

HandlerRaises(c) ==
  /\ cpc[c] = "running"
  /\ cpc' = [cpc EXCEPT ![c] = "raised"]
  /\ fails' = [fails EXCEPT ![held[c].job] = @ + 1]
  /\ UNCHANGED <<status, queue, delayed, dead, enq, scan, held, promoterVars, runs,
                 finished, faults, cancels>>

Complete(c) ==
  /\ cpc[c] = "succeeded"
  /\ SetStatus(held[c].job, "completed")
  /\ finished' = [finished EXCEPT ![held[c].job] = TRUE]
  /\ LetGo(c)
  /\ UNCHANGED <<queue, delayed, dead, enq, promoterVars, runs, fails, faults, cancels>>

\* complete() stands inside the try of dispatch_job: when it raises, the job
\* whose handler succeeded is handed to fail().
CompleteRaises(c) ==
  /\ cpc[c] = "succeeded"
  /\ Fault("redis")
  /\ MaybeSetStatus(held[c].job, "completed")
  /\ cpc' = [cpc EXCEPT ![c] = "raised"]
  /\ fails' = [fails EXCEPT ![held[c].job] = @ + 1]
  /\ UNCHANGED <<queue, delayed, dead, enq, scan, held, promoterVars, runs, finished,
                 cancels>>

\* fail() with attempts left: back into the delayed set, one attempt more.
Retry(c, text) ==
  [job |-> held[c].job, attempts |-> held[c].attempts + 1, error |-> text]

\* mutants: one attempt too many, one too few
LastAttemptLate(c) == held[c].attempts >= MaxAttempts
LastAttemptEarly(c) == held[c].attempts + 2 >= MaxAttempts

LastAttempt(c) == held[c].attempts + 1 >= MaxAttempts

Reschedule(c, text) ==
  /\ cpc[c] = "raised"
  /\ ~ LastAttempt(c)
  /\ delayed' = delayed \cup {Retry(c, text)}
  /\ cpc' = [cpc EXCEPT ![c] = "rescheduled"]
  /\ UNCHANGED <<status, queue, dead, enq, scan, held, promoterVars, history, faults,
                 cancels>>

\* fail() on the last attempt: a dead letter.
Bury(c) ==
  /\ cpc[c] = "raised"
  /\ LastAttempt(c)
  /\ dead' = [dead EXCEPT ![held[c].job] = @ + 1]
  /\ cpc' = [cpc EXCEPT ![c] = "buried"]
  /\ UNCHANGED <<status, queue, delayed, enq, scan, held, promoterVars, history, faults,
                 cancels>>

\* mutant: fail() reports a retry whatever it did
OutcomeRetrying(c) == "retrying"

\* the status fail() writes after it moved the job
OutcomeStatus(c) == IF cpc[c] = "buried" THEN "failed" ELSE "retrying"

RecordFailure(c) ==
  /\ cpc[c] \in {"rescheduled", "buried"}
  /\ SetStatus(held[c].job, OutcomeStatus(c))
  /\ LetGo(c)
  /\ UNCHANGED <<queue, delayed, dead, enq, promoterVars, history, faults, cancels>>

\* An exception inside fail() reaches _consumer_loop, which drops the job.
FailRaises(c) ==
  /\ Fault("redis")
  /\ \/ /\ cpc[c] = "raised"
        /\ UNCHANGED <<status, delayed, dead>>
     \/ /\ cpc[c] = "raised"
        /\ ~ LastAttempt(c)
        /\ \E text \in Errors : delayed' = delayed \cup {Retry(c, text)}
        /\ UNCHANGED <<status, dead>>
     \/ /\ cpc[c] = "raised"
        /\ LastAttempt(c)
        /\ dead' = [dead EXCEPT ![held[c].job] = @ + 1]
        /\ UNCHANGED <<status, delayed>>
     \/ /\ cpc[c] \in {"rescheduled", "buried"}
        /\ MaybeSetStatus(held[c].job, OutcomeStatus(c))
        /\ UNCHANGED <<delayed, dead>>
  /\ LetGo(c)
  /\ UNCHANGED <<queue, enq, promoterVars, history, cancels>>

-----------------------------------------------------------------------------
(* dequeue_delayed, called by _delayed_job_promoter: three Redis commands, *)
(* and the result of zrem is not looked at.                                *)

PromoterReads(p, e) ==
  /\ ppc[p] = "idle"
  /\ e \in delayed
  /\ ppc' = [ppc EXCEPT ![p] = "read"]
  /\ lifted' = [lifted EXCEPT ![p] = e]
  /\ UNCHANGED <<status, queue, delayed, dead, enq, consumerVars, history, faults, cancels>>

PromoterRemoves(p) ==
  /\ ppc[p] = "read"
  /\ delayed' = delayed \ {lifted[p]}
  /\ ppc' = [ppc EXCEPT ![p] = "removed"]
  /\ UNCHANGED <<status, queue, dead, enq, consumerVars, lifted, history, faults, cancels>>

\* mutant: the promoter removes the entry and never adds it to the queue
PromoterForgets(p) ==
  /\ ppc[p] = "removed"
  /\ ppc' = [ppc EXCEPT ![p] = "idle"]
  /\ lifted' = [lifted EXCEPT ![p] = Nothing]
  /\ UNCHANGED <<status, queue, delayed, dead, enq, consumerVars, history, faults, cancels>>

PromoterPushes(p) ==
  /\ ppc[p] = "removed"
  /\ queue' = queue \cup {lifted[p]}
  /\ ppc' = [ppc EXCEPT ![p] = "idle"]
  /\ lifted' = [lifted EXCEPT ![p] = Nothing]
  /\ UNCHANGED <<status, delayed, dead, enq, consumerVars, history, faults, cancels>>

\* zrem or zadd raises, executed or not; the promoter's loop starts over.
PromoterRaises(p) ==
  /\ ppc[p] # "idle"
  /\ Fault("redis")
  /\ \/ UNCHANGED <<queue, delayed>>
     \/ /\ ppc[p] = "read"
        /\ delayed' = delayed \ {lifted[p]}
        /\ UNCHANGED queue
     \/ /\ ppc[p] = "removed"
        /\ queue' = queue \cup {lifted[p]}
        /\ UNCHANGED delayed
  /\ ppc' = [ppc EXCEPT ![p] = "idle"]
  /\ lifted' = [lifted EXCEPT ![p] = Nothing]
  /\ UNCHANGED <<status, dead, enq, consumerVars, history, cancels>>

-----------------------------------------------------------------------------
(* Faults of a whole process, and of Redis itself.                         *)

\* A process dies or is stopped: its tasks lose what they hold (CancelledError
\* passes the `except Exception` of dispatch_job), and it starts afresh.
Crash(p) ==
  /\ Fault("crash")
  /\ cpc' = [c \in Consumers |-> IF c[1] = p THEN "idle" ELSE cpc[c]]
  /\ held' = [c \in Consumers |-> IF c[1] = p THEN Nothing ELSE held[c]]
  /\ scan' = [c \in Consumers |-> IF c[1] = p THEN {} ELSE scan[c]]
  /\ ppc' = [ppc EXCEPT ![p] = "idle"]
  /\ lifted' = [lifted EXCEPT ![p] = Nothing]
  /\ UNCHANGED <<status, queue, delayed, dead, enq, history, cancels>>

\* Redis runs with allkeys-lru: any key may be evicted, a queue as well.
Evict ==
  /\ Fault("evict")
  /\ \/ \E t \in Types : queue' = queue \ Queued(t) /\ UNCHANGED <<status, delayed, dead>>
     \/ delayed' = {} /\ UNCHANGED <<status, queue, dead>>
     \/ dead' = [j \in Jobs |-> 0] /\ UNCHANGED <<status, queue, delayed>>
     \/ \E j \in Jobs : SetStatus(j, "none") /\ UNCHANGED <<queue, delayed, dead>>
  /\ UNCHANGED <<enq, consumerVars, promoterVars, history, cancels>>

-----------------------------------------------------------------------------
Producer == \E j \in Jobs : EnqueueStatus(j) \/ EnqueueAdd(j) \/ EnqueueParked(j)

Worker(c) ==
  \/ \E t \in Types : FindEmpty(c, t)
  \/ \E e \in queue : Pop(c, e)
  \/ Start(c)
  \/ HandlerReturns(c)
  \/ HandlerRaises(c)
  \/ Complete(c)
  \/ \E text \in Errors : Reschedule(c, text)
  \/ Bury(c)
  \/ RecordFailure(c)

Promoter(p) ==
  \/ \E e \in delayed : PromoterReads(p, e)
  \/ PromoterRemoves(p)
  \/ PromoterPushes(p)

Disturbance ==
  \/ \E j \in Jobs : EnqueueAborts(j) \/ Cancel(j)
  \/ \E c \in Consumers :
       \/ \E e \in queue : PopRaises(c, e)
       \/ StartRaises(c)
       \/ CompleteRaises(c)
       \/ FailRaises(c)
  \/ \E p \in Processes : PromoterRaises(p) \/ Crash(p)
  \/ Evict

Next ==
  \/ Producer
  \/ \E c \in Consumers : Worker(c)
  \/ \E p \in Processes : Promoter(p)
  \/ Disturbance

\* The event loop of a process keeps running each of its tasks, so every loop
\* keeps taking steps; a caller of enqueue continues as well.  Handlers do
\* return or raise (their network calls have timeouts).
Fairness ==
  /\ \A j \in Jobs : WF_vars(EnqueueAdd(j)) /\ WF_vars(EnqueueParked(j))
  /\ \A c \in Consumers : WF_vars(Worker(c))
  /\ \A p \in Processes : WF_vars(Promoter(p))

Spec == Init /\ [][Next]_vars

FairSpec == Spec /\ Fairness

-----------------------------------------------------------------------------
(* Properties *)

\* The consumer is the one that has job j in memory and must move it on.
InHand(c, j) ==
  /\ cpc[c] \in {"popped", "running", "succeeded", "raised"}
  /\ held[c].job = j

Removed(p, j) == ppc[p] = "removed" /\ lifted[p].job = j

\* Somewhere in Redis or in a worker's memory there is a copy of job j.
Alive(j) ==
  \/ \E e \in queue \cup delayed : e.job = j
  \/ \E c \in Consumers : InHand(c, j)
  \/ \E p \in Processes : Removed(p, j)

Accepted(j) == enq[j] \in {"parked", "done"}

\* While nothing fails, an accepted job cannot fall between two of the moves pop,
\* reschedule, remove and push, however many promoters and consumers interleave
\* them: it is alive until it completed or is buried.
NoJobLost ==
  \A j \in Jobs : faults = 0 /\ Accepted(j) => Alive(j) \/ finished[j] \/ dead[j] > 0

\* A dead letter is a job that went through fail() MAX_ATTEMPTS times: no copy of
\* a job, duplicated or stale, claims more failed attempts than were made.
DeadOnlyAfterMaxAttempts ==
  \A j \in Jobs : dead[j] > 0 => fails[j] >= MaxAttempts

\* The result of zrem is not looked at, so each promoter that has read a delayed entry
\* pushes it: an entry runs, and its retry runs once per promoter, and so does the first
\* entry of a job enqueued with a delay.  With one process this is MAX_ATTEMPTS runs of a
\* job.  MostRuns[k] is how often an entry with k attempts left may run, retries included.
MostRuns[k \in 0 .. MaxAttempts] ==
  IF k = 0 THEN 0 ELSE 1 + Cardinality(Processes) * MostRuns[k - 1]

RunBound(j) ==
  (IF j \in DelayedJobs THEN Cardinality(Processes) ELSE 1) * MostRuns[MaxAttempts]

RunsBounded == \A j \in Jobs : runs[j] <= RunBound(j)

\* Without faults and with one process, the status hash tells where the job is:
\* RUNNING names a job some consumer works on, COMPLETED one whose complete()
\* returned, FAILED one that is buried and RETRYING one that will run again.  Not so
\* for a job enqueued with a delay: should the delay pass before enqueue goes on, its
\* RETRYING (queue.py:101) overwrites what the consumer has written.
StatusIsHonest ==
  \A j \in Jobs \ DelayedJobs :
    faults = 0 =>
      /\ status[j] = "running" =>
           \E c \in Consumers : cpc[c] # "idle" /\ held[c].job = j
      /\ status[j] = "completed" => finished[j] /\ ~ Alive(j)
      /\ status[j] = "failed" => dead[j] > 0 /\ ~ Alive(j)
      /\ status[j] = "retrying" => Alive(j)

\* COMPLETED and FAILED are final even when the process crashes and restarts: a
\* status once reported is never taken back (of a job enqueued without a delay).
TerminalIsFinal ==
  [][\A j \in Jobs \ DelayedJobs : status[j] \in {"completed", "failed"} => status'[j] = status[j]]_status

\* Every accepted job is completed or buried in the end, unless a fault comes first.
EveryJobSettles == \A j \in Jobs : Accepted(j) ~> (finished[j] \/ dead[j] > 0 \/ faults > 0)

\* Even with crashes and failing commands no entry stays in Redis for good: every
\* queue, the delayed set included, is drained.
QueuesDrain == <>[](queue = {} /\ delayed = {})
=============================================================================
