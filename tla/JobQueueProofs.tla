--------------------------- MODULE JobQueueProofs ---------------------------
(***************************************************************************)
(* Theorems about JobQueue for every number of jobs, processes and groups, *)
(* every MAX_ATTEMPTS and every pattern of faults.                         *)
(***************************************************************************)
EXTENDS JobQueue, FiniteSetTheorems, NaturalsInduction, WellFoundedInduction, TLAPS

\* The retried entry is the held one with one attempt more.
LEMMA RetryIsEntry ==
  ASSUME ConstantsAssumption, TypeOK,
         NEW c \in Consumers, NEW text \in Errors,
         cpc[c] # "idle", ~ LastAttempt(c)
  PROVE  /\ Retry(c, text) \in Entry
         /\ Retry(c, text).job = held[c].job
         /\ Retry(c, text).attempts = held[c].attempts + 1
<1>1. held[c] \in Entry
  BY DEF TypeOK
<1>2. held[c].attempts \in 0 .. MaxAttempts - 1 /\ held[c].attempts + 1 < MaxAttempts
  BY <1>1 DEF Entry, LastAttempt, ConstantsAssumption
<1> QED
  BY <1>1, <1>2 DEF Retry, Entry, ConstantsAssumption

LEMMA FreshIsEntry ==
  ASSUME ConstantsAssumption, NEW j \in Jobs
  PROVE  FreshEntry(j) \in Entry /\ FreshEntry(j).job = j /\ FreshEntry(j).attempts = 0
BY DEF FreshEntry, Entry, ConstantsAssumption

LEMMA TypeInit == ConstantsAssumption /\ Init => TypeOK
BY DEF Init, TypeOK, JobStatus, ConstantsAssumption

\* Every step of an enqueue keeps the types.
LEMMA TypeProducer ==
  ASSUME ConstantsAssumption, TypeOK, NEW j \in Jobs,
         EnqueueStatus(j) \/ EnqueueAdd(j) \/ EnqueueParked(j) \/ EnqueueAborts(j) \/ Cancel(j)
  PROVE  TypeOK'
<1>1. CASE EnqueueStatus(j)
  BY <1>1 DEF TypeOK, EnqueueStatus, SetStatus, JobStatus, consumerVars, promoterVars, history
<1>2. CASE EnqueueAdd(j)
  <2>1. FreshEntry(j) \in Entry
    BY FreshIsEntry
  <2> QED
    BY <1>2, <2>1 DEF TypeOK, EnqueueAdd, consumerVars, promoterVars, history
<1>3. CASE EnqueueParked(j)
  BY <1>3 DEF TypeOK, EnqueueParked, SetStatus, JobStatus, consumerVars, promoterVars, history
<1>4. CASE EnqueueAborts(j)
  BY <1>4 DEF TypeOK, EnqueueAborts, Fault, consumerVars, promoterVars, history
<1>5. CASE Cancel(j)
  BY <1>5 DEF TypeOK, Cancel, SetStatus, JobStatus, consumerVars, promoterVars, history
<1> QED
  BY <1>1, <1>2, <1>3, <1>4, <1>5

LEMMA TypeConsumer ==
  ASSUME ConstantsAssumption, TypeOK, NEW c \in Consumers, Worker(c)
  PROVE  TypeOK'
<1> USE DEF promoterVars, history, SetStatus, JobStatus, LetGo
<1>1. ASSUME NEW t \in Types, FindEmpty(c, t)
      PROVE  TypeOK'
  BY <1>1 DEF TypeOK, FindEmpty
<1>2. ASSUME NEW e \in queue, Pop(c, e)
      PROVE  TypeOK'
  BY <1>2 DEF TypeOK, Pop
<1>3. CASE Start(c)
  BY <1>3 DEF TypeOK, Start, Entry
<1>4. CASE HandlerReturns(c)
  BY <1>4 DEF TypeOK, HandlerReturns
<1>5. CASE HandlerRaises(c)
  BY <1>5 DEF TypeOK, HandlerRaises, Entry
<1>6. CASE Complete(c)
  BY <1>6 DEF TypeOK, Complete, Entry
<1>7. ASSUME NEW text \in Errors, Reschedule(c, text)
      PROVE  TypeOK'
  <2>1. Retry(c, text) \in Entry
    BY <1>7, RetryIsEntry DEF Reschedule
  <2> QED
    BY <1>7, <2>1 DEF TypeOK, Reschedule
<1>8. CASE Bury(c)
  BY <1>8 DEF TypeOK, Bury, Entry
<1>9. CASE RecordFailure(c)
  BY <1>9 DEF TypeOK, RecordFailure, OutcomeStatus, Entry
<1> QED
  BY <1>1, <1>2, <1>3, <1>4, <1>5, <1>6, <1>7, <1>8, <1>9 DEF Worker

LEMMA TypeConsumerFault ==
  ASSUME ConstantsAssumption, TypeOK, NEW c \in Consumers,
         \/ \E e \in queue : PopRaises(c, e)
         \/ StartRaises(c)
         \/ CompleteRaises(c)
         \/ FailRaises(c)
  PROVE  TypeOK'
<1> USE DEF promoterVars, history, SetStatus, MaybeSetStatus, JobStatus, LetGo, Fault
<1>1. ASSUME NEW e \in queue, PopRaises(c, e)
      PROVE  TypeOK'
  BY <1>1 DEF TypeOK, PopRaises
<1>2. CASE StartRaises(c)
  <2>1. status' \in [Jobs -> JobStatus]
    BY <1>2 DEF TypeOK, StartRaises, Entry
  <2> QED
    BY <1>2, <2>1 DEF TypeOK, StartRaises
<1>3. CASE CompleteRaises(c)
  BY <1>3 DEF TypeOK, CompleteRaises, Entry
<1>4. CASE FailRaises(c)
  <2>1. status' \in [Jobs -> JobStatus]
    BY <1>4 DEF TypeOK, FailRaises, OutcomeStatus, Entry
  <2>2. dead' \in [Jobs -> Nat]
    BY <1>4 DEF TypeOK, FailRaises, Entry
  <2>3. delayed' \subseteq Entry
    <3>1. ASSUME NEW text \in Errors, cpc[c] = "raised", ~ LastAttempt(c)
          PROVE  Retry(c, text) \in Entry
      BY <3>1, RetryIsEntry
    <3> QED
      BY <1>4, <3>1 DEF TypeOK, FailRaises
  <2> QED
    BY <1>4, <2>1, <2>2, <2>3 DEF TypeOK, FailRaises
<1> QED
  BY <1>1, <1>2, <1>3, <1>4

LEMMA TypePromoter ==
  ASSUME ConstantsAssumption, TypeOK, NEW p \in Processes, Promoter(p) \/ PromoterRaises(p)
  PROVE  TypeOK'
<1> USE DEF consumerVars, history, Fault
<1>1. ASSUME NEW e \in delayed, PromoterReads(p, e)
      PROVE  TypeOK'
  BY <1>1 DEF TypeOK, PromoterReads
<1>2. CASE PromoterRemoves(p)
  BY <1>2 DEF TypeOK, PromoterRemoves
<1>3. CASE PromoterPushes(p)
  BY <1>3 DEF TypeOK, PromoterPushes
<1>4. CASE PromoterRaises(p)
  BY <1>4 DEF TypeOK, PromoterRaises
<1> QED
  BY <1>1, <1>2, <1>3, <1>4 DEF Promoter

LEMMA TypeEnvironment ==
  ASSUME ConstantsAssumption, TypeOK,
         (\E p \in Processes : Crash(p)) \/ Evict
  PROVE  TypeOK'
<1> USE DEF consumerVars, promoterVars, history, Fault, SetStatus, JobStatus
<1>1. ASSUME NEW p \in Processes, Crash(p)
      PROVE  TypeOK'
  BY <1>1 DEF TypeOK, Crash
<1>2. CASE Evict
  BY <1>2 DEF TypeOK, Evict, Queued
<1> QED
  BY <1>1, <1>2

LEMMA TypeStep == ConstantsAssumption /\ TypeOK /\ [Next]_vars => TypeOK'
<1> SUFFICES ASSUME ConstantsAssumption, TypeOK, [Next]_vars
             PROVE  TypeOK'
  OBVIOUS
<1>1. CASE Producer
  BY <1>1, TypeProducer DEF Producer
<1>2. CASE \E c \in Consumers : Worker(c)
  BY <1>2, TypeConsumer
<1>3. CASE \E p \in Processes : Promoter(p)
  BY <1>3, TypePromoter
<1>4. CASE Disturbance
  BY <1>4, TypeProducer, TypeConsumerFault, TypePromoter, TypeEnvironment DEF Disturbance
<1>5. CASE UNCHANGED vars
  BY <1>5 DEF TypeOK, vars, consumerVars, promoterVars, history
<1> QED
  BY <1>1, <1>2, <1>3, <1>4, <1>5 DEF Next

\* The state of the queue, of the consumers and of the promoters is well typed,
\* in particular no entry in Redis ever carries MAX_ATTEMPTS attempts.
THEOREM TypeCorrect == Spec => []TypeOK
<1>1. Init => TypeOK
  BY TypeInit, ConstantsAssumption
<1>2. TypeOK /\ [Next]_vars => TypeOK'
  BY TypeStep, ConstantsAssumption
<1> QED
  BY <1>1, <1>2, PTL DEF Spec

-----------------------------------------------------------------------------
(* No copy of a job claims more failed attempts than were made.  A copy is *)
(* an entry in Redis, the entry a consumer works on, and the entry a       *)
(* promoter has read, which may be stale: two promoters can hold the same  *)
(* one while a third agent has already run the job again.  Since the count *)
(* of failures only grows, staleness is harmless for the bound.            *)

Backed(e) == e.attempts <= fails[e.job]

QueuedBacked == \A e \in queue \cup delayed : Backed(e)

WorkedBacked ==
  \A c \in Consumers :
    /\ cpc[c] \in {"popped", "running", "succeeded"} => Backed(held[c])
    /\ cpc[c] = "raised" => held[c].attempts + 1 <= fails[held[c].job]

LiftedBacked == \A p \in Processes : ppc[p] # "idle" => Backed(lifted[p])

AttemptsInv ==
  TypeOK /\ QueuedBacked /\ WorkedBacked /\ LiftedBacked /\ DeadOnlyAfterMaxAttempts

LEMMA AttemptsInit == ConstantsAssumption /\ Init => AttemptsInv
BY TypeInit DEF Init, AttemptsInv, QueuedBacked, WorkedBacked, LiftedBacked,
     DeadOnlyAfterMaxAttempts, ConstantsAssumption

\* A step of an enqueue, of cancel() or of the environment adds no claim.
LEMMA AttemptsProducer ==
  ASSUME ConstantsAssumption, AttemptsInv, NEW j \in Jobs,
         EnqueueStatus(j) \/ EnqueueAdd(j) \/ EnqueueParked(j) \/ EnqueueAborts(j) \/ Cancel(j)
  PROVE  QueuedBacked' /\ WorkedBacked' /\ LiftedBacked' /\ DeadOnlyAfterMaxAttempts'
<1> USE DEF consumerVars, promoterVars, history, Backed
<1>1. UNCHANGED <<cpc, held, ppc, lifted, fails, dead>>
  BY DEF EnqueueStatus, EnqueueAdd, EnqueueParked, EnqueueAborts, Cancel
<1>2. QueuedBacked'
  <2>1. CASE EnqueueAdd(j)
    <3>1. FreshEntry(j).job = j /\ FreshEntry(j).attempts = 0
      BY FreshIsEntry
    <3>2. fails[j] \in Nat
      BY DEF AttemptsInv, TypeOK
    <3> QED
      BY <1>1, <2>1, <3>1, <3>2 DEF EnqueueAdd, AttemptsInv, QueuedBacked
  <2>2. CASE ~ EnqueueAdd(j)
    BY <1>1, <2>2 DEF EnqueueStatus, EnqueueParked, EnqueueAborts, Cancel, AttemptsInv,
         QueuedBacked
  <2> QED
    BY <2>1, <2>2
<1> QED
  BY <1>1, <1>2 DEF AttemptsInv, WorkedBacked, LiftedBacked, DeadOnlyAfterMaxAttempts

\* A worker's claim rises by one only in the step that counted a failure.
LEMMA AttemptsConsumer ==
  ASSUME ConstantsAssumption, AttemptsInv, NEW c \in Consumers, Worker(c)
  PROVE  QueuedBacked' /\ WorkedBacked' /\ LiftedBacked' /\ DeadOnlyAfterMaxAttempts'
<1> USE DEF promoterVars, history, Backed, LetGo, QueuedBacked, WorkedBacked, LiftedBacked,
            DeadOnlyAfterMaxAttempts, AttemptsInv
<1>1. ASSUME NEW t \in Types, FindEmpty(c, t)
      PROVE  QueuedBacked' /\ WorkedBacked' /\ LiftedBacked' /\ DeadOnlyAfterMaxAttempts'
  BY <1>1 DEF TypeOK, FindEmpty
<1>2. ASSUME NEW e \in queue, Pop(c, e)
      PROVE  QueuedBacked' /\ WorkedBacked' /\ LiftedBacked' /\ DeadOnlyAfterMaxAttempts'
  BY <1>2 DEF TypeOK, Pop
<1>3. CASE Start(c)
  BY <1>3 DEF TypeOK, Start
<1>4. CASE HandlerReturns(c)
  BY <1>4 DEF TypeOK, HandlerReturns
<1>5. CASE HandlerRaises(c)
  <2>1. \A j \in Jobs : fails[j] \in Nat /\ fails'[j] \in Nat /\ fails[j] <= fails'[j]
    BY <1>5 DEF TypeOK, HandlerRaises
  <2>2. held[c] \in Entry /\ fails'[held[c].job] = fails[held[c].job] + 1
    BY <1>5 DEF TypeOK, HandlerRaises, Entry
  <2>3. UNCHANGED <<queue, delayed, dead, held, ppc, lifted>>
    BY <1>5 DEF HandlerRaises
  <2>4. QueuedBacked' /\ LiftedBacked' /\ DeadOnlyAfterMaxAttempts'
    <3>1. ASSUME NEW e \in Entry, Backed(e)
          PROVE  e.attempts <= fails'[e.job]
      BY <2>1, <3>1 DEF Entry, ConstantsAssumption
    <3>2. QueuedBacked' /\ LiftedBacked'
      BY <2>3, <3>1 DEF TypeOK
    <3>3. DeadOnlyAfterMaxAttempts'
      BY <2>1, <2>3 DEF ConstantsAssumption
    <3> QED
      BY <3>2, <3>3
  <2>5. WorkedBacked'
    <3>1. cpc' = [cpc EXCEPT ![c] = "raised"] /\ held[c].attempts <= fails[held[c].job]
      BY <1>5 DEF HandlerRaises
    <3>2. ASSUME NEW d \in Consumers, cpc[d] # "idle"
          PROVE  /\ held[d].job \in Jobs /\ held[d].attempts \in Nat
                 /\ fails[held[d].job] \in Nat /\ fails'[held[d].job] \in Nat
                 /\ fails[held[d].job] <= fails'[held[d].job]
      BY <1>5, <2>1, <3>2 DEF HandlerRaises, TypeOK, Entry, ConstantsAssumption
    <3>3. ASSUME NEW d \in Consumers, d # c
          PROVE  /\ cpc'[d] \in {"popped", "running", "succeeded"} => Backed(held[d])'
                 /\ cpc'[d] = "raised" => held'[d].attempts + 1 <= fails'[held'[d].job]
      <4>1. cpc'[d] = cpc[d] /\ held'[d] = held[d]
        BY <2>3, <3>1, <3>3 DEF TypeOK
      <4> QED
        BY <3>2, <4>1
    <3>4. cpc'[c] = "raised" /\ held'[c].attempts + 1 <= fails'[held'[c].job]
      BY <1>5, <2>2, <2>3, <3>1, <3>2 DEF HandlerRaises, TypeOK
    <3> QED
      BY <2>3, <3>3, <3>4
  <2> QED
    BY <2>4, <2>5
<1>6. CASE Complete(c)
  BY <1>6 DEF TypeOK, Complete
<1>7. ASSUME NEW text \in Errors, Reschedule(c, text)
      PROVE  QueuedBacked' /\ WorkedBacked' /\ LiftedBacked' /\ DeadOnlyAfterMaxAttempts'
  <2>1. Retry(c, text).job = held[c].job /\ Retry(c, text).attempts = held[c].attempts + 1
    BY DEF Retry
  <2> QED
    BY <1>7, <2>1 DEF TypeOK, Reschedule
<1>8. CASE Bury(c)
  BY <1>8 DEF TypeOK, Bury, LastAttempt, Entry, ConstantsAssumption
<1>9. CASE RecordFailure(c)
  BY <1>9 DEF TypeOK, RecordFailure
<1> QED
  BY <1>1, <1>2, <1>3, <1>4, <1>5, <1>6, <1>7, <1>8, <1>9 DEF Worker

LEMMA AttemptsConsumerFault ==
  ASSUME ConstantsAssumption, AttemptsInv, NEW c \in Consumers,
         \/ \E e \in queue : PopRaises(c, e)
         \/ StartRaises(c)
         \/ CompleteRaises(c)
         \/ FailRaises(c)
  PROVE  QueuedBacked' /\ WorkedBacked' /\ LiftedBacked' /\ DeadOnlyAfterMaxAttempts'
<1> USE DEF promoterVars, history, Backed, LetGo, QueuedBacked, WorkedBacked, LiftedBacked,
            DeadOnlyAfterMaxAttempts, AttemptsInv
<1>1. ASSUME NEW e \in queue, PopRaises(c, e)
      PROVE  QueuedBacked' /\ WorkedBacked' /\ LiftedBacked' /\ DeadOnlyAfterMaxAttempts'
  BY <1>1 DEF TypeOK, PopRaises
<1>2. CASE StartRaises(c)
  BY <1>2 DEF TypeOK, StartRaises
<1>3. CASE CompleteRaises(c)
  <2>1. \A j \in Jobs : fails[j] \in Nat /\ fails'[j] \in Nat /\ fails[j] <= fails'[j]
    BY <1>3 DEF TypeOK, CompleteRaises
  <2>2. held[c] \in Entry /\ fails'[held[c].job] = fails[held[c].job] + 1
    BY <1>3 DEF TypeOK, CompleteRaises, Entry
  <2>3. UNCHANGED <<queue, delayed, dead, held, ppc, lifted>>
    BY <1>3 DEF CompleteRaises
  <2>4. QueuedBacked' /\ LiftedBacked' /\ DeadOnlyAfterMaxAttempts'
    <3>1. ASSUME NEW e \in Entry, Backed(e)
          PROVE  e.attempts <= fails'[e.job]
      BY <2>1, <3>1 DEF Entry, ConstantsAssumption
    <3>2. QueuedBacked' /\ LiftedBacked'
      BY <2>3, <3>1 DEF TypeOK
    <3>3. DeadOnlyAfterMaxAttempts'
      BY <2>1, <2>3 DEF ConstantsAssumption
    <3> QED
      BY <3>2, <3>3
  <2>5. WorkedBacked'
    <3>1. cpc' = [cpc EXCEPT ![c] = "raised"] /\ held[c].attempts <= fails[held[c].job]
      BY <1>3 DEF CompleteRaises
    <3>2. ASSUME NEW d \in Consumers, cpc[d] # "idle"
          PROVE  /\ held[d].job \in Jobs /\ held[d].attempts \in Nat
                 /\ fails[held[d].job] \in Nat /\ fails'[held[d].job] \in Nat
                 /\ fails[held[d].job] <= fails'[held[d].job]
      BY <1>3, <2>1, <3>2 DEF CompleteRaises, TypeOK, Entry, ConstantsAssumption
    <3>3. ASSUME NEW d \in Consumers, d # c
          PROVE  /\ cpc'[d] \in {"popped", "running", "succeeded"} => Backed(held[d])'
                 /\ cpc'[d] = "raised" => held'[d].attempts + 1 <= fails'[held'[d].job]
      <4>1. cpc'[d] = cpc[d] /\ held'[d] = held[d]
        BY <2>3, <3>1, <3>3 DEF TypeOK
      <4> QED
        BY <3>2, <4>1
    <3>4. cpc'[c] = "raised" /\ held'[c].attempts + 1 <= fails'[held'[c].job]
      BY <1>3, <2>2, <2>3, <3>1, <3>2 DEF CompleteRaises, TypeOK
    <3> QED
      BY <2>3, <3>3, <3>4
  <2> QED
    BY <2>4, <2>5
<1>4. CASE FailRaises(c)
  <2>1. UNCHANGED <<queue, fails, ppc, lifted>>
    BY <1>4 DEF FailRaises
  <2>2. QueuedBacked'
    <3>1. \A text : /\ Retry(c, text).job = held[c].job
                    /\ Retry(c, text).attempts = held[c].attempts + 1
      BY DEF Retry
    <3> QED
      BY <1>4, <2>1, <3>1 DEF TypeOK, FailRaises
  <2>3. DeadOnlyAfterMaxAttempts'
    BY <1>4, <2>1 DEF TypeOK, FailRaises, LastAttempt, Entry, ConstantsAssumption
  <2>4. WorkedBacked' /\ LiftedBacked'
    BY <1>4, <2>1 DEF TypeOK, FailRaises
  <2> QED
    BY <2>2, <2>3, <2>4
<1> QED
  BY <1>1, <1>2, <1>3, <1>4

\* A promoter only moves a claim, however old it is.
LEMMA AttemptsPromoter ==
  ASSUME ConstantsAssumption, AttemptsInv, NEW p \in Processes,
         Promoter(p) \/ PromoterRaises(p)
  PROVE  QueuedBacked' /\ WorkedBacked' /\ LiftedBacked' /\ DeadOnlyAfterMaxAttempts'
<1> USE DEF consumerVars, history, Backed, QueuedBacked, WorkedBacked, LiftedBacked,
            DeadOnlyAfterMaxAttempts, AttemptsInv
<1>1. ASSUME NEW e \in delayed, PromoterReads(p, e)
      PROVE  QueuedBacked' /\ WorkedBacked' /\ LiftedBacked' /\ DeadOnlyAfterMaxAttempts'
  BY <1>1 DEF TypeOK, PromoterReads
<1>2. CASE PromoterRemoves(p)
  BY <1>2 DEF TypeOK, PromoterRemoves
<1>3. CASE PromoterPushes(p)
  BY <1>3 DEF TypeOK, PromoterPushes
<1>4. CASE PromoterRaises(p)
  BY <1>4 DEF TypeOK, PromoterRaises
<1> QED
  BY <1>1, <1>2, <1>3, <1>4 DEF Promoter

LEMMA AttemptsEnvironment ==
  ASSUME ConstantsAssumption, AttemptsInv, (\E p \in Processes : Crash(p)) \/ Evict
  PROVE  QueuedBacked' /\ WorkedBacked' /\ LiftedBacked' /\ DeadOnlyAfterMaxAttempts'
<1> USE DEF consumerVars, promoterVars, history, Backed, QueuedBacked, WorkedBacked,
            LiftedBacked, DeadOnlyAfterMaxAttempts, AttemptsInv
<1>1. ASSUME NEW p \in Processes, Crash(p)
      PROVE  QueuedBacked' /\ WorkedBacked' /\ LiftedBacked' /\ DeadOnlyAfterMaxAttempts'
  BY <1>1 DEF TypeOK, Crash
<1>2. CASE Evict
  BY <1>2 DEF TypeOK, Evict, Queued, SetStatus
<1> QED
  BY <1>1, <1>2

LEMMA AttemptsStep == ConstantsAssumption /\ AttemptsInv /\ [Next]_vars => AttemptsInv'
<1> SUFFICES ASSUME ConstantsAssumption, AttemptsInv, [Next]_vars
             PROVE  AttemptsInv'
  OBVIOUS
<1>1. TypeOK'
  BY TypeStep DEF AttemptsInv
<1>2. CASE Producer
  BY <1>1, <1>2, AttemptsProducer DEF Producer, AttemptsInv
<1>3. CASE \E c \in Consumers : Worker(c)
  BY <1>1, <1>3, AttemptsConsumer DEF AttemptsInv
<1>4. CASE \E p \in Processes : Promoter(p)
  BY <1>1, <1>4, AttemptsPromoter DEF AttemptsInv
<1>5. CASE Disturbance
  BY <1>1, <1>5, AttemptsProducer, AttemptsConsumerFault, AttemptsPromoter,
     AttemptsEnvironment DEF Disturbance, AttemptsInv
<1>6. CASE UNCHANGED vars
  BY <1>1, <1>6 DEF vars, consumerVars, promoterVars, history, AttemptsInv, QueuedBacked,
     WorkedBacked, LiftedBacked, DeadOnlyAfterMaxAttempts, Backed
<1> QED
  BY <1>2, <1>3, <1>4, <1>5, <1>6 DEF Next

\* A dead-lettered job failed at least MAX_ATTEMPTS times: duplicated deliveries by
\* several promoters, lost commands and crashes never bury a job early.
THEOREM DeadLettersAreExhausted == Spec => []DeadOnlyAfterMaxAttempts
<1>1. Init => AttemptsInv
  BY AttemptsInit, ConstantsAssumption
<1>2. AttemptsInv /\ [Next]_vars => AttemptsInv'
  BY AttemptsStep, ConstantsAssumption
<1>3. AttemptsInv => DeadOnlyAfterMaxAttempts
  BY DEF AttemptsInv
<1> QED
  BY <1>1, <1>2, <1>3, PTL DEF Spec

-----------------------------------------------------------------------------
(* No job is lost while nothing fails.  Settled is what NoJobLost promises *)
(* of one job; a step that moves the job's copy puts it into the next      *)
(* place before, or in the same step as, it takes it from the last.        *)

Settled(j) == Alive(j) \/ finished[j] \/ dead[j] > 0

Kept(j) == Accepted(j) => Settled(j)

\* A step of an enqueue puts the copy into Redis in the step that accepts the job.
LEMMA KeptProducer ==
  ASSUME ConstantsAssumption, TypeOK, NEW j \in Jobs, Kept(j), NEW i \in Jobs,
         EnqueueStatus(i) \/ EnqueueAdd(i) \/ EnqueueParked(i) \/ Cancel(i)
  PROVE  Kept(j)'
<1> USE DEF consumerVars, promoterVars, history
<1>1. UNCHANGED <<cpc, held, ppc, lifted, finished, dead>>
  BY DEF EnqueueStatus, EnqueueAdd, EnqueueParked, Cancel
<1>2. queue \subseteq queue' /\ delayed \subseteq delayed'
  BY DEF EnqueueStatus, EnqueueAdd, EnqueueParked, Cancel
<1>3. Settled(j) => Settled(j)'
  BY <1>1, <1>2 DEF Settled, Alive, InHand, Removed
<1>4. CASE EnqueueAdd(i) /\ i = j
  <2>1. FreshEntry(j).job = j
    BY DEF FreshEntry
  <2> QED
    BY <1>4, <2>1 DEF EnqueueAdd, Kept, Settled, Alive
<1>5. CASE ~ (EnqueueAdd(i) /\ i = j)
  <2>1. Accepted(j)' => Accepted(j)
    BY <1>5 DEF TypeOK, EnqueueStatus, EnqueueAdd, EnqueueParked, Cancel, Accepted
  <2> QED
    BY <1>3, <2>1 DEF Kept
<1> QED
  BY <1>4, <1>5

\* A consumer that lets a job go has put it elsewhere, finished or buried it.
LEMMA KeptConsumer ==
  ASSUME ConstantsAssumption, TypeOK, NEW j \in Jobs, Kept(j), NEW c \in Consumers, Worker(c)
  PROVE  Kept(j)'
<1> USE DEF promoterVars, history, LetGo, Kept, Settled, Alive, InHand, Removed, Accepted
<1>1. ASSUME NEW t \in Types, FindEmpty(c, t)
      PROVE  Kept(j)'
  BY <1>1 DEF TypeOK, FindEmpty
<1>2. ASSUME NEW e \in queue, Pop(c, e)
      PROVE  Kept(j)'
  BY <1>2 DEF TypeOK, Pop
<1>3. CASE Start(c)
  BY <1>3 DEF TypeOK, Start
<1>4. CASE HandlerReturns(c)
  BY <1>4 DEF TypeOK, HandlerReturns
<1>5. CASE HandlerRaises(c)
  BY <1>5 DEF TypeOK, HandlerRaises
<1>6. CASE Complete(c)
  BY <1>6 DEF TypeOK, Complete
<1>7. ASSUME NEW text \in Errors, Reschedule(c, text)
      PROVE  Kept(j)'
  <2>1. Retry(c, text).job = held[c].job
    BY DEF Retry
  <2> QED
    BY <1>7, <2>1 DEF TypeOK, Reschedule
<1>8. CASE Bury(c)
  BY <1>8 DEF TypeOK, Bury
<1>9. CASE RecordFailure(c)
  BY <1>9 DEF TypeOK, RecordFailure
<1> QED
  BY <1>1, <1>2, <1>3, <1>4, <1>5, <1>6, <1>7, <1>8, <1>9 DEF Worker

\* Between zrem and zadd the promoter's memory holds the copy.
LEMMA KeptPromoter ==
  ASSUME ConstantsAssumption, TypeOK, NEW j \in Jobs, Kept(j), NEW p \in Processes, Promoter(p)
  PROVE  Kept(j)'
<1> USE DEF consumerVars, history, Kept, Settled, Alive, InHand, Removed, Accepted
<1>1. ASSUME NEW e \in delayed, PromoterReads(p, e)
      PROVE  Kept(j)'
  BY <1>1 DEF TypeOK, PromoterReads
<1>2. CASE PromoterRemoves(p)
  BY <1>2 DEF TypeOK, PromoterRemoves
<1>3. CASE PromoterPushes(p)
  BY <1>3 DEF TypeOK, PromoterPushes
<1> QED
  BY <1>1, <1>2, <1>3 DEF Promoter

\* Every fault is counted, so a step that leaves the count at zero is no fault.
LEMMA NoFaultStep ==
  ASSUME TypeOK, Disturbance, faults' = 0
  PROVE  \E j \in Jobs : Cancel(j)
BY DEF TypeOK, Disturbance, EnqueueAborts, PopRaises, StartRaises, CompleteRaises, FailRaises,
     PromoterRaises, Crash, Evict, Fault

LEMMA NoJobLostStep ==
  ConstantsAssumption /\ TypeOK /\ NoJobLost /\ [Next]_vars => NoJobLost'
<1> SUFFICES ASSUME ConstantsAssumption, TypeOK, NoJobLost, [Next]_vars, faults' = 0,
                    NEW j \in Jobs
             PROVE  Kept(j)'
  BY DEF NoJobLost, Kept, Settled
<1>1. faults = 0
  BY DEF TypeOK, Next, vars, Producer, Worker, Promoter, Disturbance, EnqueueStatus, EnqueueAdd,
       EnqueueParked, EnqueueAborts, Cancel, FindEmpty, Pop, PopRaises, Start, StartRaises,
       HandlerReturns, HandlerRaises, Complete, CompleteRaises, Reschedule, Bury, RecordFailure,
       FailRaises, PromoterReads, PromoterRemoves, PromoterPushes, PromoterRaises, Crash, Evict,
       Fault
<1>2. Kept(j)
  BY <1>1 DEF NoJobLost, Kept, Settled
<1>3. CASE Producer
  BY <1>2, <1>3, KeptProducer DEF Producer
<1>4. CASE \E c \in Consumers : Worker(c)
  BY <1>2, <1>4, KeptConsumer
<1>5. CASE \E p \in Processes : Promoter(p)
  BY <1>2, <1>5, KeptPromoter
<1>6. CASE Disturbance
  BY <1>2, <1>6, NoFaultStep, KeptProducer
<1>7. CASE UNCHANGED vars
  BY <1>2, <1>7 DEF vars, consumerVars, promoterVars, history, Kept, Settled, Alive, InHand,
       Removed, Accepted
<1> QED
  BY <1>3, <1>4, <1>5, <1>6, <1>7 DEF Next

\* While nothing fails an accepted job is in Redis or in an agent's memory until it
\* completed or is buried, for any number of consumers and promoters.
THEOREM NoJobIsLost == Spec => []NoJobLost
<1>1. Init => NoJobLost
  BY DEF Init, NoJobLost, Accepted
<1>2. TypeOK /\ NoJobLost /\ [Next]_vars => NoJobLost'
  BY NoJobLostStep, ConstantsAssumption
<1> QED
  BY <1>1, <1>2, TypeCorrect, PTL DEF Spec

-----------------------------------------------------------------------------
\* Induction over the natural numbers, for a set of them: the least one missing has no
\* predecessor.
LEMMA SetInduction ==
  ASSUME NEW S, 0 \in S, \A n \in Nat : n \in S => n + 1 \in S
  PROVE  \A n \in Nat : n \in S
<1> DEFINE T == Nat \ S
<1> SUFFICES ASSUME T # {}
             PROVE  FALSE
  OBVIOUS
<1>1. T \subseteq Nat
  OBVIOUS
<1> HIDE DEF T
<1>3. PICK n \in T : \A m \in T : ~ (<<m, n>> \in OpToRel(<, Nat))
  BY <1>1, NatLessThanWellFounded, WFMin
<1>4. \A m \in T : ~ (m < n)
  BY <1>1, <1>3 DEF OpToRel
<1> USE DEF T
<1>5. n \in Nat /\ n # 0
  OBVIOUS
<1>6. n - 1 \in Nat /\ n - 1 < n /\ (n - 1) + 1 = n
  BY <1>5
<1>7. n - 1 \in S
  BY <1>4, <1>6
<1> QED
  BY <1>6, <1>7

\* MostRuns is defined by recursion; the function exists for every MAX_ATTEMPTS.
IsMostRuns(f, n) ==
  f = [k \in 0 .. n |-> IF k = 0 THEN 0 ELSE 1 + Cardinality(Processes) * f[k - 1]]

LEMMA MostRunsExists == \A n \in Nat : \E f : IsMostRuns(f, n)
<1> DEFINE S == {n \in Nat : \E f : IsMostRuns(f, n)}
           P == Cardinality(Processes)
<1> USE DEF IsMostRuns
<1>1. 0 \in S
  <2>1. PICK f : f = [k \in 0 .. 0 |-> 0]
    OBVIOUS
  <2>2. f = [k \in 0 .. 0 |-> IF k = 0 THEN 0 ELSE 1 + P * f[k - 1]]
    BY <2>1
  <2> QED
    BY <2>2
<1>2. ASSUME NEW n \in Nat, n \in S
      PROVE  n + 1 \in S
  <2>1. PICK f : f = [k \in 0 .. n |-> IF k = 0 THEN 0 ELSE 1 + P * f[k - 1]]
    BY <1>2
  <2>2. PICK h : h = [k \in 0 .. (n + 1) |-> IF k <= n THEN f[k] ELSE 1 + P * f[k - 1]]
    OBVIOUS
  <2>3. \A k \in 0 .. (n + 1) : h[k] = IF k = 0 THEN 0 ELSE 1 + P * h[k - 1]
    <3> SUFFICES ASSUME NEW k \in 0 .. (n + 1)
                 PROVE  h[k] = IF k = 0 THEN 0 ELSE 1 + P * h[k - 1]
      OBVIOUS
    <3>1. k # 0 => k - 1 \in 0 .. n /\ h[k - 1] = f[k - 1]
      BY <2>2
    <3>2. k <= n => k \in 0 .. n /\ h[k] = f[k]
      BY <2>2
    <3>3. ~ (k <= n) => h[k] = 1 + P * f[k - 1]
      BY <2>2
    <3>4. k \in 0 .. n => f[k] = IF k = 0 THEN 0 ELSE 1 + P * f[k - 1]
      BY <2>1
    <3> QED
      BY <3>1, <3>2, <3>3, <3>4
  <2>4. h = [k \in 0 .. (n + 1) |-> IF k = 0 THEN 0 ELSE 1 + P * h[k - 1]]
    BY <2>2, <2>3
  <2> QED
    BY <2>4
<1> HIDE DEF S
<1>3. \A n \in Nat : n \in S
  BY <1>1, <1>2, SetInduction
<1> USE DEF S
<1> QED
  BY <1>3

\* What a run of an entry with k attempts left may cause
LEMMA MostRunsFacts ==
  ASSUME ConstantsAssumption
  PROVE  /\ Cardinality(Processes) \in Nat
         /\ \A k \in 0 .. MaxAttempts : MostRuns[k] \in Nat
         /\ \A k \in 1 .. MaxAttempts : MostRuns[k] = 1 + Cardinality(Processes) * MostRuns[k - 1]
<1> DEFINE P == Cardinality(Processes)
           M == MaxAttempts
<1>1. P \in Nat /\ M \in Nat
  BY FS_CardinalityType DEF ConstantsAssumption
<1>2. MostRuns = [k \in 0 .. M |-> IF k = 0 THEN 0 ELSE 1 + P * MostRuns[k - 1]]
  <2>1. \E f : IsMostRuns(f, M)
    BY <1>1, MostRunsExists
  <2> QED
    BY <2>1, Zenon DEF IsMostRuns, MostRuns
<1> HIDE DEF P, M
<1>3. \A k \in 0 .. M : MostRuns[k] = IF k = 0 THEN 0 ELSE 1 + P * MostRuns[k - 1]
  BY <1>2
<1> DEFINE S == {k \in Nat : k <= M => MostRuns[k] \in Nat}
<1>4. 0 \in S
  BY <1>1, <1>3
<1>5. ASSUME NEW k \in Nat, k \in S
      PROVE  k + 1 \in S
  <2>1. SUFFICES ASSUME k + 1 <= M
                 PROVE  MostRuns[k + 1] \in Nat
    OBVIOUS
  <2>2. k + 1 \in 0 .. M /\ k + 1 # 0 /\ (k + 1) - 1 = k /\ k <= M
    BY <1>1, <2>1
  <2>3. MostRuns[k] \in Nat /\ MostRuns[k + 1] = 1 + P * MostRuns[k]
    BY <1>3, <1>5, <2>2
  <2>4. P * MostRuns[k] \in Nat
    BY <1>1, <2>3
  <2> QED
    BY <2>3, <2>4
<1> HIDE DEF S
<1>6. \A k \in Nat : k \in S
  BY <1>4, <1>5, SetInduction
<1> USE DEF S
<1>7. \A k \in 0 .. M : MostRuns[k] \in Nat
  BY <1>1, <1>6
<1>8. \A k \in 1 .. M : MostRuns[k] = 1 + P * MostRuns[k - 1]
  BY <1>1, <1>3
<1> QED
  BY <1>1, <1>7, <1>8 DEF P, M

-----------------------------------------------------------------------------
(* RunsBounded.  Every copy of a job carries the runs it may still cause:  *)
(* a right for each, <<<<kind, entry>>, <<agent, number>>>>.  A step only  *)
(* exchanges the rights of one copy for no more rights of others, and a    *)
(* run uses up one.  An entry in the delayed set counts once per promoter, *)
(* whether the promoter has read it or not.                                *)

Kinds == {"new", "queue", "push", "carry", "held"}
Agents == Processes \cup Consumers \cup {Nothing}

Worth(e) == MostRuns[MaxAttempts - e.attempts]

Copy(k, e, a) ==
  \/ k = "new" /\ e = FreshEntry(e.job) /\ enq[e.job] \in {"new", "announced"}
     /\ a \in (IF e.job \in DelayedJobs THEN Processes ELSE {Nothing})
  \/ k = "queue" /\ a = Nothing /\ e \in queue
  \/ k = "push" /\ a \in Processes /\ (e \in delayed \/ (ppc[a] = "read" /\ lifted[a] = e))
  \/ k = "carry" /\ a \in Processes /\ ppc[a] = "removed" /\ lifted[a] = e
  \/ k = "held" /\ a \in Consumers /\ held[a] = e
     /\ cpc[a] \in {"popped", "running", "succeeded", "raised"}

Left(k, e, a) == IF k = "held" /\ cpc[a] # "popped" THEN Worth(e) - 1 ELSE Worth(e)

Rights(j) ==
  {t \in (Kinds \X Entry) \X (Agents \X Nat) :
     /\ t[1][2].job = j
     /\ Copy(t[1][1], t[1][2], t[2][1])
     /\ t[2][2] \in 1 .. Left(t[1][1], t[1][2], t[2][1])}

Budgeted(j) ==
  IsFiniteSet(Rights(j)) /\ runs[j] + Cardinality(Rights(j)) <= RunBound(j)

RunsInv == TypeOK /\ \A j \in Jobs : Budgeted(j)

\* The rights of agents on one entry
Block(k, e, Q, n) == {<<k, e>>} \X (Q \X (1 .. n))

LEMMA BlockSize ==
  ASSUME NEW k, NEW e, NEW Q, IsFiniteSet(Q), NEW n \in Nat
  PROVE  /\ IsFiniteSet(Block(k, e, Q, n))
         /\ Cardinality(Block(k, e, Q, n)) = Cardinality(Q) * n
<1>1. IsFiniteSet(1 .. n) /\ Cardinality(1 .. n) = n
  BY FS_Interval
<1>2. IsFiniteSet(Q \X (1 .. n)) /\ Cardinality(Q \X (1 .. n)) = Cardinality(Q) * n
  BY <1>1, FS_Product
<1>3. IsFiniteSet({<<k, e>>}) /\ Cardinality({<<k, e>>}) = 1
  BY FS_Singleton
<1>4. Cardinality(Q) * n \in Nat
  BY <1>2, FS_CardinalityType
<1> QED
  BY <1>2, <1>3, <1>4, FS_Product DEF Block

\* Elements exchanged for no more others
LEMMA Exchange ==
  ASSUME NEW S, IsFiniteSet(S), NEW A, A \subseteq S, NEW B, IsFiniteSet(B),
         Cardinality(B) <= Cardinality(A), NEW T, T \subseteq (S \ A) \cup B
  PROVE  IsFiniteSet(T) /\ Cardinality(T) <= Cardinality(S)
<1>1. /\ IsFiniteSet(A) /\ IsFiniteSet(S \ A)
      /\ Cardinality(S \ A) = Cardinality(S) - Cardinality(A)
  <2>1. S \cap A = A /\ IsFiniteSet(A)
    BY FS_Subset
  <2> QED
    BY <2>1, FS_Difference
<1>2. /\ IsFiniteSet((S \ A) \cup B)
      /\ Cardinality((S \ A) \cup B) =
           Cardinality(S \ A) + Cardinality(B) - Cardinality((S \ A) \cap B)
  BY <1>1, FS_Union
<1>3. IsFiniteSet((S \ A) \cap B)
  BY <1>1, FS_Subset
<1>4. IsFiniteSet(T) /\ Cardinality(T) <= Cardinality((S \ A) \cup B)
  BY <1>2, FS_Subset
<1>5. {Cardinality(S), Cardinality(A), Cardinality(B), Cardinality((S \ A) \cap B),
       Cardinality(T)} \subseteq Nat
  BY <1>1, <1>3, <1>4, FS_CardinalityType
<1> QED
  BY <1>1, <1>2, <1>4, <1>5

LEMMA WorthFacts ==
  ASSUME ConstantsAssumption, NEW e \in Entry
  PROVE  /\ Worth(e) \in Nat \ {0}
         /\ \A r \in Entry : r.attempts = e.attempts + 1 =>
              Worth(e) = 1 + Cardinality(Processes) * Worth(r)
<1> DEFINE P == Cardinality(Processes)
<1>1. /\ P \in Nat /\ MaxAttempts \in Nat \ {0}
      /\ \A k \in 0 .. MaxAttempts : MostRuns[k] \in Nat
      /\ \A k \in 1 .. MaxAttempts : MostRuns[k] = 1 + P * MostRuns[k - 1]
  BY MostRunsFacts DEF ConstantsAssumption
<1> HIDE DEF P
<1>2. \A x \in Entry : x.attempts \in 0 .. MaxAttempts - 1
  BY DEF Entry
<1>3. MaxAttempts - e.attempts \in 1 .. MaxAttempts
  BY <1>1, <1>2
<1>4. Worth(e) = 1 + P * MostRuns[(MaxAttempts - e.attempts) - 1]
  BY <1>1, <1>3 DEF Worth
<1>5. Worth(e) \in Nat \ {0}
  <2>1. MostRuns[(MaxAttempts - e.attempts) - 1] \in Nat
    BY <1>1, <1>3
  <2>2. P * MostRuns[(MaxAttempts - e.attempts) - 1] \in Nat
    BY <1>1, <2>1
  <2> QED
    BY <1>4, <2>2
<1>6. ASSUME NEW r \in Entry, r.attempts = e.attempts + 1
      PROVE  Worth(e) = 1 + P * Worth(r)
  <2>1. MaxAttempts - r.attempts = (MaxAttempts - e.attempts) - 1
    BY <1>1, <1>2, <1>6
  <2> QED
    BY <1>4, <2>1 DEF Worth
<1> QED
  BY <1>5, <1>6 DEF P

LEMMA LeftType ==
  ASSUME ConstantsAssumption, NEW k, NEW e \in Entry, NEW a
  PROVE  Left(k, e, a) \in Nat /\ Left(k, e, a)' \in Nat
BY WorthFacts DEF Left, Worth

LEMMA InRights ==
  ASSUME NEW j, NEW k \in Kinds, NEW e \in Entry, NEW a \in Agents, NEW i \in Nat,
         e.job = j, Copy(k, e, a), i \in 1 .. Left(k, e, a)
  PROVE  <<<<k, e>>, <<a, i>>>> \in Rights(j)
BY DEF Rights

\* The rights after a step, one by one
LEMMA RightsAfter ==
  ASSUME NEW j, NEW S,
         \A k \in Kinds, e \in Entry, a \in Agents, i \in Nat :
           e.job = j /\ Copy(k, e, a)' /\ i \in 1 .. Left(k, e, a)' =>
             <<<<k, e>>, <<a, i>>>> \in S
  PROVE  Rights(j)' \subseteq S
<1> SUFFICES ASSUME NEW t \in Rights(j)'
             PROVE  t \in S
  OBVIOUS
<1>1. /\ t \in (Kinds \X Entry) \X (Agents \X Nat) /\ t[1][2].job = j
      /\ Copy(t[1][1], t[1][2], t[2][1])' /\ t[2][2] \in 1 .. Left(t[1][1], t[1][2], t[2][1])'
  BY DEF Rights, Agents, Consumers, Entry
<1>2. PICK k \in Kinds, e \in Entry, a \in Agents, i \in Nat : t = <<<<k, e>>, <<a, i>>>>
  BY <1>1
<1> QED
  BY <1>1, <1>2

LEMMA BoundType ==
  ASSUME ConstantsAssumption, NEW j
  PROVE  RunBound(j) \in Nat
<1>1. MostRuns[MaxAttempts] \in Nat /\ Cardinality(Processes) \in Nat
  BY MostRunsFacts DEF ConstantsAssumption
<1>2. Cardinality(Processes) * MostRuns[MaxAttempts] \in Nat
  BY <1>1
<1> QED
  BY <1>1, <1>2 DEF RunBound

\* The agents Q have n runs each on an entry of the job ...
Gives(j, k0, e0, Q, n) ==
  /\ k0 \in Kinds /\ e0 \in Entry /\ e0.job = j
  /\ Q \in SUBSET Agents /\ IsFiniteSet(Q) /\ n \in Nat
  /\ \A a \in Q : Copy(k0, e0, a) /\ n <= Left(k0, e0, a)

\* ... and a step leaves them none of it, but m runs each to the agents R.
Turns(j, k0, e0, Q, k1, e1, R, m) ==
  \A k \in Kinds, e \in Entry, a \in Agents : e.job = j /\ Copy(k, e, a)' =>
    \/ /\ Copy(k, e, a) /\ Left(k, e, a)' <= Left(k, e, a)
       /\ ~ (k = k0 /\ e = e0 /\ a \in Q)
    \/ k = k1 /\ e = e1 /\ a \in R /\ Left(k, e, a)' <= m

LEMMA BudgetMoves ==
  ASSUME ConstantsAssumption, RunsInv, NEW j \in Jobs, runs'[j] = runs[j],
         NEW k0, NEW e0, NEW Q, NEW n, Gives(j, k0, e0, Q, n),
         NEW k1, NEW e1, NEW R, NEW m, Turns(j, k0, e0, Q, k1, e1, R, m),
         IsFiniteSet(R), m \in Nat, Cardinality(R) * m <= Cardinality(Q) * n
  PROVE  Budgeted(j)'
<1> USE DEF Gives, Turns
<1> DEFINE S == Rights(j)
           A == Block(k0, e0, Q, n)
           B == Block(k1, e1, R, m)
<1>1. IsFiniteSet(S) /\ runs[j] + Cardinality(S) <= RunBound(j) /\ runs[j] \in Nat
  BY DEF RunsInv, Budgeted, TypeOK
<1>2. A \subseteq S
  <2> SUFFICES ASSUME NEW a \in Q, NEW i \in 1 .. n
               PROVE  <<<<k0, e0>>, <<a, i>>>> \in S
    BY DEF Block
  <2>1. Left(k0, e0, a) \in Nat
    BY LeftType
  <2>2. i \in 1 .. Left(k0, e0, a) /\ i \in Nat /\ a \in Agents
    BY <2>1
  <2> QED
    BY <2>2, InRights
<1>3. Cardinality(B) <= Cardinality(A) /\ IsFiniteSet(B)
  BY BlockSize
<1>4. Rights(j)' \subseteq (S \ A) \cup B
  <2>1. ASSUME NEW k \in Kinds, NEW e \in Entry, NEW a \in Agents, NEW i \in Nat,
               e.job = j, Copy(k, e, a)', i \in 1 .. Left(k, e, a)'
        PROVE  <<<<k, e>>, <<a, i>>>> \in (S \ A) \cup B
    <3>1. Left(k, e, a) \in Nat /\ Left(k, e, a)' \in Nat
      BY LeftType
    <3>2. CASE k = k1 /\ e = e1 /\ a \in R /\ Left(k, e, a)' <= m
      <4>1. i \in 1 .. m
        BY <2>1, <3>1, <3>2
      <4> QED
        BY <3>2, <4>1 DEF Block
    <3>3. CASE /\ Copy(k, e, a) /\ Left(k, e, a)' <= Left(k, e, a)
               /\ ~ (k = k0 /\ e = e0 /\ a \in Q)
      <4>1. <<<<k, e>>, <<a, i>>>> \in S
        <5>1. i \in 1 .. Left(k, e, a)
          BY <2>1, <3>1, <3>3
        <5> QED
          BY <2>1, <3>3, <5>1, InRights
      <4>2. <<<<k, e>>, <<a, i>>>> \notin A
        BY <3>3 DEF Block
      <4> QED
        BY <4>1, <4>2
    <3> QED
      BY <2>1, <3>2, <3>3
  <2> DEFINE U == (S \ A) \cup B
  <2>2. \A k \in Kinds, e \in Entry, a \in Agents, i \in Nat :
          e.job = j /\ Copy(k, e, a)' /\ i \in 1 .. Left(k, e, a)' =>
            <<<<k, e>>, <<a, i>>>> \in U
    BY <2>1
  <2> HIDE DEF S, A, B, U
  <2>3. Rights(j)' \subseteq U
    BY <2>2, RightsAfter
  <2> QED
    BY <2>3 DEF U
<1> HIDE DEF S, A, B
<1>5. IsFiniteSet(Rights(j)') /\ Cardinality(Rights(j)') <= Cardinality(S)
  BY <1>1, <1>2, <1>3, <1>4, Exchange
<1>6. Cardinality(S) \in Nat /\ Cardinality(Rights(j)') \in Nat /\ RunBound(j) \in Nat
  BY <1>1, <1>5, BoundType, FS_CardinalityType
<1>7. runs'[j] + Cardinality(Rights(j)') <= RunBound(j)
  BY <1>1, <1>5, <1>6
<1> QED
  BY <1>5, <1>7 DEF Budgeted, RunBound

\* One agent passes what it has to another.
LEMMA BudgetPasses ==
  ASSUME ConstantsAssumption, RunsInv, NEW j \in Jobs, runs'[j] = runs[j],
         NEW k0, NEW e0, NEW a, NEW n, Gives(j, k0, e0, {a}, n),
         NEW k1, NEW e1, NEW b, Turns(j, k0, e0, {a}, k1, e1, {b}, n)
  PROVE  Budgeted(j)'
<1>1. /\ IsFiniteSet({a}) /\ Cardinality({a}) = 1
      /\ IsFiniteSet({b}) /\ Cardinality({b}) = 1
  BY FS_Singleton
<1>2. n \in Nat
  BY DEF Gives
<1>3. Cardinality({b}) * n <= Cardinality({a}) * n
  BY <1>1, <1>2
<1> QED
  BY <1>1, <1>2, <1>3, BudgetMoves

\* A step that moves none
LEMMA BudgetStays ==
  ASSUME ConstantsAssumption, RunsInv, NEW j \in Jobs, runs'[j] = runs[j],
         \A k \in Kinds, e \in Entry, a \in Agents : e.job = j /\ Copy(k, e, a)' =>
           Copy(k, e, a) /\ Left(k, e, a)' <= Left(k, e, a)
  PROVE  Budgeted(j)'
<1> DEFINE f == FreshEntry(j)
<1>1. f \in Entry /\ f.job = j /\ IsFiniteSet({}) /\ Cardinality({}) = 0 /\ "new" \in Kinds
  BY FreshIsEntry, FS_EmptySet DEF Kinds
<1> HIDE DEF f
<1>2. Gives(j, "new", f, {}, 0) /\ Turns(j, "new", f, {}, "new", f, {}, 0)
  BY <1>1 DEF Gives, Turns
<1>3. Cardinality({}) * 0 <= Cardinality({}) * 0
  BY <1>1
<1> QED
  BY <1>1, <1>2, <1>3, BudgetMoves

Working == {"popped", "running", "succeeded", "raised"}

\* A step in which no copy of the job comes to anyone new
LEMMA BudgetShrinks ==
  ASSUME ConstantsAssumption, RunsInv, NEW j \in Jobs, runs'[j] = runs[j],
         \A e \in Entry : e.job = j /\ e \in queue' => e \in queue,
         \A p \in Processes, e \in Entry :
           e.job = j /\ (e \in delayed' \/ (ppc'[p] = "read" /\ lifted'[p] = e)) =>
             e \in delayed \/ (ppc[p] = "read" /\ lifted[p] = e),
         \A p \in Processes, e \in Entry : e.job = j /\ ppc'[p] = "removed" /\ lifted'[p] = e =>
           ppc[p] = "removed" /\ lifted[p] = e,
         \A c \in Consumers, e \in Entry : e.job = j /\ cpc'[c] \in Working /\ held'[c] = e =>
           cpc[c] \in Working /\ held[c] = e /\ (cpc'[c] = "popped" => cpc[c] = "popped"),
         enq'[j] \in {"new", "announced"} => enq[j] \in {"new", "announced"}
  PROVE  Budgeted(j)'
<1>1. ASSUME NEW k \in Kinds, NEW e \in Entry, NEW a \in Agents, e.job = j, Copy(k, e, a)'
      PROVE  Copy(k, e, a) /\ Left(k, e, a)' <= Left(k, e, a)
  <2>1. Worth(e) \in Nat \ {0}
    BY WorthFacts
  <2>2. CASE k = "held"
    <3>1. a \in Consumers /\ held'[a] = e /\ cpc'[a] \in Working
      BY <1>1, <2>2 DEF Copy, Working
    <3>2. held[a] = e /\ cpc[a] \in Working /\ (cpc'[a] = "popped" => cpc[a] = "popped")
      BY <1>1, <3>1
    <3> QED
      BY <2>1, <2>2, <3>1, <3>2 DEF Copy, Left, Working, Worth
  <2>3. CASE k # "held"
    <3>1. Left(k, e, a)' = Worth(e) /\ Left(k, e, a) = Worth(e)
      BY <2>3 DEF Left, Worth
    <3>2. Copy(k, e, a)
      BY <1>1, <2>3 DEF Copy, Kinds, FreshEntry
    <3> QED
      BY <2>1, <3>1, <3>2
  <2> QED
    BY <2>2, <2>3
<1> QED
  BY <1>1, BudgetStays

LEMMA CopyTypes ==
  ASSUME ConstantsAssumption, RunsInv
  PROVE  /\ \A c \in Consumers : cpc[c] # "idle" => held[c] \in Entry /\ held[c].job \in Jobs
         /\ \A p \in Processes : ppc[p] # "idle" => lifted[p] \in Entry /\ lifted[p].job \in Jobs
         /\ queue \subseteq Entry /\ delayed \subseteq Entry
         /\ Processes \subseteq Agents /\ Consumers \subseteq Agents /\ Nothing \in Agents
         /\ IsFiniteSet(Processes) /\ Cardinality(Processes) \in Nat
         /\ \A a : IsFiniteSet({a}) /\ Cardinality({a}) = 1
         /\ {"new", "queue", "push", "carry", "held"} \subseteq Kinds
         /\ cpc \in [Consumers -> {"idle", "popped", "running", "succeeded", "raised",
                                   "rescheduled", "buried"}]
         /\ held \in [Consumers -> Entry \cup {Nothing}]
         /\ ppc \in [Processes -> {"idle", "read", "removed"}]
         /\ lifted \in [Processes -> Entry \cup {Nothing}]
         /\ \A i \in Jobs : runs[i] \in Nat
         /\ enq \in [Jobs -> {"new", "announced", "parked", "done", "aborted"}]
<1>1. \A e \in Entry : e.job \in Jobs
  BY DEF Entry
<1>2. IsFiniteSet(Processes) /\ Cardinality(Processes) \in Nat
  BY FS_CardinalityType DEF ConstantsAssumption
<1>3. \A a : IsFiniteSet({a}) /\ Cardinality({a}) = 1
  BY FS_Singleton
<1> QED
  BY <1>1, <1>2, <1>3 DEF RunsInv, TypeOK, Agents, Kinds

LEMMA RunsProducer ==
  ASSUME ConstantsAssumption, RunsInv, NEW j \in Jobs, NEW i \in Jobs,
         EnqueueStatus(i) \/ EnqueueAdd(i) \/ EnqueueParked(i) \/ EnqueueAborts(i) \/ Cancel(i)
  PROVE  Budgeted(j)'
<1> USE DEF consumerVars, promoterVars, history
<1>1. UNCHANGED <<cpc, held, ppc, lifted, runs>>
  BY DEF EnqueueStatus, EnqueueAdd, EnqueueParked, EnqueueAborts, Cancel
<1>2. CASE ~ EnqueueAdd(i)
  <2>1. /\ UNCHANGED <<queue, delayed>>
        /\ enq'[j] \in {"new", "announced"} => enq[j] \in {"new", "announced"}
    BY <1>2, CopyTypes DEF EnqueueStatus, EnqueueParked, EnqueueAborts, Cancel
  <2> QED
    BY <1>1, <2>1, BudgetShrinks
<1> DEFINE f == FreshEntry(i)
<1>3. f \in Entry /\ f.job = i
  BY FreshIsEntry
<1>4. CASE EnqueueAdd(i) /\ i # j
  <2>1. /\ queue' \in {queue, queue \cup {f}} /\ delayed' \in {delayed, delayed \cup {f}}
        /\ enq'[j] = enq[j]
    BY <1>4, CopyTypes DEF EnqueueAdd
  <2> HIDE DEF f
  <2> QED
    BY <1>1, <1>3, <1>4, <2>1, BudgetShrinks
<1>5. CASE EnqueueAdd(i) /\ i = j /\ i \notin DelayedJobs
  <2>1. /\ enq[j] = "announced" /\ enq'[j] = "done" /\ queue' = queue \cup {f}
        /\ delayed' = delayed
    BY <1>5, CopyTypes DEF EnqueueAdd
  <2>2. Gives(j, "new", f, {Nothing}, Worth(f))
    <3>1. f = FreshEntry(f.job) /\ enq[f.job] = "announced" /\ f.job \notin DelayedJobs
      BY <1>3, <1>5, <2>1
    <3> HIDE DEF f
    <3>2. Copy("new", f, Nothing) /\ Left("new", f, Nothing) = Worth(f)
      BY <3>1 DEF Copy, Left
    <3>3. {Nothing} \in SUBSET Agents /\ IsFiniteSet({Nothing}) /\ "new" \in Kinds
      BY FS_Singleton DEF Agents, Kinds
    <3>4. Worth(f) \in Nat
      BY <1>3, WorthFacts
    <3> QED
      BY <1>3, <1>5, <3>2, <3>3, <3>4 DEF Gives
  <2>3. ASSUME NEW k \in Kinds, NEW e \in Entry, NEW a \in Agents, e.job = j, Copy(k, e, a)'
        PROVE  \/ /\ Copy(k, e, a) /\ Left(k, e, a)' <= Left(k, e, a)
                  /\ ~ (k = "new" /\ e = f /\ a \in {Nothing})
               \/ k = "queue" /\ e = f /\ a \in {Nothing} /\ Left(k, e, a)' <= Worth(f)
    <3>1. Left(k, e, a)' = Left(k, e, a) /\ Left(k, e, a) \in Nat
      BY <1>1, LeftType DEF Left, Worth
    <3>2. k # "new"
      BY <2>1, <2>3 DEF Copy
    <3>3. k # "held" => Left(k, e, a) = Worth(e)
      BY DEF Left
    <3>4. Copy(k, e, a) \/ (k = "queue" /\ e = f /\ a = Nothing)
      BY <1>1, <2>1, <2>3, <3>2 DEF Copy
    <3> QED
      BY <3>1, <3>2, <3>3, <3>4
  <2> HIDE DEF f
  <2>4. Turns(j, "new", f, {Nothing}, "queue", f, {Nothing}, Worth(f))
    BY <2>3 DEF Turns
  <2>5. runs'[j] = runs[j]
    BY <1>1
  <2> QED
    BY <2>2, <2>4, <2>5, BudgetPasses
<1>6. CASE EnqueueAdd(i) /\ i = j /\ i \in DelayedJobs
  <2>1. /\ enq[j] = "announced" /\ enq'[j] = "parked" /\ delayed' = delayed \cup {f}
        /\ queue' = queue
    BY <1>6, CopyTypes DEF EnqueueAdd
  <2>2. Gives(j, "new", f, Processes, Worth(f))
    BY <1>3, <1>6, <2>1, CopyTypes, WorthFacts DEF Copy, Left, Gives
  <2>3. ASSUME NEW k \in Kinds, NEW e \in Entry, NEW a \in Agents, e.job = j, Copy(k, e, a)'
        PROVE  \/ /\ Copy(k, e, a) /\ Left(k, e, a)' <= Left(k, e, a)
                  /\ ~ (k = "new" /\ e = f /\ a \in Processes)
               \/ k = "push" /\ e = f /\ a \in Processes /\ Left(k, e, a)' <= Worth(f)
    <3>1. Left(k, e, a)' = Left(k, e, a) /\ Left(k, e, a) \in Nat
      BY <1>1, LeftType DEF Left, Worth
    <3>2. k # "new"
      BY <2>1, <2>3 DEF Copy
    <3>3. k # "held" => Left(k, e, a) = Worth(e)
      BY DEF Left
    <3>4. Copy(k, e, a) \/ (k = "push" /\ e = f /\ a \in Processes)
      BY <1>1, <2>1, <2>3, <3>2 DEF Copy
    <3> QED
      BY <3>1, <3>2, <3>3, <3>4
  <2> HIDE DEF f
  <2>4. Turns(j, "new", f, Processes, "push", f, Processes, Worth(f))
    BY <2>3 DEF Turns
  <2>5. Worth(f) \in Nat /\ Cardinality(Processes) * Worth(f) <= Cardinality(Processes) * Worth(f)
    BY <1>3, CopyTypes, WorthFacts
  <2>6. IsFiniteSet(Processes) /\ runs'[j] = runs[j]
    BY <1>1, CopyTypes
  <2> QED
    BY <2>2, <2>4, <2>5, <2>6, BudgetMoves
<1> QED
  BY <1>2, <1>4, <1>5, <1>6

\* An entry as Reschedule makes it is worth what its run leaves.
LEMMA RetryWorth ==
  ASSUME ConstantsAssumption, RunsInv, NEW c \in Consumers, NEW text \in Errors,
         cpc[c] = "raised", ~ LastAttempt(c)
  PROVE  /\ Retry(c, text) \in Entry /\ Retry(c, text).job = held[c].job
         /\ Worth(Retry(c, text)) \in Nat /\ Worth(held[c]) - 1 \in Nat
         /\ Cardinality(Processes) * Worth(Retry(c, text)) = Worth(held[c]) - 1
<1>1. /\ Retry(c, text) \in Entry /\ Retry(c, text).job = held[c].job
      /\ Retry(c, text).attempts = held[c].attempts + 1
  BY RetryIsEntry DEF RunsInv
<1>2. held[c] \in Entry
  BY CopyTypes
<1>3. /\ Worth(held[c]) = 1 + Cardinality(Processes) * Worth(Retry(c, text))
      /\ Worth(held[c]) \in Nat \ {0} /\ Worth(Retry(c, text)) \in Nat
  BY <1>1, <1>2, WorthFacts
<1>4. Cardinality(Processes) * Worth(Retry(c, text)) \in Nat
  BY <1>3, CopyTypes
<1> QED
  BY <1>1, <1>3, <1>4

\* A retry: what a run leaves goes to the promoters, and the consumer is done with the job.
LEMMA RunsRetry ==
  ASSUME ConstantsAssumption, RunsInv, NEW j \in Jobs, NEW c \in Consumers, NEW text \in Errors,
         cpc[c] = "raised", ~ LastAttempt(c), delayed' = delayed \cup {Retry(c, text)},
         cpc'[c] \notin Working, UNCHANGED <<queue, enq, ppc, lifted, runs>>,
         \A d \in Consumers : d # c => cpc'[d] = cpc[d] /\ held'[d] = held[d]
  PROVE  Budgeted(j)'
<1> DEFINE h == held[c]
           r == Retry(c, text)
<1>1. /\ h \in Entry /\ r \in Entry /\ r.job = h.job /\ Worth(r) \in Nat /\ Worth(h) - 1 \in Nat
      /\ Cardinality(Processes) * Worth(r) = Worth(h) - 1
  BY RetryWorth, CopyTypes
<1>2. delayed' = delayed \cup {r} /\ held[c] = h
  OBVIOUS
<1> HIDE DEF h, r
<1>3. CASE h.job # j
  <2>1. \A e \in Entry : e.job = j /\ e \in delayed' => e \in delayed
    BY <1>1, <1>2, <1>3
  <2>2. \A d \in Consumers : cpc'[d] \in Working => d # c
    OBVIOUS
  <2> QED
    BY <2>1, <2>2, BudgetShrinks
<1>4. CASE h.job = j
  <2>1. Gives(j, "held", h, {c}, Worth(h) - 1)
    <3>1. Copy("held", h, c) /\ Left("held", h, c) = Worth(h) - 1
      BY <1>2 DEF Copy, Left
    <3>2. {c} \in SUBSET Agents /\ IsFiniteSet({c}) /\ "held" \in Kinds
      BY FS_Singleton DEF Agents, Kinds
    <3> QED
      BY <1>1, <1>4, <3>1, <3>2 DEF Gives
  <2>2. Turns(j, "held", h, {c}, "push", r, Processes, Worth(r))
    <3>1. SUFFICES ASSUME NEW k \in Kinds, NEW e \in Entry, NEW a \in Agents,
                          e.job = j, Copy(k, e, a)'
                   PROVE  \/ /\ Copy(k, e, a) /\ Left(k, e, a)' <= Left(k, e, a)
                             /\ ~ (k = "held" /\ e = h /\ a \in {c})
                          \/ k = "push" /\ e = r /\ a \in Processes /\ Left(k, e, a)' <= Worth(r)
      BY DEF Turns
    <3>2. Left(k, e, a) \in Nat /\ Left(k, e, a)' \in Nat
      BY LeftType
    <3>3. CASE k = "held"
      <4>1. a \in Consumers /\ a # c
        BY <3>1, <3>3 DEF Copy, Working
      <4> QED
        BY <3>1, <3>2, <3>3, <4>1 DEF Copy, Left, Worth
    <3>4. CASE k # "held"
      <4>1. Left(k, e, a)' = Worth(e) /\ Left(k, e, a) = Worth(e)
        BY <3>4 DEF Left, Worth
      <4>2. Copy(k, e, a) \/ (k = "push" /\ e = r /\ a \in Processes)
        BY <1>2, <3>1, <3>4 DEF Copy, FreshEntry
      <4> QED
        BY <3>2, <3>4, <4>1, <4>2
    <3> QED
      BY <3>3, <3>4
  <2>3. Cardinality({c}) * (Worth(h) - 1) = Worth(h) - 1
    <3>1. Cardinality({c}) = 1
      BY FS_Singleton
    <3> QED
      BY <1>1, <3>1
  <2>4. runs'[j] = runs[j] /\ IsFiniteSet(Processes)
    BY CopyTypes
  <2>5. Cardinality(Processes) * Worth(r) <= Cardinality({c}) * (Worth(h) - 1)
    BY <1>1, <2>3
  <2> QED
    BY <1>1, <2>1, <2>2, <2>4, <2>5, BudgetMoves
<1> QED
  BY <1>3, <1>4

\* A pop takes the entry, and the runs it may cause, from the queue to the consumer.
LEMMA RunsPop ==
  ASSUME ConstantsAssumption, RunsInv, NEW j \in Jobs, NEW c \in Consumers,
         NEW o \in queue, Pop(c, o)
  PROVE  Budgeted(j)'
<1>1. /\ o \in Entry /\ queue' = queue \ {o} /\ cpc[c] = "idle"
      /\ UNCHANGED <<delayed, enq, ppc, lifted, runs>>
      /\ cpc'[c] = "popped" /\ held'[c] = o
      /\ \A d \in Consumers : d # c => cpc'[d] = cpc[d] /\ held'[d] = held[d]
  BY CopyTypes DEF Pop, promoterVars, history
<1>2. CASE o.job # j
  BY <1>1, <1>2, BudgetShrinks
<1>3. CASE o.job = j
  <2>1. Gives(j, "queue", o, {Nothing}, Worth(o))
    <3>1. Copy("queue", o, Nothing) /\ Left("queue", o, Nothing) = Worth(o)
      BY DEF Copy, Left
    <3>2. {Nothing} \in SUBSET Agents /\ IsFiniteSet({Nothing}) /\ "queue" \in Kinds
      BY FS_Singleton DEF Agents, Kinds
    <3>3. Worth(o) \in Nat
      BY <1>1, WorthFacts
    <3> QED
      BY <1>1, <1>3, <3>1, <3>2, <3>3 DEF Gives
  <2>2. Turns(j, "queue", o, {Nothing}, "held", o, {c}, Worth(o))
    <3>1. SUFFICES ASSUME NEW k \in Kinds, NEW e \in Entry, NEW a \in Agents,
                          e.job = j, Copy(k, e, a)'
                   PROVE  \/ /\ Copy(k, e, a) /\ Left(k, e, a)' <= Left(k, e, a)
                             /\ ~ (k = "queue" /\ e = o /\ a \in {Nothing})
                          \/ k = "held" /\ e = o /\ a \in {c} /\ Left(k, e, a)' <= Worth(o)
      BY DEF Turns
    <3>2. Left(k, e, a) \in Nat /\ Left(k, e, a)' \in Nat
      BY LeftType
    <3>3. CASE k = "held"
      <4>1. a = c => e = o /\ Left(k, e, a)' = Worth(o)
        BY <1>1, <3>1, <3>3 DEF Copy, Left, Worth
      <4>2. a # c => Copy(k, e, a) /\ Left(k, e, a)' = Left(k, e, a)
        BY <1>1, <3>1, <3>3 DEF Copy, Left, Worth
      <4>3. Worth(o) \in Nat
        BY <1>1, WorthFacts
      <4> QED
        BY <3>2, <3>3, <4>1, <4>2, <4>3
    <3>4. CASE k # "held"
      <4>1. Left(k, e, a)' = Worth(e) /\ Left(k, e, a) = Worth(e)
        BY <3>4 DEF Left, Worth
      <4>2. Copy(k, e, a) /\ ~ (k = "queue" /\ e = o)
        BY <1>1, <3>1, <3>4 DEF Copy, FreshEntry
      <4> QED
        BY <3>2, <4>1, <4>2
    <3> QED
      BY <3>3, <3>4
  <2> QED
    BY <1>1, <2>1, <2>2, BudgetPasses
<1> QED
  BY <1>2, <1>3

\* Entering the handler uses up one run.
LEMMA RunsStart ==
  ASSUME ConstantsAssumption, RunsInv, NEW j \in Jobs, NEW c \in Consumers, Start(c)
  PROVE  Budgeted(j)'
<1> DEFINE h == held[c]
<1>1. /\ h \in Entry /\ h.job \in Jobs /\ cpc[c] = "popped" /\ cpc'[c] = "running"
      /\ UNCHANGED <<queue, delayed, enq, ppc, lifted, held>>
      /\ \A d \in Consumers : d # c => cpc'[d] = cpc[d]
  BY CopyTypes DEF Start, promoterVars
<1>2. runs' = [runs EXCEPT ![h.job] = @ + 1] /\ held[c] = h
  BY DEF Start
<1> HIDE DEF h
<1>3. CASE h.job # j
  <2>1. runs'[j] = runs[j]
    BY <1>2, <1>3 DEF RunsInv, TypeOK
  <2> QED
    BY <1>1, <1>2, <1>3, <2>1, BudgetShrinks DEF Working
<1>4. CASE h.job = j
  <2> DEFINE t == <<<<"held", h>>, <<c, Worth(h)>>>>
             S == Rights(j)
  <2>1. runs'[j] = runs[j] + 1 /\ runs[j] \in Nat
    BY <1>1, <1>2, <1>4 DEF RunsInv, TypeOK
  <2>2. IsFiniteSet(S) /\ runs[j] + Cardinality(S) <= RunBound(j)
    BY DEF RunsInv, Budgeted
  <2>3. Worth(h) \in Nat \ {0}
    BY <1>1, WorthFacts
  <2>4. t \in S
    <3>1. Copy("held", h, c) /\ Left("held", h, c) = Worth(h)
      BY <1>1, <1>2 DEF Copy, Left
    <3>2. c \in Agents /\ "held" \in Kinds /\ Worth(h) \in 1 .. Worth(h) /\ Worth(h) \in Nat
      BY <2>3 DEF Agents, Kinds
    <3> QED
      BY <1>1, <1>4, <3>1, <3>2, InRights
  <2>5. Rights(j)' \subseteq S \ {t}
    <3> DEFINE U == S \ {t}
    <3>1. ASSUME NEW k \in Kinds, NEW e \in Entry, NEW a \in Agents, NEW i \in Nat,
                 e.job = j, Copy(k, e, a)', i \in 1 .. Left(k, e, a)'
          PROVE  <<<<k, e>>, <<a, i>>>> \in U
      <4>1. Copy(k, e, a) /\ Left(k, e, a) \in Nat /\ Left(k, e, a)' \in Nat
        BY <1>1, <3>1, LeftType DEF Copy, FreshEntry
      <4>2. /\ Left(k, e, a)' <= Left(k, e, a)
            /\ k = "held" /\ a = c => e = h /\ Left(k, e, a)' = Worth(h) - 1
        BY <1>1, <1>2, <3>1, <4>1, WorthFacts DEF Copy, Left, Worth
      <4>3. i \in 1 .. Left(k, e, a)
        BY <3>1, <4>1, <4>2
      <4>4. <<<<k, e>>, <<a, i>>>> \in S
        BY <3>1, <4>1, <4>3, InRights
      <4>5. <<<<k, e>>, <<a, i>>>> # t
        BY <2>3, <3>1, <4>2
      <4> QED
        BY <4>4, <4>5
    <3> HIDE DEF U
    <3>2. Rights(j)' \subseteq U
      BY <3>1, RightsAfter
    <3> QED
      BY <3>2 DEF U
  <2> HIDE DEF S, t
  <2>6. IsFiniteSet(S \ {t}) /\ Cardinality(S \ {t}) = Cardinality(S) - 1
    BY <2>2, <2>4, FS_RemoveElement
  <2>7. IsFiniteSet(Rights(j)') /\ Cardinality(Rights(j)') <= Cardinality(S) - 1
    BY <2>5, <2>6, FS_Subset
  <2>8. Cardinality(S) \in Nat /\ Cardinality(Rights(j)') \in Nat
    BY <2>2, <2>7, FS_CardinalityType
  <2>9. RunBound(j) \in Nat
    BY BoundType
  <2>10. runs'[j] + Cardinality(Rights(j)') <= RunBound(j)
    BY <2>1, <2>2, <2>7, <2>8, <2>9
  <2> QED
    BY <2>7, <2>10 DEF Budgeted, RunBound
<1> QED
  BY <1>3, <1>4

LEMMA RunsConsumer ==
  ASSUME ConstantsAssumption, RunsInv, NEW j \in Jobs, NEW c \in Consumers, Worker(c)
  PROVE  Budgeted(j)'
<1> USE DEF promoterVars, history
<1>1. ASSUME NEW t \in Types, FindEmpty(c, t)
      PROVE  Budgeted(j)'
  <2>1. UNCHANGED <<queue, delayed, enq, cpc, held, ppc, lifted, runs>>
    BY <1>1 DEF FindEmpty
  <2> QED
    BY <2>1, BudgetShrinks
<1>2. ASSUME NEW e \in queue, Pop(c, e)
      PROVE  Budgeted(j)'
  BY <1>2, RunsPop
<1>3. CASE Start(c)
  BY <1>3, RunsStart
<1>4. CASE HandlerReturns(c) \/ HandlerRaises(c) \/ Complete(c) \/ Bury(c) \/ RecordFailure(c)
  <2>1. /\ UNCHANGED <<queue, delayed, enq, ppc, lifted, runs>>
        /\ cpc'[c] \in Working => cpc[c] \in Working /\ held'[c] = held[c] /\ cpc'[c] # "popped"
        /\ \A d \in Consumers : d # c => cpc'[d] = cpc[d] /\ held'[d] = held[d]
    BY <1>4, CopyTypes DEF HandlerReturns, HandlerRaises, Complete, Bury, RecordFailure,
         LetGo, Working
  <2> QED
    BY <2>1, BudgetShrinks
<1>5. ASSUME NEW text \in Errors, Reschedule(c, text)
      PROVE  Budgeted(j)'
  <2>1. /\ cpc[c] = "raised" /\ ~ LastAttempt(c) /\ delayed' = delayed \cup {Retry(c, text)}
        /\ cpc'[c] \notin Working /\ UNCHANGED <<queue, enq, ppc, lifted, runs>>
        /\ \A d \in Consumers : d # c => cpc'[d] = cpc[d] /\ held'[d] = held[d]
    BY <1>5, CopyTypes DEF Reschedule, Working
  <2> QED
    BY <2>1, RunsRetry
<1> QED
  BY <1>1, <1>2, <1>3, <1>4, <1>5 DEF Worker

LEMMA RunsConsumerFault ==
  ASSUME ConstantsAssumption, RunsInv, NEW j \in Jobs, NEW c \in Consumers,
         \/ \E e \in queue : PopRaises(c, e)
         \/ StartRaises(c)
         \/ CompleteRaises(c)
         \/ FailRaises(c)
  PROVE  Budgeted(j)'
<1> USE DEF promoterVars, history
<1>1. CASE (\E e \in queue : PopRaises(c, e)) \/ StartRaises(c) \/ CompleteRaises(c)
  <2>1. /\ UNCHANGED <<delayed, enq, ppc, lifted, runs>> /\ queue' \subseteq queue
        /\ cpc'[c] \in Working => cpc[c] \in Working /\ held'[c] = held[c] /\ cpc'[c] # "popped"
        /\ \A d \in Consumers : d # c => cpc'[d] = cpc[d] /\ held'[d] = held[d]
    BY <1>1, CopyTypes DEF PopRaises, StartRaises, CompleteRaises, LetGo, Working
  <2> QED
    BY <2>1, BudgetShrinks
<1>2. CASE FailRaises(c)
  <2>1. /\ UNCHANGED <<queue, enq, ppc, lifted, runs>>
        /\ cpc'[c] \notin Working
        /\ \A d \in Consumers : d # c => cpc'[d] = cpc[d] /\ held'[d] = held[d]
    BY <1>2, CopyTypes DEF FailRaises, LetGo, Working
  <2>2. \/ delayed' = delayed
        \/ \E text \in Errors : /\ cpc[c] = "raised" /\ ~ LastAttempt(c)
                                /\ delayed' = delayed \cup {Retry(c, text)}
    BY <1>2 DEF FailRaises
  <2>3. CASE delayed' = delayed
    BY <2>1, <2>3, BudgetShrinks
  <2>4. CASE delayed' # delayed
    BY <2>1, <2>2, <2>4, RunsRetry
  <2> QED
    BY <2>3, <2>4
<1> QED
  BY <1>1, <1>2

\* The second half of dequeue_delayed: the promoter's entry goes to the queue.
LEMMA RunsPush ==
  ASSUME ConstantsAssumption, RunsInv, NEW j \in Jobs, NEW p \in Processes,
         ppc[p] = "removed", ppc'[p] = "idle", queue' = queue \cup {lifted[p]},
         \A q \in Processes : q # p => ppc'[q] = ppc[q] /\ lifted'[q] = lifted[q],
         UNCHANGED <<delayed, enq, cpc, held, runs>>
  PROVE  Budgeted(j)'
<1> DEFINE h == lifted[p]
<1>1. h \in Entry /\ h.job \in Jobs /\ queue' = queue \cup {h} /\ lifted[p] = h
  BY CopyTypes
<1> HIDE DEF h
<1>2. CASE h.job # j
  BY <1>1, <1>2, BudgetShrinks
<1>3. CASE h.job = j
  <2>1. Gives(j, "carry", h, {p}, Worth(h))
    <3>1. Copy("carry", h, p) /\ Left("carry", h, p) = Worth(h)
      BY <1>1 DEF Copy, Left
    <3>2. {p} \in SUBSET Agents /\ IsFiniteSet({p}) /\ "carry" \in Kinds
      BY FS_Singleton DEF Agents, Kinds
    <3>3. Worth(h) \in Nat
      BY <1>1, WorthFacts
    <3> QED
      BY <1>1, <1>3, <3>1, <3>2, <3>3 DEF Gives
  <2>2. Turns(j, "carry", h, {p}, "queue", h, {Nothing}, Worth(h))
    <3>1. SUFFICES ASSUME NEW k \in Kinds, NEW e \in Entry, NEW a \in Agents,
                          e.job = j, Copy(k, e, a)'
                   PROVE  \/ /\ Copy(k, e, a) /\ Left(k, e, a)' <= Left(k, e, a)
                             /\ ~ (k = "carry" /\ e = h /\ a \in {p})
                          \/ k = "queue" /\ e = h /\ a \in {Nothing} /\ Left(k, e, a)' <= Worth(h)
      BY DEF Turns
    <3>2. Left(k, e, a)' = Left(k, e, a) /\ Left(k, e, a) \in Nat
      BY LeftType DEF Left, Worth
    <3>3. k = "queue" => Left(k, e, a) = Worth(e)
      BY DEF Left
    <3>4. k = "carry" => a # p
      BY <3>1 DEF Copy
    <3>5. Copy(k, e, a) \/ (k = "queue" /\ e = h /\ a = Nothing)
      BY <1>1, <3>1, <3>4 DEF Copy, FreshEntry
    <3> QED
      BY <3>2, <3>3, <3>4, <3>5
  <2> QED
    BY <2>1, <2>2, BudgetPasses
<1> QED
  BY <1>2, <1>3

\* The first half of dequeue_delayed: the promoter that has read an entry keeps its share
\* of the runs; the promoters that have not read it lose theirs.
LEMMA RunsRemove ==
  ASSUME ConstantsAssumption, RunsInv, NEW j \in Jobs, NEW p \in Processes, PromoterRemoves(p)
  PROVE  Budgeted(j)'
<1> DEFINE h == lifted[p]
<1>1. /\ h \in Entry /\ h.job \in Jobs /\ delayed' = delayed \ {h} /\ lifted[p] = h
      /\ ppc[p] = "read" /\ ppc'[p] = "removed"
      /\ \A q \in Processes : q # p => ppc'[q] = ppc[q]
      /\ UNCHANGED <<queue, enq, cpc, held, lifted, runs>>
  BY CopyTypes DEF PromoterRemoves, consumerVars, history
<1> HIDE DEF h
<1>2. CASE h.job # j
  BY <1>1, <1>2, BudgetShrinks
<1>3. CASE h.job = j
  <2>1. Gives(j, "push", h, {p}, Worth(h))
    <3>1. Copy("push", h, p) /\ Left("push", h, p) = Worth(h)
      BY <1>1 DEF Copy, Left
    <3>2. {p} \in SUBSET Agents /\ IsFiniteSet({p}) /\ "push" \in Kinds
      BY FS_Singleton DEF Agents, Kinds
    <3>3. Worth(h) \in Nat
      BY <1>1, WorthFacts
    <3> QED
      BY <1>1, <1>3, <3>1, <3>2, <3>3 DEF Gives
  <2>2. Turns(j, "push", h, {p}, "carry", h, {p}, Worth(h))
    <3>1. SUFFICES ASSUME NEW k \in Kinds, NEW e \in Entry, NEW a \in Agents,
                          e.job = j, Copy(k, e, a)'
                   PROVE  \/ /\ Copy(k, e, a) /\ Left(k, e, a)' <= Left(k, e, a)
                             /\ ~ (k = "push" /\ e = h /\ a \in {p})
                          \/ k = "carry" /\ e = h /\ a \in {p} /\ Left(k, e, a)' <= Worth(h)
      BY DEF Turns
    <3>2. Left(k, e, a)' = Left(k, e, a) /\ Left(k, e, a) \in Nat
      BY <1>1, LeftType DEF Left, Worth
    <3>3. k = "carry" => Left(k, e, a) = Worth(e)
      BY DEF Left
    <3>4. ~ (k = "push" /\ e = h /\ a = p)
      BY <1>1, <3>1 DEF Copy
    <3>5. Copy(k, e, a) \/ (k = "carry" /\ e = h /\ a = p)
      BY <1>1, <3>1 DEF Copy, FreshEntry
    <3> QED
      BY <3>2, <3>3, <3>4, <3>5
  <2> QED
    BY <1>1, <2>1, <2>2, BudgetPasses
<1> QED
  BY <1>2, <1>3

LEMMA RunsPromoter ==
  ASSUME ConstantsAssumption, RunsInv, NEW j \in Jobs, NEW p \in Processes,
         Promoter(p) \/ PromoterRaises(p)
  PROVE  Budgeted(j)'
<1> USE DEF consumerVars, history
<1>1. ASSUME NEW e \in delayed, PromoterReads(p, e)
      PROVE  Budgeted(j)'
  <2>1. /\ UNCHANGED <<queue, delayed, enq, cpc, held, runs>>
        /\ ppc'[p] = "read" /\ lifted'[p] = e
        /\ \A q \in Processes : q # p => ppc'[q] = ppc[q] /\ lifted'[q] = lifted[q]
    BY <1>1, CopyTypes DEF PromoterReads
  <2> QED
    BY <2>1, BudgetShrinks
<1>2. CASE PromoterRemoves(p)
  BY <1>2, RunsRemove
<1>3. CASE PromoterPushes(p)
  <2>1. /\ UNCHANGED <<delayed, enq, cpc, held, runs>>
        /\ ppc[p] = "removed" /\ ppc'[p] = "idle" /\ queue' = queue \cup {lifted[p]}
        /\ \A q \in Processes : q # p => ppc'[q] = ppc[q] /\ lifted'[q] = lifted[q]
    BY <1>3, CopyTypes DEF PromoterPushes
  <2> QED
    BY <2>1, RunsPush
<1>4. CASE PromoterRaises(p)
  <2>1. /\ UNCHANGED <<enq, cpc, held, runs>> /\ ppc'[p] = "idle"
        /\ \A q \in Processes : q # p => ppc'[q] = ppc[q] /\ lifted'[q] = lifted[q]
        /\ \/ queue' = queue /\ delayed' \subseteq delayed
           \/ ppc[p] = "removed" /\ queue' = queue \cup {lifted[p]} /\ delayed' = delayed
    BY <1>4, CopyTypes DEF PromoterRaises
  <2>2. CASE queue' = queue /\ delayed' \subseteq delayed
    BY <2>1, <2>2, BudgetShrinks
  <2>3. CASE ppc[p] = "removed" /\ queue' = queue \cup {lifted[p]} /\ delayed' = delayed
    BY <2>1, <2>3, RunsPush
  <2> QED
    BY <2>1, <2>2, <2>3
<1> QED
  BY <1>1, <1>2, <1>3, <1>4 DEF Promoter

\* A crash or an eviction only takes copies away.
LEMMA RunsEnvironment ==
  ASSUME ConstantsAssumption, RunsInv, NEW j \in Jobs,
         (\E p \in Processes : Crash(p)) \/ Evict
  PROVE  Budgeted(j)'
<1> USE DEF consumerVars, promoterVars, history
<1>1. ASSUME NEW p \in Processes, Crash(p)
      PROVE  Budgeted(j)'
  <2>1. /\ UNCHANGED <<queue, delayed, enq, runs>>
        /\ \A q \in Processes : ppc'[q] # "idle" => ppc'[q] = ppc[q] /\ lifted'[q] = lifted[q]
        /\ \A c \in Consumers : cpc'[c] # "idle" => cpc'[c] = cpc[c] /\ held'[c] = held[c]
    BY <1>1, CopyTypes DEF Crash
  <2>2. \A c \in Consumers : cpc'[c] \in Working => cpc'[c] # "idle"
    BY DEF Working
  <2> QED
    BY <2>1, <2>2, BudgetShrinks
<1>2. CASE Evict
  <2>1. /\ queue' \subseteq queue /\ delayed' \subseteq delayed
        /\ UNCHANGED <<enq, cpc, held, ppc, lifted, runs>>
    BY <1>2 DEF Evict, Queued
  <2> QED
    BY <2>1, BudgetShrinks
<1> QED
  BY <1>1, <1>2

LEMMA RunsStep == ConstantsAssumption /\ RunsInv /\ [Next]_vars => RunsInv'
<1> SUFFICES ASSUME ConstantsAssumption, RunsInv, [Next]_vars
             PROVE  RunsInv'
  OBVIOUS
<1>1. TypeOK'
  BY TypeStep DEF RunsInv
<1>2. ASSUME NEW j \in Jobs
      PROVE  Budgeted(j)'
  <2>1. CASE Producer
    BY <2>1, RunsProducer DEF Producer
  <2>2. CASE \E c \in Consumers : Worker(c)
    BY <2>2, RunsConsumer
  <2>3. CASE \E p \in Processes : Promoter(p)
    BY <2>3, RunsPromoter
  <2>4. CASE Disturbance
    BY <2>4, RunsProducer, RunsConsumerFault, RunsPromoter, RunsEnvironment DEF Disturbance
  <2>5. CASE UNCHANGED vars
    <3>1. UNCHANGED <<queue, delayed, enq, cpc, held, ppc, lifted, runs>>
      BY <2>5 DEF vars, consumerVars, promoterVars, history
    <3> QED
      BY <3>1, BudgetShrinks
  <2> QED
    BY <2>1, <2>2, <2>3, <2>4, <2>5 DEF Next
<1> QED
  BY <1>1, <1>2 DEF RunsInv

\* Before its first step a job has the rights of its fresh entry, and they are all RunBound
\* allows.
LEMMA RunsInit == ConstantsAssumption /\ Init => RunsInv
<1> SUFFICES ASSUME ConstantsAssumption, Init
             PROVE  RunsInv
  OBVIOUS
<1>1. TypeOK
  BY TypeInit
<1>2. ASSUME NEW j \in Jobs
      PROVE  Budgeted(j)
  <2> DEFINE f == FreshEntry(j)
             Q == IF j \in DelayedJobs THEN Processes ELSE {Nothing}
             M == MostRuns[MaxAttempts]
             B == Block("new", f, Q, M)
  <2>1. M \in Nat /\ Cardinality(Processes) \in Nat
    BY MostRunsFacts DEF ConstantsAssumption
  <2>2. IsFiniteSet(Q) /\ Cardinality(Q) = IF j \in DelayedJobs THEN Cardinality(Processes) ELSE 1
    BY FS_Singleton DEF ConstantsAssumption
  <2>3. IsFiniteSet(B) /\ Cardinality(B) = RunBound(j)
    <3> HIDE DEF Q, M, f
    <3>1. IsFiniteSet(B) /\ Cardinality(B) = Cardinality(Q) * M
      BY <2>1, <2>2, BlockSize
    <3> QED
      BY <2>2, <3>1 DEF RunBound, M
  <2>4. f \in Entry /\ f.job = j /\ f.attempts = 0 /\ MaxAttempts \in Nat
    BY FreshIsEntry DEF ConstantsAssumption
  <2>5. Worth(f) = M
    BY <2>4 DEF Worth
  <2>6. Rights(j) \subseteq B
    <3> SUFFICES ASSUME NEW t \in Rights(j)
                 PROVE  t \in B
      OBVIOUS
    <3>1. PICK k \in Kinds, e \in Entry, a \in Agents, i \in Nat : t = <<<<k, e>>, <<a, i>>>>
      BY DEF Rights
    <3>2. e.job = j /\ Copy(k, e, a) /\ i \in 1 .. Left(k, e, a)
      BY <3>1 DEF Rights
    <3>3. /\ queue = {} /\ delayed = {}
          /\ \A p \in Processes : ppc[p] = "idle"
          /\ \A c \in Consumers : cpc[c] = "idle"
      BY DEF Init
    <3>4. k = "new" /\ e = f /\ a \in Q
      BY <3>2, <3>3 DEF Copy
    <3>5. i \in 1 .. M
      BY <2>5, <3>2, <3>4 DEF Left
    <3> HIDE DEF Q, M, f
    <3> QED
      BY <3>1, <3>4, <3>5 DEF Block
  <2>7. runs[j] = 0
    BY DEF Init
  <2> HIDE DEF B
  <2>8. IsFiniteSet(Rights(j)) /\ Cardinality(Rights(j)) <= RunBound(j)
    BY <2>3, <2>6, FS_Subset
  <2>9. Cardinality(Rights(j)) \in Nat
    BY <2>8, FS_CardinalityType
  <2> QED
    BY <2>7, <2>8, <2>9 DEF Budgeted
<1> QED
  BY <1>1, <1>2 DEF RunsInv

LEMMA RunsBoundHolds == ConstantsAssumption /\ RunsInv => RunsBounded
<1> SUFFICES ASSUME ConstantsAssumption, RunsInv, NEW j \in Jobs
             PROVE  runs[j] <= RunBound(j)
  BY DEF RunsBounded
<1>1. IsFiniteSet(Rights(j)) /\ runs[j] + Cardinality(Rights(j)) <= RunBound(j) /\ runs[j] \in Nat
  BY DEF RunsInv, Budgeted, TypeOK
<1>2. Cardinality(Rights(j)) \in Nat /\ RunBound(j) \in Nat
  BY <1>1, BoundType, FS_CardinalityType
<1> QED
  BY <1>1, <1>2

\* However many promoters read one delayed entry, and whatever fails, no job runs more often
\* than RunBound allows: one run per attempt, and the branching of each delayed entry into as
\* many as there are processes.
THEOREM RunsAlwaysBounded == Spec => []RunsBounded
<1>1. Init => RunsInv
  BY RunsInit, ConstantsAssumption
<1>2. RunsInv /\ [Next]_vars => RunsInv'
  BY RunsStep, ConstantsAssumption
<1>3. RunsInv => RunsBounded
  BY RunsBoundHolds, ConstantsAssumption
<1> QED
  BY <1>1, <1>2, <1>3, PTL DEF Spec

\* With one promoter no delayed entry branches.
LEMMA OneProcessBound ==
  ASSUME ConstantsAssumption, Cardinality(Processes) = 1
  PROVE  \A j \in Jobs : RunBound(j) = MaxAttempts
<1> DEFINE S == {k \in Nat : k <= MaxAttempts => MostRuns[k] = k}
<1>1. /\ MaxAttempts \in Nat
      /\ MostRuns[0] = 0
      /\ \A k \in 1 .. MaxAttempts : MostRuns[k] = 1 + MostRuns[k - 1]
  <2>1. MaxAttempts \in Nat /\ \E f : IsMostRuns(f, MaxAttempts)
    BY MostRunsExists DEF ConstantsAssumption
  <2>2. MostRuns = [k \in 0 .. MaxAttempts |->
                      IF k = 0 THEN 0 ELSE 1 + Cardinality(Processes) * MostRuns[k - 1]]
    BY <2>1, Zenon DEF IsMostRuns, MostRuns
  <2>3. MostRuns[0] = 0
    BY <2>1, <2>2
  <2>4. ASSUME NEW k \in 1 .. MaxAttempts
        PROVE  MostRuns[k] = 1 + MostRuns[k - 1]
    <3>1. MostRuns[k - 1] \in Nat /\ MostRuns[k] = 1 + 1 * MostRuns[k - 1]
      BY <2>1, MostRunsFacts
    <3> QED
      BY <3>1
  <2> QED
    BY <2>1, <2>3, <2>4
<1>2. 0 \in S
  BY <1>1
<1>3. ASSUME NEW k \in Nat, k \in S
      PROVE  k + 1 \in S
  <2>1. k + 1 <= MaxAttempts => k + 1 \in 1 .. MaxAttempts /\ (k + 1) - 1 = k /\ k <= MaxAttempts
    BY <1>1
  <2> QED
    BY <1>1, <1>3, <2>1
<1> HIDE DEF S
<1>4. \A k \in Nat : k \in S
  BY <1>2, <1>3, SetInduction
<1> USE DEF S
<1>5. MostRuns[MaxAttempts] = MaxAttempts
  BY <1>1, <1>4
<1> QED
  BY <1>1, <1>5 DEF RunBound

\* With one process MAX_ATTEMPTS is what it says: no job runs more often, with or without a
\* delay, whatever crashes, raises or is evicted (JobQueue.MAX_ATTEMPTS, queue.py:56).
THEOREM NoMoreThanMaxAttempts ==
  ASSUME Cardinality(Processes) = 1
  PROVE  Spec => [](\A j \in Jobs : runs[j] <= MaxAttempts)
<1>1. RunsBounded => \A j \in Jobs : runs[j] <= MaxAttempts
  BY OneProcessBound, ConstantsAssumption DEF RunsBounded
<1> QED
  BY <1>1, RunsAlwaysBounded, PTL
=============================================================================
