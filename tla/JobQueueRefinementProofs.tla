---------------------- MODULE JobQueueRefinementProofs ----------------------
(***************************************************************************)
(* One process, any number of jobs and worker groups, crashes and failing  *)
(* Redis commands, but no eviction: every job has at most one copy, so     *)
(* JobQueue implements JobLifecycle.                                       *)
(***************************************************************************)
EXTENDS JobQueueProofs, JobQueueRefinement

Works(c) == cpc[c] \in {"popped", "running", "succeeded", "raised"}
InRedis == queue \cup delayed

\* In Redis a job has one entry, in the queue or in the delayed set.
OneEntry ==
  /\ \A e, f \in InRedis : e.job = f.job => e = f
  /\ queue \cap delayed = {}

\* A consumer works on jobs of its group, so with one process no two on one job.
OwnGroup == \A c \in Consumers : cpc[c] # "idle" => GroupOf[TypeOf[held[c].job]] = c[2]

\* What a consumer works on is neither in Redis nor with the promoter.
WorkedAlone ==
  \A c \in Consumers : Works(c) =>
    /\ \A e \in InRedis : e.job # held[c].job
    /\ \A p \in Processes : ppc[p] = "removed" => lifted[p].job # held[c].job

\* What the promoter has removed is not in Redis; what it has only read still is.
PromotedAlone ==
  \A p \in Processes :
    /\ ppc[p] = "removed" => \A e \in InRedis : e.job # lifted[p].job
    /\ ppc[p] = "read" => lifted[p] \in delayed

\* A copy that claims k failed attempts is of an accepted job with as many failures,
\* neither completed nor buried.
Claims(j, k) ==
  /\ enq[j] \notin {"new", "announced"}
  /\ dead[j] = 0
  /\ ~ finished[j]
  /\ fails[j] = k

Counted ==
  /\ \A e \in InRedis : Claims(e.job, e.attempts)
  /\ \A p \in Processes : ppc[p] = "removed" => Claims(lifted[p].job, lifted[p].attempts)
  /\ \A c \in Consumers :
       /\ cpc[c] \in {"popped", "running", "succeeded"} => Claims(held[c].job, held[c].attempts)
       /\ cpc[c] = "raised" => Claims(held[c].job, held[c].attempts + 1)

Unborn ==
  \A j \in Jobs : enq[j] \in {"new", "announced"} => dead[j] = 0 /\ ~ finished[j] /\ fails[j] = 0

Places == OneEntry /\ OwnGroup /\ WorkedAlone /\ PromotedAlone /\ Counted /\ Unborn

OneProcess == \A p, q \in Processes : p = q

LEMMA PlacesInit == Init => Places
BY DEF Init, Places, OneEntry, OwnGroup, WorkedAlone, PromotedAlone, Counted, Unborn, InRedis,
       Works

LEMMA OneWorker ==
  ASSUME OneProcess, OwnGroup, NEW c \in Consumers, NEW d \in Consumers,
         cpc[c] # "idle", cpc[d] # "idle", held[c].job = held[d].job
  PROVE  c = d
<1>1. c = <<c[1], c[2]>> /\ d = <<d[1], d[2]>> /\ c[1] = d[1]
  BY DEF Consumers, OneProcess
<1>2. c[2] = d[2]
  BY DEF OwnGroup
<1> QED
  BY <1>1, <1>2

LEMMA PlacesProducer ==
  ASSUME ConstantsAssumption, TypeOK, Places, NEW j \in Jobs,
         EnqueueStatus(j) \/ EnqueueAdd(j) \/ EnqueueParked(j) \/ EnqueueAborts(j) \/ Cancel(j)
  PROVE  Places'
<1> USE DEF consumerVars, promoterVars, history
<1>1. UNCHANGED <<dead, cpc, held, ppc, lifted, fails, finished>>
  BY DEF EnqueueStatus, EnqueueAdd, EnqueueParked, EnqueueAborts, Cancel
<1>2. /\ \A i \in Jobs : enq'[i] \in {"new", "announced"} => enq[i] \in {"new", "announced"}
      /\ \A i \in Jobs \ {j} : enq'[i] = enq[i]
  BY DEF TypeOK, EnqueueStatus, EnqueueAdd, EnqueueParked, EnqueueAborts, Cancel
<1>3. Unborn'
  BY <1>1, <1>2 DEF Places, Unborn
<1>4. OwnGroup'
  BY <1>1 DEF Places, OwnGroup
<1>5. CASE ~ EnqueueAdd(j)
  <2>1. queue' = queue /\ delayed' = delayed
    BY <1>5 DEF EnqueueStatus, EnqueueAdd, EnqueueParked, EnqueueAborts, Cancel
  <2>2. OneEntry' /\ WorkedAlone' /\ PromotedAlone'
    BY <1>1, <2>1 DEF Places, OneEntry, WorkedAlone, PromotedAlone, InRedis, Works
  <2>3. \A i \in Jobs : \A k : Claims(i, k) => Claims(i, k)'
    BY <1>1, <1>5 DEF TypeOK, Claims, EnqueueStatus, EnqueueAdd, EnqueueParked, EnqueueAborts,
                      Cancel
  <2>4. Counted'
    BY <1>1, <2>1, <2>3 DEF Places, Counted, InRedis, TypeOK, Entry
  <2> QED
    BY <1>3, <1>4, <2>2, <2>4 DEF Places
<1>6. CASE EnqueueAdd(j)
  <2>1. /\ enq[j] = "announced" /\ enq'[j] \notin {"new", "announced"}
        /\ dead[j] = 0 /\ ~ finished[j] /\ fails[j] = 0
    BY <1>6 DEF EnqueueAdd, Places, Unborn, TypeOK
  <2>2. PICK f : f = FreshEntry(j)
    OBVIOUS
  <2>3. f \in Entry /\ f.job = j /\ f.attempts = 0
    BY <2>2, FreshIsEntry
  <2>4. \/ queue' = queue \cup {f} /\ delayed' = delayed
        \/ delayed' = delayed \cup {f} /\ queue' = queue
    BY <1>6, <2>2 DEF EnqueueAdd
  \* nobody has a copy of j yet
  <2>5. /\ \A e \in InRedis : e.job # j
        /\ \A p \in Processes : ppc[p] = "removed" => lifted[p].job # j
        /\ \A c \in Consumers : Works(c) => held[c].job # j
    BY <2>1 DEF Places, Counted, Claims, Works
  <2>6. InRedis' = InRedis \cup {f}
    BY <2>4 DEF InRedis
  <2>7. OneEntry'
    BY <2>3, <2>4, <2>5, <2>6 DEF Places, OneEntry, InRedis
  <2>8. WorkedAlone'
    BY <1>1, <2>3, <2>5, <2>6 DEF Places, WorkedAlone, Works
  <2>9. PromotedAlone'
    BY <1>1, <2>3, <2>4, <2>5, <2>6 DEF Places, PromotedAlone
  <2>10. Claims(j, 0)'
    BY <1>1, <2>1 DEF Claims
  <2>11. \A i \in Jobs : \A k : Claims(i, k) => Claims(i, k)'
    BY <1>1, <1>2, <2>1 DEF Claims
  <2>12. Counted'
    BY <1>1, <2>3, <2>6, <2>10, <2>11 DEF Places, Counted, TypeOK, InRedis, Entry
  <2> QED
    BY <1>3, <1>4, <2>7, <2>8, <2>9, <2>12 DEF Places
<1> QED
  BY <1>5, <1>6

\* The five things a consumer can do to the copies: nothing, keep its entry, drop it (and
\* perhaps finish or bury the job), take one, have it fail, put it back.
LEMMA PlacesConsumer ==
  ASSUME ConstantsAssumption, OneProcess, TypeOK, Places, NEW c \in Consumers,
         Worker(c) \/ (\E e \in queue : PopRaises(c, e)) \/ StartRaises(c)
           \/ CompleteRaises(c) \/ FailRaises(c)
  PROVE  Places'
<1> USE DEF promoterVars, history
<1> DEFINE j == held[c].job
           Others == \A d \in Consumers \ {c} : cpc'[d] = cpc[d] /\ held'[d] = held[d]
<1>0. UNCHANGED <<enq, ppc, lifted>> /\ Others
  BY DEF TypeOK, Worker, FindEmpty, Pop, Start, HandlerReturns, HandlerRaises, Complete,
         Reschedule, Bury, RecordFailure, PopRaises, StartRaises, CompleteRaises, FailRaises, LetGo
<1>1. /\ \A e \in InRedis : e \in Entry /\ e.job \in Jobs
      /\ \A d \in Consumers : cpc[d] # "idle" => held[d] \in Entry /\ held[d].job \in Jobs
      /\ \A p \in Processes : ppc[p] = "removed" => lifted[p].job \in Jobs
  BY DEF TypeOK, InRedis, Entry
\* the job of a working consumer has no other copy
<1>2. ASSUME Works(c)
      PROVE  /\ \A e \in InRedis : e.job # j
             /\ \A p \in Processes : ppc[p] = "removed" => lifted[p].job # j
             /\ \A d \in Consumers \ {c} : Works(d) => held[d].job # j
             /\ cpc[c] # "idle" /\ enq[j] \notin {"new", "announced"}
  BY <1>2, OneWorker DEF Places, WorkedAlone, Works, Counted, Claims
<1>3. Places => OneEntry /\ OwnGroup /\ WorkedAlone /\ PromotedAlone /\ Counted /\ Unborn
  BY DEF Places
<1>4. ASSUME UNCHANGED <<queue, delayed, dead, fails, finished, held>>,
             \/ cpc'[c] = cpc[c]
             \/ /\ cpc[c] \in {"popped", "running", "succeeded"}
                /\ cpc'[c] \in {"popped", "running", "succeeded"}
      PROVE  Places'
  <2>1. OneEntry' /\ PromotedAlone' /\ Unborn'
    BY <1>0, <1>3, <1>4 DEF OneEntry, PromotedAlone, Unborn, InRedis
  <2>2. OwnGroup' /\ WorkedAlone'
    BY <1>0, <1>3, <1>4 DEF OwnGroup, WorkedAlone, InRedis, Works
  <2>3. Counted'
    BY <1>0, <1>3, <1>4 DEF Counted, Claims, InRedis
  <2> QED
    BY <2>1, <2>2, <2>3 DEF Places
<1>5. ASSUME queue' \subseteq queue, delayed' = delayed, fails' = fails,
             cpc'[c] = "idle" \/ (cpc[c] # "idle" /\ held'[c] = held[c]),
             ~ Works(c)',
             \A i \in Jobs : (Works(c) => i # j) =>
                              dead'[i] = dead[i] /\ (finished'[i] <=> finished[i])
      PROVE  Places'
  <2>1. InRedis' \subseteq InRedis
    BY <1>5 DEF InRedis
  <2>2. OneEntry' /\ PromotedAlone'
    BY <1>0, <1>3, <1>5, <2>1 DEF OneEntry, PromotedAlone
  <2>3. OwnGroup'
    BY <1>0, <1>3, <1>5 DEF OwnGroup
  <2>4. WorkedAlone'
    <3> SUFFICES ASSUME NEW d \in Consumers, Works(d)'
                 PROVE  /\ \A e \in InRedis' : e.job # held'[d].job
                        /\ \A p \in Processes : ppc'[p] = "removed" => lifted'[p].job # held'[d].job
      BY DEF WorkedAlone
    <3>1. d # c /\ Works(d) /\ held'[d] = held[d]
      BY <1>0, <1>5 DEF Works
    <3> QED
      BY <1>0, <1>3, <2>1, <3>1 DEF WorkedAlone
  <2>5. Unborn'
    BY <1>0, <1>2, <1>3, <1>5 DEF Unborn
  <2>6. ASSUME NEW i \in Jobs, Works(c) => i # j, NEW k, Claims(i, k)
        PROVE  Claims(i, k)'
    <3>1. dead'[i] = dead[i] /\ (finished'[i] <=> finished[i])
      BY <1>5, <2>6
    <3> QED
      BY <1>0, <1>5, <2>6, <3>1 DEF Claims
  <2>7. \A e \in InRedis' : Claims(e.job, e.attempts)'
    BY <1>1, <1>2, <1>3, <2>1, <2>6 DEF Counted
  <2>8. ASSUME NEW p \in Processes, ppc'[p] = "removed"
        PROVE  Claims(lifted[p].job, lifted[p].attempts)'
    <3>1. PICK i \in Jobs : i = lifted[p].job
      BY <1>0, <1>1, <2>8
    <3>5. PICK k : k = lifted[p].attempts
      OBVIOUS
    <3>2. Claims(i, k) /\ (Works(c) => i # j)
      BY <1>0, <1>2, <1>3, <2>8, <3>1, <3>5 DEF Counted
    <3>3. Claims(i, k)'
      BY <2>6, <3>2
    <3>4. i = lifted'[p].job /\ k = lifted'[p].attempts
      BY <1>0, <3>1, <3>5
    <3> QED
      BY <3>3, <3>4 DEF Claims
  <2>9. ASSUME NEW d \in Consumers, Works(d)'
        PROVE  /\ cpc'[d] \in {"popped", "running", "succeeded"} =>
                    Claims(held[d].job, held[d].attempts)'
               /\ cpc'[d] = "raised" => Claims(held[d].job, held[d].attempts + 1)'
    <3>1. d # c /\ Works(d) /\ held'[d] = held[d] /\ cpc'[d] = cpc[d]
      BY <1>0, <1>5, <2>9 DEF Works
    <3>2. PICK i \in Jobs : i = held[d].job
      BY <1>1, <3>1 DEF Works
    <3>6. PICK k : k = held[d].attempts
      OBVIOUS
    <3>3. /\ cpc[d] \in {"popped", "running", "succeeded"} => Claims(i, k)
          /\ cpc[d] = "raised" => Claims(i, k + 1)
          /\ Works(c) => i # j
      BY <1>2, <1>3, <3>1, <3>2, <3>6 DEF Counted
    <3>4. /\ cpc[d] \in {"popped", "running", "succeeded"} => Claims(i, k)'
          /\ cpc[d] = "raised" => Claims(i, k + 1)'
      BY <2>6, <3>3
    <3>5. i = held'[d].job /\ k = held'[d].attempts
      BY <3>1, <3>2, <3>6
    <3> QED
      BY <3>1, <3>4, <3>5 DEF Claims
  <2>10. Counted'
    BY <2>7, <2>8, <2>9 DEF Counted, Works
  <2> QED
    BY <2>2, <2>3, <2>4, <2>5, <2>10 DEF Places
<1>6. ASSUME NEW e \in queue, Pop(c, e)
      PROVE  Places'
  <2>1. /\ queue' = queue \ {e} /\ delayed' = delayed /\ UNCHANGED <<dead, fails, finished>>
        /\ cpc[c] = "idle" /\ cpc'[c] = "popped" /\ held'[c] = e
        /\ e \in InRedis /\ InRedis' \subseteq InRedis
    BY <1>6 DEF Pop, TypeOK, InRedis
  <2>2. \A f \in InRedis' : f.job # e.job
    BY <1>3, <2>1 DEF OneEntry, InRedis
  <2>3. OneEntry' /\ PromotedAlone' /\ Unborn'
    BY <1>0, <1>3, <2>1 DEF OneEntry, PromotedAlone, Unborn
  <2>4. OwnGroup'
    <3>1. GroupOf[TypeOf[e.job]] = c[2]
      BY <1>6 DEF Pop, Tries, GroupTypes
    <3> QED
      BY <1>0, <1>3, <2>1, <3>1 DEF OwnGroup
  <2>5. WorkedAlone'
    BY <1>0, <1>3, <2>1, <2>2 DEF WorkedAlone, PromotedAlone, Works
  <2>6. Counted'
    BY <1>0, <1>3, <2>1 DEF Counted, Claims
  <2> QED
    BY <2>3, <2>4, <2>5, <2>6 DEF Places
<1>7. ASSUME cpc[c] \in {"running", "succeeded"}, cpc'[c] = "raised",
             UNCHANGED <<queue, delayed, dead, finished, held>>,
             fails' = [fails EXCEPT ![j] = @ + 1]
      PROVE  Places'
  <2>1. Works(c) /\ InRedis' = InRedis
    BY <1>7 DEF Works, InRedis
  <2>2. OneEntry' /\ PromotedAlone'
    BY <1>0, <1>3, <1>7 DEF OneEntry, PromotedAlone, InRedis
  <2>3. OwnGroup' /\ WorkedAlone'
    BY <1>0, <1>3, <1>7, <2>1 DEF OwnGroup, WorkedAlone, Works
  <2>4. Unborn'
    BY <1>0, <1>2, <1>3, <1>7, <2>1 DEF Unborn, TypeOK
  <2>5. fails'[j] = fails[j] + 1 /\ \A i \in Jobs \ {j} : fails'[i] = fails[i]
    BY <1>1, <1>2, <1>7, <2>1 DEF TypeOK
  <2>6. Claims(j, held[c].attempts)
    BY <1>3, <1>7 DEF Counted
  <2>7. held'[c].job = j /\ Claims(j, held[c].attempts + 1)'
    BY <1>0, <1>7, <2>5, <2>6 DEF Claims
  <2>8. Counted'
    BY <1>0, <1>1, <1>2, <1>3, <1>7, <2>1, <2>5, <2>7 DEF Counted, Claims, Works
  <2> QED
    BY <2>2, <2>3, <2>4, <2>8 DEF Places
<1>8. ASSUME NEW text \in Errors, cpc[c] = "raised", ~ LastAttempt(c),
             delayed' = delayed \cup {Retry(c, text)}, UNCHANGED <<queue, dead, fails, finished>>,
             cpc'[c] = "idle" \/ (cpc'[c] = "rescheduled" /\ held'[c] = held[c])
      PROVE  Places'
  <2>1. PICK r : r = Retry(c, text)
    OBVIOUS
  <2>2. r \in Entry /\ r.job = j /\ r.attempts = held[c].attempts + 1
    BY <1>8, <2>1, RetryIsEntry
  <2>3. delayed' = delayed \cup {r} /\ InRedis' = InRedis \cup {r} /\ Works(c) /\ ~ Works(c)'
    BY <1>8, <2>1 DEF InRedis, Works
  <2>4. OneEntry'
    BY <1>2, <1>3, <1>8, <2>2, <2>3 DEF OneEntry, InRedis
  <2>5. PromotedAlone'
    BY <1>0, <1>2, <1>3, <1>8, <2>2, <2>3 DEF PromotedAlone
  <2>6. OwnGroup'
    BY <1>0, <1>3, <1>8 DEF OwnGroup
  <2>7. WorkedAlone'
    BY <1>0, <1>2, <1>3, <2>2, <2>3 DEF WorkedAlone, Works
  <2>8. Unborn'
    BY <1>0, <1>3, <1>8 DEF Unborn
  <2>9. Claims(r.job, r.attempts)'
    BY <1>0, <1>3, <1>8, <2>2 DEF Counted, Claims
  <2>10. Counted'
    BY <1>0, <1>3, <1>8, <2>3, <2>9 DEF Counted, Claims
  <2> QED
    BY <2>4, <2>5, <2>6, <2>7, <2>8, <2>10 DEF Places
<1>9. CASE Worker(c)
  <2>1. ASSUME NEW t \in Types, FindEmpty(c, t)
        PROVE  Places'
    BY <1>4, <2>1 DEF FindEmpty
  <2>2. CASE Start(c) \/ HandlerReturns(c)
    BY <1>4, <2>2 DEF Start, HandlerReturns, TypeOK
  <2>3. CASE HandlerRaises(c)
    BY <1>7, <2>3 DEF HandlerRaises, TypeOK
  <2>4. CASE Complete(c) \/ Bury(c)
    <3>1. /\ queue' = queue /\ delayed' = delayed /\ fails' = fails
          /\ cpc'[c] = "idle" \/ (cpc'[c] = "buried" /\ held'[c] = held[c])
          /\ cpc[c] \in {"succeeded", "raised"}
          /\ \A i \in Jobs \ {j} : dead'[i] = dead[i] /\ finished'[i] = finished[i]
      BY <2>4 DEF Complete, Bury, LetGo, TypeOK
    <3>2. Works(c) /\ ~ Works(c)'
      BY <3>1 DEF Works
    <3> QED
      BY <1>5, <3>1, <3>2
  <2>5. CASE RecordFailure(c)
    <3>1. /\ queue' = queue /\ delayed' = delayed /\ fails' = fails /\ cpc'[c] = "idle"
          /\ dead' = dead /\ finished' = finished
      BY <2>5 DEF RecordFailure, LetGo, TypeOK
    <3>2. ~ Works(c)'
      BY <3>1 DEF Works
    <3> QED
      BY <1>5, <3>1, <3>2
  <2>6. ASSUME NEW text \in Errors, Reschedule(c, text)
        PROVE  Places'
    BY <1>8, <2>6 DEF Reschedule, TypeOK
  <2> QED
    BY <1>6, <1>9, <2>1, <2>2, <2>3, <2>4, <2>5, <2>6 DEF Worker
<1>10. ASSUME NEW e \in queue, PopRaises(c, e)
       PROVE  Places'
  <2>1. /\ queue' \subseteq queue /\ delayed' = delayed /\ fails' = fails /\ cpc'[c] = "idle"
        /\ dead' = dead /\ finished' = finished
    BY <1>10 DEF PopRaises, LetGo, TypeOK
  <2>2. ~ Works(c)'
    BY <2>1 DEF Works
  <2> QED
    BY <1>5, <2>1, <2>2
<1>11. CASE StartRaises(c)
  <2>1. /\ queue' = queue /\ delayed' = delayed /\ fails' = fails /\ cpc'[c] = "idle"
        /\ dead' = dead /\ finished' = finished
    BY <1>11 DEF StartRaises, LetGo, TypeOK
  <2>2. ~ Works(c)'
    BY <2>1 DEF Works
  <2> QED
    BY <1>5, <2>1, <2>2
<1>12. CASE CompleteRaises(c)
  BY <1>7, <1>12 DEF CompleteRaises, TypeOK
<1>13. CASE FailRaises(c)
  <2>1. /\ cpc'[c] = "idle" /\ queue' = queue /\ fails' = fails /\ finished' = finished
        /\ cpc[c] # "idle"
    BY <1>13 DEF FailRaises, LetGo, TypeOK
  <2>2. ~ Works(c)'
    BY <2>1 DEF Works
  <2>3. CASE delayed' = delayed /\ dead' = dead
    BY <1>5, <2>1, <2>2, <2>3
  <2>4. ASSUME NEW text \in Errors, cpc[c] = "raised", ~ LastAttempt(c), dead' = dead,
               delayed' = delayed \cup {Retry(c, text)}
        PROVE  Places'
    BY <1>8, <2>1, <2>4
  <2>5. CASE /\ cpc[c] = "raised" /\ delayed' = delayed
             /\ dead' = [dead EXCEPT ![held[c].job] = @ + 1]
    <3>1. Works(c) /\ \A i \in Jobs \ {j} : dead'[i] = dead[i] /\ finished'[i] = finished[i]
      BY <2>1, <2>5 DEF Works, TypeOK
    <3> QED
      BY <1>5, <2>1, <2>2, <2>5, <3>1
  <2> QED
    BY <1>13, <2>3, <2>4, <2>5 DEF FailRaises
<1> QED
  BY <1>9, <1>10, <1>11, <1>12, <1>13

LEMMA PlacesPromoter ==
  ASSUME ConstantsAssumption, OneProcess, TypeOK, Places, NEW p \in Processes,
         Promoter(p) \/ PromoterRaises(p)
  PROVE  Places'
<1> USE DEF consumerVars, history
<1>0. /\ UNCHANGED <<enq, cpc, held, dead, fails, finished>>
      /\ \A q \in Processes : q = p
  BY DEF Promoter, PromoterReads, PromoterRemoves, PromoterPushes, PromoterRaises, OneProcess
<1>1. OneEntry /\ OwnGroup /\ WorkedAlone /\ PromotedAlone /\ Counted /\ Unborn
  BY DEF Places
<1>2. OwnGroup' /\ Unborn'
  BY <1>0, <1>1 DEF OwnGroup, Unborn
<1>3. ASSUME NEW e \in delayed, PromoterReads(p, e)
      PROVE  Places'
  <2>1. queue' = queue /\ delayed' = delayed /\ ppc'[p] = "read" /\ lifted'[p] = e
    BY <1>3 DEF PromoterReads, TypeOK
  <2>2. OneEntry' /\ WorkedAlone' /\ PromotedAlone'
    BY <1>0, <1>1, <2>1 DEF OneEntry, WorkedAlone, PromotedAlone, InRedis, Works
  <2>3. Counted'
    BY <1>0, <1>1, <2>1 DEF Counted, Claims, InRedis
  <2> QED
    BY <1>2, <2>2, <2>3 DEF Places
\* the promoter gives up, or its entry leaves or returns to Redis
<1>4. ASSUME ppc[p] # "idle", ppc'[p] = "idle", queue' = queue,
             delayed' = delayed \/ (ppc[p] = "read" /\ delayed' = delayed \ {lifted[p]})
      PROVE  Places'
  <2>1. InRedis' \subseteq InRedis
    BY <1>4 DEF InRedis
  <2>2. OneEntry' /\ WorkedAlone' /\ PromotedAlone'
    BY <1>0, <1>1, <1>4, <2>1 DEF OneEntry, WorkedAlone, PromotedAlone, Works
  <2>3. Counted'
    BY <1>0, <1>1, <1>4, <2>1 DEF Counted, Claims
  <2> QED
    BY <1>2, <2>2, <2>3 DEF Places
<1>5. CASE PromoterRemoves(p)
  <2>1. /\ ppc[p] = "read" /\ ppc'[p] = "removed" /\ lifted' = lifted /\ queue' = queue
        /\ delayed' = delayed \ {lifted[p]} /\ lifted[p] \in delayed
    BY <1>1, <1>5 DEF PromoterRemoves, TypeOK, PromotedAlone
  <2>2. /\ InRedis' \subseteq InRedis /\ lifted[p] \in InRedis
        /\ \A e \in InRedis' : e.job # lifted[p].job
    BY <1>1, <2>1 DEF InRedis, OneEntry
  <2>3. OneEntry' /\ PromotedAlone'
    BY <1>0, <1>1, <2>1, <2>2 DEF OneEntry, PromotedAlone
  <2>4. WorkedAlone'
    BY <1>0, <1>1, <2>1, <2>2 DEF WorkedAlone, Works
  <2>5. Counted'
    BY <1>0, <1>1, <2>1, <2>2 DEF Counted, Claims
  <2> QED
    BY <1>2, <2>3, <2>4, <2>5 DEF Places
<1>6. ASSUME ppc[p] = "removed", ppc'[p] = "idle", delayed' = delayed,
             queue' = queue \cup {lifted[p]}
      PROVE  Places'
  <2>1. InRedis' = InRedis \cup {lifted[p]}
    BY <1>6 DEF InRedis
  <2>2. \A e \in InRedis : e.job # lifted[p].job
    BY <1>1, <1>6 DEF PromotedAlone
  <2>3. OneEntry'
    BY <1>1, <1>6, <2>1, <2>2 DEF OneEntry, InRedis
  <2>4. WorkedAlone' /\ PromotedAlone'
    BY <1>0, <1>1, <1>6, <2>1 DEF WorkedAlone, PromotedAlone, Works
  <2>5. Counted'
    BY <1>0, <1>1, <1>6, <2>1 DEF Counted, Claims
  <2> QED
    BY <1>2, <2>3, <2>4, <2>5 DEF Places
<1>7. CASE PromoterPushes(p)
  BY <1>6, <1>7 DEF PromoterPushes, TypeOK
<1>8. CASE PromoterRaises(p)
  BY <1>4, <1>6, <1>8 DEF PromoterRaises, TypeOK
<1> QED
  BY <1>3, <1>5, <1>7, <1>8 DEF Promoter

LEMMA PlacesCrash ==
  ASSUME TypeOK, Places, NEW p \in Processes, Crash(p)
  PROVE  Places'
<1>1. /\ UNCHANGED <<enq, queue, delayed, dead, fails, finished>>
      /\ \A c \in Consumers : \/ cpc'[c] = "idle"
                              \/ cpc'[c] = cpc[c] /\ held'[c] = held[c]
      /\ \A q \in Processes : \/ ppc'[q] = "idle"
                              \/ ppc'[q] = ppc[q] /\ lifted'[q] = lifted[q]
  BY DEF Crash, TypeOK, history
<1>2. OneEntry' /\ OwnGroup' /\ Unborn'
  BY <1>1 DEF Places, OneEntry, OwnGroup, Unborn, InRedis
<1>3. WorkedAlone' /\ PromotedAlone'
  BY <1>1 DEF Places, WorkedAlone, PromotedAlone, InRedis, Works
<1>4. Counted'
  BY <1>1 DEF Places, Counted, Claims, InRedis
<1> QED
  BY <1>2, <1>3, <1>4 DEF Places

LEMMA PlacesStep ==
  ASSUME ConstantsAssumption, OneProcess, "evict" \notin FaultKinds,
         TypeOK, Places, [Next]_vars
  PROVE  Places'
<1>1. CASE Producer
  BY <1>1, PlacesProducer DEF Producer
<1>2. CASE \E c \in Consumers : Worker(c)
  BY <1>2, PlacesConsumer
<1>3. CASE \E p \in Processes : Promoter(p)
  BY <1>3, PlacesPromoter
<1>4. CASE Disturbance
  <2>1. ~ Evict
    BY DEF Evict, Fault
  <2> QED
    BY <1>4, <2>1, PlacesProducer, PlacesConsumer, PlacesPromoter, PlacesCrash DEF Disturbance
<1>5. CASE UNCHANGED vars
  BY <1>5 DEF vars, consumerVars, promoterVars, history, Places, OneEntry, OwnGroup, WorkedAlone,
              PromotedAlone, Counted, Claims, Unborn, InRedis, Works
<1> QED
  BY <1>1, <1>2, <1>3, <1>4, <1>5 DEF Next

\* With one process a job is in one place at a time, whatever crashes or raises: the pop of
\* dequeue and the removal and push of dequeue_delayed move the one copy (queue.py).
THEOREM OnePlace ==
  ASSUME OneProcess, "evict" \notin FaultKinds
  PROVE  Spec => []Places
<1>1. Init => Places
  BY PlacesInit
<1>2. TypeOK /\ Places /\ [Next]_vars => Places'
  BY PlacesStep, ConstantsAssumption
<1> QED
  BY <1>1, <1>2, TypeCorrect, PTL DEF Spec

-----------------------------------------------------------------------------
(* The status hash.  While nothing fails, a consumer past dequeue() finds  *)
(* RUNNING where it wrote it, and fail() moves the job before it says so.  *)

Honest(j) ==
  /\ status[j] = "running" => \E c \in Consumers : cpc[c] # "idle" /\ held[c].job = j
  /\ status[j] = "completed" => finished[j]
  /\ status[j] = "failed" => dead[j] > 0
  /\ status[j] = "retrying" => Alive(j)

Midway(c) ==
  held[c].job \notin DelayedJobs =>
    /\ cpc[c] \in {"running", "succeeded", "raised"} => status[held[c].job] = "running"
    /\ cpc[c] = "rescheduled" => Alive(held[c].job)
    /\ cpc[c] = "buried" => dead[held[c].job] > 0

OnlyDelayedPark == \A j \in Jobs : enq[j] = "parked" => j \in DelayedJobs

HonestInv ==
  /\ OnlyDelayedPark
  /\ faults = 0 => /\ \A j \in Jobs \ DelayedJobs : Honest(j)
                   /\ \A c \in Consumers : Midway(c)

\* A copy is of a job that is neither completed nor buried, and is submitted.
LEMMA AliveIsOpen ==
  ASSUME Places, NEW j \in Jobs, Alive(j)
  PROVE  dead[j] = 0 /\ ~ finished[j] /\ enq[j] \notin {"new", "announced"}
BY DEF Places, Counted, Claims, Alive, InHand, Removed, InRedis

\* Only complete() and the burial take the last copy away.
LEMMA AliveStays ==
  ASSUME ConstantsAssumption, TypeOK, NEW j \in Jobs, Alive(j),
         \/ \E i \in Jobs : EnqueueStatus(i) \/ EnqueueAdd(i) \/ EnqueueParked(i)
         \/ \E c \in Consumers : Worker(c) /\ ~ (held[c].job = j /\ (Complete(c) \/ Bury(c)))
         \/ \E p \in Processes : Promoter(p)
  PROVE  Alive(j)'
<1> USE DEF consumerVars, promoterVars, history, LetGo, Alive, InHand, Removed
<1>1. ASSUME NEW i \in Jobs, EnqueueStatus(i) \/ EnqueueAdd(i) \/ EnqueueParked(i)
      PROVE  Alive(j)'
  <2>1. UNCHANGED <<cpc, held, ppc, lifted>> /\ queue \subseteq queue' /\ delayed \subseteq delayed'
    BY <1>1 DEF EnqueueStatus, EnqueueAdd, EnqueueParked
  <2> QED
    BY <2>1
<1>2. ASSUME NEW c \in Consumers, Worker(c), ~ (held[c].job = j /\ (Complete(c) \/ Bury(c)))
      PROVE  Alive(j)'
  <2>1. ASSUME NEW t \in Types, FindEmpty(c, t)
        PROVE  Alive(j)'
    BY <2>1 DEF TypeOK, FindEmpty
  <2>2. ASSUME NEW e \in queue, Pop(c, e)
        PROVE  Alive(j)'
    BY <2>2 DEF TypeOK, Pop
  <2>3. CASE Start(c) \/ HandlerReturns(c) \/ HandlerRaises(c)
    BY <2>3 DEF TypeOK, Start, HandlerReturns, HandlerRaises
  <2>4. CASE Complete(c) \/ Bury(c) \/ RecordFailure(c)
    BY <1>2, <2>4 DEF TypeOK, Complete, Bury, RecordFailure
  <2>5. ASSUME NEW text \in Errors, Reschedule(c, text)
        PROVE  Alive(j)'
    <3>1. Retry(c, text).job = held[c].job
      BY DEF Retry
    <3> QED
      BY <2>5, <3>1 DEF TypeOK, Reschedule
  <2> QED
    BY <1>2, <2>1, <2>2, <2>3, <2>4, <2>5 DEF Worker
<1>3. ASSUME NEW p \in Processes, Promoter(p)
      PROVE  Alive(j)'
  <2>1. ASSUME NEW e \in delayed, PromoterReads(p, e)
        PROVE  Alive(j)'
    BY <2>1 DEF TypeOK, PromoterReads
  <2>2. CASE PromoterRemoves(p)
    BY <2>2 DEF TypeOK, PromoterRemoves
  <2>3. CASE PromoterPushes(p)
    BY <2>3 DEF TypeOK, PromoterPushes
  <2> QED
    BY <1>3, <2>1, <2>2, <2>3 DEF Promoter
<1> QED
  BY <1>1, <1>2, <1>3

LEMMA HonestStep ==
  ASSUME ConstantsAssumption, OneProcess, MaxCancels = 0, TypeOK, Places, HonestInv, [Next]_vars
  PROVE  HonestInv'
<1> USE DEF consumerVars, promoterVars, history
<1>1. OnlyDelayedPark'
  <2>1. \A i \in Jobs : enq'[i] = "parked" => enq[i] = "parked" \/ i \in DelayedJobs
    BY DEF TypeOK, Next, vars, Producer, Worker, Promoter, Disturbance, EnqueueStatus, EnqueueAdd,
       EnqueueParked, EnqueueAborts, Cancel, FindEmpty, Pop, PopRaises, Start, StartRaises,
       HandlerReturns, HandlerRaises, Complete, CompleteRaises, Reschedule, Bury, RecordFailure,
       FailRaises, PromoterReads, PromoterRemoves, PromoterPushes, PromoterRaises, Crash, Evict
  <2> QED
    BY <2>1 DEF HonestInv, OnlyDelayedPark
<1> SUFFICES ASSUME faults' = 0
             PROVE  /\ \A j \in Jobs \ DelayedJobs : Honest(j)'
                    /\ \A c \in Consumers : Midway(c)'
  BY <1>1 DEF HonestInv
<1>2. faults = 0
  BY DEF TypeOK, Next, vars, Producer, Worker, Promoter, Disturbance, EnqueueStatus, EnqueueAdd,
       EnqueueParked, EnqueueAborts, Cancel, FindEmpty, Pop, PopRaises, Start, StartRaises,
       HandlerReturns, HandlerRaises, Complete, CompleteRaises, Reschedule, Bury, RecordFailure,
       FailRaises, PromoterReads, PromoterRemoves, PromoterPushes, PromoterRaises, Crash, Evict,
       Fault
<1>3. /\ \A j \in Jobs \ DelayedJobs : Honest(j)
      /\ \A c \in Consumers : Midway(c)
      /\ OnlyDelayedPark
      /\ \A c \in Consumers : cpc[c] # "idle" => held[c].job \in Jobs
  BY <1>2 DEF HonestInv, TypeOK, Entry
<1>4. ASSUME NEW i \in Jobs, EnqueueStatus(i) \/ EnqueueAdd(i) \/ EnqueueParked(i)
      PROVE  /\ \A j \in Jobs \ DelayedJobs : Honest(j)'
             /\ \A c \in Consumers : Midway(c)'
  <2>1. /\ UNCHANGED <<cpc, held, finished, dead>>
        /\ \A j \in Jobs \ {i} : status'[j] = status[j]
        /\ status' = status \/ i \in DelayedJobs \/ (enq[i] = "new" /\ status'[i] = "pending")
    BY <1>3, <1>4 DEF TypeOK, EnqueueStatus, EnqueueAdd, EnqueueParked, SetStatus, OnlyDelayedPark
  <2>2. \A j \in Jobs : Alive(j) => Alive(j)'
    BY <1>4, AliveStays
  <2>3. \A j \in Jobs \ DelayedJobs : Honest(j)'
    BY <1>3, <2>1, <2>2 DEF Honest
  <2>4. ASSUME NEW c \in Consumers
        PROVE  Midway(c)'
    <3>1. PICK j : j = held[c].job
      OBVIOUS
    <3>2. CASE cpc[c] = "idle"
      BY <2>1, <3>2 DEF Midway
    <3>3. CASE cpc[c] # "idle"
      <4>1. j \in Jobs /\ (cpc[c] = "rescheduled" /\ j \notin DelayedJobs => Alive(j)')
        BY <1>3, <2>2, <3>1, <3>3 DEF Midway
      <4>2. cpc[c] \in {"running", "succeeded", "raised"} => enq[j] # "new"
        BY <3>1 DEF Places, Counted, Claims
      <4> QED
        BY <1>3, <2>1, <3>1, <4>1, <4>2 DEF Midway, Alive
    <3> QED
      BY <3>2, <3>3
  <2> QED
    BY <2>3, <2>4
\* an agent that touches neither a status nor the consumers
<1>5. ASSUME UNCHANGED <<status, cpc, held, finished, dead>>,
             \A j \in Jobs : Alive(j) => Alive(j)'
      PROVE  /\ \A j \in Jobs \ DelayedJobs : Honest(j)'
             /\ \A c \in Consumers : Midway(c)'
  <2>1. \A j \in Jobs \ DelayedJobs : Honest(j)'
    BY <1>3, <1>5 DEF Honest
  <2>2. ASSUME NEW c \in Consumers
        PROVE  Midway(c)'
    <3>1. PICK j : j = held[c].job
      OBVIOUS
    <3>2. cpc[c] = "rescheduled" /\ j \notin DelayedJobs => Alive(j)'
      BY <1>3, <1>5, <3>1 DEF Midway
    <3> QED
      BY <1>3, <1>5, <3>1, <3>2 DEF Midway, Alive
  <2> QED
    BY <2>1, <2>2
<1>6. ASSUME NEW p \in Processes, Promoter(p)
      PROVE  /\ \A j \in Jobs \ DelayedJobs : Honest(j)'
             /\ \A c \in Consumers : Midway(c)'
  <2>1. UNCHANGED <<status, cpc, held, finished, dead>>
    BY <1>6 DEF Promoter, PromoterReads, PromoterRemoves, PromoterPushes
  <2> QED
    BY <1>5, <1>6, <2>1, AliveStays
<1>7. CASE UNCHANGED vars
  BY <1>5, <1>7 DEF vars, Alive, InHand, Removed
<1>8. ASSUME NEW c \in Consumers, Worker(c)
      PROVE  /\ \A j \in Jobs \ DelayedJobs : Honest(j)'
             /\ \A d \in Consumers : Midway(d)'
  <2> DEFINE Others == \A d \in Consumers \ {c} : cpc'[d] = cpc[d] /\ held'[d] = held[d]
  <2>0. Others
    BY <1>8 DEF TypeOK, Worker, FindEmpty, Pop, Start, HandlerReturns, HandlerRaises, Complete,
                Reschedule, Bury, RecordFailure, LetGo
  <2>1. ASSUME NEW t \in Types, FindEmpty(c, t)
        PROVE  /\ \A j \in Jobs \ DelayedJobs : Honest(j)'
               /\ \A d \in Consumers : Midway(d)'
    BY <1>5, <2>1 DEF FindEmpty, Alive, InHand, Removed
  <2>2. ASSUME NEW e \in queue, Pop(c, e)
        PROVE  /\ \A j \in Jobs \ DelayedJobs : Honest(j)'
               /\ \A d \in Consumers : Midway(d)'
    <3>1. /\ UNCHANGED <<status, finished, dead>>
          /\ cpc[c] = "idle" /\ cpc'[c] = "popped"
      BY <2>2 DEF Pop, TypeOK
    <3>2. \A j \in Jobs : Alive(j) => Alive(j)'
      BY <1>8, <2>2, <3>1, AliveStays DEF Complete, Bury
    <3>3. \A j \in Jobs \ DelayedJobs : Honest(j)'
      BY <1>3, <2>0, <3>1, <3>2 DEF Honest
    <3>4. ASSUME NEW d \in Consumers
          PROVE  Midway(d)'
      <4>1. CASE d = c \/ cpc[d] = "idle"
        BY <2>0, <3>1, <4>1 DEF Midway
      <4>2. CASE d # c /\ cpc[d] # "idle"
        <5>1. PICK j \in Jobs : j = held[d].job
          BY <1>3, <4>2
        <5>2. cpc[d] = "rescheduled" /\ j \notin DelayedJobs => Alive(j)'
          BY <1>3, <3>2, <5>1 DEF Midway
        <5> QED
          BY <1>3, <2>0, <3>1, <4>2, <5>1, <5>2 DEF Midway, Alive
      <4> QED
        BY <4>1, <4>2
    <3> QED
      BY <3>3, <3>4
  <2>3. CASE cpc[c] # "idle"
    <3>1. PICK j \in Jobs : j = held[c].job
      BY <1>3, <2>3
    \* c is the only one that holds its job
    <3>2. \A d \in Consumers \ {c} : cpc[d] # "idle" => held[d].job # j
      BY <2>3, <3>1, OneWorker DEF Places
    <3>3. \A i \in Jobs \ {j} :
            status'[i] = status[i] /\ dead'[i] = dead[i] /\ (finished[i] => finished'[i])
      BY <1>8, <3>1 DEF TypeOK, Worker, FindEmpty, Pop, Start, HandlerReturns, HandlerRaises,
                        Complete, Reschedule, Bury, RecordFailure, SetStatus
    <3>4. \A i \in Jobs \ {j} : Alive(i) => Alive(i)'
      BY <1>8, <3>1, AliveStays
    <3>5. \A i \in (Jobs \ DelayedJobs) \ {j} : Honest(i)'
      BY <1>3, <2>0, <3>1, <3>3, <3>4 DEF Honest
    <3>6. ASSUME NEW d \in Consumers \ {c}
          PROVE  Midway(d)'
      <4>1. CASE cpc[d] = "idle"
        BY <2>0, <4>1 DEF Midway
      <4>2. CASE cpc[d] # "idle"
        <5>1. PICK i \in Jobs \ {j} : i = held[d].job
          BY <1>3, <3>2, <4>2
        <5>2. cpc[d] = "rescheduled" /\ i \notin DelayedJobs => Alive(i)'
          BY <1>3, <3>4, <5>1 DEF Midway
        <5> QED
          BY <1>3, <2>0, <3>3, <4>2, <5>1, <5>2 DEF Midway, Alive
      <4> QED
        BY <4>1, <4>2
    <3>7. ASSUME j \notin DelayedJobs
          PROVE  Honest(j)' /\ Midway(c)'
      <4>1. /\ cpc[c] \in {"running", "succeeded", "raised"} => status[j] = "running"
            /\ cpc[c] = "rescheduled" => Alive(j)
            /\ cpc[c] = "buried" => dead[j] > 0
        BY <1>3, <3>1, <3>7 DEF Midway
      <4>2. CASE Start(c) \/ HandlerReturns(c) \/ HandlerRaises(c)
        <5>1. /\ status'[j] = "running" /\ held'[c].job = j
              /\ cpc'[c] \in {"running", "succeeded", "raised"}
          BY <3>1, <4>1, <4>2 DEF TypeOK, Start, HandlerReturns, HandlerRaises, SetStatus
        <5> QED
          BY <5>1 DEF Honest, Midway
      <4>3. CASE Complete(c)
        <5>1. status'[j] = "completed" /\ finished'[j] /\ cpc'[c] = "idle"
          BY <3>1, <4>3 DEF TypeOK, Complete, SetStatus, LetGo
        <5> QED
          BY <5>1 DEF Honest, Midway
      <4>4. ASSUME NEW text \in Errors, Reschedule(c, text)
            PROVE  Honest(j)' /\ Midway(c)'
        <5>1. /\ status'[j] = "running" /\ held'[c].job = j /\ cpc'[c] = "rescheduled"
              /\ cpc[c] = "raised"
          BY <3>1, <4>1, <4>4 DEF TypeOK, Reschedule
        <5>2. Alive(j)
          BY <3>1, <5>1 DEF Alive, InHand
        <5>3. Alive(j)'
          BY <1>8, <4>4, <5>1, <5>2, AliveStays DEF Complete, Bury, Reschedule
        <5> QED
          BY <5>1, <5>3 DEF Honest, Midway, Alive
      <4>5. CASE Bury(c)
        <5>1. /\ status'[j] = "running" /\ held'[c].job = j /\ cpc'[c] = "buried"
              /\ dead'[j] > 0
          BY <3>1, <4>1, <4>5 DEF TypeOK, Bury
        <5> QED
          BY <5>1 DEF Honest, Midway
      <4>6. CASE RecordFailure(c)
        <5>1. /\ cpc'[c] = "idle" /\ dead' = dead
              /\ \/ cpc[c] = "buried" /\ status'[j] = "failed"
                 \/ cpc[c] = "rescheduled" /\ status'[j] = "retrying"
          BY <3>1, <4>6 DEF TypeOK, RecordFailure, OutcomeStatus, SetStatus, LetGo
        <5>2. Alive(j) => Alive(j)'
          BY <1>8, <4>6, <5>1, AliveStays DEF Complete, Bury
        <5> QED
          BY <4>1, <5>1, <5>2 DEF Honest, Midway
      <4> QED
        BY <1>8, <2>3, <4>2, <4>3, <4>4, <4>5, <4>6 DEF Worker, FindEmpty, Pop
    <3>8. j \in DelayedJobs => Midway(c)'
      <4>1. cpc'[c] = "idle" \/ held'[c].job = j
        BY <1>8, <2>3, <3>1 DEF TypeOK, Worker, FindEmpty, Pop, Start, HandlerReturns,
                 HandlerRaises, Complete, Reschedule, Bury, RecordFailure, LetGo
      <4> QED
        BY <4>1 DEF Midway
    <3> QED
      BY <3>5, <3>6, <3>7, <3>8
  <2>4. CASE cpc[c] = "idle"
    BY <1>8, <2>1, <2>2, <2>4 DEF Worker, Start, HandlerReturns, HandlerRaises, Complete,
                                  Reschedule, Bury, RecordFailure
  <2> QED
    BY <2>3, <2>4
<1> QED
  BY <1>4, <1>6, <1>7, <1>8, NoFaultStep DEF Next, Producer, Cancel, TypeOK

\* With one process, nobody calling cancel() and while nothing fails, the status hash of a
\* job enqueued without a delay tells where the job is.
THEOREM StatusAlwaysHonest ==
  ASSUME OneProcess, "evict" \notin FaultKinds, MaxCancels = 0
  PROVE  Spec => []StatusIsHonest
<1>1. Init => HonestInv
  BY DEF Init, HonestInv, OnlyDelayedPark, Honest, Midway
<1>2. TypeOK /\ Places /\ HonestInv /\ [Next]_vars => HonestInv'
  BY HonestStep, ConstantsAssumption
<1>3. TypeOK /\ Places /\ HonestInv => StatusIsHonest
  <2> SUFFICES ASSUME TypeOK, Places, HonestInv, NEW j \in Jobs \ DelayedJobs, faults = 0
               PROVE  /\ status[j] = "running" =>
                           \E c \in Consumers : cpc[c] # "idle" /\ held[c].job = j
                      /\ status[j] = "completed" => finished[j] /\ ~ Alive(j)
                      /\ status[j] = "failed" => dead[j] > 0 /\ ~ Alive(j)
                      /\ status[j] = "retrying" => Alive(j)
    BY DEF StatusIsHonest
  <2>1. Honest(j)
    BY DEF HonestInv
  <2>2. Alive(j) => dead[j] = 0 /\ ~ finished[j]
    BY AliveIsOpen
  <2> QED
    BY <2>1, <2>2 DEF Honest, TypeOK
<1> QED
  BY <1>1, <1>2, <1>3, TypeCorrect, OnePlace, PTL DEF Spec

-----------------------------------------------------------------------------
(* What is final.  Nobody is left that could write the status of a job     *)
(* that is closed: no copy of it is in Redis or in the promoter's memory,  *)
(* no consumer is at work on it or about to record its failure, and its    *)
(* enqueue is past the last write.                                         *)

OnlyCrashes == FaultKinds \subseteq {"crash"}

Closed(j) ==
  /\ enq[j] \notin {"new", "announced"}
  /\ \A e \in InRedis : e.job # j
  /\ \A p \in Processes : ppc[p] = "removed" => lifted[p].job # j
  /\ \A c \in Consumers : cpc[c] # "idle" => held[c].job # j

Reported(j) == status[j] \in {"completed", "failed"}

BuriedIsDead == \A c \in Consumers : cpc[c] = "buried" => dead[held[c].job] > 0

FinalInv ==
  /\ OnlyDelayedPark
  /\ BuriedIsDead
  /\ \A j \in Jobs \ DelayedJobs : Reported(j) => Closed(j)

\* A closed job stays closed and keeps its status, and a job is closed by the step that
\* reports it.
Settles(j) ==
  /\ Closed(j) => status'[j] = status[j] /\ Closed(j)'
  /\ status'[j] = status[j] \/ ~ Reported(j)' \/ Closed(j)'

LEMMA SettlesProducer ==
  ASSUME ConstantsAssumption, TypeOK, OnlyDelayedPark, MaxCancels = 0,
         NEW j \in Jobs \ DelayedJobs, NEW i \in Jobs,
         EnqueueStatus(i) \/ EnqueueAdd(i) \/ EnqueueParked(i) \/ EnqueueAborts(i) \/ Cancel(i)
  PROVE  Settles(j)
<1> USE DEF consumerVars, promoterVars, SetStatus
<1>1. UNCHANGED <<cpc, held, ppc, lifted>> /\ ~ Cancel(i)
  BY DEF EnqueueStatus, EnqueueAdd, EnqueueParked, EnqueueAborts, Cancel, TypeOK
<1>2. CASE EnqueueAdd(i)
  <2>1. FreshEntry(i).job = i
    BY FreshIsEntry
  <2>2. /\ status' = status /\ InRedis' = InRedis \cup {FreshEntry(i)}
        /\ enq[i] = "announced" /\ enq'[i] \notin {"new", "announced"}
        /\ \A k \in Jobs \ {i} : enq'[k] = enq[k]
    BY <1>2 DEF EnqueueAdd, TypeOK, InRedis
  <2> QED
    BY <1>1, <2>1, <2>2 DEF Settles, Closed
<1>3. CASE ~ EnqueueAdd(i)
  <2>1. /\ UNCHANGED <<queue, delayed>>
        /\ \A k \in Jobs \ {i} : enq'[k] = enq[k] /\ status'[k] = status[k]
        /\ \/ enq[i] = "new" /\ status'[i] = "pending"
           \/ enq'[i] \notin {"new", "announced"} /\ (status' = status \/ i \in DelayedJobs)
    BY <1>1, <1>3 DEF EnqueueStatus, EnqueueParked, EnqueueAborts, TypeOK, OnlyDelayedPark
  <2> QED
    BY <1>1, <2>1 DEF Settles, Closed, Reported, InRedis
<1> QED
  BY <1>2, <1>3

\* A consumer writes the status of the job it holds, and reports it when it lets it go.
LEMMA SettlesConsumer ==
  ASSUME ConstantsAssumption, OneProcess, TypeOK, Places, BuriedIsDead,
         NEW j \in Jobs, NEW c \in Consumers, Worker(c)
  PROVE  Settles(j)
<1> USE DEF promoterVars, SetStatus
<1>0. /\ \A d \in Consumers \ {c} : cpc'[d] = cpc[d] /\ held'[d] = held[d]
      /\ UNCHANGED <<enq, ppc, lifted>>
  BY DEF TypeOK, Worker, FindEmpty, Pop, Start, HandlerReturns, HandlerRaises, Complete,
         Reschedule, Bury, RecordFailure, LetGo
<1>1. cpc[c] # "idle" => held[c].job \in Jobs
  BY DEF TypeOK, Entry
<1>2. ASSUME NEW t \in Types, FindEmpty(c, t)
      PROVE  Settles(j)
  BY <1>2 DEF FindEmpty, Settles, Closed, InRedis
<1>3. ASSUME NEW e \in queue, Pop(c, e)
      PROVE  Settles(j)
  <2>1. status' = status /\ held'[c] = e /\ e \in InRedis /\ InRedis' \subseteq InRedis
    BY <1>3 DEF Pop, TypeOK, InRedis
  <2> QED
    BY <1>0, <2>1 DEF Settles, Closed
<1>4. CASE Start(c) \/ HandlerReturns(c) \/ HandlerRaises(c) \/ Bury(c)
  <2>1. /\ cpc[c] # "idle" /\ held' = held /\ InRedis' = InRedis
        /\ \A k \in Jobs : status'[k] = status[k] \/ (k = held[c].job /\ status'[k] = "running")
    BY <1>4 DEF Start, HandlerReturns, HandlerRaises, Bury, TypeOK, InRedis
  <2> QED
    BY <1>0, <2>1 DEF Settles, Closed, Reported
<1>5. ASSUME NEW text \in Errors, Reschedule(c, text)
      PROVE  Settles(j)
  <2>1. /\ cpc[c] # "idle" /\ held' = held /\ status' = status
        /\ InRedis' = InRedis \cup {Retry(c, text)} /\ Retry(c, text).job = held[c].job
    BY <1>5 DEF Reschedule, Retry, InRedis
  <2> QED
    BY <1>0, <2>1 DEF Settles, Closed
\* the two steps that let a job go: no one else has it
<1>6. CASE Complete(c) \/ RecordFailure(c)
  <2>1. /\ cpc[c] \in {"succeeded", "rescheduled", "buried"} /\ cpc'[c] = "idle"
        /\ InRedis' = InRedis
        /\ \A k \in Jobs \ {held[c].job} : status'[k] = status[k]
        /\ cpc[c] = "rescheduled" => status'[held[c].job] = "retrying"
    BY <1>1, <1>6 DEF Complete, RecordFailure, LetGo, OutcomeStatus, TypeOK, InRedis
  <2>2. ASSUME held[c].job = j, cpc[c] \in {"succeeded", "buried"}
        PROVE  Closed(j)'
    <3>1. \A d \in Consumers \ {c} : cpc[d] # "idle" => held[d].job # j
      BY <2>2, OneWorker DEF Places
    <3>2. CASE cpc[c] = "succeeded"
      <4>1. /\ enq[j] \notin {"new", "announced"}
            /\ \A e \in InRedis : e.job # j
            /\ \A p \in Processes : ppc[p] = "removed" => lifted[p].job # j
        BY <2>2, <3>2 DEF Places, Counted, Claims, WorkedAlone, Works
      <4> QED
        BY <1>0, <2>1, <3>1, <4>1 DEF Closed
    <3>3. CASE cpc[c] = "buried"
      <4>1. dead[j] > 0 /\ dead[j] # 0
        BY <2>2, <3>3 DEF BuriedIsDead, TypeOK
      <4>2. /\ enq[j] \notin {"new", "announced"}
            /\ \A e \in InRedis : e.job # j
            /\ \A p \in Processes : ppc[p] = "removed" => lifted[p].job # j
        BY <4>1 DEF Places, Unborn, Counted, Claims
      <4> QED
        BY <1>0, <2>1, <3>1, <4>2 DEF Closed
    <3> QED
      BY <2>2, <3>2, <3>3
  <2>3. held[c].job # j => (Closed(j) => Closed(j)')
    BY <1>0, <2>1 DEF Closed
  <2> QED
    BY <2>1, <2>2, <2>3 DEF Settles, Closed, Reported
<1> QED
  BY <1>2, <1>3, <1>4, <1>5, <1>6 DEF Worker

LEMMA SettlesPromoter ==
  ASSUME TypeOK, Places, NEW j \in Jobs, NEW p \in Processes, Promoter(p)
  PROVE  Settles(j)
<1> USE DEF consumerVars
<1>1. UNCHANGED <<status, enq, cpc, held>>
  BY DEF Promoter, PromoterReads, PromoterRemoves, PromoterPushes
<1>2. ASSUME Closed(j)
      PROVE  /\ \A e \in InRedis' : e.job # j
             /\ \A q \in Processes : ppc'[q] = "removed" => lifted'[q].job # j
  <2>1. ASSUME NEW e \in delayed, PromoterReads(p, e)
        PROVE  /\ InRedis' = InRedis
               /\ \A q \in Processes : ppc'[q] = "removed" =>
                    ppc[q] = "removed" /\ lifted'[q] = lifted[q]
    BY <2>1 DEF PromoterReads, InRedis, TypeOK
  <2>2. CASE PromoterRemoves(p)
    <3>1. lifted[p] \in InRedis /\ InRedis' \subseteq InRedis /\ lifted' = lifted
      BY <2>2 DEF PromoterRemoves, InRedis, Places, PromotedAlone
    <3>2. \A q \in Processes : ppc'[q] = "removed" => ppc[q] = "removed" \/ q = p
      BY <2>2 DEF PromoterRemoves, TypeOK
    <3> QED
      BY <1>2, <3>1, <3>2 DEF Closed
  <2>3. CASE PromoterPushes(p)
    <3>1. /\ ppc[p] = "removed" /\ InRedis' = InRedis \cup {lifted[p]}
          /\ \A q \in Processes : ppc'[q] = "removed" =>
               ppc[q] = "removed" /\ lifted'[q] = lifted[q]
      BY <2>3 DEF PromoterPushes, InRedis, TypeOK
    <3> QED
      BY <1>2, <3>1 DEF Closed
  <2> QED
    BY <1>2, <2>1, <2>2, <2>3 DEF Promoter, Closed
<1> QED
  BY <1>1, <1>2 DEF Settles, Closed

LEMMA SettlesCrash ==
  ASSUME TypeOK, NEW j \in Jobs, NEW p \in Processes, Crash(p)
  PROVE  Settles(j)
<1>1. /\ UNCHANGED <<status, queue, delayed, enq>>
      /\ \A c \in Consumers : \/ cpc'[c] = "idle"
                              \/ cpc'[c] = cpc[c] /\ held'[c] = held[c]
      /\ \A q \in Processes : \/ ppc'[q] = "idle"
                              \/ ppc'[q] = ppc[q] /\ lifted'[q] = lifted[q]
  BY DEF Crash, TypeOK
<1> QED
  BY <1>1 DEF Settles, Closed, InRedis

\* When only crashes disturb the queue
LEMMA OnlyCrashSteps ==
  ASSUME OnlyCrashes, Disturbance
  PROVE  (\E i \in Jobs : EnqueueAborts(i) \/ Cancel(i)) \/ (\E p \in Processes : Crash(p))
BY DEF OnlyCrashes, Disturbance, Fault, PopRaises, StartRaises, CompleteRaises, FailRaises,
       PromoterRaises, Evict

LEMMA SettlesStep ==
  ASSUME ConstantsAssumption, OneProcess, OnlyCrashes, MaxCancels = 0, TypeOK, Places, FinalInv,
         [Next]_vars, NEW j \in Jobs \ DelayedJobs
  PROVE  Settles(j)
<1> USE DEF FinalInv
<1>1. CASE Producer
  BY <1>1, SettlesProducer DEF Producer
<1>2. CASE \E c \in Consumers : Worker(c)
  BY <1>2, SettlesConsumer
<1>3. CASE \E p \in Processes : Promoter(p)
  BY <1>3, SettlesPromoter
<1>4. CASE Disturbance
  BY <1>4, OnlyCrashSteps, SettlesProducer, SettlesCrash
<1>5. CASE UNCHANGED vars
  BY <1>5 DEF vars, consumerVars, promoterVars, Settles, Closed, InRedis
<1> QED
  BY <1>1, <1>2, <1>3, <1>4, <1>5 DEF Next

LEMMA BuriedStep ==
  ASSUME ConstantsAssumption, OnlyCrashes, TypeOK, BuriedIsDead, [Next]_vars
  PROVE  BuriedIsDead'
<1> USE DEF consumerVars, promoterVars, history
\* no step but an eviction takes a dead letter away
<1>1. ASSUME \A i \in Jobs : dead[i] > 0 => dead'[i] > 0,
             \A c \in Consumers : cpc'[c] = "buried" =>
               \/ cpc[c] = "buried" /\ held'[c] = held[c]
               \/ dead'[held'[c].job] > 0
      PROVE  BuriedIsDead'
  <2>1. \A c \in Consumers : cpc[c] = "buried" => held[c].job \in Jobs
    BY DEF TypeOK, Entry
  <2> QED
    BY <1>1, <2>1 DEF BuriedIsDead
<1>2. CASE Producer \/ (\E i \in Jobs : EnqueueAborts(i) \/ Cancel(i)) \/ UNCHANGED vars
  <2>1. UNCHANGED <<dead, cpc, held>>
    BY <1>2 DEF Producer, EnqueueStatus, EnqueueAdd, EnqueueParked, EnqueueAborts, Cancel, vars
  <2> QED
    BY <2>1 DEF BuriedIsDead
<1>3. ASSUME NEW c \in Consumers, Worker(c)
      PROVE  BuriedIsDead'
  <2>1. \A d \in Consumers \ {c} : cpc'[d] = cpc[d] /\ held'[d] = held[d]
    BY <1>3 DEF TypeOK, Worker, FindEmpty, Pop, Start, HandlerReturns, HandlerRaises, Complete,
                Reschedule, Bury, RecordFailure, LetGo
  <2>2. CASE Bury(c)
    <3>1. /\ held[c].job \in Jobs /\ held' = held
          /\ dead' = [dead EXCEPT ![held[c].job] = @ + 1]
      BY <2>2 DEF Bury, TypeOK, Entry
    <3>2. dead'[held'[c].job] > 0 /\ \A i \in Jobs : dead[i] > 0 => dead'[i] > 0
      BY <3>1 DEF TypeOK
    <3> QED
      BY <1>1, <2>1, <3>2
  <2>3. CASE ~ Bury(c)
    <3>1. dead' = dead /\ (cpc'[c] = "buried" => cpc[c] = "buried" /\ held'[c] = held[c])
      BY <1>3, <2>3 DEF TypeOK, Worker, FindEmpty, Pop, Start, HandlerReturns, HandlerRaises,
                        Complete, Reschedule, RecordFailure, LetGo
    <3> QED
      BY <1>1, <2>1, <3>1
  <2> QED
    BY <2>2, <2>3
<1>4. ASSUME NEW p \in Processes, Promoter(p)
      PROVE  BuriedIsDead'
  <2>1. UNCHANGED <<dead, cpc, held>>
    BY <1>4 DEF Promoter, PromoterReads, PromoterRemoves, PromoterPushes
  <2> QED
    BY <2>1 DEF BuriedIsDead
<1>5. ASSUME NEW p \in Processes, Crash(p)
      PROVE  BuriedIsDead'
  <2>1. /\ dead' = dead
        /\ \A c \in Consumers : \/ cpc'[c] = "idle"
                                \/ cpc'[c] = cpc[c] /\ held'[c] = held[c]
    BY <1>5 DEF Crash, TypeOK
  <2> QED
    BY <1>1, <2>1
<1> QED
  BY <1>2, <1>3, <1>4, <1>5, OnlyCrashSteps DEF Next

LEMMA ParkedStep ==
  ASSUME TypeOK, OnlyDelayedPark, [Next]_vars
  PROVE  OnlyDelayedPark'
<1>1. \A i \in Jobs : enq'[i] = "parked" => enq[i] = "parked" \/ i \in DelayedJobs
  BY DEF TypeOK, Next, vars, Producer, Worker, Promoter, Disturbance, EnqueueStatus, EnqueueAdd,
     EnqueueParked, EnqueueAborts, Cancel, FindEmpty, Pop, PopRaises, Start, StartRaises,
     HandlerReturns, HandlerRaises, Complete, CompleteRaises, Reschedule, Bury, RecordFailure,
     FailRaises, PromoterReads, PromoterRemoves, PromoterPushes, PromoterRaises, Crash, Evict
<1> QED
  BY <1>1 DEF OnlyDelayedPark

LEMMA FinalStep ==
  ASSUME ConstantsAssumption, OneProcess, OnlyCrashes, MaxCancels = 0, TypeOK, Places, FinalInv,
         [Next]_vars
  PROVE  FinalInv'
<1>1. OnlyDelayedPark' /\ BuriedIsDead'
  BY ParkedStep, BuriedStep DEF FinalInv
<1>2. ASSUME NEW j \in Jobs \ DelayedJobs, Reported(j)'
      PROVE  Closed(j)'
  <2>1. Settles(j)
    BY SettlesStep
  <2>2. status'[j] = status[j] => Reported(j)
    BY <1>2 DEF Reported
  <2> QED
    BY <1>2, <2>1, <2>2 DEF Settles, FinalInv
<1> QED
  BY <1>1, <1>2 DEF FinalInv

\* With one process, whatever crashes, COMPLETED and FAILED are the last word on a job that
\* was enqueued without a delay: nothing that could write its status is left behind.
THEOREM TerminalStaysFinal ==
  ASSUME OneProcess, OnlyCrashes, MaxCancels = 0
  PROVE  Spec => TerminalIsFinal
<1>1. Init => FinalInv
  BY DEF Init, FinalInv, OnlyDelayedPark, BuriedIsDead, Reported
<1>2. TypeOK /\ Places /\ FinalInv /\ [Next]_vars => FinalInv'
  BY FinalStep, ConstantsAssumption
<1>3. TypeOK /\ Places /\ FinalInv /\ [Next]_vars =>
        [\A j \in Jobs \ DelayedJobs :
           status[j] \in {"completed", "failed"} => status'[j] = status[j]]_status
  BY SettlesStep, ConstantsAssumption DEF FinalInv, Settles, Reported
<1>4. "evict" \notin FaultKinds
  BY DEF OnlyCrashes
<1> QED
  BY <1>1, <1>2, <1>3, <1>4, TypeCorrect, OnePlace, PTL DEF Spec, TerminalIsFinal

-----------------------------------------------------------------------------
(* The refinement: each step is a step of JobLifecycle for the job whose   *)
(* copy it moves, loses those that were in hand, or changes no phase.      *)

Active(j) == WorkedOn({"popped", "running", "succeeded"}, j)
Failing(j) == WorkedOn({"raised"}, j)
Gone(j) == ~ Waits(j) /\ ~ Active(j) /\ ~ Failing(j)
Submitted(j) == enq[j] \notin {"new", "announced"}

PhaseFacts(j) ==
  /\ Waits(j) => PhaseOf(j) = "waiting"
  /\ Active(j) => PhaseOf(j) = "active" /\ ~ Waits(j)
  /\ Failing(j) => PhaseOf(j) = "failed" /\ ~ Waits(j) /\ ~ Active(j)
  /\ ~ Gone(j) => dead[j] = 0 /\ ~ finished[j] /\ Submitted(j)
  /\ Gone(j) =>
       PhaseOf(j) = IF dead[j] > 0 THEN "buried"
                    ELSE IF finished[j] THEN "finished"
                    ELSE IF Submitted(j) THEN "lost" ELSE "new"

LEMMA Phases == OneProcess /\ TypeOK /\ Places => \A j \in Jobs : PhaseFacts(j)
<1> SUFFICES ASSUME OneProcess, TypeOK, Places, NEW j \in Jobs
             PROVE  PhaseFacts(j)
  OBVIOUS
<1>1. Waits(j) => PhaseOf(j) = "waiting"
  BY DEF PhaseOf
<1>2. Active(j) => ~ Waits(j)
  BY DEF Active, WorkedOn, InHand, Waits, Removed, Places, WorkedAlone, Works, InRedis
<1>3. Failing(j) => ~ Waits(j)
  BY DEF Failing, WorkedOn, InHand, Waits, Removed, Places, WorkedAlone, Works, InRedis
<1>4. Failing(j) => ~ Active(j)
  BY OneWorker DEF Active, Failing, WorkedOn, InHand, Places
<1>5. Active(j) => PhaseOf(j) = "active"
  BY <1>2 DEF PhaseOf, Active
<1>6. Failing(j) => PhaseOf(j) = "failed"
  BY <1>3, <1>4 DEF PhaseOf, Active, Failing
<1>7. ~ Gone(j) => dead[j] = 0 /\ ~ finished[j] /\ Submitted(j)
  BY DEF Gone, Submitted, Waits, Removed, Active, Failing, WorkedOn, InHand, Places, Counted,
         Claims, InRedis
<1>8. Gone(j) =>
       PhaseOf(j) = IF dead[j] > 0 THEN "buried"
                    ELSE IF finished[j] THEN "finished"
                    ELSE IF Submitted(j) THEN "lost" ELSE "new"
  BY DEF Gone, PhaseOf, Active, Failing, Submitted
<1> QED
  BY <1>1, <1>2, <1>3, <1>4, <1>5, <1>6, <1>7, <1>8 DEF PhaseFacts

LEMMA PhasesNext == (OneProcess /\ TypeOK /\ Places => \A j \in Jobs : PhaseFacts(j))'
BY Phases, PTL

\* A job whose copies and records stay keeps its phase.
LEMMA SamePhase ==
  ASSUME NEW i \in Jobs,
         Waits(i)' <=> Waits(i), Active(i)' <=> Active(i), Failing(i)' <=> Failing(i),
         dead'[i] > 0 <=> dead[i] > 0, finished'[i] <=> finished[i],
         Submitted(i)' <=> Submitted(i)
  PROVE  PhaseOf(i)' = PhaseOf(i)
BY DEF PhaseOf, Active, Failing, Submitted

\* How a change of phases reads in JobLifecycle.
LEMMA LifeStutters ==
  ASSUME \A i \in Jobs : PhaseOf(i)' = PhaseOf(i), fails' = fails
  PROVE  [Life!Next]_(Life!vars)
<1>1. [i \in Jobs |-> PhaseOf(i)]' = [i \in Jobs |-> PhaseOf(i)]
  OBVIOUS
<1> QED
  BY <1>1 DEF Life!vars

LEMMA LifeMoves ==
  ASSUME NEW j \in Jobs, \A i \in Jobs \ {j} : PhaseOf(i)' = PhaseOf(i)
  PROVE  Life!Move(j, PhaseOf(j), PhaseOf(j)')
BY DEF Life!Move

LEMMA LifeLoses ==
  ASSUME TypeOK, fails' = fails, NEW kind, Fault(kind),
         \A i \in Jobs : \/ PhaseOf(i)' = PhaseOf(i)
                         \/ PhaseOf(i)' = "lost" /\ PhaseOf(i) # "finished"
  PROVE  [Life!Next]_(Life!vars)
<1> DEFINE S == {i \in Jobs : PhaseOf(i)' # PhaseOf(i)}
<1>1. FaultKinds # {} /\ MaxFaults > 0
  BY ConstantsAssumption DEF Fault, TypeOK, ConstantsAssumption
<1>2. \A i \in S : [k \in Jobs |-> PhaseOf(k)][i] # "finished"
  OBVIOUS
<1>3. [i \in Jobs |-> PhaseOf(i)]'
        = [i \in Jobs |-> IF i \in S THEN "lost" ELSE [k \in Jobs |-> PhaseOf(k)][i]]
  OBVIOUS
<1>4. S \in SUBSET Jobs /\ Life!Lose(S)
  BY <1>1, <1>2, <1>3 DEF Life!Lose
<1> HIDE DEF S
<1> QED
  BY <1>4 DEF Life!Next

LEMMA LifeProducer ==
  ASSUME ConstantsAssumption, OneProcess, TypeOK, Places, TypeOK', Places', NEW j \in Jobs,
         EnqueueStatus(j) \/ EnqueueAdd(j) \/ EnqueueParked(j) \/ EnqueueAborts(j) \/ Cancel(j)
  PROVE  [Life!Next]_(Life!vars)
<1> USE DEF consumerVars, promoterVars, history
<1>1. UNCHANGED <<dead, cpc, held, ppc, lifted, fails, finished>>
  BY DEF EnqueueStatus, EnqueueAdd, EnqueueParked, EnqueueAborts, Cancel
<1>2. \A i \in Jobs : (Active(i)' <=> Active(i)) /\ (Failing(i)' <=> Failing(i))
  BY <1>1 DEF Active, Failing, WorkedOn, InHand
<1>3. /\ \A i \in Jobs : PhaseFacts(i)
      /\ \A i \in Jobs : PhaseFacts(i)'
  BY Phases, PhasesNext
<1>4. CASE EnqueueAdd(j)
  <2>1. PICK f : f = FreshEntry(j)
    OBVIOUS
  <2>2. /\ f.job = j
        /\ \/ queue' = queue \cup {f} /\ delayed' = delayed
           \/ delayed' = delayed \cup {f} /\ queue' = queue
    BY <1>4, <2>1, FreshIsEntry DEF EnqueueAdd
  <2>3. \A i \in Jobs \ {j} : Waits(i)' <=> Waits(i)
    BY <1>1, <2>2 DEF Waits, Removed
  <2>4. \A i \in Jobs \ {j} : enq'[i] = enq[i]
    BY <1>4 DEF EnqueueAdd, TypeOK
  <2>5. \A i \in Jobs \ {j} : PhaseOf(i)' = PhaseOf(i)
    BY <1>1, <1>2, <2>3, <2>4, SamePhase DEF Submitted
  <2>6. PhaseOf(j) = "new"
    <3>1. enq[j] = "announced" /\ dead[j] = 0 /\ ~ finished[j]
      BY <1>4 DEF EnqueueAdd, Places, Unborn
    <3> QED
      BY <1>3, <3>1 DEF PhaseFacts, Submitted
  <2>7. Waits(j)'
    BY <2>2 DEF Waits
  <2>8. PhaseOf(j)' = "waiting"
    BY <1>3, <2>7 DEF PhaseFacts
  <2>9. Life!Submit(j)
    BY <1>1, <2>5, <2>6, <2>8, LifeMoves DEF Life!Submit
  <2> QED
    BY <2>9 DEF Life!Next
<1>5. CASE ~ EnqueueAdd(j)
  <2>1. \A i \in Jobs : Waits(i)' <=> Waits(i)
    <3>1. queue' = queue /\ delayed' = delayed
      BY <1>5 DEF EnqueueStatus, EnqueueAdd, EnqueueParked, EnqueueAborts, Cancel
    <3> QED
      BY <1>1, <3>1 DEF Waits, Removed
  <2>2. ASSUME NEW i \in Jobs, Submitted(i)' <=> Submitted(i)
        PROVE  PhaseOf(i)' = PhaseOf(i)
    BY <1>1, <1>2, <2>1, <2>2, SamePhase
  <2>3. CASE EnqueueStatus(j) \/ EnqueueParked(j) \/ Cancel(j)
    <3>1. \A i \in Jobs : Submitted(i)' <=> Submitted(i)
      BY <2>3 DEF Submitted, EnqueueStatus, EnqueueParked, Cancel, TypeOK
    <3> QED
      BY <1>1, <2>2, <3>1, LifeStutters
  <2>4. CASE EnqueueAborts(j)
    <3>1. PICK kind : Fault(kind)
      BY <2>4 DEF EnqueueAborts
    <3>2. \A i \in Jobs \ {j} : Submitted(i)' <=> Submitted(i)
      BY <2>4 DEF Submitted, EnqueueAborts, TypeOK
    <3>3. Submitted(j)'
      BY <2>4 DEF Submitted, EnqueueAborts, TypeOK
    <3>4. CASE Submitted(j)
      BY <1>1, <2>2, <3>2, <3>3, <3>4, LifeStutters
    <3>5. CASE ~ Submitted(j)
      <4>1. dead[j] = 0 /\ ~ finished[j]
        BY <3>5 DEF Places, Unborn, Submitted
      <4>2. Gone(j) /\ Gone(j)'
        BY <1>2, <1>3, <2>1, <3>5 DEF PhaseFacts, Gone
      <4>3. PhaseOf(j) = "new" /\ PhaseOf(j)' = "lost"
        BY <1>1, <1>3, <3>3, <3>5, <4>1, <4>2 DEF PhaseFacts
      <4> QED
        BY <1>1, <2>2, <3>1, <3>2, <4>3, LifeLoses
    <3> QED
      BY <3>4, <3>5
  <2> QED
    BY <1>5, <2>3, <2>4
<1> QED
  BY <1>4, <1>5

\* What a step of consumer c does to the phases of jobs it neither takes nor holds.
LEMMA OtherJobs ==
  ASSUME TypeOK, NEW c \in Consumers, NEW j \in Jobs,
         UNCHANGED <<enq, ppc, lifted>>,
         \A d \in Consumers \ {c} : cpc'[d] = cpc[d] /\ held'[d] = held[d],
         cpc[c] # "idle" => held[c].job = j,
         cpc'[c] # "idle" => held'[c].job = j,
         \A e \in InRedis' : e \in InRedis \/ e.job = j,
         \A e \in InRedis : e \in InRedis' \/ e.job = j,
         NEW i \in Jobs \ {j}, dead'[i] = dead[i], finished'[i] <=> finished[i]
  PROVE  PhaseOf(i)' = PhaseOf(i)
<1>1. Waits(i)' <=> Waits(i)
  BY DEF Waits, Removed, InRedis
<1>2. Active(i)' <=> Active(i)
  BY DEF Active, WorkedOn, InHand
<1>3. Failing(i)' <=> Failing(i)
  BY DEF Failing, WorkedOn, InHand
<1>4. Submitted(i)' <=> Submitted(i)
  BY DEF Submitted
<1> QED
  BY <1>1, <1>2, <1>3, <1>4, SamePhase

\* The phases of the job a consumer takes or holds.
LEMMA OwnJob ==
  ASSUME NEW c \in Consumers, NEW j \in Jobs, PhaseFacts(j), held[c].job = j
  PROVE  /\ cpc[c] \in {"popped", "running", "succeeded"} => PhaseOf(j) = "active"
         /\ cpc[c] = "raised" => PhaseOf(j) = "failed"
BY DEF PhaseFacts, Active, Failing, WorkedOn, InHand

LEMMA OwnJobNext ==
  ASSUME NEW c \in Consumers, NEW j \in Jobs, PhaseFacts(j)', held'[c].job = j
  PROVE  /\ cpc'[c] \in {"popped", "running", "succeeded"} => PhaseOf(j)' = "active"
         /\ cpc'[c] = "raised" => PhaseOf(j)' = "failed"
BY DEF PhaseFacts, Active, Failing, WorkedOn, InHand

\* Consumer c, alone with job j, lets go of it: no copy is left.
LEMMA LastCopy ==
  ASSUME OneProcess, TypeOK, Places, NEW c \in Consumers, NEW j \in Jobs, Works(c),
         held[c].job = j, queue' = queue, delayed' = delayed, UNCHANGED <<ppc, lifted>>,
         \A d \in Consumers \ {c} : cpc'[d] = cpc[d] /\ held'[d] = held[d],
         ~ Works(c)'
  PROVE  Gone(j)'
<1>1. \A d \in Consumers : Works(d)' => d # c /\ held'[d].job # j
  BY OneWorker DEF Works, Places
<1>2. ~ Waits(j)'
  BY DEF Places, WorkedAlone, Waits, Removed, InRedis
<1>3. ~ Active(j)' /\ ~ Failing(j)'
  BY <1>1 DEF Active, Failing, WorkedOn, InHand, Works
<1> QED
  BY <1>2, <1>3 DEF Gone

LEMMA LifeConsumer ==
  ASSUME ConstantsAssumption, OneProcess, TypeOK, Places, TypeOK', Places',
         NEW c \in Consumers,
         Worker(c) \/ (\E e \in queue : PopRaises(c, e)) \/ StartRaises(c)
           \/ CompleteRaises(c) \/ FailRaises(c)
  PROVE  [Life!Next]_(Life!vars)
<1> USE DEF promoterVars, history
<1>0. /\ UNCHANGED <<enq, ppc, lifted>>
      /\ \A d \in Consumers \ {c} : cpc'[d] = cpc[d] /\ held'[d] = held[d]
  BY DEF TypeOK, Worker, FindEmpty, Pop, Start, HandlerReturns, HandlerRaises, Complete,
         Reschedule, Bury, RecordFailure, PopRaises, StartRaises, CompleteRaises, FailRaises, LetGo
<1>1. /\ \A i \in Jobs : PhaseFacts(i)
      /\ \A i \in Jobs : PhaseFacts(i)'
  BY Phases, PhasesNext
<1>2. ASSUME NEW t \in Types, FindEmpty(c, t)
      PROVE  [Life!Next]_(Life!vars)
  <2>1. UNCHANGED <<cpc, held, queue, delayed, dead, finished, fails>>
    BY <1>2 DEF FindEmpty
  <2>2. ASSUME NEW i \in Jobs
        PROVE  PhaseOf(i)' = PhaseOf(i)
    <3>1. /\ Waits(i)' <=> Waits(i)
          /\ Active(i)' <=> Active(i)
          /\ Failing(i)' <=> Failing(i)
          /\ Submitted(i)' <=> Submitted(i)
      BY <1>0, <2>1 DEF Waits, Removed, Active, Failing, WorkedOn, InHand, Submitted
    <3> QED
      BY <2>1, <3>1, SamePhase
  <2> QED
    BY <2>1, <2>2, LifeStutters
<1>3. ASSUME NEW e \in queue, Pop(c, e)
      PROVE  [Life!Next]_(Life!vars)
  <2>1. /\ cpc[c] = "idle" /\ cpc'[c] = "popped" /\ held'[c] = e
        /\ queue' = queue \ {e} /\ UNCHANGED <<delayed, dead, finished, fails>>
    BY <1>3 DEF Pop, TypeOK
  <2>2. PICK j \in Jobs : j = e.job
    BY DEF TypeOK, Entry
  <2>3. \A i \in Jobs \ {j} : PhaseOf(i)' = PhaseOf(i)
    BY <1>0, <2>1, <2>2, OtherJobs DEF InRedis
  <2>4. PhaseOf(j) = "waiting"
    BY <1>1, <2>2 DEF PhaseFacts, Waits
  <2>5. PhaseOf(j)' = "active"
    BY <1>1, <2>1, <2>2, OwnJobNext
  <2>6. Life!Start(j)
    BY <2>1, <2>3, <2>4, <2>5, LifeMoves DEF Life!Start
  <2> QED
    BY <2>6 DEF Life!Next
<1>4. ASSUME NEW e \in queue, PopRaises(c, e)
      PROVE  [Life!Next]_(Life!vars)
  <2>1. /\ cpc[c] = "idle" /\ cpc'[c] = "idle" /\ Fault("redis")
        /\ queue' = queue \ {e} /\ UNCHANGED <<delayed, dead, finished, fails>>
    BY <1>4 DEF PopRaises, LetGo, TypeOK
  <2>2. PICK j \in Jobs : j = e.job
    BY DEF TypeOK, Entry
  <2>3. \A i \in Jobs \ {j} : PhaseOf(i)' = PhaseOf(i)
    BY <1>0, <2>1, <2>2, OtherJobs DEF InRedis
  <2>4. PhaseOf(j) = "waiting" /\ dead[j] = 0 /\ ~ finished[j] /\ Submitted(j)
    BY <1>1, <2>2 DEF PhaseFacts, Waits, Gone
  <2>5. Gone(j)'
    <3>1. ~ Waits(j)'
      BY <1>0, <2>1, <2>2 DEF Waits, Removed, Places, OneEntry, PromotedAlone, InRedis
    <3>2. ~ Active(j)' /\ ~ Failing(j)'
      BY <1>0, <2>1, <2>2 DEF Active, Failing, WorkedOn, InHand, Places, WorkedAlone, Works, InRedis
    <3> QED
      BY <3>1, <3>2 DEF Gone
  <2>6. PhaseOf(j)' = "lost"
    BY <1>0, <1>1, <2>1, <2>4, <2>5 DEF PhaseFacts, Submitted
  <2> QED
    BY <2>1, <2>3, <2>4, <2>6, LifeLoses
<1>5. ASSUME cpc[c] # "idle"
      PROVE  [Life!Next]_(Life!vars)
  <2>1. PICK j \in Jobs : j = held[c].job
    BY <1>5 DEF TypeOK, Entry
  <2>2. ASSUME UNCHANGED <<queue, delayed>> \/ (\E r : r.job = j /\ queue' = queue /\ delayed' = delayed \cup {r}),
               cpc'[c] # "idle" => held'[c] = held[c],
               NEW i \in Jobs \ {j}, dead'[i] = dead[i], finished'[i] <=> finished[i]
        PROVE  PhaseOf(i)' = PhaseOf(i)
    <3>1. /\ \A e \in InRedis' : e \in InRedis \/ e.job = j
          /\ \A e \in InRedis : e \in InRedis' \/ e.job = j
      BY <2>2 DEF InRedis
    <3> QED
      BY <1>0, <2>1, <2>2, <3>1, OtherJobs
  <2>3. Works(c) => dead[j] = 0 /\ ~ finished[j] /\ Submitted(j) /\ PhaseOf(j) \in {"active", "failed"}
    <3>1. Works(c) => Active(j) \/ Failing(j)
      BY <2>1 DEF Works, Active, Failing, WorkedOn, InHand
    <3> QED
      BY <1>1, <3>1 DEF PhaseFacts, Gone
  <2>4. CASE Start(c) \/ HandlerReturns(c)
    <3>1. /\ UNCHANGED <<queue, delayed, dead, finished, fails, held>>
          /\ cpc[c] \in {"popped", "running", "succeeded"}
          /\ cpc'[c] \in {"popped", "running", "succeeded"}
      BY <2>4 DEF Start, HandlerReturns, TypeOK
    <3>2. \A i \in Jobs \ {j} : PhaseOf(i)' = PhaseOf(i)
      BY <2>2, <3>1
    <3>3. PhaseOf(j) = "active" /\ PhaseOf(j)' = "active"
      BY <1>1, <2>1, <3>1, OwnJob, OwnJobNext
    <3> QED
      BY <3>1, <3>2, <3>3, LifeStutters
  <2>5. CASE HandlerRaises(c) \/ CompleteRaises(c)
    <3>1. /\ UNCHANGED <<queue, delayed, dead, finished, held>>
          /\ cpc[c] \in {"popped", "running", "succeeded"} /\ cpc'[c] = "raised"
          /\ fails' = [fails EXCEPT ![j] = @ + 1]
      BY <2>1, <2>5 DEF HandlerRaises, CompleteRaises, TypeOK
    <3>2. \A i \in Jobs \ {j} : PhaseOf(i)' = PhaseOf(i)
      BY <2>2, <3>1
    <3>3. PhaseOf(j) = "active" /\ PhaseOf(j)' = "failed"
      BY <1>1, <2>1, <3>1, OwnJob, OwnJobNext
    <3>4. Life!Fail(j)
      BY <3>1, <3>2, <3>3, LifeMoves DEF Life!Fail
    <3> QED
      BY <3>4 DEF Life!Next
  <2>6. CASE Complete(c)
    <3>1. /\ UNCHANGED <<queue, delayed, dead, fails>> /\ cpc[c] = "succeeded" /\ cpc'[c] = "idle"
          /\ finished'[j] /\ \A i \in Jobs \ {j} : finished'[i] <=> finished[i]
      BY <2>1, <2>6 DEF Complete, LetGo, TypeOK
    <3>2. \A i \in Jobs \ {j} : PhaseOf(i)' = PhaseOf(i)
      BY <2>2, <3>1
    <3>3. Gone(j)'
      BY <1>0, <2>1, <3>1, LastCopy DEF Works
    <3>4. PhaseOf(j) = "active" /\ dead[j] = 0
      BY <1>1, <2>1, <2>3, <3>1, OwnJob DEF Works
    <3>5. PhaseOf(j)' = "finished"
      BY <1>1, <3>1, <3>3, <3>4 DEF PhaseFacts
    <3>6. Life!Finish(j)
      BY <3>1, <3>2, <3>4, <3>5, LifeMoves DEF Life!Finish
    <3> QED
      BY <3>6 DEF Life!Next
  \* fail(), which may raise after it has moved the job
  <2>7. ASSUME NEW text \in Errors, cpc[c] = "raised", ~ LastAttempt(c), queue' = queue,
               delayed' = delayed \cup {Retry(c, text)}, UNCHANGED <<dead, finished, fails>>,
               cpc'[c] # "idle" => held'[c] = held[c]
        PROVE  [Life!Next]_(Life!vars)
    <3>1. Retry(c, text).job = j
      BY <2>1 DEF Retry
    <3>2. \A i \in Jobs \ {j} : PhaseOf(i)' = PhaseOf(i)
      BY <2>2, <2>7, <3>1
    <3>3. PhaseOf(j) = "failed"
      BY <1>1, <2>1, <2>7, OwnJob
    <3>4. Waits(j)'
      BY <2>7, <3>1 DEF Waits
    <3>5. PhaseOf(j)' = "waiting"
      BY <1>1, <3>4 DEF PhaseFacts
    <3>6. fails[j] < MaxAttempts
      BY <1>5, <2>1, <2>7 DEF Places, Counted, Claims, LastAttempt, TypeOK, Entry, ConstantsAssumption
    <3>7. Life!Retry(j)
      BY <2>7, <3>2, <3>3, <3>5, <3>6, LifeMoves DEF Life!Retry
    <3> QED
      BY <3>7 DEF Life!Next
  <2>8. ASSUME cpc[c] = "raised", LastAttempt(c), UNCHANGED <<queue, delayed, finished, fails>>,
               dead' = [dead EXCEPT ![held[c].job] = @ + 1],
               cpc'[c] = "idle" \/ (cpc'[c] = "buried" /\ held'[c] = held[c])
        PROVE  [Life!Next]_(Life!vars)
    <3>1. dead'[j] > 0 /\ \A i \in Jobs \ {j} : dead'[i] = dead[i]
      BY <2>1, <2>8 DEF TypeOK
    <3>2. \A i \in Jobs \ {j} : PhaseOf(i)' = PhaseOf(i)
      BY <2>2, <2>8, <3>1
    <3>3. PhaseOf(j) = "failed"
      BY <1>1, <2>1, <2>8, OwnJob
    <3>4. Gone(j)'
      BY <1>0, <2>1, <2>8, LastCopy DEF Works
    <3>5. PhaseOf(j)' = "buried"
      BY <1>1, <3>1, <3>4 DEF PhaseFacts
    <3>6. fails[j] = MaxAttempts
      BY <1>5, <2>1, <2>8 DEF Places, Counted, Claims, LastAttempt, TypeOK, Entry, ConstantsAssumption
    <3>7. Life!Bury(j)
      BY <2>8, <3>2, <3>3, <3>5, <3>6, LifeMoves DEF Life!Bury
    <3> QED
      BY <3>7 DEF Life!Next
  <2>9. ASSUME Works(c), cpc'[c] = "idle", UNCHANGED <<queue, delayed, dead, finished, fails>>,
               Fault("redis")
        PROVE  [Life!Next]_(Life!vars)
    <3>1. \A i \in Jobs \ {j} : PhaseOf(i)' = PhaseOf(i)
      BY <2>2, <2>9
    <3>2. Gone(j)'
      BY <1>0, <2>1, <2>9, LastCopy DEF Works
    <3>3. PhaseOf(j)' = "lost" /\ PhaseOf(j) # "finished"
      BY <1>0, <1>1, <2>3, <2>9, <3>2 DEF PhaseFacts, Submitted
    <3> QED
      BY <2>9, <3>1, <3>3, LifeLoses
  <2>10. ASSUME ~ Works(c), cpc'[c] = "idle", UNCHANGED <<queue, delayed, dead, finished, fails>>
         PROVE  [Life!Next]_(Life!vars)
    <3>1. ASSUME NEW i \in Jobs
          PROVE  PhaseOf(i)' = PhaseOf(i)
      <4>1. Waits(i)' <=> Waits(i)
        BY <1>0, <2>10 DEF Waits, Removed
      <4>2. (Active(i)' <=> Active(i)) /\ (Failing(i)' <=> Failing(i))
        BY <1>0, <2>10 DEF Active, Failing, WorkedOn, InHand, Works
      <4>3. Submitted(i)' <=> Submitted(i)
        BY <1>0 DEF Submitted
      <4> QED
        BY <2>10, <4>1, <4>2, <4>3, SamePhase
    <3> QED
      BY <2>10, <3>1, LifeStutters
  <2>11. ASSUME NEW text \in Errors, Reschedule(c, text)
         PROVE  [Life!Next]_(Life!vars)
    BY <2>7, <2>11 DEF Reschedule
  <2>12. CASE Bury(c)
    BY <2>8, <2>12 DEF Bury, TypeOK
  <2>13. CASE RecordFailure(c)
    BY <2>10, <2>13 DEF RecordFailure, LetGo, TypeOK, Works
  <2>14. CASE StartRaises(c)
    BY <2>9, <2>14 DEF StartRaises, LetGo, TypeOK, Works
  <2>15. CASE FailRaises(c)
    <3>1. /\ cpc'[c] = "idle" /\ UNCHANGED <<queue, finished, fails>> /\ Fault("redis")
      BY <2>15 DEF FailRaises, LetGo, TypeOK
    <3>2. CASE UNCHANGED <<delayed, dead>>
      BY <2>9, <2>10, <3>1, <3>2
    <3>3. ASSUME NEW text \in Errors, cpc[c] = "raised", ~ LastAttempt(c), dead' = dead,
                 delayed' = delayed \cup {Retry(c, text)}
          PROVE  [Life!Next]_(Life!vars)
      BY <2>7, <3>1, <3>3
    <3>4. CASE /\ cpc[c] = "raised" /\ LastAttempt(c) /\ delayed' = delayed
               /\ dead' = [dead EXCEPT ![held[c].job] = @ + 1]
      BY <2>8, <3>1, <3>4
    <3> QED
      BY <2>15, <3>2, <3>3, <3>4 DEF FailRaises
  <2>16. ~ (\E t \in Types : FindEmpty(c, t)) /\ ~ (\E e \in queue : Pop(c, e) \/ PopRaises(c, e))
    BY <1>5 DEF FindEmpty, Pop, PopRaises
  <2> QED
    BY <2>4, <2>5, <2>6, <2>11, <2>12, <2>13, <2>14, <2>15, <2>16 DEF Worker
<1> QED
  BY <1>2, <1>3, <1>4, <1>5
  DEF Worker, Start, HandlerReturns, HandlerRaises, Complete, Reschedule, Bury, RecordFailure,
      StartRaises, CompleteRaises, FailRaises, FindEmpty, Pop, PopRaises

\* Without its last copy a job that was neither completed nor buried is lost.
LEMMA Loses ==
  ASSUME NEW i \in Jobs, PhaseFacts(i), PhaseFacts(i)', UNCHANGED <<enq, dead, finished>>,
         ~ Gone(i), Gone(i)'
  PROVE  PhaseOf(i)' = "lost" /\ PhaseOf(i) # "finished"
<1>1. dead[i] = 0 /\ ~ finished[i] /\ Submitted(i)
  BY DEF PhaseFacts
<1>2. PhaseOf(i)' = "lost"
  BY <1>1 DEF PhaseFacts, Submitted
<1>3. PhaseOf(i) # "finished"
  BY DEF PhaseFacts, Gone
<1> QED
  BY <1>2, <1>3

\* The promoter carries the one copy of a job from the delayed set to the queue.
LEMMA LifePromoter ==
  ASSUME ConstantsAssumption, OneProcess, TypeOK, Places, TypeOK', Places',
         NEW p \in Processes, Promoter(p) \/ PromoterRaises(p)
  PROVE  [Life!Next]_(Life!vars)
<1> USE DEF consumerVars, history
<1>0. /\ UNCHANGED <<enq, cpc, held, dead, fails, finished>>
      /\ \A q \in Processes : q = p
  BY DEF Promoter, PromoterReads, PromoterRemoves, PromoterPushes, PromoterRaises, OneProcess
<1>1. /\ \A i \in Jobs : PhaseFacts(i)
      /\ \A i \in Jobs : PhaseFacts(i)'
  BY Phases, PhasesNext
<1>2. \A i \in Jobs : /\ Active(i)' <=> Active(i)
                      /\ Failing(i)' <=> Failing(i)
                      /\ Submitted(i)' <=> Submitted(i)
  BY <1>0 DEF Active, Failing, WorkedOn, InHand, Submitted
<1>3. ASSUME NEW i \in Jobs, Waits(i)' <=> Waits(i)
      PROVE  PhaseOf(i)' = PhaseOf(i)
  BY <1>0, <1>2, <1>3, SamePhase
<1>4. ASSUME ppc[p] # "removed", ppc'[p] # "removed", queue' = queue, delayed' = delayed
      PROVE  [Life!Next]_(Life!vars)
  <2>1. \A i \in Jobs : Waits(i)' <=> Waits(i)
    BY <1>0, <1>4 DEF Waits, Removed
  <2> QED
    BY <1>0, <1>3, <2>1, LifeStutters
<1>5. CASE PromoterRemoves(p)
  <2>1. /\ ppc[p] = "read" /\ ppc'[p] = "removed" /\ lifted' = lifted /\ queue' = queue
        /\ delayed' = delayed \ {lifted[p]} /\ lifted[p] \in delayed
    BY <1>5 DEF PromoterRemoves, TypeOK, Places, PromotedAlone
  <2>2. \A i \in Jobs : Waits(i)' <=> Waits(i)
    BY <1>0, <2>1 DEF Waits, Removed
  <2> QED
    BY <1>0, <1>3, <2>2, LifeStutters
<1>6. ASSUME ppc[p] = "removed", ppc'[p] = "idle", delayed' = delayed,
             queue' = queue \cup {lifted[p]}
      PROVE  [Life!Next]_(Life!vars)
  <2>1. \A i \in Jobs : Waits(i)' <=> Waits(i)
    BY <1>0, <1>6 DEF Waits, Removed
  <2> QED
    BY <1>0, <1>3, <2>1, LifeStutters
\* the promoter has the entry in hand, or takes it out of Redis, and drops it
<1>7. ASSUME PromoterRaises(p), ppc'[p] = "idle", queue' = queue,
             \/ ppc[p] = "removed" /\ delayed' = delayed
             \/ ppc[p] = "read" /\ delayed' = delayed \ {lifted[p]}
      PROVE  [Life!Next]_(Life!vars)
  <2>1. PICK j \in Jobs : j = lifted[p].job
    BY <1>7 DEF TypeOK, Entry
  <2>2. \A i \in Jobs \ {j} : PhaseOf(i)' = PhaseOf(i)
    BY <1>0, <1>3, <1>7, <2>1 DEF Waits, Removed
  <2>3. Waits(j)
    BY <1>7, <2>1 DEF Waits, Removed, Places, PromotedAlone
  <2>4. ~ Waits(j)'
    <3>1. \A q \in Processes : ~ Removed(q, j)'
      BY <1>0, <1>7 DEF Removed
    <3>2. \A e \in InRedis' : e.job # j
      BY <1>7, <2>1 DEF Places, PromotedAlone, OneEntry, InRedis
    <3> QED
      BY <3>1, <3>2 DEF Waits, InRedis
  <2>5. ~ Gone(j) /\ Gone(j)'
    BY <1>1, <1>2, <2>3, <2>4 DEF PhaseFacts, Gone
  <2>6. PhaseOf(j)' = "lost" /\ PhaseOf(j) # "finished"
    BY <1>0, <1>1, <2>5, Loses
  <2>7. Fault("redis")
    BY <1>7 DEF PromoterRaises
  <2> QED
    BY <1>0, <2>2, <2>6, <2>7, LifeLoses
<1>8. ASSUME NEW e \in delayed, PromoterReads(p, e)
      PROVE  [Life!Next]_(Life!vars)
  BY <1>4, <1>8 DEF PromoterReads, TypeOK
<1>9. CASE PromoterPushes(p)
  BY <1>6, <1>9 DEF PromoterPushes, TypeOK
<1>10. CASE PromoterRaises(p)
  <2>1. /\ ppc'[p] = "idle" /\ ppc[p] \in {"read", "removed"}
        /\ \/ queue' = queue /\ delayed' = delayed
           \/ ppc[p] = "read" /\ delayed' = delayed \ {lifted[p]} /\ queue' = queue
           \/ ppc[p] = "removed" /\ queue' = queue \cup {lifted[p]} /\ delayed' = delayed
    BY <1>10 DEF PromoterRaises, TypeOK
  <2>2. CASE ppc[p] = "read" /\ queue' = queue /\ delayed' = delayed
    BY <1>4, <2>1, <2>2
  <2> QED
    BY <1>6, <1>7, <1>10, <2>1, <2>2
<1> QED
  BY <1>5, <1>8, <1>9, <1>10 DEF Promoter

\* A crash costs the jobs that are in the memory of the process.
LEMMA LifeCrash ==
  ASSUME ConstantsAssumption, OneProcess, TypeOK, Places, TypeOK', Places',
         NEW p \in Processes, Crash(p)
  PROVE  [Life!Next]_(Life!vars)
<1>0. /\ UNCHANGED <<enq, queue, delayed, dead, fails, finished>> /\ Fault("crash")
      /\ \A c \in Consumers : cpc'[c] = "idle"
      /\ \A q \in Processes : ppc'[q] = "idle"
  <2>1. \A c \in Consumers : c[1] = p
    BY DEF Consumers, OneProcess
  <2>2. \A q \in Processes : q = p
    BY DEF OneProcess
  <2> QED
    BY <2>1, <2>2 DEF Crash, TypeOK, history
<1>1. /\ \A i \in Jobs : PhaseFacts(i)
      /\ \A i \in Jobs : PhaseFacts(i)'
  BY Phases, PhasesNext
<1>2. ASSUME NEW i \in Jobs
      PROVE  \/ PhaseOf(i)' = PhaseOf(i)
             \/ PhaseOf(i)' = "lost" /\ PhaseOf(i) # "finished"
  <2>1. ~ Active(i)' /\ ~ Failing(i)' /\ (Submitted(i)' <=> Submitted(i))
    BY <1>0 DEF Active, Failing, WorkedOn, Submitted
  <2>2. Waits(i)' => Waits(i)
    BY <1>0 DEF Waits, Removed
  <2>3. CASE Waits(i)'
    BY <1>1, <2>2, <2>3 DEF PhaseFacts
  <2>4. CASE ~ Waits(i)' /\ ~ Gone(i)
    BY <1>0, <1>1, <2>1, <2>4, Loses DEF Gone
  <2>5. CASE Gone(i)
    BY <1>0, <2>1, <2>2, <2>5, SamePhase DEF Gone
  <2> QED
    BY <2>3, <2>4, <2>5
<1> QED
  BY <1>0, <1>2, LifeLoses

LEMMA LifeStep ==
  ASSUME ConstantsAssumption, OneProcess, "evict" \notin FaultKinds,
         TypeOK, Places, TypeOK', Places', [Next]_vars
  PROVE  [Life!Next]_(Life!vars)
<1>1. CASE Producer
  BY <1>1, LifeProducer DEF Producer
<1>2. CASE \E c \in Consumers : Worker(c)
  BY <1>2, LifeConsumer
<1>3. CASE \E p \in Processes : Promoter(p)
  BY <1>3, LifePromoter
<1>4. CASE Disturbance
  <2>1. ~ Evict
    BY DEF Evict, Fault
  <2> QED
    BY <1>4, <2>1, LifeProducer, LifeConsumer, LifePromoter, LifeCrash DEF Disturbance
<1>5. CASE UNCHANGED vars
  <2>1. UNCHANGED <<queue, delayed, cpc, held, ppc, lifted, dead, finished, enq, fails>>
    BY <1>5 DEF vars, consumerVars, promoterVars, history
  <2>2. \A i \in Jobs : PhaseOf(i)' = PhaseOf(i)
    BY <2>1 DEF PhaseOf, Waits, Removed, WorkedOn, InHand
  <2> QED
    BY <2>1, <2>2, LifeStutters
<1> QED
  BY <1>1, <1>2, <1>3, <1>4, <1>5 DEF Next

LEMMA LifeInit == Init => Life!Init
<1> SUFFICES ASSUME Init
             PROVE  Life!Init
  OBVIOUS
<1>1. \A i \in Jobs : PhaseOf(i) = "new"
  BY DEF Init, PhaseOf, Waits, Removed, WorkedOn, InHand
<1> QED
  BY <1>1 DEF Init, Life!Init

\* Whatever the numbers of jobs and of worker groups, one process and its Redis keep
\* the promises of JobLifecycle: moves between Redis and the workers lose nothing and
\* put no job in two hands, each failed attempt counts once, only a fault loses a job.
THEOREM RefinesLifecycle ==
  ASSUME OneProcess, "evict" \notin FaultKinds
  PROVE  Spec => Life!Spec
<1>1. TypeOK /\ Places /\ TypeOK' /\ Places' /\ [Next]_vars => [Life!Next]_(Life!vars)
  BY LifeStep, ConstantsAssumption
<1> QED
  BY <1>1, LifeInit, TypeCorrect, OnePlace, PTL DEF Spec, Life!Spec
=============================================================================
