------------------------- MODULE JobQueueRefinement -------------------------
(***************************************************************************)
(* With one process, so one promoter, JobQueue implements JobLifecycle:    *)
(* the phase of a job is read off the place its only copy is in.           *)
(***************************************************************************)
EXTENDS MCJobQueue

WorkedOn(places, j) == \E c \in Consumers : InHand(c, j) /\ cpc[c] \in places

Waits(j) ==
  \/ \E e \in queue \cup delayed : e.job = j
  \/ \E p \in Processes : Removed(p, j)

PhaseOf(j) ==
  IF Waits(j) THEN "waiting"
  ELSE IF WorkedOn({"popped", "running", "succeeded"}, j) THEN "active"
  ELSE IF WorkedOn({"raised"}, j) THEN "failed"
  ELSE IF dead[j] > 0 THEN "buried"
  ELSE IF finished[j] THEN "finished"
  ELSE IF enq[j] \in {"new", "announced"} THEN "new"
  ELSE "lost"

Life == INSTANCE JobLifecycle WITH
          phase <- [j \in Jobs |-> PhaseOf(j)],
          attempts <- fails,
          MayLose <- FaultKinds # {} /\ MaxFaults > 0

\* The safety and the liveness of JobLifecycle: moves between Redis and the workers lose
\* nothing, never put a job in two hands, count every failed attempt once, and with the
\* fairness of the loops an accepted job does settle.
ImplementsFairLifecycle == Life!FairSpec
=============================================================================
