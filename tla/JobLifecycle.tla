---------------------------- MODULE JobLifecycle ----------------------------
(***************************************************************************)
(* What the job queue promises about a job, with no Redis and no worker in *)
(* sight: an accepted job waits, one worker at a time is active on it, an  *)
(* attempt finishes it or fails; after a failure the job waits again, or,  *)
(* when it was the last of MaxAttempts, is buried.  Only a fault loses it. *)
(***************************************************************************)
EXTENDS Naturals

CONSTANTS
  Jobs,
  MaxAttempts,
  MayLose       \* whether the environment injects faults

VARIABLES
  phase,        \* where the job is in its life
  attempts      \* failed attempts so far

vars == <<phase, attempts>>

Init ==
  /\ phase = [j \in Jobs |-> "new"]
  /\ attempts = [j \in Jobs |-> 0]

Move(j, from, to) ==
  /\ phase[j] = from
  /\ phase' = [phase EXCEPT ![j] = to]

Submit(j) == Move(j, "new", "waiting") /\ UNCHANGED attempts

Start(j) == Move(j, "waiting", "active") /\ UNCHANGED attempts

Finish(j) == Move(j, "active", "finished") /\ UNCHANGED attempts

Fail(j) ==
  /\ Move(j, "active", "failed")
  /\ attempts' = [attempts EXCEPT ![j] = @ + 1]

Retry(j) ==
  /\ attempts[j] < MaxAttempts
  /\ Move(j, "failed", "waiting")
  /\ UNCHANGED attempts

Bury(j) ==
  /\ attempts[j] = MaxAttempts
  /\ Move(j, "failed", "buried")
  /\ UNCHANGED attempts

\* A fault may cost several jobs at once, never one that is finished.
Lose(S) ==
  /\ MayLose
  /\ \A j \in S : phase[j] # "finished"
  /\ phase' = [j \in Jobs |-> IF j \in S THEN "lost" ELSE phase[j]]
  /\ UNCHANGED attempts

Next ==
  \/ \E j \in Jobs : Submit(j) \/ Start(j) \/ Finish(j) \/ Fail(j) \/ Retry(j) \/ Bury(j)
  \/ \E S \in SUBSET Jobs : Lose(S)

Spec == Init /\ [][Next]_vars

FairSpec ==
  /\ Spec
  /\ \A j \in Jobs :
       /\ WF_vars(Start(j))
       /\ WF_vars(Finish(j) \/ Fail(j))
       /\ WF_vars(Retry(j) \/ Bury(j))
=============================================================================
