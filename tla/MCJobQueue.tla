----------------------------- MODULE MCJobQueue -----------------------------
(* Instances of JobQueue for TLC.  j1 is the more urgent job.  The types   *)
(* belong to one worker group, whose list has t1 before t2.                *)
EXTENDS JobQueue

CONSTANTS j1, t1, t2, g1

MCOneTypeOf == [j \in Jobs |-> t1]
MCTwoTypesOf == [j \in Jobs |-> IF j = j1 THEN t1 ELSE t2]
MCPriorityOf == [j \in Jobs |-> IF j = j1 THEN 1 ELSE 5]
MCGroupOf == [t \in Types |-> g1]
MCRankOf == [t \in Types |-> IF t = t1 THEN 0 ELSE 1]
=============================================================================
