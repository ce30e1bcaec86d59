-------------------------- MODULE MCThreadPoolImpl --------------------------
(* Small instances of ThreadPoolImpl: the first job has a tag of its own, the  *)
(* others share one, so that UnSchedule can remove several jobs and spare   *)
(* one; the shared tag's jobs have unschedule functions.                    *)
EXTENDS ThreadPoolImpl

CONSTANTS j1, j2, t1, t2

MCTag == [j \in Jobs |-> IF j = j1 THEN t1 ELSE t2]
MCHasUnsched == {j2}
=============================================================================
