---------------------------- MODULE MC_BatchJob ----------------------------
(***************************************************************************)
(* Instances of BatchJob: j1 has three rows (one commit in the middle), j2 *)
(* has more than MaxRows.                                                  *)
(***************************************************************************)
EXTENDS BatchJob, TLC

CONSTANTS j1, j2

AllLengths == j1 :> 3 @@ j2 :> 4
JobLength == [j \in Jobs |-> AllLengths[j]]

\* The edited profile makes row 2 fail and rows 1 and 3 change their status.
JobAnalysis == [v \in 0..MaxRevision |-> [j \in Jobs |-> [i \in 1..JobLength[j] |->
  IF v = 0 THEN <<"ready", "repairable", "ready", "unresolved">>[i]
           ELSE <<"review_required", "failed", "ready", "ready">>[i]]]]
=============================================================================
