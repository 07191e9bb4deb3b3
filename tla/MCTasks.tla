------------------------------- MODULE MCTasks ------------------------------
(* Instances of Tasks for TLC: two application tasks over the idle task.    *)
EXTENDS Tasks, TLC

CONSTANTS t1, t2, idle

(* One task above the other. *)
TwoLevels == (t1 :> 2) @@ (t2 :> 1) @@ (idle :> 0)

(* Both tasks in one ready list. *)
OneLevel == (t1 :> 1) @@ (t2 :> 1) @@ (idle :> 0)
=============================================================================
