----------------------------- MODULE MCEventGroup ---------------------------
(* Instances of EventGroup for TLC: two or three tasks over the idle task.  *)
EXTENDS EventGroup, TLC

CONSTANTS t1, t2, idle

TwoLevels == (t1 :> 2) @@ (t2 :> 1) @@ (idle :> 0)
OneLevel  == (t1 :> 1) @@ (t2 :> 1) @@ (idle :> 0)

(* configMAX_PRIORITIES - 1 has the low four bits set. *)
LowBits == [t \in Task |-> Bits]
=============================================================================
