----------------------------- MODULE MCQueueIPC -----------------------------
(* Instances of QueueIPC for TLC: two or three tasks over the idle task.    *)
EXTENDS QueueIPC, TLC

CONSTANTS t1, t2, t3, idle

OneLevel  == [t \in Task |-> IF t = idle THEN 0 ELSE 1]
TwoLevels == [t \in Task |-> IF t = idle THEN 0 ELSE IF t = t1 THEN 2 ELSE 1]

(* t1 (and t3) send, t2 receives and peeks. *)
Roles == [call \in Ops |-> IF call = "send" THEN Task \ {t2, idle} ELSE {t2}]

(* t1, which preempts t2, sends and receives; t2 receives and peeks. *)
Mixed == [call \in Ops |-> CASE call = "send" -> {t1} [] call = "receive" -> {t1, t2}
                             [] call = "peek" -> {t2}]

(* t1 receives, t2 sends. *)
Reversed == [call \in Ops |-> IF call = "send" THEN {t2} ELSE {t1}]

(* How long the calls wait: 15 is PORT_MAX_DELAY.                           *)
AnyTime     == [call \in Ops |-> {0, 1, 15}]
AnyForever  == [call \in Ops |-> {0, 15}]
SendForever == [call \in Ops |-> IF call = "send" THEN {0, 15} ELSE {0}]
SendOneTick == [call \in Ops |-> IF call = "send" THEN {1, 15} ELSE {0}]
=============================================================================
