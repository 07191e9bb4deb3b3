----------------------------- MODULE QueueStore -----------------------------
(***************************************************************************)
(* The message storage of queue/queue.rs: a ring of uxLength slots, the    *)
(* position pcWriteTo the next message is written to, the position         *)
(* pcReadFrom of the message read LAST (a receive advances it first and    *)
(* then copies), and the count uxMessagesWaiting.  Every operation below   *)
(* runs inside one critical section of its caller, so it is one action.    *)
(*                                                                         *)
(* Addresses are slot numbers: one slot is uxItemSize bytes, pcHead is 0   *)
(* and pcTail is uxLength.  Queues with uxItemSize = 0 (semaphores) store  *)
(* nothing and are modelled by their count alone, in QueueIPC.             *)
(***************************************************************************)
EXTENDS Integers, Sequences

CONSTANTS
  Items,      \* the messages
  NoItem,     \* the content of a slot nothing was written to
  MaxLength   \* bound on uxLength, so that Init is finite for TLC

ASSUME StoreAssumption ==
  /\ MaxLength \in Nat \ {0}
  /\ NoItem \notin Items

VARIABLES
  uxLength,           \* slots of the queue, fixed at creation
  pcMesQueue,         \* the storage, a function on the slots
  pcWriteTo,
  pcReadFrom,
  uxMessagesWaiting,
  pvBuffer,           \* where the last receive or peek copied its message
  astray              \* history: a message was overwritten in a queue longer
                      \* than one since the last reset

vars == <<uxLength, pcMesQueue, pcWriteTo, pcReadFrom, uxMessagesWaiting,
          pvBuffer, astray>>

pcHead == 0
pcTail == uxLength
Slots == pcHead .. pcTail - 1

(* The positions xQueueGenericReset gives an empty queue. *)
ResetPositions(len) ==
  /\ pcWriteTo' = pcHead
  /\ pcReadFrom' = pcHead + len - 1
  /\ uxMessagesWaiting' = 0

Init ==
  /\ uxLength \in 1 .. MaxLength
  /\ pcMesQueue = [s \in 0 .. uxLength - 1 |-> NoItem]
  /\ pcWriteTo = pcHead
  /\ pcReadFrom = pcHead + uxLength - 1
  /\ uxMessagesWaiting = 0
  /\ pvBuffer = NoItem
  /\ astray = FALSE

(* Mutants of the two steps: a wrap one slot late, no wrap. *)
AdvanceLate(p) == IF p + 1 > pcTail THEN pcHead ELSE p + 1
StepBackStops(p) == IF p - 1 < pcHead THEN pcHead ELSE p - 1

(* += uxItemSize, wrapping at pcTail; -= uxItemSize, wrapping at pcHead. *)
Advance(p) == IF p + 1 >= pcTail THEN pcHead ELSE p + 1
StepBack(p) == IF p - 1 < pcHead THEN pcTail - 1 ELSE p - 1

(* queueSEND_TO_BACK: write at pcWriteTo and advance it. *)
CopyToBack(item) ==
  /\ pcMesQueue' = [pcMesQueue EXCEPT ![pcWriteTo] = item]
  /\ pcWriteTo' = Advance(pcWriteTo)
  /\ uxMessagesWaiting' = uxMessagesWaiting + 1
  /\ UNCHANGED pcReadFrom

(* Any other position: write at pcReadFrom, the slot just before the oldest *)
(* message, and step back.  An overwrite that finds messages leaves the     *)
(* count alone: the youngest one falls off the end, and pcWriteTo is no     *)
(* longer the slot behind the last message unless there is only one slot.   *)
CopyToFront(item, overwrite) ==
  /\ pcMesQueue' = [pcMesQueue EXCEPT ![pcReadFrom] = item]
  /\ pcReadFrom' = StepBack(pcReadFrom)
  /\ uxMessagesWaiting' = IF overwrite /\ uxMessagesWaiting > 0
                          THEN uxMessagesWaiting
                          ELSE uxMessagesWaiting + 1
  /\ UNCHANGED pcWriteTo

HasSpace == uxMessagesWaiting < uxLength

SendToBack(item) ==
  /\ HasSpace
  /\ CopyToBack(item)
  /\ UNCHANGED <<uxLength, pvBuffer, astray>>

SendToFront(item) ==
  /\ HasSpace
  /\ CopyToFront(item, FALSE)
  /\ UNCHANGED <<uxLength, pvBuffer, astray>>

(* queueOVERWRITE skips the space test, whatever the length of the queue.   *)
SendOverwrite(item) ==
  /\ CopyToFront(item, TRUE)
  /\ astray' = (astray \/ (uxLength > 1 /\ uxMessagesWaiting > 0))
  /\ UNCHANGED <<uxLength, pvBuffer>>

(* prvCopyDataFromQueue: advance pcReadFrom, then copy from it. *)
CopyFromQueue ==
  /\ pcReadFrom' = Advance(pcReadFrom)
  /\ pvBuffer' = pcMesQueue[pcReadFrom']

Receive ==
  /\ uxMessagesWaiting > 0
  /\ CopyFromQueue
  /\ uxMessagesWaiting' = uxMessagesWaiting - 1
  /\ UNCHANGED <<uxLength, pcMesQueue, pcWriteTo, astray>>

(* Mutant: the peek does not restore pcReadFrom. *)
PeekAdvances ==
  /\ uxMessagesWaiting > 0
  /\ CopyFromQueue
  /\ UNCHANGED <<uxLength, pcMesQueue, pcWriteTo, uxMessagesWaiting, astray>>

(* xQueuePeek copies and then restores pcReadFrom. *)
Peek ==
  /\ uxMessagesWaiting > 0
  /\ pvBuffer' = pcMesQueue[Advance(pcReadFrom)]
  /\ UNCHANGED <<uxLength, pcMesQueue, pcWriteTo, pcReadFrom,
                 uxMessagesWaiting, astray>>

Reset ==
  /\ ResetPositions(uxLength)
  /\ astray' = FALSE
  /\ UNCHANGED <<uxLength, pcMesQueue, pvBuffer>>

Next ==
  \/ \E item \in Items :
       SendToBack(item) \/ SendToFront(item) \/ SendOverwrite(item)
  \/ Receive
  \/ Peek
  \/ Reset

Spec == Init /\ [][Next]_vars
-----------------------------------------------------------------------------
TypeOK ==
  /\ uxLength \in Nat \ {0}
  /\ pcMesQueue \in [Slots -> Items \cup {NoItem}]
  /\ pcWriteTo \in Slots
  /\ pcReadFrom \in Slots
  /\ uxMessagesWaiting \in 0 .. uxLength
  /\ pvBuffer \in Items \cup {NoItem}
  /\ astray \in BOOLEAN

(* The slot of the k-th oldest message. *)
Slot(k) == IF pcReadFrom + k >= uxLength THEN pcReadFrom + k - uxLength
                                         ELSE pcReadFrom + k

(* The two positions and the count, which three different functions update,*)
(* agree.  The messages waiting occupy the slots after pcReadFrom and every *)
(* one of those slots was written: no receive hands out storage nobody      *)
(* wrote, even after overwrites of a queue longer than one have left the    *)
(* write position behind.  Without such an overwrite since the last reset   *)
(* pcWriteTo is the slot behind the youngest message.  A wrap at the wrong  *)
(* end, or a count updated on one side only, breaks it after a few sends    *)
(* and receives.                                                            *)
RingConsistent ==
  /\ \A k \in 1 .. uxMessagesWaiting : pcMesQueue[Slot(k)] \in Items
  /\ ~astray => pcWriteTo = LET p == pcReadFrom + 1 + uxMessagesWaiting
                            IN  IF p >= 2 * uxLength THEN p - 2 * uxLength
                                ELSE IF p >= uxLength THEN p - uxLength
                                ELSE p

(* The messages waiting, oldest first. *)
Contents == [k \in 1 .. uxMessagesWaiting |-> pcMesQueue[Slot(k)]]

Deque == INSTANCE BoundedDeque
         WITH capacity <- uxLength, q <- Contents, out <- pvBuffer,
              drifted <- astray

(* The ring implements a bounded double-ended queue, whatever the mix of    *)
(* sends to the back and front, overwrites, receives, peeks and resets:     *)
(* every message leaves exactly once and in order, and an overwrite adds    *)
(* before the oldest message and drops the youngest.  Once a message was    *)
(* overwritten in a queue longer than one, what BoundedDeque promises of a  *)
(* send to the back is less, until the next reset.                          *)
DequeSpec == Deque!DSpec
=============================================================================
