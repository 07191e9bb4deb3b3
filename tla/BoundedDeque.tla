---------------------------- MODULE BoundedDeque ----------------------------
(***************************************************************************)
(* What the storage half of a FreeRTOS queue promises its callers: a       *)
(* sequence of at most capacity items.  Items are added at the back or at  *)
(* the front, a receive takes the oldest item and a peek reads it without  *)
(* taking it.  An overwrite never fails: it adds its item in front, and    *)
(* when there was one already the youngest is dropped for it, which on a   *)
(* queue of length one is the replacement FreeRTOS documents.  On a longer *)
(* queue the storage then loses track of its back: a later send to the     *)
(* back may replace an item that waits, and the item it adds may be an old *)
(* one.  Nothing here knows of slots, write positions or read positions.   *)
(***************************************************************************)
EXTENDS Naturals, Sequences

CONSTANTS
  Items,      \* the values callers send
  NoItem,     \* what an output buffer holds before anything was received
  MaxLength   \* bound on the length a queue is created with

VARIABLES
  capacity,   \* the length given at creation
  q,          \* the items sent and not yet received, oldest first
  out,        \* the caller's buffer: the last item received or peeked
  drifted     \* an item was overwritten in a queue longer than one

dvars == <<capacity, q, out, drifted>>

DInit ==
  /\ capacity \in 1 .. MaxLength
  /\ q = <<>>
  /\ out = NoItem
  /\ drifted = FALSE

SendBack(v) ==
  /\ Len(q) < capacity
  /\ ~drifted
  /\ q' = Append(q, v)
  /\ UNCHANGED <<capacity, out, drifted>>

(* Without track of its back the queue still becomes one item longer.      *)
SendBackDrifted(v) ==
  /\ Len(q) < capacity
  /\ drifted
  /\ \E k \in 1 .. capacity, last \in Items :
       q' = Append([i \in DOMAIN q |-> IF i = k THEN v ELSE q[i]], last)
  /\ UNCHANGED <<capacity, out, drifted>>

SendFront(v) ==
  /\ Len(q) < capacity
  /\ q' = <<v>> \o q
  /\ UNCHANGED <<capacity, out, drifted>>

Overwrite(v) ==
  /\ q' = <<v>> \o SubSeq(q, 1, Len(q) - 1)
  /\ drifted' = (drifted \/ (capacity > 1 /\ q # <<>>))
  /\ UNCHANGED <<capacity, out>>

Receive ==
  /\ q # <<>>
  /\ out' = Head(q)
  /\ q' = Tail(q)
  /\ UNCHANGED <<capacity, drifted>>

Peek ==
  /\ q # <<>>
  /\ out' = Head(q)
  /\ UNCHANGED <<capacity, q, drifted>>

Reset ==
  /\ q' = <<>>
  /\ drifted' = FALSE
  /\ UNCHANGED <<capacity, out>>

DNext ==
  \/ \E v \in Items :
       SendBack(v) \/ SendBackDrifted(v) \/ SendFront(v) \/ Overwrite(v)
  \/ Receive
  \/ Peek
  \/ Reset

DSpec == DInit /\ [][DNext]_dvars
=============================================================================
