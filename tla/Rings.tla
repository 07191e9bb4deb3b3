------------------------------- MODULE Rings --------------------------------
(***************************************************************************)
(* A kernel list as a value: the round its index is making, as a sequence  *)
(* of nodes in the order they will be visited, the node the index stands   *)
(* on last.  One of the nodes is the end marker, which is named like the   *)
(* list; it separates the last item of the sorted order from the first.    *)
(* XList is the pointer structure that behaves like this.                  *)
(***************************************************************************)
EXTENDS Integers, Sequences, SequencesExt

EmptyRing(marker) == <<marker>>

IsEmpty(ring) == Len(ring) = 1

Place(ring, node) == CHOOSE k \in 1 .. Len(ring) : ring[k] = node

(* The round turned so that the marker is its last node: the sorted order. *)
InOrder(ring, marker) ==
  LET m == Place(ring, marker)
  IN  SubSeq(ring, m + 1, Len(ring)) \o SubSeq(ring, 1, m)

(* The items of the list, the head of the sorted order first. *)
Entries(ring, marker) == Front(InOrder(ring, marker))

(* At the end of the round: just before the node the index stands on. *)
EnterLast(ring, item) == InsertAt(ring, Len(ring), item)

EnterBefore(ring, node, item) == InsertAt(ring, Place(ring, node), item)

(* The first node of the order whose value is at least v. *)
FirstAtLeast(ring, marker, value, v) ==
  LET order == InOrder(ring, marker)
  IN  order[SelectInSeq(order, LAMBDA n : value[n] >= v)]

(* An item is in a list once at most. *)
Without(ring, item) ==
  IF Contains(ring, item) THEN RemoveAt(ring, Place(ring, item)) ELSE ring

(* The index moves to the next node, and over the marker. *)
Rotate(ring, marker) ==
  LET steps == IF Head(ring) = marker THEN 2 ELSE 1
  IN  SubSeq(ring, steps + 1, Len(ring)) \o SubSeq(ring, 1, steps)
=============================================================================
