---------------------------- MODULE RotatingList ----------------------------
(***************************************************************************)
(* What the kernel expects of its lists: each is a ring of Rings that      *)
(* items enter at the end of the round or at their place in the order, and *)
(* leave without changing the turn of anybody else; it serves its items in *)
(* rotation.                                                               *)
(***************************************************************************)
EXTENDS Rings

CONSTANTS Lists, Items, Values, PORT_MAX_DELAY, None

VARIABLES
  ring,    \* of every list, the coming round
  value,   \* of every node
  owner    \* the item served last

rvars == <<ring, value, owner>>

RInit ==
  /\ ring = [l \in Lists |-> EmptyRing(l)]
  /\ value = [n \in Lists \cup Items |->
                IF n \in Lists THEN PORT_MAX_DELAY ELSE 0]
  /\ owner = None

Linked(i) == \E l \in Lists : Contains(ring[l], i)

JoinLast(l, i) ==
  /\ ~Linked(i)
  /\ ring' = [ring EXCEPT ![l] = EnterLast(@, i)]
  /\ UNCHANGED <<value, owner>>

(* The item an item of value v is put in front of: the first that is not   *)
(* below it.  For the largest value that is the last item, not the marker  *)
(* (see MaxGoesLast in XList).                                             *)
Successor(l, v) ==
  LET order == InOrder(ring[l], l)
  IN  IF v # PORT_MAX_DELAY THEN FirstAtLeast(ring[l], l, value, v)
      ELSE IF IsEmpty(ring[l]) THEN l
      ELSE order[Len(order) - 1]

JoinInOrder(l, i) ==
  /\ ~Linked(i)
  /\ ring' = [ring EXCEPT ![l] = EnterBefore(@, Successor(l, value[i]), i)]
  /\ UNCHANGED <<value, owner>>

Leave(l, i) ==
  /\ Contains(ring[l], i)
  /\ ring' = [ring EXCEPT ![l] = Without(@, i)]
  /\ UNCHANGED <<value, owner>>

Serve(l) ==
  /\ ~IsEmpty(ring[l])
  /\ ring' = [ring EXCEPT ![l] = Rotate(@, l)]
  /\ owner' = Last(ring'[l])
  /\ UNCHANGED value

(* Nobody is served from an empty list. *)
ServeNobody(l) ==
  /\ IsEmpty(ring[l])
  /\ owner' = None
  /\ UNCHANGED <<ring, value>>

SetValue(i, v) ==
  /\ value' = [value EXCEPT ![i] = v]
  /\ UNCHANGED <<ring, owner>>

RNext ==
  \/ \E l \in Lists, i \in Items :
       JoinLast(l, i) \/ JoinInOrder(l, i) \/ Leave(l, i)
  \/ \E l \in Lists : Serve(l) \/ ServeNobody(l)
  \/ \E i \in Items, v \in Values : SetValue(i, v)

RSpec == RInit /\ [][RNext]_rvars
=============================================================================
