------------------------------- MODULE XList --------------------------------
(***************************************************************************)
(* The doubly linked lists of list/list.rs, pointer by pointer.  A list    *)
(* owns an end marker xListEnd that closes its ring of nodes, an index     *)
(* pxIndex that walks the ring for the round-robin of the scheduler, and a *)
(* counter.  An item holds its two links, a value, and its container.      *)
(* Nothing clears the links of a removed item: it keeps stale ones.        *)
(*                                                                         *)
(* A list's name also stands for its end marker.  Every operation runs     *)
(* with the list's lock held or in a critical section: it is one action.   *)
(***************************************************************************)
EXTENDS Integers, FiniteSets

CONSTANTS
  Lists,            \* the lists, and their end markers
  Items,            \* the list items
  Values,           \* the values items are given
  PORT_MAX_DELAY,   \* the value of every end marker
  None              \* an empty weak link

ASSUME ListAssumption ==
  /\ Lists \cap Items = {}
  /\ None \notin Lists \cup Items
  /\ IsFiniteSet(Items)
  /\ PORT_MAX_DELAY \in Nat
  /\ Values \subseteq 0 .. PORT_MAX_DELAY

VARIABLES
  pxNext,           \* of every node
  px_previous,
  xItemValue,
  pxContainer,      \* of every item
  pxIndex,          \* of every list
  uxNumberOfItems,
  owner             \* what the last getOwnerOfNextEntry returned

vars == <<pxNext, px_previous, xItemValue, pxContainer, pxIndex,
          uxNumberOfItems, owner>>

Nodes == Lists \cup Items

Init ==
  /\ pxNext = [n \in Nodes |-> IF n \in Lists THEN n ELSE None]
  /\ px_previous = pxNext
  /\ xItemValue = [n \in Nodes |-> IF n \in Lists THEN PORT_MAX_DELAY ELSE 0]
  /\ pxContainer = [i \in Items |-> None]
  /\ pxIndex = [l \in Lists |-> l]
  /\ uxNumberOfItems = [l \in Lists |-> 0]
  /\ owner = None

(* The nodes of a list: its marker and the items it contains. *)
Members(l) == {i \in Items : pxContainer[i] = l}
Ring(l) == {l} \cup Members(l)

(* Mutants of LinkBefore: the predecessor keeps its old next link; the     *)
(* counter is not counted up.                                              *)
LinkOneWay(l, item, node) ==
  /\ pxNext' = [pxNext EXCEPT ![item] = node]
  /\ px_previous' = [px_previous EXCEPT ![item] = px_previous[node],
                                        ![node] = item]
  /\ uxNumberOfItems' = [uxNumberOfItems EXCEPT ![l] = @ + 1]
  /\ pxContainer' = [pxContainer EXCEPT ![item] = l]

LinkUncounted(l, item, node) ==
  /\ pxNext' = [pxNext EXCEPT ![item] = node, ![px_previous[node]] = item]
  /\ px_previous' = [px_previous EXCEPT ![item] = px_previous[node],
                                        ![node] = item]
  /\ pxContainer' = [pxContainer EXCEPT ![item] = l]
  /\ UNCHANGED uxNumberOfItems

(* The four pointer writes that put item before node, and the counter. *)
LinkBefore(l, item, node) ==
  /\ pxNext' = [pxNext EXCEPT ![item] = node, ![px_previous[node]] = item]
  /\ px_previous' = [px_previous EXCEPT ![item] = px_previous[node],
                                        ![node] = item]
  /\ uxNumberOfItems' = [uxNumberOfItems EXCEPT ![l] = @ + 1]
  /\ pxContainer' = [pxContainer EXCEPT ![item] = l]

(* The k-th node the search of insert looks at. *)
Walk(l) ==
  LET w[k \in 0 .. Cardinality(Items)] ==
        IF k = 0 THEN pxNext[l] ELSE pxNext[w[k - 1]]
  IN  w

(* Mutant of InsertsBefore: no order at all.                                *)
InsertsAtEnd(l, v, node) == node = l

(* Where insert stops: for the largest value at the node before the marker, *)
(* else at the first node of the walk whose value is not smaller.           *)
InsertsBefore(l, v, node) ==
  IF v = PORT_MAX_DELAY
  THEN node = px_previous[l]
  ELSE \E k \in 0 .. Cardinality(Items) :
         /\ node = Walk(l)[k]
         /\ xItemValue[node] >= v
         /\ \A j \in 0 .. k - 1 : xItemValue[Walk(l)[j]] < v

(* Callers insert an item only when it is in no list (a caller that does    *)
(* not is the subject of QueueIPC).                                         *)
Detached(item) == pxContainer[item] = None

(* Mutant: behind pxIndex, where the newcomer is served next. *)
InsertsBehindIndex(l, item) ==
  /\ Detached(item)
  /\ LinkBefore(l, item, pxNext[pxIndex[l]])
  /\ UNCHANGED <<xItemValue, pxIndex, owner>>

(* insert_end: before pxIndex, the place the round-robin visits last. *)
vListInsertEnd(l, item) ==
  /\ Detached(item)
  /\ LinkBefore(l, item, pxIndex[l])
  /\ UNCHANGED <<xItemValue, pxIndex, owner>>

vListInsert(l, item) ==
  /\ Detached(item)
  /\ \E node \in Ring(l) :
       /\ InsertsBefore(l, xItemValue[item], node)
       /\ LinkBefore(l, item, node)
  /\ UNCHANGED <<xItemValue, pxIndex, owner>>

(* Mutants of uxListRemove: the container link is kept; the index is left  *)
(* on the item that goes.                                                  *)
RemoveKeepsContainer(item) ==
  LET l == pxContainer[item]
  IN  /\ l # None
      /\ px_previous' = [px_previous EXCEPT ![pxNext[item]] = px_previous[item]]
      /\ pxNext' = [pxNext EXCEPT ![px_previous[item]] = pxNext[item]]
      /\ pxIndex' = IF pxIndex[l] = item
                    THEN [pxIndex EXCEPT ![l] = px_previous[item]] ELSE pxIndex
      /\ uxNumberOfItems' = [uxNumberOfItems EXCEPT ![l] = @ - 1]
      /\ UNCHANGED <<xItemValue, owner, pxContainer>>

RemoveKeepsIndex(item) ==
  LET l == pxContainer[item]
  IN  /\ l # None
      /\ px_previous' = [px_previous EXCEPT ![pxNext[item]] = px_previous[item]]
      /\ pxNext' = [pxNext EXCEPT ![px_previous[item]] = pxNext[item]]
      /\ uxNumberOfItems' = [uxNumberOfItems EXCEPT ![l] = @ - 1]
      /\ pxContainer' = [pxContainer EXCEPT ![item] = None]
      /\ UNCHANGED <<xItemValue, owner, pxIndex>>

(* An item whose container link is empty is left alone. *)
uxListRemove(item) ==
  LET l    == pxContainer[item]
      next == pxNext[item]
      prev == px_previous[item]
  IN  /\ l # None
      /\ px_previous' = [px_previous EXCEPT ![next] = prev]
      /\ pxNext' = [pxNext EXCEPT ![prev] = next]
      /\ pxIndex' = IF pxIndex[l] = item THEN [pxIndex EXCEPT ![l] = prev]
                                         ELSE pxIndex
      /\ uxNumberOfItems' = [uxNumberOfItems EXCEPT ![l] = @ - 1]
      /\ pxContainer' = [pxContainer EXCEPT ![item] = None]
      /\ UNCHANGED <<xItemValue, owner>>

(* The index moves one node on, and over the marker; an item's owner is    *)
(* named by the item.  The marker of an empty list has none.               *)
getOwnerOfNextEntry(l) ==
  LET step == pxNext[pxIndex[l]]
      node == IF step = l THEN pxNext[step] ELSE step
  IN  /\ pxIndex' = [pxIndex EXCEPT ![l] = node]
      /\ owner' = IF node \in Items THEN node ELSE None
      /\ UNCHANGED <<pxNext, px_previous, xItemValue, pxContainer,
                     uxNumberOfItems>>

listItemSetValue(item, v) ==
  /\ xItemValue' = [xItemValue EXCEPT ![item] = v]
  /\ UNCHANGED <<pxNext, px_previous, pxContainer, pxIndex, uxNumberOfItems,
                 owner>>

Next ==
  \/ \E l \in Lists, i \in Items : vListInsertEnd(l, i) \/ vListInsert(l, i)
  \/ \E i \in Items : uxListRemove(i)
  \/ \E l \in Lists : getOwnerOfNextEntry(l)
  \/ \E i \in Items, v \in Values : listItemSetValue(i, v)

Spec == Init /\ [][Next]_vars
-----------------------------------------------------------------------------
TypeOK ==
  /\ pxNext \in [Nodes -> Nodes \cup {None}]
  /\ px_previous \in [Nodes -> Nodes \cup {None}]
  /\ xItemValue \in [Nodes -> 0 .. PORT_MAX_DELAY]
  /\ pxContainer \in [Items -> Lists \cup {None}]
  /\ pxIndex \in [Lists -> Nodes]
  /\ uxNumberOfItems \in [Lists -> Nat]
  /\ owner \in Items \cup {None}

(* The links of every list close a ring over exactly its own nodes, the    *)
(* two directions are inverse, and the index stands inside: no operation,  *)
(* in any mix of the three ways in and the one way out, leaves a link or   *)
(* an index pointing at a node that has left the list.                     *)
WellLinked ==
  \A l \in Lists :
    /\ \A n \in Ring(l) :
         /\ pxNext[n] \in Ring(l) /\ px_previous[pxNext[n]] = n
         /\ px_previous[n] \in Ring(l) /\ pxNext[px_previous[n]] = n
    /\ pxIndex[l] \in Ring(l)

(* pos numbers the nodes of a list in the order of the links: the marker   *)
(* first, the last item with the number the counter holds.                 *)
Numbers(l, pos) ==
  /\ pos[l] = 0
  /\ \A m, n \in Ring(l) : pos[m] = pos[n] => m = n
  /\ \A n \in Ring(l) : IF pxNext[n] = l
                         THEN pos[n] = uxNumberOfItems[l]
                         ELSE pos[pxNext[n]] = pos[n] + 1

(* The ring is one cycle: following the links from the marker meets every  *)
(* item of the list and comes back after as many steps as the counter      *)
(* says.  A link written in the wrong order can split a ring in two, each  *)
(* part well linked.                                                       *)
SingleRing ==
  \A l \in Lists :
    \E pos \in [Ring(l) -> 0 .. uxNumberOfItems[l]] : Numbers(l, pos)

(* The counter every emptiness test of the kernel reads is the number of   *)
(* items whose container is the list.                                      *)
CountExact == \A l \in Lists : uxNumberOfItems[l] = Cardinality(Members(l))

(* A list whose counter is not zero serves one of its own items: the       *)
(* scheduler, which tests the counter and then unwraps the owner, never    *)
(* finds the ownerless marker or an item of another list.                  *)
ServesMember ==
  [][\A l \in Lists : getOwnerOfNextEntry(l) /\ uxNumberOfItems[l] > 0
                        => owner' \in Members(l)]_vars

(* The nodes in the order the index is going to visit them, the node it    *)
(* stands on last: uxNumberOfItems + 1 links followed from pxIndex.        *)
FromIndex(l) ==
  LET visit[k \in 0 .. Cardinality(Items) + 1] ==
        IF k = 0 THEN pxIndex[l] ELSE pxNext[visit[k - 1]]
  IN  [k \in 1 .. uxNumberOfItems[l] + 1 |-> visit[k]]

Turns == INSTANCE RotatingList
         WITH ring <- [l \in Lists |-> FromIndex(l)], value <- xItemValue

(* The pointer structure behaves as a rotating list: an item enters at the *)
(* end of the round or at its place in the order, leaving does not change  *)
(* anybody else's turn, and the index serves the items in rotation.        *)
RotatingSpec == Turns!RSpec

(* An item with the largest value is inserted at the list end, as the      *)
(* comment on insert says.                                                 *)
MaxGoesLast ==
  [][\A l \in Lists, i \in Items :
       vListInsert(l, i) /\ xItemValue[i] = PORT_MAX_DELAY
         => px_previous'[l] = i]_vars
=============================================================================
