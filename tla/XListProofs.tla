---------------------------- MODULE XListProofs -----------------------------
(***************************************************************************)
(* Proofs about the linked lists, for any finite set of items, any set of  *)
(* lists and any values: the links always close rings, the index stays     *)
(* inside its ring, and the counters are exact.  From these the second     *)
(* part proves that the pointers implement RotatingList: the round of a    *)
(* list, as the links give it, changes as the rotating list's does.        *)
(*                                                                         *)
(* The third part is the bound of RoundRobin: what a waiting item may      *)
(* still see depends on where the marker is.  While the marker is behind   *)
(* it, the index cannot step back to it, and every other gets one more     *)
(* turn at most; while the marker is in front of it, one that is in front  *)
(* of the marker may be served, leave, come back behind the marker, and be *)
(* served again.                                                           *)
(***************************************************************************)
EXTENDS RoundRobin, RingProofs, FiniteSetTheorems

(* The invariant of the argument: none of its parts is inductive alone.    *)
IInv == TypeOK /\ WellLinked /\ SingleRing /\ CountExact

(* What the invariant says of one list.                                    *)
LEMMA RingFacts ==
  ASSUME IInv, NEW l \in Lists, NEW n \in Ring(l)
  PROVE  /\ n \in Nodes
         /\ pxNext[n] \in Ring(l) /\ px_previous[pxNext[n]] = n
         /\ px_previous[n] \in Ring(l) /\ pxNext[px_previous[n]] = n
         /\ pxIndex[l] \in Ring(l)
BY DEF IInv, WellLinked, Ring, Members, Nodes

(* A node belongs to one list only.                                        *)
LEMMA RingsDisjoint ==
  ASSUME NEW l \in Lists, NEW m \in Lists, NEW n \in Ring(l), n \in Ring(m)
  PROVE  l = m
BY ListAssumption DEF Ring, Members

(* Empty lists are well linked.                                            *)
LEMMA InitIInv == Init => IInv
<1> SUFFICES ASSUME Init PROVE IInv
  OBVIOUS
<1> USE ListAssumption
<1>1. TypeOK
  BY DEF Init, TypeOK, Nodes
<1>2. \A l \in Lists : Members(l) = {}
  BY DEF Init, Members
<1>3. WellLinked
  BY <1>2 DEF Init, WellLinked, Ring, Nodes
<1>4. CountExact
  BY <1>2, FS_EmptySet DEF Init, CountExact
<1>5. ASSUME NEW l \in Lists
      PROVE  \E pos \in [Ring(l) -> 0 .. uxNumberOfItems[l]] : Numbers(l, pos)
  <2>1. Ring(l) = {l} /\ uxNumberOfItems[l] = 0 /\ pxNext[l] = l
    BY <1>2 DEF Init, Ring, Nodes
  <2> DEFINE pos == [n \in Ring(l) |-> 0]
  <2>2. pos \in [Ring(l) -> 0 .. uxNumberOfItems[l]] /\ Numbers(l, pos)
    BY <2>1 DEF Numbers
  <2> QED
    BY <2>2
<1> QED
  BY <1>1, <1>3, <1>4, <1>5 DEF IInv, SingleRing

(* The pointer writes of the two insertions keep the invariant wherever in *)
(* the ring they put the item.                                             *)
LEMMA LinkBeforeIInv ==
  ASSUME IInv, NEW l \in Lists, NEW item \in Items, NEW node \in Ring(l),
         Detached(item), LinkBefore(l, item, node),
         UNCHANGED <<xItemValue, pxIndex, owner>>
  PROVE  IInv'
<1> USE ListAssumption
<1> DEFINE prev == px_previous[node]
<1>1. /\ item \in Nodes /\ node \in Nodes /\ prev \in Nodes
      /\ prev \in Ring(l) /\ pxNext[prev] = node
      /\ item \notin Lists
  BY RingFacts DEF Nodes
<1>2. \A m \in Lists : item \notin Ring(m)
  BY <1>1 DEF Detached, Ring, Members
<1>3. /\ pxNext' = [pxNext EXCEPT ![item] = node, ![prev] = item]
      /\ px_previous' = [px_previous EXCEPT ![item] = prev, ![node] = item]
      /\ pxContainer' = [pxContainer EXCEPT ![item] = l]
      /\ uxNumberOfItems' = [uxNumberOfItems EXCEPT ![l] = @ + 1]
  BY DEF LinkBefore
<1>4. TypeOK'
  BY <1>1, <1>3 DEF IInv, TypeOK
<1>5. /\ Members(l)' = Members(l) \cup {item}
      /\ \A m \in Lists : m # l => Members(m)' = Members(m)
      /\ item \notin Members(l)
  BY <1>2, <1>3 DEF IInv, TypeOK, Members, Ring
<1>6. /\ Ring(l)' = Ring(l) \cup {item}
      /\ \A m \in Lists : m # l => Ring(m)' = Ring(m)
  BY <1>5 DEF Ring
<1> HIDE DEF prev
<1>7. ASSUME NEW n \in Ring(l)'
      PROVE  /\ pxNext'[n] \in Ring(l)' /\ px_previous'[pxNext'[n]] = n
             /\ px_previous'[n] \in Ring(l)' /\ pxNext'[px_previous'[n]] = n
  <2>1. CASE n = item
    BY <1>1, <1>2, <1>3, <1>6, <2>1 DEF IInv, TypeOK, prev
  <2>2. CASE n # item
    <3>1. /\ n \in Ring(l) /\ n \in Nodes
          /\ pxNext[n] \in Ring(l) /\ px_previous[pxNext[n]] = n
          /\ px_previous[n] \in Ring(l) /\ pxNext[px_previous[n]] = n
      BY <1>6, <2>2, RingFacts
    <3>2. pxNext[n] # item /\ px_previous[n] # item
      BY <1>2, <3>1
    <3>3. pxNext[n] \in Nodes /\ px_previous[n] \in Nodes
      BY <3>1, RingFacts
    <3>4. pxNext'[n] \in Ring(l)' /\ px_previous'[pxNext'[n]] = n
      BY <1>1, <1>3, <1>6, <2>2, <3>1, <3>2, <3>3 DEF IInv, TypeOK, prev
    <3>5. px_previous'[n] \in Ring(l)' /\ pxNext'[px_previous'[n]] = n
      BY <1>1, <1>3, <1>6, <2>2, <3>1, <3>2, <3>3 DEF IInv, TypeOK, prev
    <3> QED
      BY <3>4, <3>5
  <2> QED
    BY <2>1, <2>2
<1>8. ASSUME NEW m \in Lists, m # l, NEW n \in Ring(m)'
      PROVE  /\ pxNext'[n] \in Ring(m)' /\ px_previous'[pxNext'[n]] = n
             /\ px_previous'[n] \in Ring(m)' /\ pxNext'[px_previous'[n]] = n
  <2>1. /\ n \in Ring(m) /\ n \in Nodes
        /\ pxNext[n] \in Ring(m) /\ px_previous[pxNext[n]] = n
        /\ px_previous[n] \in Ring(m) /\ pxNext[px_previous[n]] = n
    BY <1>6, <1>8, RingFacts
  <2>2. pxNext[n] \in Nodes /\ px_previous[n] \in Nodes
    BY <2>1, RingFacts
  <2>3. /\ n \notin {item, node, prev}
        /\ pxNext[n] \notin {item, node, prev}
        /\ px_previous[n] \notin {item, node, prev}
    BY <1>1, <1>2, <1>8, <2>1, RingsDisjoint
  <2> QED
    BY <1>3, <1>6, <1>8, <2>1, <2>2, <2>3 DEF IInv, TypeOK
<1>9. \A m \in Lists : pxIndex'[m] \in Ring(m)'
  BY <1>6, RingFacts DEF IInv, WellLinked
<1>10. WellLinked'
  BY <1>7, <1>8, <1>9 DEF WellLinked
<1>11. CountExact'
  <2>1. IsFiniteSet(Members(l))
    BY FS_Subset DEF Members
  <2>2. Cardinality(Members(l)') = Cardinality(Members(l)) + 1
    BY <1>5, <2>1, FS_AddElement
  <2> QED
    BY <1>3, <1>5, <2>2 DEF IInv, TypeOK, CountExact
<1>12. ASSUME NEW m \in Lists
       PROVE  \E pos \in [Ring(m)' -> 0 .. uxNumberOfItems'[m]] : Numbers(m, pos)'
  <2>1. PICK pos \in [Ring(m) -> 0 .. uxNumberOfItems[m]] : Numbers(m, pos)
    BY DEF IInv, SingleRing
  <2>2. uxNumberOfItems[m] \in Nat
    BY DEF IInv, TypeOK
  <2>3. CASE m # l
    <3>1. \A n \in Ring(m) : n \notin {item, prev} /\ n \in Nodes
      BY <1>1, <1>2, <2>3, RingsDisjoint, RingFacts
    <3>2. \A n \in Ring(m) : pxNext'[n] = pxNext[n]
      BY <1>3, <3>1 DEF IInv, TypeOK
    <3>3. Numbers(m, pos)'
      <4>1. uxNumberOfItems'[m] = uxNumberOfItems[m] /\ Ring(m)' = Ring(m)
        BY <1>3, <1>6, <2>3 DEF IInv, TypeOK
      <4>2. /\ pos[m] = 0
            /\ \A a, b \in Ring(m)' : pos[a] = pos[b] => a = b
        BY <2>1, <4>1 DEF Numbers
      <4>3. ASSUME NEW n \in Ring(m)'
            PROVE  IF pxNext'[n] = m THEN pos[n] = uxNumberOfItems'[m]
                                     ELSE pos[pxNext'[n]] = pos[n] + 1
        BY <2>1, <3>2, <4>1 DEF Numbers
      <4> QED
        BY <4>2, <4>3 DEF Numbers
    <3> QED
      BY <1>3, <1>6, <2>1, <2>3, <3>3 DEF IInv, TypeOK
  <2>4. CASE m = l
    <3> DEFINE at == IF node = l THEN uxNumberOfItems[l] + 1 ELSE pos[node]
               new == [n \in Ring(l)' |-> IF n = item THEN at
                                         ELSE IF pos[n] >= at THEN pos[n] + 1
                                         ELSE pos[n]]
    <3>1. /\ \A n \in Ring(l) : pos[n] \in 0 .. uxNumberOfItems[l]
          /\ pos[l] = 0 /\ l \in Ring(l)
          /\ \A a, b \in Ring(l) : pos[a] = pos[b] => a = b
          /\ \A n \in Ring(l) : IF pxNext[n] = l
                                 THEN pos[n] = uxNumberOfItems[l]
                                 ELSE pos[pxNext[n]] = pos[n] + 1
      BY <2>1, <2>4 DEF Numbers, Ring
    <3>2. at \in 1 .. uxNumberOfItems[l] + 1
      BY <2>2, <2>4, <3>1
    <3>3. uxNumberOfItems'[l] = uxNumberOfItems[l] + 1
      BY <1>3 DEF IInv, TypeOK
    <3>4. item \notin Ring(l) /\ item # l
      BY <1>2, <1>1
    <3>5. \A n \in Ring(l) : new[n] = IF pos[n] >= at THEN pos[n] + 1 ELSE pos[n]
      BY <1>6, <3>4
    <3>6. new[item] = at
      BY <1>6
    <3> HIDE DEF new
    <3>7. new \in [Ring(l)' -> 0 .. uxNumberOfItems'[l]]
      BY <1>6, <2>2, <2>4, <3>1, <3>2, <3>3 DEF new
    <3>8. new[l] = 0
      BY <3>1, <3>2, <3>5
    <3>9. \A a, b \in Ring(l)' : new[a] = new[b] => a = b
      BY <1>6, <2>2, <2>4, <3>1, <3>2, <3>5, <3>6
    <3>10. ASSUME NEW n \in Ring(l)'
           PROVE  IF pxNext'[n] = l THEN new[n] = uxNumberOfItems'[l]
                                    ELSE new[pxNext'[n]] = new[n] + 1
      <4>1. CASE n = item
        <5>1. pxNext'[n] = node
          BY <1>1, <1>3, <4>1, <3>4 DEF IInv, TypeOK, prev
        <5> QED
          BY <2>2, <2>4, <3>1, <3>3, <3>5, <3>6, <4>1, <5>1
      <4>2. CASE n = prev
        <5>1. pxNext'[n] = item
          BY <1>1, <1>3, <4>2 DEF IInv, TypeOK
        <5>2. pos[n] < at /\ at = pos[n] + 1
          BY <1>1, <2>2, <2>4, <3>1, <4>2
        <5> QED
          BY <1>1, <2>2, <3>1, <3>4, <3>5, <3>6, <4>2, <5>1, <5>2
      <4>3. CASE n \notin {item, prev}
        <5>1. n \in Ring(l) /\ pxNext'[n] = pxNext[n] /\ pxNext[n] \in Ring(l)
          BY <1>3, <1>6, <4>3, RingFacts DEF IInv, TypeOK
        <5>2. pxNext[n] # node
          BY <4>3, <5>1, RingFacts DEF prev
        <5> QED
          BY <2>2, <2>4, <3>1, <3>2, <3>3, <3>5, <5>1, <5>2
      <4> QED
        BY <4>1, <4>2, <4>3
    <3>11. PICK q : q = new
      OBVIOUS
    <3>12. Numbers(l, q)'
      BY <3>8, <3>9, <3>10, <3>11 DEF Numbers
    <3> QED
      BY <2>4, <3>7, <3>11, <3>12
  <2> QED
    BY <2>3, <2>4
<1> QED
  BY <1>4, <1>10, <1>11, <1>12 DEF IInv, SingleRing

(* Removing an item joins its neighbours, and an index that stood on it     *)
(* steps back to a node that stays.  That the ring is one cycle is what     *)
(* makes the neighbours different from the item.                            *)
LEMMA RemoveIInv ==
  ASSUME IInv, NEW item \in Items, NEW l \in Lists, l = pxContainer[item],
         uxListRemove(item)
  PROVE  IInv'
<1> USE ListAssumption
<1> DEFINE next == pxNext[item]
           prev == px_previous[item]
           last == uxNumberOfItems[l]
<1>1. l \in Lists /\ item \in Ring(l)
  BY DEF IInv, TypeOK, uxListRemove, Ring, Members
<1>2. /\ item \in Nodes /\ next \in Nodes /\ prev \in Nodes
      /\ next \in Ring(l) /\ px_previous[next] = item
      /\ prev \in Ring(l) /\ pxNext[prev] = item
      /\ item # l /\ l \in Ring(l)
  BY <1>1, RingFacts DEF Ring
<1>3. /\ px_previous' = [px_previous EXCEPT ![next] = prev]
      /\ pxNext' = [pxNext EXCEPT ![prev] = next]
      /\ pxIndex' = IF pxIndex[l] = item THEN [pxIndex EXCEPT ![l] = prev]
                                         ELSE pxIndex
      /\ uxNumberOfItems' = [uxNumberOfItems EXCEPT ![l] = @ - 1]
      /\ pxContainer' = [pxContainer EXCEPT ![item] = None]
      /\ UNCHANGED <<xItemValue, owner>>
  BY DEF uxListRemove
<1>4. /\ Members(l)' = Members(l) \ {item} /\ item \in Members(l)
      /\ \A m \in Lists : m # l => Members(m)' = Members(m)
  BY <1>1, <1>2, <1>3 DEF IInv, TypeOK, Members, Ring
<1>5. /\ Ring(l)' = Ring(l) \ {item}
      /\ \A m \in Lists : m # l => Ring(m)' = Ring(m)
  BY <1>2, <1>4 DEF Ring
<1>6. PICK num \in [Ring(l) -> 0 .. last] : Numbers(l, num)
  BY <1>1 DEF IInv, SingleRing
<1>7. /\ last \in Nat
      /\ \A n \in Ring(l) : num[n] \in 0 .. last
      /\ num[l] = 0
      /\ \A a, b \in Ring(l) : num[a] = num[b] => a = b
      /\ \A n \in Ring(l) : IF pxNext[n] = l THEN num[n] = last
                                             ELSE num[pxNext[n]] = num[n] + 1
  BY <1>1, <1>6 DEF Numbers, IInv, TypeOK
<1> HIDE DEF next, prev, last
<1>8. num[item] \in 1 .. last
  BY <1>1, <1>2, <1>7
<1>9. next # item /\ prev # item
  <2>1. next # item
    BY <1>1, <1>2, <1>7, <1>8 DEF next
  <2> QED
    BY <1>2, <2>1 DEF next
<1>10. TypeOK'
  <2>1. uxNumberOfItems[l] - 1 \in Nat
    BY <1>7, <1>8 DEF last
  <2> QED
    BY <1>1, <1>2, <1>3, <2>1 DEF IInv, TypeOK
<1>11. ASSUME NEW n \in Ring(l)'
       PROVE  /\ pxNext'[n] \in Ring(l)' /\ px_previous'[pxNext'[n]] = n
              /\ px_previous'[n] \in Ring(l)' /\ pxNext'[px_previous'[n]] = n
  <2>1. /\ n \in Ring(l) /\ n # item /\ n \in Nodes
        /\ pxNext[n] \in Ring(l) /\ px_previous[pxNext[n]] = n
        /\ px_previous[n] \in Ring(l) /\ pxNext[px_previous[n]] = n
    BY <1>1, <1>5, RingFacts
  <2>2. pxNext[n] \in Nodes /\ px_previous[n] \in Nodes
    BY <1>1, <2>1, RingFacts
  <2>3. pxNext'[n] \in Ring(l)' /\ px_previous'[pxNext'[n]] = n
    <3>1. CASE n = prev
      BY <1>2, <1>3, <1>5, <1>9, <2>1, <3>1 DEF IInv, TypeOK
    <3>2. CASE n # prev
      <4>1. pxNext'[n] = pxNext[n] /\ pxNext[n] # item /\ pxNext[n] # next
        BY <1>2, <1>3, <2>1, <3>2 DEF prev, next, IInv, TypeOK
      <4> QED
        BY <1>3, <1>5, <2>1, <2>2, <4>1 DEF IInv, TypeOK
    <3> QED
      BY <3>1, <3>2
  <2>4. px_previous'[n] \in Ring(l)' /\ pxNext'[px_previous'[n]] = n
    <3>1. CASE n = next
      BY <1>2, <1>3, <1>5, <1>9, <2>1, <3>1 DEF IInv, TypeOK
    <3>2. CASE n # next
      <4>1. /\ px_previous'[n] = px_previous[n]
            /\ px_previous[n] # item /\ px_previous[n] # prev
        BY <1>2, <1>3, <2>1, <3>2 DEF prev, next, IInv, TypeOK
      <4> QED
        BY <1>3, <1>5, <2>1, <2>2, <4>1 DEF IInv, TypeOK
    <3> QED
      BY <3>1, <3>2
  <2> QED
    BY <2>3, <2>4
<1>12. ASSUME NEW m \in Lists, m # l, NEW n \in Ring(m)'
       PROVE  /\ pxNext'[n] = pxNext[n] /\ px_previous'[n] = px_previous[n]
              /\ pxNext'[n] \in Ring(m)' /\ px_previous'[pxNext'[n]] = n
              /\ px_previous'[n] \in Ring(m)' /\ pxNext'[px_previous'[n]] = n
  <2>1. /\ n \in Ring(m) /\ n \in Nodes
        /\ pxNext[n] \in Ring(m) /\ px_previous[pxNext[n]] = n
        /\ px_previous[n] \in Ring(m) /\ pxNext[px_previous[n]] = n
    BY <1>5, <1>12, RingFacts
  <2>2. pxNext[n] \in Nodes /\ px_previous[n] \in Nodes
    BY <2>1, RingFacts
  <2>3. /\ n \notin {next, prev}
        /\ pxNext[n] \notin {next, prev}
        /\ px_previous[n] \notin {next, prev}
    BY <1>1, <1>2, <1>12, <2>1, RingsDisjoint
  <2> QED
    BY <1>3, <1>5, <1>12, <2>1, <2>2, <2>3 DEF IInv, TypeOK
<1>13. \A m \in Lists : pxIndex'[m] \in Ring(m)'
  BY <1>1, <1>2, <1>3, <1>5, <1>9, RingFacts DEF IInv, WellLinked, TypeOK
<1>14. WellLinked'
  BY <1>11, <1>12, <1>13 DEF WellLinked
<1>15. CountExact'
  <2>1. IsFiniteSet(Members(l))
    BY FS_Subset DEF Members
  <2>2. Cardinality(Members(l)') = Cardinality(Members(l)) - 1
    BY <1>4, <2>1, FS_RemoveElement
  <2> QED
    BY <1>1, <1>3, <1>4, <2>2 DEF IInv, TypeOK, CountExact
<1>16. ASSUME NEW m \in Lists
       PROVE  \E pos \in [Ring(m)' -> 0 .. uxNumberOfItems'[m]] : Numbers(m, pos)'
  <2>1. CASE m # l
    <3>1. PICK pos \in [Ring(m) -> 0 .. uxNumberOfItems[m]] : Numbers(m, pos)
      BY DEF IInv, SingleRing
    <3>2. uxNumberOfItems'[m] = uxNumberOfItems[m] /\ Ring(m)' = Ring(m)
      BY <1>3, <1>5, <2>1 DEF IInv, TypeOK
    <3>3. /\ pos[m] = 0
          /\ \A a, b \in Ring(m)' : pos[a] = pos[b] => a = b
      BY <3>1, <3>2 DEF Numbers
    <3>4. ASSUME NEW n \in Ring(m)'
          PROVE  IF pxNext'[n] = m THEN pos[n] = uxNumberOfItems'[m]
                                   ELSE pos[pxNext'[n]] = pos[n] + 1
      <4>1. pxNext'[n] = pxNext[n]
        BY <1>12, <2>1
      <4> QED
        BY <3>1, <3>2, <4>1 DEF Numbers
    <3>5. Numbers(m, pos)'
      BY <3>3, <3>4 DEF Numbers
    <3> QED
      BY <3>1, <3>2, <3>5
  <2>2. CASE m = l
    <3> DEFINE new == [n \in Ring(l)' |-> IF num[n] > num[item] THEN num[n] - 1
                                                              ELSE num[n]]
    <3>1. uxNumberOfItems'[l] = last - 1
      BY <1>1, <1>3 DEF IInv, TypeOK, last
    <3>2. \A n \in Ring(l)' : /\ n \in Ring(l) /\ n # item
                             /\ num[n] # num[item]
      BY <1>1, <1>5, <1>7
    <3>3. \A n \in Ring(l)' :
             new[n] = IF num[n] > num[item] THEN num[n] - 1 ELSE num[n]
      OBVIOUS
    <3>4. new \in [Ring(l)' -> 0 .. uxNumberOfItems'[l]]
      BY <1>7, <1>8, <3>1, <3>2
    <3> HIDE DEF new
    <3>5. new[l] = 0
      BY <1>2, <1>5, <1>7, <1>8, <3>3
    <3>6. \A a, b \in Ring(l)' : new[a] = new[b] => a = b
      BY <1>7, <1>8, <3>2, <3>3
    <3>7. ASSUME NEW n \in Ring(l)'
          PROVE  IF pxNext'[n] = l THEN new[n] = uxNumberOfItems'[l]
                                   ELSE new[pxNext'[n]] = new[n] + 1
      <4>1. CASE n = prev
        <5>1. /\ pxNext'[n] = next /\ next \in Ring(l)'
              /\ num[item] = num[n] + 1
              /\ IF next = l THEN num[item] = last
                             ELSE num[next] = num[item] + 1
          BY <1>1, <1>2, <1>3, <1>5, <1>7, <1>9, <4>1
             DEF next, IInv, TypeOK
        <5> QED
          BY <1>7, <1>8, <3>1, <3>2, <3>3, <5>1
      <4>2. CASE n # prev
        <5>1. pxNext'[n] = pxNext[n] /\ pxNext[n] \in Ring(l)'
          <6>1. pxNext'[n] = pxNext[n]
            BY <1>3, <4>2, <1>1, <3>2, RingFacts DEF IInv, TypeOK
          <6> QED
            BY <1>11, <6>1
        <5> QED
          BY <1>7, <1>8, <3>1, <3>2, <3>3, <5>1
      <4> QED
        BY <4>1, <4>2
    <3>8. PICK q : q = new
      OBVIOUS
    <3>9. Numbers(m, q)'
      BY <2>2, <3>5, <3>6, <3>7, <3>8 DEF Numbers
    <3> QED
      BY <2>2, <3>4, <3>8, <3>9
  <2> QED
    BY <2>1, <2>2
<1> QED
  BY <1>10, <1>14, <1>15, <1>16 DEF IInv, SingleRing

(* Every step keeps the invariant.                                          *)
LEMMA NextIInv == IInv /\ [Next]_vars => IInv'
<1> SUFFICES ASSUME IInv, [Next]_vars PROVE IInv'
  OBVIOUS
<1> USE ListAssumption
<1>1. ASSUME NEW l \in Lists, NEW i \in Items, vListInsertEnd(l, i)
      PROVE  IInv'
  <2>1. pxIndex[l] \in Ring(l)
    BY DEF IInv, WellLinked
  <2> QED
    BY <1>1, <2>1, LinkBeforeIInv DEF vListInsertEnd
<1>2. ASSUME NEW l \in Lists, NEW i \in Items, vListInsert(l, i)
      PROVE  IInv'
  BY <1>2, LinkBeforeIInv DEF vListInsert
<1>3. ASSUME NEW i \in Items, uxListRemove(i) PROVE IInv'
  <2>1. pxContainer[i] \in Lists
    BY <1>3 DEF IInv, TypeOK, uxListRemove
  <2> QED
    BY <1>3, <2>1, RemoveIInv
<1>4. ASSUME NEW l \in Lists, getOwnerOfNextEntry(l) PROVE IInv'
  <2>1. pxIndex[l] \in Ring(l) /\ l \in Ring(l)
    BY DEF IInv, WellLinked, Ring
  <2>2. /\ pxIndex'[l] \in Ring(l)
        /\ \A m \in Lists : m # l => pxIndex'[m] = pxIndex[m]
        /\ pxIndex' \in [Lists -> Nodes]
    BY <1>4, <2>1, RingFacts DEF getOwnerOfNextEntry, IInv, TypeOK
  <2>3. TypeOK'
    BY <1>4, <2>2 DEF getOwnerOfNextEntry, IInv, TypeOK
  <2>4. \A m \in Lists : Members(m)' = Members(m) /\ Ring(m)' = Ring(m)
    BY <1>4 DEF getOwnerOfNextEntry, Members, Ring
  <2>5. WellLinked'
    BY <1>4, <2>2, <2>4 DEF getOwnerOfNextEntry, IInv, WellLinked
  <2>6. SingleRing' /\ CountExact'
    BY <1>4, <2>4 DEF getOwnerOfNextEntry, IInv, SingleRing, Numbers, CountExact
  <2> QED
    BY <2>3, <2>5, <2>6 DEF IInv
<1>5. ASSUME UNCHANGED <<pxNext, px_previous, pxContainer, pxIndex,
                         uxNumberOfItems, owner>>,
             xItemValue' \in [Nodes -> 0 .. PORT_MAX_DELAY]
      PROVE  IInv'
  <2>1. \A m \in Lists : Members(m)' = Members(m) /\ Ring(m)' = Ring(m)
    BY <1>5 DEF Members, Ring
  <2>2. TypeOK'
    BY <1>5 DEF IInv, TypeOK
  <2>3. WellLinked'
    BY <1>5, <2>1 DEF IInv, WellLinked
  <2>4. SingleRing' /\ CountExact'
    BY <1>5, <2>1 DEF IInv, SingleRing, Numbers, CountExact
  <2> QED
    BY <2>2, <2>3, <2>4 DEF IInv
<1>6. ASSUME NEW i \in Items, NEW v \in Values, listItemSetValue(i, v)
      PROVE  IInv'
  BY <1>5, <1>6 DEF listItemSetValue, IInv, TypeOK
<1>7. CASE UNCHANGED vars
  BY <1>5, <1>7 DEF vars, IInv, TypeOK
<1> QED
  BY <1>1, <1>2, <1>3, <1>4, <1>6, <1>7 DEF Next

(* The invariant holds in every reachable state.                            *)
LEMMA SpecIInv == Spec => []IInv
BY InitIInv, NextIInv, PTL DEF Spec

(* Every link, index and container is of its kind: a node of a list, a      *)
(* list, or an empty weak link where the code may hold one.                 *)
THEOREM TypeCorrect == Spec => []TypeOK
BY SpecIInv, PTL DEF IInv

(* For any number of items and lists, next and previous are inverse on      *)
(* every list and no pointer into a list survives a removal.                *)
THEOREM AlwaysWellLinked == Spec => []WellLinked
BY SpecIInv, PTL DEF IInv

(* Every list is one cycle through its marker, as long as its counter says. *)
THEOREM AlwaysSingleRing == Spec => []SingleRing
BY SpecIInv, PTL DEF IInv

(* The counters never drift from the number of items in the lists.          *)
THEOREM CountAlwaysExact == Spec => []CountExact
BY SpecIInv, PTL DEF IInv

(* A nonempty list never serves its marker: the unwrap in the scheduler's   *)
(* selection cannot panic, whatever was inserted and removed before.        *)
THEOREM AlwaysServesMember == Spec => ServesMember
<1>1. ASSUME IInv, NEW l \in Lists, getOwnerOfNextEntry(l),
             uxNumberOfItems[l] > 0
      PROVE  owner' \in Members(l)
  <2>1. PICK pos \in [Ring(l) -> 0 .. uxNumberOfItems[l]] : Numbers(l, pos)
    BY <1>1 DEF IInv, SingleRing
  <2>2. pxIndex[l] \in Ring(l) /\ l \in Ring(l)
    BY <1>1 DEF IInv, WellLinked, Ring
  <2>3. pxNext[l] # l
    BY <1>1, <2>1, <2>2 DEF Numbers, IInv, TypeOK
  <2>4. /\ pxNext[l] \in Ring(l) \ {l}
        /\ pxNext[pxIndex[l]] \in Ring(l)
    BY <1>1, <2>2, <2>3, RingFacts
  <2>5. \A n \in Ring(l) : n # l => n \in Members(l) /\ n \in Items
    BY DEF Ring, Members
  <2> QED
    BY <1>1, <2>4, <2>5 DEF getOwnerOfNextEntry
<1>2. IInv /\ [Next]_vars
        => [\A l \in Lists : getOwnerOfNextEntry(l) /\ uxNumberOfItems[l] > 0
                             => owner' \in Members(l)]_vars
  BY <1>1
<1> QED
  BY <1>2, SpecIInv, PTL DEF Spec, ServesMember
-----------------------------------------------------------------------------
(* The refinement of RotatingList.  What follows from following the links: *)
(* the m + 1 nodes met from a node on.                                     *)
Visits(next, from, m) ==
  LET visit[k \in 0 .. m] == IF k = 0 THEN from ELSE next[visit[k - 1]]
  IN  visit

IsVisit(g, next, from, m) ==
  g = [k \in 0 .. m |-> IF k = 0 THEN from ELSE next[g[k - 1]]]

LEMMA VisitsUnfold ==
  ASSUME NEW next, NEW from, NEW n \in Nat
  PROVE  \E g : IsVisit(g, next, from, n)
<1> USE DEF IsVisit
<1> DEFINE Body(g, m) == [k \in 0 .. m |-> IF k = 0 THEN from
                                           ELSE next[g[k - 1]]]
           Fails == {m \in Nat : ~\E g : g = Body(g, m)}
<1>1. SUFFICES ASSUME Fails # {} PROVE FALSE
  OBVIOUS
<1>2. PICK m \in Fails : \A k \in Fails : m <= k
  <2>1. Fails \subseteq Nat
    OBVIOUS
  <2> HIDE DEF Fails
  <2> QED
    BY <1>1, <2>1, LeastNumber
<1>3. CASE m = 0
  <2> DEFINE g == [k \in 0 .. 0 |-> from]
  <2>1. g = Body(g, 0)
    OBVIOUS
  <2> QED
    BY <1>2, <1>3, <2>1
<1>4. CASE m # 0
  <2>1. m \in Nat /\ m - 1 \in Nat /\ m - 1 \notin Fails
    <3>1. m \in Nat
      OBVIOUS
    <3> HIDE DEF Fails
    <3> QED
      BY <1>2, <1>4, <3>1
  <2>2. PICK g : g = Body(g, m - 1)
    <3> HIDE DEF Body
    <3> QED
      BY <2>1
  <2> DEFINE h == [k \in 0 .. m |-> IF k = m THEN next[g[m - 1]] ELSE g[k]]
  <2>3. ASSUME NEW k \in 0 .. m
        PROVE  h[k] = IF k = 0 THEN from ELSE next[h[k - 1]]
    <3>1. CASE k = m
      <4>1. h[k - 1] = g[m - 1] /\ h[k] = next[g[m - 1]]
        BY <1>4, <2>1, <3>1
      <4> QED
        BY <1>4, <3>1, <4>1
    <3>2. CASE k # m
      <4>1. k \in 0 .. m - 1 /\ h[k] = g[k]
        BY <2>1, <3>2
      <4>2. k # 0 => k - 1 \in 0 .. m /\ k - 1 # m
        BY <2>1
      <4>3. k # 0 => h[k - 1] = g[k - 1]
        BY <4>2
      <4>4. g[k] = IF k = 0 THEN from ELSE next[g[k - 1]]
        BY <2>2, <4>1
      <4> QED
        BY <4>1, <4>3, <4>4
    <3> QED
      BY <3>1, <3>2
  <2>4. h = Body(h, m)
    BY <2>3
  <2> QED
    BY <1>2, <2>4
<1> QED
  BY <1>3, <1>4

LEMMA VisitsAre ==
  ASSUME NEW next, NEW from, NEW n \in Nat
  PROVE  /\ Visits(next, from, n)[0] = from
         /\ \A k \in 1 .. n :
              Visits(next, from, n)[k] = next[Visits(next, from, n)[k - 1]]
<1> DEFINE g == CHOOSE f : IsVisit(f, next, from, n)
<1>1. IsVisit(g, next, from, n)
  BY VisitsUnfold
<1>2. Visits(next, from, n) = g
  BY DEF Visits, IsVisit
<1> HIDE DEF g
<1>3. 0 \in 0 .. n /\ \A k \in 1 .. n : k \in 0 .. n /\ k # 0
  OBVIOUS
<1>4. g[0] = from /\ \A k \in 1 .. n : g[k] = next[g[k - 1]]
  BY <1>1, <1>3 DEF IsVisit
<1> QED
  BY <1>2, <1>4

(* The sequence r of n + 1 nodes follows the links from a node on.         *)
Follows(r, next, from, n) ==
  /\ DOMAIN r = 1 .. n + 1 /\ r = [k \in 1 .. n + 1 |-> r[k]]
  /\ r[1] = next[from]
  /\ \A k \in 1 .. n : r[k + 1] = next[r[k]]

LEMMA OneFollows ==
  ASSUME NEW r, NEW s, NEW next, NEW from, NEW n \in Nat,
         Follows(r, next, from, n), Follows(s, next, from, n)
  PROVE  r = s
<1> DEFINE Fails == {k \in Nat : k \in 1 .. n + 1 /\ r[k] # s[k]}
<1>1. Fails = {}
  <2> SUFFICES ASSUME Fails # {} PROVE FALSE
    OBVIOUS
  <2>1. Fails \subseteq Nat /\ \A k \in Fails : k \in 1 .. n + 1 /\ r[k] # s[k]
    OBVIOUS
  <2>2. \A k \in 1 .. n + 1 : r[k] # s[k] => k \in Fails
    OBVIOUS
  <2> HIDE DEF Fails
  <2>3. PICK k \in Fails : \A j \in Fails : k <= j
    BY <2>1, LeastNumber
  <2>4. k \in 1 .. n + 1 /\ r[k] # s[k] /\ k # 1
    BY <2>1, <2>3 DEF Follows
  <2>5. k - 1 \in 1 .. n /\ k - 1 \notin Fails /\ k - 1 + 1 = k
    BY <2>3, <2>4
  <2>6. r[k - 1] = s[k - 1]
    BY <2>2, <2>5
  <2>7. r[k - 1 + 1] = next[r[k - 1]] /\ s[k - 1 + 1] = next[s[k - 1]]
    BY <2>5 DEF Follows
  <2> QED
    BY <2>4, <2>5, <2>6, <2>7
<1>2. \A k \in 1 .. n + 1 : r[k] = s[k]
  BY <1>1
<1> QED
  BY <1>2 DEF Follows

(* What FromIndex collects.                                                *)
LEMMA CollectFollows ==
  ASSUME NEW next, NEW from, NEW m \in Nat, NEW n \in Nat, n + 1 <= m
  PROVE  Follows([k \in 1 .. n + 1 |-> Visits(next, from, m)[k]], next, from, n)
<1> DEFINE g == Visits(next, from, m)
           r == [k \in 1 .. n + 1 |-> g[k]]
<1>1. g[0] = from /\ \A k \in 1 .. m : g[k] = next[g[k - 1]]
  BY VisitsAre
<1> HIDE DEF g
<1>2. r[1] = next[from]
  <2>1. 1 \in 1 .. m /\ 1 \in 1 .. n + 1 /\ 1 - 1 = 0
    OBVIOUS
  <2>2. g[1] = next[g[1 - 1]]
    BY <1>1, <2>1
  <2> QED
    BY <1>1, <2>1, <2>2
<1>3. ASSUME NEW k \in 1 .. n PROVE r[k + 1] = next[r[k]]
  <2>1. k + 1 \in 1 .. m /\ k + 1 \in 1 .. n + 1 /\ k \in 1 .. n + 1
        /\ k + 1 - 1 = k
    OBVIOUS
  <2>2. g[k + 1] = next[g[k + 1 - 1]]
    BY <1>1, <2>1
  <2> QED
    BY <2>1, <2>2
<1>4. Follows(r, next, from, n)
  BY <1>2, <1>3 DEF Follows
<1> QED
  BY <1>4 DEF g

LEMMA FromIndexIs ==
  ASSUME NEW l
  PROVE  FromIndex(l) = [k \in 1 .. uxNumberOfItems[l] + 1 |->
           Visits(pxNext, pxIndex[l], Cardinality(Items) + 1)[k]]
BY DEF FromIndex, Visits

LEMMA FewItems ==
  ASSUME IInv, NEW l \in Lists
  PROVE  /\ uxNumberOfItems[l] \in Nat /\ Cardinality(Items) \in Nat
         /\ uxNumberOfItems[l] <= Cardinality(Items)
<1> DEFINE M == Members(l)
<1>1. M \subseteq Items
  BY DEF Members
<1> HIDE DEF M
<1>2. Cardinality(M) <= Cardinality(Items) /\ Cardinality(Items) \in Nat
  BY <1>1, FS_Subset, FS_CardinalityType, ListAssumption
<1> QED
  BY <1>2 DEF M, IInv, CountExact, TypeOK

LEMMA RoundFollows ==
  ASSUME IInv, NEW l \in Lists
  PROVE  Follows(FromIndex(l), pxNext, pxIndex[l], uxNumberOfItems[l])
<1>1. /\ uxNumberOfItems[l] \in Nat /\ Cardinality(Items) + 1 \in Nat
      /\ uxNumberOfItems[l] + 1 <= Cardinality(Items) + 1
  BY FewItems
<1> QED
  BY <1>1, FromIndexIs, CollectFollows

(* Whoever follows the links after a step is the round after it.           *)
LEMMA NewRoundIs ==
  ASSUME IInv', NEW l \in Lists, NEW r,
         NEW next, next = pxNext', NEW at, at = pxIndex'[l],
         NEW n, n = uxNumberOfItems'[l],
         Follows(r, next, at, n)
  PROVE  FromIndex(l)' = r
<1> DEFINE m == Cardinality(Items) + 1
           new == [k \in 1 .. n + 1 |-> Visits(next, at, m)[k]]
<1>1. FromIndex(l)' = new
  BY DEF FromIndex, Visits
<1>2. n \in Nat /\ m \in Nat /\ n + 1 <= m
  <2> DEFINE M == Members(l)'
  <2>1. M \subseteq Items
    BY DEF Members
  <2> HIDE DEF M
  <2>2. Cardinality(M) <= Cardinality(Items) /\ Cardinality(Items) \in Nat
    BY <2>1, FS_Subset, FS_CardinalityType, ListAssumption
  <2>3. n = Cardinality(M) /\ n \in Nat
    BY DEF M, IInv, CountExact, TypeOK
  <2> QED
    BY <2>2, <2>3
<1> HIDE DEF m
<1>3. Follows(new, next, at, n)
  BY <1>2, CollectFollows
<1> QED
  BY <1>1, <1>2, <1>3, OneFollows

(* The pointers of a list as a cycle of its nodes: numbered in their order *)
(* from the marker.                                                        *)
Cycle(R, next, l, n, pos) ==
  /\ l \in R /\ pos[l] = 0
  /\ \A a \in R : next[a] \in R /\ pos[a] \in 0 .. n
  /\ \A a, b \in R : pos[a] = pos[b] => a = b
  /\ \A a \in R : IF next[a] = l THEN pos[a] = n ELSE pos[next[a]] = pos[a] + 1

(* A round meets every node once, the one it began behind at the end.      *)
Tours(r, R, from, n) ==
  /\ \A k \in 1 .. n + 1 : r[k] \in R
  /\ \A j, k \in 1 .. n + 1 : r[j] = r[k] => j = k
  /\ \A a \in R : \E k \in 1 .. n + 1 : r[k] = a
  /\ r[n + 1] = from

LEMMA CycleIs ==
  ASSUME NEW R, NEW next, NEW l, NEW n \in Nat, NEW pos,
         Cycle(R, next, l, n, pos), NEW from, from \in R,
         NEW r, Follows(r, next, from, n)
  PROVE  Tours(r, R, from, n)
<1> DEFINE Num(k) == IF pos[from] + k <= n THEN pos[from] + k
                     ELSE pos[from] + k - (n + 1)
           Fails == {k \in Nat : k \in 1 .. n + 1
                                   /\ ~(r[k] \in R /\ pos[r[k]] = Num(k))}
<1>1. pos[from] \in 0 .. n /\ \A a \in R : next[a] \in R /\ pos[a] \in 0 .. n
  BY DEF Cycle
<1>2. ASSUME NEW a \in R
      PROVE  pos[next[a]] = IF pos[a] + 1 <= n THEN pos[a] + 1 ELSE 0
  <2>1. IF next[a] = l THEN pos[a] = n ELSE pos[next[a]] = pos[a] + 1
    BY DEF Cycle
  <2>2. pos[l] = 0
    BY DEF Cycle
  <2> QED
    BY <1>1, <2>1, <2>2
<1>3. Fails = {}
  <2> SUFFICES ASSUME Fails # {} PROVE FALSE
    OBVIOUS
  <2>1. /\ Fails \subseteq Nat
        /\ \A k \in Fails : k \in 1 .. n + 1
                             /\ ~(r[k] \in R /\ pos[r[k]] = Num(k))
        /\ \A k \in 1 .. n + 1 : ~(r[k] \in R /\ pos[r[k]] = Num(k)) => k \in Fails
    OBVIOUS
  <2> HIDE DEF Fails
  <2>2. PICK k \in Fails : \A j \in Fails : k <= j
    BY <2>1, LeastNumber
  <2>3. k \in 1 .. n + 1 /\ ~(r[k] \in R /\ pos[r[k]] = Num(k))
    BY <2>1, <2>2
  <2>4. CASE k = 1
    <3>1. r[1] = next[from]
      BY DEF Follows
    <3> QED
      BY <1>1, <1>2, <2>3, <2>4, <3>1
  <2>5. CASE k # 1
    <3>1. k - 1 \in 1 .. n /\ k - 1 \notin Fails /\ k - 1 \in 1 .. n + 1
          /\ k - 1 + 1 = k
      BY <2>2, <2>3, <2>5
    <3>2. r[k - 1] \in R /\ pos[r[k - 1]] = Num(k - 1)
      BY <2>1, <3>1
    <3>3. r[k] = next[r[k - 1]]
      BY <3>1 DEF Follows
    <3>4. pos[r[k]] = IF pos[r[k - 1]] + 1 <= n THEN pos[r[k - 1]] + 1 ELSE 0
      BY <1>2, <3>2, <3>3
    <3> QED
      BY <1>1, <2>3, <3>1, <3>2, <3>3, <3>4
  <2> QED
    BY <2>4, <2>5
<1>4. \A k \in 1 .. n + 1 : r[k] \in R /\ pos[r[k]] = Num(k)
  BY <1>3
<1>5. \A a, b \in R : pos[a] = pos[b] => a = b
  BY DEF Cycle
<1>6. ASSUME NEW j \in 1 .. n + 1, NEW k \in 1 .. n + 1, r[j] = r[k]
      PROVE  j = k
  BY <1>1, <1>4, <1>6
<1>7. ASSUME NEW a \in R PROVE \E k \in 1 .. n + 1 : r[k] = a
  <2>1. PICK k \in 1 .. n + 1 : Num(k) = pos[a]
    <3>1. CASE pos[a] > pos[from]
      <4>1. /\ pos[a] - pos[from] \in 1 .. n + 1
            /\ Num(pos[a] - pos[from]) = pos[a]
        BY <1>1, <3>1
      <4> QED
        BY <4>1
    <3>2. CASE ~(pos[a] > pos[from])
      <4>1. /\ pos[a] - pos[from] + n + 1 \in 1 .. n + 1
            /\ Num(pos[a] - pos[from] + n + 1) = pos[a]
        BY <1>1, <3>2
      <4> QED
        BY <4>1
    <3> QED
      BY <3>1, <3>2
  <2> QED
    BY <1>4, <1>5, <2>1
<1>8. r[n + 1] = from
  <2>1. n + 1 \in 1 .. n + 1 /\ Num(n + 1) = pos[from]
    BY <1>1
  <2> QED
    BY <1>4, <1>5, <2>1
<1> QED
  BY <1>4, <1>6, <1>7, <1>8 DEF Tours

(* The round of a list is a ring of its nodes.                             *)
LEMMA RoundIs ==
  ASSUME IInv, NEW l \in Lists, NEW r, r = FromIndex(l),
         NEW n, n = uxNumberOfItems[l]
  PROVE  /\ n \in Nat /\ Len(r) = n + 1 /\ Follows(r, pxNext, pxIndex[l], n)
         /\ Tours(r, Ring(l), pxIndex[l], n) /\ IsRing(r, l, Items)
         /\ \A x : Contains(r, x) <=> x \in Ring(l)
<1>1. n \in Nat /\ Follows(r, pxNext, pxIndex[l], n)
  BY FewItems, RoundFollows
<1>2. PICK pos \in [Ring(l) -> 0 .. n] : Numbers(l, pos)
  BY DEF IInv, SingleRing
<1>3. Cycle(Ring(l), pxNext, l, n, pos) /\ pxIndex[l] \in Ring(l)
  <2>1. \A a \in Ring(l) : pxNext[a] \in Ring(l) /\ pos[a] \in 0 .. n
    BY <1>2, RingFacts
  <2>2. l \in Ring(l) /\ pxIndex[l] \in Ring(l)
    BY RingFacts DEF Ring
  <2> QED
    BY <1>2, <2>1, <2>2 DEF Cycle, Numbers
<1> DEFINE R == Ring(l)
           U == Items \cup {l}
<1>4. Tours(r, R, pxIndex[l], n)
  BY <1>1, <1>3, CycleIs
<1>5. R \subseteq U /\ l \in R
  BY DEF Ring, Members
<1> HIDE DEF R
<1>6. r \in Seq(U) /\ Len(r) = n + 1
  <2>1. \A k \in 1 .. n + 1 : r[k] \in U
    BY <1>4, <1>5 DEF Tours
  <2>2. DOMAIN r = 1 .. n + 1 /\ r = [k \in 1 .. n + 1 |-> r[k]]
    BY <1>1 DEF Follows
  <2> HIDE DEF U
  <2>3. r \in [1 .. n + 1 -> U]
    BY <2>1, <2>2
  <2> QED
    BY <1>1, <2>3
<1>7. IsRing(r, l, Items) /\ \A x : Contains(r, x) <=> x \in R
  BY <1>1, <1>4, <1>5, <1>6 DEF IsRing, Contains, Tours
<1> QED
  BY <1>1, <1>4, <1>6, <1>7 DEF R

(* The node before place p of the round; what InsertAt, RemoveAt and       *)
(* turning a round make of it, place by place.                             *)
Before(r, from, p) == IF p = 1 THEN from ELSE r[p - 1]

Inserted(s, r, p, i, n) ==
  /\ DOMAIN s = 1 .. n + 2 /\ s = [k \in 1 .. n + 2 |-> s[k]]
  /\ \A k \in 1 .. n + 2 : s[k] = IF k < p THEN r[k]
                                  ELSE IF k = p THEN i ELSE r[k - 1]

Removed(s, r, p, n) ==
  /\ DOMAIN s = 1 .. n /\ s = [k \in 1 .. n |-> s[k]]
  /\ \A k \in 1 .. n : s[k] = IF k < p THEN r[k] ELSE r[k + 1]

TurnedBy(s, r, d, n) ==
  /\ DOMAIN s = 1 .. n + 1 /\ s = [k \in 1 .. n + 1 |-> s[k]]
  /\ \A k \in 1 .. n + 1 : s[k] = IF k <= n + 1 - d THEN r[k + d]
                                  ELSE r[k - (n + 1 - d)]

(* An item is linked in before the node at place p.                        *)
LEMMA LinkIn ==
  ASSUME NEW r, NEW next, NEW from, NEW n \in Nat, Follows(r, next, from, n),
         NEW R, Tours(r, R, from, n), R \subseteq DOMAIN next,
         NEW p, p \in 1 .. n + 1, NEW i, i \in DOMAIN next, i \notin R,
         NEW prev, prev = Before(r, from, p),
         NEW new, new = [next EXCEPT ![i] = r[p], ![prev] = i],
         NEW s, Inserted(s, r, p, i, n)
  PROVE  Follows(s, new, from, n + 1)
<1> USE DEF Before, Inserted
<1>1. /\ r[n + 1] = from /\ from \in R /\ prev \in R
      /\ \A k \in 1 .. n + 1 : r[k] \in R
      /\ \A j, k \in 1 .. n + 1 : r[j] = r[k] => j = k
  <2>1. /\ n + 1 \in 1 .. n + 1 /\ (p # 1 => p - 1 \in 1 .. n + 1)
    OBVIOUS
  <2> QED
    BY <2>1 DEF Tours
<1>2. r[1] = next[from] /\ \A k \in 1 .. n : r[k + 1] = next[r[k]]
  BY DEF Follows
<1>3. /\ new[prev] = i /\ new[i] = r[p]
      /\ \A a \in R : a # prev => new[a] = next[a]
  BY <1>1
<1>4. s[1] = new[from]
  <2>1. CASE p = 1
    BY <1>3, <2>1
  <2>2. CASE p # 1
    <3>1. /\ p - 1 \in 1 .. n + 1 /\ p - 1 # n + 1 /\ n + 1 \in 1 .. n + 1
          /\ 1 \in 1 .. n + 2 /\ 1 < p
      BY <2>2
    <3>2. from # prev
      BY <1>1, <2>2, <3>1
    <3> QED
      BY <1>1, <1>2, <1>3, <3>1, <3>2
  <2> QED
    BY <2>1, <2>2
<1>5. ASSUME NEW k \in 1 .. n + 1 PROVE s[k + 1] = new[s[k]]
  <2>0. k \in 1 .. n + 2 /\ k + 1 \in 1 .. n + 2
    OBVIOUS
  <2>1. CASE k + 1 < p
    <3>1. /\ k \in 1 .. n /\ k < p /\ p - 1 \in 1 .. n + 1 /\ k # p - 1
          /\ k \in 1 .. n + 1 /\ p # 1
      BY <2>1
    <3>2. s[k] = r[k] /\ s[k + 1] = r[k + 1] /\ r[k] # prev
      BY <1>1, <2>0, <2>1, <3>1
    <3> QED
      BY <1>1, <1>2, <1>3, <3>1, <3>2
  <2>2. CASE k + 1 = p
    <3>1. k < p /\ p # 1 /\ p - 1 = k
      BY <2>2
    <3>2. s[k] = prev /\ s[k + 1] = i
      BY <2>0, <2>2, <3>1
    <3> QED
      BY <1>3, <3>2
  <2>3. CASE k = p
    <3>1. ~(k + 1 < p) /\ k + 1 # p /\ ~(k < p) /\ k + 1 - 1 = p
      BY <2>3
    <3>2. s[k] = i /\ s[k + 1] = r[p]
      BY <2>0, <2>3, <3>1
    <3> QED
      BY <1>3, <3>2
  <2>4. CASE k > p
    <3>1. /\ ~(k + 1 < p) /\ k + 1 # p /\ ~(k < p) /\ k # p /\ k + 1 - 1 = k
          /\ k - 1 \in 1 .. n /\ k - 1 \in 1 .. n + 1 /\ k - 1 # p - 1
          /\ k - 1 # n + 1 /\ n + 1 \in 1 .. n + 1 /\ k - 1 + 1 = k
          /\ (p # 1 => p - 1 \in 1 .. n + 1)
      BY <2>4
    <3>2. s[k] = r[k - 1] /\ s[k + 1] = r[k]
      BY <2>0, <2>4, <3>1
    <3>3. r[k - 1] # prev
      BY <1>1, <3>1
    <3> QED
      BY <1>1, <1>2, <1>3, <3>1, <3>2, <3>3
  <2> QED
    BY <2>1, <2>2, <2>3, <2>4
<1>6. n + 1 + 1 = n + 2
  OBVIOUS
<1> QED
  BY <1>4, <1>5, <1>6 DEF Follows

(* A node is taken out of the links; the index steps back off it.          *)
LEMMA LinkOut ==
  ASSUME NEW r, NEW next, NEW from, NEW n \in Nat \ {0},
         Follows(r, next, from, n),
         NEW R, Tours(r, R, from, n), R \subseteq DOMAIN next,
         NEW p, p \in 1 .. n + 1, NEW prev, prev = Before(r, from, p),
         NEW new, new = [next EXCEPT ![prev] = next[r[p]]],
         NEW at, at = IF from = r[p] THEN prev ELSE from,
         NEW s, Removed(s, r, p, n)
  PROVE  Follows(s, new, at, n - 1)
<1> USE DEF Before, Removed
<1>1. /\ r[n + 1] = from /\ from \in R /\ prev \in R /\ r[p] \in R
      /\ \A k \in 1 .. n + 1 : r[k] \in R
      /\ \A j, k \in 1 .. n + 1 : r[j] = r[k] => j = k
  <2>1. n + 1 \in 1 .. n + 1 /\ (p # 1 => p - 1 \in 1 .. n + 1)
    OBVIOUS
  <2> QED
    BY <2>1 DEF Tours
<1>2. r[1] = next[from] /\ \A k \in 1 .. n : r[k + 1] = next[r[k]]
  BY DEF Follows
<1>3. new[prev] = next[r[p]] /\ \A a \in R : a # prev => new[a] = next[a]
  BY <1>1
<1>4. CASE p = n + 1
  <2>1. /\ p # 1 /\ p - 1 = n /\ n \in 1 .. n + 1 /\ n \in 1 .. n /\ n < p
        /\ 1 \in 1 .. n /\ 1 < p
    BY <1>4
  <2>2. prev = r[n] /\ at = r[n] /\ next[r[p]] = r[1]
    BY <1>1, <1>2, <1>4, <2>1
  <2>3. s[1] = new[at]
    BY <1>3, <2>1, <2>2
  <2>4. ASSUME NEW k \in 1 .. n - 1 PROVE s[k + 1] = new[s[k]]
    <3>1. /\ k \in 1 .. n /\ k + 1 \in 1 .. n /\ k < p /\ k + 1 < p
          /\ k # n /\ k \in 1 .. n + 1
      BY <1>4
    <3>2. s[k] = r[k] /\ s[k + 1] = r[k + 1] /\ r[k] # prev
      BY <1>1, <2>1, <2>2, <3>1
    <3> QED
      BY <1>1, <1>2, <1>3, <3>1, <3>2
  <2>5. n - 1 + 1 = n
    OBVIOUS
  <2> QED
    BY <2>3, <2>4, <2>5 DEF Follows
<1>5. CASE p # n + 1
  <2>1. /\ p \in 1 .. n /\ n + 1 \in 1 .. n + 1
        /\ (p # 1 => p - 1 \in 1 .. n + 1 /\ p - 1 # n + 1)
    BY <1>5
  <2>2. at = from /\ next[r[p]] = r[p + 1]
    BY <1>1, <1>2, <1>5, <2>1
  <2>3. s[1] = new[at]
    <3>1. CASE p = 1
      <4>1. 1 \in 1 .. n /\ ~(1 < p) /\ 1 + 1 = p + 1
        BY <3>1
      <4> QED
        BY <1>3, <2>2, <3>1, <4>1
    <3>2. CASE p # 1
      <4>1. 1 \in 1 .. n /\ 1 < p
        BY <3>2
      <4>2. from # prev
        BY <1>1, <2>1, <3>2
      <4> QED
        BY <1>1, <1>2, <1>3, <2>2, <4>1, <4>2
    <3> QED
      BY <3>1, <3>2
  <2>4. ASSUME NEW k \in 1 .. n - 1 PROVE s[k + 1] = new[s[k]]
    <3>0. /\ k \in 1 .. n /\ k + 1 \in 1 .. n /\ k \in 1 .. n + 1
          /\ k + 1 \in 1 .. n + 1 /\ k # n + 1 /\ k + 1 # n + 1
      OBVIOUS
    <3>1. CASE k + 1 < p
      <4>1. k < p /\ p # 1 /\ k # p - 1
        BY <3>1
      <4>2. s[k] = r[k] /\ s[k + 1] = r[k + 1] /\ r[k] # prev
        BY <1>1, <2>1, <3>0, <3>1, <4>1
      <4> QED
        BY <1>1, <1>2, <1>3, <3>0, <4>2
    <3>2. CASE k + 1 = p
      <4>1. k < p /\ p # 1 /\ k = p - 1 /\ ~(k + 1 < p)
        BY <3>2
      <4>2. s[k] = prev /\ s[k + 1] = r[p + 1]
        BY <3>0, <3>2, <4>1
      <4> QED
        BY <1>3, <2>2, <4>2
    <3>3. CASE k >= p
      <4>1. /\ ~(k < p) /\ ~(k + 1 < p) /\ k + 1 # p - 1
        BY <3>3
      <4>2. s[k] = r[k + 1] /\ s[k + 1] = r[k + 1 + 1] /\ r[k + 1] # prev
        BY <1>1, <2>1, <3>0, <4>1
      <4> QED
        BY <1>1, <1>2, <1>3, <3>0, <4>2
    <3> QED
      BY <3>1, <3>2, <3>3
  <2>5. n - 1 + 1 = n
    OBVIOUS
  <2> QED
    BY <2>3, <2>4, <2>5 DEF Follows
<1> QED
  BY <1>4, <1>5

(* The same links, followed from another node of the round.                *)
LEMMA TurnFollows ==
  ASSUME NEW r, NEW next, NEW from, NEW n \in Nat, Follows(r, next, from, n),
         r[n + 1] = from, NEW d, d \in 1 .. n + 1,
         NEW s, TurnedBy(s, r, d, n)
  PROVE  Follows(s, next, r[d], n)
<1>0. PICK q \in 0 .. n : q + d = n + 1 /\ q = n + 1 - d
  OBVIOUS
<1> /\ DOMAIN s = 1 .. n + 1 /\ s = [k \in 1 .. n + 1 |-> s[k]]
    /\ \A k \in 1 .. n + 1 : s[k] = IF k <= q THEN r[k + d] ELSE r[k - q]
  BY <1>0 DEF TurnedBy
<1> q + d = n + 1
  BY <1>0
<1>1. r[1] = next[from] /\ \A k \in 1 .. n : r[k + 1] = next[r[k]]
  BY DEF Follows
<1>2. s[1] = next[r[d]]
  <2>1. CASE d = n + 1
    <3>1. /\ 1 \in 1 .. n + 1 /\ ~(1 <= q) /\ 1 - q = 1
      BY <2>1
    <3> QED
      BY <1>1, <2>1, <3>1
  <2>2. CASE d # n + 1
    <3>1. /\ 1 \in 1 .. n + 1 /\ 1 <= q /\ d \in 1 .. n /\ 1 + d = d + 1
      BY <2>2
    <3> QED
      BY <1>1, <3>1
  <2> QED
    BY <2>1, <2>2
<1>3. ASSUME NEW k \in 1 .. n PROVE s[k + 1] = next[s[k]]
  <2>0. k \in 1 .. n + 1 /\ k + 1 \in 1 .. n + 1
    OBVIOUS
  <2>1. CASE k + 1 <= q
    <3>1. k \in Nat /\ d \in Nat \ {0} /\ k <= q
      BY <2>1
    <3>2. k + d \in 1 .. n
      BY <2>1, <3>1
    <3>3. k + 1 + d = k + d + 1
      BY <3>1
    <3> QED
      BY <1>1, <2>0, <2>1, <3>1, <3>2, <3>3
  <2>2. CASE k = q
    <3>1. /\ k <= q /\ k + d = n + 1 /\ ~(k + 1 <= q)
          /\ k + 1 - q = 1
      BY <2>2
    <3>2. s[k] = from
      BY <2>0, <3>1
    <3>3. s[k + 1] = r[1]
      BY <2>0, <3>1
    <3> QED
      BY <1>1, <3>2, <3>3
  <2>3. CASE k > q
    <3>1. /\ ~(k <= q) /\ ~(k + 1 <= q)
          /\ k - q \in 1 .. n
          /\ k + 1 - q = k - q + 1
      BY <2>3
    <3> QED
      BY <1>1, <2>0, <3>1
  <2> QED
    BY <2>1, <2>2, <2>3
<1> QED
  BY <1>2, <1>3 DEF Follows

(* Links that no node of the round owns may change.                        *)
LEMMA SameFollows ==
  ASSUME NEW r, NEW next, NEW from, NEW n \in Nat, Follows(r, next, from, n),
         NEW R, Tours(r, R, from, n), NEW new, \A a \in R : new[a] = next[a]
  PROVE  Follows(r, new, from, n)
<1>1. n + 1 \in 1 .. n + 1 /\ \A k \in 1 .. n : k \in 1 .. n + 1
  OBVIOUS
<1> QED
  BY <1>1 DEF Follows, Tours

(* A ring is a function on its places.                                     *)
LEMMA SeqIsFun ==
  ASSUME NEW U, NEW s \in Seq(U), NEW m, m = Len(s)
  PROVE  DOMAIN s = 1 .. m /\ s = [k \in 1 .. m |-> s[k]]
OBVIOUS

LEMMA InsertedIs ==
  ASSUME NEW U, NEW r \in Seq(U), NEW i \in U, NEW p \in 1 .. Len(r),
         NEW s, s = InsertAt(r, p, i)
  PROVE  \A n \in Nat : Len(r) = n + 1 => Inserted(s, r, p, i, n)
<1>1. s \in Seq(U) /\ InsertedInto(s, r, p, i)
  <2>1. p \in 1 .. Len(r) + 1
    OBVIOUS
  <2> QED
    BY <2>1, InsertAtIs
<1>2. ASSUME NEW n \in Nat, Len(r) = n + 1 PROVE Inserted(s, r, p, i, n)
  <2>1. Len(r) + 1 = n + 2 /\ Len(s) = n + 2
    BY <1>1, <1>2 DEF InsertedInto
  <2>2. DOMAIN s = 1 .. n + 2 /\ s = [k \in 1 .. n + 2 |-> s[k]]
    BY <1>1, <2>1, SeqIsFun
  <2> QED
    BY <1>1, <2>1, <2>2 DEF Inserted, InsertedInto
<1> QED
  BY <1>2

LEMMA RemovedIs ==
  ASSUME NEW U, NEW r \in Seq(U), NEW n \in Nat, Len(r) = n + 1,
         NEW p \in 1 .. n + 1, NEW s, s = RemoveAt(r, p)
  PROVE  Removed(s, r, p, n)
<1>1. p \in 1 .. Len(r) /\ Len(r) - 1 = n
  OBVIOUS
<1>2. s \in Seq(U) /\ TakenFrom(s, r, p)
  BY <1>1, RemoveAtIs
<1>3. Len(s) = n
  BY <1>1, <1>2 DEF TakenFrom
<1>4. DOMAIN s = 1 .. n /\ s = [k \in 1 .. n |-> s[k]]
  BY <1>2, <1>3, SeqIsFun
<1> QED
  BY <1>1, <1>2, <1>4 DEF Removed, TakenFrom

LEMMA TurnedByIs ==
  ASSUME NEW U, NEW r \in Seq(U), NEW n \in Nat, Len(r) = n + 1,
         NEW d \in 1 .. n + 1, NEW s, s = Turned(r, d)
  PROVE  TurnedBy(s, r, d, n)
<1>1. d \in 1 .. Len(r)
  OBVIOUS
<1>2. s \in Seq(U) /\ TurnOf(s, r, d)
  BY <1>1, TurnedIs
<1>3. Len(s) = n + 1
  BY <1>2 DEF TurnOf
<1>4. DOMAIN s = 1 .. n + 1 /\ s = [k \in 1 .. n + 1 |-> s[k]]
  BY <1>2, <1>3, SeqIsFun
<1> QED
  BY <1>2, <1>4 DEF TurnedBy, TurnOf

(* The link back from the node at place p of the round.                    *)
LEMMA LinkBack ==
  ASSUME IInv, NEW l \in Lists, NEW r, r = FromIndex(l),
         NEW n, n = uxNumberOfItems[l], NEW p \in 1 .. n + 1
  PROVE  /\ px_previous[r[p]] = Before(r, pxIndex[l], p)
         /\ r[p] \in Ring(l)
<1>1. n \in Nat /\ Follows(r, pxNext, pxIndex[l], n)
      /\ Tours(r, Ring(l), pxIndex[l], n)
  BY RoundIs
<1>2. pxIndex[l] \in Ring(l) /\ \A k \in 1 .. n + 1 : r[k] \in Ring(l)
  BY <1>1, RingFacts DEF Tours, Ring
<1>3. \A a \in Ring(l) : px_previous[pxNext[a]] = a
  BY RingFacts
<1>4. CASE p = 1
  BY <1>1, <1>2, <1>3, <1>4 DEF Follows, Before
<1>5. CASE p # 1
  <2>1. p - 1 \in 1 .. n /\ p - 1 \in 1 .. n + 1 /\ p - 1 + 1 = p
    BY <1>1, <1>5
  <2>2. r[p] = pxNext[r[p - 1]]
    BY <1>1, <2>1 DEF Follows
  <2> QED
    BY <1>2, <1>3, <1>5, <2>1, <2>2 DEF Before
<1> QED
  BY <1>4, <1>5

(* A round whose links did not change is the same round after the step.    *)
LEMMA OtherRound ==
  ASSUME IInv, IInv', NEW m \in Lists,
         pxIndex'[m] = pxIndex[m], uxNumberOfItems'[m] = uxNumberOfItems[m],
         \A a \in Ring(m) : pxNext'[a] = pxNext[a]
  PROVE  FromIndex(m)' = FromIndex(m)
<1>1. PICK r, n : r = FromIndex(m) /\ n = uxNumberOfItems[m]
  OBVIOUS
<1>2. /\ n \in Nat /\ Follows(r, pxNext, pxIndex[m], n)
      /\ Tours(r, Ring(m), pxIndex[m], n)
  BY <1>1, RoundIs
<1>3. PICK new, at, c : new = pxNext' /\ at = pxIndex'[m]
                        /\ c = uxNumberOfItems'[m]
  OBVIOUS
<1>4. Follows(r, new, pxIndex[m], n)
  BY <1>2, <1>3, SameFollows
<1>5. Follows(r, new, at, c)
  BY <1>1, <1>3, <1>4
<1> QED
  BY <1>1, <1>3, <1>5, NewRoundIs

(* The pointer writes of an insertion put the item before the node.        *)
LEMMA LinkBeforeRound ==
  ASSUME IInv, IInv', NEW l \in Lists, NEW i \in Items, Detached(i),
         NEW node \in Ring(l), LinkBefore(l, i, node), pxIndex' = pxIndex
  PROVE  /\ FromIndex(l)' = EnterBefore(FromIndex(l), node, i)
         /\ \A m \in Lists \ {l} : FromIndex(m)' = FromIndex(m)
<1> USE ListAssumption
<1>0. /\ pxNext \in [Nodes -> Nodes \cup {None}] /\ Ring(l) \subseteq Nodes
      /\ i \in Nodes /\ i \notin Ring(l) /\ \A m \in Lists : i \notin Ring(m)
      /\ uxNumberOfItems \in [Lists -> Nat]
  BY DEF IInv, TypeOK, Ring, Members, Nodes, Detached
<1>1. PICK r, n : r = FromIndex(l) /\ n = uxNumberOfItems[l]
  OBVIOUS
<1>2. /\ n \in Nat /\ Len(r) = n + 1 /\ Follows(r, pxNext, pxIndex[l], n)
      /\ Tours(r, Ring(l), pxIndex[l], n) /\ IsRing(r, l, Items)
      /\ \A x : Contains(r, x) <=> x \in Ring(l)
  BY <1>1, RoundIs
<1>3. PICK p : p = Place(r, node)
  OBVIOUS
<1>4. p \in 1 .. n + 1 /\ r[p] = node
  BY <1>2, <1>3, PlaceIs
<1>5. px_previous[node] = Before(r, pxIndex[l], p)
  BY <1>1, <1>4, LinkBack
<1>6. PICK s : s = InsertAt(r, p, i)
  OBVIOUS
<1>7. Inserted(s, r, p, i, n)
  <2> DEFINE U == Items \cup {l}
  <2>1. r \in Seq(U) /\ i \in U
    BY <1>2 DEF IsRing
  <2> HIDE DEF U
  <2> QED
    BY <1>2, <1>4, <1>6, <2>1, InsertedIs
<1>8. PICK old, from, R, prev : old = pxNext /\ from = pxIndex[l] /\ R = Ring(l)
                                /\ prev = px_previous[node]
  OBVIOUS
<1>9. PICK new, at, c : new = pxNext' /\ at = pxIndex'[l]
                        /\ c = uxNumberOfItems'[l]
  OBVIOUS
<1>10. /\ new = [old EXCEPT ![i] = r[p], ![prev] = i] /\ at = from /\ c = n + 1
  BY <1>0, <1>1, <1>4, <1>8, <1>9 DEF LinkBefore
<1>11. /\ Follows(r, old, from, n) /\ Tours(r, R, from, n)
       /\ R \subseteq DOMAIN old /\ i \in DOMAIN old /\ i \notin R
       /\ prev = Before(r, from, p)
  BY <1>0, <1>2, <1>5, <1>8
<1>12. Follows(s, new, at, c)
  <2>1. Follows(s, new, from, n + 1)
    BY <1>2, <1>4, <1>7, <1>10, <1>11, LinkIn
  <2> QED
    BY <1>10, <2>1
<1>13. FromIndex(l)' = s
  BY <1>9, <1>12, NewRoundIs
<1>14. ASSUME NEW m \in Lists \ {l} PROVE FromIndex(m)' = FromIndex(m)
  <2>1. px_previous[node] \in Ring(l)
    BY RingFacts
  <2>2. \A a \in Ring(m) : a # i /\ a # px_previous[node] /\ a \in Nodes
    BY <1>0, <2>1, RingsDisjoint, RingFacts
  <2>3. \A a \in Ring(m) : pxNext'[a] = pxNext[a]
    BY <1>0, <2>2 DEF LinkBefore
  <2>4. uxNumberOfItems'[m] = uxNumberOfItems[m]
    BY <1>0 DEF LinkBefore
  <2> QED
    BY <2>3, <2>4, OtherRound
<1> QED
  BY <1>1, <1>3, <1>6, <1>13, <1>14 DEF EnterBefore

(* Leaving takes the item out of the round; the index it stood on steps    *)
(* back, so that the next turn is the one it would have been.              *)
LEMMA RemoveRound ==
  ASSUME IInv, IInv', NEW l \in Lists, NEW i \in Items, pxContainer[i] = l,
         uxListRemove(i)
  PROVE  /\ Contains(FromIndex(l), i)
         /\ FromIndex(l)' = Without(FromIndex(l), i)
         /\ \A m \in Lists \ {l} : FromIndex(m)' = FromIndex(m)
<1> USE ListAssumption
<1>0. /\ pxNext \in [Nodes -> Nodes \cup {None}] /\ Ring(l) \subseteq Nodes
      /\ i \in Ring(l) /\ i # l /\ pxIndex \in [Lists -> Nodes]
      /\ uxNumberOfItems \in [Lists -> Nat]
  BY DEF IInv, TypeOK, Ring, Members, Nodes
<1>1. PICK r, n : r = FromIndex(l) /\ n = uxNumberOfItems[l]
  OBVIOUS
<1>2. /\ n \in Nat /\ Len(r) = n + 1 /\ Follows(r, pxNext, pxIndex[l], n)
      /\ Tours(r, Ring(l), pxIndex[l], n) /\ IsRing(r, l, Items)
      /\ \A x : Contains(r, x) <=> x \in Ring(l)
  BY <1>1, RoundIs
<1>3. PICK p : p = Place(r, i)
  OBVIOUS
<1>4. p \in 1 .. n + 1 /\ r[p] = i /\ Contains(r, i)
  <2>1. Contains(r, i)
    BY <1>0, <1>2
  <2> QED
    BY <1>2, <1>3, <2>1, PlaceIs
<1>5. n \in Nat \ {0}
  <2>1. PICK q \in 1 .. n + 1 : r[q] = l
    BY <1>2 DEF IsRing, Contains
  <2> QED
    BY <1>0, <1>2, <1>4, <2>1
<1>6. px_previous[i] = Before(r, pxIndex[l], p)
  BY <1>1, <1>4, LinkBack
<1>7. PICK s : s = RemoveAt(r, p)
  OBVIOUS
<1>8. Removed(s, r, p, n)
  <2> DEFINE U == Items \cup {l}
  <2>1. r \in Seq(U)
    BY <1>2 DEF IsRing
  <2> HIDE DEF U
  <2> QED
    BY <1>2, <1>4, <1>7, <2>1, RemovedIs
<1>9. PICK old, from, R, prev : old = pxNext /\ from = pxIndex[l] /\ R = Ring(l)
                                /\ prev = px_previous[i]
  OBVIOUS
<1>10. PICK new, at, c : new = pxNext' /\ at = pxIndex'[l]
                        /\ c = uxNumberOfItems'[l]
  OBVIOUS
<1>11. /\ new = [old EXCEPT ![prev] = old[r[p]]]
       /\ at = IF from = r[p] THEN prev ELSE from
       /\ c = n - 1
  <2>1. pxNext' = [pxNext EXCEPT ![px_previous[i]] = pxNext[i]]
    BY DEF uxListRemove
  <2>2. pxIndex' = IF pxIndex[l] = i THEN [pxIndex EXCEPT ![l] = px_previous[i]]
                   ELSE pxIndex
    BY DEF uxListRemove
  <2>3. uxNumberOfItems' = [uxNumberOfItems EXCEPT ![l] = @ - 1]
    BY DEF uxListRemove
  <2>4. at = IF from = r[p] THEN prev ELSE from
    BY <1>0, <1>4, <1>9, <1>10, <2>2
  <2>5. c = n - 1
    BY <1>0, <1>1, <1>10, <2>3
  <2> QED
    BY <1>4, <1>9, <1>10, <2>1, <2>4, <2>5
<1>12. /\ Follows(r, old, from, n) /\ Tours(r, R, from, n)
       /\ R \subseteq DOMAIN old /\ prev = Before(r, from, p)
  BY <1>0, <1>2, <1>6, <1>9
<1>13. Follows(s, new, at, c)
  <2>1. Follows(s, new, at, n - 1)
    BY <1>4, <1>5, <1>8, <1>11, <1>12, LinkOut
  <2> QED
    BY <1>11, <2>1
<1>14. FromIndex(l)' = s
  BY <1>10, <1>13, NewRoundIs
<1>15. ASSUME NEW m \in Lists \ {l} PROVE FromIndex(m)' = FromIndex(m)
  <2>1. px_previous[i] \in Ring(l)
    BY <1>0, RingFacts
  <2>2. \A a \in Ring(m) : a # px_previous[i] /\ a \in Nodes
    BY <2>1, RingsDisjoint, RingFacts
  <2>3. \A a \in Ring(m) : pxNext'[a] = pxNext[a]
    BY <1>0, <2>2 DEF uxListRemove
  <2>4. uxNumberOfItems'[m] = uxNumberOfItems[m]
    BY <1>0 DEF uxListRemove
  <2>5. pxIndex'[m] = pxIndex[m]
    BY <1>0 DEF uxListRemove
  <2> QED
    BY <2>3, <2>4, <2>5, OtherRound
<1> QED
  BY <1>1, <1>3, <1>4, <1>7, <1>14, <1>15 DEF Without

(* The round that begins behind another node of the list.                  *)
LEMMA TurnedRound ==
  ASSUME IInv, NEW l \in Lists, NEW r, r = FromIndex(l),
         NEW n, n = uxNumberOfItems[l], NEW d \in 1 .. n + 1
  PROVE  Follows(Turned(r, d), pxNext, r[d], n)
<1>1. /\ n \in Nat /\ Len(r) = n + 1 /\ Follows(r, pxNext, pxIndex[l], n)
      /\ Tours(r, Ring(l), pxIndex[l], n) /\ IsRing(r, l, Items)
  BY RoundIs
<1>2. PICK s, next, from : s = Turned(r, d) /\ next = pxNext /\ from = pxIndex[l]
  OBVIOUS
<1>3. TurnedBy(s, r, d, n)
  <2> DEFINE U == Items \cup {l}
  <2>1. r \in Seq(U)
    BY <1>1 DEF IsRing
  <2> HIDE DEF U
  <2> QED
    BY <1>1, <1>2, <2>1, TurnedByIs
<1>4. Follows(r, next, from, n) /\ r[n + 1] = from
  BY <1>1, <1>2 DEF Tours
<1>5. Follows(s, next, r[d], n)
  BY <1>1, <1>3, <1>4, TurnFollows
<1> QED
  BY <1>2, <1>5

(* An empty list serves nobody, and its index stays.                       *)
LEMMA EmptyServes ==
  ASSUME IInv, NEW l \in Lists, getOwnerOfNextEntry(l), uxNumberOfItems[l] = 0
  PROVE  /\ owner' = None /\ pxIndex' = pxIndex
         /\ pxNext' = pxNext /\ uxNumberOfItems' = uxNumberOfItems
<1> USE ListAssumption
<1>1. PICK r, n : r = FromIndex(l) /\ n = uxNumberOfItems[l]
  OBVIOUS
<1>2. Follows(r, pxNext, pxIndex[l], n) /\ Tours(r, Ring(l), pxIndex[l], n)
  BY <1>1, RoundIs
<1>3. r[1] = pxNext[pxIndex[l]] /\ r[1] = pxIndex[l] /\ \A a \in Ring(l) : a = r[1]
  BY <1>1, <1>2 DEF Follows, Tours
<1>4. l \in Ring(l)
  BY DEF Ring
<1>5. pxIndex[l] = l /\ pxNext[l] = l
  BY <1>3, <1>4
<1>6. /\ owner' = None /\ pxIndex' = [pxIndex EXCEPT ![l] = l]
      /\ pxNext' = pxNext /\ uxNumberOfItems' = uxNumberOfItems
  BY <1>5 DEF getOwnerOfNextEntry
<1> QED
  BY <1>5, <1>6 DEF IInv, TypeOK

(* Serving turns the round by the nodes the index moved over.              *)
LEMMA ServeRound ==
  ASSUME IInv, IInv', NEW l \in Lists, getOwnerOfNextEntry(l),
         uxNumberOfItems[l] # 0
  PROVE  /\ ~IsEmpty(FromIndex(l))
         /\ FromIndex(l)' = Rotate(FromIndex(l), l)
         /\ owner' = Last(FromIndex(l)')
         /\ \A m \in Lists \ {l} : FromIndex(m)' = FromIndex(m)
<1> USE ListAssumption
<1>1. PICK r, n : r = FromIndex(l) /\ n = uxNumberOfItems[l]
  OBVIOUS
<1>2. /\ n \in Nat /\ Len(r) = n + 1 /\ Follows(r, pxNext, pxIndex[l], n)
      /\ Tours(r, Ring(l), pxIndex[l], n) /\ IsRing(r, l, Items)
      /\ \A x : Contains(r, x) <=> x \in Ring(l)
  BY <1>1, RoundIs
<1>3. n # 0 /\ r[1] = pxNext[pxIndex[l]] /\ r[2] = pxNext[r[1]]
  <2>1. n # 0
    BY <1>1
  <2>2. 1 \in 1 .. n /\ 1 + 1 = 2
    BY <1>2, <2>1
  <2>3. r[1] = pxNext[pxIndex[l]] /\ r[1 + 1] = pxNext[r[1]]
    BY <1>2, <2>2 DEF Follows
  <2> QED
    BY <2>1, <2>2, <2>3
<1>4. PICK d : d = IF r[1] = l THEN 2 ELSE 1
  OBVIOUS
<1>5. d \in 1 .. n + 1 /\ Rotate(r, l) = Turned(r, d)
  <2>1. d \in 1 .. n + 1
    BY <1>2, <1>3, <1>4
  <2>2. Head(r) = r[1]
    BY <1>2, <1>3 DEF IsRing
  <2> QED
    BY <1>4, <2>1, <2>2 DEF Rotate, Turned
<1>6. r[d] \in Items /\ pxIndex' = [pxIndex EXCEPT ![l] = r[d]] /\ owner' = r[d]
      /\ pxNext' = pxNext /\ uxNumberOfItems' = uxNumberOfItems
  <2>1. r[d] # l
    <3>1. 1 \in 1 .. n + 1 /\ 2 \in 1 .. n + 1
      BY <1>2, <1>3
    <3>2. r[1] # r[2]
      BY <1>2, <3>1 DEF Tours
    <3> QED
      BY <1>4, <3>2
  <2>2. r[d] \in Items
    BY <1>2, <1>5, <2>1 DEF Tours, Ring, Members
  <2>3. r[d] = IF pxNext[pxIndex[l]] = l THEN pxNext[pxNext[pxIndex[l]]]
               ELSE pxNext[pxIndex[l]]
    BY <1>3, <1>4
  <2> QED
    BY <2>2, <2>3 DEF getOwnerOfNextEntry
<1>7. FromIndex(l)' = Turned(r, d)
  <2>1. PICK s, new, at, c : s = Turned(r, d) /\ new = pxNext'
                             /\ at = pxIndex'[l] /\ c = uxNumberOfItems'[l]
    OBVIOUS
  <2>2. new = pxNext /\ at = r[d] /\ c = n
    BY <1>1, <1>6, <2>1 DEF IInv, TypeOK
  <2>3. Follows(s, new, at, c)
    BY <1>1, <1>5, <2>1, <2>2, TurnedRound
  <2> QED
    BY <2>1, <2>3, NewRoundIs
<1>8. Last(Turned(r, d)) = r[d]
  <2> DEFINE U == Items \cup {l}
  <2>1. r \in Seq(U) /\ d \in 1 .. Len(r)
    BY <1>2, <1>5 DEF IsRing
  <2>2. Len(Turned(r, d)) = Len(r) /\ Turned(r, d)[Len(r)] = r[d]
    BY <1>2, <2>1, TurnedRing
  <2> QED
    BY <2>2 DEF Last
<1>9. ASSUME NEW m \in Lists \ {l} PROVE FromIndex(m)' = FromIndex(m)
  <2>1. pxIndex'[m] = pxIndex[m]
    BY <1>6 DEF IInv, TypeOK
  <2> QED
    BY <1>6, <2>1, OtherRound
<1> QED
  BY <1>1, <1>2, <1>3, <1>5, <1>6, <1>7, <1>8, <1>9 DEF IsEmpty

(* The marker keeps the largest value.                                     *)
MarkerMax == \A l \in Lists : xItemValue[l] = PORT_MAX_DELAY

LEMMA SpecMarkerMax == Spec => []MarkerMax
<1>1. Init => MarkerMax
  BY DEF Init, MarkerMax, Nodes
<1>2. IInv /\ MarkerMax /\ [Next]_vars => MarkerMax'
  <2> SUFFICES ASSUME IInv, MarkerMax, [Next]_vars PROVE MarkerMax'
    OBVIOUS
  <2>1. ASSUME NEW i \in Items, NEW v \in Values, listItemSetValue(i, v)
        PROVE  MarkerMax'
    BY <2>1, ListAssumption DEF listItemSetValue, MarkerMax, IInv, TypeOK, Nodes
  <2>2. ASSUME xItemValue' = xItemValue PROVE MarkerMax'
    BY <2>2 DEF MarkerMax
  <2> QED
    BY <2>1, <2>2 DEF Next, vars, vListInsertEnd, vListInsert, uxListRemove,
       getOwnerOfNextEntry
<1> QED
  BY <1>1, <1>2, SpecIInv, PTL DEF Spec

(* What the search of insert looks at is the order of the list.            *)
LEMMA WalkOrder ==
  ASSUME IInv, NEW l \in Lists, NEW r, r = FromIndex(l),
         NEW n, n = uxNumberOfItems[l]
  PROVE  /\ Follows(InOrder(r, l), pxNext, l, n)
         /\ n <= Cardinality(Items)
         /\ \A k \in 1 .. n + 1 : InOrder(r, l)[k] = Walk(l)[k - 1]
<1>1. /\ n \in Nat /\ Len(r) = n + 1 /\ IsRing(r, l, Items)
  BY RoundIs
<1>2. Follows(InOrder(r, l), pxNext, l, n)
  <2>1. PICK d : d = Place(r, l)
    OBVIOUS
  <2>2. d \in 1 .. n + 1 /\ r[d] = l
    BY <1>1, <2>1, PlaceIs DEF IsRing
  <2>3. Follows(Turned(r, d), pxNext, l, n)
    BY <2>2, TurnedRound
  <2> QED
    BY <2>1, <2>3 DEF InOrder, Turned
<1>3. PICK m \in Nat : m = Cardinality(Items)
  BY FewItems
<1>4. n <= m
  BY <1>3, FewItems
<1>5. PICK w, next, first : /\ w = Walk(l) /\ next = pxNext /\ first = pxNext[l]
  OBVIOUS
<1>6. w[0] = first /\ \A k \in 1 .. m : w[k] = next[w[k - 1]]
  <2>1. w = Visits(next, first, m)
    BY <1>3, <1>5 DEF Walk, Visits
  <2> QED
    BY <2>1, VisitsAre
<1>7. PICK s : s = [k \in 1 .. n + 1 |-> w[k - 1]]
  OBVIOUS
<1>8. Follows(s, next, l, n)
  <2>1. s[1] = next[l]
    <3>1. 1 \in 1 .. n + 1 /\ 1 - 1 = 0
      BY <1>1
    <3> QED
      BY <1>5, <1>6, <1>7, <3>1
  <2>2. ASSUME NEW k \in 1 .. n PROVE s[k + 1] = next[s[k]]
    <3>1. /\ k \in 1 .. m /\ k \in 1 .. n + 1 /\ k + 1 \in 1 .. n + 1
          /\ k + 1 - 1 = k
      BY <1>1, <1>4
    <3> QED
      BY <1>6, <1>7, <3>1
  <2> QED
    BY <1>7, <2>1, <2>2 DEF Follows
<1>9. s = InOrder(r, l)
  BY <1>1, <1>2, <1>5, <1>8, OneFollows
<1> QED
  BY <1>2, <1>3, <1>4, <1>5, <1>7, <1>9

(* The node insert puts an item of value v before.                         *)
NextInOrder(r, l, v) ==
  IF v # PORT_MAX_DELAY THEN FirstAtLeast(r, l, xItemValue, v)
  ELSE IF IsEmpty(r) THEN l
  ELSE InOrder(r, l)[Len(InOrder(r, l)) - 1]

LEMMA SearchFinds ==
  ASSUME IInv, MarkerMax, NEW l \in Lists, NEW v \in 0 .. PORT_MAX_DELAY,
         NEW node, InsertsBefore(l, v, node)
  PROVE  node = NextInOrder(FromIndex(l), l, v)
<1> USE ListAssumption
<1>1. PICK r, n, o : /\ r = FromIndex(l) /\ n = uxNumberOfItems[l]
                     /\ o = InOrder(r, l)
  OBVIOUS
<1>2. /\ n \in Nat /\ Len(r) = n + 1 /\ IsRing(r, l, Items)
      /\ Len(o) = n + 1 /\ o[n + 1] = l
  <2>1. n \in Nat /\ Len(r) = n + 1 /\ IsRing(r, l, Items)
    BY <1>1, RoundIs
  <2>2. Len(o) = Len(r) /\ MarkerLast(o, l)
    BY <1>1, <2>1, InOrderIs
  <2> QED
    BY <2>1, <2>2 DEF MarkerLast
<1>3. /\ Follows(o, pxNext, l, n) /\ n <= Cardinality(Items)
      /\ Cardinality(Items) \in Nat
      /\ \A k \in 1 .. n + 1 : o[k] = Walk(l)[k - 1]
  BY <1>1, WalkOrder, FewItems
<1>4. \A k \in 1 .. n + 1 : o[k] \in Nodes /\ xItemValue[o[k]] \in Int
  <2>1. \A x : Contains(o, x) <=> Contains(r, x)
    BY <1>1, <1>2, InOrderIs
  <2>2. \A k \in 1 .. n + 1 : Contains(o, o[k])
    BY <1>2 DEF Contains
  <2>3. \A x : Contains(r, x) <=> x \in Ring(l)
    BY <1>1, RoundIs
  <2>4. \A k \in 1 .. n + 1 : o[k] \in Nodes
    BY <2>1, <2>2, <2>3, RingFacts
  <2> QED
    BY <2>4 DEF IInv, TypeOK
<1>5. CASE v = PORT_MAX_DELAY
  <2>1. node = px_previous[l]
    BY <1>5 DEF InsertsBefore
  <2>2. CASE n = 0
    <3>1. pxNext[l] = l
      BY <1>2, <1>3, <2>2 DEF Follows
    <3>2. px_previous[l] = l
      BY <3>1, RingFacts DEF Ring
    <3> QED
      BY <1>1, <1>2, <1>5, <2>1, <2>2, <3>2 DEF NextInOrder, IsEmpty
  <2>3. CASE n # 0
    <3>1. n \in 1 .. n /\ n \in 1 .. n + 1 /\ n + 1 - 1 = n /\ n + 1 # 1
      BY <1>2, <2>3
    <3>2. l = pxNext[o[n]]
      BY <1>2, <1>3, <3>1 DEF Follows
    <3>3. o[n] \in Ring(l)
      <4>1. Contains(o, o[n])
        BY <1>2, <3>1 DEF Contains
      <4> QED
        BY <1>1, <1>2, <4>1, InOrderIs, RoundIs
    <3>4. px_previous[l] = o[n]
      BY <3>2, <3>3, RingFacts
    <3> QED
      BY <1>1, <1>2, <1>5, <2>1, <3>1, <3>4 DEF NextInOrder, IsEmpty
  <2> QED
    BY <2>2, <2>3
<1>6. CASE v # PORT_MAX_DELAY
  <2>1. PICK k \in 0 .. Cardinality(Items) :
               /\ node = Walk(l)[k] /\ xItemValue[node] >= v
               /\ \A j \in 0 .. k - 1 : xItemValue[Walk(l)[j]] < v
    BY <1>6 DEF InsertsBefore
  <2>2. xItemValue[l] >= v /\ Walk(l)[n] = l
    <3>1. n + 1 \in 1 .. n + 1 /\ n + 1 - 1 = n
      BY <1>2
    <3> QED
      BY <1>2, <1>3, <3>1 DEF MarkerMax
  <2>3. k <= n
    <3>1. ASSUME ~(k <= n) PROVE FALSE
      <4>1. n \in 0 .. k - 1
        BY <1>2, <1>3, <3>1
      <4>2. xItemValue[l] < v /\ xItemValue[l] \in Int
        BY <2>1, <2>2, <4>1 DEF MarkerMax
      <4> QED
        BY <2>2, <4>2
    <3> QED
      BY <3>1
  <2>4. k + 1 \in 1 .. n + 1 /\ k + 1 - 1 = k
    BY <1>2, <1>3, <2>3
  <2>5. node = o[k + 1]
    BY <1>3, <2>1, <2>4
  <2>6. PICK q \in 1 .. n + 1 :
             /\ o[q] = FirstAtLeast(r, l, xItemValue, v)
             /\ xItemValue[o[q]] >= v
             /\ \A i \in 1 .. q - 1 : ~(xItemValue[o[i]] >= v)
    <3>1. PICK val : val = xItemValue
      OBVIOUS
    <3>2. \E q \in 1 .. Len(r) :
             /\ InOrder(r, l)[q] = FirstAtLeast(r, l, val, v)
             /\ val[InOrder(r, l)[q]] >= v
             /\ \A i \in 1 .. q - 1 : ~(val[InOrder(r, l)[i]] >= v)
      BY <1>2, <2>2, <3>1, FirstAtLeastIs
    <3> QED
      BY <1>1, <1>2, <3>1, <3>2
  <2>7. ~(q < k + 1)
    <3>1. ASSUME q < k + 1 PROVE FALSE
      <4>1. q - 1 \in 0 .. k - 1
        BY <2>4, <3>1
      <4>2. xItemValue[o[q]] < v
        BY <1>3, <2>1, <4>1
      <4> QED
        BY <1>4, <2>6, <4>2
    <3> QED
      BY <3>1
  <2>8. ~(k + 1 < q)
    <3>1. ASSUME k + 1 < q PROVE FALSE
      <4>1. k + 1 \in 1 .. q - 1
        BY <2>4, <3>1
      <4> QED
        BY <2>1, <2>5, <2>6, <4>1
    <3> QED
      BY <3>1
  <2>9. q = k + 1
    BY <2>4, <2>7, <2>8
  <2> QED
    BY <1>1, <1>6, <2>5, <2>6, <2>9 DEF NextInOrder
<1> QED
  BY <1>5, <1>6

(* The operators of Rings, as the abstract specification names them.       *)
LEMMA SameRings ==
  ASSUME NEW s, NEW t, NEW node
  PROVE  /\ Turns!EmptyRing(t) = EmptyRing(t)
         /\ Turns!IsEmpty(s) = IsEmpty(s)
         /\ Turns!Contains(s, t) = Contains(s, t)
         /\ Turns!EnterLast(s, t) = EnterLast(s, t)
         /\ Turns!EnterBefore(s, node, t) = EnterBefore(s, node, t)
         /\ Turns!Without(s, t) = Without(s, t)
         /\ Turns!Rotate(s, t) = Rotate(s, t)
         /\ Turns!Last(s) = Last(s)
<1>1. Turns!Contains(s, t) = Contains(s, t)
  BY DEF Turns!Contains, Contains
<1>2. Turns!InsertAt(s, Len(s), t) = InsertAt(s, Len(s), t)
  BY DEF Turns!InsertAt, InsertAt
<1>3. Turns!Place(s, t) = Place(s, t) /\ Turns!Place(s, node) = Place(s, node)
  BY DEF Turns!Place, Place
<1>4. Turns!EnterBefore(s, node, t) = EnterBefore(s, node, t)
  BY <1>3 DEF Turns!EnterBefore, EnterBefore, Turns!InsertAt, InsertAt
<1>5. Turns!Without(s, t) = Without(s, t)
  BY <1>1, <1>3 DEF Turns!Without, Without, Turns!RemoveAt, RemoveAt
<1> QED
  BY <1>1, <1>2, <1>4, <1>5 DEF Turns!EmptyRing, EmptyRing, Turns!IsEmpty,
     IsEmpty, Turns!EnterLast, EnterLast, Turns!Rotate, Rotate, Turns!Last, Last

LEMMA SameOrders ==
  ASSUME NEW s, NEW t
  PROVE  Turns!InOrder(s, t) = InOrder(s, t)
BY DEF Turns!InOrder, InOrder, Turns!Place, Place

LEMMA SameSearch ==
  ASSUME NEW s, NEW t, NEW w, NEW v
  PROVE  Turns!FirstAtLeast(s, t, w, v) = FirstAtLeast(s, t, w, v)
<1> DEFINE order == InOrder(s, t)
           I == {i \in 1 .. Len(order) : w[order[i]] >= v}
<1>1. FirstAtLeast(s, t, w, v) = order[IF I # {} THEN Min(I) ELSE 0]
  BY DEF FirstAtLeast, SelectInSeq
<1>2. Turns!FirstAtLeast(s, t, w, v) = order[IF I # {} THEN Turns!Min(I) ELSE 0]
  BY SameOrders DEF Turns!FirstAtLeast, Turns!SelectInSeq
<1>3. Turns!Min(I) = Min(I)
  BY DEF Turns!Min, Min
<1> QED
  BY <1>1, <1>2, <1>3

(* The rounds of all lists, which the abstract specification calls ring.   *)
Rounds == [l \in Lists |-> FromIndex(l)]

LEMMA SuccessorIs ==
  ASSUME NEW l \in Lists, NEW v
  PROVE  Turns!Successor(l, v) = NextInOrder(FromIndex(l), l, v)
<1>1. PICK r, w : r = FromIndex(l) /\ w = xItemValue
  OBVIOUS
<1>2. /\ Turns!InOrder(r, l) = InOrder(r, l) /\ Turns!IsEmpty(r) = IsEmpty(r)
      /\ Turns!FirstAtLeast(r, l, w, v) = FirstAtLeast(r, l, w, v)
  BY SameOrders, SameSearch, SameRings
<1> QED
  BY <1>1, <1>2 DEF Turns!Successor, NextInOrder

LEMMA RoundsUpdate ==
  ASSUME NEW l \in Lists, NEW s, FromIndex(l)' = s,
         \A m \in Lists \ {l} : FromIndex(m)' = FromIndex(m)
  PROVE  Rounds' = [Rounds EXCEPT ![l] = s] /\ Rounds[l] = FromIndex(l)
<1>1. \A m \in Lists : FromIndex(m)' = IF m = l THEN s ELSE FromIndex(m)
  OBVIOUS
<1>2. Rounds' = [m \in Lists |-> FromIndex(m)']
  BY DEF Rounds
<1>3. Rounds' = [m \in Lists |-> IF m = l THEN s ELSE FromIndex(m)]
  BY <1>1, <1>2
<1>4. \A m \in Lists : Rounds[m] = FromIndex(m)
  BY DEF Rounds
<1>5. DOMAIN Rounds = Lists
  BY DEF Rounds
<1> QED
  BY <1>3, <1>4, <1>5

(* An item is in the round of the list its container names.                *)
LEMMA LinkedIs ==
  ASSUME IInv, NEW i \in Items
  PROVE  \A l \in Lists : Contains(FromIndex(l), i) <=> pxContainer[i] = l
<1> SUFFICES ASSUME NEW l \in Lists
             PROVE  Contains(FromIndex(l), i) <=> pxContainer[i] = l
  OBVIOUS
<1>1. PICK r, n : r = FromIndex(l) /\ n = uxNumberOfItems[l]
  OBVIOUS
<1>2. Contains(r, i) <=> i \in Ring(l)
  BY <1>1, RoundIs
<1> QED
  BY <1>1, <1>2, ListAssumption DEF Ring, Members

(* The node the index stands on ends the round.                            *)
LEMMA IndexPlace ==
  ASSUME IInv, NEW l \in Lists, NEW i
  PROVE  EnterLast(FromIndex(l), i) = EnterBefore(FromIndex(l), pxIndex[l], i)
<1>1. PICK r, n : r = FromIndex(l) /\ n = uxNumberOfItems[l]
  OBVIOUS
<1>2. /\ n \in Nat /\ Len(r) = n + 1 /\ Tours(r, Ring(l), pxIndex[l], n)
      /\ \A x : Contains(r, x) <=> x \in Ring(l)
  BY <1>1, RoundIs
<1>3. Contains(r, pxIndex[l])
  BY <1>2, RingFacts DEF Ring
<1>4. Place(r, pxIndex[l]) \in 1 .. n + 1 /\ r[Place(r, pxIndex[l])] = pxIndex[l]
  BY <1>2, <1>3, PlaceIs
<1>5. Place(r, pxIndex[l]) = n + 1
  <2>1. n + 1 \in 1 .. n + 1
    BY <1>2
  <2> QED
    BY <1>2, <1>4, <2>1 DEF Tours
<1> QED
  BY <1>1, <1>2, <1>5 DEF EnterLast, EnterBefore

LEMMA InitRounds == Init => Turns!RInit
<1> SUFFICES ASSUME Init PROVE Turns!RInit
  OBVIOUS
<1>1. IInv
  BY InitIInv
<1>2. ASSUME NEW l \in Lists PROVE FromIndex(l) = <<l>>
  <2>1. PICK r, n : r = FromIndex(l) /\ n = uxNumberOfItems[l]
    OBVIOUS
  <2>2. n = 0 /\ pxIndex[l] = l
    BY <2>1 DEF Init
  <2>3. /\ Len(r) = n + 1 /\ Tours(r, Ring(l), pxIndex[l], n)
        /\ IsRing(r, l, Items)
    BY <1>1, <2>1, RoundIs
  <2>4. r[1] = l /\ Len(r) = 1 /\ DOMAIN r = 1 .. 1
        /\ r = [k \in 1 .. 1 |-> r[k]]
    <3> DEFINE U == Items \cup {l}
    <3>1. r \in Seq(U) /\ Len(r) = 1
      BY <2>2, <2>3 DEF IsRing
    <3> HIDE DEF U
    <3>2. DOMAIN r = 1 .. 1 /\ r = [k \in 1 .. 1 |-> r[k]]
      BY <3>1, SeqIsFun
    <3>3. r[0 + 1] = l
      BY <2>2, <2>3 DEF Tours
    <3> QED
      BY <3>1, <3>2, <3>3
  <2>5. r = <<l>>
    BY <2>4
  <2> QED
    BY <2>1, <2>5
<1>3. Rounds = [l \in Lists |-> Turns!EmptyRing(l)]
  <2>1. \A l \in Lists : Turns!EmptyRing(l) = <<l>>
    BY DEF Turns!EmptyRing
  <2> QED
    BY <1>2, <2>1 DEF Rounds
<1>4. /\ xItemValue = [n \in Lists \cup Items |->
                         IF n \in Lists THEN PORT_MAX_DELAY ELSE 0]
      /\ owner = None
  BY DEF Init, Nodes
<1> QED
  BY <1>3, <1>4 DEF Turns!RInit, Rounds

(* Every step of the pointers is a step of the rounds, or none.            *)
LEMMA StepRounds ==
  ASSUME IInv, MarkerMax, [Next]_vars PROVE [Turns!RNext]_(Turns!rvars)
<1> USE ListAssumption
<1>1. IInv'
  BY NextIInv
<1>2. ASSUME NEW i \in Items, Detached(i) PROVE ~Turns!Linked(i)
  <2>1. \A l \in Lists : ~Contains(FromIndex(l), i)
    BY <1>2, LinkedIs DEF Detached
  <2>2. \A l \in Lists : ~Turns!Contains(FromIndex(l), i)
    BY <2>1 DEF Turns!Contains, Contains
  <2> QED
    BY <2>2 DEF Turns!Linked
<1>3. ASSUME NEW l \in Lists, NEW i \in Items, vListInsertEnd(l, i)
      PROVE  Turns!JoinLast(l, i)
  <2>1. Detached(i) /\ LinkBefore(l, i, pxIndex[l]) /\ pxIndex' = pxIndex
        /\ xItemValue' = xItemValue /\ owner' = owner
    BY <1>3 DEF vListInsertEnd
  <2>2. PICK node : node = pxIndex[l]
    OBVIOUS
  <2>3. node \in Ring(l) /\ LinkBefore(l, i, node)
    BY <2>1, <2>2, RingFacts DEF Ring
  <2>4. /\ FromIndex(l)' = EnterBefore(FromIndex(l), node, i)
        /\ \A m \in Lists \ {l} : FromIndex(m)' = FromIndex(m)
    BY <1>1, <2>1, <2>3, LinkBeforeRound
  <2>5. PICK r, s : r = FromIndex(l) /\ s = EnterLast(r, i)
    OBVIOUS
  <2>6. FromIndex(l)' = s
    BY <2>2, <2>4, <2>5, IndexPlace
  <2>7. Rounds' = [Rounds EXCEPT ![l] = s] /\ Rounds[l] = r
    BY <2>4, <2>5, <2>6, RoundsUpdate
  <2>8. Turns!EnterLast(r, i) = s
    BY <2>5, SameRings
  <2>9. Rounds' = [Rounds EXCEPT ![l] = Turns!EnterLast(@, i)]
    BY <2>7, <2>8
  <2>10. ~Turns!Linked(i)
    BY <1>2, <2>1
  <2> QED
    BY <2>1, <2>9, <2>10 DEF Turns!JoinLast, Rounds
<1>4. ASSUME NEW l \in Lists, NEW i \in Items, vListInsert(l, i)
      PROVE  Turns!JoinInOrder(l, i)
  <2>1. Detached(i) /\ pxIndex' = pxIndex /\ xItemValue' = xItemValue
        /\ owner' = owner
    BY <1>4 DEF vListInsert
  <2>2. PICK node \in Ring(l) : InsertsBefore(l, xItemValue[i], node)
                                /\ LinkBefore(l, i, node)
    BY <1>4 DEF vListInsert
  <2>3. PICK v \in 0 .. PORT_MAX_DELAY : v = xItemValue[i]
    BY DEF IInv, TypeOK, Nodes
  <2>4. /\ FromIndex(l)' = EnterBefore(FromIndex(l), node, i)
        /\ \A m \in Lists \ {l} : FromIndex(m)' = FromIndex(m)
    BY <1>1, <2>1, <2>2, LinkBeforeRound
  <2>5. InsertsBefore(l, v, node)
    BY <2>2, <2>3
  <2>6. node = Turns!Successor(l, v)
    BY <2>5, SearchFinds, SuccessorIs
  <2>7. PICK r, s : r = FromIndex(l) /\ s = EnterBefore(r, node, i)
    OBVIOUS
  <2>8. Rounds' = [Rounds EXCEPT ![l] = s] /\ Rounds[l] = r
    BY <2>4, <2>7, RoundsUpdate
  <2>9. Turns!EnterBefore(r, node, i) = s
    BY <2>7, SameRings
  <2>10. Rounds' = [Rounds EXCEPT ![l] = Turns!EnterBefore(@, node, i)]
    BY <2>8, <2>9
  <2>11. ~Turns!Linked(i)
    BY <1>2, <2>1
  <2> QED
    BY <2>1, <2>3, <2>6, <2>10, <2>11 DEF Turns!JoinInOrder, Rounds
<1>5. ASSUME NEW i \in Items, uxListRemove(i)
      PROVE  \E l \in Lists : Turns!Leave(l, i)
  <2>1. PICK l \in Lists : pxContainer[i] = l
    BY <1>5 DEF uxListRemove, IInv, TypeOK
  <2>2. /\ Contains(FromIndex(l), i)
        /\ FromIndex(l)' = Without(FromIndex(l), i)
        /\ \A m \in Lists \ {l} : FromIndex(m)' = FromIndex(m)
    BY <1>1, <1>5, <2>1, RemoveRound
  <2>3. PICK r, s : r = FromIndex(l) /\ s = Without(r, i)
    OBVIOUS
  <2>4. Rounds' = [Rounds EXCEPT ![l] = s] /\ Rounds[l] = r
    BY <2>2, <2>3, RoundsUpdate
  <2>5. Turns!Without(r, i) = s /\ Turns!Contains(r, i)
    BY <2>2, <2>3, SameRings
  <2>6. Rounds' = [Rounds EXCEPT ![l] = Turns!Without(@, i)]
        /\ Turns!Contains(Rounds[l], i)
    BY <2>4, <2>5
  <2>7. xItemValue' = xItemValue /\ owner' = owner
    BY <1>5 DEF uxListRemove
  <2>8. Turns!Leave(l, i)
    BY <2>6, <2>7 DEF Turns!Leave, Rounds
  <2> QED
    BY <2>8
<1>6. ASSUME NEW l \in Lists, getOwnerOfNextEntry(l)
      PROVE  Turns!Serve(l) \/ Turns!ServeNobody(l)
  <2>1. PICK r, n : r = FromIndex(l) /\ n = uxNumberOfItems[l]
    OBVIOUS
  <2>2. n \in Nat /\ Len(r) = n + 1 /\ Rounds[l] = r
    BY <2>1, RoundIs DEF Rounds
  <2>3. xItemValue' = xItemValue
    BY <1>6 DEF getOwnerOfNextEntry
  <2>4. CASE n # 0
    <3>1. /\ ~IsEmpty(r) /\ FromIndex(l)' = Rotate(r, l)
          /\ owner' = Last(FromIndex(l)')
          /\ \A m \in Lists \ {l} : FromIndex(m)' = FromIndex(m)
      BY <1>1, <1>6, <2>1, <2>4, ServeRound
    <3>2. PICK s : s = Rotate(r, l)
      OBVIOUS
    <3>3. Rounds' = [Rounds EXCEPT ![l] = s] /\ Rounds[l] = r
      BY <2>1, <3>1, <3>2, RoundsUpdate
    <3>4. Turns!Rotate(r, l) = s /\ ~Turns!IsEmpty(r) /\ Turns!Last(s) = Last(s)
      BY <3>1, <3>2, SameRings
    <3>5. Rounds' = [Rounds EXCEPT ![l] = Turns!Rotate(@, l)]
          /\ ~Turns!IsEmpty(Rounds[l])
      BY <3>3, <3>4
    <3>6. owner' = Turns!Last(Rounds'[l])
      BY <3>1, <3>2, <3>3, <3>4 DEF Rounds
    <3> QED
      BY <2>3, <3>5, <3>6 DEF Turns!Serve, Rounds
  <2>5. CASE n = 0
    <3>1. /\ owner' = None /\ pxIndex' = pxIndex
          /\ pxNext' = pxNext /\ uxNumberOfItems' = uxNumberOfItems
      BY <1>6, <2>1, <2>5, EmptyServes
    <3>2. \A m \in Lists : FromIndex(m)' = FromIndex(m)
      BY <1>1, <3>1, OtherRound
    <3>3. Rounds' = Rounds
      BY <3>2 DEF Rounds
    <3>4. Turns!IsEmpty(Rounds[l])
      BY <2>2, <2>5 DEF Turns!IsEmpty
    <3> QED
      BY <2>3, <3>1, <3>3, <3>4 DEF Turns!ServeNobody, Rounds
  <2> QED
    BY <2>4, <2>5
<1>7. ASSUME NEW i \in Items, NEW v \in Values, listItemSetValue(i, v)
      PROVE  Turns!SetValue(i, v)
  <2>1. /\ pxNext' = pxNext /\ pxIndex' = pxIndex /\ owner' = owner
        /\ uxNumberOfItems' = uxNumberOfItems
        /\ xItemValue' = [xItemValue EXCEPT ![i] = v]
    BY <1>7 DEF listItemSetValue
  <2>2. \A m \in Lists : FromIndex(m)' = FromIndex(m)
    BY <1>1, <2>1, OtherRound
  <2>3. Rounds' = Rounds
    BY <2>2 DEF Rounds
  <2> QED
    BY <2>1, <2>3 DEF Turns!SetValue, Rounds
<1>8. ASSUME UNCHANGED vars PROVE UNCHANGED Turns!rvars
  <2>1. /\ pxNext' = pxNext /\ pxIndex' = pxIndex /\ owner' = owner
        /\ uxNumberOfItems' = uxNumberOfItems /\ xItemValue' = xItemValue
    BY <1>8 DEF vars
  <2>2. \A m \in Lists : FromIndex(m)' = FromIndex(m)
    BY <1>1, <2>1, OtherRound
  <2>3. Rounds' = Rounds
    BY <2>2 DEF Rounds
  <2> QED
    BY <2>1, <2>3 DEF Turns!rvars, Rounds
<1> QED
  BY <1>3, <1>4, <1>5, <1>6, <1>7, <1>8 DEF Next, Turns!RNext

(* The pointer structure implements the rotating list, for any number of   *)
(* lists and items: whatever is inserted and removed, nobody loses a turn  *)
(* or gets one twice, and an item enters where the order puts it.          *)
THEOREM ListsRotate == Spec => RotatingSpec
<1>1. Init => Turns!RInit
  BY InitRounds
<1>2. IInv /\ MarkerMax /\ [Next]_vars => [Turns!RNext]_(Turns!rvars)
  BY StepRounds
<1> QED
  BY <1>1, <1>2, SpecIInv, SpecMarkerMax, PTL
  DEF Spec, RotatingSpec, Turns!RSpec
-----------------------------------------------------------------------------
(* x comes before y in the round.                                          *)
Ahead(r, x, y) == \E a, b \in 1 .. Len(r) : a < b /\ r[a] = x /\ r[b] = y

(* How often j may have been served while i waited in list l.              *)
Allowed(r, l, i, j) ==
  IF Ahead(r, i, l) THEN IF Ahead(r, j, i) THEN 1 ELSE 2
  ELSE IF Ahead(r, j, l) THEN 0 ELSE 1

Waits ==
  \A i, j \in Items :
    /\ pxContainer[i] = None => passed[i][j] = 0
    /\ \A l \in Lists : pxContainer[i] = l
                          => passed[i][j] <= Allowed(FromIndex(l), l, i, j)

RRInv ==
  /\ IInv
  /\ passed \in [Items -> [Items -> Nat]]
  /\ Waits
-----------------------------------------------------------------------------
(* Two nodes of a round come one before the other.                         *)
LEMMA AheadTotal ==
  ASSUME NEW S, NEW marker, NEW r, IsRing(r, marker, S),
         NEW x, NEW y, Contains(r, x), Contains(r, y), x # y
  PROVE  Ahead(r, x, y) <=> ~Ahead(r, y, x)
<1>1. Len(r) \in Nat /\ \A i, j \in 1 .. Len(r) : r[i] = r[j] => i = j
  BY RingTypes DEF IsRing
<1>2. PICK a \in 1 .. Len(r) : r[a] = x
  BY DEF Contains
<1>3. PICK b \in 1 .. Len(r) : r[b] = y
  BY DEF Contains
<1>4. a # b
  BY <1>2, <1>3
<1>5. Ahead(r, x, y) <=> a < b
  BY <1>1, <1>2, <1>3 DEF Ahead
<1>6. Ahead(r, y, x) <=> b < a
  BY <1>1, <1>2, <1>3 DEF Ahead
<1> QED
  BY <1>1, <1>4, <1>5, <1>6

LEMMA AheadContains ==
  ASSUME NEW r, NEW x, NEW y, Ahead(r, x, y)
  PROVE  Contains(r, x) /\ Contains(r, y)
BY DEF Ahead, Contains

(* An item enters at the end of the round, before the last node only.      *)
LEMMA AheadEnter ==
  ASSUME NEW S, NEW marker, NEW r, IsRing(r, marker, S),
         NEW t \in S, ~Contains(r, t), NEW s, s = EnterLast(r, t)
  PROVE  /\ \A x, y : x # t /\ y # t => (Ahead(s, x, y) <=> Ahead(r, x, y))
         /\ \A x, y : Ahead(r, x, y) => ~Ahead(s, t, x)
<1> DEFINE U == S \cup {marker}
<1>1. /\ r \in Seq(U) /\ t \in U /\ Len(r) \in Nat \ {0}
      /\ \A i, j \in 1 .. Len(r) : r[i] = r[j] => i = j
      /\ \A i \in 1 .. Len(r) : r[i] # t
  BY RingTypes DEF IsRing, Contains
<1> HIDE DEF U
<1>2. PICK n \in Nat \ {0} : n = Len(r)
  BY <1>1
<1>3. InsertedInto(s, r, n, t)
  <2>1. n \in 1 .. Len(r) + 1 /\ s = InsertAt(r, n, t)
    BY <1>2 DEF EnterLast
  <2> QED
    BY <1>1, <2>1, InsertAtIs
<1>4. /\ Len(s) = n + 1
      /\ \A i \in 1 .. n + 1 :
           s[i] = IF i < n THEN r[i] ELSE IF i = n THEN t ELSE r[i - 1]
  BY <1>2, <1>3 DEF InsertedInto
<1>5. /\ \A i \in 1 .. n - 1 : i \in 1 .. n + 1 /\ s[i] = r[i]
      /\ s[n] = t /\ s[n + 1] = r[n]
  BY <1>4
<1>6. ASSUME NEW x, NEW y, x # t, y # t
      PROVE  Ahead(s, x, y) <=> Ahead(r, x, y)
  <2>1. ASSUME Ahead(s, x, y) PROVE Ahead(r, x, y)
    <3>1. PICK a, b \in 1 .. n + 1 : a < b /\ s[a] = x /\ s[b] = y
      BY <1>4, <2>1 DEF Ahead
    <3>2. a # n /\ b # n
      BY <1>5, <1>6, <3>1
    <3>3. a \in 1 .. n - 1 /\ r[a] = x
      BY <1>5, <3>1, <3>2
    <3>4. CASE b = n + 1
      BY <1>2, <1>5, <3>1, <3>3, <3>4 DEF Ahead
    <3>5. CASE b # n + 1
      BY <1>2, <1>5, <3>1, <3>2, <3>3, <3>5 DEF Ahead
    <3> QED
      BY <3>4, <3>5
  <2>2. ASSUME Ahead(r, x, y) PROVE Ahead(s, x, y)
    <3>1. PICK a, b \in 1 .. n : a < b /\ r[a] = x /\ r[b] = y
      BY <1>2, <2>2 DEF Ahead
    <3>2. a \in 1 .. n - 1 /\ a \in 1 .. n + 1 /\ s[a] = x
      BY <1>5, <3>1
    <3>3. CASE b = n
      <4>1. n + 1 \in 1 .. n + 1 /\ a < n + 1 /\ s[n + 1] = y
        BY <1>5, <3>1, <3>3
      <4> QED
        BY <1>4, <3>2, <4>1 DEF Ahead
    <3>4. CASE b # n
      <4>1. b \in 1 .. n + 1 /\ s[b] = y
        BY <1>5, <3>1, <3>4
      <4> QED
        BY <1>4, <3>1, <3>2, <4>1 DEF Ahead
    <3> QED
      BY <3>3, <3>4
  <2> QED
    BY <2>1, <2>2
<1>7. ASSUME NEW x, NEW y, Ahead(r, x, y), Ahead(s, t, x) PROVE FALSE
  <2>1. PICK a, b \in 1 .. n : a < b /\ r[a] = x /\ r[b] = y
    BY <1>2, <1>7 DEF Ahead
  <2>2. PICK c, d \in 1 .. n + 1 : c < d /\ s[c] = t /\ s[d] = x
    BY <1>4, <1>7 DEF Ahead
  <2>3. c = n
    <3>1. c \notin 1 .. n - 1
      BY <1>1, <1>2, <1>5, <2>2
    <3>2. c # n + 1
      BY <2>2
    <3> QED
      BY <2>2, <3>1, <3>2
  <2>4. d = n + 1
    BY <2>2, <2>3
  <2>5. r[n] = x /\ n \in 1 .. n
    BY <1>5, <2>2, <2>4
  <2>6. a = n
    BY <1>1, <1>2, <2>1, <2>5
  <2> QED
    BY <2>1, <2>6
<1> QED
  BY <1>6, <1>7

(* An item leaves: the others keep their order.                            *)
LEMMA AheadWithout ==
  ASSUME NEW S, NEW marker, NEW r, IsRing(r, marker, S),
         NEW t \in S, t # marker, NEW s, s = Without(r, t)
  PROVE  \A x, y : x # t /\ y # t => (Ahead(s, x, y) <=> Ahead(r, x, y))
<1>1. /\ IsRing(s, marker, S) /\ SameOrder(s, r)
      /\ \A x : Contains(s, x) <=> x # t /\ Contains(r, x)
  BY WithoutIs
<1>2. ASSUME NEW x, NEW y, Ahead(s, x, y) PROVE Ahead(r, x, y)
  <2>1. PICK a, b \in 1 .. Len(s) : a < b /\ s[a] = x /\ s[b] = y
    BY <1>2 DEF Ahead
  <2>2. PICK m, n \in 1 .. Len(r) : m < n /\ s[a] = r[m] /\ s[b] = r[n]
    BY <1>1, <2>1 DEF SameOrder
  <2> QED
    BY <2>1, <2>2 DEF Ahead
<1>3. ASSUME NEW x, NEW y, x # t, y # t, Ahead(r, x, y)
      PROVE  Ahead(s, x, y)
  <2>1. Contains(r, x) /\ Contains(r, y) /\ Contains(s, x) /\ Contains(s, y)
    BY <1>1, <1>3, AheadContains
  <2>2. x # y
    <3>1. \A i, j \in 1 .. Len(r) : r[i] = r[j] => i = j
      BY DEF IsRing
    <3>2. Len(r) \in Nat
      BY RingTypes
    <3> QED
      BY <1>3, <3>1, <3>2 DEF Ahead
  <2>3. ~Ahead(r, y, x)
    BY <1>3, <2>1, <2>2, AheadTotal
  <2>4. ~Ahead(s, y, x)
    BY <1>2, <2>3
  <2> QED
    BY <1>1, <2>1, <2>2, <2>4, AheadTotal
<1> QED
  BY <1>2, <1>3

(* Turning moves the first d nodes behind all others.                      *)
LEMMA AheadTurned ==
  ASSUME NEW S, NEW marker, NEW r, IsRing(r, marker, S),
         NEW d \in 1 .. Len(r), NEW s, s = Turned(r, d)
  PROVE  /\ \A x, y : (\A k \in 1 .. d : r[k] # x /\ r[k] # y)
                        => (Ahead(s, x, y) <=> Ahead(r, x, y))
         /\ \A x : Contains(r, x) /\ (\A k \in 1 .. d : r[k] # x)
                     => \A k \in 1 .. d : Ahead(s, x, r[k]) /\ Ahead(r, r[k], x)
<1> DEFINE U == S \cup {marker}
<1>1. r \in Seq(U) /\ Len(r) \in Nat \ {0}
  BY RingTypes
<1> HIDE DEF U
<1>2. PICK n \in Nat \ {0} : n = Len(r)
  BY <1>1
<1>3. PICK q \in Nat : q + d = n /\ q = n - d
  <2>1. n - d \in Nat /\ (n - d) + d = n
    BY <1>2
  <2> QED
    BY <2>1
<1>4. /\ Len(s) = n
      /\ \A i \in 1 .. n : s[i] = IF i <= q THEN r[i + d] ELSE r[i - q]
  <2>1. TurnOf(s, r, d)
    BY <1>1, TurnedIs
  <2> QED
    BY <1>2, <1>3, <2>1 DEF TurnOf
<1>5. /\ \A i \in 1 .. q : i \in 1 .. n /\ i + d \in 1 .. n /\ s[i] = r[i + d]
      /\ \A k \in 1 .. d : k \in 1 .. n /\ q + k \in 1 .. n /\ s[q + k] = r[k]
  <2>1. ASSUME NEW i \in 1 .. q
        PROVE  i \in 1 .. n /\ i + d \in 1 .. n /\ s[i] = r[i + d]
    BY <1>2, <1>3, <1>4
  <2>2. ASSUME NEW k \in 1 .. d
        PROVE  k \in 1 .. n /\ q + k \in 1 .. n /\ s[q + k] = r[k]
    <3>1. /\ k \in 1 .. n /\ q + k \in 1 .. n /\ ~(q + k <= q)
          /\ q + k - q = k
      BY <1>2, <1>3
    <3> QED
      BY <1>4, <3>1
  <2> QED
    BY <2>1, <2>2
<1>6. ASSUME NEW x, NEW y, \A k \in 1 .. d : r[k] # x /\ r[k] # y
      PROVE  Ahead(s, x, y) <=> Ahead(r, x, y)
  <2>1. ASSUME Ahead(s, x, y) PROVE Ahead(r, x, y)
    <3>1. PICK a, b \in 1 .. n : a < b /\ s[a] = x /\ s[b] = y
      BY <1>4, <2>1 DEF Ahead
    <3>2. b <= q
      <4>1. ASSUME ~(b <= q) PROVE FALSE
        <5>1. b - q \in 1 .. d /\ q + (b - q) = b
          BY <1>3, <4>1
        <5> QED
          BY <1>5, <1>6, <3>1, <5>1
      <4> QED
        BY <4>1
    <3>3. a \in 1 .. q /\ b \in 1 .. q
      BY <3>1, <3>2
    <3>4. /\ a + d \in 1 .. n /\ b + d \in 1 .. n /\ r[a + d] = x
          /\ r[b + d] = y
      BY <1>5, <3>1, <3>3
    <3>5. a + d < b + d
      BY <3>1
    <3> QED
      BY <1>2, <3>4, <3>5 DEF Ahead
  <2>2. ASSUME Ahead(r, x, y) PROVE Ahead(s, x, y)
    <3>1. PICK a, b \in 1 .. n : a < b /\ r[a] = x /\ r[b] = y
      BY <1>2, <2>2 DEF Ahead
    <3>2. a \notin 1 .. d
      BY <1>6, <3>1
    <3>3. PICK c \in 1 .. q : c + d = a
      <4>1. a - d \in 1 .. q /\ a - d + d = a
        BY <1>3, <3>1, <3>2
      <4> QED
        BY <4>1
    <3>4. PICK e \in 1 .. q : e + d = b
      <4>1. b - d \in 1 .. q /\ b - d + d = b
        BY <1>3, <3>1, <3>2
      <4> QED
        BY <4>1
    <3>5. c \in 1 .. n /\ e \in 1 .. n /\ s[c] = x /\ s[e] = y
      BY <1>5, <3>1, <3>3, <3>4
    <3>6. c < e
      BY <3>1, <3>3, <3>4
    <3> QED
      BY <1>4, <3>5, <3>6 DEF Ahead
  <2> QED
    BY <2>1, <2>2
<1>7. ASSUME NEW x, Contains(r, x), \A k \in 1 .. d : r[k] # x,
             NEW k \in 1 .. d
      PROVE  Ahead(s, x, r[k]) /\ Ahead(r, r[k], x)
  <2>1. PICK a \in 1 .. n : r[a] = x
    BY <1>2, <1>7 DEF Contains
  <2>2. a \notin 1 .. d
    BY <1>7, <2>1
  <2>3. PICK c \in 1 .. q : c + d = a
    <3>1. a - d \in 1 .. q /\ a - d + d = a
      BY <1>3, <2>1, <2>2
    <3> QED
      BY <3>1
  <2>4. c \in 1 .. n /\ q + k \in 1 .. n /\ s[c] = x /\ s[q + k] = r[k]
    BY <1>5, <2>1, <2>3
  <2>5. c < q + k /\ k < a /\ k \in 1 .. n
    BY <1>5, <2>1, <2>2, <2>3
  <2> QED
    BY <1>2, <1>4, <2>1, <2>4, <2>5 DEF Ahead
<1> QED
  BY <1>6, <1>7
-----------------------------------------------------------------------------
(* What each operation leaves of the allowance of an item that stays.      *)
LEMMA AllowedIs ==
  ASSUME NEW r, NEW l, NEW i, NEW j PROVE Allowed(r, l, i, j) \in 0 .. 2
BY DEF Allowed

LEMMA AllowedEnter ==
  ASSUME NEW S, NEW l, NEW r, IsRing(r, l, S), NEW t \in S, ~Contains(r, t),
         NEW s, s = EnterLast(r, t),
         NEW i, Contains(r, i), i # l, NEW j, j # l
  PROVE  Allowed(r, l, i, j) <= Allowed(s, l, i, j)
<1>1. Contains(r, l) /\ i # t /\ l # t
  BY DEF IsRing
<1>2. /\ \A x, y : x # t /\ y # t => (Ahead(s, x, y) <=> Ahead(r, x, y))
      /\ \A x, y : Ahead(r, x, y) => ~Ahead(s, t, x)
  BY AheadEnter
<1>3. Ahead(r, i, l) <=> ~Ahead(r, l, i)
  BY <1>1, AheadTotal
<1>4. ~Ahead(r, t, i) /\ ~Ahead(r, t, l)
  BY AheadContains
<1>5. CASE j = t
  <2>1. CASE Ahead(r, i, l)
    <3>1. ~Ahead(s, t, i) /\ Ahead(s, i, l)
      BY <1>1, <1>2, <2>1
    <3> QED
      BY <1>4, <1>5, <2>1, <3>1 DEF Allowed
  <2>2. CASE ~Ahead(r, i, l)
    <3>1. ~Ahead(s, t, l) /\ ~Ahead(s, i, l)
      BY <1>1, <1>2, <1>3, <2>2
    <3> QED
      BY <1>4, <1>5, <2>2, <3>1 DEF Allowed
  <2> QED
    BY <2>1, <2>2
<1>6. CASE j # t
  <2>1. /\ Ahead(s, i, l) <=> Ahead(r, i, l)
        /\ Ahead(s, j, i) <=> Ahead(r, j, i)
        /\ Ahead(s, j, l) <=> Ahead(r, j, l)
    BY <1>1, <1>2, <1>6
  <2> QED
    BY <2>1 DEF Allowed
<1> QED
  BY <1>5, <1>6

LEMMA AllowedWithout ==
  ASSUME NEW S, NEW l, NEW r, IsRing(r, l, S), NEW t \in S, t # l,
         NEW s, s = Without(r, t), NEW i, i # t, NEW j
  PROVE  Allowed(r, l, i, j) <= Allowed(s, l, i, j)
<1>1. \A x, y : x # t /\ y # t => (Ahead(s, x, y) <=> Ahead(r, x, y))
  BY AheadWithout
<1>2. CASE j = t
  <2>1. ~Ahead(s, t, i) /\ ~Ahead(s, t, l)
    <3>1. \A x : Contains(s, x) <=> x # t /\ Contains(r, x)
      BY WithoutIs
    <3> QED
      BY <3>1, AheadContains
  <2>2. Ahead(s, i, l) <=> Ahead(r, i, l)
    BY <1>1
  <2> QED
    BY <1>2, <2>1, <2>2 DEF Allowed
<1>3. CASE j # t
  <2>1. /\ Ahead(s, i, l) <=> Ahead(r, i, l)
        /\ Ahead(s, j, i) <=> Ahead(r, j, i)
        /\ Ahead(s, j, l) <=> Ahead(r, j, l)
    BY <1>1, <1>3
  <2> QED
    BY <2>1 DEF Allowed
<1> QED
  BY <1>2, <1>3

LEMMA AllowedRotate ==
  ASSUME NEW S, NEW l, l \notin S, NEW r, IsRing(r, l, S), ~IsEmpty(r),
         NEW s, s = Rotate(r, l), NEW t, t = Last(s),
         NEW i \in S, Contains(r, i), i # t, NEW j \in S
  PROVE  Allowed(r, l, i, j) + (IF j = t THEN 1 ELSE 0) <= Allowed(s, l, i, j)
<1>1. /\ Len(r) \in Nat \ {0, 1} /\ Contains(r, l)
      /\ \A m, n \in 1 .. Len(r) : r[m] = r[n] => m = n
  BY RingTypes DEF IsRing, IsEmpty
<1>2. PICK d : d = IF r[1] = l THEN 2 ELSE 1
  OBVIOUS
<1>3. d \in 1 .. Len(r) /\ s = Turned(r, d)
  <2> DEFINE U == S \cup {l}
  <2>1. r \in Seq(U)
    BY DEF IsRing
  <2> HIDE DEF U
  <2>2. Head(r) = r[1]
    BY <1>1, <2>1
  <2>3. d \in 1 .. Len(r)
    <3>1. PICK n \in Nat \ {0, 1} : n = Len(r)
      BY <1>1
    <3>2. d \in {1, 2}
      BY <1>2
    <3>3. d \in 1 .. n
      BY <3>2
    <3> QED
      BY <3>1, <3>3
  <2>4. Rotate(r, l) = Turned(r, d)
    BY <1>2, <2>2 DEF Rotate, Turned
  <2> QED
    BY <2>3, <2>4
<1>4. /\ IsRing(s, l, S) /\ \A x : Contains(s, x) <=> Contains(r, x)
      /\ Len(s) = Len(r) /\ s[Len(r)] = r[d]
  BY <1>3, TurnedRing
<1>5. t = r[d]
  BY <1>4 DEF Last
<1>6. /\ \A x, y : (\A k \in 1 .. d : r[k] # x /\ r[k] # y)
                     => (Ahead(s, x, y) <=> Ahead(r, x, y))
      /\ \A x : Contains(r, x) /\ (\A k \in 1 .. d : r[k] # x)
                  => \A k \in 1 .. d : Ahead(s, x, r[k]) /\ Ahead(r, r[k], x)
  BY <1>3, AheadTurned
<1>7. CASE r[1] # l
  <2>1. d = 1 /\ t = r[1] /\ 1 \in 1 .. d /\ t # l
        /\ \A k \in 1 .. d : r[k] = t
    BY <1>2, <1>5, <1>7
  <2>2. Ahead(s, i, l) <=> Ahead(r, i, l)
    BY <1>6, <2>1
  <2>3. CASE j = t
    <3>1. Contains(r, t) /\ Contains(s, t) /\ Contains(s, i) /\ Contains(s, l)
      BY <1>1, <1>3, <1>4, <1>5 DEF Contains
    <3>2. /\ Ahead(s, i, t) /\ Ahead(r, t, i)
          /\ Ahead(s, l, t) /\ Ahead(r, t, l)
      BY <1>1, <1>6, <2>1
    <3>3. ~Ahead(s, t, i) /\ ~Ahead(s, t, l)
      BY <1>4, <2>1, <3>1, <3>2, AheadTotal
    <3> QED
      BY <2>2, <2>3, <3>2, <3>3 DEF Allowed
  <2>4. CASE j # t
    <3>1. /\ Ahead(s, j, i) <=> Ahead(r, j, i)
          /\ Ahead(s, j, l) <=> Ahead(r, j, l)
      BY <1>6, <2>1, <2>4
    <3> QED
      BY <2>2, <2>4, <3>1 DEF Allowed
  <2> QED
    BY <2>3, <2>4
<1>8. CASE r[1] = l
  <2>1. d = 2 /\ t = r[2] /\ 1 \in 1 .. d /\ 2 \in 1 .. d /\ i # l /\ j # l
        /\ \A k \in 1 .. d : r[k] \in {l, t}
    BY <1>2, <1>5, <1>8
  <2>2. /\ Ahead(s, i, l) /\ Ahead(s, i, t) /\ Ahead(r, l, i)
    BY <1>6, <1>8, <2>1
  <2>3. ~Ahead(r, i, l)
    BY <1>1, <2>1, <2>2, AheadTotal
  <2>4. ~Ahead(r, j, l)
    <3>1. ASSUME Ahead(r, j, l) PROVE FALSE
      <4>1. PICK a, b \in 1 .. Len(r) : a < b /\ r[a] = j /\ r[b] = l
        BY <3>1 DEF Ahead
      <4>2. b = 1
        <5>1. 1 \in 1 .. Len(r)
          BY <1>1
        <5> QED
          BY <1>1, <1>8, <4>1, <5>1
      <4> QED
        BY <4>1, <4>2
    <3> QED
      BY <3>1
  <2>5. Allowed(r, l, i, j) = 1
    BY <2>3, <2>4 DEF Allowed
  <2>6. CASE j = t
    <3>1. Contains(s, t) /\ Contains(s, i)
      BY <1>3, <1>4, <1>5 DEF Contains
    <3>2. ~Ahead(s, t, i)
      BY <1>4, <2>2, <3>1, AheadTotal
    <3> QED
      BY <2>2, <2>5, <2>6, <3>2 DEF Allowed
  <2>7. CASE j # t
    BY <2>2, <2>5, <2>7 DEF Allowed
  <2> QED
    BY <2>6, <2>7
<1> QED
  BY <1>7, <1>8
-----------------------------------------------------------------------------
LEMMA InitRRInv == RRInit => RRInv
<1> SUFFICES ASSUME RRInit PROVE RRInv
  OBVIOUS
<1>1. IInv
  BY InitIInv DEF RRInit
<1>2. passed \in [Items -> [Items -> Nat]]
  BY DEF RRInit, Fresh
<1>3. \A i, j \in Items : passed[i][j] = 0
  BY DEF RRInit, Fresh
<1>4. Waits
  BY <1>3, AllowedIs DEF Waits
<1> QED
  BY <1>1, <1>2, <1>4 DEF RRInv

(* A step keeps the invariant if it starts the counts of some items again  *)
(* and every other item keeps its list and its allowance.                  *)
LEMMA WaitsKept ==
  ASSUME RRInv, IInv', NEW Gone \in SUBSET Items,
         passed' \in [Items -> [Items -> Nat]],
         \A i \in Gone, j \in Items : passed'[i][j] = 0,
         \A i \in Items \ Gone :
           /\ pxContainer'[i] = pxContainer[i]
           /\ pxContainer[i] = None => passed'[i] = passed[i]
           /\ \A l \in Lists, j \in Items :
                pxContainer[i] = l
                  => passed'[i][j] <= Allowed(FromIndex(l)', l, i, j)
  PROVE  RRInv'
<1>1. ASSUME NEW i \in Items, NEW j \in Items
      PROVE  /\ pxContainer'[i] = None => passed'[i][j] = 0
             /\ \A l \in Lists : pxContainer'[i] = l
                  => passed'[i][j] <= Allowed(FromIndex(l)', l, i, j)
  <2>1. CASE i \in Gone
    <3>1. passed'[i][j] = 0
      BY <2>1
    <3>2. \A l \in Lists : passed'[i][j] <= Allowed(FromIndex(l)', l, i, j)
      BY <3>1, AllowedIs
    <3> QED
      BY <3>1, <3>2
  <2>2. CASE i \notin Gone
    <3>1. pxContainer'[i] = pxContainer[i]
      BY <2>2
    <3>2. pxContainer[i] = None => passed'[i][j] = 0
      BY <2>2 DEF RRInv, Waits
    <3> QED
      BY <2>2, <3>1, <3>2
  <2> QED
    BY <2>1, <2>2
<1>2. Waits'
  BY <1>1 DEF Waits
<1> QED
  BY <1>2 DEF RRInv

LEMMA EnterRRInv ==
  ASSUME RRInv, NEW l \in Lists, NEW k \in Items, Enter(l, k) PROVE RRInv'
<1> USE ListAssumption
<1>1. /\ IInv /\ passed \in [Items -> [Items -> Nat]] /\ Waits
      /\ vListInsertEnd(l, k) /\ passed' = [passed EXCEPT ![k] = Fresh]
  BY DEF RRInv, Enter
<1>2. IInv'
  BY <1>1, NextIInv DEF Next
<1>3. /\ Detached(k) /\ pxIndex' = pxIndex /\ LinkBefore(l, k, pxIndex[l])
      /\ pxContainer' = [pxContainer EXCEPT ![k] = l]
  BY <1>1 DEF vListInsertEnd, LinkBefore
<1>4. PICK r, s, n : /\ r = FromIndex(l) /\ s = EnterLast(r, k)
                     /\ n = uxNumberOfItems[l]
  OBVIOUS
<1>5. /\ FromIndex(l)' = s
      /\ \A m \in Lists \ {l} : FromIndex(m)' = FromIndex(m)
  <2>1. PICK node : node = pxIndex[l]
    OBVIOUS
  <2>2. node \in Ring(l) /\ LinkBefore(l, k, node)
    BY <1>1, <1>3, <2>1, RingFacts DEF Ring
  <2>3. /\ FromIndex(l)' = EnterBefore(FromIndex(l), node, k)
        /\ \A m \in Lists \ {l} : FromIndex(m)' = FromIndex(m)
    BY <1>1, <1>2, <1>3, <2>2, LinkBeforeRound
  <2> QED
    BY <1>1, <1>4, <2>1, <2>3, IndexPlace
<1>6. IsRing(r, l, Items) /\ \A i \in Items : Contains(r, i) <=> pxContainer[i] = l
  BY <1>1, <1>4, RoundIs, LinkedIs
<1>7. ~Contains(r, k)
  BY <1>3, <1>6 DEF Detached
<1>8. passed' \in [Items -> [Items -> Nat]] /\ \A j \in Items : passed'[k][j] = 0
  <2>1. Fresh \in [Items -> Nat] /\ \A j \in Items : Fresh[j] = 0
    BY DEF Fresh
  <2> QED
    BY <1>1, <2>1
<1>9. ASSUME NEW i \in Items \ {k}
      PROVE  /\ pxContainer'[i] = pxContainer[i] /\ passed'[i] = passed[i]
             /\ \A m \in Lists, j \in Items :
                  pxContainer[i] = m
                    => passed'[i][j] <= Allowed(FromIndex(m)', m, i, j)
  <2>1. pxContainer'[i] = pxContainer[i] /\ passed'[i] = passed[i]
    BY <1>1, <1>3 DEF IInv, TypeOK
  <2>2. ASSUME NEW m \in Lists, NEW j \in Items, pxContainer[i] = m
        PROVE  passed'[i][j] <= Allowed(FromIndex(m)', m, i, j)
    <3>1. passed'[i][j] <= Allowed(FromIndex(m), m, i, j)
      BY <1>1, <2>1, <2>2 DEF Waits
    <3>2. CASE m # l
      BY <1>5, <3>1, <3>2
    <3>3. CASE m = l
      <4>1. Contains(r, i) /\ i # l /\ j # l
        BY <1>6, <2>2, <3>3
      <4>2. Allowed(r, l, i, j) <= Allowed(s, l, i, j)
        BY <1>4, <1>6, <1>7, <4>1, AllowedEnter
      <4>3. /\ passed'[i][j] \in Nat /\ Allowed(r, l, i, j) \in 0 .. 2
            /\ Allowed(s, l, i, j) \in 0 .. 2
        BY <1>8, AllowedIs
      <4>4. passed'[i][j] <= Allowed(r, l, i, j)
        BY <1>4, <3>1, <3>3
      <4>5. passed'[i][j] <= Allowed(s, l, i, j)
        BY <4>2, <4>3, <4>4
      <4> QED
        BY <1>5, <3>3, <4>5
    <3> QED
      BY <3>2, <3>3
  <2> QED
    BY <2>1, <2>2
<1> QED
  <2>1. {k} \in SUBSET Items
    OBVIOUS
  <2>2. \A i \in {k}, j \in Items : passed'[i][j] = 0
    BY <1>8
  <2>3. passed' \in [Items -> [Items -> Nat]]
    BY <1>8
  <2> QED
    BY <1>2, <1>9, <2>1, <2>2, <2>3, WaitsKept

LEMMA LeaveRRInv ==
  ASSUME RRInv, NEW k \in Items, Leave(k) PROVE RRInv'
<1> USE ListAssumption
<1>1. /\ IInv /\ passed \in [Items -> [Items -> Nat]] /\ Waits
      /\ uxListRemove(k) /\ passed' = [passed EXCEPT ![k] = Fresh]
  BY DEF RRInv, Leave
<1>2. IInv'
  BY <1>1, NextIInv DEF Next
<1>3. PICK l \in Lists : pxContainer[k] = l
  BY <1>1 DEF uxListRemove, IInv, TypeOK
<1>4. pxContainer' = [pxContainer EXCEPT ![k] = None]
  BY <1>1 DEF uxListRemove
<1>5. PICK r, s, n : r = FromIndex(l) /\ s = Without(r, k) /\ n = uxNumberOfItems[l]
  OBVIOUS
<1>6. /\ FromIndex(l)' = s
      /\ \A m \in Lists \ {l} : FromIndex(m)' = FromIndex(m)
  BY <1>1, <1>2, <1>3, <1>5, RemoveRound
<1>7. IsRing(r, l, Items) /\ k # l
  BY <1>1, <1>5, RoundIs
<1>8. passed' \in [Items -> [Items -> Nat]] /\ \A j \in Items : passed'[k][j] = 0
  <2>1. Fresh \in [Items -> Nat] /\ \A j \in Items : Fresh[j] = 0
    BY DEF Fresh
  <2> QED
    BY <1>1, <2>1
<1>9. ASSUME NEW i \in Items \ {k}
      PROVE  /\ pxContainer'[i] = pxContainer[i] /\ passed'[i] = passed[i]
             /\ \A m \in Lists, j \in Items :
                  pxContainer[i] = m
                    => passed'[i][j] <= Allowed(FromIndex(m)', m, i, j)
  <2>1. pxContainer'[i] = pxContainer[i] /\ passed'[i] = passed[i]
    BY <1>1, <1>4 DEF IInv, TypeOK
  <2>2. ASSUME NEW m \in Lists, NEW j \in Items, pxContainer[i] = m
        PROVE  passed'[i][j] <= Allowed(FromIndex(m)', m, i, j)
    <3>1. passed'[i][j] <= Allowed(FromIndex(m), m, i, j)
      BY <1>1, <2>1, <2>2 DEF Waits
    <3>2. CASE m # l
      BY <1>6, <3>1, <3>2
    <3>3. CASE m = l
      <4>1. Allowed(r, l, i, j) <= Allowed(s, l, i, j)
        BY <1>5, <1>7, AllowedWithout
      <4>2. /\ passed'[i][j] \in Nat /\ Allowed(r, l, i, j) \in 0 .. 2
            /\ Allowed(s, l, i, j) \in 0 .. 2
        BY <1>8, AllowedIs
      <4>3. passed'[i][j] <= Allowed(r, l, i, j)
        BY <1>5, <3>1, <3>3
      <4>4. passed'[i][j] <= Allowed(s, l, i, j)
        BY <4>1, <4>2, <4>3
      <4> QED
        BY <1>6, <3>3, <4>4
    <3> QED
      BY <3>2, <3>3
  <2> QED
    BY <2>1, <2>2
<1> QED
  <2>1. {k} \in SUBSET Items
    OBVIOUS
  <2>2. \A i \in {k}, j \in Items : passed'[i][j] = 0
    BY <1>8
  <2>3. passed' \in [Items -> [Items -> Nat]]
    BY <1>8
  <2> QED
    BY <1>2, <1>9, <2>1, <2>2, <2>3, WaitsKept

LEMMA ServeRRInv ==
  ASSUME RRInv, NEW l \in Lists, ServeNext(l) PROVE RRInv'
<1> USE ListAssumption
<1>1. /\ IInv /\ passed \in [Items -> [Items -> Nat]] /\ Waits
      /\ getOwnerOfNextEntry(l) /\ owner' # None
  BY DEF RRInv, ServeNext
<1>2. IInv' /\ pxContainer' = pxContainer
  <2>1. IInv'
    BY <1>1, NextIInv DEF Next
  <2> QED
    BY <1>1, <2>1 DEF getOwnerOfNextEntry
<1>3. uxNumberOfItems[l] # 0
  BY <1>1, EmptyServes
<1>4. PICK r, s, n, t : /\ r = FromIndex(l) /\ s = Rotate(r, l)
                        /\ n = uxNumberOfItems[l] /\ t = owner'
  OBVIOUS
<1>5. /\ ~IsEmpty(r) /\ FromIndex(l)' = s /\ t = Last(s)
      /\ \A m \in Lists \ {l} : FromIndex(m)' = FromIndex(m)
  <2>1. /\ ~IsEmpty(FromIndex(l))
        /\ FromIndex(l)' = Rotate(FromIndex(l), l)
        /\ owner' = Last(FromIndex(l)')
        /\ \A m \in Lists \ {l} : FromIndex(m)' = FromIndex(m)
    BY <1>1, <1>2, <1>3, ServeRound
  <2> QED
    BY <1>4, <2>1
<1>6. IsRing(r, l, Items) /\ \A i \in Items : Contains(r, i) <=> pxContainer[i] = l
  BY <1>1, <1>4, RoundIs, LinkedIs
<1>7. t \in Items /\ pxContainer[t] = l
  <2>1. Last(s) \in Items /\ Contains(r, Last(s))
    BY <1>4, <1>5, <1>6, RotateIs
  <2> QED
    BY <1>5, <1>6, <2>1
<1>8. passed' = [i \in Items |->
                   IF pxContainer[i] # l THEN passed[i]
                   ELSE IF i = t THEN Fresh
                   ELSE [passed[i] EXCEPT ![t] = IF @ < CountBound THEN @ + 1
                                                 ELSE @]]
  BY <1>4 DEF ServeNext
<1>9. /\ \A j \in Items : passed'[t][j] = 0
      /\ \A i \in Items : pxContainer[i] # l => passed'[i] = passed[i]
      /\ \A i, j \in Items : i # t /\ pxContainer[i] = l =>
           passed'[i][j] = IF j = t /\ passed[i][t] < CountBound
                           THEN passed[i][t] + 1 ELSE passed[i][j]
  <2>1. \A j \in Items : Fresh[j] = 0
    BY DEF Fresh
  <2>2. passed'[t] = Fresh
    BY <1>7, <1>8
  <2>3. ASSUME NEW i \in Items, NEW j \in Items, i # t, pxContainer[i] = l
        PROVE  passed'[i][j] = IF j = t /\ passed[i][t] < CountBound
                               THEN passed[i][t] + 1 ELSE passed[i][j]
    <3>1. passed'[i] = [passed[i] EXCEPT ![t] = IF passed[i][t] < CountBound
                                                THEN passed[i][t] + 1
                                                ELSE passed[i][t]]
      BY <1>8, <2>3
    <3>2. passed[i] \in [Items -> Nat]
      BY <1>1
    <3> QED
      BY <1>7, <3>1, <3>2
  <2> QED
    BY <1>8, <2>1, <2>2, <2>3
<1>10. passed' \in [Items -> [Items -> Nat]]
  <2>1. Fresh \in [Items -> Nat]
    BY DEF Fresh
  <2>2. ASSUME NEW i \in Items
        PROVE  (IF pxContainer[i] # l THEN passed[i]
                ELSE IF i = t THEN Fresh
                ELSE [passed[i] EXCEPT ![t] = IF @ < CountBound THEN @ + 1
                                              ELSE @]) \in [Items -> Nat]
    <3>1. passed[i] \in [Items -> Nat] /\ passed[i][t] \in Nat
      BY <1>1, <1>7
    <3>2. PICK c : c = IF passed[i][t] < CountBound THEN passed[i][t] + 1
                       ELSE passed[i][t]
      OBVIOUS
    <3>3. c \in Nat
      BY <3>1, <3>2
    <3>4. [passed[i] EXCEPT ![t] = c] \in [Items -> Nat]
      BY <3>1, <3>3
    <3>5. [passed[i] EXCEPT ![t] = IF @ < CountBound THEN @ + 1 ELSE @]
            = [passed[i] EXCEPT ![t] = c]
      BY <3>1, <3>2
    <3> QED
      BY <2>1, <3>1, <3>4, <3>5
  <2> QED
    BY <1>8, <2>2
<1>11. ASSUME NEW i \in Items \ {t}
       PROVE  /\ pxContainer'[i] = pxContainer[i]
              /\ pxContainer[i] = None => passed'[i] = passed[i]
              /\ \A m \in Lists, j \in Items :
                   pxContainer[i] = m
                    => passed'[i][j] <= Allowed(FromIndex(m)', m, i, j)
  <2>1. pxContainer'[i] = pxContainer[i]
    BY <1>2
  <2>2. pxContainer[i] = None => passed'[i] = passed[i]
    BY <1>9
  <2>3. ASSUME NEW m \in Lists, NEW j \in Items, pxContainer[i] = m
        PROVE  passed'[i][j] <= Allowed(FromIndex(m)', m, i, j)
    <3>1. passed[i][j] <= Allowed(FromIndex(m), m, i, j)
      BY <1>1, <2>3 DEF Waits
    <3>2. CASE m # l
      BY <1>5, <1>9, <2>3, <3>1, <3>2
    <3>3. CASE m = l
      <4>1. /\ passed'[i][j] <= passed[i][j] + (IF j = t THEN 1 ELSE 0)
            /\ passed[i][j] \in Nat /\ passed'[i][j] \in Nat
        <5>1. passed[i][j] \in Nat /\ passed'[i][j] \in Nat
          BY <1>1, <1>10
        <5>2. \/ passed'[i][j] = passed[i][j]
              \/ j = t /\ passed'[i][j] = passed[i][j] + 1
          BY <1>9, <2>3, <3>3
        <5> QED
          BY <5>1, <5>2
      <4>2. Contains(r, i) /\ l \notin Items /\ i \in Items /\ i # t
        BY <1>6, <2>3, <3>3
      <4>3. Allowed(r, l, i, j) + (IF j = t THEN 1 ELSE 0) <= Allowed(s, l, i, j)
        BY <1>4, <1>5, <1>6, <4>2, AllowedRotate
      <4>4. /\ Allowed(r, l, i, j) \in 0 .. 2 /\ Allowed(s, l, i, j) \in 0 .. 2
        BY AllowedIs
      <4>5. passed[i][j] <= Allowed(r, l, i, j)
        BY <1>4, <3>1, <3>3
      <4>6. passed'[i][j] <= Allowed(s, l, i, j)
        BY <4>1, <4>3, <4>4, <4>5
      <4> QED
        BY <1>5, <3>3, <4>6
    <3> QED
      BY <3>2, <3>3
  <2> QED
    BY <2>1, <2>2, <2>3
<1> QED
  <2>1. {t} \in SUBSET Items
    BY <1>7
  <2>2. \A i \in {t}, j \in Items : passed'[i][j] = 0
    BY <1>9
  <2>3. IInv' /\ passed' \in [Items -> [Items -> Nat]]
    BY <1>2, <1>10
  <2> QED
    BY <1>11, <2>1, <2>2, <2>3, WaitsKept

LEMMA NextRRInv == RRInv /\ [RRNext]_rrvars => RRInv'
<1> SUFFICES ASSUME RRInv, [RRNext]_rrvars PROVE RRInv'
  OBVIOUS
<1>1. ASSUME NEW l \in Lists, NEW i \in Items, Enter(l, i) PROVE RRInv'
  BY <1>1, EnterRRInv
<1>2. ASSUME NEW i \in Items, Leave(i) PROVE RRInv'
  BY <1>2, LeaveRRInv
<1>3. ASSUME NEW l \in Lists, ServeNext(l) PROVE RRInv'
  BY <1>3, ServeRRInv
<1>4. ASSUME UNCHANGED rrvars PROVE RRInv'
  <2>1. UNCHANGED vars /\ passed' = passed
    BY <1>4 DEF rrvars
  <2>2. IInv'
    BY <2>1, NextIInv DEF RRInv
  <2>3. /\ pxIndex' = pxIndex /\ uxNumberOfItems' = uxNumberOfItems
        /\ pxNext' = pxNext /\ pxContainer' = pxContainer
    BY <2>1 DEF vars
  <2>4. \A m \in Lists : FromIndex(m)' = FromIndex(m)
    BY <2>2, <2>3, OtherRound DEF RRInv
  <2>5. Waits'
    BY <2>1, <2>3, <2>4 DEF RRInv, Waits
  <2> QED
    BY <2>1, <2>2, <2>5 DEF RRInv
<1> QED
  BY <1>1, <1>2, <1>3, <1>4 DEF RRNext

(* However items leave and come back, and however many there are: while an *)
(* item waits in a ready list no other is served more than twice.  The     *)
(* scheduler cannot starve a task within its priority.                     *)
THEOREM NeverThrice == RRSpec => []AtMostTwice
<1>1. RRInv => AtMostTwice
  <2> SUFFICES ASSUME RRInv, NEW i \in Items, NEW j \in Items
               PROVE  passed[i][j] <= 2
    BY DEF AtMostTwice
  <2>1. passed[i][j] \in Nat
    BY DEF RRInv
  <2>2. CASE pxContainer[i] = None
    BY <2>1, <2>2 DEF RRInv, Waits
  <2>3. CASE pxContainer[i] # None
    <3>1. PICK l \in Lists : pxContainer[i] = l
      BY <2>3 DEF RRInv, IInv, TypeOK
    <3>2. passed[i][j] <= Allowed(FromIndex(l), l, i, j)
      BY <3>1 DEF RRInv, Waits
    <3>3. Allowed(FromIndex(l), l, i, j) \in 0 .. 2
      BY AllowedIs
    <3> QED
      BY <2>1, <3>2, <3>3
  <2> QED
    BY <2>2, <2>3
<1> QED
  BY <1>1, InitRRInv, NextRRInv, PTL DEF RRSpec
=============================================================================
