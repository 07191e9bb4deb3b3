----------------------------- MODULE KernelProofs -----------------------------
(***************************************************************************)
(* The kernel's tasks and what blocks them, in three parts: the lists of   *)
(* the scheduler (Tasks), the blocking calls of a queue (QueueIPC) and the *)
(* waits for bits of an event group (EventGroup).  The two others rest on  *)
(* the invariant of the first.                                             *)
(***************************************************************************)
EXTENDS QueueIPC, EventGroup, RingProofs, FiniteSetTheorems

-----------------------------------------------------------------------------
(***************************************************************************)
(* The scheduler's lists, for any tasks, priorities and delays: a task is  *)
(* in one list at most, nobody who sleeps runs on, and nobody is woken     *)
(* early; and, while no wakeup time reaches the largest tick value, nobody *)
(* oversleeps.                                                             *)
(***************************************************************************)

Sleeping == {Delayed, Overflow}

(* The lists are rings, no two of them share a task, and the index of the  *)
(* delayed lists stands on the marker (nobody rotates them).               *)
GoodRings(rings) ==
  /\ rings = [l \in ListNames |-> rings[l]]
  /\ \A l \in ListNames : IsRing(rings[l], l, Task)
  /\ \A l, m \in ListNames : \A t \in Task :
       In(rings, l, t) /\ In(rings, m, t) => l = m
  /\ \A l \in Sleeping : MarkerLast(rings[l], l)

Homeless(rings, t) == \A l \in ListNames : ~In(rings, l, t)

LEMMA Names ==
  /\ Delayed \in ListNames /\ Overflow \in ListNames /\ Suspended \in ListNames
  /\ Delayed # Overflow /\ Suspended \notin Sleeping
  /\ \A p \in Priorities : Ready(p) \in ListNames \ Sleeping
                           /\ Ready(p) # Suspended
  /\ \A p, q : Ready(p) = Ready(q) => p = q
  /\ \A l \in ListNames : l \notin Task
BY NamesAssumption
   DEF ListNames, Ready, Delayed, Overflow, Suspended, Sleeping

LEMMA UnlinkIs ==
  ASSUME NEW rings, GoodRings(rings), NEW t \in Task
  PROVE  /\ GoodRings(Unlink(rings, t)) /\ Homeless(Unlink(rings, t), t)
         /\ \A l \in ListNames : \A u \in Task :
              In(Unlink(rings, t), l, u) <=> u # t /\ In(rings, l, u)
         /\ \A l \in ListNames : SameOrder(Unlink(rings, t)[l], rings[l])
<1> DEFINE new == Unlink(rings, t)
<1>1. \A l \in ListNames : new[l] = Without(rings[l], t)
  BY DEF Unlink
<1>2. new = [l \in ListNames |-> new[l]]
  BY DEF Unlink
<1> HIDE DEF new
<1>3. ASSUME NEW l \in ListNames
      PROVE  /\ IsRing(new[l], l, Task)
             /\ \A u : Contains(new[l], u) <=> u # t /\ Contains(rings[l], u)
             /\ MarkerLast(rings[l], l) => MarkerLast(new[l], l)
             /\ SameOrder(new[l], rings[l])
  <2>1. IsRing(rings[l], l, Task) /\ t # l
    BY Names DEF GoodRings
  <2> QED
    BY <1>1, <2>1, WithoutIs
<1>4. GoodRings(new)
  <2>1. \A l \in Sleeping : l \in ListNames
    BY Names DEF Sleeping
  <2> QED
    BY <1>2, <1>3, <2>1 DEF GoodRings, In
<1> QED
  BY <1>3, <1>4 DEF Homeless, In, new

LEMMA InsertEndIs ==
  ASSUME NEW rings, GoodRings(rings), NEW l \in ListNames \ Sleeping,
         NEW t \in Task, Homeless(rings, t)
  PROVE  /\ GoodRings(InsertEnd(rings, l, t))
         /\ \A m \in ListNames : \A u \in Task :
              In(InsertEnd(rings, l, t), m, u)
                <=> In(rings, m, u) \/ (m = l /\ u = t)
         /\ \A m \in ListNames \ {l} : InsertEnd(rings, l, t)[m] = rings[m]
<1> DEFINE new == InsertEnd(rings, l, t)
<1>1. /\ new = [m \in ListNames |-> new[m]]
      /\ new[l] = EnterLast(rings[l], t)
      /\ \A m \in ListNames \ {l} : new[m] = rings[m]
  BY DEF InsertEnd, GoodRings
<1> HIDE DEF new
<1>2. IsRing(rings[l], l, Task) /\ ~Contains(rings[l], t)
  BY DEF GoodRings, Homeless, In
<1>3. /\ IsRing(new[l], l, Task)
      /\ \A u : Contains(new[l], u) <=> u = t \/ Contains(rings[l], u)
  BY <1>1, <1>2, EnterLastIs
<1>4. \A m \in ListNames : \A u \in Task :
        In(new, m, u) <=> In(rings, m, u) \/ (m = l /\ u = t)
  BY <1>1, <1>3 DEF In
<1>5. GoodRings(new)
  <2>1. \A m \in ListNames : IsRing(new[m], m, Task)
    BY <1>1, <1>3 DEF GoodRings
  <2>2. \A m, n \in ListNames : \A u \in Task :
          In(new, m, u) /\ In(new, n, u) => m = n
    BY <1>4 DEF GoodRings, Homeless
  <2>3. \A m \in Sleeping : MarkerLast(new[m], m)
    BY <1>1, Names DEF GoodRings, Sleeping
  <2> QED
    BY <1>1, <2>1, <2>2, <2>3 DEF GoodRings
<1> QED
  BY <1>1, <1>4, <1>5 DEF new

(* The values vListInsert compares: the marker has the largest.            *)
Keys(l, values) ==
  [n \in Task \cup {l} |-> IF n = l THEN PORT_MAX_DELAY ELSE values[n]]

LEMMA InsertIs ==
  ASSUME NEW rings, GoodRings(rings), NEW l \in Sleeping,
         NEW t \in Task, Homeless(rings, t),
         NEW values \in [Task -> 0 .. PORT_MAX_DELAY]
  PROVE  /\ GoodRings(Insert(rings, l, t, values))
         /\ \A m \in ListNames : \A u \in Task :
              In(Insert(rings, l, t, values), m, u)
                <=> In(rings, m, u) \/ (m = l /\ u = t)
         /\ \A m \in ListNames \ {l} : Insert(rings, l, t, values)[m] = rings[m]
         /\ values[t] # PORT_MAX_DELAY /\ SortedBy(rings[l], Keys(l, values))
              => SortedBy(Insert(rings, l, t, values)[l], Keys(l, values))
<1> DEFINE new == Insert(rings, l, t, values)
           order == InOrder(rings[l], l)
           next == IF values[t] # PORT_MAX_DELAY
                   THEN FirstAtLeast(rings[l], l, Keys(l, values), values[t])
                   ELSE IF Len(order) = 1 THEN l ELSE order[Len(order) - 1]
<1>1. /\ IsRing(rings[l], l, Task) /\ ~Contains(rings[l], t)
      /\ l \in ListNames /\ l \notin Task /\ MarkerLast(rings[l], l)
  BY Names DEF GoodRings, Homeless, In, Sleeping
<1>2. /\ \A n \in Task \cup {l} : Keys(l, values)[n] \in Nat
      /\ Keys(l, values)[l] = PORT_MAX_DELAY
      /\ Keys(l, values)[t] = values[t] /\ values[t] <= PORT_MAX_DELAY
  BY <1>1, TasksAssumption DEF Keys
<1>3. Contains(rings[l], next)
  <2>1. /\ Len(order) \in Nat \ {0}
        /\ \A i \in 1 .. Len(order) : Contains(rings[l], order[i])
    <3>1. /\ Len(order) = Len(rings[l])
          /\ \A x : Contains(order, x) <=> Contains(rings[l], x)
      BY <1>1, InOrderIs
    <3>2. Len(rings[l]) \in Nat \ {0}
      BY <1>1, RingTypes
    <3> HIDE DEF order
    <3>3. \A i \in 1 .. Len(order) : Contains(order, order[i])
      BY DEF Contains
    <3> QED
      BY <3>1, <3>2, <3>3
  <2>2. CASE values[t] # PORT_MAX_DELAY
    <3>1. Keys(l, values)[l] >= values[t]
      BY <1>2
    <3>2. \E k \in 1 .. Len(rings[l]) :
            order[k] = FirstAtLeast(rings[l], l, Keys(l, values), values[t])
      BY <1>1, <3>1, FirstAtLeastIs
    <3>3. Len(order) = Len(rings[l])
      BY <1>1, InOrderIs
    <3> QED
      BY <2>1, <2>2, <3>2, <3>3
  <2>3. CASE values[t] = PORT_MAX_DELAY /\ Len(order) = 1
    BY <1>1, <2>3 DEF IsRing
  <2>4. CASE values[t] = PORT_MAX_DELAY /\ Len(order) # 1
    <3>1. \A n \in Nat \ {0} : n # 1 => n - 1 \in 1 .. n
      OBVIOUS
    <3>2. Len(order) - 1 \in 1 .. Len(order)
      BY <2>1, <2>4, <3>1
    <3> QED
      BY <2>1, <2>4, <3>2
  <2> QED
    BY <2>2, <2>3, <2>4
<1>4. new = [rings EXCEPT ![l] = EnterBefore(@, next, t)]
  BY DEF Insert, Keys
<1> HIDE DEF next
<1>5. /\ new = [m \in ListNames |-> new[m]]
      /\ new[l] = EnterBefore(rings[l], next, t)
      /\ \A m \in ListNames \ {l} : new[m] = rings[m]
  BY <1>1, <1>4 DEF GoodRings
<1> HIDE DEF new
<1>6. /\ IsRing(new[l], l, Task) /\ MarkerLast(new[l], l)
      /\ \A u : Contains(new[l], u) <=> u = t \/ Contains(rings[l], u)
  BY <1>1, <1>3, <1>5, EnterBeforeIs
<1>7. \A m \in ListNames : \A u \in Task :
        In(new, m, u) <=> In(rings, m, u) \/ (m = l /\ u = t)
  BY <1>1, <1>5, <1>6 DEF In
<1>8. GoodRings(new)
  <2>1. \A m \in ListNames : IsRing(new[m], m, Task)
    BY <1>5, <1>6 DEF GoodRings
  <2>2. \A m, n \in ListNames : \A u \in Task :
          In(new, m, u) /\ In(new, n, u) => m = n
    BY <1>7 DEF GoodRings, Homeless
  <2>3. \A m \in Sleeping : MarkerLast(new[m], m)
    BY <1>5, <1>6, Names DEF GoodRings, Sleeping
  <2> QED
    BY <1>5, <2>1, <2>2, <2>3 DEF GoodRings
<1>9. ASSUME values[t] # PORT_MAX_DELAY, SortedBy(rings[l], Keys(l, values))
      PROVE  SortedBy(new[l], Keys(l, values))
  <2>1. next = FirstAtLeast(rings[l], l, Keys(l, values), Keys(l, values)[t])
    BY <1>2, <1>9 DEF next
  <2>2. Keys(l, values)[l] >= Keys(l, values)[t]
    BY <1>2
  <2> QED
    BY <1>1, <1>2, <1>5, <1>9, <2>1, <2>2, EnterSorted
<1> QED
  BY <1>5, <1>7, <1>8, <1>9 DEF new
-----------------------------------------------------------------------------
(* The tasks of M have gone to the lists "to" names, the others have       *)
(* stayed, and nobody has overtaken anybody in the delayed lists.          *)
Moved(new, rings, M, to) ==
  /\ GoodRings(new)
  /\ \A l \in ListNames : \A u \in Task :
       In(new, l, u) <=> IF u \in M THEN l = to[u] ELSE In(rings, l, u)
  /\ \A l \in Sleeping : SameOrder(new[l], rings[l])

LEMMA MovedTwice ==
  ASSUME NEW a, NEW b, NEW c, NEW M, NEW N, NEW to,
         Moved(b, a, M, to), Moved(c, b, N, to)
  PROVE  Moved(c, a, M \cup N, to)
<1>1. \A l \in Sleeping : SameOrder(c[l], a[l])
  <2> TAKE l \in Sleeping
  <2>1. SameOrder(c[l], b[l]) /\ SameOrder(b[l], a[l])
    BY DEF Moved
  <2>2. ASSUME NEW i \in 1 .. Len(c[l]), NEW j \in 1 .. Len(c[l]), i < j
        PROVE  \E m, n \in 1 .. Len(a[l]) : m < n /\ c[l][i] = a[l][m] /\ c[l][j] = a[l][n]
    <3>1. PICK m, n \in 1 .. Len(b[l]) : m < n /\ c[l][i] = b[l][m] /\ c[l][j] = b[l][n]
      BY <2>1, <2>2, Zenon DEF SameOrder
    <3>2. PICK p, q \in 1 .. Len(a[l]) : p < q /\ b[l][m] = a[l][p] /\ b[l][n] = a[l][q]
      BY <2>1, <3>1, Zenon DEF SameOrder
    <3> QED
      BY <3>1, <3>2, Zenon
  <2> QED
    BY <2>2, Zenon DEF SameOrder
<1>2. ASSUME NEW l \in ListNames, NEW u \in Task
      PROVE  In(c, l, u) <=> IF u \in M \cup N THEN l = to[u] ELSE In(a, l, u)
  <2>1. In(c, l, u) <=> IF u \in N THEN l = to[u] ELSE In(b, l, u)
    BY Zenon DEF Moved
  <2>2. In(b, l, u) <=> IF u \in M THEN l = to[u] ELSE In(a, l, u)
    BY Zenon DEF Moved
  <2> QED
    BY <2>1, <2>2, Zenon
<1> QED
  BY <1>1, <1>2, Zenon DEF Moved

LEMMA MoveIs ==
  ASSUME NEW rings, GoodRings(rings), NEW l \in ListNames \ Sleeping,
         NEW t \in Task, NEW to, to[t] = l
  PROVE  Moved(InsertEnd(Unlink(rings, t), l, t), rings, {t}, to)
<1> DEFINE mid == Unlink(rings, t)
           new == InsertEnd(mid, l, t)
<1>1. /\ GoodRings(mid) /\ Homeless(mid, t)
      /\ \A m \in ListNames : \A u \in Task :
           In(mid, m, u) <=> u # t /\ In(rings, m, u)
      /\ \A m \in ListNames : SameOrder(mid[m], rings[m])
  BY UnlinkIs
<1> HIDE DEF mid
<1>2. /\ GoodRings(new)
      /\ \A m \in ListNames : \A u \in Task :
           In(new, m, u) <=> In(mid, m, u) \/ (m = l /\ u = t)
      /\ \A m \in ListNames \ {l} : new[m] = mid[m]
  BY <1>1, InsertEndIs
<1> HIDE DEF new
<1>3. \A m \in Sleeping : m \in ListNames \ {l}
  BY Names DEF Sleeping
<1>4. Moved(new, rings, {t}, to)
  BY <1>1, <1>2, <1>3 DEF Moved
<1> QED
  BY <1>4 DEF new, mid

Home == [u \in Task |-> Ready(uxPriority[u])]

LEMMA ToReadyIs ==
  ASSUME NEW rings, GoodRings(rings), NEW t \in Task,
         uxPriority \in [Task -> Priorities]
  PROVE  Moved(ToReady(rings, t), rings, {t}, Home)
BY MoveIs, Names DEF ToReady, Home

(* The recursion of AllToReady has a value: extend that of one task fewer. *)
IsRounds(rings, woken, n, g) ==
  g = [k \in 0 .. n |-> IF k = 0 THEN rings ELSE ToReady(g[k - 1], woken[k])]

LEMMA AllToReadyUnfolds ==
  ASSUME NEW rings, NEW woken, NEW n \in Nat
  PROVE  \E g : IsRounds(rings, woken, n, g)
<1> DEFINE Body(g, m) == [k \in 0 .. m |-> IF k = 0 THEN rings
                                           ELSE ToReady(g[k - 1], woken[k])]
           Fails == {m \in Nat : ~\E g : g = Body(g, m)}
<1>1. SUFFICES ASSUME Fails # {} PROVE FALSE
  BY DEF IsRounds
<1>2. PICK m \in Fails : \A k \in Fails : m <= k
  <2>1. Fails \subseteq Nat
    OBVIOUS
  <2> HIDE DEF Fails
  <2> QED
    BY <1>1, <2>1, LeastNumber
<1>3. CASE m = 0
  <2> DEFINE g == [k \in 0 .. 0 |-> rings]
  <2>1. g = Body(g, 0)
    OBVIOUS
  <2> QED
    BY <1>2, <1>3, <2>1
<1>4. CASE m # 0
  <2>1. m \in Nat /\ m - 1 \in Nat /\ m - 1 \notin Fails
    <3>1. m \in Nat
      OBVIOUS
    <3> HIDE DEF Fails
    <3> QED
      BY <1>2, <1>4, <3>1
  <2>2. PICK g : g = Body(g, m - 1)
    <3> HIDE DEF Body
    <3> QED
      BY <2>1
  <2> DEFINE h == [k \in 0 .. m |-> IF k = m THEN ToReady(g[m - 1], woken[m])
                                    ELSE g[k]]
  <2>3. ASSUME NEW k \in 0 .. m
        PROVE  h[k] = IF k = 0 THEN rings ELSE ToReady(h[k - 1], woken[k])
    <3>1. CASE k = m
      <4>1. h[k - 1] = g[m - 1] /\ h[k] = ToReady(g[m - 1], woken[m])
        BY <1>4, <2>1, <3>1
      <4> QED
        BY <1>4, <3>1, <4>1
    <3>2. CASE k # m
      <4>1. k \in 0 .. m - 1 /\ h[k] = g[k]
        BY <2>1, <3>2
      <4>2. k # 0 => k - 1 \in 0 .. m /\ k - 1 # m
        BY <2>1
      <4>3. k # 0 => h[k - 1] = g[k - 1]
        BY <4>2
      <4>4. g[k] = IF k = 0 THEN rings ELSE ToReady(g[k - 1], woken[k])
        BY <2>2, <4>1
      <4> QED
        BY <4>1, <4>3, <4>4
    <3> QED
      BY <3>1, <3>2
  <2>4. h = Body(h, m)
    BY <2>3
  <2> QED
    BY <1>2, <2>4
<1> QED
  BY <1>3, <1>4

LEMMA AllToReadyIs ==
  ASSUME NEW rings, GoodRings(rings), NEW woken, Len(woken) \in Nat,
         \A i \in 1 .. Len(woken) : woken[i] \in Task,
         uxPriority \in [Task -> Priorities]
  PROVE  Moved(AllToReady(rings, woken), rings,
               {woken[i] : i \in 1 .. Len(woken)}, Home)
<1> DEFINE n == Len(woken)
           after == CHOOSE g : g = [k \in 0 .. n |->
                      IF k = 0 THEN rings ELSE ToReady(g[k - 1], woken[k])]
<1>1. after = [k \in 0 .. n |->
                 IF k = 0 THEN rings ELSE ToReady(after[k - 1], woken[k])]
  <2>1. \E g : IsRounds(rings, woken, n, g)
    BY AllToReadyUnfolds, Zenon
  <2> QED
    BY <2>1, Zenon DEF IsRounds
<1>2. AllToReady(rings, woken) = after[n]
  BY DEF AllToReady
<1> HIDE DEF after
<1> DEFINE Done(k) == {woken[i] : i \in 1 .. k}
           Fails == {k \in 0 .. n : ~Moved(after[k], rings, Done(k), Home)}
<1>3. SUFFICES ASSUME Fails # {} PROVE FALSE
  <2>1. n \in 0 .. n
    OBVIOUS
  <2>2. Fails = {} => Moved(after[n], rings, Done(n), Home)
    BY <2>1
  <2> QED
    BY <1>2, <2>2
<1>4. PICK m \in Fails : \A k \in Fails : m <= k
  <2>1. Fails \subseteq Nat
    OBVIOUS
  <2> HIDE DEF Fails
  <2> QED
    BY <1>3, <2>1, LeastNumber
<1>5. CASE m = 0
  <2>1. after[0] = rings
    BY <1>1
  <2>2. Moved(rings, rings, Done(0), Home)
    BY DEF Moved, SameOrder
  <2> QED
    BY <1>4, <1>5, <2>1, <2>2
<1>6. CASE m # 0
  <2>1. m \in 1 .. n /\ m - 1 \in 0 .. n /\ m - 1 \notin Fails
    <3>1. m \in 0 .. n
      OBVIOUS
    <3> HIDE DEF Fails
    <3> QED
      BY <1>4, <1>6, <3>1
  <2>2. Moved(after[m - 1], rings, Done(m - 1), Home)
    BY <2>1
  <2>3. after[m] = ToReady(after[m - 1], woken[m])
    BY <1>1, <2>1
  <2>4. Moved(after[m], after[m - 1], {woken[m]}, Home)
    BY <2>1, <2>2, <2>3, ToReadyIs DEF Moved
  <2>5. Done(m - 1) \cup {woken[m]} = Done(m)
    <3>1. \A i : i \in 1 .. m <=> i \in 1 .. m - 1 \/ i = m
      BY <2>1
    <3> QED
      BY <3>1
  <2>6. Moved(after[m], rings, Done(m - 1) \cup {woken[m]}, Home)
    BY <2>2, <2>4, MovedTwice
  <2> QED
    BY <1>4, <2>5, <2>6
<1> QED
  BY <1>5, <1>6
-----------------------------------------------------------------------------
(* Of the ready lists that are not empty, one has the highest priority.    *)
LEMMA HighestReadyIs ==
  ASSUME NEW rings, GoodRings(rings), In(rings, Ready(0), Idle)
  PROVE  /\ HighestReady(rings) \in Priorities
         /\ ~IsEmpty(rings[Ready(HighestReady(rings))])
<1> DEFINE Busy == {p \in Priorities : ~IsEmpty(rings[Ready(p)])}
           Above(p) == {q \in Busy : q > p}
           Counts == {Cardinality(Above(p)) : p \in Busy}
<1>1. ~IsEmpty(rings[Ready(0)])
  <2> DEFINE r == rings[Ready(0)]
  <2>1. /\ Contains(r, Ready(0)) /\ Contains(r, Idle) /\ Idle # Ready(0)
        /\ Len(r) \in Nat
    <3>1. Ready(0) \in ListNames /\ Idle # Ready(0)
      BY Names, TasksAssumption
    <3>2. IsRing(r, Ready(0), Task)
      BY <3>1 DEF GoodRings
    <3> QED
      BY <3>1, <3>2, RingTypes DEF IsRing, In
  <2> HIDE DEF r
  <2>2. ASSUME Len(r) = 1 PROVE FALSE
    BY <2>1, <2>2 DEF Contains
  <2> QED
    BY <2>2 DEF IsEmpty, r
<1>2. \A p \in Busy : IsFiniteSet(Above(p)) /\ Cardinality(Above(p)) \in Nat
  <2> TAKE p \in Busy
  <2>1. Above(p) \subseteq Priorities
    OBVIOUS
  <2> HIDE DEF Above
  <2> QED
    BY <2>1, TasksAssumption, FS_Subset, FS_CardinalityType
<1>3. 0 \in Busy /\ Busy \subseteq Nat
  BY <1>1, TasksAssumption
<1>4. \A p, q \in Busy : q > p =>
        /\ Above(q) \subseteq Above(p) /\ Above(q) # Above(p)
  BY <1>3
<1> HIDE DEF Above
<1>5. PICK p \in Busy :
        \A q \in Busy : Cardinality(Above(p)) <= Cardinality(Above(q))
  <2>1. Counts # {} /\ Counts \subseteq Nat
    BY <1>2, <1>3
  <2>2. PICK m \in Counts : \A k \in Counts : m <= k
    <3> HIDE DEF Counts
    <3> QED
      BY <2>1, LeastNumber
  <2> QED
    BY <2>2
<1>6. \A q \in Busy : ~(q > p)
  <2> SUFFICES ASSUME NEW q \in Busy, q > p PROVE FALSE
    OBVIOUS
  <2>1. Cardinality(Above(q)) < Cardinality(Above(p))
    BY <1>2, <1>4, FS_Subset
  <2>2. /\ Cardinality(Above(q)) \in Nat /\ Cardinality(Above(p)) \in Nat
        /\ Cardinality(Above(p)) <= Cardinality(Above(q))
    BY <1>2, <1>5
  <2> HIDE DEF Busy
  <2> QED
    BY <2>1, <2>2
<1>7. /\ \A q \in Priorities : q > p => IsEmpty(rings[Ready(q)])
      /\ ~IsEmpty(rings[Ready(p)]) /\ p \in Priorities
  BY <1>6
<1>8. /\ HighestReady(rings) \in Priorities
      /\ HighestReady(rings) = 0 \/ ~IsEmpty(rings[Ready(HighestReady(rings))])
  BY <1>7 DEF HighestReady
<1> QED
  BY <1>1, <1>8

(* What a call leaves when it may have switched: the tasks are in the      *)
(* lists they were in, and the running task is the same or a ready one.    *)
Switched(rings, suspended) ==
  /\ GoodRings(ring')
  /\ \A l \in ListNames : \A u \in Task : In(ring', l, u) <=> In(rings, l, u)
  /\ \A l \in Sleeping : ring'[l] = rings[l]
  /\ current' \in Task /\ xYieldPending' \in BOOLEAN
  /\ \/ current' = current
     \/ suspended = 0 /\ \E p \in Priorities : In(rings, Ready(p), current')

LEMMA SwitchIs ==
  ASSUME NEW rings, GoodRings(rings), In(rings, Ready(0), Idle),
         current \in Task, NEW n, SwitchContext(rings, n)
  PROVE  /\ Switched(rings, n)
         /\ n = 0 => \E p \in Priorities : In(rings, Ready(p), current')
<1> DEFINE p == HighestReady(rings)
           l == Ready(p)
           served == Rotate(rings[l], l)
<1>1. CASE n # 0
  BY <1>1 DEF SwitchContext, Switched
<1>2. CASE n = 0
  <2>1. /\ p \in Priorities /\ ~IsEmpty(rings[l])
        /\ l \in ListNames \ Sleeping /\ IsRing(rings[l], l, Task)
    BY HighestReadyIs, Names DEF GoodRings
  <2>2. /\ ring' = [rings EXCEPT ![l] = served]
        /\ current' = Last(served) /\ xYieldPending' = FALSE
    BY <1>2 DEF SwitchContext
  <2> HIDE DEF p
  <2>3. /\ IsRing(served, l, Task)
        /\ \A x : Contains(served, x) <=> Contains(rings[l], x)
        /\ Last(served) \in Task /\ Contains(rings[l], Last(served))
    <3> HIDE DEF l
    <3> QED
      BY <2>1, RotateIs
  <2> HIDE DEF served
  <2>4. /\ ring' = [m \in ListNames |-> ring'[m]] /\ ring'[l] = served
        /\ \A m \in ListNames \ {l} : ring'[m] = rings[m]
    BY <2>1, <2>2 DEF GoodRings
  <2>5. \A m \in ListNames : \A u \in Task : In(ring', m, u) <=> In(rings, m, u)
    BY <2>3, <2>4 DEF In
  <2>6. \A m \in Sleeping : m \in ListNames \ {l}
    BY <2>1, Names DEF Sleeping
  <2>7. GoodRings(ring')
    BY <2>3, <2>4, <2>5, <2>6 DEF GoodRings
  <2>8. In(rings, Ready(p), current')
    BY <2>2, <2>3 DEF In
  <2> QED
    BY <1>2, <2>1, <2>2, <2>3, <2>4, <2>5, <2>6, <2>7, <2>8 DEF Switched
<1> QED
  BY <1>1, <1>2

LEMMA NoSwitchIs ==
  ASSUME NEW rings, GoodRings(rings), current \in Task,
         xYieldPending \in BOOLEAN, NEW n, NoSwitch(rings)
  PROVE  Switched(rings, n)
BY DEF NoSwitch, dispatch, Switched
-----------------------------------------------------------------------------
(* The items of a delayed list, the first to be woken first.               *)
LEMMA ItemsIs ==
  ASSUME GoodRings(ring), NEW l \in Sleeping
  PROVE  /\ Items(l) \in Seq(Task \cup {l})
         /\ Len(Items(l)) \in Nat /\ Len(Items(l)) + 1 = Len(ring[l])
         /\ \A i \in 1 .. Len(Items(l)) :
              Items(l)[i] = ring[l][i] /\ Items(l)[i] \in Task
         /\ \A t \in Task : In(ring, l, t)
              <=> \E i \in 1 .. Len(Items(l)) : Items(l)[i] = t
<1> DEFINE r == ring[l]
           m == Len(r) - 1
<1>1. IsRing(r, l, Task) /\ MarkerLast(r, l) /\ l \notin Task
  BY Names DEF GoodRings, Sleeping
<1>2. /\ r \in Seq(Task \cup {l}) /\ Len(r) \in Nat \ {0}
      /\ \A i \in 1 .. Len(r) : r[i] \in Task \cup {l}
  BY <1>1, RingTypes
<1>3. Items(l) = SubSeq(r, 1, m)
  BY <1>1, InOrderAtMarker DEF Items, Entries, Front
<1>4. m \in Nat /\ m + 1 = Len(r) /\ \A i \in 1 .. m : i \in 1 .. Len(r)
  BY <1>2
<1>5. /\ Items(l) \in Seq(Task \cup {l}) /\ Len(Items(l)) = m
      /\ \A i \in 1 .. m : Items(l)[i] = r[i]
  <2> DEFINE U == Task \cup {l}
  <2>1. r \in Seq(U) /\ 1 \in 1 .. Len(r) + 1 /\ m \in 0 .. Len(r)
    BY <1>2
  <2> HIDE DEF U
  <2>2. /\ Items(l) \in Seq(U) /\ Len(Items(l)) = m
        /\ \A i \in 1 .. m : Items(l)[i] = r[i]
    <3>1. 1 \in Int /\ m \in Int /\ \A i \in 1 .. m : r[i] \in U
      BY <1>2, <1>4 DEF U
    <3>2. /\ SubSeq(r, 1, m) \in Seq(U)
          /\ Len(SubSeq(r, 1, m)) = IF 1 <= m THEN m - 1 + 1 ELSE 0
          /\ \A i \in 1 .. m - 1 + 1 : SubSeq(r, 1, m)[i] = r[1 + i - 1]
      BY <3>1, SubSeqProperties
    <3>3. /\ (IF 1 <= m THEN m - 1 + 1 ELSE 0) = m /\ m - 1 + 1 = m
          /\ \A i \in 1 .. m : 1 + i - 1 = i
      BY <1>4
    <3> QED
      BY <1>3, <3>2, <3>3
  <2> QED
    BY <2>2 DEF U
<1>6. \A i \in 1 .. m : r[i] \in Task
  <2> TAKE i \in 1 .. m
  <2>1. i \in 1 .. Len(r) /\ i # Len(r) /\ Len(r) \in 1 .. Len(r)
    BY <1>2, <1>4
  <2>2. r[Len(r)] = l
    BY <1>1 DEF MarkerLast
  <2> QED
    BY <1>1, <1>2, <2>1, <2>2 DEF IsRing
<1>7. ASSUME NEW t \in Task
      PROVE  Contains(r, t) <=> \E i \in 1 .. m : r[i] = t
  <2>1. ASSUME NEW i \in 1 .. Len(r), r[i] = t
        PROVE  i \in 1 .. m
    <3>1. r[Len(r)] = l
      BY <1>1 DEF MarkerLast
    <3>2. i # Len(r)
      BY <1>1, <2>1, <3>1
    <3> QED
      BY <1>2, <1>4, <3>2
  <2> QED
    BY <1>4, <2>1 DEF Contains
<1> HIDE DEF m
<1> QED
  BY <1>4, <1>5, <1>6, <1>7 DEF In

LEMMA DueCountIs ==
  ASSUME GoodRings(ring), wake \in [Task -> 0 .. PORT_MAX_DELAY],
         NEW tick \in Nat
  PROVE  /\ DueCount(tick) \in 0 .. Len(Items(Delayed))
         /\ \A k \in 1 .. DueCount(tick) : wake[Items(Delayed)[k]] <= tick
         /\ DueCount(tick) < Len(Items(Delayed))
              => wake[Items(Delayed)[DueCount(tick) + 1]] > tick
<1> DEFINE s == Items(Delayed)
           N == Len(s)
           Stops == {n \in 0 .. N : n < N => wake[s[n + 1]] > tick}
<1>1. N \in Nat /\ \A i \in 1 .. N : wake[s[i]] \in Nat
  BY ItemsIs, TasksAssumption DEF Sleeping
<1> HIDE DEF N, s
<1>2. PICK m \in Stops : \A k \in Stops : m <= k
  <2>1. Stops \subseteq Nat /\ N \in Stops
    BY <1>1
  <2> HIDE DEF Stops
  <2> QED
    BY <2>1, LeastNumber
<1>3. m \in 0 .. N /\ (m < N => wake[s[m + 1]] > tick)
  OBVIOUS
<1>4. ASSUME NEW k \in 1 .. m PROVE wake[s[k]] <= tick
  <2>1. k \in 1 .. N /\ k - 1 \in 0 .. N /\ ~(m <= k - 1) /\ k - 1 < N
        /\ (k - 1) + 1 = k
    BY <1>1, <1>3
  <2>2. k - 1 \notin Stops
    <3> HIDE DEF Stops
    <3> QED
      BY <1>2, <2>1
  <2>3. ~(wake[s[(k - 1) + 1]] > tick)
    BY <2>1, <2>2
  <2> QED
    BY <1>1, <2>1, <2>3
<1>5. DueCount(tick) = CHOOSE n \in 0 .. N :
        /\ \A k \in 1 .. n : wake[s[k]] <= tick
        /\ n < N => wake[s[n + 1]] > tick
  BY DEF DueCount, s, N
<1>6. /\ DueCount(tick) \in 0 .. N
      /\ \A k \in 1 .. DueCount(tick) : wake[s[k]] <= tick
      /\ DueCount(tick) < N => wake[s[DueCount(tick) + 1]] > tick
  BY <1>3, <1>4, <1>5
<1> QED
  BY <1>6 DEF s, N
-----------------------------------------------------------------------------
(* The inductive invariant.  The lists are good rings and the idle task is *)
(* ready, so there is always a task to switch to.                          *)
ListsInv == GoodRings(ring) /\ In(ring, Ready(0), Idle)

TypesInv ==
  /\ wake \in [Task -> 0 .. PORT_MAX_DELAY]
  /\ uxPriority \in [Task -> Priorities]
  /\ handlePriority \in [Task -> Priorities]
  /\ current \in Task
  /\ lastWake \in [Task -> 0 .. PORT_MAX_DELAY]
  /\ xNextTaskUnblockTime \in 0 .. PORT_MAX_DELAY
  /\ uxSchedulerSuspended \in 0 .. NestBound + 1
  /\ xYieldPending \in BOOLEAN /\ panicked \in BOOLEAN

(* Every tick taken is counted or pended.                                  *)
TicksInv ==
  /\ xTickCount \in Nat /\ xPendedTicks \in Nat /\ elapsed \in 0 .. TickBound
  /\ xTickCount + xPendedTicks = elapsed

(* What every step of the kernel keeps, whatever call it is part of.       *)
KernelInv == ListsInv /\ TypesInv /\ TicksInv

(* A call that is still to resume the scheduler has suspended it and runs, *)
(* and none that is still to yield runs under a suspended scheduler: its   *)
(* yield would be lost.                                                    *)
CallsInv ==
  /\ pc \in [Task -> {"run", "yield", "resumeAll"}]
  /\ \A t \in Task : pc[t] = "resumeAll"
                       => t = current /\ uxSchedulerSuspended = 1
  /\ uxSchedulerSuspended > 0 => pc[current] # "yield"
  /\ SleepersStop

SchedInv == KernelInv /\ CallsInv

(* A step in which nobody goes to sleep and no time passes.                *)
Calm ==
  /\ \A l \in Sleeping : /\ SameOrder(ring'[l], ring[l])
                         /\ \A u \in Task : In(ring', l, u) => In(ring, l, u)
  /\ UNCHANGED <<wake, xNextTaskUnblockTime, xTickCount>>

LEMMA StaysAsleep ==
  ASSUME GoodRings(ring), NEW u \in Task,
         \A l \in ListNames : In(ring', l, u) => In(ring, l, u)
  PROVE  WokenWhenDue(u)
BY Names DEF WokenWhenDue, Asleep, GoodRings, In, Sleeping

(* A task in a list that is not a delayed one does not sleep.              *)
LEMMA AwakeIs ==
  ASSUME NEW rings, GoodRings(rings), NEW u \in Task,
         NEW l \in ListNames \ Sleeping, In(rings, l, u)
  PROVE  ~In(rings, Delayed, u) /\ ~In(rings, Overflow, u)
BY Names DEF GoodRings, Sleeping

(* The running task is the same, or one that does not sleep.               *)
Dispatched ==
  current' # current => uxSchedulerSuspended = 0 /\ ~Asleep(current)'

LEMMA SwitchedIs ==
  ASSUME KernelInv, NEW rings, Switched(rings, uxSchedulerSuspended),
         GoodRings(rings), In(rings, Ready(0), Idle)
  PROVE  /\ ListsInv' /\ Dispatched
         /\ \A p \in Priorities :
              In(rings, Ready(p), current') => ~Asleep(current)'
<1>1. ListsInv'
  BY Names, TasksAssumption DEF ListsInv, Switched
<1>2. ASSUME NEW p \in Priorities, In(rings, Ready(p), current')
      PROVE  ~Asleep(current)'
  <2>1. ~In(ring', Delayed, current') /\ ~In(ring', Overflow, current')
    BY <1>2, Names, AwakeIs DEF Switched
  <2> QED
    BY <2>1 DEF Asleep
<1>3. Dispatched
  <2>1. CASE current' = current
    BY <2>1 DEF Dispatched
  <2>2. CASE current' # current
    <3>1. PICK p \in Priorities : In(rings, Ready(p), current')
      BY <2>2 DEF Switched
    <3>2. ~Asleep(current)'
      BY <1>2, <3>1
    <3>3. uxSchedulerSuspended = 0
      BY <2>2 DEF Switched
    <3> QED
      BY <3>2, <3>3 DEF Dispatched
  <2> QED
    BY <2>1, <2>2
<1> QED
  BY <1>1, <1>2, <1>3

(* vTaskSwitchContext by itself.                                           *)
LEMMA SwitchingIs ==
  ASSUME KernelInv, SwitchContext(ring, uxSchedulerSuspended),
         UNCHANGED <<wake, tasks, lastWake, clock, uxSchedulerSuspended, panicked>>
  PROVE  /\ KernelInv' /\ Calm /\ Dispatched
         /\ \A l \in ListNames : \A u \in Task : In(ring', l, u) <=> In(ring, l, u)
         /\ \A u \in Task : WokenWhenDue(u)
         /\ uxSchedulerSuspended = 0 => ~Asleep(current)'
<1>1. /\ Switched(ring, uxSchedulerSuspended)
      /\ uxSchedulerSuspended = 0
           => \E p \in Priorities : In(ring, Ready(p), current')
  BY SwitchIs DEF KernelInv, ListsInv, TypesInv
<1>2. /\ ListsInv' /\ Dispatched
      /\ uxSchedulerSuspended = 0 => ~Asleep(current)'
  BY <1>1, SwitchedIs DEF KernelInv, ListsInv
<1>3. TypesInv' /\ TicksInv'
  BY <1>1 DEF KernelInv, TypesInv, TicksInv, Switched, clock, tasks
<1>4. Calm
  BY <1>1, Names DEF Calm, Switched, SameOrder, clock, Sleeping
<1>5. \A u \in Task : WokenWhenDue(u)
  BY <1>1, StaysAsleep DEF Switched, KernelInv, ListsInv
<1> QED
  BY <1>1, <1>2, <1>3, <1>4, <1>5 DEF KernelInv, Switched

(* Nobody goes to sleep and the running task goes on.                      *)
LEMMA GoesOnKeeps ==
  ASSUME SchedInv, Calm, UNCHANGED <<current, pc, uxSchedulerSuspended>>
  PROVE  CallsInv'
<1>1. current \in Task /\ Delayed \in Sleeping /\ Overflow \in Sleeping
  BY DEF SchedInv, KernelInv, TypesInv, Sleeping
<1>2. /\ In(ring', Delayed, current) => In(ring, Delayed, current)
      /\ In(ring', Overflow, current) => In(ring, Overflow, current)
  BY <1>1 DEF Calm
<1> QED
  BY <1>2 DEF SchedInv, KernelInv, CallsInv, SleepersStop, Asleep

LEMMA YieldKeeps ==
  ASSUME SchedInv, NEW t \in Task, Yield(t) \/ TaskYield(t)
  PROVE  SchedInv' /\ Calm /\ \A u \in Task : WokenWhenDue(u)
<1>1. /\ SwitchContext(ring, uxSchedulerSuspended)
      /\ current = t /\ pc[t] \in {"run", "yield"}
      /\ pc' = [pc EXCEPT ![t] = "run"]
      /\ UNCHANGED <<wake, tasks, lastWake, clock, uxSchedulerSuspended, panicked>>
  BY DEF Yield, TaskYield, Calls, Executes, SchedInv, CallsInv
<1>2. /\ KernelInv' /\ Calm /\ Dispatched /\ \A u \in Task : WokenWhenDue(u)
      /\ uxSchedulerSuspended = 0 => ~Asleep(current)'
  BY <1>1, SwitchingIs DEF SchedInv
<1>3. CallsInv'
  <2>1. /\ pc' \in [Task -> {"run", "yield", "resumeAll"}]
        /\ \A u \in Task : pc'[u] # "resumeAll"
    BY <1>1 DEF SchedInv, CallsInv
  <2>2. CASE uxSchedulerSuspended = 0
    BY <1>1, <1>2, <2>1, <2>2 DEF CallsInv, SleepersStop
  <2>3. CASE uxSchedulerSuspended # 0
    <3>1. current' = current /\ pc[t] = "run" /\ pc' = pc
      BY <1>1, <1>2, <2>3 DEF Dispatched, SchedInv, KernelInv, TypesInv, CallsInv
    <3> QED
      BY <1>1, <1>2, <3>1, GoesOnKeeps
  <2> QED
    BY <2>2, <2>3
<1> QED
  BY <1>2, <1>3 DEF SchedInv

LEMMA SuspendingKeeps ==
  ASSUME SchedInv, NEW t \in Task,
         VTaskSuspendAll(t) \/ VTaskResumeAll(t) \/ DelayUntilResume(t)
  PROVE  SchedInv' /\ Calm /\ \A u \in Task : WokenWhenDue(u)
<1>1. UNCHANGED <<lists, tasks, dispatch, lastWake, clock, panicked>>
  BY DEF VTaskSuspendAll, VTaskResumeAll, DelayUntilResume
<1>2. ListsInv' /\ TicksInv'
  BY <1>1 DEF SchedInv, KernelInv, ListsInv, TicksInv, lists, clock
<1>3. /\ current = t
      /\ \/ /\ pc[t] = "run" /\ pc' = pc
            /\ uxSchedulerSuspended' \in 0 .. NestBound + 1
         \/ /\ pc[t] = "resumeAll" /\ pc' = [pc EXCEPT ![t] = "yield"]
            /\ uxSchedulerSuspended' = 0
  <2>1. uxSchedulerSuspended \in 0 .. NestBound + 1 /\ NestBound \in Nat
    BY TasksAssumption DEF SchedInv, KernelInv, TypesInv
  <2> QED
    BY <2>1 DEF VTaskSuspendAll, VTaskResumeAll, DelayUntilResume, Calls,
                Executes, SchedInv, KernelInv, CallsInv
<1>4. TypesInv'
  <2>1. 0 \in 0 .. NestBound + 1
    BY TasksAssumption
  <2> QED
    BY <1>1, <1>3, <2>1
       DEF SchedInv, KernelInv, TypesInv, lists, tasks, dispatch, clock
<1>5. CallsInv'
  BY <1>1, <1>3 DEF SchedInv, KernelInv, CallsInv, TypesInv, SleepersStop,
                    Asleep, lists,
                    dispatch
<1>6. Calm
  BY <1>1 DEF Calm, SameOrder, lists, clock
<1>7. \A u \in Task : WokenWhenDue(u)
  BY <1>1, StaysAsleep DEF SchedInv, KernelInv, ListsInv, lists
<1> QED
  BY <1>2, <1>4, <1>5, <1>6, <1>7 DEF SchedInv, KernelInv

(* The calls that take a task out of its list, and put it elsewhere.       *)
LEMMA HandleKeeps ==
  ASSUME SchedInv, NEW t \in Task, NEW u \in Task \ {Idle},
         \/ VTaskSuspend(t, u) \/ VTaskDelete(t, u)
         \/ \E p \in Priorities : VTaskPrioritySet(t, u, p)
         \/ \E p \in Priorities : u = t /\ VTaskPrioritySetOwn(t, p)
         \/ u = t /\ VTaskDeleteOwn(t)
  PROVE  /\ SchedInv' /\ Calm
         /\ \A v \in Task \ {u} : WokenWhenDue(v)
         /\ \/ \E p \in Priorities : VTaskPrioritySet(t, u, p)
            \/ WokenWhenDue(u)
<1> DEFINE Off == \A m \in ListNames : In(ring', m, u) => m = Suspended
<1>1. /\ current = t /\ pc[t] = "run"
      /\ UNCHANGED <<wake, dispatch, lastWake, clock, uxSchedulerSuspended,
                     panicked>>
      /\ uxPriority' \in [Task -> Priorities]
      /\ handlePriority' \in [Task -> Priorities]
      /\ \/ pc' = pc
         \/ pc' = [pc EXCEPT ![t] = "yield"] /\ uxSchedulerSuspended = 0
  BY DEF VTaskSuspend, VTaskDelete, VTaskPrioritySet, VTaskPrioritySetOwn,
         VTaskDeleteOwn, Calls, Executes, tasks, MayBlock, SchedInv, KernelInv,
         TypesInv
<1>2. /\ GoodRings(ring')
      /\ \A m \in ListNames : \A v \in Task \ {u} :
           In(ring', m, v) <=> In(ring, m, v)
      /\ \A m \in Sleeping : SameOrder(ring'[m], ring[m]) /\ ~In(ring', m, u)
      /\ \/ \E p \in Priorities : VTaskPrioritySet(t, u, p) \/ u = current
         \/ Off
  <2>1. GoodRings(ring) /\ \A m \in Sleeping : m \in ListNames
    BY Names DEF SchedInv, KernelInv, ListsInv, Sleeping
  <2>2. CASE ring' = Unlink(ring, u)
    BY <2>1, <2>2, UnlinkIs DEF Homeless
  <2>3. ASSUME NEW l \in ListNames \ Sleeping,
               ring' = InsertEnd(Unlink(ring, u), l, u)
        PROVE  /\ GoodRings(ring')
               /\ \A m \in ListNames : \A v \in Task :
                    In(ring', m, v) <=> IF v = u THEN m = l ELSE In(ring, m, v)
               /\ \A m \in Sleeping : SameOrder(ring'[m], ring[m])
    <3> DEFINE to == [v \in Task |-> l]
    <3>1. Moved(ring', ring, {u}, to)
      BY <2>1, <2>3, MoveIs
    <3> QED
      BY <3>1 DEF Moved
  <2>4. CASE VTaskSuspend(t, u)
    BY <2>1, <2>3, <2>4, Names DEF VTaskSuspend
  <2>5. CASE \E p \in Priorities : VTaskPrioritySet(t, u, p)
    <3>1. PICK p \in Priorities : VTaskPrioritySet(t, u, p)
      BY <2>5
    <3>2. ring' = InsertEnd(Unlink(ring, u), Ready(p), u)
      BY <3>1 DEF VTaskPrioritySet
    <3> QED
      BY <2>1, <2>3, <3>1, <3>2, Names
  <2>6. CASE \E p \in Priorities : u = t /\ VTaskPrioritySetOwn(t, p)
    BY <1>1, <2>1, <2>3, <2>6, Names DEF VTaskPrioritySetOwn
  <2>7. CASE VTaskDelete(t, u) \/ (u = t /\ VTaskDeleteOwn(t))
    BY <2>2, <2>7 DEF VTaskDelete, VTaskDeleteOwn
  <2> QED
    BY <2>4, <2>5, <2>6, <2>7
<1>3. ListsInv'
  BY <1>2, Names, TasksAssumption DEF SchedInv, KernelInv, ListsInv
<1>4. TypesInv' /\ TicksInv'
  BY <1>1 DEF SchedInv, KernelInv, TypesInv, TicksInv, clock, dispatch
<1>5. Calm
  <2>1. \A m \in Sleeping : m \in ListNames
    BY Names DEF Sleeping
  <2> QED
    BY <1>1, <1>2, <2>1 DEF Calm, clock
<1>6. CallsInv'
  <2>1. CASE pc' = pc
    BY <1>1, <1>5, <2>1, GoesOnKeeps DEF dispatch
  <2>2. CASE pc' = [pc EXCEPT ![t] = "yield"] /\ uxSchedulerSuspended = 0
    BY <1>1, <2>2 DEF SchedInv, KernelInv, CallsInv, TypesInv,
                    SleepersStop, dispatch
  <2> QED
    BY <1>1, <2>1, <2>2
<1>7. \A v \in Task \ {u} : WokenWhenDue(v)
  BY <1>2, StaysAsleep DEF SchedInv, KernelInv, ListsInv
<1>8. \/ \E p \in Priorities : VTaskPrioritySet(t, u, p)
      \/ WokenWhenDue(u)
  <2>1. CASE u = current
    BY <1>1, <2>1 DEF WokenWhenDue, SchedInv, KernelInv, CallsInv, SleepersStop
  <2>2. CASE Off
    BY <2>2, Names DEF WokenWhenDue, In
  <2> QED
    BY <1>2, <2>1, <2>2
<1> QED
  BY <1>3, <1>4, <1>5, <1>6, <1>7, <1>8 DEF SchedInv, KernelInv

LEMMA ResumeKeeps ==
  ASSUME SchedInv, NEW t \in Task, NEW u \in Task, VTaskResume(t, u)
  PROVE  SchedInv' /\ Calm /\ \A v \in Task : WokenWhenDue(v)
<1> DEFINE l == Ready(handlePriority[u])
           rings == InsertEnd(Unlink(ring, u), l, u)
<1>1. /\ current = t /\ pc[t] = "run" /\ u # Idle /\ In(ring, Suspended, u)
      /\ UNCHANGED <<wake, tasks, pc, lastWake, clock, uxSchedulerSuspended,
                     panicked>>
      /\ SwitchContext(rings, uxSchedulerSuspended) \/ NoSwitch(rings)
  BY DEF VTaskResume, Calls, Executes, Alive
<1>2. GoodRings(ring) /\ \A m \in Sleeping : m \in ListNames
  BY Names DEF SchedInv, KernelInv, ListsInv, Sleeping
<1>3. /\ GoodRings(rings)
      /\ \A m \in ListNames : \A v \in Task :
           In(rings, m, v) <=> IF v = u THEN m = l ELSE In(ring, m, v)
      /\ \A m \in Sleeping : SameOrder(rings[m], ring[m])
      /\ l \in ListNames \ Sleeping
  <2>1. l \in ListNames \ Sleeping
    BY Names DEF SchedInv, KernelInv, TypesInv
  <2> DEFINE to == [v \in Task |-> l]
  <2>2. Moved(rings, ring, {u}, to)
    BY <1>2, <2>1, MoveIs
  <2> QED
    BY <2>1, <2>2 DEF Moved
<1> HIDE DEF rings, l
<1>4. In(rings, Ready(0), Idle)
  BY <1>1, <1>3, Names, TasksAssumption DEF SchedInv, KernelInv, ListsInv
<1>5. Switched(rings, uxSchedulerSuspended)
  BY <1>1, <1>3, <1>4, SwitchIs, NoSwitchIs DEF SchedInv, KernelInv, TypesInv
<1>6. \A m \in Sleeping : \A v \in Task : In(ring', m, v) => In(ring, m, v)
  BY <1>2, <1>3, <1>5 DEF Switched
<1>7. ListsInv'
  BY <1>4, <1>5, Names, TasksAssumption DEF ListsInv, Switched
<1>8. TypesInv' /\ TicksInv'
  BY <1>1, <1>5 DEF SchedInv, KernelInv, TypesInv, TicksInv, Switched, clock, tasks
<1>9. Calm
  BY <1>1, <1>3, <1>5, <1>6 DEF Calm, Switched, clock
<1>10. CallsInv'
  <2>1. CASE current' = current
    BY <1>1, <1>9, <2>1, GoesOnKeeps
  <2>2. CASE /\ uxSchedulerSuspended = 0
             /\ \E p \in Priorities : In(rings, Ready(p), current')
    <3>1. ~In(ring', Delayed, current') /\ ~In(ring', Overflow, current')
      BY <1>5, <2>2, Names, AwakeIs DEF Switched
    <3>2. \A v \in Task : pc[v] # "resumeAll"
      BY <1>1 DEF SchedInv, KernelInv, CallsInv
    <3> QED
      BY <1>1, <2>2, <3>1, <3>2 DEF SchedInv, CallsInv, SleepersStop, Asleep
  <2> QED
    BY <1>5, <2>1, <2>2 DEF Switched
<1>11. ASSUME NEW v \in Task PROVE WokenWhenDue(v)
  <2>1. CASE v = u
    <3>1. ~Asleep(u)
      BY <1>1, <1>2, Names, AwakeIs DEF Asleep
    <3> QED
      BY <2>1, <3>1 DEF WokenWhenDue
  <2>2. CASE v # u
    BY <1>2, <1>3, <1>5, <2>2, StaysAsleep DEF Switched
  <2> QED
    BY <2>1, <2>2
<1> QED
  BY <1>7, <1>8, <1>9, <1>10, <1>11 DEF SchedInv, KernelInv
-----------------------------------------------------------------------------
(* The running task goes to sleep in list l until a time.                  *)
SleepsUntil(time, l) ==
  /\ GoodRings(ring')
  /\ \A m \in ListNames : \A v \in Task :
       In(ring', m, v) <=> IF v = current THEN m = l ELSE In(ring, m, v)
  /\ wake' = [wake EXCEPT ![current] = time]
  /\ \A m \in Sleeping : 
       time # PORT_MAX_DELAY /\ SortedBy(ring[m], Keys(m, wake))
         => SortedBy(ring'[m], Keys(m, wake'))
  /\ l = IF time > xTickCount THEN Delayed ELSE Overflow
  /\ xNextTaskUnblockTime' =
       IF time > xTickCount /\ time < xNextTaskUnblockTime
       THEN time ELSE xNextTaskUnblockTime

LEMMA AddIs ==
  ASSUME KernelInv, NEW ticks \in Nat, AddCurrentToDelayed(ticks)
  PROVE  \E time \in 0 .. PORT_MAX_DELAY : \E l \in Sleeping :
           /\ time = (ticks + xTickCount) % (PORT_MAX_DELAY + 1)
           /\ SleepsUntil(time, l)
<1> DEFINE time == (ticks + xTickCount) % (PORT_MAX_DELAY + 1)
           values == [wake EXCEPT ![current] = time]
           rings == Unlink(ring, current)
           l == IF time > xTickCount THEN Delayed ELSE Overflow
<1>1. time \in 0 .. PORT_MAX_DELAY /\ l \in Sleeping
  <2>1. ticks + xTickCount \in Nat /\ PORT_MAX_DELAY \in Nat
    BY TasksAssumption DEF KernelInv, TicksInv
  <2> QED
    BY <2>1 DEF Sleeping
<1>2. /\ wake' = values /\ ring' = Insert(rings, l, current, values)
      /\ xNextTaskUnblockTime' =
           IF time > xTickCount /\ time < xNextTaskUnblockTime
           THEN time ELSE xNextTaskUnblockTime
  BY DEF AddCurrentToDelayed
<1>3. /\ GoodRings(rings) /\ Homeless(rings, current)
      /\ \A m \in ListNames : \A u \in Task :
           In(rings, m, u) <=> u # current /\ In(ring, m, u)
      /\ \A m \in ListNames : SameOrder(rings[m], ring[m])
  BY UnlinkIs DEF KernelInv, ListsInv, TypesInv
<1> HIDE DEF time, rings, l
<1>4. /\ values \in [Task -> 0 .. PORT_MAX_DELAY] /\ values[current] = time
      /\ current \in Task
  BY <1>1 DEF KernelInv, TypesInv
<1>5. /\ GoodRings(ring')
      /\ \A m \in ListNames : \A u \in Task :
           In(ring', m, u) <=> In(rings, m, u) \/ (m = l /\ u = current)
      /\ \A m \in ListNames \ {l} : ring'[m] = rings[m]
      /\ time # PORT_MAX_DELAY /\ SortedBy(rings[l], Keys(l, values))
           => SortedBy(ring'[l], Keys(l, values))
  <2> HIDE DEF values
  <2> QED
    BY <1>1, <1>2, <1>3, <1>4, InsertIs
<1>6. ASSUME NEW m \in Sleeping, SortedBy(ring[m], Keys(m, wake))
      PROVE  SortedBy(rings[m], Keys(m, values))
  <2>1. m \in ListNames /\ m \notin Task
    BY Names DEF Sleeping
  <2>2. SortedBy(rings[m], Keys(m, wake))
    BY <1>3, <1>6, <2>1, OrderKeepsSorted
  <2>3. ASSUME NEW i \in 1 .. Len(rings[m])
        PROVE  Keys(m, wake)[rings[m][i]] = Keys(m, values)[rings[m][i]]
    <3>1. rings[m][i] \in Task \cup {m}
      BY <1>3, <2>1, RingTypes DEF GoodRings
    <3>2. rings[m][i] # current
      BY <1>3, <1>4, <2>1 DEF Homeless, In, Contains
    <3> QED
      BY <1>4, <3>1, <3>2 DEF Keys, KernelInv, TypesInv
  <2> QED
    BY <2>2, <2>3 DEF SortedBy
<1>7. SleepsUntil(time, l)
  <2>1. \A m \in Sleeping : m \in ListNames
    BY Names DEF Sleeping
  <2>2. ASSUME NEW m \in Sleeping, time # PORT_MAX_DELAY,
               SortedBy(ring[m], Keys(m, wake))
        PROVE  SortedBy(ring'[m], Keys(m, wake'))
    <3>1. CASE m = l
      BY <1>2, <1>5, <1>6, <2>2, <3>1
    <3>2. CASE m # l
      BY <1>2, <1>5, <1>6, <2>1, <2>2, <3>2
    <3> QED
      BY <3>1, <3>2
  <2>3. \A m \in ListNames : \A v \in Task :
          In(ring', m, v) <=> IF v = current THEN m = l ELSE In(ring, m, v)
    BY <1>3, <1>5
  <2>4. l = IF time > xTickCount THEN Delayed ELSE Overflow
    BY DEF l
  <2> QED
    BY <1>2, <1>5, <2>2, <2>3, <2>4 DEF SleepsUntil
<1> QED
  BY <1>1, <1>7 DEF time
-----------------------------------------------------------------------------
(* The delayed list in the order of the wakeup times.                      *)
DelayedSorted == SortedBy(ring[Delayed], Keys(Delayed, wake))

TimeInv == DelayedSorted /\ UnblockBound

(* No wakeup time is the largest tick value, which vListInsert puts before *)
(* the last item of a list (see MaxGoesLast in XList).                     *)
NoneAtMax == \A t \in Task : wake[t] # PORT_MAX_DELAY

(* What every step does to the order of the wakeups.                       *)
TimeKept ==
  /\ TimeInv /\ NoneAtMax' => TimeInv'
  /\ 0 \notin Delays /\ TimeInv /\ OnTime => OnTime'

LEMMA CalmKeepsTime ==
  ASSUME Calm PROVE TimeKept
<1>1. Delayed \in Sleeping /\ Overflow \in Sleeping
  BY DEF Sleeping
<1>2. /\ SameOrder(ring'[Delayed], ring[Delayed])
      /\ \A u \in Task : In(ring', Delayed, u) => In(ring, Delayed, u)
      /\ \A u \in Task : In(ring', Overflow, u) => In(ring, Overflow, u)
      /\ wake' = wake /\ xNextTaskUnblockTime' = xNextTaskUnblockTime
      /\ xTickCount' = xTickCount
  BY <1>1 DEF Calm
<1>3. DelayedSorted => DelayedSorted'
  BY <1>2, OrderKeepsSorted DEF DelayedSorted
<1> QED
  BY <1>2, <1>3 DEF TimeKept, TimeInv, UnblockBound, OnTime

LEMMA SleepKeepsTime ==
  ASSUME KernelInv, NEW time \in 0 .. PORT_MAX_DELAY, NEW l \in Sleeping,
         SleepsUntil(time, l), xTickCount' = xTickCount,
         0 \notin Delays => time # xTickCount
  PROVE  TimeKept
<1>1. /\ Delayed \in Sleeping /\ Delayed \in ListNames /\ Overflow \in ListNames
      /\ Delayed # Overflow
  BY Names DEF Sleeping
<1>2. /\ xTickCount \in Nat /\ xNextTaskUnblockTime \in Nat /\ time \in Nat
      /\ current \in Task /\ \A u \in Task : wake[u] \in Nat
      /\ wake'[current] = time
      /\ \A u \in Task : u # current => wake'[u] = wake[u]
  BY TasksAssumption DEF KernelInv, TypesInv, TicksInv, SleepsUntil
<1>3. TimeInv /\ NoneAtMax' => TimeInv'
  <2> SUFFICES ASSUME TimeInv, NoneAtMax' PROVE TimeInv'
    OBVIOUS
  <2>1. time # PORT_MAX_DELAY
    BY <1>2 DEF NoneAtMax
  <2>2. DelayedSorted'
    BY <1>1, <2>1 DEF SleepsUntil, TimeInv, DelayedSorted
  <2>3. ASSUME NEW u \in Task, In(ring', Delayed, u)
        PROVE  xNextTaskUnblockTime' <= wake'[u]
    <3>1. CASE u = current
      <4>1. l = Delayed
        BY <1>1, <2>3, <3>1 DEF SleepsUntil
      <4>2. time > xTickCount
        BY <1>1, <4>1 DEF SleepsUntil
      <4> QED
        BY <1>2, <3>1, <4>2 DEF SleepsUntil
    <3>2. CASE u # current
      <4>1. In(ring, Delayed, u)
        BY <1>1, <2>3, <3>2 DEF SleepsUntil
      <4>2. xNextTaskUnblockTime <= wake[u]
        BY <4>1 DEF TimeInv, UnblockBound
      <4> QED
        BY <1>2, <3>2, <4>2 DEF SleepsUntil
    <3> QED
      BY <3>1, <3>2
  <2> QED
    BY <2>2, <2>3 DEF TimeInv, UnblockBound
<1>4. 0 \notin Delays /\ OnTime => OnTime'
  <2> SUFFICES ASSUME 0 \notin Delays, OnTime, NEW u \in Task
               PROVE  /\ In(ring', Delayed, u) => wake'[u] > xTickCount
                      /\ In(ring', Overflow, u) => wake'[u] < xTickCount
    BY DEF OnTime
  <2>1. CASE u = current
    <3>1. In(ring', Delayed, u) => l = Delayed
      BY <1>1, <2>1 DEF SleepsUntil
    <3>2. In(ring', Overflow, u) => l = Overflow
      BY <1>1, <2>1 DEF SleepsUntil
    <3>3. l = IF time > xTickCount THEN Delayed ELSE Overflow
      BY DEF SleepsUntil
    <3> QED
      BY <1>1, <1>2, <2>1, <3>1, <3>2, <3>3
  <2>2. CASE u # current
    <3>1. /\ In(ring', Delayed, u) => In(ring, Delayed, u)
          /\ In(ring', Overflow, u) => In(ring, Overflow, u)
      BY <1>1, <2>2 DEF SleepsUntil
    <3> QED
      BY <1>2, <2>2, <3>1 DEF OnTime
  <2> QED
    BY <2>1, <2>2
<1> QED
  BY <1>3, <1>4 DEF TimeKept

(* Remainders by the number of tick values.                                *)
LEMMA Remainder ==
  ASSUME NEW M \in Nat
  PROVE  /\ \A a \in 0 .. M : a % (M + 1) = a
         /\ \A a \in M + 1 .. M + M + 1 : a % (M + 1) = a - (M + 1)
         /\ \A a \in Int : -M <= a /\ a < 0 => a % (M + 1) = a + (M + 1)
<1>1. \A a \in 0 .. M : a % (M + 1) = a
  OBVIOUS
<1>2. ASSUME NEW a \in M + 1 .. M + M + 1
      PROVE  a % (M + 1) = a - (M + 1)
  OBVIOUS
<1>3. ASSUME NEW a \in Int, -M <= a, a < 0
      PROVE  a % (M + 1) = a + (M + 1)
  BY <1>3
<1> QED
  BY <1>1, <1>2, <1>3

LEMMA PanicKeeps ==
  ASSUME SchedInv, Panic
  PROVE  SchedInv' /\ Calm /\ \A u \in Task : WokenWhenDue(u)
<1>1. UNCHANGED <<lists, tasks, dispatch, pc, lastWake, clock,
                  uxSchedulerSuspended>> /\ panicked' = TRUE
  BY DEF Panic
<1>2. KernelInv'
  BY <1>1 DEF SchedInv, KernelInv, ListsInv, TypesInv, TicksInv, lists,
              tasks, dispatch,
              clock
<1>3. Calm
  BY <1>1 DEF Calm, SameOrder, lists, clock
<1>4. CallsInv'
  BY <1>1, <1>3, GoesOnKeeps DEF dispatch
<1>5. \A u \in Task : WokenWhenDue(u)
  BY <1>1, StaysAsleep DEF SchedInv, KernelInv, ListsInv, lists
<1> QED
  BY <1>2, <1>3, <1>4, <1>5 DEF SchedInv, KernelInv

(* A task that goes to sleep: the lists and the clock's types.             *)
LEMMA SleepKeepsLists ==
  ASSUME KernelInv, current # Idle, NEW time \in 0 .. PORT_MAX_DELAY,
         NEW l \in Sleeping, SleepsUntil(time, l)
  PROVE  /\ ListsInv' /\ \A u \in Task : WokenWhenDue(u)
         /\ wake' \in [Task -> 0 .. PORT_MAX_DELAY]
         /\ xNextTaskUnblockTime' \in 0 .. PORT_MAX_DELAY
<1>1. /\ current \in Task /\ wake \in [Task -> 0 .. PORT_MAX_DELAY]
      /\ xNextTaskUnblockTime \in 0 .. PORT_MAX_DELAY
  BY DEF KernelInv, TypesInv
<1>2. ListsInv'
  BY Names, TasksAssumption DEF SleepsUntil, KernelInv, ListsInv
<1>3. ASSUME NEW u \in Task PROVE WokenWhenDue(u)
  <2>1. CASE u = current
    <3>1. \A p \in Priorities : ~In(ring', Ready(p), u)
      BY <2>1, Names DEF SleepsUntil
    <3> QED
      BY <3>1 DEF WokenWhenDue, In
  <2>2. CASE u # current
    BY <2>2, StaysAsleep DEF SleepsUntil, KernelInv, ListsInv
  <2> QED
    BY <2>1, <2>2
<1> QED
  BY <1>1, <1>2, <1>3 DEF SleepsUntil

LEMMA DelayKeeps ==
  ASSUME SchedInv, NEW t \in Task, NEW n \in Delays, VTaskDelay(t, n)
  PROVE  SchedInv' /\ TimeKept /\ \A u \in Task : WokenWhenDue(u)
<1>1. CASE Overflows(n + xTickCount)
  BY <1>1, PanicKeeps, CalmKeepsTime DEF VTaskDelay
<1>2. CASE ~Overflows(n + xTickCount)
  <2>1. /\ AddCurrentToDelayed(n)
        /\ current = t /\ pc[t] = "run" /\ t # Idle /\ uxSchedulerSuspended = 0
        /\ pc' = [pc EXCEPT ![t] = "yield"]
        /\ UNCHANGED <<tasks, dispatch, lastWake, xTickCount, xPendedTicks,
                       elapsed, uxSchedulerSuspended, panicked>>
    BY <1>2 DEF VTaskDelay, Calls, Executes, MayBlock
  <2>2. n \in 0 .. PORT_MAX_DELAY
    BY TasksAssumption
  <2>3. PICK time \in 0 .. PORT_MAX_DELAY, l \in Sleeping :
          /\ time = (n + xTickCount) % (PORT_MAX_DELAY + 1)
          /\ SleepsUntil(time, l)
    <3>1. n \in Nat
      BY <2>2
    <3> QED
      BY <2>1, <3>1, AddIs DEF SchedInv
  <2>4. /\ ListsInv' /\ \A u \in Task : WokenWhenDue(u)
        /\ wake' \in [Task -> 0 .. PORT_MAX_DELAY]
        /\ xNextTaskUnblockTime' \in 0 .. PORT_MAX_DELAY
    BY <2>1, <2>3, SleepKeepsLists DEF SchedInv
  <2>5. TypesInv' /\ TicksInv'
    BY <2>1, <2>4 DEF SchedInv, KernelInv, TypesInv, TicksInv, tasks, dispatch
  <2>6. CallsInv'
    BY <2>1 DEF SchedInv, KernelInv, TypesInv, CallsInv, SleepersStop, dispatch
  <2>7. 0 \notin Delays => time # xTickCount
    <3> SUFFICES ASSUME n # 0 PROVE time # xTickCount
      OBVIOUS
    <3>1. /\ PORT_MAX_DELAY \in Nat /\ xTickCount \in 0 .. PORT_MAX_DELAY
          /\ xTickCount < PORT_MAX_DELAY
      BY TasksAssumption DEF SchedInv, KernelInv, TicksInv
    <3> DEFINE M == PORT_MAX_DELAY
               sum == n + xTickCount
    <3>2. \/ sum \in 0 .. M
          \/ sum \in M + 1 .. M + M + 1
      BY <2>2, <3>1
    <3>3. time = sum % (M + 1)
      BY <2>3
    <3> HIDE DEF sum
    <3>4. time = sum \/ time = sum - (M + 1)
      BY <3>1, <3>2, <3>3, Remainder
    <3> QED
      BY <2>2, <3>1, <3>4 DEF sum
  <2>8. TimeKept
    BY <2>1, <2>3, <2>7, SleepKeepsTime DEF SchedInv
  <2> QED
    BY <2>4, <2>5, <2>6, <2>8 DEF SchedInv, KernelInv
<1> QED
  BY <1>1, <1>2

LEMMA DelayUntilKeeps ==
  ASSUME SchedInv, NEW t \in Task, NEW n \in Increments, XTaskDelayUntil(t, n)
  PROVE  SchedInv' /\ TimeKept /\ \A u \in Task : WokenWhenDue(u)
<1> DEFINE M == PORT_MAX_DELAY
           until == lastWake[t] + n
           wraps == until > M
           shouldDelay == IF xTickCount < lastWake[t]
                          THEN wraps /\ until % (M + 1) > xTickCount
                          ELSE wraps \/ until > xTickCount
           newWake == until % (M + 1)
           ticks == (newWake - xTickCount) % (M + 1)
<1>1. /\ M \in Nat /\ n \in 0 .. M /\ lastWake[t] \in 0 .. M
      /\ xTickCount \in 0 .. M /\ until \in Nat /\ newWake \in 0 .. M
      /\ newWake - xTickCount \in Int /\ ticks \in 0 .. M
  <2>1. /\ M \in Nat /\ n \in 0 .. M /\ lastWake[t] \in 0 .. M
        /\ xTickCount \in 0 .. M
    BY TasksAssumption DEF SchedInv, KernelInv, TypesInv, TicksInv
  <2>2. until \in Nat /\ newWake \in 0 .. M
    BY <2>1
  <2> HIDE DEF newWake
  <2>3. newWake - xTickCount \in Int /\ ticks \in 0 .. M
    BY <2>1, <2>2
  <2> QED
    BY <2>1, <2>2, <2>3
<1>2. CASE Overflows(until)
  BY <1>2, PanicKeeps, CalmKeepsTime DEF XTaskDelayUntil
<1>3. CASE ~Overflows(until)
  <2>1. /\ current = t /\ pc[t] = "run" /\ t # Idle /\ uxSchedulerSuspended = 0
        /\ uxSchedulerSuspended' = uxSchedulerSuspended + 1
        /\ lastWake' = [lastWake EXCEPT ![t] = newWake]
        /\ pc' = [pc EXCEPT ![t] = "resumeAll"]
        /\ IF shouldDelay THEN AddCurrentToDelayed(ticks)
                          ELSE UNCHANGED <<lists, xNextTaskUnblockTime>>
        /\ UNCHANGED <<tasks, dispatch, xTickCount, xPendedTicks, elapsed,
                       panicked>>
    BY <1>3 DEF XTaskDelayUntil, Calls, Executes, MayBlock
  <2>2. /\ ListsInv' /\ TimeKept /\ \A u \in Task : WokenWhenDue(u)
        /\ wake' \in [Task -> 0 .. PORT_MAX_DELAY]
        /\ xNextTaskUnblockTime' \in 0 .. PORT_MAX_DELAY
    <3>1. CASE shouldDelay
      <4> HIDE DEF ticks
      <4>1. PICK time \in 0 .. PORT_MAX_DELAY, l \in Sleeping :
              /\ time = (ticks + xTickCount) % (M + 1)
              /\ SleepsUntil(time, l)
        <5>1. ticks \in Nat
          BY <1>1
        <5> QED
          BY <2>1, <3>1, <5>1, AddIs DEF SchedInv
      <4>2. time = newWake
        <5>1. CASE newWake - xTickCount >= 0
          <6>1. newWake - xTickCount \in 0 .. M
            BY <1>1, <5>1
          <6>2. ticks = newWake - xTickCount
            BY <1>1, <6>1, Remainder DEF ticks
          <6>3. ticks + xTickCount = newWake /\ newWake \in 0 .. M
            BY <1>1, <6>2
          <6> QED
            BY <1>1, <4>1, <6>3, Remainder
        <5>2. CASE newWake - xTickCount < 0
          <6>1. -M <= newWake - xTickCount
            BY <1>1
          <6>2. ticks = (newWake - xTickCount) + (M + 1)
            BY <1>1, <5>2, <6>1, Remainder DEF ticks
          <6>3. /\ ticks + xTickCount = newWake + (M + 1)
                /\ ticks + xTickCount \in M + 1 .. M + M + 1
            BY <1>1, <6>2
          <6>4. time = (ticks + xTickCount) - (M + 1)
            BY <1>1, <4>1, <6>3, Remainder
          <6> QED
            BY <1>1, <6>3, <6>4
        <5> QED
          BY <1>1, <5>1, <5>2
      <4>3. newWake # xTickCount
        <5>1. CASE wraps
          <6>1. until \in M + 1 .. M + M + 1
            BY <1>1, <5>1
          <6>2. newWake = until - (M + 1)
            BY <1>1, <6>1, Remainder
          <6> QED
            BY <1>1, <3>1, <5>1, <6>2
        <5>2. CASE ~wraps
          <6>1. until \in 0 .. M
            BY <1>1, <5>2
          <6>2. newWake = until
            BY <1>1, <6>1, Remainder
          <6> QED
            BY <1>1, <3>1, <5>2, <6>2
        <5> QED
          BY <5>1, <5>2
      <4> QED
        BY <2>1, <4>1, <4>2, <4>3, SleepKeepsLists, SleepKeepsTime
           DEF SchedInv
    <3>2. CASE ~shouldDelay
      <4>1. UNCHANGED <<ring, wake, xNextTaskUnblockTime, xTickCount, current>>
        BY <2>1, <3>2 DEF lists, dispatch
      <4>2. Calm
        BY <4>1 DEF Calm, SameOrder
      <4>3. \A u \in Task : WokenWhenDue(u)
        BY <4>1, StaysAsleep DEF SchedInv, KernelInv, ListsInv
      <4> QED
        BY <4>1, <4>2, <4>3, CalmKeepsTime
           DEF SchedInv, KernelInv, ListsInv, TypesInv
    <3> QED
      BY <3>1, <3>2
  <2> HIDE DEF newWake, shouldDelay
  <2>3. TypesInv' /\ TicksInv'
    <3>1. uxSchedulerSuspended' \in 0 .. NestBound + 1
      BY <2>1, TasksAssumption
    <3>2. lastWake' \in [Task -> 0 .. PORT_MAX_DELAY]
      BY <1>1, <2>1 DEF SchedInv, KernelInv, TypesInv
    <3> QED
      BY <2>1, <2>2, <3>1, <3>2
         DEF SchedInv, KernelInv, TypesInv, TicksInv, tasks, dispatch
  <2>4. CallsInv'
    BY <2>1 DEF SchedInv, KernelInv, TypesInv, CallsInv, SleepersStop, dispatch
  <2> QED
    BY <2>2, <2>3, <2>4 DEF SchedInv, KernelInv
<1> QED
  BY <1>2, <1>3
-----------------------------------------------------------------------------
(* The tick: those at the head of the delayed list that are due wake up.   *)
Woken(n) == {Items(Delayed)[i] : i \in 1 .. n}

LEMMA WakeDueIs ==
  ASSUME KernelInv, NEW n \in 0 .. Len(Items(Delayed))
  PROVE  Moved(WakeDue(n), ring, Woken(n), Home) /\ Woken(n) \subseteq Task
<1> DEFINE s == Items(Delayed)
           U == Task \cup {Delayed}
           w == SubSeq(s, 1, n)
<1>1. /\ s \in Seq(U) /\ Len(s) \in Nat
      /\ \A i \in 1 .. Len(s) : s[i] \in Task
  BY ItemsIs DEF KernelInv, ListsInv, Sleeping
<1> HIDE DEF s, U
<1>2. Len(w) = n /\ \A i \in 1 .. n : w[i] = s[i]
  <2>1. 1 \in 1 .. Len(s) + 1 /\ n \in 0 .. Len(s)
    BY <1>1 DEF s
  <2>2. n \in 1 - 1 .. Len(s)
    BY <2>1
  <2> QED
    BY <1>1, <2>1, <2>2, SubSeqProperties
<1> HIDE DEF w
<1>3. n \in Nat /\ \A i \in 1 .. n : i \in 1 .. Len(s)
  BY <1>1 DEF s
<1>4. Moved(AllToReady(ring, w), ring, {w[i] : i \in 1 .. Len(w)}, Home)
  BY <1>1, <1>2, <1>3, AllToReadyIs DEF KernelInv, ListsInv, TypesInv
<1>5. {w[i] : i \in 1 .. Len(w)} = Woken(n)
  BY <1>2 DEF Woken, s
<1>6. WakeDue(n) = AllToReady(ring, w)
  BY DEF WakeDue, w, s
<1>7. Woken(n) \subseteq Task
  BY <1>1, <1>3 DEF Woken, s
<1> QED
  BY <1>4, <1>5, <1>6, <1>7

(* A tick: nobody goes to sleep, and only who is due wakes up.             *)
Ticked ==
  /\ \A l \in Sleeping : \A u \in Task : In(ring', l, u) => In(ring, l, u)
  /\ \A u \in Task : Asleep(u) /\ ~Asleep(u)'
                       => In(ring, Delayed, u) /\ wake[u] <= xTickCount'
  /\ UNCHANGED <<wake, tasks, pc, lastWake, uxSchedulerSuspended, panicked>>
  /\ Dispatched

(* A tick that is not pended.                                              *)
LEMMA CountedTickIs ==
  ASSUME KernelInv, Tick, uxSchedulerSuspended = 0
  PROVE  KernelInv' /\ TimeKept /\ Ticked /\ \A u \in Task : WokenWhenDue(u)
<1> DEFINE tick == xTickCount + 1
           s == Items(Delayed)
           n == IF tick >= xNextTaskUnblockTime THEN DueCount(tick) ELSE 0
           rings == WakeDue(n)
<1>1. /\ elapsed < TickBound /\ elapsed' = elapsed + 1 /\ xTickCount' = tick
      /\ xNextTaskUnblockTime' = IF tick >= xNextTaskUnblockTime
                                 THEN UnblockTimeAfter(n)
                                 ELSE xNextTaskUnblockTime
      /\ TrapEnd(rings) /\ xPendedTicks' = xPendedTicks
      /\ UNCHANGED <<wake, tasks, pc, lastWake, uxSchedulerSuspended, panicked>>
  BY DEF Tick
<1>2. /\ xTickCount \in Nat /\ tick \in Nat /\ xNextTaskUnblockTime \in Nat
      /\ Len(s) \in Nat /\ \A i \in 1 .. Len(s) : s[i] \in Task
      /\ \A u \in Task : wake[u] \in 0 .. PORT_MAX_DELAY
      /\ PORT_MAX_DELAY \in Nat
  BY ItemsIs, TasksAssumption
     DEF KernelInv, ListsInv, TypesInv, TicksInv, Sleeping
<1> HIDE DEF tick
<1>3. /\ n \in 0 .. Len(s)
      /\ \A k \in 1 .. n : wake[s[k]] <= tick
      /\ tick >= xNextTaskUnblockTime /\ n < Len(s) => wake[s[n + 1]] > tick
  <2>1. CASE tick >= xNextTaskUnblockTime
    BY <1>2, <2>1, DueCountIs DEF KernelInv, ListsInv, TypesInv
  <2>2. CASE ~(tick >= xNextTaskUnblockTime)
    BY <1>2, <2>2
  <2> QED
    BY <2>1, <2>2
<1>4. Moved(rings, ring, Woken(n), Home) /\ Woken(n) \subseteq Task
  BY <1>3, WakeDueIs
<1>5. \A u \in Woken(n) : Home[u] \in ListNames \ Sleeping
  BY <1>4, Names DEF Home, KernelInv, TypesInv
<1>6. UnblockTimeAfter(n) \in 0 .. PORT_MAX_DELAY
  <2>1. n # Len(s) => n + 1 \in 1 .. Len(s)
    BY <1>2, <1>3
  <2> QED
    BY <1>2, <2>1 DEF UnblockTimeAfter
<1>7. Idle \notin Woken(n) /\ In(rings, Ready(0), Idle)
  <2>1. ~In(ring, Delayed, Idle)
    BY Names, AwakeIs, TasksAssumption DEF KernelInv, ListsInv
  <2>2. \A u \in Woken(n) : In(ring, Delayed, u)
    <3>1. \A i \in 1 .. n : i \in 1 .. Len(s)
      BY <1>2, <1>3
    <3> QED
      BY <3>1, <1>4, ItemsIs DEF Woken, KernelInv, ListsInv, Sleeping
  <2> QED
    BY <1>4, <2>1, <2>2, Names, TasksAssumption DEF Moved, KernelInv, ListsInv
<1> HIDE DEF n, rings
<1>8. Switched(rings, 0) /\ GoodRings(rings)
  BY <1>1, <1>4, <1>7, SwitchIs, NoSwitchIs
     DEF TrapEnd, KernelInv, TypesInv, Moved
<1>9. \A m \in ListNames : \A u \in Task :
        In(ring', m, u) <=> IF u \in Woken(n) THEN m = Home[u]
                                              ELSE In(ring, m, u)
  BY <1>4, <1>8 DEF Moved, Switched
<1>10. ListsInv'
  BY <1>7, <1>8, Names, TasksAssumption DEF Switched, ListsInv
<1>11. TypesInv'
  BY <1>1, <1>6, <1>8 DEF KernelInv, TypesInv, Switched, tasks
<1>12. TicksInv'
  BY <1>1, TasksAssumption DEF KernelInv, TicksInv, tick
<1>13. \A m \in Sleeping : \A u \in Task :
         In(ring', m, u) => u \notin Woken(n) /\ In(ring, m, u)
  <2>1. \A m \in Sleeping : m \in ListNames
    BY Names DEF Sleeping
  <2> QED
    BY <1>5, <1>9, <2>1
<1>14. Ticked
  <2>1. ASSUME NEW u \in Task, Asleep(u), ~Asleep(u)'
        PROVE  In(ring, Delayed, u) /\ wake[u] <= tick
    <3>1. u \in Woken(n)
      BY <1>9, <2>1, Names DEF Asleep, Sleeping
    <3>2. PICK i \in 1 .. n : u = s[i]
      BY <3>1 DEF Woken
    <3>3. i \in 1 .. Len(s)
      BY <1>2, <1>3
    <3> QED
      BY <1>3, <3>2, <3>3, ItemsIs DEF KernelInv, ListsInv, Sleeping
  <2>2. Dispatched
    BY <1>7, <1>8, SwitchedIs
  <2> QED
    BY <1>1, <1>13, <2>1, <2>2 DEF Ticked
<1>15. ASSUME NEW u \in Task PROVE WokenWhenDue(u)
  <2>1. CASE u \in Woken(n)
    <3>1. wake[u] <= tick
      BY <1>3, <2>1 DEF Woken
    <3> QED
      BY <1>1, <3>1 DEF WokenWhenDue
  <2>2. CASE u \notin Woken(n)
    BY <1>9, <2>2, StaysAsleep DEF KernelInv, ListsInv
  <2> QED
    BY <2>1, <2>2
<1>16. DelayedSorted => DelayedSorted'
  <2>1. SameOrder(ring'[Delayed], ring[Delayed])
    BY <1>4, <1>8 DEF Moved, Switched, Sleeping
  <2> QED
    BY <1>1, <2>1, OrderKeepsSorted DEF DelayedSorted
<1>17. ASSUME DelayedSorted, tick >= xNextTaskUnblockTime,
              NEW u \in Task, In(ring', Delayed, u)
       PROVE  xNextTaskUnblockTime' <= wake[u] /\ wake[u] > tick
  <2>1. PICK j \in 1 .. Len(s) : s[j] = u
    BY <1>13, <1>17, ItemsIs DEF KernelInv, ListsInv, Sleeping
  <2>2. n < j
    <3>1. j \notin 1 .. n
      BY <1>13, <1>17, <2>1 DEF Woken, Sleeping
    <3> QED
      BY <1>2, <1>3, <2>1, <3>1
  <2>3. n + 1 \in 1 .. Len(s) /\ n # Len(s) /\ n < Len(s)
        /\ (n + 1 < j \/ n + 1 = j)
    BY <1>2, <1>3, <2>1, <2>2
  <2>4. wake[s[n + 1]] > tick
    BY <1>3, <1>17, <2>3
  <2>5. wake[s[n + 1]] <= wake[s[j]]
    <3>1. CASE n + 1 = j
      BY <1>2, <2>1, <3>1
    <3>2. CASE n + 1 < j
      <4> DEFINE r == ring[Delayed]
      <4>1. r[n + 1] = s[n + 1] /\ r[j] = s[j] /\ Len(r) = Len(s) + 1
        BY <2>1, <2>3, ItemsIs DEF KernelInv, ListsInv, Sleeping
      <4>2. n + 1 \in 1 .. Len(r) /\ j \in 1 .. Len(r)
        BY <1>2, <2>1, <2>3, <4>1
      <4>3. Keys(Delayed, wake)[r[n + 1]] <= Keys(Delayed, wake)[r[j]]
        BY <1>17, <3>2, <4>2 DEF DelayedSorted, SortedBy
      <4>4. s[n + 1] \in Task /\ s[j] \in Task /\ Delayed \notin Task
        BY <1>2, <2>1, <2>3, Names
      <4> QED
        BY <4>1, <4>3, <4>4 DEF Keys
    <3> QED
      BY <2>3, <3>1, <3>2
  <2>6. xNextTaskUnblockTime' = wake[s[n + 1]]
    BY <1>1, <1>17, <2>3 DEF UnblockTimeAfter
  <2>7. wake[s[n + 1]] \in Nat /\ wake[u] \in Nat
    BY <1>2, <2>3
  <2> QED
    BY <1>2, <2>1, <2>4, <2>5, <2>6, <2>7
<1>18. ASSUME TimeInv PROVE UnblockBound'
  <2> SUFFICES ASSUME NEW u \in Task, In(ring', Delayed, u)
               PROVE  xNextTaskUnblockTime' <= wake[u]
    BY <1>1 DEF UnblockBound
  <2>1. CASE tick >= xNextTaskUnblockTime
    BY <1>17, <1>18, <2>1 DEF TimeInv
  <2>2. CASE ~(tick >= xNextTaskUnblockTime)
    BY <1>1, <1>13, <1>18, <2>2 DEF TimeInv, UnblockBound, Sleeping
  <2> QED
    BY <2>1, <2>2
<1>19. ASSUME TimeInv, OnTime PROVE OnTime'
  <2> SUFFICES ASSUME NEW u \in Task
               PROVE  /\ In(ring', Delayed, u) => wake[u] > tick
                      /\ In(ring', Overflow, u) => wake[u] < tick
    BY <1>1 DEF OnTime
  <2>1. ASSUME In(ring', Overflow, u) PROVE wake[u] < tick
    <3>1. wake[u] < xTickCount
      BY <1>13, <1>19, <2>1 DEF OnTime, Sleeping
    <3> QED
      BY <1>2, <3>1 DEF tick
  <2>2. ASSUME In(ring', Delayed, u) PROVE wake[u] > tick
    <3>1. CASE tick >= xNextTaskUnblockTime
      BY <1>17, <1>19, <2>2, <3>1 DEF TimeInv
    <3>2. CASE ~(tick >= xNextTaskUnblockTime)
      <4>1. xNextTaskUnblockTime <= wake[u]
        BY <1>13, <1>19, <2>2 DEF TimeInv, UnblockBound, Sleeping
      <4> QED
        BY <1>2, <3>2, <4>1
    <3> QED
      BY <3>1, <3>2
  <2> QED
    BY <2>1, <2>2
<1> QED
  BY <1>10, <1>11, <1>12, <1>14, <1>15, <1>16, <1>18, <1>19
     DEF KernelInv, TimeKept, TimeInv

LEMMA PendedTickIs ==
  ASSUME KernelInv, Tick, uxSchedulerSuspended # 0
  PROVE  KernelInv' /\ TimeKept /\ Ticked /\ \A u \in Task : WokenWhenDue(u)
<1>1. /\ elapsed < TickBound /\ elapsed' = elapsed + 1
      /\ xPendedTicks' = xPendedTicks + 1 /\ TrapEnd(ring)
      /\ UNCHANGED <<wake, tasks, pc, lastWake, uxSchedulerSuspended, panicked,
                     xTickCount, xNextTaskUnblockTime>>
  BY DEF Tick
<1>2. Switched(ring, uxSchedulerSuspended)
  BY <1>1, SwitchIs, NoSwitchIs DEF TrapEnd, KernelInv, ListsInv, TypesInv
<1>3. current' = current
  BY <1>2 DEF Switched
<1>4. ListsInv'
  BY <1>2, Names, TasksAssumption DEF Switched, KernelInv, ListsInv
<1>5. TypesInv'
  BY <1>1, <1>2 DEF Switched, KernelInv, TypesInv, tasks
<1>6. TicksInv'
  BY <1>1, TasksAssumption DEF KernelInv, TicksInv
<1>7. Calm
  BY <1>1, <1>2, Names DEF Switched, Calm, SameOrder, Sleeping
<1>8. Ticked
  <2>1. \A u \in Task : Asleep(u)' <=> Asleep(u)
    BY <1>2, Names DEF Switched, Asleep
  <2>2. Dispatched
    BY <1>3 DEF Dispatched
  <2>3. \A l \in Sleeping : \A u \in Task : In(ring', l, u) => In(ring, l, u)
    BY <1>2, Names DEF Switched, Sleeping
  <2> QED
    BY <1>1, <2>1, <2>2, <2>3 DEF Ticked
<1>9. \A u \in Task : WokenWhenDue(u)
  BY <1>2, StaysAsleep DEF Switched, KernelInv, ListsInv
<1> QED
  BY <1>4, <1>5, <1>6, <1>7, <1>8, <1>9, CalmKeepsTime DEF KernelInv

LEMMA TickKeeps ==
  ASSUME SchedInv, Tick
  PROVE  SchedInv' /\ TimeKept /\ \A u \in Task : WokenWhenDue(u)
<1>1. KernelInv' /\ TimeKept /\ Ticked /\ \A u \in Task : WokenWhenDue(u)
  BY CountedTickIs, PendedTickIs DEF SchedInv
<1>2. CallsInv'
  <2>1. CASE current' = current
    BY <1>1, <2>1 DEF Ticked, SchedInv, KernelInv, TypesInv, CallsInv, SleepersStop,
                      Asleep, Sleeping
  <2>2. CASE uxSchedulerSuspended = 0 /\ ~Asleep(current)'
    BY <1>1, <2>2 DEF Ticked, SchedInv, CallsInv, SleepersStop
  <2> QED
    BY <1>1, <2>1, <2>2 DEF Ticked, Dispatched
<1> QED
  BY <1>1, <1>2 DEF SchedInv

-----------------------------------------------------------------------------
(* Every order of the tasks of a set has each of them, once.               *)
LEMMA OrderIs ==
  ASSUME NEW S, IsFiniteSet(S), NEW s \in SetToSeqs(S)
  PROVE  /\ s \in Seq(S)
         /\ \A i, j \in 1 .. Len(s) : s[i] = s[j] => i = j
         /\ \A x \in S : \E i \in 1 .. Len(s) : s[i] = x
<1> DEFINE n == Cardinality(S)
<1>1. n \in Nat
  BY FS_CardinalityType
<1>2. s \in [1 .. n -> S] /\ \A i, j \in 1 .. n : s[i] = s[j] => i = j
  BY DEF SetToSeqs
<1>3. s \in Seq(S) /\ Len(s) = n
  BY <1>1, <1>2
<1>4. s \in Injection(1 .. n, S)
  BY <1>2 DEF Injection, IsInjective
<1>5. Cardinality(1 .. n) = n
  BY <1>1, FS_Interval
<1>6. s \in Surjection(1 .. n, S)
  BY <1>4, <1>5, FS_Injection
<1> QED
  BY <1>2, <1>3, <1>6 DEF Surjection

LEMMA AppendedRing ==
  ASSUME NEW S, NEW marker, marker \notin S, NEW s \in Seq(S),
         \A i, j \in 1 .. Len(s) : s[i] = s[j] => i = j
  PROVE  /\ IsRing(Append(s, marker), marker, S)
         /\ \A x : Contains(Append(s, marker), x)
              <=> x = marker \/ \E i \in 1 .. Len(s) : s[i] = x
<1> DEFINE r == Append(s, marker)
           U == S \cup {marker}
<1>1. /\ Len(s) \in Nat /\ \A i \in 1 .. Len(s) : s[i] \in S
      /\ s \in Seq(U) /\ marker \in U
  OBVIOUS
<1>2. r \in Seq(U) /\ Len(r) = Len(s) + 1
  <2> HIDE DEF U
  <2> QED
    BY <1>1, AppendProperties
<1>3. /\ r[Len(s) + 1] = marker
      /\ \A i \in 1 .. Len(s) : r[i] = s[i]
  <2> HIDE DEF U
  <2> QED
    BY <1>1, AppendProperties
<1> DEFINE n == Len(s)
<1>4. \A i \in 1 .. Len(r) : i \in 1 .. n \/ i = n + 1
  BY <1>1, <1>2
<1>5. \A i \in 1 .. n + 1 : i \in 1 .. Len(r)
  BY <1>2
<1>6. n + 1 \in 1 .. n + 1 /\ \A i \in 1 .. n : i \in 1 .. n + 1
  BY <1>1
<1> HIDE DEF r, n
<1>7. \A i, j \in 1 .. Len(r) : r[i] = r[j] => i = j
  BY <1>1, <1>3, <1>4 DEF n
<1>8. \A x : Contains(r, x) <=> x = marker \/ \E i \in 1 .. n : s[i] = x
  BY <1>3, <1>4, <1>5, <1>6 DEF Contains, n
<1> QED
  BY <1>2, <1>7, <1>8 DEF IsRing, r, n

LEMMA InitKeeps ==
  ASSUME Init PROVE SchedInv /\ TimeInv /\ OnTime
<1>1. PICK order \in [Priorities -> UNION {SetToSeqs(Created(p)) :
                                            p \in Priorities}] :
        /\ \A p \in Priorities : order[p] \in SetToSeqs(Created(p))
        /\ ring = [l \in ListNames |-> IF l[1] = "ready"
                                       THEN Append(order[l[2]], l)
                                       ELSE EmptyRing(l)]
  BY DEF Init, InitRings
<1>2. /\ \A p \in Priorities : ring[Ready(p)] = Append(order[p], Ready(p))
      /\ \A l \in {Delayed, Overflow, Suspended} : ring[l] = <<l>>
  BY <1>1, Names DEF Ready, Delayed, Overflow, Suspended, EmptyRing
<1>3. ASSUME NEW p \in Priorities
      PROVE  /\ IsRing(ring[Ready(p)], Ready(p), Task)
             /\ \A u \in Task : In(ring, Ready(p), u) <=> InitPriority[u] = p
  <2>1. Created(p) \subseteq Task /\ Ready(p) \notin Task
    BY Names DEF Created
  <2>2. IsFiniteSet(Created(p))
    BY <2>1, TasksAssumption, FS_Subset
  <2>3. /\ order[p] \in Seq(Created(p))
        /\ \A i, j \in 1 .. Len(order[p]) : order[p][i] = order[p][j] => i = j
        /\ \A x \in Created(p) : \E i \in 1 .. Len(order[p]) : order[p][i] = x
    BY <1>1, <2>2, OrderIs
  <2>4. /\ IsRing(ring[Ready(p)], Ready(p), Task)
        /\ \A x : Contains(ring[Ready(p)], x)
             <=> x = Ready(p) \/ \E i \in 1 .. Len(order[p]) : order[p][i] = x
    <3> DEFINE q == order[p]
               l == Ready(p)
    <3>1. /\ l \notin Task /\ q \in Seq(Task)
          /\ \A i, j \in 1 .. Len(q) : q[i] = q[j] => i = j
          /\ ring[l] = Append(q, l)
      <4>1. ASSUME NEW A, NEW B, A \subseteq B, NEW x \in Seq(A)
            PROVE  x \in Seq(B)
        BY <4>1
      <4>2. q \in Seq(Task)
        BY <2>1, <2>3, <4>1
      <4> QED
        BY <1>2, <2>1, <2>3, <4>2
    <3> HIDE DEF q, l
    <3>2. /\ IsRing(Append(q, l), l, Task)
          /\ \A x : Contains(Append(q, l), x)
               <=> x = l \/ \E i \in 1 .. Len(q) : q[i] = x
      BY <3>1, AppendedRing
    <3> QED
      BY <3>1, <3>2 DEF q, l
  <2>5. \A i \in 1 .. Len(order[p]) : order[p][i] \in Created(p)
    BY <2>3
  <2> QED
    BY <2>1, <2>3, <2>4, <2>5 DEF Created, In
<1>4. ASSUME NEW l \in {Delayed, Overflow, Suspended}
      PROVE  /\ IsRing(ring[l], l, Task) /\ MarkerLast(ring[l], l)
             /\ \A u \in Task : ~In(ring, l, u)
  <2>1. /\ ring[l] = <<l>> /\ l \notin Task
    BY <1>2, Names
  <2> HIDE DEF Delayed, Overflow, Suspended
  <2>2. /\ Len(<<l>>) = 1 /\ <<l>> \in Seq(Task \cup {l})
        /\ \A i \in 1 .. 1 : <<l>>[i] = l
    OBVIOUS
  <2> QED
    BY <2>1, <2>2 DEF IsRing, MarkerLast, In, Contains
<1>5. \A l \in ListNames : \/ \E p \in Priorities : l = Ready(p)
                           \/ l \in {Delayed, Overflow, Suspended}
  BY DEF ListNames
<1>6. GoodRings(ring)
  <2>1. ring = [l \in ListNames |-> ring[l]]
    BY <1>1
  <2>2. \A l \in ListNames : IsRing(ring[l], l, Task)
    BY <1>3, <1>4, <1>5
  <2>3. \A l, m \in ListNames : \A u \in Task :
          In(ring, l, u) /\ In(ring, m, u) => l = m
    BY <1>3, <1>4, <1>5
  <2>4. \A l \in Sleeping : MarkerLast(ring[l], l)
    BY <1>4 DEF Sleeping
  <2> QED
    BY <2>1, <2>2, <2>3, <2>4 DEF GoodRings
<1>7. ListsInv
  BY <1>3, <1>6, TasksAssumption DEF ListsInv
<1>8. TypesInv /\ TicksInv
  <2>1. /\ 0 \in 0 .. PORT_MAX_DELAY /\ PORT_MAX_DELAY \in 0 .. PORT_MAX_DELAY
        /\ 0 \in 0 .. NestBound + 1 /\ 0 \in 0 .. TickBound
    BY TasksAssumption
  <2>2. TypesInv
    BY <2>1, TasksAssumption DEF Init, TypesInv
  <2>3. TicksInv
    BY <2>1 DEF Init, TicksInv
  <2> QED
    BY <2>2, <2>3
<1>9. CallsInv
  BY <1>3, <1>4, TasksAssumption DEF Init, CallsInv, SleepersStop, Asleep
<1>10. TimeInv /\ OnTime
  <2>1. Len(ring[Delayed]) = 1
    <3>1. ring[Delayed] = <<Delayed>>
      BY <1>2
    <3> HIDE DEF Delayed
    <3> QED
      BY <3>1
  <2>2. DelayedSorted
    BY <2>1 DEF DelayedSorted, SortedBy
  <2> QED
    BY <1>4, <2>2 DEF TimeInv, UnblockBound, OnTime
<1> QED
  BY <1>7, <1>8, <1>9, <1>10 DEF SchedInv, KernelInv

(* One step of the scheduler.                                              *)
LEMMA NextKeeps ==
  ASSUME SchedInv, [Next]_vars
  PROVE  /\ SchedInv' /\ TimeKept
         /\ \A u \in Task : \/ WokenWhenDue(u)
                            \/ \E p \in Priorities : VTaskPrioritySet(current, u, p)
<1>1. CASE Tick
  BY <1>1, TickKeeps
<1>2. ASSUME NEW t \in Task, Yield(t) \/ TaskYield(t)
      PROVE  SchedInv' /\ TimeKept /\ \A u \in Task : WokenWhenDue(u)
  BY <1>2, YieldKeeps, CalmKeepsTime
<1>3. ASSUME NEW t \in Task,
             VTaskSuspendAll(t) \/ VTaskResumeAll(t) \/ DelayUntilResume(t)
      PROVE  SchedInv' /\ TimeKept /\ \A u \in Task : WokenWhenDue(u)
  BY <1>3, SuspendingKeeps, CalmKeepsTime
<1>4. ASSUME NEW t \in Task, NEW u \in Task, VTaskResume(t, u)
      PROVE  SchedInv' /\ TimeKept /\ \A v \in Task : WokenWhenDue(v)
  BY <1>4, ResumeKeeps, CalmKeepsTime
<1>5. ASSUME NEW t \in Task, NEW u \in Task,
             \/ VTaskSuspend(t, u) \/ VTaskDelete(t, u)
             \/ \E p \in Priorities : VTaskPrioritySet(t, u, p)
             \/ \E p \in Priorities : u = t /\ VTaskPrioritySetOwn(t, p)
             \/ u = t /\ VTaskDeleteOwn(t)
      PROVE  /\ SchedInv' /\ TimeKept
             /\ \A v \in Task :
                  \/ WokenWhenDue(v)
                  \/ \E p \in Priorities : VTaskPrioritySet(current, v, p)
  <2>1. u \in Task \ {Idle}
    BY <1>5 DEF VTaskSuspend, VTaskDelete, VTaskPrioritySet, VTaskPrioritySetOwn,
                VTaskDeleteOwn, Alive
  <2>2. \A p \in Priorities : VTaskPrioritySet(t, u, p) => t = current
    BY DEF VTaskPrioritySet, Calls, Executes
  <2>3. /\ SchedInv' /\ Calm
        /\ \A v \in Task \ {u} : WokenWhenDue(v)
        /\ \/ \E p \in Priorities : VTaskPrioritySet(t, u, p)
           \/ WokenWhenDue(u)
    BY <1>5, <2>1, HandleKeeps
  <2> QED
    BY <2>2, <2>3, CalmKeepsTime
<1>6. ASSUME UNCHANGED vars
      PROVE  SchedInv' /\ TimeKept /\ \A u \in Task : WokenWhenDue(u)
  <2>1. UNCHANGED <<ring, wake, uxPriority, handlePriority, current, pc, lastWake,
                    xTickCount, xNextTaskUnblockTime, uxSchedulerSuspended,
                    xPendedTicks, xYieldPending, panicked, elapsed>>
    BY <1>6 DEF vars, lists, tasks, clock
  <2>2. Calm
    BY <2>1 DEF Calm, SameOrder
  <2>3. ListsInv' /\ TypesInv' /\ TicksInv'
    BY <2>1 DEF SchedInv, KernelInv, ListsInv, TypesInv, TicksInv
  <2>4. CallsInv'
    BY <2>1, <2>2, GoesOnKeeps
  <2>5. \A u \in Task : WokenWhenDue(u)
    BY <2>1, StaysAsleep DEF SchedInv, KernelInv, ListsInv
  <2> QED
    BY <2>2, <2>3, <2>4, <2>5, CalmKeepsTime DEF SchedInv, KernelInv
<1> QED
  BY <1>1, <1>2, <1>3, <1>4, <1>5, <1>6, DelayKeeps, DelayUntilKeeps DEF Next

LEMMA SchedAlways == Spec => []SchedInv
<1>1. Init => SchedInv
  BY InitKeeps
<1>2. SchedInv /\ [Next]_vars => SchedInv'
  BY NextKeeps
<1> QED
  BY <1>1, <1>2, PTL DEF Spec

LEMMA SchedImplies == SchedInv => TypeOK /\ OneList /\ SleepersStop
<1> SUFFICES ASSUME SchedInv PROVE TypeOK /\ OneList /\ SleepersStop
  OBVIOUS
<1>1. \A l \in ListNames : ring[l] \in Seq(Task \cup {l}) /\ Contains(ring[l], l)
  BY DEF SchedInv, KernelInv, ListsInv, GoodRings, IsRing
<1>2. xTickCount \in 0 .. TickBound /\ xPendedTicks \in 0 .. TickBound
  BY TasksAssumption DEF SchedInv, KernelInv, TicksInv
<1>3. TypeOK
  BY <1>1, <1>2 DEF TypeOK, SchedInv, KernelInv, TypesInv, TicksInv, CallsInv
<1>4. \A l \in ListNames : \A i, j \in DOMAIN ring[l] :
        ring[l][i] = ring[l][j] => i = j
  <2> TAKE l \in ListNames
  <2>1. IsRing(ring[l], l, Task)
    BY DEF SchedInv, KernelInv, ListsInv, GoodRings
  <2>2. DOMAIN ring[l] = 1 .. Len(ring[l])
    BY <1>1
  <2> QED
    BY <2>1, <2>2 DEF IsRing
<1>5. OneList
  BY <1>4 DEF OneList, SchedInv, KernelInv, ListsInv, GoodRings
<1> QED
  BY <1>3, <1>5 DEF SchedInv, KernelInv, CallsInv

(* Every variable keeps its type, and a task's state item is in one list   *)
(* at most, once, after any order of delays, wakeups, suspensions,         *)
(* resumptions, deletions and priority changes (uxListRemove and           *)
(* vListInsert/vListInsertEnd in scheduler.rs and control.rs).             *)
THEOREM OneListAlways == Spec => [](TypeOK /\ OneList)
BY SchedAlways, SchedImplies, PTL

(* A task that delays itself makes no call before it is woken: neither a   *)
(* tick nor a suspended scheduler takes the yield at the end of vTaskDelay *)
(* and xTaskDelayUntil away.                                               *)
THEOREM SleepersAlwaysStop == Spec => []SleepersStop
BY SchedAlways, SchedImplies, PTL

(* Only xTaskIncrementTick, when it is due, and vTaskPrioritySet through a *)
(* handle take a task from a delayed list to a ready one.                  *)
THEOREM NeverWokenEarly == Spec => NoEarlyWakeButByPriority
<1>1. SchedInv /\ [Next]_vars
        => \A t \in Task : \/ WokenWhenDue(t)
                           \/ \E p \in Priorities : VTaskPrioritySet(current, t, p)
  BY NextKeeps
<1> QED
  BY <1>1, SchedAlways, PTL DEF Spec, NoEarlyWakeButByPriority

(* As long as no wakeup time is the largest tick value, the cached         *)
(* xNextTaskUnblockTime is never later than the first wakeup, whatever     *)
(* suspensions, deletions and priority changes do to the delayed list.     *)
THEOREM UnblockTimeNeverLate == Spec /\ []NoneAtMax => []TasksInv
<1>1. Init => SchedInv /\ TimeInv
  BY InitKeeps
<1>2. SchedInv /\ TimeInv /\ NoneAtMax' /\ [Next]_vars => SchedInv' /\ TimeInv'
  BY NextKeeps DEF TimeKept
<1>3. SchedInv /\ TimeInv => TasksInv
  BY SchedImplies DEF TasksInv, TimeInv
<1> QED
  BY <1>1, <1>2, <1>3, PTL DEF Spec

(* Under the same condition, and when nobody delays itself by zero ticks,  *)
(* no task that is due is left in a delayed list by xTaskIncrementTick.    *)
THEOREM NobodyOversleeps ==
  ASSUME 0 \notin Delays PROVE Spec /\ []NoneAtMax => []OnTime
<1>1. Init => SchedInv /\ TimeInv /\ OnTime
  BY InitKeeps
<1>2. SchedInv /\ TimeInv /\ OnTime /\ NoneAtMax' /\ [Next]_vars
        => SchedInv' /\ TimeInv' /\ OnTime'
  BY NextKeeps DEF TimeKept
<1> QED
  BY <1>1, <1>2, PTL DEF Spec

(* Delays that end before the largest tick value.                          *)
ShortDelays ==
  /\ "xTaskDelayUntil" \notin Api
  /\ \A d \in Delays : d + TickBound < PORT_MAX_DELAY

(* The condition is met by every application that only calls vTaskDelay,   *)
(* for times that end before the tick count wraps.                         *)
LEMMA ShortDelaysEndInTime ==
  ASSUME ShortDelays PROVE Spec => []NoneAtMax
<1>1. Init => NoneAtMax
  BY TasksAssumption DEF Init, NoneAtMax
<1>2. ASSUME SchedInv, NoneAtMax, [Next]_vars PROVE NoneAtMax'
  <2>1. CASE wake' = wake
    BY <1>2, <2>1 DEF NoneAtMax
  <2>2. ASSUME NEW t \in Task, NEW n \in Delays, VTaskDelay(t, n),
               AddCurrentToDelayed(n)
        PROVE  NoneAtMax'
    <3> DEFINE M == PORT_MAX_DELAY
    <3>1. /\ n + xTickCount \in 0 .. M /\ n + xTickCount # M /\ M \in Nat
          /\ n \in Nat
      BY <1>2, TasksAssumption DEF ShortDelays, SchedInv, KernelInv, TicksInv
    <3>2. PICK time \in 0 .. M, l \in Sleeping :
            time = (n + xTickCount) % (M + 1) /\ SleepsUntil(time, l)
      BY <1>2, <2>2, <3>1, AddIs DEF SchedInv
    <3>3. time # M
      BY <3>1, <3>2, Remainder
    <3> QED
      BY <1>2, <3>2, <3>3 DEF SleepsUntil, NoneAtMax, SchedInv, KernelInv, TypesInv
  <2>3. \/ wake' = wake
        \/ \E t \in Task : \E n \in Delays :
             VTaskDelay(t, n) /\ AddCurrentToDelayed(n)
    <3>1. CASE Tick
      BY <3>1 DEF Tick
    <3>2. ASSUME NEW t \in Task, NEW n \in Delays, VTaskDelay(t, n)
          PROVE  wake' = wake \/ AddCurrentToDelayed(n)
      BY <3>2 DEF VTaskDelay, Panic, lists
    <3>3. \A t \in Task : \A n \in Increments : ~XTaskDelayUntil(t, n)
      BY DEF XTaskDelayUntil, Calls, ShortDelays
    <3>4. ASSUME NEW t \in Task,
                 \/ Yield(t) \/ TaskYield(t) \/ DelayUntilResume(t)
                 \/ VTaskSuspendAll(t) \/ VTaskResumeAll(t) \/ VTaskDeleteOwn(t)
                 \/ \E p \in Priorities : VTaskPrioritySetOwn(t, p)
          PROVE  wake' = wake
      BY <3>4 DEF Yield, TaskYield, DelayUntilResume, VTaskSuspendAll,
                  VTaskResumeAll, VTaskDeleteOwn, VTaskPrioritySetOwn, lists
    <3>5. ASSUME NEW t \in Task, NEW u \in Task,
                 \/ VTaskSuspend(t, u) \/ VTaskResume(t, u) \/ VTaskDelete(t, u)
                 \/ \E p \in Priorities : VTaskPrioritySet(t, u, p)
          PROVE  wake' = wake
      BY <3>5 DEF VTaskSuspend, VTaskResume, VTaskDelete, VTaskPrioritySet
    <3>6. CASE UNCHANGED vars
      BY <3>6 DEF vars, lists
    <3> QED
      BY <1>2, <3>1, <3>2, <3>3, <3>4, <3>5, <3>6 DEF Next
  <2> QED
    BY <2>1, <2>2, <2>3
<1> QED
  BY <1>1, <1>2, SchedAlways, PTL DEF Spec

(* vTaskDelay alone, for such times and never for zero ticks, wakes every  *)
(* task in time.                                                           *)
THEOREM ShortDelaysNeverLate ==
  ASSUME ShortDelays
  PROVE  Spec => []TasksInv /\ (0 \notin Delays => []OnTime)
<1>1. Spec => []TasksInv
  BY ShortDelaysEndInTime, UnblockTimeNeverLate, PTL
<1>2. CASE 0 \notin Delays
  <2>1. Spec => []OnTime
    BY <1>2, ShortDelaysEndInTime, NobodyOversleeps, PTL
  <2> QED
    BY <1>1, <2>1
<1>3. CASE 0 \in Delays
  BY <1>1, <1>3
<1> QED
  BY <1>2, <1>3

-----------------------------------------------------------------------------
(***************************************************************************)
(* The blocking calls of the queue, for any tasks, priorities, length of   *)
(* the queue and interrupts, in three parts.                               *)
(*                                                                         *)
(* The locks (LockInv).                                                    *)
(* A task between its suspending of the scheduler and vTaskResumeAll is    *)
(* the running one and stays it: with the scheduler suspended no switch    *)
(* takes place, and only the running task moves.  That is why the nesting  *)
(* count says whether there is such a task, and why the locks cannot       *)
(* outlive its call.                                                       *)
(*                                                                         *)
(* The wakeups (WaitInv, then StayInv).  Where the two items of a task are *)
(* follows from the label of its call, except in the window in which it    *)
(* has entered the wait list and not yet a delayed one.  A task that waits *)
(* for ever leaves the wait list in no other way than by being woken.      *)
(*                                                                         *)
(* The senders (ServeInv).  A slot that is free while a sender waits is    *)
(* accounted for by a sender woken and not yet at the queue; and a wakeup  *)
(* is never spent on a task that waits no longer, since whoever is in the  *)
(* wait list sleeps.                                                       *)
(***************************************************************************)

(* Between vTaskSuspendAll and vTaskResumeAll of a blocking call.          *)
SuspendedBy(t) == pc[t] \in {"lock", "check", "place", "placing", "unlockTx",
                             "unlockRx", "resume"}

(* Between prvLockQueue and the end of prvUnlockQueue.                     *)
HoldsLocks(t) == pc[t] \in {"check", "place", "placing", "unlockTx", "unlockRx"}

Types ==
  /\ pc \in [Task -> Labels]
  /\ cRxLock \in Int /\ cTxLock \in Int
  /\ uxSchedulerSuspended \in {0, 1}

OneSuspender == \A t \in Task : SuspendedBy(t) => t = current

NestingExact ==
  uxSchedulerSuspended = 1 <=> \E t \in Task : SuspendedBy(t)

(* Each loop of prvUnlockQueue leaves its own lock open; the interrupts    *)
(* count only on a lock that is closed.                                    *)
LocksHeld ==
  /\ cRxLock # UNLOCKED => \E t \in Task : HoldsLocks(t)
  /\ cTxLock # UNLOCKED => \E t \in Task : HoldsLocks(t) /\ pc[t] # "unlockRx"

LockInv == Types /\ OneSuspender /\ NestingExact /\ LocksHeld
-----------------------------------------------------------------------------
LEMMA InitLockInv == IPCInit => LockInv
BY DEF IPCInit, Init, LockInv, Types, Labels, OneSuspender, NestingExact,
       LocksHeld, SuspendedBy, HoldsLocks, UNLOCKED

(* With the scheduler suspended vTaskSwitchContext switches nothing.       *)
LEMMA NoSwitchWhenSuspended ==
  ASSUME NEW rings, NEW s, s # 0, SwitchContext(rings, s) \/ NoSwitch(rings)
  PROVE  current' = current
BY DEF SwitchContext, NoSwitch, dispatch

(* A step that leaves labels, nesting and locks alone.                     *)
LEMMA OutsideKeepsLockInv ==
  ASSUME LockInv,
         pc' = pc, uxSchedulerSuspended' = uxSchedulerSuspended,
         cRxLock' = cRxLock, cTxLock' = cTxLock,
         uxSchedulerSuspended # 0 => current' = current
  PROVE  LockInv'
BY DEF LockInv, Types, OneSuspender, NestingExact, LocksHeld, SuspendedBy,
       HoldsLocks

(* A step of the running task outside its call's suspended part.           *)
LEMMA FreeStepKeepsLockInv ==
  ASSUME LockInv, NEW t \in Task, NEW label \in Labels,
         t = current, ~SuspendedBy(t),
         pc' = [pc EXCEPT ![t] = label],
         label \notin {"lock", "check", "place", "placing", "unlockTx",
                       "unlockRx", "resume"},
         uxSchedulerSuspended' = uxSchedulerSuspended,
         cRxLock' = cRxLock, cTxLock' = cTxLock
  PROVE  LockInv'
<1>1. \A u \in Task : ~SuspendedBy(u)
  BY DEF LockInv, OneSuspender
<1>2. \A u \in Task : ~SuspendedBy(u)'
  BY <1>1 DEF SuspendedBy, LockInv, Types
<1>3. \A u \in Task : ~HoldsLocks(u)
  BY <1>1 DEF SuspendedBy, HoldsLocks
<1> QED
  BY <1>1, <1>2, <1>3
     DEF LockInv, Types, OneSuspender, NestingExact, LocksHeld

(* A step inside it.                                                       *)
LEMMA LockedStepKeepsLockInv ==
  ASSUME LockInv, NEW t \in Task, NEW label \in Labels,
         t = current, current' = current, SuspendedBy(t),
         pc' = [pc EXCEPT ![t] = label],
         label \in {"check", "place", "placing", "unlockTx", "unlockRx",
                    "resume"},
         uxSchedulerSuspended' = uxSchedulerSuspended,
         cRxLock' \in Int, cTxLock' \in Int,
         label = "resume" => cRxLock' = UNLOCKED,
         label \in {"unlockRx", "resume"} => cTxLock' = UNLOCKED
  PROVE  LockInv'
<1>1. Types' /\ pc'[t] = label
  BY DEF LockInv, Types
<1>2. OneSuspender' /\ NestingExact'
  BY <1>1 DEF LockInv, Types, OneSuspender, NestingExact, SuspendedBy
<1>3. LocksHeld'
  BY <1>1 DEF LocksHeld, HoldsLocks
<1> QED
  BY <1>1, <1>2, <1>3 DEF LockInv
-----------------------------------------------------------------------------
(* The steps of a blocking call.                                           *)
LEMMA CallKeepsLockInv ==
  ASSUME LockInv, NEW t \in Task, Step(t)
  PROVE  LockInv'
<1> USE DEF Executes, Goto, Return, ipc, locks, waits
<1>0. CASE Panic /\ UNCHANGED ipc
  BY <1>0, OutsideKeepsLockInv DEF Panic, dispatch
<1>1. CASE /\ Transfer(t) \/ GiveUp(t) \/ LastLook(t) \/ YieldWaiting(t)
           /\ ~(Panic /\ UNCHANGED ipc)
  <2>1. PICK label \in {"run", "attempt"} : pc' = [pc EXCEPT ![t] = label]
    BY <1>1 DEF Transfer, GiveUp, LastLook, YieldWaiting
  <2>2. t = current /\ ~SuspendedBy(t)
    BY <1>1 DEF Transfer, GiveUp, LastLook, YieldWaiting, SuspendedBy
  <2>3. /\ uxSchedulerSuspended' = uxSchedulerSuspended
        /\ cRxLock' = cRxLock /\ cTxLock' = cTxLock
    BY <1>1 DEF Transfer, GiveUp, LastLook, YieldWaiting
  <2> QED
    BY <2>1, <2>2, <2>3, FreeStepKeepsLockInv DEF Labels
<1>2. CASE PrepareToWait(t) \/ PeekSuspend(t)
  <2>1. t = current /\ ~SuspendedBy(t)
    BY <1>2 DEF PrepareToWait, PeekSuspend, SuspendedBy
  <2>2. cRxLock' = cRxLock /\ cTxLock' = cTxLock /\ current' = current
    BY <1>2 DEF PrepareToWait, PeekSuspend, dispatch
  <2>3. \A u \in Task : ~SuspendedBy(u) /\ ~HoldsLocks(u)
    BY <2>1 DEF LockInv, OneSuspender, SuspendedBy, HoldsLocks
  <2>4. uxSchedulerSuspended = 0 /\ cRxLock = UNLOCKED /\ cTxLock = UNLOCKED
    BY <2>3 DEF LockInv, Types, NestingExact, LocksHeld
  <2>5. CASE pc' = [pc EXCEPT ![t] = "suspend"]
             /\ uxSchedulerSuspended' = uxSchedulerSuspended
    BY <2>1, <2>2, <2>5, FreeStepKeepsLockInv DEF Labels
  <2>6. CASE pc' = [pc EXCEPT ![t] = "lock"]
             /\ uxSchedulerSuspended' = uxSchedulerSuspended + 1
    <3>1. Types' /\ SuspendedBy(t)' /\ uxSchedulerSuspended' = 1
      BY <2>2, <2>4, <2>6 DEF LockInv, Types, Labels, SuspendedBy
    <3>2. \A u \in Task : SuspendedBy(u)' => u = t
      BY <2>3, <2>6 DEF SuspendedBy, LockInv, Types
    <3> QED
      BY <2>1, <2>2, <2>4, <3>1, <3>2
         DEF LockInv, OneSuspender, NestingExact, LocksHeld
  <2> QED
    BY <1>2, <2>5, <2>6 DEF PrepareToWait, PeekSuspend
<1>3. CASE /\ LockQueue(t) \/ CheckForTimeOut(t) \/ TakeGuard(t)
              \/ UnlockTx(t) \/ UnlockRx(t)
           /\ ~(Panic /\ UNCHANGED ipc)
  <2>1. t = current /\ current' = current /\ SuspendedBy(t)
    BY <1>3 DEF LockQueue, CheckForTimeOut, TakeGuard, UnlockTx, UnlockRx,
       SuspendedBy, dispatch
  <2>2. uxSchedulerSuspended' = uxSchedulerSuspended
    BY <1>3 DEF LockQueue, CheckForTimeOut, TakeGuard, UnlockTx, UnlockRx
  <2>3. CASE LockQueue(t)
    <3>1. cRxLock' \in Int /\ cTxLock' \in Int
      BY <2>3 DEF LockQueue, Locked, LOCKED_UNMODIFIED, LockInv, Types
    <3>2. pc' = [pc EXCEPT ![t] = "check"]
      BY <2>3 DEF LockQueue
    <3> QED
      BY <2>1, <2>2, <3>1, <3>2, LockedStepKeepsLockInv DEF Labels
  <2>4. CASE CheckForTimeOut(t) \/ TakeGuard(t)
    <3>1. PICK label \in {"place", "placing", "unlockTx"} :
            pc' = [pc EXCEPT ![t] = label]
      BY <2>4 DEF CheckForTimeOut, TakeGuard
    <3>2. cRxLock' = cRxLock /\ cTxLock' = cTxLock
      BY <2>4 DEF CheckForTimeOut, TakeGuard
    <3> QED
      BY <2>1, <2>2, <3>1, <3>2, LockedStepKeepsLockInv
         DEF Labels, LockInv, Types
  <2>5. CASE UnlockTx(t)
    <3>1. cRxLock' \in Int /\ cTxLock' \in Int /\ cTxLock' = UNLOCKED
      BY <1>3, <2>5 DEF UnlockTx, UNLOCKED, LockInv, Types
    <3>2. pc' = [pc EXCEPT ![t] = "unlockRx"]
      BY <1>3, <2>5 DEF UnlockTx
    <3> QED
      BY <2>1, <2>2, <3>1, <3>2, LockedStepKeepsLockInv DEF Labels
  <2>6. CASE UnlockRx(t)
    <3>1. cTxLock = UNLOCKED
      <4>1. \A u \in Task : HoldsLocks(u) => u = t
        BY <2>1 DEF LockInv, OneSuspender, HoldsLocks, SuspendedBy
      <4> QED
        BY <2>6, <4>1 DEF UnlockRx, LockInv, LocksHeld
    <3> QED
      BY <1>3, <2>1, <2>2, <2>6, <3>1, LockedStepKeepsLockInv
         DEF UnlockRx, Labels, LockInv, Types, UNLOCKED
  <2> QED
    BY <1>3, <2>3, <2>4, <2>5, <2>6
<1>4. CASE PlaceOnEventList(t)
  <2>1. t = current /\ SuspendedBy(t)
    BY <1>4 DEF PlaceOnEventList, SuspendedBy
  <2>2. CASE Panic /\ UNCHANGED ipc
    BY <2>2, OutsideKeepsLockInv DEF Panic, dispatch
  <2>3. CASE /\ pc' = [pc EXCEPT ![t] = "unlockTx"]
             /\ UNCHANGED <<dispatch, uxSchedulerSuspended, locks>>
    BY <2>1, <2>3, LockedStepKeepsLockInv DEF dispatch, Labels, LockInv, Types
  <2> QED
    BY <1>4, <2>2, <2>3 DEF PlaceOnEventList
<1>5. CASE Resume(t)
  <2>1. t = current /\ SuspendedBy(t) /\ ~HoldsLocks(t)
    BY <1>5 DEF Resume, SuspendedBy, HoldsLocks
  <2>2. PICK label \in {"yieldWaiting", "attempt", "run", "lastLook"} :
          pc' = [pc EXCEPT ![t] = label]
    BY <1>5 DEF Resume
  <2>3. /\ uxSchedulerSuspended' = uxSchedulerSuspended - 1
        /\ cRxLock' = cRxLock /\ cTxLock' = cTxLock
    BY <1>5 DEF Resume
  <2>4. \A u \in Task : u # t => ~SuspendedBy(u)
    BY <2>1 DEF LockInv, OneSuspender
  <2>5. uxSchedulerSuspended = 1
    BY <2>1 DEF LockInv, Types, NestingExact
  <2>6. cRxLock = UNLOCKED /\ cTxLock = UNLOCKED
    BY <2>1, <2>4 DEF LockInv, LocksHeld, HoldsLocks, SuspendedBy
  <2>7. Types' /\ \A u \in Task : ~SuspendedBy(u)'
    BY <2>2, <2>3, <2>4, <2>5 DEF LockInv, Types, Labels, SuspendedBy
  <2> QED
    BY <2>3, <2>5, <2>6, <2>7
       DEF LockInv, OneSuspender, NestingExact, LocksHeld
<1> QED
  BY <1>0, <1>1, <1>2, <1>3, <1>4, <1>5 DEF Step

(* The start of a call, and the scheduler's own calls.                     *)
LEMMA TaskKeepsLockInv ==
  ASSUME LockInv, NEW t \in Task,
         KernelStep(t) \/ \E which \in Ops : \E n \in Waits[which] : Begin(t, which, n)
  PROVE  LockInv'
<1> USE DEF Executes, Calls, Goto, ipc, locks
<1>1. CASE \E which \in Ops : \E n \in Waits[which] : Begin(t, which, n)
  BY <1>1, FreeStepKeepsLockInv DEF Begin, SuspendedBy, Labels
<1>2. CASE Yield(t) /\ UNCHANGED ipc
  BY <1>2, FreeStepKeepsLockInv DEF Yield, SuspendedBy, Labels
<1>3. CASE TaskYield(t) /\ UNCHANGED ipc
  <2>1. uxSchedulerSuspended # 0 => current' = current
    BY <1>3, NoSwitchWhenSuspended DEF TaskYield
  <2> QED
    BY <1>3, <2>1, OutsideKeepsLockInv DEF TaskYield
<1>4. CASE (\E n \in Delays : VTaskDelay(t, n)) /\ UNCHANGED ipc
  <2>1. CASE Panic /\ UNCHANGED ipc
    BY <2>1, OutsideKeepsLockInv DEF Panic, dispatch
  <2>2. CASE /\ pc[t] = "run" /\ pc' = [pc EXCEPT ![t] = "yield"]
             /\ t = current
             /\ UNCHANGED <<uxSchedulerSuspended, ipc>>
    BY <2>2, FreeStepKeepsLockInv DEF SuspendedBy, Labels
  <2> QED
    BY <1>4, <2>1, <2>2 DEF VTaskDelay
<1> QED
  BY <1>1, <1>2, <1>3, <1>4 DEF KernelStep

(* The tick and the interrupts of the application.                         *)
LEMMA InterruptKeepsLockInv ==
  ASSUME LockInv,
         \/ Tick /\ UNCHANGED ipc
         \/ \E which \in IsrCalls : IsrTransfer(which) \/ IsrSpin(which)
  PROVE  LockInv'
<1>1. CASE Tick /\ UNCHANGED ipc
  <2>1. uxSchedulerSuspended # 0 => current' = current
    BY <1>1, NoSwitchWhenSuspended DEF Tick, TrapEnd
  <2> QED
    BY <1>1, <2>1, OutsideKeepsLockInv DEF Tick, ipc, locks
<1>2. ASSUME NEW which \in IsrCalls, IsrTransfer(which) PROVE LockInv'
  <2>0. CASE Panic /\ UNCHANGED ipc
    BY <2>0, OutsideKeepsLockInv DEF Panic, dispatch, ipc, locks
  <2> SUFFICES ASSUME ~(Panic /\ UNCHANGED ipc) PROVE LockInv'
    BY <2>0
  <2>1. /\ pc' = pc /\ current' = current
        /\ uxSchedulerSuspended' = uxSchedulerSuspended
    BY <1>2 DEF IsrTransfer
  <2>2. /\ cTxLock = UNLOCKED => cTxLock' = UNLOCKED
        /\ cRxLock = UNLOCKED => cRxLock' = UNLOCKED
        /\ cTxLock' \in {cTxLock, cTxLock + 1}
        /\ cRxLock' \in {cRxLock, cRxLock + 1}
    BY <1>2 DEF IsrTransfer, locks
  <2> QED
    BY <2>1, <2>2 DEF LockInv, Types, OneSuspender, NestingExact, LocksHeld,
                      SuspendedBy, HoldsLocks
<1>3. ASSUME NEW which \in IsrCalls, IsrSpin(which) PROVE LockInv'
  BY <1>3, OutsideKeepsLockInv DEF IsrSpin, dispatch, locks
<1> QED
  BY <1>1, <1>2, <1>3

LEMMA StepKeepsLockInv == LockInv /\ [IPCNext]_<<vars, ipc>> => LockInv'
<1> SUFFICES ASSUME LockInv, [IPCNext]_<<vars, ipc>> PROVE LockInv'
  OBVIOUS
<1>1. CASE UNCHANGED <<vars, ipc>>
  BY <1>1, OutsideKeepsLockInv DEF vars, ipc, locks
<1>2. CASE IPCNext
  BY <1>2, CallKeepsLockInv, TaskKeepsLockInv, InterruptKeepsLockInv
     DEF IPCNext
<1> QED
  BY <1>1, <1>2

(* The locks of queue.rs are closed only while the running task is between *)
(* prvLockQueue and prvUnlockQueue of its call with the scheduler          *)
(* suspended: no task and no later interrupt finds a lock left over.       *)
THEOREM LocksAlwaysReleased == IPCSpec => []LocksReleased
<1>1. LockInv => LocksReleased
  BY DEF LockInv, Types, OneSuspender, NestingExact, LocksHeld, LocksReleased,
         HoldsLocks, SuspendedBy
<1> QED
  BY <1>1, InitLockInv, StepKeepsLockInv, PTL DEF IPCSpec

(* A blocking call never leaves the scheduler suspended, and never lowers  *)
(* a nesting it has not raised: the count is one exactly while the running *)
(* task is between its vTaskSuspendAll and its vTaskResumeAll.             *)
THEOREM NestingAlwaysExact == IPCSpec => [](OneSuspender /\ NestingExact)
<1>1. LockInv => OneSuspender /\ NestingExact
  BY DEF LockInv
<1> QED
  BY <1>1, InitLockInv, StepKeepsLockInv, PTL DEF IPCSpec
-----------------------------------------------------------------------------
(* The wait lists and the scheduler's.                                     *)
DataTypes ==
  /\ uxMessagesWaiting \in 0 .. uxLength
  /\ interrupts \in 0 .. IsrBound
  /\ cRxLock \in -1 .. interrupts /\ cTxLock \in -1 .. interrupts
  /\ op \in [Task -> Ops \cup {"none"}]
  /\ xTicksToWait \in [Task -> 0 .. PORT_MAX_DELAY]
  /\ entered \in [Task -> Unset .. PORT_MAX_DELAY]
  /\ outcome \in [Task -> {"none", "expired", "retry", "blocked"}]
  /\ spins \in BOOLEAN
  /\ uxPriority[Idle] = 0

(* As long as no item has been linked twice, a task is in one event list   *)
(* at most, in a wait list once, and the idle task waits in none.  From    *)
(* then on nothing is known of the lists, but that every item has a        *)
(* container or none.                                                      *)
Distinct(queue) ==
  \A i, j \in 1 .. Len(queue) : queue[i] = queue[j] => i = j

TidyLists ==
  /\ \A s \in Sides : Distinct(waiting[s])
  /\ \A u \in Task : WaitsIn("send", u) => ~WaitsIn("receive", u)
  /\ \A u \in Task : Linked(u) => ~Pending(u)
  /\ ~Linked(Idle)

QueuesInv ==
  /\ waiting \in [Sides -> Seq(Task)] /\ pending \in Seq(Task)
  /\ IF Tidy THEN TidyLists ELSE DOMAIN Links.in = Task

(* What is left of a wait is computed from a time that has been.           *)
CallExact(u) ==
  /\ pc[u] \notin {"run", "yield"} => op[u] \in Ops /\ u # Idle
  /\ pc[u] \in {"place", "placing"} => outcome[u] = "blocked"
  /\ entered[u] <= xTickCount

CallsExact == \A u \in Task : CallExact(u)

(* A task that has put itself to sleep comes to its yield before anything  *)
(* else.                                                                   *)
Blocked(u) ==
  pc[u] \in {"unlockTx", "unlockRx", "resume"} /\ outcome[u] = "blocked"

RunnerAwake ==
  Asleep(current) => pc[current] \in {"yield", "yieldWaiting"} \/ Blocked(current)

WaitInv ==
  KernelInv /\ LockInv /\ DataTypes /\ QueuesInv /\ CallsExact /\ RunnerAwake

(* What a step may do to a task's two items: an event wakes it out of its  *)
(* wait list, the time wakes it when it is due, or it sleeps on.  (Once the *)
(* lists are tangled an event may wake a task that is in none.)  It enters *)
(* a wait list only when it places itself there, the list of pending tasks *)
(* only from a wait list, and goes to sleep only then or in a delay.       *)
WokenUp(u) ==
  /\ Linked(u)' /\ ~Linked(u) => u = current /\ pc[u] = "placing"
  /\ Asleep(u)' /\ ~Asleep(u) => u = current /\ pc[u] \in {"run", "placing"}
  /\ Linked(u) /\ ~Linked(u)'
       => ~Asleep(u)' \/ (uxSchedulerSuspended # 0 /\ Pending(u)')
  /\ Tidy /\ Asleep(u)
       => \/ Linked(u) /\ ~Linked(u)' /\ ~Asleep(u)' /\ ~Pending(u)'
          \/ /\ In(ring, Delayed, u) /\ wake[u] <= xTickCount'
             /\ ~Asleep(u)'
          \/ /\ wake'[u] = wake[u]
             /\ In(ring', Delayed, u) <=> In(ring, Delayed, u)
             /\ In(ring', Overflow, u) <=> In(ring, Overflow, u)
  /\ Tidy' /\ Pending(u)' => Pending(u) \/ Linked(u)
-----------------------------------------------------------------------------
LEMMA InitWaitInv == IPCInit => WaitInv
<1> SUFFICES ASSUME IPCInit PROVE WaitInv
  OBVIOUS
<1>1. LockInv
  BY InitLockInv
<1>2. SchedInv
  BY InitKeeps DEF IPCInit
<1>3. DataTypes
  <2>1. PORT_MAX_DELAY \in Nat /\ uxLength \in Nat /\ IsrBound \in Nat
    BY QueueAssumption, TasksAssumption
  <2>2. /\ uxMessagesWaiting \in 0 .. uxLength /\ interrupts \in 0 .. IsrBound
    BY <2>1 DEF IPCInit
  <2>6. spins \in BOOLEAN /\ uxPriority[Idle] = 0
    BY TasksAssumption DEF IPCInit, Init
  <2>3. cRxLock \in -1 .. interrupts /\ cTxLock \in -1 .. interrupts
    BY DEF IPCInit, UNLOCKED
  <2>4. /\ op \in [Task -> Ops \cup {"none"}]
        /\ outcome \in [Task -> {"none", "expired", "retry", "blocked"}]
    BY DEF IPCInit
  <2>5. /\ xTicksToWait \in [Task -> 0 .. PORT_MAX_DELAY]
        /\ entered \in [Task -> Unset .. PORT_MAX_DELAY]
    BY <2>1 DEF IPCInit, Unset
  <2> QED
    BY <2>2, <2>3, <2>4, <2>5, <2>6 DEF DataTypes
<1>4. QueuesInv
  <2>1. Tidy /\ \A s \in Sides : waiting[s] = <<>>
    BY DEF IPCInit, Tidy
  <2>2. TidyLists
    BY <2>1 DEF TidyLists, Distinct, Linked, WaitsIn, Contains, Sides
  <2> QED
    BY <2>1, <2>2 DEF IPCInit, QueuesInv
<1>5. CallsExact
  BY DEF IPCInit, Init, CallsExact, CallExact, Unset
<1>6. RunnerAwake
  BY <1>2 DEF IPCInit, Init, RunnerAwake, SchedInv, CallsInv, SleepersStop,
              KernelInv, TypesInv
<1> QED
  BY <1>1, <1>2, <1>3, <1>4, <1>5, <1>6 DEF WaitInv, SchedInv

(* The event lists are left alone.                                         *)
LEMMA ListsKept ==
  ASSUME UNCHANGED events
  PROVE  /\ Tidy' <=> Tidy
         /\ QueuesInv => QueuesInv'
         /\ \A u \in Task : /\ Linked(u)' <=> Linked(u)
                            /\ Pending(u)' <=> Pending(u)
BY DEF events, Tidy, Links, QueuesInv, TidyLists, Linked, WaitsIn, Pending

(* The kernel's data are left alone.                                       *)
LEMMA QuietIs ==
  ASSUME WaitInv, LockInv', xYieldPending' \in BOOLEAN, panicked' \in BOOLEAN,
         UNCHANGED <<ring, wake, tasks, lastWake, current, clock>>
  PROVE  /\ KernelInv'
         /\ UNCHANGED events => QueuesInv' /\ \A u \in Task : WokenUp(u)
<1>1. /\ ring' = ring /\ wake' = wake /\ current' = current
      /\ uxPriority' = uxPriority /\ handlePriority' = handlePriority
      /\ lastWake' = lastWake /\ xTickCount' = xTickCount
      /\ xNextTaskUnblockTime' = xNextTaskUnblockTime
      /\ xPendedTicks' = xPendedTicks /\ elapsed' = elapsed
  BY DEF tasks, clock
<1>2. uxSchedulerSuspended' \in 0 .. NestBound + 1
  BY TasksAssumption DEF LockInv, Types
<1>3. KernelInv'
  BY <1>1, <1>2 DEF WaitInv, KernelInv, ListsInv, TypesInv, TicksInv
<1>4. ASSUME UNCHANGED events
      PROVE  QueuesInv' /\ \A u \in Task : WokenUp(u)
  <2>1. (Tidy' <=> Tidy) /\ QueuesInv'
        /\ \A u \in Task : (Linked(u)' <=> Linked(u)) /\ (Pending(u)' <=> Pending(u))
    BY <1>4, ListsKept DEF WaitInv
  <2>2. \A u \in Task : Asleep(u)' <=> Asleep(u)
    BY <1>1 DEF Asleep
  <2> QED
    BY <1>1, <2>1, <2>2 DEF WokenUp
<1> QED
  BY <1>3, <1>4

(* The steps of a call that leave the lists alone.                         *)
LEMMA ThinkingKeeps ==
  ASSUME WaitInv, LockInv', NEW t \in Task,
         \/ GiveUp(t) \/ PrepareToWait(t) \/ PeekSuspend(t) \/ LockQueue(t)
         \/ CheckForTimeOut(t) \/ TakeGuard(t) \/ Resume(t) \/ LastLook(t)
         \/ \E which \in Ops : \E n \in Waits[which] : Begin(t, which, n)
  PROVE  WaitInv' /\ \A u \in Task : WokenUp(u)
<1> USE DEF Executes, Goto, Return, ipc, waits, events, locks, kernel
<1>1. /\ t = current /\ uxMessagesWaiting' = uxMessagesWaiting
      /\ UNCHANGED <<ring, kernel, dispatch, clock, panicked, events, spins,
                     interrupts>>
  BY DEF GiveUp, PrepareToWait, PeekSuspend, LockQueue, CheckForTimeOut,
         TakeGuard, Resume, LastLook, Begin
<1>2. KernelInv' /\ QueuesInv' /\ \A u \in Task : WokenUp(u)
  BY <1>1, QuietIs DEF WaitInv, KernelInv, TypesInv, dispatch
<1>3. /\ DataTypes /\ CallExact(t) /\ t \in Task
      /\ xTickCount' = xTickCount /\ xTickCount \in 0 .. PORT_MAX_DELAY
      /\ PORT_MAX_DELAY \in Nat /\ pc \in [Task -> Labels]
  BY <1>1, TasksAssumption
     DEF WaitInv, CallsExact, KernelInv, TicksInv, clock, LockInv, Types
<1>4. /\ cRxLock' \in -1 .. interrupts' /\ cTxLock' \in -1 .. interrupts'
      /\ interrupts' \in 0 .. IsrBound
  <2>1. CASE LockQueue(t)
    BY <1>1, <1>3, <2>1
       DEF LockQueue, Locked, DataTypes, UNLOCKED, LOCKED_UNMODIFIED
  <2>2. CASE UNCHANGED locks
    BY <1>1, <1>3, <2>2 DEF DataTypes
  <2> QED
    BY <2>1, <2>2 DEF GiveUp, PrepareToWait, PeekSuspend, CheckForTimeOut,
       TakeGuard, Resume, LastLook, Begin
<1>5. /\ op' \in [Task -> Ops \cup {"none"}]
      /\ xTicksToWait' \in [Task -> 0 .. PORT_MAX_DELAY]
      /\ entered' \in [Task -> Unset .. PORT_MAX_DELAY]
      /\ outcome' \in [Task -> {"none", "expired", "retry", "blocked"}]
  <2>1. CASE PrepareToWait(t)
    BY <1>1, <1>3, <2>1 DEF PrepareToWait, DataTypes, Unset
  <2>2. CASE CheckForTimeOut(t)
    <3>1. xTickCount - entered[t] \in Nat /\ xTicksToWait[t] \in 0 .. PORT_MAX_DELAY
      BY <1>3 DEF CallExact, DataTypes, Unset
    <3>2. xTicksToWait' \in [Task -> 0 .. PORT_MAX_DELAY]
      BY <1>3, <2>2, <3>1 DEF CheckForTimeOut, DataTypes
    <3> QED
      BY <1>3, <2>2, <3>2 DEF CheckForTimeOut, DataTypes
  <2>3. CASE \E which \in Ops : \E n \in Waits[which] : Begin(t, which, n)
    <3>1. \A which \in Ops : Waits[which] \subseteq 0 .. PORT_MAX_DELAY
      BY QueueAssumption DEF Ops
    <3> QED
      BY <1>3, <2>3, <3>1 DEF Begin, DataTypes, Unset
  <2>4. CASE GiveUp(t) \/ Resume(t) \/ LastLook(t)
    BY <1>3, <2>4 DEF GiveUp, Resume, LastLook, DataTypes
  <2>5. CASE PeekSuspend(t) \/ LockQueue(t) \/ TakeGuard(t)
    BY <1>3, <2>5 DEF PeekSuspend, LockQueue, TakeGuard, DataTypes
  <2> QED
    BY <2>1, <2>2, <2>3, <2>4, <2>5
<1>6. DataTypes'
  BY <1>1, <1>3, <1>4, <1>5 DEF DataTypes, tasks
<1>7. \A u \in Task : u # t => CallExact(u)' /\ pc'[u] = pc[u]
  <2> SUFFICES ASSUME NEW u \in Task, u # t
               PROVE  CallExact(u)' /\ pc'[u] = pc[u]
    OBVIOUS
  <2>1. /\ pc'[u] = pc[u] /\ op'[u] = op[u] /\ outcome'[u] = outcome[u]
        /\ entered'[u] = entered[u]
    BY <1>3 DEF GiveUp, PrepareToWait, PeekSuspend, LockQueue, CheckForTimeOut,
       TakeGuard, Resume, LastLook, Begin, DataTypes
  <2> QED
    BY <1>3, <2>1 DEF WaitInv, CallsExact, CallExact
<1>8. CallExact(t)'
  <2>1. CASE \E which \in Ops : \E n \in Waits[which] : Begin(t, which, n)
    BY <1>3, <2>1 DEF Begin, MayBlock, CallExact, DataTypes, Unset
  <2>2. CASE PrepareToWait(t)
    BY <1>3, <2>2 DEF PrepareToWait, CallExact, DataTypes, Unset
  <2>3. CASE CheckForTimeOut(t)
    BY <1>3, <2>3 DEF CheckForTimeOut, CallExact, DataTypes
  <2>4. CASE GiveUp(t) \/ Resume(t) \/ LastLook(t)
    BY <1>3, <2>4 DEF GiveUp, Resume, LastLook, CallExact, DataTypes
  <2>5. CASE PeekSuspend(t) \/ LockQueue(t) \/ TakeGuard(t)
    BY <1>3, <2>5 DEF PeekSuspend, LockQueue, TakeGuard, CallExact, DataTypes
  <2> QED
    BY <2>1, <2>2, <2>3, <2>4, <2>5
<1>9. RunnerAwake'
  <2> SUFFICES ASSUME Asleep(current)'
               PROVE  pc'[t] = "yieldWaiting"
    BY <1>1 DEF RunnerAwake, dispatch
  <2>1. pc[t] \in {"yield", "yieldWaiting"} \/ Blocked(t)
    BY <1>1 DEF Asleep, dispatch, WaitInv, RunnerAwake
  <2>2. Resume(t) /\ outcome[t] = "blocked"
    BY <2>1 DEF GiveUp, PrepareToWait, PeekSuspend, LockQueue, CheckForTimeOut,
       TakeGuard, Resume, LastLook, Begin, Blocked
  <2> QED
    BY <1>3, <2>2 DEF Resume
<1> QED
  BY <1>2, <1>6, <1>7, <1>8, <1>9 DEF WaitInv, CallsExact

(* A step that is none of the queue's.                                     *)
LEMMA OutsideIs ==
  ASSUME WaitInv, UNCHANGED ipc, uxPriority' = uxPriority,
         xTickCount' \in Nat, xTickCount <= xTickCount',
         \A u \in Task : \/ pc'[u] = pc[u] \/ pc'[u] \in {"run", "yield"}
                         \/ pc[u] = "yieldWaiting" /\ pc'[u] = "attempt"
  PROVE  DataTypes' /\ QueuesInv' /\ CallsExact'
<1>1. DataTypes' /\ QueuesInv'
  BY ListsKept DEF WaitInv, DataTypes, ipc, locks, waits
<1>2. ASSUME NEW u \in Task PROVE CallExact(u)'
  <2>1. /\ CallExact(u) /\ op'[u] = op[u] /\ entered'[u] = entered[u]
        /\ outcome'[u] = outcome[u]
    BY DEF WaitInv, CallsExact, ipc, waits
  <2>2. entered[u] \in Int /\ xTickCount \in Nat
    BY DEF WaitInv, DataTypes, Unset, KernelInv, TicksInv
  <2> QED
    BY <2>1, <2>2 DEF CallExact
<1> QED
  BY <1>1, <1>2 DEF CallsExact

(* The scheduler is not suspended while the running task is outside.       *)
LEMMA NotSuspended ==
  ASSUME LockInv, ~SuspendedBy(current)
  PROVE  uxSchedulerSuspended = 0
BY DEF LockInv, Types, OneSuspender, NestingExact

LEMMA SwitchKeeps ==
  ASSUME WaitInv, LockInv', NEW t \in Task, UNCHANGED ipc,
         Yield(t) \/ TaskYield(t) \/ YieldWaiting(t)
  PROVE  WaitInv' /\ \A u \in Task : WokenUp(u)
<1> USE DEF Executes, Goto, Calls, kernel
<1>1. /\ t = current /\ pc[t] \in {"run", "yield", "yieldWaiting"}
      /\ SwitchContext(ring, uxSchedulerSuspended)
      /\ UNCHANGED <<wake, tasks, lastWake, clock, uxSchedulerSuspended,
                     panicked>>
      /\ pc' = [pc EXCEPT ![t] = IF @ = "yieldWaiting" THEN "attempt" ELSE "run"]
  BY DEF Yield, TaskYield, YieldWaiting, WaitInv, LockInv, Types
<1>2. uxSchedulerSuspended = 0
  BY <1>1, NotSuspended DEF WaitInv, SuspendedBy
<1>3. /\ KernelInv' /\ ~Asleep(current)'
      /\ \A l \in ListNames : \A u \in Task : In(ring', l, u) <=> In(ring, l, u)
  BY <1>1, <1>2, SwitchingIs DEF WaitInv
<1>4. DataTypes' /\ QueuesInv' /\ CallsExact'
  <2>1. /\ xTickCount' = xTickCount /\ xTickCount \in Nat
        /\ uxPriority' = uxPriority
    BY <1>1 DEF clock, WaitInv, KernelInv, TicksInv, tasks
  <2>2. \A u \in Task : \/ pc'[u] = pc[u] \/ pc'[u] \in {"run", "yield"}
                        \/ pc[u] = "yieldWaiting" /\ pc'[u] = "attempt"
    BY <1>1 DEF WaitInv, LockInv, Types
  <2> QED
    BY <2>1, <2>2, OutsideIs
<1>5. RunnerAwake'
  BY <1>3 DEF RunnerAwake
<1>6. \A u \in Task : WokenUp(u)
  BY <1>1, <1>3, Names, ListsKept DEF WokenUp, ipc, Asleep
<1> QED
  BY <1>3, <1>4, <1>5, <1>6 DEF WaitInv

LEMMA TimeKeeps ==
  ASSUME WaitInv, LockInv', Tick, UNCHANGED ipc
  PROVE  WaitInv' /\ \A u \in Task : WokenUp(u)
<1>1. KernelInv' /\ Ticked
  BY CountedTickIs, PendedTickIs DEF WaitInv
<1>2. DataTypes' /\ QueuesInv' /\ CallsExact'
  <2>1. /\ xTickCount' \in {xTickCount, xTickCount + 1} /\ xTickCount \in Nat
        /\ uxPriority' = uxPriority
    BY DEF Tick, WaitInv, KernelInv, TicksInv, tasks
  <2>2. pc' = pc
    BY <1>1 DEF Ticked
  <2> QED
    BY <2>1, <2>2, OutsideIs
<1>3. RunnerAwake'
  <2> SUFFICES ASSUME Asleep(current)'
               PROVE  /\ current' = current /\ Asleep(current)
                      /\ UNCHANGED <<pc, outcome>>
    BY DEF WaitInv, RunnerAwake, Blocked
  <2>1. current' = current /\ current \in Task
    BY <1>1 DEF Ticked, Dispatched, WaitInv, KernelInv, TypesInv
  <2>2. Asleep(current)
    BY <1>1, <2>1 DEF Ticked, Asleep, Sleeping
  <2> QED
    BY <1>1, <2>1, <2>2 DEF Ticked, ipc, waits
<1>4. ASSUME NEW u \in Task PROVE WokenUp(u)
  <2>1. (Linked(u)' <=> Linked(u)) /\ (Pending(u)' <=> Pending(u))
    BY ListsKept DEF ipc
  <2>2. CASE Asleep(u) /\ ~Asleep(u)'
    BY <1>1, <2>1, <2>2 DEF Ticked, WokenUp
  <2>3. CASE Asleep(u)'
    <3>1. /\ In(ring', Delayed, u) => In(ring, Delayed, u)
          /\ In(ring', Overflow, u) => In(ring, Overflow, u)
          /\ wake' = wake
      BY <1>1 DEF Ticked, Sleeping
    <3>2. ~(In(ring, Delayed, u) /\ In(ring, Overflow, u))
      BY Names DEF WaitInv, KernelInv, ListsInv, GoodRings
    <3>3. /\ Asleep(u)
          /\ In(ring', Delayed, u) <=> In(ring, Delayed, u)
          /\ In(ring', Overflow, u) <=> In(ring, Overflow, u)
      BY <2>3, <3>1, <3>2 DEF Asleep
    <3> QED
      BY <2>1, <2>3, <3>1, <3>3 DEF WokenUp
  <2>4. CASE ~Asleep(u) /\ ~Asleep(u)'
    BY <2>1, <2>4 DEF WokenUp
  <2> QED
    BY <2>2, <2>3, <2>4
<1> QED
  BY <1>1, <1>2, <1>3, <1>4 DEF WaitInv

(* An interrupt that spins, or a sum that overflows: nothing goes on.      *)
LEMMA StoppingKeeps ==
  ASSUME WaitInv, LockInv',
         \/ Panic /\ UNCHANGED ipc
         \/ \E which \in IsrCalls : IsrSpin(which)
  PROVE  WaitInv' /\ \A u \in Task : WokenUp(u)
<1>1. /\ UNCHANGED <<ring, wake, tasks, dispatch, pc, lastWake, clock,
                     uxMessagesWaiting, locks, events, waits>>
      /\ panicked' = TRUE
      /\ \/ interrupts' = interrupts /\ spins' = spins
         \/ interrupts < IsrBound /\ interrupts' = interrupts + 1 /\ spins' = TRUE
  BY DEF Panic, IsrSpin, Interrupt, ipc, lists, kernel
<1>2. KernelInv' /\ QueuesInv' /\ \A u \in Task : WokenUp(u)
  <2>1. xYieldPending' \in BOOLEAN /\ panicked' \in BOOLEAN
    BY <1>1 DEF dispatch, WaitInv, KernelInv, TypesInv
  <2> QED
    BY <1>1, <2>1, QuietIs DEF dispatch, events
<1>3. DataTypes'
  <2>1. IsrBound \in Nat /\ DataTypes
    BY QueueAssumption DEF WaitInv
  <2>2. spins' \in BOOLEAN
    BY <1>1, <2>1 DEF DataTypes
  <2>3. /\ interrupts' \in 0 .. IsrBound
        /\ cRxLock' \in -1 .. interrupts' /\ cTxLock' \in -1 .. interrupts'
    BY <1>1, <2>1 DEF DataTypes, locks
  <2>4. /\ uxMessagesWaiting' = uxMessagesWaiting /\ uxPriority' = uxPriority
        /\ UNCHANGED <<op, xTicksToWait, entered, outcome>>
    BY <1>1 DEF tasks, waits
  <2> QED
    BY <2>1, <2>2, <2>3, <2>4 DEF DataTypes
<1>4. CallsExact' /\ RunnerAwake'
  BY <1>1 DEF WaitInv, CallsExact, CallExact, RunnerAwake, Blocked, Asleep,
              waits, clock, dispatch
<1> QED
  BY <1>2, <1>3, <1>4 DEF WaitInv

(* Of its event item: it joins a wait list only where it places itself,    *)
(* and leaves none for the list of pending tasks.                          *)
Joins(u) ==
  /\ Linked(u)' /\ ~Linked(u) => u = current /\ pc[u] = "placing"
  /\ Linked(u) => Linked(u)'
  /\ Tidy' /\ Pending(u)' => Pending(u)

(* The running task goes to sleep.                                         *)
LEMMA SleepIs ==
  ASSUME WaitInv, LockInv', current # Idle, ~Asleep(current),
         pc[current] \in {"run", "placing"}, NEW ticks \in Nat,
         AddCurrentToDelayed(ticks),
         UNCHANGED <<tasks, lastWake, dispatch, xTickCount, xPendedTicks,
                     elapsed, panicked>>
  PROVE  /\ KernelInv'
         /\ \E time \in 0 .. PORT_MAX_DELAY : \E l \in Sleeping :
              /\ time = (ticks + xTickCount) % (PORT_MAX_DELAY + 1)
              /\ SleepsUntil(time, l)
         /\ \A u \in Task : Joins(u) => WokenUp(u)
<1>1. PICK time \in 0 .. PORT_MAX_DELAY, l \in Sleeping :
        /\ time = (ticks + xTickCount) % (PORT_MAX_DELAY + 1)
        /\ SleepsUntil(time, l)
  BY AddIs DEF WaitInv
<1>2. /\ ListsInv' /\ wake' \in [Task -> 0 .. PORT_MAX_DELAY]
      /\ xNextTaskUnblockTime' \in 0 .. PORT_MAX_DELAY
  BY <1>1, SleepKeepsLists DEF WaitInv
<1>3. TypesInv' /\ TicksInv'
  <2>1. uxSchedulerSuspended' \in 0 .. NestBound + 1
    BY TasksAssumption DEF LockInv, Types
  <2> QED
    BY <1>2, <2>1
       DEF WaitInv, KernelInv, TypesInv, TicksInv, tasks, dispatch
<1>4. ASSUME NEW u \in Task, Joins(u) PROVE WokenUp(u)
  <2>1. CASE u = current
    BY <1>4, <2>1 DEF WokenUp, Joins
  <2>2. CASE u # current
    <3>1. /\ wake'[u] = wake[u]
          /\ In(ring', Delayed, u) <=> In(ring, Delayed, u)
          /\ In(ring', Overflow, u) <=> In(ring, Overflow, u)
      BY <1>1, <2>2, Names DEF SleepsUntil, WaitInv, KernelInv, TypesInv
    <3>2. Asleep(u)' <=> Asleep(u)
      BY <3>1 DEF Asleep
    <3> QED
      BY <1>4, <3>1, <3>2 DEF WokenUp, Joins
  <2> QED
    BY <2>1, <2>2
<1> QED
  BY <1>1, <1>2, <1>3, <1>4 DEF KernelInv

LEMMA SleepingKeeps ==
  ASSUME WaitInv, LockInv', NEW t \in Task, UNCHANGED ipc,
         NEW n \in Delays, VTaskDelay(t, n), ~Panic
  PROVE  WaitInv' /\ \A u \in Task : WokenUp(u)
<1>1. /\ t = current /\ pc[t] = "run" /\ t # Idle
      /\ AddCurrentToDelayed(n) /\ pc' = [pc EXCEPT ![t] = "yield"]
      /\ UNCHANGED <<tasks, dispatch, lastWake, xTickCount, xPendedTicks,
                     elapsed, uxSchedulerSuspended, panicked>>
  BY DEF VTaskDelay, Calls, Executes, MayBlock
<1>2. ~Asleep(current)
  BY <1>1 DEF WaitInv, RunnerAwake, Blocked
<1>3. KernelInv' /\ \A u \in Task : WokenUp(u)
  <2>1. n \in Nat
    BY TasksAssumption
  <2>2. \A u \in Task : Joins(u)
    BY ListsKept DEF Joins, ipc
  <2> QED
    BY <1>1, <1>2, <2>1, <2>2, SleepIs
<1>4. /\ pc' \in [Task -> Labels] /\ pc'[t] = "yield"
      /\ \A u \in Task : pc'[u] = pc[u] \/ pc'[u] = "yield"
  BY <1>1 DEF WaitInv, LockInv, Types, Labels
<1>5. DataTypes' /\ QueuesInv' /\ CallsExact'
  <2>1. /\ xTickCount' = xTickCount /\ xTickCount \in Nat
        /\ uxPriority' = uxPriority
    BY <1>1 DEF WaitInv, KernelInv, TicksInv, tasks
  <2> QED
    BY <1>4, <2>1, OutsideIs
<1>6. RunnerAwake'
  BY <1>1, <1>4 DEF RunnerAwake, dispatch
<1> QED
  BY <1>3, <1>5, <1>6 DEF WaitInv

LEMMA EnqueuedIs ==
  ASSUME NEW t \in Task, NEW queue \in Seq(Task), Distinct(queue),
         ~Contains(queue, t)
  PROVE  /\ Enqueued(queue, t) \in Seq(Task) /\ Distinct(Enqueued(queue, t))
         /\ \A u : Contains(Enqueued(queue, t), u)
                     <=> Contains(queue, u) \/ u = t
<1> DEFINE I == {i \in 1 .. Len(queue) : uxPriority[queue[i]] <= uxPriority[t]}
           n == IF I = {} THEN Len(queue) + 1 ELSE Min(I)
           new == Enqueued(queue, t)
<1>1. Len(queue) \in Nat /\ \A i \in 1 .. Len(queue) : queue[i] \in Task
  OBVIOUS
<1>2. n \in 1 .. Len(queue) + 1
  <2>1. CASE I # {}
    <3>1. I \subseteq Nat
      BY <1>1
    <3> HIDE DEF I
    <3>2. Min(I) \in I
      BY <2>1, <3>1, LeastNumber DEF Min
    <3> QED
      BY <1>1, <2>1, <3>2 DEF I
  <2> QED
    BY <1>1, <2>1
<1>3. new = InsertAt(queue, n, t)
  <2>1. CASE I = {}
    BY <2>1 DEF Enqueued, SelectInSeq
  <2>2. CASE I # {}
    <3>1. Min(I) # 0
      BY <1>2, <2>2
    <3> QED
      BY <2>2, <3>1 DEF Enqueued, SelectInSeq
  <2> QED
    BY <2>1, <2>2
<1> HIDE DEF I, n, new
<1>4. /\ new \in Seq(Task) /\ Len(new) = Len(queue) + 1
      /\ \A i \in 1 .. Len(queue) + 1 :
           new[i] = IF i < n THEN queue[i] ELSE IF i = n THEN t ELSE queue[i - 1]
  <2>1. new \in Seq(Task) /\ InsertedInto(new, queue, n, t)
    BY <1>2, <1>3, InsertAtIs
  <2> QED
    BY <2>1 DEF InsertedInto
<1>5. \A i \in 1 .. Len(queue) : queue[i] # t
  BY DEF Contains
<1> DEFINE old(i) == IF i < n THEN i ELSE i - 1
<1>6. ASSUME NEW i \in 1 .. Len(queue) + 1, i # n
      PROVE  old(i) \in 1 .. Len(queue) /\ new[i] = queue[old(i)]
  BY <1>1, <1>2, <1>4, <1>6
<1>7. new[n] = t
  BY <1>2, <1>4
<1>8. ASSUME NEW i \in 1 .. Len(queue) + 1, NEW j \in 1 .. Len(queue) + 1,
              i # n, j # n, old(i) = old(j)
       PROVE  i = j
  BY <1>1, <1>2, <1>8
<1> HIDE DEF old
<1>9. Distinct(new)
  <2> SUFFICES ASSUME NEW i \in 1 .. Len(queue) + 1,
                      NEW j \in 1 .. Len(queue) + 1, new[i] = new[j]
               PROVE  i = j
    BY <1>4 DEF Distinct
  <2>1. CASE i # n /\ j # n
    <3>1. old(i) = old(j)
      BY <1>6, <2>1 DEF Distinct
    <3> QED
      BY <1>8, <2>1, <3>1
  <2>2. CASE i = n \/ j = n
    BY <1>5, <1>6, <1>7, <2>2
  <2> QED
    BY <2>1, <2>2
<1>10. ASSUME NEW u PROVE Contains(new, u) <=> Contains(queue, u) \/ u = t
  <2>1. ASSUME NEW i \in 1 .. Len(queue), queue[i] = u PROVE Contains(new, u)
    <3>1. i \in 1 .. Len(queue) + 1 /\ i + 1 \in 1 .. Len(queue) + 1
      BY <1>1
    <3>2. new[i] = u \/ new[i + 1] = u
      BY <1>1, <1>2, <1>4, <2>1, <3>1
    <3> QED
      BY <1>4, <3>1, <3>2 DEF Contains
  <2>2. Contains(new, t)
    BY <1>2, <1>4 DEF Contains
  <2>3. ASSUME NEW i \in 1 .. Len(queue) + 1, new[i] = u
        PROVE  Contains(queue, u) \/ u = t
    BY <1>6, <1>7, <2>3 DEF Contains
  <2> QED
    BY <1>4, <2>1, <2>2, <2>3 DEF Contains
<1> QED
  BY <1>4, <1>9, <1>10 DEF new

(* What the list calls change of an item's container. *)
LEMMA InsertedIn ==
  ASSUME NEW links, NEW list, NEW node, NEW x
  PROVE  InsertedBefore(links, list, node, x).in = [links.in EXCEPT ![x] = list]
BY DEF InsertedBefore

LEMMA InOrderIn ==
  ASSUME NEW links, NEW list, NEW stops, NEW x
  PROVE  InsertedInOrder(links, list, stops, x).in
           = [links.in EXCEPT ![x] = list]
BY InsertedIn DEF InsertedInOrder

LEMMA AtEndIn ==
  ASSUME NEW links, NEW list, NEW x
  PROVE  InsertedAtEnd(links, list, x).in = [links.in EXCEPT ![x] = list]
BY DEF InsertedAtEnd, InsertedBefore

LEMMA RemovedIn ==
  ASSUME NEW links, DOMAIN links.in = Task, NEW x \in Task
  PROVE  /\ DOMAIN Removed(links, x).in = Task
         /\ Removed(links, x).in[x] = Free
         /\ \A u \in Task : u # x => Removed(links, x).in[u] = links.in[u]
BY DEF Removed

LEMMA RelinkedIn ==
  ASSUME NEW links, DOMAIN links.in = Task, NEW x \in Task, NEW list
  PROVE  LET new == InsertedAtEnd(Removed(links, x), list, x)
         IN  /\ DOMAIN new.in = Task
             /\ new.in[x] = list
             /\ \A u \in Task : u # x => new.in[u] = links.in[u]
<1> DEFINE old == Removed(links, x)
<1>1. /\ DOMAIN old.in = Task
      /\ \A u \in Task : u # x => old.in[u] = links.in[u]
  BY RemovedIn
<1>2. InsertedAtEnd(old, list, x).in = [old.in EXCEPT ![x] = list]
  BY AtEndIn
<1> HIDE DEF old
<1> QED
  BY <1>1, <1>2 DEF old

(* The links say of every item what the lists say, also at the moment the  *)
(* lists become links.                                                     *)
LEMMA LinksOfIn ==
  ASSUME NEW queues, NEW u \in Task, Task \cap DOMAIN queues = {},
         \A l \in DOMAIN queues : queues[l] \in Seq(Task)
  PROVE  /\ DOMAIN LinksOf(queues, Task).in = Task
         /\ IF \E l \in DOMAIN queues : Contains(queues[l], u)
            THEN /\ LinksOf(queues, Task).in[u] \in DOMAIN queues
                 /\ Contains(queues[LinksOf(queues, Task).in[u]], u)
            ELSE LinksOf(queues, Task).in[u] = Free
<1> DEFINE names == DOMAIN queues
           rings == [l \in names |-> <<l>> \o queues[l]]
           holders == [x \in Task \cup names |-> {l \in names : Contains(rings[l], x)}]
<1>1. LinksOf(queues, Task).in
        = [x \in Task |-> IF holders[x] = {} THEN Free
                          ELSE CHOOSE l \in holders[x] : TRUE]
  BY DEF LinksOf
<1>2. ASSUME NEW l \in names PROVE Contains(rings[l], u) <=> Contains(queues[l], u)
  <2>1. queues[l] \in Seq(Task) /\ Len(queues[l]) \in Nat /\ u # l
    BY <1>2
  <2> DEFINE q == queues[l]
             r == <<l>> \o q
  <2> HIDE DEF q
  <2>2. q \in Seq(Task) /\ Len(q) \in Nat
    BY <2>1 DEF q
  <2>3. /\ Len(r) = Len(q) + 1 /\ r[1] = l
        /\ \A i \in 1 .. Len(q) : r[i + 1] = q[i]
    BY <2>2
  <2> HIDE DEF r
  <2>4. Contains(r, u) <=> Contains(q, u)
    <3>1. ASSUME NEW i \in 1 .. Len(r), r[i] = u PROVE Contains(q, u)
      <4>1. i # 1
        BY <2>1, <2>3, <3>1
      <4>2. i - 1 \in 1 .. Len(q) /\ q[i - 1] = u
        BY <2>2, <2>3, <3>1, <4>1
      <4> QED
        BY <4>2 DEF Contains
    <3>2. ASSUME NEW i \in 1 .. Len(q), q[i] = u PROVE Contains(r, u)
      <4>1. i + 1 \in 1 .. Len(r) /\ r[i + 1] = u
        BY <2>2, <2>3, <3>2
      <4> QED
        BY <4>1 DEF Contains
    <3> QED
      BY <3>1, <3>2 DEF Contains
  <2>5. rings[l] = r
    BY DEF r, q
  <2> QED
    BY <2>4, <2>5 DEF q
<1>3. holders[u] = {l \in names : Contains(queues[l], u)}
  BY <1>2
<1> HIDE DEF holders
<1> QED
  BY <1>1, <1>3

LEMMA LinksNowIs ==
  ASSUME QueuesInv
  PROVE  /\ DOMAIN LinksNow.in = Task
         /\ \A u \in Task : Linked(u) <=> LinksNow.in[u] \in Sides
<1>1. CASE Tidy
  <2> DEFINE queues == [l \in Sides \cup {"pending"} |->
                         IF l = "pending" THEN pending ELSE waiting[l]]
  <2>1. /\ DOMAIN queues = Sides \cup {"pending"}
        /\ Task \cap DOMAIN queues = {} /\ Free \notin Sides
        /\ \A l \in DOMAIN queues : queues[l] \in Seq(Task)
    BY QueueAssumption DEF QueuesInv, Sides, Free
  <2>2. LinksNow = LinksOf(queues, Task)
    BY <1>1 DEF LinksNow
  <2>3. /\ queues["pending"] = pending
        /\ \A s \in Sides : queues[s] = waiting[s]
    BY DEF Sides
  <2> HIDE DEF queues
  <2>4. ASSUME NEW u \in Task
        PROVE  /\ DOMAIN LinksNow.in = Task
               /\ Linked(u) <=> LinksNow.in[u] \in Sides
    <3> DEFINE c == LinksNow.in[u]
    <3>1. /\ DOMAIN LinksNow.in = Task
          /\ IF \E l \in DOMAIN queues : Contains(queues[l], u)
             THEN c \in DOMAIN queues /\ Contains(queues[c], u)
             ELSE c = Free
      BY <2>1, <2>2, LinksOfIn
    <3> HIDE DEF c
    <3>2. Linked(u) <=> \E s \in Sides : Contains(queues[s], u)
      BY <1>1, <2>3 DEF Linked, WaitsIn
    <3>3. Linked(u) => ~Contains(queues["pending"], u)
      BY <1>1, <2>3 DEF QueuesInv, TidyLists, Pending
    <3>4. Linked(u) <=> c \in Sides
      BY <2>1, <3>1, <3>2, <3>3
    <3> QED
      BY <3>1, <3>4 DEF c
  <2> QED
    BY <2>4, TasksAssumption
<1>2. CASE ~Tidy
  BY <1>2 DEF QueuesInv, LinksNow, Linked, WaitsIn
<1> QED
  BY <1>1, <1>2

(* vTaskPlaceOnEventList. *)
LEMMA PlacedIs ==
  ASSUME WaitInv, NEW t \in Task, t = current, pc[t] = "placing", t # Idle,
         NEW s \in Sides, PlaceIn(s, t)
  PROVE  QueuesInv' /\ \A u \in Task : Joins(u)
<1>0. QueuesInv
  BY DEF WaitInv
<1>1. CASE Tidy /\ ~Linked(t) /\ ~Pending(t)
  <2>1. /\ waiting' = [waiting EXCEPT ![s] = Enqueued(@, t)]
        /\ pending' = pending /\ Tidy'
    BY <1>1 DEF PlaceIn, Tidy
  <2>2. /\ waiting[s] \in Seq(Task) /\ Distinct(waiting[s])
        /\ ~Contains(waiting[s], t)
    BY <1>0, <1>1 DEF QueuesInv, TidyLists, Linked, WaitsIn
  <2>3. /\ waiting' \in [Sides -> Seq(Task)]
        /\ \A m \in Sides : Distinct(waiting'[m])
        /\ \A m \in Sides : \A u \in Task :
             Contains(waiting'[m], u) <=> WaitsIn(m, u) \/ (m = s /\ u = t)
    BY <1>0, <1>1, <2>1, <2>2, EnqueuedIs DEF QueuesInv, TidyLists, WaitsIn
  <2>4. \A m \in Sides : \A u \in Task :
          WaitsIn(m, u)' <=> WaitsIn(m, u) \/ (m = s /\ u = t)
    BY <2>1, <2>3 DEF WaitsIn
  <2>5. \A u \in Task : Pending(u)' <=> Pending(u)
    BY <1>1, <2>1 DEF Pending
  <2>6. \A u \in Task : Linked(u)' <=> Linked(u) \/ u = t
    BY <2>4 DEF Linked
  <2>7. TidyLists'
    <3>1. \A u \in Task : WaitsIn("send", u)' => ~WaitsIn("receive", u)'
      BY <1>0, <1>1, <2>4 DEF QueuesInv, TidyLists, Linked, Sides
    <3>2. ~Linked(Idle)' /\ \A u \in Task : Linked(u)' => ~Pending(u)'
      BY <1>0, <1>1, <2>5, <2>6, TasksAssumption DEF QueuesInv, TidyLists
    <3> QED
      BY <2>3, <3>1, <3>2 DEF TidyLists
  <2> QED
    BY <1>0, <2>1, <2>3, <2>5, <2>6, <2>7 DEF QueuesInv, Joins
<1>2. CASE ~(Tidy /\ ~Linked(t) /\ ~Pending(t))
  <2> DEFINE stops == Sides \cup {"pending"}
                        \cup {u \in Task : uxPriority[u] <= uxPriority[t]}
             new == InsertedInOrder(LinksNow, s, stops, t)
  <2>1. /\ tangle' = <<new>>
        /\ waiting' = [l \in Sides |-> <<>>] /\ pending' = <<>>
    BY <1>2 DEF PlaceIn
  <2>2. new.in = [LinksNow.in EXCEPT ![t] = s]
    BY InOrderIn
  <2> HIDE DEF new
  <2>3. ~Tidy' /\ Links' = new
    BY <2>1 DEF Tidy, Links
  <2>4. /\ DOMAIN LinksNow.in = Task
        /\ \A u \in Task : Linked(u) <=> LinksNow.in[u] \in Sides
    BY <1>0, LinksNowIs
  <2>5. \A u \in Task : Linked(u)' <=> new.in[u] \in Sides
    BY <2>3 DEF Linked, WaitsIn
  <2>6. DOMAIN new.in = Task /\ \A u \in Task : Linked(u)' <=> Linked(u) \/ u = t
    BY <2>2, <2>4, <2>5
  <2> QED
    BY <2>1, <2>3, <2>6 DEF QueuesInv, Joins
<1> QED
  BY <1>1, <1>2

LEMMA PlacingKeeps ==
  ASSUME WaitInv, LockInv', NEW t \in Task, PlaceOnEventList(t), ~Panic
  PROVE  WaitInv' /\ \A u \in Task : WokenUp(u)
<1> DEFINE s == WaitSide(op[t])
<1>1. /\ t = current /\ pc[t] = "placing" /\ PlaceIn(s, t)
      /\ AddCurrentToDelayed(xTicksToWait[t])
      /\ pc' = [pc EXCEPT ![t] = "unlockTx"]
      /\ UNCHANGED <<tasks, lastWake, dispatch, xTickCount, xPendedTicks,
                     elapsed, uxSchedulerSuspended, panicked,
                     uxMessagesWaiting, locks, waits, spins, interrupts>>
  BY DEF PlaceOnEventList, Executes, Goto
<1>2. t # Idle /\ outcome[t] = "blocked" /\ s \in Sides
  BY <1>1 DEF WaitInv, CallsExact, CallExact, WaitSide, Sides
<1>3. ~Asleep(current)
  BY <1>1 DEF WaitInv, RunnerAwake, Blocked
<1> HIDE DEF s
<1>6. QueuesInv' /\ \A u \in Task : Joins(u)
  BY <1>1, <1>2, PlacedIs
<1>7. KernelInv' /\ \A u \in Task : WokenUp(u)
  <2>1. xTicksToWait[t] \in Nat
    BY TasksAssumption DEF WaitInv, DataTypes
  <2> QED
    BY <1>1, <1>2, <1>3, <1>6, <2>1, SleepIs
<1>8. DataTypes'
  BY <1>1 DEF WaitInv, DataTypes, locks, waits, tasks
<1>9. CallsExact'
  BY <1>1 DEF WaitInv, CallsExact, CallExact, LockInv, Types, waits
<1>10. RunnerAwake'
  BY <1>1, <1>2 DEF RunnerAwake, Blocked, WaitInv, LockInv, Types, waits,
                    dispatch
<1> QED
  BY <1>6, <1>7, <1>8, <1>9, <1>10 DEF WaitInv

(* The first n of a wait list leave it.                                    *)
LEMMA DroppedIs ==
  ASSUME NEW queue \in Seq(Task), Distinct(queue), NEW n \in 0 .. Len(queue)
  PROVE  LET left == SubSeq(queue, n + 1, Len(queue))
             gone == ToSet(SubSeq(queue, 1, n))
         IN  /\ left \in Seq(Task) /\ Distinct(left) /\ gone \subseteq Task
             /\ \A u : Contains(queue, u) <=> Contains(left, u) \/ u \in gone
<1> DEFINE left == SubSeq(queue, n + 1, Len(queue))
           first == SubSeq(queue, 1, n)
           gone == ToSet(first)
<1>1. Len(queue) \in Nat /\ \A i \in 1 .. Len(queue) : queue[i] \in Task
  OBVIOUS
<1>2. /\ left \in Seq(Task) /\ Len(left) = Len(queue) - n
      /\ \A i \in 1 .. Len(queue) - n : left[i] = queue[n + i]
  BY <1>1, SubSeqProperties
<1>3. /\ first \in Seq(Task) /\ Len(first) = n
      /\ \A i \in 1 .. n : first[i] = queue[i]
  BY <1>1, SubSeqProperties
<1> HIDE DEF left, first
<1>4. gone = {queue[i] : i \in 1 .. n}
  BY <1>3 DEF ToSet
<1>5. Distinct(left)
  BY <1>1, <1>2 DEF Distinct
<1>6. gone \subseteq Task
  BY <1>1, <1>4
<1>7. ASSUME NEW u PROVE Contains(queue, u) <=> Contains(left, u) \/ u \in gone
  <2>1. ASSUME NEW i \in 1 .. Len(queue), queue[i] = u
        PROVE  Contains(left, u) \/ u \in gone
    <3>1. CASE i <= n
      BY <1>4, <2>1, <3>1
    <3>2. CASE i > n
      <4>1. i - n \in 1 .. Len(queue) - n /\ left[i - n] = u
        BY <1>1, <1>2, <2>1, <3>2
      <4> QED
        BY <1>2, <4>1 DEF Contains
    <3> QED
      BY <1>1, <3>1, <3>2
  <2>2. ASSUME NEW i \in 1 .. Len(queue) - n, left[i] = u
        PROVE  Contains(queue, u)
    <3>1. n + i \in 1 .. Len(queue) /\ queue[n + i] = u
      BY <1>1, <1>2, <2>2
    <3> QED
      BY <3>1 DEF Contains
  <2>3. u \in gone => Contains(queue, u)
    BY <1>1, <1>4 DEF Contains
  <2> QED
    BY <1>2, <2>1, <2>2, <2>3 DEF Contains
<1> QED
  BY <1>2, <1>5, <1>6, <1>7 DEF left, gone, first

(* The loop of MovedHeads changes the containers of the items it moves.    *)
MoveStep(c, k, s) ==
  LET head == s.links.next[c.list]
  IN  IF s.panics \/ s.links.count[c.list] = 0 THEN s
      ELSE IF head \notin ItemsOf(c.links) THEN [s EXCEPT !.panics = TRUE]
      ELSE [links  |-> InsertedAtEnd(Removed(s.links, head), c.to, head),
            moved  |-> s.moved \cup {head},
            panics |-> FALSE]
MoveKeeps(c, k, s) ==
  /\ DOMAIN s = {"links", "moved", "panics"}
  /\ DOMAIN s.links.in = Task
  /\ \A u \in Task : s.links.in[u] = c.links.in[u] \/ s.links.in[u] = c.to
MoveLoop == INSTANCE Loops WITH Step <- MoveStep, Keeps <- MoveKeeps

LEMMA EveryNumber ==
  \A T : 0 \in T /\ (\A k \in Nat : k \in T => k + 1 \in T) => Nat \subseteq T
<1> SUFFICES ASSUME NEW T, 0 \in T, \A k \in Nat : k \in T => k + 1 \in T,
                    Nat \ T # {}
             PROVE  FALSE
  BY Zenon
<1>1. PICK m \in Nat \ T : \A k \in Nat \ T : m <= k
  BY LeastNumber
<1>2. m - 1 \in Nat /\ (m - 1) + 1 = m /\ ~(m <= m - 1)
  BY <1>1
<1> QED
  BY <1>1, <1>2

LEMMA MovedHeadsIs ==
  ASSUME NEW links, DOMAIN links.in = Task, NEW list, NEW to, NEW n \in Nat
  PROVE  LET new == MovedHeads(links, list, to, n).links
         IN  /\ DOMAIN new.in = Task
             /\ \A u \in Task : new.in[u] = links.in[u] \/ new.in[u] = to
<1> DEFINE c == [links |-> links, list |-> list, to |-> to]
           start == [links |-> links, moved |-> {}, panics |-> FALSE]
<1>1. MoveKeeps(c, 0, start)
  BY DEF MoveKeeps
<1>2. ASSUME NEW k \in 1 .. n, NEW s, MoveKeeps(c, k - 1, s)
      PROVE  MoveKeeps(c, k, MoveStep(c, k, s))
  <2> DEFINE head == s.links.next[list]
  <2>1. CASE s.panics \/ s.links.count[list] = 0
    <3>1. c.list = list
      OBVIOUS
    <3> HIDE DEF c
    <3>2. MoveStep(c, k, s) = s
      BY <2>1, <3>1, Zenon DEF MoveStep
    <3> QED
      BY <1>2, <3>2, Zenon DEF MoveKeeps
  <2>2. CASE ~(s.panics \/ s.links.count[list] = 0) /\ head \notin Task
    <3> DEFINE new == [s EXCEPT !.panics = TRUE]
    <3>0. ItemsOf(c.links) = Task /\ c.list = list
      BY DEF ItemsOf
    <3> HIDE DEF c
    <3>1. MoveStep(c, k, s) = new
      BY <2>2, <3>0, Zenon DEF MoveStep
    <3>2. DOMAIN new = DOMAIN s /\ new.links = s.links
      BY <1>2 DEF MoveKeeps
    <3> HIDE DEF new
    <3> QED
      BY <1>2, <3>1, <3>2 DEF MoveKeeps
  <2>3. CASE ~(s.panics \/ s.links.count[list] = 0) /\ head \in Task
    <3> DEFINE new == InsertedAtEnd(Removed(s.links, head), to, head)
    <3>1. MoveStep(c, k, s) = [links |-> new, moved |-> s.moved \cup {head},
                               panics |-> FALSE]
      BY <2>3, Zenon DEF MoveStep, ItemsOf
    <3>2. /\ DOMAIN new.in = Task /\ new.in[head] = to
          /\ \A u \in Task : u # head => new.in[u] = s.links.in[u]
      BY <1>2, <2>3, RelinkedIn DEF MoveKeeps
    <3> HIDE DEF new, head
    <3> QED
      BY <1>2, <3>1, <3>2 DEF MoveKeeps
  <2> QED
    BY <2>1, <2>2, <2>3
<1>3. MovedHeads(links, list, to, n) = MoveLoop!Track(c, start, n)[n]
  BY DEF MovedHeads, MoveLoop!Track, MoveStep
<1> HIDE DEF start
<1>4. MoveKeeps(c, n, MoveLoop!Track(c, start, n)[n])
  BY <1>1, <1>2, MoveLoop!LoopKeeps, EveryNumber, Zenon
<1> QED
  BY <1>3, <1>4 DEF MoveKeeps

LEMMA JoinedHas ==
  ASSUME NEW p \in Seq(Task), NEW q \in Seq(Task), NEW u
  PROVE  Contains(p \o q, u) <=> Contains(p, u) \/ u \in ToSet(q)
<1> DEFINE r == p \o q
<1>1. /\ Len(p) \in Nat /\ Len(q) \in Nat /\ Len(r) = Len(p) + Len(q)
      /\ \A i \in 1 .. Len(p) : r[i] = p[i]
      /\ \A i \in 1 .. Len(q) : r[Len(p) + i] = q[i]
  OBVIOUS
<1> HIDE DEF r
<1>2. ASSUME NEW i \in 1 .. Len(r), r[i] = u
      PROVE  Contains(p, u) \/ u \in ToSet(q)
  <2>1. CASE i <= Len(p)
    BY <1>1, <1>2, <2>1 DEF Contains
  <2>2. CASE i > Len(p)
    <3>1. i - Len(p) \in 1 .. Len(q) /\ r[Len(p) + (i - Len(p))] = r[i]
      BY <1>1, <2>2
    <3>2. q[i - Len(p)] = u
      BY <1>1, <1>2, <3>1
    <3> QED
      BY <3>1, <3>2 DEF ToSet
  <2> QED
    BY <1>1, <2>1, <2>2
<1>3. ASSUME NEW i \in 1 .. Len(p), p[i] = u PROVE Contains(r, u)
  <2>1. i \in 1 .. Len(r) /\ r[i] = u
    BY <1>1, <1>3
  <2> QED
    BY <2>1 DEF Contains
<1>4. ASSUME NEW i \in 1 .. Len(q), q[i] = u PROVE Contains(r, u)
  <2>1. Len(p) + i \in 1 .. Len(r) /\ r[Len(p) + i] = u
    BY <1>1, <1>4
  <2> QED
    BY <2>1 DEF Contains
<1>5. u \in ToSet(q) <=> \E i \in 1 .. Len(q) : q[i] = u
  BY <1>1 DEF ToSet
<1> QED
  BY <1>2, <1>3, <1>4, <1>5 DEF Contains, r

(* A loop of prvUnlockQueue. *)
LEMMA UnlockedIs ==
  ASSUME WaitInv, UnlockWakes(cTxLock)
  PROVE  /\ QueuesInv' /\ xYieldPending' \in BOOLEAN
         /\ \A u \in Task : /\ Linked(u)' => Linked(u)
                            /\ Linked(u) /\ ~Linked(u)' => Pending(u)'
                            /\ Tidy' /\ Pending(u)' => Pending(u) \/ Linked(u)
<1>0. /\ QueuesInv /\ cTxLock - UNLOCKED \in Nat
      /\ xYieldPending \in BOOLEAN
  BY DEF WaitInv, DataTypes, UNLOCKED, KernelInv, TypesInv
<1>1. xYieldPending' \in BOOLEAN
  BY DEF UnlockWakes
<1>2. CASE Tidy
  <2> DEFINE queue == waiting["receive"]
             n == IF Len(queue) < cTxLock - UNLOCKED THEN Len(queue)
                  ELSE cTxLock - UNLOCKED
             left == SubSeq(queue, n + 1, Len(queue))
             heads == SubSeq(queue, 1, n)
             gone == ToSet(heads)
  <2>1. /\ waiting' = [waiting EXCEPT !["receive"] = left]
        /\ pending' = pending \o heads /\ Tidy'
    BY <1>2 DEF UnlockWakes, Tidy
  <2>2. queue \in Seq(Task) /\ Distinct(queue) /\ n \in 0 .. Len(queue)
    <3>1. queue \in Seq(Task) /\ Distinct(queue) /\ Len(queue) \in Nat
      BY <1>0, <1>2 DEF QueuesInv, TidyLists, Sides
    <3> HIDE DEF queue
    <3> QED
      BY <1>0, <3>1
  <2>3. heads \in Seq(Task)
    <3> HIDE DEF queue, n
    <3>1. Len(queue) \in Nat /\ \A i \in 1 .. n : queue[i] \in Task
      BY <2>2
    <3> QED
      BY <2>2, <3>1, SubSeqProperties
  <2> HIDE DEF n, queue
  <2>4. /\ left \in Seq(Task) /\ Distinct(left)
        /\ \A u : Contains(queue, u) <=> Contains(left, u) \/ u \in gone
    BY <2>2, DroppedIs
  <2>5. /\ pending' \in Seq(Task)
        /\ \A u \in Task : Pending(u)' <=> Pending(u) \/ u \in gone
    <3>1. pending \in Seq(Task)
      BY <1>0 DEF QueuesInv
    <3> HIDE DEF heads
    <3> QED
      BY <1>2, <2>1, <2>3, <3>1, JoinedHas DEF Pending
  <2>6. Distinct(queue) /\ \A u \in gone : ~Contains(left, u)
    <3>1. Len(queue) \in Nat
      BY <2>2
    <3>2. /\ Len(left) = Len(queue) - n
          /\ \A i \in 1 .. Len(left) : left[i] = queue[n + i]
      BY <2>2, <3>1, SubSeqProperties
    <3>3. gone = {queue[i] : i \in 1 .. n}
      <4>1. Len(heads) = n /\ \A i \in 1 .. n : heads[i] = queue[i]
        BY <2>2, <3>1, SubSeqProperties
      <4> HIDE DEF heads
      <4> QED
        BY <4>1 DEF ToSet
    <3> HIDE DEF left, gone
    <3>4. ASSUME NEW u \in gone, Contains(left, u) PROVE FALSE
      <4>1. PICK i \in 1 .. n : queue[i] = u
        BY <3>3, <3>4
      <4>2. PICK k \in 1 .. Len(left) : left[k] = u
        BY <3>4 DEF Contains
      <4>3. queue[n + k] = u /\ n + k \in 1 .. Len(queue) /\ i \in 1 .. Len(queue)
            /\ i # n + k
        BY <2>2, <3>1, <3>2, <4>1, <4>2
      <4> QED
        BY <2>2, <4>1, <4>3 DEF Distinct
    <3> QED
      BY <2>2, <3>4
  <2> HIDE DEF left, heads
  <2>7. /\ waiting' \in [Sides -> Seq(Task)]
        /\ waiting'["receive"] = left /\ waiting'["send"] = waiting["send"]
    BY <1>0, <2>1, <2>4 DEF QueuesInv, Sides
  <2>8. /\ \A u \in Task : WaitsIn("send", u)' <=> WaitsIn("send", u)
        /\ \A u \in Task : WaitsIn("receive", u) <=> WaitsIn("receive", u)' \/ u \in gone
        /\ \A u \in gone : ~WaitsIn("receive", u)'
    BY <1>2, <2>1, <2>4, <2>6, <2>7 DEF WaitsIn, queue, Sides
  <2>9. /\ \A u \in Task : Linked(u)' => Linked(u) /\ u \notin gone
        /\ \A u \in Task : Linked(u) /\ ~Linked(u)' => u \in gone
        /\ \A u \in Task : u \in gone => Linked(u)
    BY <1>0, <1>2, <2>8 DEF Linked, Sides, QueuesInv, TidyLists
  <2>10. TidyLists'
    <3>1. \A m \in Sides : Distinct(waiting'[m])
      BY <1>0, <1>2, <2>4, <2>7 DEF QueuesInv, TidyLists, Sides
    <3>2. \A u \in Task : WaitsIn("send", u)' => ~WaitsIn("receive", u)'
      BY <1>0, <1>2, <2>8 DEF QueuesInv, TidyLists
    <3>3. ~Linked(Idle)' /\ \A u \in Task : Linked(u)' => ~Pending(u)'
      BY <1>0, <1>2, <2>5, <2>9, TasksAssumption DEF QueuesInv, TidyLists
    <3> QED
      BY <3>1, <3>2, <3>3 DEF TidyLists
  <2> QED
    BY <1>1, <2>1, <2>5, <2>7, <2>9, <2>10 DEF QueuesInv
<1>3. CASE ~Tidy
  <2> DEFINE new == LinksUnlocked(cTxLock).links
  <2>1. tangle' = <<new>> /\ waiting' = waiting /\ pending' = pending
    BY <1>3 DEF UnlockWakes
  <2>2. /\ DOMAIN new.in = Task
        /\ \A u \in Task : new.in[u] = Links.in[u] \/ new.in[u] = "pending"
    BY <1>0, <1>3, MovedHeadsIs DEF LinksUnlocked, QueuesInv
  <2> HIDE DEF new
  <2>3. ~Tidy' /\ Links' = new
    BY <2>1 DEF Tidy, Links
  <2>4. ASSUME NEW u \in Task
        PROVE  /\ Linked(u) <=> Links.in[u] \in Sides
               /\ Linked(u)' <=> new.in[u] \in Sides
               /\ Pending(u)' <=> new.in[u] = "pending"
    <3>1. Linked(u) <=> \E s \in Sides : Links.in[u] = s
      BY <1>3, Zenon DEF Linked, WaitsIn
    <3>2. Linked(u)' <=> \E s \in Sides : new.in[u] = s
      BY <2>3, Zenon DEF Linked, WaitsIn
    <3>3. Pending(u)' <=> new.in[u] = "pending"
      BY <2>3, Zenon DEF Pending
    <3> QED
      BY <3>1, <3>2, <3>3
  <2>5. QueuesInv'
    BY <1>0, <2>1, <2>2, <2>3 DEF QueuesInv
  <2>6. ASSUME NEW u \in Task
        PROVE  /\ Linked(u)' => Linked(u)
               /\ Linked(u) /\ ~Linked(u)' => Pending(u)'
    <3>1. "pending" \notin Sides
      BY DEF Sides
    <3> QED
      BY <2>2, <2>4, <3>1
  <2> QED
    BY <1>1, <2>3, <2>5, <2>6
<1> QED
  BY <1>2, <1>3

LEMMA UnlockingKeeps ==
  ASSUME WaitInv, LockInv', NEW t \in Task, UnlockTx(t) \/ UnlockRx(t), ~Panic
  PROVE  WaitInv' /\ \A u \in Task : WokenUp(u)
<1>1. /\ t = current /\ pc[t] \in {"unlockTx", "unlockRx"}
      /\ UnlockWakes(cTxLock)
      /\ pc' = [pc EXCEPT ![t] = IF @ = "unlockTx" THEN "unlockRx" ELSE "resume"]
      /\ cTxLock' \in {cTxLock, UNLOCKED} /\ cRxLock' \in {cRxLock, UNLOCKED}
      /\ UNCHANGED <<kernel, ring, current, clock, uxSchedulerSuspended,
                     panicked, uxMessagesWaiting, waits, spins, interrupts>>
  BY DEF UnlockTx, UnlockRx, Executes, Goto, WaitInv, LockInv, Types
<1>2. /\ QueuesInv' /\ xYieldPending' \in BOOLEAN
      /\ \A u \in Task : /\ Linked(u)' => Linked(u)
                         /\ Linked(u) /\ ~Linked(u)' => Pending(u)'
                         /\ Tidy' /\ Pending(u)' => Pending(u) \/ Linked(u)
  BY <1>1, UnlockedIs
<1>7. KernelInv'
  <2>1. panicked' \in BOOLEAN
    BY <1>1 DEF WaitInv, KernelInv, TypesInv
  <2> QED
    BY <1>1, <1>2, <2>1, QuietIs DEF kernel
<1>8. \A u \in Task : WokenUp(u)
  <2>1. uxSchedulerSuspended # 0
    BY <1>1 DEF WaitInv, LockInv, NestingExact, SuspendedBy
  <2> QED
    BY <1>1, <1>2, <2>1 DEF WokenUp, Asleep, kernel
<1>9. DataTypes'
  <2>1. /\ uxMessagesWaiting' = uxMessagesWaiting /\ spins' = spins
        /\ interrupts' = interrupts /\ uxPriority' = uxPriority
        /\ UNCHANGED <<op, xTicksToWait, entered, outcome>>
    BY <1>1 DEF waits, kernel, tasks
  <2>2. /\ cRxLock' \in -1 .. interrupts' /\ cTxLock' \in -1 .. interrupts'
    BY <1>1 DEF WaitInv, DataTypes, UNLOCKED
  <2> QED
    BY <2>1, <2>2 DEF WaitInv, DataTypes
<1>10. CallsExact'
  BY <1>1 DEF WaitInv, CallsExact, CallExact, LockInv, Types, waits, clock
<1>11. RunnerAwake'
  BY <1>1 DEF WaitInv, RunnerAwake, Blocked, Asleep, LockInv, Types, waits,
              kernel
<1> QED
  BY <1>2, <1>7, <1>8, <1>9, <1>10, <1>11 DEF WaitInv

(* xTaskRemoveFromEventList on a wait list.                                *)
LEMMA WakeHeadIs ==
  ASSUME WaitInv, NEW s \in Sides, ~NobodyIn(s), ~HeadIsMarker(s), WakeHead(s),
         NEW h, h = HeadOf(s)
  PROVE  /\ h \in Task /\ ~Linked(h)' /\ QueuesInv'
         /\ Tidy => h # Idle /\ WaitsIn(s, h)
         /\ uxSchedulerSuspended # 0 => Pending(h)'
         /\ Tidy /\ uxSchedulerSuspended = 0 => ~Pending(h)'
         /\ Tidy' <=> Tidy
         /\ \A u \in Task : u # h =>
              /\ \A m \in Sides : WaitsIn(m, u)' <=> WaitsIn(m, u)
              /\ Pending(u)' <=> Pending(u)
<1>0. QueuesInv /\ h \in Task
  <2>1. QueuesInv
    BY DEF WaitInv
  <2>2. h \in Task
    BY Zenon DEF HeadIsMarker
  <2> QED
    BY <2>1, <2>2
<1>a. CASE Tidy
  <2> DEFINE queue == waiting[s]
             left == Tail(queue)
  <2>1. /\ queue \in Seq(Task) /\ queue # <<>> /\ Distinct(queue)
        /\ waiting' = [waiting EXCEPT ![s] = left]
        /\ pending \in Seq(Task)
        /\ pending' = IF uxSchedulerSuspended = 0 THEN pending
                      ELSE Append(pending, h)
        /\ h = Head(queue) /\ Tidy'
    BY <1>0, <1>a DEF QueuesInv, TidyLists, WakeHead, NobodyIn, HeadOf, Tidy
  <2> HIDE DEF queue
  <2>2. /\ Len(queue) \in Nat \ {0} /\ h = queue[1] /\ h \in Task
        /\ left \in Seq(Task) /\ Len(left) = Len(queue) - 1
        /\ \A i \in 1 .. Len(left) : left[i] = queue[i + 1]
    BY <2>1
  <2> HIDE DEF left
  <2>3. Distinct(left) /\ ~Contains(left, h)
    <3>1. ASSUME NEW i \in 1 .. Len(left), NEW j \in 1 .. Len(left),
                 left[i] = left[j]
          PROVE  i = j
      <4>1. /\ i + 1 \in 1 .. Len(queue) /\ j + 1 \in 1 .. Len(queue)
            /\ queue[i + 1] = queue[j + 1]
        BY <2>2, <3>1
      <4> QED
        BY <2>1, <4>1 DEF Distinct
    <3>2. ASSUME NEW i \in 1 .. Len(left), left[i] = h PROVE FALSE
      <4>1. /\ i + 1 \in 1 .. Len(queue) /\ 1 \in 1 .. Len(queue)
            /\ queue[i + 1] = queue[1] /\ i + 1 # 1
        BY <2>2, <3>2
      <4> QED
        BY <2>1, <4>1 DEF Distinct
    <3> QED
      BY <3>1, <3>2 DEF Distinct, Contains
  <2>4. ASSUME NEW u, u # h PROVE Contains(left, u) <=> Contains(queue, u)
    <3>1. ASSUME NEW i \in 1 .. Len(queue), queue[i] = u
          PROVE  Contains(left, u)
      <4>1. i # 1 /\ i - 1 \in 1 .. Len(left) /\ left[i - 1] = u
        BY <2>2, <2>4, <3>1
      <4> QED
        BY <2>2, <4>1 DEF Contains
    <3>2. ASSUME NEW i \in 1 .. Len(left), left[i] = u PROVE Contains(queue, u)
      <4>1. i + 1 \in 1 .. Len(queue) /\ queue[i + 1] = u
        BY <2>2, <3>2
      <4> QED
        BY <4>1 DEF Contains
    <3> QED
      BY <2>2, <3>1, <3>2 DEF Contains
  <2>5. Contains(queue, h)
    BY <2>2 DEF Contains
  <2>6. /\ WaitsIn(s, h) /\ h # Idle /\ ~Pending(h)
        /\ \A m \in Sides : WaitsIn(m, h) => m = s
    BY <1>0, <1>a, <2>2, <2>5
       DEF QueuesInv, TidyLists, Linked, WaitsIn, Sides, queue
  <2>7. /\ waiting' \in [Sides -> Seq(Task)] /\ waiting'[s] = left
        /\ \A m \in Sides : m # s => waiting'[m] = waiting[m]
    BY <1>0, <2>1, <2>2 DEF QueuesInv
  <2>8. ~Linked(h)'
    BY <1>a, <2>1, <2>3, <2>6, <2>7 DEF Linked, WaitsIn
  <2>9. \A u \in Task : u # h => \A m \in Sides :
                                    WaitsIn(m, u)' <=> WaitsIn(m, u)
    BY <1>a, <2>1, <2>4, <2>7 DEF WaitsIn, queue
  <2>10. /\ pending' \in Seq(Task)
         /\ \A u \in Task : u # h => (Pending(u)' <=> Pending(u))
         /\ IF uxSchedulerSuspended = 0 THEN ~Pending(h)' ELSE Pending(h)'
    <3>1. CASE uxSchedulerSuspended = 0
      BY <1>a, <2>1, <2>6, <3>1 DEF Pending
    <3>2. CASE uxSchedulerSuspended # 0
      <4>1. pending' = pending \o <<h>> /\ <<h>> \in Seq(Task)
        BY <2>1, <2>2, <3>2
      <4>2. ToSet(<<h>>) = {h}
        BY DEF ToSet
      <4>3. \A u : Contains(pending', u) <=> Contains(pending, u) \/ u = h
        BY <2>1, <4>1, <4>2, JoinedHas
      <4> QED
        BY <1>a, <2>1, <2>2, <3>2, <4>3 DEF Pending
    <3> QED
      BY <3>1, <3>2
  <2>11. TidyLists'
    <3>1. \A m \in Sides : Distinct(waiting'[m])
      BY <1>0, <1>a, <2>3, <2>7 DEF QueuesInv, TidyLists
    <3>2. \A u \in Task : WaitsIn("send", u)' => ~WaitsIn("receive", u)'
      BY <1>0, <1>a, <2>8, <2>9 DEF QueuesInv, TidyLists, Linked, Sides
    <3>3. ~Linked(Idle)'
      BY <1>0, <1>a, <2>6, <2>9, TasksAssumption
         DEF QueuesInv, TidyLists, Linked
    <3>4. \A u \in Task : Linked(u)' => ~Pending(u)'
      BY <1>0, <1>a, <2>8, <2>9, <2>10 DEF QueuesInv, TidyLists, Linked
    <3> QED
      BY <3>1, <3>2, <3>3, <3>4 DEF TidyLists
  <2> QED
    BY <1>0, <1>a, <2>1, <2>6, <2>7, <2>8, <2>9, <2>10, <2>11 DEF QueuesInv
<1>b. CASE ~Tidy
  <2> DEFINE new == IF uxSchedulerSuspended = 0 THEN Removed(Links, h)
                    ELSE InsertedAtEnd(Removed(Links, h), "pending", h)
  <2>1. tangle' = <<new>> /\ waiting' = waiting /\ pending' = pending
    BY <1>b DEF WakeHead
  <2>2. /\ DOMAIN new.in = Task
        /\ new.in[h] = IF uxSchedulerSuspended = 0 THEN Free ELSE "pending"
        /\ \A u \in Task : u # h => new.in[u] = Links.in[u]
    <3>1. DOMAIN Links.in = Task
      BY <1>0, <1>b DEF QueuesInv
    <3> QED
      BY <1>0, <3>1, RemovedIn, RelinkedIn
  <2> HIDE DEF new
  <2>3. ~Tidy' /\ Links' = new
    BY <2>1 DEF Tidy, Links
  <2>4. ASSUME NEW u \in Task
        PROVE  /\ \A m \in Sides : /\ WaitsIn(m, u) <=> Links.in[u] = m
                                   /\ WaitsIn(m, u)' <=> new.in[u] = m
               /\ Pending(u) <=> Links.in[u] = "pending"
               /\ Pending(u)' <=> new.in[u] = "pending"
    BY <1>b, <2>3, Zenon DEF WaitsIn, Pending
  <2>5. QueuesInv'
    BY <1>0, <2>1, <2>2, <2>3 DEF QueuesInv
  <2>6. Free \notin Sides /\ "pending" \notin Sides
    BY DEF Free, Sides
  <2>7. ~Linked(h)'
    BY <1>0, <2>2, <2>4, <2>6 DEF Linked
  <2> QED
    BY <1>0, <1>b, <2>2, <2>3, <2>4, <2>5, <2>7
<1> QED
  BY <1>a, <1>b

LEMMA RingAfterWakeIs ==
  ASSUME WaitInv, NEW s \in Sides, NEW h \in Task, h = HeadOf(s)
  PROVE  LET rings == RingAfterWake(s)
         IN  /\ GoodRings(rings) /\ In(rings, Ready(0), Idle)
             /\ \A l \in ListNames : \A u \in Task :
                  u # h \/ uxSchedulerSuspended # 0
                    => (In(rings, l, u) <=> In(ring, l, u))
             /\ uxSchedulerSuspended = 0 => /\ ~In(rings, Delayed, h)
                                            /\ ~In(rings, Overflow, h)
<1>1. GoodRings(ring) /\ In(ring, Ready(0), Idle)
      /\ uxPriority \in [Task -> Priorities] /\ uxPriority[Idle] = 0
  BY DEF WaitInv, KernelInv, ListsInv, TypesInv, DataTypes
<1>2. CASE uxSchedulerSuspended = 0
  <2>1. RingAfterWake(s) = ToReady(ring, h)
    BY <1>2 DEF RingAfterWake
  <2>2. Moved(ToReady(ring, h), ring, {h}, Home)
    BY <1>1, ToReadyIs
  <2>3. Home[h] \notin Sleeping /\ Home[Idle] = Ready(0)
    BY <1>1, Names, TasksAssumption DEF Home
  <2> QED
    BY <1>1, <1>2, <2>1, <2>2, <2>3, Names, TasksAssumption DEF Moved, Sleeping
<1>3. CASE uxSchedulerSuspended # 0
  BY <1>1, <1>3 DEF RingAfterWake
<1> QED
  BY <1>2, <1>3

LEMMA WakingIs ==
  ASSUME WaitInv, LockInv', NEW s \in Sides, ~NobodyIn(s), ~HeadIsMarker(s),
         WakeHead(s), Switched(RingAfterWake(s), uxSchedulerSuspended),
         UNCHANGED <<kernel, clock, uxSchedulerSuspended, panicked>>
  PROVE  /\ KernelInv' /\ QueuesInv'
         /\ Dispatched /\ \A u \in Task : Asleep(u)' => Asleep(u)
         /\ \A u \in Task : WokenUp(u)
<1> DEFINE rings == RingAfterWake(s)
<1> PICK h : h = HeadOf(s)
  OBVIOUS
<1>1. /\ h \in Task /\ ~Linked(h)' /\ QueuesInv'
      /\ Tidy => Linked(h)
      /\ uxSchedulerSuspended # 0 => Pending(h)'
      /\ Tidy /\ uxSchedulerSuspended = 0 => ~Pending(h)'
      /\ Tidy' <=> Tidy
      /\ \A u \in Task : u # h => /\ Linked(u)' <=> Linked(u)
                                  /\ Pending(u)' <=> Pending(u)
  BY WakeHeadIs DEF Linked
<1>2. /\ GoodRings(rings) /\ In(rings, Ready(0), Idle)
      /\ \A l \in ListNames : \A u \in Task :
           u # h \/ uxSchedulerSuspended # 0
             => (In(rings, l, u) <=> In(ring, l, u))
      /\ uxSchedulerSuspended = 0 => /\ ~In(rings, Delayed, h)
                                     /\ ~In(rings, Overflow, h)
  BY <1>1, RingAfterWakeIs
<1> HIDE DEF rings
<1>3. ListsInv' /\ Dispatched
  BY <1>2, SwitchedIs DEF WaitInv, rings
<1>4. KernelInv'
  BY <1>3 DEF Switched, WaitInv, KernelInv, TypesInv, TicksInv, tasks, clock,
              kernel
<1>5. \A l \in ListNames : \A u \in Task :
        In(ring', l, u) <=> In(rings, l, u)
  BY DEF Switched, rings
<1>6. \A u \in Task : Asleep(u)' => Asleep(u)
  BY <1>2, <1>5, Names DEF Asleep
<1>7. ASSUME NEW u \in Task PROVE WokenUp(u)
  <2>1. CASE u # h
    BY <1>1, <1>2, <1>5, <1>6, <2>1, Names DEF WokenUp, kernel
  <2>2. CASE u = h /\ uxSchedulerSuspended = 0
    <3>1. ~Asleep(u)' /\ ~Linked(u)'
      BY <1>1, <1>2, <1>5, <2>2, Names DEF Asleep
    <3> QED
      BY <1>1, <2>2, <3>1 DEF WokenUp
  <2>3. CASE u = h /\ uxSchedulerSuspended # 0
    BY <1>1, <1>2, <1>5, <1>6, <2>3, Names DEF WokenUp, kernel
  <2> QED
    BY <2>1, <2>2, <2>3
<1> QED
  BY <1>1, <1>3, <1>4, <1>6, <1>7

LEMMA CountIs ==
  ASSUME DataTypes, NEW which \in Ops, Available(which)
  PROVE  CountAfter(which) \in 0 .. uxLength
BY QueueAssumption DEF DataTypes, Ops, Available, CountAfter

LEMMA TransferKeeps ==
  ASSUME WaitInv, LockInv', NEW t \in Task, Transfer(t),
         ~HeadIsMarker(WakeSide(op[t]))
  PROVE  WaitInv' /\ \A u \in Task : WokenUp(u)
<1> DEFINE s == WakeSide(op[t])
<1>1. /\ t = current /\ pc[t] = "attempt" /\ Available(op[t])
      /\ uxMessagesWaiting' = CountAfter(op[t])
      /\ pc' = [pc EXCEPT ![t] = "run"] /\ op' = [op EXCEPT ![t] = "none"]
      /\ UNCHANGED <<kernel, clock, uxSchedulerSuspended, panicked, locks,
                     spins, interrupts, xTicksToWait, entered, outcome>>
  BY DEF Transfer, Executes, Return, Goto
<1>2. op[t] \in Ops /\ s \in Sides /\ ~Asleep(t)
  BY <1>1 DEF WaitInv, CallsExact, CallExact, RunnerAwake, Blocked, WakeSide,
              Sides
<1>3. /\ KernelInv' /\ QueuesInv'
      /\ Dispatched /\ \A u \in Task : Asleep(u)' => Asleep(u)
      /\ \A u \in Task : WokenUp(u)
  <2>1. CASE NobodyIn(s)
    <3>1. /\ UNCHANGED <<ring, wake, tasks, lastWake, current, clock, events,
                         xYieldPending, panicked>>
      BY <1>1, <2>1 DEF Transfer, NoSwitch, dispatch, kernel
    <3>2. xYieldPending' \in BOOLEAN /\ panicked' \in BOOLEAN
      BY <3>1 DEF WaitInv, KernelInv, TypesInv
    <3> QED
      BY <3>1, <3>2, QuietIs DEF Dispatched, Asleep
  <2>2. CASE ~NobodyIn(s)
    <3>1. WakeHead(s)
      BY <1>1, <2>2 DEF Transfer
    <3> PICK h : h = HeadOf(s)
      OBVIOUS
    <3> DEFINE rings == RingAfterWake(s)
    <3>2. h \in Task
      BY <1>2, <2>2, <3>1, WakeHeadIs
    <3>3. GoodRings(rings) /\ In(rings, Ready(0), Idle)
      BY <1>2, <3>2, RingAfterWakeIs
    <3>4. SwitchContext(rings, uxSchedulerSuspended) \/ NoSwitch(rings)
      BY <2>2 DEF Transfer
    <3>5. current \in Task /\ xYieldPending \in BOOLEAN
      BY DEF WaitInv, KernelInv, TypesInv
    <3> HIDE DEF rings
    <3>6. Switched(rings, uxSchedulerSuspended)
      BY <3>3, <3>4, <3>5, SwitchIs, NoSwitchIs
    <3> QED
      BY <1>1, <1>2, <2>2, <3>1, <3>6, WakingIs DEF rings
  <2> QED
    BY <2>1, <2>2
<1>4. DataTypes'
  <2>1. uxMessagesWaiting' \in 0 .. uxLength
    BY <1>1, <1>2, CountIs DEF WaitInv
  <2>2. op' \in [Task -> Ops \cup {"none"}] /\ uxPriority' = uxPriority
    BY <1>1 DEF WaitInv, DataTypes, kernel, tasks
  <2> QED
    BY <1>1, <2>1, <2>2 DEF WaitInv, DataTypes, locks
<1>5. CallsExact'
  BY <1>1 DEF WaitInv, CallsExact, CallExact, LockInv, Types, clock
<1>6. RunnerAwake'
  BY <1>1, <1>2, <1>3 DEF RunnerAwake, Dispatched
<1> QED
  BY <1>3, <1>4, <1>5, <1>6 DEF WaitInv

LEMMA IsrKeeps ==
  ASSUME WaitInv, LockInv', NEW which \in IsrCalls, IsrTransfer(which),
         interrupts' # interrupts
  PROVE  WaitInv' /\ \A u \in Task : WokenUp(u)
<1> DEFINE s == WakeSide(which)
<1>0. interrupts' = interrupts + 1
  BY DEF IsrTransfer, ipc
<1>1. /\ Available(which) /\ interrupts < IsrBound
      /\ interrupts' = interrupts + 1
      /\ uxMessagesWaiting' = CountAfter(which)
      /\ cTxLock' \in {cTxLock, cTxLock + 1}
      /\ cRxLock' \in {cRxLock, cRxLock + 1}
      /\ UNCHANGED <<kernel, current, pc, clock, uxSchedulerSuspended, panicked,
                     waits, spins>>
  BY DEF IsrTransfer, Interrupt, locks, ipc
<1>2. s \in Sides /\ which \in Ops
  BY QueueAssumption DEF WakeSide, Sides, Ops
<1>3. /\ KernelInv' /\ QueuesInv'
      /\ \A u \in Task : Asleep(u)' => Asleep(u)
      /\ \A u \in Task : WokenUp(u)
  <2>1. CASE UNCHANGED <<events, ring, xYieldPending>>
    <3>1. xYieldPending' \in BOOLEAN /\ panicked' \in BOOLEAN
      BY <1>1, <2>1 DEF WaitInv, KernelInv, TypesInv
    <3> QED
      BY <1>1, <2>1, <3>1, QuietIs DEF Asleep, kernel
  <2>2. CASE ~UNCHANGED <<events, ring, xYieldPending>>
    <3>1. /\ ~NobodyIn(s) /\ ~HeadIsMarker(s)
          /\ WakeHead(s) /\ ring' = RingAfterWake(s)
          /\ xYieldPending' = (xYieldPending \/ Preempts(HeadOf(s)))
      BY <2>2 DEF IsrTransfer, ipc
    <3> PICK h : h = HeadOf(s)
      OBVIOUS
    <3> DEFINE rings == RingAfterWake(s)
    <3>2. h \in Task
      BY <1>2, <3>1, WakeHeadIs
    <3>3. GoodRings(rings)
      BY <1>2, <3>2, RingAfterWakeIs
    <3>4. current \in Task /\ xYieldPending' \in BOOLEAN
      BY <3>1 DEF WaitInv, KernelInv, TypesInv
    <3>5. ring' = rings
      BY <3>1
    <3> HIDE DEF rings
    <3>6. Switched(rings, uxSchedulerSuspended)
      BY <1>1, <3>3, <3>4, <3>5 DEF Switched
    <3> HIDE DEF s
    <3> QED
      BY <1>1, <1>2, <3>1, <3>6, WakingIs DEF rings
  <2> QED
    BY <2>1, <2>2
<1>4. DataTypes'
  <2>1. uxMessagesWaiting' \in 0 .. uxLength
    BY <1>1, <1>2, CountIs DEF WaitInv
  <2>2. /\ interrupts' \in 0 .. IsrBound
        /\ cRxLock' \in -1 .. interrupts' /\ cTxLock' \in -1 .. interrupts'
    BY <1>1, QueueAssumption DEF WaitInv, DataTypes
  <2>3. uxPriority' = uxPriority
    BY <1>1 DEF kernel, tasks
  <2> QED
    BY <1>1, <2>1, <2>2, <2>3 DEF WaitInv, DataTypes, waits
<1>5. CallsExact'
  BY <1>1 DEF WaitInv, CallsExact, CallExact, clock, waits
<1>6. RunnerAwake'
  <2>1. current \in Task
    BY DEF WaitInv, KernelInv, TypesInv
  <2> QED
    BY <1>1, <1>3, <2>1 DEF WaitInv, RunnerAwake, Blocked, waits
<1> QED
  BY <1>3, <1>4, <1>5, <1>6 DEF WaitInv

LEMMA StepKeepsWaitInv ==
  ASSUME WaitInv, [IPCNext]_<<vars, ipc>>
  PROVE  WaitInv' /\ \A u \in Task : WokenUp(u)
<1>1. LockInv'
  BY StepKeepsLockInv DEF WaitInv
<1>2. CASE UNCHANGED <<vars, ipc>>
  <2>1. /\ KernelInv' /\ QueuesInv' /\ \A u \in Task : WokenUp(u)
    <3>1. xYieldPending' \in BOOLEAN /\ panicked' \in BOOLEAN
      BY <1>2 DEF vars, WaitInv, KernelInv, TypesInv
    <3> QED
      BY <1>1, <1>2, <3>1, QuietIs DEF vars, lists, ipc
  <2>2. DataTypes' /\ CallsExact'
    BY <1>2, OutsideIs DEF vars, clock, tasks, WaitInv, KernelInv, TicksInv
  <2>3. RunnerAwake'
    BY <1>2 DEF vars, lists, ipc, waits, WaitInv, RunnerAwake, Blocked, Asleep
  <2> QED
    BY <1>1, <2>1, <2>2, <2>3 DEF WaitInv
<1>3. ASSUME Tick, UNCHANGED ipc PROVE WaitInv' /\ \A u \in Task : WokenUp(u)
  BY <1>1, <1>3, TimeKeeps
<1>4. ASSUME NEW which \in IsrCalls, IsrTransfer(which) \/ IsrSpin(which)
      PROVE  WaitInv' /\ \A u \in Task : WokenUp(u)
  <2>1. CASE IsrTransfer(which) /\ interrupts' = interrupts
    <3>1. interrupts \in Nat
      BY QueueAssumption DEF WaitInv, DataTypes
    <3>2. Panic /\ UNCHANGED ipc
      BY <2>1, <3>1 DEF IsrTransfer
    <3> QED
      BY <1>1, <3>2, StoppingKeeps
  <2> QED
    BY <1>1, <1>4, <2>1, IsrKeeps, StoppingKeeps
<1>5. ASSUME NEW t \in Task, Step(t)
      PROVE  WaitInv' /\ \A u \in Task : WokenUp(u)
  <2>1. CASE Transfer(t)
    <3>1. CASE HeadIsMarker(WakeSide(op[t]))
      <4>1. Panic /\ UNCHANGED ipc
        BY <2>1, <3>1 DEF Transfer
      <4> QED
        BY <1>1, <4>1, StoppingKeeps
    <3> QED
      BY <1>1, <2>1, <3>1, TransferKeeps
  <2>2. CASE Panic /\ (UnlockTx(t) \/ UnlockRx(t) \/ PlaceOnEventList(t))
    <3>1. pc' = pc /\ pc \in [Task -> Labels]
      BY <2>2 DEF Panic, WaitInv, LockInv, Types
    <3>2. UNCHANGED ipc
      BY <2>2, <3>1 DEF UnlockTx, UnlockRx, PlaceOnEventList, Goto
    <3> QED
      BY <1>1, <2>2, <3>2, StoppingKeeps
  <2>3. CASE YieldWaiting(t)
    BY <1>1, <2>3, SwitchKeeps DEF YieldWaiting
  <2>4. CASE ~Panic /\ (UnlockTx(t) \/ UnlockRx(t) \/ PlaceOnEventList(t))
    BY <1>1, <2>4, PlacingKeeps, UnlockingKeeps
  <2>5. CASE \/ GiveUp(t) \/ PrepareToWait(t) \/ PeekSuspend(t) \/ LockQueue(t)
             \/ CheckForTimeOut(t) \/ TakeGuard(t) \/ Resume(t) \/ LastLook(t)
    BY <1>1, <2>5, ThinkingKeeps
  <2> QED
    BY <1>5, <2>1, <2>2, <2>3, <2>4, <2>5 DEF Step
<1>6. ASSUME NEW t \in Task, KernelStep(t)
      PROVE  WaitInv' /\ \A u \in Task : WokenUp(u)
  <2>1. UNCHANGED ipc
    BY <1>6 DEF KernelStep
  <2>2. CASE Yield(t) \/ TaskYield(t)
    BY <1>1, <2>1, <2>2, SwitchKeeps
  <2>3. ASSUME NEW n \in Delays, VTaskDelay(t, n)
        PROVE  WaitInv' /\ \A u \in Task : WokenUp(u)
    BY <1>1, <2>1, <2>3, SleepingKeeps, StoppingKeeps
  <2> QED
    BY <1>6, <2>2, <2>3 DEF KernelStep
<1>7. ASSUME NEW t \in Task, NEW which \in Ops, NEW n \in Waits[which],
             Begin(t, which, n)
      PROVE  WaitInv' /\ \A u \in Task : WokenUp(u)
  BY <1>1, <1>7, ThinkingKeeps
<1> QED
  BY <1>2, <1>3, <1>4, <1>5, <1>6, <1>7 DEF IPCNext

(* Every wakeup moves both items of a task: what leaves a wait list is     *)
(* ready or in the pending list, and, until an item is linked twice, what  *)
(* stops sleeping before its time leaves its wait list; whichever of tasks, *)
(* tick and interrupts wakes it, and however long the tasks wait.          *)
THEOREM WakesWhole == IPCSpec => WokenWhole
<1>1. WaitInv /\ [IPCNext]_<<vars, ipc>> => WaitInv'
  BY StepKeepsWaitInv
<1>2. ASSUME WaitInv, [IPCNext]_<<vars, ipc>>
      PROVE  [\A t \in Task :
                LET delisted == Linked(t) /\ ~Linked(t)'
                IN  /\ delisted => ~Asleep(t)' \/ Pending(t)'
                    /\ Tidy /\ Asleep(t) /\ ~Asleep(t)'
                         => wake[t] <= xTickCount' \/ delisted
             ]_<<vars, ipc>>
  <2>1. \A u \in Task : WokenUp(u)
    BY <1>2, StepKeepsWaitInv
  <2> QED
    BY <2>1 DEF WokenUp, Asleep
<1> QED
  BY <1>1, <1>2, InitWaitInv, PTL DEF IPCSpec, WokenWhole
-----------------------------------------------------------------------------
(* Tasks that wait for ever, or not at all.                                *)
WaitsForever == \A which \in Ops : Waits[which] \subseteq {0, PORT_MAX_DELAY}

ForeverCalls ==
  \A u \in Task :
    /\ xTicksToWait[u] \in {0, PORT_MAX_DELAY}
    /\ pc[u] \in {"suspend", "lock", "check", "place", "placing"}
         => xTicksToWait[u] = PORT_MAX_DELAY

(* A wait for ever ends in the overflow list, whose time does not come, or *)
(* in the delayed list at the last tick value.                             *)
NeverDue(u) ==
  In(ring, Overflow, u) \/ (In(ring, Delayed, u) /\ wake[u] = PORT_MAX_DELAY)

OnItsWay(u) == pc[u] \in {"yieldWaiting", "attempt"} \/ Blocked(u)

LinkedStay == \A u \in Task : Linked(u) => OnItsWay(u) /\ NeverDue(u)

(* Whose item has gone to the list of pending tasks never runs again.      *)
PendingStay == \A u \in Task : Pending(u) => NeverDue(u)

StayInv == WaitInv /\ Tidy /\ ForeverCalls /\ LinkedStay /\ PendingStay

LEMMA TidyHeads ==
  ASSUME StayInv, NEW s \in Sides
  PROVE  /\ NobodyIn(s) <=> waiting[s] = <<>>
         /\ HeadOf(s) = Head(waiting[s]) /\ ~HeadIsMarker(s)
<1>1. Tidy /\ waiting[s] \in Seq(Task)
  BY DEF StayInv, WaitInv, QueuesInv
<1> QED
  BY <1>1 DEF NobodyIn, HeadOf, HeadIsMarker

(* The task that places itself is in no list yet.                          *)
LEMMA PlacerIsFree ==
  ASSUME StayInv, NEW t \in Task, PlaceOnEventList(t)
  PROVE  Tidy /\ ~Linked(t) /\ ~Pending(t)
<1>1. t = current /\ pc[t] = "placing"
  BY DEF PlaceOnEventList, Executes
<1>2. ~Asleep(t)
  BY <1>1 DEF StayInv, WaitInv, RunnerAwake, Blocked
<1> QED
  BY <1>1, <1>2 DEF StayInv, LinkedStay, PendingStay, NeverDue, Asleep

LEMMA TidyKeeps ==
  ASSUME StayInv, [IPCNext]_<<vars, ipc>>
  PROVE  Tidy'
<1>1. ASSUME tangle' = tangle PROVE Tidy'
  BY <1>1 DEF StayInv, Tidy
<1>2. ASSUME NEW t \in Task, Step(t) PROVE tangle' = tangle
  <2>1. CASE PlaceOnEventList(t)
    <3>1. Tidy /\ ~Linked(t) /\ ~Pending(t)
      BY <2>1, PlacerIsFree
    <3> QED
      BY <2>1, <3>1 DEF PlaceOnEventList, PlaceIn, ipc, events
  <2>2. CASE Transfer(t) \/ UnlockTx(t) \/ UnlockRx(t)
    BY <2>2 DEF Transfer, UnlockTx, UnlockRx, UnlockWakes, WakeHead, StayInv,
                ipc, events
  <2>3. CASE UNCHANGED events
    BY <2>3 DEF events
  <2> QED
    BY <1>2, <2>1, <2>2, <2>3
       DEF Step, GiveUp, PrepareToWait, PeekSuspend, LockQueue, CheckForTimeOut,
           TakeGuard, Resume, YieldWaiting, LastLook, ipc
<1>3. ASSUME NEW which \in IsrCalls, IsrTransfer(which) \/ IsrSpin(which)
      PROVE  tangle' = tangle
  BY <1>3 DEF IsrTransfer, IsrSpin, WakeHead, StayInv, ipc, events
<1>4. CASE UNCHANGED ipc
  BY <1>1, <1>4 DEF ipc, events
<1>5. ASSUME NEW t \in Task, NEW which \in Ops, NEW n \in Waits[which],
             Begin(t, which, n)
      PROVE  tangle' = tangle
  BY <1>5 DEF Begin, events
<1> QED
  BY <1>1, <1>2, <1>3, <1>4, <1>5 DEF IPCNext, KernelStep

LEMMA ForeverKeeps ==
  ASSUME WaitsForever, StayInv, [IPCNext]_<<vars, ipc>>
  PROVE  ForeverCalls'
<1> USE DEF Executes, Goto, Return, waits, ipc
<1>1. /\ pc \in [Task -> Labels] /\ ForeverCalls
      /\ xTicksToWait \in [Task -> 0 .. PORT_MAX_DELAY]
      /\ PORT_MAX_DELAY \in Nat
  BY TasksAssumption DEF StayInv, WaitInv, LockInv, Types, DataTypes
<1>2. ASSUME pc' = pc, xTicksToWait' = xTicksToWait PROVE ForeverCalls'
  BY <1>1, <1>2 DEF ForeverCalls
<1>3. ASSUME NEW t \in Task, xTicksToWait' = xTicksToWait,
             NEW label \in Labels \ {"suspend", "lock", "check", "place",
                                     "placing"},
             pc' = [pc EXCEPT ![t] = label]
      PROVE  ForeverCalls'
  BY <1>1, <1>3 DEF ForeverCalls
<1>4. ASSUME NEW t \in Task, Step(t) PROVE ForeverCalls'
  <2>0. CASE Panic /\ UNCHANGED ipc
    BY <1>2, <2>0 DEF Panic
  <2>1. CASE PrepareToWait(t)
    BY <1>1, <2>1 DEF PrepareToWait, ForeverCalls
  <2>2. CASE PeekSuspend(t) \/ LockQueue(t) \/ TakeGuard(t)
    BY <1>1, <2>2 DEF PeekSuspend, LockQueue, TakeGuard, ForeverCalls
  <2>3. CASE CheckForTimeOut(t)
    <3>1. xTicksToWait[t] = PORT_MAX_DELAY
      BY <1>1, <2>3 DEF CheckForTimeOut, ForeverCalls
    <3>2. xTicksToWait' = xTicksToWait
      BY <1>1, <2>3, <3>1 DEF CheckForTimeOut
    <3> QED
      BY <1>1, <2>3, <3>1, <3>2 DEF CheckForTimeOut, ForeverCalls
  <2>4. CASE /\ \/ Transfer(t) \/ GiveUp(t) \/ Resume(t) \/ YieldWaiting(t)
                \/ LastLook(t) \/ UnlockTx(t) \/ UnlockRx(t)
             /\ ~(Panic /\ UNCHANGED ipc)
    <3>1. /\ xTicksToWait' = xTicksToWait
          /\ \E label \in {"run", "yieldWaiting", "attempt", "lastLook",
                           "unlockRx", "resume"} :
               pc' = [pc EXCEPT ![t] = label]
      BY <2>4 DEF Transfer, GiveUp, Resume, YieldWaiting, LastLook, UnlockTx,
         UnlockRx
    <3> QED
      BY <1>3, <3>1 DEF Labels
  <2>5. CASE PlaceOnEventList(t)
    <3>1. CASE Panic /\ UNCHANGED ipc
      BY <1>2, <3>1 DEF Panic
    <3>2. CASE /\ pc' = [pc EXCEPT ![t] = "unlockTx"]
               /\ xTicksToWait' = xTicksToWait
      BY <1>3, <3>2 DEF Labels
    <3> QED
      BY <2>5, <3>1, <3>2 DEF PlaceOnEventList
  <2> QED
    BY <1>4, <2>0, <2>1, <2>2, <2>3, <2>4, <2>5 DEF Step
<1>5. ASSUME NEW t \in Task, KernelStep(t) PROVE ForeverCalls'
  <2>1. CASE pc' = pc
    BY <1>2, <1>5, <2>1 DEF KernelStep
  <2>2. CASE \E label \in {"run", "yield"} : pc' = [pc EXCEPT ![t] = label]
    BY <1>3, <1>5, <2>2 DEF KernelStep, Labels
  <2> QED
    BY <1>5, <2>1, <2>2 DEF KernelStep, Yield, TaskYield, VTaskDelay, Panic
<1>6. ASSUME NEW t \in Task, NEW which \in Ops, NEW n \in Waits[which],
             Begin(t, which, n)
      PROVE  ForeverCalls'
  BY <1>1, <1>6 DEF Begin, ForeverCalls, WaitsForever
<1>7. CASE UNCHANGED <<vars, ipc>>
  BY <1>2, <1>7 DEF vars
<1>8. CASE \/ Tick /\ UNCHANGED ipc
           \/ \E which \in IsrCalls : IsrTransfer(which) \/ IsrSpin(which)
  BY <1>2, <1>8 DEF Tick, IsrTransfer, IsrSpin, Panic
<1> QED
  BY <1>4, <1>5, <1>6, <1>7, <1>8 DEF IPCNext

(* What a step leaves of a task that waits.                                *)
LEMMA WaitersKeep ==
  ASSUME StayInv, WaitInv', NEW u \in Task, WokenUp(u),
         Linked(u) \/ Pending(u), Linked(u)' \/ Pending(u)'
  PROVE  NeverDue(u)'
<1>1. /\ NeverDue(u) /\ ~(In(ring, Delayed, u) /\ In(ring, Overflow, u))
      /\ Linked(u) => ~Pending(u)
  BY Names DEF StayInv, LinkedStay, PendingStay, WaitInv, KernelInv, ListsInv,
               GoodRings, QueuesInv, TidyLists
<1>2. CASE In(ring, Delayed, u) /\ wake[u] <= xTickCount'
  <2>1. /\ xTickCount' \in Nat /\ xTickCount' <= TickBound
    <3>1. \A a, b \in Nat : a + b \in 0 .. TickBound => a <= TickBound
      BY TasksAssumption
    <3> QED
      BY <3>1 DEF WaitInv, KernelInv, TicksInv
  <2> QED
    BY <1>1, <1>2, <2>1, TasksAssumption DEF NeverDue
<1> QED
  BY <1>1, <1>2 DEF WokenUp, Asleep, NeverDue, StayInv

LEMMA OthersStay ==
  ASSUME StayInv, [IPCNext]_<<vars, ipc>>, NEW u \in Task, u # current
  PROVE  /\ pc'[u] = pc[u] /\ outcome'[u] = outcome[u]
         /\ op'[u] = op[u] /\ entered'[u] = entered[u]
<1> USE DEF Executes, Calls, Goto, Return, waits, ipc
<1> DEFINE Same == /\ pc'[u] = pc[u] /\ outcome'[u] = outcome[u]
                   /\ op'[u] = op[u] /\ entered'[u] = entered[u]
<1>1. /\ pc \in [Task -> Labels]
      /\ outcome \in [Task -> {"none", "expired", "retry", "blocked"}]
      /\ op \in [Task -> Ops \cup {"none"}]
      /\ entered \in [Task -> Unset .. PORT_MAX_DELAY]
  BY DEF StayInv, WaitInv, LockInv, Types, DataTypes
<1>2. ASSUME NEW t \in Task, Step(t)
      PROVE  Same
  <2>1. CASE Transfer(t) \/ GiveUp(t) \/ PrepareToWait(t) \/ PeekSuspend(t)
             \/ LockQueue(t) \/ CheckForTimeOut(t) \/ TakeGuard(t)
    BY <1>1, <2>1 DEF Transfer, GiveUp, PrepareToWait, PeekSuspend, LockQueue,
       CheckForTimeOut, TakeGuard, Panic
  <2>2. CASE UnlockTx(t) \/ UnlockRx(t) \/ Resume(t) \/ YieldWaiting(t)
             \/ LastLook(t) \/ PlaceOnEventList(t)
    BY <1>1, <2>2 DEF UnlockTx, UnlockRx, Resume, YieldWaiting, LastLook,
       PlaceOnEventList, Panic
  <2> QED
    BY <1>2, <2>1, <2>2 DEF Step
<1>3. ASSUME NEW t \in Task, KernelStep(t)
      PROVE  Same
  BY <1>1, <1>3 DEF KernelStep, Yield, TaskYield, VTaskDelay, Panic
<1>4. ASSUME NEW t \in Task, NEW which \in Ops, NEW n \in Waits[which],
             Begin(t, which, n)
      PROVE  Same
  BY <1>1, <1>4 DEF Begin
<1>5. CASE UNCHANGED <<vars, ipc>>
  BY <1>5 DEF vars
<1>6. CASE \/ Tick /\ UNCHANGED ipc
           \/ \E which \in IsrCalls : IsrTransfer(which) \/ IsrSpin(which)
  BY <1>6 DEF Tick, IsrTransfer, IsrSpin, Panic
<1> QED
  BY <1>2, <1>3, <1>4, <1>5, <1>6 DEF IPCNext

(* A task that runs although it waits is on its way to its yield.          *)
LEMMA RunnerStays ==
  ASSUME StayInv, [IPCNext]_<<vars, ipc>>, Linked(current)
  PROVE  /\ OnItsWay(current)
         /\ op'[current] = op[current] /\ entered'[current] = entered[current]
         /\ \/ pc'[current] \in {"yieldWaiting", "attempt"}
            \/ /\ pc'[current] \in {"unlockTx", "unlockRx", "resume"}
               /\ outcome'[current] = "blocked"
<1> USE DEF Executes, Calls, Goto, Return, waits, ipc
<1>1. /\ pc \in [Task -> Labels] /\ current \in Task
      /\ outcome \in [Task -> {"none", "expired", "retry", "blocked"}]
  BY DEF StayInv, WaitInv, LockInv, Types, DataTypes, KernelInv, TypesInv
<1>2. /\ OnItsWay(current) /\ Asleep(current)
  BY <1>1 DEF StayInv, LinkedStay, NeverDue, Asleep
<1>3. pc[current] = "yieldWaiting" \/ Blocked(current)
  BY <1>2 DEF StayInv, WaitInv, RunnerAwake, OnItsWay, Blocked
<1>4. CASE pc' = pc /\ outcome' = outcome /\ op' = op /\ entered' = entered
  BY <1>2, <1>4 DEF OnItsWay, Blocked
<1>5. ASSUME NEW t \in Task, Step(t), t = current
      PROVE  \/ YieldWaiting(t) \/ UnlockTx(t) \/ UnlockRx(t)
             \/ Resume(t) /\ outcome[t] = "blocked"
  BY <1>3, <1>5 DEF Blocked, Step, Transfer, GiveUp, PrepareToWait,
     PeekSuspend, LockQueue, CheckForTimeOut, TakeGuard, PlaceOnEventList,
     LastLook, UnlockTx, UnlockRx, Resume
<1>6. ASSUME NEW t \in Task, Step(t)
      PROVE  /\ op'[current] = op[current]
             /\ entered'[current] = entered[current]
             /\ \/ pc'[current] \in {"yieldWaiting", "attempt"}
                \/ /\ pc'[current] \in {"unlockTx", "unlockRx", "resume"}
                   /\ outcome'[current] = "blocked"
  <2>1. t = current
    BY <1>6 DEF Step, Transfer, GiveUp, PrepareToWait, PeekSuspend, LockQueue,
       CheckForTimeOut, TakeGuard, PlaceOnEventList, UnlockTx, UnlockRx,
       Resume, YieldWaiting, LastLook
  <2>2. CASE YieldWaiting(t)
    BY <1>1, <2>1, <2>2 DEF YieldWaiting
  <2>3. CASE UnlockTx(t) \/ UnlockRx(t)
    <3>1. ~UnlockPanics(cTxLock)
      BY DEF UnlockPanics, StayInv
    <3> QED
      BY <1>1, <1>3, <2>1, <2>3, <3>1 DEF UnlockTx, UnlockRx, Blocked
  <2>4. CASE Resume(t) /\ outcome[t] = "blocked"
    BY <1>1, <2>1, <2>4 DEF Resume
  <2> QED
    BY <1>5, <1>6, <2>1, <2>2, <2>3, <2>4
<1>7. ~\E t \in Task : \/ KernelStep(t)
                       \/ \E which \in Ops : \E n \in Waits[which] :
                            Begin(t, which, n)
  BY <1>3 DEF KernelStep, Yield, TaskYield, VTaskDelay, Begin, Blocked
<1>8. CASE UNCHANGED <<vars, ipc>>
  BY <1>4, <1>8 DEF vars
<1>9. CASE \/ Tick /\ UNCHANGED ipc
           \/ \E which \in IsrCalls : IsrTransfer(which) \/ IsrSpin(which)
  BY <1>4, <1>9 DEF Tick, IsrTransfer, IsrSpin, Panic
<1> QED
  BY <1>2, <1>6, <1>7, <1>8, <1>9 DEF IPCNext

(* A task enters its wait list in vTaskPlaceOnEventList only, and then its *)
(* other item is where the time does not find it.                          *)
LEMMA JoinersKeep ==
  ASSUME StayInv, LockInv', [IPCNext]_<<vars, ipc>>, NEW t \in Task,
         t = current, ~Linked(t), Linked(t)', pc[t] = "placing"
  PROVE  pc'[t] = "unlockTx" /\ outcome'[t] = "blocked" /\ NeverDue(t)'
<1>1. ~UNCHANGED events
  BY ListsKept
<1>2. PlaceOnEventList(t)
  <2>1. ASSUME NEW v \in Task, Step(v) PROVE PlaceOnEventList(t)
    BY <2>1 DEF Executes, Step, Transfer, GiveUp, PrepareToWait, PeekSuspend,
       LockQueue, CheckForTimeOut, TakeGuard, UnlockTx, UnlockRx, Resume,
       YieldWaiting, LastLook, PlaceOnEventList
  <2>2. ~UNCHANGED ipc
    BY <1>1 DEF ipc
  <2>3. ASSUME NEW which \in IsrCalls PROVE ~IsrTransfer(which) /\ ~IsrSpin(which)
    BY <1>1 DEF IsrTransfer, IsrSpin, GuardHeld
  <2>4. ASSUME NEW v \in Task, NEW which \in Ops, NEW n \in Waits[which]
        PROVE  ~Begin(v, which, n)
    BY DEF Begin, Executes
  <2> QED
    BY <2>1, <2>2, <2>3, <2>4 DEF IPCNext, KernelStep
<1>3. /\ AddCurrentToDelayed(xTicksToWait[t])
      /\ pc' = [pc EXCEPT ![t] = "unlockTx"]
      /\ UNCHANGED <<tasks, lastWake, dispatch, xTickCount, xPendedTicks,
                     elapsed, panicked, waits>>
  BY <1>1, <1>2 DEF PlaceOnEventList, Goto, ipc
<1>4. /\ t # Idle /\ outcome[t] = "blocked"
      /\ ~Asleep(current) /\ xTicksToWait[t] = PORT_MAX_DELAY
      /\ pc \in [Task -> Labels]
  BY DEF StayInv, WaitInv, KernelInv, TypesInv, CallsExact, CallExact,
         RunnerAwake, Blocked, ForeverCalls, LockInv, Types
<1>5. /\ PORT_MAX_DELAY \in Nat /\ xTickCount \in 0 .. PORT_MAX_DELAY
      /\ xTickCount < PORT_MAX_DELAY
  BY TasksAssumption DEF StayInv, WaitInv, KernelInv, TicksInv
<1>6. PICK time \in 0 .. PORT_MAX_DELAY, l \in Sleeping :
        /\ time = (PORT_MAX_DELAY + xTickCount) % (PORT_MAX_DELAY + 1)
        /\ SleepsUntil(time, l)
  BY <1>3, <1>4, <1>5, SleepIs DEF StayInv
<1>7. time = PORT_MAX_DELAY \/ time <= xTickCount
  <2> DEFINE M == PORT_MAX_DELAY
  <2>1. CASE xTickCount = 0
    BY <1>5, <1>6, <2>1, Remainder
  <2>2. CASE xTickCount > 0
    <3>1. M + xTickCount \in M + 1 .. M + M + 1
      BY <1>5, <2>2
    <3>2. time = (M + xTickCount) - (M + 1)
      BY <1>5, <1>6, <3>1, Remainder
    <3> QED
      BY <1>5, <3>2
  <2> QED
    BY <1>5, <2>1, <2>2
<1>8. /\ l = IF time > xTickCount THEN Delayed ELSE Overflow
      /\ In(ring', l, t) /\ wake'[t] = time
  <2>1. l \in ListNames /\ wake \in [Task -> 0 .. PORT_MAX_DELAY]
    BY Names DEF Sleeping, StayInv, WaitInv, KernelInv, TypesInv
  <2> QED
    BY <1>4, <1>6, <2>1 DEF SleepsUntil
<1>9. NeverDue(t)'
  BY <1>5, <1>7, <1>8 DEF NeverDue
<1> QED
  BY <1>3, <1>4, <1>9 DEF waits

LEMMA InitStayInv == IPCInit => StayInv
<1> SUFFICES ASSUME IPCInit PROVE StayInv
  OBVIOUS
<1>1. ForeverCalls
  BY DEF IPCInit, Init, ForeverCalls
<1>2. Tidy /\ LinkedStay /\ PendingStay
  BY DEF IPCInit, Tidy, LinkedStay, PendingStay, Linked, WaitsIn, Pending,
         Contains
<1> QED
  BY <1>1, <1>2, InitWaitInv DEF StayInv

LEMMA StepKeepsStayInv ==
  ASSUME WaitsForever, StayInv, [IPCNext]_<<vars, ipc>>
  PROVE  StayInv'
<1>1. WaitInv' /\ LockInv' /\ \A u \in Task : WokenUp(u)
  BY StepKeepsWaitInv DEF StayInv, WaitInv
<1>2. ForeverCalls' /\ Tidy'
  BY ForeverKeeps, TidyKeeps
<1>3. ASSUME NEW u \in Task, Linked(u)' PROVE OnItsWay(u)' /\ NeverDue(u)'
  <2>1. CASE Linked(u)
    <3>1. NeverDue(u)'
      BY <1>1, <1>3, <2>1, WaitersKeep
    <3>2. CASE u # current
      <4>1. OnItsWay(u)
        BY <2>1 DEF StayInv, LinkedStay
      <4>2. pc'[u] = pc[u] /\ outcome'[u] = outcome[u]
        BY <3>2, OthersStay
      <4> QED
        BY <3>1, <4>1, <4>2 DEF OnItsWay, Blocked
    <3>3. CASE u = current
      BY <2>1, <3>1, <3>3, RunnerStays DEF OnItsWay, Blocked
    <3> QED
      BY <3>2, <3>3
  <2>2. CASE ~Linked(u)
    <3>1. u = current /\ pc[u] = "placing"
      BY <1>1, <1>3, <2>2 DEF WokenUp
    <3>2. pc'[u] = "unlockTx" /\ outcome'[u] = "blocked" /\ NeverDue(u)'
      BY <1>1, <1>3, <2>2, <3>1, JoinersKeep
    <3> QED
      BY <3>2 DEF OnItsWay, Blocked
  <2> QED
    BY <2>1, <2>2
<1>4. ASSUME NEW u \in Task, Pending(u)' PROVE NeverDue(u)'
  <2>1. Pending(u) \/ Linked(u)
    BY <1>1, <1>2, <1>4 DEF WokenUp
  <2> QED
    BY <1>1, <1>4, <2>1, WaitersKeep
<1> QED
  BY <1>1, <1>2, <1>3, <1>4 DEF StayInv, LinkedStay, PendingStay

LEMMA WaitInvImplies == WaitInv => IPCTypeOK
<1> SUFFICES ASSUME WaitInv PROVE IPCTypeOK
  OBVIOUS
<1>1. DataTypes /\ QueuesInv /\ LockInv
  BY DEF WaitInv
<1>2. cRxLock \in -1 .. IsrBound /\ cTxLock \in -1 .. IsrBound
  BY <1>1, QueueAssumption DEF DataTypes
<1> QED
  BY <1>1, <1>2 DEF DataTypes, QueuesInv, LockInv, Types, IPCTypeOK

LEMMA StayInvImplies == StayInv => IPCInv /\ StaysTidy
<1> SUFFICES ASSUME StayInv PROVE IPCInv /\ StaysTidy
  OBVIOUS
<1>1. IPCTypeOK
  BY WaitInvImplies DEF StayInv
<1>2. \A t \in Task : Linked(t) => OnItsWay(t) /\ Asleep(t)
  BY DEF StayInv, LinkedStay, NeverDue, Asleep
<1> QED
  BY <1>1, <1>2
     DEF IPCInv, EventItemFree, WaitersAsleep, OnItsWay, Blocked, StayInv,
         StaysTidy

(* The types of the queue's data hold however long the tasks wait.         *)
THEOREM TypesAlways == IPCSpec => []IPCTypeOK
<1>1. WaitInv /\ [IPCNext]_<<vars, ipc>> => WaitInv'
  BY StepKeepsWaitInv
<1> QED
  BY <1>1, InitWaitInv, WaitInvImplies, PTL DEF IPCSpec

(* While the tasks wait for ever or not at all, no event item is left      *)
(* behind by an earlier wait: the task that blocks on the queue is linked  *)
(* in no wait list yet, the one that returns to its caller in none any     *)
(* more, whoever is linked sleeps, and no item is ever linked twice.       *)
(* (With a time to wait all this fails: see EventItemFree and StaysTidy.)  *)
THEOREM EventItemsStayFree ==
  ASSUME WaitsForever PROVE IPCSpec => [](IPCInv /\ StaysTidy)
<1>1. IPCInit => StayInv
  BY InitStayInv
<1>2. StayInv /\ [IPCNext]_<<vars, ipc>> => StayInv'
  BY StepKeepsStayInv
<1> QED
  BY <1>1, <1>2, StayInvImplies, PTL DEF IPCSpec
-----------------------------------------------------------------------------
(* A task in the senders' list is in a send that waits, and a send places  *)
(* itself there only when the queue is full: the lock and the suspended    *)
(* scheduler keep others from it since it looked.                          *)
SenderKnown(u) == WaitsIn("send", u) => op[u] = "send" /\ entered[u] # Unset

FullWhenPlacing(u) ==
  pc[u] \in {"place", "placing"} /\ op[u] = "send" => uxMessagesWaiting = uxLength

EntryTaken(u) == pc[u] \notin {"run", "yield", "attempt"} => entered[u] # Unset

SendersInv ==
  \A u \in Task : SenderKnown(u) /\ FullWhenPlacing(u) /\ EntryTaken(u)

ServeInv == StayInv /\ SendersInv /\ SendersServed

(* A task that comes back to the queue stays on its way, or finds it full. *)
GoesOnSending(t) ==
  op[t] = "send" /\ Returning(t)
    => uxMessagesWaiting = uxLength \/ (op'[t] = "send" /\ Returning(t)')

Quiet(t) == /\ uxMessagesWaiting' = uxMessagesWaiting
            /\ waiting'["send"] = waiting["send"]
            /\ GoesOnSending(t)

Joining(t) == PlaceOnEventList(t) /\ ~Panic /\ op[t] = "send"

LEMMA SenderStepIs ==
  ASSUME ServeInv, IsrCalls = {}, [IPCNext]_<<vars, ipc>>, NEW t \in Task,
         t = current
  PROVE  Quiet(t) \/ Transfer(t) \/ Joining(t)
<1> USE DEF Executes, Goto, Return, waits, ipc, events
<1>1. /\ pc \in [Task -> Labels] /\ op \in [Task -> Ops \cup {"none"}]
      /\ entered \in [Task -> Unset .. PORT_MAX_DELAY]
      /\ uxMessagesWaiting \in 0 .. uxLength /\ uxLength \in Nat
      /\ waiting \in [Sides -> Seq(Task)]
  BY QueueAssumption
     DEF ServeInv, StayInv, WaitInv, LockInv, Types, DataTypes, QueuesInv
<1>2. ASSUME uxMessagesWaiting' = uxMessagesWaiting, waiting' = waiting,
             pc' = pc, op' = op, entered' = entered
      PROVE  Quiet(t)
  BY <1>2 DEF Quiet, GoesOnSending, Returning
<1>3. ASSUME uxMessagesWaiting' = uxMessagesWaiting,
             waiting'["send"] = waiting["send"],
             pc[t] \notin {"yieldWaiting", "attempt"}
      PROVE  Quiet(t)
  BY <1>3 DEF Quiet, GoesOnSending, Returning
<1>4. ASSUME NEW v \in Task, Step(v)
      PROVE  Quiet(t) \/ Transfer(t) \/ Joining(t)
  <2>1. v = t
    BY <1>4 DEF Step, Transfer, GiveUp, PrepareToWait, PeekSuspend, LockQueue,
       CheckForTimeOut, TakeGuard, PlaceOnEventList, UnlockTx, UnlockRx,
       Resume, YieldWaiting, LastLook
  <2>2. CASE GiveUp(t) \/ PrepareToWait(t)
    <3>1. /\ ~Available(op[t]) /\ uxMessagesWaiting' = uxMessagesWaiting
          /\ waiting' = waiting
      BY <2>2 DEF GiveUp, PrepareToWait
    <3>2. op[t] = "send" => uxMessagesWaiting = uxLength
      BY <1>1, <3>1 DEF Available
    <3> QED
      BY <3>1, <3>2 DEF Quiet, GoesOnSending
  <2>3. CASE PeekSuspend(t) \/ LockQueue(t) \/ CheckForTimeOut(t)
             \/ TakeGuard(t) \/ Resume(t) \/ LastLook(t)
    BY <1>3, <2>3 DEF PeekSuspend, LockQueue, CheckForTimeOut, TakeGuard,
                      Resume, LastLook
  <2>4. CASE UnlockTx(t) \/ UnlockRx(t)
    <3>1. waiting'["send"] = waiting["send"]
      BY <1>1, <2>4
         DEF UnlockTx, UnlockRx, UnlockWakes, Sides, ServeInv, StayInv
    <3> QED
      BY <1>3, <2>4, <3>1 DEF UnlockTx, UnlockRx
  <2>5. CASE YieldWaiting(t)
    <3>1. /\ uxMessagesWaiting' = uxMessagesWaiting /\ waiting' = waiting
          /\ op' = op /\ entered' = entered /\ pc'[t] = "attempt"
      BY <1>1, <2>5 DEF YieldWaiting
    <3> QED
      BY <3>1 DEF Quiet, GoesOnSending, Returning
  <2>6. CASE PlaceOnEventList(t) /\ ~Joining(t)
    <3>1. CASE Panic
      BY <1>3, <2>6, <3>1 DEF PlaceOnEventList, Panic
    <3>2. CASE ~Panic /\ op[t] # "send"
      <4>1. waiting'["send"] = waiting["send"]
        BY <1>1, <2>6, <3>2, PlacerIsFree
           DEF PlaceOnEventList, PlaceIn, WaitSide, Sides, ServeInv
      <4> QED
        BY <1>3, <2>6, <3>2, <4>1 DEF PlaceOnEventList
    <3> QED
      BY <2>6, <3>1, <3>2 DEF Joining
  <2> QED
    BY <1>4, <2>1, <2>2, <2>3, <2>4, <2>5, <2>6 DEF Step
<1>5. ASSUME NEW v \in Task, KernelStep(v) PROVE Quiet(t)
  BY <1>3, <1>5 DEF KernelStep, Yield, TaskYield, VTaskDelay, Calls
<1>6. ASSUME NEW v \in Task, NEW which \in Ops, NEW n \in Waits[which],
             Begin(v, which, n)
      PROVE  Quiet(t)
  BY <1>3, <1>6 DEF Begin
<1>7. CASE UNCHANGED <<vars, ipc>>
  BY <1>2, <1>7 DEF vars
<1>8. CASE Tick /\ UNCHANGED ipc
  BY <1>2, <1>8 DEF Tick
<1> QED
  BY <1>4, <1>5, <1>6, <1>7, <1>8 DEF IPCNext

(* A task that is linked and comes to run is not at the queue yet.         *)
LEMMA LinkedRunner ==
  ASSUME StayInv, Linked(current)
  PROVE  pc[current] = "yieldWaiting" \/ Blocked(current)
<1>1. current \in Task
  BY DEF StayInv, WaitInv, KernelInv, TypesInv
<1>2. OnItsWay(current) /\ Asleep(current)
  BY <1>1 DEF StayInv, LinkedStay, NeverDue, Asleep
<1> QED
  BY <1>2 DEF StayInv, WaitInv, RunnerAwake, OnItsWay, Blocked

LEMMA EntryKeeps ==
  ASSUME StayInv, SendersInv, IsrCalls = {}, [IPCNext]_<<vars, ipc>>,
         NEW t \in Task, t = current
  PROVE  EntryTaken(t)'
<1> USE DEF Executes, Goto, Return, waits, ipc
<1>1. /\ pc \in [Task -> Labels] /\ EntryTaken(t)
      /\ entered \in [Task -> Unset .. PORT_MAX_DELAY]
      /\ xTickCount \in Nat
  BY DEF SendersInv, StayInv, WaitInv, LockInv, Types, DataTypes, KernelInv,
         TicksInv
<1>2. ASSUME pc' = pc, entered' = entered PROVE EntryTaken(t)'
  BY <1>1, <1>2 DEF EntryTaken
<1>3. ASSUME pc'[t] \in {"run", "yield", "attempt"} PROVE EntryTaken(t)'
  BY <1>3 DEF EntryTaken
<1>4. ASSUME pc[t] \notin {"run", "yield", "attempt"}, entered' = entered
      PROVE  EntryTaken(t)'
  BY <1>1, <1>4 DEF EntryTaken
<1>5. ASSUME NEW v \in Task, Step(v) PROVE EntryTaken(t)'
  <2>0. CASE Panic /\ UNCHANGED ipc
    BY <1>2, <2>0 DEF Panic
  <2>1. v = t
    BY <1>5 DEF Step, Transfer, GiveUp, PrepareToWait, PeekSuspend, LockQueue,
       CheckForTimeOut, TakeGuard, PlaceOnEventList, UnlockTx, UnlockRx,
       Resume, YieldWaiting, LastLook
  <2>2. CASE PrepareToWait(t)
    <3>1. entered'[t] # Unset
      BY <1>1, <2>2 DEF PrepareToWait, Unset
    <3> QED
      BY <3>1 DEF EntryTaken
  <2>3. CASE /\ Transfer(t) \/ GiveUp(t) \/ YieldWaiting(t)
             /\ ~(Panic /\ UNCHANGED ipc)
    BY <1>1, <1>3, <2>3 DEF Transfer, GiveUp, YieldWaiting
  <2>4. CASE PeekSuspend(t) \/ LockQueue(t) \/ CheckForTimeOut(t)
             \/ TakeGuard(t) \/ Resume(t) \/ LastLook(t) \/ UnlockTx(t)
             \/ UnlockRx(t) \/ PlaceOnEventList(t)
    BY <1>4, <2>4 DEF PeekSuspend, LockQueue, CheckForTimeOut, TakeGuard,
       Resume, LastLook, UnlockTx, UnlockRx, PlaceOnEventList
  <2> QED
    BY <1>5, <2>0, <2>1, <2>2, <2>3, <2>4 DEF Step
<1>6. ASSUME NEW v \in Task, KernelStep(v) PROVE EntryTaken(t)'
  BY <1>1, <1>2, <1>3, <1>6
     DEF KernelStep, Yield, TaskYield, VTaskDelay, Calls, Panic
<1>7. ASSUME NEW v \in Task, NEW which \in Ops, NEW n \in Waits[which],
             Begin(v, which, n)
      PROVE  EntryTaken(t)'
  BY <1>1, <1>3, <1>7 DEF Begin
<1>8. CASE UNCHANGED <<vars, ipc>> \/ (Tick /\ UNCHANGED ipc)
  BY <1>2, <1>8 DEF vars, Tick
<1> QED
  BY <1>5, <1>6, <1>7, <1>8 DEF IPCNext

LEMMA FullKeeps ==
  ASSUME StayInv, SendersInv, IsrCalls = {}, [IPCNext]_<<vars, ipc>>,
         NEW t \in Task, t = current
  PROVE  FullWhenPlacing(t)'
<1> USE DEF Executes, Goto, Return, waits, ipc
<1>1. /\ pc \in [Task -> Labels] /\ FullWhenPlacing(t)
      /\ outcome \in [Task -> {"none", "expired", "retry", "blocked"}]
      /\ uxMessagesWaiting \in 0 .. uxLength /\ uxLength \in Nat
  BY QueueAssumption
     DEF SendersInv, StayInv, WaitInv, LockInv, Types, DataTypes
<1>2. ASSUME pc' = pc, op' = op, uxMessagesWaiting' = uxMessagesWaiting
      PROVE  FullWhenPlacing(t)'
  BY <1>1, <1>2 DEF FullWhenPlacing
<1>3. ASSUME pc'[t] \notin {"place", "placing"} PROVE FullWhenPlacing(t)'
  BY <1>3 DEF FullWhenPlacing
<1>4. ASSUME NEW v \in Task, Step(v) PROVE FullWhenPlacing(t)'
  <2>0. CASE Panic /\ UNCHANGED ipc
    BY <1>2, <2>0 DEF Panic
  <2>1. v = t
    BY <1>4 DEF Step, Transfer, GiveUp, PrepareToWait, PeekSuspend, LockQueue,
       CheckForTimeOut, TakeGuard, PlaceOnEventList, UnlockTx, UnlockRx,
       Resume, YieldWaiting, LastLook
  <2>2. CASE CheckForTimeOut(t)
    <3>1. CASE outcome'[t] = "blocked"
      <4>1. ~Available(op[t])
        BY <1>1, <2>2, <3>1 DEF CheckForTimeOut
      <4> QED
        BY <1>1, <2>2, <4>1 DEF CheckForTimeOut, FullWhenPlacing, Available
    <3>2. CASE outcome'[t] # "blocked"
      BY <1>1, <1>3, <2>2, <3>2 DEF CheckForTimeOut
    <3> QED
      BY <3>1, <3>2
  <2>3. CASE TakeGuard(t)
    BY <1>1, <2>3 DEF TakeGuard, FullWhenPlacing
  <2>4. CASE /\ \/ Transfer(t) \/ GiveUp(t) \/ PrepareToWait(t)
                \/ PeekSuspend(t) \/ LockQueue(t) \/ UnlockTx(t)
                \/ UnlockRx(t) \/ YieldWaiting(t)
             /\ ~(Panic /\ UNCHANGED ipc)
    BY <1>1, <1>3, <2>4 DEF Transfer, GiveUp, PrepareToWait, PeekSuspend,
       LockQueue, UnlockTx, UnlockRx, YieldWaiting
  <2>5. CASE Resume(t) \/ LastLook(t)
    BY <1>1, <1>3, <2>5 DEF Resume, LastLook
  <2>6. CASE PlaceOnEventList(t)
    <3>1. CASE Panic /\ UNCHANGED ipc
      BY <1>2, <3>1 DEF Panic
    <3>2. CASE pc' = [pc EXCEPT ![t] = "unlockTx"]
      BY <1>1, <1>3, <3>2
    <3> QED
      BY <2>6, <3>1, <3>2 DEF PlaceOnEventList
  <2> QED
    BY <1>4, <2>0, <2>1, <2>2, <2>3, <2>4, <2>5, <2>6 DEF Step
<1>5. ASSUME NEW v \in Task, KernelStep(v) PROVE FullWhenPlacing(t)'
  BY <1>1, <1>2, <1>3, <1>5
     DEF KernelStep, Yield, TaskYield, VTaskDelay, Calls, Panic
<1>6. ASSUME NEW v \in Task, NEW which \in Ops, NEW n \in Waits[which],
             Begin(v, which, n)
      PROVE  FullWhenPlacing(t)'
  BY <1>1, <1>3, <1>6 DEF Begin
<1>7. CASE UNCHANGED <<vars, ipc>> \/ (Tick /\ UNCHANGED ipc)
  BY <1>2, <1>7 DEF vars, Tick
<1> QED
  BY <1>4, <1>5, <1>6, <1>7 DEF IPCNext

(* The messages and the senders' list after a call that goes through.      *)
LEMMA TransferIs ==
  ASSUME StayInv, NEW t \in Task, Transfer(t)
  PROVE  /\ t = current /\ pc[t] = "attempt" /\ ~Linked(t)
         /\ op[t] = "send" => uxMessagesWaiting' = uxMessagesWaiting + 1
         /\ op[t] = "peek" => uxMessagesWaiting' = uxMessagesWaiting
         /\ op[t] \in {"send", "peek"}
              => waiting'["send"] = waiting["send"]
         /\ op[t] = "receive" /\ waiting["send"] = <<>>
              => waiting'["send"] = <<>>
         /\ op[t] = "receive" /\ waiting["send"] # <<>>
              => /\ WakeHead("send") /\ uxSchedulerSuspended = 0
                 /\ uxMessagesWaiting' = uxMessagesWaiting - 1
         /\ op[t] \in Ops
<1>1. t = current /\ pc[t] = "attempt" /\ op[t] \in Ops
  BY DEF Transfer, Executes, StayInv, WaitInv, CallsExact, CallExact
<1>2. ~Linked(t) /\ uxSchedulerSuspended = 0
  BY <1>1, LinkedRunner, NotSuspended
     DEF Blocked, StayInv, WaitInv, SuspendedBy
<1>3. /\ waiting \in [Sides -> Seq(Task)] /\ Tidy
      /\ WakeSide(op[t]) \in Sides
  BY DEF StayInv, WaitInv, QueuesInv, WakeSide, Sides
<1>a. /\ ~HeadIsMarker(WakeSide(op[t]))
      /\ NobodyIn(WakeSide(op[t])) <=> waiting[WakeSide(op[t])] = <<>>
  BY <1>3, TidyHeads
<1>4. CASE op[t] # "receive"
  <2>1. waiting'["send"] = waiting["send"]
    BY <1>3, <1>4, <1>a DEF Transfer, WakeSide, WakeHead, events, Sides
  <2> QED
    BY <1>1, <1>2, <1>4, <1>a, <2>1 DEF Transfer, CountAfter, Ops
<1>5. CASE op[t] = "receive"
  BY <1>1, <1>2, <1>5, <1>a DEF Transfer, CountAfter, WakeSide, events
<1> QED
  BY <1>4, <1>5

(* Whoever is in the senders' list is a sender that has been counted in.   *)
LEMMA KnownKeeps ==
  ASSUME ServeInv, WaitInv', \A v \in Task : WokenUp(v), IsrCalls = {},
         [IPCNext]_<<vars, ipc>>, NEW u \in Task
  PROVE  SenderKnown(u)'
<1> SUFFICES ASSUME WaitsIn("send", u)'
             PROVE  op'[u] = "send" /\ entered'[u] # Unset
  BY DEF SenderKnown
<1> PICK t \in Task : t = current
  BY DEF ServeInv, StayInv, WaitInv, KernelInv, TypesInv
<1>1. StayInv /\ SenderKnown(u) /\ EntryTaken(u) /\ Tidy /\ Tidy'
  BY TidyKeeps DEF ServeInv, SendersInv, StayInv
<1>2. CASE WaitsIn("send", u)
  <2>1. Linked(u) /\ op[u] = "send" /\ entered[u] # Unset
    BY <1>1, <1>2 DEF SenderKnown, Linked, Sides
  <2>2. CASE u # current
    BY <1>1, <2>1, <2>2, OthersStay
  <2>3. CASE u = current
    BY <1>1, <2>1, <2>3, RunnerStays
  <2> QED
    BY <2>2, <2>3
<1>3. CASE ~WaitsIn("send", u)
  <2>1. waiting'["send"] # waiting["send"]
    BY <1>1, <1>3 DEF WaitsIn
  <2>2. ~Transfer(t)
    <3>1. SUFFICES ASSUME Transfer(t) PROVE FALSE
      OBVIOUS
    <3>2. op[t] = "receive" /\ waiting["send"] # <<>> /\ WakeHead("send")
      <4>1. waiting'["send"] # <<>>
        BY <1>1 DEF WaitsIn, Contains
      <4> QED
        BY <1>1, <2>1, <3>1, <4>1, TransferIs DEF Ops
    <3> PICK h : h = HeadOf("send")
      OBVIOUS
    <3>4. "send" \in Sides /\ ~NobodyIn("send") /\ ~HeadIsMarker("send")
      BY <1>1, <3>2, TidyHeads DEF Sides
    <3>3. /\ ~Linked(h)'
          /\ u # h => (WaitsIn("send", u)' <=> WaitsIn("send", u))
      BY <1>1, <3>2, <3>4, WakeHeadIs DEF StayInv, Sides
    <3> QED
      BY <1>3, <3>3 DEF Linked, Sides
  <2>3. Joining(t)
    BY <2>1, <2>2, SenderStepIs DEF Quiet
  <2>4. /\ op[t] = "send" /\ pc[t] = "placing" /\ op' = op
        /\ entered' = entered
    BY <2>1, <2>3 DEF Joining, PlaceOnEventList, waits, ipc, events
  <2>5. CASE u = t
    BY <1>1, <2>4, <2>5 DEF EntryTaken
  <2>6. CASE u # t
    <3>1. Linked(u)
      BY <2>6 DEF WokenUp, Linked, Sides
    <3>2. WaitsIn("receive", u)
      BY <1>3, <3>1 DEF Linked, Sides
    <3>3. waiting'["receive"] = waiting["receive"]
      BY <1>1, <2>1, <2>3, PlacerIsFree
         DEF Joining, PlaceOnEventList, PlaceIn, WaitSide, ipc, events,
             StayInv, WaitInv, QueuesInv, Sides
    <3>4. WaitsIn("receive", u)'
      BY <1>1, <3>2, <3>3 DEF WaitsIn
    <3> QED
      BY <1>1, <3>4 DEF WaitInv, QueuesInv, TidyLists
  <2> QED
    BY <2>5, <2>6
<1> QED
  BY <1>2, <1>3

LEMMA StepKeepsSendersInv ==
  ASSUME ServeInv, WaitInv', \A v \in Task : WokenUp(v), IsrCalls = {},
         [IPCNext]_<<vars, ipc>>
  PROVE  SendersInv'
<1> SUFFICES ASSUME NEW u \in Task
             PROVE  SenderKnown(u)' /\ FullWhenPlacing(u)' /\ EntryTaken(u)'
  BY DEF SendersInv
<1>1. SenderKnown(u)'
  BY KnownKeeps
<1>2. /\ StayInv /\ SendersInv
  BY DEF ServeInv
<1>3. CASE u = current
  BY <1>1, <1>2, <1>3, FullKeeps, EntryKeeps
<1>4. CASE u # current
  <2>1. /\ pc'[u] = pc[u] /\ op'[u] = op[u] /\ entered'[u] = entered[u]
    BY <1>2, <1>4, OthersStay
  <2>2. pc[u] \notin {"place", "placing"}
    BY <1>2, <1>4
       DEF StayInv, WaitInv, LockInv, OneSuspender, SuspendedBy
  <2>3. FullWhenPlacing(u)'
    BY <2>1, <2>2 DEF FullWhenPlacing
  <2>4. EntryTaken(u)'
    BY <1>2, <2>1 DEF EntryTaken, SendersInv
  <2> QED
    BY <1>1, <2>3, <2>4
<1> QED
  BY <1>3, <1>4

(* A woken sender that does not run stays woken.                           *)
LEMMA WokenStay ==
  ASSUME StayInv, \A v \in Task : WokenUp(v), [IPCNext]_<<vars, ipc>>
  PROVE  WokenToSend \ {current} \subseteq WokenToSend'
<1> SUFFICES ASSUME NEW u \in WokenToSend, u # current
             PROVE  u \in WokenToSend'
  OBVIOUS
<1>1. u \in Task /\ op[u] = "send" /\ Returning(u) /\ ~Linked(u) /\ ~Asleep(u)
  BY DEF WokenToSend
<1>2. pc'[u] = pc[u] /\ op'[u] = op[u] /\ entered'[u] = entered[u]
  BY <1>1, OthersStay
<1>3. ~Linked(u)' /\ ~Asleep(u)'
  BY <1>1 DEF WokenUp
<1> QED
  BY <1>1, <1>2, <1>3 DEF WokenToSend, Returning

(* The sender that is woken joins those on their way to the queue.         *)
LEMMA HeadIsWoken ==
  ASSUME ServeInv, \A v \in Task : WokenUp(v), [IPCNext]_<<vars, ipc>>,
         NEW t \in Task, Transfer(t), op[t] = "receive", waiting["send"] # <<>>,
         NEW h, h = Head(waiting["send"])
  PROVE  h \notin WokenToSend /\ h \in WokenToSend'
<1>1. StayInv /\ SendersInv
  BY DEF ServeInv
<1>2. /\ t = current /\ ~Linked(t) /\ WakeHead("send")
      /\ uxSchedulerSuspended = 0
  BY <1>1, TransferIs
<1>9. /\ "send" \in Sides /\ ~NobodyIn("send") /\ ~HeadIsMarker("send")
      /\ h = HeadOf("send") /\ Tidy
  BY <1>1, TidyHeads DEF Sides, StayInv
<1>3. h \in Task /\ WaitsIn("send", h) /\ ~Linked(h)'
  BY <1>1, <1>2, <1>9, WakeHeadIs DEF StayInv
<1>4. Linked(h) /\ h # current
  BY <1>2, <1>3 DEF Linked, Sides
<1>5. op[h] = "send" /\ entered[h] # Unset
  BY <1>1, <1>3 DEF SendersInv, SenderKnown
<1>6. pc[h] \in {"yieldWaiting", "attempt"}
  BY <1>1, <1>3, <1>4
     DEF StayInv, LinkedStay, OnItsWay, Blocked, WaitInv, LockInv,
         OneSuspender, SuspendedBy
<1>7. pc'[h] = pc[h] /\ op'[h] = op[h] /\ entered'[h] = entered[h]
  BY <1>1, <1>3, <1>4, OthersStay
<1>8. ~Asleep(h)'
  BY <1>2, <1>3, <1>4 DEF WokenUp
<1> QED
  BY <1>3, <1>4, <1>5, <1>6, <1>7, <1>8 DEF WokenToSend, Returning

LEMMA ServedKeeps ==
  ASSUME ServeInv, WaitInv', \A v \in Task : WokenUp(v), IsrCalls = {},
         [IPCNext]_<<vars, ipc>>, waiting'["send"] # <<>>
  PROVE  uxLength - uxMessagesWaiting' <= Cardinality(WokenToSend')
<1> PICK t \in Task : t = current
  BY DEF ServeInv, StayInv, WaitInv, KernelInv, TypesInv
<1> DEFINE W == WokenToSend
           V == WokenToSend'
           m == uxMessagesWaiting
           n == uxMessagesWaiting'
<1>1. /\ StayInv /\ SendersInv /\ W \ {t} \subseteq V
      /\ W \subseteq Task /\ V \subseteq Task /\ IsFiniteSet(Task)
  BY WokenStay, TasksAssumption DEF ServeInv, WokenToSend
<1>2. m \in 0 .. uxLength /\ n \in 0 .. uxLength /\ uxLength \in Nat
  BY <1>1, QueueAssumption DEF StayInv, WaitInv, DataTypes
<1>3. waiting["send"] # <<>> => uxLength - m <= Cardinality(W)
  BY <1>1, TidyHeads DEF ServeInv, SendersServed, Sides
<1>4. CASE m = uxLength /\ n = m
  <2> HIDE DEF V, m, n
  <2>1. IsFiniteSet(V)
    BY <1>1, FS_Subset
  <2>2. Cardinality(V) \in Nat
    BY <2>1, FS_CardinalityType
  <2> QED
    BY <1>2, <1>4, <2>2 DEF V, n
<1>5. CASE Quiet(t) /\ m # uxLength
  <2>1. waiting["send"] # <<>> /\ n = m
    BY <1>5 DEF Quiet
  <2>2. t \in W => t \in V
    <3>1. SUFFICES ASSUME t \in W PROVE t \in V
      OBVIOUS
    <3>2. op[t] = "send" /\ Returning(t) /\ ~Linked(t) /\ ~Asleep(t)
      BY <3>1 DEF WokenToSend
    <3>3. op'[t] = "send" /\ Returning(t)'
      BY <1>5, <3>2 DEF Quiet, GoesOnSending
    <3>4. pc[t] \notin {"run", "placing"}
      BY <3>2 DEF Returning
    <3>5. ~Linked(t)' /\ ~Asleep(t)'
      BY <3>2, <3>4 DEF WokenUp
    <3> QED
      BY <3>3, <3>5 DEF WokenToSend
  <2> HIDE DEF V, W, m, n
  <2>3. W \subseteq V
    BY <1>1, <2>2
  <2>4. IsFiniteSet(V)
    BY <1>1, FS_Subset
  <2>5. Cardinality(W) <= Cardinality(V)
    BY <2>3, <2>4, FS_Subset
  <2>6. IsFiniteSet(W)
    BY <2>3, <2>4, FS_Subset
  <2>7. Cardinality(V) \in Nat /\ Cardinality(W) \in Nat
    BY <2>4, <2>6, FS_CardinalityType
  <2> QED
    BY <1>2, <1>3, <2>1, <2>5, <2>7 DEF V, n
<1>6. CASE Transfer(t)
  <2>1. /\ waiting["send"] # <<>>
        /\ op[t] = "send" => n = m + 1
        /\ op[t] = "peek" => n = m
        /\ op[t] = "receive" => n = m - 1
        /\ op[t] \in {"send", "receive", "peek"}
    BY <1>1, <1>6, TransferIs DEF Ops
  <2>2. op[t] # "send" => t \notin W
    BY DEF WokenToSend
  <2>3. op[t] = "receive" => \E h : h \notin W /\ h \in V
    <3>1. SUFFICES ASSUME op[t] = "receive"
                   PROVE  \E h : h \notin W /\ h \in V
      OBVIOUS
    <3> PICK h : h = Head(waiting["send"])
      OBVIOUS
    <3> QED
      BY <1>6, <2>1, <3>1, HeadIsWoken
  <2> HIDE DEF V, W, m, n
  <2>4. IsFiniteSet(V) /\ IsFiniteSet(W)
    BY <1>1, FS_Subset
  <2>5. Cardinality(V) \in Nat /\ Cardinality(W) \in Nat
    BY <2>4, FS_CardinalityType
  <2>6. CASE op[t] = "send"
    <3> DEFINE X == W \ {t}
    <3>1. /\ IsFiniteSet(X)
          /\ Cardinality(X) = IF t \in W THEN Cardinality(W) - 1
                                         ELSE Cardinality(W)
      BY <2>4, FS_RemoveElement
    <3>2. X \subseteq V
      BY <1>1
    <3> HIDE DEF X
    <3>3. Cardinality(X) <= Cardinality(V) /\ Cardinality(X) \in Nat
      BY <2>4, <3>1, <3>2, FS_Subset, FS_CardinalityType
    <3> QED
      BY <1>2, <1>3, <2>1, <2>5, <2>6, <3>1, <3>3 DEF V, n
  <2>7. CASE op[t] = "peek"
    <3>1. W \subseteq V
      BY <1>1, <2>2, <2>7
    <3>2. Cardinality(W) <= Cardinality(V)
      BY <2>4, <3>1, FS_Subset
    <3> QED
      BY <1>2, <1>3, <2>1, <2>5, <2>7, <3>2 DEF V, n
  <2>8. CASE op[t] = "receive"
    <3> PICK h : h \notin W /\ h \in V
      BY <2>3, <2>8
    <3> DEFINE X == W \cup {h}
    <3>1. IsFiniteSet(X) /\ Cardinality(X) = Cardinality(W) + 1
      BY <2>4, <2>5, FS_AddElement
    <3>2. X \subseteq V
      BY <1>1, <2>2, <2>8
    <3> HIDE DEF X
    <3>3. Cardinality(X) <= Cardinality(V) /\ Cardinality(X) \in Nat
      BY <2>4, <3>1, <3>2, FS_Subset, FS_CardinalityType
    <3> QED
      BY <1>2, <1>3, <2>1, <2>5, <2>8, <3>1, <3>3 DEF V, n
  <2> QED
    BY <2>1, <2>6, <2>7, <2>8
<1>7. CASE Joining(t)
  <2>1. pc[t] = "placing" /\ op[t] = "send" /\ (n = m \/ UNCHANGED ipc)
    BY <1>7 DEF Joining, PlaceOnEventList
  <2>2. m = uxLength /\ n = m
    BY <1>1, <2>1 DEF SendersInv, FullWhenPlacing, ipc
  <2> QED
    BY <1>4, <2>2
<1>8. Quiet(t) => n = m
  BY DEF Quiet
<1> QED
  BY <1>4, <1>5, <1>6, <1>7, <1>8, SenderStepIs

(* No lost wakeup of a sender, when the tasks wait for ever or not at all  *)
(* and no interrupt uses the queue: while a task waits for space, the      *)
(* space there is has been promised to tasks woken for it and not yet at   *)
(* the queue.  (With interrupts it fails: see lost_sender.)                *)
THEOREM NoLostSender ==
  ASSUME WaitsForever, IsrCalls = {} PROVE IPCSpec => []SendersServed
<1>1. IPCInit => ServeInv
  <2> SUFFICES ASSUME IPCInit PROVE ServeInv
    OBVIOUS
  <2>1. StayInv
    BY InitStayInv
  <2>2. SendersInv
    BY DEF IPCInit, Init, SendersInv, SenderKnown, FullWhenPlacing, EntryTaken,
           WaitsIn, Contains, Sides, Tidy
  <2>3. SendersServed
    BY DEF IPCInit, SendersServed, Sides, NobodyIn, Tidy
  <2> QED
    BY <2>1, <2>2, <2>3 DEF ServeInv
<1>2. ServeInv /\ [IPCNext]_<<vars, ipc>> => ServeInv'
  <2> SUFFICES ASSUME ServeInv, [IPCNext]_<<vars, ipc>> PROVE ServeInv'
    OBVIOUS
  <2>1. WaitInv' /\ \A v \in Task : WokenUp(v)
    BY StepKeepsWaitInv DEF ServeInv, StayInv
  <2>2. StayInv'
    BY StepKeepsStayInv DEF ServeInv
  <2>3. SendersInv'
    BY <2>1, StepKeepsSendersInv
  <2>4. SendersServed'
    <3>1. ~NobodyIn("send")' => waiting'["send"] # <<>>
      BY <2>2 DEF StayInv, NobodyIn
    <3> QED
      BY <2>1, <3>1, ServedKeeps DEF SendersServed
  <2> QED
    BY <2>2, <2>3, <2>4 DEF ServeInv
<1>3. ServeInv => SendersServed
  BY DEF ServeInv
<1> QED
  BY <1>1, <1>2, <1>3, PTL DEF IPCSpec

-----------------------------------------------------------------------------
(***************************************************************************)
(* Proofs about module EventGroup, for any number of tasks, any bits and   *)
(* any times to wait: a task in its wait sleeps in the group's list until  *)
(* a set, a delete or its time wakes it; a set wakes all it should; what a *)
(* woken task returns meets its condition.                                 *)
(***************************************************************************)

GroupLabels == {"run", "yield", "testBits", "yieldBits", "takeBits", "setBits",
                "deleteGroup"}

(* A walk along tangled links keeps the scheduler suspended.               *)
Walks(t) == pc[t] \in {"setBits", "deleteGroup"}

WalkInv ==
  /\ uxSchedulerSuspended = IF Walks(current) THEN 1 ELSE 0
  /\ \A t \in Task : Walks(t) => t = current /\ ~GroupTidy

GroupTypes ==
  /\ pc \in [Task -> GroupLabels]
  /\ \A t \in Task : pc[t] \in {"testBits", "yieldBits", "takeBits"} => t # Idle
  /\ uxPriority[Idle] = 0
  /\ xTasksWaitingForBits \in Seq(Task)
  /\ ~GroupTidy => DOMAIN GroupLinks.in = Task
  /\ uxEventBits \subseteq Bits
  /\ item \in [Task -> [bits : SUBSET (Bits \cup {IN_USE}), all : BOOLEAN,
                        clear : BOOLEAN, unblocked : BOOLEAN]]
  /\ call \in [Task -> [bits : SUBSET Bits, all : BOOLEAN, clear : BOOLEAN,
                        ticks : 0 .. PORT_MAX_DELAY]]

(* The running task sleeps only on its way to its yield.                   *)
CallerAwake == Asleep(current) => pc[current] \in {"yield", "yieldBits"}

(* The event item of a task that waits holds what it waits for.            *)
ItemHolds(t) ==
  InWait(t) /\ (WaitsForBits(t) \/ ~item[t].unblocked)
    => item[t] = Value(call[t].bits \cup {IN_USE}, call[t].all, call[t].clear,
                       FALSE)

Sleeps(t) ==
  InWait(t) /\ ~item[t].unblocked
    => \/ WaitsForBits(t) /\ Asleep(t) /\ (call[t].ticks = PORT_MAX_DELAY => NeverDue(t))
       \/ call[t].ticks < PORT_MAX_DELAY /\ wake[t] <= xTickCount

GroupInv ==
  /\ KernelInv /\ GroupTypes /\ WalkInv /\ CallerAwake /\ ~WaitsForBits(Idle)
  /\ \A t \in Task : ItemHolds(t) /\ Sleeps(t)
-----------------------------------------------------------------------------
LEMMA UpTo ==
  ASSUME NEW at, IsFiniteSet(at), NEW i \in Nat
  PROVE  /\ IsFiniteSet(at \cap 1 .. i) /\ Cardinality(at \cap 1 .. i) \in Nat
         /\ Cardinality(at \cap 1 .. i) <= Cardinality(at)
         /\ i > 0 => Cardinality(at \cap 1 .. i)
                       = Cardinality(at \cap 1 .. i - 1)
                           + (IF i \in at THEN 1 ELSE 0)
<1>1. IsFiniteSet(at \cap 1 .. i) /\ Cardinality(at \cap 1 .. i) <= Cardinality(at)
  <2> DEFINE T == at \cap 1 .. i
  <2>1. T \subseteq at
    OBVIOUS
  <2> HIDE DEF T
  <2>2. IsFiniteSet(T) /\ Cardinality(T) <= Cardinality(at)
    BY <2>1, FS_Subset
  <2> QED
    BY <2>2 DEF T
<1>2. Cardinality(at \cap 1 .. i) \in Nat
  BY <1>1, FS_CardinalityType
<1>3. ASSUME i > 0
      PROVE  Cardinality(at \cap 1 .. i) = Cardinality(at \cap 1 .. i - 1)
                                             + (IF i \in at THEN 1 ELSE 0)
  <2> DEFINE S == at \cap 1 .. i - 1
             T == at \cap 1 .. i
  <2>1. S \subseteq T /\ i \notin S
    BY <1>3
  <2>2. T = IF i \in at THEN S \cup {i} ELSE S
    BY <1>3
  <2>3. IsFiniteSet(T)
    BY <1>1
  <2> HIDE DEF S, T
  <2>4. IsFiniteSet(S) /\ Cardinality(S) \in Nat
    BY <2>1, <2>3, FS_Subset, FS_CardinalityType
  <2>5. IsFiniteSet(S \cup {i}) /\ Cardinality(S \cup {i}) = Cardinality(S) + 1
    BY <2>1, <2>4, FS_AddElement
  <2>6. Cardinality(T) = Cardinality(S) + (IF i \in at THEN 1 ELSE 0)
    BY <2>2, <2>4, <2>5
  <2> QED
    BY <2>6 DEF S, T
<1> QED
  BY <1>1, <1>2, <1>3

(* The tasks of a list that are in a set are just those.                   *)
LEMMA ListedIs ==
  ASSUME NEW queue \in Seq(Task), NEW set
  PROVE  /\ Listed(queue, set) \in Seq(Task)
         /\ \A u : Contains(Listed(queue, set), u)
                     <=> u \in set /\ Contains(queue, u)
<1> DEFINE at == {i \in 1 .. Len(queue) : queue[i] \in set}
           n == Cardinality(at)
           rank(i) == Cardinality(at \cap 1 .. i)
           place(k) == CHOOSE i \in at : rank(i) = k
           new == Listed(queue, set)
<1>1. /\ Len(queue) \in Nat /\ \A i \in 1 .. Len(queue) : queue[i] \in Task
      /\ at \subseteq 1 .. Len(queue)
      /\ \A i \in 1 .. Len(queue) : i \in at <=> queue[i] \in set
  OBVIOUS
<1>2. new = [k \in 1 .. n |-> queue[place(k)]]
  BY DEF Listed
<1> HIDE DEF at, new
<1>3. IsFiniteSet(at) /\ n \in Nat /\ at \cap 1 .. Len(queue) = at
      /\ at \cap 1 .. 0 = {}
  <2> DEFINE all == 1 .. Len(queue)
  <2>1. IsFiniteSet(all)
    BY <1>1, FS_Interval
  <2>2. at \subseteq all
    BY <1>1
  <2>3. at \cap 1 .. 0 = {}
    <3>1. 1 .. 0 = {}
      OBVIOUS
    <3> QED
      BY <3>1
  <2> HIDE DEF all
  <2>6. at \cap all = at
    BY <2>2
  <2>4. IsFiniteSet(at)
    BY <2>1, <2>2, FS_Subset
  <2>5. n \in Nat
    BY <2>4, FS_CardinalityType
  <2> QED
    BY <2>3, <2>4, <2>5, <2>6 DEF all
<1>4. /\ \A i \in Nat : rank(i) \in Nat /\ rank(i) <= n
      /\ \A i \in Nat : i > 0 => rank(i) = rank(i - 1)
                                             + (IF i \in at THEN 1 ELSE 0)
  BY <1>3, UpTo
<1>5. rank(Len(queue)) = n /\ rank(0) = 0
  BY <1>3, FS_EmptySet
<1> HIDE DEF n, rank
<1>6. ASSUME NEW k \in 1 .. n PROVE \E i \in at : rank(i) = k
  <2> DEFINE Reached == {i \in Nat : i <= Len(queue) /\ rank(i) >= k}
  <2>1. Reached \subseteq Nat /\ Len(queue) \in Reached
    BY <1>1, <1>3, <1>5, <1>6
  <2> HIDE DEF Reached
  <2>2. PICK i \in Reached : \A j \in Reached : i <= j
    BY <2>1, LeastNumber
  <2>3. i \in Nat /\ i <= Len(queue) /\ rank(i) >= k
    BY <2>2 DEF Reached
  <2>4. i > 0
    BY <1>5, <1>6, <2>3
  <2>5. ~(rank(i - 1) >= k)
    <3>1. i - 1 \in Nat /\ i - 1 <= Len(queue) /\ ~(i <= i - 1)
      BY <1>1, <2>3, <2>4
    <3> QED
      BY <2>2, <3>1 DEF Reached
  <2>6. /\ rank(i) = rank(i - 1) + (IF i \in at THEN 1 ELSE 0)
        /\ rank(i) \in Nat /\ rank(i - 1) \in Nat /\ n \in Nat
    BY <1>3, <1>4, <2>3, <2>4
  <2> QED
    BY <1>6, <2>3, <2>5, <2>6
<1>7. ASSUME NEW i \in at, NEW j \in at, i < j PROVE rank(i) < rank(j)
  <2>1. i \in Nat /\ j \in Nat /\ j > 0 /\ j - 1 \in Nat /\ i <= j - 1
    BY <1>1, <1>7
  <2>2. rank(j) = rank(j - 1) + 1
    BY <1>4, <2>1
  <2>3. rank(i) <= rank(j - 1)
    <3> DEFINE S == at \cap 1 .. i
               T == at \cap 1 .. j - 1
    <3>1. S \subseteq T
      BY <2>1
    <3>2. IsFiniteSet(T)
      BY <1>3, <2>1, UpTo
    <3> HIDE DEF S, T
    <3>3. Cardinality(S) <= Cardinality(T)
      BY <3>1, <3>2, FS_Subset
    <3> QED
      BY <3>3 DEF S, T, rank
  <2> QED
    BY <1>4, <2>1, <2>2, <2>3
<1>8. ASSUME NEW i \in at PROVE rank(i) \in 1 .. n /\ place(rank(i)) = i
  <2>1. i \in Nat /\ i > 0 /\ i - 1 \in Nat
    BY <1>1
  <2>2. rank(i) = rank(i - 1) + 1
    BY <1>4, <2>1
  <2>3. rank(i) \in 1 .. n
    BY <1>3, <1>4, <2>1, <2>2
  <2>4. ASSUME NEW j \in at, rank(j) = rank(i) PROVE j = i
    <3>1. j \in Nat /\ rank(i) \in Nat
      BY <1>1, <1>4, <2>1
    <3> QED
      BY <1>7, <2>1, <2>4, <3>1
  <2> QED
    BY <2>3, <2>4
<1>9. \A k \in 1 .. n : place(k) \in at /\ place(k) \in 1 .. Len(queue)
  BY <1>1, <1>6
<1> HIDE DEF place
<1>10. /\ new \in Seq(Task) /\ Len(new) = n
       /\ \A k \in 1 .. n : new[k] = queue[place(k)]
  BY <1>1, <1>2, <1>3, <1>9
<1>11. ASSUME NEW u PROVE Contains(new, u) <=> u \in set /\ Contains(queue, u)
  <2>1. ASSUME NEW k \in 1 .. n, new[k] = u
        PROVE  u \in set /\ Contains(queue, u)
    BY <1>1, <1>9, <1>10, <2>1 DEF Contains
  <2>2. ASSUME u \in set, NEW i \in 1 .. Len(queue), queue[i] = u
        PROVE  Contains(new, u)
    <3>1. i \in at
      BY <1>1, <2>2
    <3> QED
      BY <1>8, <1>10, <2>2, <3>1 DEF Contains
  <2> QED
    BY <1>10, <2>1, <2>2 DEF Contains
<1> QED
  BY <1>10, <1>11 DEF new
-----------------------------------------------------------------------------
LEMMA InitGroupInv == GroupInit => GroupInv
<1> SUFFICES ASSUME GroupInit PROVE GroupInv
  OBVIOUS
<1>1. SchedInv
  BY InitKeeps DEF GroupInit
<1>2. GroupTypes
  <2>1. item \in [Task -> [bits : SUBSET (Bits \cup {IN_USE}), all : BOOLEAN,
                           clear : BOOLEAN, unblocked : BOOLEAN]]
    BY GroupAssumption DEF GroupInit, ResetValue, Value
  <2>2. call \in [Task -> [bits : SUBSET Bits, all : BOOLEAN, clear : BOOLEAN,
                           ticks : 0 .. PORT_MAX_DELAY]]
    <3>1. 0 \in 0 .. PORT_MAX_DELAY
      BY TasksAssumption
    <3> QED
      BY <3>1 DEF GroupInit, NoCall
  <2>3. pc \in [Task -> GroupLabels] /\ uxPriority[Idle] = 0 /\ GroupTidy
    BY TasksAssumption DEF GroupInit, Init, GroupLabels, GroupTidy
  <2> QED
    BY <2>1, <2>2, <2>3 DEF GroupInit, Init, GroupTypes
<1>6. WalkInv
  BY <1>1 DEF GroupInit, Init, WalkInv, Walks, SchedInv, KernelInv, TypesInv
<1>3. CallerAwake
  BY <1>1 DEF GroupInit, Init, CallerAwake, SchedInv, CallsInv, SleepersStop,
              KernelInv, TypesInv
<1>4. \A t \in Task : ItemHolds(t) /\ Sleeps(t)
  BY DEF GroupInit, Init, ItemHolds, Sleeps, InWait
<1>5. ~WaitsForBits(Idle)
  BY DEF GroupInit, WaitsForBits, GroupTidy, Contains
<1> QED
  BY <1>1, <1>2, <1>3, <1>4, <1>5, <1>6 DEF GroupInv, SchedInv

(* The group's list is left alone.                                         *)
LEMMA ListedKept ==
  ASSUME UNCHANGED listed
  PROVE  /\ GroupTidy' <=> GroupTidy
         /\ GroupLinks' = GroupLinks
         /\ xTasksWaitingForBits' = xTasksWaitingForBits
         /\ \A u : WaitsForBits(u)' <=> WaitsForBits(u)
BY DEF listed, GroupTidy, GroupLinks, WaitsForBits

LEMMA TicksBelow ==
  ASSUME KernelInv
  PROVE  xTickCount \in Nat /\ xTickCount < PORT_MAX_DELAY
<1>1. \A a, b \in Nat : a + b \in 0 .. TickBound => a <= TickBound
  BY TasksAssumption
<1>2. xTickCount \in Nat /\ xTickCount <= TickBound
  BY <1>1 DEF KernelInv, TicksInv
<1> QED
  BY <1>2, TasksAssumption

LEMMA NotInBoth ==
  ASSUME KernelInv, NEW u \in Task
  PROVE  ~(In(ring, Delayed, u) /\ In(ring, Overflow, u))
BY Names DEF KernelInv, ListsInv, GoodRings

(* A step that leaves a task's wait alone: it sleeps on or is due.         *)
Dozes(u) == /\ In(ring', Delayed, u) <=> In(ring, Delayed, u)
            /\ In(ring', Overflow, u) <=> In(ring, Overflow, u)

LEMMA OthersHold ==
  ASSUME GroupInv, KernelInv', NEW u \in Task,
         item'[u] = item[u], call'[u] = call[u], WaitsForBits(u)' <=> WaitsForBits(u),
         InWait(u)' => InWait(u), wake'[u] = wake[u], xTickCount <= xTickCount',
         \/ Dozes(u)
         \/ In(ring, Delayed, u) /\ wake[u] <= xTickCount'
  PROVE  ItemHolds(u)' /\ Sleeps(u)'
<1>1. ItemHolds(u)'
  BY DEF GroupInv, ItemHolds
<1>2. /\ xTickCount \in Nat /\ xTickCount' \in Nat
      /\ xTickCount' < PORT_MAX_DELAY /\ PORT_MAX_DELAY \in Nat
      /\ wake[u] \in 0 .. PORT_MAX_DELAY /\ call[u].ticks \in 0 .. PORT_MAX_DELAY
  <2>1. \A a, b \in Nat : a + b \in 0 .. TickBound => a < PORT_MAX_DELAY
    BY TasksAssumption
  <2>2. xTickCount' \in Nat /\ xTickCount' < PORT_MAX_DELAY
    BY <2>1 DEF KernelInv, TicksInv
  <2>3. xTickCount \in Nat
    BY DEF GroupInv, KernelInv, TicksInv
  <2> QED
    BY <2>2, <2>3, TasksAssumption
       DEF GroupInv, KernelInv, TypesInv, GroupTypes
<1>3. Sleeps(u)'
  <2> SUFFICES ASSUME InWait(u), ~item[u].unblocked
               PROVE  \/ /\ WaitsForBits(u) /\ Asleep(u)'
                         /\ call[u].ticks = PORT_MAX_DELAY => NeverDue(u)'
                      \/ call[u].ticks < PORT_MAX_DELAY /\ wake[u] <= xTickCount'
    BY DEF Sleeps
  <2>1. CASE call[u].ticks < PORT_MAX_DELAY /\ wake[u] <= xTickCount
    BY <1>2, <2>1
  <2>2. CASE /\ WaitsForBits(u) /\ Asleep(u)
             /\ call[u].ticks = PORT_MAX_DELAY => NeverDue(u)
    <3>1. CASE Dozes(u)
      BY <2>2, <3>1 DEF Dozes, Asleep, NeverDue
    <3>2. CASE In(ring, Delayed, u) /\ wake[u] <= xTickCount'
      <4>1. call[u].ticks # PORT_MAX_DELAY
        BY <1>2, <2>2, <3>2, NotInBoth DEF NeverDue, GroupInv
      <4> QED
        BY <1>2, <3>2, <4>1
    <3> QED
      BY <3>1, <3>2
  <2> QED
    BY <2>1, <2>2 DEF GroupInv, Sleeps
<1> QED
  BY <1>1, <1>3

(* The scheduler's data are left alone.                                    *)
LEMMA StillKernel ==
  ASSUME KernelInv, uxSchedulerSuspended' \in {0, 1, uxSchedulerSuspended},
         xYieldPending' \in BOOLEAN, panicked' \in BOOLEAN,
         UNCHANGED <<ring, frame, current, clock>>
  PROVE  KernelInv' /\ \A u \in Task : Dozes(u) /\ (Asleep(u)' <=> Asleep(u))
<1>1. /\ ring' = ring /\ wake' = wake /\ current' = current
      /\ uxPriority' = uxPriority /\ handlePriority' = handlePriority
      /\ lastWake' = lastWake /\ xTickCount' = xTickCount
      /\ xNextTaskUnblockTime' = xNextTaskUnblockTime
      /\ xPendedTicks' = xPendedTicks /\ elapsed' = elapsed
  BY DEF tasks, clock, frame
<1>2. uxSchedulerSuspended' \in 0 .. NestBound + 1
  BY TasksAssumption DEF KernelInv, TypesInv
<1> QED
  BY <1>1, <1>2 DEF KernelInv, ListsInv, TypesInv, TicksInv, Dozes, Asleep

(* A sum that overflows: nothing goes on.                                  *)
LEMMA StoppingKeepsGroup ==
  ASSUME GroupInv, UNCHANGED group,
         \/ Panic
         \/ UNCHANGED vars
  PROVE  GroupInv'
<1>1. /\ UNCHANGED <<ring, frame, current, clock, pc, uxSchedulerSuspended>>
      /\ xYieldPending' \in BOOLEAN /\ panicked' \in BOOLEAN
      /\ xTickCount' = xTickCount /\ wake' = wake
  BY DEF Panic, vars, lists, dispatch, frame, clock, GroupInv, KernelInv,
         TypesInv
<1>2. KernelInv' /\ \A u \in Task : Dozes(u) /\ (Asleep(u)' <=> Asleep(u))
  BY <1>1, StillKernel DEF GroupInv
<1>3. /\ GroupTypes' /\ WalkInv' /\ CallerAwake' /\ ~WaitsForBits(Idle)'
      /\ \A u : WaitsForBits(u)' <=> WaitsForBits(u)
  <2>1. UNCHANGED listed /\ UNCHANGED <<uxEventBits, item, call>>
    BY DEF group
  <2>2. uxPriority' = uxPriority
    BY <1>1 DEF frame, tasks
  <2> QED
    BY <1>1, <1>2, <2>1, <2>2, ListedKept
       DEF GroupInv, GroupTypes, WalkInv, Walks, CallerAwake, KernelInv,
           TypesInv, Asleep
<1>4. ASSUME NEW u \in Task PROVE ItemHolds(u)' /\ Sleeps(u)'
  <2>1. xTickCount <= xTickCount'
    BY <1>1 DEF GroupInv, KernelInv, TicksInv
  <2> QED
    BY <1>1, <1>2, <1>3, <2>1, OthersHold DEF group, InWait
<1> QED
  BY <1>2, <1>3, <1>4 DEF GroupInv

LEMMA TickKeepsGroup ==
  ASSUME GroupInv, Tick, UNCHANGED group
  PROVE  GroupInv'
<1>1. KernelInv' /\ Ticked
  BY CountedTickIs, PendedTickIs DEF GroupInv
<1>2. /\ UNCHANGED <<pc, wake, uxSchedulerSuspended>> /\ Dispatched
      /\ \A u \in Task : /\ In(ring', Delayed, u) => In(ring, Delayed, u)
                         /\ In(ring', Overflow, u) => In(ring, Overflow, u)
      /\ \A u \in Task : Asleep(u) /\ ~Asleep(u)'
                           => In(ring, Delayed, u) /\ wake[u] <= xTickCount'
  BY <1>1 DEF Ticked, Sleeping
<1>3. xTickCount <= xTickCount'
  BY DEF Tick, GroupInv, KernelInv, TicksInv
<1>4. /\ GroupTypes' /\ WalkInv' /\ ~WaitsForBits(Idle)'
      /\ \A u : WaitsForBits(u)' <=> WaitsForBits(u)
  <2>1. UNCHANGED listed /\ UNCHANGED <<uxEventBits, item, call>>
    BY DEF group
  <2>2. uxPriority' = uxPriority
    BY <1>1 DEF Ticked, tasks
  <2>3. WalkInv'
    <3>1. CASE Walks(current)
      <4>1. current' = current
        BY <1>2, <3>1 DEF Dispatched, GroupInv, WalkInv
      <4> QED
        BY <1>2, <2>1, <4>1, ListedKept DEF GroupInv, WalkInv, Walks
    <3>2. CASE ~Walks(current)
      <4>1. \A u \in Task : ~Walks(u)
        BY <3>2 DEF GroupInv, WalkInv
      <4>2. current' \in Task
        BY <1>1 DEF KernelInv, TypesInv
      <4> QED
        BY <1>2, <3>2, <4>1, <4>2 DEF GroupInv, WalkInv, Walks
    <3> QED
      BY <3>1, <3>2
  <2> QED
    BY <1>2, <2>1, <2>2, <2>3, ListedKept DEF GroupInv, GroupTypes
<1>5. CallerAwake'
  <2> SUFFICES ASSUME Asleep(current)'
               PROVE  current' = current /\ Asleep(current)
    BY <1>2 DEF GroupInv, CallerAwake
  <2>1. current' = current /\ current \in Task
    BY <1>2 DEF Dispatched, GroupInv, KernelInv, TypesInv
  <2> QED
    BY <1>2, <2>1 DEF Asleep
<1>6. ASSUME NEW u \in Task PROVE ItemHolds(u)' /\ Sleeps(u)'
  <2>1. Dozes(u) \/ (In(ring, Delayed, u) /\ wake[u] <= xTickCount')
    BY <1>2, NotInBoth DEF Dozes, Asleep, GroupInv
  <2> QED
    BY <1>1, <1>2, <1>3, <1>4, <2>1, OthersHold DEF group, InWait
<1> QED
  BY <1>1, <1>4, <1>5, <1>6 DEF GroupInv

LEMMA SwitchKeepsGroup ==
  ASSUME GroupInv, NEW t \in Task,
         \/ (Yield(t) \/ TaskYield(t)) /\ UNCHANGED group
         \/ YieldForBits(t)
  PROVE  GroupInv'
<1>1. /\ t = current /\ pc[t] \in {"run", "yield", "yieldBits"}
      /\ SwitchContext(ring, uxSchedulerSuspended) /\ UNCHANGED group
      /\ UNCHANGED <<frame, clock, uxSchedulerSuspended, panicked>>
      /\ pc' = [pc EXCEPT ![t] = IF @ = "yieldBits" THEN "takeBits" ELSE "run"]
  BY DEF Yield, TaskYield, YieldForBits, Executes, Calls, GroupInv, GroupTypes,
         frame
<1>5. ~Walks(current) /\ uxSchedulerSuspended = 0
  BY <1>1 DEF GroupInv, WalkInv, Walks
<1>2. /\ KernelInv' /\ ~Asleep(current)'
      /\ \A l \in ListNames : \A u \in Task : In(ring', l, u) <=> In(ring, l, u)
  BY <1>1, <1>5, SwitchingIs DEF GroupInv, frame
<1>3. /\ GroupTypes' /\ WalkInv' /\ CallerAwake' /\ ~WaitsForBits(Idle)'
      /\ \A u : WaitsForBits(u)' <=> WaitsForBits(u)
  <2>1. UNCHANGED listed /\ UNCHANGED <<uxEventBits, item, call>>
    BY <1>1 DEF group
  <2>2. uxPriority' = uxPriority
    BY <1>1 DEF frame, tasks
  <2>3. GroupTypes'
    BY <1>1, <2>1, <2>2, ListedKept DEF GroupInv, GroupTypes, GroupLabels
  <2>4. WalkInv'
    <3>1. \A u \in Task : ~Walks(u)'
      BY <1>1, <1>5 DEF GroupInv, WalkInv, Walks, GroupTypes
    <3>2. current' \in Task
      BY <1>2 DEF KernelInv, TypesInv
    <3> QED
      BY <1>1, <1>5, <3>1, <3>2 DEF WalkInv
  <2> QED
    BY <1>2, <2>1, <2>3, <2>4, ListedKept DEF GroupInv, CallerAwake
<1>4. ASSUME NEW u \in Task PROVE ItemHolds(u)' /\ Sleeps(u)'
  <2>1. Dozes(u)
    BY <1>2, Names DEF Dozes
  <2>2. InWait(u)' => InWait(u)
    BY <1>1 DEF InWait, GroupInv, GroupTypes
  <2>3. xTickCount <= xTickCount' /\ wake' = wake
    BY <1>1 DEF clock, frame, GroupInv, KernelInv, TicksInv
  <2> QED
    BY <1>1, <1>2, <1>3, <2>1, <2>2, <2>3, OthersHold DEF group
<1> QED
  BY <1>2, <1>3, <1>4 DEF GroupInv

(* The steps that touch neither the lists nor another task.                *)
LEMMA QuietKeepsGroup ==
  ASSUME GroupInv, NEW t \in Task,
         \/ \E b \in SUBSET Bits : xEventGroupClearBits(t, b)
         \/ \E b \in WaitBits, all \in WaitForAll, clear \in BOOLEAN,
               n \in GroupWaits : ReadBits(t, b, all, clear, n)
         \/ ReturnAtOnce(t) \/ TakeBits(t)
  PROVE  GroupInv'
<1>1. /\ t = current /\ pc[t] \in {"run", "testBits", "takeBits"}
      /\ UNCHANGED <<ring, frame, dispatch, clock, uxSchedulerSuspended,
                     panicked, listed>>
      /\ \/ UNCHANGED <<pc, item, call>>
         \/ /\ pc' = [pc EXCEPT ![t] = IF @ = "run" THEN "testBits" ELSE "run"]
            /\ \A u \in Task : u # t => item'[u] = item[u] /\ call'[u] = call[u]
  BY DEF xEventGroupClearBits, ReadBits, ReturnAtOnce, TakeBits, Executes,
         Finish, GroupInv, GroupTypes
<1>2. /\ KernelInv' /\ ~Asleep(current)'
      /\ \A u \in Task : Dozes(u) /\ (Asleep(u)' <=> Asleep(u))
  <2>1. KernelInv' /\ \A u \in Task : Dozes(u) /\ (Asleep(u)' <=> Asleep(u))
    BY <1>1, StillKernel DEF GroupInv, KernelInv, TypesInv, dispatch
  <2> QED
    BY <1>1, <2>1 DEF GroupInv, CallerAwake, dispatch
<1>3. GroupTypes'
  <2>1. /\ pc' \in [Task -> GroupLabels]
        /\ \A u \in Task : pc'[u] \in {"testBits", "yieldBits", "takeBits"}
                            => u # Idle
    BY DEF xEventGroupClearBits, ReadBits, ReturnAtOnce, TakeBits, MayBlock,
           Finish, GroupInv, GroupTypes, GroupLabels
  <2>2. uxEventBits' \subseteq Bits
    BY DEF xEventGroupClearBits, ReadBits, ReturnAtOnce, TakeBits, GroupInv,
           GroupTypes
  <2>3. item' \in [Task -> [bits : SUBSET (Bits \cup {IN_USE}), all : BOOLEAN,
                            clear : BOOLEAN, unblocked : BOOLEAN]]
    <3>1. ResetValue(t) \in [bits : SUBSET (Bits \cup {IN_USE}), all : BOOLEAN,
                             clear : BOOLEAN, unblocked : BOOLEAN]
      BY GroupAssumption DEF ResetValue, Value
    <3>2. item' = item \/ item' = [item EXCEPT ![t] = ResetValue(t)]
      BY DEF xEventGroupClearBits, ReadBits, ReturnAtOnce, TakeBits
    <3> QED
      BY <3>1, <3>2 DEF GroupInv, GroupTypes
  <2>4. call' \in [Task -> [bits : SUBSET Bits, all : BOOLEAN, clear : BOOLEAN,
                            ticks : 0 .. PORT_MAX_DELAY]]
    <3> DEFINE Calling == [bits : SUBSET Bits, all : BOOLEAN, clear : BOOLEAN,
                           ticks : 0 .. PORT_MAX_DELAY]
    <3>1. NoCall \in Calling
      BY TasksAssumption DEF NoCall
    <3>2. ASSUME NEW b \in WaitBits, NEW all \in WaitForAll,
                 NEW clear \in BOOLEAN, NEW n \in GroupWaits
          PROVE  [bits |-> b, all |-> all, clear |-> clear, ticks |-> n]
                   \in Calling
      BY GroupAssumption
    <3>3. \/ call' = call
          \/ \E c \in Calling : call' = [call EXCEPT ![t] = c]
      <4>1. ASSUME NEW b \in WaitBits, NEW all \in WaitForAll,
                   NEW clear \in BOOLEAN, NEW n \in GroupWaits,
                   ReadBits(t, b, all, clear, n)
            PROVE  \E c \in Calling : call' = [call EXCEPT ![t] = c]
        BY <3>2, <4>1 DEF ReadBits
      <4> HIDE DEF Calling
      <4>2. CASE ReturnAtOnce(t) \/ TakeBits(t)
        BY <3>1, <4>2 DEF ReturnAtOnce, TakeBits, Finish
      <4>3. ASSUME NEW b \in SUBSET Bits, xEventGroupClearBits(t, b)
            PROVE  call' = call
        BY <4>3 DEF xEventGroupClearBits
      <4> QED
        BY <4>1, <4>2, <4>3
    <3> HIDE DEF Calling
    <3>4. call \in [Task -> Calling]
      BY DEF GroupInv, GroupTypes, Calling
    <3>5. call' \in [Task -> Calling]
      BY <3>3, <3>4
    <3> QED
      BY <3>5 DEF Calling
  <2>5. uxPriority' = uxPriority
    BY <1>1 DEF frame, tasks
  <2> QED
    BY <1>1, <2>1, <2>2, <2>3, <2>4, <2>5, ListedKept DEF GroupInv, GroupTypes
<1>4. WalkInv' /\ CallerAwake' /\ ~WaitsForBits(Idle)'
  BY <1>1, <1>2, ListedKept
     DEF CallerAwake, GroupInv, WalkInv, Walks, dispatch, GroupTypes, KernelInv,
         TypesInv
<1>5. ASSUME NEW u \in Task PROVE ItemHolds(u)' /\ Sleeps(u)'
  <2>1. /\ xTickCount <= xTickCount' /\ wake' = wake
        /\ WaitsForBits(u)' <=> WaitsForBits(u)
    BY <1>1, ListedKept DEF GroupInv, KernelInv, TicksInv, clock, frame
  <2>2. CASE UNCHANGED <<pc, item, call>> \/ u # t
    BY <1>1, <1>2, <2>1, <2>2, OthersHold DEF InWait, GroupInv, GroupTypes
  <2>3. CASE pc'[u] \in {"run", "testBits"}
    BY <2>3 DEF InWait, ItemHolds, Sleeps
  <2> QED
    BY <1>1, <2>2, <2>3 DEF GroupInv, GroupTypes
<1> QED
  BY <1>2, <1>3, <1>4, <1>5 DEF GroupInv

(* A walk along tangled links begins and ends.                             *)
LEMMA WalkingKeepsGroup ==
  ASSUME GroupInv, NEW t \in Task,
         \/ \E b \in SUBSET Bits : BeginSet(t, b)
         \/ EndSet(t) \/ BeginDelete(t)
         \/ DeleteItem(t) /\ GroupLinks.count[Waiters] = 0
  PROVE  GroupInv'
<1>1. /\ t = current /\ UNCHANGED <<ring, frame, dispatch, clock, panicked,
                                    listed, item, call>>
      /\ \/ /\ pc[t] = "run" /\ ~GroupTidy
            /\ uxSchedulerSuspended' = uxSchedulerSuspended + 1
            /\ \E label \in {"setBits", "deleteGroup"} :
                 pc' = [pc EXCEPT ![t] = label]
         \/ /\ Walks(t)
            /\ uxSchedulerSuspended' = uxSchedulerSuspended - 1
            /\ pc' = [pc EXCEPT ![t] = "run"]
  BY DEF BeginSet, EndSet, BeginDelete, DeleteItem, Executes, Walks, group
<1>2. /\ pc' \in [Task -> GroupLabels]
      /\ \A u \in Task : u # t => pc'[u] = pc[u]
      /\ pc[t] \in {"run", "setBits", "deleteGroup"}
      /\ \/ /\ ~Walks(t) /\ ~GroupTidy /\ Walks(t)'
            /\ uxSchedulerSuspended' = uxSchedulerSuspended + 1
         \/ /\ Walks(t) /\ ~Walks(t)' /\ pc'[t] = "run"
            /\ uxSchedulerSuspended' = uxSchedulerSuspended - 1
      /\ ~InWait(t)' /\ pc'[t] # "testBits"
  BY <1>1 DEF GroupInv, GroupTypes, GroupLabels, Walks, InWait
<1>3. WalkInv' /\ uxSchedulerSuspended' \in {0, 1}
  BY <1>1, <1>2, ListedKept DEF GroupInv, WalkInv, Walks, dispatch
<1>4. /\ KernelInv' /\ ~Asleep(current)'
      /\ \A u \in Task : Dozes(u) /\ (Asleep(u)' <=> Asleep(u))
  <2>1. KernelInv' /\ \A u \in Task : Dozes(u) /\ (Asleep(u)' <=> Asleep(u))
    BY <1>1, <1>3, StillKernel DEF GroupInv, KernelInv, TypesInv, dispatch
  <2> QED
    BY <1>1, <1>2, <2>1 DEF GroupInv, CallerAwake, dispatch
<1>5. GroupTypes'
  <2>1. uxEventBits' \subseteq Bits
    BY DEF BeginSet, EndSet, BeginDelete, DeleteItem, group, GroupInv,
           GroupTypes
  <2>2. uxPriority' = uxPriority
    BY <1>1 DEF frame, tasks
  <2>3. \A u \in Task : pc'[u] \in {"testBits", "yieldBits", "takeBits"}
                          => u # Idle
    BY <1>2 DEF GroupInv, GroupTypes, InWait
  <2> QED
    BY <1>1, <1>2, <2>1, <2>2, <2>3, ListedKept DEF GroupInv, GroupTypes
<1>6. CallerAwake' /\ ~WaitsForBits(Idle)'
  BY <1>1, <1>4, ListedKept DEF CallerAwake, GroupInv
<1>7. ASSUME NEW u \in Task PROVE ItemHolds(u)' /\ Sleeps(u)'
  <2>1. /\ xTickCount <= xTickCount' /\ wake' = wake
        /\ WaitsForBits(u)' <=> WaitsForBits(u)
    BY <1>1, ListedKept DEF GroupInv, KernelInv, TicksInv, clock, frame
  <2>2. CASE u # t
    BY <1>1, <1>2, <1>4, <2>1, <2>2, OthersHold DEF InWait
  <2>3. CASE u = t
    BY <1>2, <2>3 DEF ItemHolds, Sleeps
  <2> QED
    BY <2>2, <2>3
<1> QED
  BY <1>3, <1>4, <1>5, <1>6, <1>7 DEF GroupInv

(* The running task goes to sleep.                                         *)
LEMMA FallsAsleep ==
  ASSUME GroupInv, NEW t \in Task, t = current, t # Idle,
         NEW ticks \in 0 .. PORT_MAX_DELAY, AddCurrentToDelayed(ticks),
         UNCHANGED <<tasks, lastWake, dispatch, xTickCount, xPendedTicks,
                     elapsed, uxSchedulerSuspended, panicked>>
  PROVE  /\ KernelInv' /\ Asleep(t)'
         /\ ticks = PORT_MAX_DELAY => NeverDue(t)'
         /\ \A u \in Task : u # t => Dozes(u) /\ wake'[u] = wake[u]
<1>1. PICK time \in 0 .. PORT_MAX_DELAY, l \in Sleeping :
        /\ time = (ticks + xTickCount) % (PORT_MAX_DELAY + 1)
        /\ SleepsUntil(time, l)
  <2>1. ticks \in Nat
    OBVIOUS
  <2> QED
    BY <2>1, AddIs DEF GroupInv
<1>2. /\ ListsInv' /\ wake' \in [Task -> 0 .. PORT_MAX_DELAY]
      /\ xNextTaskUnblockTime' \in 0 .. PORT_MAX_DELAY
  BY <1>1, SleepKeepsLists DEF GroupInv
<1>3. KernelInv'
  BY <1>2 DEF GroupInv, KernelInv, TypesInv, TicksInv, tasks, dispatch
<1>4. ASSUME NEW u \in Task, u # t PROVE Dozes(u) /\ wake'[u] = wake[u]
  BY <1>1, <1>4, Names DEF SleepsUntil, Dozes, GroupInv, KernelInv, TypesInv
<1>5. /\ l = IF time > xTickCount THEN Delayed ELSE Overflow
      /\ In(ring', l, t) /\ wake'[t] = time
  <2>1. l \in ListNames /\ wake \in [Task -> 0 .. PORT_MAX_DELAY]
    BY Names DEF Sleeping, GroupInv, KernelInv, TypesInv
  <2> QED
    BY <1>1, <2>1 DEF SleepsUntil
<1>6. ASSUME ticks = PORT_MAX_DELAY
      PROVE  time = PORT_MAX_DELAY \/ time <= xTickCount
  <2> DEFINE M == PORT_MAX_DELAY
  <2>1. M \in Nat /\ xTickCount \in Nat /\ xTickCount < M
    BY TasksAssumption, TicksBelow DEF GroupInv
  <2>2. CASE xTickCount = 0
    BY <1>1, <1>6, <2>1, <2>2, Remainder
  <2>3. CASE xTickCount > 0
    <3>1. M + xTickCount \in M + 1 .. M + M + 1
      BY <2>1, <2>3
    <3>2. time = (M + xTickCount) - (M + 1)
      BY <1>1, <1>6, <2>1, <3>1, Remainder
    <3> QED
      BY <2>1, <3>2
  <2> QED
    BY <2>1, <2>2, <2>3
<1>7. time \in Nat /\ xTickCount \in Nat
  BY TicksBelow DEF GroupInv
<1> QED
  BY <1>3, <1>4, <1>5, <1>6, <1>7 DEF Asleep, NeverDue

LEMMA DelayKeepsGroup ==
  ASSUME GroupInv, NEW t \in Task, UNCHANGED group, NEW n \in Delays,
         VTaskDelay(t, n), ~Panic
  PROVE  GroupInv'
<1>1. /\ t = current /\ pc[t] = "run" /\ t # Idle /\ AddCurrentToDelayed(n)
      /\ pc' = [pc EXCEPT ![t] = "yield"]
      /\ UNCHANGED <<tasks, dispatch, lastWake, xTickCount, xPendedTicks,
                     elapsed, uxSchedulerSuspended, panicked>>
  BY DEF VTaskDelay, Calls, Executes, MayBlock
<1>2. /\ KernelInv'
      /\ \A u \in Task : u # t => Dozes(u) /\ wake'[u] = wake[u]
  <2>1. n \in 0 .. PORT_MAX_DELAY
    BY TasksAssumption
  <2> QED
    BY <1>1, <2>1, FallsAsleep
<1>3. /\ GroupTypes' /\ WalkInv' /\ CallerAwake' /\ ~WaitsForBits(Idle)'
      /\ \A u : WaitsForBits(u)' <=> WaitsForBits(u)
  <2>1. UNCHANGED listed /\ UNCHANGED <<uxEventBits, item, call>>
    BY DEF group
  <2>2. uxPriority' = uxPriority /\ current' = current
    BY <1>1 DEF tasks, dispatch
  <2>3. GroupTypes'
    BY <1>1, <2>1, <2>2, ListedKept DEF GroupInv, GroupTypes, GroupLabels
  <2> QED
    BY <1>1, <2>1, <2>2, <2>3, ListedKept
       DEF GroupInv, WalkInv, Walks, GroupTypes, CallerAwake
<1>4. ASSUME NEW u \in Task PROVE ItemHolds(u)' /\ Sleeps(u)'
  <2>1. CASE u = t
    BY <1>1, <2>1 DEF ItemHolds, Sleeps, InWait, GroupInv, GroupTypes
  <2>2. CASE u # t
    <3>1. xTickCount <= xTickCount'
      BY <1>1 DEF GroupInv, KernelInv, TicksInv
    <3> QED
      BY <1>1, <1>2, <1>3, <2>2, <3>1, OthersHold
         DEF group, InWait, GroupInv, GroupTypes
  <2> QED
    BY <2>1, <2>2
<1> QED
  BY <1>2, <1>3, <1>4 DEF GroupInv

(* vListInsertEnd, into the group's list.                                  *)
LEMMA AppendedHas ==
  ASSUME NEW queue \in Seq(Task), NEW t \in Task
  PROVE  /\ Append(queue, t) \in Seq(Task)
         /\ \A u : Contains(Append(queue, t), u) <=> Contains(queue, u) \/ u = t
<1> DEFINE longer == Append(queue, t)
<1>1. /\ longer \in Seq(Task)
      /\ Len(queue) \in Nat /\ Len(longer) = Len(queue) + 1
      /\ \A i \in 1 .. Len(queue) : longer[i] = queue[i]
      /\ longer[Len(queue) + 1] = t
  OBVIOUS
<1> HIDE DEF longer
<1>2. /\ \A i \in 1 .. Len(longer) : i \in 1 .. Len(queue) \/ i = Len(queue) + 1
      /\ \A i \in 1 .. Len(queue) : i \in 1 .. Len(longer)
      /\ Len(queue) + 1 \in 1 .. Len(longer)
  BY <1>1
<1>3. \A u : Contains(longer, u) <=> Contains(queue, u) \/ u = t
  BY <1>1, <1>2 DEF Contains
<1> QED
  BY <1>1, <1>3 DEF longer

LEMMA PlacedInGroupIs ==
  ASSUME GroupInv, NEW t \in Task, PlaceInGroup(t)
  PROVE  /\ xTasksWaitingForBits' \in Seq(Task)
         /\ ~GroupTidy' => DOMAIN GroupLinks'.in = Task
         /\ \A u \in Task : WaitsForBits(u)' <=> WaitsForBits(u) \/ u = t
         /\ ~GroupTidy => ~GroupTidy'
<1> DEFINE queue == xTasksWaitingForBits
<1>1. queue \in Seq(Task) /\ (~GroupTidy => DOMAIN GroupLinks.in = Task)
  BY DEF GroupInv, GroupTypes
<1>2. CASE GroupTidy /\ ~WaitsForBits(t)
  <2>1. xTasksWaitingForBits' = Append(queue, t) /\ GroupTidy'
    BY <1>2 DEF PlaceInGroup, GroupTidy
  <2>2. /\ Append(queue, t) \in Seq(Task)
        /\ \A u : Contains(Append(queue, t), u) <=> Contains(queue, u) \/ u = t
    BY <1>1, AppendedHas
  <2> QED
    BY <1>2, <2>1, <2>2 DEF WaitsForBits
<1>3. CASE ~(GroupTidy /\ ~WaitsForBits(t))
  <2> DEFINE new == InsertedAtEnd(GroupLinksNow, Waiters, t)
  <2>1. groupTangle' = <<new>> /\ xTasksWaitingForBits' = <<>>
    BY <1>3 DEF PlaceInGroup
  <2>2. new.in = [GroupLinksNow.in EXCEPT ![t] = Waiters]
    BY AtEndIn
  <2> HIDE DEF new
  <2>3. ~GroupTidy' /\ GroupLinks' = new
    BY <2>1 DEF GroupTidy, GroupLinks
  <2>4. \A u \in Task : WaitsForBits(u)' <=> new.in[u] = Waiters
    BY <2>3 DEF WaitsForBits
  <2>5. /\ DOMAIN GroupLinksNow.in = Task
        /\ \A u \in Task : WaitsForBits(u) <=> GroupLinksNow.in[u] = Waiters
    <3>1. CASE ~GroupTidy
      BY <1>1, <3>1 DEF GroupLinksNow, WaitsForBits
    <3>2. CASE GroupTidy
      <4> DEFINE queues == [l \in {Waiters} |-> queue]
      <4>1. /\ Task \cap DOMAIN queues = {} /\ Free # Waiters
            /\ DOMAIN queues = {Waiters} /\ queues[Waiters] = queue
            /\ \A l \in DOMAIN queues : queues[l] \in Seq(Task)
        BY <1>1, GroupAssumption DEF Waiters, Free
      <4>2. GroupLinksNow = LinksOf(queues, Task)
        BY <3>2 DEF GroupLinksNow
      <4> HIDE DEF queues, queue
      <4>3. \A u \in Task :
              /\ DOMAIN GroupLinksNow.in = Task
              /\ IF \E l \in DOMAIN queues : Contains(queues[l], u)
                 THEN /\ GroupLinksNow.in[u] \in DOMAIN queues
                      /\ Contains(queues[GroupLinksNow.in[u]], u)
                 ELSE GroupLinksNow.in[u] = Free
        BY <4>1, <4>2, LinksOfIn
      <4>4. \A u \in Task : WaitsForBits(u) <=> Contains(queue, u)
        BY <3>2 DEF WaitsForBits, queue
      <4> QED
        BY <4>1, <4>3, <4>4, TasksAssumption
    <3> QED
      BY <3>1, <3>2
  <2>6. /\ DOMAIN new.in = Task
        /\ \A u \in Task : new.in[u] = Waiters
                              <=> GroupLinksNow.in[u] = Waiters \/ u = t
    BY <2>2, <2>5
  <2> QED
    BY <2>1, <2>3, <2>4, <2>5, <2>6
<1> QED
  BY <1>2, <1>3

LEMMA WaitKeepsGroup ==
  ASSUME GroupInv, NEW t \in Task, WaitForBits(t), ~Panic
  PROVE  GroupInv'
<1> DEFINE c == call[t]
           new == Value(c.bits \cup {IN_USE}, c.all, c.clear, FALSE)
<1>1. /\ t = current /\ pc[t] = "testBits" /\ AddCurrentToDelayed(c.ticks)
      /\ item' = [item EXCEPT ![t] = new]
      /\ PlaceInGroup(t)
      /\ pc' = [pc EXCEPT ![t] = "yieldBits"]
      /\ UNCHANGED <<tasks, lastWake, dispatch, xTickCount, xPendedTicks,
                     elapsed, uxSchedulerSuspended, panicked, uxEventBits,
                     call, read>>
  BY DEF WaitForBits, Executes
<1>2. t # Idle /\ c.ticks \in 0 .. PORT_MAX_DELAY
  BY <1>1 DEF GroupInv, GroupTypes
<1>3. /\ KernelInv' /\ Asleep(t)'
      /\ c.ticks = PORT_MAX_DELAY => NeverDue(t)'
      /\ \A u \in Task : u # t => Dozes(u) /\ wake'[u] = wake[u]
  BY <1>1, <1>2, FallsAsleep
<1>4. /\ xTasksWaitingForBits' \in Seq(Task)
      /\ ~GroupTidy' => DOMAIN GroupLinks'.in = Task
      /\ \A u \in Task : WaitsForBits(u)' <=> WaitsForBits(u) \/ u = t
      /\ ~GroupTidy => ~GroupTidy'
  BY <1>1, PlacedInGroupIs
<1>5. GroupTypes'
  <2>1. new \in [bits : SUBSET (Bits \cup {IN_USE}), all : BOOLEAN,
                 clear : BOOLEAN, unblocked : BOOLEAN]
    <3>1. c \in [bits : SUBSET Bits, all : BOOLEAN, clear : BOOLEAN,
                 ticks : 0 .. PORT_MAX_DELAY]
      BY DEF GroupInv, GroupTypes
    <3> QED
      BY <3>1 DEF Value
  <2> HIDE DEF new
  <2>2. uxPriority' = uxPriority
    BY <1>1 DEF tasks
  <2> QED
    BY <1>1, <1>2, <1>4, <2>1, <2>2 DEF GroupInv, GroupTypes, GroupLabels
<1>6. WalkInv' /\ CallerAwake' /\ ~WaitsForBits(Idle)'
  BY <1>1, <1>2, <1>4, TasksAssumption
     DEF GroupInv, GroupTypes, WalkInv, Walks, CallerAwake, dispatch
<1>7. ASSUME NEW u \in Task PROVE ItemHolds(u)' /\ Sleeps(u)'
  <2>1. CASE u = t
    <3>1. item'[u] = new /\ call'[u] = c /\ WaitsForBits(u)'
      BY <1>1, <1>4, <2>1 DEF GroupInv, GroupTypes
    <3>2. ItemHolds(u)'
      BY <3>1 DEF ItemHolds
    <3>3. Sleeps(u)'
      BY <1>3, <2>1, <3>1 DEF Sleeps
    <3> QED
      BY <3>2, <3>3
  <2>2. CASE u # t
    <3>1. /\ xTickCount <= xTickCount'
          /\ WaitsForBits(u)' <=> WaitsForBits(u)
          /\ item'[u] = item[u] /\ call'[u] = call[u]
          /\ InWait(u)' => InWait(u)
      BY <1>1, <1>4, <2>2
         DEF GroupInv, GroupTypes, KernelInv, TicksInv, InWait
    <3> QED
      BY <1>3, <2>2, <3>1, OthersHold
  <2> QED
    BY <2>1, <2>2
<1> QED
  BY <1>3, <1>5, <1>6, <1>7 DEF GroupInv

(* The tasks of a sequence are woken, with some bits.  On tangled links it *)
(* is one task, whatever list it is in.                                    *)
LEMMA UnblockKeepsGroup ==
  ASSUME GroupInv, NEW woken \in Seq(Task),
         GroupTidy => \A u : Contains(woken, u) => WaitsForBits(u),
         ~GroupTidy => \E h \in Task : woken = <<h>>,
         NEW bits \in SUBSET Bits, Unblock(woken, bits),
         UNCHANGED <<frame, current, pc, clock, uxSchedulerSuspended, panicked,
                     call>>,
         uxEventBits' \subseteq Bits
  PROVE  /\ GroupInv'
         /\ \A u \in Task :
              WaitsForBits(u)' <=> WaitsForBits(u) /\ ~Contains(woken, u)
         /\ \A u \in Task : Contains(woken, u) => ~Asleep(u)'
         /\ \A u \in Task :
              item'[u] = IF Contains(woken, u)
                         THEN Value(bits \cup {IN_USE}, FALSE, FALSE, TRUE)
                         ELSE item[u]
<1> DEFINE set == Task \ ToSet(woken)
<1>1. /\ Len(woken) \in Nat /\ \A i \in 1 .. Len(woken) : woken[i] \in Task
      /\ DOMAIN woken = 1 .. Len(woken)
  OBVIOUS
<1>2. \A u : Contains(woken, u) <=> u \in ToSet(woken)
  BY <1>1 DEF Contains, ToSet
<1>3. /\ xTasksWaitingForBits' \in Seq(Task)
      /\ GroupTidy' <=> GroupTidy
      /\ ~GroupTidy' => DOMAIN GroupLinks'.in = Task
      /\ \A u \in Task : WaitsForBits(u)' <=> WaitsForBits(u) /\ ~Contains(woken, u)
  <2>1. CASE GroupTidy
    <3>1. /\ xTasksWaitingForBits' = Listed(xTasksWaitingForBits, set)
          /\ GroupTidy'
      BY <2>1 DEF Unblock, GroupTidy
    <3>2. \A u \in Task : u \in set <=> ~Contains(woken, u)
      BY <1>2
    <3> HIDE DEF set
    <3>3. xTasksWaitingForBits \in Seq(Task)
      BY DEF GroupInv, GroupTypes
    <3>4. /\ xTasksWaitingForBits' \in Seq(Task)
          /\ \A u : Contains(xTasksWaitingForBits', u)
                      <=> u \in set /\ Contains(xTasksWaitingForBits, u)
      BY <3>1, <3>3, ListedIs
    <3> QED
      BY <2>1, <3>1, <3>2, <3>4 DEF WaitsForBits
  <2>2. CASE ~GroupTidy
    <3>1. PICK h \in Task : woken = <<h>>
      BY <2>2
    <3>2. Head(woken) = h /\ \A u : Contains(woken, u) <=> u = h
      BY <3>1 DEF Contains
    <3>3. /\ groupTangle' = <<Removed(GroupLinks, h)>>
          /\ xTasksWaitingForBits' = xTasksWaitingForBits
      BY <2>2, <3>2 DEF Unblock
    <3>4. ~GroupTidy' /\ GroupLinks' = Removed(GroupLinks, h)
      BY <3>3 DEF GroupTidy, GroupLinks
    <3>5. DOMAIN GroupLinks.in = Task
      BY <2>2 DEF GroupInv, GroupTypes
    <3>6. /\ DOMAIN GroupLinks'.in = Task /\ GroupLinks'.in[h] = Free
          /\ \A u \in Task : u # h => GroupLinks'.in[u] = GroupLinks.in[u]
      BY <3>4, <3>5, RemovedIn
    <3>7. Free # Waiters
      BY DEF Free, Waiters
    <3>8. xTasksWaitingForBits \in Seq(Task)
      BY DEF GroupInv, GroupTypes
    <3> QED
      BY <2>2, <3>2, <3>3, <3>4, <3>6, <3>7, <3>8 DEF WaitsForBits
  <2> QED
    BY <2>1, <2>2
<1>4. \A u \in Task :
        item'[u] = IF Contains(woken, u)
                   THEN Value(bits \cup {IN_USE}, FALSE, FALSE, TRUE)
                   ELSE item[u]
  BY DEF Unblock
<1>5. Moved(ring', ring, {woken[i] : i \in 1 .. Len(woken)}, Home)
  BY <1>1, AllToReadyIs DEF Unblock, GroupInv, KernelInv, ListsInv, TypesInv
<1>6. /\ GoodRings(ring')
      /\ \A l \in ListNames : \A u \in Task :
           In(ring', l, u) <=> IF Contains(woken, u) THEN l = Home[u]
                                                     ELSE In(ring, l, u)
  <2>1. \A u : Contains(woken, u) <=> u \in {woken[i] : i \in 1 .. Len(woken)}
    BY DEF Contains
  <2> QED
    BY <1>5, <2>1 DEF Moved
<1>7. \A u \in Task : Home[u] \in ListNames \ Sleeping
  BY Names DEF Home, GroupInv, KernelInv, TypesInv
<1>8. /\ \A u \in Task : ~Contains(woken, u) => Dozes(u)
      /\ \A u \in Task : Asleep(u)' => Asleep(u)
      /\ \A u \in Task : Contains(woken, u) => ~Asleep(u)'
  BY <1>6, <1>7, Names DEF Dozes, Asleep, Sleeping
<1>9. ListsInv'
  <2>1. Idle \in Task /\ Home[Idle] = Ready(0) /\ Ready(0) \in ListNames
    BY TasksAssumption, Names DEF GroupInv, GroupTypes, Home
  <2> QED
    BY <1>6, <2>1 DEF ListsInv, GroupInv, KernelInv
<1>10. TypesInv'
  <2>1. xYieldPending' \in BOOLEAN
    BY DEF Unblock
  <2> QED
    BY <2>1 DEF TypesInv, GroupInv, KernelInv, frame, tasks, clock
<1>11. TicksInv'
  BY DEF TicksInv, GroupInv, KernelInv, clock
<1>12. GroupTypes' /\ WalkInv'
  <2>1. Value(bits \cup {IN_USE}, FALSE, FALSE, TRUE)
          \in [bits : SUBSET (Bits \cup {IN_USE}), all : BOOLEAN,
               clear : BOOLEAN, unblocked : BOOLEAN]
    BY DEF Value
  <2>2. item' = [u \in Task |-> item'[u]]
    BY DEF Unblock
  <2>3. item' \in [Task -> [bits : SUBSET (Bits \cup {IN_USE}), all : BOOLEAN,
                            clear : BOOLEAN, unblocked : BOOLEAN]]
    BY <1>4, <2>1, <2>2 DEF GroupInv, GroupTypes
  <2>4. uxPriority' = uxPriority
    BY DEF frame, tasks
  <2>5. WalkInv'
    BY <1>3 DEF GroupInv, WalkInv, Walks
  <2> QED
    BY <1>3, <2>3, <2>4, <2>5 DEF GroupInv, GroupTypes
<1>13. CallerAwake' /\ ~WaitsForBits(Idle)'
  BY <1>3, <1>8, TasksAssumption
     DEF CallerAwake, GroupInv, KernelInv, TypesInv, Asleep
<1>14. KernelInv'
  BY <1>9, <1>10, <1>11 DEF KernelInv
<1>15. ASSUME NEW u \in Task PROVE ItemHolds(u)' /\ Sleeps(u)'
  <2>1. CASE Contains(woken, u)
    <3>1. item'[u].unblocked
      BY <1>4, <2>1 DEF Value
    <3> QED
      BY <1>3, <2>1, <3>1 DEF ItemHolds, Sleeps
  <2>2. CASE ~Contains(woken, u)
    <3>1. xTickCount <= xTickCount' /\ wake' = wake
      BY DEF GroupInv, KernelInv, TicksInv, clock, frame
    <3>2. InWait(u)' => InWait(u)
      BY DEF InWait
    <3>3. item'[u] = item[u] /\ call'[u] = call[u] /\ (WaitsForBits(u)' <=> WaitsForBits(u))
      BY <1>3, <1>4, <2>2
    <3> QED
      BY <1>8, <1>14, <2>2, <3>1, <3>2, <3>3, OthersHold
  <2> QED
    BY <2>1, <2>2
<1> QED
  BY <1>3, <1>4, <1>8, <1>12, <1>13, <1>14, <1>15 DEF GroupInv

(* A set and a delete wake tasks of the group.                             *)
LEMMA MatchedIs ==
  ASSUME GroupInv, GroupTidy, NEW bits
  PROVE  /\ Matched(bits) \in Seq(Task)
         /\ \A u : Contains(Matched(bits), u)
                     <=> u \in Task /\ WaitsForBits(u) /\ Meets(u, bits)
<1> DEFINE set == {t \in Task : Meets(t, bits)}
<1>1. xTasksWaitingForBits \in Seq(Task)
  BY DEF GroupInv, GroupTypes
<1>2. Matched(bits) = Listed(xTasksWaitingForBits, set)
  BY DEF Matched
<1>3. \A u : u \in set <=> u \in Task /\ Meets(u, bits)
  OBVIOUS
<1> HIDE DEF set
<1>4. /\ Listed(xTasksWaitingForBits, set) \in Seq(Task)
      /\ \A u : Contains(Listed(xTasksWaitingForBits, set), u)
                  <=> u \in set /\ Contains(xTasksWaitingForBits, u)
  BY <1>1, ListedIs
<1> QED
  BY <1>2, <1>3, <1>4 DEF WaitsForBits

LEMMA SetIs ==
  ASSUME GroupInv, NEW t \in Task, NEW bits \in SUBSET Bits,
         xEventGroupSetBits(t, bits), NEW have, have = uxEventBits \cup bits
  PROVE  /\ GroupInv' /\ UNCHANGED <<call, pc, visit>> /\ visit'.clear = visit.clear
         /\ \A u \in Task : WaitsForBits(u) /\ Meets(u, have)
                              => ~WaitsForBits(u)' /\ ~Asleep(u)'
         /\ \A u \in Task :
              item'[u] = IF WaitsForBits(u) /\ Meets(u, have)
                         THEN Value(have \cup {IN_USE}, FALSE, FALSE, TRUE)
                         ELSE item[u]
         /\ uxEventBits' \subseteq have
         /\ \A u \in Task : WaitsForBits(u) /\ Meets(u, have) /\ item[u].clear
                              => uxEventBits' \cap item[u].bits = {}
<1>1. have \in SUBSET Bits /\ GroupTidy
  BY DEF GroupInv, GroupTypes, xEventGroupSetBits
<1>2. PICK woken : /\ woken = Matched(have) /\ Unblock(woken, have)
                   /\ uxEventBits' = have \ UNION {item[u].bits : u \in
                                        {v \in ToSet(woken) : item[v].clear}}
  BY DEF xEventGroupSetBits
<1>3. /\ woken \in Seq(Task)
      /\ \A u : Contains(woken, u) <=> u \in Task /\ WaitsForBits(u) /\ Meets(u, have)
  BY <1>1, <1>2, MatchedIs
<1>4. UNCHANGED <<frame, current, pc, clock, uxSchedulerSuspended, panicked,
                  visit, call, read>>
  BY DEF xEventGroupSetBits
<1>5. /\ GroupInv'
      /\ \A u \in Task :
           WaitsForBits(u)' <=> WaitsForBits(u) /\ ~Contains(woken, u)
      /\ \A u \in Task : Contains(woken, u) => ~Asleep(u)'
      /\ \A u \in Task :
           item'[u] = IF Contains(woken, u)
                      THEN Value(have \cup {IN_USE}, FALSE, FALSE, TRUE)
                      ELSE item[u]
  <2>1. uxEventBits' \subseteq Bits /\ \A u : Contains(woken, u) => WaitsForBits(u)
    BY <1>1, <1>2, <1>3
  <2> QED
    BY <1>1, <1>2, <1>3, <1>4, <2>1, UnblockKeepsGroup
<1>6. ASSUME NEW u \in Task, WaitsForBits(u), Meets(u, have), item[u].clear
      PROVE  uxEventBits' \cap item[u].bits = {}
  <2>1. u \in ToSet(woken)
    <3>1. Contains(woken, u) /\ DOMAIN woken = 1 .. Len(woken)
      BY <1>3, <1>6
    <3> QED
      BY <3>1 DEF Contains, ToSet
  <2> QED
    BY <1>2, <1>6, <2>1
<1> QED
  BY <1>2, <1>3, <1>4, <1>5, <1>6

LEMMA DeleteIs ==
  ASSUME GroupInv, NEW t \in Task, vEventGroupDelete(t)
  PROVE  /\ GroupInv'
         /\ \A u \in Task : item'[u] = item[u] \/ item'[u].bits = {IN_USE}
<1> DEFINE woken == xTasksWaitingForBits
           none == {}
<1>1. woken \in Seq(Task) /\ \A u : Contains(woken, u) <=> WaitsForBits(u)
  BY DEF GroupInv, GroupTypes, WaitsForBits, vEventGroupDelete
<1>2. /\ Unblock(woken, none) /\ none \in SUBSET Bits /\ GroupTidy
      /\ UNCHANGED <<frame, current, pc, clock, uxSchedulerSuspended, panicked,
                     call, uxEventBits>>
  BY DEF vEventGroupDelete
<1>3. uxEventBits' \subseteq Bits
  BY <1>2 DEF GroupInv, GroupTypes
<1> HIDE DEF none, woken
<1>4. /\ GroupInv'
      /\ \A u \in Task :
           item'[u] = IF Contains(woken, u)
                      THEN Value(none \cup {IN_USE}, FALSE, FALSE, TRUE)
                      ELSE item[u]
  BY <1>1, <1>2, <1>3, UnblockKeepsGroup
<1>5. Value(none \cup {IN_USE}, FALSE, FALSE, TRUE).bits = {IN_USE}
  BY DEF none, Value
<1> QED
  BY <1>4, <1>5

(* One item of a walk along tangled links is woken.                        *)
LEMMA WakesOne ==
  ASSUME GroupInv, ~GroupTidy, NEW h \in Task, NEW bits \in SUBSET Bits,
         Unblock(<<h>>, bits),
         UNCHANGED <<frame, current, pc, clock, uxSchedulerSuspended, panicked,
                     uxEventBits, call>>
  PROVE  /\ GroupInv'
         /\ \A u \in Task :
              item'[u] = IF u = h
                         THEN Value(bits \cup {IN_USE}, FALSE, FALSE, TRUE)
                         ELSE item[u]
<1> DEFINE woken == <<h>>
<1>1. woken \in Seq(Task) /\ \A u : Contains(woken, u) <=> u = h
  BY DEF Contains
<1>2. Unblock(woken, bits) /\ \E x \in Task : woken = <<x>>
  OBVIOUS
<1>3. uxEventBits' \subseteq Bits
  BY DEF GroupInv, GroupTypes
<1> HIDE DEF woken
<1>4. /\ GroupInv'
      /\ \A u \in Task :
           item'[u] = IF Contains(woken, u)
                      THEN Value(bits \cup {IN_USE}, FALSE, FALSE, TRUE)
                      ELSE item[u]
  BY <1>1, <1>2, <1>3, UnblockKeepsGroup
<1> QED
  BY <1>1, <1>4

(* The items of a set's walk and of a delete's.                            *)
LEMMA VisitIs ==
  ASSUME GroupInv, NEW t \in Task, VisitItem(t)
  PROVE  /\ GroupInv' /\ uxEventBits' = uxEventBits
         /\ \A u \in Task :
              \/ item'[u] = item[u]
              \/ /\ Meets(u, uxEventBits)
                 /\ item'[u] = Value(uxEventBits \cup {IN_USE}, FALSE, FALSE,
                                     TRUE)
                 /\ item[u].clear => item[u].bits \subseteq visit'.clear
<1> DEFINE u == visit.at
           clear == visit.clear \cup IF item[u].clear THEN item[u].bits ELSE {}
<1>1. /\ u \in Task /\ t = current /\ Walks(t)
      /\ UNCHANGED <<frame, current, pc, clock, uxSchedulerSuspended, panicked,
                     uxEventBits, call, read>>
  BY DEF VisitItem, Executes, Walks
<1>2. ~GroupTidy /\ uxEventBits \in SUBSET Bits
  BY <1>1 DEF GroupInv, WalkInv, GroupTypes
<1>3. CASE Meets(u, uxEventBits)
  <2>1. Unblock(<<u>>, uxEventBits) /\ visit'.clear = clear
    BY <1>3 DEF VisitItem, Visiting
  <2>2. /\ GroupInv'
        /\ \A v \in Task :
             item'[v] = IF v = u
                        THEN Value(uxEventBits \cup {IN_USE}, FALSE, FALSE, TRUE)
                        ELSE item[v]
    BY <1>1, <1>2, <2>1, WakesOne
  <2> QED
    BY <1>1, <1>3, <2>1, <2>2
<1>4. CASE ~Meets(u, uxEventBits)
  <2>1. UNCHANGED <<listed, item, ring, xYieldPending>>
    BY <1>4 DEF VisitItem
  <2>2. KernelInv' /\ \A v \in Task : Dozes(v) /\ (Asleep(v)' <=> Asleep(v))
    BY <1>1, <2>1, StillKernel DEF GroupInv, KernelInv, TypesInv
  <2>3. GroupTypes'
    <3>1. uxPriority' = uxPriority
      BY <1>1 DEF frame, tasks
    <3> QED
      BY <1>1, <2>1, <3>1, ListedKept DEF GroupInv, GroupTypes
  <2>4. WalkInv' /\ CallerAwake' /\ ~WaitsForBits(Idle)'
    BY <1>1, <2>1, <2>2, ListedKept
       DEF GroupInv, WalkInv, Walks, CallerAwake, KernelInv, TypesInv
  <2>5. ASSUME NEW v \in Task PROVE ItemHolds(v)' /\ Sleeps(v)'
    <3>1. xTickCount <= xTickCount' /\ wake' = wake
      BY <1>1 DEF GroupInv, KernelInv, TicksInv, clock, frame
    <3> QED
      BY <1>1, <2>1, <2>2, <3>1, ListedKept, OthersHold DEF InWait
  <2> QED
    BY <1>1, <2>1, <2>2, <2>3, <2>4, <2>5 DEF GroupInv
<1> QED
  BY <1>3, <1>4

LEMMA DeleteItemIs ==
  ASSUME GroupInv, NEW t \in Task, DeleteItem(t)
  PROVE  /\ GroupInv' /\ uxEventBits' = uxEventBits
         /\ \A u \in Task : item'[u] = item[u] \/ item'[u].bits = {IN_USE}
<1> DEFINE head == GroupLinks.next[Waiters]
           none == {}
<1>1. CASE GroupLinks.count[Waiters] = 0
  BY <1>1, WalkingKeepsGroup DEF DeleteItem, group
<1>2. CASE Panic /\ UNCHANGED group
  BY <1>2, StoppingKeepsGroup DEF group
<1>3. CASE /\ head \in Task /\ Unblock(<<head>>, none)
           /\ UNCHANGED <<frame, current, pc, clock, uxSchedulerSuspended,
                          panicked, uxEventBits, call>>
  <2>1. ~GroupTidy /\ none \in SUBSET Bits
    BY DEF DeleteItem, Executes, Walks, GroupInv, WalkInv
  <2>2. Value(none \cup {IN_USE}, FALSE, FALSE, TRUE).bits = {IN_USE}
    BY DEF none, Value
  <2> HIDE DEF none, head
  <2>3. /\ GroupInv'
        /\ \A u \in Task :
             item'[u] = IF u = head
                        THEN Value(none \cup {IN_USE}, FALSE, FALSE, TRUE)
                        ELSE item[u]
    BY <1>3, <2>1, WakesOne
  <2> QED
    BY <1>3, <2>2, <2>3
<1> QED
  BY <1>1, <1>2, <1>3 DEF DeleteItem

LEMMA StepKeepsGroup ==
  ASSUME GroupInv, [GroupNext]_<<vars, group>>
  PROVE  GroupInv'
<1>1. CASE UNCHANGED <<vars, group>>
  BY <1>1, StoppingKeepsGroup
<1>2. CASE Tick /\ UNCHANGED group
  BY <1>2, TickKeepsGroup
<1>3. ASSUME NEW t \in Task,
             \/ (Yield(t) \/ TaskYield(t)) /\ UNCHANGED group
             \/ YieldForBits(t)
      PROVE  GroupInv'
  BY <1>3, SwitchKeepsGroup
<1>4. ASSUME NEW t \in Task, NEW n \in Delays, VTaskDelay(t, n), UNCHANGED group
      PROVE  GroupInv'
  BY <1>4, DelayKeepsGroup, StoppingKeepsGroup
<1>5. ASSUME NEW t \in Task, WaitForBits(t)
      PROVE  GroupInv'
  <2>1. Panic => UNCHANGED group
    BY <1>5 DEF WaitForBits, Panic, GroupInv, GroupTypes
  <2> QED
    BY <1>5, <2>1, WaitKeepsGroup, StoppingKeepsGroup
<1>6. ASSUME NEW t \in Task, NEW b \in SUBSET Bits, xEventGroupSetBits(t, b)
      PROVE  GroupInv'
  BY <1>6, SetIs
<1>7. ASSUME NEW t \in Task, vEventGroupDelete(t)
      PROVE  GroupInv'
  BY <1>7, DeleteIs
<1>8. ASSUME NEW t \in Task,
             \/ \E b \in SUBSET Bits : xEventGroupClearBits(t, b)
             \/ \E b \in WaitBits, all \in WaitForAll, clear \in BOOLEAN,
                   n \in GroupWaits : ReadBits(t, b, all, clear, n)
             \/ ReturnAtOnce(t) \/ TakeBits(t)
      PROVE  GroupInv'
  BY <1>8, QuietKeepsGroup
<1>9. ASSUME NEW t \in Task,
             \/ \E b \in SUBSET Bits : BeginSet(t, b)
             \/ EndSet(t) \/ BeginDelete(t)
      PROVE  GroupInv'
  BY <1>9, WalkingKeepsGroup
<1>10. ASSUME NEW t \in Task, VisitItem(t) \/ DeleteItem(t)
       PROVE  GroupInv'
  BY <1>10, VisitIs, DeleteItemIs
<1> QED
  BY <1>1, <1>2, <1>3, <1>4, <1>5, <1>6, <1>7, <1>8, <1>9, <1>10 DEF GroupNext

LEMMA GroupAlways == GroupSpec => []GroupInv
<1>1. GroupInv /\ [GroupNext]_<<vars, group>> => GroupInv'
  BY StepKeepsGroup
<1> QED
  BY <1>1, InitGroupInv, PTL DEF GroupSpec

(* Nobody is left between the two lists: a task in its wait that nobody    *)
(* has unblocked sleeps with its event item in the group, until the time   *)
(* it asked for is over.  Items linked twice included.                     *)
THEOREM WaitersAlwaysSleep == GroupSpec => []WaitersSleep
<1>1. GroupInv => WaitersSleep
  BY DEF GroupInv, WaitersSleep, Sleeps
<1> QED
  BY <1>1, GroupAlways, PTL

(* Only a set and a delete unblock.                                        *)
LEMMA GroupStepIs ==
  ASSUME GroupInv, [GroupNext]_<<vars, group>>
  PROVE  \/ \E t \in Task : \E b \in SUBSET Bits : xEventGroupSetBits(t, b)
         \/ \E t \in Task : VisitItem(t)
         \/ \A u \in Task : \/ item'[u] = item[u] \/ ~item'[u].unblocked
                            \/ item'[u].bits = {IN_USE}
<1> DEFINE NoneUnblocked ==
      \A u \in Task : \/ item'[u] = item[u]
                      \/ ~item'[u].unblocked
                      \/ item'[u].bits = {IN_USE}
<1>1. CASE UNCHANGED group
  BY <1>1 DEF group
<1>2. ASSUME NEW t \in Task, NEW b \in SUBSET Bits,
             xEventGroupClearBits(t, b) \/ BeginSet(t, b)
      PROVE  NoneUnblocked
  BY <1>2 DEF xEventGroupClearBits, BeginSet
<1>3. ASSUME NEW t \in Task, vEventGroupDelete(t) \/ DeleteItem(t)
      PROVE  NoneUnblocked
  BY <1>3, DeleteIs, DeleteItemIs
<1>4. ASSUME NEW t \in Task, NEW b \in WaitBits, NEW all \in WaitForAll,
             NEW clear \in BOOLEAN, NEW n \in GroupWaits,
             ReadBits(t, b, all, clear, n)
      PROVE  NoneUnblocked
  BY <1>4 DEF ReadBits
<1>5. ASSUME NEW t \in Task,
             ReturnAtOnce(t) \/ WaitForBits(t) \/ YieldForBits(t) \/ TakeBits(t)
      PROVE  NoneUnblocked
  BY <1>5 DEF ReturnAtOnce, WaitForBits, YieldForBits, TakeBits, Value,
              ResetValue, group, GroupInv, GroupTypes
<1>6. ASSUME NEW t \in Task, EndSet(t) \/ BeginDelete(t)
      PROVE  NoneUnblocked
  BY <1>6 DEF EndSet, BeginDelete, group
<1>7. UNCHANGED <<vars, group>> => UNCHANGED group
  OBVIOUS
<1> QED
  BY <1>1, <1>2, <1>3, <1>4, <1>5, <1>6, <1>7 DEF GroupNext

(* What a set finds of a task that waits is what the task called with.     *)
LEMMA MeetsIs ==
  ASSUME GroupInv, NEW u \in Task, InWait(u),
         WaitsForBits(u) \/ ~item[u].unblocked,
         NEW have \in SUBSET Bits
  PROVE  /\ Meets(u, have) => ConditionMet(have, call[u].bits, call[u].all)
         /\ ~call[u].all /\ ConditionMet(have, call[u].bits, FALSE)
              => Meets(u, have)
         /\ item[u].clear = call[u].clear
         /\ call[u].bits \subseteq item[u].bits
<1>1. /\ item[u].bits = call[u].bits \cup {IN_USE}
      /\ item[u].all = call[u].all /\ item[u].clear = call[u].clear
  <2>1. item[u] = Value(call[u].bits \cup {IN_USE}, call[u].all,
                        call[u].clear, FALSE)
    BY DEF GroupInv, ItemHolds
  <2> QED
    BY <2>1 DEF Value
<1>2. IN_USE \notin have
  BY GroupAssumption
<1> QED
  BY <1>1, <1>2 DEF Meets, ConditionMet

(* A set of a list whose items are linked once never passes over a task    *)
(* that waits for any of the bits it finds or sets, whoever else it wakes  *)
(* and whatever the others clear: the task leaves the list and wakes.      *)
THEOREM SetsWakeAll == GroupSpec => SetWakes
<1> DEFINE MetBySet(u, b) ==
      /\ xEventGroupSetBits(current, b)
      /\ InWait(u) /\ WaitsForBits(u) /\ ~call[u].all
      /\ ConditionMet(uxEventBits \cup b, call[u].bits, FALSE)
      => ~WaitsForBits(u)' /\ ~Asleep(u)'
<1>1. ASSUME GroupInv, NEW u \in Task, NEW b \in SUBSET Bits
      PROVE  MetBySet(u, b)
  <2> SUFFICES ASSUME xEventGroupSetBits(current, b), InWait(u),
                      WaitsForBits(u), ~call[u].all,
                      ConditionMet(uxEventBits \cup b, call[u].bits, FALSE)
               PROVE  ~WaitsForBits(u)' /\ ~Asleep(u)'
    OBVIOUS
  <2>1. PICK have : have = uxEventBits \cup b
    OBVIOUS
  <2>2. have \in SUBSET Bits /\ current \in Task
    BY <1>1, <2>1 DEF GroupInv, GroupTypes, KernelInv, TypesInv
  <2>3. Meets(u, have)
    BY <1>1, <2>1, <2>2, MeetsIs
  <2> QED
    BY <1>1, <2>1, <2>2, <2>3, SetIs
<1>2. GroupInv => [\A t \in Task, bits \in SUBSET Bits :
       /\ xEventGroupSetBits(current, bits)
       /\ InWait(t) /\ WaitsForBits(t) /\ ~call[t].all
       /\ ConditionMet(uxEventBits \cup bits, call[t].bits, FALSE)
       => ~WaitsForBits(t)' /\ ~Asleep(t)'
    ]_<<vars, group>>
  BY <1>1
<1> QED
  BY <1>2, GroupAlways, PTL DEF SetWakes

(* What an unblocked task returns meets its condition, unless the group    *)
(* was deleted, and a task that asked for it leaves none of its bits set   *)
(* but those the walk of the set will clear: the bits of one set are       *)
(* consumed once.  Items linked twice included.                            *)
THEOREM BitsConsumedOnce == GroupSpec => Consumed
<1> DEFINE Result(u) ==
      /\ ConditionMet(item'[u].bits, call[u].bits, call[u].all)
      /\ call[u].clear => (uxEventBits \ visit.clear)' \cap call[u].bits = {}
    Taken(u) ==
      /\ InWait(u) /\ ~item[u].unblocked /\ item'[u].unblocked
      /\ item'[u].bits # {IN_USE}
      => Result(u)
<1>1. ASSUME GroupInv, [GroupNext]_<<vars, group>>, NEW u \in Task
      PROVE  Taken(u)
  <2> SUFFICES ASSUME InWait(u), ~item[u].unblocked, item'[u].unblocked,
                      item'[u].bits # {IN_USE}
               PROVE  Result(u)
    OBVIOUS
  <2>1. ASSUME NEW t \in Task, NEW b \in SUBSET Bits, xEventGroupSetBits(t, b)
        PROVE  Result(u)
    <3>1. PICK have : have = uxEventBits \cup b
      OBVIOUS
    <3>2. have \in SUBSET Bits
      BY <1>1, <3>1 DEF GroupInv, GroupTypes
    <3>3. /\ \A v \in Task :
               item'[v] = IF WaitsForBits(v) /\ Meets(v, have)
                          THEN Value(have \cup {IN_USE}, FALSE, FALSE, TRUE)
                          ELSE item[v]
          /\ \A v \in Task : WaitsForBits(v) /\ Meets(v, have) /\ item[v].clear
                               => uxEventBits' \cap item[v].bits = {}
      BY <1>1, <2>1, <3>1, SetIs
    <3>4. WaitsForBits(u) /\ Meets(u, have) /\ item'[u].bits = have \cup {IN_USE}
      BY <3>3 DEF Value
    <3>5. /\ ConditionMet(have, call[u].bits, call[u].all)
          /\ item[u].clear = call[u].clear
          /\ call[u].bits \subseteq item[u].bits
      BY <1>1, <3>2, <3>4, MeetsIs
    <3> QED
      BY <3>3, <3>4, <3>5 DEF ConditionMet
  <2>2. ASSUME NEW t \in Task, VisitItem(t)
        PROVE  Result(u)
    <3>1. /\ Meets(u, uxEventBits) /\ uxEventBits' = uxEventBits
          /\ item'[u].bits = uxEventBits \cup {IN_USE}
          /\ item[u].clear => item[u].bits \subseteq visit'.clear
      BY <1>1, <2>2, VisitIs DEF Value
    <3>2. uxEventBits \in SUBSET Bits
      BY <1>1 DEF GroupInv, GroupTypes
    <3>3. /\ ConditionMet(uxEventBits, call[u].bits, call[u].all)
          /\ item[u].clear = call[u].clear
          /\ call[u].bits \subseteq item[u].bits
      BY <1>1, <3>1, <3>2, MeetsIs
    <3> QED
      BY <3>1, <3>3 DEF ConditionMet
  <2> QED
    BY <1>1, <2>1, <2>2, GroupStepIs
<1>2. GroupInv /\ [GroupNext]_<<vars, group>>
        => [\A t \in Task :
       /\ InWait(t) /\ ~item[t].unblocked /\ item'[t].unblocked
       /\ item'[t].bits # {IN_USE}
       => /\ ConditionMet(item'[t].bits, call[t].bits, call[t].all)
          /\ call[t].clear => (uxEventBits \ visit.clear)' \cap call[t].bits = {}
    ]_<<vars, group>>
  BY <1>1
<1> QED
  BY <1>2, GroupAlways, PTL DEF GroupSpec, Consumed
=============================================================================
