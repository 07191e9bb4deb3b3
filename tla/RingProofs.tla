----------------------------- MODULE RingProofs -----------------------------
(***************************************************************************)
(* What the operators of Rings do to a ring: which nodes it has after      *)
(* them, each once, and where the marker and the order stay.  The proofs   *)
(* about the scheduler and the calls above it rest on these lemmas.        *)
(***************************************************************************)
EXTENDS Rings, FiniteSets, SequenceTheorems, WellFoundedInduction, TLAPS

(* A ring of a list: its marker and some of the items, each node once.     *)
IsRing(r, marker, S) ==
  /\ r \in Seq(S \cup {marker})
  /\ Contains(r, marker)
  /\ \A i, j \in 1 .. Len(r) : r[i] = r[j] => i = j

(* The index of the list stands on its marker, so the round is the order.  *)
MarkerLast(r, marker) == r[Len(r)] = marker

(* Nodes that follow one another in s do so in r.                          *)
SameOrder(s, r) ==
  \A i, j \in 1 .. Len(s) :
    i < j => \E m, n \in 1 .. Len(r) : m < n /\ s[i] = r[m] /\ s[j] = r[n]

SortedBy(r, value) ==
  \A i, j \in 1 .. Len(r) : i < j => value[r[i]] <= value[r[j]]

(* A non-empty set of numbers has a least one: induction, without a        *)
(* predicate to instantiate.                                               *)
LEMMA LeastNumber ==
  ASSUME NEW T, T \subseteq Nat, T # {}
  PROVE  \E m \in T : \A k \in T : m <= k
<1>1. IsWellFoundedOn(OpToRel(<, Nat), Nat)
  BY NatLessThanWellFounded
<1>2. PICK m \in T : \A k \in T : ~(<<k, m>> \in OpToRel(<, Nat))
  BY <1>1, WFMin
<1>3. \A k \in T : ~(k < m)
  BY <1>2 DEF OpToRel
<1> QED
  BY <1>3

(* What joining, inserting, removing and turning make of a sequence, place *)
(* by place.                                                               *)
Joined(c, a, b, m, n) ==
  /\ Len(c) = m + n
  /\ \A i \in 1 .. m + n : c[i] = IF i <= m THEN a[i] ELSE b[i - m]

InsertedInto(t, s, k, e) ==
  /\ Len(t) = Len(s) + 1
  /\ \A i \in 1 .. Len(s) + 1 :
       t[i] = IF i < k THEN s[i] ELSE IF i = k THEN e ELSE s[i - 1]

TakenFrom(t, s, k) ==
  /\ Len(t) = Len(s) - 1
  /\ \A i \in 1 .. Len(s) - 1 : t[i] = IF i < k THEN s[i] ELSE s[i + 1]

TurnOf(t, r, d) ==
  /\ Len(t) = Len(r)
  /\ \A i \in 1 .. Len(r) :
       t[i] = IF i <= Len(r) - d THEN r[i + d] ELSE r[i - (Len(r) - d)]

LEMMA PlaceIs ==
  ASSUME NEW r, NEW node, Contains(r, node)
  PROVE  Place(r, node) \in 1 .. Len(r) /\ r[Place(r, node)] = node
BY DEF Place, Contains

LEMMA JoinIs ==
  ASSUME NEW S, NEW a \in Seq(S), NEW b \in Seq(S), NEW m, NEW n,
         Len(a) = m, Len(b) = n
  PROVE  a \o b \in Seq(S) /\ Joined(a \o b, a, b, m, n)
BY ConcatProperties DEF Joined

LEMMA InsertAtIs ==
  ASSUME NEW S, NEW s \in Seq(S), NEW e \in S, NEW k \in 1 .. Len(s) + 1
  PROVE  InsertAt(s, k, e) \in Seq(S) /\ InsertedInto(InsertAt(s, k, e), s, k, e)
<1> DEFINE a == SubSeq(s, 1, k - 1)
           b == SubSeq(s, k, Len(s))
<1>1. Len(s) \in Nat /\ \A i \in 1 .. Len(s) : s[i] \in S
  BY ElementOfSeq, LenProperties
<1>2. /\ a \in Seq(S) /\ Len(a) = k - 1
      /\ \A i \in 1 .. k - 1 : a[i] = s[i]
  BY <1>1, SubSeqProperties
<1>3. /\ b \in Seq(S) /\ Len(b) = Len(s) - k + 1
      /\ \A i \in 1 .. Len(s) - k + 1 : b[i] = s[k + i - 1]
  BY <1>1, SubSeqProperties
<1>4. <<e>> \in Seq(S) /\ Len(<<e>>) = 1 /\ <<e>>[1] = e
  OBVIOUS
<1> HIDE DEF a, b
<1>5. /\ a \o <<e>> \in Seq(S) /\ Len(a \o <<e>>) = k
      /\ \A i \in 1 .. k : (a \o <<e>>)[i] = IF i <= k - 1 THEN a[i] ELSE e
  <2>1. /\ a \o <<e>> \in Seq(S) /\ Len(a \o <<e>>) = (k - 1) + 1
        /\ \A i \in 1 .. (k - 1) + 1 :
             (a \o <<e>>)[i] = IF i <= k - 1 THEN a[i] ELSE <<e>>[i - (k - 1)]
    BY <1>2, <1>4, JoinIs DEF Joined
  <2> QED
    BY <1>1, <1>4, <2>1
<1>6. /\ (a \o <<e>>) \o b \in Seq(S)
      /\ Len((a \o <<e>>) \o b) = Len(s) + 1
      /\ \A i \in 1 .. Len(s) + 1 :
           ((a \o <<e>>) \o b)[i] = IF i <= k THEN (a \o <<e>>)[i] ELSE b[i - k]
  <2>1. /\ (a \o <<e>>) \o b \in Seq(S)
        /\ Len((a \o <<e>>) \o b) = k + (Len(s) - k + 1)
        /\ \A i \in 1 .. k + (Len(s) - k + 1) :
             ((a \o <<e>>) \o b)[i] = IF i <= k THEN (a \o <<e>>)[i] ELSE b[i - k]
    <3> DEFINE c == a \o <<e>>
    <3>1. c \in Seq(S) /\ Len(c) = k
      BY <1>5
    <3> HIDE DEF c
    <3>2. /\ c \o b \in Seq(S) /\ Len(c \o b) = Len(c) + Len(b)
          /\ \A i \in 1 .. Len(c) + Len(b) :
               (c \o b)[i] = IF i <= Len(c) THEN c[i] ELSE b[i - Len(c)]
      BY <1>3, <3>1, ConcatProperties
    <3>3. Len(c) = k /\ Len(b) = Len(s) - k + 1
      BY <1>3, <3>1
    <3> QED
      BY <3>2, <3>3 DEF c
  <2>2. k + (Len(s) - k + 1) = Len(s) + 1
    BY <1>1
  <2> QED
    BY <2>1, <2>2
<1>7. InsertAt(s, k, e) = (a \o <<e>>) \o b
  BY DEF InsertAt, a, b
<1>8. ASSUME NEW i \in 1 .. Len(s) + 1
      PROVE  InsertAt(s, k, e)[i] = IF i < k THEN s[i]
                                    ELSE IF i = k THEN e ELSE s[i - 1]
  <2>1. CASE i < k
    <3>1. i <= k /\ i <= k - 1 /\ i \in 1 .. k /\ i \in 1 .. k - 1
      BY <1>1, <2>1
    <3>2. (a \o <<e>>)[i] = s[i]
      BY <1>2, <1>5, <3>1
    <3> QED
      BY <1>6, <1>7, <2>1, <3>1, <3>2
  <2>2. CASE i = k
    <3>1. i <= k /\ ~(i <= k - 1) /\ i \in 1 .. k /\ ~(i < k)
      BY <1>1, <2>2
    <3>2. (a \o <<e>>)[i] = e
      BY <1>5, <3>1
    <3> QED
      BY <1>6, <1>7, <2>2, <3>1, <3>2
  <2>3. CASE i > k
    <3>1. PICK h \in 1 .. Len(s) - k + 1 : h = i - k /\ k + h - 1 = i - 1
      BY <1>1, <2>3
    <3>2. ~(i <= k) /\ ~(i < k) /\ i # k
      BY <1>1, <2>3
    <3>3. b[i - k] = s[i - 1]
      BY <1>3, <3>1
    <3> QED
      BY <1>6, <1>7, <3>2, <3>3
  <2>4. i < k \/ i = k \/ i > k
    BY <1>1
  <2> QED
    BY <2>1, <2>2, <2>3, <2>4
<1> QED
  BY <1>6, <1>7, <1>8 DEF InsertedInto

LEMMA RemoveAtIs ==
  ASSUME NEW S, NEW s \in Seq(S), NEW k \in 1 .. Len(s)
  PROVE  RemoveAt(s, k) \in Seq(S) /\ TakenFrom(RemoveAt(s, k), s, k)
<1> DEFINE a == SubSeq(s, 1, k - 1)
           b == SubSeq(s, k + 1, Len(s))
<1>1. Len(s) \in Nat /\ \A i \in 1 .. Len(s) : s[i] \in S
  BY ElementOfSeq, LenProperties
<1>2. /\ a \in Seq(S) /\ Len(a) = k - 1
      /\ \A i \in 1 .. k - 1 : a[i] = s[i]
  BY <1>1, SubSeqProperties
<1>3. /\ b \in Seq(S) /\ Len(b) = Len(s) - k
      /\ \A i \in 1 .. Len(s) - k : b[i] = s[k + i]
  BY <1>1, SubSeqProperties
<1> HIDE DEF a, b
<1>4. /\ a \o b \in Seq(S) /\ Len(a \o b) = (k - 1) + (Len(s) - k)
      /\ \A i \in 1 .. (k - 1) + (Len(s) - k) :
           (a \o b)[i] = IF i <= k - 1 THEN a[i] ELSE b[i - (k - 1)]
  <2>1. a \o b \in Seq(S) /\ Joined(a \o b, a, b, k - 1, Len(s) - k)
    BY <1>2, <1>3, JoinIs
  <2> QED
    BY <2>1 DEF Joined
<1>5. RemoveAt(s, k) = a \o b
  BY DEF RemoveAt, a, b
<1>6. (k - 1) + (Len(s) - k) = Len(s) - 1
  BY <1>1
<1>7. ASSUME NEW i \in 1 .. Len(s) - 1
      PROVE  (a \o b)[i] = IF i < k THEN s[i] ELSE s[i + 1]
  <2>1. CASE i < k
    BY <1>1, <1>2, <1>4, <1>6, <2>1
  <2>2. CASE i >= k
    <3>1. (a \o b)[i] = b[i - (k - 1)] /\ i - (k - 1) \in 1 .. Len(s) - k
      BY <1>1, <1>4, <1>6, <2>2
    <3>2. b[i - (k - 1)] = s[k + (i - (k - 1))]
      BY <1>3, <3>1
    <3>3. k + (i - (k - 1)) = i + 1
      BY <1>1
    <3> QED
      BY <2>2, <3>1, <3>2, <3>3
  <2>3. i < k \/ i >= k
    BY <1>1
  <2> QED
    BY <2>1, <2>2, <2>3
<1> QED
  BY <1>4, <1>5, <1>6, <1>7 DEF TakenFrom
-----------------------------------------------------------------------------
LEMMA RingTypes ==
  ASSUME NEW S, NEW marker, NEW r, IsRing(r, marker, S)
  PROVE  /\ r \in Seq(S \cup {marker}) /\ Len(r) \in Nat \ {0}
         /\ \A i \in 1 .. Len(r) : r[i] \in S \cup {marker}
         /\ \A x : Contains(r, x) => x \in S \cup {marker}
<1>1. Len(r) \in Nat /\ \A i \in 1 .. Len(r) : r[i] \in S \cup {marker}
  BY ElementOfSeq, LenProperties DEF IsRing
<1>2. PICK i \in 1 .. Len(r) : r[i] = marker
  BY DEF IsRing, Contains
<1> QED
  BY <1>1, <1>2 DEF IsRing, Contains

(* An item enters before a node of the ring.                               *)
LEMMA InsertIntoRing ==
  ASSUME NEW S, NEW marker, NEW r, IsRing(r, marker, S),
         NEW t \in S, ~Contains(r, t), NEW k \in 1 .. Len(r)
  PROVE  /\ IsRing(InsertAt(r, k, t), marker, S)
         /\ \A x : Contains(InsertAt(r, k, t), x) <=> x = t \/ Contains(r, x)
         /\ MarkerLast(r, marker) => MarkerLast(InsertAt(r, k, t), marker)
<1> DEFINE s == InsertAt(r, k, t)
<1>1. Len(r) \in Nat \ {0} /\ \A i \in 1 .. Len(r) : r[i] # t
  BY RingTypes DEF Contains
<1>2. /\ s \in Seq(S \cup {marker}) /\ Len(s) = Len(r) + 1
      /\ \A i \in 1 .. Len(r) + 1 :
           s[i] = IF i < k THEN r[i] ELSE IF i = k THEN t ELSE r[i - 1]
  <2> DEFINE U == S \cup {marker}
  <2>1. r \in Seq(U) /\ t \in U
    BY RingTypes
  <2>2. k \in 1 .. Len(r) + 1
    BY <1>1
  <2> HIDE DEF U
  <2>3. s \in Seq(U) /\ InsertedInto(s, r, k, t)
    BY <2>1, <2>2, InsertAtIs
  <2> QED
    BY <2>3 DEF U, InsertedInto
<1> HIDE DEF s
<1>3. ASSUME NEW x PROVE Contains(s, x) <=> x = t \/ Contains(r, x)
  <2>1. s[k] = t /\ k \in 1 .. Len(s)
    BY <1>1, <1>2
  <2>2. ASSUME NEW i \in 1 .. Len(r)
        PROVE  \E j \in 1 .. Len(s) : s[j] = r[i]
    <3>1. CASE i < k
      BY <1>1, <1>2, <3>1
    <3>2. CASE i >= k
      <4>1. i + 1 \in 1 .. Len(r) + 1 /\ i + 1 > k /\ (i + 1) - 1 = i
        BY <1>1, <3>2
      <4>2. s[i + 1] = r[(i + 1) - 1]
        BY <1>2, <4>1
      <4> QED
        BY <1>2, <4>1, <4>2
    <3>3. i < k \/ i >= k
      BY <1>1
    <3> QED
      BY <3>1, <3>2, <3>3
  <2>3. ASSUME NEW i \in 1 .. Len(s), s[i] # t
        PROVE  \E j \in 1 .. Len(r) : r[j] = s[i]
    <3>1. CASE i < k
      BY <1>1, <1>2, <3>1
    <3>2. CASE i > k
      BY <1>1, <1>2, <3>2
    <3>3. i < k \/ i = k \/ i > k
      BY <1>1, <1>2
    <3> QED
      BY <2>1, <2>3, <3>1, <3>2, <3>3
  <2> QED
    BY <2>1, <2>2, <2>3 DEF Contains
<1>4. ASSUME NEW i \in 1 .. Len(s), NEW j \in 1 .. Len(s), s[i] = s[j]
      PROVE  i = j
  <2> DEFINE old(n) == IF n < k THEN n ELSE n - 1
  <2>1. ASSUME NEW n \in 1 .. Len(s), n # k
        PROVE  old(n) \in 1 .. Len(r) /\ s[n] = r[old(n)]
    BY <1>1, <1>2, <2>1
  <2>2. s[k] = t
    BY <1>1, <1>2
  <2>3. CASE i = k \/ j = k
    BY <1>1, <1>4, <2>1, <2>2, <2>3
  <2>4. CASE i # k /\ j # k
    <3>1. old(i) = old(j)
      BY <1>4, <2>1, <2>4 DEF IsRing
    <3> QED
      BY <1>1, <1>2, <2>4, <3>1
  <2> QED
    BY <2>3, <2>4
<1>5. MarkerLast(r, marker) => MarkerLast(s, marker)
  BY <1>1, <1>2 DEF MarkerLast
<1> QED
  BY <1>2, <1>3, <1>4, <1>5 DEF IsRing, s

LEMMA EnterLastIs ==
  ASSUME NEW S, NEW marker, NEW r, IsRing(r, marker, S),
         NEW t \in S, ~Contains(r, t)
  PROVE  /\ IsRing(EnterLast(r, t), marker, S)
         /\ \A x : Contains(EnterLast(r, t), x) <=> x = t \/ Contains(r, x)
<1>1. Len(r) \in 1 .. Len(r)
  <2>1. Len(r) \in Nat \ {0}
    BY RingTypes
  <2> QED
    BY <2>1
<1> QED
  BY <1>1, InsertIntoRing DEF EnterLast

LEMMA EnterBeforeIs ==
  ASSUME NEW S, NEW marker, NEW r, IsRing(r, marker, S),
         NEW t \in S, ~Contains(r, t), NEW node, Contains(r, node)
  PROVE  /\ IsRing(EnterBefore(r, node, t), marker, S)
         /\ \A x : Contains(EnterBefore(r, node, t), x)
                     <=> x = t \/ Contains(r, x)
         /\ MarkerLast(r, marker) => MarkerLast(EnterBefore(r, node, t), marker)
<1>1. Place(r, node) \in 1 .. Len(r)
  BY PlaceIs
<1> QED
  BY <1>1, InsertIntoRing DEF EnterBefore

(* An item leaves: the others keep their order.                            *)
LEMMA WithoutIs ==
  ASSUME NEW S, NEW marker, NEW r, IsRing(r, marker, S),
         NEW t \in S, t # marker
  PROVE  /\ IsRing(Without(r, t), marker, S)
         /\ \A x : Contains(Without(r, t), x) <=> x # t /\ Contains(r, x)
         /\ MarkerLast(r, marker) => MarkerLast(Without(r, t), marker)
         /\ SameOrder(Without(r, t), r)
<1>1. CASE ~Contains(r, t)
  BY <1>1 DEF Without, SameOrder
<1>2. CASE Contains(r, t)
  <2> DEFINE k == Place(r, t)
             s == RemoveAt(r, k)
  <2>1. Len(r) \in Nat \ {0} /\ k \in 1 .. Len(r) /\ r[k] = t
    BY <1>2, RingTypes, PlaceIs
  <2> HIDE DEF k
  <2>2. /\ s \in Seq(S \cup {marker}) /\ Len(s) = Len(r) - 1
        /\ \A i \in 1 .. Len(r) - 1 : s[i] = IF i < k THEN r[i] ELSE r[i + 1]
    <3> DEFINE U == S \cup {marker}
    <3>1. r \in Seq(U)
      BY RingTypes
    <3> HIDE DEF U
    <3>2. s \in Seq(U) /\ TakenFrom(s, r, k)
      BY <2>1, <3>1, RemoveAtIs
    <3> QED
      BY <3>2 DEF U, TakenFrom
  <2>3. Without(r, t) = s
    BY <1>2 DEF Without, k
  <2> HIDE DEF s
  <2> DEFINE old(n) == IF n < k THEN n ELSE n + 1
  <2>4. ASSUME NEW n \in 1 .. Len(s)
        PROVE  old(n) \in 1 .. Len(r) /\ old(n) # k /\ s[n] = r[old(n)]
    <3>1. old(n) \in 1 .. Len(r) /\ old(n) # k
      BY <2>1, <2>2
    <3>2. n \in 1 .. Len(r) - 1
      BY <2>2
    <3> QED
      BY <2>2, <3>1, <3>2
  <2>5. ASSUME NEW i \in 1 .. Len(s), NEW j \in 1 .. Len(s), s[i] = s[j]
        PROVE  i = j
    <3>1. old(i) = old(j)
      BY <2>4, <2>5 DEF IsRing
    <3> QED
      BY <2>1, <2>2, <3>1
  <2>6. ASSUME NEW x PROVE Contains(s, x) <=> x # t /\ Contains(r, x)
    <3>1. ASSUME NEW n \in 1 .. Len(s) PROVE s[n] # t /\ Contains(r, s[n])
      BY <2>1, <2>4 DEF IsRing, Contains
    <3>2. ASSUME NEW i \in 1 .. Len(r), r[i] # t PROVE Contains(s, r[i])
      <4>1. CASE i < k
        <5>1. i \in 1 .. Len(r) - 1
          BY <2>1, <4>1
        <5> QED
          BY <2>2, <4>1, <5>1 DEF Contains
      <4>2. CASE i > k
        <5>1. i - 1 \in 1 .. Len(r) - 1 /\ ~(i - 1 < k) /\ (i - 1) + 1 = i
          BY <2>1, <4>2
        <5>2. s[i - 1] = r[(i - 1) + 1]
          BY <2>2, <5>1
        <5> QED
          BY <2>2, <5>1, <5>2 DEF Contains
      <4>3. i < k \/ i > k
        BY <2>1, <3>2
      <4> QED
        BY <4>1, <4>2, <4>3
    <3> QED
      BY <3>1, <3>2 DEF Contains
  <2>7. Contains(s, marker)
    BY <2>6 DEF IsRing
  <2>8. ASSUME MarkerLast(r, marker) PROVE MarkerLast(s, marker)
    <3>1. k # Len(r)
      BY <2>1, <2>8 DEF MarkerLast
    <3>2. Len(s) \in 1 .. Len(r) - 1 /\ ~(Len(s) < k) /\ Len(s) + 1 = Len(r)
      BY <2>1, <2>2, <3>1
    <3>3. s[Len(s)] = r[Len(s) + 1]
      BY <2>2, <3>2
    <3> QED
      BY <2>8, <3>2, <3>3 DEF MarkerLast
  <2>9. SameOrder(s, r)
    <3> SUFFICES ASSUME NEW i \in 1 .. Len(s), NEW j \in 1 .. Len(s), i < j
                 PROVE  \E m, n \in 1 .. Len(r) :
                          m < n /\ s[i] = r[m] /\ s[j] = r[n]
      BY DEF SameOrder
    <3>1. old(i) < old(j)
      BY <2>1, <2>2
    <3> QED
      BY <2>4, <3>1
  <2> QED
    BY <2>2, <2>3, <2>5, <2>6, <2>7, <2>8, <2>9 DEF IsRing
<1> QED
  BY <1>1, <1>2
-----------------------------------------------------------------------------
(* The round turned by d nodes.                                            *)
Turned(r, d) == SubSeq(r, d + 1, Len(r)) \o SubSeq(r, 1, d)

LEMMA TurnedIs ==
  ASSUME NEW U, NEW r \in Seq(U), NEW d \in 1 .. Len(r)
  PROVE  Turned(r, d) \in Seq(U) /\ TurnOf(Turned(r, d), r, d)
<1> DEFINE a == SubSeq(r, d + 1, Len(r))
           b == SubSeq(r, 1, d)
           n == Len(r)
<1>1. n \in Nat /\ d \in 1 .. n /\ \A i \in 1 .. n : r[i] \in U
  BY ElementOfSeq, LenProperties
<1>2. /\ a \in Seq(U) /\ Len(a) = n - d
      /\ \A i \in 1 .. n - d : a[i] = r[d + i]
  BY <1>1, SubSeqProperties
<1>3. /\ b \in Seq(U) /\ Len(b) = d
      /\ \A i \in 1 .. d : b[i] = r[i]
  BY <1>1, SubSeqProperties
<1>4. Turned(r, d) = a \o b
  BY DEF Turned
<1> HIDE DEF a, b, n
<1>5. /\ a \o b \in Seq(U) /\ Len(a \o b) = Len(a) + Len(b)
      /\ \A i \in 1 .. Len(a) + Len(b) :
           (a \o b)[i] = IF i <= Len(a) THEN a[i] ELSE b[i - Len(a)]
  BY <1>2, <1>3, ConcatProperties
<1>6. Len(a) + Len(b) = n
  BY <1>1, <1>2, <1>3
<1>7. ASSUME NEW i \in 1 .. n
      PROVE  (a \o b)[i] = IF i <= n - d THEN r[i + d] ELSE r[i - (n - d)]
  <2>1. CASE i <= n - d
    <3>1. i \in 1 .. n - d /\ d + i = i + d
      BY <1>1, <2>1
    <3>2. (a \o b)[i] = a[i]
      BY <1>2, <1>5, <1>6, <2>1
    <3> QED
      BY <1>2, <2>1, <3>1, <3>2
  <2>2. CASE i > n - d
    <3>1. i - (n - d) \in 1 .. d /\ ~(i <= n - d)
      BY <1>1, <2>2
    <3>2. (a \o b)[i] = b[i - (n - d)]
      BY <1>2, <1>5, <1>6, <3>1
    <3> QED
      BY <1>3, <3>1, <3>2
  <2>3. i <= n - d \/ i > n - d
    BY <1>1
  <2> QED
    BY <2>1, <2>2, <2>3
<1> QED
  BY <1>4, <1>5, <1>6, <1>7 DEF n, TurnOf

(* Turning keeps the nodes, each once.                                     *)
LEMMA TurnedRing ==
  ASSUME NEW S, NEW marker, NEW r, IsRing(r, marker, S), NEW d \in 1 .. Len(r)
  PROVE  /\ IsRing(Turned(r, d), marker, S)
         /\ \A x : Contains(Turned(r, d), x) <=> Contains(r, x)
         /\ Len(Turned(r, d)) = Len(r) /\ Turned(r, d)[Len(r)] = r[d]
<1> DEFINE U == S \cup {marker}
           s == Turned(r, d)
           n == Len(r)
<1>1. r \in Seq(U) /\ n \in Nat \ {0} /\ d \in 1 .. n
  BY RingTypes
<1> HIDE DEF U
<1>2. /\ s \in Seq(U) /\ Len(s) = n
      /\ \A i \in 1 .. n : s[i] = IF i <= n - d THEN r[i + d]
                                                ELSE r[i - (n - d)]
  <2>1. s \in Seq(U) /\ TurnOf(s, r, d)
    BY <1>1, TurnedIs
  <2> QED
    BY <2>1 DEF TurnOf
<1>3. \A i, j \in 1 .. n : r[i] = r[j] => i = j
  BY DEF IsRing
<1> HIDE DEF s, n
<1> DEFINE old(i) == IF i <= n - d THEN i + d ELSE i - (n - d)
<1>4. ASSUME NEW i \in 1 .. n PROVE old(i) \in 1 .. n /\ s[i] = r[old(i)]
  BY <1>1, <1>2
<1>5. ASSUME NEW i \in 1 .. n, NEW j \in 1 .. n, s[i] = s[j] PROVE i = j
  <2>1. old(i) = old(j)
    BY <1>3, <1>4, <1>5
  <2> QED
    BY <1>1, <2>1
<1>6. ASSUME NEW k \in 1 .. n PROVE \E i \in 1 .. n : s[i] = r[k]
  <2>1. CASE k > d
    <3>1. k - d \in 1 .. n /\ old(k - d) = k
      BY <1>1, <2>1
    <3> QED
      BY <1>4, <3>1
  <2>2. CASE k <= d
    <3>1. k + (n - d) \in 1 .. n /\ old(k + (n - d)) = k
      BY <1>1, <2>2
    <3> QED
      BY <1>4, <3>1
  <2>3. k > d \/ k <= d
    BY <1>1
  <2> QED
    BY <2>1, <2>2, <2>3
<1>7. \A x : Contains(s, x) <=> Contains(r, x)
  BY <1>2, <1>4, <1>6 DEF Contains, n
<1>8. s[n] = r[d]
  <2>1. n \in 1 .. n /\ old(n) = d
    BY <1>1
  <2> QED
    BY <1>4, <2>1
<1> QED
  BY <1>2, <1>5, <1>7, <1>8 DEF IsRing, U, s, n

(* The index of a list that is not empty comes to an item.                 *)
LEMMA RotateIs ==
  ASSUME NEW S, NEW marker, NEW r, IsRing(r, marker, S), ~IsEmpty(r)
  PROVE  /\ IsRing(Rotate(r, marker), marker, S)
         /\ \A x : Contains(Rotate(r, marker), x) <=> Contains(r, x)
         /\ Last(Rotate(r, marker)) \in S
         /\ Contains(r, Last(Rotate(r, marker)))
<1> DEFINE d == IF Head(r) = marker THEN 2 ELSE 1
<1>1. /\ r \in Seq(S \cup {marker}) /\ Len(r) \in Nat \ {0} /\ Len(r) # 1
      /\ \A i \in 1 .. Len(r) : r[i] \in S \cup {marker}
  BY RingTypes DEF IsEmpty
<1>2. Head(r) = r[1]
  BY <1>1
<1>3. d \in 1 .. Len(r) /\ 1 \in 1 .. Len(r) /\ 2 \in 1 .. Len(r)
  <2>1. \A n \in Nat \ {0} : n # 1 => 1 \in 1 .. n /\ 2 \in 1 .. n
    OBVIOUS
  <2>2. 1 \in 1 .. Len(r) /\ 2 \in 1 .. Len(r)
    BY <1>1, <2>1
  <2> QED
    BY <2>2
<1>4. r[d] # marker
  BY <1>2, <1>3 DEF IsRing
<1>5. Rotate(r, marker) = Turned(r, d)
  BY DEF Rotate, Turned
<1> HIDE DEF d
<1>6. /\ IsRing(Turned(r, d), marker, S)
      /\ \A x : Contains(Turned(r, d), x) <=> Contains(r, x)
      /\ Last(Turned(r, d)) = r[d]
  BY <1>3, TurnedRing DEF Last
<1> QED
  BY <1>1, <1>3, <1>4, <1>5, <1>6 DEF Contains

LEMMA InOrderIs ==
  ASSUME NEW S, NEW marker, NEW r, IsRing(r, marker, S)
  PROVE  /\ IsRing(InOrder(r, marker), marker, S)
         /\ \A x : Contains(InOrder(r, marker), x) <=> Contains(r, x)
         /\ MarkerLast(InOrder(r, marker), marker)
         /\ Len(InOrder(r, marker)) = Len(r)
<1>1. Place(r, marker) \in 1 .. Len(r) /\ r[Place(r, marker)] = marker
  BY PlaceIs DEF IsRing
<1>2. InOrder(r, marker) = Turned(r, Place(r, marker))
  BY DEF InOrder, Turned
<1> QED
  BY <1>1, <1>2, TurnedRing DEF MarkerLast

(* With the index on the marker the round is the order.                    *)
LEMMA InOrderAtMarker ==
  ASSUME NEW S, NEW marker, NEW r, IsRing(r, marker, S), MarkerLast(r, marker)
  PROVE  Place(r, marker) = Len(r) /\ InOrder(r, marker) = r
<1> DEFINE U == S \cup {marker}
           n == Len(r)
<1>1. r \in Seq(U) /\ n \in Nat \ {0}
  BY RingTypes
<1>2. Place(r, marker) = n
  <2>1. Place(r, marker) \in 1 .. n /\ r[Place(r, marker)] = marker
    BY PlaceIs DEF IsRing
  <2>2. n \in 1 .. n
    BY <1>1
  <2> QED
    BY <2>1, <2>2 DEF MarkerLast, IsRing
<1> HIDE DEF U
<1>3. InOrder(r, marker) = Turned(r, n)
  BY <1>2 DEF InOrder, Turned
<1>4. /\ Turned(r, n) \in Seq(U) /\ Len(Turned(r, n)) = n
      /\ \A i \in 1 .. n : Turned(r, n)[i] = IF i <= n - n THEN r[i + n]
                                                           ELSE r[i - (n - n)]
  <2>1. n \in 1 .. Len(r)
    BY <1>1
  <2>2. Turned(r, n) \in Seq(U) /\ TurnOf(Turned(r, n), r, n)
    BY <1>1, <2>1, TurnedIs
  <2> QED
    BY <2>2 DEF TurnOf
<1>5. \A i \in 1 .. n : Turned(r, n)[i] = r[i]
  BY <1>1, <1>4
<1>6. Turned(r, n) = r
  BY <1>1, <1>4, <1>5, SeqEqual
<1> QED
  BY <1>2, <1>3, <1>6
-----------------------------------------------------------------------------
(* The search of vListInsert ends at a node of the list: at the marker, if *)
(* at no item before it.                                                   *)
LEMMA FirstAtLeastIs ==
  ASSUME NEW S, NEW marker, NEW r, IsRing(r, marker, S),
         NEW value, NEW v, value[marker] >= v
  PROVE  \E k \in 1 .. Len(r) :
           /\ InOrder(r, marker)[k] = FirstAtLeast(r, marker, value, v)
           /\ value[InOrder(r, marker)[k]] >= v
           /\ \A i \in 1 .. k - 1 : ~(value[InOrder(r, marker)[i]] >= v)
<1> DEFINE order == InOrder(r, marker)
           I == {i \in 1 .. Len(order) : value[order[i]] >= v}
           k == Min(I)
<1>1. Len(order) = Len(r) /\ Len(r) \in Nat \ {0} /\ order[Len(order)] = marker
  <2>1. Len(r) \in Nat \ {0}
    BY RingTypes
  <2>2. Len(order) = Len(r) /\ MarkerLast(order, marker)
    BY InOrderIs
  <2> QED
    BY <2>1, <2>2 DEF MarkerLast
<1>2. Len(order) \in I
  BY <1>1
<1>3. I \subseteq Nat /\ I # {}
  BY <1>1, <1>2
<1> HIDE DEF I
<1>4. k \in I /\ \A i \in I : k <= i
  BY <1>3, LeastNumber DEF Min
<1>5. FirstAtLeast(r, marker, value, v) = order[k]
  BY <1>3 DEF FirstAtLeast, SelectInSeq, I
<1> HIDE DEF k, order
<1>6. k \in 1 .. Len(order) /\ value[order[k]] >= v
  BY <1>4 DEF I
<1>7. ASSUME NEW i \in 1 .. k - 1 PROVE ~(value[order[i]] >= v)
  <2>1. i \in 1 .. Len(order) /\ ~(k <= i)
    BY <1>1, <1>6
  <2> QED
    BY <1>4, <2>1 DEF I
<1> QED
  BY <1>1, <1>5, <1>6, <1>7 DEF order

(* An item that enters a sorted list at its place leaves it sorted.        *)
LEMMA EnterSorted ==
  ASSUME NEW S, NEW marker, NEW r, IsRing(r, marker, S), MarkerLast(r, marker),
         NEW t \in S, ~Contains(r, t),
         NEW value, \A n \in S \cup {marker} : value[n] \in Nat,
         value[marker] >= value[t],
         SortedBy(r, value)
  PROVE  SortedBy(EnterBefore(r, FirstAtLeast(r, marker, value, value[t]), t),
                  value)
<1> DEFINE next == FirstAtLeast(r, marker, value, value[t])
           s == EnterBefore(r, next, t)
<1>1. InOrder(r, marker) = r
  BY InOrderAtMarker
<1>2. /\ Len(r) \in Nat \ {0} /\ r \in Seq(S \cup {marker})
      /\ \A i \in 1 .. Len(r) : r[i] \in S \cup {marker} /\ value[r[i]] \in Nat
  BY RingTypes
<1>3. PICK k \in 1 .. Len(r) :
        /\ r[k] = next
        /\ value[r[k]] >= value[t]
        /\ \A i \in 1 .. k - 1 : ~(value[r[i]] >= value[t])
  BY <1>1, FirstAtLeastIs
<1>4. Place(r, next) = k
  <2>1. Contains(r, next)
    BY <1>3 DEF Contains
  <2> QED
    BY <1>3, <2>1, PlaceIs DEF IsRing
<1>5. s = InsertAt(r, k, t)
  BY <1>4 DEF EnterBefore
<1> HIDE DEF next, s
<1>6. /\ Len(s) = Len(r) + 1
      /\ \A i \in 1 .. Len(r) + 1 :
           s[i] = IF i < k THEN r[i] ELSE IF i = k THEN t ELSE r[i - 1]
  <2> DEFINE U == S \cup {marker}
  <2>1. r \in Seq(U) /\ t \in U
    BY <1>2
  <2>2. k \in 1 .. Len(r) + 1
    BY <1>2
  <2> HIDE DEF U
  <2>3. s \in Seq(U) /\ InsertedInto(s, r, k, t)
    BY <1>5, <2>1, <2>2, InsertAtIs
  <2> QED
    BY <2>3 DEF InsertedInto
<1>7. ASSUME NEW i \in 1 .. Len(s), NEW j \in 1 .. Len(s), i < j
      PROVE  value[s[i]] <= value[s[j]]
  <2>1. value[t] \in Nat
    OBVIOUS
  <2>2. ASSUME NEW m \in k .. Len(r) PROVE value[t] <= value[r[m]]
    <3>1. value[r[k]] <= value[r[m]]
      <4>1. m \in 1 .. Len(r) /\ k <= m
        BY <1>2
      <4>2. CASE m = k
        BY <1>2, <4>2
      <4>3. CASE k < m
        BY <4>1, <4>3 DEF SortedBy
      <4> QED
        BY <1>2, <4>1, <4>2, <4>3
    <3>2. m \in 1 .. Len(r)
      BY <1>2
    <3> QED
      BY <1>2, <1>3, <2>1, <3>1, <3>2
  <2>3. ASSUME NEW m \in 1 .. k - 1 PROVE value[r[m]] <= value[t]
    <3>1. m \in 1 .. Len(r)
      BY <1>2
    <3> QED
      BY <1>2, <1>3, <2>1, <3>1
  <2>4. CASE j < k
    <3>1. i \in 1 .. Len(r) /\ j \in 1 .. Len(r) /\ s[i] = r[i] /\ s[j] = r[j]
      BY <1>2, <1>6, <1>7, <2>4
    <3> QED
      BY <1>7, <3>1 DEF SortedBy
  <2>5. CASE j = k
    <3>1. i \in 1 .. k - 1 /\ s[i] = r[i] /\ s[j] = t
      BY <1>2, <1>6, <1>7, <2>5
    <3> QED
      BY <2>3, <3>1
  <2>6. CASE k < j
    <3>1. j - 1 \in k .. Len(r) /\ j - 1 \in 1 .. Len(r) /\ s[j] = r[j - 1]
      BY <1>2, <1>6, <2>6
    <3>2. CASE i < k
      <4>1. i \in 1 .. Len(r) /\ i < j - 1 /\ s[i] = r[i]
        BY <1>2, <1>6, <1>7, <2>6, <3>2
      <4> QED
        BY <3>1, <4>1 DEF SortedBy
    <3>3. CASE i = k
      <4>1. s[i] = t
        BY <1>2, <1>6, <3>3
      <4> QED
        BY <2>2, <3>1, <4>1
    <3>4. CASE k < i
      <4>1. i - 1 \in 1 .. Len(r) /\ i - 1 < j - 1 /\ s[i] = r[i - 1]
        BY <1>2, <1>6, <1>7, <3>4
      <4> QED
        BY <3>1, <4>1 DEF SortedBy
    <3>5. i < k \/ i = k \/ k < i
      BY <1>2, <1>6
    <3> QED
      BY <3>2, <3>3, <3>4, <3>5
  <2>7. j < k \/ j = k \/ k < j
    BY <1>2, <1>6
  <2> QED
    BY <2>4, <2>5, <2>6, <2>7
<1> QED
  BY <1>7 DEF SortedBy, s, next

LEMMA OrderKeepsSorted ==
  ASSUME NEW r, NEW s, NEW value, SortedBy(r, value), SameOrder(s, r)
  PROVE  SortedBy(s, value)
BY DEF SortedBy, SameOrder
=============================================================================
