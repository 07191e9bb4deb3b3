-------------------------------- MODULE Loops --------------------------------
(***************************************************************************)
(* A loop as a recursive function, and the induction that every loop of    *)
(* the file system's driver is reasoned about with: what the start keeps,  *)
(* and each step, the loop's end keeps.  c stands for what the loop is     *)
(* given, Track(c, start, n)[i] for where it is after i turns.             *)
(*                                                                         *)
(* The loop's step and what it keeps are operators, so they are constants  *)
(* of a module that is instantiated once for each loop.  The induction     *)
(* over the numbers is a hypothesis of the theorem and not a library fact  *)
(* of this module, since each instance would bring the library once more.  *)
(***************************************************************************)
EXTENDS Integers

CONSTANTS Step(_, _, _), Keeps(_, _, _)

IsTrack(c, start, n, f) ==
  f = [i \in 0 .. n |-> IF i = 0 THEN start ELSE Step(c, i, f[i - 1])]

Track(c, start, n) ==
  CHOOSE f : f = [i \in 0 .. n |-> IF i = 0 THEN start ELSE Step(c, i, f[i - 1])]

(* A recursive function with so many turns is there.                       *)
LEMMA OneTurnMore ==
  ASSUME NEW c, NEW start, NEW k \in Nat, NEW f, IsTrack(c, start, k, f)
  PROVE  \E g : IsTrack(c, start, k + 1, g)
<1> DEFINE g == [i \in 0 .. k + 1 |-> IF i = k + 1 THEN Step(c, i, f[k]) ELSE f[i]]
<1>1. ASSUME NEW i \in 0 .. k + 1
      PROVE  g[i] = IF i = 0 THEN start ELSE Step(c, i, g[i - 1])
  <2>1. CASE i = k + 1
    <3>1. k \in 0 .. k + 1 /\ k + 1 \in 0 .. k + 1 /\ k # k + 1 /\ (k + 1) - 1 = k /\ k + 1 # 0
      OBVIOUS
    <3>2. g[k] = f[k] /\ g[k + 1] = Step(c, k + 1, f[k])
      BY <3>1
    <3> QED
      BY <2>1, <3>1, <3>2
  <2>2. CASE i \in 1 .. k
    <3>1. i \in 0 .. k /\ i # k + 1 /\ i - 1 \in 0 .. k + 1 /\ i - 1 # k + 1 /\ i # 0
      BY <2>2
    <3>2. f[i] = Step(c, i, f[i - 1])
      BY <3>1 DEF IsTrack
    <3>3. g[i] = f[i] /\ g[i - 1] = f[i - 1]
      BY <3>1
    <3> QED
      BY <3>1, <3>2, <3>3
  <2>3. CASE i = 0
    BY <2>3 DEF IsTrack
  <2> QED
    BY <2>1, <2>2, <2>3
<1>2. IsTrack(c, start, k + 1, g)
  BY <1>1 DEF IsTrack
<1> QED
  BY <1>2

LEMMA TrackExists ==
  ASSUME NEW c, NEW start, NEW n \in Nat,
         \A T : 0 \in T /\ (\A k \in Nat : k \in T => k + 1 \in T) => Nat \subseteq T
  PROVE  \E f : IsTrack(c, start, n, f)
<1> DEFINE T == {k \in Nat : \E f : IsTrack(c, start, k, f)}
<1>1. 0 \in T
  <2>1. IsTrack(c, start, 0, [i \in 0 .. 0 |-> start])
    BY DEF IsTrack
  <2> QED
    BY <2>1
<1>2. ASSUME NEW k \in Nat, k \in T PROVE k + 1 \in T
  BY <1>2, OneTurnMore
<1> HIDE DEF T
<1>3. Nat \subseteq T
  BY <1>1, <1>2
<1> QED
  BY <1>3 DEF T

(* Of the loops of FatVolume, FatDir and FatFile (the searches of the FAT  *)
(* and of a directory, the walks of a path and of a chain, the reading and *)
(* writing of a file): what is kept at the start and by every turn that    *)
(* begins with it is kept at the end.                                      *)
THEOREM LoopKeeps ==
  ASSUME NEW c, NEW start, NEW n \in Nat, Keeps(c, 0, start),
         \A i \in 1 .. n : \A s : Keeps(c, i - 1, s) => Keeps(c, i, Step(c, i, s)),
         \A T : 0 \in T /\ (\A k \in Nat : k \in T => k + 1 \in T) => Nat \subseteq T
  PROVE  Keeps(c, n, Track(c, start, n)[n])
<1> DEFINE f == Track(c, start, n)
<1>1. IsTrack(c, start, n, f)
  <2>1. \E g : IsTrack(c, start, n, g)
    BY TrackExists
  <2> QED
    BY <2>1 DEF Track, IsTrack
<1> HIDE DEF f
<1> DEFINE T == {i \in Nat : i <= n => Keeps(c, i, f[i])}
<1>2. 0 \in T
  BY <1>1 DEF IsTrack
<1>3. ASSUME NEW i \in Nat, i \in T PROVE i + 1 \in T
  <2> SUFFICES ASSUME i + 1 <= n PROVE Keeps(c, i + 1, f[i + 1])
    OBVIOUS
  <2>1. i + 1 \in 1 .. n /\ i + 1 \in 0 .. n /\ i + 1 # 0 /\ (i + 1) - 1 = i /\ Keeps(c, i, f[i])
    BY <1>3
  <2>2. f[i + 1] = Step(c, i + 1, f[i])
    BY <1>1, <2>1 DEF IsTrack
  <2> QED
    BY <2>1, <2>2
<1> HIDE DEF T
<1>4. Nat \subseteq T
  BY <1>2, <1>3
<1>5. n \in T
  BY <1>4
<1> QED
  BY <1>1, <1>5 DEF T, f
====
