-------------------------- MODULE QueueStoreProofs --------------------------
(***************************************************************************)
(* Proofs about the message storage of a queue, for every set of messages  *)
(* and every length: the type invariant, the agreement of the positions    *)
(* and the count, and the refinement of the bounded deque.                 *)
(***************************************************************************)
EXTENDS QueueStore, SequenceTheorems, TLAPS

(* pcWriteTo is the slot behind the youngest message.                       *)
BehindYoungest ==
  pcWriteTo = LET p == pcReadFrom + 1 + uxMessagesWaiting
              IN  IF p >= 2 * uxLength THEN p - 2 * uxLength
                  ELSE IF p >= uxLength THEN p - uxLength
                  ELSE p

AllWritten == \A s \in Slots : pcMesQueue[s] \in Items

(* The write position may be further behind the youngest message than it    *)
(* should be, but every slot before it, counted from the oldest message,    *)
(* was written; it comes before the youngest only once all slots were.      *)
WrittenUpTo(o) ==
  /\ pcWriteTo = Slot(o)
  /\ uxMessagesWaiting < o
  /\ \A k \in 1 .. o - 1 : pcMesQueue[Slot(k)] \in Items

(* The type invariant without the history variable.                         *)
PositionsOK ==
  /\ uxLength \in Nat \ {0}
  /\ pcMesQueue \in [Slots -> Items \cup {NoItem}]
  /\ pcWriteTo \in Slots
  /\ pcReadFrom \in Slots
  /\ uxMessagesWaiting \in 0 .. uxLength
  /\ pvBuffer \in Items \cup {NoItem}

(* What every step keeps: the invariant of the whole argument.              *)
IInv ==
  /\ PositionsOK
  /\ astray \in BOOLEAN
  /\ AllWritten \/ \E o \in 1 .. uxLength : WrittenUpTo(o)
  /\ ~astray => BehindYoungest

(* Advance and StepBack stay within the storage. *)
LEMMA WrapInSlots ==
  ASSUME uxLength \in Nat \ {0}, NEW p \in Slots
  PROVE  Advance(p) \in Slots /\ StepBack(p) \in Slots
BY DEF Advance, StepBack, Slots, pcHead, pcTail

(* The slot of a waiting message is a slot, different messages are in       *)
(* different slots, and every slot is the slot of some position.            *)
LEMMA SlotInSlots ==
  ASSUME uxLength \in Nat \ {0}, pcReadFrom \in Slots
  PROVE  /\ \A k \in 1 .. uxLength : Slot(k) \in Slots
         /\ \A j, k \in 1 .. uxLength : Slot(j) = Slot(k) => j = k
         /\ \A s \in Slots : \E k \in 1 .. uxLength : s = Slot(k)
<1>1. /\ \A k \in 1 .. uxLength : Slot(k) \in Slots
      /\ \A j, k \in 1 .. uxLength : Slot(j) = Slot(k) => j = k
  BY DEF Slot, Slots, pcHead, pcTail
<1>2. ASSUME NEW s \in Slots PROVE \E k \in 1 .. uxLength : s = Slot(k)
  <2> DEFINE k == IF s > pcReadFrom THEN s - pcReadFrom
                                    ELSE s + uxLength - pcReadFrom
  <2>1. k \in 1 .. uxLength /\ s = Slot(k)
    BY DEF Slot, Slots, pcHead, pcTail
  <2> QED
    BY <2>1
<1> QED
  BY <1>1, <1>2

(* The messages waiting were written.                                       *)
LEMMA WaitingWritten ==
  ASSUME IInv
  PROVE  \A k \in 1 .. uxMessagesWaiting : pcMesQueue[Slot(k)] \in Items
BY SlotInSlots DEF IInv, PositionsOK, AllWritten, WrittenUpTo

LEMMA InvRing == IInv => RingConsistent
BY WaitingWritten DEF IInv, RingConsistent, BehindYoungest

(* Without a drift the next send to the back lands behind the youngest.     *)
LEMMA BehindIsSlot ==
  ASSUME IInv, ~astray, uxMessagesWaiting < uxLength
  PROVE  pcWriteTo = Slot(uxMessagesWaiting + 1)
BY DEF IInv, PositionsOK, BehindYoungest, Slot, Slots, pcHead, pcTail

(* A queue starts empty with consistent positions. *)
LEMMA InitIInv == Init => IInv
<1> SUFFICES ASSUME Init PROVE IInv
  OBVIOUS
<1> USE StoreAssumption
<1>1. uxLength \in Nat \ {0}
  BY DEF Init
<1>2. PositionsOK
  BY <1>1 DEF Init, PositionsOK, Slots, pcHead, pcTail
<1>3. 1 \in 1 .. uxLength /\ WrittenUpTo(1)
  BY <1>1 DEF Init, WrittenUpTo, Slot, pcHead
<1>4. BehindYoungest
  BY <1>1 DEF Init, BehindYoungest, pcHead
<1> QED
  BY <1>2, <1>3, <1>4, Zenon DEF IInv, Init
-----------------------------------------------------------------------------
(* A send to the back keeps the invariant: the slot it writes is the first  *)
(* one that may not have been written yet.                                  *)
LEMMA SendToBackIInv ==
  ASSUME IInv, NEW item \in Items, SendToBack(item)
  PROVE  IInv'
<1> USE StoreAssumption DEF IInv
<1>1. /\ uxMessagesWaiting < uxLength
      /\ uxMessagesWaiting' = uxMessagesWaiting + 1
      /\ uxLength' = uxLength
      /\ pcReadFrom' = pcReadFrom
      /\ pcWriteTo' = Advance(pcWriteTo)
      /\ pcMesQueue' = [pcMesQueue EXCEPT ![pcWriteTo] = item]
      /\ Slots' = Slots
      /\ \A k : Slot(k)' = Slot(k)
  BY DEF SendToBack, HasSpace, CopyToBack, Slots, pcHead, pcTail, Slot
<1>2. PositionsOK'
  BY WrapInSlots DEF PositionsOK, SendToBack, CopyToBack, HasSpace, Slots, pcHead,
     pcTail
<1>3. \A s \in Slots : pcMesQueue[s] \in Items => pcMesQueue'[s] \in Items
  BY <1>1 DEF PositionsOK
<1>4. AllWritten => AllWritten'
  BY <1>1, <1>3 DEF AllWritten
<1>5. ASSUME NEW o \in 1 .. uxLength, WrittenUpTo(o)
      PROVE  AllWritten' \/ \E x \in 1 .. uxLength' : WrittenUpTo(x)'
  <2>1. \A k \in 1 .. o : Slot(k) \in Slots /\ pcMesQueue'[Slot(k)] \in Items
    <3> SUFFICES ASSUME NEW k \in 1 .. o
                 PROVE  Slot(k) \in Slots /\ pcMesQueue'[Slot(k)] \in Items
      OBVIOUS
    <3>1. Slot(k) \in Slots
      BY SlotInSlots DEF PositionsOK
    <3>2. CASE k = o
      BY <1>1, <1>5, <3>1, <3>2 DEF WrittenUpTo, PositionsOK
    <3>3. CASE k # o
      <4>1. k \in 1 .. o - 1
        BY <3>3 DEF PositionsOK
      <4> QED
        BY <1>3, <1>5, <3>1, <4>1 DEF WrittenUpTo
    <3> QED
      BY <3>1, <3>2, <3>3
  <2>2. CASE o = uxLength
    <3>1. \A s \in Slots : pcMesQueue'[s] \in Items
      BY <2>1, <2>2, SlotInSlots DEF PositionsOK
    <3> QED
      BY <1>1, <3>1 DEF AllWritten
  <2>3. CASE o < uxLength
    <3>1. pcWriteTo' = Slot(o + 1)
      BY <1>1, <1>5, <2>3 DEF WrittenUpTo, PositionsOK, Advance, Slot, Slots, pcHead,
         pcTail
    <3>2. o + 1 \in 1 .. uxLength' /\ uxMessagesWaiting' < o + 1
      BY <1>1, <1>5, <2>3 DEF WrittenUpTo, PositionsOK
    <3>3. WrittenUpTo(o + 1)'
      BY <1>1, <2>1, <3>1, <3>2 DEF WrittenUpTo, PositionsOK
    <3> QED
      BY <3>2, <3>3
  <2> QED
    BY <2>2, <2>3 DEF PositionsOK
<1>6. BehindYoungest => BehindYoungest'
  BY <1>1 DEF PositionsOK, BehindYoungest, Advance, Slots, pcHead, pcTail
<1>7. astray' = astray
  BY DEF SendToBack
<1>8. AllWritten' \/ \E x \in 1 .. uxLength' : WrittenUpTo(x)'
  BY <1>4, <1>5
<1> QED
  BY <1>2, <1>6, <1>7, <1>8, Zenon

(* What a write at pcReadFrom does to the slots: the slot written becomes   *)
(* the oldest message's and every other position moves one further back.    *)
LEMMA FrontShift ==
  ASSUME IInv, NEW item \in Items, NEW overwrite \in BOOLEAN,
         CopyToFront(item, overwrite), UNCHANGED <<uxLength, pvBuffer>>
  PROVE  /\ Slots' = Slots
         /\ Slot(1)' = pcReadFrom
         /\ pcReadFrom = Slot(uxLength)
         /\ \A k \in 2 .. uxLength :
              Slot(k)' = Slot(k - 1) /\ Slot(k - 1) # pcReadFrom
         /\ pcMesQueue'[pcReadFrom] = item
         /\ \A s \in Slots \ {pcReadFrom} : pcMesQueue'[s] = pcMesQueue[s]
BY DEF IInv, PositionsOK, CopyToFront, StepBack, Slot, Slots, pcHead, pcTail

(* A write at pcReadFrom keeps the invariant, both when it adds a message   *)
(* before the oldest and when it leaves the count alone.                    *)
LEMMA CopyToFrontIInv ==
  ASSUME IInv, NEW item \in Items, NEW overwrite \in BOOLEAN,
         CopyToFront(item, overwrite), UNCHANGED <<uxLength, pvBuffer>>,
         ~overwrite => uxMessagesWaiting < uxLength,
         astray' = (astray \/ (overwrite /\ uxLength > 1
                                         /\ uxMessagesWaiting > 0))
  PROVE  IInv'
<1> USE StoreAssumption DEF IInv
<1>1. PositionsOK'
  <2>1. uxMessagesWaiting' \in 0 .. uxLength
    BY DEF PositionsOK, CopyToFront
  <2>2. StepBack(pcReadFrom) \in Slots
    BY WrapInSlots DEF PositionsOK
  <2>3. Slots' = Slots
    BY DEF Slots, pcHead, pcTail
  <2> QED
    BY <2>1, <2>2, <2>3 DEF PositionsOK, CopyToFront
<1>2. \A s \in Slots : pcMesQueue[s] \in Items => pcMesQueue'[s] \in Items
  BY FrontShift
<1>3. AllWritten => AllWritten'
  BY <1>2, FrontShift DEF AllWritten
<1>4. ASSUME NEW o \in 1 .. uxLength, WrittenUpTo(o)
      PROVE  AllWritten' \/ \E x \in 1 .. uxLength' : WrittenUpTo(x)'
  <2>1. \A k \in 1 .. o - 1 : Slot(k) \in Slots /\ pcMesQueue'[Slot(k)] \in Items
    BY <1>2, <1>4, SlotInSlots DEF WrittenUpTo, PositionsOK
  <2>2. CASE o = uxLength
    <3>1. \A s \in Slots : pcMesQueue'[s] \in Items
      <4> SUFFICES ASSUME NEW s \in Slots PROVE pcMesQueue'[s] \in Items
        OBVIOUS
      <4>1. PICK k \in 1 .. uxLength : s = Slot(k)
        BY SlotInSlots DEF PositionsOK
      <4>2. CASE k = uxLength
        BY <4>1, <4>2, FrontShift
      <4>3. CASE k # uxLength
        BY <2>1, <2>2, <4>1, <4>3 DEF PositionsOK
      <4> QED
        BY <4>2, <4>3
    <3> QED
      BY <3>1, FrontShift DEF AllWritten
  <2>3. CASE o < uxLength
    <3>1. o + 1 \in 2 .. uxLength /\ uxMessagesWaiting' < o + 1
      BY <1>4, <2>3 DEF WrittenUpTo, PositionsOK, CopyToFront
    <3>2. pcWriteTo' = Slot(o + 1)'
      <4>1. pcWriteTo' = Slot(o)
        BY <1>4 DEF WrittenUpTo, CopyToFront
      <4>2. Slot(o + 1)' = Slot((o + 1) - 1)
        BY <3>1, FrontShift
      <4>3. (o + 1) - 1 = o
        BY DEF PositionsOK
      <4> QED
        BY <4>1, <4>2, <4>3
    <3>3. ASSUME NEW k \in 1 .. o PROVE pcMesQueue'[Slot(k)'] \in Items
      <4>1. CASE k = 1
        BY <4>1, FrontShift
      <4>2. CASE k # 1
        <5>1. k \in 2 .. uxLength /\ k - 1 \in 1 .. o - 1
          BY <4>2 DEF PositionsOK
        <5> QED
          BY <2>1, <5>1, FrontShift
      <4> QED
        BY <4>1, <4>2
    <3>4. WrittenUpTo(o + 1)'
      <4>1. 1 .. (o + 1) - 1 = 1 .. o
        BY DEF PositionsOK
      <4> QED
        BY <3>1, <3>2, <3>3, <4>1 DEF WrittenUpTo
    <3> QED
      BY <3>1, <3>4 DEF PositionsOK
  <2> QED
    BY <2>2, <2>3 DEF PositionsOK
<1>5. BehindYoungest /\ ~(overwrite /\ uxLength > 1 /\ uxMessagesWaiting > 0)
        => BehindYoungest'
  BY DEF PositionsOK, BehindYoungest, CopyToFront, StepBack, Slots, pcHead, pcTail
<1>6. AllWritten' \/ \E x \in 1 .. uxLength' : WrittenUpTo(x)'
  BY <1>3, <1>4
<1>7. astray' \in BOOLEAN
      /\ (~astray' => ~astray /\ ~(overwrite /\ uxLength > 1
                                              /\ uxMessagesWaiting > 0))
  OBVIOUS
<1> QED
  BY <1>1, <1>5, <1>6, <1>7, Zenon

(* A receive keeps the invariant: the messages behind the oldest move up.   *)
LEMMA ReceiveIInv ==
  ASSUME IInv, Receive
  PROVE  IInv'
<1> USE StoreAssumption DEF IInv
<1>1. Slot(1) = Advance(pcReadFrom) /\ Slot(1) \in Slots
  BY DEF PositionsOK, Slot, Advance, Slots, pcHead, pcTail
<1>2. PositionsOK'
  BY <1>1 DEF PositionsOK, Receive, CopyFromQueue, Slots, pcHead, pcTail
<1>3. /\ uxMessagesWaiting' = uxMessagesWaiting - 1
      /\ uxMessagesWaiting > 0
      /\ uxLength' = uxLength
      /\ pcMesQueue' = pcMesQueue
      /\ pcWriteTo' = pcWriteTo
      /\ astray' = astray
      /\ Slots' = Slots
  BY DEF Receive, CopyFromQueue, Slots, pcHead, pcTail
<1>4. \A k \in 1 .. uxLength - 1 : Slot(k)' = Slot(k + 1)
  BY DEF PositionsOK, Receive, CopyFromQueue, Advance, Slot, Slots, pcHead, pcTail
<1>5. AllWritten => AllWritten'
  BY <1>3 DEF AllWritten
<1>6. ASSUME NEW o \in 1 .. uxLength, WrittenUpTo(o)
      PROVE  \E x \in 1 .. uxLength' : WrittenUpTo(x)'
  <2>1. o - 1 \in 1 .. uxLength - 1 /\ uxMessagesWaiting' < o - 1
    BY <1>3, <1>6 DEF WrittenUpTo, PositionsOK
  <2>2. pcWriteTo' = Slot(o - 1)'
    BY <1>3, <1>4, <1>6, <2>1 DEF WrittenUpTo, PositionsOK
  <2>3. \A k \in 1 .. (o - 1) - 1 : pcMesQueue'[Slot(k)'] \in Items
    BY <1>3, <1>4, <1>6, <2>1 DEF WrittenUpTo, PositionsOK
  <2>4. WrittenUpTo(o - 1)'
    BY <2>1, <2>2, <2>3 DEF WrittenUpTo
  <2> QED
    BY <1>3, <2>1, <2>4 DEF PositionsOK
<1>7. BehindYoungest => BehindYoungest'
  BY DEF PositionsOK, BehindYoungest, Receive, CopyFromQueue, Advance, Slots,
     pcHead, pcTail
<1>8. AllWritten' \/ \E x \in 1 .. uxLength' : WrittenUpTo(x)'
  BY <1>5, <1>6
<1> QED
  BY <1>2, <1>3, <1>7, <1>8, Zenon

(* A peek and a step that changes nothing keep what they do not touch.      *)
LEMMA StillIInv ==
  ASSUME IInv, PositionsOK',
         UNCHANGED <<uxLength, pcMesQueue, pcWriteTo, pcReadFrom,
                     uxMessagesWaiting, astray>>
  PROVE  IInv'
<1>1. /\ AllWritten => AllWritten'
      /\ \A o \in 1 .. uxLength : WrittenUpTo(o) => WrittenUpTo(o)'
      /\ BehindYoungest => BehindYoungest'
      /\ uxLength' = uxLength
  BY DEF AllWritten, WrittenUpTo, BehindYoungest, Slot, Slots, pcHead, pcTail
<1>2. AllWritten' \/ \E o \in 1 .. uxLength' : WrittenUpTo(o)'
  BY <1>1 DEF IInv
<1>3. astray' = astray
  OBVIOUS
<1>4. astray \in BOOLEAN /\ (~astray => BehindYoungest)
  BY Zenon DEF IInv
<1>5. astray' \in BOOLEAN /\ (~astray' => ~astray)
  BY <1>3, <1>4
<1>6. ~astray' => BehindYoungest'
  BY <1>1, <1>4, <1>5, Zenon
<1> QED
  BY <1>2, <1>5, <1>6, Zenon DEF IInv

(* Every step keeps the invariant.                                          *)
LEMMA NextIInv == IInv /\ [Next]_vars => IInv'
<1> SUFFICES ASSUME IInv, [Next]_vars PROVE IInv'
  OBVIOUS
<1>1. ASSUME NEW item \in Items, SendToBack(item) PROVE IInv'
  BY <1>1, SendToBackIInv
<1>2. ASSUME NEW item \in Items, SendToFront(item) PROVE IInv'
  BY <1>2, CopyToFrontIInv DEF SendToFront, HasSpace, IInv, PositionsOK
<1>3. ASSUME NEW item \in Items, SendOverwrite(item) PROVE IInv'
  BY <1>3, CopyToFrontIInv DEF SendOverwrite
<1>4. CASE Receive
  BY <1>4, ReceiveIInv
<1>5. CASE Peek
  <2>1. Advance(pcReadFrom) \in Slots
    BY WrapInSlots DEF IInv, PositionsOK
  <2>2. PositionsOK'
    BY <1>5, <2>1 DEF IInv, PositionsOK, Peek, Slots, pcHead, pcTail
  <2> QED
    BY <1>5, <2>2, StillIInv DEF Peek
<1>6. CASE Reset
  <2>1. PositionsOK' /\ BehindYoungest'
    BY <1>6 DEF IInv, PositionsOK, BehindYoungest, Reset, ResetPositions, Slots,
       pcHead, pcTail
  <2>2. 1 \in 1 .. uxLength' /\ WrittenUpTo(1)'
    BY <1>6 DEF IInv, PositionsOK, WrittenUpTo, Slot, Reset, ResetPositions,
       Slots, pcHead, pcTail
  <2> QED
    BY <1>6, <2>1, <2>2, Zenon DEF IInv, Reset
<1>7. CASE UNCHANGED vars
  <2>1. PositionsOK'
    BY <1>7 DEF vars, IInv, PositionsOK, Slots, pcHead, pcTail
  <2> QED
    BY <1>7, <2>1, StillIInv DEF vars
<1> QED
  BY <1>1, <1>2, <1>3, <1>4, <1>5, <1>6, <1>7 DEF Next

(* The positions stay inside the storage and the count between 0 and the    *)
(* length: no send, overwrite, receive, peek or reset computes an address   *)
(* outside the queue or lets more messages wait than there are slots.       *)
THEOREM TypeCorrect == Spec => []TypeOK
<1>1. Spec => []IInv
  BY InitIInv, NextIInv, PTL DEF Spec
<1>2. IInv => TypeOK
  BY DEF IInv, PositionsOK, TypeOK
<1> QED
  BY <1>1, <1>2, PTL

(* In every reachable state of a queue of any length every message waiting  *)
(* is in a slot that was written, and the write position, the read position *)
(* and the count agree unless a message was overwritten in a queue longer   *)
(* than one since the last reset.                                           *)
THEOREM RingAlwaysConsistent == Spec => []RingConsistent
<1>1. Spec => []IInv
  BY InitIInv, NextIInv, PTL DEF Spec
<1> QED
  BY <1>1, InvRing, PTL
-----------------------------------------------------------------------------
(* The messages waiting form a sequence as long as the count says.          *)
ContentsOK ==
  /\ Contents \in Seq(Items)
  /\ Len(Contents) = uxMessagesWaiting
  /\ \A k \in 1 .. uxMessagesWaiting : Contents[k] = pcMesQueue[Slot(k)]

(* The invariant gives it.                                                  *)
LEMMA ContentsSeq == IInv => ContentsOK
<1> SUFFICES ASSUME IInv PROVE ContentsOK
  OBVIOUS
<1>1. uxMessagesWaiting \in Nat
  BY DEF IInv, PositionsOK
<1>2. Contents \in [1 .. uxMessagesWaiting -> Items]
  BY WaitingWritten DEF Contents
<1>3. Contents \in Seq(Items)
  BY <1>1, <1>2, SMT
<1> QED
  BY <1>1, <1>2, <1>3, LenProperties DEF Contents, ContentsOK

(* The same after a step.                                                   *)
LEMMA ContentsSeqNext == IInv' => ContentsOK'
BY ContentsSeq, PTL

(* A new queue is an empty deque.                                           *)
LEMMA InitRefines == Init => Deque!DInit
<1> SUFFICES ASSUME Init PROVE Deque!DInit
  OBVIOUS
<1>1. IInv
  BY InitIInv
<1>2. Contents = <<>>
  BY <1>1, ContentsSeq, EmptySeq DEF Init, ContentsOK
<1> QED
  BY <1>2 DEF Init, Deque!DInit

(* Writing at pcWriteTo appends to the messages waiting.                    *)
LEMMA SendToBackRefines ==
  ASSUME IInv, ~astray, NEW item \in Items, SendToBack(item)
  PROVE  Deque!SendBack(item)
<1>1. IInv'
  BY SendToBackIInv
<1>2. uxMessagesWaiting < uxLength /\ uxMessagesWaiting' = uxMessagesWaiting + 1
  BY DEF SendToBack, HasSpace, CopyToBack
<1>3. pcWriteTo = Slot(uxMessagesWaiting + 1) /\ pcWriteTo \in Slots
  BY <1>2, BehindIsSlot DEF IInv, PositionsOK
<1>4. ASSUME NEW k \in 1 .. uxMessagesWaiting
      PROVE  Contents'[k] = Contents[k]
  <2>1. Slot(k)' = Slot(k) /\ Slot(k) \in Slots /\ k \in 1 .. uxLength
    BY <1>2, SlotInSlots DEF IInv, PositionsOK, SendToBack, CopyToBack, Slot
  <2>2. Slot(k) # pcWriteTo
    BY <1>2, <1>3, <2>1, SlotInSlots DEF IInv, PositionsOK
  <2>3. pcMesQueue'[Slot(k)'] = pcMesQueue[Slot(k)]
    BY <2>1, <2>2 DEF IInv, PositionsOK, SendToBack, CopyToBack
  <2>4. k \in 1 .. uxMessagesWaiting'
    BY <1>2 DEF IInv, PositionsOK
  <2> QED
    BY <2>3, <2>4 DEF Contents
<1>5. ASSUME NEW k \in Nat, k = uxMessagesWaiting + 1
      PROVE  Contents'[k] = item
  <2>1. Slot(k)' = pcWriteTo
    BY <1>2, <1>3, <1>5 DEF Slot, SendToBack, CopyToBack
  <2>2. pcMesQueue'[Slot(k)'] = item
    BY <1>3, <2>1 DEF IInv, PositionsOK, SendToBack, CopyToBack
  <2>3. k \in 1 .. uxMessagesWaiting'
    BY <1>2, <1>5 DEF IInv, PositionsOK
  <2> QED
    BY <2>2, <2>3 DEF Contents
<1>6. Contents' = Append(Contents, item)
  <2>1. /\ Contents' \in Seq(Items)
        /\ Len(Contents') = uxMessagesWaiting + 1
    BY <1>1, <1>2, ContentsSeqNext DEF ContentsOK
  <2>2. /\ Contents \in Seq(Items)
        /\ Len(Contents) = uxMessagesWaiting
        /\ uxMessagesWaiting \in Nat
    BY ContentsSeq DEF IInv, PositionsOK, ContentsOK
  <2>3. \A k \in 1 .. uxMessagesWaiting + 1 :
           Contents'[k] = Append(Contents, item)[k]
    <3>1. SUFFICES ASSUME NEW k \in 1 .. uxMessagesWaiting + 1
                   PROVE  Contents'[k] = Append(Contents, item)[k]
      OBVIOUS
    <3>2. CASE k = uxMessagesWaiting + 1
      BY <1>5, <2>2, <3>2, AppendProperties
    <3>3. CASE k \in 1 .. uxMessagesWaiting
      BY <1>4, <2>2, <3>3, AppendProperties
    <3> QED
      BY <2>2, <3>2, <3>3
  <2> QED
    BY <2>1, <2>2, <2>3, AppendProperties, SeqEqual
<1> QED
  BY <1>2, <1>6, ContentsSeq DEF Deque!SendBack, SendToBack, ContentsOK

(* Without track of the back a send still makes the queue one longer: it    *)
(* writes one slot, which may be a waiting message's, and the slot behind   *)
(* the youngest message becomes a message with what it holds.               *)
LEMMA SendToBackDrifts ==
  ASSUME IInv, astray, NEW item \in Items, SendToBack(item)
  PROVE  Deque!SendBackDrifted(item)
<1>1. IInv'
  BY SendToBackIInv
<1>2. /\ uxMessagesWaiting < uxLength
      /\ uxMessagesWaiting' = uxMessagesWaiting + 1
      /\ uxMessagesWaiting \in Nat
      /\ uxLength \in Nat
  BY DEF SendToBack, HasSpace, CopyToBack, IInv, PositionsOK
<1>3. PICK o \in 1 .. uxLength : pcWriteTo = Slot(o)
  BY SlotInSlots DEF IInv, PositionsOK
<1>4. /\ Contents \in Seq(Items)
      /\ Len(Contents) = uxMessagesWaiting
      /\ Contents' \in Seq(Items)
      /\ Len(Contents') = uxMessagesWaiting + 1
      /\ \A k \in 1 .. uxMessagesWaiting : Contents[k] = pcMesQueue[Slot(k)]
      /\ \A k \in 1 .. uxMessagesWaiting + 1 :
           Contents'[k] = pcMesQueue'[Slot(k)']
  BY <1>1, <1>2, ContentsSeq, ContentsSeqNext DEF ContentsOK
<1> DEFINE last == Contents'[uxMessagesWaiting + 1]
           hit == [i \in DOMAIN Contents |-> IF i = o THEN item ELSE Contents[i]]
<1>5. last \in Items
  <2>1. uxMessagesWaiting + 1 \in 1 .. Len(Contents')
    BY <1>2, <1>4
  <2> QED
    BY <1>4, <2>1, ElementOfSeq
<1>6. hit \in Seq(Items) /\ Len(hit) = uxMessagesWaiting
  <2>1. DOMAIN Contents = 1 .. uxMessagesWaiting
    BY DEF Contents
  <2>2. hit \in [1 .. uxMessagesWaiting -> Items]
    BY <1>4, <2>1, ElementOfSeq
  <2>3. hit \in Seq(Items)
    BY <1>2, <2>2, SMT
  <2> QED
    BY <1>2, <2>2, <2>3, LenProperties
<1>7. ASSUME NEW k \in 1 .. uxMessagesWaiting PROVE Contents'[k] = hit[k]
  <2>1. Slot(k)' = Slot(k) /\ Slot(k) \in Slots /\ k \in 1 .. uxLength
    BY <1>2, SlotInSlots DEF IInv, PositionsOK, SendToBack, CopyToBack, Slot
  <2>2. k \in DOMAIN Contents
    BY DEF Contents
  <2>3. CASE k = o
    <3>1. pcMesQueue'[Slot(k)'] = item
      BY <1>3, <2>1, <2>3 DEF IInv, PositionsOK, SendToBack, CopyToBack
    <3> QED
      BY <1>2, <1>4, <2>2, <2>3, <3>1
  <2>4. CASE k # o
    <3>1. Slot(k) # pcWriteTo
      BY <1>3, <2>1, <2>4, SlotInSlots DEF IInv, PositionsOK
    <3>2. pcMesQueue'[Slot(k)'] = pcMesQueue[Slot(k)]
      BY <2>1, <3>1 DEF IInv, PositionsOK, SendToBack, CopyToBack
    <3> QED
      BY <1>2, <1>4, <2>2, <2>4, <3>2
  <2> QED
    BY <2>3, <2>4
<1> HIDE DEF last, hit
<1>8. Contents' = Append(hit, last)
  <2>1. \A k \in 1 .. uxMessagesWaiting + 1 : Contents'[k] = Append(hit, last)[k]
    <3> SUFFICES ASSUME NEW k \in 1 .. uxMessagesWaiting + 1
                 PROVE  Contents'[k] = Append(hit, last)[k]
      OBVIOUS
    <3>1. CASE k = uxMessagesWaiting + 1
      <4>1. Append(hit, last)[k] = last
        BY <1>5, <1>6, <3>1, AppendProperties
      <4> QED
        BY <3>1, <4>1 DEF last
    <3>2. CASE k \in 1 .. uxMessagesWaiting
      <4>1. Append(hit, last)[k] = hit[k]
        BY <1>5, <1>6, <3>2, AppendProperties
      <4> QED
        BY <1>7, <3>2, <4>1
    <3>3. k = uxMessagesWaiting + 1 \/ k \in 1 .. uxMessagesWaiting
      BY <1>2
    <3> QED
      BY <3>1, <3>2, <3>3, Zenon
  <2> QED
    BY <1>2, <1>4, <1>5, <1>6, <2>1, AppendProperties, SeqEqual
<1>9. Len(Contents) < uxLength /\ UNCHANGED <<uxLength, pvBuffer, astray>>
  BY <1>2, <1>4 DEF SendToBack
<1> QED
  BY <1>5, <1>8, <1>9 DEF Deque!SendBackDrifted, hit

(* Writing at pcReadFrom puts a message before the oldest.  When the count  *)
(* stays, the youngest message is no longer among those that wait.          *)
LEMMA CopyToFrontRefines ==
  ASSUME IInv, NEW item \in Items, NEW overwrite \in BOOLEAN,
         CopyToFront(item, overwrite), UNCHANGED <<uxLength, pvBuffer>>,
         ~overwrite => uxMessagesWaiting < uxLength /\ astray' = astray,
         overwrite => astray' = (astray \/ (uxLength > 1
                                             /\ uxMessagesWaiting > 0))
  PROVE  IF overwrite THEN Deque!Overwrite(item) ELSE Deque!SendFront(item)
<1>1. IInv'
  BY CopyToFrontIInv DEF IInv, PositionsOK
<1>2. /\ Contents \in Seq(Items)
      /\ Len(Contents) = uxMessagesWaiting
      /\ Contents' \in Seq(Items)
      /\ Len(Contents') = uxMessagesWaiting'
      /\ \A k \in 1 .. uxMessagesWaiting' : Contents'[k] = pcMesQueue'[Slot(k)']
      /\ \A k \in 1 .. uxMessagesWaiting : Contents[k] = pcMesQueue[Slot(k)]
  BY <1>1, ContentsSeq, ContentsSeqNext DEF ContentsOK
<1>3. /\ uxMessagesWaiting \in Nat
      /\ uxMessagesWaiting' \in 1 .. uxMessagesWaiting + 1
      /\ uxMessagesWaiting' <= uxLength
      /\ uxMessagesWaiting <= uxLength
      /\ uxLength \in Nat
  BY DEF CopyToFront, IInv, PositionsOK
<1>4. Contents'[1] = item
  BY <1>2, <1>3, FrontShift
<1>5. ASSUME NEW k \in 2 .. uxMessagesWaiting'
      PROVE  Contents'[k] = Contents[k - 1]
  <2>1. k \in 1 .. uxMessagesWaiting' /\ k \in 2 .. uxLength
        /\ k - 1 \in 1 .. uxMessagesWaiting /\ k - 1 \in 1 .. uxLength
    BY <1>3
  <2>2. Slot(k)' = Slot(k - 1) /\ Slot(k - 1) \in Slots \ {pcReadFrom}
    BY <2>1, FrontShift, SlotInSlots DEF IInv, PositionsOK
  <2>3. pcMesQueue'[Slot(k)'] = pcMesQueue[Slot(k - 1)]
    BY <2>2, FrontShift
  <2> QED
    BY <1>2, <2>1, <2>3
<1> DEFINE first == <<item>>
<1>6. first \in Seq(Items) /\ Len(first) = 1 /\ first[1] = item
  OBVIOUS
<1> HIDE DEF first
<1>7. ASSUME NEW rest \in Seq(Items), Len(rest) + 1 = uxMessagesWaiting',
             \A k \in 1 .. Len(rest) : rest[k] = Contents[k]
      PROVE  Contents' = first \o rest
  <2>1. /\ first \o rest \in Seq(Items)
        /\ Len(first \o rest) = Len(first) + Len(rest)
        /\ \A k \in 1 .. Len(first) + Len(rest) :
             (first \o rest)[k] = IF k <= Len(first) THEN first[k]
                                                  ELSE rest[k - Len(first)]
    BY <1>6, ConcatProperties, Zenon
  <2> DEFINE joined == first \o rest
  <2> HIDE DEF joined
  <2>2. Len(rest) \in Nat
    BY LenProperties
  <2>3. \A k \in 1 .. uxMessagesWaiting' : Contents'[k] = joined[k]
    <3> SUFFICES ASSUME NEW k \in 1 .. uxMessagesWaiting'
                 PROVE  Contents'[k] = joined[k]
      OBVIOUS
    <3>1. CASE k = 1
      BY <1>4, <1>6, <1>7, <2>1, <2>2, <3>1 DEF joined
    <3>2. CASE k # 1
      <4>1. k \in 2 .. uxMessagesWaiting' /\ k - 1 \in 1 .. Len(rest)
        BY <1>3, <1>7, <2>2, <3>2
      <4>2. joined[k] = rest[k - 1]
        BY <1>6, <1>7, <2>1, <2>2, <4>1 DEF joined
      <4> QED
        BY <1>5, <1>7, <4>1, <4>2
    <3> QED
      BY <3>1, <3>2
  <2> QED
    BY <1>2, <1>3, <1>6, <1>7, <2>1, <2>2, <2>3, SeqEqual DEF joined
<1>8. CASE overwrite
  <2> DEFINE rest == SubSeq(Contents, 1, Len(Contents) - 1)
  <2>1. /\ rest \in Seq(Items)
        /\ Len(rest) + 1 = uxMessagesWaiting'
        /\ \A k \in 1 .. Len(rest) : rest[k] = Contents[k]
    <3>1. CASE uxMessagesWaiting = 0
      <4>1. rest = <<>>
        BY <1>2, <3>1, SubSeqEmpty
      <4>2. uxMessagesWaiting' = 1
        BY <1>8, <3>1 DEF CopyToFront
      <4> HIDE DEF rest
      <4>3. <<>> \in Seq(Items) /\ Len(<<>>) = 0
        OBVIOUS
      <4> QED
        BY <4>1, <4>2, <4>3
    <3>2. CASE uxMessagesWaiting > 0
      <4>1. uxMessagesWaiting' = uxMessagesWaiting
        BY <1>8, <3>2 DEF CopyToFront
      <4>2. \A k \in 1 .. uxMessagesWaiting - 1 : Contents[k] \in Items
        BY <1>2, <1>3, ElementOfSeq
      <4>3. /\ rest \in Seq(Items)
            /\ Len(rest) = IF 1 <= uxMessagesWaiting - 1
                           THEN (uxMessagesWaiting - 1) - 1 + 1 ELSE 0
            /\ \A k \in 1 .. (uxMessagesWaiting - 1) - 1 + 1 :
                 rest[k] = Contents[1 + k - 1]
        BY <1>2, <1>3, <4>2, SubSeqProperties
      <4> HIDE DEF rest
      <4> QED
        BY <1>3, <3>2, <4>1, <4>3
    <3> QED
      BY <1>3, <3>1, <3>2
  <2> HIDE DEF rest
  <2>2. Contents' = first \o rest
    BY <1>7, <2>1
  <2>3. Contents # <<>> <=> uxMessagesWaiting > 0
    BY <1>2, <1>3, EmptySeq
  <2> QED
    BY <1>8, <2>2, <2>3 DEF Deque!Overwrite, first, rest
<1>9. CASE ~overwrite
  <2>1. uxMessagesWaiting' = uxMessagesWaiting + 1
    BY <1>9 DEF CopyToFront
  <2>2. Contents' = first \o Contents
    BY <1>2, <1>7, <2>1
  <2> QED
    BY <1>2, <1>9, <2>2 DEF Deque!SendFront, first
<1> QED
  BY <1>8, <1>9

(* The message after pcReadFrom is the oldest one.                          *)
LEMMA OldestIsHead ==
  ASSUME IInv, uxMessagesWaiting > 0
  PROVE  /\ Contents # <<>>
         /\ pcMesQueue[Advance(pcReadFrom)] = Head(Contents)
<1>1. /\ Contents \in Seq(Items)
      /\ Len(Contents) = uxMessagesWaiting
      /\ Contents[1] = pcMesQueue[Slot(1)]
  BY ContentsSeq DEF ContentsOK, IInv, PositionsOK
<1>2. Slot(1) = Advance(pcReadFrom)
  BY DEF IInv, PositionsOK, Slot, Advance, Slots, pcHead, pcTail
<1>3. Contents # <<>> /\ Head(Contents) = Contents[1]
  BY <1>1, EmptySeq
<1> QED
  BY <1>1, <1>2, <1>3

(* A receive takes the oldest message.                                      *)
LEMMA ReceiveRefines ==
  ASSUME IInv, Receive
  PROVE  Deque!Receive
<1>1. IInv'
  BY ReceiveIInv
<1>2. /\ Contents \in Seq(Items)
      /\ Len(Contents) = uxMessagesWaiting
      /\ Contents' \in Seq(Items)
      /\ Len(Contents') = uxMessagesWaiting'
  BY <1>1, ContentsSeq, ContentsSeqNext DEF ContentsOK
<1>3. /\ uxMessagesWaiting \in Nat \ {0}
      /\ uxMessagesWaiting' = uxMessagesWaiting - 1
  BY DEF Receive, IInv, PositionsOK
<1>4. /\ Contents # <<>>
      /\ pvBuffer' = Head(Contents)
  BY OldestIsHead DEF Receive, CopyFromQueue
<1>5. ASSUME NEW k \in 1 .. uxMessagesWaiting - 1
      PROVE  Contents'[k] = Contents[k + 1]
  <2>1. Slot(k)' = Slot(k + 1) /\ k + 1 \in 1 .. uxMessagesWaiting
    BY DEF IInv, PositionsOK, Receive, CopyFromQueue, Advance, Slot, Slots, pcHead,
       pcTail
  <2>2. Contents'[k] = pcMesQueue'[Slot(k)']
    BY <1>1, <1>3, ContentsSeqNext DEF ContentsOK
  <2> QED
    BY <2>1, <2>2, ContentsSeq DEF ContentsOK, Receive
<1>6. Contents' = Tail(Contents)
  BY <1>2, <1>3, <1>4, <1>5, HeadTailProperties, SeqEqual
<1> QED
  BY <1>4, <1>6 DEF Deque!Receive, Receive

(* Every step of the ring is a step of the deque or leaves it alone.        *)
LEMMA NextRefines == IInv /\ [Next]_vars => [Deque!DNext]_(Deque!dvars)
<1> SUFFICES ASSUME IInv, [Next]_vars PROVE [Deque!DNext]_(Deque!dvars)
  OBVIOUS
<1>1. ASSUME NEW item \in Items, SendToBack(item) PROVE Deque!DNext
  <2>1. CASE astray
    BY <1>1, <2>1, SendToBackDrifts DEF Deque!DNext
  <2>2. CASE ~astray
    BY <1>1, <2>2, SendToBackRefines DEF Deque!DNext
  <2> QED
    BY <2>1, <2>2
<1>2. ASSUME NEW item \in Items, SendToFront(item) PROVE Deque!DNext
  BY <1>2, CopyToFrontRefines DEF SendToFront, HasSpace, Deque!DNext
<1>3. ASSUME NEW item \in Items, SendOverwrite(item) PROVE Deque!DNext
  BY <1>3, CopyToFrontRefines DEF SendOverwrite, Deque!DNext
<1>4. CASE Receive
  BY <1>4, ReceiveRefines DEF Deque!DNext
<1>5. CASE Peek
  <2>1. Contents' = Contents
    BY <1>5 DEF Peek, Contents, Slot
  <2> QED
    BY <1>5, <2>1, OldestIsHead DEF Peek, Deque!DNext, Deque!Peek
<1>6. CASE Reset
  <2>1. IInv'
    BY NextIInv
  <2>2. Contents' = <<>>
    BY <1>6, <2>1, ContentsSeqNext, EmptySeq DEF ContentsOK, Reset,
       ResetPositions
  <2> QED
    BY <1>6, <2>2 DEF Reset, Deque!DNext, Deque!Reset
<1>7. CASE UNCHANGED vars
  BY <1>7 DEF vars, Deque!dvars, Contents, Slot
<1> QED
  BY <1>1, <1>2, <1>3, <1>4, <1>5, <1>6, <1>7 DEF Next

(* The ring buffer implements the bounded deque, for every set of messages  *)
(* and every queue length: messages leave in the order they were put in,    *)
(* each exactly once, except for what an overwrite of a queue longer than   *)
(* one does to later sends to the back, which BoundedDeque states.          *)
THEOREM RingImplementsDeque == Spec => DequeSpec
<1>1. Spec => []IInv
  BY InitIInv, NextIInv, PTL DEF Spec
<1> QED
  BY <1>1, InitRefines, NextRefines, PTL DEF Spec, DequeSpec, Deque!DSpec
=============================================================================
