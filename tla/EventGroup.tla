----------------------------- MODULE EventGroup -----------------------------
(***************************************************************************)
(* An event group, event_group/event_group.rs, over the scheduler of       *)
(* module Tasks: bits that tasks set, clear, and wait for.                 *)
(*                                                                         *)
(* xEventGroupWaitBits reads the bits BEFORE it suspends the scheduler and *)
(* goes on with what it read, so the read is a step of its own.  A task's  *)
(* event item holds the bits it waits for, with its flags; the kernel adds *)
(* the bit taskEVENT_LIST_ITEM_VALUE_IN_USE, 0x8000, which is not one of   *)
(* the control bits the group masks out again: it is a bit of the group.   *)
(*                                                                         *)
(* A task whose wait ended by its time leaves its event item in the list,  *)
(* and its next wait links the item a second time.  From then on the links *)
(* themselves are kept, as EventLinks describes them, and a walk along     *)
(* them, which may never end, is taken item by item.                       *)
(***************************************************************************)
EXTENDS Tasks, EventLinks

CONSTANTS
  Bits,        \* the bits the application uses
  IN_USE,      \* the bit the kernel adds
  ResetBits,   \* of each task: the bits of configMAX_PRIORITIES - uxPriority
  WaitBits,    \* the sets of bits waited for
  WaitForAll,  \* what is passed as xWaitForAllBits
  GroupCalls,  \* the other calls on the group the application makes
  GroupWaits   \* what is passed as xTicksToWait

ASSUME GroupAssumption ==
  /\ IN_USE \notin Bits
  /\ ResetBits \in [Task -> SUBSET Bits]
  /\ WaitBits \subseteq SUBSET Bits /\ {} \notin WaitBits
  /\ WaitForAll \subseteq BOOLEAN
  /\ GroupWaits \subseteq 0 .. PORT_MAX_DELAY
  /\ Task \cap {"xTasksWaitingForBits", Free} = {}  \* the list is no item

VARIABLES
  uxEventBits,
  xTasksWaitingForBits,  \* in the order of arrival
  groupTangle,           \* <<>>, or <<links>> once an item was linked twice
  visit,                 \* where a walk along these links is
  item,                  \* value of every event item
  call,                  \* the arguments of a task's xEventGroupWaitBits
  read                   \* its uxCurrentEventBits

listed == <<xTasksWaitingForBits, groupTangle>>
group == <<uxEventBits, listed, visit, item, call, read>>
frame == <<wake, tasks, lastWake>>

Value(bits, all, clear, set) ==
  [bits |-> bits, all |-> all, clear |-> clear, unblocked |-> set]

(* What uxTaskResetEventItemValue leaves in the item. *)
ResetValue(t) == Value(ResetBits[t], FALSE, FALSE, FALSE)

NoCall == [bits |-> {}, all |-> FALSE, clear |-> FALSE, ticks |-> 0]

(* The list's name in its links, and a walk: the node it is at and the     *)
(* bits it will clear.                                                     *)
Waiters == "xTasksWaitingForBits"
Visiting(node, clear) == [at |-> node, clear |-> clear]
NoVisit == Visiting(Waiters, {})

GroupInit ==
  /\ Init
  /\ uxEventBits = {}
  /\ xTasksWaitingForBits = <<>>
  /\ groupTangle = <<>>
  /\ visit = NoVisit
  /\ item = [t \in Task |-> ResetValue(t)]
  /\ call = [t \in Task |-> NoCall]
  /\ read = [t \in Task |-> {}]
-----------------------------------------------------------------------------
GroupTidy == groupTangle = <<>>
GroupLinks == groupTangle[1]

WaitsForBits(t) == IF GroupTidy THEN Contains(xTasksWaitingForBits, t)
                                ELSE GroupLinks.in[t] = Waiters

GroupLinksNow ==
  IF GroupTidy THEN LinksOf([l \in {Waiters} |-> xTasksWaitingForBits], Task)
               ELSE GroupLinks

(* prvTestWaitCondition. *)
ConditionMet(have, bits, all) ==
  IF all THEN bits \subseteq have ELSE bits \cap have # {}

(* The tasks of the list that are in a set, in list order: the k-th stands *)
(* where k of them have been met.                                          *)
Listed(queue, set) ==
  LET at == {i \in 1 .. Len(queue) : queue[i] \in set}
  IN  [k \in 1 .. Cardinality(at) |->
         queue[CHOOSE i \in at : Cardinality(at \cap 1 .. i) = k]]

(* Mutant: the event items leave, the state items stay where they are.     *)
UnlinkOnly(woken, bits) ==
  /\ xTasksWaitingForBits' = Listed(xTasksWaitingForBits, Task \ ToSet(woken))
  /\ UNCHANGED <<groupTangle, item, ring, xYieldPending>>

(* vTaskRemoveFromUnorderedEventList, for the tasks of a sequence: their   *)
(* event items leave the group, their state items become ready, although   *)
(* the scheduler is suspended.  On tangled links it is one task.           *)
Unblock(woken, bits) ==
  /\ IF GroupTidy
     THEN /\ xTasksWaitingForBits' =
               Listed(xTasksWaitingForBits, Task \ ToSet(woken))
          /\ UNCHANGED groupTangle
     ELSE /\ groupTangle' = <<Removed(GroupLinks, Head(woken))>>
          /\ UNCHANGED xTasksWaitingForBits
  /\ item' = [t \in Task |-> IF Contains(woken, t)
                             THEN Value(bits \cup {IN_USE}, FALSE, FALSE, TRUE)
                             ELSE item[t]]
  /\ ring' = AllToReady(ring, woken)
  /\ xYieldPending' = (xYieldPending
       \/ \E t \in ToSet(woken) : uxPriority[t] > uxPriority[current])

Meets(t, bits) == ConditionMet(bits, item[t].bits, item[t].all)

(* Mutant: only the first match is woken.                                  *)
MatchedFirst(bits) ==
  LET all == Listed(xTasksWaitingForBits, {t \in Task : Meets(t, bits)})
  IN  SubSeq(all, 1, IF all = <<>> THEN 0 ELSE 1)

(* The tasks whose condition the bits meet, in list order. *)
Matched(bits) ==
  Listed(xTasksWaitingForBits, {t \in Task : Meets(t, bits)})

(* The scheduler is suspended throughout: one step.  All conditions are    *)
(* tested with the bits as set, then the bits to clear are cleared.        *)
xEventGroupSetBits(t, bits) ==
  LET have  == uxEventBits \cup bits
      woken == Matched(have)
      clear == UNION {item[u].bits : u \in {v \in ToSet(woken) : item[v].clear}}
  IN  /\ Executes(t) /\ pc[t] = "run" /\ "xEventGroupSetBits" \in GroupCalls
      /\ GroupTidy
      /\ Unblock(woken, have)
      /\ uxEventBits' = have \ clear
      /\ UNCHANGED <<frame, current, pc, clock, uxSchedulerSuspended, panicked,
                     visit, call, read>>

(* The same on tangled links: the beginning, the items that are met until  *)
(* the marker is, and the end.  An item that left the list during the walk *)
(* can be met again.                                                       *)
BeginSet(t, bits) ==
  /\ Executes(t) /\ pc[t] = "run" /\ "xEventGroupSetBits" \in GroupCalls
  /\ ~GroupTidy
  /\ uxEventBits' = uxEventBits \cup bits
  /\ visit' = Visiting(GroupLinks.next[Waiters], {})
  /\ uxSchedulerSuspended' = uxSchedulerSuspended + 1
  /\ pc' = [pc EXCEPT ![t] = "setBits"]
  /\ UNCHANGED <<frame, ring, dispatch, clock, panicked, listed, item, call,
                 read>>

VisitItem(t) ==
  LET u == visit.at
      clear == visit.clear \cup IF item[u].clear THEN item[u].bits ELSE {}
  IN  /\ Executes(t) /\ pc[t] = "setBits" /\ u \in Task
      /\ IF Meets(u, uxEventBits)
         THEN /\ Unblock(<<u>>, uxEventBits)
              /\ visit' = Visiting(GroupLinks'.next[u], clear)
         ELSE /\ visit' = Visiting(GroupLinks.next[u], visit.clear)
              /\ UNCHANGED <<listed, item, ring, xYieldPending>>
      /\ UNCHANGED <<frame, current, pc, clock, uxSchedulerSuspended, panicked,
                     uxEventBits, call, read>>

EndSet(t) ==
  /\ Executes(t) /\ pc[t] = "setBits" /\ visit.at = Waiters
  /\ uxEventBits' = uxEventBits \ visit.clear
  /\ visit' = NoVisit
  /\ uxSchedulerSuspended' = uxSchedulerSuspended - 1
  /\ pc' = [pc EXCEPT ![t] = "run"]
  /\ UNCHANGED <<frame, ring, dispatch, clock, panicked, listed, item, call,
                 read>>

xEventGroupClearBits(t, bits) ==
  /\ Executes(t) /\ pc[t] = "run" /\ "xEventGroupClearBits" \in GroupCalls
  /\ uxEventBits' = uxEventBits \ bits
  /\ UNCHANGED <<frame, ring, dispatch, pc, clock, uxSchedulerSuspended,
                 panicked, listed, visit, item, call, read>>

(* Everybody is woken, with no bit. *)
vEventGroupDelete(t) ==
  /\ Executes(t) /\ pc[t] = "run" /\ "vEventGroupDelete" \in GroupCalls
  /\ GroupTidy
  /\ Unblock(xTasksWaitingForBits, {})
  /\ UNCHANGED <<frame, current, pc, clock, uxSchedulerSuspended, panicked,
                 uxEventBits, visit, call, read>>

(* On tangled links: the head is woken as long as the list says it has     *)
(* items, also if it is in no list any more.  A marker has no owner, and   *)
(* unwrapping that panics.                                                 *)
BeginDelete(t) ==
  /\ Executes(t) /\ pc[t] = "run" /\ "vEventGroupDelete" \in GroupCalls
  /\ ~GroupTidy
  /\ uxSchedulerSuspended' = uxSchedulerSuspended + 1
  /\ pc' = [pc EXCEPT ![t] = "deleteGroup"]
  /\ UNCHANGED <<frame, ring, dispatch, clock, panicked, group>>

DeleteItem(t) ==
  LET head == GroupLinks.next[Waiters]
  IN  /\ Executes(t) /\ pc[t] = "deleteGroup"
      /\ IF GroupLinks.count[Waiters] = 0
         THEN /\ uxSchedulerSuspended' = uxSchedulerSuspended - 1
              /\ pc' = [pc EXCEPT ![t] = "run"]
              /\ UNCHANGED <<frame, ring, dispatch, clock, panicked, group>>
         ELSE IF head \notin Task
         THEN Panic /\ UNCHANGED group
         ELSE /\ Unblock(<<head>>, {})
              /\ UNCHANGED <<frame, current, pc, clock, uxSchedulerSuspended,
                             panicked, uxEventBits, visit, call, read>>
-----------------------------------------------------------------------------
(* xEventGroupWaitBits: the read. *)
ReadBits(t, bits, all, clear, ticks) ==
  /\ Executes(t) /\ pc[t] = "run" /\ MayBlock(t)
  /\ call' = [call EXCEPT ![t] = [bits |-> bits, all |-> all, clear |-> clear,
                                  ticks |-> ticks]]
  /\ read' = [read EXCEPT ![t] = uxEventBits]
  /\ pc' = [pc EXCEPT ![t] = "testBits"]
  /\ UNCHANGED <<frame, ring, dispatch, clock, uxSchedulerSuspended, panicked,
                 uxEventBits, listed, visit, item>>

Finish(t) ==
  /\ pc' = [pc EXCEPT ![t] = "run"]
  /\ call' = [call EXCEPT ![t] = NoCall]
  /\ read' = [read EXCEPT ![t] = {}]

(* With the scheduler suspended: the test of what was read.                *)
ReturnAtOnce(t) ==
  LET c == call[t]
      met == ConditionMet(read[t], c.bits, c.all)
  IN  /\ Executes(t) /\ pc[t] = "testBits"
      /\ met \/ c.ticks = 0
      /\ uxEventBits' = IF met /\ c.clear THEN uxEventBits \ c.bits
                                          ELSE uxEventBits
      /\ Finish(t)
      /\ UNCHANGED <<frame, ring, dispatch, clock, uxSchedulerSuspended,
                     panicked, listed, visit, item>>

(* vListInsertEnd, into the group's list. *)
PlaceInGroup(t) ==
  IF GroupTidy /\ ~WaitsForBits(t)
  THEN /\ xTasksWaitingForBits' = Append(xTasksWaitingForBits, t)
       /\ UNCHANGED groupTangle
  ELSE /\ groupTangle' = <<InsertedAtEnd(GroupLinksNow, Waiters, t)>>
       /\ xTasksWaitingForBits' = <<>>

(* Mutant: the flags are not stored with the bits.                         *)
WaitWithoutFlags(t) ==
  LET c == call[t]
  IN  /\ Executes(t) /\ pc[t] = "testBits"
      /\ ~ConditionMet(read[t], c.bits, c.all) /\ c.ticks > 0
      /\ item' = [item EXCEPT ![t] = Value(c.bits, c.all, FALSE, FALSE)]
      /\ PlaceInGroup(t)
      /\ AddCurrentToDelayed(c.ticks)
      /\ pc' = [pc EXCEPT ![t] = "yieldBits"]
      /\ UNCHANGED <<tasks, lastWake, dispatch, xTickCount, xPendedTicks,
                     elapsed, uxSchedulerSuspended, panicked, uxEventBits,
                     visit, call, read>>

(* vTaskPlaceOnUnorderedEventList. *)
WaitForBits(t) ==
  LET c == call[t]
  IN  /\ Executes(t) /\ pc[t] = "testBits"
      /\ ~ConditionMet(read[t], c.bits, c.all) /\ c.ticks > 0
      /\ IF Overflows(c.ticks + xTickCount)
         THEN Panic /\ UNCHANGED group
         ELSE /\ item' = [item EXCEPT ![t] = Value(c.bits \cup {IN_USE}, c.all,
                                                   c.clear, FALSE)]
              /\ PlaceInGroup(t)
              /\ AddCurrentToDelayed(c.ticks)
              /\ pc' = [pc EXCEPT ![t] = "yieldBits"]
              /\ UNCHANGED <<tasks, lastWake, dispatch, xTickCount,
                             xPendedTicks, elapsed, uxSchedulerSuspended,
                             panicked, uxEventBits, visit, call, read>>

(* vTaskResumeAll has returned FALSE. *)
YieldForBits(t) ==
  /\ Executes(t) /\ pc[t] = "yieldBits"
  /\ SwitchContext(ring, uxSchedulerSuspended)
  /\ pc' = [pc EXCEPT ![t] = "takeBits"]
  /\ UNCHANGED <<frame, clock, uxSchedulerSuspended, panicked, group>>

(* The event item is reset wherever it is.  If nobody unblocked the task,  *)
(* it tests, and returns, the bits it read at the beginning.               *)
TakeBits(t) ==
  LET c == call[t]
      timedOut == ~item[t].unblocked
      met == ConditionMet(read[t], c.bits, c.all)
  IN  /\ Executes(t) /\ pc[t] = "takeBits"
      /\ uxEventBits' = IF timedOut /\ met /\ c.clear
                        THEN uxEventBits \ c.bits ELSE uxEventBits
      /\ item' = [item EXCEPT ![t] = ResetValue(t)]
      /\ Finish(t)
      /\ UNCHANGED <<frame, ring, dispatch, clock, uxSchedulerSuspended,
                     panicked, listed, visit>>
-----------------------------------------------------------------------------
GroupNext ==
  \/ Tick /\ UNCHANGED group
  \/ \E t \in Task :
       \/ /\ Yield(t) \/ TaskYield(t) \/ \E n \in Delays : VTaskDelay(t, n)
          /\ UNCHANGED group
       \/ \E b \in SUBSET Bits : /\ b # {}
                                 /\ \/ xEventGroupSetBits(t, b)
                                    \/ BeginSet(t, b)
                                    \/ xEventGroupClearBits(t, b)
       \/ VisitItem(t) \/ EndSet(t)
       \/ vEventGroupDelete(t) \/ BeginDelete(t) \/ DeleteItem(t)
       \/ \E b \in WaitBits, all \in WaitForAll, clear \in BOOLEAN,
             n \in GroupWaits : ReadBits(t, b, all, clear, n)
       \/ ReturnAtOnce(t) \/ WaitForBits(t) \/ YieldForBits(t) \/ TakeBits(t)

GroupSpec == GroupInit /\ [][GroupNext]_<<vars, group>>
-----------------------------------------------------------------------------
(* No task sleeps through its event: none waits for bits that are there.   *)
NoneMissed ==
  \A t \in Task :
    WaitsForBits(t) => ~ConditionMet(uxEventBits, call[t].bits, call[t].all)

InWait(t) == pc[t] \in {"yieldBits", "takeBits"}

(* The part of it the code keeps, as long as no item was linked twice: a   *)
(* set wakes everybody who is in the group's list for any of the bits it   *)
(* finds or sets, also those whose bits it clears for another waiter; they *)
(* leave the list and stop sleeping.                                       *)
SetWakes ==
  [][\A t \in Task, bits \in SUBSET Bits :
       /\ xEventGroupSetBits(current, bits)
       /\ InWait(t) /\ WaitsForBits(t) /\ ~call[t].all
       /\ ConditionMet(uxEventBits \cup bits, call[t].bits, FALSE)
       => ~WaitsForBits(t)' /\ ~Asleep(t)'
    ]_<<vars, group>>

(* Everybody in the group's list is met by a walk along it.                *)
WaitersMet ==
  \A t \in Task :
    WaitsForBits(t) => \E k \in 1 .. Cardinality(Task) :
                         NodeAfter(GroupLinksNow, Waiters, k) = t

(* Nobody is left between the two lists: a task nobody has unblocked and   *)
(* whose time is not over sleeps with its item in the group.               *)
WaitersSleep ==
  \A t \in Task :
    InWait(t) /\ ~item[t].unblocked
      => \/ WaitsForBits(t) /\ Asleep(t)
         \/ call[t].ticks < PORT_MAX_DELAY /\ wake[t] <= xTickCount

(* A task that was unblocked returns bits that meet its condition, unless  *)
(* the group was deleted, and a task that asked for it leaves none of them *)
(* set behind it, but those the walk of the set will clear: the bits of    *)
(* one set are consumed once, also on tangled links.                       *)
Consumed ==
  [][\A t \in Task :
       /\ InWait(t) /\ ~item[t].unblocked /\ item'[t].unblocked
       /\ item'[t].bits # {IN_USE}
       => /\ ConditionMet(item'[t].bits, call[t].bits, call[t].all)
          /\ call[t].clear => (uxEventBits \ visit.clear)' \cap call[t].bits = {}
    ]_<<vars, group>>

(* A delay is not cut short by the group: a task that is not in a wait     *)
(* wakes when it is due.                                                   *)
DelayUndisturbed ==
  [][\A t \in Task :
       pc[t] = "run" /\ Asleep(t) /\ ~Asleep(t)'
         => wake[t] <= xTickCount']_<<vars, group>>
=============================================================================
