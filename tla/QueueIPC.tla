------------------------------ MODULE QueueIPC ------------------------------
(***************************************************************************)
(* Blocking on a queue: xQueueGenericSend, xQueueReceive, xQueuePeek,      *)
(* their FromISR forms, the queue locks of queue/queue.rs, and the event   *)
(* list calls of tasks/control.rs, over the scheduler of module Tasks.     *)
(*                                                                         *)
(* Of the messages only the count is kept: QueueStore has the storage.     *)
(* The three blocking calls run through the same steps, told apart by      *)
(* op[t]; each critical section is one step, and between two of them the   *)
(* tick and the interrupts of the application can come.  From "lock" to    *)
(* "resume" the scheduler is suspended.                                    *)
(*                                                                         *)
(* The event lists are sequences as long as they are lists.  From the      *)
(* moment a task links an event item that is still in one, as it does when *)
(* it waits again after a wait that ended by its time, the links           *)
(* themselves are kept, as EventLinks describes them.                      *)
(***************************************************************************)
EXTENDS Tasks, EventLinks

CONSTANTS
  uxLength,      \* the messages the queue can hold
  Callers,       \* Callers[call]: the tasks that make the call
  Waits,         \* Waits[call]: what they pass as xTicksToWait
  IsrCalls,      \* the FromISR calls the interrupts make
  IsrBound       \* bound on these interrupts

ASSUME QueueAssumption ==
  /\ uxLength \in Nat \ {0}
  /\ DOMAIN Callers = {"send", "receive", "peek"}
  /\ Waits \in [DOMAIN Callers -> SUBSET (0 .. PORT_MAX_DELAY)]
  /\ IsrCalls \subseteq {"send", "receive"} /\ IsrBound \in Nat
  /\ Task \cap {"send", "receive", "pending", Free} = {}  \* lists are no items

VARIABLES
  uxMessagesWaiting,
  cRxLock, cTxLock,
  waiting,       \* the event lists, head first: xTasksWaitingToSend, -Receive
  pending,       \* the event items in PENDING_READY_LIST
  tangle,        \* <<>>, or <<links>> once an item was linked twice: then
                 \* these links are what waiting and pending were
  op,            \* the call a task is in
  xTicksToWait,  \* what is left of its wait
  entered,       \* the tick xTimeOut has; Unset before the first wait
  outcome,       \* what the locked part of the call has decided
  spins,         \* an interrupt spins on the queue's RwLock
  interrupts     \* history: the interrupts taken

locks  == <<cRxLock, cTxLock>>
events == <<waiting, pending, tangle>>
waits  == <<op, xTicksToWait, entered, outcome>>
ipc == <<uxMessagesWaiting, locks, events, waits, spins, interrupts>>
kernel == <<wake, tasks, lastWake>>

Ops == {"send", "receive", "peek"}
Sides == {"send", "receive"}
Unset == -1
UNLOCKED == -1
LOCKED_UNMODIFIED == 0

IPCInit ==
  /\ Init
  /\ uxMessagesWaiting = 0
  /\ cRxLock = UNLOCKED /\ cTxLock = UNLOCKED
  /\ waiting = [s \in Sides |-> <<>>]
  /\ pending = <<>>
  /\ tangle = <<>>
  /\ op = [t \in Task |-> "none"]
  /\ xTicksToWait = [t \in Task |-> 0]
  /\ entered = [t \in Task |-> Unset]
  /\ outcome = [t \in Task |-> "none"]
  /\ spins = FALSE
  /\ interrupts = 0
-----------------------------------------------------------------------------
Tidy == tangle = <<>>
Links == tangle[1]

WaitsIn(s, t) == IF Tidy THEN Contains(waiting[s], t) ELSE Links.in[t] = s
Linked(t) == \E s \in Sides : WaitsIn(s, t)
Pending(t) == IF Tidy THEN Contains(pending, t) ELSE Links.in[t] = "pending"

NobodyIn(s) == IF Tidy THEN waiting[s] = <<>> ELSE Links.count[s] = 0
HeadOf(s) == IF Tidy THEN Head(waiting[s]) ELSE Links.next[s]

(* Event lists are sorted by configMAX_PRIORITIES - uxPriority; vListInsert *)
(* puts an item before those of its own value.                             *)
Enqueued(queue, t) ==
  LET k == SelectInSeq(queue, LAMBDA u : uxPriority[u] <= uxPriority[t])
  IN  InsertAt(queue, IF k = 0 THEN Len(queue) + 1 ELSE k, t)

LinksNow ==
  IF Tidy THEN LinksOf([l \in Sides \cup {"pending"} |->
                          IF l = "pending" THEN pending ELSE waiting[l]], Task)
          ELSE Links

(* Inserting a linked item is what tangles the lists.  In tangled links    *)
(* the walk to the place of the item may go round for ever.                *)
PlaceIn(s, t) ==
  IF Tidy /\ ~Linked(t) /\ ~Pending(t)
  THEN /\ waiting' = [waiting EXCEPT ![s] = Enqueued(@, t)]
       /\ UNCHANGED <<pending, tangle>>
  ELSE LET stops == Sides \cup {"pending"}
                      \cup {u \in Task : uxPriority[u] <= uxPriority[t]}
       IN  /\ StepsTo(LinksNow, s, stops) # {}
           /\ tangle' = <<InsertedInOrder(LinksNow, s, stops, t)>>
           /\ waiting' = [l \in Sides |-> <<>>]
           /\ pending' = <<>>

(* Mutant: the event item of the woken task stays in its list.             *)
WakeKeepsItem(s) ==
  /\ pending' = IF uxSchedulerSuspended = 0 THEN pending
                ELSE Append(pending, HeadOf(s))
  /\ UNCHANGED <<waiting, tangle>>

(* xTaskRemoveFromEventList: the head of a wait list becomes ready, or,    *)
(* while the scheduler is suspended, its event item goes to                *)
(* PENDING_READY_LIST, which nothing ever empties (see VTaskResumeAll).    *)
WakeHead(s) ==
  IF Tidy
  THEN /\ waiting' = [waiting EXCEPT ![s] = Tail(@)]
       /\ pending' = IF uxSchedulerSuspended = 0 THEN pending
                     ELSE Append(pending, HeadOf(s))
       /\ UNCHANGED tangle
  ELSE /\ tangle' = <<IF uxSchedulerSuspended = 0 THEN Removed(Links, HeadOf(s))
                      ELSE InsertedAtEnd(Removed(Links, HeadOf(s)), "pending",
                                         HeadOf(s))>>
       /\ UNCHANGED <<waiting, pending>>

RingAfterWake(s) ==
  IF uxSchedulerSuspended = 0 THEN ToReady(ring, HeadOf(s)) ELSE ring

(* A tangled list that says it has items may have a marker as its head: it *)
(* has no owner, and unwrapping that panics.  What the call has changed by  *)
(* then is of no consequence, as the panic handler never returns.           *)
HeadIsMarker(s) == ~NobodyIn(s) /\ HeadOf(s) \notin Task

Preempts(t) == uxPriority[t] > uxPriority[current]

Available(call) == IF call = "send" THEN uxMessagesWaiting < uxLength
                                    ELSE uxMessagesWaiting > 0

CountAfter(call) == CASE call = "send"    -> uxMessagesWaiting + 1
                      [] call = "receive" -> uxMessagesWaiting - 1
                      [] call = "peek"    -> uxMessagesWaiting

(* Mutant: every call wakes receivers.                                     *)
WakeReceivers(call) == "receive"

(* The list a call waits in, and the list it wakes a task from. *)
WaitSide(call) == IF call = "send" THEN "send" ELSE "receive"
WakeSide(call) == IF call = "receive" THEN "send" ELSE "receive"
-----------------------------------------------------------------------------
Goto(t, label) == pc' = [pc EXCEPT ![t] = label]

Return(t) ==
  /\ Goto(t, "run")
  /\ op' = [op EXCEPT ![t] = "none"]
  /\ UNCHANGED <<xTicksToWait, entered, outcome>>

Begin(t, call, ticks) ==
  /\ Executes(t) /\ pc[t] = "run" /\ MayBlock(t)
  /\ t \in Callers[call]
  /\ Goto(t, "attempt")
  /\ op' = [op EXCEPT ![t] = call]
  /\ xTicksToWait' = [xTicksToWait EXCEPT ![t] = ticks]
  /\ entered' = [entered EXCEPT ![t] = Unset]
  /\ outcome' = [outcome EXCEPT ![t] = "none"]
  /\ UNCHANGED <<kernel, ring, dispatch, clock, uxSchedulerSuspended, panicked,
                 uxMessagesWaiting, locks, events, spins, interrupts>>

(* The critical section at the head of the loop.  xQueuePeek holds the      *)
(* guard of xQueue.write() across the yield it makes for a receiver it      *)
(* wakes, which would spin on it; the guard is left out here because no     *)
(* receiver is ever found (see ReceiversDrained).                           *)
Transfer(t) ==
  LET s == WakeSide(op[t])
      wakes == ~NobodyIn(s)
  IN  /\ Executes(t) /\ pc[t] = "attempt" /\ Available(op[t])
      /\ IF HeadIsMarker(s)
         THEN Panic /\ UNCHANGED ipc
         ELSE /\ uxMessagesWaiting' = CountAfter(op[t])
              /\ IF wakes
                 THEN /\ WakeHead(s)
                      /\ IF Preempts(HeadOf(s))
                         THEN SwitchContext(RingAfterWake(s),
                                            uxSchedulerSuspended)
                         ELSE NoSwitch(RingAfterWake(s))
                 ELSE NoSwitch(ring) /\ UNCHANGED events
              /\ Return(t)
              /\ UNCHANGED <<kernel, clock, uxSchedulerSuspended, panicked,
                             locks, spins, interrupts>>

GiveUp(t) ==
  /\ Executes(t) /\ pc[t] = "attempt"
  /\ ~Available(op[t]) /\ xTicksToWait[t] = 0
  /\ Return(t)
  /\ UNCHANGED <<kernel, ring, dispatch, clock, uxSchedulerSuspended, panicked,
                 uxMessagesWaiting, locks, events, spins, interrupts>>

(* Send and receive suspend the scheduler inside the critical section, a   *)
(* peek after it.                                                          *)
PrepareToWait(t) ==
  /\ Executes(t) /\ pc[t] = "attempt"
  /\ ~Available(op[t]) /\ xTicksToWait[t] > 0
  /\ entered' = [entered EXCEPT ![t] = IF @ = Unset THEN xTickCount ELSE @]
  /\ IF op[t] = "peek"
     THEN Goto(t, "suspend") /\ UNCHANGED uxSchedulerSuspended
     ELSE Goto(t, "lock") /\ uxSchedulerSuspended' = uxSchedulerSuspended + 1
  /\ UNCHANGED <<kernel, ring, dispatch, clock, panicked, uxMessagesWaiting,
                 locks, events, op, xTicksToWait, outcome, spins,
                 interrupts>>

PeekSuspend(t) ==
  /\ Executes(t) /\ pc[t] = "suspend"
  /\ uxSchedulerSuspended' = uxSchedulerSuspended + 1
  /\ Goto(t, "lock")
  /\ UNCHANGED <<kernel, ring, dispatch, clock, panicked, ipc>>
-----------------------------------------------------------------------------
Locked(lock) == IF lock = UNLOCKED THEN LOCKED_UNMODIFIED ELSE lock

LockQueue(t) ==
  /\ Executes(t) /\ pc[t] = "lock"
  /\ cRxLock' = Locked(cRxLock) /\ cTxLock' = Locked(cTxLock)
  /\ Goto(t, "check")
  /\ UNCHANGED <<kernel, ring, dispatch, clock, uxSchedulerSuspended, panicked,
                 uxMessagesWaiting, events, waits, spins, interrupts>>

(* xTaskCheckForTimeOut, then prvIsQueueFull or prvIsQueueEmpty; the first *)
(* does not look at the queue, so they are one step.  What is left of the  *)
(* wait is reduced, but the entry time is not advanced with it.            *)
CheckForTimeOut(t) ==
  LET xElapsedTime == xTickCount - entered[t]
      forever == xTicksToWait[t] = PORT_MAX_DELAY
      expired == ~forever /\ xElapsedTime >= xTicksToWait[t]
  IN  /\ Executes(t) /\ pc[t] = "check"
      /\ xTicksToWait' = [xTicksToWait EXCEPT
                            ![t] = IF forever THEN @
                                   ELSE IF expired THEN 0
                                   ELSE @ - xElapsedTime]
      /\ outcome' = [outcome EXCEPT
                       ![t] = IF expired THEN "expired"
                              ELSE IF Available(op[t]) THEN "retry"
                              ELSE "blocked"]
      /\ Goto(t, IF outcome'[t] = "blocked" THEN "place" ELSE "unlockTx")
      /\ UNCHANGED <<kernel, ring, dispatch, clock, uxSchedulerSuspended,
                     panicked, uxMessagesWaiting, locks, events, op, entered,
                     spins, interrupts>>

(* The argument of vTaskPlaceOnEventList is read through xQueue.write():   *)
(* the guard lives until the call returns, with interrupts enabled.        *)
TakeGuard(t) ==
  /\ Executes(t) /\ pc[t] = "place"
  /\ Goto(t, "placing")
  /\ UNCHANGED <<kernel, ring, dispatch, clock, uxSchedulerSuspended, panicked,
                 ipc>>

(* vTaskPlaceOnEventList.  A walk that goes round for ever keeps the task   *)
(* here, with the guard and the scheduler suspended.                       *)
PlaceOnEventList(t) ==
  /\ Executes(t) /\ pc[t] = "placing"
  /\ IF Overflows(xTicksToWait[t] + xTickCount)
     THEN Panic /\ UNCHANGED ipc
     ELSE /\ PlaceIn(WaitSide(op[t]), t)
          /\ AddCurrentToDelayed(xTicksToWait[t])
          /\ Goto(t, "unlockTx")
          /\ UNCHANGED <<tasks, lastWake, dispatch, xTickCount, xPendedTicks,
                         elapsed, uxSchedulerSuspended, panicked,
                         uxMessagesWaiting, locks, waits, spins, interrupts>>


(* A loop of prvUnlockQueue.  It runs while its count is above             *)
(* queueUNLOCKED, so once for a lock nothing was counted on.  The          *)
(* scheduler is suspended: the items it removes go to the pending list.    *)
LinksUnlocked(count) ==
  MovedHeads(Links, "receive", "pending", count - UNLOCKED)

UnlockWakes(count) ==
  LET n == IF Len(waiting["receive"]) < count - UNLOCKED
           THEN Len(waiting["receive"]) ELSE count - UNLOCKED
      heads == SubSeq(waiting["receive"], 1, n)
      woken == IF Tidy THEN ToSet(heads) ELSE LinksUnlocked(count).moved
  IN  /\ IF Tidy
         THEN /\ waiting' = [waiting EXCEPT
                               !["receive"] = SubSeq(@, n + 1, Len(@))]
              /\ pending' = pending \o heads
              /\ UNCHANGED tangle
         ELSE /\ tangle' = <<LinksUnlocked(count).links>>
              /\ UNCHANGED <<waiting, pending>>
      /\ xYieldPending' = (xYieldPending \/ \E u \in woken : Preempts(u))

UnlockPanics(count) == ~Tidy /\ LinksUnlocked(count).panics

UnlockTx(t) ==
  /\ Executes(t) /\ pc[t] = "unlockTx"
  /\ IF UnlockPanics(cTxLock)
     THEN Panic /\ UNCHANGED ipc
     ELSE /\ UnlockWakes(cTxLock)
          /\ cTxLock' = UNLOCKED
          /\ Goto(t, "unlockRx")
          /\ UNCHANGED <<kernel, ring, current, clock, uxSchedulerSuspended,
                         panicked, uxMessagesWaiting, cRxLock, waits, spins,
                         interrupts>>

(* Mutant: cRxLock is not released.                                        *)
UnlockRxLeaves(t) ==
  /\ Executes(t) /\ pc[t] = "unlockRx"
  /\ UnlockWakes(cTxLock)
  /\ Goto(t, "resume")
  /\ UNCHANGED <<kernel, ring, current, clock, uxSchedulerSuspended, panicked,
                 uxMessagesWaiting, locks, waits, spins, interrupts>>

(* The second loop starts from cTxLock as well, and wakes receivers.       *)
UnlockRx(t) ==
  /\ Executes(t) /\ pc[t] = "unlockRx"
  /\ IF UnlockPanics(cTxLock)
     THEN Panic /\ UNCHANGED ipc
     ELSE /\ UnlockWakes(cTxLock)
          /\ cRxLock' = UNLOCKED
          /\ Goto(t, "resume")
          /\ UNCHANGED <<kernel, ring, current, clock, uxSchedulerSuspended,
                         panicked, uxMessagesWaiting, cTxLock, waits, spins,
                         interrupts>>

(* vTaskResumeAll, which returns FALSE; then the yield, if the task is     *)
(* blocked, and the next round of the loop.  A send that has timed out     *)
(* returns; a receive looks at the queue once more.                        *)
Resume(t) ==
  /\ Executes(t) /\ pc[t] = "resume"
  /\ uxSchedulerSuspended' = uxSchedulerSuspended - 1
  /\ \/ /\ outcome[t] = "blocked"
        /\ Goto(t, "yieldWaiting")
        /\ UNCHANGED op
     \/ /\ outcome[t] = "retry"
        /\ Goto(t, "attempt")
        /\ UNCHANGED op
     \/ /\ outcome[t] = "expired" /\ op[t] = "send"
        /\ Goto(t, "run")
        /\ op' = [op EXCEPT ![t] = "none"]
     \/ /\ outcome[t] = "expired" /\ op[t] # "send"
        /\ Goto(t, "lastLook")
        /\ UNCHANGED op
  /\ UNCHANGED <<kernel, ring, dispatch, clock, panicked, uxMessagesWaiting,
                 locks, events, xTicksToWait, entered, outcome, spins,
                 interrupts>>

YieldWaiting(t) ==
  /\ Executes(t) /\ pc[t] = "yieldWaiting"
  /\ SwitchContext(ring, uxSchedulerSuspended)
  /\ Goto(t, "attempt")
  /\ UNCHANGED <<kernel, clock, uxSchedulerSuspended, panicked, ipc>>

LastLook(t) ==
  /\ Executes(t) /\ pc[t] = "lastLook"
  /\ IF Available(op[t])
     THEN Goto(t, "attempt") /\ UNCHANGED waits
     ELSE Return(t)
  /\ UNCHANGED <<kernel, ring, dispatch, clock, uxSchedulerSuspended, panicked,
                 uxMessagesWaiting, locks, events, spins, interrupts>>
-----------------------------------------------------------------------------
(* xQueueSendFromISR, xQueueReceiveFromISR: on an unlocked queue they wake *)
(* a task, on a locked one they count.  They do not switch context.        *)
Interrupt(call) == ~panicked /\ call \in IsrCalls /\ interrupts < IsrBound

GuardHeld == pc[current] = "placing"

IsrTransfer(call) ==
  LET s    == WakeSide(call)
      lock == IF call = "send" THEN cTxLock ELSE cRxLock
      wakes == lock = UNLOCKED /\ ~NobodyIn(s)
  IN  /\ Interrupt(call) /\ ~GuardHeld /\ Available(call)
      /\ IF wakes /\ HeadIsMarker(s)
         THEN Panic /\ UNCHANGED ipc
         ELSE /\ interrupts' = interrupts + 1
              /\ uxMessagesWaiting' = CountAfter(call)
              /\ cTxLock' = IF call = "send" /\ lock # UNLOCKED
                            THEN lock + 1 ELSE cTxLock
              /\ cRxLock' = IF call = "receive" /\ lock # UNLOCKED
                            THEN lock + 1 ELSE cRxLock
              /\ IF wakes
                 THEN /\ WakeHead(s)
                      /\ ring' = RingAfterWake(s)
                      /\ xYieldPending' = (xYieldPending \/ Preempts(HeadOf(s)))
                 ELSE UNCHANGED <<events, ring, xYieldPending>>
              /\ UNCHANGED <<kernel, current, pc, clock, uxSchedulerSuspended,
                             panicked, waits, spins>>

(* The interrupt spins on a guard that only the code it interrupted frees. *)
IsrSpin(call) ==
  /\ Interrupt(call) /\ GuardHeld
  /\ interrupts' = interrupts + 1
  /\ spins' = TRUE
  /\ panicked' = TRUE
  /\ UNCHANGED <<kernel, ring, dispatch, pc, clock, uxSchedulerSuspended,
                 uxMessagesWaiting, locks, events, waits>>

-----------------------------------------------------------------------------
Step(t) ==
  \/ Transfer(t) \/ GiveUp(t) \/ PrepareToWait(t) \/ PeekSuspend(t)
  \/ LockQueue(t) \/ CheckForTimeOut(t) \/ TakeGuard(t) \/ PlaceOnEventList(t)
  \/ UnlockTx(t) \/ UnlockRx(t) \/ Resume(t) \/ YieldWaiting(t) \/ LastLook(t)

(* The scheduler's own calls and the tick leave the queue alone.           *)
KernelStep(t) ==
  /\ Yield(t) \/ TaskYield(t) \/ \E n \in Delays : VTaskDelay(t, n)
  /\ UNCHANGED ipc

IPCNext ==
  \/ Tick /\ UNCHANGED ipc
  \/ \E call \in IsrCalls : IsrTransfer(call) \/ IsrSpin(call)
  \/ \E t \in Task : \/ Step(t) \/ KernelStep(t)
                     \/ \E call \in Ops : \E n \in Waits[call] : Begin(t, call, n)

IPCSpec == IPCInit /\ [][IPCNext]_<<vars, ipc>>

(* Every task goes on with its call, and a receiver receives now and then. *)
(* Yields stand for the time slices that keep coming with the ticks.         *)
BusySpec ==
  /\ IPCSpec
  /\ \A t \in Task :
       WF_<<vars, ipc>>(Step(t)) /\ SF_<<vars, ipc>>(KernelStep(t))
  /\ \A t \in Callers["receive"] :
       SF_<<vars, ipc>>(\E n \in Waits["receive"] : Begin(t, "receive", n))
-----------------------------------------------------------------------------
Labels == {"run", "yield", "resumeAll", "attempt", "suspend", "lock", "check",
           "place", "placing", "unlockTx", "unlockRx", "resume",
           "yieldWaiting", "lastLook"}

IPCTypeOK ==
  /\ uxMessagesWaiting \in 0 .. uxLength
  /\ cRxLock \in -1 .. IsrBound /\ cTxLock \in -1 .. IsrBound
  /\ waiting \in [Sides -> Seq(Task)]
  /\ pending \in Seq(Task)
  /\ pc \in [Task -> Labels]
  /\ op \in [Task -> Ops \cup {"none"}]
  /\ xTicksToWait \in [Task -> 0 .. PORT_MAX_DELAY]
  /\ entered \in [Task -> Unset .. PORT_MAX_DELAY]
  /\ outcome \in [Task -> {"none", "expired", "retry", "blocked"}]
  /\ spins \in BOOLEAN

(* No lost wakeup of a sender: while a task waits for space, the space     *)
(* there is has been promised to tasks woken for it and not yet at the     *)
(* queue.                                                                  *)
Returning(t) == pc[t] \in {"yieldWaiting", "attempt"} /\ entered[t] # Unset

WokenToSend ==
  {t \in Task : op[t] = "send" /\ Returning(t) /\ ~Linked(t) /\ ~Asleep(t)}

SendersServed ==
  ~NobodyIn("send")
    => uxLength - uxMessagesWaiting <= Cardinality(WokenToSend)

(* No lost wakeup of a receiver: a task asleep for a message has none to   *)
(* take but those promised to woken receivers.                             *)
WokenToReceive ==
  {t \in Task : op[t] = "receive" /\ Returning(t) /\ ~Asleep(t)}

ReceiversServed ==
  (\E t \in Task : op[t] = "receive" /\ Returning(t) /\ Asleep(t))
    => uxMessagesWaiting <= Cardinality(WokenToReceive)

(* A task that is about to wait, or to return to its caller, has its event *)
(* item in no wait list: an item left behind would be woken in place of a  *)
(* task that waits, or be linked a second time.                            *)
EventItemFree ==
  \A t \in Task : pc[t] \in {"run", "lock", "check", "place", "placing"}
                    => ~Linked(t)

(* A task in a wait list is off the ready lists.                           *)
WaitersAsleep == \A t \in Task : Linked(t) => Asleep(t)

(* Together, as each blocking call relies on: the types, no event item left *)
(* behind by an earlier wait, and no waiter on a ready list.               *)
IPCInv == IPCTypeOK /\ EventItemFree /\ WaitersAsleep

(* Every wakeup moves both items of a task, from a task or an interrupt:   *)
(* what leaves a wait list is ready or in the pending list, and, until an  *)
(* item is linked twice, what stops sleeping before its time leaves its    *)
(* wait list.  (A list that is tangled can wake a task that is in none.)   *)
WokenWhole ==
  [][\A t \in Task :
       LET delisted == Linked(t) /\ ~Linked(t)'
       IN  /\ delisted => ~Asleep(t)' \/ Pending(t)'
           /\ Tidy /\ Asleep(t) /\ ~Asleep(t)'
                => wake[t] <= xTickCount' \/ delisted
    ]_<<vars, ipc>>

(* The queue is locked only by the running task, with the scheduler        *)
(* suspended: no task and no later interrupt ever finds a lock left over.  *)
LocksReleased ==
  cRxLock # UNLOCKED \/ cTxLock # UNLOCKED
    => /\ uxSchedulerSuspended > 0
       /\ pc[current] \in {"check", "place", "placing", "unlockTx", "unlockRx"}


(* Waits that end by their time tangle the event lists sooner or later.     *)
StaysTidy == Tidy

(* No interrupt spins on the queue for ever.                               *)
NoSpin == ~spins

(* As long as a receiver keeps receiving, the senders never all block for  *)
(* good: one of the blocked sends completes.  (Not each of them: among     *)
(* senders of one priority the last to wait is served first.)              *)
SendsGoOn ==
  (\A t \in Callers["send"] : op[t] = "send")
    ~> (\E t \in Callers["send"] : op[t] # "send")
=============================================================================
