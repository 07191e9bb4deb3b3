------------------------------- MODULE Tasks --------------------------------
(***************************************************************************)
(* The scheduler: tasks/scheduler.rs, the task control calls of            *)
(* tasks/control.rs, and the context switch of portable/portable.rs.       *)
(*                                                                         *)
(* The kernel runs on one core.  A critical section is one action; what a  *)
(* call does outside of it is another, and the tick interrupt can come     *)
(* between the two.  The lists are the rings of module Rings, which XList  *)
(* implements; a task's state item is in the list its container names.     *)
(*                                                                         *)
(* A task handle given to the application is a CLONE of the control block  *)
(* (prvInitialiseNewTask): it shares the list items of the real block but  *)
(* has a uxPriority of its own, and is never equal to the current block.   *)
(***************************************************************************)
EXTENDS Rings, FiniteSets

CONSTANTS
  Task,            \* the tasks, all created, Idle among them
  Idle,            \* the idle task: never blocks and has no handle
  Priorities,      \* READY_TASK_LISTS is indexed by these
  InitPriority,    \* the priority each task is created with
  Api,             \* names of the kernel calls the application makes
  Delays,          \* what it passes to vTaskDelay
  Increments,      \* what it passes to xTaskDelayUntil
  PORT_MAX_DELAY,  \* the largest tick value
  OverflowChecks,  \* TRUE in the debug build: arithmetic overflow panics
  TickBound,       \* bound on the tick interrupts
  NestBound        \* bound on the nesting of vTaskSuspendAll

ASSUME TasksAssumption ==
  /\ IsFiniteSet(Task) /\ Idle \in Task
  /\ Priorities \subseteq Nat /\ IsFiniteSet(Priorities) /\ 0 \in Priorities
  /\ InitPriority \in [Task -> Priorities] /\ InitPriority[Idle] = 0
  /\ PORT_MAX_DELAY \in Nat
  /\ TickBound \in Nat /\ TickBound < PORT_MAX_DELAY
  /\ Delays \cup Increments \subseteq 0 .. PORT_MAX_DELAY
  /\ OverflowChecks \in BOOLEAN
  /\ NestBound \in Nat

VARIABLES
  ring,                   \* the lists
  wake,                   \* value of every task's state item
  uxPriority,             \* in the control blocks
  handlePriority,         \* in the clones the application holds
  current,                \* owner of pxCurrentTCB_
  pc,                     \* what a task still has to do in its call
  lastWake,               \* every task's own pxPreviousWakeTime
  xTickCount,
  xNextTaskUnblockTime,
  uxSchedulerSuspended,
  xPendedTicks,
  xYieldPending,
  panicked,               \* the panic handler has stopped the system
  elapsed                 \* history: the tick interrupts taken

lists   == <<ring, wake>>
tasks   == <<uxPriority, handlePriority>>
clock   == <<xTickCount, xNextTaskUnblockTime, xPendedTicks, elapsed>>
dispatch == <<current, xYieldPending>>
vars == <<lists, tasks, current, pc, lastWake, clock, uxSchedulerSuspended,
          xYieldPending, panicked>>

(* Names of the lists, which are also their end markers. *)
Ready(p)  == <<"ready", p>>
Delayed   == <<"delayed", 0>>
Overflow  == <<"overflow", 0>>
Suspended == <<"suspended", 0>>
ListNames == {Ready(p) : p \in Priorities} \cup {Delayed, Overflow, Suspended}

ASSUME NamesAssumption == Task \cap ListNames = {}

In(rings, l, t) == Contains(rings[l], t)
Items(l) == Entries(ring[l], l)

(* uxListRemove of a state item, vListInsertEnd, vListInsert: the largest  *)
(* value goes before the last item (see MaxGoesLast in XList).             *)
Unlink(rings, t) == [l \in ListNames |-> Without(rings[l], t)]

InsertEnd(rings, l, t) == [rings EXCEPT ![l] = EnterLast(@, t)]

Insert(rings, l, t, values) ==
  LET order == InOrder(rings[l], l)
      value == [n \in Task \cup {l} |-> IF n = l THEN PORT_MAX_DELAY
                                                 ELSE values[n]]
      next  == IF values[t] # PORT_MAX_DELAY
               THEN FirstAtLeast(rings[l], l, value, values[t])
               ELSE IF Len(order) = 1 THEN l ELSE order[Len(order) - 1]
  IN  [rings EXCEPT ![l] = EnterBefore(@, next, t)]

Created(p) == {t \in Task : InitPriority[t] = p}

(* The tasks of a priority are in its ready list in the order of their     *)
(* creation.                                                               *)
InitRings ==
  \E order \in [Priorities -> UNION {SetToSeqs(Created(p)) : p \in Priorities}] :
    /\ \A p \in Priorities : order[p] \in SetToSeqs(Created(p))
    /\ ring = [l \in ListNames |-> IF l[1] = "ready" THEN Append(order[l[2]], l)
                                                     ELSE EmptyRing(l)]

Init ==
  /\ InitRings
  /\ wake = [t \in Task |-> 0]
  /\ uxPriority = InitPriority
  /\ handlePriority = InitPriority
  /\ current = Idle                   \* vTaskStartScheduler
  /\ pc = [t \in Task |-> "run"]
  /\ lastWake = [t \in Task |-> 0]
  /\ xTickCount = 0
  /\ xNextTaskUnblockTime = PORT_MAX_DELAY
  /\ uxSchedulerSuspended = 0
  /\ xPendedTicks = 0
  /\ xYieldPending = FALSE
  /\ panicked = FALSE
  /\ elapsed = 0
-----------------------------------------------------------------------------
(* The context switch.                                                     *)

(* taskSELECT_HIGHEST_PRIORITY falls back on priority 0. *)
HighestReady(rings) ==
  CHOOSE p \in Priorities :
    /\ \A q \in Priorities : q > p => IsEmpty(rings[Ready(q)])
    /\ p = 0 \/ ~IsEmpty(rings[Ready(p)])

(* Mutant: the index of the ready list does not move.                      *)
SwitchToHead(rings, suspended) ==
  LET l == Ready(HighestReady(rings))
  IN  IF suspended = 0
      THEN /\ ring' = rings
           /\ current' = Head(InOrder(rings[l], l))
           /\ xYieldPending' = FALSE
      ELSE ring' = rings /\ xYieldPending' = TRUE /\ UNCHANGED current

(* vTaskSwitchContext, after a call has left the lists as rings. *)
SwitchContext(rings, suspended) ==
  IF suspended = 0
  THEN LET l == Ready(HighestReady(rings))
           served == Rotate(rings[l], l)
       IN  /\ ring' = [rings EXCEPT ![l] = served]
           /\ current' = Last(served)
           /\ xYieldPending' = FALSE
  ELSE /\ ring' = rings
       /\ xYieldPending' = TRUE
       /\ UNCHANGED current

NoSwitch(rings) ==
  /\ ring' = rings
  /\ UNCHANGED dispatch

(* Task t is the one that executes, and is between two kernel calls. *)
Executes(t) == current = t /\ ~panicked
Calls(t, call) == Executes(t) /\ pc[t] = "run" /\ call \in Api

(* The ecall of portYIELD at the end of a call. *)
Yield(t) ==
  /\ Executes(t) /\ pc[t] = "yield"
  /\ SwitchContext(ring, uxSchedulerSuspended)
  /\ pc' = [pc EXCEPT ![t] = "run"]
  /\ UNCHANGED <<wake, tasks, lastWake, clock, uxSchedulerSuspended, panicked>>

TaskYield(t) ==
  /\ Calls(t, "taskYield")
  /\ SwitchContext(ring, uxSchedulerSuspended)
  /\ UNCHANGED <<wake, tasks, pc, lastWake, clock, uxSchedulerSuspended,
                 panicked>>
-----------------------------------------------------------------------------
(* Time.                                                                   *)

Panic ==
  /\ panicked' = TRUE
  /\ UNCHANGED <<lists, tasks, dispatch, pc, lastWake, clock,
                 uxSchedulerSuspended>>

(* prvAddCurrentTaskToDelayedList; the sum wraps in the release build. *)
AddCurrentToDelayed(ticks) ==
  LET time   == (ticks + xTickCount) % (PORT_MAX_DELAY + 1)
      values == [wake EXCEPT ![current] = time]
      rings  == Unlink(ring, current)
  IN  /\ wake' = values
      /\ IF time > xTickCount
         THEN /\ ring' = Insert(rings, Delayed, current, values)
              /\ xNextTaskUnblockTime' = IF time < xNextTaskUnblockTime
                                         THEN time ELSE xNextTaskUnblockTime
         ELSE /\ ring' = Insert(rings, Overflow, current, values)
              /\ UNCHANGED xNextTaskUnblockTime

Overflows(sum) == OverflowChecks /\ sum > PORT_MAX_DELAY

(* Calls that block are not made while the scheduler is suspended, nor by  *)
(* the idle task.                                                          *)
MayBlock(t) == t # Idle /\ uxSchedulerSuspended = 0

(* Mutant: the delay does not yield.                                       *)
DelayGoesOn(t, ticks) ==
  /\ Calls(t, "vTaskDelay") /\ MayBlock(t)
  /\ AddCurrentToDelayed(ticks)
  /\ UNCHANGED <<tasks, dispatch, pc, lastWake, xTickCount, xPendedTicks,
                 elapsed, uxSchedulerSuspended, panicked>>

VTaskDelay(t, ticks) ==
  /\ Calls(t, "vTaskDelay") /\ MayBlock(t)
  /\ IF Overflows(ticks + xTickCount)
     THEN Panic
     ELSE /\ AddCurrentToDelayed(ticks)
          /\ pc' = [pc EXCEPT ![t] = "yield"]
          /\ UNCHANGED <<tasks, dispatch, lastWake, xTickCount, xPendedTicks,
                         elapsed, uxSchedulerSuspended, panicked>>

(* The part of xTaskDelayUntil that runs with the scheduler suspended.     *)
XTaskDelayUntil(t, increment) ==
  LET time   == lastWake[t] + increment
      wraps  == time > PORT_MAX_DELAY
      shouldDelay == IF xTickCount < lastWake[t]
                     THEN wraps /\ time % (PORT_MAX_DELAY + 1) > xTickCount
                     ELSE wraps \/ time > xTickCount
      newWake == time % (PORT_MAX_DELAY + 1)
  IN  /\ Calls(t, "xTaskDelayUntil") /\ MayBlock(t)
      /\ IF Overflows(time)
         THEN Panic
         ELSE /\ uxSchedulerSuspended' = uxSchedulerSuspended + 1
              /\ lastWake' = [lastWake EXCEPT ![t] = newWake]
              /\ IF shouldDelay
                 THEN AddCurrentToDelayed((newWake - xTickCount)
                                            % (PORT_MAX_DELAY + 1))
                 ELSE UNCHANGED <<lists, xNextTaskUnblockTime>>
              /\ pc' = [pc EXCEPT ![t] = "resumeAll"]
              /\ UNCHANGED <<tasks, dispatch, xTickCount, xPendedTicks, elapsed,
                             panicked>>

(* Mutants: a task is due one tick early; the next unblock time is that of *)
(* an empty list.                                                          *)
DueEarly(tick) ==
  LET sleepers == Items(Delayed)
  IN  CHOOSE n \in 0 .. Len(sleepers) :
        /\ \A k \in 1 .. n : wake[sleepers[k]] <= tick + 1
        /\ n < Len(sleepers) => wake[sleepers[n + 1]] > tick + 1

UnblockNever(n) == PORT_MAX_DELAY

(* The tasks of a sequence, one after the other, go to the ready lists of  *)
(* their control blocks.                                                   *)
ToReady(rings, t) == InsertEnd(Unlink(rings, t), Ready(uxPriority[t]), t)

AllToReady(rings, woken) ==
  LET after[k \in 0 .. Len(woken)] ==
        IF k = 0 THEN rings ELSE ToReady(after[k - 1], woken[k])
  IN  after[Len(woken)]

(* xTaskIncrementTick: the tasks at the head of the delayed list that are  *)
(* due go to the ready lists of their control blocks.                      *)
DueCount(tick) ==
  LET sleepers == Items(Delayed)
  IN  CHOOSE n \in 0 .. Len(sleepers) :
        /\ \A k \in 1 .. n : wake[sleepers[k]] <= tick
        /\ n < Len(sleepers) => wake[sleepers[n + 1]] > tick

WakeDue(n) == AllToReady(ring, SubSeq(Items(Delayed), 1, n))

UnblockTimeAfter(n) ==
  IF n = Len(Items(Delayed)) THEN PORT_MAX_DELAY
                             ELSE wake[Items(Delayed)[n + 1]]

(* The timer trap.  The port switches context when xTaskIncrementTick      *)
(* returns nonzero, but the function returns nothing: what is left in the  *)
(* register decides.                                                       *)
TrapEnd(rings) ==
  \/ SwitchContext(rings, uxSchedulerSuspended)
  \/ NoSwitch(rings)

Tick ==
  /\ ~panicked /\ elapsed < TickBound
  /\ elapsed' = elapsed + 1
  /\ LET tick == xTickCount + 1
         n    == IF tick >= xNextTaskUnblockTime THEN DueCount(tick) ELSE 0
     IN  IF uxSchedulerSuspended = 0
         THEN /\ xTickCount' = tick
              /\ xNextTaskUnblockTime' = IF tick >= xNextTaskUnblockTime
                                         THEN UnblockTimeAfter(n)
                                         ELSE xNextTaskUnblockTime
              /\ TrapEnd(WakeDue(n))
              /\ UNCHANGED xPendedTicks
         ELSE /\ xPendedTicks' = xPendedTicks + 1
              /\ TrapEnd(ring)
              /\ UNCHANGED <<xTickCount, xNextTaskUnblockTime>>
  /\ UNCHANGED <<wake, tasks, pc, lastWake, uxSchedulerSuspended, panicked>>
-----------------------------------------------------------------------------
(* Suspending the scheduler.                                               *)

VTaskSuspendAll(t) ==
  /\ Calls(t, "vTaskSuspendAll")
  /\ uxSchedulerSuspended < NestBound
  /\ uxSchedulerSuspended' = uxSchedulerSuspended + 1
  /\ UNCHANGED <<lists, tasks, dispatch, pc, lastWake, clock, panicked>>

(* Mutant: the nesting is not tested.                                      *)
ResumeUnguarded(t) ==
  /\ Calls(t, "vTaskSuspendAll")
  /\ uxSchedulerSuspended' = uxSchedulerSuspended - 1
  /\ UNCHANGED <<lists, tasks, dispatch, pc, lastWake, clock, panicked>>

(* What vTaskResumeAll would do to the pending ready list, the pended      *)
(* ticks and a pending yield is guarded by uxCurrentNumberOfTasks > 0,     *)
(* which no code ever increments: the call only lowers the nesting and     *)
(* returns FALSE.                                                          *)
VTaskResumeAll(t) ==
  /\ Calls(t, "vTaskSuspendAll")
  /\ uxSchedulerSuspended > 0
  /\ uxSchedulerSuspended' = uxSchedulerSuspended - 1
  /\ UNCHANGED <<lists, tasks, dispatch, pc, lastWake, clock, panicked>>

(* The end of xTaskDelayUntil: vTaskResumeAll, which returned FALSE, then  *)
(* the yield.                                                              *)
DelayUntilResume(t) ==
  /\ Executes(t) /\ pc[t] = "resumeAll"
  /\ uxSchedulerSuspended' = uxSchedulerSuspended - 1
  /\ pc' = [pc EXCEPT ![t] = "yield"]
  /\ UNCHANGED <<lists, tasks, dispatch, lastWake, clock, panicked>>
-----------------------------------------------------------------------------
(* Calls on a task handle.  The handle of a deleted task is not used.      *)
Alive(u) == u # Idle /\ \E l \in ListNames : In(ring, l, u)

(* xSchedulerRunning stays FALSE (the kernel sets XSCHEDULERRUNNING), so   *)
(* vTaskSuspend neither resets xNextTaskUnblockTime nor yields, not even   *)
(* when a task suspends itself.                                            *)
VTaskSuspend(t, u) ==
  /\ Calls(t, "vTaskSuspend") /\ Alive(u)
  /\ ring' = InsertEnd(Unlink(ring, u), Suspended, u)
  /\ UNCHANGED <<wake, tasks, dispatch, pc, lastWake, clock,
                 uxSchedulerSuspended, panicked>>

(* Mutant: the item is linked into the ready list without leaving the      *)
(* suspended list.                                                         *)
ResumeKeepsSuspended(t, u) ==
  /\ Calls(t, "vTaskResume") /\ Alive(u)
  /\ In(ring, Suspended, u)
  /\ LET rings == InsertEnd(ring, Ready(handlePriority[u]), u)
     IN  IF handlePriority[u] >= uxPriority[t]
         THEN SwitchContext(rings, uxSchedulerSuspended)
         ELSE NoSwitch(rings)
  /\ UNCHANGED <<wake, tasks, pc, lastWake, clock, uxSchedulerSuspended,
                 panicked>>

(* The handle's priority chooses the ready list and is compared with the   *)
(* running task's; the yield is inside the critical section.               *)
VTaskResume(t, u) ==
  /\ Calls(t, "vTaskResume") /\ Alive(u)
  /\ In(ring, Suspended, u)
  /\ LET rings == InsertEnd(Unlink(ring, u), Ready(handlePriority[u]), u)
     IN  IF handlePriority[u] >= uxPriority[t]
         THEN SwitchContext(rings, uxSchedulerSuspended)
         ELSE NoSwitch(rings)
  /\ UNCHANGED <<wake, tasks, pc, lastWake, clock, uxSchedulerSuspended,
                 panicked>>

(* vTaskPrioritySet through a handle changes the clone's priority; of the  *)
(* running task, its control block's.  Either way the state item goes to   *)
(* the ready list, wherever it was.                                        *)
VTaskPrioritySet(t, u, p) ==
  /\ Calls(t, "vTaskPrioritySet") /\ Alive(u)
  /\ ring' = InsertEnd(Unlink(ring, u), Ready(p), u)
  /\ handlePriority' = [handlePriority EXCEPT ![u] = p]
  /\ UNCHANGED <<wake, uxPriority, dispatch, pc, lastWake, clock,
                 uxSchedulerSuspended, panicked>>

VTaskPrioritySetOwn(t, p) ==
  /\ Calls(t, "vTaskPrioritySetOwn") /\ t # Idle
  /\ ring' = InsertEnd(Unlink(ring, t), Ready(p), t)
  /\ uxPriority' = [uxPriority EXCEPT ![t] = p]
  /\ UNCHANGED <<wake, handlePriority, dispatch, pc, lastWake, clock,
                 uxSchedulerSuspended, panicked>>

(* A handle is never equal to the current block: deleting through a handle *)
(* does not yield.                                                         *)
VTaskDelete(t, u) ==
  /\ Calls(t, "vTaskDelete") /\ Alive(u)
  /\ ring' = Unlink(ring, u)
  /\ UNCHANGED <<wake, tasks, dispatch, pc, lastWake, clock,
                 uxSchedulerSuspended, panicked>>

VTaskDeleteOwn(t) ==
  /\ Calls(t, "vTaskDelete") /\ Alive(t) /\ MayBlock(t)
  /\ ring' = Unlink(ring, t)
  /\ pc' = [pc EXCEPT ![t] = "yield"]
  /\ UNCHANGED <<wake, tasks, dispatch, lastWake, clock, uxSchedulerSuspended,
                 panicked>>
-----------------------------------------------------------------------------
Next ==
  \/ Tick
  \/ \E t \in Task :
       \/ Yield(t) \/ TaskYield(t)
       \/ \E n \in Delays : VTaskDelay(t, n)
       \/ \E n \in Increments : XTaskDelayUntil(t, n)
       \/ DelayUntilResume(t)
       \/ VTaskSuspendAll(t) \/ VTaskResumeAll(t)
       \/ \E u \in Task : \/ VTaskSuspend(t, u) \/ VTaskResume(t, u)
                          \/ VTaskDelete(t, u)
                          \/ \E p \in Priorities : VTaskPrioritySet(t, u, p)
       \/ \E p \in Priorities : VTaskPrioritySetOwn(t, p)
       \/ VTaskDeleteOwn(t)

Spec == Init /\ [][Next]_vars

(* Every task comes to its next yield.                                     *)
CooperativeSpec ==
  Spec /\ \A t \in Task : WF_vars(Yield(t)) /\ WF_vars(TaskYield(t))
                          /\ WF_vars(DelayUntilResume(t))
-----------------------------------------------------------------------------
TypeOK ==
  /\ \A l \in ListNames : ring[l] \in Seq(Task \cup {l}) /\ Contains(ring[l], l)
  /\ wake \in [Task -> 0 .. PORT_MAX_DELAY]
  /\ uxPriority \in [Task -> Priorities]
  /\ handlePriority \in [Task -> Priorities]
  /\ current \in Task
  /\ pc \in [Task -> {"run", "yield", "resumeAll"}]
  /\ lastWake \in [Task -> 0 .. PORT_MAX_DELAY]
  /\ xTickCount \in 0 .. TickBound
  /\ xNextTaskUnblockTime \in 0 .. PORT_MAX_DELAY
  /\ uxSchedulerSuspended \in 0 .. NestBound + 1
  /\ xPendedTicks \in 0 .. TickBound
  /\ xYieldPending \in BOOLEAN
  /\ panicked \in BOOLEAN
  /\ elapsed \in 0 .. TickBound

(* Every state item is in at most one list, once: no order of delays,      *)
(* wakeups, suspensions, resumptions, deletions and priority changes       *)
(* leaves a task linked twice, where one removal would not find both.      *)
OneList ==
  \A t \in Task :
    /\ \A l \in ListNames : \A i, j \in DOMAIN ring[l] :
         ring[l][i] = t /\ ring[l][j] = t => i = j
    /\ \A l, m \in ListNames : In(ring, l, t) /\ In(ring, m, t) => l = m

Asleep(t) == In(ring, Delayed, t) \/ In(ring, Overflow, t)

(* No task oversleeps: what is still in the delayed list is not due, and   *)
(* what is in the overflow list waits for a time after the count wraps.    *)
(* It takes the order of the list, the head test of the tick and the       *)
(* cached xNextTaskUnblockTime, which suspending or deleting a sleeper     *)
(* leaves stale, to agree.                                                 *)
OnTime ==
  \A t \in Task : /\ In(ring, Delayed, t)  => wake[t] > xTickCount
                  /\ In(ring, Overflow, t) => wake[t] < xTickCount

(* The cached time is never later than the first wakeup.                   *)
UnblockBound ==
  \A t \in Task : In(ring, Delayed, t) => xNextTaskUnblockTime <= wake[t]

(* Together: the types, one list per task, and a cached time that is never *)
(* late, which the tick's order of work rests on.                          *)
TasksInv == TypeOK /\ OneList /\ UnblockBound

(* No task is woken early: from the delayed list to a ready list only when *)
(* it is due.  A change of its priority is the one exception (see          *)
(* NoEarlyWake).                                                           *)
WokenWhenDue(t) ==
  \A p \in Priorities :
    Asleep(t) /\ Contains(ring'[Ready(p)], t) => wake[t] <= xTickCount'

NoEarlyWakeButByPriority ==
  [][\A t \in Task :
       \/ WokenWhenDue(t)
       \/ \E p \in Priorities : VTaskPrioritySet(current, t, p)]_vars

(* A delay lasts for the time it was asked for: nothing wakes the task     *)
(* early.                                                                  *)
NoEarlyWake == [][\A t \in Task : WokenWhenDue(t)]_vars

(* A task that delays itself makes no call before it is woken: the yield   *)
(* at the end of the delay is never lost to a tick or a suspended          *)
(* scheduler.                                                              *)
SleepersStop == pc[current] = "run" => ~Asleep(current)

(* A ready task is not starved by the others of its priority: it runs      *)
(* again and again for as long as it is ready and no higher priority is.   *)
TopReady(t) ==
  \E p \in Priorities :
    /\ In(ring, Ready(p), t)
    /\ \A q \in Priorities : q > p => IsEmpty(ring[Ready(q)])

Served == \A t \in Task : []<>(current = t \/ ~TopReady(t))

(* The delays are in tick interrupts: once the scheduler runs again, every *)
(* tick that came has been counted.                                        *)
TicksCounted == uxSchedulerSuspended = 0 => xTickCount = elapsed

(* The priority set through a handle is the one the task is scheduled at.  *)
PrioritySetHolds ==
  \A t \in Task, p \in Priorities :
    In(ring, Ready(p), t) => p = handlePriority[t]

=============================================================================
