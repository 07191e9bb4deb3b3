-------------------------------- MODULE Log ---------------------------------
(***************************************************************************)
(* The log module, log-model/log_rv.c: tasks write lines into one static   *)
(* buffer and send it, under a binary semaphore that log_init creates, and *)
(* deletes and creates again when it is called again.                      *)
(*                                                                         *)
(* A line is built from two pieces (the prefix, the message); a writer's   *)
(* piece is its name.  Lines below the log level return at once and are    *)
(* left out.  The semaphores are those of the C kernel the module is       *)
(* linked with: how the module uses them is what is modelled of them.      *)
(***************************************************************************)
CONSTANTS
  Task,        \* the tasks that log
  Semaphores,  \* the semaphores log_init can be given, one per call
  NULL,
  InitLate     \* TRUE: log_init is called while tasks log

ASSUME LogAssumption ==
  /\ NULL \notin Task \cup Semaphores
  /\ InitLate \in BOOLEAN

VARIABLES
  log_mutex,
  fresh,      \* semaphores not created yet
  available,  \* semaphores whose count is one
  init,       \* what log_init still has to do
  started,    \* the scheduler runs
  pc,
  blockedOn,  \* the semaphore a task was told to take
  buffer,     \* the pieces in the static buffer
  line        \* the line sent last: its sender and its pieces

mutex  == <<log_mutex, fresh, available>>
writer == <<pc, blockedOn, buffer, line>>
vars == <<mutex, init, started, writer>>

Init ==
  /\ log_mutex = NULL
  /\ fresh = Semaphores
  /\ available = {}
  /\ init = "idle"
  /\ started = FALSE
  /\ pc = [t \in Task |-> "idle"]
  /\ blockedOn = [t \in Task |-> NULL]
  /\ buffer = <<NULL, NULL>>
  /\ line = <<NULL, NULL, NULL>>
-----------------------------------------------------------------------------
(* log_init.  The demos call it before they start the scheduler; nothing   *)
(* in the module keeps it from being called later.                         *)
LogInit ==
  /\ init = "idle" /\ fresh # {}
  /\ started => InitLate
  /\ init' = IF log_mutex = NULL THEN "create" ELSE "delete"
  /\ UNCHANGED <<mutex, started, writer>>

(* vSemaphoreDelete frees the semaphore while log_mutex still names it;    *)
(* what the freed memory then holds is not defined.                        *)
DeleteMutex ==
  /\ init = "delete"
  /\ available' \in {available, available \ {log_mutex}}
  /\ init' = "create"
  /\ UNCHANGED <<log_mutex, fresh, started, writer>>

(* vSemaphoreCreateBinary: the variable is assigned, then it is given.  If *)
(* there is no memory for it, the variable is NULL and log_init fails.     *)
CreateMutex ==
  /\ init = "create"
  /\ \/ /\ \E s \in fresh : log_mutex' = s /\ fresh' = fresh \ {s}
        /\ init' = "give"
     \/ /\ log_mutex' = NULL
        /\ init' = "idle"
        /\ UNCHANGED fresh
  /\ UNCHANGED <<available, started, writer>>

FirstGive ==
  /\ init = "give"
  /\ available' = available \cup {log_mutex}
  /\ init' = "idle"
  /\ UNCHANGED <<log_mutex, fresh, started, writer>>

(* The demos start it whether log_init has succeeded or not. *)
StartScheduler ==
  /\ ~started /\ init = "idle"
  /\ started' = TRUE
  /\ UNCHANGED <<mutex, init, writer>>
-----------------------------------------------------------------------------
Goto(t, label) == pc' = [pc EXCEPT ![t] = label]

(* log_write_internal: log_mutex is read for the test and the take.        *)
Enter(t) ==
  /\ started /\ pc[t] = "idle"
  /\ blockedOn' = [blockedOn EXCEPT ![t] = log_mutex]
  /\ Goto(t, IF log_mutex = NULL THEN "prefix" ELSE "take")
  /\ UNCHANGED <<mutex, init, started, buffer, line>>

(* Mutant: the semaphore stays available.                                  *)
TakeShared(t) ==
  /\ pc[t] = "take" /\ blockedOn[t] \in available
  /\ Goto(t, "prefix")
  /\ UNCHANGED <<mutex, init, started, blockedOn, buffer, line>>

Take(t) ==
  /\ pc[t] = "take" /\ blockedOn[t] \in available
  /\ available' = available \ {blockedOn[t]}
  /\ Goto(t, "prefix")
  /\ UNCHANGED <<log_mutex, fresh, init, started, blockedOn, buffer, line>>

WritePrefix(t) ==
  /\ pc[t] = "prefix"
  /\ buffer' = <<t, buffer[2]>>
  /\ Goto(t, "message")
  /\ UNCHANGED <<mutex, init, started, blockedOn, line>>

WriteMessage(t) ==
  /\ pc[t] = "message"
  /\ buffer' = <<buffer[1], t>>
  /\ Goto(t, "send")
  /\ UNCHANGED <<mutex, init, started, blockedOn, line>>

SendLine(t) ==
  /\ pc[t] = "send"
  /\ line' = <<t, buffer[1], buffer[2]>>
  /\ Goto(t, "give")
  /\ UNCHANGED <<mutex, init, started, blockedOn, buffer>>

(* Mutant: the semaphore is not given back.                                *)
GiveNothing(t) ==
  /\ pc[t] = "give"
  /\ blockedOn' = [blockedOn EXCEPT ![t] = NULL]
  /\ Goto(t, "idle")
  /\ UNCHANGED <<mutex, init, started, buffer, line>>

(* The give is on the semaphore log_mutex names now.                       *)
Give(t) ==
  /\ pc[t] = "give"
  /\ available' = IF log_mutex # NULL THEN available \cup {log_mutex}
                                      ELSE available
  /\ blockedOn' = [blockedOn EXCEPT ![t] = NULL]
  /\ Goto(t, "idle")
  /\ UNCHANGED <<log_mutex, fresh, init, started, buffer, line>>

Write(t) == WritePrefix(t) \/ WriteMessage(t) \/ SendLine(t) \/ Give(t)

Next ==
  \/ LogInit \/ DeleteMutex \/ CreateMutex \/ FirstGive \/ StartScheduler
  \/ \E t \in Task : Enter(t) \/ Take(t) \/ Write(t)

Spec == Init /\ [][Next]_vars

(* The C kernel slices time between the tasks and wakes the tasks blocked  *)
(* on a semaphore in turn; the demos' tasks wait between two lines.        *)
FairSpec ==
  Spec /\ \A t \in Task : WF_vars(Write(t)) /\ SF_vars(Take(t))
-----------------------------------------------------------------------------
(* What is sent is what its sender wrote, both pieces.                      *)
LineWhole == line[1] # NULL => line[2] = line[1] /\ line[3] = line[1]

(* Lines do not mix, if log_init could create the semaphore.               *)
LinesWhole == log_mutex # NULL => LineWhole

(* Whoever starts to write a line comes back from it.                      *)
WritersReturn == \A t \in Task : pc[t] # "idle" ~> pc[t] = "idle"
=============================================================================
