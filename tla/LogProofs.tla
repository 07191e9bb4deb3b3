----------------------------- MODULE LogProofs ------------------------------
(***************************************************************************)
(* Lines do not mix, for any number of tasks and any number of calls of    *)
(* log_init, when those calls come before the scheduler starts (the demos  *)
(* make theirs there) and the last of them created the semaphore.  The     *)
(* semaphore the writers take is then the one log_mutex names when they    *)
(* give, so at most one of them is in the buffer.  If log_init failed,     *)
(* nothing protects the buffer.                                            *)
(***************************************************************************)
EXTENDS Log, TLAPS

Labels == {"idle", "take", "prefix", "message", "send", "give"}

TypeOK ==
  /\ log_mutex \in Semaphores \cup {NULL}
  /\ fresh \subseteq Semaphores
  /\ available \subseteq Semaphores
  /\ init \in {"idle", "delete", "create", "give"}
  /\ started \in BOOLEAN
  /\ pc \in [Task -> Labels]
  /\ blockedOn \in [Task -> Semaphores \cup {NULL}]
  /\ buffer \in (Task \cup {NULL}) \X (Task \cup {NULL})
  /\ line \in (Task \cup {NULL}) \X (Task \cup {NULL}) \X (Task \cup {NULL})

(* A created semaphore is named while its first give is due.               *)
NamedBeforeGive == init = "give" => log_mutex # NULL

(* No task logs before the scheduler runs; log_init is over by then.       *)
Quiet == ~started => line[1] = NULL /\ \A t \in Task : pc[t] = "idle"
Settled == started => init = "idle"

(* A task between its take and its give.                                   *)
InLine(t) == pc[t] \in {"prefix", "message", "send", "give"}

OneWriter ==
  log_mutex # NULL => \A t, u \in Task : InLine(t) /\ InLine(u) => t = u
Held ==
  log_mutex # NULL => \A t \in Task : InLine(t) => log_mutex \notin available

(* The semaphore a task is about to take is the one it will give.          *)
SameMutex == \A t \in Task : pc[t] = "take" => blockedOn[t] = log_mutex

(* What the buffer holds of the line being written.                        *)
Pieces == log_mutex # NULL => \A t \in Task :
  /\ pc[t] \in {"message", "send"} => buffer[1] = t
  /\ pc[t] = "send" => buffer[2] = t

IInv ==
  /\ TypeOK /\ NamedBeforeGive /\ Quiet /\ Settled
  /\ OneWriter /\ Held /\ SameMutex /\ Pieces
  /\ LinesWhole
-----------------------------------------------------------------------------
LEMMA InitIInv == Init => IInv
<1> SUFFICES ASSUME Init PROVE IInv
  OBVIOUS
<1> QED
  BY LogAssumption DEF Init, IInv, TypeOK, Labels, NamedBeforeGive, Quiet,
     Settled, OneWriter, Held, SameMutex, Pieces, InLine, LinesWhole,
     LineWhole

(* The steps of log_init and the start of the scheduler: no task logs yet. *)
LEMMA SetUpKeepsIInv ==
  ASSUME ~InitLate, IInv,
         LogInit \/ DeleteMutex \/ CreateMutex \/ FirstGive \/ StartScheduler
  PROVE  IInv'
<1> USE LogAssumption
<1>1. ~started /\ \A t \in Task : ~InLine(t) /\ pc[t] = "idle"
  BY DEF IInv, TypeOK, Quiet, Settled, InLine, LogInit, DeleteMutex,
         CreateMutex, FirstGive, StartScheduler
<1>2. UNCHANGED writer
  BY DEF LogInit, DeleteMutex, CreateMutex, FirstGive, StartScheduler
<1>3. pc' = pc /\ blockedOn' = blockedOn /\ buffer' = buffer /\ line' = line
  BY <1>2 DEF writer
<1>4. TypeOK' /\ NamedBeforeGive' /\ Settled'
  <2>1. CASE LogInit
    BY <1>1, <1>3, <2>1 DEF LogInit, IInv, TypeOK, NamedBeforeGive, Settled, mutex
  <2>2. CASE DeleteMutex
    BY <1>1, <1>3, <2>2 DEF DeleteMutex, IInv, TypeOK, NamedBeforeGive, Settled
  <2>3. CASE CreateMutex
    BY <1>1, <1>3, <2>3 DEF CreateMutex, IInv, TypeOK, NamedBeforeGive, Settled
  <2>4. CASE FirstGive
    BY <1>1, <1>3, <2>4 DEF FirstGive, IInv, TypeOK, NamedBeforeGive, Settled
  <2>5. CASE StartScheduler
    BY <1>1, <1>3, <2>5
       DEF StartScheduler, IInv, TypeOK, NamedBeforeGive, Settled, mutex
  <2> QED
    BY <2>1, <2>2, <2>3, <2>4, <2>5
<1>5. Quiet' /\ OneWriter' /\ Held' /\ SameMutex' /\ Pieces' /\ LinesWhole'
  BY <1>1, <1>3 DEF IInv, Quiet, OneWriter, Held, SameMutex, Pieces, InLine,
                    LinesWhole, LineWhole
<1> QED
  BY <1>4, <1>5 DEF IInv

(* A step of a task that logs.                                             *)
LEMMA WriterKeepsIInv ==
  ASSUME ~InitLate, IInv, NEW t \in Task, Enter(t) \/ Take(t) \/ Write(t)
  PROVE  IInv'
<1> USE LogAssumption DEF Goto
<1> USE DEF IInv, InLine
<1>1. started /\ init = "idle"
  BY DEF Quiet, Settled, Enter, Take, Write, WritePrefix, WriteMessage,
         SendLine, Give
<1>2. log_mutex' = log_mutex /\ init' = init /\ started' = started
  BY DEF Enter, Take, Write, WritePrefix, WriteMessage, SendLine, Give, mutex
<1>3. TypeOK'
  <2>1. CASE SendLine(t)
    <3>1. PICK a, b \in Task \cup {NULL} : buffer = <<a, b>>
      BY DEF TypeOK
    <3>2. line' = <<t, a, b>>
      BY <2>1, <3>1 DEF SendLine
    <3> QED
      BY <1>1, <1>2, <2>1, <3>2 DEF SendLine, TypeOK, Labels, mutex
  <2>2. CASE Enter(t) \/ Take(t) \/ Give(t)
    BY <1>1, <1>2, <2>2 DEF TypeOK, Labels, Enter, Take, Give, mutex
  <2>3. CASE WritePrefix(t) \/ WriteMessage(t)
    BY <1>1, <1>2, <2>3 DEF TypeOK, Labels, WritePrefix, WriteMessage, mutex
  <2> QED
    BY <2>1, <2>2, <2>3 DEF Write
<1>4. NamedBeforeGive' /\ Quiet' /\ Settled'
  BY <1>1, <1>2 DEF NamedBeforeGive, Quiet, Settled
<1>5. OneWriter' /\ Held' /\ SameMutex'
  <2>1. CASE Enter(t)
    BY <1>1, <1>2, <2>1 DEF Enter, mutex, TypeOK, Labels, OneWriter, Held, SameMutex
  <2>2. CASE Take(t)
    BY <1>1, <1>2, <2>2 DEF Take, TypeOK, Labels, OneWriter, Held, SameMutex
  <2>3. CASE WritePrefix(t) \/ WriteMessage(t) \/ SendLine(t)
    BY <1>1, <1>2, <2>3 DEF WritePrefix, WriteMessage, SendLine, mutex, TypeOK,
       Labels, OneWriter, Held, SameMutex
  <2>4. CASE Give(t)
    BY <1>1, <1>2, <2>4 DEF Give, TypeOK, Labels, OneWriter, Held, SameMutex
  <2> QED
    BY <2>1, <2>2, <2>3, <2>4 DEF Write
<1>6. Pieces'
  <2>1. CASE Enter(t) \/ Take(t) \/ SendLine(t) \/ Give(t)
    BY <1>2, <2>1 DEF Enter, Take, SendLine, Give, TypeOK, Labels, Pieces
  <2>2. CASE WritePrefix(t)
    BY <1>2, <2>2 DEF WritePrefix, TypeOK, Labels, Pieces, OneWriter
  <2>3. CASE WriteMessage(t)
    BY <1>2, <2>3 DEF WriteMessage, TypeOK, Labels, Pieces, OneWriter
  <2> QED
    BY <2>1, <2>2, <2>3 DEF Write
<1>7. LinesWhole'
  <2>1. CASE SendLine(t)
    <3> SUFFICES ASSUME log_mutex # NULL PROVE LinesWhole'
      BY <1>2 DEF LinesWhole
    <3>0. log_mutex # NULL
      OBVIOUS
    <3>1. buffer = <<t, t>>
      <4>1. buffer[1] = t /\ buffer[2] = t
        BY <1>2, <2>1, <3>0 DEF SendLine, Pieces
      <4> QED
        BY <4>1 DEF TypeOK
    <3>2. line' = <<t, t, t>>
      BY <2>1, <3>1 DEF SendLine
    <3> QED
      BY <3>2 DEF LinesWhole, LineWhole
  <2>2. CASE ~SendLine(t)
    BY <1>2, <2>2 DEF Enter, Take, Write, WritePrefix, WriteMessage, Give, LinesWhole,
       LineWhole, mutex
  <2> QED
    BY <2>1, <2>2
<1> QED
  BY <1>3, <1>4, <1>5, <1>6, <1>7

LEMMA StepKeepsIInv == ASSUME ~InitLate PROVE IInv /\ [Next]_vars => IInv'
<1> SUFFICES ASSUME IInv, [Next]_vars PROVE IInv'
  OBVIOUS
<1>1. CASE UNCHANGED vars
  BY <1>1 DEF vars, mutex, writer, IInv, TypeOK, NamedBeforeGive, Quiet,
     Settled, OneWriter, Held, SameMutex, Pieces, InLine, LinesWhole,
     LineWhole
<1>2. CASE Next
  BY <1>2, SetUpKeepsIInv, WriterKeepsIInv DEF Next
<1> QED
  BY <1>1, <1>2

(* What is sent is what its sender wrote (log_write_internal, between its  *)
(* take of log_mutex and its give): if log_init is not called while tasks  *)
(* log, and created the semaphore, no other task's piece is ever in a line.*)
THEOREM LinesNeverMix == ASSUME ~InitLate PROVE Spec => []LinesWhole
<1>1. IInv => LinesWhole
  BY DEF IInv
<1> QED
  BY <1>1, InitIInv, StepKeepsIInv, PTL DEF Spec

(* If there is a semaphore, at most one task is between its take and its   *)
(* give, and the semaphore log_mutex names is then taken.                  *)
THEOREM OneWriterAtATime ==
  ASSUME ~InitLate PROVE Spec => [](OneWriter /\ Held)
<1>1. IInv => OneWriter /\ Held
  BY DEF IInv
<1> QED
  BY <1>1, InitIInv, StepKeepsIInv, PTL DEF Spec
=============================================================================
