SPECIFICATION IPCSpec
CONSTANTS
  t1 = t1
  t2 = t2
  t3 = t3
  idle = idle
  Task = {t1, t2, idle}
  Idle = idle
  Priorities = {0, 1, 2}
  InitPriority <- TwoLevels
  Api = {"vTaskDelay"}
  Delays = {1}
  Increments = {}
  PORT_MAX_DELAY = 15
  OverflowChecks = FALSE
  TickBound = 2
  NestBound = 0
  uxLength = 1
  Callers <- Mixed
  Waits <- AnyTime
  IsrCalls = {"send", "receive"}
  IsrBound = 3
INVARIANTS
  LocksReleased
  
PROPERTY
  WokenWhole
CHECK_DEADLOCK FALSE
