SPECIFICATION IPCSpec
CONSTANTS
  t1 = t1
  t2 = t2
  t3 = t3
  idle = idle
  Task = {t1, t2, idle}
  Idle = idle
  Priorities = {0, 1, 2}
  InitPriority <- TwoLevels
  Api = {}
  Delays = {}
  Increments = {}
  PORT_MAX_DELAY = 15
  OverflowChecks = FALSE
  TickBound = 2
  NestBound = 0
  uxLength = 1
  Callers <- Reversed
  Waits <- AnyForever
  IsrCalls = {}
  IsrBound = 0
INVARIANT ReceiversServed
CHECK_DEADLOCK FALSE
