SPECIFICATION BusySpec
CONSTANTS
  t1 = t1
  t2 = t2
  t3 = t3
  idle = idle
  Task = {t1, t2, t3, idle}
  Idle = idle
  Priorities = {0, 1}
  InitPriority <- OneLevel
  Api = {"taskYield"}
  Delays = {}
  Increments = {}
  PORT_MAX_DELAY = 15
  OverflowChecks = FALSE
  TickBound = 1
  NestBound = 0
  uxLength = 2
  Callers <- Roles
  Waits <- SendForever
  IsrCalls = {}
  IsrBound = 0
INVARIANTS
  SendersServed
  IPCInv
PROPERTY
  SendsGoOn
