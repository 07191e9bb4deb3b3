SPECIFICATION GroupSpec
CONSTANTS
  t1 = t1
  t2 = t2
  idle = idle
  Task = {t1, t2, idle}
  Idle = idle
  Priorities = {0, 1}
  InitPriority <- OneLevel
  Api = {"taskYield", "vTaskDelay"}
  Delays = {1}
  Increments = {}
  PORT_MAX_DELAY = 15
  OverflowChecks = FALSE
  TickBound = 1
  NestBound = 0
  Bits = {0, 1}
  IN_USE = 15
  ResetBits <- LowBits
  WaitBits = {{0}, {0, 1}}
  WaitForAll = {FALSE, TRUE}
  GroupCalls = {"xEventGroupSetBits", "xEventGroupClearBits",
                "vEventGroupDelete"}
  GroupWaits = {0, 1}
INVARIANT
  WaitersSleep
PROPERTIES
  SetWakes
  Consumed
CHECK_DEADLOCK FALSE
