SPECIFICATION Spec
CONSTANTS
  t1 = t1
  t2 = t2
  idle = idle
  Task = {t1, t2, idle}
  Idle = idle
  Priorities = {0, 1}
  InitPriority <- OneLevel
  Api = {"taskYield", "vTaskDelay", "vTaskSuspendAll",
         "vTaskSuspend", "vTaskResume", "vTaskDelete", "vTaskPrioritySet"}
  Delays = {1, 2}
  Increments = {}
  PORT_MAX_DELAY = 15
  OverflowChecks = TRUE
  TickBound = 3
  NestBound = 1
INVARIANTS
  TasksInv
  OnTime
  SleepersStop
PROPERTY
  NoEarlyWakeButByPriority
