SPECIFICATION CooperativeSpec
CONSTANTS
  t1 = t1
  t2 = t2
  idle = idle
  Task = {t1, t2, idle}
  Idle = idle
  Priorities = {0, 1}
  InitPriority <- OneLevel
  Api = {"taskYield", "vTaskDelay", "xTaskDelayUntil",
         "vTaskSuspend", "vTaskPrioritySetOwn"}
  Delays = {1, 2}
  Increments = {2}
  PORT_MAX_DELAY = 15
  OverflowChecks = TRUE
  TickBound = 3
  NestBound = 0
PROPERTY
  Served
