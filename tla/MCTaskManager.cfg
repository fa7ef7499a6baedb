\* Message passing, events and scheduling: three descriptors, so that tids are
\* reused, at two levels (users and idle), and two events, which one UART interrupt
\* may signal together; the CAN interrupt signals the second of them.
SPECIFICATION Spec
CONSTANTS
  MAX_TASKS_COUNT = 3
  PRIORITY_LEVELS = 2
  FIRST_USER_TASK_PRIORITY = 0
  EVENT_COUNT = 2
  TimerEvents <- NoEvents
  UartEvents <- TwoEvents
  CanEvents <- LastEvent
  UINT32_MAX = 1
INVARIANTS TypeOK TaskLists ReplyWaits MostUrgentRuns NeverPanics
PROPERTIES SendersReleased RoundRobin
