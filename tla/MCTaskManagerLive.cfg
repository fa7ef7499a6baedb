\* Progress of the most urgent tasks under the timer's fairness, with two tasks of
\* the top level competing, next to an idle task.
SPECIFICATION FairSpec
CONSTANTS
  MAX_TASKS_COUNT = 3
  PRIORITY_LEVELS = 2
  FIRST_USER_TASK_PRIORITY = 0
  EVENT_COUNT = 1
  TimerEvents <- OneEvent
  UartEvents <- NoEvents
  CanEvents <- NoEvents
  UINT32_MAX = 1
PROPERTIES UrgentTasksRun
