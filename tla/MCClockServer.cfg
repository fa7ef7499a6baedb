\* Five clients, one more than the delay queue holds, and four entries in the queue,
\* so that popping the root compares two children.
SPECIFICATION FairSpec
CONSTANTS
  Clients = {c1, c2, c3, c4, c5}
  MAX_DELAY_TASKS = 4
  Ticks = {1, 2}
  MAX_TICK = 3
INVARIANTS DelayQueue TicksConserved
PROPERTIES DelayHonoured EveryDelayEnds
CHECK_DEADLOCK FALSE
