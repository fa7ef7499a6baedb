\* Two commands, no frame lost, queues that never fill, a reader that keeps reading.
SPECIFICATION ReadingSpec
CONSTANTS
  Keys = {k1, k2}
  RX_QUEUE_SIZE = 4
  TX_QUEUE_SIZE = 2
  OVERRUN = FALSE
  MAX_COMMANDS = 2
  MAX_SENSORS = 1
PROPERTY QueuedIsSent
CHECK_DEADLOCK FALSE
