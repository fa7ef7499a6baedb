\* Three commands and three sensor frames with queues of one.
SPECIFICATION FairSpec
CONSTANTS
  Keys = {k1, k2}
  RX_QUEUE_SIZE = 1
  TX_QUEUE_SIZE = 1
  OVERRUN = TRUE
  MAX_COMMANDS = 3
  MAX_SENSORS = 3
INVARIANTS OneOutstanding FramesKept
PROPERTY ReaderServed
CHECK_DEADLOCK FALSE
