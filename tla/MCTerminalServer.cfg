\* Two writers that compete for a one-character buffer and one waiter slot, a reader.
SPECIFICATION FairSpec
CONSTANTS
  Writers = {w1, w2}
  Readers = {r1}
  TX_BUF_SIZE = 1
  RING_BUFFER_SIZE = 1
  MAX_PUTC_WAITERS = 1
  MAX_GETC_WAITERS = 1
  FIFO_SIZE = 1
  TX_LEVEL = 0
  TERM_MAX_STR_LEN = 2
  MAX_OUTPUT = 2
  MAX_INPUT = 2
INVARIANTS OutputInOrder NotifierNotStranded InputInOrder
PROPERTIES EveryPutsShown InputRead
CHECK_DEADLOCK FALSE
