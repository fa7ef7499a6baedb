SPECIFICATION Spec
CONSTANTS
  a1 = a1 a2 = a2 b = b c = c d = d
  t1 = t1 t2 = t2 t3 = t3
  None = None
  Trains = {t1, t2, t3}
  Sensors <- MCSensors
  Rev <- MCRev
  Way <- MCWay
  Near <- MCNear
  Far <- MCFar
  Plan <- MCPlan
  GAME_ROUNDS = 2
  POS_GAME_EVENT_CAP = 4
  Starts <- MCStarts
  OldEvents <- MCOldEvents
  Entry <- MCEntry
  MayStall = {t3}
  MAX_STOP_ROUND = 1
  MAX_UNREAD = 2
INVARIANTS HitsScored  DoneIsThere
CHECK_DEADLOCK FALSE
