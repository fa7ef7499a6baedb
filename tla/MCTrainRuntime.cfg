SPECIFICATION Spec
CONSTANTS
  Nobody = "nobody"
  UI_SERVER_MAX_WAITERS = 8
  Trains = {13}
  StartupTrains = {13}
  MAX_ACTIVE_TRAINS = 1
  Turnouts = {1}
  Partner <- MCPartner
  Speeds = {0, 1}
  TickTasks = {"REPLAN", "DEMO"}
  Commands <- MCCommands
  RV_QUEUE_MAX = 8
  MaxCommands = 2
  MaxCalls = 1
  MaxCouriers = 1
INVARIANTS NoCircularWait OnePositionWriter SwitchesAgree SpeedRestored OverridesOnlyInPrompt
