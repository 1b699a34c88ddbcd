SPECIFICATION Spec
CONSTANTS
  Workspaces = {w1, w2}
  NoWorkspace = NoWorkspace
  MissLimit = 2
  MaxDelay = 0
  AutoStart = TRUE
  MaxCommands = 2
  MaxQueue = 2
  MaxFaults = 1
  MaxCuts = 1
  MaxPushes = 1
INVARIANT ReconnectingIsScheduled
CHECK_DEADLOCK FALSE
