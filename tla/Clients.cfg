SPECIFICATION Spec
CONSTANTS
  c1 = c1
  c2 = c2
  c3 = c3
  w1 = w1
  w2 = w2
  Connections = {c1, c2, c3}
  Workspaces = {w1}
  Sizes <- ReportedSizes
  InitialSize <- Spawned
  NoSize = NoSize
  NoWorkspace = NoWorkspace
  MaxClients = 2
SYMMETRY Symmetry
INVARIANTS
  TypeOK
  LeavesNoTrace
  SizesAgree
  SizeIsMinimum
CHECK_DEADLOCK FALSE
