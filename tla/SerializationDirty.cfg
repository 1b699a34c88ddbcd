SPECIFICATION Spec
CONSTANTS
  Workspaces = {w1}
  Panes = {p1}
  AllFiles = AllFiles
  MaxChanges = 3
  MaxFailures = 0
  MaxRestarts = 0
INVARIANT PersistedIsOnDisk
