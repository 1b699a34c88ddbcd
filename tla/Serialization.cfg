SPECIFICATION Spec
SYMMETRY Symmetry
CONSTANTS
  Workspaces = {w1, w2}
  Panes = {p1}
  AllFiles = AllFiles
  MaxChanges = 3
  MaxFailures = 1
  MaxRestarts = 1
INVARIANTS
  TypeOK
  CleanIsRecoverable
  ShutdownSaves
  IndexCacheIsTrue
PROPERTIES
  SavesNeverGoBack
