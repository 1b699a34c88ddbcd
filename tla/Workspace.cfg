SPECIFICATION FairSpec
CONSTANTS
  Clients = {c1, c2}
  Panes = {p1, p2}
  NoPane = NoPane
  NoClient = NoClient
  MaxRevision = 4
INVARIANTS
  TypeOK
  SingleWriter
  TreeHoldsPanes
  FocusCoherent
  NoStrayShell
PROPERTIES
  RevisionTracksChanges
  TakeoverDemotes
  LeaseSpec
  ClosedPanesStopReading
  ExitIsRecorded
\* The workspace may be terminated, or the bound on the revision reached.
CHECK_DEADLOCK FALSE
