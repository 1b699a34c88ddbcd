SPECIFICATION Spec
SYMMETRY Symmetry
CONSTANTS
  Clients = {c1, c2}
  Panes = {p1, p2}
  NoPane = NoPane
  NoClient = NoClient
  MaxRevision = 4
PROPERTY EphemeralEndsUnattended
\* The workspace may be terminated, or the bound on the revision reached.
CHECK_DEADLOCK FALSE
