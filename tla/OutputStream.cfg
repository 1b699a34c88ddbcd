SPECIFICATION FairSpec
CONSTANTS
  Clients = {c1, c2}
  Resyncing = {c1}
  PushBound = 1
  RespBound = 1
  WireBound = 1
  MaxOutput = 3
  MaxRequests = 2
  MaxHeals = 1
INVARIANTS
  TypeOK
  CleanStreamIsWhole
  DropsAreAnnounced
PROPERTIES
  OutputSettles
\* The bounds on output and requests may be reached.
CHECK_DEADLOCK FALSE
