CONSTANTS
  MaxWorkspaces = 2
  MaxRuntimes = 2
  MaxTerminals = 6
  MaxActors = 2
  MaxSpent = 3
  MaxOutput = 1
SPECIFICATION Spec
INVARIANTS
  TypeOK
  WidgetsFollowLayout
  LayoutIsDaemons
  OutputIsShown
  ConnectedIsTracked
  OnlyForgottenReturn
CHECK_DEADLOCK FALSE
