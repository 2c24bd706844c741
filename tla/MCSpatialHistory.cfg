SPECIFICATION Spec
SYMMETRY Symmetry
CONSTANTS
  launch = launch
  request = request
  left = left
  right = right
  Windows <- MCWindows
  Spots <- MCSpots
  Aside = Aside
  Groups <- MCGroups
  Requests <- MCRequests
  None = None
  Limit = 2
  MaxLives = 2
  MaxRevision = 3
  MaxReplays = 2
INVARIANTS
  AtMostOnce
  LaunchOnce
  ResizeAlone
PROPERTY NewcomersStay
CHECK_DEADLOCK FALSE
