SPECIFICATION Spec
CONSTANTS
  Windows <- MCWindows
  Boards <- MCBoards
  Near <- MCNear
  Aside <- MCAside
  Flows <- MCFlows
  Edges <- MCEdges
  None = None
  Refused = Refused
  MaxCommands = 5
INVARIANTS
  TypeOK
  OneWindowPerCell
  OnAMonitor
PROPERTY HomeAgain
CHECK_DEADLOCK FALSE
