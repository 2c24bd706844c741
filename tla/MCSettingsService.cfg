SPECIFICATION Spec
CONSTANTS
  e1 = e1
  e2 = e2
  gA = gA
  gB = gB
  gC = gC
  plain = plain
  wide = wide
  Epochs <- MCEpochs
  Generations <- MCGenerations
  Layouts <- MCLayouts
  LayoutOf <- MCLayoutOf
  Sequences = {1, 2}
  MaxTicket = 100
  NoRequest = NoRequest
  NoCommand = NoCommand
  Malformed = Malformed
  Elsewhere = Elsewhere
  Foreign = Foreign
VIEW Ticketless
SYMMETRY Symmetric
INVARIANTS
  TypeOK
  CompleteEverywhere
  AbortRestoresPrepared
PROPERTIES
  LayoutNeedsAnswer
CHECK_DEADLOCK FALSE
