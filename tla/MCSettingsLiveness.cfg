SPECIFICATION FairSpec
CONSTANTS
  e1 = e1
  e2 = e2
  gA = gA
  gB = gB
  gC = gC
  plain = plain
  wide = wide
  Epochs = {e1}
  Generations = {gA, gC}
  Layouts <- MCLayouts
  LayoutOf <- MCLayoutOf
  Sequences = {1}
  MaxTicket = 11
  NoRequest = NoRequest
  NoCommand = NoCommand
  Malformed = Malformed
  Elsewhere = Elsewhere
  Foreign = Foreign
PROPERTY QuestionEnds
CHECK_DEADLOCK FALSE
