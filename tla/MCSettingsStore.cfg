SPECIFICATION Spec
CONSTANTS
  e1 = e1
  e2 = e2
  gA = gA
  gB = gB
  gC = gC
  Epochs <- MCEpochs
  Generations <- MCGenerations
  Nothing = Nothing
SYMMETRY Symmetric
INVARIANTS
  HandedOver
  ReturnedIsDurable
  JournalExplains
CHECK_DEADLOCK FALSE
