SPECIFICATION CallsSpec
CONSTANTS
  e1 = e1
  e2 = e2
  gA = gA
  gB = gB
  gC = gC
  Epochs <- MCEpochs
  Generations <- MCGenerations
  Sequences = {0, 1, 2, 3, 4}
  Foreign = Foreign
  NoRequest = NoRequest
SYMMETRY Symmetric
INVARIANTS
  CallsTypeOK
  NoStaleBase
  QuiescentHoldsBase
PROPERTIES
  UnknownOnlyUndone
  SettlesOnce
CHECK_DEADLOCK FALSE
