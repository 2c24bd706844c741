SPECIFICATION Spec
CONSTANTS
  e1 = e1
  e2 = e2
  gA = gA
  gB = gB
  gC = gC
  Epochs <- MCEpochs
  Generations <- MCGenerations
  Sequences = {0, 1, 2}
  MaxTicket = 18
  NoRequest = NoRequest
  NoCommand = NoCommand
  Malformed = Malformed
SYMMETRY Symmetric
INVARIANTS
  TypeOK
  PublishAfterBothVerified
  NoCompensationAfterPublish
  ConfirmOnlyPublished
  VerdictIsAcknowledged
PROPERTY VerdictIsFinal
CHECK_DEADLOCK FALSE
