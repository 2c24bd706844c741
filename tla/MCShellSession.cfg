SPECIFICATION Spec
CONSTANTS
  s1 = s1
  s2 = s2
  a1 = a1
  a2 = a2
  g0 = g0
  g1 = g1
  Shells <- MCShells
  Asks <- MCAsks
  Edit <- MCEdit
  Generations <- MCGenerations
  Epochs = {1, 2, 3, 4}
  Sequences = {1, 2}
  MaxTicket = 100
  NoRequest = NoRequest
  NoCommand = NoCommand
  Malformed = Malformed
  Nobody = Nobody
  Native = Native
  MaxFaults = 1
  MaxLaunches = 2
SYMMETRY Symmetry
INVARIANTS
  TypeOK
  OneWriter
  NothingTwice
  ToldTheTruth
  RunsWithCompleted
CHECK_DEADLOCK FALSE
