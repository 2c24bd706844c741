SPECIFICATION FairSpec
CONSTANTS
  s1 = s1
  s2 = s2
  a1 = a1
  a2 = a2
  g0 = g0
  g1 = g1
  Shells <- MCShell
  Asks <- MCAsks
  Edit <- MCEdit
  Generations <- MCGenerations
  Epochs = {1, 2, 3, 4, 5, 6}
  Sequences = {1, 2}
  MaxTicket = 100
  NoRequest = NoRequest
  NoCommand = NoCommand
  Malformed = Malformed
  Nobody = Nobody
  Native = Native
  MaxFaults = 2
  MaxLaunches = 2
PROPERTIES AnsweredInTheEnd
CHECK_DEADLOCK FALSE
