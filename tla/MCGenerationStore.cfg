SPECIFICATION Spec
CONSTANTS
  g1 = g1
  g2 = g2
  s1 = s1
  c1 = c1
  c2 = c2
  None = None
  Generations <- MCGenerations
  Sessions <- MCSessions
  Clients <- OneClient
  MaxRevision = 3
  MaxBoot = 1
SYMMETRY Symmetric
INVARIANTS
  LeasedIsWhole
  NamedSurvives
PROPERTIES ConfirmIsCurrent
