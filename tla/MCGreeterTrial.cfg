SPECIFICATION Spec
CONSTANT MaxFaults = 4
INVARIANTS
  UnconfirmedIsGuarded
  FallbackIsKept
PROPERTIES
  ConfirmedStays
  TrialEnds
CHECK_DEADLOCK FALSE
