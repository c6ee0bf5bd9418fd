CONSTANTS
  Conns = {c1, c2, c3}
  NoConn = none
  Connectors = {0, 1, 2}
  Mapped = {1}
  WireStatuses = {"Charging", "Faulted", "Bogus"}
  MaxReports = 2
  CallBuffer = 1
SPECIFICATION Spec
SYMMETRY ConnSymmetry
INVARIANTS
  OnlyRegisteredOpen
  EffectiveFollowsReports
CHECK_DEADLOCK FALSE
