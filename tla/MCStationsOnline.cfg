CONSTANTS
  Conns = {c1, c2, c3}
  NoConn = none
  Connectors = {0, 1}
  Mapped = {1}
  WireStatuses = {"Charging", "Faulted"}
  MaxReports = 0
  CallBuffer = 1
SPECIFICATION Spec
SYMMETRY ConnSymmetry
INVARIANTS
  LiveStationOnline
CHECK_DEADLOCK FALSE
