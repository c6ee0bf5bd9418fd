CONSTANTS
  Workers = {r1, r2}
  Main = main
  NoThread = none
  Reservers = {r1, r2}
  Operators = {}
  Handlers = {}
  Timers = {}
  EVSEs = {"e1"}
  Configured = {"e1"}
  Tags = {"ab"}
  Fold <- MCFoldOne
  DefaultTag = "ab"
  MaxReservationID = 2
  MaxTransactionID = 0
  MaxRemoteStartID = 0
  MaxCrashes = 1
  MaxFailures = 1
  MaxDrops = 1
  Closable = TRUE
SPECIFICATION LiveControlSpec
INVARIANTS
  NoReserveBehindOrphan
  CloseLeavesNothingBehind
  OrphanCancelled
PROPERTIES
  ReserveEnds
  CloseReturns
CHECK_DEADLOCK FALSE
