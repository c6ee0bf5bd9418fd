CONSTANTS
  Workers = {r1, h1}
  Main = main
  NoThread = none
  Reservers = {r1}
  Operators = {}
  Handlers = {h1}
  Timers = {}
  EVSEs = {"e1"}
  Configured = {"e1"}
  Tags = {"ab"}
  Fold <- MCFoldOne
  DefaultTag = "ab"
  MaxReservationID = 1
  MaxTransactionID = 1
  MaxRemoteStartID = 0
  MaxCrashes = 0
  MaxFailures = 0
  MaxDrops = 0
  Closable = FALSE
SPECIFICATION ControlSpec
INVARIANTS
  RedeemedReservationEnds
CHECK_DEADLOCK FALSE
