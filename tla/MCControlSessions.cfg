CONSTANTS
  Workers = {r1, x1, h1, t1}
  Main = main
  NoThread = none
  Reservers = {r1}
  Operators = {x1}
  Handlers = {h1}
  Timers = {t1}
  EVSEs = {"e1"}
  Configured = {"e1"}
  Tags = {"ab", "cd"}
  Fold <- MCFoldTwo
  DefaultTag = "ab"
  MaxReservationID = 1
  MaxTransactionID = 2
  MaxRemoteStartID = 1
  MaxCrashes = 1
  MaxFailures = 0
  MaxDrops = 0
  Closable = FALSE
SPECIFICATION ControlSpec
INVARIANTS
  NothingElseEndsPending
  RunningSessionKnown
CHECK_DEADLOCK FALSE
