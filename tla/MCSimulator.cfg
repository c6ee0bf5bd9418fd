CONSTANTS
  Connectors = {1}
  Unknown = 9
  Scenarios = {"slow", "silent"}
  Slots = {1, 2}
  ReservationIDs = {1}
  MaxTransactionID = 1
  MaxCommands = 3
SPECIFICATION LiveSpec
INVARIANTS
  NoReservationInSession
  StoppedOnce
  WaitCoversAll
PROPERTIES
  StationStops
CHECK_DEADLOCK FALSE
