CONSTANTS
  Workers = {a, b}
  Main = m
  NoThread = none
  EVSEs = {"e1"}
  Configured = {"e1"}
  Tags = {"ab"}
  Fold <- MCFoldOne
  MaxReservationID = 2
  MaxTransactionID = 1
  MaxRemoteStartID = 1
  MaxCrashes = 1
  MaxFailures = 1
SYMMETRY WorkerSymmetry
SPECIFICATION Spec
INVARIANTS
  TypeOK
  OneReservationPerEVSE
  ReservationIdsNeverReused
  NoResurrection
  FileInStep
  EndedOnce
  TransactionIdsReusedOnlyIfUnwritten
PROPERTIES
  FileCountersNeverDecrease
  ImplementsLedger
CHECK_DEADLOCK FALSE
