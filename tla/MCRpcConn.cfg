CONSTANTS
  Callers = {k1, k2}
  NoCaller = none
  SendBuffer = 1
  CallBuffer = 1
  MaxInbound = 2
  MaxAnswers = 2
  MaxFlight = 1
SPECIFICATION LiveSpec
INVARIANTS
  OwnAnswer
  NoPendingLeak
  HandledInOrder
PROPERTIES
  CallReturns
  RunReturns
CHECK_DEADLOCK FALSE
