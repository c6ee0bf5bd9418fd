CONSTANTS
  Subs = {"log", "push"}
  Publishers = {"p1", "p2"}
  Buffer = 1
  MaxEvents = 3
SPECIFICATION LiveSpec
INVARIANTS
  NoSendOnClosed
  DropsAccountForLoss
PROPERTIES
  PublishReturns
CHECK_DEADLOCK FALSE
