CONSTANTS
  Clients = {k1}
  EVSEs = {"e1"}
  Typo = "typo"
  MaxLinks = 2
SPECIFICATION Spec
INVARIANTS
  NotSentMeansNotSent
  ExitTellsAnswer
CHECK_DEADLOCK FALSE
