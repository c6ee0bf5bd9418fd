CONSTANTS
  Inputs <- MCInputs
  Resolve <- MCResolve
  Requests = {r1}
  Conns = {c1, c2}
  Calls = {k1, k2}
  Timers = {x1}
SPECIFICATION RunSpec
INVARIANTS
  AdvertisedIsServed
  DrainedInOrder
  AcceptedConfigUsable
PROPERTIES
  ShutdownCompletes
CHECK_DEADLOCK FALSE
