CONSTANTS
  Procs = {p1, p2, p3}
  Inodes = {i1, i2, i3, i4}
  None = none
  Requests = {"r1", "r2"}
SYMMETRY Interchangeable
SPECIFICATION SocketSpec
INVARIANTS
  MutualExclusion
  NoStaleLock
  LiveSocketUntouched
PROPERTIES
  ImplementsDaemon
