SPECIFICATION Spec
CONSTANTS
  Timers = {k1, k2, k3}
  Modulus = 8
  Timeouts <- ShortTimeouts
  IdleAhead = 3
  Bias = 0
  Starts <- NearOverflow
  MaxLag = 1
  MaxClock = 9
SYMMETRY AnyOrder
INVARIANTS
  TypeOK
  OrderKept
  SleepsNoLonger
PROPERTIES
  KeepsDeadlines
