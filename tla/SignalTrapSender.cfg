SPECIFICATION Spec
CONSTANTS
  Signals = 2
  Thread = {leader, other}
  Leader = leader
  MaxArrivals = 2
INVARIANT SenderIsOneArrival
CHECK_DEADLOCK FALSE
