SPECIFICATION Spec
CONSTANTS
  Signals = 2
  Thread = {leader, other}
  Leader = leader
  MaxArrivals = 3
INVARIANTS
  TypeOK
  OneArmPerSignal
  PendingIsNoticed
PROPERTIES
  PendingIsDelivered
  ArmsComeToRest
CHECK_DEADLOCK FALSE
