SPECIFICATION Spec
CONSTANTS
  Caller = {c1, c2}
  Base = {b1}
  Overflow = {o1, o2}
  Ceiling = 3
  MaxCalls = 4
PROPERTIES GrowsForEveryJob
CHECK_DEADLOCK FALSE
