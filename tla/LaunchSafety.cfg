SPECIFICATION Spec
CONSTANTS
  Helper = {h1}
  Handler = {conn}
  Cell = {c1, c2}
SYMMETRY Interchangeable
INVARIANTS TypeOK NoLostWakeup AllSettled
CHECK_DEADLOCK FALSE
