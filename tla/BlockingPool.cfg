SPECIFICATION Spec
CONSTANTS
  Caller = {c1, c2, c3}
  Base = {b1}
  Overflow = {o1, o2}
  Ceiling = 2
  MaxCalls = 4
INVARIANTS TypeOK CountersAgree NoJobStranded AnswersOwnCall
PROPERTIES CallsReturn ShrinksToBase
CHECK_DEADLOCK FALSE
