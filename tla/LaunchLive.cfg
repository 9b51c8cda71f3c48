SPECIFICATION FairSpec
CONSTANTS
  Helper = {h1}
  Handler = {}
  Cell = {c1, c2}
INVARIANTS NothingElsewhere
PROPERTIES LaunchesSettle RunReturns
CHECK_DEADLOCK FALSE
