SPECIFICATION FairSpec
CONSTANTS
  Helper = {h1}
  Handler = {conn}
  Cell = {c1}
PROPERTIES LaunchesSettle
CHECK_DEADLOCK FALSE
