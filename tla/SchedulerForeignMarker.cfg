SPECIFICATION Spec
CONSTANTS
  MaxTokens = 1
  MaxTime = 0
  MaxSpawns = 1
  MaxGuards = 1
  Foreign = TRUE
INVARIANTS NoPanic
