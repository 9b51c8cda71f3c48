SPECIFICATION Spec
CONSTANTS
  MaxTokens = 1
  MaxTime = 1
  MaxSpawns = 1
  MaxGuards = 2
  Foreign = FALSE
INVARIANTS  NoPanic
PROPERTIES SleepersWake FiredTokensWake
