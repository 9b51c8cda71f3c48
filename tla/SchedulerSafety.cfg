SPECIFICATION Spec
CONSTANTS
  MaxTokens = 2
  MaxTime = 1
  MaxSpawns = 1
  MaxGuards = 2
  Foreign = TRUE
INVARIANTS TypeOK WakesOnce NoLostFiber IdsAreExclusive TrapsOwnFaultsOnly  
