SPECIFICATION Spec
CONSTANTS
  Worker = {w1, w2}
  Binding = {a, b}
  Modulus = 2
  MaxAborts = 1
INVARIANTS TypeOK MutualExclusion NoLostUpdate NoTornRead DepthMatchesNesting
PROPERTIES UntrappedSectionEnds
