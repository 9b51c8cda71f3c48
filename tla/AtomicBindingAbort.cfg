SPECIFICATION Spec
CONSTANTS
  Worker = {w1, w2}
  Binding = {a}
  Modulus = 2
  MaxAborts = 1
PROPERTIES SectionEnds
