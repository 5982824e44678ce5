\* Two good settings tell a new instance from the one it replaced; a bad one fails.
SPECIFICATION Spec
CONSTANTS
  n1 = n1
  n2 = n2
  Net = {n1, n2}
  Setting = {home, work, broken}
  Invalid = {broken}
  Elevated = FALSE
  Blank = blank
  MaxQueue = 1
SYMMETRY Symmetry
INVARIANTS
  TypeOK
  ErrorsAreNotLive
  PublishedIsTruthful
PROPERTIES
  ServiceSpec
  FailureStays
