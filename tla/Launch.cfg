\* Three processes that start, prompt, relaunch, quit, die and overrun.
SPECIFICATION FairSpec
CONSTANTS
  Proc = {p1, p2, p3}
  Copy = {here}
  CopyOf <- OneCopy
  Packaged = {}
CHECK_DEADLOCK FALSE
INVARIANTS
  TypeOK
  Exclusion
  UniformExclusion
  NobodyIsStranded
PROPERTIES
  HandoverCompletes
  SomeoneRuns
