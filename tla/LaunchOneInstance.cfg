\* Two instances: one with administrator rights, one refused the mutex.
SPECIFICATION Spec
CONSTANTS
  Proc = {p1, p2, p3, p4}
  Copy = {here}
  CopyOf <- OneCopy
  Packaged = {}
CHECK_DEADLOCK FALSE
INVARIANTS
  OneInstance
