\* Commands and connections reach the UI; no symmetry, as liveness needs.
SPECIFICATION FairSpec
CONSTANTS
  n1 = n1
  n2 = n2
  Net = {n1, n2}
  Setting = {home}
  Invalid = {}
  Elevated = FALSE
  Blank = blank
  MaxQueue = 2
PROPERTIES
  StopIsSeen
  StartIsSeen
  ConnectedIsShown
