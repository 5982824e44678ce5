\* Every order of the three parties, with dialogs, faults and restarts.
SPECIFICATION FairSpec
CONSTANTS
  Dialogs = TRUE
  CalledOff = TRUE
  ShellRestarts = TRUE
  Faults = TRUE
CHECK_DEADLOCK FALSE
INVARIANTS
  TypeOK
  HidesOnce
  HintsOnce
PROPERTIES
  NeverLingers
  HookInstalled
  SignInHides
