\* No fault but a taskbar that is not up yet or is restarted.
SPECIFICATION FairSpec
CONSTANTS
  Dialogs = FALSE
  CalledOff = FALSE
  ShellRestarts = TRUE
  Faults = FALSE
CHECK_DEADLOCK FALSE
PROPERTIES
  HiddenGetsIcon
