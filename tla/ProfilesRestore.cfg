\* A file dialog leaves the main window open to input: restoring.
SPECIFICATION Spec
CONSTANTS
  plain = plain
  custom = plain
  Cfg = {plain}
  DefaultCfg = plain
  Modes = {"Off", "All"}
  OldConfigs <- MCOldConfigs
  OldBackups <- MCOldBackups
  Files <- OneFile
  Lag = FALSE
  MaxDialogs = 1
  Modal = FALSE
  DiskFaults = FALSE
  MaxIds = 3
PROPERTIES
  RestoreStopsAll
