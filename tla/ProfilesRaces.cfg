\* Handlers on stale pages, dialogs that return late, saves that fail, old backups.
SPECIFICATION Spec
CONSTANTS
  plain = plain
  custom = plain
  Cfg = {plain}
  DefaultCfg = plain
  Modes = {"Off", "All"}
  OldConfigs <- MCOldConfigs
  OldBackups <- MCOldBackups
  Files <- OneFile
  Lag = TRUE
  MaxDialogs = 1
  Modal = FALSE
  DiskFaults = TRUE
  MaxIds = 2
INVARIANTS
  IdsUnique
  SelectionInRange
  RelaunchShowsSame
PROPERTIES
  RestoredAreDown
  LedgerSteps
