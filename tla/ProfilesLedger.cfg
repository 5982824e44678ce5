\* Three networks coming and going, one handler at a time on an up-to-date page.
SPECIFICATION Spec
CONSTANTS
  plain = plain
  custom = custom
  Cfg = {plain, custom}
  DefaultCfg = plain
  Modes = {"Off"}
  OldConfigs <- MCOldConfigs
  OldBackups <- NoBackups
  Files <- OneFile
  Lag = FALSE
  MaxDialogs = 1
  Modal = TRUE
  DiskFaults = FALSE
  MaxIds = 3
INVARIANTS
  TypeOK
PROPERTIES
  LedgerSpec
