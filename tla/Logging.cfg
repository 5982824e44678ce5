\* Two threads, three days, three events, any number of restarts.
SPECIFICATION FairSpec
CONSTANTS
  Thread = {t1, t2}
  RETENTION_DAYS = {1, 2}
  RING_CAP = 1
  MaxDay = 2
  MaxEvents = 3
CHECK_DEADLOCK FALSE
INVARIANTS
  TypeOK
  PanelIsOnDisk
PROPERTIES
  JournalSpec
  DisabledGoesQuiet
