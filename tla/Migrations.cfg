SPECIFICATION FairSpec
CONSTANTS
  Runs <- MCRuns
  Versions <- MCVersions
  Embedded <- MCEmbedded
  LockKey <- MCLockKey
CHECK_DEADLOCK FALSE
INVARIANTS
  TypeOK
  NeverAppliedTwice
PROPERTIES
  MigratesOnce
  EveryRunReturns
