SPECIFICATION Spec
CONSTANTS
  u = u
  v = v
  Addr <- MCAddr
  Val <- MCVal
  DefaultVal <- MCDefault
  ItemsPerVal = 2
  LogDescLen = 2
  Logs <- MCLogs
INVARIANTS
  CrashAtomic
  RefusedOnlyWhenFull
PROPERTIES
  RollbackIsFinal
  ImplementsAtomicLog
