CONSTANTS
  x = x
  y = y
  u = u
  v = v
  Addr <- MCAddr2
  Val <- MCVal
  DefaultVal <- MCDefault
  ItemsPerVal = 1
  LogDescLen = 1
  MaxTxns = 2
  ShouldFlushall = FALSE
SPECIFICATION Spec
SYMMETRY Symmetry2
INVARIANTS CrashSafe ReadsTxn FlushNeverFails
