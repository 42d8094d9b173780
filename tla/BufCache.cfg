SPECIFICATION Spec
CONSTANTS
  u = u
  v = v
  Addr <- MCAddr
  Val <- MCVal
  MaxCount = 2
INVARIANTS
  ReadsLatest
PROPERTIES
  ImplementsSyncDisk
