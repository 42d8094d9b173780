CONSTANTS
  h1 = h1
  h2 = h2
  h3 = h3
  l1 = l1
  l2 = l2
  l3 = l3
  head = head
  u = u
  v = v
  Home <- MCHome3
  LogSector <- MCLogSector
  HeadSector <- head
  Val <- MCVal
  InitVal <- u
  NBUF = 4
  NoSector = none
  LOGSIZE = 3
  MAXOPBLOCKS = 2
SPECIFICATION Spec
SYMMETRY Symmetry3
INVARIANTS CrashAtomic ReadsOwnWrites NoPanic
