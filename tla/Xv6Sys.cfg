CONSTANTS
  a = a
  b = b
  f1 = f1
  f2 = f2
  NInodes = 4
  Name <- MCName
  File <- MCFile2
  NBlocks = 2
  MaxFile = 2
  MaxTxn = 1
  MaxUnderrun = 2
SPECIFICATION Spec
SYMMETRY Symmetry
INVARIANTS LinksMatch BlocksOwned InodesHeld
