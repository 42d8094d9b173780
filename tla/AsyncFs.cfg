SPECIFICATION Spec
CONSTANTS
  a = a
  b = b
  NInodes = 3
  NData = 3
  Block <- MCBlock
  Inum <- MCInum
  Root = 1
  Name <- MCName
  Val <- MCVal
  Zero = 0
  Junk <- MCJunk
  NBlocks = 1
  DirItems = 2
  LogLen = 5
  Mixes <- MCMixes
SYMMETRY MCSymmetry
INVARIANTS
  BlocksOwnedOnce
  OwnersAgree
  OwnData
  CleanIsDurable
  
  TreeShaped
