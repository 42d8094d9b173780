SPECIFICATION BenchSpec
CONSTANTS
  NInodes = 5
  NData = 5
  Block <- MCBlock
  Inum <- MCInum
  Root = 1
  Name <- MCName
  Val = {0, 1, 2}
  Zero = 0
  NBlocks = 2
  DirItems = 4
  LogLen = 4
  Msg = 1
  OldMsg = 2
  MsgLen = 1
  Programs <- MCPrograms
  MaxCrashes = 1
  MaxTxns = 4
  M = 5
  fileSize = 10
  ioSize = 2
  Iters = 2
  MaxShort = 2
INVARIANTS
  TargetWhole
  KeptFiles
  MailOrdered
  NoTempAtStart
  SpaceReturns
  PrintedTimes
  
PROPERTIES
  Answered
  
CHECK_DEADLOCK FALSE
