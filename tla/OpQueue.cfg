CONSTANTS
  c1 = c1
  c2 = c2
  w1 = w1
  w2 = w2
  None = None
  Client <- Client2
  Worker <- Worker2
  Size = 1
  MaxCalls = 4
SPECIFICATION FairSpec
INVARIANTS  FrameAlive AnswerIsOwn
PROPERTY QueuedCallsReturn
