CONSTANTS
  LocalOps = {"send", "shutdown", "forceClose", "forceCloseWithDelay", "startRead", "stopRead"}
  RemoteOps = {"send", "shutdown", "forceClose", "startRead", "stopRead"}
  MaxCalls = 3
  MsgLen = 2
  SndBuf = 3
  HighWaterMark = 1
SPECIFICATION FairSpec
INVARIANTS TypeOK StreamIntact ShutdownHonoured WritingIffPending HighWaterNotified LifecycleOnce
PROPERTY ClosedIsFreed
CHECK_DEADLOCK FALSE
