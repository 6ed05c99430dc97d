CONSTANTS
  LocalOps = {"stopRead", "forceClose"}
  RemoteOps = {}
  MaxCalls = 2
  MsgLen = 1
  SndBuf = 1
  HighWaterMark = 1
SPECIFICATION Spec
INVARIANT ClosedOnce
CHECK_DEADLOCK FALSE
