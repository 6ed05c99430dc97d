CONSTANTS
  Byte = {0, 1, 2}
  Data <- MCData
  Lens = {1, 2}
  MaxContent = 3
  kCheapPrepend = 1
  kInitialSize = 1
  ExtraBuf = 2
  CodecPrepend = 8
  CodecExtraBuf = 8
  Tag <- MCTag
  Payloads <- MCPayloads
  Unparsable <- MCUnparsable
  Taken <- MCTaken
  kMaxMessageLen = 8
  MaxFrames = 2
  MaxThreads = 2
  MaxConns = 3
  MaxFds = 2
  MaxBacklog = 1
  Fds = {1, 2}
  InitDelay = 2
  MaxDelay = 3
  MaxConnects = 2
  MaxStops = 1
  RemoteStop = {FALSE}
  Requests <- MCRequests
  MaxRequests = 2
  Callers = {p, q}
  MaxCalls = 2
SPECIFICATION Spec
INVARIANTS TypeOK ContentKept FramesIntact HandlersFindState FreedClean OneAttempt Answered
PROPERTY WaitsEnd
CHECK_DEADLOCK FALSE
