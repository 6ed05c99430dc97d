CONSTANTS
  Fds = {1, 2}
  InitDelay = 2
  MaxDelay = 5
  MaxConnects = 1
  MaxStops = 2
  RemoteStop = {TRUE}
SPECIFICATION FairSpec
INVARIANT StopEnds
CHECK_DEADLOCK FALSE
