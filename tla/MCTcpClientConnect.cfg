CONSTANTS
  Fds = {1, 2}
  InitDelay = 2
  MaxDelay = 5
  MaxConnects = 2
  MaxStops = 1
  RemoteStop = {FALSE}
SPECIFICATION FairSpec
PROPERTY StartsDisconnected
CHECK_DEADLOCK FALSE
