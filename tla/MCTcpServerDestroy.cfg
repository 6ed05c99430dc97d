CONSTANTS
  MaxThreads = 2
  MaxConns = 2
  MaxFds = 2
  MaxBacklog = 1
SPECIFICATION Spec
INVARIANT DestructorFreesClean
CHECK_DEADLOCK FALSE
