CONSTANTS
  owner = owner
  c1 = c1
  wake = wake
  Threads = {owner}
  Owner = owner
  Channels = {c1}
  WakeupChannel = wake
  MaxFunctors = 2
  EventfdMax = 1
CHECK_DEADLOCK FALSE
SPECIFICATION ThreadSpec
PROPERTY DestructorReturns
