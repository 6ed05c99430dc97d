CONSTANTS
  t1 = t1
  t2 = t2
  c1 = c1
  wake = wake
  Threads = {t1, t2}
  Owner = t1
  Channels = {c1}
  WakeupChannel = wake
  MaxFunctors = 3
  EventfdMax = 2
SPECIFICATION MCSpec
INVARIANTS NoLostWakeup LoopPointerValid ProgramsAgree
PROPERTIES FunctorsInOrder WaitsEnd
