CONSTANTS
  Addrs = {1, 2}
  Intervals = {0, 2}
  Jumps = {2}
  MaxTimers = 2
  MaxTime = 3
  MaxPending = 1
SPECIFICATION Spec
INVARIANTS ListsAgree NoTimerLost CancelTakesEffect AlarmInTime
