SPECIFICATION TimerSpec
CONSTANTS
  MaxTimers = 3
  MinInterval = 1
  MaxInterval = 3
  Intervals = {0, 5}
  Repeats = {0, 1}
  MaxTime = 2
  DelayRange = 3
  ClockIsSet = TRUE
INVARIANT TableConsistent
PROPERTY NoDueTimerLeft
