SPECIFICATION TimerFairSpec
CONSTANTS
  MaxTimers = 2
  MinInterval = 1
  MaxInterval = 3
  Intervals = {0, 2, 5}
  Repeats = {0, 2}
  MaxTime = 6
  DelayRange = 4
  ClockIsSet = FALSE
INVARIANTS
  TimerTypeOK
  SleepCoversHead
PROPERTIES
  NoSlotRunsTwice
  DueTimersRun
