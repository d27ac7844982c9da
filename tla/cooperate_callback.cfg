SPECIFICATION Spec
CONSTANTS
  a = a
  b = b
  NoDevice = NoDevice
  Devices = {a, b}
  MaxStarts = 2
  MaxStops = 1
  MaxFaults = 0
  MaxSessions = 2
SYMMETRY MCSymmetry
INVARIANT CallbackIsCalled
CHECK_DEADLOCK FALSE
