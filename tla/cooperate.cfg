SPECIFICATION Spec
CONSTANTS
  a = a
  b = b
  NoDevice = NoDevice
  Devices = {a, b}
  MaxStarts = 2
  MaxStops = 1
  MaxFaults = 2
  MaxSessions = 2
SYMMETRY MCSymmetry
INVARIANTS
  TypeOK
  SidesAgree
  NobodyLeftWaiting
  CanBeStopped
CHECK_DEADLOCK FALSE
