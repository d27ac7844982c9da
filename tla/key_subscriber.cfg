SPECIFICATION Spec
CONSTANTS
  s = s
  t = t
  x = x
  y = y
  Sessions = {s, t}
  Keys = {x, y}
  PowerKeys = {y}
  VolumeKeys = {x}
  Subscriptions <- MCSubscriptions
  Injected = {"down", "up", "cancel"}
  MaxTimers = 3
  MinInterval = 1
  MaxInterval = 1
INVARIANTS
  TypeOK
  TimersMatchSubscribers
  WaitsWhileHeld
