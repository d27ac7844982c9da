SPECIFICATION Spec
CONSTANTS
  App = {a, b}
  Other = {o}
  MaxTimers = 2
  MinInterval = 1
  MaxInterval = 1
  MaxAnrTimers = 2
  MaxEvents = 3
SYMMETRY Symmetry
INVARIANTS
  TypeOK
  CountMatchesEvents
  TimersWatchEvents
  AllMarkedAllGone
  IdsMatchTimers
