SPECIFICATION Spec
CONSTANTS
  p = p
  v = v
  Keys = {p, v}
  PowerKeys = {p}
  VolumeKeys = {v}
  Shortcuts <- MCShortcuts
  Sequences <- MCSequences
  MaxSequenceKeys = 2
  Injected <- PowerDown
  Intercepted <- PowerUp
  MaxTimers = 2
  MinInterval = 1
  MaxInterval = 1
INVARIANTS
  TypeOK
  IdsNameOwnTimers
  PendingLaunchIsCurrent
  SpecialKeysAreHeld
  ReleasesFollowPresses
