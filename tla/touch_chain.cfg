SPECIFICATION Spec
CONSTANTS
  None = None
  f1 = f1
  f2 = f2
  w1 = w1
  w2 = w2
  Fingers = {f1, f2}
  Windows = {w1, w2}
  MaxGestures = 2
SYMMETRY MCSymmetry
INVARIANTS
  TypeOK
  OnlyMarkedIsConsumed
  WindowsAreReleased
  NothingOutOfTheBlue
CONSTRAINT FewOddities
