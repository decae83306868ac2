SPECIFICATION Spec
CONSTANTS
  b1 = b1
  q1 = q1
  q2 = q2
  Booking = {b1}
  Total = 2
  Request = {q1, q2}
  MaxLinks = 3
  MaxExtra = 1
SYMMETRY RequestSymmetry
INVARIANTS
  IInv
  CreditsAreCaptures
PROPERTIES
  OverUntilCapture
CHECK_DEADLOCK FALSE
