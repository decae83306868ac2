SPECIFICATION Spec
CONSTANTS
  b1 = b1
  b2 = b2
  r1 = r1
  r2 = r2
  q1 = q1
  q2 = q2
  Booking = {b1, b2}
  Room = {r1, r2}
  Horizon = 2
  BlockId = {}
  Request = {q1, q2}
  MoveInput <- FormInput
SYMMETRY IdSymmetry
VIEW WithoutHousekeeping
INVARIANTS
  IInv
PROPERTIES
  OnlyStaleMoveReacquires
  LedgerSpec
