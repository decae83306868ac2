SPECIFICATION SteadyNoMoveSpec
CONSTANTS
  b1 = b1
  r1 = r1
  r2 = r2
  k1 = k1
  q1 = q1
  q2 = q2
  Booking = {b1}
  Room = {r1, r2}
  Horizon = 2
  BlockId = {k1}
  Request = {q1, q2}
  MoveInput <- FormInput
INVARIANTS
  ReleasedHoldsNothing
PROPERTIES
  CheckOutFlagsRooms
