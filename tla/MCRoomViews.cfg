SPECIFICATION SerialSpec
CONSTANTS
  b1 = b1
  b2 = b2
  r1 = r1
  r2 = r2
  k1 = k1
  q1 = q1
  Booking = {b1, b2}
  Room = {r1, r2}
  Horizon = 2
  BlockId = {k1}
  Request = {q1}
  MoveInput <- AnyInput
  PageLength <- Lengths
SYMMETRY IdSymmetry
VIEW WithoutHousekeeping
INVARIANTS
  CancelledHoldsNothing
  CalendarIsTrue
  BoardAndCountsAgree
PROPERTIES
  MoveKeepsOtherDates
