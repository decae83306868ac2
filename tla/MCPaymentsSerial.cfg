CONSTANTS
  Booking = {b1}
  Total = 2
  GatewayPayment = {g1}
  GatewayRefund = {i1, i2}
  Request = {q1}
  MaxDesk = 1
  MaxRefund = 2
SPECIFICATION SerialSpec
SYMMETRY IdSymmetry
INVARIANTS
  BooksBalance
CHECK_DEADLOCK FALSE
