CONSTANTS
  Booking = {b1}
  Total = 1
  GatewayPayment = {g1}
  GatewayRefund = {i1, i2, i3}
  Request = {q1, q2}
  MaxDesk = 0
  MaxRefund = 1
SPECIFICATION SteadySpec
PROPERTIES
  MoneySettles
CHECK_DEADLOCK FALSE
