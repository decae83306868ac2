CONSTANTS
  Booking = {b1}
  Total = 2
  GatewayPayment = {g1}
  GatewayRefund = {i1, i2}
  Request = {q1, q2}
  MaxDesk = 1
  MaxRefund = 1
SPECIFICATION Spec
SYMMETRY IdSymmetry
VIEW WithoutAudit
INVARIANTS IInv LedgerNeverOverstates
PROPERTIES MoneyMovesWithRows
CHECK_DEADLOCK FALSE
