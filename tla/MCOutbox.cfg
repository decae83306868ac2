SPECIFICATION Spec
CONSTANTS
  n1 = n1
  n2 = n2
  t1 = t1
  t2 = t2
  q1 = q1
  LogId = {n1, n2}
  Tick = {t1, t2}
  Request = {q1}
  MaxAttempts = 3
  Limit = 2
  MaxFault = 2
INVARIANTS
  IInv
  DuplicatesOnlyAfterLoss
PROPERTIES
  NeverResendsSettled
  QueuedSettles
CHECK_DEADLOCK FALSE
