SPECIFICATION Spec
CONSTANTS
  g1 = g1
  g2 = g2
  f1 = f1
  f2 = f2
  f3 = f3
  c1 = c1
  c2 = c2
  q1 = q1
  Guest = {g1, g2}
  FileId = {f1, f2, f3}
  Content = {c1, c2}
  Request = {q1}
SYMMETRY IdSymmetry
VIEW InSight
INVARIANTS
  IInv
  InOrderOnceCalm
PROPERTIES
  OthersUntouched
CHECK_DEADLOCK FALSE
