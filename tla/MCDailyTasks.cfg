SPECIFICATION Spec
CONSTANTS
  b1 = b1
  Booking = {b1}
  Trigger <- Triggers
  Offset <- Defaults
  ArrivalDay = {1}
  LastDay = 3
  MaxFault = 1
VIEW View
INVARIANTS
  IInv
  RemindedInGrace
  NightsSnapshotted
PROPERTIES
  FormCCovered
