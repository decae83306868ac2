SPECIFICATION BillingSpec
CONSTANTS
  b1 = b1
  q1 = q1
  r1 = r1
  r2 = r2
  s1 = s1
  s2 = s2
  ka = ka
  tn = tn
  RoomType = {s1, s2}
  Room = {r1, r2}
  Booking = {b1}
  Request = {q1}
  RateInput <- Rates
  PlanInput <- Plans
  BlockInput <- Blocks
  MaxPlans = 2
  LastDay = 2
  Instant <- Instants
  State = {ka, tn}
  h1 = h1
  h2 = h2
  i1 = i1
  i2 = i2
  i3 = i3
  p1 = p1
  p2 = p2
  Site = {h1, h2}
  Folio = {i1, i2, i3}
  SiteOf <- FolioSites
  Prefix = {p1, p2}
  LastYear = 2
  MaxPaid = 1
INVARIANTS
  IInv
  TaxAsTold
  RefundTiers
  RegisterInv
  OwnNumbersFree
PROPERTIES
  PricedAsRead
