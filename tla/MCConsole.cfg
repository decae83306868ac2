SPECIFICATION LoneSpec
CONSTANTS
  a1 = a1
  a2 = a2
  soon = soon
  back = back
  x1 = x1
  x2 = x2
  x3 = x3
  y1 = y1
  y2 = y2
  k1 = k1
  k2 = k2
  Chip = {a1, a2}
  Dates = {soon, back}
  Backward = back
  NightsIn <- Nights
  TypedRate <- Rates
  Prices <- PlanPrices
  MaxCalls = 2
  MaxEdits = 5
  Card = {k1, k2}
  Due = 2
  MaxLoads = 2
  MaxActs = 2
  MaxEvents = 4
  Draft = {x1, x2, x3}
  BadDraft = {x3}
  Reason = {y1, y2}
  Worths <- AllWorths
  MaxQuotes = 2
INVARIANTS
  ConsoleInv
  ShownIsBilled
  ReadsItsWrites
  AmountsAreAsShown
PROPERTIES
  ScreensSettle
  FreshClicksSucceed
CHECK_DEADLOCK FALSE
