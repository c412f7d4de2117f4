SPECIFICATION FairSpec
CONSTANTS
  Price = 2
  Deposit = 1
  NoShot = NoShot
  Buyers = {b1}
  Purse = 4
  MaxId = 2
  MaxStock = 1
  MaxCrashes = 1
  LogOffers = FALSE
INVARIANTS
  LossesKnown
  NothingForFree
PROPERTIES
  CoveredStays
  FreshIds
  OrdersEnd
