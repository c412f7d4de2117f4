SPECIFICATION Spec
CONSTANTS
  Price = 2
  Deposit = 1
  NoShot = NoShot
  Buyers = {b1}
  Purse = 4
  MaxId = 1
  MaxStock = 1
  MaxCrashes = 1
  LogOffers = TRUE
PROPERTIES
  HagglesApart
