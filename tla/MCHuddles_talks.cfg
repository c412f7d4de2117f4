SPECIFICATION FairSpec
CONSTANTS
  keeper = keeper
  passer = passer
  player = player
  shop = shop
  Actors = {keeper, passer, player}
  Players = {player}
  Visitors = {passer}
  Structures = {shop}
  Keeper <- MCKeeper
  Walkers = {keeper, passer, player}
  Sleepers = {keeper}
  HuddleIds = {1, 2}
  Outdoors = Outdoors
  NoHuddle = NoHuddle
  Still = Still
INVARIANTS RosterSound TurnsSound TalksPlaced
PROPERTIES RestersReleased
