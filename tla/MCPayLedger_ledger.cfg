SPECIFICATION Spec
CONSTANTS
  Buyers = {b1}
  Room = Room
  Qtys = {1}
  Payments <- CoinsOrGoods
  Purse = 2
  MaxStock = 1
  MaxId = 3
  TTL = 1
  QuoteTTL = 1
  Window = 2
  Retention = 1
  Horizon = 3
  MaxDepth = 1
  QuoteCap = 1
  NoTerms = NoTerms
  NoQuote = NoQuote
INVARIANTS LedgerSound OneWayToBuy
PROPERTIES CountersKept LedgerKeepsPromise
