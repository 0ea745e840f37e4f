SPECIFICATION Spec
CONSTANTS
  CentScale = 10
  FineScale = 4
  QuantityMax = 2
  Users = {u1}
  Coins = {"btc"}
  InitialBalance = 3
  RawQuantities = {4, 8}
  RawQuotes = {56}
  Requests = {r1}
  Curated = {"btc"}
  Listed = {"btc"}
  None = None
  MaxTrades = 3
INVARIANT FlatUserGainsNothing
CHECK_DEADLOCK FALSE
