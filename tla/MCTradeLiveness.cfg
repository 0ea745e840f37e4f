SPECIFICATION FairSpec
CONSTANTS
  CentScale = 2
  FineScale = 4
  QuantityMax = 2
  Users = {u1, u2}
  Coins = {"sol"}
  InitialBalance = 3
  RawQuantities = {4}
  RawQuotes = {1, 12}
  Requests = {r1, r2}
  Curated = {}
  Listed = {"sol"}
  None = None
  MaxTrades = 2
PROPERTY EveryRequestAnswered
CHECK_DEADLOCK FALSE
