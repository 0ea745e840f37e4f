SPECIFICATION Spec
CONSTANTS
  CentScale = 2
  FineScale = 4
  QuantityMax = 2
  Users = {u1}
  Coins = {"btc", "sol"}
  InitialBalance = 7
  RawQuantities = {4}
  RawQuotes = {12}
  Requests = {r1, r2}
  Curated = {"btc", "sol"}
  Listed = {"btc", "sol"}
  None = None
  MaxTrades = 3
SYMMETRY RequestSymmetry
INVARIANT SummaryIsAState
CHECK_DEADLOCK FALSE
