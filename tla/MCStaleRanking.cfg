SPECIFICATION Spec
CONSTANTS
  CentScale = 2
  FineScale = 4
  QuantityMax = 2
  Users = {"ada", "bob"}
  Coins = {"btc"}
  InitialBalance = 7
  RawQuantities = {4}
  RawQuotes = {12}
  Readers = {k1, k2}
  NameOrder <- Alphabetical
  TTL = 2
  None = None
  MayFail = FALSE
  MaxTrades = 2
INVARIANT RankingShowsAnsweredTrades
CHECK_DEADLOCK FALSE
