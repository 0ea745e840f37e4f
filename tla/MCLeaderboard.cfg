SPECIFICATION FairSpec
CONSTANTS
  CentScale = 2
  FineScale = 4
  QuantityMax = 2
  Users = {"ada", "bob"}
  Coins = {"btc"}
  InitialBalance = 20000
  RawQuantities = {4}
  RawQuotes = {12, 28}
  Readers = {k1, k2}
  NameOrder <- Alphabetical
  TTL = 2
  None = None
  MayFail = TRUE
  MaxTrades = 2
INVARIANTS
  LeaderboardTypeOK
  RankingIsFair
  RowsAreReal
PROPERTY StaleRankingsDieOut
CHECK_DEADLOCK FALSE
