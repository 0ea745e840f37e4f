SPECIFICATION FairSpec
CONSTANTS
  r1 = r1
  r2 = r2
  r3 = r3
  Requests = {r1, r2, r3}
  Keys = {"markets"}
  Coins = {"btc", "eth"}
  Delisted = {"eth"}
  None = None
  MaxEntries = 2
  MaxConcurrency = 2
  MaxRetries = 1
  PriceBatchSize = 2
  MaxMoves = 1
  Pages = {r1, r2}
  Wants <- MCWants
INVARIANTS
  CoinGeckoTypeOK
  SingleFlight
  AnswersNeverGoBack
  NoSilentGap
PROPERTIES
  KeysLastTheirTTL
  EveryRequestEnds
CHECK_DEADLOCK FALSE
