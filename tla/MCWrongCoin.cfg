SPECIFICATION Spec
CONSTANTS
  Scale = 2
  QUANTITY_MAX_DECIMALS = 1
  PlainFrom = 1
  NaN = NaN
  None = None
  Coins = {"btc", "eth"}
  Quotes <- MCQuotes
  Prices = {3}
  InitialCash = 2
  Typed <- MCTyped
  Percentages = {100}
  QuantityMax = 1
  MaxTrades = 2
  MaxRequests = 2
  MaxAbandoned = 1
INVARIANT OrderIsForTheCoinShown
CHECK_DEADLOCK FALSE
