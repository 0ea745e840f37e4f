SPECIFICATION Spec
CONSTANTS
  CentScale = 2
  FineScale = 4
  QuantityMax = 2
  Users = {u1}
  Coins = {"btc", "sol", "xyz"}
  InitialBalance = 7
  RawQuantities = {4, 6, 8}
  RawQuotes = {1, 12, 28}
  Requests = {r1, r2}
  Curated = {"btc"}
  Listed = {"btc", "sol"}
  None = None
  MaxTrades = 3
SYMMETRY RequestSymmetry
INVARIANTS
  TypeOK
  BooksMatchLedger
  NeverOverdrawn
  AverageWithinPaid
  RowsAreOwned
  CopiesAreCurrent
  CatalogueIsTraded
PROPERTY LedgerSpec
CHECK_DEADLOCK FALSE
