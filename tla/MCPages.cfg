SPECIFICATION FairSpec
CONSTANTS
  Orders = {"cap", "vol"}
  DefaultOrder = "cap"
  MaxNumber = 3
  TotalPages = 2
  PageSize = 2
  Listed <- MCListed
  Figures <- MCFigures
  Place <- MCPlace
  Rising = {"btc"}
  Falling = {"sol"}
  Texts = {"", "btc", "so"}
  Long = {"btc", "so"}
  Named <- MCNamed
  Bare <- MCBare
  MaxAbandoned = 1
  None = None
INVARIANTS
  PagesTypeOK
  NeverBlank
  FailureIsNotADeadEnd
  TableIsSorted
PROPERTIES
  ListKeepsItsPromise
  RemoteKeepsItsPromise
  SearchSettles
CHECK_DEADLOCK FALSE
