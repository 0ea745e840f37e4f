SPECIFICATION FairSpec
CONSTANTS
  Users = {"ada", "bob"}
  MaxLogins = 2
  MaxRequests = 2
  None = None
INVARIANTS
  SessionTypeOK
  IdentityFollowsToken
  PortfolioFollowsUser
  NoBlankPage
PROPERTY SpinnersEnd
CHECK_DEADLOCK FALSE
