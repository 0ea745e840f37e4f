SPECIFICATION Spec
CONSTANTS
  Users = {"ada", "bob"}
  MaxLogins = 2
  MaxRequests = 2
  None = None
INVARIANT LoggedOutStaysOut
CHECK_DEADLOCK FALSE
