SPECIFICATION FairSpec
CONSTANTS
  Requests = {r1, r2, r3}
  NoSession = NoSession
  MaxRequests = 3
INVARIANTS StaysLoggedIn Usable LogoutHolds PageAccepted
PROPERTIES WaitsEnd
CHECK_DEADLOCK FALSE
