SPECIFICATION MCSpec
CONSTANTS
  People = {"ann", "bob", "cid", "dan"}
  Orgs = {"org1", "org2"}
  Invites = {"i1", "i2", "i3"}
  Resets = {"x1", "x2"}
  Plans = {"free", "team"}
  Free = "free"
  Seats <- MCSeats
  Requests = {1, 2}
  MaxCalls = 3
  None = None
INVARIANTS
  EveryOrgKeepsAnOwner
CHECK_DEADLOCK FALSE
