SPECIFICATION Spec
CONSTANTS
  Threads = {t1, t2}
  Kids = {k1, k2}
  Roles = {"devs", "admins", "guests"}
  RoleMap <- MCRoleMap
  Tokens <- MCTokens
  Lifetime = 2
  MaxClock = 3
  None = None
  Requests <- MCRequests
  FirstOrg = "first"
  MaxRequests = 3
  MaxCrashes = 1
SYMMETRY Symmetry
INVARIANTS HalfIsNotTold RotatedOutIsRefused RotationIsNoOutage
CHECK_DEADLOCK FALSE
