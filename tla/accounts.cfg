SPECIFICATION Spec
CONSTANTS
  u1 = u1
  u2 = u2
  u3 = u3
  r1 = r1
  r2 = r2
  NoUser = NoUser
  Users = {u1, u2}
  Bootstrap = {u1}
  Requests = {r1, r2}
  RoleNames = {"investor", "ops_admin", "super_admin"}
SYMMETRY Slots
INVARIANTS
  InvestorFromBirth
  GrantersWereSupers
PROPERTIES
  ClosedUndoneByStaleOnly
  LastSuperFallsToStaleOnly
