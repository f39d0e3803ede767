SPECIFICATION Spec
CONSTANTS
  MaxRoles = 2
  Perms = {ai_access}
  Admins = {a1}
  Reqs = {r1, r2}
  MaxRequests = 3
  MaxFails = 2
SYMMETRY Alike
INVARIANT RotationIsUsable
CHECK_DEADLOCK FALSE
