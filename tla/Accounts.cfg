SPECIFICATION Spec
CONSTANTS
  MaxRoles = 2
  Perms = {ai_access}
  Admins = {a1}
  Reqs = {r1, r2}
  MaxRequests = 4
  MaxFails = 2
SYMMETRY Alike
INVARIANTS
  TypeOK
  StoredCodeWasMailed
  SessionHasItsUser
  UsedCodeIsGone
  LockNeedsFailures
  ResetEndsSessions
PROPERTIES
  EndedSessionStaysDead
  UserKeepsARole
CHECK_DEADLOCK FALSE
