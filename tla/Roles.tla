-------------------------------- MODULE Roles --------------------------------
(***************************************************************************)
(* Roles, permissions and who holds which role (controllers/roles.py,      *)
(* controllers/permissions.py, services/role.py, core/permissions.py).     *)
(*                                                                         *)
(* A request reads and checks in one step and writes in a later one; in    *)
(* between, others commit.  A request refused at its checks changes nothing*)
(* and is no step.  Foreign keys are those of the migrations: deleting a   *)
(* role cascades to user_roles, and nothing cascades to role_permissions.  *)
(***************************************************************************)
EXTENDS Integers, FiniteSets

CONSTANTS
  MaxRoles,      \* bound on the roles ever created; role 1 is the seeded Customer
  Perms,         \* the permissions that may exist
  Admins,        \* the administrator requests in flight at once
  MaxRequests    \* bound on the requests served

ASSUME RolesAssumption == MaxRoles \in Nat \ {0} /\ MaxRequests \in Nat

VARIABLES
  roles,         \* the roles rows
  rolePerms,     \* the role_permissions rows: pairs <<role, permission>>
  permissions,   \* the permissions rows
  grants,        \* the user_roles rows: pairs <<user id, role>>
  nextRole,      \* the next role id
  admin,         \* what each administrator request is doing
  served         \* requests begun so far

tablevars == <<roles, rolePerms, permissions, nextRole>>
rolevars  == <<roles, rolePerms, permissions, grants, nextRole, admin, served>>

Customer == 1
RoleIds  == 1..MaxRoles

NoRequest == [op |-> "none", role |-> 0, wants |-> {}]

PermsOf(r) == {p \in Perms : <<r, p>> \in rolePerms}

\* dependencies/auth.permission_slugs: what the roles of a user grant.
PermissionSlugs(u) == UNION {PermsOf(r) : r \in {r \in roles : <<u, r>> \in grants}}

RolesInit ==
  /\ roles = {Customer}
  /\ permissions = Perms
  /\ rolePerms = {Customer} \X Perms
  /\ nextRole = Customer + 1
  /\ admin = [a \in Admins |-> NoRequest]
  /\ served = 0

-----------------------------------------------------------------------------
\* A request has read what it needs and passed its checks.
Open(a, op, r, ps) ==
  /\ admin[a].op = "none"
  /\ served < MaxRequests
  /\ served' = served + 1
  /\ admin' = [admin EXCEPT ![a] = [op |-> op, role |-> r, wants |-> ps]]
  /\ UNCHANGED <<tablevars, grants>>

Close(a) == admin' = [admin EXCEPT ![a] = NoRequest] /\ UNCHANGED served

\* Its transaction is rolled back: a constraint refused it, or it was dropped.
AdminDies(a) == admin[a].op # "none" /\ Close(a) /\ UNCHANGED <<tablevars, grants>>

BeginRemoveRole(a) ==
  \E r \in roles : (\A g \in grants : g[2] # r) /\ Open(a, "remove role", r, {})

CommitRemoveRole(a) ==
  LET r == admin[a].role IN
  /\ admin[a].op = "remove role"
  /\ roles' = roles \ {r}
  /\ rolePerms' = {x \in rolePerms : x[1] # r}
  /\ grants' = {g \in grants : g[2] # r}
  /\ UNCHANGED <<permissions, nextRole>>
  /\ Close(a)

BeginAddRole(a) ==
  \E ps \in SUBSET permissions : ps # {} /\ Open(a, "add role", 0, ps)

\* The first of add_role's two commits: the role alone.
CommitNewRole(a) ==
  /\ admin[a].op = "add role"
  /\ admin[a].role = 0
  /\ nextRole \in RoleIds
  /\ roles' = roles \cup {nextRole}
  /\ nextRole' = nextRole + 1
  /\ admin' = [admin EXCEPT ![a].role = nextRole]
  /\ UNCHANGED <<rolePerms, permissions, grants, served>>

CommitNewRolePerms(a) ==
  LET r == admin[a].role IN
  /\ admin[a].op = "add role"
  /\ r \in roles /\ admin[a].wants \subseteq permissions
  /\ rolePerms' = rolePerms \cup ({r} \X admin[a].wants)
  /\ UNCHANGED <<roles, permissions, grants, nextRole>>
  /\ Close(a)

BeginUpdateRole(a) ==
  \E r \in roles, ps \in SUBSET Perms :
    ps \cap permissions # {} /\ Open(a, "update role", r, ps)

\* The permissions are replaced; an unknown one, or a role deleted meanwhile,
\* breaks a foreign key and rolls all of it back.
CommitUpdateRole(a) ==
  LET r == admin[a].role IN
  /\ admin[a].op = "update role"
  /\ r \in roles /\ admin[a].wants \subseteq permissions
  /\ rolePerms' = {x \in rolePerms : x[1] # r} \cup ({r} \X admin[a].wants)
  /\ UNCHANGED <<roles, permissions, grants, nextRole>>
  /\ Close(a)

AddPermission(a) ==
  /\ admin[a].op = "none" /\ served < MaxRequests
  /\ \E p \in Perms \ permissions : permissions' = permissions \cup {p}
  /\ served' = served + 1
  /\ UNCHANGED <<roles, rolePerms, grants, nextRole, admin>>

BeginDeletePermission(a) ==
  \E p \in permissions : (\A x \in rolePerms : x[2] # p) /\ Open(a, "delete permission", 0, {p})

\* Rows that refer to it by now are not the ones the request saw: the foreign
\* key of role_permissions refuses the delete.
CommitDeletePermission(a) ==
  /\ admin[a].op = "delete permission"
  /\ \A x \in rolePerms : x[2] \notin admin[a].wants
  /\ permissions' = permissions \ admin[a].wants
  /\ UNCHANGED <<roles, rolePerms, grants, nextRole>>
  /\ Close(a)

RolesNext ==
  \E a \in Admins :
    \/ BeginRemoveRole(a) \/ CommitRemoveRole(a)
    \/ BeginAddRole(a) \/ CommitNewRole(a) \/ CommitNewRolePerms(a)
    \/ BeginUpdateRole(a) \/ CommitUpdateRole(a)
    \/ AddPermission(a)
    \/ BeginDeletePermission(a) \/ CommitDeletePermission(a)
    \/ AdminDies(a)

\* Mutant: the old roles stay deleted when the new one cannot be inserted.
AssignedOrNone(u, r) ==
  {g \in grants : g[1] # u} \cup (IF r \in roles THEN {<<u, r>>} ELSE {})

\* assign_role_for_user: replace the roles of u by r.  When r is gone the insert
\* fails, its rollback brings the old rows back, and the caller goes on.
AssignedGrants(u, r) ==
  IF r \in roles THEN {g \in grants : g[1] # u} \cup {<<u, r>>} ELSE grants

-----------------------------------------------------------------------------
RolesTypeOK ==
  /\ roles \subseteq RoleIds
  /\ permissions \subseteq Perms
  /\ rolePerms \subseteq RoleIds \X Perms
  /\ nextRole \in 1..MaxRoles + 1
  /\ served \in 0..MaxRequests
  /\ \A a \in Admins : admin[a].role \in 0..MaxRoles /\ admin[a].wants \subseteq Perms
=============================================================================
