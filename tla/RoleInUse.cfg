CONSTANTS
  People = {u1}
  RoleIds = {role1}
  Permissions = {perm1}
  Changes = {q1, q2}
SPECIFICATION RolesSpec
INVARIANT RemovedRoleNotHeld
CHECK_DEADLOCK FALSE
