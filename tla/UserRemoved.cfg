CONSTANTS
  Admin = Admin
  Accounts = {Admin, u1}
  UserNames = {Admin, n1, n2}
  Passwords = {w1}
  Seed = w1
  NoName = NoName
  NoHash = NoHash
  UserRequests = {q1, q2}
SPECIFICATION UsersSpec
PROPERTY RemovedUserNotUpdated
CHECK_DEADLOCK FALSE
