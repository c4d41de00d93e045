\* One admin and other clients edit a user, and another may be created.
SPECIFICATION UsersSpec
CONSTANTS
  NULL = NULL
  UserId = {u1, u2}
  Email = {e1, e2}
  Password = {p1}
  SeedUsers = {u1}
  Admin = {a1}
  MaxRequests = 2
SYMMETRY Interchangeable
INVARIANTS UsersTypeOK OneAccountPerAddress DeactivatedLeavesTheList
PROPERTY DeactivatedStaysOut
