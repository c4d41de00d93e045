\* A login with a wrong password.
SPECIFICATION Spec
CONSTANTS
  NULL = NULL
  UserId = {u1, u2}
  Email = {e1, e2}
  Password = {p1, p2}
  Token = {k1, k2}
  Device = {d1}
  SeedUsers = {u1}
  MaxCalls = 2
INVARIANT WrongPasswordIsUnauthorized
