SPECIFICATION Spec
CONSTANTS
  e1 = e1
  e2 = e2
  p1 = p1
  p2 = p2
  Requests = {r1, r2, r3}
  Emails = {e1, e2}
  Passwords = {p1, p2}
  Founders = {root}
  Founder <- MCFounder
  NoUser = NoUser
SYMMETRY Symmetric
INVARIANTS
  TypeOK
  RegistrationStands
  RolesWereHeld
PROPERTY LoginFindsUser
