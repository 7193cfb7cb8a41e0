\* one user on the pages of the front end
SPECIFICATION Spec
CONSTANTS
  u1 = u1  u2 = u2  c1 = c1  c2 = c2   k1 = k1  k2 = k2   p1 = p1  p2 = p2
  None = None
  Users = {u1}
  Codes = {k1, k2}
  Passwords = {p1, p2}
  Clients = {c1}
  UserOf <- OneClient
  PageClients = {c1}
  Isolation = "apart"
  MaxFailures = 0
PROPERTIES VerifiedMayReset
\* the supply of codes ends
CHECK_DEADLOCK FALSE
