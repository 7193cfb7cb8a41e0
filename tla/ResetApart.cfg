\* two users with a client each, which are programs and use the codes of either
SPECIFICATION Spec
CONSTANTS
  u1 = u1  u2 = u2  c1 = c1  c2 = c2   k1 = k1  k2 = k2   p1 = p1  p2 = p2
  None = None
  Users = {u1, u2}
  Codes = {k1, k2}
  Passwords = {p1, p2}
  Clients = {c1, c2}
  UserOf <- TwoClients
  PageClients = {}
  Isolation = "apart"
  MaxFailures = 2
SYMMETRY Symmetry
INVARIANT TypeOK
PROPERTIES ImplementsRecovery ChangeReplacesOld
\* the supply of codes ends
CHECK_DEADLOCK FALSE
