\* one request of each owner at a time, and any of the members
SPECIFICATION Spec
CONSTANTS
  s1 = s1  s2 = s2  s3 = s3  t1 = t1  t2 = t2  u1 = u1  u2 = u2
  b1 = b1  b2 = b2  r1 = r1  r2 = r2  None = None
  Sprints = {s1, s2}
  Tasks = {t1}
  Users = {u1, u2}
  Boards = {b1, b2}
  BoardOwner <- TwoBoards
  AdminsOf <- SharedAdmins
  Days = {1, 2}
  PatchedDates <- NoDates
  PatchedSprints = {s1, s2}
  Requests = {r1, r2}
  Isolation = "owner"
SYMMETRY Symmetry
PROPERTY LogTellsOrigin
\* the supply of ids ends, and with it the boards
CHECK_DEADLOCK FALSE
