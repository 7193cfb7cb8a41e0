\* a board shared by two admins, one request at a time
SPECIFICATION Spec
CONSTANTS
  s1 = s1  s2 = s2  s3 = s3  t1 = t1  t2 = t2  u1 = u1  u2 = u2
  b1 = b1  b2 = b2  r1 = r1  r2 = r2  None = None
  Sprints = {s1, s2}
  Tasks = {t1, t2}
  Users = {u1, u2}
  Boards = {b1, b2}
  BoardOwner <- TwoBoards
  AdminsOf <- SharedAdmins
  Days = {1, 2}
  PatchedDates <- BothDates
  PatchedSprints = {s1, s2}
  Requests = {r1}
  Isolation = "serial"
SYMMETRY SprintSymmetry
INVARIANTS EndsAfterStart
PROPERTIES CloseLeavesNoLeftovers
\* the supply of ids ends, and with it the boards
CHECK_DEADLOCK FALSE
