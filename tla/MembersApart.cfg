\* two requests about different users and tasks; an owner leaves alone
SPECIFICATION Spec
CONSTANTS
  u1 = u1  u2 = u2  u3 = u3  t1 = t1  t2 = t2  i1 = i1  i2 = i2  r1 = r1  r2 = r2  None = None
  Users = {u1, u2, u3}
  Tasks = {t1}
  Invites = {i1, i2}
  InviteRoles = {"MEMBER"}
  Requests = {r1, r2}
  Isolation = "apart"
  HalfCreated = FALSE
SYMMETRY Symmetry
INVARIANTS TypeOK OwnerIsAdmin OneInvitePerUser
PROPERTIES SuccessionFollowsRank AssignedToMember
\* the supply of ids ends, and a board that is gone stays so
CHECK_DEADLOCK FALSE
