\* one user on the page, others on the tasks, one failure or broken call
SPECIFICATION PageSpec
CONSTANTS
  s1 = s1  s2 = s2  s3 = s3  s4 = s4  t1 = t1  t2 = t2  me = me  other = other  b1 = b1  b2 = b2  page = page
  None = None
  Sprints = {s1, s2, s3, s4}
  Tasks = {t1, t2}
  Users = {me, other}
  Boards = {b1, b2}
  BoardOwner <- MyBoard
  AdminsOf <- MyAdmins
  Days = {1, 2}
  PatchedDates <- NoDates
  PatchedSprints = {}
  Requests = {page}
  Isolation = "none"
  Page = page
  Me = me
  Home = b1
  Start = 1
  End = 2
  StartSprint <- OpenedSprint
  StartTask <- OpenedTask
  MaxActs = 3
  MaxFailures = 1
INVARIANT PageTypeOK
PROPERTIES Settles OffersWhatIsAccepted
\* the users may stop, and then so does everything else
CHECK_DEADLOCK FALSE
