\* one user on the page, another one elsewhere, one failure or broken call
SPECIFICATION PageSpec
CONSTANTS
  t1 = t1  t2 = t2  t3 = t3  l1 = l1  l2 = l2  b1 = b1  me = me  other = other
  DONE = DONE  None = None
  Tasks = {t1, t2, t3}
  Lists = {l1, l2}
  Boards = {b1}
  BoardOf <- FreeBoardOf
  ColumnStatus <- FreeColumns
  Status = {DONE}
  Requests = {me, other}
  UpdateLists = {}
  Isolation = "list"
  ClientsInRange = TRUE
  LowestPosition = 0
  PositionBound = 9
  MaxFailures = 1
  Page = me
  StartRow <- OpenedRow
  MaxActs = 3
INVARIANT PageTypeOK
PROPERTY Settles DropsLand
\* the user may stop, and then so does everything else
CHECK_DEADLOCK FALSE
