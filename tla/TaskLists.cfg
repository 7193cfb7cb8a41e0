\* two requests at a time, on different lists, free columns: the order of a list
SPECIFICATION Spec
CONSTANTS
  t1 = t1  t2 = t2  t3 = t3  l1 = l1  l2 = l2  l3 = l3  b1 = b1  b2 = b2
  TODO = TODO  DONE = DONE  None = None  r1 = r1  r2 = r2
  Tasks = {t1, t2, t3}
  Lists = {l1, l2}
  Boards = {b1}
  BoardOf <- FreeBoardOf
  ColumnStatus <- FreeColumns
  Status = {DONE}
  Requests = {r1, r2}
  UpdateLists = {}
  Isolation = "list"
  ClientsInRange = TRUE
  LowestPosition = 0
  PositionBound = 3
  MaxFailures = 0
SYMMETRY FreeSymmetry
INVARIANT PositionsDense
PROPERTY ImplementsTaskOrder
\* the supply of task ids ends
CHECK_DEADLOCK FALSE
