\* two requests at a time on the same tasks, a TODO and a DONE column, any position, one failure
SPECIFICATION Spec
CONSTANTS
  t1 = t1  t2 = t2  t3 = t3  l1 = l1  l2 = l2  l3 = l3  b1 = b1  b2 = b2
  TODO = TODO  DONE = DONE  None = None  r1 = r1  r2 = r2
  Tasks = {t1, t2}
  Lists = {l1, l2}
  Boards = {b1}
  BoardOf <- PairBoardOf
  ColumnStatus <- PairColumns
  Status = {TODO, DONE}
  Requests = {r1, r2}
  UpdateLists = {}
  Isolation = "none"
  ClientsInRange = FALSE
  LowestPosition <- BelowZero
  PositionBound = 1
  MaxFailures = 1
SYMMETRY MappedSymmetry
\* states that differ in the log alone are one
VIEW Tables
INVARIANTS TypeOK ShiftsKeepFloor
PROPERTIES DeletedTasksFrozen MoveAdoptsColumnStatus
\* the supply of task ids ends
CHECK_DEADLOCK FALSE
