\* two requests at a time, on different tasks: status, columns, log
SPECIFICATION Spec
CONSTANTS
  t1 = t1  t2 = t2  t3 = t3  l1 = l1  l2 = l2  l3 = l3  b1 = b1  b2 = b2
  TODO = TODO  DONE = DONE  None = None  r1 = r1  r2 = r2
  Tasks = {t1, t2}
  Lists = {l1, l2, l3}
  Boards = {b1, b2}
  BoardOf <- MappedBoardOf
  ColumnStatus <- MappedColumns
  Status = {TODO, DONE}
  Requests = {r1, r2}
  UpdateLists = {l1}
  Isolation = "task"
  ClientsInRange = TRUE
  LowestPosition = 0
  PositionBound = 2
  MaxFailures = 1
SYMMETRY MappedSymmetry
INVARIANTS CompletedIffDone AuditTrailAgrees
PROPERTIES StatusMovesToColumn AutomationKeepsBoard
\* the supply of task ids ends
CHECK_DEADLOCK FALSE
