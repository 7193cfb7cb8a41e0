\* requests about different columns, tasks and labels; one may end half way;
\* two boards, between which columns and the task move; clients send position 0 or 1,
\* taken or not
SPECIFICATION Spec
CONSTANTS
  t1 = t1  l1 = l1  l2 = l2  g1 = g1  b1 = b1  b2 = b2  r1 = r1  r2 = r2
  None = None
  Tasks = {t1}
  Lists = {l1, l2}
  Labels = {g1}
  Boards = {b1, b2}
  LabelBoard <- LabelsOnFirst
  ClientPositions = {0, 1}
  Requests = {r1, r2}
  Isolation = "apart"
  MaxFailures = 1
SYMMETRY Symmetry
INVARIANTS TypeOK RemovalNeverBlocked HistoryKept ColumnsApart
\* the supply of ids ends
CHECK_DEADLOCK FALSE
