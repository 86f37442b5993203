CONSTANTS
  Labs = {1}
  Templates = {t1}
  NodeOf <- McNodeOf
  Horizon = 2
  MaxLog = 3
  MaxOps = 2
  MaxWriting = 1
SPECIFICATION Spec
INVARIANTS HoursNeverOvercharge CostTiles ReportsAgree
PROPERTY ClosedWindowIsFinal
CHECK_DEADLOCK FALSE
