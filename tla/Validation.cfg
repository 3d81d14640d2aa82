SPECIFICATION ValidationSpec
CONSTANTS
  MaxLen = 7
  Documents <- MCDocuments
  MaxBody = 6
  Depths = {0, 2}
INVARIANTS VerdictIsRight
CHECK_DEADLOCK FALSE
