SPECIFICATION Spec
CONSTANTS
  Jobs = {a, b, c, d, e}
  Endless = {e}
  Cap = 2
  Threads = 1
  a = a
  b = b
  c = c
  d = d
  e = e
CHECK_DEADLOCK FALSE
INVARIANTS TypeOK PermitsConserved JoinSetBounded WaitsOnlyWhenFull
PROPERTIES SubmitResumes JoinEnds PoolSpec
