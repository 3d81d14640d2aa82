SPECIFICATION Spec
CONSTANTS
  c1 = c1
  c2 = c2
  c3 = c3
  c4 = c4
  k1 = k1
  k2 = k2
  Global = g
  Callers = {c1, c2, c3, c4}
  Keys = {k1, k2}
  Path <- MCPath
  Quotas <- MCQuotas
  Second = 2
  MaxTime = 2
INVARIANTS TypeOK QuotaHolds
PROPERTIES RefusalJustified EveryCallRuns LeakySpec
CHECK_DEADLOCK FALSE
