SPECIFICATION Spec
CONSTANTS
  Width = 2
  MaxTime = 5
  Policies <- MCPolicies
INVARIANTS TypeOK BudgetIsExact BackoffFollowsStreak CancelWins
PROPERTIES PacedStarts NoStartAfterCancel CancelStops
CHECK_DEADLOCK FALSE
