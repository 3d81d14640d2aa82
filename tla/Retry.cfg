SPECIFICATION Spec
CONSTANTS
  Width = 3
  MaxTime = 8
  Policies <- MCPolicies
INVARIANTS ResultExplained NoLateAttempt
PROPERTIES CancelStops
CHECK_DEADLOCK FALSE
