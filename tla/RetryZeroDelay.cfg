SPECIFICATION Spec
CONSTANTS
  Width = 3
  MaxTime = 8
  Policies <- MCPolicies
INVARIANT TokenStopsAttempts
CHECK_DEADLOCK FALSE
