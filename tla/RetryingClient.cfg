SPECIFICATION Spec
CONSTANTS
  Width = 3
  MaxTime = 5
  Asks = {0, 2, 5}
  Policies <- MCPolicies
INVARIANTS DispatchesBounded OutcomeExplained NoLateDispatch
PROPERTIES HonoursServer CancelStops
CHECK_DEADLOCK FALSE
