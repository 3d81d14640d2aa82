SPECIFICATION Spec
CONSTANTS
  Plain = {w}
  Critical = {k}
  Listener = {}
  Callers = {c1, c2}
  Stubborn = {}
  Late = {w}
  Generous = {c1}
PROPERTY ClosedTrackerAdmitsNoTask
CHECK_DEADLOCK FALSE
