SPECIFICATION Spec
CONSTANTS
  Plain = {w, s}
  Critical = {k}
  Listener = {l}
  Callers = {c1, c2}
  Stubborn = {s}
  Late = {s}
  Generous = {c2}
INVARIANTS TypeOK OkOwesNothing
PROPERTIES FailureCancelsFirst FailureDrains ShutdownAnswers DrainSpec
CHECK_DEADLOCK FALSE
