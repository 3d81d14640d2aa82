SPECIFICATION Spec
CONSTANTS
  Plain = {w}
  Critical = {k}
  Listener = {l}
  Callers = {c1}
  Stubborn = {}
  Late = {}
  Generous = {c1}
PROPERTY ShutdownOutlivesListener
CHECK_DEADLOCK FALSE
