SPECIFICATION ThrottleSpec
CONSTANTS
  Tasks = {a, b, c, d}
  a = a
  b = b
  c = c
  d = d
  Interval = 2
  LastInstant = 6
SYMMETRY Symmetry
INVARIANTS Spaced
PROPERTIES DiscardJustified
CHECK_DEADLOCK FALSE
