\* A rotation and another call.
CONSTANTS
  o1 = o1
  o2 = o2
  c1 = c1
  c2 = c2
  Orders = {o1, o2}
  Calls = {c1, c2}
  MaxVersion = 4
  MaxStops = 0
  MaxCrashes = 0
SPECIFICATION Spec
INVARIANTS
  ReleasedOnlyInHandoff
SYMMETRY Symmetry
CHECK_DEADLOCK FALSE
