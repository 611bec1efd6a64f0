\* One call at a time, which gives the actual HEAD; two packages.
CONSTANTS
  c1 = c1
  Calls = {c1}
  HeadGiven = {TRUE}
  MaxHead = 1
  MaxPackages = 2
  MaxVersion = 8
SPECIFICATION Spec
INVARIANT ContinuesLatest
CHECK_DEADLOCK FALSE
