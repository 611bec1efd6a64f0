\* One Run dispatched twice from one process.
CONSTANTS
  r1 = r1
  r2 = r2
  p1 = p1
  p2 = p2
  x1 = x1
  x2 = x2
  c1 = c1
  c2 = c2
  Runs = {r1}
  Profiles = {p1, p2}
  Processes = {x1}
  Calls = {c1, c2}
  RunOf <- SameRun
  ProcOf <- OneProcess
  StopProc = x1
  None = None
  MaxStops = 0
  MaxOwner = 0
  MaxCrashes = 0
SPECIFICATION Spec
INVARIANTS
  OneBuilderPerRun
SYMMETRY ProfileSymmetry
CHECK_DEADLOCK FALSE
