\* Two Runs dispatched from two processes, one Emergency Stop, one crash.
CONSTANTS
  r1 = r1
  r2 = r2
  p1 = p1
  p2 = p2
  x1 = x1
  x2 = x2
  c1 = c1
  c2 = c2
  Runs = {r1, r2}
  Profiles = {p1, p2}
  Processes = {x1, x2}
  Calls = {c1, c2}
  RunOf <- OwnRun
  ProcOf <- TwoProcesses
  StopProc = x1
  None = None
  MaxStops = 1
  MaxOwner = 0
  MaxCrashes = 1
SPECIFICATION Spec
INVARIANTS
  OneBuilderUntilResume
  OneSwitch
  ReturnedHoldsNothing
  StopReachesLocalBuilders
SYMMETRY ProfileSymmetry
CHECK_DEADLOCK FALSE
