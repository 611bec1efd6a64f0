\* Two orders of one worktree, two overlapping calls, one Emergency Stop, one crash.
CONSTANTS
  o1 = o1
  o2 = o2
  c1 = c1
  c2 = c2
  Orders = {o1, o2}
  Calls = {c1, c2}
  MaxVersion = 5
  MaxStops = 1
  MaxCrashes = 1
SPECIFICATION Spec
INVARIANTS
  OneActiveUntilStop
  NamedLeaseIsActive
  RestingNamesNoLease
  NoOrphanLease
SYMMETRY Symmetry
CHECK_DEADLOCK FALSE
