\* Two Runs of two projects, two concurrent calls, one key, one Emergency Stop, crashes; one Run is
\* moved for three versions.
CONSTANTS
  r1 = r1
  r2 = r2
  p1 = p1
  p2 = p2
  c1 = c1
  c2 = c2
  c3 = c3
  Runs = {r1, r2}
  ProjectOf <- TwoProjects
  Keys = {k1}
  NoKey = NoKey
  Calls = {c1, c2}
  Local = {c1}
  CanCrash = TRUE
  MaxVersion <- OneMoves
  MaxStops = 1
SPECIFICATION Spec
INVARIANTS
  LoggedMovesHappened
  OneRunPerKey
PROPERTIES
  AtomicLifecycle
CHECK_DEADLOCK FALSE
