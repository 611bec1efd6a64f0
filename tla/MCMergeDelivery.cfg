\* Two merge calls, one in the process of Emergency Stop; two heads, one of them reviewed;
\* two base branches, one of them granted.
CONSTANTS
  main = main
  dev = dev
  h1 = h1
  h2 = h2
  Callers = {c1, c2}
  Owners = {o1}
  Scopes = {main, dev}
  Granted = {main}
  MaxInvocations = 1
  Heads = {h1, h2}
  Reviewed = {h1}
  Previewed <- OneKey
  Reported = {"MERGED"}
  Local = {c1}
  MaxStops = 1
SPECIFICATION Spec
INVARIANTS
  MergeIsRecorded
  MergedIsReviewed
  RecordsAreTrue
PROPERTIES
  ClosedStaysClosed
  StopHoldsMerges
CHECK_DEADLOCK FALSE
