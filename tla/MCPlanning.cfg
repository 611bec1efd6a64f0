\* Two overlapping calls of each component.
CONSTANTS
  c1 = c1
  c2 = c2
  n1 = n1
  n2 = n2
  n3 = n3
  n4 = n4
  None = None
  Calls = {m1, m2}
  Elsewhere = {m2}
  HeadShas = {"none", "exact", "short", "unknown"}
  Scope = TRUE
  MaxCommits = 1
  MaxStops = 2
  MayCrash = TRUE
  Clients = {c1, c2}
  Keys = {"k"}
  NoKey = NoKey
  Required = {"d"}
  Optional = {}
  Contents <- EmptyOrVerified
  MaxVersion = 2
  MaxActive = 1
  Names = {n1, n2, n3, n4}
  Submitted <- SmallMaps
  MaxNodes = 3
  Requests <- FreeOrAsked
  NoProfile = 0
  Rotators = {c1, c2}
  HeadGiven = {TRUE}
  MaxHead = 1
  MaxPackages = 2
  MaxMoves = 5
  Planners = {m1, m2}
  Criteria = {c1, c2}
  Bindings = {"x"}
  MaxCriteria = 1
  MaxSaved = 1
  MaxOrders = 3
  MaxApprovals = 1
  Reviewers = {m1}
  Refs = {"r"}
  Paths = {"a"}
  Bytes = {x, y}
  Observations = {{}, {"unmet", "drift"}, {"secret", "stub"}, {"unlicensed"}}
  MaxReviewed = 1
  MaxReports = 1
SPECIFICATION PlanningSpec
INVARIANTS
  StopHoldsReplays
  AbandonedLeavesNothing
  OneApprovedOneDraft
  RefusedIffCyclic
  ReasonIsTrue
  FreshIfUndisturbed
  
  GateSeesReviewedBytes
SYMMETRY Symmetry
CHECK_DEADLOCK FALSE
