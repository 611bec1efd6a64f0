\* Three writers and two reconcile calls on a worktree; two jobs of the Runner and a crash of it;
\* two pipelines over two profiles; three candidates of the orchestrator; one reader or two makers
\* of a workspace; two releases of the code.
CONSTANTS
  Writers = {w1, w2, w3}
  Reconcilers = {q1, q2}
  Ttl = 1
  Grace = 1
  MaxTime = 4
  MaxLeases = 4
  Jobs = {j1, j2}
  Workers = {j1, j2}
  Stubborn = {}
  Items = 2
  ServiceJobs = {j1, j3}
  ServiceWorkers = {}
  ServiceStubborn = {j3}
  ServiceItems = 0
  Ids = {i1, i2}
  MaxCrashes = 1
  Lines = {l1, l2}
  WorktreeOf <- OwnTrees
  Builders = {b1, b2}
  Size = 2
  Corruption = "first"
  Candidates = 3
  Length = 2
  Readers = {c1}
  OtherMakers = {}
  MaxHead = 1
  Makers = {c1, c2}
  OtherReaders = {}
  MaxMakingHead = 0
  Archives <- SmallArchives
  MaxEntries = 2
  Aliases = {b1, b2}
  Windows = {"5h"}
  MaxProbes = 2
  MaxSyncs = 1
  Releases = {6, 7}
  Downgrades = {7}
  None = None
  l1 = l1
  l2 = l2
  t1 = t1
  t2 = t2
  b1 = b1
  b2 = b2
SPECIFICATION HostSpec
INVARIANTS
  OneWriter
  LeaseIsOwn
  EachItemOnce
  InterruptHolds
  EachItemByOne
  ReturnedHoldsNothing
  RepeatedOnlyIfLost
  CleanWasTrue
  RegisteredOnce
  ServesCompleteSchema
  ChosenIsFit
PROPERTIES
  NoTheft
  NoTakeoverOfDirtyTree
SYMMETRY Symmetry
CHECK_DEADLOCK FALSE
