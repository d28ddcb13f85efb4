SPECIFICATION SerialSpec
CONSTANTS
  k1 = k1
  k2 = k2
  k3 = k3
  Key = {k1, k2, k3}
  Content = {a, b}
  Nodes <- TwoSubtrees
  Gone = Gone
  Writer = {w1, w2}
  MaxCommits = 4
  MaxCrashes = 1
SYMMETRY Symmetry
CHECK_DEADLOCK FALSE
INVARIANTS
  TypeOK
  RepoReadable
  NothingLeaks
  NoCommitLost
  IndexFollows
