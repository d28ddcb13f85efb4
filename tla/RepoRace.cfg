SPECIFICATION WriteSpec
CONSTANTS
  k1 = k1
  k2 = k2
  k3 = k3
  Key = {k1, k2}
  Content = {a, b}
  Nodes <- APair
  Gone = Gone
  Writer = {w1, w2}
  MaxCommits = 3
  MaxCrashes = 0
SYMMETRY Symmetry
CHECK_DEADLOCK FALSE
INVARIANT RepoReadable
