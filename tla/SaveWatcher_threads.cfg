\* Both threads, two directories of which one is missing at first, changes, deletions and a directory that does not open.
CONSTANTS
  r1 = r1
  r2 = r2
  Roots <- TwoRoots
  NoRoot = NoRoot
  Present <- OneRoot
  MaxChanges = 3
  MaxShows = 3
  Env = {"remove", "hang"}
SPECIFICATION FairSpec
INVARIANT NoChangeForgotten
INVARIANT RequestsKept
PROPERTY ChangesReachTree
PROPERTY FollowsTree
PROPERTY StopReturns
CHECK_DEADLOCK FALSE
