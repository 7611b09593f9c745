\* The tree is given a directory that is not there, then one that is.
CONSTANTS
  r1 = r1
  r2 = r2
  Roots <- TwoRoots
  NoRoot = NoRoot
  Present <- OneRoot
  MaxChanges = 0
  MaxShows = 3
  Env = {}
SPECIFICATION FairSpec
PROPERTY Retargets
CHECK_DEADLOCK FALSE
