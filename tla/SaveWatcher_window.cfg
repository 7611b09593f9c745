\* One directory, one change.
CONSTANTS
  r1 = r1
  r2 = r2
  Roots <- OneRoot
  NoRoot = NoRoot
  Present <- OneRoot
  MaxChanges = 1
  MaxShows = 1
  Env = {}
SPECIFICATION FairSpec
PROPERTY TreeMirrorsDisk
CHECK_DEADLOCK FALSE
