\* Failures, crashes and saves of the game at every stage.
CONSTANTS
  s1 = s1
  s2 = s2
  s3 = s3
  None = None
  Slots <- MCSlots
  Versions <- MCVersions
  Targets <- MCTargets
  Contents <- MCContents
  MaxGen = 3
  Env = {"write", "replace", "look", "undo", "remove", "crash"}
SPECIFICATION Spec
INVARIANTS NothingLost MemoryFollowsSave
PROPERTIES FailureIsUndone
CHECK_DEADLOCK FALSE
