\* The replaced save cannot be opened, and putting it back fails.
CONSTANTS
  s1 = s1
  s2 = s2
  s3 = s3
  None = None
  Slots <- MCSlots
  Versions <- MCVersions
  Targets <- MCTargets
  Contents <- MCContents
  MaxGen = 3
  Env = {"look", "undo"}
SPECIFICATION Spec
PROPERTIES DowngradeIsAtomic
CHECK_DEADLOCK FALSE
