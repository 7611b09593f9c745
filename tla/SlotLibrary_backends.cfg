\* Every library: the game saves, writes are cut short, containers rot.
CONSTANTS
  s1 = s1
  s2 = s2
  h1 = h1
  h2 = h2
  NoHero = NoHero
  Torn = Torn
  None = None
  Libs = {"er", "ds2", "ds3", "dsr", "sekiro"}
  Slots <- MCSlots
  Heroes <- MCHeroes
  Users = {"own", "other"}
  MaxSaves = 1
  MaxItems = 2
  MaxFaults = 1
  MaxTemps = 2
SYMMETRY Alike
SPECIFICATION Spec
INVARIANTS Consistent TempsComeFromFailure
PROPERTIES RestoredExactly
CHECK_DEADLOCK FALSE
