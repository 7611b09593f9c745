\* The commands of ERSaveManager on two saves: writes fail, the game saves in between.
CONSTANTS
  None = None
  Slots <- MCSlots
  Roots = {"here", "there"}
  Names = {"a", "b", "c"}
  Listings <- MCListings
  FolderUser <- MCFolderUser
  Users = {"me", "friend"}
  Heroes = {"h1", "h2"}
  Texts = {"x", "y"}
  Faces = {"f1", "f2"}
  NpcFaces = {"f2"}
  Foreign <- MCForeign
  InitDisks <- MCInitDisks
  MaxFaults = 1
  MaxCommands = 3
  MaxGame = 1
SPECIFICATION Spec
INVARIANTS OwnersFollowSummary MemoryIsTheSave ListShowsMemory SelectionIsLoaded
PROPERTIES EditsStayInTheirSlot
