\* Profiles are made and edited, accounts come and go, and the hotkeys back up, restore and undo.
CONSTANTS
  None = None
  Games = {"er", "dsr"}
  Listing <- MCListing
  Elsewhere = {}
  Roots = {"r"}
  TypedNames <- MCTypedNames
  Contents = {"v", "w"}
  InitFiles <- MCInitFiles
  Torn = Torn
  MaxSuffix = 2
  MaxProfiles = 2
  MaxCommands = 3
  MaxWrites = 2
  MaxFaults = 1
  MaxTyping = 4
  MaxDialogs = 2
SPECIFICATION Spec
INVARIANTS PickedForItsGame NamesAreRight
PROPERTIES UndoGoesBack DiscoveryMovesForward SuggestedIsDiscovered
