\* An account that is listed earlier gets a save between a backup and its restore.
CONSTANTS
  None = None
  Games = {"er", "dsr"}
  Listing <- MCListing
  Elsewhere = {}
  Roots = {"r"}
  TypedNames <- MCTypedNames
  Contents = {"v", "w"}
  InitFiles <- MCInitFiles
  Torn = Torn
  MaxSuffix = 2
  MaxProfiles = 2
  MaxCommands = 3
  MaxWrites = 2
  MaxFaults = 1
  MaxTyping = 3
  MaxDialogs = 2
SPECIFICATION Spec
PROPERTIES BackupGoesHome
