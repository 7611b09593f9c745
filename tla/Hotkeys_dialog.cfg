\* The settings dialog, restarts, and other programs that take keys at any time.
CONSTANTS
  None = None
  Last = 2
  Keys = {"F5", "Z", "Q", "1", "/", "Win+F5"}
  Named = {"F5", "Z", "Q", "Win+F5"}
  Slash = "/"
  Unreadable = {"Q", "F13"}
  Shown <- MCShown
  Default <- MCDefault
  InitInis <- MCInitInis
  MaxGrabs = 2
  MaxEdits = 2
SPECIFICATION HotkeysSpec
INVARIANTS RegistryIsSystem MissingAreAccountedFor
