\* A digit is chosen in the dialog; no other program takes a key.
CONSTANTS
  None = None
  Last = 2
  Keys = {"F5", "Z", "Q", "1", "/", "Win+F5"}
  Named = {"F5", "Z", "Q", "Win+F5"}
  Slash = "/"
  Unreadable = {"Q", "F13"}
  Shown <- MCShown
  Default <- MCDefault
  InitInis <- PlainInis
  MaxGrabs = 0
  MaxEdits = 1
SPECIFICATION HotkeysSpec
INVARIANTS ChosenKeysFire
