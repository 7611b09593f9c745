\* A ring that fills up and rotates, with kills and a game that saves at any time.
CONSTANTS
  s1 = s1
  s2 = s2
  c1 = c1
  c2 = c2
  Torn = Torn
  None = None
  Roots = {r1}
  Slots <- OneSlot
  Chars <- MCChars
  Backups <- PlainBackups
  RingSizes = {1, 2, 3}
  ListCap = 3
  Times <- Times5
  MaxAttempts = 5
  Env = {"crash", "game"}
SPECIFICATION Spec
INVARIANTS RingBounded FullRestoreIsUndoable
PROPERTIES UndoBringsBack
CHECK_DEADLOCK FALSE
