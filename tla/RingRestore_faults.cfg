\* Two backup profiles over one save, backups of every format, crashes and failing file operations.
CONSTANTS
  s1 = s1
  s2 = s2
  c1 = c1
  c2 = c2
  Torn = Torn
  None = None
  Roots = {r1, r2}
  Slots <- MCSlots
  Chars <- MCChars
  Backups <- AllBackups
  RingSizes = {1, 2}
  ListCap = 64
  Times <- Times3
  MaxAttempts = 5
  Env = {"crash", "io", "meta"}
SPECIFICATION Spec
INVARIANT UndoSurvivesAttempts
PROPERTIES SnapshotBeforeOverwrite ImplementsUndoableSave
CHECK_DEADLOCK FALSE
