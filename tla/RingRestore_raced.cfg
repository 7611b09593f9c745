\* The game saves between the snapshot of a restore and the restore; nothing else goes wrong.
CONSTANTS
  s1 = s1
  s2 = s2
  c1 = c1
  c2 = c2
  Torn = Torn
  None = None
  Roots = {r1}
  Slots <- OneSlot
  Chars <- MCChars
  Backups <- PlainBackups
  RingSizes = {3}
  ListCap = 3
  Times <- Times3
  MaxAttempts = 5
  Env = {"game"}
SPECIFICATION Spec
PROPERTIES UndoIsInverse
CHECK_DEADLOCK FALSE
