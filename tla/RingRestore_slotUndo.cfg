\* A slot restore, then undo; nothing fails.
CONSTANTS
  s1 = s1
  s2 = s2
  c1 = c1
  c2 = c2
  Torn = Torn
  None = None
  Roots = {r1}
  Slots <- MCSlots
  Chars <- MCChars
  Backups <- SlotOnly
  RingSizes = {3}
  ListCap = 64
  Times <- Times3
  MaxAttempts = 5
  Env = {}
SPECIFICATION Spec
INVARIANTS CompletedRestoreIsUndoable
CHECK_DEADLOCK FALSE
