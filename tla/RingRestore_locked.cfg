\* Restores of a raw backup that is marked read-only; nothing fails.
CONSTANTS
  s1 = s1
  s2 = s2
  c1 = c1
  c2 = c2
  Torn = Torn
  None = None
  Roots = {r1}
  Slots <- MCSlots
  Chars <- MCChars
  Backups <- LockedOnly
  RingSizes = {2}
  ListCap = 64
  Times <- Times5
  MaxAttempts = 5
  Env = {}
SPECIFICATION Spec
INVARIANTS RingBounded
CHECK_DEADLOCK FALSE
