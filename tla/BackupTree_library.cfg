\* The tree, the backup commands and imports, with kills, failures and other programs.
CONSTANTS
  a = a
  b = b
  d = d
  h = h
  v = v
  Torn = Torn
  None = None
  Stems = {a, b}
  StampOf <- MCStampOf
  DirStems = {d, h}
  Hidden = {h}
  Data = {v}
  Sources <- MCSources
  Library <- MCLibrary
  MaxDepth = 2
  MaxScan = 1
  MaxEntries = 3
  Env = {"crash", "io", "others"}
SPECIFICATION Spec
INVARIANTS FreshStaysSelected HandlesLive
PROPERTIES ReadOnlyKept ReplaceOldOrNew
