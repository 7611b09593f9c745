\* An import of two saves of one name; nothing fails.
CONSTANTS
  a = a
  b = b
  d = d
  h = h
  v = v
  Torn = Torn
  None = None
  Stems = {a, b}
  StampOf <- MCStampOf
  DirStems = {d, h}
  Hidden = {h}
  Data = {v}
  Sources <- SameName
  Library <- Empty
  MaxDepth = 2
  MaxScan = 1
  MaxEntries = 3
  Env = {}
SPECIFICATION Spec
INVARIANTS ImportCountsFiles
