SPECIFICATION Spec
CONSTANTS
  Names <- MCNames
  Trimmed <- MCTrimmed
  TrimmedEnd <- MCTrimmedEnd
  Empty = Empty
  SaveName = "ER0000.sl2"
  Stores <- MCStores
  Configs <- MCConfigs
  Default <- MCDefault
  InitTexts <- MCInitTexts
  None = None
  MaxConfigLines = 20
  MaxStoreLines = 40
  MaxSaves = 3
INVARIANTS
  SettingsSurviveRestart
