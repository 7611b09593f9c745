\* Handlers, restarts and kills, with saves of Praxis.ini that may fail unnoticed.
CONSTANTS
  Main = Main
  Route = Route
  D1 = D1
  D2 = D2
  NoTree = NoTree
  Places <- OnePlace
  Names <- MCNames
  MainName <- Main
  MaxGames = 2
  MaxBackups = 3
  MaxId = 3
  Env = {"save"}
SPECIFICATION Spec
INVARIANTS StoreSound TreeShowsActive
PROPERTIES DanglingOnlyWhenFull StartRepairsSelection OnlyDeletionLoses
