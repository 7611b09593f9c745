\* Hotkeys while the game profile manager is open.
CONSTANTS
  Main = Main
  Route = Route
  D1 = D1
  D2 = D2
  NoTree = NoTree
  Places <- MCPlaces
  Names <- MCNames
  MainName <- Main
  MaxGames = 2
  MaxBackups = 3
  MaxId = 3
  Env = {}
SPECIFICATION Spec
INVARIANTS TreeShowsActiveAtHotkeys
