\* Elden Ring: a restore is cut short, the next one seals what it left.
CONSTANTS
  s1 = s1
  s2 = s2
  h1 = h1
  h2 = h2
  NoHero = NoHero
  Torn = Torn
  None = None
  Libs = {"er"}
  Slots <- MCSlots
  Heroes <- MCHeroes
  Users = {"own", "other"}
  MaxSaves = 1
  MaxItems = 2
  MaxFaults = 1
  MaxTemps = 1
SPECIFICATION Spec
INVARIANTS ValidSumsMeanWholeContent
CHECK_DEADLOCK FALSE
