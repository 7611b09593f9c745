--------------------------- MODULE MCSlotLibrary ---------------------------
(* Instances of SlotLibrary: two slots, two heroes, one or two accounts.   *)
EXTENDS SlotLibrary, TLC

CONSTANTS s1, s2, h1, h2

MCSlots  == {s1, s2}
MCHeroes == {h1, h2}
Alike    == Permutations(MCSlots) \cup Permutations(MCHeroes)
=============================================================================
