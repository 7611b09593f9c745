----------------------------- MODULE MCHotkeys -----------------------------
(* Instances of Hotkeys: two named keys, a digit, the slash key, a letter  *)
(* that cannot be read back, and a combination with the Windows key.       *)
EXTENDS Hotkeys, TLC

MCShown   == [k \in Keys |-> IF k = "Win+F5" THEN "F5" ELSE k]
MCDefault == 1 :> "F5" @@ 2 :> "Z"

MCInitInis == {MCDefault, 1 :> "Z" @@ 2 :> "Win+F5", 1 :> "1" @@ 2 :> "F5", 1 :> "?" @@ 2 :> "Z",
               1 :> "Z" @@ 2 :> "F13"}
PlainInis  == {MCDefault}
=============================================================================
