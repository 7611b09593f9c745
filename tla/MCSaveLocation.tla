--------------------------- MODULE MCSaveLocation ---------------------------
(* Instances of SaveLocation: two games and two account folders, of        *)
(* which Elden Ring takes both and Dark Souls Remastered the second.       *)
EXTENDS SaveLocation

MCListing == <<[digits |-> "decimal", len |-> 17], [digits |-> "decimal", len |-> 8]>>

\* A name that the dialog may also make up.
MCTypedNames == {<<"er", 2>>}

\* One account of Elden Ring at first: it may get an earlier or a later neighbour.
MCInitFiles ==
  {[f \in Paths |-> IF f = <<"er", n>> THEN "v" ELSE IF f = <<"dsr", 2>> THEN "w" ELSE None] :
     n \in Folders}
=============================================================================
