--------------------------- MODULE MCProfileStore ---------------------------
(* Instances of ProfileStore: two directories, "Main" and one other name,  *)
(* stores of a few profiles.                                               *)
EXTENDS ProfileStore

CONSTANTS Main, Route, D1, D2

MCPlaces == {D1, D2}
OnePlace == {D1}
MCNames == {Main, Route}
OneName == {Main}
=============================================================================
