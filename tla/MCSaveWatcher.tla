--------------------------- MODULE MCSaveWatcher ---------------------------
(* Instances of SaveWatcher: one or two directories, all of them there or  *)
(* one missing.                                                            *)
EXTENDS SaveWatcher

CONSTANTS r1, r2

TwoRoots == {r1, r2}
OneRoot  == {r1}
=============================================================================
