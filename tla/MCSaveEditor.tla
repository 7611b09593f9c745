---------------------------- MODULE MCSaveEditor ----------------------------
(* Instances of SaveEditor: two folders, the first with two saves, the     *)
(* second with a file that does not parse; in each save one slot is used   *)
(* and one is free.  A scan finds the two saves, or only the second when   *)
(* the first one is no file that parses.                                   *)
EXTENDS SaveEditor, TLC

MCSlots      == 1 .. 2
MCListings   == "here" :> {<<"a", "b">>, <<"b">>} @@ "there" :> {<<"c">>}
MCFolderUser == [n \in Names |-> "me"]

Hero(h, u) == "hero" :> h @@ "name" :> "x" @@ "dlc" :> FALSE @@ "owner" :> u
MCForeign  == {[Hero("h2", "friend") EXCEPT !["name"] = "y"]}

SaveOf(u) ==
  LET summary == [x \in SummaryFields |->
                    CASE x[1] = "user" -> u [] x[1] = "face" -> "f1"
                      [] x[1] = "profile" -> "x" [] x[1] = "used" -> x[2] = 2]
  IN  [p \in Places |-> LET b == IF p = Summary THEN summary ELSE Hero("h1", u)
                        IN  [body |-> b, sum |-> b]]

MCInitDisks ==
  {[s \in Saves |-> IF s[2] = "a" THEN SaveOf(u) ELSE IF s[2] = "b" THEN SaveOf(v) ELSE None] :
     u \in {"me"}, v \in {"friend"}}
=============================================================================
