------------------------ MODULE MCVersionDowngrade ------------------------
(* Instances of VersionDowngrade: a new, an old and no character, two    *)
(* older versions to go back to.                                           *)
EXTENDS VersionDowngrade, TLC

CONSTANTS s1, s2, s3

MCSlots   == {s1, s2, s3}
MCVersions == 0 .. 3
MCTargets == {[char |-> 1, summary |-> 1], [char |-> 2, summary |-> 2]}
MCContents == {[gen |-> 0, chars |-> (s1 :> 3 @@ s2 :> 1 @@ s3 :> 0),
                summary |-> 3, reg |-> TRUE, whole |-> TRUE]}
=============================================================================
