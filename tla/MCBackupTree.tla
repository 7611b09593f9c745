---------------------------- MODULE MCBackupTree ----------------------------
(* Instances of BackupTree: two stems, one visible folder and one hidden,  *)
(* libraries of one or two backups, sources that collide or hide.          *)
EXTENDS BackupTree, TLC

CONSTANTS a, b, d, h, v

MCStampOf == [k \in Kinds |-> {a}]

FileA == <<Name(a, "bak")>>
DirD  == <<Name(d, "")>>
AInD  == DirD \o FileA

File(k, locked) == [kind |-> k, data |-> v, ro |-> locked]

Locked == (FileA :> File("full", TRUE)) @@ (DirD :> Folder)
Filed  == (DirD :> Folder) @@ (AInD :> File("slot", FALSE))
MCLibrary == {Locked, Filed}
Empty  == {<<>>}

Other(s)   == [rel |-> <<Name(s, "old")>>, kind |-> "full"]
SameName   == {Other(a), [Other(a) EXCEPT !.rel = FileA]}
HiddenSlot == [rel |-> <<Name(h, ""), Name(b, "bak")>>, kind |-> "slot"]
NoSave     == [rel |-> <<Name(b, "old")>>, kind |-> None]
TooDeep    == [rel |-> <<Name(d, ""), Name(d, ""), Name(b, "bak")>>, kind |-> "full"]
MCSources  == {Other(a), HiddenSlot, NoSave, TooDeep}
=============================================================================
