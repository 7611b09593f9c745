--------------------------- MODULE MCSettingsText ---------------------------
(***************************************************************************)
(* The instance for TLC: profiles of up to two games, names that begin and *)
(* end in a blank, and a file of the version that stored directories.      *)
(***************************************************************************)
EXTENDS SettingsText

MCNames      == {"main", "second", "second ", " third", "third", Empty}
MCTrimmedEnd == [n \in MCNames |-> IF n = "second " THEN "second" ELSE n]
MCTrimmed    == [n \in MCNames |-> IF n = " third" THEN "third" ELSE MCTrimmedEnd[n]]

Game(i, n)      == [id |-> i, name |-> n, root |-> <<"library", n>>, file |-> <<"game", SaveName>>]
Backup(i, g, n, l) == [id |-> i, parent |-> g, name |-> n, level |-> l]

MCStores ==
  {NoStore,
   [games |-> <<Game(1, "main")>>, backups |-> <<Backup(1, 1, "main", "low")>>,
    activeGame |-> 1, activeBackup |-> 1],
   [games |-> <<Game(3, "second ")>>, backups |-> <<>>, activeGame |-> 3, activeBackup |-> 0],
   [games |-> <<Game(1, "main"), Game(2, "second")>>,
    backups |-> <<Backup(2, 2, "second ", "none"), Backup(4, 1, "main", "high")>>,
    activeGame |-> 2, activeBackup |-> 2],
   [games |-> <<Game(1, " third")>>, backups |-> <<Backup(3, 1, " third", "medium")>>,
    activeGame |-> 1, activeBackup |-> 3]}

MCDefault == [root |-> <<"documents", "praxis">>, ring |-> 5, keys |-> "F9", theme |-> 0]

MCConfigs == {MCDefault, [MCDefault EXCEPT !.ring = 2, !.keys = Empty, !.theme = 2]}

MCInitTexts ==
  {None,
   <<Section("Settings", 0), Pair("TreeRoot", <<"old">>), Pair("RingSize", Empty),
     Pair("Theme", 7)>>,
   <<Section("GameProfile", 2), Pair("OriginalSaveDir", <<"game">>), Pair("Name", "second "),
     Pair("TreeRoot", <<"library">>),
     Section("Other", 0), Pair("TreeRoot", <<"elsewhere">>),
     Section("BackupProfile", 1), Pair("ParentGameId", 2), Pair("Name", "main"),
     Pair("CompressionLevel", "5"),
     Section("BackupProfile", 0), Pair("Name", "second"),
     Section("Settings", 0), Pair("ActiveBackupProfileId", 1), Pair("Theme", 1)>>}
=============================================================================
