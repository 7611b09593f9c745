---------------------------- MODULE SettingsText ----------------------------
(***************************************************************************)
(* Praxis.ini as a text: what profile_store_io_save writes, how            *)
(* praxis_load_config and profile_store_io_load read it, each for itself   *)
(* and each with a limit of its own, and the save by way of a temporary    *)
(* file.  ProfileStore has the same file as one value; here it is lines,   *)
(* and a save is a write that may stop anywhere and a renaming.            *)
(*                                                                         *)
(* Both readers see the sections of the other, and the keys TreeRoot and   *)
(* Name occur in several of them.  The stores are sound: the repairs of    *)
(* profile_store_io_load are ProfileStore's.                               *)
(*                                                                         *)
(* The 1023 bytes that a reader takes of a value are no limit here: the    *)
(* longest that a save writes is a path of 259 characters, of three bytes  *)
(* each.  Longer values, which only an editor writes, are left out.        *)
(***************************************************************************)
EXTENDS Integers, SequencesExt

CONSTANTS
  Names,           \* the names of profiles
  Trimmed,         \* a name without the blanks around it
  TrimmedEnd,      \* a name without those at its end: one that ends a path
  Empty,           \* the empty text
  SaveName,        \* save_filename of the backend
  Stores,          \* the profile stores that handlers leave behind
  Configs,         \* the settings: [root, ring, keys, theme]
  Default,         \* apply_defaults
  InitTexts,       \* the files of older versions, or edited by hand
  None,            \* no file, nothing saved
  MaxConfigLines,  \* CONFIG_MAX_BYTES, in lines
  MaxStoreLines,   \* PROFILE_STORE_MAX_BYTES, in lines
  MaxSaves         \* bounds the saves

ASSUME SettingsTextAssumption ==
  /\ Trimmed \in [Names -> Names] /\ TrimmedEnd \in [Names -> Names]
  /\ \A n \in Names : {Trimmed[Trimmed[n]], Trimmed[TrimmedEnd[n]]} = {Trimmed[n]}
  /\ Default.theme \in 0 .. 2 /\ \A c \in Configs : c.theme \in 0 .. 2
  /\ \A s \in Stores : \A k \in DOMAIN s.games : s.games[k].id > 0
  /\ \A s \in Stores : \A k \in DOMAIN s.backups : s.backups[k].id > 0
  /\ {MaxConfigLines, MaxStoreLines, MaxSaves} \subseteq Nat

VARIABLES
  store,    \* g_profile_store
  conf,     \* praxis_config
  files,    \* Praxis.ini and Praxis.ini.tmp: sequences of lines, or None
  stage,    \* "off", "idle", or within a save "write" or "move"
  saves,    \* the saves begun
  durable   \* history: the store and the settings of the last save that got through

vars == <<store, conf, files, stage, saves, durable>>

-----------------------------------------------------------------------------
(***************************************************************************)
(* Lines.                                                                  *)
(***************************************************************************)
Section(kind, id) == [section |-> kind, id |-> id]
Pair(key, val)    == [key |-> key, val |-> val]
IsSection(line)   == "section" \in DOMAIN line

(***************************************************************************)
(* Writing.  The root of the active backup profile stands under the        *)
(* settings as TreeRoot, for older versions.                               *)
(***************************************************************************)
WithId(table, i) == {k \in DOMAIN table : table[k].id = i}

RootOf(s) ==
  {Append(s.games[g].root, s.backups[b].name) :
     <<b, g>> \in {x \in WithId(s.backups, s.activeBackup) \X DOMAIN s.games :
                     s.games[x[2]].id = s.backups[x[1]].parent}}

LegacyRoot(s, c) == IF RootOf(s) = {} THEN c.root ELSE CHOOSE r \in RootOf(s) : TRUE

SettingsLines(s, c) ==
  <<Section("Settings", 0), Pair("TreeRoot", LegacyRoot(s, c)), Pair("RingSize", c.ring),
    Pair("HotkeyRestore", c.keys), Pair("ActiveGameProfileId", s.activeGame),
    Pair("ActiveBackupProfileId", s.activeBackup), Pair("Theme", c.theme)>>

GameLines(g) ==
  <<Section("GameProfile", g.id), Pair("Name", g.name), Pair("OriginalSaveFile", g.file),
    Pair("TreeRoot", g.root)>>

BackupLines(b) ==
  <<Section("BackupProfile", b.id), Pair("ParentGameId", b.parent), Pair("Name", b.name),
    Pair("CompressionLevel", b.level)>>

Text(s, c) ==
  SettingsLines(s, c)
  \o FlattenSeq([k \in DOMAIN s.games |-> GameLines(s.games[k])])
  \o FlattenSeq([k \in DOMAIN s.backups |-> BackupLines(s.backups[k])])

(***************************************************************************)
(* Reading.  Values lose the blanks around them.  A path begins with a     *)
(* drive, and loses those at its end alone.                                *)
(***************************************************************************)
TrimmedPath(p) ==
  IF p # <<>> /\ Last(p) \in Names THEN [p EXCEPT ![Len(p)] = TrimmedEnd[@]] ELSE p

\* kv_callback: one pair of the settings.
Setting(c, line) ==
  CASE line.key = "TreeRoot"      -> [c EXCEPT !.root = TrimmedPath(line.val)]
    [] line.key = "RingSize"      -> [c EXCEPT !.ring = IF line.val = Empty THEN 5 ELSE line.val]
    [] line.key = "HotkeyRestore" -> [c EXCEPT !.keys = line.val]
    [] line.key = "Theme"         -> [c EXCEPT !.theme = IF line.val \in 0 .. 2 THEN line.val ELSE 0]
    [] OTHER                      -> c

\* A wrong version of SettingsStep: once in the settings, always in the settings.
SettingsStepOn(r, line) ==
  IF IsSection(line) THEN [r EXCEPT !.inside = @ \/ line.section = "Settings"]
  ELSE IF r.inside THEN [r EXCEPT !.conf = Setting(@, line)]
  ELSE r

\* config_core_parse_ini looks at the settings alone.
SettingsStep(r, line) ==
  IF IsSection(line) THEN [r EXCEPT !.inside = (line.section = "Settings")]
  ELSE IF r.inside THEN [r EXCEPT !.conf = Setting(@, line)]
  ELSE r

ReadConfig(text) ==
  IF text = None \/ Len(text) > MaxConfigLines THEN Default
  ELSE FoldLeft(SettingsStep, [inside |-> FALSE, conf |-> Default], text).conf

(* load_section_cb and load_kv_cb: the profile of the current section is   *)
(* gathered in cur and stored when the next section begins.                *)
NoProfile == [name |-> Empty, root |-> <<>>, file |-> <<>>, dir |-> FALSE,
              parent |-> 0, level |-> "medium"]

NoStore == [games |-> <<>>, backups |-> <<>>, activeGame |-> 0, activeBackup |-> 0]

\* Up to some version the directory of the save was stored.
Upgraded(cur) == IF cur.dir /\ cur.file # <<>> THEN Append(cur.file, SaveName) ELSE cur.file

Committed(r) ==
  IF r.id <= 0 THEN r.store
  ELSE CASE r.kind = "GameProfile" ->
              [r.store EXCEPT !.games = Append(@, [id |-> r.id, name |-> r.cur.name,
                                                   root |-> r.cur.root, file |-> Upgraded(r.cur)])]
         [] r.kind = "BackupProfile" ->
              [r.store EXCEPT !.backups = Append(@, [id |-> r.id, parent |-> r.cur.parent,
                                                     name |-> r.cur.name, level |-> r.cur.level])]
         [] OTHER -> r.store

OnSection(r, line) == [store |-> Committed(r), kind |-> line.section, id |-> line.id,
                       cur |-> NoProfile]

Level(val) == IF val \in {"none", "medium", "high"} THEN val ELSE "low"

OnGamePair(cur, line) ==
  CASE line.key = "Name"             -> [cur EXCEPT !.name = Trimmed[line.val]]
    [] line.key = "OriginalSaveFile" -> [cur EXCEPT !.file = TrimmedPath(line.val), !.dir = FALSE]
    [] line.key = "OriginalSaveDir"  -> [cur EXCEPT !.file = TrimmedPath(line.val), !.dir = TRUE]
    [] line.key = "TreeRoot"         -> [cur EXCEPT !.root = TrimmedPath(line.val)]
    [] OTHER                         -> cur

OnBackupPair(cur, line) ==
  CASE line.key = "ParentGameId"     -> [cur EXCEPT !.parent = line.val]
    [] line.key = "Name"             -> [cur EXCEPT !.name = Trimmed[line.val]]
    [] line.key = "CompressionLevel" -> [cur EXCEPT !.level = Level(line.val)]
    [] OTHER                         -> cur

OnPair(r, line) ==
  CASE r.kind = "Settings" /\ line.key = "ActiveGameProfileId" ->
         [r EXCEPT !.store.activeGame = line.val]
    [] r.kind = "Settings" /\ line.key = "ActiveBackupProfileId" ->
         [r EXCEPT !.store.activeBackup = line.val]
    [] r.kind = "GameProfile"   -> [r EXCEPT !.cur = OnGamePair(@, line)]
    [] r.kind = "BackupProfile" -> [r EXCEPT !.cur = OnBackupPair(@, line)]
    [] OTHER -> r

\* config_core_parse_ini_ex with these callbacks.
StoreStep(r, line) == IF IsSection(line) THEN OnSection(r, line) ELSE OnPair(r, line)

ReadStore(text) ==
  IF text = None \/ Len(text) > MaxStoreLines THEN NoStore
  ELSE Committed(FoldLeft(StoreStep,
                          [store |-> NoStore, kind |-> "", id |-> 0, cur |-> NoProfile], text))

-----------------------------------------------------------------------------
(***************************************************************************)
(* The program.                                                            *)
(***************************************************************************)
Start ==
  /\ stage = "off" /\ stage' = "idle"
  /\ conf' = ReadConfig(files["ini"]) /\ store' = ReadStore(files["ini"])
  /\ UNCHANGED <<files, saves, durable>>

\* What the handlers make of the store and of the settings before they save.
Handle ==
  /\ stage = "idle"
  /\ \/ store' \in Stores /\ UNCHANGED conf
     \/ conf' \in {[c EXCEPT !.root = conf.root] : c \in Configs} /\ UNCHANGED store
  /\ UNCHANGED <<files, stage, saves, durable>>

Target == "tmp"

BeginSave ==
  /\ stage = "idle" /\ saves < MaxSaves
  /\ saves' = saves + 1
  /\ stage' = "write"
  /\ UNCHANGED <<store, conf, files, durable>>

WriteFile ==
  /\ stage = "write" /\ stage' = "move"
  /\ files' = [files EXCEPT ![Target] = Text(store, conf)]
  /\ UNCHANGED <<store, conf, saves, durable>>

\* Some of the lines are written, of the last one maybe a part.
PartWritten ==
  \E k \in 0 .. Len(Text(store, conf)) - 1 :
    files' = [files EXCEPT ![Target] = SubSeq(Text(store, conf), 1, k)]

\* The file cannot be opened, or not all of it written.  What is there of it stays.
WriteFileFails ==
  /\ stage = "write" /\ stage' = "idle"
  /\ UNCHANGED files \/ PartWritten
  /\ UNCHANGED <<store, conf, saves, durable>>

Move ==
  /\ stage = "move" /\ stage' = "idle"
  /\ files' = [files EXCEPT !["ini"] = files[Target], !["tmp"] = None]
  /\ durable' = [store |-> store, conf |-> conf]
  /\ UNCHANGED <<store, conf, saves>>

MoveFails ==
  /\ stage = "move" /\ stage' = "idle"
  /\ files' = [files EXCEPT !["tmp"] = None]
  /\ UNCHANGED <<store, conf, saves, durable>>

\* WM_CLOSE, after its save; or the process is killed, in a save or outside.
Exit ==
  /\ stage # "off" /\ stage' = "off"
  /\ UNCHANGED files \/ (stage = "write" /\ PartWritten)
  /\ store' = NoStore /\ conf' = Default
  /\ UNCHANGED <<saves, durable>>

Init ==
  /\ \E t \in InitTexts : files = [f \in {"ini", "tmp"} |-> IF f = "ini" THEN t ELSE None]
  /\ store = NoStore /\ conf = Default
  /\ stage = "off" /\ saves = 0 /\ durable = None

Next ==
  \/ Start \/ Handle \/ Exit
  \/ BeginSave \/ WriteFile \/ WriteFileFails \/ Move \/ MoveFails

Spec == Init /\ [][Next]_vars

-----------------------------------------------------------------------------
KeptGames(table) ==
  [k \in DOMAIN table |-> [table[k] EXCEPT !.name = Trimmed[@], !.root = TrimmedPath(@),
                                           !.file = TrimmedPath(@)]]

KeptBackups(table) == [k \in DOMAIN table |-> [table[k] EXCEPT !.name = Trimmed[@]]]

StoreReadBack ==
  LET s == durable.store IN
  Len(files["ini"]) <= MaxStoreLines =>
    ReadStore(files["ini"]) = [s EXCEPT !.games = KeptGames(@), !.backups = KeptBackups(@)]

SettingsReadBack ==
  ReadConfig(files["ini"])
    = [durable.conf EXCEPT !.root = TrimmedPath(LegacyRoot(durable.store, durable.conf))]

(***************************************************************************)
(* Wherever a save is cut short or fails, the next start reads exactly the *)
(* profiles and the settings of the last save that got through: no reader  *)
(* takes up a key of a section that is the other's, and a path that an     *)
(* older version stored is completed once.  The settings must fit their    *)
(* limit (profile_store_io_save, config_core_parse_ini,                    *)
(* config_core_parse_ini_ex).                                              *)
(***************************************************************************)
RestartReadsBack ==
  durable # None =>
    /\ StoreReadBack
    /\ Len(files["ini"]) <= MaxConfigLines => SettingsReadBack

(***************************************************************************)
(* Without that condition: a file that the profiles have outgrown the      *)
(* limit of the settings with is still read for its profiles.              *)
(***************************************************************************)
SettingsSurviveRestart == durable # None => StoreReadBack /\ SettingsReadBack
=============================================================================
