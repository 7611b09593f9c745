---------------------------- MODULE SaveLocation ----------------------------
(***************************************************************************)
(* Which save a command of Praxis means.  A game profile names a save file *)
(* or leaves it to its backend, which takes the first account folder that  *)
(* has one: the backends' get_default_save_dir and resolve_save_path.  The *)
(* profiles are edited in the game profile manager and its dialog, while   *)
(* hotkeys go on being served, accounts come and go and the game saves.    *)
(*                                                                         *)
(* A game profile has one backup profile here, "Main", and a backup root   *)
(* holds one backup: ProfileStore has the others, RingRestore the ring,    *)
(* SlotLibrary the backups of single slots.                                *)
(***************************************************************************)
EXTENDS Integers, Sequences, FiniteSets

CONSTANTS
  Games,        \* the registered backends
  Listing,      \* the names of the account folders, in the order they are found
  Elsewhere,    \* other files that a user may pick as the save
  Roots,        \* the directories that a profile may have as its tree_root
  TypedNames,   \* what a user may type as a name
  Contents,     \* what a save may hold
  InitFiles,    \* what the saves may be at first
  Torn,         \* what a save holds whose writing was cut short
  MaxSuffix,    \* the last suffix that is tried: 99 in the code
  MaxProfiles,  \* MAX_GAME_PROFILES
  MaxCommands,  \* bounds the backups, restores and undos
  MaxWrites,    \* bounds the saves of the game
  MaxFaults,    \* bounds the commands that fail or are cut short half-way
  MaxTyping,    \* bounds what is typed and picked in the dialogs
  MaxDialogs,   \* bounds the dialogs
  None          \* no file, the empty text, no profile, no dialog

(***************************************************************************)
(* Account folders: [digits, len], digits "decimal", "hex" or "other".     *)
(***************************************************************************)
FolderNames == [digits : {"decimal", "hex", "other"}, len : Nat \ {0}]
Folders == DOMAIN Listing
Accounts == Games \X Folders
Paths == Accounts \cup Elsewhere

ASSUME SaveLocationAssumption ==
  /\ Games \subseteq {"er", "ds3", "dsr", "ds2", "sekiro"} /\ "er" \in Games
  /\ Listing \in Seq(FolderNames)
  /\ Elsewhere \cap Accounts = {} /\ None \notin Paths \cup Roots \cup Contents \cup Nat
  /\ InitFiles \subseteq [Paths -> Contents \cup {None}] /\ Torn \notin Contents \cup {None}
  /\ {MaxSuffix, MaxProfiles, MaxCommands, MaxWrites, MaxFaults, MaxTyping,
      MaxDialogs} \subseteq Nat

VARIABLES
  files,     \* the save files: what each holds, or None
  profiles,  \* the game profiles, by their ids
  nextId,    \* the id of the next one
  active,    \* the active game profile, or None
  tree,      \* the root that the save tree shows, or None
  kept,      \* the backup of each root, or None
  meta,      \* last_restore.txt of each root: the save that was overwritten, what it held
  faults,    \* commands that failed or were cut short half-way
  manager,   \* the game profile manager is open
  rows,      \* its list: the profiles as they are shown
  dialog,    \* the game profile dialog, or None
  commands, writes, typing, dialogs,  \* what has been commanded, saved, typed, opened
  typed,     \* history: the name that was typed last in the dialog and is not automatic
  over,      \* history: of each root, what commands overwrote since the one noted down last
  edited     \* history: the profiles whose dialog was opened again and confirmed

disks == <<files, kept, meta, over, commands, writes, faults>>
store == <<profiles, nextId, active, edited>>
vars == <<disks, store, tree, manager, rows, dialog, dialogs, typing, typed>>

-----------------------------------------------------------------------------
(***************************************************************************)
(* The backends.                                                           *)
(***************************************************************************)
\* The folders whose names each backend accepts.
Decimal == {n \in Folders : Listing[n].digits = "decimal"}
Hex == {n \in Folders : Listing[n].digits \in {"decimal", "hex"}}
UpTo(k)  == {n \in Folders : Listing[n].len <= k}
Sixteen == {n \in Folders : Listing[n].len = 16}

\* A wrong version of FirstWith: the search goes on to the last folder.
FirstWithLast(g, valid) ==
  LET found == {n \in valid : files[<<g, n>>] # None}
  IN  IF found = {} THEN None ELSE CHOOSE n \in found : \A m \in found : m <= n

\* The first of these folders that has the save of game g.
FirstWith(g, valid) ==
  LET found == {n \in valid : files[<<g, n>>] # None}
  IN  IF found = {} THEN None ELSE CHOOSE n \in found : \A m \in found : n <= m

\* A wrong version of dsr_get_default_save_dir: the length of the name is not looked at.
dsr_default_of_any_length == FirstWith("dsr", Decimal)

\* The directories in which a file picker opens.
er_get_default_save_dir == FirstWith("er", Decimal)
ds3_get_default_save_dir == FirstWith("ds3", Hex)
dsr_get_default_save_dir == FirstWith("dsr", Decimal \cap UpTo(10))
ds2_get_default_save_dir == FirstWith("ds2", Hex \cap Sixteen)
sekiro_get_default_save_dir == FirstWith("sekiro", Decimal \cap UpTo(20))

\* The save in the folder that is found: each backend repeats its search.
SaveIn(g, n) == IF n = None THEN None ELSE <<g, n>>

er_resolve_save_path == SaveIn("er", FirstWith("er", Decimal))
ds3_resolve_save_path == SaveIn("ds3", FirstWith("ds3", Hex))
dsr_resolve_save_path == SaveIn("dsr", FirstWith("dsr", Decimal \cap UpTo(10)))
ds2_resolve_save_path == SaveIn("ds2", FirstWith("ds2", Hex \cap Sixteen))
sekiro_resolve_save_path == SaveIn("sekiro", FirstWith("sekiro", Decimal \cap UpTo(20)))

\* backend_registry_get_by_id and the entries of the tables it returns.
DefaultDir(g) ==
  CASE g = "er"  -> er_get_default_save_dir  [] g = "ds3" -> ds3_get_default_save_dir
    [] g = "dsr" -> dsr_get_default_save_dir [] g = "ds2" -> ds2_get_default_save_dir
    [] g = "sekiro" -> sekiro_get_default_save_dir

Discovered(g) ==
  CASE g = "er"  -> er_resolve_save_path  [] g = "ds3" -> ds3_resolve_save_path
    [] g = "dsr" -> dsr_resolve_save_path [] g = "ds2" -> ds2_resolve_save_path
    [] g = "sekiro" -> sekiro_resolve_save_path

-----------------------------------------------------------------------------
(***************************************************************************)
(* The commands; each one is a step, as it runs on the UI thread.  They    *)
(* are served while the manager or the dialog is open, too.                *)
(***************************************************************************)
\* resolve_save_path_for.
SaveOf(p) == IF p.save # None THEN p.save ELSE Discovered(p.game)

Present(f) == f # None /\ files[f] # None

Command == active # None /\ commands < MaxCommands /\ commands' = commands + 1

\* The accounts of game g that have a save.
Playing(g) == {n \in Folders : files[<<g, n>>] # None}

\* The new backup goes where the tree is, or to the root of the profile.
BackupFull ==
  /\ Command
  /\ LET p == profiles[active]
         f == SaveOf(p)
     IN  /\ Present(f)
         /\ kept' = [kept EXCEPT ![IF tree # None THEN tree ELSE p.root] =
                       [data |-> files[f], from |-> f, by |-> p, among |-> Playing(p.game)]]
  /\ UNCHANGED <<files, meta, over, writes, faults, store, tree, manager, rows, dialog, dialogs, typing, typed>>

\* restore_safe_full goes through (a command that stops before it changes a save, because a
\* snapshot or a copy fails, is a stuttering step): m, which is snapshotted, is overwritten and noted down.
Noted(m, data, root) ==
  /\ files' = [files EXCEPT ![m.save] = data]
  /\ meta' = [meta EXCEPT ![root] = m] /\ over' = [over EXCEPT ![root] = {m}]
  /\ UNCHANGED faults

\* It does not write the metadata: it is killed before, or write_last_restore_meta fails,
\* which is ignored, and may have emptied the file.  Or the restore itself is cut short.
Unnoted(m, data, root) ==
  /\ faults < MaxFaults /\ faults' = faults + 1
  /\ \/ /\ files' = [files EXCEPT ![m.save] = data]
        /\ meta' \in {meta, [meta EXCEPT ![root] = None]}
     \/ files' = [files EXCEPT ![m.save] = Torn] /\ meta' = meta
  /\ over' = [over EXCEPT ![root] = @ \cup {m}]

Overwritten(f, data, root) ==
  /\ Present(f)
  /\ LET m == [save |-> f, data |-> files[f]] IN Noted(m, data, root) \/ Unnoted(m, data, root)
  /\ UNCHANGED <<kept, writes, store, tree, manager, rows, dialog, dialogs, typing, typed>>

Restore ==
  /\ Command /\ tree # None /\ kept[tree] # None
  /\ Overwritten(SaveOf(profiles[active]), kept[tree].data, profiles[active].root)

\* A wrong version of Undo: it looks for the save of the profile.
UndoOfProfile ==
  /\ Command /\ meta[profiles[active].root] # None
  /\ LET m == meta[profiles[active].root]
     IN  Overwritten(SaveOf(profiles[active]), m.data, profiles[active].root)

Undo ==
  /\ Command /\ meta[profiles[active].root] # None
  /\ LET m == meta[profiles[active].root] IN Overwritten(m.save, m.data, profiles[active].root)

-----------------------------------------------------------------------------
(***************************************************************************)
(* The game profile manager, and the choice of a profile in the window.    *)
(***************************************************************************)
Refreshed == profiles'

RootShown(t) == IF active' = None THEN t ELSE profiles'[active'].root

PickProfile(i) ==
  /\ ~manager /\ active' = i /\ tree' = profiles[i].root
  /\ UNCHANGED <<disks, profiles, nextId, edited, manager, rows, dialog, dialogs, typing, typed>>

OpenManager ==
  /\ ~manager /\ manager' = TRUE /\ rows' = profiles
  /\ UNCHANGED <<disks, store, tree, dialog, dialogs, typing, typed>>

\* The window behind the manager follows when it is closed.
CloseManager ==
  /\ manager /\ dialog = None /\ manager' = FALSE /\ rows' = <<>>
  /\ UNCHANGED <<disks, store, dialog, dialogs, typing, typed>>
  /\ tree' = RootShown(tree)

\* profile_store_delete_game: the first of the others becomes active.
DeleteProfile(i) ==
  /\ manager /\ dialog = None /\ i \in DOMAIN rows
  /\ profiles' = [j \in DOMAIN profiles \ {i} |-> profiles[j]]
  /\ active' = IF active # i THEN active
               ELSE IF DOMAIN profiles' = {} THEN None
               ELSE CHOOSE j \in DOMAIN profiles' : \A k \in DOMAIN profiles' : j <= k
  /\ rows' = Refreshed
  /\ UNCHANGED <<disks, nextId, edited, tree, manager, dialog, dialogs, typing, typed>>

-----------------------------------------------------------------------------
(***************************************************************************)
(* The game profile dialog.  A name is <<game, n>>, the display name with  *)
(* suffix n > 1, or one that was typed.                                    *)
(***************************************************************************)
InUse(n) == \E i \in DOMAIN profiles : profiles[i].name = n

\* A wrong version of UniqueName: the suffix is that of the number of profiles.
UniqueNameByCount(g) == <<g, Cardinality(DOMAIN profiles) + 1>>

\* profile_store_find_unique_game_name: it may fail.
UniqueName(g) ==
  LET free == {k \in 1 .. MaxSuffix : ~InUse(<<g, k>>)}
  IN  IF free = {} THEN None ELSE <<g, CHOOSE k \in free : \A m \in free : k <= m>>

Opened(d) == /\ manager /\ dialog = None /\ dialogs < MaxDialogs /\ dialogs' = dialogs + 1
             /\ dialog' = d /\ typed' = None
             /\ UNCHANGED <<disks, store, tree, manager, rows, typing>>

OpenAdd ==
  Opened([id |-> None, name |-> UniqueName("er"), auto |-> UniqueName("er"),
          game |-> "er", save |-> None, root |-> None, picked |-> None])

OpenEdit(i) ==
  /\ i \in DOMAIN rows
  /\ LET p == profiles[i]
     IN  Opened([id |-> i, name |-> p.name, auto |-> p.name,
                 game |-> p.game, save |-> p.save, root |-> p.root, picked |-> p.picked])

Filled(d) == /\ dialog # None /\ typing < MaxTyping /\ typing' = typing + 1
             /\ dialog' = d
             /\ UNCHANGED <<disks, store, tree, manager, rows, dialogs>>

TypeName(n) ==
  /\ Filled([dialog EXCEPT !.name = n])
  /\ typed' = IF n = dialog.auto THEN None ELSE n

\* Where the file picker opens: egp_browse_save_file.
PickerAt(d) == IF d.save # None THEN d.save ELSE SaveIn(d.game, DefaultDir(d.game))

\* The picked file is that where the picker opened, or any other.
PickSave(f) ==
  /\ files[f] # None
  /\ Filled([dialog EXCEPT !.save = f, !.picked = dialog.game]) /\ UNCHANGED typed

PickSuggested ==
  /\ dialog # None /\ dialog.save = None /\ Present(PickerAt(dialog))
  /\ PickSave(PickerAt(dialog))

ClearSave == Filled([dialog EXCEPT !.save = None, !.picked = None]) /\ UNCHANGED typed

PickRoot(r) == Filled([dialog EXCEPT !.root = r]) /\ UNCHANGED typed

\* The name follows the game as long as it is the automatic one.
Renewed(d, g) ==
  IF d.name = d.auto /\ UniqueName(g) # None
    THEN [d EXCEPT !.game = g, !.name = UniqueName(g), !.auto = UniqueName(g)]
    ELSE [d EXCEPT !.game = g]

\* A wrong version of ChooseGame: the save of the other game stays in the field.
ChooseGameOnly(g) ==
  /\ dialog # None
  /\ Filled(IF dialog.id = None THEN Renewed(dialog, g) ELSE [dialog EXCEPT !.game = g])
  /\ UNCHANGED typed

ChooseGame(g) ==
  /\ dialog # None
  /\ Filled(IF dialog.id = None
              THEN [Renewed(dialog, g) EXCEPT !.save = None, !.picked = None]
              ELSE [dialog EXCEPT !.game = g])
  /\ UNCHANGED typed

Profile(d) == [name |-> d.name, game |-> d.game, save |-> d.save, root |-> d.root,
               picked |-> d.picked]

Closed == dialog' = None /\ typed' = None
          /\ UNCHANGED <<disks, tree, manager, dialogs, typing>>

\* egp_commit, gpm_handle_add: a full store refuses the new profile.
CommitAdd ==
  /\ dialog # None /\ dialog.id = None /\ dialog.name # None /\ dialog.root # None
  /\ IF Cardinality(DOMAIN profiles) < MaxProfiles
       THEN /\ profiles' = [i \in DOMAIN profiles \cup {nextId} |->
                              IF i = nextId THEN Profile(dialog) ELSE profiles[i]]
            /\ nextId' = nextId + 1 /\ active' = nextId
            /\ rows' = Refreshed
       ELSE UNCHANGED <<profiles, nextId, active, rows>>
  /\ Closed /\ UNCHANGED edited

CommitEdit ==
  /\ dialog # None /\ dialog.id # None /\ dialog.name # None /\ dialog.root # None
  /\ profiles' = [profiles EXCEPT ![dialog.id] = Profile(dialog)]
  /\ rows' = Refreshed
  /\ edited' = edited \cup {dialog.id}
  /\ Closed /\ UNCHANGED <<nextId, active>>

Cancel == dialog # None /\ Closed /\ UNCHANGED <<store, rows>>

-----------------------------------------------------------------------------
\* Outside Praxis: a game saves, maybe for the first time, or an account is removed.
GameSaves(f, c) ==
  /\ writes < MaxWrites /\ writes' = writes + 1
  /\ files' = [files EXCEPT ![f] = c]
  /\ UNCHANGED <<kept, meta, over, commands, faults, store, tree, manager, rows, dialog, dialogs, typing, typed>>

Removed(f) == files[f] # None /\ GameSaves(f, None)

Init ==
  /\ files \in InitFiles
  /\ profiles = <<>> /\ nextId = 1 /\ edited = {} /\ active = None /\ tree = None
  /\ kept = [r \in Roots |-> None] /\ meta = kept /\ over = [r \in Roots |-> {}]
  /\ manager = FALSE /\ rows = <<>> /\ dialog = None
  /\ commands = 0 /\ writes = 0 /\ faults = 0 /\ typing = 0 /\ dialogs = 0 /\ typed = None

Next ==
  \/ BackupFull \/ Restore \/ Undo
  \/ \E i \in DOMAIN profiles : PickProfile(i) \/ DeleteProfile(i) \/ OpenEdit(i)
  \/ OpenManager \/ CloseManager \/ OpenAdd
  \/ \E n \in TypedNames : TypeName(n)
  \/ \E f \in Paths : PickSave(f) \/ Removed(f) \/ \E c \in Contents : GameSaves(f, c)
  \/ PickSuggested \/ ClearSave
  \/ \E r \in Roots : PickRoot(r)
  \/ \E g \in Games : ChooseGame(g)
  \/ CommitAdd \/ CommitEdit \/ Cancel

Spec == Init /\ [][Next]_vars

-----------------------------------------------------------------------------
(***************************************************************************)
(* Properties.                                                             *)
(***************************************************************************)
\* An undo puts back, where it was, what a restore or undo under that root overwrote, and
\* touches no other save, whatever accounts came and went and however the profile was edited
\* since ("save_path lets undo target the same file", restore_safe.c).  It is what the last
\* one overwrote when its metadata was written; a write that fails is ignored and a kill can
\* come before it, and then it may be what an earlier one overwrote, but none before the last
\* that was noted down.  The undo may itself be cut short and leave that one save torn.  The
\* game does not save in the middle of a command here, as it does in RingRestore.
UndoGoesBack ==
  [][Undo => \E m \in over[profiles[active].root] :
               files' \in {[files EXCEPT ![m.save] = c] : c \in {m.data, Torn}}]_vars

\* The saves that a step writes over.
Touched == {f \in Paths : files'[f] # files[f]}

\* Discovery moves a profile to another account only for one that is listed earlier and got
\* its save after the backup, or because the account of the backup has none any more: a
\* backup goes back to where it is from otherwise (resolve_save_path, resolve_save_path_for).
DiscoveryMovesForward ==
  [][Restore =>
       LET k == kept[tree]
       IN  k.by = profiles[active] /\ k.by.save = None /\ files[k.from] # None =>
             \A f \in Touched \ {k.from} : f[2] < k.from[2] /\ f[2] \notin k.among]_vars

\* The stronger reading: a profile that was not edited restores to the save it backed up.
BackupGoesHome ==
  [][Restore => LET k == kept[tree]
                 IN  k.by = profiles[active] => Touched \subseteq {k.from}]_vars

\* The two searches of a backend agree: who takes the save that the picker opens on gets the
\* one that an empty field would have meant (get_default_save_dir, resolve_save_path).
SuggestedIsDiscovered == [][PickSuggested => dialog'.save = Discovered(dialog.game)]_vars

\* The save of a profile that was never edited was picked for its game, in whatever order
\* the fields of the dialog were filled in (the reset of the save in egp_dlg_proc).
PickedForItsGame ==
  \A i \in DOMAIN profiles \ edited :
    profiles[i].save # None => profiles[i].picked = profiles[i].game

\* A name that the dialog makes up is that of no other profile, even after the game was
\* changed, and one that was typed is never replaced (egp_auto_fill_name, egp_dlg_proc,
\* profile_store_find_unique_game_name).
NamesAreRight ==
  dialog # None =>
    /\ typed # None => dialog.name = typed
    /\ dialog.id = None /\ dialog.auto # None => ~InUse(dialog.auto)
=============================================================================
