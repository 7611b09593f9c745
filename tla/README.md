# A verification project for Praxis and ERSaveManager

This directory holds TLA+ models of the programs in this repository, the TLC
configurations that check them on small instances, and TLAPS proofs of what
matters most for every instance. **Praxis** (`src/Praxis`) is a save backup
manager for FromSoftware games: it copies a game's save file into a library of
backups, shows the library as a tree, and restores a backup over the save, with
an undo. **ERSaveManager** (`src/ERSaveManager`) edits Elden Ring saves. Both
share `src/common`. Paths below are relative to `src/` unless they name a
Praxis file, which is in `src/Praxis`.

1. [The system](#1-the-system)
2. [The modules and the code](#2-the-modules-and-the-code)
3. [What the runs check and show](#3-what-the-runs-check-and-show)
4. [What is proved](#4-what-is-proved)
5. [Findings](#5-findings)
6. [What is not modelled](#6-what-is-not-modelled)
7. [Plan](#7-plan)

To check everything: `tlc -workers 2 -config <run>.cfg <MC module>` for each
run of `PROJECT.json`, and `tlapm <module>.tla` for each `...Proofs`
module.

## 1. The system

Both programs are Win32 programs. Praxis has one UI thread, one worker thread
(the directory watcher) and no process but itself; ERSaveManager has one
thread. What makes them hard is not computation:

* most of their state is in the **file system**, which the game, Explorer and
  cloud clients change at the same time, and on which every operation can fail
  or be cut short by a kill;
* a save is edited **in place**, checksum by checksum and field by field, with
  nothing that makes the writes one;
* the UI thread runs **nested message loops** (modal dialogs, menus, message
  boxes, label edits, drags), and global hotkeys, the refresh timer and watcher
  messages are served inside them, against state the outer handler has read
  before;
* several things are **cached**: the tree caches the library, the window caches
  the profile store, the store caches `Praxis.ini`, ERSaveManager caches a save;
* some things are **looked for again** at every command: which account's save a
  profile means, which slot of it is active.

| Component | State it keeps | Operations | How it meets the others | What makes it correct |
|---|---|---|---|---|
| Pre-restore ring (`ring_backup.c`) | `.praxis_ring/ring_<timestamp>.ersm` below a tree root | snapshot with rotation, list | called by safe restore before every overwrite | never more than `ring_size`; FIFO; a restore never starts without a complete copy |
| Safe restore (`restore_safe.c`) | `last_restore.txt` | restore, undo | ring, then backend, then metadata | what is overwritten can be brought back, exactly, whatever fails between the three |
| Game backends (`backends/*.c`) | none | find the save, find the active slot, back up, restore, full or one slot | read and write save and backup files | mean the same save the user means; restore exactly the slot that is active; leave no temporary file |
| Profile store (`profile_store.c`) | games, backup profiles, active ids, next ids | add, update, delete, set active | window handlers, hotkeys | ids never reused while in use; no backup profile without a game; selection exists |
| Persistence (`profile_store_io.c`) | `Praxis.ini` | load (with repair), save (temp + rename) | start, every handler, `WM_CLOSE` | nothing but a deletion loses a profile |
| Main window (`main.c`, `praxis_window_common.c`, `praxis_main_menu.c`, `toolbar.c`) | which root the tree and watcher have, debounce timer | handlers | everything | the tree shows the root of the active backup profile |
| Game profile manager (`dialogs/game_profile_manager.c`, `dialogs/edit_*.c`) | none of its own | add, edit, delete, each saved at once | store, while the main window waits | leaves store, file and window in step |
| Directory watcher (`save_watcher.c`) | worker thread, three events, directory handle | start, change root, stop | posts to the UI thread | no change is forgotten; the last root asked for is watched; stop returns |
| Backup tree (`save_tree*.c`) | items read at the last refresh, selection, drag source | refresh, select, rename, move, delete, new folder, read-only | everything that touches the library | commands hit what the user picked; read-only is respected |
| Backup commands (`praxis_hotkey_actions.c`) | none | backup full, slot, replace, restore, undo | tree, store, backend, safe restore | replace is all or nothing; a new backup is selected |
| Import (`praxis_import_*.c`) | none | scan, choose, import a batch | tree, backend | what is imported is whole, what is read-only stays |
| Hotkeys (`hotkey.c`, `dialogs/hotkey_settings.c`) | registered bindings | parse, name, register, change | main window, `Praxis.ini`, other programs | registry and system agree; a hotkey that is missing is accounted for |
| Container format (`common/save_compress.c`) | none | compress, decompress, classify | backends, import | rejects what is not a container |
| Save libraries (`common/ersave.c`, `ds2save.c`, `ds3save.c`, `dsrsave.c`, `sekirosave.c`) | a save in memory | read, change, write, checksum | backends, ERSaveManager | a character, its profile and its Steam ID stay together; a write that is cut short does not look complete |
| Configuration (`common/config_core.c`, `Praxis/config.c`, `ERSaveManager/config.c`) | settings | load, save | all | a restart reads back what was saved |
| Locale, theme, file dialogs (`common/*`) | tables | look up, ask | all | – |
| Toast (`praxis_toast.c`) | one fading window | show | handlers | – |
| ERSaveManager (`ERSaveManager/*.c`) | the loaded save, the entry that is shown | select, re-sign, import, export, rename, face, DLC flag, downgrade | save libraries | the file is what the window shows; a downgrade that fails changes nothing; an edit stays in its slot |

Everything in this code that is hard to test is listed with its line under
`hazards` in `PROJECT.json`; the properties below are aimed at that list.

## 2. The modules and the code

`PROJECT.json` maps every definition to its lines. Operators and actions have
the names of the functions where there is one.

### RingRestore, UndoableSave, RingRestoreImplements

`RingRestore` is one game's live save file, the rings and metadata of the
backup profiles (`Roots`) over it, and the command under way.
`praxis_hotkey_action_restore` and `..._undo` are split where something can come
between their file operations:

    BeginRestore / BeginUndo -> Rotate -> Copy -> Apply -> WriteMeta
                                  |        |        |
                               CopyFails   |    ApplyRefused, ApplyTorn
                                           |             WriteMetaFails

`Rotate` is the deletion loop and the choice of the snapshot's name
(`ring_backup.c:83-120`), `Copy` is `CopyFileW`, `Apply` is the backend's
restore (for a raw file in place, for a container through a temporary file),
`WriteMeta` is `last_restore.txt`. `Crash` stands between any two of them, and
inside copy, in-place restore and metadata write. A file is a record of format,
content and read-only attribute; content is one body per slot, so that slot
restores, whole restores and their undos can be told apart. Names of snapshots
are the time on the clock; the clock may fail to advance (`"clock" \in Env`),
the game may save during a command (`"game"`), operations may fail (`"io"`,
`"meta"`). `undoPoint`
and `attempts` are history variables: what the last completed restore or undo
of a root *overwrote*, and whether the game had saved since its snapshot
(`raced`, from the first write after `Copy` on); and the commands attempted
since.

`UndoableSave` says what restore and undo promise: a save that the player
changes, that one step replaces as a whole or in one slot, with at most one undo
point per root; or that is torn. `RingRestoreImplements` maps the detailed
module to it.

### ProfileStore

The store's operations are functions from stores to stores with the names of
the C functions; a handler is an action that composes them with `Save` and with
`Shown` (`apply_active_profile_ui`) in the order of the code. `io_load` and
`io_save` model what `Praxis.ini` keeps and what it does not (the next ids are
recomputed), the capacity limits and the repairs of the selection. `mode` is
where the program is: down, in the first-launch dialog, opening its window,
idle, or inside the modal manager. Arrays are functions from ids, since the
order of an array is the order of its ids.

### SaveWatcher

The worker thread is a program counter through `watcher_thread_proc` with one
action per wait, event or system call; the UI thread one through
`save_watcher_start`, `save_watcher_change_root` and `save_watcher_stop`.
`ReadDirectoryChangesW` is modelled as documented: from the first read of a
handle on, changes complete the pending read or are kept for the next one. A
directory is the number of changes made to it, the tree the number it has seen.

### BackupTree

Three views of the library: `disk`; `items`, what the last refresh read; `ui`,
what a handler that waits for the user remembers of the items. A refresh deletes
all nodes, so a menu that was open keeps a freed handle: `Meant` lets that
handle lead nowhere or to any node. Writing a backup is two steps (the file is
created empty, then filled); replace adds the rename. Import scans (`Found`: the
depth limit, the kinds), lets the user tick files (`Ticked`), skips or opens
each one and takes those that are ticked one by one. Deletion goes to the
recycle bin, hence out of the library; a move merges folders and replaces files,
as the shell does with `FOF_NOCONFIRMATION`. `fresh` is a history variable: the
backup just made.

### SlotLibrary, SlotLibraryProofs

The five libraries (`ersave.c`, `ds2save.c`, `ds3save.c`, `dsrsave.c`,
`sekirosave.c`) have one structure, and the five backends call them alike, so
one definition stands for all five, with `lib` where they differ, and the map
spreads the definitions over the five files. A save is a function from *places*
(one region per character, two in Dark Souls II, and the summary) to a body and
the body its checksum was computed from.

* `Plan` is the sequence of writes of `import_raw`, in the order of the library:
  character before summary, except in Dark Souls II; Elden Ring writes of the
  summary only the checksum, the profile and the announcing byte.
* `ChooseBackup`, `BackupSlot` and `ChooseRestore`, `RestoreSlot`, `Import` are
  the separate loads of one command, with `GameOpens` and `GameCloses` between
  them; `ImportStops` is an import that ends after any number of writes, maybe in
  the middle of one.
* `RestoreRaw` is `restore_full` of a raw save. That of a container makes its
  `pxr*.tmp` first (`BeginContainer`), then reads (`ReadContainer`), then replaces
  the save (`RestoreContainer`) or deletes the file (`ContainerRefused`). Where
  `ersm_decompress_from_file` returns nothing, because the container is damaged
  or because opening or reading it or the memory for it failed, and where
  Praxis is killed, the file stays (`ContainerUnread`). `Rot` is a container
  that is damaged on the shelf.

What the model leaves out: the 4-byte slot header of `dsrsave.c`, encryption (a
body is what is decrypted), and which of two equal checksums is meant.

### VersionDowngrade, VersionDowngradeProofs

`er_save_downgrade` and `er_save_downgrade_character` with
`make_verified_downgrade_temp_copy`, `commit_downgrade_temp_copy` and the two
functions that undo a replacement. `job.stage` is the point between two file
operations:

    Begin -> WriteTemp -> ReplaceDone -> Verified
                 |            |    \
             WriteFails  ReplaceFails  NotVerified -> PutBack / PutBackFails
                              |
                           Recover

`ReplaceFileW` may fail before or after it has moved the save away (which is
what `Recover` is for). A save is the number of the game's save it stems from
(`gen`), the versions of its characters and summary, its regulation, and whether
it was written to the end (a kill while the copy is edited leaves one that was
not, `HalfWritten`); with it every file of the directory can be asked what it
still holds. A downgrade is synchronous C without a wait or an
unbounded loop, so that it ends is no property of the model and is not stated. `due` and `harmed` are history variables.

### SaveEditor

ERSaveManager's window. `disk` is the save of every entry that a folder may
have, `listed` the entries that the last scan of the chosen one found, in their
order (`Scan`: at the start and whenever a folder is chosen; entries that do not
parse may be found or not, `Listings` says in which orders), `mem` the loaded
copy, `rows` the list view, `ini` the configuration. Files come and go between
two scans (`Replaced`); the save that is loaded is not removed, and is written
by the game alone.
`handle_save_folder_selection` is `Selection` with its four ends (nothing there,
refused, loaded, loaded and re-signed, the last cut short anywhere). The message
box that offers the re-signing is modal and stands between two steps of the code
that are one here: of the save in question the game has no part, since its Steam
ID is another. Each
command is the sequence of writes that the edit function of `ersave.c` makes,
any prefix of which may be what is left. `mem.at` is the offset a slot
remembers, which `er_char_data_import` must keep. The face dialog is modal:
while `faces` is not `None`, only its commands, the game and a kill are
possible. `clean` (nothing failed since the load), `sealed` (places whose
checksum was written), `moved` (the folder was changed) and `edited` are history
variables.

### Hotkeys

The registry (`bound`), the system's table (`system`), the texts of the
configuration and the controls of the dialog. `Start`, `Ok` and `Cancel` begin
registering; `RegisterNext` is the call of `hotkey_register` for one action, in
the order of `register_hotkeys` and `hk_reregister_all`, which go on after one
that fails; `Registered` ends it, with the conflict message after OK. Other
programs take and release keys between any two calls, and Praxis may be killed
there. `Unreadable` are the texts that
`hotkey_parse_string` refuses: names it does not know, such as `F13`, and
characters the keyboard layout has no key for (`VkKeyScanW`), which can be a
letter that `hotkey_to_string` wrote itself. Such a text configures no hotkey and is left out
without a word. The layout stays the same during a session. `UnregisterAll` is one step: a key that it gives back early is only free
for others a little sooner. `Shown` is what a HOTKEY control makes of a key (it knows no Windows
key), `hotkey_to_string` the name, with a question mark for a key that has none.

### SettingsText

`Praxis.ini` as a sequence of lines: `Text` is what `profile_store_io_save`
writes, `ReadStore` and `ReadConfig` are the two readers, each with its limit,
its sections, its defaults and its conversions (blanks around a value are trimmed,
which for a path can only be those at its end; an old `TreeRoot` or save directory is
completed). The 1023 bytes that a reader takes of a value are above what a save
can write, a path of 259 wide characters of three bytes each, and are left out with longer
values that only an editor writes. `BeginSave`, `WriteFile`, `Move`
and their failures are the save through `Praxis.ini.tmp`; `Exit` ends the process
at any of them. `ProfileStore` sees the same file as one value.

### SaveLocation

`DefaultDir` and `Discovered` are the two searches of the backends
(`get_default_save_dir` and `resolve_save_path`) with the rule of each backend
for a folder name; that a path may be too long as a directory and not as a file
(`MAX_PATH`) is left out. The game profile dialog is a record, with one action per field
a user may fill; `Renewed` is the automatic name. Backup, restore and undo are
one step each here (RingRestore has their steps), with the ends that matter for
where an undo goes: `Noted`, the save is overwritten and `last_restore.txt`
written; `Unnoted`, it is overwritten and the metadata is not written, is emptied, or the process is killed
before it, or the save is left torn. What matters is the path they resolve, and
`over` is the history variable of what was overwritten since the metadata was last written. A root has one backup, a game profile one backup profile.

### MC modules

`MC<module>` only names model values and the sets that the configurations use.

## 3. What the runs check and show

| Run | Properties | Shows |
|---|---|---|
| `RingRestore_faults` | UndoSurvivesAttempts, SnapshotBeforeOverwrite, ImplementsUndoableSave | two profiles over one save, all backup formats, kills and failures anywhere: every command is one step of `UndoableSave` or none |
| `RingRestore_ring` | RingBounded, UndoBringsBack, FullRestoreIsUndoable | rings of one to three that fill and rotate, with kills and a game that saves during commands: undo brings back exactly what was overwritten, except after a restore during which the game saved |
| `RingRestore_slotUndo` | CompletedRestoreIsUndoable | violated: a slot restore cannot be undone |
| `ProfileStore_profiles` | StoreSound, TreeShowsActive, DanglingOnlyWhenFull, StartRepairsSelection, OnlyDeletionLoses | all handlers, the manager, restarts and kills, with saves that fail unnoticed and stores that fill up |
| `SaveWatcher_threads` | NoChangeForgotten, RequestsKept, ChangesReachTree, FollowsTree, StopReturns | both threads, two directories, changes and deletions at any time |
| `BackupTree_library` | FreshStaysSelected, HandlesLive, ReadOnlyKept, ReplaceOldOrNew | the whole tree, all commands and imports, with kills, failures and other programs |
| `SlotLibrary_backends` | Consistent, TempsComeFromFailure, RestoredExactly | all five libraries: slot and full backups and restores, with a game that saves between any two loads, writes that are cut short, containers that are damaged or cannot be read, and kills |
| `VersionDowngrade_commit` | NothingLost, MemoryFollowsSave, FailureIsUndone | a downgrade that fails, is killed or meets a save of the game at every stage |
| `SaveEditor_commands` | OwnersFollowSummary, MemoryIsTheSave, ListShowsMemory, SelectionIsLoaded, EditsStayInTheirSlot | selections that load, re-sign or are refused, every edit, a write that fails in the middle, a game that saves in between, a folder whose entries change between two scans |
| `SettingsText_restart` | RestartReadsBack | saves cut short anywhere, restarts, files of older versions |
| `Hotkeys_dialog` | RegistryIsSystem, MissingAreAccountedFor | the dialog, restarts, hand-written and unreadable bindings, and other programs that take and release keys, also between two registrations |
| `SaveLocation_accounts` | PickedForItsGame, NamesAreRight, UndoGoesBack, DiscoveryMovesForward, SuggestedIsDiscovered | the dialog filled in in any order, profiles edited and deleted, accounts that come and go, and backups, restores and undos meanwhile, of which one is cut short or not noted down |

Every property of a passing run has a mutant in `PROJECT.json`: a plausible bug
in a mapped definition that the property catches under the same bounds.

`TypeOK` is proved for `RingRestore`, `ProfileStore`, `SaveWatcher`,
`VersionDowngrade`, `BackupTree`, `SlotLibrary`, `SaveEditor` and (as
`HotkeysTypeOK`) `Hotkeys`, so no run repeats it; on the instances above it was
checked for the last four, `ProfileStore` and `SaveWatcher`, too: put it under
`INVARIANTS` to repeat it.

**What the properties do not catch.** Some hazards are in the code as it is, and a
property can only say what holds beside them. Its comment names the exception
where there is one; a stronger statement that is refuted is in the table below.

* A save the game makes between the snapshot of a restore and the restore is lost
  (`UndoBringsBack`, `SnapshotBeforeOverwrite` speak of the snapshot), and what
  the game saves between the loads of a slot restore is partly overwritten
  (`Consistent`, `RestoredExactly`). A clock that goes back can rotate the newest
  snapshot away; only `SnapshotBeforeOverwrite` is stated for such a clock.
* `FullRestoreIsUndoable` says that the snapshot is there and of a kind the backend
  accepts: that of a live save which is torn, or was never a BND4 file, is
  refused all the same.
* `TreeShowsActive` leaves the time in the modal manager out, `NoChangeForgotten`
  what happens before the first read of a handle, `HandlesLive` the context menu.
* `OnlyDeletionLoses` does not count a profile that no save ever wrote.
* `ReadOnlyKept` protects what is read-only: a rename, or a backup within the same
  second, replaces a writable backup without a question.
* `MissingAreAccountedFor` is about the configured texts, not about the key the
  user meant.
* `PickedForItsGame` is about profiles that were never edited: in an edit, the dialog
  may keep the save of the other game.
* `DiscoveryMovesForward` says for which accounts discovery may leave that of a backup, not that
  it stays there.

**Counterexamples.** Thirteen statements that a reader might expect to hold do not,
or hold only with the exception that a property above names. Their configurations
are kept beside the others; TLC ends with a trace that shows why:

| Configuration | Property it refutes | The trace |
|---|---|---|
| `RingRestore_locked` | RingBounded | read-only snapshots are never rotated away |
| `RingRestore_raced` | UndoIsInverse | the game saves between the snapshot of a restore and the restore: what is overwritten is in no snapshot, and undo brings back an older save |
| `ProfileStore_manager` | TreeShowsActiveAtHotkeys | a hotkey inside the modal manager acts with the new profile on the old tree |
| `ProfileStore_unread` | OnlyDeletionLoses | a start that cannot open `Praxis.ini` once, and the save after it |
| `SaveWatcher_retarget` | Retargets | one root that cannot be opened ends the watcher |
| `SaveWatcher_window` | TreeMirrorsDisk | a change between the tree's reading and the first read of the watcher |
| `BackupTree_import` | ImportCountsFiles | two saves of one name |
| `SlotLibrary_checksums` | ValidSumsMeanWholeContent | an import of Elden Ring is cut short; the next one computes the summary's checksum over what it left |
| `VersionDowngrade_atomic` | DowngradeIsAtomic | the replaced save cannot be opened and putting it back fails: a failure is reported, the save is downgraded |
| `SaveEditor_selected` | ShownIsEdited | after a folder whose first entry does not load, the list shows one save and edits another |
| `Hotkeys_digit` | ChosenKeysFire | a digit is chosen, is stored as `?`, and comes back as the key of the question mark |
| `SettingsText_limit` | SettingsSurviveRestart | a store of legal size pushes the settings beyond the 64 KiB that their reader takes |
| `SaveLocation_discovery` | BackupGoesHome | an account that is listed earlier gets a save between a backup and its restore |

### Bounds, and why they are enough

* **RingRestore.** One or two roots (roots share only the save); two slots (one
  that is restored, one that must not change) or one; two characters; five
  commands at five distinct times, enough to fill and rotate rings of up to
  three (the default is 5, any number can be configured). At most `ListCap`
  snapshots are listed: 64 in the code and 3 in `RingRestore_ring`, so that the
  cap is met.
  `MaxAttempts` bounds the history counter.
* **ProfileStore.** Two games, three backup profiles: the second game meets the
  limit of games, the third backup profile that of backup profiles, and a
  deletion cascades over more than one child. Ids up to three, so that an id is
  freed and the next start recomputes it. `profiles` has one directory and
  failing saves.
* **SaveWatcher.** Two directories, one of them missing at first; a few changes
  and root switches each. Notification is a flag per kind since the handler of
  several is that of one (`SetTimer` restarts the same timer).
* **BackupTree.** Three files and folders, two levels: enough for a backup next
  to a folder that holds one, for a replacement's temporary file next to its
  target, for a move into a folder, for hidden folders. Sources of an import lie
  within and beyond the scan's depth, of either kind and of none. The clock
  gives one name only, so every second backup meets the first. Other programs
  delete files and change the read-only attribute; they create nothing, since
  the names they could create are those that backups, imports, moves and new
  folders create. A temporary file that a kill left behind (`NotLeftOver`) is
  not renamed, moved, locked or replaced, which keeps names finite. The root
  stays the same; its changes are in `ProfileStore` and `SaveWatcher`.
* **SlotLibrary.** All five libraries; two slots (the active one and one that
  must not change), two heroes (what is restored and what was there), two Steam
  IDs. One save of the game, which may fall before, between or after the two
  loads of a command; one fault: a write cut short, a container that cannot be
  read, or a kill; one backup besides the one that is
  there at first, a slot of another account; damaged containers at will; two
  temporary files, of which one may be left over. Slots and
  heroes are symmetric: no definition orders them.
* **VersionDowngrade.** Three slots: a character that is newer than every target,
  one that is older, and none. Two targets, so that a second downgrade starts
  from the first. Three saves of the game: before, during and after a downgrade.
  Each fault once.
* **SaveEditor.** Two folders, three entries, among them a save that must be
  re-signed and a file that does not parse; in one folder a scan finds both entries
  or the second one only, so that what was selected can be missing from the next list; two slots, one used; three commands,
  so that an edit can follow an import into the same slot; one face that comes
  with ERSaveManager, so that the other one can only come back from its export;
  one failed write, and one save of the game or one file that comes or goes.
* **Hotkeys.** Two actions, six keys: two that have names, a letter whose name is
  not read back (`Q`), a digit, the key of the question mark, and one that the
  control shows as another; and a text that names no key (`F13`). Two grabs by
  other programs, two edits.
* **SettingsText.** Up to two games and two backup profiles with ids out of order,
  names that begin or end in a blank, an empty text; three saves. The limits, in lines,
  are above every text of the instance in this run and below some in
  `SettingsText_limit`.
* **SaveLocation.** Two games, of which one takes both account folders and the
  other one (Elden Ring and Dark Souls Remastered; the rules of the other three
  backends are variants of these two, and `SuggestionsAgree` is proved for all);
  one backup root that profiles may share; two profiles (the store's limit, so
  that it is met); one account at first, and two saves or removals, so that an
  earlier one can appear and be lost again; three commands, of which one may be
  cut short or not noted down; two dialogs with four inputs in all, of which a new
  profile with a save for another game needs three.

`CHECK_DEADLOCK FALSE` is used in the `RingRestore`, `SaveWatcher`,
`SlotLibrary` and `VersionDowngrade` runs: the bounded clock, the bounded number
of changes, saves and faults, a closed window and a save that was removed let the
system stop. The others never stop and are checked for deadlock.

### Fairness

Only `SaveWatcher` has liveness. Its `FairSpec` is weak fairness of the worker thread (the scheduler runs it), of `Pump` (the UI
thread serves messages and the timer when it is idle, `main.c:557`) and of
`Handler` (a handler that has begun runs on). None is assumed of users, other
programs or of `OpenHangs` (a `CreateFileW` on a network path that does not
return), and none that is strong. `TimerFires` needs an empty queue, as
`WM_TIMER` does. Everything else that runs to its end does so by itself,
without waiting for another actor.

## 4. What is proved

All theorems hold for every value of the constants allowed by the modules'
`ASSUME`s: any number of roots, slots, profiles, directories, ring sizes,
versions and saves of the game, and any set of environment faults unless stated.

| Theorem | Module | Says |
|---|---|---|
| `TypeCorrect` | RingRestoreProofs | `TypeOK` always holds |
| `SnapshotFirst` | RingRestoreProofs | `SnapshotBeforeOverwrite`: a command changes the save only while its root's ring holds a complete copy of what it found |
| `UndoIsExact` | RingRestoreProofs | `UndoBringsBack`: an undo brings back exactly what the last completed restore overwrote, unless the game saved during that restore; if the clock advances (`ClockAdvances`) and the metadata can be written (`MetaWritable`) |
| `UndoIsInverseWhenQuiet` | RingRestoreProofs | `UndoIsInverse`: the same without exception, if moreover the game does not save in the middle of a command (`GameQuiet`) |
| `Implements` | RingRestoreProofs | `ImplementsUndoableSave`: RingRestore implements UndoableSave, if the clock advances and the game does not save in the middle of a command (`GameQuiet`) |
| `RingStaysBounded` | RingRestoreProofs | `RingBounded`, if nothing is read-only (`NothingLocked`) and the listing holds a full ring (`RingIsListed`) |
| `UndoPointSurvives` | RingRestoreProofs | `UndoSurvivesAttempts`, if the clock advances |
| `FullRestoreUndoable` | RingRestoreProofs | `FullRestoreIsUndoable`, if the clock advances |
| `StoreAlwaysSound` | ProfileStoreProofs | `StoreSound`, in memory and in `Praxis.ini`, whatever reads or saves fail |
| `TreeFollows` | ProfileStoreProofs | `TreeShowsActive` |
| `TypeCorrect` | ProfileStoreProofs | `TypeOK`, with the capacity of arrays and file |
| `DanglesOnlyWhenFull` | ProfileStoreProofs | `DanglingOnlyWhenFull` |
| `StartRepairs` | ProfileStoreProofs | `StartRepairsSelection` |
| `DeletionOnlyLoses` | ProfileStoreProofs | `OnlyDeletionLoses`, if `Praxis.ini` can be read when it is there (`"open" \notin Env`) |
| `TypeCorrect` | WindowProofs | `TypeOK` of SaveWatcher |
| `ChangesKept` | WindowProofs | `NoChangeForgotten` |
| `RequestsAreKept` | WindowProofs | `RequestsKept`: the safety half of `FollowsTree` and `StopReturns` |
| `KeysTypeCorrect` | WindowProofs | `HotkeysTypeOK` |
| `RegistryAgrees` | WindowProofs | `RegistryIsSystem` |
| `MissingHaveReasons` | WindowProofs | `MissingAreAccountedFor` |
| `TypeCorrect` | VersionDowngradeProofs | `TypeOK` |
| `SaveIsKept` | VersionDowngradeProofs | `NothingLost`: some file holds, whole, the last save of the game that is due |
| `MemoryIsTrue` | VersionDowngradeProofs | `MemoryFollowsSave`: the loaded copy is what the file holds, whether the downgrade was done or failed |
| `FailuresAreUndone` | VersionDowngradeProofs | `FailureIsUndone`: a reported failure has left no downgraded save, unless the undoing itself failed or the save was removed |
| `TypeCorrect` | BackupTreeProofs | `TypeOK`: the library stays a tree of files below folders |
| `HandlesStayLive` | BackupTreeProofs | `HandlesLive`: no drag or edit outlives its node |
| `FreshKept` | BackupTreeProofs | `FreshStaysSelected` |
| `ReadOnlyIsKept` | BackupTreeProofs | `ReadOnlyKept`: read-only on disk, whatever the tree shows |
| `ReplaceIsOldOrNew` | BackupTreeProofs | `ReplaceOldOrNew`: the old backup or a complete new one, at every moment |
| `PickedRight` | SaveLocationProofs | `PickedForItsGame` |
| `NamesKept` | SaveLocationProofs | `NamesAreRight` |
| `UndoReturns` | SaveLocationProofs | `UndoGoesBack`: to a file that was overwritten, with what it held, and not from before the last restore that was noted down, whatever is cut short |
| `SuggestionsAgree` | SaveLocationProofs | `SuggestedIsDiscovered`: the two searches of a backend agree |
| `DiscoveryOnlyForward` | SaveLocationProofs | `DiscoveryMovesForward` |
| `TypeCorrect` | SaveEditorProofs | `TypeOK` |
| `EditsReachTheFile` | SaveEditorProofs | `MemoryIsTheSave`: unless a write failed or the game saved |
| `ListIsTrue` | SaveEditorProofs | `ListShowsMemory` |
| `SelectionStays` | SaveEditorProofs | `SelectionIsLoaded` |
| `SlotsAreApart` | SaveEditorProofs | `EditsStayInTheirSlot`: wherever an edit is cut short |
| `OwnersKept` | SaveEditorProofs | `OwnersFollowSummary`, if it holds of the saves that are there at first (`InitOwned`) |
| `TypeCorrect` | SlotLibraryProofs | `TypeOK` |
| `ConsistentAlways` | SlotLibraryProofs | `Consistent`: wherever an import stops, and however old the copy it works from |
| `TempsOnlyFromFailure` | SlotLibraryProofs | `TempsComeFromFailure`: a restore takes its temporary file away, however it ends, as long as containers can be read and nothing is killed |
| `RestoresExactly` | SlotLibraryProofs | `RestoredExactly`: the backup's character in its slot, nothing else changed |

**RingRestore.** `SnapshotBeforeOverwrite` follows from `TypeOK` and `SnapHeld`:
from the copy on, the ring has the snapshot of the command under its name, with
the content it found. It is inductive because only the command itself writes
into its ring and rotation comes before the copy. `UndoIsExact` needs `OrderInv` and
`MetaNamesUndoPoint`: names are in the order of the clock (`NamesInOrder`), so a
new snapshot never overwrites the one the metadata names; that one, if it is
still there, holds the undo point (`MetaNamesUndoPoint`); the snapshot an undo of
it has taken is not its source (`SnapKept`, `UndoIsOfMeta`). That the snapshot
holds what the restore went on to overwrite, and not only what it copied, is
`OverwritesItsSnapshot`: it does unless the game wrote in between, which `raced`
records; that a restore was completed wherever there is metadata is `PointKnown`.
Under `GameQuiet` nothing is ever raced (`NothingRaced`), which gives
`UndoIsInverseWhenQuiet`. Without `ClockAdvances` the statement is false: with a clock that stands still two
snapshots are one file. So it is without `MetaWritable`: a metadata file that
was not written names an older snapshot while the restore reports success
(`restore_safe.c:96`).

`Implements` maps every step to a step of `UndoableSave` or to none. Only
`WriteMeta` and the failures after the save was touched show; what has to be
known there is where the content of the save came from, which is `Landed`:
from the backup, from a slot of it put into the save that was found, or from
the ring. It needs no `MetaWritable`, since a metadata file that could not be
written is a step of the abstract module, too.

`RingStaysBounded` is carried by `RoomMade`: nothing that may become a snapshot
is read-only, and from the rotation to the copy the ring has a place to spare. The
sets of snapshots are finite, so that the lemmas about cardinalities apply, and
`RingIsListed` is what makes the rotation see all of them (the code
lists 64 files, `ring_backup.c:43`; beyond that the property is false, see
section 5).
`UndoPointSurvives` counts: `NewerCounted` says that the snapshots that are
newer than the one the metadata names are no more than the commands attempted
since, of which one that has rotated and not yet copied is one ahead; with fewer
than the ring's size of them the rotation, which deletes the oldest, does not
reach the undo point. `AttemptsCounted` only keeps the bound on the
history counter `attempts` above the ring's size, so that it counts.
`FullRestoreUndoable` combines it with the order of the names.

**ProfileStore.** The invariant is soundness of store and file together, and it
is inductive as it stands, because ids are compared to the *recomputed* next
ids. Each operation has a lemma (`AddGameSound`, `DeleteGameSound`,
`LoadSound`, ...), each handler composes them. `NextIdIsFresh` and the lemmas
about least and greatest elements of finite sets of ids carry the recomputation.
The three action properties rest on a second invariant, `Cap`: store and file
are finite and never exceed the capacity of the arrays. Only so does a start read
the file to its end (`AllRead`, `LoadKeeps`), since the code drops, without a
word, what exceeds it. `Handled(s, G, B)` is what the handlers have in common: each
leaves a store `s` that keeps all but the games of `G` and the backup profiles of
`B`, and saves it or fails to; `StepIs` says which `G` and `B` each step has.
`DeletionOnlyLoses` needs that `Praxis.ini` can be read: the configuration
`ProfileStore_unread` shows that it is false without (finding in section 5).

**SaveWatcher.** `Inv == TypeOK /\ Placed /\ UnderWay /\ Asked`: `Placed` says where a
read, its result and the events can be for each position of the worker thread;
`UnderWay` says that a change the tree does not show is in one of the four
places `NoChangeForgotten` names, wherever the tree's root is by then; `Asked`
adds to `RequestsKept` that between two handlers, and while one is about to wake
the thread, `root` is the tree's, which is what the thread copies once it is
awake. That a request is never lost is thus proved; that it is served is not,
since it needs the fairness of both threads.

**Hotkeys.** `KeysInv` says where the registration is: the actions still to
come are not bound (`ToCome`), those that have had their turn are bound to what
is configured (`InForce`) or excused (`Accounted`), and `ok` knows whether one is
missing (`Noticed`). `RegistryIsSystem` carries the turn of an action
(`RegisterIs`): a key that is neither free nor another program's belongs to an
action, by the registry to one that is bound, hence to one before. That the
registration is one step per action, as the calls are, also makes it provable:
nothing has to be said of a recursion. SaveWatcher and Hotkeys are proved in one
module; they share nothing, so the names of Hotkeys that would clash have its name.

**VersionDowngrade.** `Inv == TypeOK /\ Sound /\ StageInv /\ MemoryFollowsSave`.
`Sound`: every file under one of the names is whole, none is newer than the newest
save; `left` is what is left under others, half written ones included. `StageInv` has
one conjunct per stage, and says which file holds the save that must not get
lost: the save itself up to the replacement, the replaced file from there to its
check and while it is put back, whichever of them is there in between; and how
the memory relates to them. None of the
four theorems is inductive without it, since `NothingLost` alone does not know
which file the next step deletes. There is one lemma per action (`WriteTempInv`,
`ReplaceDoneInv`, ...); `FailuresAreUndone` adds `NotDowngraded`, that a request
which is accepted changes the save, so that what was put back is not the
downgraded one.

**BackupTree.** `Inv` has a part for each view of the library. `Good(disk)`:
what is below something is below a folder, files have the names of files, all
within the depth. `Items`: the same for what the last refresh read, whatever
has happened to the disk since. `SelInv` and `UiInv`: what the selection and a
waiting handler remember is an item, unless a refresh voided it. `OpInv`: what
the command that is writing has on disk, for each of its stages, which is where
`ReplaceOldOrNew` rests (`ReplaceInv`, `CommitInv`: the temporary file is
complete before it is renamed). `FreshInv`: the backup just made is there, is
shown and is selected. A refresh deletes every node, so `SelInv` cannot be
proved without `Items`, and a command that fails deletes the file it was writing, so
`FreshInv` cannot be proved without `OpInv`. The paths are sequences
of names of any length; the lemmas about prefixes (`WithinElements` and the
following) replace what the shell does with strings.

**SaveLocation.** `Inv`: the types (`Shapes`), what the metadata names is among what
was overwritten since it was last written (`NotedDown`: a metadata write that fails
leaves it as it was or empty, and adds to `over`), the account a backup was made from was
the first with a save at that time (`FromFirst`), and what the dialog holds was picked and named
as the properties say (`PickedInDialog`, `TypedIsKept`, `AutoIsFree`). The
searches walk a list of folders; that they find the first one that fits
(`SmallestNumber`) is a well-founded argument on the position.

**SaveEditor.** `Inv == SaveInv /\ FaceInv /\ SelInv /\ ShelfInv /\ Counts`,
with `MemoryHeld`, `OwnerKnown` and `RowsInv` in `SaveInv`. What carries the
proofs is `WrittenIs`: after the first `k` writes of any plan, a field holds
what is in memory if one of them covers it, and what the file had otherwise.
That is an induction over the writes, done on the least number of writes for
which it fails. On top of it `IsEdit` says what all edits have in common (they
change one slot in memory, their plan covers what they change and its checksum,
and no other slot), each command has a lemma that it is such an edit, and the
`EditKeeps...` lemmas carry the invariant over any prefix of its plan.
`OwnersKept` needs in addition that re-signing writes the summary last
(`ResignPlanIs`, again by the least counterexample) and `OwnersHeld`, the same
for the save that is loaded. Its hypothesis
`InitOwned` says of the first saves what the property says of all later ones:
nothing in the code would repair a slot whose owner was wrong before.

**SlotLibrary.** The invariant is about every save there is: the live one, the
images on the shelf, the copy a restore has loaded (`SaveOk`, `GameOk`,
`ShelfOk`, `JobOk`). `Consistent` alone is not inductive, since an import may
work from a copy the game has overtaken: its summary announces what that *copy*
announced, so `JobOk` keeps that every slot the copy announces is written in
the *live* save (`AllWritten(save, job.mem)`), whatever the game has saved
since. `PlanKeeps` is the heart: for each library's plan, after any number of
its writes and in the middle of any, the file is a save that announces, here
and in the copy, only what was written (`Ground`); it holds because the
character is written before the summary that announces it (`Ready`), and Dark
Souls II, which writes the summary first, is where it is not claimed. The same
lemma says what the whole plan leaves (`Complete`), from which
`RestoresExactly` and the pairing after an import (`CompleteIsPaired`) follow.
The plans have four to six writes, so there is no induction over them, only one that
`Written`, which is recursive, does one write at a time (`WrittenStep`).

**Only model-checked**: all liveness (`ChangesReachTree`, `FollowsTree`,
`StopReturns`; of the second and third, `RequestsKept` is the part that is
proved), since liveness under fairness is out of the
prover's reach; and everything about `SettingsText`, whose readers are folds over
a text, so that what they compute is an induction over data.

## 5. Findings

The first has a run that TLC refutes and `PROJECT.json` quotes its lines; the
others are refuted by the configurations of section 3.

1. **A slot restore cannot be undone** (`restore_safe.c:166`, `RingRestore_slotUndo`):
   the snapshot is a raw save, undo hands it to `restore_slot`, which accepts
   only a slot container.
2. **Read-only snapshots fill the ring** (`ring_backup.c:115`, `RingRestore_locked`).
3. **Hotkeys inside the game profile manager** act with the new profile on the
   old tree (`main.c:248`, `ProfileStore_manager`).
4. **A `Praxis.ini` that cannot be opened once is overwritten** with an empty
   store (`profile_store_io.c:158`, `ProfileStore_unread`).
5. **The watcher ends for good** when a root cannot be opened (`save_watcher.c:121`,
   `SaveWatcher_retarget`); `save_watcher.h:34` describes a change of the root
   without that exception.
6. **Changes made before the watcher is armed** stay unseen
   (`praxis_window_common.c:123`, `SaveWatcher_window`).
7. **Imports of one name replace each other** and are all counted
   (`praxis_import_executor.c:139`, `BackupTree_import`).
8. **A failed downgrade can leave a downgraded save** (`common/ersave.c:427-472`,
   `VersionDowngrade_atomic`), if undoing fails too; `CHANGELOG-ERSaveManager.md:36`
   calls the downgrade atomic. Half a failed undo (`common/ersave.c:421-425`)
   leaves no file under the name of the save.
9. **Commands edit a save that is not the one shown** (`ERSaveManager/main.c:96`,
   `SaveEditor_selected`), after a folder was chosen whose first entry does not
   load; `ERSaveManager/README.md:29` speaks of the selected save.
10. **A key without a name becomes another key** (`hotkey.c:173`, `Hotkeys_digit`).
11. **Settings are lost when the profiles grow** beyond what the reader of the
    settings takes (`SettingsText_limit`).
12. **A restore may go to another account** than the backup came from
    (`praxis_hotkey_actions.c:74`, `SaveLocation_discovery`).
13. **A save the game makes during a restore is lost** (`restore_safe.c:82-91`,
    `RingRestore_raced`): it is overwritten and in no snapshot.
14. **The next import hides a torn one** (`SlotLibrary_checksums`): of the five
    libraries only Sekiro's looks at a checksum when it loads.

Seen while modelling, without a run of their own:

* A ring of size one never holds an undo point when undo needs it: undo's own
  snapshot takes its place (`FullRestoreIsUndoable` states the exception).
* Beyond 64 snapshots, listing stops (`ring_backup.c:43`) and which ones are
  counted depends on the directory order.
* `README.md:69` speaks of "the most recent pre-restore snapshot"; undo takes
  the one `last_restore.txt` names. The result of writing that file is ignored.
* Deleting the last backup profile of the active game makes another game's
  profile active (`profile_store.c:273`), while the toolbar shows the first game;
  `README.md:63` says Restore goes to "the active game profile's save file".
* With 128 backup profiles, adding a game makes a "Main" active that does not
  exist (`profile_store.c:142`).
* `save_watcher.h:26-27` promises a wait of at most five seconds, the code waits
  without a limit (`save_watcher.c:235`).
* The undo button refreshes with `save_tree_refresh` (`main.c:284`) and loses
  the selection that the hotkey preserves on purpose (`main.c:158-160`).
* `praxis_import_scanner.c:6` says it follows the skip rules of
  `save_tree_walk.c`, but skips only `.` and `..`: an import of a library
  includes the snapshots in `.praxis_ring`.
* `build_import_path` takes the last dot of the whole relative path, which may
  be in a folder's name; importing from the library itself as single slots
  overwrites the full saves it reads.
* `ersm_compress_to_file` deletes a file it cannot open for writing
  (`common/save_compress.c:140`).
* Two backups within a second, or in the hour that is repeated in autumn, have
  one name; the later replaces the earlier.
* A move replaces a file of the same name in the target folder, read-only or
  not, without a question; a rename replaces one that is not read-only.
* A save the game makes between the replacement and its check can give way to the
  one it came after, when the replaced file is not what was copied
  (`common/ersave.c:427-472`); `NothingLost` leaves it out.
* A container that is damaged or cannot be opened or read leaves a `pxr*.tmp` in the
  save directory, and so does a kill (`backends/er_backend.c:171-202`);
  `TempsComeFromFailure` states the exceptions.
* A slot restore loads the save, lets go of it, and writes the summary of then:
  what the game saved in between is partly overwritten (`Consistent` states the
  exception).
* `er_face_data_import` changes the memory before it opens the file; when that
  fails, the next command writes the face. The result of re-signing is ignored
  (`ERSaveManager/main.c:146`): the summary keeps the old ID until all slots have
  the new one, so that it is offered again.
* A command of the context menu acts on a handle that a refresh may have freed
  (`save_tree_notify.c:406`).

## 6. What is not modelled

* **The detail panel, `edit_backup_profile.c`**: the one only reads, the other
  chooses a name and a level, which is a choice in the model.
* **Container bytes, encryption, checksums as numbers**: a container decompresses
  or does not, a checksum is of a body or not; LZMA, AES and MD5 are libraries.
* **Sorting, icons, expansion, display names, locale, theme, layout, toast,
  logging**: presentation. `save_tree_select_sibling_file` is the selection of
  another file of the folder (`SelectSibling`), whichever comes next.
* **Two Praxis processes at once**: nothing in the code coordinates them; the one
  that is closed last has the last word on `Praxis.ini`.
* **Unbounded change**: a directory that never rests restarts the refresh timer
  for ever; the runs bound the changes.
* **Menu ids**: the id of a game profile is added to a base that has room for 99
  (`praxis_main_menu.c:190`).
* **`MAX_PATH`** and the truncation of long names; values of `Praxis.ini` beyond
  what a save writes.
* **The keyboard layout** changing during a session; a loaded save that another
  program deletes (ERSaveManager).
* **Vendored code** (LZMA, MD5, ini parser) and **generated data**
  (`embedded_face_data.c`), and the self-tests, which were read for what they
  say.

The environment is modelled from how the code uses it and is marked external in
the map: `CreateFileW`, `MoveFileExW`, `SHFileOperationW`,
`ReadDirectoryChangesW`, `ReplaceFileW`, `RegisterHotKey`, HOTKEY controls, the
message queue, the game, other programs, kills.

The map covers about 30 % of the lines of both programs. Of the rest, most are
self-tests, generated tables, string and colour tables, layout and message
boxes.

## 7. Plan

In the order of what the user can lose:

1. Done: **RingRestore** with its abstract specification; **ProfileStore**;
   **SaveWatcher**; **BackupTree** with imports; **SlotLibrary**;
   **VersionDowngrade**; **SaveEditor**; **SaveLocation**; **SettingsText**;
   **Hotkeys**; the proofs of section 4.
2. **Proofs**: the safety properties of the modules in section 4 are proved; what
   is left is listed there under "Only model-checked".
3. **Composition**: SaveLocation over RingRestore, so that an undo is to the right
   file and whole at once; SlotLibrary as the backend of RingRestore.
4. **Sibling selection** (`save_tree_select_sibling_file`) as a function of the
   item order, checked against "next in the folder, cyclic";
   `edit_backup_profile.c`.
