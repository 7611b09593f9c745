---------------------------- MODULE ProfileStore ----------------------------
(***************************************************************************)
(* Praxis' profiles: profile_store.c (the store and its operations),       *)
(* profile_store_io.c (Praxis.ini), and the window that calls them: the    *)
(* toolbar and menu handlers of praxis_window_common.c, praxis_main_menu.c *)
(* and main.c, and the game profile manager dialog.                        *)
(*                                                                         *)
(* The operations are functions from stores to stores, named as in the     *)
(* source; a handler is an action that composes them, saves the store and  *)
(* brings the window up to date, in the order of the code.                 *)
(*                                                                         *)
(* The arrays of the source are functions from ids to profiles.  Ids are   *)
(* handed out in increasing order, and removing, saving and loading keep   *)
(* the order, so an array is sorted by id and its entry 0 is its least id. *)
(***************************************************************************)
EXTENDS Integers, FiniteSets

CONSTANTS
  Places,      \* the directories a game profile may have as its tree_root
  Names,       \* the names a backup profile may have
  MainName,    \* "Main", the name of the backup profile a new game gets
  MaxGames,    \* MAX_GAME_PROFILES: 32 in the code
  MaxBackups,  \* MAX_BACKUP_PROFILES: 128 in the code
  MaxId,       \* bounds the ids handed out
  Env,         \* what may go wrong with Praxis.ini
  NoTree       \* the empty path

EnvFaults == {"open",  \* Praxis.ini is there but cannot be opened or read
              "save"}  \* writing or replacing Praxis.ini fails

ASSUME ProfileStoreAssumption ==
  /\ MainName \in Names
  /\ MaxGames \in Nat \ {0} /\ MaxBackups \in Nat \ {0} /\ MaxId \in Nat
  /\ Env \subseteq EnvFaults
  /\ NoTree \notin Places \X Names

Ids == Nat \ {0}                           \* 0 is "none"

Backups == [parent : Ids, name : Names]

Trees == (Places \X Names) \cup {NoTree}   \* <<tree_root, name>>: a backup root

IsTable(f, V) == DOMAIN f \subseteq Ids /\ f \in [DOMAIN f -> V]

Restricted(f, D) == [i \in DOMAIN f \cap D |-> f[i]]

With(f, i, v) == [j \in DOMAIN f \cup {i} |-> IF j = i THEN v ELSE f[j]]

First(D) == IF D = {} THEN 0 ELSE CHOOSE i \in D : \A j \in D : i <= j

VARIABLES
  store,  \* g_profile_store
  conf,   \* praxis_config: its tree_root and migration_dismissed
  disk,   \* Praxis.ini
  tree,   \* the root the save tree shows
  mode    \* where the program is

vars == <<store, conf, disk, tree, mode>>

Modes == {"down", "setup", "opening", "idle", "manager"}

-----------------------------------------------------------------------------
(***************************************************************************)
(* profile_store.c                                                         *)
(***************************************************************************)
EmptyTable == [i \in {} |-> NoTree]

profile_store_init ==
  [games |-> EmptyTable, backups |-> EmptyTable, activeGame |-> 0, activeBackup |-> 0,
   nextGame |-> 1, nextBackup |-> 1]

Children(s, g) == {b \in DOMAIN s.backups : s.backups[b].parent = g}

Resolves(s) == /\ s.activeBackup \in DOMAIN s.backups
               /\ s.backups[s.activeBackup].parent \in DOMAIN s.games

RootOf(s) == LET b == s.backups[s.activeBackup] IN <<s.games[b.parent], b.name>>

(* The new game gets a backup profile "Main", unless there is no room left *)
(* for one; both ids become active either way.                             *)
RoomForGame(s) == Cardinality(DOMAIN s.games) < MaxGames

RoomForBackup(s) == Cardinality(DOMAIN s.backups) < MaxBackups

add_game(s, p) ==
  [games        |-> With(s.games, s.nextGame, p),
   backups      |-> IF RoomForBackup(s)
                      THEN With(s.backups, s.nextBackup, [parent |-> s.nextGame, name |-> MainName])
                      ELSE s.backups,
   activeGame   |-> s.nextGame,
   activeBackup |-> s.nextBackup,
   nextGame     |-> s.nextGame + 1,
   nextBackup   |-> s.nextBackup + 1]

update_game(s, g, p) == [s EXCEPT !.games = With(@, g, p)]

\* Wrong versions of delete_game: the active backup profile is not looked at,
\* the backup profiles of the game stay.
delete_game_keeps_active(s, g) ==
  LET games == Restricted(s.games, DOMAIN s.games \ {g})
  IN  [s EXCEPT !.games = games,
                !.backups = Restricted(@, DOMAIN @ \ Children(s, g)),
                !.activeGame = IF @ = g THEN First(DOMAIN games) ELSE @]
delete_game_orphans(s, g) ==
  LET games == Restricted(s.games, DOMAIN s.games \ {g})
  IN  [s EXCEPT !.games = games,
                !.activeGame = IF @ = g THEN First(DOMAIN games) ELSE @]

(* The backup profiles are removed one by one, and each time the active    *)
(* one goes the first of those left takes its place: the outcome is the    *)
(* first one that stays.                                                   *)
delete_game(s, g) ==
  LET games   == Restricted(s.games, DOMAIN s.games \ {g})
      backups == Restricted(s.backups, DOMAIN s.backups \ Children(s, g))
  IN  [s EXCEPT !.games = games,
                !.backups = backups,
                !.activeBackup = IF @ \in Children(s, g) THEN First(DOMAIN backups) ELSE @,
                !.activeGame = IF @ = g THEN First(DOMAIN games) ELSE @]

add_backup(s, b) == [s EXCEPT !.backups = With(@, s.nextBackup, b), !.nextBackup = @ + 1]

delete_backup(s, i) ==
  LET backups == Restricted(s.backups, DOMAIN s.backups \ {i})
  IN  [s EXCEPT !.backups = backups,
                !.activeBackup = IF @ = i THEN First(DOMAIN backups) ELSE @]

set_active_game(s, g) ==
  [s EXCEPT !.activeGame = g,
            !.activeBackup = IF @ \in Children(s, g) THEN @ ELSE First(Children(s, g))]

set_active_backup(s, i) == [s EXCEPT !.activeBackup = i]

-----------------------------------------------------------------------------
(***************************************************************************)
(* profile_store_io.c                                                      *)
(***************************************************************************)
Blank == [games |-> EmptyTable, backups |-> EmptyTable, activeGame |-> 0, activeBackup |-> 0,
          root |-> NoTree, dismissed |-> FALSE]

(* The sections of the file enter the store in their order, up to its      *)
(* capacity; then backup profiles without a game are dropped.              *)
FirstFew(f, n) == Restricted(f, {i \in DOMAIN f : Cardinality({j \in DOMAIN f : j < i}) < n})

LoadedGames(d) == FirstFew(d.games, MaxGames)

\* A wrong version of LoadedBackups: the pending section, the last backup
\* profile, is not committed when the file ends.
LoadedBackupsNoFlush(d) ==
  LET kept == Restricted(d.backups, {i \in DOMAIN d.backups : \E j \in DOMAIN d.backups : j > i})
  IN  Restricted(kept, {i \in DOMAIN kept : kept[i].parent \in DOMAIN d.games})

LoadedBackups(d) ==
  LET kept == FirstFew(d.backups, MaxBackups)
  IN  Restricted(kept, {i \in DOMAIN kept : kept[i].parent \in DOMAIN LoadedGames(d)})

NextId(D) == IF D = {} THEN 1 ELSE 1 + CHOOSE i \in D : \A j \in D : j <= i

ActiveGameOf(id, games) ==
  IF id # 0 /\ id \notin DOMAIN games THEN First(DOMAIN games) ELSE id

(* An active backup profile must belong to the active game, if there is    *)
(* one; otherwise the first that does takes its place.                     *)
Eligible(backups, g) == {i \in DOMAIN backups : g = 0 \/ backups[i].parent = g}

\* A wrong version of ActiveBackupOf: any backup profile will do.
ActiveBackupOfAny(id, backups, g) ==
  IF id # 0 /\ id \notin DOMAIN backups THEN First(DOMAIN backups) ELSE id

ActiveBackupOf(id, backups, g) ==
  IF id # 0 /\ id \notin Eligible(backups, g) THEN First(Eligible(backups, g)) ELSE id

io_load(d) ==
  LET games   == LoadedGames(d)
      backups == LoadedBackups(d)
      game    == ActiveGameOf(d.activeGame, games)
  IN  [games |-> games, backups |-> backups,
       activeGame |-> game,
       activeBackup |-> ActiveBackupOf(d.activeBackup, backups, game),
       nextGame |-> NextId(DOMAIN games), nextBackup |-> NextId(DOMAIN backups)]

(* A file that cannot be opened counts as a fresh install; one that cannot *)
(* be read leaves the store empty, and no caller looks at the result.      *)
Readings == {disk} \cup {d \in {Blank} : "open" \in Env}

(* One file holds the store and the configuration.  Its legacy TreeRoot is *)
(* the root of the active backup profile, if there is one.  The file is    *)
(* written beside and renamed into place, so a save happens or does not;   *)
(* no caller looks at the result.                                          *)
io_save(s, c) ==
  [games |-> s.games, backups |-> s.backups,
   activeGame |-> s.activeGame, activeBackup |-> s.activeBackup,
   root |-> IF Resolves(s) THEN RootOf(s) ELSE c.root, dismissed |-> c.dismissed]

Save(s, c) == \/ disk' = io_save(s, c)
              \/ "save" \in Env /\ UNCHANGED disk

-----------------------------------------------------------------------------
(***************************************************************************)
(* Starting: the configuration is read, then a probe of the store decides  *)
(* whether the setup dialog comes up, then the window reads the store: the *)
(* file is opened three times.                                             *)
(***************************************************************************)
ReadConfig ==
  /\ mode = "down"
  /\ \E d \in Readings : conf' = [root |-> d.root, dismissed |-> d.dismissed]
  /\ mode' = "setup"
  /\ UNCHANGED <<store, disk, tree>>

FirstLaunchSetup ==
  /\ mode = "setup"
  /\ mode' = "opening"
  /\ \E d \in Readings :
       LET probe == io_load(d) IN
       \/ /\ conf.dismissed \/ DOMAIN probe.games # {}
          /\ UNCHANGED <<conf, disk>>
       \/ /\ ~conf.dismissed /\ DOMAIN probe.games = {}
          /\ \/ \E p \in Places : Save(add_game(probe, p), conf) /\ UNCHANGED conf
             \/ /\ conf' = [conf EXCEPT !.dismissed = TRUE]
                /\ Save(probe, conf')
  /\ UNCHANGED <<store, tree>>

(* apply_active_profile_ui: the tree moves to the active backup profile's  *)
(* root; without one it stays where it is.                                 *)
Shown(s, t) == IF Resolves(s) THEN RootOf(s) ELSE t

OpenWindow ==
  /\ mode = "opening"
  /\ \E d \in Readings : store' = io_load(d)
  /\ tree' = Shown(store', conf.root)
  /\ mode' = "idle"
  /\ UNCHANGED <<conf, disk>>

-----------------------------------------------------------------------------
(***************************************************************************)
(* The window's handlers.                                                  *)
(***************************************************************************)
Becomes(s) == /\ store' = s
              /\ Save(s, conf)
              /\ tree' = Shown(s, tree)
              /\ UNCHANGED <<conf, mode>>

(* The toolbar lists the backup profiles of the active game, all of them   *)
(* if there is none, and has the active one selected if it is listed.      *)
Listed == Eligible(store.backups, store.activeGame)

PickGame(g) ==
  /\ mode = "idle" /\ g \in DOMAIN store.games
  /\ Becomes(LET s == set_active_game(store, g)
             IN  IF Children(s, g) # {} THEN set_active_backup(s, First(Children(s, g)))
                                        ELSE [s EXCEPT !.activeBackup = 0])

PickBackup(i) ==
  /\ mode = "idle" /\ i \in Listed
  /\ Becomes(set_active_game(set_active_backup(store, i), store.backups[i].parent))

AddBackup(n) ==
  /\ mode = "idle" /\ store.activeGame \in DOMAIN store.games
  /\ RoomForBackup(store) /\ store.nextBackup <= MaxId
  /\ Becomes(set_active_backup(add_backup(store, [parent |-> store.activeGame, name |-> n]),
                               store.nextBackup))

DeleteBackup ==
  /\ mode = "idle" /\ store.activeBackup \in Listed
  /\ Becomes(delete_backup(store, store.activeBackup))

(* The game profile manager is a modal dialog: it saves after each change, *)
(* but the window behind it follows only when the dialog is closed.        *)
OpenManager ==
  /\ mode = "idle" /\ mode' = "manager"
  /\ UNCHANGED <<store, conf, disk, tree>>

Managed(s) == /\ store' = s
              /\ Save(s, conf)
              /\ UNCHANGED <<conf, tree, mode>>

ManagerAdd(p) ==
  /\ mode = "manager" /\ RoomForGame(store)
  /\ store.nextGame <= MaxId /\ store.nextBackup <= MaxId
  /\ Managed(add_game(store, p))

ManagerEdit(g, p) ==
  /\ mode = "manager" /\ g \in DOMAIN store.games
  /\ Managed(update_game(store, g, p))

ManagerDelete(g) ==
  /\ mode = "manager" /\ g \in DOMAIN store.games
  /\ Managed(delete_game(store, g))

\* A wrong version of CloseManager: the window is not brought up to date.
CloseManagerOnly ==
  /\ mode = "manager" /\ mode' = "idle"
  /\ UNCHANGED <<store, conf, disk, tree>>

CloseManager ==
  /\ mode = "manager" /\ mode' = "idle"
  /\ tree' = Shown(store, tree)
  /\ UNCHANGED <<store, conf, disk>>

(* WM_CLOSE saves once more; a process that is killed does not.            *)
Gone == /\ store' = profile_store_init
        /\ conf' = [root |-> NoTree, dismissed |-> FALSE]
        /\ tree' = NoTree
        /\ mode' = "down"

Exit == mode = "idle" /\ Save(store, conf) /\ Gone

Crash == mode # "down" /\ Gone /\ UNCHANGED disk

-----------------------------------------------------------------------------
Init ==
  /\ store = profile_store_init
  /\ conf = [root |-> NoTree, dismissed |-> FALSE]
  /\ disk = Blank
  /\ tree = NoTree
  /\ mode = "down"

Next ==
  \/ ReadConfig \/ FirstLaunchSetup \/ OpenWindow
  \/ \E g \in DOMAIN store.games : PickGame(g)
  \/ \E i \in DOMAIN store.backups : PickBackup(i)
  \/ \E n \in Names : AddBackup(n)
  \/ DeleteBackup
  \/ OpenManager \/ CloseManager
  \/ \E p \in Places : ManagerAdd(p)
  \/ \E g \in DOMAIN store.games : ManagerDelete(g) \/ \E p \in Places : ManagerEdit(g, p)
  \/ Exit \/ Crash

Spec == Init /\ [][Next]_vars

-----------------------------------------------------------------------------
(***************************************************************************)
(* Properties                                                              *)
(***************************************************************************)

(* Every variable keeps its shape, and neither the arrays in memory nor    *)
(* what a later start reads into them exceed their capacity.               *)
ProfilesIn(x) ==
  /\ IsTable(x.games, Places) /\ IsTable(x.backups, Backups)
  /\ Cardinality(DOMAIN x.games) <= MaxGames
  /\ Cardinality(DOMAIN x.backups) <= MaxBackups
  /\ x.activeGame \in Nat /\ x.activeBackup \in Nat

TypeOK ==
  /\ DOMAIN store = DOMAIN profile_store_init /\ ProfilesIn(store)
  /\ store.nextGame \in Ids /\ store.nextBackup \in Ids
  /\ DOMAIN disk = DOMAIN Blank /\ ProfilesIn(disk)
  /\ disk.root \in Trees /\ disk.dismissed \in BOOLEAN
  /\ conf \in [root : Trees, dismissed : BOOLEAN]
  /\ tree \in Trees /\ mode \in Modes

(* Across any sequence of operations, saves and restarts: the next id is   *)
(* that of no profile, so a new profile never takes the place of another;  *)
(* every backup profile has its game; a game is active when there is one,  *)
(* and what is active exists, but for the id of a "Main" that found no     *)
(* room.                                                                   *)
IdsFresh(s) == /\ \A g \in DOMAIN s.games : g < s.nextGame
               /\ \A i \in DOMAIN s.backups : i < s.nextBackup
               /\ s.activeBackup < s.nextBackup

ParentsExist(x) == \A i \in DOMAIN x.backups : x.backups[i].parent \in DOMAIN x.games

GameActive(x) == IF DOMAIN x.games = {} THEN x.activeGame = 0
                                        ELSE x.activeGame \in DOMAIN x.games

StoreSound == /\ IdsFresh(store)
              /\ ParentsExist(store) /\ ParentsExist(disk)
              /\ GameActive(store) /\ GameActive(disk)

(* The active backup profile exists, if one is named: "Currently active    *)
(* backup profile ID" (profile_store.h).                                   *)
ActiveBackupExists == store.activeBackup = 0 \/ store.activeBackup \in DOMAIN store.backups

(* It stops existing in one way only: a game is added when there is no     *)
(* room for its "Main".                                                    *)
DanglingOnlyWhenFull ==
  [][ActiveBackupExists /\ ~ActiveBackupExists' => ~RoomForBackup(store)]_vars

(* A start repairs the selection it finds in Praxis.ini, and leaves one    *)
(* that is sound as it was.                                                *)
SelectionSound(x) ==
  \/ x.activeBackup = 0
  \/ /\ x.activeBackup \in DOMAIN x.backups
     /\ x.backups[x.activeBackup].parent = x.activeGame

StartRepairsSelection ==
  [][mode = "opening" /\ mode' = "idle"
       => /\ SelectionSound(store')
          /\ "open" \notin Env /\ SelectionSound(disk)
               => store'.activeGame = disk.activeGame /\ store'.activeBackup = disk.activeBackup]_vars

(* Between two handlers the tree shows the backup root of the active       *)
(* backup profile: what the hotkeys restore from, and back up into, is the *)
(* tree of the profile whose save they touch.                              *)
TreeShowsActive == mode = "idle" /\ Resolves(store) => tree = RootOf(store)

(* praxis_hotkey_actions.h: "Perform a full-save backup using the active   *)
(* backup profile", into the selected directory of the tree.  Hotkeys are  *)
(* also served while a modal dialog is up.                                 *)
TreeShowsActiveAtHotkeys ==
  mode \in {"idle", "manager"} /\ Resolves(store) => tree = RootOf(store)

(* A profile is lost only when the user deletes it, or its game: a start   *)
(* finds all that Praxis.ini holds, no handler and no repair of the        *)
(* selection drops or changes one, and no save overwrites one that is      *)
(* still wanted, whatever saves failed before.                             *)
Holds(x, y) ==
  /\ DOMAIN y.games \subseteq DOMAIN x.games
  /\ \A i \in DOMAIN y.backups : i \in DOMAIN x.backups /\ x.backups[i] = y.backups[i]

WindowUp == mode \in {"idle", "manager"}

OnlyDeletionLoses ==
  [][/\ mode = "opening" /\ mode' = "idle" => Holds(store', disk)
     /\ mode = "setup" => Holds(disk', disk)
     /\ WindowUp /\ mode' # "down" =>
          /\ \A g \in DOMAIN store.games : g \in DOMAIN store'.games \/ ManagerDelete(g)
          /\ \A i \in DOMAIN store.backups :
               \/ i \in DOMAIN store'.backups /\ store'.backups[i] = store.backups[i]
               \/ ManagerDelete(store.backups[i].parent)
               \/ i = store.activeBackup /\ DeleteBackup
          /\ disk' # disk => Holds(disk', store')
     /\ mode' = "down" /\ disk' # disk => Holds(disk', store)]_vars
=============================================================================
