----------------------------- MODULE BackupTree -----------------------------
(***************************************************************************)
(* The backup library and the tree that shows it: save_tree.c,             *)
(* save_tree_walk.c and save_tree_notify.c (the tree and the commands of   *)
(* its menu, keys and mouse), the backup commands of                       *)
(* praxis_hotkey_actions.c, and praxis_import_executor.c.                  *)
(*                                                                         *)
(* There are three views of the library: disk, which every program can     *)
(* change; items, what the last refresh read; and what a handler that is   *)
(* waiting for the user has remembered of items (ui).  Menus, message      *)
(* boxes, label edits and drags all wait with the message loop running:    *)
(* global hotkeys, the refresh timer and other programs go on meanwhile.   *)
(*                                                                         *)
(* Writing a backup is not atomic: CREATE_ALWAYS empties the file, then    *)
(* the data arrives.  The command that does it is op.                      *)
(***************************************************************************)
EXTENDS Integers, Sequences, FiniteSets

CONSTANTS
  Stems,      \* names of backup files, without their extension
  StampOf,    \* StampOf[k]: the stems the clock may give to a backup of kind k
  DirStems,   \* names of folders
  Hidden,     \* those of them that begin with a dot
  Data,       \* what a backup may hold
  Sources,    \* the files below a folder outside the library, saves and others
  MaxScan,    \* the depth to which they are looked for: IMPORT_SCAN_MAX_DEPTH
  Library,    \* the libraries Praxis may find when it starts
  MaxDepth,   \* bounds the depth of the library (16 in save_tree_walk.c)
  MaxEntries, \* bounds the number of files and folders
  Env,        \* what the environment may do
  Torn,       \* the content of a file whose write was cut short
  None        \* no item, no command, the content of a folder

EnvFaults == {"crash",   \* Praxis is killed while it writes
              "io",      \* writing, renaming, moving or deleting fails
              "others"}  \* other programs change the library

Kinds == {"full", "slot"}

(***************************************************************************)
(* Names and paths.  A backup is <stem>.<backup extension>; "old" is any   *)
(* other extension a save can have; a folder has none.  The file Replace   *)
(* writes first is <name>.replace.tmp.  A path is relative to the root.    *)
(***************************************************************************)
Name(s, e)   == [stem |-> s, ext |-> e]
BackupNames  == [stem : Stems, ext : {"bak"}]
DirNames     == [stem : DirStems, ext : {""}]
TempOf(n)    == Name(n, "tmp")
FileNames    == BackupNames \cup {TempOf(n) : n \in BackupNames}
Names        == FileNames \cup DirNames
SourceNames  == [stem : Stems, ext : {"bak", "old"}]
Paths        == UNION {[1 .. k -> Names] : k \in 1 .. MaxDepth}
Root         == <<>>

Parent(p)    == SubSeq(p, 1, Len(p) - 1)
Leaf(p)      == p[Len(p)]
In(d, n)     == Append(d, n)
Within(d, p) == Len(d) <= Len(p) /\ SubSeq(p, 1, Len(d)) = d
Temp(p)      == In(Parent(p), TempOf(Leaf(p)))

Folder     == [kind |-> "dir", data |-> None, ro |-> FALSE]
Backup     == [kind : Kinds, data : Data \cup {Torn}, ro : BOOLEAN]

IsDir(f, p)  == p = Root \/ (p \in DOMAIN f /\ f[p].kind = "dir")
IsFile(f, p) == p \in DOMAIN f /\ f[p].kind # "dir"

(* What the file system guarantees: names fit what they name, and what is  *)
(* below something is below a folder.                                      *)
IsLibrary(f) ==
  /\ DOMAIN f \subseteq Paths
  /\ \A p \in DOMAIN f :
       /\ f[p] \in Backup \cup {Folder}
       /\ Leaf(p) \in IF f[p].kind = "dir" THEN DirNames ELSE FileNames
       /\ \A k \in 0 .. Len(p) - 1 : IsDir(f, SubSeq(p, 1, k))

IsSource(src) ==
  /\ DOMAIN src = {"rel", "kind"} /\ src.kind \in Kinds \cup {None}
  /\ src.rel \in Seq(DirNames \cup SourceNames) \ {<<>>}
  /\ Parent(src.rel) \in Seq(DirNames) /\ Leaf(src.rel) \in SourceNames

ASSUME BackupTreeAssumption ==
  /\ StampOf \in [Kinds -> SUBSET Stems] /\ Hidden \subseteq DirStems
  /\ MaxDepth \in Nat \ {0} /\ MaxEntries \in Nat /\ Env \subseteq EnvFaults
  /\ Torn \notin Data /\ None \notin Data \cup {Torn}
  /\ \A k \in Kinds : StampOf[k] \cap Hidden = {}
  /\ \A src \in Sources : IsSource(src)
  /\ MaxScan \in Nat
  /\ \A f \in Library : IsLibrary(f)

Modes == {"idle", "menu", "confirm", "edit", "drag"}

VARIABLES
  disk,   \* the library: its files and folders by path
  items,  \* save_tree_t.items: what the last refresh found, with the root
  sel,    \* the selected item, or None
  ui,     \* what the tree waits for, the item it is about, and whether the
          \* handle it kept of that item has been freed since
  op,     \* the command that is writing, or None
  fresh   \* history: the backup just made, until the user turns elsewhere

vars == <<disk, items, sel, ui, op, fresh>>

Idle == [mode |-> "idle", item |-> None, stale |-> FALSE]

-----------------------------------------------------------------------------
(***************************************************************************)
(* The file system.                                                        *)
(***************************************************************************)
With(f, p, v)   == [q \in DOMAIN f \cup {p} |-> IF q = p THEN v ELSE f[q]]
Without(f, S)   == [q \in DOMAIN f \ S |-> f[q]]
Below(f, p)     == {q \in DOMAIN f : Within(p, q)}

(* CreateFileW with CREATE_ALWAYS, and the target of MoveFileExW with      *)
(* MOVEFILE_REPLACE_EXISTING: no folder and no read-only file is replaced. *)
CanWrite(f, p) == /\ IsDir(f, Parent(p))
                  /\ p \in DOMAIN f => IsFile(f, p) /\ ~f[p].ro

Fits(f, p) == Len(p) <= MaxDepth
              /\ (p \in DOMAIN f \/ Cardinality(DOMAIN f) < MaxEntries)

(* A file or folder changes its path, with all that is below it; files of  *)
(* the same name are replaced, folders of the same name merged.            *)
Moved(p, q, r)       == q \o SubSeq(r, Len(p) + 1, Len(r))
Relocated(f, p, q)   ==
  LET gone == Below(f, p)
      come == {Moved(p, q, r) : r \in gone}
  IN  [r \in (DOMAIN f \ gone) \cup come |->
        IF r \in come THEN f[CHOOSE s \in gone : Moved(p, q, s) = r] ELSE f[r]]

-----------------------------------------------------------------------------
(***************************************************************************)
(* Refreshing: save_tree_walk_dir skips names that begin with a dot.  All  *)
(* nodes of the tree control are deleted and made anew, so every handle to *)
(* one is void: refreshing ends a drag, deleting the nodes ends an edit,   *)
(* but an open menu keeps its handle.                                      *)
(***************************************************************************)
Shown(p) == \A i \in DOMAIN p : p[i].stem \notin Hidden

View(f) == [p \in {q \in DOMAIN f : Shown(q)} \cup {Root} |->
             IF p = Root THEN [dir |-> TRUE, ro |-> FALSE]
             ELSE [dir |-> f[p].kind = "dir", ro |-> f[p].kind # "dir" /\ f[p].ro]]

\* A wrong version of EndsDrag: the drag goes on.
EndsDragNot(u) == IF u.mode = "edit" THEN Idle
                  ELSE IF u.mode \in {"menu", "drag"} THEN [u EXCEPT !.stale = TRUE] ELSE u

EndsDrag(u) == IF u.mode \in {"drag", "edit"} THEN Idle
               ELSE IF u.mode = "menu" THEN [u EXCEPT !.stale = TRUE] ELSE u

(* save_tree_refresh forgets the selection.                                *)
Refresh(f, u) == items' = View(f) /\ ui' = EndsDrag(u)

\* save_tree_select_full_path: what is hidden or too deep cannot be selected.
Selectable(v, p) == IF p \in DOMAIN v THEN p ELSE None

(* save_tree_refresh_preserve_selection looks for the path that was        *)
(* selected, then for its parent, and so on up to the root.                *)
Nearest(v, p) == LET kept == {k \in 0 .. Len(p) : SubSeq(p, 1, k) \in DOMAIN v}
                 IN  SubSeq(p, 1, CHOOSE k \in kept : \A j \in kept : j <= k)

\* A wrong version of Reselect: no selection is looked for.
ReselectRoot(v, p) == Root

Reselect(v, p) == IF p = None THEN Root ELSE Nearest(v, p)

RefreshPreserving(f, u) == Refresh(f, u) /\ sel' = Reselect(View(f), sel)

-----------------------------------------------------------------------------
(***************************************************************************)
(* Writing a backup.                                                       *)
(***************************************************************************)
Command(cmd, file, target, kind) ==
  [cmd |-> cmd, file |-> file, target |-> target, kind |-> kind, stage |-> "write",
   dir |-> Root, rest |-> {}, count |-> 0, made |-> {}]

Opened(f, p, k) == With(f, p, [kind |-> k, data |-> Torn, ro |-> FALSE])

(* ersm_compress_to_file deletes the file that it cannot open for writing, *)
(* if nothing but writing is denied.                                       *)
Unopened(f, p) == IF "io" \in Env /\ IsFile(f, p) /\ ~f[p].ro THEN Without(f, {p}) ELSE f

(* Bound: a temporary file that a kill left behind is not renamed, moved,  *)
(* replaced or locked, only written again, deleted or selected.            *)
NotLeftOver(i) == i = Root \/ Leaf(i).ext # "tmp"

(* save_tree_get_selected_dir: of what the tree shows.                     *)
SelectedDir == IF sel = None THEN Root
               ELSE IF items[sel].dir THEN sel ELSE Parent(sel)

(* Backup Full Save and Backup Current Slot.  The name is the local time,  *)
(* to the second: it may have been given before.                           *)
BackupSave(k) ==
  /\ op = None
  /\ \E s \in StampOf[k] :
       LET p == In(SelectedDir, Name(s, "bak")) IN
       /\ CanWrite(disk, p) /\ Fits(disk, p)
       /\ disk' = Opened(disk, p, k)
       /\ op' = Command("backup", p, p, k)
  /\ UNCHANGED <<items, sel, ui, fresh>>

\* save_tree_selected_file_can_replace, which also enables the button.
ShownWritable == sel # None /\ ~items[sel].dir /\ ~items[sel].ro

(* Backup & Replace, by hotkey or button: the tree must show a writable    *)
(* file, and the file must be one.                                         *)
CanReplace == /\ ShownWritable
              /\ IsFile(disk, sel) /\ ~disk[sel].ro
              /\ NotLeftOver(sel)

\* A wrong version of BackupReplace: it writes over the backup directly.
BackupReplaceInPlace ==
  /\ op = None /\ CanReplace
  /\ disk' = Opened(disk, sel, disk[sel].kind)
  /\ op' = Command("replace", sel, sel, disk[sel].kind)
  /\ UNCHANGED <<items, sel, ui, fresh>>

(* What the selected file holds decides what is written.                   *)
BackupReplace ==
  /\ op = None /\ CanReplace
  /\ CanWrite(disk, Temp(sel)) /\ Fits(disk, Temp(sel))
  /\ disk' = Opened(disk, Temp(sel), disk[sel].kind)
  /\ op' = Command("replace", Temp(sel), sel, disk[sel].kind)
  /\ UNCHANGED <<items, sel, ui, fresh>>

BackupRefused ==
  /\ op = None
  /\ \/ \E k \in Kinds : \E s \in StampOf[k] :
          disk' = Unopened(disk, In(SelectedDir, Name(s, "bak")))
     \/ CanReplace /\ disk' = Unopened(disk, Temp(sel))
  /\ fresh' = IF fresh \in DOMAIN disk' THEN fresh ELSE None
  /\ UNCHANGED <<items, sel, ui, op>>

Writing(cmds) == op # None /\ op.stage = "write" /\ op.cmd \in cmds

Written(d) == With(disk, op.file, [kind |-> op.kind, data |-> d, ro |-> FALSE])

(* The tree is refreshed before the new backup is selected.                *)
Finish(f, p) == /\ disk' = f
                /\ Refresh(f, ui)
                /\ sel' = Selectable(View(f), p)
                /\ fresh' = p
                /\ op' = None

WriteBackup(d) == Writing({"backup"}) /\ Finish(Written(d), op.target)

WriteTemp(d) ==
  /\ Writing({"replace"})
  /\ disk' = Written(d)
  /\ op' = [op EXCEPT !.stage = "commit"]
  /\ UNCHANGED <<items, sel, ui, fresh>>

(* A write that fails deletes the file it was to write.                    *)
WriteFails ==
  /\ Writing({"backup", "replace"}) /\ "io" \in Env
  /\ disk' = Without(disk, {op.file})
  /\ op' = None
  /\ UNCHANGED <<items, sel, ui>>
  /\ fresh' = IF fresh = op.file THEN None ELSE fresh

(* commit_replace_temp_file.                                               *)
Committing == op # None /\ op.stage = "commit"
CanCommit  == IsFile(disk, op.file) /\ CanWrite(disk, op.target)

Commit ==
  /\ Committing /\ CanCommit
  /\ Finish(Relocated(disk, op.file, op.target), op.target)

CommitFails ==
  /\ Committing /\ (CanCommit => "io" \in Env)
  /\ disk' = IF IsFile(disk, op.file) /\ ~disk[op.file].ro
               THEN Without(disk, {op.file}) ELSE disk
  /\ op' = None
  /\ UNCHANGED <<items, sel, ui, fresh>>

-----------------------------------------------------------------------------
(***************************************************************************)
(* Import.  What the user has ticked is written one by one under the       *)
(* selected folder, at the path it has in its source folder; the backup    *)
(* extension replaces its own, and missing folders are made.               *)
(***************************************************************************)
Ancestors(p)  == {SubSeq(p, 1, k) : k \in 1 .. Len(p) - 1}
Dest(src)     == LET p == op.dir \o src.rel
                 IN  In(Parent(p), Name(Leaf(p).stem, "bak"))
WithDirs(f, p) == [q \in DOMAIN f \cup Ancestors(p) |-> IF q \in DOMAIN f THEN f[q] ELSE Folder]

\* import_scan_directory: the saves that are not too deep, wherever hidden.
Found == {src \in Sources : src.kind # None /\ Len(src.rel) - 1 <= MaxScan}

\* The dialog of the import: nothing is ticked at first.
Ticked == SUBSET Found \ {{}}

ImportStart(S) ==
  /\ op = None /\ ui.mode = "idle"
  /\ op' = [Command("import", Root, Root, "full") EXCEPT
              !.stage = "next", !.dir = SelectedDir, !.rest = S]
  /\ UNCHANGED <<disk, items, sel, ui, fresh>>

Importing == op # None /\ op.cmd = "import"

(* IMPORT_MODE_ORIGINAL keeps the kind, IMPORT_MODE_SINGLE_SLOT makes it a *)
(* slot.                                                                   *)
ImportOpen(src, k) ==
  LET p == Dest(src)
      f == WithDirs(disk, p) IN
  /\ Importing /\ op.stage = "next" /\ src \in op.rest
  /\ k \in {src.kind, "slot"}
  /\ \A a \in Ancestors(p) : IsDir(f, a)
  /\ CanWrite(f, p) /\ Fits(f, p)
  /\ disk' = Opened(f, p, k)
  /\ op' = [op EXCEPT !.stage = "write", !.file = p, !.kind = k, !.rest = @ \ {src}]
  /\ UNCHANGED <<items, sel, ui>>
  /\ fresh' = IF fresh = p THEN None ELSE fresh

(* A save that is not imported: its folder cannot be made, or it cannot be *)
(* read or written, and then its folder is there all the same.             *)
ImportSkip(src) ==
  LET p == Dest(src)
      f == WithDirs(disk, p) IN
  /\ Importing /\ op.stage = "next" /\ src \in op.rest
  /\ \/ disk' = disk /\ ("io" \in Env \/ ~Fits(f, p) \/ \E a \in Ancestors(p) : ~IsDir(f, a))
     \/ /\ \A a \in Ancestors(p) : IsDir(f, a)
        /\ Fits(f, p)
        /\ \/ disk' = f /\ ("io" \in Env \/ ~CanWrite(f, p))
           \/ disk' = Unopened(f, p)
  /\ op' = [op EXCEPT !.rest = @ \ {src}, !.made = @ \cap DOMAIN disk']
  /\ fresh' = IF fresh \in DOMAIN disk' THEN fresh ELSE None
  /\ UNCHANGED <<items, sel, ui>>

ImportWrite(d) ==
  /\ Writing({"import"})
  /\ disk' = Written(d)
  /\ op' = [op EXCEPT !.stage = "next", !.count = @ + 1, !.made = @ \cup {op.file}]
  /\ UNCHANGED <<items, sel, ui, fresh>>

ImportWriteFails ==
  /\ Writing({"import"}) /\ "io" \in Env
  /\ disk' = Without(disk, {op.file})
  /\ op' = [op EXCEPT !.stage = "next", !.made = @ \ {op.file}]
  /\ UNCHANGED <<items, sel, ui, fresh>>

ImportEnd ==
  /\ Importing /\ op.stage = "next" /\ op.rest = {}
  /\ op' = None
  /\ UNCHANGED disk
  /\ \/ op.count = 0 /\ UNCHANGED <<items, sel, ui, fresh>>
     \/ op.count > 0 /\ Refresh(disk, ui) /\ sel' = None /\ fresh' = None

-----------------------------------------------------------------------------
(***************************************************************************)
(* The tree's own commands.                                                *)
(***************************************************************************)
Ready(m) == op = None /\ ui.mode = m

Wait(m, i) == ui' = [mode |-> m, item |-> i, stale |-> FALSE]

Select(i) ==
  /\ Ready("idle")
  /\ sel' = i /\ fresh' = None
  /\ UNCHANGED <<disk, items, ui, op>>

(* Previous and Next Save: another file of the folder, if there is one.    *)
(* Which one is next depends on the sort mode, and is left open.           *)
SiblingFiles == {i \in DOMAIN items \ {Root} : ~items[i].dir /\ Parent(i) = SelectedDir}

SelectSibling ==
  /\ op = None
  /\ sel' \in (IF SiblingFiles = {sel} THEN {sel} ELSE SiblingFiles \ {sel})
  /\ fresh' = None
  /\ UNCHANGED <<disk, items, ui, op>>

KeyDelete ==
  /\ Ready("idle") /\ sel \notin {None, Root}
  /\ Wait("confirm", sel)
  /\ UNCHANGED <<disk, items, sel, op, fresh>>

KeyRename ==
  /\ Ready("idle") /\ sel \notin {None, Root}
  /\ Wait("edit", sel)
  /\ UNCHANGED <<disk, items, sel, op, fresh>>

RightClick(i) ==
  /\ Ready("idle")
  /\ sel' = IF i = None THEN sel ELSE i
  /\ Wait("menu", i)
  /\ fresh' = None
  /\ UNCHANGED <<disk, items, op>>

BeginDrag(i) ==
  /\ Ready("idle") /\ NotLeftOver(i)
  /\ Wait("drag", i)
  /\ UNCHANGED <<disk, items, sel, op, fresh>>

Cancel ==
  /\ op = None /\ ui.mode # "idle"
  /\ ui' = Idle
  /\ UNCHANGED <<disk, items, sel, op, fresh>>

(* The item a handle leads to.  A handle to a node that was deleted since  *)
(* leads nowhere, or to the node that got its memory.                      *)
Meant(u) == IF ~u.stale THEN {u.item} ELSE {None} \cup DOMAIN items

FolderOf(i) == IF i = None THEN Root ELSE IF items[i].dir THEN i ELSE Parent(i)

\* save_tree_new_folder.
NewFolder(p) ==
  /\ IsDir(disk, Parent(p)) /\ p \notin DOMAIN disk /\ Fits(disk, p)
  /\ disk' = With(disk, p, Folder)
  /\ Refresh(disk', Idle)
  /\ sel' = None

(* create_unique_folder tries names until one is free.                     *)
MenuNewFolder ==
  /\ Ready("menu")
  /\ \E i \in Meant(ui), s \in DirStems : NewFolder(In(FolderOf(i), Name(s, "")))
  /\ fresh' = None
  /\ UNCHANGED op

MenuRename ==
  /\ Ready("menu")
  /\ \E i \in Meant(ui) \ {None, Root} : Wait("edit", i)
  /\ UNCHANGED <<disk, items, sel, op, fresh>>

MenuDelete ==
  /\ Ready("menu")
  /\ \E i \in Meant(ui) \ {None, Root} : Wait("confirm", i)
  /\ UNCHANGED <<disk, items, sel, op, fresh>>

(* The menu has the entry enabled if a file was clicked; what it does is   *)
(* the opposite of what the tree shows once it is chosen.                  *)
MenuReadOnly ==
  /\ Ready("menu")
  /\ \E i \in Meant(ui) \ {None, Root} :
       /\ ~items[i].dir /\ NotLeftOver(i) /\ IsFile(disk, i)
       /\ disk' = [disk EXCEPT ![i].ro = ~items[i].ro]
  /\ IF disk' = disk THEN ui' = Idle /\ UNCHANGED <<items, sel>>
                     ELSE RefreshPreserving(disk', Idle)
  /\ UNCHANGED <<op, fresh>>

(* save_tree_delete: to the recycle bin, whatever the path names by now.   *)
ConfirmDelete ==
  /\ Ready("confirm") /\ ui.item \in DOMAIN disk
  /\ disk' = Without(disk, Below(disk, ui.item))
  /\ Refresh(disk', Idle)
  /\ sel' = None /\ fresh' = None
  /\ UNCHANGED op

\* A wrong version of RenameTo: an existing file is removed first.
RenameToForced(p, n) ==
  LET q == In(Parent(p), n) IN
  /\ p \in DOMAIN disk /\ p # q
  /\ disk[p].kind = "dir" => q \notin DOMAIN disk
  /\ disk' = Relocated(disk, p, q)
  /\ Refresh(disk', Idle)
  /\ sel' = Selectable(View(disk'), q)

(* save_tree_rename: a file keeps its extension.                           *)
RenameTo(p, n) ==
  LET q == In(Parent(p), n) IN
  /\ p \in DOMAIN disk /\ p # q
  /\ CanWrite(disk, q) /\ (disk[p].kind = "dir" => q \notin DOMAIN disk)
  /\ disk' = Relocated(disk, p, q)
  /\ Refresh(disk', Idle)
  /\ sel' = Selectable(View(disk'), q)

EndEdit ==
  /\ Ready("edit") /\ NotLeftOver(ui.item)
  /\ \E s \in IF items[ui.item].dir THEN DirStems ELSE Stems :
       RenameTo(ui.item, [Leaf(ui.item) EXCEPT !.stem = s])
  /\ fresh' = None
  /\ UNCHANGED op

(* save_tree_move: a folder does not go into itself.  The shell replaces   *)
(* files of the same name without asking, merges folders, and does nothing *)
(* with what is dropped where it is.                                       *)
CanMove(p, q) == /\ p \in DOMAIN disk /\ p # q
                 /\ IsDir(disk, Parent(q)) /\ ~Within(p, Parent(q))
                 /\ \A r \in Below(disk, p) :
                      LET s == Moved(p, q, r) IN
                      /\ Len(s) <= MaxDepth
                      /\ s \in DOMAIN disk => (disk[s].kind = "dir" <=> disk[r].kind = "dir")

Drop(i) ==
  /\ Ready("drag")
  /\ \E p \in Meant(ui) \ {None, Root} :
       LET q == In(FolderOf(i), Leaf(p)) IN
       /\ CanMove(p, q)
       /\ disk' = Relocated(disk, p, q)
  /\ Refresh(disk', Idle)
  /\ sel' = None /\ fresh' = None
  /\ UNCHANGED op

-----------------------------------------------------------------------------
(***************************************************************************)
(* Other refreshes.                                                        *)
(***************************************************************************)

(* The refresh timer, a new sort mode, and the undo hotkey.                *)
TimerRefresh ==
  /\ op = None
  /\ RefreshPreserving(disk, ui)
  /\ UNCHANGED <<disk, op, fresh>>

(* The undo button: unlike its hotkey it forgets the selection.            *)
UndoButton ==
  /\ Ready("idle")
  /\ Refresh(disk, ui) /\ sel' = None /\ fresh' = None
  /\ UNCHANGED <<disk, op>>

(* Other programs.  The file that is being written is open to nobody else, *)
(* so neither it nor the folders above it go away.  (The bound above: they *)
(* leave alone what a kill has left behind.)                               *)
Free(p) == op # None => op.stage # "write" \/ ~Within(p, op.file)

Others ==
  /\ "others" \in Env
  /\ \E p \in DOMAIN disk :
       /\ Free(p) /\ (p \in DOMAIN items => NotLeftOver(p))
       /\ \/ disk' = Without(disk, Below(disk, p))
          \/ disk[p].kind # "dir" /\ disk' = [disk EXCEPT ![p].ro = ~@]
  /\ fresh' = IF fresh \in DOMAIN disk' THEN fresh ELSE None
  /\ UNCHANGED <<items, sel, ui, op>>

(* Praxis is killed and started again.                                     *)
Crash ==
  /\ "crash" \in Env /\ op # None
  /\ items' = View(disk) /\ sel' = None /\ ui' = Idle /\ op' = None /\ fresh' = None
  /\ UNCHANGED disk

Init ==
  /\ disk \in Library
  /\ items = View(disk)
  /\ sel = None /\ ui = Idle /\ op = None /\ fresh = None

Next ==
  \/ \E k \in Kinds : BackupSave(k)
  \/ BackupReplace \/ BackupRefused
  \/ \E d \in Data : WriteBackup(d) \/ WriteTemp(d) \/ ImportWrite(d)
  \/ WriteFails \/ Commit \/ CommitFails
  \/ \E S \in Ticked : ImportStart(S)
  \/ \E src \in Found : ImportSkip(src) \/ \E k \in Kinds : ImportOpen(src, k)
  \/ ImportWriteFails \/ ImportEnd
  \/ \E i \in DOMAIN items : Select(i) \/ (i # Root /\ BeginDrag(i))
  \/ \E i \in DOMAIN items \cup {None} : RightClick(i) \/ Drop(i)
  \/ SelectSibling \/ KeyDelete \/ KeyRename \/ Cancel
  \/ MenuNewFolder \/ MenuRename \/ MenuDelete \/ MenuReadOnly
  \/ ConfirmDelete \/ EndEdit
  \/ TimerRefresh \/ UndoButton \/ Others \/ Crash

Spec == Init /\ [][Next]_vars

-----------------------------------------------------------------------------
(***************************************************************************)
(* Properties                                                              *)
(***************************************************************************)

(* Every variable keeps its shape: the library is a tree, and the          *)
(* selection and whatever the tree waits with are items of it.             *)
TypeOK ==
  /\ IsLibrary(disk)
  /\ DOMAIN items \subseteq Paths \cup {Root} /\ Root \in DOMAIN items
  /\ \A i \in DOMAIN items : items[i] \in [dir : BOOLEAN, ro : BOOLEAN]
  /\ sel \in DOMAIN items \cup {None}
  /\ ui.mode \in Modes /\ ui.stale \in BOOLEAN
  /\ fresh \in Paths \cup {None}
  /\ op # None => /\ op.cmd \in {"backup", "replace", "import"} /\ op.kind \in Kinds
                  /\ op.stage \in {"write", "commit", "next"} /\ op.rest \subseteq Found
                  /\ op.stage = "write" => IsFile(disk, op.file) /\ disk[op.file].data = Torn

(* "Read-only backup files cannot be replaced." (README.md:59): a backup   *)
(* that is read-only on disk, whatever the tree shows, is changed by no    *)
(* backup command, import or rename.  What the user has picked is deleted, *)
(* renamed or moved all the same, a move replaces what is in its way, and  *)
(* the menu takes the lock away.  (The temporary file of Replace is not a  *)
(* backup.)                                                                *)
PickedByUser(p) ==
  \/ ui.mode \in {"confirm", "edit", "drag"} /\ Within(ui.item, p)
  \/ ui.mode = "drag" /\ p \in DOMAIN disk'
  \/ ui.mode = "menu" /\ p \in DOMAIN disk' /\ disk'[p] = [disk[p] EXCEPT !.ro = FALSE]

ReadOnlyKept ==
  [][\A p \in DOMAIN disk :
       disk[p].ro => \/ p \in DOMAIN disk' /\ disk'[p] = disk[p]
                     \/ op = None /\ op' = None /\ PickedByUser(p)
                     \/ op # None /\ op.stage = "commit" /\ p = op.file
                     \/ Others]_vars

(* "The replacement is written to a temporary file first, then moved over  *)
(* the selected backup only after the new backup succeeds"                 *)
(* (praxis_hotkey_actions.h:79-80): at every moment, a kill included, the  *)
(* selected backup is what it was or a complete new one of its kind, and   *)
(* no other backup is touched.                                             *)
Replacing == \/ op # None /\ op.cmd = "replace"
             \/ op = None /\ op' # None /\ op'.cmd = "replace"

ReplaceOldOrNew ==
  [][Replacing => \A p \in DOMAIN disk :
       \/ p \in DOMAIN disk' /\ disk'[p] = disk[p]
       \/ Leaf(p).ext = "tmp"
       \/ /\ op # None /\ p = op.target /\ p \in DOMAIN disk'
          /\ disk'[p].data # Torn /\ disk'[p].kind = disk[p].kind
       \/ Others]_vars

(* "the watcher's later refresh sees our selection and preserves it"       *)
(* (praxis_hotkey_actions.c:221-222): a backup that was just made stays    *)
(* selected through refreshes, failing commands, dialogs and deletions of  *)
(* other files until the user selects or changes something, or it is gone. *)
FreshStaysSelected == fresh # None => sel = fresh

(* A drag or a label edit that is under way is never about a node that a   *)
(* refresh has deleted: dropping moves what was picked up.                 *)
HandlesLive ==
  ui.mode \in {"drag", "edit"} => ~ui.stale /\ ui.item \in DOMAIN items

(* "Number of successfully imported files" (praxis_import_executor.h:35):  *)
(* as many files as the command counts are there.                          *)
ImportCountsFiles == Importing => op.count = Cardinality(op.made)
=============================================================================
