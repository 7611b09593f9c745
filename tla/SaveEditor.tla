----------------------------- MODULE SaveEditor -----------------------------
(***************************************************************************)
(* ERSaveManager: the save that is shown, the save that is loaded          *)
(* (save_data) and the save on disk.  handle_save_folder_selection loads a *)
(* save and may re-sign it; the import, rename, DLC and face commands edit *)
(* the loaded copy and overwrite the same regions of the file in place,    *)
(* one write after the other, each checksum computed from memory.          *)
(*                                                                         *)
(* The file is opened for each command alone, so the game may save between *)
(* two commands; any write may fail, and the writes after it are left out. *)
(* Files come and go, too, but for the one that is loaded.                 *)
(* Version downgrades, which edit a copy, are in VersionDowngrade.         *)
(***************************************************************************)
EXTENDS Integers, Sequences, FiniteSets

CONSTANTS
  Slots,       \* the character slots, 1 to their number
  Roots,       \* the folders that config.save_path may name
  Names,       \* the entries of the drop-down list, those of all folders
  Listings,    \* what a scan of a folder may find: sequences of them
  FolderUser,  \* the Steam ID in the path of an entry
  Users,       \* the Steam IDs
  Heroes,      \* what the rest of a character's data may be
  Texts,       \* the character names
  Faces,       \* the appearances of the face slot
  NpcFaces,    \* embedded_face_data: the faces that come with ERSaveManager
  Foreign,     \* characters from elsewhere
  InitDisks,   \* what the saves may be at first
  None,        \* no save, no entry, a file that does not parse
  MaxFaults,   \* bounds what fails
  MaxCommands, \* bounds the edits and the exports
  MaxGame      \* bounds the saves of the game, and the files that come and go

OnList(l)  == {l[k] : k \in DOMAIN l}
Entries(r) == UNION {OnList(l) : l \in Listings[r]}
Saves      == {s \in Roots \X Names : s[2] \in Entries(s[1])}

(***************************************************************************)
(* The file: the summary and the character slots.  Each place holds a body *)
(* and the body its checksum was computed from.                            *)
(***************************************************************************)
Summary == 0
Places  == Slots \cup {Summary}

CharFields    == {"hero", "name", "dlc", "owner"}
SummaryFields == {<<"user", 0>>, <<"face", 0>>} \cup ({"profile", "used"} \X Slots)

IsChar(b)    == /\ b = [x \in CharFields |-> b[x]] /\ b["hero"] \in Heroes
                /\ b["name"] \in Texts /\ b["dlc"] \in BOOLEAN /\ b["owner"] \in Users
IsSummary(b) == /\ b = [x \in SummaryFields |-> b[x]]
                /\ b[<<"user", 0>>] \in Users /\ b[<<"face", 0>>] \in Faces
                /\ \A i \in Slots : b[<<"profile", i>>] \in Texts /\ b[<<"used", i>>] \in BOOLEAN

AreBodies(bs)   == /\ bs = [p \in Places |-> bs[p]]
                   /\ IsSummary(bs[Summary]) /\ \A i \in Slots : IsChar(bs[i])
Bodies(f)       == [p \in Places |-> f[p].body]
Sums(f)         == [p \in Places |-> f[p].sum]
UserOf(bs)      == bs[Summary][<<"user", 0>>]
UsedSlots(bs)   == {i \in Slots : bs[Summary][<<"used", i>>]}

IsFile(f) == /\ f = [p \in Places |-> [body |-> f[p].body, sum |-> f[p].sum]]
             /\ AreBodies(Bodies(f)) /\ AreBodies(Sums(f))
IsDisk(d) == d = [s \in Saves |-> d[s]] /\ \A s \in Saves : d[s] # None => IsFile(d[s])

ASSUME SaveEditorAssumption ==
  /\ IsFiniteSet(Slots) /\ Slots = 1 .. Cardinality(Slots)
  /\ Listings \in [Roots -> SUBSET Seq(Names)] /\ FolderUser \in [Names -> Users]
  /\ \A c \in Foreign : IsChar(c)
  /\ \A d \in InitDisks : IsDisk(d)
  /\ NpcFaces \subseteq Faces
  /\ None \notin Faces \cup Names \cup Nat
  /\ {MaxFaults, MaxCommands, MaxGame} \subseteq Nat

VARIABLES
  disk,      \* the saves
  mem,       \* save_data: which save, its bodies, where its slots go in the file; or None
  path,      \* config.save_path
  sub,       \* config.save_subfolder
  listed,    \* the entries of the drop-down list, as the last scan found them
  shown,     \* its selection
  ini,       \* the configuration file: path and sub
  rows,      \* list_view_chars: what the row of each slot shows
  shelf,     \* the files that a character and a face are exported to: what each holds, or None
  open,      \* ERSaveManager runs
  faces,     \* list_view_faces: what the face dialog shows, or None when it is closed
  faults, commands, games,  \* what has failed, been edited, been saved by the game
  clean,     \* history: since the load nothing failed and the game did not save
  sealed,    \* history: the places written since the load
  moved,     \* history: the folder was changed since the load
  edited     \* history: what the last step edited, [save, slot], or None

settings == <<path, sub, listed, shown, ini, open, moved>>
vars     == <<disk, mem, rows, shelf, settings, faces, faults, commands, games, clean, sealed, edited>>

-----------------------------------------------------------------------------
(***************************************************************************)
(* Writes in place.  A plan is the sequence of write_at calls of a         *)
(* command; "ok = ok && write_at" makes what is done a prefix of it.       *)
(***************************************************************************)
SumOf(p)          == [kind |-> "sum", place |-> p]
PartOf(p, fields) == [kind |-> "body", place |-> p, fields |-> fields]

Target(m, p) == IF p = Summary THEN Summary ELSE m.at[p]

\* One write_at, its bytes taken from memory m.
Put(f, m, w) ==
  LET q == Target(m, w.place)
      b == m.body[w.place]
  IN  IF w.kind = "sum"
        THEN [f EXCEPT ![q].sum = b]
        ELSE [f EXCEPT ![q].body = [x \in DOMAIN @ |-> IF x \in w.fields THEN b[x] ELSE @[x]]]

Written(f, m, plan, k) ==
  LET done[n \in 0 .. k] == IF n = 0 THEN f ELSE Put(done[n - 1], m, plan[n])
  IN  done[k]

Touched(m, plan) == {Target(m, plan[n].place) : n \in DOMAIN plan}

-----------------------------------------------------------------------------
(***************************************************************************)
(* What the commands make of the loaded save, and what they write.         *)
(***************************************************************************)
\* A wrong version of Imported: the offset of the slot comes with the character.
ImportedElsewhere(m, i, c) ==
  [m EXCEPT !.body[i] = [c EXCEPT !["owner"] = UserOf(m.body)],
            !.body[Summary] = [@ EXCEPT ![<<"profile", i>>] = c["name"], ![<<"used", i>>] = TRUE],
            !.at[i] = 1]

Imported(m, i, c) ==
  [m EXCEPT !.body[i] = [c EXCEPT !["owner"] = UserOf(m.body)],
            !.body[Summary] = [@ EXCEPT ![<<"profile", i>>] = c["name"], ![<<"used", i>>] = TRUE]]

\* A wrong version of ImportPlan: the slot is not marked as used in the file.
ImportPlanUnmarked(i) ==
  <<SumOf(i), PartOf(i, CharFields), SumOf(Summary), PartOf(Summary, {<<"profile", i>>})>>

ImportPlan(i) ==
  <<SumOf(i), PartOf(i, CharFields), SumOf(Summary),
    PartOf(Summary, {<<"profile", i>>}), PartOf(Summary, {<<"used", i>>})>>

Renamed(m, i, t) == [m EXCEPT !.body[i]["name"] = t, !.body[Summary][<<"profile", i>>] = t]
RenamePlan(i) ==
  <<SumOf(i), PartOf(i, {"name"}), SumOf(Summary), PartOf(Summary, {<<"profile", i>>})>>

Toggled(m, i) == [m EXCEPT !.body[i]["dlc"] = ~@]
DlcPlan(i)    == <<SumOf(i), PartOf(i, {"dlc"})>>

Faced(m, v) == [m EXCEPT !.body[Summary][<<"face", 0>>] = v]
FacePlan    == <<SumOf(Summary), PartOf(Summary, {<<"face", 0>>})>>

\* Re-signing: every used slot, in their order, and the summary at last.
Resigned(m, u) ==
  [m EXCEPT !.body = [p \in Places |->
      IF p = Summary THEN [@[p] EXCEPT ![<<"user", 0>>] = u]
      ELSE IF p \in UsedSlots(m.body) THEN [@[p] EXCEPT !["owner"] = u] ELSE @[p]]]

OwnersPlan(m) ==
  LET upTo[i \in Slots \cup {0}] ==
        IF i = 0 THEN <<>>
        ELSE IF i \in UsedSlots(m.body) THEN upTo[i - 1] \o <<SumOf(i), PartOf(i, {"owner"})>>
        ELSE upTo[i - 1]
  IN  upTo[CHOOSE i \in Slots \cup {0} : i + 1 \notin Slots]

UserPlan == <<SumOf(Summary), PartOf(Summary, {<<"user", 0>>})>>

\* A wrong version of ResignPlan: the summary goes first.
ResignPlanSummaryFirst(m) == UserPlan \o OwnersPlan(m)

ResignPlan(m) == OwnersPlan(m) \o UserPlan

(***************************************************************************)
(* update_char_list_view: the row of a slot, and the rows that are set     *)
(* after a command on it; after a load they are all filled anew.           *)
(***************************************************************************)
EmptyRow  == [hero |-> None, name |-> None, dlc |-> None]
Row(m, i) ==
  IF i \in UsedSlots(m.body)
    THEN [hero |-> m.body[i]["hero"], name |-> m.body[i]["name"], dlc |-> m.body[i]["dlc"]]
    ELSE EmptyRow

\* A wrong version of Refreshed: the row is set before the command.
RefreshedBefore(m, slot) ==
  [i \in Slots |-> IF slot = None THEN Row(m, i) ELSE IF i = slot THEN Row(mem, i) ELSE rows[i]]

Refreshed(m, slot) == [i \in Slots |-> IF slot \in {None, i} THEN Row(m, i) ELSE rows[i]]

(***************************************************************************)
(* Carrying a plan out: all of it, or up to the write that fails.          *)
(***************************************************************************)
CarriedOut(m, plan, slot) ==
  \E k \in 0 .. Len(plan) :
    /\ k < Len(plan) => faults < MaxFaults
    /\ faults' = IF k < Len(plan) THEN faults + 1 ELSE faults
    /\ commands < MaxCommands /\ commands' = commands + 1
    /\ disk' = [disk EXCEPT ![m.save] = Written(@, m, plan, k)]
    /\ mem' = m
    /\ rows' = IF k = Len(plan) \/ slot = None THEN Refreshed(m, slot) ELSE rows
    /\ clean' = (k = Len(plan) /\ (slot # None => clean))
    /\ sealed' = (IF slot # None THEN sealed ELSE {}) \cup Touched(m, plan)
    /\ edited' = [save |-> m.save, slot |-> slot]

Edit(m, plan, slot) == CarriedOut(m, plan, slot) /\ UNCHANGED <<shelf, settings, faces, games>>

\* The face dialog is modal, and on the loaded save: while it is open the main window takes
\* no command.
InMain == open /\ faces = None
Held   == mem # None \/ faces # None
Loaded == InMain /\ mem # None

-----------------------------------------------------------------------------
(***************************************************************************)
(* The commands of the main window and of the face dialog.  A command that *)
(* cannot open the file changes nothing, but for the face import.          *)
(***************************************************************************)
\* Characters to import: exported ones, and those of the saves that parse.
Exported   == Foreign \cup ({shelf.char} \ {None})
FromSaves  == UNION {{disk[s][i].body : i \in UsedSlots(Bodies(disk[s]))} :
                       s \in {x \in Saves : disk[x] # None}}
Importable == Exported \cup FromSaves

\* What menu and buttons offer on a row that is not empty.
HasChar(i) == Loaded /\ i \in UsedSlots(mem.body)

ImportChar(i, c) == Loaded /\ Edit(Imported(mem, i, c), ImportPlan(i), i)

RenameChar(i, t) == HasChar(i) /\ Edit(Renamed(mem, i, t), RenamePlan(i), i)

SetDlcFlag(i) == HasChar(i) /\ Edit(Toggled(mem, i), DlcPlan(i), i)

\* WM_INITDIALOG fills the list; without a save it has no rows to choose.
OpenFaces ==
  /\ Loaded /\ faces' = mem.body[Summary][<<"face", 0>>]
  /\ edited' = None
  /\ UNCHANGED <<disk, mem, rows, shelf, settings, faults, commands, games, clean, sealed>>

CloseFaces ==
  /\ faces # None /\ faces' = None
  /\ edited' = None
  /\ UNCHANGED <<disk, mem, rows, shelf, settings, faults, commands, games, clean, sealed>>

\* The row changes when the import succeeds.
ImportFace(v) ==
  /\ CarriedOut(Faced(mem, v), FacePlan, Summary)
  /\ faces' = IF faults' = faults THEN v ELSE faces
  /\ UNCHANGED <<shelf, settings, games>>

\* Memory already has the face when the file cannot be opened.
ImportFaceUnopened(v) ==
  /\ faults < MaxFaults /\ faults' = faults + 1
  /\ mem' = Faced(mem, v)
  /\ clean' = FALSE
  /\ edited' = None
  /\ UNCHANGED <<disk, rows, shelf, settings, faces, commands, games, sealed>>

\* Those of the menu, and what er_face_data_from_file takes: no file that was cut short.
ReadableFaces == NpcFaces \cup ({shelf.face} \ {None})

\* What the face dialog does with the face that is chosen.
FaceCommand(v) ==
  /\ faces # None /\ v \in ReadableFaces
  /\ ImportFace(v) \/ ImportFaceUnopened(v)

\* What is loaded, as it is edited by now; an export that fails leaves no whole file.
Export(kind, what) ==
  /\ \/ shelf' = [shelf EXCEPT ![kind] = what] /\ UNCHANGED faults
     \/ shelf' = [shelf EXCEPT ![kind] = None] /\ faults < MaxFaults /\ faults' = faults + 1
  /\ commands < MaxCommands /\ commands' = commands + 1
  /\ edited' = None
  /\ UNCHANGED <<disk, mem, rows, settings, faces, games, clean, sealed>>

ExportChar(i) == HasChar(i) /\ Export("char", mem.body[i])
ExportFace    == faces # None /\ Export("face", mem.body[Summary][<<"face", 0>>])

-----------------------------------------------------------------------------
(***************************************************************************)
(* handle_save_folder_selection: entry n of folder r is selected, where    *)
(* the configuration named s.  The box that asks about a foreign Steam ID  *)
(* is modal, and the game does not write such a save: reading it, the      *)
(* answer and the re-signing are one step.                                 *)
(***************************************************************************)
\* A file that parses, such as the one that is loaded.
IsThere(s) == disk[s] # None \/ (Held /\ mem.save = s)

\* add_folders_to_combo_box: a file that parses is found, another one may be.
Scan(r) == /\ listed' \in Listings[r]
           /\ \A n \in Entries(r) : IsThere(<<r, n>>) => n \in OnList(listed')

FirstOf(l) == IF l = <<>> THEN None ELSE l[1]

\* A wrong version of Back: whatever was selected before, the first entry is now.
BackToFirst(l, s) == FirstOf(l)

\* restore_previous_save_selection.
Back(l, s) == IF s \in OnList(l) THEN s ELSE FirstOf(l)

Read(r, n) == [save |-> <<r, n>>, body |-> Bodies(disk[<<r, n>>]), at |-> [i \in Slots |-> i]]

\* save_config.
Config(r, n) == [path |-> r, sub |-> n]

Accept(r, n, starting) ==
  /\ path' = r /\ sub' = n /\ shown' = n /\ moved' = FALSE
  /\ ini' = IF starting THEN ini ELSE Config(r, n)

Reject(r, n, s) ==
  /\ path' = r /\ sub' = s /\ shown' = Back(listed', s) /\ moved' = (moved \/ r # path)
  /\ edited' = None
  /\ UNCHANGED <<disk, mem, rows, ini, commands, clean, sealed>>

NothingListed(r, n) ==
  /\ n = None
  /\ path' = r /\ sub' = None /\ shown' = None /\ moved' = (moved \/ r # path)
  /\ edited' = None
  /\ UNCHANGED <<disk, mem, rows, ini, faults, commands, clean, sealed>>

Unreadable(r, n, s) ==
  /\ n # None
  /\ disk[<<r, n>>] # None => faults < MaxFaults
  /\ faults' = IF disk[<<r, n>>] # None THEN faults + 1 ELSE faults
  /\ Reject(r, n, s)

Mismatch(r, n) == UserOf(Bodies(disk[<<r, n>>])) # FolderUser[n]

Declined(r, n, s) ==
  /\ n # None /\ disk[<<r, n>>] # None /\ Mismatch(r, n)
  /\ Reject(r, n, s) /\ UNCHANGED faults

\* Without a mismatch, or when the file cannot be opened for the new owner.
LoadSave(r, n, starting) ==
  /\ n # None /\ disk[<<r, n>>] # None
  /\ Mismatch(r, n) => faults < MaxFaults
  /\ faults' = IF Mismatch(r, n) THEN faults + 1 ELSE faults
  /\ mem' = Read(r, n) /\ rows' = Refreshed(mem', None) /\ clean' = TRUE /\ sealed' = {}
  /\ edited' = None
  /\ Accept(r, n, starting)
  /\ UNCHANGED <<disk, commands>>

\* The outcome of er_save_resign_userid is not looked at.
LoadAndResign(r, n, starting) ==
  /\ n # None /\ disk[<<r, n>>] # None /\ Mismatch(r, n)
  /\ CarriedOut(Resigned(Read(r, n), FolderUser[n]), ResignPlan(Read(r, n)), None)
  /\ Accept(r, n, starting)

Selection(r, n, s, starting) ==
  /\ \/ NothingListed(r, n)
     \/ Unreadable(r, n, s)
     \/ Declined(r, n, s)
     \/ LoadSave(r, n, starting)
     \/ LoadAndResign(r, n, starting)
  /\ UNCHANGED <<shelf, faces, games>>

\* CBN_SELCHANGE.
SelectSave(n) ==
  InMain /\ n \in OnList(listed) /\ UNCHANGED <<open, listed>> /\ Selection(path, n, sub, FALSE)

\* open_dir_dialog_for_new_save_location: the list is filled anew, its first entry selected.
ChangeFolder(r) ==
  InMain /\ Scan(r) /\ Selection(r, FirstOf(listed'), sub, FALSE) /\ UNCHANGED open

\* ui_create_controls selects what the configuration names, or the first entry.
Start ==
  /\ ~open /\ open' = TRUE /\ Scan(ini.path)
  /\ Selection(ini.path, Back(listed', ini.sub), ini.sub, TRUE)

\* The language and the compression menu save the configuration at any time.
Configure ==
  /\ InMain /\ ini' = Config(path, sub) /\ edited' = None
  /\ UNCHANGED <<disk, mem, rows, shelf, path, sub, listed, shown, open, moved, faces,
                 faults, commands, games, clean, sealed>>

\* WM_DESTROY saves the configuration; a process that is killed does not.
Stop(saved) ==
  /\ open /\ (saved => InMain)
  /\ open' = FALSE /\ faces' = None /\ mem' = None /\ rows' = [i \in Slots |-> EmptyRow]
  /\ ini' = IF saved THEN Config(path, sub) ELSE ini
  /\ path' = ini'.path /\ sub' = ini'.sub /\ listed' = <<>> /\ shown' = None
  /\ moved' = FALSE /\ clean' = FALSE /\ sealed' = {} /\ edited' = None
  /\ UNCHANGED <<disk, shelf, faults, commands, games>>

(***************************************************************************)
(* The game saves what it plays: it takes a save whose checksums and owner *)
(* are right, and writes the character and the summary whole.              *)
(***************************************************************************)
GameSaves(s, i, h) ==
  /\ games < MaxGame /\ games' = games + 1
  /\ disk[s] # None /\ Sums(disk[s]) = Bodies(disk[s]) /\ ~Mismatch(s[1], s[2])
  /\ i \in UsedSlots(Bodies(disk[s]))
  /\ disk' = [disk EXCEPT ![s][i].body["hero"] = h, ![s][i].sum["hero"] = h]
  /\ clean' = (clean /\ mem.save # s)
  /\ edited' = None
  /\ UNCHANGED <<mem, rows, shelf, settings, faces, faults, commands, sealed>>

\* A file that is not loaded is deleted, or put in its place.
Replaced(s, d) ==
  /\ games < MaxGame /\ games' = games + 1
  /\ Held => mem.save # s
  /\ disk' = [disk EXCEPT ![s] = d]
  /\ edited' = None
  /\ UNCHANGED <<mem, rows, shelf, settings, faces, faults, commands, clean, sealed>>

Init ==
  /\ disk \in InitDisks /\ mem = None /\ open = FALSE /\ faces = None
  /\ rows = [i \in Slots |-> EmptyRow] /\ shelf = [char |-> None, face |-> None]
  /\ ini \in [path : Roots, sub : Names \cup {None}]
  /\ path = ini.path /\ sub = ini.sub /\ listed = <<>> /\ shown = None
  /\ faults = 0 /\ commands = 0 /\ games = 0
  /\ clean = FALSE /\ sealed = {} /\ moved = FALSE /\ edited = None

Next ==
  \/ \E i \in Slots, c \in Importable : ImportChar(i, c)
  \/ \E i \in Slots, t \in Texts : RenameChar(i, t)
  \/ \E i \in Slots : SetDlcFlag(i) \/ ExportChar(i)
  \/ OpenFaces \/ CloseFaces \/ ExportFace
  \/ \E v \in Faces : FaceCommand(v)
  \/ \E n \in Names : SelectSave(n)
  \/ \E r \in Roots : ChangeFolder(r)
  \/ Start \/ Configure
  \/ \E saved \in BOOLEAN : Stop(saved)
  \/ \E s \in Saves, i \in Slots, h \in Heroes : GameSaves(s, i, h)
  \/ \E s \in Saves : \E d \in {None} \cup {x[s] : x \in InitDisks} : Replaced(s, d)

Spec == Init /\ [][Next]_vars

-----------------------------------------------------------------------------
(***************************************************************************)
(* Properties.                                                             *)
(***************************************************************************)
\* The variables have their types; what is listed are entries of the folder.
TypeOK ==
  /\ IsDisk(disk)
  /\ shelf.char # None => IsChar(shelf.char)
  /\ {shelf.face, faces} \subseteq Faces \cup {None}
  /\ mem # None => mem.save \in Saves /\ AreBodies(mem.body) /\ mem.at \in [Slots -> Slots]
  /\ path \in Roots /\ sub \in Names \cup {None} /\ OnList(listed) \subseteq Entries(path)
  /\ shown \in OnList(listed) \cup {None}
  /\ ini \in [path : Roots, sub : Names \cup {None}]
  /\ {open, clean, moved} \subseteq BOOLEAN /\ sealed \subseteq Places
  /\ faults \in 0 .. MaxFaults /\ commands \in 0 .. MaxCommands /\ games \in 0 .. MaxGame

\* A save that carries the Steam ID of its folder carries it everywhere: a re-signing that
\* was cut short is offered again at the next load, whatever was edited or imported
\* meanwhile (er_save_resign_userid, handle_save_folder_selection).
OwnersFollowSummary ==
  \A s \in Saves : disk[s] # None /\ ~Mismatch(s[1], s[2]) =>
    \A i \in UsedSlots(Bodies(disk[s])) : disk[s][i].body["owner"] = FolderUser[s[2]]

\* As long as no write failed and the game did not save, what the window edits is what the
\* file holds, and every place it wrote has the checksum of its body: each command writes
\* all that it changed in memory (the edit functions of ersave.c).
MemoryIsTheSave ==
  mem # None /\ clean =>
    \A p \in Places : LET q == Target(mem, p) IN
      /\ disk[mem.save][q].body = mem.body[p]
      /\ q \in sealed => disk[mem.save][q].sum = disk[mem.save][q].body

\* The list shows what is edited: as long as nothing failed, each row is that of the loaded
\* character, after any sequence of loads, refused selections and edits, although only the
\* row of the edited slot is set (update_char_list_view and its callers); so does the list of
\* the face dialog (import_face_data).
ListShowsMemory ==
  mem # None /\ clean =>
    /\ \A i \in Slots : rows[i] = Row(mem, i)
    /\ faces \in {None, mem.body[Summary][<<"face", 0>>]}

\* Until the folder is changed, the entry that is shown and the one that is remembered are
\* the loaded save, however many selections were refused and however the entries of a new
\* scan of the folder differ (restore_previous_save_selection, add_folders_to_combo_box).
SelectionIsLoaded ==
  mem # None /\ ~moved => mem.save = <<path, sub>> /\ shown = sub

\* The stronger reading, for any folder: the commands modify the save that is shown.
ShownIsEdited == edited # None => edited.save = <<path, shown>>

\* An edit writes to the loaded save, and there to its own slot and its entry in the
\* summary, whether it is carried out or cut short (the slot_offset that
\* er_char_data_import keeps, the offsets of write_at).
EditsStayInTheirSlot ==
  [][edited' # None /\ edited'.slot # None =>
       /\ \A s \in Saves \ {mem.save} : disk'[s] = disk[s]
       /\ \A j \in Slots \ {edited'.slot} :
            /\ disk'[mem.save][j] = disk[mem.save][j]
            /\ \A x \in {"profile", "used"} :
                 disk'[mem.save][Summary].body[<<x, j>>] = disk[mem.save][Summary].body[<<x, j>>]]_vars
=============================================================================
