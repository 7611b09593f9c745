---------------------------- MODULE RingRestore ----------------------------
(***************************************************************************)
(* Praxis' safe restore: ring_backup.c (the pre-restore snapshots and      *)
(* their rotation), restore_safe.c (snapshot, restore, last_restore.txt),  *)
(* the restore and undo commands of praxis_hotkey_actions.c and the        *)
(* backends' restore_full / restore_slot.                                  *)
(*                                                                         *)
(* One command runs at a time (it runs to completion on the UI thread),    *)
(* but it is not atomic: it is a sequence of file operations, each of      *)
(* which can fail, between which Praxis can be killed and the game can     *)
(* save.  A command is the record op; its stages are the points between    *)
(* two file operations:                                                    *)
(*                                                                         *)
(*   "rotate" -> "copy" -> "apply" -> "meta" -> done (op = None)           *)
(*                                                                         *)
(* A file is a record: its format, what it holds, and its read-only        *)
(* attribute, which CopyFileW carries from the source to the copy.         *)
(***************************************************************************)
EXTENDS Integers, FiniteSets

CONSTANTS
  Roots,        \* the backup roots, one per backup profile; each has a ring
  Slots,        \* the character slots of a save
  Chars,        \* what a slot may hold
  Backups,      \* the files of the backup library
  RingSizes,    \* the values RingSize may have in the INI file
  ListCap,      \* files ring_list_files can return (64 in the code)
  Times,        \* the values of the millisecond clock: bounds the snapshots
  MaxAttempts,  \* where the history variable attempts saturates
  Env,          \* what the environment may do to a command
  Torn,         \* the content of a file whose write was cut short
  None          \* no file, no metadata, no command, full-save mode

EnvFaults == {"crash",  \* Praxis is killed between or during file operations
              "io",     \* an operation on a save or a snapshot fails
              "meta",   \* last_restore.txt cannot be written
              "game",   \* the game saves while a command is running
              "clock"}  \* the system clock stands still or is set back

Bodies    == [Slots -> Chars]
Contents  == Bodies \cup {Torn}
RawFiles  == [fmt : {"raw"}, data : Contents, ro : BOOLEAN]
FullFiles == [fmt : {"raw", "container", "corrupt"}, data : Bodies, ro : BOOLEAN]
SlotFiles == [fmt : {"slot"}, data : Chars, ro : BOOLEAN]

Labels    == {"full", "slot"}

(***************************************************************************)
(* A snapshot is named ring_<time>_pre_full_restore.ersm or                *)
(* ring_<time>_pre_slot_restore.ersm: the name is its sort key.            *)
(***************************************************************************)
Names   == [time : Times, label : Labels]
Targets == Slots \cup {None}             \* slot_index, or None: full restore

NameAt(t, target) == [time |-> t, label |-> IF target = None THEN "full" ELSE "slot"]

Older(m, n) == \/ m.time < n.time
               \/ m.time = n.time /\ m.label = "full" /\ n.label = "slot"

Metas == [ring : Names, target : Targets]
Ops   == [stage  : {"rotate", "copy", "apply", "meta"},
          kind   : {"restore", "undo"},
          root   : Roots,
          src    : Backups \cup Names,   \* a library file, or a snapshot's name
          target : Targets,
          snap   : Names \cup {None},    \* the name of this command's snapshot
          pre    : Contents \cup {None}, \* history: what the snapshot holds
          over   : Contents \cup {None}] \* history: what the restore has replaced

UndoPoints == [over : Contents, raced : BOOLEAN]

ASSUME RingRestoreAssumption ==
  /\ Backups \subseteq FullFiles \cup SlotFiles
  /\ RingSizes \subseteq Int /\ ListCap \in Nat /\ MaxAttempts \in Nat
  /\ Times \subseteq Nat /\ Env \subseteq EnvFaults
  /\ Torn \notin Bodies \cup Chars
  /\ None \notin Slots \cup RawFiles \cup Contents \cup Names \cup Metas \cup Ops \cup UndoPoints

VARIABLES
  live,       \* the game's save file
  ring,       \* ring[r][n]: the snapshot named n under root r, or None
  meta,       \* meta[r]: what last_restore.txt of root r says, or None
  op,         \* the command that is running, or None
  ringSize,   \* RingSize of the INI file
  now,        \* the time of the last snapshot
  undoPoint,  \* history: what the last completed restore replaced, and whether it raced
  attempts,   \* history: rotations since meta[r] was written
  raced       \* history: the game has saved since this command's snapshot was copied

vars == <<live, ring, meta, op, ringSize, now, undoPoint, attempts, raced>>
history == <<undoPoint, attempts, raced>>

(***************************************************************************)
(* ring_backup_init: a size that is not positive means 5.                  *)
(***************************************************************************)
GRingSize == IF ringSize > 0 THEN ringSize ELSE 5

Existing(r) == {n \in Names : ring[r][n] # None}

(***************************************************************************)
(* ring_list_files stops after ListCap entries, in the order the file      *)
(* system enumerates them; the caller deletes from the oldest on until     *)
(* fewer than GRingSize of those listed remain.  DeleteFileW refuses a     *)
(* read-only file, and the caller does not look at its result.             *)
(***************************************************************************)
Listings(r) == IF Cardinality(Existing(r)) <= ListCap
                 THEN {Existing(r)}
                 ELSE {L \in SUBSET Existing(r) : Cardinality(L) = ListCap}

\* Wrong versions of Doomed: one too many stays, the newest go, one too many goes.
DoomedLoose(L)  == {n \in L : Cardinality({m \in L : Older(n, m)}) >= GRingSize}
DoomedNewest(L) == {n \in L : Cardinality({m \in L : Older(m, n)}) >= GRingSize - 1}
DoomedMore(L)   == {n \in L : Cardinality({m \in L : Older(n, m)}) >= GRingSize - 2}

Doomed(L) == {n \in L : Cardinality({m \in L : Older(n, m)}) >= GRingSize - 1}

Rotated(r, L) == [n \in Names |-> IF n \in Doomed(L) /\ ~ring[r][n].ro
                                    THEN None ELSE ring[r][n]]

(***************************************************************************)
(* Starting a command.  The bound on the clock is checked here, so that a  *)
(* command that starts can take its snapshot.                              *)
(***************************************************************************)
ClockReads(t) == "clock" \in Env \/ t > now

Begin(r, kind, src, target) ==
  /\ op = None
  /\ \E t \in Times : ClockReads(t)
  /\ op' = [stage |-> "rotate", kind |-> kind, root |-> r, src |-> src,
            target |-> target, snap |-> None, pre |-> None, over |-> None]
  /\ UNCHANGED <<live, ring, meta, ringSize, now, history>>

(* restore_safe_auto: a full-save file is restored whole; a slot file goes *)
(* to the slot that is active in the live save.  Which slot that is, is    *)
(* the game's business.                                                    *)
BeginRestore(r, b) ==
  \/ b.fmt # "slot" /\ Begin(r, "restore", b, None)
  \/ b.fmt = "slot" /\ \E s \in Slots : Begin(r, "restore", b, s)

(* restore_safe_undo: nothing to do unless the metadata can be read.       *)
BeginUndo(r) ==
  /\ meta[r] # None
  /\ Begin(r, "undo", meta[r].ring, meta[r].target)

(***************************************************************************)
(* ring_backup_snapshot: name the snapshot, make room, copy the live save. *)
(***************************************************************************)
Saturated(k) == IF k < MaxAttempts THEN k + 1 ELSE k

Rotate(t) ==
  /\ op # None /\ op.stage = "rotate"
  /\ ClockReads(t)
  /\ now' = t
  /\ \E L \in Listings(op.root) : ring' = [ring EXCEPT ![op.root] = Rotated(op.root, L)]
  /\ op' = [op EXCEPT !.stage = "copy", !.snap = NameAt(t, op.target)]
  /\ attempts' = [attempts EXCEPT ![op.root] = Saturated(@)]
  /\ UNCHANGED <<live, meta, ringSize, undoPoint, raced>>

(* CopyFileW replaces a file of that name unless it is read-only.          *)
SnapTaken    == ring[op.root][op.snap]
CopyRefused  == SnapTaken # None /\ SnapTaken.ro

Copy ==
  /\ op # None /\ op.stage = "copy" /\ ~CopyRefused
  /\ ring' = [ring EXCEPT ![op.root][op.snap] = live]
  /\ op' = [op EXCEPT !.stage = "apply", !.pre = live.data]
  /\ raced' = FALSE
  /\ UNCHANGED <<live, meta, ringSize, now, undoPoint, attempts>>

\* A wrong version of CopyFails: the restore goes on without its snapshot.
CopyFailsIgnored ==
  /\ op # None /\ op.stage = "copy"
  /\ CopyRefused \/ "io" \in Env
  /\ op' = [op EXCEPT !.stage = "apply", !.pre = live.data]
  /\ UNCHANGED <<live, ring, meta, ringSize, now, history>>

CopyFails ==
  /\ op # None /\ op.stage = "copy"
  /\ CopyRefused \/ "io" \in Env
  /\ \/ UNCHANGED ring
     \/ ~CopyRefused /\ ring' = [ring EXCEPT ![op.root][op.snap] = None]
  /\ op' = None
  /\ UNCHANGED <<live, meta, ringSize, now, history>>

(***************************************************************************)
(* restore_full and restore_slot.  A raw file is copied over the save and  *)
(* brings its read-only attribute along; a container is decompressed into  *)
(* a temporary file that replaces the save in one rename; a slot file is   *)
(* written into the save in place.  restore_slot takes nothing but a slot  *)
(* container, and cannot open a read-only save for writing.                *)
(***************************************************************************)
Source == IF op.kind = "undo" THEN ring[op.root][op.src] ELSE op.src

CanApply == /\ Source # None
            /\ \/ op.target = None  /\ Source.fmt \in {"raw", "container"}
               \/ op.target # None /\ Source.fmt = "slot" /\ ~live.ro

InPlace == op.target # None \/ Source.fmt = "raw"

Applied ==
  IF op.target = None
    THEN [fmt |-> "raw", data |-> Source.data, ro |-> Source.fmt = "raw" /\ Source.ro]
    ELSE [live EXCEPT !.data = IF @ = Torn THEN Torn ELSE [@ EXCEPT ![op.target] = Source.data]]

Apply ==
  /\ op # None /\ op.stage = "apply" /\ CanApply
  /\ live' = Applied
  /\ op' = [op EXCEPT !.stage = "meta", !.over = live.data]
  /\ UNCHANGED <<ring, meta, ringSize, now, history>>

(* The backend returns false before it writes: it cannot use the source,   *)
(* or cannot open, parse or replace the save.  What a torn file parses to  *)
(* is open.  A full restore has cleared the read-only attribute by the     *)
(* time the replacement itself fails.                                      *)
MeetsTorn == Torn = IF op.target = None THEN Source.data ELSE live.data

\* A wrong version of ApplyRefused: the metadata is written all the same.
ApplyRefusedRecorded ==
  /\ op # None /\ op.stage = "apply"
  /\ CanApply => MeetsTorn \/ "io" \in Env
  /\ meta' = [meta EXCEPT ![op.root] = [ring |-> op.snap, target |-> op.target]]
  /\ attempts' = [attempts EXCEPT ![op.root] = 0]
  /\ op' = None
  /\ UNCHANGED <<live, ring, ringSize, now, undoPoint, raced>>

ApplyRefused ==
  /\ op # None /\ op.stage = "apply"
  /\ CanApply => MeetsTorn \/ "io" \in Env
  /\ \/ UNCHANGED live
     \/ op.target = None /\ CanApply /\ "io" \in Env /\ live' = [live EXCEPT !.ro = FALSE]
  /\ op' = None
  /\ UNCHANGED <<ring, meta, ringSize, now, history>>

(* The save is left half written, by an error or because Praxis dies.      *)
ApplyTorn ==
  /\ op # None /\ op.stage = "apply" /\ CanApply /\ InPlace
  /\ Env \cap {"io", "crash"} # {}
  /\ live' = [live EXCEPT !.data = Torn, !.ro = FALSE]
  /\ op' = None
  /\ UNCHANGED <<ring, meta, ringSize, now, history>>

(***************************************************************************)
(* write_last_restore_meta: CREATE_ALWAYS empties the file, then one write *)
(* fills it.  restore_safe_full ignores the result and reports success.    *)
(***************************************************************************)
Replaced == [over |-> op.over, raced |-> raced]

WriteMeta ==
  /\ op # None /\ op.stage = "meta"
  /\ meta' = [meta EXCEPT ![op.root] = [ring |-> op.snap, target |-> op.target]]
  /\ undoPoint' = [undoPoint EXCEPT ![op.root] = Replaced]
  /\ attempts' = [attempts EXCEPT ![op.root] = 0]
  /\ op' = None
  /\ UNCHANGED <<live, ring, ringSize, now, raced>>

WriteMetaFails ==
  /\ op # None /\ op.stage = "meta" /\ "meta" \in Env
  /\ \E m \in {meta[op.root], None} : meta' = [meta EXCEPT ![op.root] = m]
  /\ undoPoint' = [undoPoint EXCEPT ![op.root] = Replaced]
  /\ op' = None
  /\ UNCHANGED <<live, ring, ringSize, now, attempts, raced>>

(***************************************************************************)
(* The environment.  Praxis keeps nothing about restores in memory, so     *)
(* being killed only drops the command: what is left is what is on disk.   *)
(* (A kill in the middle of the restore itself is ApplyTorn.)              *)
(***************************************************************************)
Crash ==
  /\ "crash" \in Env /\ op # None
  /\ op' = None
  /\ \/ UNCHANGED <<ring, meta>>
     \/ /\ op.stage = "copy" /\ ~CopyRefused
        /\ ring' = [ring EXCEPT ![op.root][op.snap] =
                      [fmt |-> "raw", data |-> Torn, ro |-> FALSE]]
        /\ UNCHANGED meta
     \/ /\ op.stage = "meta"
        /\ meta' = [meta EXCEPT ![op.root] = None]
        /\ UNCHANGED ring
  /\ UNCHANGED <<live, ringSize, now, history>>

GameSave ==
  /\ op = None \/ "game" \in Env
  /\ ~live.ro
  /\ \E d \in Bodies : live' = [live EXCEPT !.data = d]
  /\ raced' = (raced \/ (op # None /\ op.stage = "apply"))
  /\ UNCHANGED <<ring, meta, op, ringSize, now, undoPoint, attempts>>

Init ==
  /\ live \in [fmt : {"raw"}, data : Bodies, ro : {FALSE}]
  /\ ring = [r \in Roots |-> [n \in Names |-> None]]
  /\ meta = [r \in Roots |-> None]
  /\ op = None
  /\ ringSize \in RingSizes
  /\ now = 0
  /\ undoPoint = [r \in Roots |-> None]
  /\ attempts = [r \in Roots |-> 0]
  /\ raced = FALSE

Next ==
  \/ \E r \in Roots : BeginUndo(r) \/ \E b \in Backups : BeginRestore(r, b)
  \/ \E t \in Times : Rotate(t)
  \/ Copy \/ CopyFails
  \/ Apply \/ ApplyRefused \/ ApplyTorn
  \/ WriteMeta \/ WriteMetaFails
  \/ Crash \/ GameSave

Spec == Init /\ [][Next]_vars

-----------------------------------------------------------------------------
(***************************************************************************)
(* Properties                                                              *)
(***************************************************************************)

(* Every variable keeps its shape; a command that has passed the copy has  *)
(* a snapshot's name, and an undo is always of a snapshot.                 *)
TypeOK ==
  /\ live \in RawFiles
  /\ ring \in [Roots -> [Names -> RawFiles \cup {None}]]
  /\ meta \in [Roots -> Metas \cup {None}]
  /\ op \in Ops \cup {None}
  /\ op # None => /\ op.src \in IF op.kind = "undo" THEN Names ELSE Backups
                  /\ op.stage # "rotate" => op.snap \in Names
                  /\ op.stage \in {"apply", "meta"} => op.pre \in Contents
                  /\ op.stage = "meta" => op.over \in Contents
  /\ ringSize \in RingSizes
  /\ now \in Times \cup {0}
  /\ undoPoint \in [Roots -> UndoPoints \cup {None}]
  /\ attempts \in [Roots -> 0 .. MaxAttempts] /\ raced \in BOOLEAN

(* "Abort restore if ring fails" (restore_safe.c:83): whenever a command   *)
(* itself changes what the save holds, to new content or to a torn file,   *)
(* its root's ring holds a complete copy of the save as the command found  *)
(* it.  With the game silent during commands that copy is the very file    *)
(* that is being replaced.                                                 *)
PraxisStep == op' # op

SnapshotBeforeOverwrite ==
  [][PraxisStep /\ live'.data # live.data
       => ring[op.root][op.snap] # None /\ ring[op.root][op.snap].data = op.pre
          /\ ("game" \notin Env => ring[op.root][op.snap] = live)]_vars

(* restore_safe_undo brings back the very content that the last completed  *)
(* restore of this root overwrote, however many commands failed or died    *)
(* since: never that of some other snapshot, and never a torn one in place *)
(* of a good one.  There is one exception: the game saved between that     *)
(* restore's snapshot and its replacement of the save (restore_safe.c:82   *)
(* to 91).  And there is nothing to undo where no restore was completed.   *)
UndoTakesEffect ==
  PraxisStep /\ op # None /\ op.kind = "undo" /\ op.stage = "apply" /\ op' # None

UndoBringsBack ==
  [][UndoTakesEffect
       => LET u == undoPoint[op.root]
          IN  u # None /\ (u.raced \/ live'.data = u.over)]_vars

(* Without the exception: what a user would say undo means.                *)
UndoIsInverse == [][UndoTakesEffect => live'.data = undoPoint[op.root].over]_vars

(* Rotation is FIFO: the snapshot the metadata names is still there as     *)
(* long as fewer than GRingSize snapshots were taken since, failed         *)
(* commands included.                                                      *)
UndoSurvivesAttempts ==
  \A r \in Roots :
    meta[r] # None /\ attempts[r] < GRingSize => ring[r][meta[r].ring] # None

(* "until count < ring_size" (ring_backup.c:113), then one more is made:   *)
(* a ring never holds more than ring_size snapshots.                       *)
RingBounded == \A r \in Roots : Cardinality(Existing(r)) <= GRingSize

(* "so the restore can be undone" (restore_safe.h:27-28): an undo that      *)
(* directly follows a completed command of its root finds a snapshot the   *)
(* backend can restore.                                                    *)
UndoStuck == /\ op # None /\ op.kind = "undo" /\ op.stage = "apply"
             /\ attempts[op.root] = 1
             /\ ~CanApply

CompletedRestoreIsUndoable == ~UndoStuck

(* Whatever was killed before, a snapshot is missing or of a kind that the *)
(* backend does not take in two cases only: it is of a slot restore, or    *)
(* the ring has room for one and undo's own snapshot has taken its place.  *)
(* (A snapshot of a save that was torn itself may be refused for what it   *)
(* holds: ApplyRefused.)                                                   *)
FullRestoreIsUndoable == UndoStuck => op.target # None \/ GRingSize = 1
=============================================================================
