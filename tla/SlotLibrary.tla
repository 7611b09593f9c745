---------------------------- MODULE SlotLibrary ----------------------------
(***************************************************************************)
(* The save file libraries behind the five backends: the load, serialize   *)
(* and import_raw functions of ersave.c, ds2save.c, ds3save.c, dsrsave.c   *)
(* and sekirosave.c, the container of save_compress.c, and the backup and  *)
(* restore functions of er_backend.c, ds2_backend.c, ds3_backend.c,        *)
(* dsr_backend.c and sekiro_backend.c.                                     *)
(*                                                                         *)
(* A save is a BND4 file: a region per character (two per character in     *)
(* Dark Souls II) and a summary, each behind a checksum.  A slot backup    *)
(* loads the file for the active slot and again for the character; a slot  *)
(* restore loads it twice, too, then opens it again and overwrites a few   *)
(* regions in place, one write after the other.  The game may save         *)
(* whenever the file is closed, and any write may be the last.             *)
(***************************************************************************)
EXTENDS Integers, FiniteSets, Sequences

CONSTANTS
  Libs,       \* the libraries looked at, among AllLibs
  Slots,      \* the character slots of a save
  Heroes,     \* what a slot may hold
  NoHero,     \* an unused slot
  Users,      \* the Steam IDs a save or a character may carry
  Torn,       \* a checksum whose write was cut short
  None,       \* no slot, no item, nothing loaded
  MaxSaves,   \* bounds the saves of the game
  MaxItems,   \* bounds the backups on the shelf
  MaxFaults,  \* bounds what goes wrong
  MaxTemps    \* bounds the temporary files in the save directory

AllLibs == {"er", "ds2", "ds3", "dsr", "sekiro"}

ASSUME SlotLibraryAssumption ==
  /\ Libs \subseteq AllLibs
  /\ NoHero \notin Heroes /\ None \notin Slots \cup (Slots \X Heroes)
  /\ {MaxSaves, MaxItems, MaxFaults, MaxTemps} \subseteq Nat

VARIABLES
  lib,      \* the library of the game profile
  save,     \* the save: what each place of the file holds
  game,     \* the slot and hero the game is in the middle of saving, or None
  saves,    \* the saves the game has made
  shelf,    \* the backups
  rotten,   \* those whose container no longer decompresses
  job,      \* the slot backup or restore between its loads and import_raw, or None
  unpack,   \* the container restore_full works on, and how far it is
  temps,    \* pxr*.tmp files in the save directory
  faults,   \* what went wrong: writes cut short, reads that failed, kills
  excused   \* history: the save may be inconsistent, and why is known

vars == <<lib, save, game, saves, shelf, rotten, job, unpack, temps, faults, excused>>

(***************************************************************************)
(* The file.  A place holds a body and the content its checksum was        *)
(* computed from.                                                          *)
(***************************************************************************)
Parts   == IF lib = "ds2" THEN {"a", "b"} ELSE {"a"}
Summary == <<None, "summary">>
Places  == (Slots \X Parts) \cup {Summary}

CharBodies    == [hero : Heroes \cup {NoHero}, owner : Users, whole : BOOLEAN]
SummaryBodies == [user : Users, active : Slots \cup {None}, profile : [Slots -> Heroes \cup {NoHero}],
                  used : [Slots -> BOOLEAN], whole : BOOLEAN]
IsRegion(r, Bodies) == r \in [body : Bodies, sum : Bodies \cup {Torn}]
IsSave(f) == /\ f = [p \in Places |-> f[p]]
             /\ \A p \in Places :
                  IsRegion(f[p], IF p = Summary THEN SummaryBodies ELSE CharBodies)

Intact(body)  == [body |-> body, sum |-> body]
Sealed(f, p)  == f[p].sum = f[p].body
Broken(f)     == {p \in DOMAIN f : ~Sealed(f, p) \/ ~f[p].body.whole}
SummaryOf(f)  == f[Summary].body
Announced(f)  == {i \in Slots : SummaryOf(f).used[i]}
ActiveSlot(f) == SummaryOf(f).active

\* What a reader sees of an announced slot fits together.
Paired(f, i) == \A part \in Parts : f[<<i, part>>].body.hero = SummaryOf(f).profile[i]

(***************************************************************************)
(* Loading.  The file is opened with FILE_SHARE_READ alone, which fails    *)
(* while the game has it open for writing.  Only Sekiro's library compares *)
(* the checksums of what it reads: the summary and the announced slots.    *)
(***************************************************************************)
Read(f) == {Summary} \cup (Announced(f) \X Parts)

Verified(f) == lib = "sekiro" => \A p \in Read(f) : Sealed(f, p)

Loads(f) == game = None /\ Verified(f)

LoadsForRestore(f) == Loads(f)

(***************************************************************************)
(* Serializing: the parts of the character and its profile.                *)
(***************************************************************************)
Serialized(f, i) == [kind    |-> "slot",
                     part    |-> [p \in Parts |-> f[<<i, p>>].body],
                     profile |-> SummaryOf(f).profile[i]]

(***************************************************************************)
(* import_raw: what goes into memory, and in which order it is written.    *)
(* Elden Ring, Dark Souls III and Sekiro give the character the Steam ID   *)
(* of the save it goes to.                                                 *)
(***************************************************************************)
Resigns == lib \in {"er", "ds3", "sekiro"}

ImportedPart(m, item, p) ==
  IF Resigns THEN [item.part[p] EXCEPT !.owner = SummaryOf(m).user] ELSE item.part[p]

ImportedSummary(m, item, i) ==
  [SummaryOf(m) EXCEPT !.profile[i] = item.profile, !.used[i] = TRUE]

Write(p, what, val) == [at |-> p, what |-> what, val |-> val]

\* A checksum, then what it is the checksum of (the IV between them is kept).
SealedWrite(p, body) == <<Write(p, "sum", body), Write(p, "body", body)>>

CharPlan(m, item, i, p) == SealedWrite(<<i, p>>, ImportedPart(m, item, p))

(* Elden Ring: the character, then the checksum of the whole summary but   *)
(* only the profile and the announcing byte of this slot.                  *)
ErPlan(m, item, i) ==
  CharPlan(m, item, i, "a")
  \o <<Write(Summary, "sum", ImportedSummary(m, item, i)),
       Write(Summary, "profile", <<i, item.profile>>), Write(Summary, "used", i)>>

\* Dark Souls II: the summary, then both parts.
Ds2Plan(m, item, i) ==
  SealedWrite(Summary, ImportedSummary(m, item, i))
  \o CharPlan(m, item, i, "a") \o CharPlan(m, item, i, "b")

\* Dark Souls III, Dark Souls Remastered and Sekiro: the character, the summary.
OtherPlan(m, item, i) ==
  CharPlan(m, item, i, "a") \o SealedWrite(Summary, ImportedSummary(m, item, i))

WritePlan(m, item, i) ==
  CASE lib = "er"  -> ErPlan(m, item, i)
    [] lib = "ds2" -> Ds2Plan(m, item, i)
    [] OTHER       -> OtherPlan(m, item, i)

\* A wrong version of Plan: the summary announces the character first.
PlanSummaryFirst(m, item, i) ==
  IF lib = "ds2" THEN WritePlan(m, item, i)
  ELSE SealedWrite(Summary, ImportedSummary(m, item, i))
       \o SealedWrite(<<i, "a">>, ImportedPart(m, item, "a"))

\* A wrong version of Plan: the character keeps the Steam ID it was backed up with.
PlanUnsigned(m, item, i) ==
  LET w == WritePlan(m, item, i)
  IN  [j \in DOMAIN w |-> IF w[j].at = <<i, "a">> THEN [w[j] EXCEPT !.val = item.part["a"]] ELSE w[j]]

Plan(m, item, i) == WritePlan(m, item, i)

Applied(f, w) ==
  CASE w.what = "sum"     -> [f EXCEPT ![w.at].sum = w.val]
    [] w.what = "body"    -> [f EXCEPT ![w.at].body = w.val]
    [] w.what = "profile" -> [f EXCEPT ![w.at].body.profile[w.val[1]] = w.val[2]]
    [] w.what = "used"    -> [f EXCEPT ![w.at].body.used[w.val] = TRUE]

\* The file after the first k writes of a plan.
Written(f, plan, k) ==
  LET after[j \in 0 .. k] == IF j = 0 THEN f ELSE Applied(after[j - 1], plan[j])
  IN  after[k]

\* A write that stops in the middle; a single byte is there or is not.
CutShort(f, w) ==
  CASE w.what = "sum"     -> [f EXCEPT ![w.at].sum = Torn]
    [] w.what = "body"    -> [f EXCEPT ![w.at].body = [w.val EXCEPT !.whole = FALSE]]
    [] w.what = "profile" -> [f EXCEPT ![w.at].body.whole = FALSE]
    [] w.what = "used"    -> f

-----------------------------------------------------------------------------
(***************************************************************************)
(* The game saves the character it plays: its region, then the summary,    *)
(* through one handle.  It plays on saves it can read.                     *)
(***************************************************************************)
GameOpens(i, h) ==
  /\ game = None /\ saves < MaxSaves
  /\ Broken(save) = {} /\ (i \in Announced(save) => Paired(save, i))
  /\ game' = <<i, h>> /\ saves' = saves + 1
  /\ save' = [p \in Places |-> IF p # Summary /\ p[1] = i
                THEN Intact([hero |-> h, owner |-> SummaryOf(save).user, whole |-> TRUE])
                ELSE save[p]]
  /\ UNCHANGED <<lib, shelf, rotten, job, unpack, temps, faults, excused>>

GameCloses ==
  /\ game # None
  /\ save' = [save EXCEPT ![Summary] =
                Intact([SummaryOf(save) EXCEPT !.profile[game[1]] = game[2], !.used[game[1]] = TRUE,
                                               !.active = game[1]])]
  /\ game' = None
  /\ UNCHANGED <<lib, saves, shelf, rotten, job, unpack, temps, faults, excused>>

(***************************************************************************)
(* Slot commands begin with get_active_slot, which loads the save; what    *)
(* they do to that slot works on a load of its own.                        *)
(***************************************************************************)
Job(item, i, m) == [item |-> item, slot |-> i, mem |-> m, since |-> saves]

\* One command at a time.
Unpacking == unpack.step # "no"
Idle == job = None /\ ~Unpacking

Chosen(item) ==
  /\ Idle /\ Loads(save) /\ ActiveSlot(save) # None
  /\ job' = Job(item, ActiveSlot(save), None)
  /\ UNCHANGED <<lib, save, game, saves, shelf, rotten, unpack, temps, faults, excused>>

ChooseBackup == Chosen(None)

ChooseRestore(item) == item.kind = "slot" /\ Chosen(item)

(***************************************************************************)
(* backup_slot and backup_full.  backup_full shares the file with writers: *)
(* it may read one that the game is in the middle of saving.               *)
(***************************************************************************)
Shelved(item) ==
  /\ Cardinality(shelf) < MaxItems
  /\ shelf' = shelf \cup {item}
  /\ UNCHANGED <<lib, save, game, saves, rotten, unpack, temps, faults, excused>>

BackupSlot ==
  /\ job # None /\ job.item = None
  /\ Loads(save) /\ job.slot \in Announced(save)
  /\ Shelved(Serialized(save, job.slot)) /\ job' = None

Image(raw) == [kind |-> "full", raw |-> raw, image |-> save, during |-> game # None]

\* full_save_skip_compression of the backends.
SkipsCompression == lib \in {"ds2", "ds3", "dsr"}

\* The save as it is, at level "none" or for a backend that skips compression.
BackupRaw == Idle /\ Shelved(Image(TRUE)) /\ UNCHANGED job

BackupFull == Idle /\ ~SkipsCompression /\ Shelved(Image(FALSE)) /\ UNCHANGED job

\* A container of a game whose backups are raw, from elsewhere.
FindFull ==
  Idle /\ game = None /\ SkipsCompression /\ Shelved(Image(FALSE)) /\ UNCHANGED job

IsContainer(item) == item.kind = "full" => ~item.raw

Decompresses(item) == item \notin rotten

Rot(item) ==
  /\ IsContainer(item) /\ Decompresses(item)
  /\ rotten' = rotten \cup {item}
  /\ UNCHANGED <<lib, save, game, saves, shelf, job, unpack, temps, faults, excused>>

(***************************************************************************)
(* restore_slot: decompress, check type and size, load.  Then import_raw   *)
(* opens the file for writing, which the game may have done meanwhile.     *)
(***************************************************************************)
RestoreSlot ==
  /\ job # None /\ job.item # None /\ job.mem = None
  /\ Decompresses(job.item) /\ LoadsForRestore(save)
  /\ job' = [job EXCEPT !.mem = save]
  /\ UNCHANGED <<lib, save, game, saves, shelf, rotten, unpack, temps, faults, excused>>

JobPlan == Plan(job.mem, job.item, job.slot)

\* The save changed since it was loaded.
Raced == job.mem # save

Importing == job # None /\ job.mem # None

Import ==
  /\ Importing /\ game = None
  /\ save' = Written(save, JobPlan, Len(JobPlan))
  /\ job' = None
  /\ excused' = (excused \/ Raced)
  /\ UNCHANGED <<lib, game, saves, shelf, rotten, unpack, temps, faults>>

\* A write fails, or Praxis is killed, after k writes, maybe in the middle of the next.
ImportStops ==
  /\ Importing /\ game = None /\ faults < MaxFaults
  /\ \E k \in 0 .. Len(JobPlan) - 1 :
       LET done == Written(save, JobPlan, k)
       IN  save' \in {done, CutShort(done, JobPlan[k + 1])}
  /\ job' = None /\ faults' = faults + 1 /\ excused' = TRUE
  /\ UNCHANGED <<lib, game, saves, shelf, rotten, unpack, temps>>

\* The file cannot be opened, the container is damaged, the slot is empty, or the
\* character cannot be parsed.
Refused ==
  /\ job # None
  /\ job' = None
  /\ UNCHANGED <<lib, save, game, saves, shelf, rotten, unpack, temps, faults, excused>>

(***************************************************************************)
(* restore_full: a raw save is copied over the live one in place; a        *)
(* container is decompressed into a temporary file that replaces it.       *)
(* Neither can replace a file the game has open.                           *)
(***************************************************************************)
RestoreRaw(item) ==
  /\ Idle /\ game = None
  /\ item.kind = "full" /\ item.raw
  /\ save' = item.image
  /\ excused' = (excused \/ item.during)
  /\ UNCHANGED <<lib, game, saves, shelf, rotten, job, unpack, temps, faults>>

NotUnpacking == [step |-> "no", item |-> None]

\* The temporary file is created next to the save, then the container is read whole.
BeginContainer(item) ==
  /\ Idle /\ temps < MaxTemps
  /\ item.kind = "full" /\ ~item.raw
  /\ unpack' = [step |-> "temp", item |-> item] /\ temps' = temps + 1
  /\ UNCHANGED <<lib, save, game, saves, shelf, rotten, job, faults, excused>>

ReadContainer ==
  /\ unpack.step = "temp" /\ Decompresses(unpack.item)
  /\ unpack' = [unpack EXCEPT !.step = "read"]
  /\ UNCHANGED <<lib, save, game, saves, shelf, rotten, job, temps, faults, excused>>

RestoreContainer ==
  /\ unpack.step = "read" /\ game = None
  /\ save' = unpack.item.image
  /\ excused' = (excused \/ unpack.item.during)
  /\ unpack' = NotUnpacking /\ temps' = temps - 1
  /\ UNCHANGED <<lib, game, saves, shelf, rotten, job, faults>>

\* A wrong version of ContainerRefused: the temporary file is forgotten.
ContainerRefusedKept ==
  /\ unpack.step = "read"
  /\ unpack' = NotUnpacking /\ temps' = temps
  /\ UNCHANGED <<lib, save, game, saves, shelf, rotten, job, faults, excused>>

(* It is no whole save, the temporary file cannot be written, or the save  *)
(* cannot be replaced, because the game has it open for one.               *)
ContainerRefused ==
  /\ unpack.step = "read"
  /\ unpack' = NotUnpacking /\ temps' = temps - 1
  /\ UNCHANGED <<lib, save, game, saves, shelf, rotten, job, faults, excused>>

(* No content comes back: the container is damaged, or it is sound and     *)
(* opening or reading it or the memory for it failed.  The command returns *)
(* without deleting its file.  Nor does it when Praxis is killed, or when  *)
(* deleting fails.                                                         *)
ContainerUnread ==
  /\ Unpacking
  /\ \/ unpack.step = "temp" /\ ~Decompresses(unpack.item) /\ faults' = faults
     \/ faults < MaxFaults /\ faults' = faults + 1
  /\ unpack' = NotUnpacking
  /\ UNCHANGED <<lib, save, game, saves, shelf, rotten, job, temps, excused>>

-----------------------------------------------------------------------------
\* Any mix of used and unused slots, all consistent and signed to the save's owner.
FreshSave(user, active, heroes) ==
  [p \in Places |->
     IF p = Summary
     THEN Intact([user |-> user, active |-> active, profile |-> heroes,
                  used |-> [i \in Slots |-> heroes[i] # NoHero], whole |-> TRUE])
     ELSE Intact([hero |-> heroes[p[1]], owner |-> user, whole |-> TRUE])]

\* A backup from somebody else's save, which a user may put on the shelf.
Foreign(user, h) == [kind |-> "slot", profile |-> h,
                     part |-> [p \in Parts |-> [hero |-> h, owner |-> user, whole |-> TRUE]]]

Init ==
  /\ lib \in Libs
  /\ \E u \in Users, heroes \in [Slots -> Heroes \cup {NoHero}], a \in Slots \cup {None} :
       /\ a = None <=> \A i \in Slots : heroes[i] = NoHero
       /\ save = FreshSave(u, a, heroes)
  /\ \E u \in Users, h \in Heroes : shelf = {Foreign(u, h)}
  /\ game = None /\ saves = 0 /\ rotten = {} /\ job = None /\ unpack = NotUnpacking
  /\ temps = 0 /\ faults = 0 /\ excused = FALSE

Next ==
  \/ \E i \in Slots, h \in Heroes : GameOpens(i, h)
  \/ GameCloses
  \/ ChooseBackup
  \/ BackupSlot
  \/ BackupRaw
  \/ BackupFull
  \/ FindFull
  \/ RestoreSlot
  \/ Import
  \/ ImportStops
  \/ Refused
  \/ ReadContainer
  \/ RestoreContainer
  \/ ContainerRefused
  \/ ContainerUnread
  \/ \E item \in shelf :
       \/ Rot(item)
       \/ ChooseRestore(item)
       \/ RestoreRaw(item)
       \/ BeginContainer(item)

Spec == Init /\ [][Next]_vars

-----------------------------------------------------------------------------
IsItem(x) == \/ /\ x.kind = "slot" /\ x.part \in [Parts -> CharBodies]
                /\ x.profile \in Heroes \cup {NoHero}
             \/ x.kind = "full" /\ x.raw \in BOOLEAN /\ x.during \in BOOLEAN /\ IsSave(x.image)

(***************************************************************************)
(* The variables stay in their types: every place of every file holds a    *)
(* region of its kind, the save of the profile, of the backups and of the  *)
(* copy a restore works from.                                              *)
(***************************************************************************)
TypeOK ==
  /\ lib \in Libs /\ IsSave(save)
  /\ game \in (Slots \X Heroes) \cup {None} /\ saves \in 0 .. MaxSaves
  /\ \A x \in shelf : IsItem(x)
  /\ rotten \subseteq shelf
  /\ job # None => /\ job.item \in shelf \cup {None} /\ job.slot \in Slots
                   /\ job.mem # None => IsSave(job.mem)
                   /\ job = [item |-> job.item, slot |-> job.slot,
                             mem |-> job.mem, since |-> job.since]
  /\ unpack \in [step : {"no", "temp", "read"}, item : shelf \cup {None}]
  /\ Unpacking => unpack.item \in shelf
  /\ temps \in 0 .. MaxTemps /\ faults \in 0 .. MaxFaults /\ excused \in BOOLEAN

(***************************************************************************)
(* A character and its profile belong together, in the save and in every   *)
(* slot backup, unless a write was cut short, the game saved between the   *)
(* load and the import of a restore, or a full backup taken in the middle  *)
(* of a save was restored: there is no fourth way.  And in no way, except  *)
(* in Dark Souls II, does the summary announce a slot whose character was  *)
(* not written: the character goes first.                                  *)
(***************************************************************************)
BelongTogether ==
  /\ game = None => \A i \in Announced(save) : Paired(save, i)
  /\ \A x \in shelf : x.kind = "slot" => \A p \in Parts : x.part[p].hero = x.profile

AnnouncedIsWritten ==
  lib # "ds2" => \A i \in Announced(save) : save[<<i, "a">>].body.hero # NoHero

Consistent == (~excused => BelongTogether) /\ AnnouncedIsWritten

(***************************************************************************)
(* Damage stays visible: damaged content never has a valid checksum.  It   *)
(* is what parsing with MD5 checksum validation would give; of the five    *)
(* libraries only Sekiro's validates, see SlotLibrary_checksums.cfg.       *)
(***************************************************************************)
ValidSumsMeanWholeContent == \A p \in Places : Sealed(save, p) => save[p].body.whole

(***************************************************************************)
(* The restore of a container takes its temporary file away however it     *)
(* ends: done, or refused because of what the container holds, for want of *)
(* room on the disk, or by a game that has the save open.  Files pile up   *)
(* next to the save only where a container cannot be read (er_backend.c:   *)
(* 176) or Praxis is killed.                                               *)
(***************************************************************************)
TempsComeFromFailure ==
  rotten = {} /\ faults = 0 => temps = IF Unpacking THEN 1 ELSE 0

(***************************************************************************)
(* A slot restore that completes on the save it loaded leaves the slot     *)
(* announced, holding the character of the backup with its profile, signed *)
(* to the save where the library signs, with valid checksums, and changes  *)
(* nothing else in the file.  It is the active slot, unless the game saved *)
(* since the slot was chosen.                                              *)
(***************************************************************************)
RestoredExactly ==
  [][Import /\ ~Raced =>
       LET i == job.slot  IN
       /\ job.since = saves => i = ActiveSlot(save)
       /\ i \in Announced(save')
       /\ SummaryOf(save').profile[i] = job.item.profile
       /\ \A p \in Parts : /\ Sealed(save', <<i, p>>)
                           /\ save'[<<i, p>>].body = ImportedPart(save, job.item, p)
       /\ Sealed(save', Summary)
       /\ \A q \in Places \ ({i} \X Parts) : q # Summary => save'[q] = save[q]
       /\ \A j \in Slots \ {i} :
            /\ SummaryOf(save').used[j] = SummaryOf(save).used[j]
            /\ SummaryOf(save').profile[j] = SummaryOf(save).profile[j]]_vars
=============================================================================
