----------------------- MODULE VersionDowngradeProofs -----------------------
(***************************************************************************)
(* Proofs about VersionDowngrade, for any slots, versions and targets, any *)
(* number of saves of the game, and whatever fails at whatever stage.      *)
(***************************************************************************)
EXTENDS VersionDowngrade, TLAPS

(***************************************************************************)
(* The inductive invariant.  What a downgrade works on is whole and no     *)
(* later than the game's last save; what is left aside need not be whole.  *)
(* At each stage the invariant says under which name the save that must    *)
(* not get lost is found (Kept), and that the file which will be called    *)
(* the save again is the one the copy was made of or a later one of the    *)
(* game (FromGame).                                                        *)
(***************************************************************************)
Sound ==
  /\ \A f \in Names : Exists(f) => files[f].whole /\ files[f].gen <= newest
  /\ mem # None => mem.whole /\ mem.gen <= newest

KeptAside == due = 0 \/ \E c \in left : c.whole /\ c.gen >= due

Kept(f) == KeptAside \/ (Exists(f) /\ files[f].gen >= due)

FromGame(f) == files[f] = job.snapshot \/ files[f].gen > job.snapshot.gen

Harmless == harmed \subseteq {"crash"}

Idle ==
  job = None => ~Exists("temp") /\ ~Exists("backup") /\ Kept("save")

Running ==
  job # None => /\ mem # None /\ job.loaded = job.snapshot
                /\ Older(job.loaded, job.request)
                /\ job.snapshot.whole /\ job.snapshot.gen <= newest

Writing ==
  At("write") => /\ files["save"] = job.snapshot /\ files["temp"] = job.snapshot
                 /\ mem = job.snapshot /\ ~Exists("backup") /\ Kept("save")

Replacing ==
  At("replace") => /\ mem = Downgraded(job.loaded, job.request) /\ files["temp"] = mem
                   /\ ~Exists("backup") /\ Kept("save")
                   /\ Exists("save") => FromGame("save")
                   /\ Harmless => Exists("save")

Recovering ==
  At("recover") => /\ Exists("temp")
                   /\ Exists("save") => Kept("save") /\ FromGame("save")
                   /\ ~Exists("save") => Kept("backup")
                   /\ Exists("backup") => FromGame("backup")
                   /\ Harmless => Exists("save") \/ Exists("backup")

Checking ==
  At("verify") \/ At("putback") =>
    /\ mem = Downgraded(job.loaded, job.request)
    /\ ~Exists("temp") /\ Exists("backup") /\ Kept("backup") /\ FromGame("backup")
    /\ Exists("save") => files["save"] = mem \/ files["save"].gen > job.snapshot.gen
    /\ ~Exists("save") => due = 0 /\ ~Harmless

StageInv == Idle /\ Running /\ Writing /\ Replacing /\ Recovering /\ Checking

Inv == TypeOK /\ Sound /\ StageInv /\ MemoryFollowsSave

-----------------------------------------------------------------------------
(***************************************************************************)
(* The edit.                                                               *)
(***************************************************************************)
(* Versions go back to versions; the rest of the save stays.               *)
LEMMA DowngradedKeeps ==
  ASSUME NEW c \in SaveContents, NEW r \in Requests
  PROVE  /\ Downgraded(c, r) \in SaveContents
         /\ Downgraded(c, r).gen = c.gen /\ (c.whole => Downgraded(c, r).whole)
<1>1. \A v \in Versions, t \in Versions : Lower(v, t) \in Versions
  BY DEF Lower
<1>2. r.target.char \in Versions /\ r.target.summary \in Versions
  BY VersionDowngradeAssumption DEF Requests
<1>3. c.chars \in [Slots -> Versions]
  BY DEF SaveContents
<1>4. CASE r.kind = "character"
  <2>1. r.slot \in Slots
    BY <1>4 DEF Requests
  <2>2. [c.chars EXCEPT ![r.slot] = Lower(@, r.target.char)] \in [Slots -> Versions]
    BY <1>1, <1>2, <1>3, <2>1
  <2>3. Downgraded(c, r) = [c EXCEPT !.chars = [c.chars EXCEPT ![r.slot] = Lower(@, r.target.char)],
                                     !.reg = FALSE]
    BY <1>4 DEF Downgraded, SaveContents
  <2>. QED
    BY <2>2, <2>3 DEF SaveContents
<1>5. CASE r.kind = "save"
  <2>1. [i \in Slots |-> Lower(c.chars[i], r.target.char)] \in [Slots -> Versions]
    BY <1>1, <1>2, <1>3
  <2>2. Downgraded(c, r) = [c EXCEPT !.chars = [i \in Slots |-> Lower(c.chars[i], r.target.char)],
                                     !.summary = r.target.summary, !.reg = FALSE]
    BY <1>5 DEF Downgraded, SaveContents
  <2>. QED
    BY <1>2, <2>1, <2>2 DEF SaveContents
<1>. QED
  BY <1>4, <1>5 DEF Requests

(* An accepted downgrade changes the save: one that is left as it was has  *)
(* not been downgraded.                                                    *)
LEMMA DowngradedDiffers ==
  ASSUME NEW c \in SaveContents, NEW r \in Requests, Older(c, r)
  PROVE  Downgraded(c, r) # c
<1>1. r.target.char \in Nat /\ r.target.summary \in Nat /\ c.summary \in Nat
      /\ c.chars \in [Slots -> Nat]
  BY VersionDowngradeAssumption DEF Requests, SaveContents
<1>2. CASE r.kind = "character"
  <2>1. r.slot \in Slots /\ r.target.char < c.chars[r.slot]
    BY <1>2 DEF Requests, Older
  <2>2. Downgraded(c, r).chars[r.slot] = r.target.char
    BY <1>1, <1>2, <2>1 DEF Downgraded, Lower, SaveContents
  <2>. QED
    BY <1>1, <2>1, <2>2
<1>3. CASE r.kind = "save"
  <2>1. Downgraded(c, r).summary = r.target.summary
    BY <1>3 DEF Downgraded, SaveContents
  <2>. QED
    BY <1>1, <1>3, <2>1 DEF Older
<1>. QED
  BY <1>2, <1>3 DEF Requests

(* The copy of the loaded save, edited, is the loaded save, downgraded.    *)
LEMMA EditedIsDowngraded ==
  ASSUME NEW c \in SaveContents, NEW r \in Requests
  PROVE  Edited(c, c, r) = Downgraded(c, r)
<1>1. CASE r.kind = "character"
  <2>1. r.slot \in Slots /\ c.chars \in [Slots -> Versions]
    BY <1>1 DEF Requests, SaveContents
  <2>2. Downgraded(c, r) = [c EXCEPT !.chars = [c.chars EXCEPT ![r.slot] = Lower(@, r.target.char)],
                                     !.reg = FALSE]
    BY <1>1 DEF Downgraded, SaveContents
  <2>3. Downgraded(c, r).chars[r.slot] = Lower(c.chars[r.slot], r.target.char)
    BY <2>1, <2>2 DEF SaveContents
  <2>. QED
    BY <1>1, <2>1, <2>2, <2>3 DEF Edited, SaveContents
<1>2. CASE r.kind = "save"
  BY <1>2 DEF Edited
<1>. QED
  BY <1>1, <1>2 DEF Requests

-----------------------------------------------------------------------------
LEMMA InitInv == Init => Inv
<1>. SUFFICES ASSUME Init PROVE Inv
  OBVIOUS
<1>. PICK c \in Contents :
       files = [f \in Names |-> IF f = "save" THEN [c EXCEPT !.gen = 1] ELSE None]
  BY DEF Init
<1>1. [c EXCEPT !.gen = 1] \in SaveContents /\ [c EXCEPT !.gen = 1].whole
      /\ [c EXCEPT !.gen = 1].gen = 1
  BY VersionDowngradeAssumption DEF SaveContents
<1>2. files \in [Names -> SaveContents \cup {None}] /\ Exists("save")
      /\ ~Exists("temp") /\ ~Exists("backup")
      /\ files["save"].whole /\ files["save"].gen = 1
  BY <1>1, VersionDowngradeAssumption DEF Names, Exists
<1>3. mem = None /\ job = None /\ left = {} /\ newest = 1 /\ due = 1 /\ result = "none" /\ harmed = {}
  BY DEF Init
<1>4. TypeOK
  BY <1>2, <1>3, VersionDowngradeAssumption DEF TypeOK
<1>5. Sound
  BY <1>2, <1>3 DEF Sound, Names, Exists
<1>6. StageInv
  BY <1>2, <1>3 DEF StageInv, Idle, Running, Writing, Replacing, Recovering, Checking, At, Kept
<1>. QED
  BY <1>3, <1>4, <1>5, <1>6 DEF Inv, MemoryFollowsSave

LEMMA LoadInv == ASSUME Inv, Load PROVE Inv'
<1>1. TypeOK'
  BY DEF Inv, TypeOK, Load, Exists, Names
<1>2. Sound'
  BY DEF Inv, Sound, Load, Exists, Names
<1>3. StageInv'
  BY DEF Inv, StageInv, Idle, Running, Writing, Replacing, Recovering, Checking, At, Kept, KeptAside, Exists, Load
<1>4. MemoryFollowsSave'
  BY DEF MemoryFollowsSave, Load
<1>. QED
  BY <1>1, <1>2, <1>3, <1>4 DEF Inv

LEMMA BeginInv == ASSUME Inv, NEW r \in Requests, Begin(r) PROVE Inv'
<1>1. files["save"] = mem /\ mem \in SaveContents /\ mem.whole /\ mem.gen <= newest
  BY DEF Inv, TypeOK, Sound, Begin, MatchesLoaded
<1>2. /\ files'["save"] = mem /\ files'["temp"] = mem /\ files'["backup"] = None
      /\ files' \in [Names -> SaveContents \cup {None}]
  BY <1>1 DEF Inv, TypeOK, StageInv, Idle, Begin, Exists, Names
<1>3. /\ job' \in Jobs /\ job'.stage = "write" /\ job'.request = r
      /\ job'.snapshot = mem /\ job'.loaded = mem
  BY <1>1 DEF Begin, Jobs, Stages
<1>4. job' # None /\ At("write")'
  BY <1>3, VersionDowngradeAssumption DEF At
<1>5. TypeOK'
  BY <1>2, <1>3 DEF Inv, TypeOK, Begin
<1>6. Sound'
  BY <1>1, <1>2 DEF Inv, Sound, Begin, Exists, Names
<1>7. Writing'
  BY <1>1, <1>2, <1>3 DEF Inv, StageInv, Idle, Writing, Begin, Kept, KeptAside, Exists
<1>8. Running'
  BY <1>1, <1>3 DEF Running, Begin
<1>9. StageInv'
  BY <1>3, <1>4, <1>7, <1>8 DEF StageInv, Idle, Replacing, Recovering, Checking, At
<1>. QED
  BY <1>4, <1>5, <1>6, <1>9 DEF Inv, MemoryFollowsSave

(* From "write" to "replace".                                              *)
LEMMA WriteTempInv == ASSUME Inv, WriteTemp PROVE Inv'
<1>. DEFINE d == Downgraded(job.loaded, job.request)
<1>1. /\ job \in Jobs /\ job # None /\ mem = job.snapshot /\ job.loaded = job.snapshot
      /\ files["save"] = mem /\ files["temp"] = mem /\ files["backup"] = None
      /\ mem \in SaveContents /\ mem.whole /\ mem.gen <= newest
  BY DEF Inv, TypeOK, Sound, StageInv, Running, Writing, WriteTemp, At, Exists
<1>2. d \in SaveContents /\ d.gen = mem.gen /\ d.whole /\ Edited(mem, mem, job.request) = d
  BY <1>1, DowngradedKeeps, EditedIsDowngraded DEF Jobs
<1>3. /\ files'["save"] = mem /\ files'["temp"] = d /\ files'["backup"] = None /\ mem' = d
      /\ files' \in [Names -> SaveContents \cup {None}]
  BY <1>1, <1>2 DEF Inv, TypeOK, WriteTemp, Names
<1>4. /\ job' \in Jobs /\ job'.stage = "replace" /\ job'.request = job.request
      /\ job'.snapshot = job.snapshot /\ job'.loaded = job.loaded
  BY <1>1 DEF WriteTemp, Goto, Jobs, Stages
<1>5. job' # None
  BY <1>4, VersionDowngradeAssumption
<1>6. TypeOK'
  BY <1>2, <1>3, <1>4 DEF Inv, TypeOK, WriteTemp
<1>7. Sound'
  BY <1>1, <1>2, <1>3 DEF Inv, Sound, WriteTemp, Exists, Names
<1>8. Running'
  BY <1>1, <1>2, <1>3, <1>4, VersionDowngradeAssumption DEF Inv, StageInv, Running, WriteTemp
<1>9. Replacing'
  BY <1>1, <1>2, <1>3, <1>4, VersionDowngradeAssumption
     DEF Inv, StageInv, Writing, Replacing, WriteTemp, At, Kept, KeptAside, Exists, FromGame
<1>10. StageInv'
  BY <1>4, <1>5, <1>8, <1>9 DEF StageInv, Idle, Writing, Recovering, Checking, At
<1>. QED
  BY <1>5, <1>6, <1>7, <1>10 DEF Inv, MemoryFollowsSave

(***************************************************************************)
(* The ends.  Whatever is moved aside stays whole and keeps what it kept.  *)
(***************************************************************************)
LEMMA LeaveAnyInv ==
  ASSUME Inv, job # None, job' = None, newest' = newest, due' = due,
         NEW fs \in [Names -> SaveContents \cup {None}], Leave(fs),
         fs["save"] # None => fs["save"].whole /\ fs["save"].gen <= newest,
         due # 0 => \/ \E c \in left : c.whole /\ c.gen >= due
                    \/ \E f \in Names : fs[f] # None /\ fs[f].whole /\ fs[f].gen >= due,
         mem' \in {mem, job.loaded, None}, result' \in {"none", "ok", "failed"},
         harmed' \subseteq Harms,
         MemoryFollowsSave'
  PROVE  Inv'
<1>1. /\ files' \in [Names -> SaveContents \cup {None}]
      /\ files'["save"] = fs["save"] /\ files'["temp"] = None /\ files'["backup"] = None
  BY DEF Leave, Names
<1>2. left' = left \cup ({fs["temp"], fs["backup"]} \ {None})
  BY DEF Leave
<1>3. job \in Jobs /\ job.loaded \in SaveContents /\ job.loaded.whole /\ job.loaded.gen <= newest
  BY DEF Inv, TypeOK, Jobs, StageInv, Running
<1>4. TypeOK'
  BY <1>1, <1>2, <1>3 DEF Inv, TypeOK, Names
<1>5. Sound'
  BY <1>1, <1>2, <1>3 DEF Inv, Sound, Names, Exists
<1>6. Kept("save")'
  BY <1>1, <1>2 DEF Kept, KeptAside, Exists, Names
<1>7. StageInv'
  BY <1>1, <1>6 DEF StageInv, Idle, Running, Writing, Replacing, Recovering, Checking, At, Exists
<1>. QED
  BY <1>4, <1>5, <1>7 DEF Inv

LEMMA LeaveInv ==
  ASSUME Inv, job # None, job' = None, newest' = newest, due' = due,
         NEW fs \in [Names -> SaveContents \cup {None}], Leave(fs),
         \A f \in Names : fs[f] # None => fs[f].whole /\ fs[f].gen <= newest,
         due # 0 => \/ \E c \in left : c.whole /\ c.gen >= due
                    \/ \E f \in Names : fs[f] # None /\ fs[f].gen >= due,
         mem' \in {mem, job.loaded, None}, result' \in {"none", "ok", "failed"},
         harmed' \subseteq Harms,
         MemoryFollowsSave'
  PROVE  Inv'
<1>1. fs["save"] # None => fs["save"].whole /\ fs["save"].gen <= newest
  BY DEF Names
<1>. QED
  BY <1>1, LeaveAnyInv

LEMMA WriteFailsInv == ASSUME Inv, WriteFails PROVE Inv'
<1>. DEFINE fs == Without("temp")
<1>1. /\ job # None /\ job.loaded = job.snapshot /\ files["save"] = job.snapshot
      /\ ~Exists("backup") /\ Kept("save")
  BY DEF Inv, StageInv, Running, Writing, WriteFails, At
<1>2. /\ fs \in [Names -> SaveContents \cup {None}] /\ fs["temp"] = None
      /\ fs["save"] = files["save"] /\ fs["backup"] = files["backup"]
  BY DEF Inv, TypeOK, Without, Names
<1>3. \A f \in Names : fs[f] # None => fs[f].whole /\ fs[f].gen <= newest
  BY <1>2 DEF Inv, Sound, Names, Exists
<1>4. due # 0 => \/ \E c \in left : c.whole /\ c.gen >= due
                 \/ \E f \in Names : fs[f] # None /\ fs[f].gen >= due
  BY <1>1, <1>2 DEF Kept, KeptAside, Exists, Names
<1>5. Leave(fs) /\ job' = None /\ mem' = job.loaded /\ result' = "failed"
      /\ newest' = newest /\ due' = due /\ harmed' = harmed
  BY DEF WriteFails, Fail, Leave
<1>6. MemoryFollowsSave'
  BY <1>1, <1>2, <1>5 DEF MemoryFollowsSave, Leave, Names
<1>. QED
  BY <1>1, <1>2, <1>3, <1>4, <1>5, <1>6, LeaveInv DEF Inv, TypeOK

LEMMA ReplaceDoneInv == ASSUME Inv, ReplaceDone PROVE Inv'
<1>1. /\ job \in Jobs /\ job # None /\ files["save"] \in SaveContents
      /\ mem = Downgraded(job.loaded, job.request) /\ files["temp"] = mem
      /\ Kept("save") /\ FromGame("save") /\ files["save"] # None
  BY DEF Inv, TypeOK, StageInv, Replacing, ReplaceDone, At, Exists, Names
<1>2. mem # None
  BY <1>1 DEF Inv, StageInv, Running
<1>3. /\ files'["save"] = mem /\ files'["temp"] = None /\ files'["backup"] = files["save"]
      /\ files' \in [Names -> SaveContents \cup {None}]
  BY <1>1 DEF Inv, TypeOK, ReplaceDone, SaveMovedAway, Names
<1>4. /\ job' \in Jobs /\ job'.stage = "verify" /\ job'.request = job.request
      /\ job'.snapshot = job.snapshot /\ job'.loaded = job.loaded
  BY <1>1 DEF ReplaceDone, Goto, Jobs, Stages
<1>5. job' # None
  BY <1>4, VersionDowngradeAssumption
<1>6. /\ mem' = mem /\ left' = left /\ due' = due /\ newest' = newest
      /\ result' = result /\ harmed' = harmed
  BY DEF ReplaceDone
<1>7. TypeOK'
  BY <1>3, <1>4, <1>6 DEF Inv, TypeOK
<1>8. Sound'
  BY <1>1, <1>2, <1>3, <1>6 DEF Inv, Sound, Exists, Names
<1>9. Running'
  BY <1>1, <1>2, <1>4, <1>6 DEF Inv, StageInv, Running
<1>10. Checking'
  BY <1>1, <1>2, <1>3, <1>4, <1>6 DEF Checking, Kept, KeptAside, Exists, FromGame
<1>11. StageInv'
  BY <1>4, <1>5, <1>9, <1>10 DEF StageInv, Idle, Writing, Replacing, Recovering, At
<1>. QED
  BY <1>5, <1>7, <1>8, <1>11 DEF Inv, MemoryFollowsSave

LEMMA ReplaceFailsInv == ASSUME Inv, ReplaceFails PROVE Inv'
<1>1. /\ job \in Jobs /\ job # None
      /\ mem = Downgraded(job.loaded, job.request) /\ files["temp"] = mem /\ mem # None
      /\ ~Exists("backup") /\ Kept("save")
      /\ Exists("save") => FromGame("save")
      /\ Harmless => Exists("save")
  BY DEF Inv, TypeOK, StageInv, Running, Replacing, ReplaceFails, At
<1>2. /\ job' \in Jobs /\ job'.stage = "recover" /\ job'.request = job.request
      /\ job'.snapshot = job.snapshot /\ job'.loaded = job.loaded
  BY <1>1 DEF ReplaceFails, Goto, Jobs, Stages
<1>3. job' # None
  BY <1>2, VersionDowngradeAssumption
<1>4. /\ mem' = mem /\ left' = left /\ due' = due /\ newest' = newest
      /\ result' = result /\ harmed' = harmed
  BY DEF ReplaceFails
<1>5. \/ files' = files
      \/ files' = SaveMovedAway /\ Exists("save")
  BY DEF ReplaceFails
<1>6. SaveMovedAway \in [Names -> SaveContents \cup {None}]
      /\ SaveMovedAway["save"] = None /\ SaveMovedAway["backup"] = files["save"]
      /\ SaveMovedAway["temp"] = files["temp"]
  BY DEF Inv, TypeOK, SaveMovedAway, Names
<1>7. TypeOK'
  BY <1>2, <1>4, <1>5, <1>6 DEF Inv, TypeOK
<1>8. Sound'
  BY <1>4, <1>5, <1>6 DEF Inv, Sound, Exists, Names
<1>9. Running'
  BY <1>1, <1>2, <1>4 DEF Inv, StageInv, Running
<1>10. Recovering'
  BY <1>1, <1>2, <1>4, <1>5, <1>6 DEF Recovering, Kept, KeptAside, Exists, FromGame, Harmless
<1>11. StageInv'
  BY <1>2, <1>3, <1>9, <1>10 DEF StageInv, Idle, Writing, Replacing, Checking, At
<1>. QED
  BY <1>3, <1>7, <1>8, <1>11 DEF Inv, MemoryFollowsSave

(* Four ways out of "recover": the save is there; the replaced save or,    *)
(* when it is gone, the copy is moved back; or that fails.                 *)
LEMMA RecoverInv == ASSUME Inv, Recover PROVE Inv'
<1>1. /\ job # None /\ job.loaded = job.snapshot /\ Exists("temp")
      /\ Exists("save") => Kept("save") /\ FromGame("save")
      /\ ~Exists("save") => Kept("backup")
      /\ Exists("backup") => FromGame("backup")
      /\ Harmless => Exists("save") \/ Exists("backup")
  BY DEF Inv, StageInv, Running, Recovering, Recover, At
<1>2. newest' = newest /\ due' = due
  BY DEF Recover
<1>3. ASSUME NEW fs \in [Names -> SaveContents \cup {None}], Fail(fs),
             \A f \in Names : fs[f] # None => \E g \in Names : fs[f] = files[g],
             due # 0 => \/ \E c \in left : c.whole /\ c.gen >= due
                        \/ \E f \in Names : fs[f] # None /\ fs[f].gen >= due,
             harmed' \subseteq Harms,
             harmed' \subseteq {"crash"} /\ fs["save"] # None
               => fs["save"] = job.snapshot \/ fs["save"].gen > job.snapshot.gen
      PROVE  Inv'
  <2>1. \A f \in Names : fs[f] # None => fs[f].whole /\ fs[f].gen <= newest
    BY <1>3 DEF Inv, Sound, Exists
  <2>2. Leave(fs) /\ job' = None /\ mem' = job.loaded /\ result' = "failed"
    BY <1>3 DEF Fail, Leave
  <2>3. files'["save"] = fs["save"]
    BY <2>2 DEF Leave, Names
  <2>4. job.snapshot.gen \in Nat /\ (fs["save"] # None => fs["save"].gen \in Nat)
    <3>1. job.snapshot \in SaveContents
      BY <1>1 DEF Inv, TypeOK, Jobs
    <3>. QED
      BY <3>1, VersionDowngradeAssumption DEF SaveContents, Names
  <2>5. MemoryFollowsSave'
    BY <1>1, <1>3, <2>2, <2>3, <2>4 DEF MemoryFollowsSave, Exists
  <2>. QED
    BY <1>1, <1>2, <1>3, <2>1, <2>2, <2>5, LeaveInv
<1>4. CASE Exists("save") /\ Fail([files EXCEPT !["temp"] = None, !["backup"] = None])
           /\ UNCHANGED harmed
  <2>. DEFINE fs == [files EXCEPT !["temp"] = None, !["backup"] = None]
  <2>1. fs \in [Names -> SaveContents \cup {None}] /\ fs["save"] = files["save"]
        /\ fs["temp"] = None /\ fs["backup"] = None
    BY DEF Inv, TypeOK, Names
  <2>. QED
    BY <1>1, <1>3, <1>4, <2>1 DEF Inv, TypeOK, Kept, KeptAside, FromGame, Exists, Names
<1>5. CASE ~Exists("save") /\ Exists("backup") /\ UNCHANGED harmed
           /\ Fail([files EXCEPT !["save"] = files["backup"], !["backup"] = None, !["temp"] = None])
  <2>. DEFINE fs == [files EXCEPT !["save"] = files["backup"], !["backup"] = None, !["temp"] = None]
  <2>1. fs \in [Names -> SaveContents \cup {None}] /\ fs["save"] = files["backup"]
        /\ fs["temp"] = None /\ fs["backup"] = None
    BY DEF Inv, TypeOK, Names
  <2>. QED
    BY <1>1, <1>3, <1>5, <2>1 DEF Inv, TypeOK, Kept, KeptAside, FromGame, Exists, Names
<1>6. CASE ~Exists("save") /\ ~Exists("backup") /\ UNCHANGED harmed
           /\ Fail([files EXCEPT !["save"] = files["temp"], !["temp"] = None])
  <2>. DEFINE fs == [files EXCEPT !["save"] = files["temp"], !["temp"] = None]
  <2>1. fs \in [Names -> SaveContents \cup {None}] /\ fs["save"] = files["temp"]
        /\ fs["temp"] = None /\ fs["backup"] = None
    BY <1>6 DEF Inv, TypeOK, Exists, Names
  <2>. QED
    BY <1>1, <1>3, <1>6, <2>1 DEF Inv, TypeOK, Kept, KeptAside, Harmless, Exists, Names
<1>7. CASE ~Exists("save") /\ harmed' = harmed \cup {"undo"}
           /\ Fail(IF Exists("backup") THEN Without("temp") ELSE files)
  <2>. DEFINE fs == IF Exists("backup") THEN Without("temp") ELSE files
  <2>1. fs \in [Names -> SaveContents \cup {None}] /\ fs["save"] = None
        /\ fs["backup"] = files["backup"] /\ (fs["temp"] # None => fs["temp"] = files["temp"])
    BY <1>7 DEF Inv, TypeOK, Without, Exists, Names
  <2>. QED
    BY <1>1, <1>3, <1>7, <2>1 DEF Inv, TypeOK, Kept, KeptAside, Exists, Names, Harms
<1>. QED
  BY <1>4, <1>5, <1>6, <1>7 DEF Recover

(* What was replaced is what the copy was made of: the copy, or what the   *)
(* game has saved over it since, may take its place.                       *)
LEMMA VerifiedInv == ASSUME Inv, Verified PROVE Inv'
<1>. DEFINE fs == Without("backup")
<1>1. /\ job \in Jobs /\ job # None /\ job.loaded = job.snapshot /\ mem # None
      /\ mem = Downgraded(job.loaded, job.request)
      /\ ~Exists("temp") /\ Kept("backup") /\ files["backup"] = job.snapshot
      /\ Exists("save") => files["save"] = mem \/ files["save"].gen > job.snapshot.gen
      /\ ~Exists("save") => due = 0 /\ ~Harmless
  BY DEF Inv, TypeOK, StageInv, Running, Checking, Verified, At, ReplacedIsSnapshot
<1>2. mem.gen = job.snapshot.gen /\ mem.gen \in Nat /\ due \in Nat
      /\ (Exists("save") => files["save"].gen \in Nat)
  <2>1. job.loaded \in SaveContents /\ job.request \in Requests
    BY <1>1 DEF Jobs
  <2>2. mem.gen = job.snapshot.gen /\ mem \in SaveContents
    BY <1>1, <2>1, DowngradedKeeps
  <2>. QED
    BY <2>2, VersionDowngradeAssumption DEF Inv, TypeOK, Exists, SaveContents, Names
<1>3. /\ fs \in [Names -> SaveContents \cup {None}] /\ fs["backup"] = None
      /\ fs["save"] = files["save"] /\ fs["temp"] = files["temp"]
  BY DEF Inv, TypeOK, Without, Names
<1>4. \A f \in Names : fs[f] # None => fs[f].whole /\ fs[f].gen <= newest
  BY <1>3 DEF Inv, Sound, Names, Exists
<1>5. due # 0 => \/ \E c \in left : c.whole /\ c.gen >= due
                 \/ \E f \in Names : fs[f] # None /\ fs[f].gen >= due
  BY <1>1, <1>2, <1>3 DEF Kept, KeptAside, Exists, Names
<1>6. Leave(fs) /\ job' = None /\ mem' = mem /\ result' = "ok"
      /\ newest' = newest /\ due' = due /\ harmed' = harmed
  BY DEF Verified, Leave
<1>7. MemoryFollowsSave'
  BY <1>1, <1>2, <1>3, <1>6 DEF MemoryFollowsSave, Leave, Exists, Names
<1>. QED
  BY <1>1, <1>3, <1>4, <1>5, <1>6, <1>7, LeaveInv DEF Inv, TypeOK

LEMMA NotVerifiedInv == ASSUME Inv, NotVerified PROVE Inv'
<1>1. job \in Jobs /\ job # None /\ At("verify")
  BY DEF Inv, TypeOK, NotVerified, At
<1>2. /\ job' \in Jobs /\ job'.stage = "putback" /\ job'.request = job.request
      /\ job'.snapshot = job.snapshot /\ job'.loaded = job.loaded
  BY <1>1 DEF NotVerified, Goto, Jobs, Stages
<1>3. job' # None
  BY <1>2, VersionDowngradeAssumption
<1>4. UNCHANGED <<files, left, mem, newest, result, due, harmed>>
  BY DEF NotVerified
<1>5. TypeOK' /\ Sound'
  BY <1>2, <1>4 DEF Inv, TypeOK, Sound, Exists
<1>6. StageInv'
  BY <1>1, <1>2, <1>3, <1>4
     DEF Inv, StageInv, Idle, Running, Writing, Replacing, Recovering, Checking, At,
         Kept, KeptAside, Exists, FromGame, Harmless
<1>. QED
  BY <1>3, <1>5, <1>6 DEF Inv, MemoryFollowsSave

LEMMA PutBackInv == ASSUME Inv, PutBack PROVE Inv'
<1>. DEFINE fs == PutBackFile
<1>1. /\ job # None /\ job.loaded = job.snapshot /\ job.snapshot \in SaveContents
      /\ Exists("backup") /\ Kept("backup") /\ FromGame("backup")
  BY DEF Inv, TypeOK, Jobs, StageInv, Running, Checking, PutBack, At
<1>2. /\ fs \in [Names -> SaveContents \cup {None}] /\ fs["backup"] = None
      /\ fs["save"] = files["backup"] /\ fs["temp"] = files["temp"]
  BY DEF Inv, TypeOK, PutBackFile, Names
<1>3. \A f \in Names : fs[f] # None => fs[f].whole /\ fs[f].gen <= newest
  BY <1>2 DEF Inv, Sound, Names, Exists
<1>4. due # 0 => \/ \E c \in left : c.whole /\ c.gen >= due
                 \/ \E f \in Names : fs[f] # None /\ fs[f].gen >= due
  BY <1>1, <1>2 DEF Kept, KeptAside, Exists, Names
<1>5. Leave(fs) /\ job' = None /\ mem' = job.loaded /\ result' = "failed"
      /\ newest' = newest /\ due' = due /\ harmed' = harmed
  BY DEF PutBack, Fail, Leave
<1>6. files["backup"].gen \in Nat /\ job.snapshot.gen \in Nat
  BY <1>1, VersionDowngradeAssumption DEF Inv, TypeOK, SaveContents, Exists, Names
<1>7. MemoryFollowsSave'
  BY <1>1, <1>2, <1>5, <1>6 DEF MemoryFollowsSave, FromGame, Leave, Names
<1>. QED
  BY <1>1, <1>2, <1>3, <1>4, <1>5, <1>7, LeaveInv DEF Inv, TypeOK

(* The replaced save stays under the name GetTempFileNameW gave it.        *)
LEMMA PutBackFailsInv == ASSUME Inv, PutBackFails PROVE Inv'
<1>1. job # None /\ job.loaded = job.snapshot /\ Exists("backup") /\ Kept("backup")
  BY DEF Inv, StageInv, Running, Checking, PutBackFails, At
<1>2. PICK fs \in {files, Without("save")} : Fail(fs)
  BY DEF PutBackFails
<1>3. /\ fs \in [Names -> SaveContents \cup {None}] /\ fs["backup"] = files["backup"]
      /\ fs["temp"] = files["temp"] /\ fs["save"] \in {files["save"], None}
  BY DEF Inv, TypeOK, Without, Names
<1>4. \A f \in Names : fs[f] # None => fs[f].whole /\ fs[f].gen <= newest
  BY <1>3 DEF Inv, Sound, Names, Exists
<1>5. due # 0 => \/ \E c \in left : c.whole /\ c.gen >= due
                 \/ \E f \in Names : fs[f] # None /\ fs[f].gen >= due
  BY <1>1, <1>3 DEF Kept, KeptAside, Exists, Names
<1>6. Leave(fs) /\ job' = None /\ mem' = job.loaded /\ result' = "failed"
      /\ newest' = newest /\ due' = due /\ harmed' = harmed \cup {"undo"}
  BY <1>2 DEF PutBackFails, Fail, Leave
<1>7. MemoryFollowsSave' /\ harmed' \subseteq Harms
  BY <1>6 DEF Inv, TypeOK, MemoryFollowsSave, Harms
<1>. QED
  BY <1>1, <1>3, <1>4, <1>5, <1>6, <1>7, LeaveInv

LEMMA CrashInv == ASSUME Inv, Crash PROVE Inv'
<1>1. /\ job # None /\ job' = None /\ mem' = None /\ result' = "none"
      /\ newest' = newest /\ due' = due /\ harmed' \subseteq Harms
      /\ Leave(files) \/ (At("write") /\ Leave(HalfWritten))
  BY DEF Inv, TypeOK, Crash, Leave, Harms
<1>2. \A f \in Names : files[f] # None => files[f].whole /\ files[f].gen <= newest
  BY DEF Inv, Sound, Exists
<1>3. due # 0 => \/ \E c \in left : c.whole /\ c.gen >= due
                 \/ \E f \in Names : files[f] # None /\ files[f].gen >= due
  <2>1. CASE At("write") \/ At("replace")
    BY <2>1 DEF Inv, StageInv, Writing, Replacing, Kept, KeptAside, Exists, Names
  <2>2. CASE At("recover")
    BY <2>2 DEF Inv, StageInv, Recovering, Kept, KeptAside, Exists, Names
  <2>3. CASE At("verify") \/ At("putback")
    BY <2>3 DEF Inv, StageInv, Checking, Kept, KeptAside, Exists, Names
  <2>. QED
    BY <1>1, <2>1, <2>2, <2>3 DEF Inv, TypeOK, Jobs, Stages, At
<1>4. MemoryFollowsSave'
  BY <1>1 DEF MemoryFollowsSave
<1>5. CASE Leave(files)
  BY <1>1, <1>2, <1>3, <1>4, <1>5, LeaveInv DEF Inv, TypeOK
<1>6. CASE At("write") /\ Leave(HalfWritten)
  <2>1. /\ files["save"] = job.snapshot /\ files["temp"] = job.snapshot
        /\ job.snapshot \in SaveContents /\ Kept("save")
    BY <1>1, <1>6 DEF Inv, TypeOK, StageInv, Writing, Jobs
  <2>2. /\ HalfWritten \in [Names -> SaveContents \cup {None}]
        /\ HalfWritten["save"] = files["save"]
    BY <2>1 DEF Inv, TypeOK, HalfWritten, Names, SaveContents
  <2>3. HalfWritten["save"] # None => HalfWritten["save"].whole /\ HalfWritten["save"].gen <= newest
    BY <1>2, <2>2 DEF Names
  <2>4. due # 0 => \/ \E c \in left : c.whole /\ c.gen >= due
                   \/ \E f \in Names : HalfWritten[f] # None /\ HalfWritten[f].whole
                                      /\ HalfWritten[f].gen >= due
    BY <1>2, <2>1, <2>2 DEF Kept, KeptAside, Exists, Names
  <2>. QED
    BY <1>1, <1>4, <1>6, <2>2, <2>3, <2>4, LeaveAnyInv
<1>. QED
  BY <1>1, <1>5, <1>6

(***************************************************************************)
(* The game and other programs.                                            *)
(***************************************************************************)
LEMMA GameSavesInv == ASSUME Inv, NEW c \in Contents, GameSaves(c) PROVE Inv'
<1>. DEFINE n == [c EXCEPT !.gen = newest + 1]
<1>1. newest \in Nat /\ newest + 1 \in 0 .. MaxGen /\ c \in SaveContents /\ c.whole
  BY VersionDowngradeAssumption DEF Inv, TypeOK, GameSaves
<1>2. n \in SaveContents /\ n.gen = newest + 1 /\ n.whole /\ n # None
  BY <1>1, VersionDowngradeAssumption DEF SaveContents
<1>3. /\ files' \in [Names -> SaveContents \cup {None}] /\ files'["save"] = n
      /\ files'["temp"] = files["temp"] /\ files'["backup"] = files["backup"]
  BY <1>2 DEF Inv, TypeOK, GameSaves, Names
<1>4. UNCHANGED <<left, mem, job, result, harmed>> /\ newest' = newest + 1 /\ ~At("write")
      /\ due' = IF At("verify") \/ At("putback") THEN due ELSE newest + 1
  BY DEF GameSaves
<1>5. /\ \A f \in Names : Exists(f) => files[f].gen \in Nat
      /\ mem # None => mem.gen \in Nat
  BY VersionDowngradeAssumption DEF Inv, TypeOK, SaveContents, Exists
<1>6. TypeOK'
  BY <1>1, <1>3, <1>4 DEF Inv, TypeOK
<1>7. Sound'
  <2>1. ASSUME NEW f \in Names, files'[f] # None
        PROVE  files'[f].whole /\ files'[f].gen <= newest + 1
    <3>1. CASE f = "save"
      <4>1. files'[f] = n
        BY <1>3, <3>1
      <4>. QED
        BY <1>1, <1>2, <4>1
    <3>2. CASE f # "save"
      <4>1. files'[f] = files[f]
        BY <1>3, <3>2 DEF Names
      <4>2. files[f].whole /\ files[f].gen <= newest /\ files[f].gen \in Nat
        BY <1>5, <2>1, <4>1 DEF Inv, Sound, Exists
      <4>. QED
        BY <1>1, <4>1, <4>2
    <3>. QED
      BY <3>1, <3>2
  <2>2. mem # None => mem.whole /\ mem.gen <= newest + 1
    BY <1>1, <1>5 DEF Inv, Sound
  <2>. QED
    BY <1>4, <2>1, <2>2 DEF Inv, Sound, Exists
<1>8. ~(At("verify") \/ At("putback")) => Kept("save")'
  BY <1>1, <1>2, <1>3, <1>4 DEF Kept, Exists
<1>9. job # None => n.gen > job.snapshot.gen /\ job \in Jobs
  <2>. SUFFICES ASSUME job # None PROVE n.gen > job.snapshot.gen /\ job \in Jobs
    OBVIOUS
  <2>1. job \in Jobs /\ job.snapshot.gen <= newest
    BY DEF Inv, TypeOK, StageInv, Running
  <2>2. job.snapshot.gen \in Nat
    BY <2>1, VersionDowngradeAssumption DEF Jobs, SaveContents
  <2>. QED
    BY <1>1, <1>2, <2>1, <2>2
<1>10. StageInv'
  <2>1. Running' /\ Idle' /\ Writing'
    BY <1>1, <1>3, <1>4, <1>8, <1>9
       DEF Inv, TypeOK, StageInv, Idle, Running, Writing, At, Exists, Jobs, SaveContents
  <2>2. Replacing'
    BY <1>2, <1>3, <1>4, <1>8, <1>9 DEF Inv, StageInv, Replacing, At, Exists, FromGame
  <2>3. Recovering'
    BY <1>2, <1>3, <1>4, <1>8, <1>9 DEF Inv, StageInv, Recovering, At, Exists, FromGame
  <2>4. Checking'
    BY <1>2, <1>3, <1>4, <1>9
       DEF Inv, StageInv, Checking, At, Exists, FromGame, Kept, KeptAside
  <2>. QED
    BY <2>1, <2>2, <2>3, <2>4 DEF StageInv
<1>11. MemoryFollowsSave'
  BY <1>1, <1>2, <1>3, <1>4, <1>5 DEF Inv, Sound, MemoryFollowsSave
<1>. QED
  BY <1>6, <1>7, <1>10, <1>11 DEF Inv

LEMMA RemoveInv == ASSUME Inv, Remove PROVE Inv'
<1>1. /\ files' \in [Names -> SaveContents \cup {None}] /\ files'["save"] = None
      /\ files'["temp"] = files["temp"] /\ files'["backup"] = files["backup"]
  BY DEF Inv, TypeOK, Remove, Without, Names
<1>2. UNCHANGED <<left, mem, job, newest, result>> /\ due' = 0 /\ ~At("write")
      /\ harmed' = harmed \cup {"remove"}
  BY DEF Remove
<1>3. 0 \in 0 .. MaxGen
  BY VersionDowngradeAssumption
<1>4. TypeOK'
  BY <1>1, <1>2, <1>3 DEF Inv, TypeOK, Harms
<1>5. Sound'
  BY <1>1, <1>2 DEF Inv, Sound, Exists, Names
<1>6. StageInv'
  BY <1>1, <1>2
     DEF Inv, StageInv, Idle, Running, Writing, Replacing, Recovering, Checking, At,
         Kept, KeptAside, Exists, FromGame, Harmless
<1>7. MemoryFollowsSave'
  BY <1>2 DEF MemoryFollowsSave
<1>. QED
  BY <1>4, <1>5, <1>6, <1>7 DEF Inv

LEMMA NextInv == Inv /\ [Next]_vars => Inv'
<1>1. ASSUME Inv, UNCHANGED vars PROVE Inv'
  BY <1>1 DEF vars, Inv, TypeOK, Sound, StageInv, Idle, Running, Writing, Replacing, Recovering,
              Checking, At, Kept, KeptAside, Exists, FromGame, Harmless, MemoryFollowsSave
<1>. QED
  BY <1>1, LoadInv, BeginInv, WriteTempInv, WriteFailsInv, ReplaceDoneInv, ReplaceFailsInv,
     RecoverInv, VerifiedInv, NotVerifiedInv, PutBackInv, PutBackFailsInv, GameSavesInv,
     RemoveInv, CrashInv
     DEF Next

LEMMA InvAlways == Spec => []Inv
<1>. QED
  BY InitInv, NextInv, PTL DEF Spec

-----------------------------------------------------------------------------
(***************************************************************************)
(* The variables keep their types: above all, a downgrade never makes a    *)
(* version that does not exist.                                            *)
(***************************************************************************)
THEOREM TypeCorrect == Spec => []TypeOK
<1>1. Inv => TypeOK
  BY DEF Inv
<1>. QED
  BY <1>1, InvAlways, PTL

(***************************************************************************)
(* er_save_downgrade never loses the save: whatever fails at whatever      *)
(* point, and wherever ERSaveManager is killed, some file of the directory *)
(* holds, whole, the last save of the game that is due.                    *)
(***************************************************************************)
THEOREM SaveIsKept == Spec => []NothingLost
<1>1. Inv => NothingLost
  <2>. SUFFICES ASSUME Inv, due # 0
                PROVE  \E c \in Present : c.gen >= due /\ c.whole
    BY DEF NothingLost
  <2>1. KeptAside \/ \E f \in Names : Exists(f) /\ files[f].gen >= due
    <3>1. CASE job = None
      BY <3>1 DEF Inv, StageInv, Idle, Kept, Names
    <3>2. CASE At("write") \/ At("replace")
      BY <3>2 DEF Inv, StageInv, Writing, Replacing, Kept, Names
    <3>3. CASE At("recover")
      BY <3>3 DEF Inv, StageInv, Recovering, Kept, Names
    <3>4. CASE At("verify") \/ At("putback")
      BY <3>4 DEF Inv, StageInv, Checking, Kept, Names
    <3>. QED
      BY <3>1, <3>2, <3>3, <3>4 DEF Inv, TypeOK, Jobs, Stages, At
  <2>. QED
    BY <2>1 DEF Inv, Sound, KeptAside, Present, Exists
<1>. QED
  BY <1>1, InvAlways, PTL

(***************************************************************************)
(* What ERSaveManager shows after a downgrade, done or failed, is what the *)
(* file holds, as long as the game has not saved since.                    *)
(***************************************************************************)
THEOREM MemoryIsTrue == Spec => []MemoryFollowsSave
<1>1. Inv => MemoryFollowsSave
  BY DEF Inv
<1>. QED
  BY <1>1, InvAlways, PTL

(* What a failed downgrade may leave under the name of the save.           *)
LEMMA NotDowngraded ==
  ASSUME Inv, job # None, NEW c \in SaveContents \cup {None},
         c = None \/ c = job.snapshot \/ c.gen > job.snapshot.gen
  PROVE  c # Downgraded(job.loaded, job.request)
<1>. DEFINE d == Downgraded(job.loaded, job.request)
<1>1. /\ job.loaded \in SaveContents /\ job.request \in Requests
      /\ job.loaded = job.snapshot /\ Older(job.loaded, job.request)
  BY DEF Inv, TypeOK, Jobs, StageInv, Running
<1>2. d \in SaveContents /\ d.gen = job.snapshot.gen /\ d # job.snapshot
  BY <1>1, DowngradedKeeps, DowngradedDiffers
<1>3. d.gen \in Nat
  BY <1>2, VersionDowngradeAssumption DEF SaveContents
<1>. HIDE DEF d
<1>4. c # d
  BY <1>2, <1>3, VersionDowngradeAssumption
<1>. QED
  BY <1>4 DEF d

LEMMA FailureStep ==
  ASSUME Inv, Next, Fails, harmed' \cap {"undo", "remove"} = {}
  PROVE  UnchangedByFailure
<1>1. job # None /\ job \in Jobs /\ job' = None /\ result' = "failed"
      /\ files \in [Names -> SaveContents \cup {None}]
  BY DEF Fails, Inv, TypeOK
<1>2. [job EXCEPT !.stage = "replace"] # None /\ [job EXCEPT !.stage = "recover"] # None
      /\ [job EXCEPT !.stage = "verify"] # None /\ [job EXCEPT !.stage = "putback"] # None
  <2>1. \A x \in Stages : [job EXCEPT !.stage = x] \in Jobs
    BY <1>1 DEF Jobs
  <2>. QED
    BY <2>1, VersionDowngradeAssumption DEF Stages
<1>3. WriteFails \/ Recover \/ PutBack \/ PutBackFails
  BY <1>1, <1>2 DEF Next, Load, Begin, WriteTemp, ReplaceDone, ReplaceFails, Verified, NotVerified,
                    GameSaves, Remove, Crash, Goto
<1>4. /\ files'["save"] \in SaveContents \cup {None}
      /\ \/ files'["save"] = None
         \/ files'["save"] = job.snapshot
         \/ files'["save"].gen > job.snapshot.gen
  <2>1. CASE WriteFails
    <3>1. files["save"] = job.snapshot
      BY <2>1 DEF Inv, StageInv, Writing, WriteFails, At
    <3>2. files'["save"] = files["save"]
      BY <1>1, <2>1 DEF WriteFails, Fail, Leave, Without, Names
    <3>. QED
      BY <1>1, <3>1, <3>2 DEF Names
  <2>2. CASE Recover
    <3>1. /\ Exists("save") => FromGame("save")
          /\ Exists("backup") => FromGame("backup")
          /\ Harmless => Exists("save") \/ Exists("backup")
      BY <2>2 DEF Inv, StageInv, Recovering, Recover, At
    <3>2. Harmless
      BY <2>2 DEF Inv, TypeOK, Harms, Harmless, Recover
    <3>3. \/ Exists("save") /\ files'["save"] = files["save"]
          \/ Exists("backup") /\ files'["save"] = files["backup"]
      BY <1>1, <2>2, <3>1, <3>2 DEF Recover, Fail, Leave, Names
    <3>. QED
      BY <1>1, <3>1, <3>3 DEF FromGame, Names
  <2>3. CASE PutBack
    <3>1. Exists("backup") /\ FromGame("backup")
      BY <2>3 DEF Inv, StageInv, Checking, PutBack, At
    <3>2. files'["save"] = files["backup"]
      BY <1>1, <2>3 DEF PutBack, Fail, Leave, PutBackFile, Names
    <3>. QED
      BY <1>1, <3>1, <3>2 DEF FromGame, Names
  <2>4. CASE PutBackFails
    BY <2>4 DEF PutBackFails
  <2>. QED
    BY <1>3, <2>1, <2>2, <2>3, <2>4
<1>. QED
  BY <1>1, <1>4, NotDowngraded DEF UnchangedByFailure

(***************************************************************************)
(* er_save_downgrade that returns FALSE has left no downgraded save behind *)
(* unless the undoing itself failed or the save was removed under it.      *)
(***************************************************************************)
THEOREM FailuresAreUndone == Spec => FailureIsUndone
<1>1. Inv /\ [Next]_vars
        => [Fails /\ harmed' \cap {"undo", "remove"} = {} => UnchangedByFailure]_vars
  BY FailureStep
<1>. QED
  BY <1>1, InvAlways, PTL DEF Spec, FailureIsUndone

=============================================================================
