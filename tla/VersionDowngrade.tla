------------------------- MODULE VersionDowngrade -------------------------
(***************************************************************************)
(* The version downgrade of ersave.c: er_save_downgrade_character and      *)
(* er_save_downgrade edit a verified copy of the save in its directory,    *)
(* and commit_downgrade_temp_copy puts that copy in the place of the save  *)
(* with ReplaceFileW, looks at what it replaced, and undoes it when that   *)
(* is not what the copy was made of.                                       *)
(*                                                                         *)
(* The stages of a downgrade are the points between two operations on      *)
(* files:                                                                  *)
(*                                                                         *)
(*   "write" -> "replace" -> "verify" -> done                              *)
(*                  |            |                                         *)
(*              "recover"    "putback"                                     *)
(*                                                                         *)
(* The save is open, and closed to writers, up to "replace".  From there   *)
(* on the game may save.                                                   *)
(***************************************************************************)
EXTENDS Integers

CONSTANTS
  Slots,     \* the character slots
  Versions,  \* the save format versions, 0 for an unused slot
  Targets,   \* the known older versions: [char, summary]
  Contents,  \* the contents a save can have
  MaxGen,    \* bounds the saves of the game
  Env,       \* what may go wrong
  None       \* no file, no loaded save, no downgrade

EnvFaults == {"write",    \* the copy cannot be written or flushed
              "replace",  \* ReplaceFileW fails, before or after it moved the save away
              "look",     \* the replaced file cannot be opened
              "undo",     \* undoing a replacement, or moving a file back, fails as well
              "remove",   \* another program deletes the save
              "crash"}    \* ERSaveManager is killed

(***************************************************************************)
(* What a save holds: who wrote it last (gen: the game's how-manieth       *)
(* save; it stands for everything a downgrade leaves alone), the versions  *)
(* of the characters and of the summary, whether UserData011 holds a       *)
(* regulation, and whether it was written to the end.                      *)
(***************************************************************************)
SaveContents == [gen : 0 .. MaxGen, chars : [Slots -> Versions], summary : Versions,
                 reg : BOOLEAN, whole : BOOLEAN]

Requests == [kind : {"character"}, slot : Slots, target : Targets]
            \cup [kind : {"save"}, target : Targets]

Stages == {"write", "replace", "recover", "verify", "putback"}

Jobs == [stage : Stages, request : Requests, snapshot : SaveContents, loaded : SaveContents]

ASSUME VersionDowngradeAssumption ==
  /\ Versions \subseteq Nat /\ 0 \in Versions /\ MaxGen \in Nat \ {0}
  /\ Targets \subseteq [char : Versions, summary : Versions]
  /\ Contents \subseteq {c \in SaveContents : c.whole}
  /\ None \notin SaveContents /\ None \notin Jobs
  /\ Env \subseteq EnvFaults

VARIABLES
  files,   \* the save, the copy that is edited, the save that was replaced
  left,    \* the contents of files that downgrades left behind
  mem,     \* the loaded save (save_data), or None
  job,     \* the downgrade that is running, or None
  newest,  \* the number of saves the game has made
  result,  \* history: how the last downgrade ended
  due,     \* history: the save of the game that must not get lost
  harmed   \* history: what went wrong that a downgrade cannot make good

vars    == <<files, left, mem, job, newest, result, due, harmed>>
Names   == {"save", "temp", "backup"}
Harms   == {"undo", "remove", "crash"}

Exists(f) == files[f] # None
Present   == left \cup ({files[f] : f \in Names} \ {None})

-----------------------------------------------------------------------------
(***************************************************************************)
(* The edit.  A character older than the target stays as it is; the        *)
(* character downgrade leaves the summary alone.  Both clear UserData011.  *)
(***************************************************************************)
Lower(v, t) == IF v > t THEN t ELSE v

Downgraded(c, r) ==
  IF r.kind = "character"
    THEN [c EXCEPT !.chars[r.slot] = Lower(@, r.target.char), !.reg = FALSE]
    ELSE [c EXCEPT !.chars = [i \in Slots |-> Lower(@[i], r.target.char)],
                   !.summary = r.target.summary, !.reg = FALSE]

\* What goes into the copy: the fields of one character, or all that is loaded.
Edited(copy, m, r) ==
  IF r.kind = "character"
    THEN [copy EXCEPT !.chars[r.slot] = Downgraded(m, r).chars[r.slot], !.reg = FALSE]
    ELSE Downgraded(m, r)

\* Only a target that is older than what is loaded is accepted.
Older(m, r) ==
  IF r.kind = "character"
    THEN m.chars[r.slot] # 0 /\ r.target.char < m.chars[r.slot]
    ELSE r.target.summary < m.summary

(***************************************************************************)
(* make_verified_downgrade_temp_copy: with the save closed to writers, it  *)
(* must still be what was loaded; then it is copied.                       *)
(***************************************************************************)
MatchesLoaded == files["save"] = mem

Begin(r) ==
  /\ job = None /\ mem # None /\ Older(mem, r) /\ MatchesLoaded
  /\ files' = [files EXCEPT !["temp"] = files["save"]]
  /\ job' = [stage |-> "write", request |-> r, snapshot |-> files["save"], loaded |-> mem]
  /\ result' = "none"
  /\ UNCHANGED <<left, mem, newest, due, harmed>>

At(stage) == job # None /\ job.stage = stage

Goto(stage) == job' = [job EXCEPT !.stage = stage]

(* The end: the names of the copy and of the replaced save were picked by  *)
(* GetTempFileNameW, so what is still there stays there.                   *)
Leave(fs) ==
  /\ files' = [fs EXCEPT !["temp"] = None, !["backup"] = None]
  /\ left' = left \cup ({fs["temp"], fs["backup"]} \ {None})
  /\ job' = None

\* The end of a downgrade that failed: the versions in memory are put back.
Fail(fs) == Leave(fs) /\ mem' = job.loaded /\ result' = "failed"

Without(f) == [files EXCEPT ![f] = None]

WriteTemp ==
  /\ At("write")
  /\ mem' = Downgraded(mem, job.request)
  /\ files' = [files EXCEPT !["temp"] = Edited(@, mem, job.request)]
  /\ Goto("replace")
  /\ UNCHANGED <<left, newest, result, due, harmed>>

\* A write or the flush fails, or no name for the replaced file is free.
WriteFails ==
  /\ At("write") /\ "write" \in Env
  /\ Fail(Without("temp"))
  /\ UNCHANGED <<newest, due, harmed>>

(***************************************************************************)
(* commit_downgrade_temp_copy.  ReplaceFileW renames the save to the       *)
(* backup and the copy to the save; it may fail before the first renaming  *)
(* or between the two.                                                     *)
(***************************************************************************)
SaveMovedAway == [files EXCEPT !["backup"] = files["save"], !["save"] = None]

ReplaceDone ==
  /\ At("replace") /\ Exists("save")
  /\ files' = [SaveMovedAway EXCEPT !["save"] = files["temp"], !["temp"] = None]
  /\ Goto("verify")
  /\ UNCHANGED <<left, mem, newest, result, due, harmed>>

ReplaceFails ==
  /\ At("replace")
  /\ \/ ("replace" \in Env \/ ~Exists("save")) /\ UNCHANGED files
     \/ "replace" \in Env /\ Exists("save") /\ files' = SaveMovedAway
  /\ Goto("recover")
  /\ UNCHANGED <<left, mem, newest, result, due, harmed>>

\* Whatever is left of the save is moved back under its name.
Recover ==
  /\ At("recover")
  /\ \/ /\ Exists("save")
        /\ Fail([files EXCEPT !["temp"] = None, !["backup"] = None])
        /\ UNCHANGED harmed
     \/ /\ ~Exists("save") /\ Exists("backup")
        /\ Fail([files EXCEPT !["save"] = files["backup"], !["backup"] = None, !["temp"] = None])
        /\ UNCHANGED harmed
     \/ /\ ~Exists("save") /\ ~Exists("backup")
        /\ Fail([files EXCEPT !["save"] = files["temp"], !["temp"] = None])
        /\ UNCHANGED harmed
     \/ /\ ~Exists("save") /\ "undo" \in Env \ harmed
        /\ Fail(IF Exists("backup") THEN Without("temp") ELSE files)
        /\ harmed' = harmed \cup {"undo"}
  /\ UNCHANGED <<newest, due>>

ReplacedIsSnapshot == files["backup"] = job.snapshot

\* A wrong version of Verified: it is not looked at what was replaced.
VerifiedBlindly ==
  /\ At("verify")
  /\ Leave(Without("backup")) /\ result' = "ok"
  /\ UNCHANGED <<mem, newest, due, harmed>>

Verified ==
  /\ At("verify") /\ ReplacedIsSnapshot
  /\ Leave(Without("backup")) /\ result' = "ok"
  /\ UNCHANGED <<mem, newest, due, harmed>>

NotVerified ==
  /\ At("verify") /\ (~ReplacedIsSnapshot \/ "look" \in Env)
  /\ Goto("putback")
  /\ UNCHANGED <<files, left, mem, newest, result, due, harmed>>

PutBackFile == [files EXCEPT !["save"] = files["backup"], !["backup"] = None]

\* A wrong version of PutBack: the versions in memory stay lowered.
PutBackForgetful ==
  /\ At("putback") /\ Exists("save")
  /\ Leave(PutBackFile) /\ mem' = mem /\ result' = "failed"
  /\ UNCHANGED <<newest, due, harmed>>

\* A wrong version of PutBack: the downgraded save stays.
PutBackSkipped ==
  /\ At("putback") /\ Exists("save")
  /\ Fail(Without("backup"))
  /\ UNCHANGED <<newest, due, harmed>>

(* restore_replacement_backup: the other way round.  What was the save is  *)
(* renamed out of the way and deleted, even when the second renaming fails.*)
PutBack ==
  /\ At("putback") /\ Exists("save")
  /\ Fail(PutBackFile)
  /\ UNCHANGED <<newest, due, harmed>>

PutBackFails ==
  /\ At("putback")
  /\ \/ ("undo" \in Env \ harmed \/ ~Exists("save")) /\ Fail(files)
     \/ "undo" \in Env \ harmed /\ Exists("save") /\ Fail(Without("save"))
  /\ harmed' = harmed \cup {"undo"}
  /\ UNCHANGED <<newest, due>>

-----------------------------------------------------------------------------
(* er_save_data_load, or a reload.                                         *)
Load ==
  /\ job = None /\ Exists("save") /\ mem # files["save"]
  /\ mem' = files["save"]
  /\ UNCHANGED <<files, left, job, newest, result, due, harmed>>

(***************************************************************************)
(* The game writes a save of its own, unless the file is held open.  A     *)
(* save made between the replacement and its check is not always kept: due *)
(* does not ask for it.                                                    *)
(***************************************************************************)
GameSaves(c) ==
  /\ newest < MaxGen /\ ~At("write")
  /\ newest' = newest + 1
  /\ files' = [files EXCEPT !["save"] = [c EXCEPT !.gen = newest']]
  /\ due' = IF At("verify") \/ At("putback") THEN due ELSE newest'
  /\ UNCHANGED <<left, mem, job, result, harmed>>

Remove ==
  /\ "remove" \in Env \ harmed /\ ~At("write") /\ Exists("save")
  /\ files' = Without("save")
  /\ harmed' = harmed \cup {"remove"} /\ due' = 0
  /\ UNCHANGED <<left, mem, job, newest, result>>

\* The copy is edited region by region: what is found later may be half of each.
HalfWritten == [files EXCEPT !["temp"].whole = FALSE]

Crash ==
  /\ "crash" \in Env \ harmed /\ job # None
  /\ Leave(files) \/ (At("write") /\ Leave(HalfWritten))
  /\ mem' = None /\ result' = "none"
  /\ harmed' = harmed \cup {"crash"}
  /\ UNCHANGED <<newest, due>>

Init ==
  /\ \E c \in Contents :
       files = [f \in Names |-> IF f = "save" THEN [c EXCEPT !.gen = 1] ELSE None]
  /\ left = {} /\ mem = None /\ job = None
  /\ newest = 1 /\ due = 1
  /\ result = "none" /\ harmed = {}

Next ==
  \/ Load
  \/ \E r \in Requests : Begin(r)
  \/ WriteTemp \/ WriteFails
  \/ ReplaceDone \/ ReplaceFails \/ Recover
  \/ Verified \/ NotVerified
  \/ PutBack \/ PutBackFails
  \/ \E c \in Contents : GameSaves(c)
  \/ Remove
  \/ Crash

Spec == Init /\ [][Next]_vars

-----------------------------------------------------------------------------
(***************************************************************************)
(* The variables stay in their types.                                      *)
(***************************************************************************)
TypeOK ==
  /\ files \in [Names -> SaveContents \cup {None}]
  /\ left \subseteq SaveContents
  /\ mem \in SaveContents \cup {None}
  /\ job \in Jobs \cup {None}
  /\ newest \in 0 .. MaxGen /\ due \in 0 .. MaxGen
  /\ result \in {"none", "ok", "failed"} /\ harmed \subseteq Harms

(***************************************************************************)
(* At every moment, also after a crash at any point and any failure, some  *)
(* file of the directory holds, written to the end, the last save the game *)
(* made, or a later one: the replaced save is not deleted before the copy  *)
(* that took its place was found to be whole and to be made of it.  Only a *)
(* save made between the replacement and its check may give way to the one *)
(* it came after.                                                          *)
(***************************************************************************)
NothingLost == due = 0 \/ \E c \in Present : c.gen >= due /\ c.whole

(***************************************************************************)
(* Between downgrades, what is loaded is what the file holds, unless the   *)
(* game saved since: the memory is lowered when the file is and put back   *)
(* when it is not, so that the next edit starts from the truth.            *)
(***************************************************************************)
MemoryFollowsSave ==
  harmed \subseteq {"crash"} /\ job = None /\ mem # None /\ Exists("save")
    => files["save"] = mem \/ files["save"].gen # mem.gen

(***************************************************************************)
(* A downgrade that says it failed has not downgraded the save.            *)
(***************************************************************************)
Fails == job # None /\ job' = None /\ result' = "failed"

UnchangedByFailure == files'["save"] # Downgraded(job.loaded, job.request)

DowngradeIsAtomic == [][Fails => UnchangedByFailure]_vars

(***************************************************************************)
(* It holds as long as what is undone can be undone.                       *)
(***************************************************************************)
FailureIsUndone == [][Fails /\ harmed' \cap {"undo", "remove"} = {} => UnchangedByFailure]_vars
=============================================================================
