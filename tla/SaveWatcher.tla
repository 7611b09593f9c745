---------------------------- MODULE SaveWatcher ----------------------------
(***************************************************************************)
(* How the save tree follows the directory it shows: the worker thread of  *)
(* save_watcher.c, the UI thread that starts, retargets and stops it       *)
(* (apply_active_profile_ui, destroy_main_children) and serves what it     *)
(* posts (WM_WATCHER_NOTIFY and the debounce timer in main.c), and the     *)
(* directories, which anyone may change at any time.                       *)
(*                                                                         *)
(* A directory is the number of changes made to it; the tree remembers the *)
(* number it has seen.                                                     *)
(***************************************************************************)
EXTENDS Integers

CONSTANTS
  Roots,       \* directories a save tree may show
  NoRoot,      \* no directory, INVALID_HANDLE_VALUE
  Present,     \* those that exist at the start
  MaxChanges,  \* bounds the changes made to a directory
  MaxShows,    \* bounds how often the tree is given a root
  Env          \* what may go wrong around the watcher

EnvFaults == {"remove",  \* directories are deleted and created
              "hang"}    \* opening a directory does not return

ASSUME SaveWatcherAssumption ==
  /\ NoRoot \notin Roots /\ Present \subseteq Roots
  /\ MaxChanges \in Nat /\ MaxShows \in Nat
  /\ Env \subseteq EnvFaults

VARIABLES
  files, here,         \* the directories: how often each changed, which exist
  ui, shows,           \* the UI thread: what it is doing, the times it gave the tree a root
  treeRoot, treeSeen,  \* the tree: its root, the changes it has seen
  posted, timer,       \* the message queue of the window, its debounce timer
  watcher,             \* g_app.save_watcher # NULL
  root, wakeup, shutdown,     \* of save_watcher_s: root_path and the two events
  pc, target,                 \* the worker thread: where it is, its new_root
  handle, listen, read, buf,  \* dir_handle; how far it is in use; the read, what it will find
  since                       \* the changes the directory had at the handle's first read (history)

disk   == <<files, here>>
window == <<ui, shows, treeRoot, treeSeen, timer, watcher>>
asked  == <<root, wakeup, shutdown>>
io     == <<handle, listen, read, buf, since>>
vars   == <<disk, window, posted, asked, pc, target, io>>

Messages == {"changed", "died"}  \* wParam 0 and 1: refresh; 2: an error, ignored

-----------------------------------------------------------------------------
(***************************************************************************)
(* ReadDirectoryChangesW: from the first read of a handle on, the system   *)
(* records the changes made below the directory, for the pending read or   *)
(* for the next one.                                                       *)
(***************************************************************************)
Recorded(r) ==
  /\ read' = IF handle = r /\ listen = "listening" /\ read = "pending" THEN "done" ELSE read
  /\ buf' = (buf \/ (handle = r /\ listen = "listening" /\ read # "pending"))
  /\ UNCHANGED <<handle, listen, since>>

Change(r) ==
  /\ r \in here /\ files[r] < MaxChanges
  /\ files' = [files EXCEPT ![r] = @ + 1]
  /\ Recorded(r)
  /\ UNCHANGED <<here, window, posted, asked, pc, target>>

Remove(r) ==
  /\ "remove" \in Env /\ r \in here /\ files[r] < MaxChanges
  /\ files' = [files EXCEPT ![r] = @ + 1]
  /\ here' = here \ {r}
  /\ listen' = IF handle = r THEN "dead" ELSE listen
  /\ read' = IF handle = r /\ read = "pending" THEN "failed" ELSE read
  /\ UNCHANGED <<handle, buf, since, window, posted, asked, pc, target>>

Create(r) ==
  /\ "remove" \in Env /\ r \notin here /\ files[r] < MaxChanges
  /\ files' = [files EXCEPT ![r] = @ + 1]
  /\ here' = here \cup {r}
  /\ UNCHANGED <<window, posted, asked, pc, target, io>>

-----------------------------------------------------------------------------
(***************************************************************************)
(* The UI thread.  Giving the tree a root reads the directory; only then   *)
(* is the watcher started or retargeted.                                   *)
(***************************************************************************)
ShowRoot(r) ==
  /\ ui = "idle" /\ shows < MaxShows
  /\ shows' = shows + 1
  /\ treeRoot' = r /\ treeSeen' = files[r]
  /\ ui' = "follow"
  /\ UNCHANGED <<disk, timer, watcher, posted, asked, pc, target, io>>

StartWatcher ==
  /\ ui = "follow" /\ ~watcher
  /\ ui' = "idle"
  /\ IF treeRoot \in here
       THEN /\ watcher' = TRUE
            /\ root' = treeRoot /\ wakeup' = FALSE /\ shutdown' = FALSE
            /\ handle' = treeRoot /\ listen' = "new" /\ read' = "none" /\ buf' = FALSE
            /\ pc' = "arm"
       ELSE UNCHANGED <<watcher, asked, handle, listen, read, buf, pc>>
  /\ UNCHANGED <<disk, shows, treeRoot, treeSeen, timer, posted, target, since>>

ChangeRoot ==
  /\ ui = "follow" /\ watcher
  /\ root' = treeRoot
  /\ ui' = "wake"
  /\ UNCHANGED <<disk, shows, treeRoot, treeSeen, timer, watcher, posted, wakeup, shutdown,
                 pc, target, io>>

Wake ==
  /\ ui = "wake"
  /\ wakeup' = TRUE
  /\ ui' = "idle"
  /\ UNCHANGED <<disk, shows, treeRoot, treeSeen, timer, watcher, posted, root, shutdown,
                 pc, target, io>>

(* The messages wait in a queue.  Those of a kind are served before the    *)
(* timer can fire, to the effect of one: a set does.                       *)
Notified(m) ==
  /\ ui = "idle" /\ m \in posted
  /\ posted' = posted \ {m}
  /\ timer' = (timer \/ m = "changed")
  /\ UNCHANGED <<disk, ui, shows, treeRoot, treeSeen, watcher, asked, pc, target, io>>

\* A wrong version of TimerFires: the timer is stopped, the tree not refreshed.
TimerFiresOnly ==
  /\ ui = "idle" /\ timer /\ posted = {}
  /\ timer' = FALSE
  /\ UNCHANGED <<disk, ui, shows, treeRoot, treeSeen, watcher, posted, asked, pc, target, io>>

(* WM_TIMER comes when no other message waits.                             *)
TimerFires ==
  /\ ui = "idle" /\ timer /\ posted = {}
  /\ timer' = FALSE
  /\ treeSeen' = files[treeRoot]
  /\ UNCHANGED <<disk, ui, shows, treeRoot, watcher, posted, asked, pc, target, io>>

(* The handlers that change the tree themselves refresh it.                *)
Refresh ==
  /\ ui = "idle" /\ treeRoot # NoRoot
  /\ treeSeen' = files[treeRoot]
  /\ UNCHANGED <<disk, ui, shows, treeRoot, timer, watcher, posted, asked, pc, target, io>>

\* A wrong version of Close: the read is cancelled, the thread not told why.
CloseQuietly ==
  /\ ui = "idle"
  /\ timer' = FALSE
  /\ ui' = IF watcher THEN "cancel" ELSE "closed"
  /\ UNCHANGED <<disk, shows, treeRoot, treeSeen, watcher, posted, asked, pc, target, io>>

(* WM_DESTROY stops the watcher: it is told to end, its read is cancelled, *)
(* and it is waited for before what it uses is freed.                      *)
Close ==
  /\ ui = "idle"
  /\ timer' = FALSE
  /\ ui' = IF watcher THEN "cancel" ELSE "closed"
  /\ shutdown' = (shutdown \/ watcher)
  /\ UNCHANGED <<disk, shows, treeRoot, treeSeen, watcher, posted, root, wakeup, pc, target, io>>

CancelRead ==
  /\ ui = "cancel"
  /\ read' = IF handle # NoRoot /\ read = "pending" THEN "failed" ELSE read
  /\ ui' = "join"
  /\ UNCHANGED <<disk, shows, treeRoot, treeSeen, timer, watcher, posted, asked, pc, target,
                 handle, listen, buf, since>>

Join ==
  /\ ui = "join" /\ pc = "ended"
  /\ watcher' = FALSE /\ handle' = NoRoot
  /\ ui' = "closed"
  /\ UNCHANGED <<disk, shows, treeRoot, treeSeen, timer, posted, asked, pc, target,
                 listen, read, buf, since>>

-----------------------------------------------------------------------------
(***************************************************************************)
(* The worker thread: issue a read, wait for it or for one of the events,  *)
(* say what came.  Whatever fails ends the thread.                         *)
(***************************************************************************)
Dies == posted' = posted \cup {"died"} /\ pc' = "ended"

\* A wrong version of Arm: the wakeup event is reset along with that of the
\* read.
ArmAfresh ==
  /\ pc = "arm" /\ listen # "dead"
  /\ since' = IF listen = "new" THEN files[handle] ELSE since
  /\ listen' = "listening"
  /\ read' = IF buf THEN "done" ELSE "pending"
  /\ buf' = FALSE /\ wakeup' = FALSE
  /\ pc' = "wait"
  /\ UNCHANGED <<disk, window, posted, root, shutdown, target, handle>>

Arm ==
  /\ pc = "arm" /\ listen # "dead"
  /\ since' = IF listen = "new" THEN files[handle] ELSE since
  /\ listen' = "listening"
  /\ read' = IF buf THEN "done" ELSE "pending"
  /\ buf' = FALSE
  /\ pc' = "wait"
  /\ UNCHANGED <<disk, window, posted, asked, target, handle>>

ArmFails ==
  /\ pc = "arm" /\ listen = "dead"
  /\ Dies
  /\ UNCHANGED <<disk, window, asked, target, io>>

(* WaitForMultipleObjects takes the first event that is set: the read,     *)
(* shutdown, wakeup.                                                       *)
ReadReturns ==
  /\ pc = "wait" /\ read \in {"done", "failed"}
  /\ pc' = "result"
  /\ UNCHANGED <<disk, window, posted, asked, target, io>>

ShutDown ==
  /\ pc = "wait" /\ read = "pending" /\ shutdown
  /\ shutdown' = FALSE
  /\ read' = "none" /\ pc' = "ended"
  /\ UNCHANGED <<disk, window, posted, root, wakeup, target, handle, listen, buf, since>>

WakesUp ==
  /\ pc = "wait" /\ read = "pending" /\ ~shutdown /\ wakeup
  /\ wakeup' = FALSE
  /\ handle' = NoRoot /\ read' = "none" /\ buf' = FALSE
  /\ pc' = "reopen"
  /\ UNCHANGED <<disk, window, posted, root, shutdown, target, listen, since>>

CopyRoot ==
  /\ pc = "reopen"
  /\ target' = root
  /\ pc' = "open"
  /\ UNCHANGED <<disk, window, posted, asked, io>>

Open ==
  /\ pc = "open" /\ target \in here
  /\ handle' = target /\ listen' = "new"
  /\ pc' = "arm"
  /\ UNCHANGED <<disk, window, posted, asked, target, read, buf, since>>

OpenFails ==
  /\ pc = "open" /\ target \notin here
  /\ Dies
  /\ UNCHANGED <<disk, window, asked, target, io>>

OpenHangs ==
  /\ pc = "open" /\ "hang" \in Env
  /\ pc' = "hung"
  /\ UNCHANGED <<disk, window, posted, asked, target, io>>

\* A wrong version of Report: a read that returns no bytes, because there
\* were more changes than the buffer holds, is taken for no change.
ReportNonEmpty ==
  /\ pc = "result" /\ read = "done"
  /\ \/ posted' = posted \cup {"changed"}
     \/ UNCHANGED posted
  /\ read' = "none" /\ pc' = "arm"
  /\ UNCHANGED <<disk, window, asked, target, handle, listen, buf, since>>

Report ==
  /\ pc = "result" /\ read = "done"
  /\ posted' = posted \cup {"changed"}
  /\ read' = "none" /\ pc' = "arm"
  /\ UNCHANGED <<disk, window, asked, target, handle, listen, buf, since>>

ReportFailure ==
  /\ pc = "result" /\ read = "failed"
  /\ Dies
  /\ UNCHANGED <<disk, window, asked, target, io>>

-----------------------------------------------------------------------------
Init ==
  /\ files = [r \in Roots |-> 0] /\ here = Present
  /\ ui = "idle" /\ shows = 0
  /\ treeRoot = NoRoot /\ treeSeen = 0
  /\ posted = {} /\ timer = FALSE
  /\ watcher = FALSE
  /\ root = NoRoot /\ wakeup = FALSE /\ shutdown = FALSE
  /\ pc = "none" /\ target = NoRoot
  /\ handle = NoRoot /\ listen = "new" /\ read = "none" /\ buf = FALSE /\ since = 0

Worker == \/ Arm \/ ArmFails \/ ReadReturns \/ ShutDown \/ WakesUp
          \/ CopyRoot \/ Open \/ OpenFails \/ Report \/ ReportFailure

Pump == (\E m \in Messages : Notified(m)) \/ TimerFires

Handler == StartWatcher \/ ChangeRoot \/ Wake \/ CancelRead \/ Join

Next ==
  \/ \E r \in Roots : Change(r) \/ Remove(r) \/ Create(r) \/ ShowRoot(r)
  \/ Refresh \/ Close
  \/ Pump \/ Handler
  \/ Worker \/ OpenHangs

Spec == Init /\ [][Next]_vars

(* Both threads run: the worker thread takes the steps it can, the UI      *)
(* thread finishes the handler it is in and serves the messages it has.    *)
FairSpec == Spec /\ WF_vars(Worker) /\ WF_vars(Pump) /\ WF_vars(Handler)

-----------------------------------------------------------------------------
(***************************************************************************)
(* Properties                                                              *)
(***************************************************************************)
States == {"none", "arm", "wait", "result", "reopen", "open", "hung", "ended"}

(* Every variable has its type; a handle in use is that of a thread that   *)
(* still runs or of a structure that is still there, and a read is pending *)
(* or done only while the thread waits for it or looks at it.              *)
TypeOK ==
  /\ files \in [Roots -> 0 .. MaxChanges] /\ here \subseteq Roots
  /\ ui \in {"idle", "follow", "wake", "cancel", "join", "closed"} /\ shows \in 0 .. MaxShows
  /\ treeRoot \in Roots \cup {NoRoot} /\ treeSeen \in 0 .. MaxChanges
  /\ posted \subseteq Messages /\ timer \in BOOLEAN /\ watcher \in BOOLEAN
  /\ root \in Roots \cup {NoRoot} /\ wakeup \in BOOLEAN /\ shutdown \in BOOLEAN
  /\ pc \in States /\ target \in Roots \cup {NoRoot}
  /\ handle \in Roots \cup {NoRoot} /\ listen \in {"new", "listening", "dead"}
  /\ read \in {"none", "pending", "done", "failed"} /\ buf \in BOOLEAN
  /\ since \in 0 .. MaxChanges
  /\ pc \in {"arm", "wait", "result"} => handle \in Roots
  /\ pc \in {"arm", "reopen", "open", "hung"} => read = "none"
  /\ pc = "wait" => read # "none"
  /\ pc = "result" => read \in {"done", "failed"}

(* The watcher has the tree's directory in view, and something happened    *)
(* there that the tree does not show.                                      *)
Unseen ==
  /\ watcher /\ ui = "idle" /\ handle = treeRoot /\ listen = "listening"
  /\ since # files[handle] /\ treeSeen # files[handle]

(* No such change is forgotten, however the threads, the events, the       *)
(* messages and the timer interleave: it is in the read, in the system's   *)
(* buffer, in the queue or in the timer.                                   *)
NoChangeForgotten ==
  Unseen /\ pc # "ended" => \/ read = "done" \/ buf
                           \/ "changed" \in posted \/ timer

(* And it reaches the tree (or the tree moves on, or the program ends).    *)
ChangesReachTree == Unseen /\ pc # "ended" ~> ~Unseen \/ pc = "ended"

(* save_watcher_change_root: wherever the worker thread is when the tree   *)
(* gets another root, and however many requests run into one, the thread   *)
(* ends up watching the tree's directory, or finds that it cannot be       *)
(* opened.                                                                 *)
FollowsTree ==
  ui = "idle" /\ watcher /\ handle # treeRoot
    ~> handle = treeRoot \/ pc \in {"ended", "hung"} \/ ui = "closed"

(* What makes that and the next one true: no request made of the thread is *)
(* lost.  While it lives and watches another directory than the tree's,    *)
(* the wakeup event is set, or the thread is on its way to the root; and   *)
(* while it is told to end, the shutdown event is set until it has ended.  *)
RequestsKept ==
  /\ ui = "idle" /\ watcher /\ handle # treeRoot
     => \/ wakeup \/ pc = "reopen" \/ (pc = "open" /\ target = treeRoot)
        \/ pc \in {"ended", "hung"}
  /\ ui \in {"cancel", "join"} => shutdown \/ pc = "ended"

(* save_watcher_stop returns: whatever the thread is doing when it is told *)
(* to end, it does, unless it is inside a call that never returns.         *)
StopReturns == ui = "cancel" ~> ui = "closed" \/ pc = "hung"

(* save_watcher.h:34: when the watcher is given another root, "the worker  *)
(* thread re-opens the handle on wakeup".                                  *)
Retargets ==
  ui = "idle" /\ watcher /\ treeRoot \in here
    ~> handle = treeRoot \/ treeRoot \notin here \/ ui # "idle"

Behind == treeRoot \in here /\ treeSeen # files[treeRoot]

(* Praxis' README: "The backup tree mirrors folders and files on disk",    *)
(* with "auto-refresh via filesystem watcher".                             *)
TreeMirrorsDisk ==
  ui = "idle" /\ watcher /\ Behind ~> ~Behind \/ ui # "idle"
=============================================================================
