---------------------------- MODULE WindowProofs ----------------------------
(***************************************************************************)
(* Proofs about two parts of the window: how its tree follows a directory  *)
(* (SaveWatcher), for any number of directories and changes, whatever      *)
(* happens to the directories; and its hotkeys (Hotkeys), for any number   *)
(* of actions and keys, whatever other programs do with the keys.  The two *)
(* share no state and no name, and are proved one after the other.         *)
(***************************************************************************)
EXTENDS SaveWatcher, Hotkeys, TLAPS

(***************************************************************************)
(* The inductive invariant.  A handle in use is open on a directory that   *)
(* is there, or knows that it is not; the thread lives as long as the      *)
(* watcher does; a change that the tree does not show is under way, also   *)
(* while the UI thread is inside a handler; and between two handlers the   *)
(* root asked for is the tree's.                                           *)
(***************************************************************************)
Placed ==
  /\ handle \in Roots /\ listen # "dead" => handle \in here
  /\ pc \in {"reopen", "open", "hung", "none"} => handle = NoRoot
  /\ watcher => treeRoot \in Roots
  /\ ~watcher => pc \in {"none", "ended"}
  /\ ~watcher /\ ui \in {"idle", "follow", "wake"} => pc = "none"
  /\ ui = "follow" => treeRoot \in Roots
  /\ ui = "wake" => watcher
  /\ timer /\ ui # "closed" => watcher
  /\ posted # {} /\ ui # "closed" => watcher

UnderWay ==
  /\ ui \in {"idle", "follow", "wake"} /\ pc \in {"arm", "wait", "result"}
  /\ handle = treeRoot /\ listen = "listening"
  /\ since # files[handle] /\ treeSeen # files[handle]
  => read = "done" \/ buf \/ "changed" \in posted \/ timer

Asked ==
  /\ watcher /\ ui \in {"idle", "wake"} => root = treeRoot
  /\ RequestsKept

Inv == TypeOK /\ Placed /\ UnderWay /\ Asked

LEMMA InitInv == Init => Inv
<1> SUFFICES ASSUME Init
             PROVE  Inv
  OBVIOUS
<1>1. TypeOK
  <2>1. files \in [Roots -> 0 .. MaxChanges] /\ 0 \in 0 .. MaxShows /\ 0 \in 0 .. MaxChanges
    BY SaveWatcherAssumption DEF Init
  <2>2. /\ here \subseteq Roots /\ ui = "idle" /\ shows = 0 /\ treeRoot = NoRoot /\ treeSeen = 0
        /\ posted = {} /\ timer = FALSE /\ watcher = FALSE
        /\ root = NoRoot /\ wakeup = FALSE /\ shutdown = FALSE
        /\ pc = "none" /\ target = NoRoot /\ handle = NoRoot
        /\ listen = "new" /\ read = "none" /\ buf = FALSE /\ since = 0
    BY SaveWatcherAssumption DEF Init
  <2> QED
    BY <2>1, <2>2 DEF TypeOK, States
<1>2. Placed
  BY SaveWatcherAssumption DEF Init, Placed
<1>3. UnderWay
  BY DEF Init, UnderWay
<1>4. Asked
  BY DEF Init, Asked, RequestsKept
<1> QED
  BY <1>1, <1>2, <1>3, <1>4 DEF Inv

(* The types.                                                              *)
LEMMA StepType ==
  ASSUME Inv, Next
  PROVE  TypeOK'
<1>1. ASSUME NEW r \in Roots, Change(r)
      PROVE  TypeOK'
  BY <1>1, SaveWatcherAssumption DEF Change, Recorded, window, asked, Inv, TypeOK, Placed, Messages, States
<1>2. ASSUME NEW r \in Roots, Remove(r)
      PROVE  TypeOK'
  BY <1>2, SaveWatcherAssumption DEF Remove, window, asked, Inv, TypeOK, Placed, Messages, States
<1>3. ASSUME NEW r \in Roots, Create(r)
      PROVE  TypeOK'
  BY <1>3, SaveWatcherAssumption DEF Create, window, asked, io, Inv, TypeOK, Placed, Messages, States
<1>4. ASSUME NEW r \in Roots, ShowRoot(r)
      PROVE  TypeOK'
  BY <1>4, SaveWatcherAssumption DEF ShowRoot, disk, asked, io, Inv, TypeOK, Placed, Messages, States
<1>5. ASSUME NEW m \in Messages, Notified(m)
      PROVE  TypeOK'
  BY <1>5, SaveWatcherAssumption DEF Notified, disk, asked, io, Inv, TypeOK, Placed, Messages, States
<1>6. CASE Refresh
  BY <1>6, SaveWatcherAssumption DEF Refresh, disk, asked, io, Inv, TypeOK, Placed, Messages, States
<1>7. CASE Close
  BY <1>7, SaveWatcherAssumption DEF Close, disk, io, Inv, TypeOK, Placed, Messages, States
<1>8. CASE TimerFires
  <2>1. treeRoot \in Roots
    BY <1>8 DEF TimerFires, Inv, Placed
  <2>2. /\ UNCHANGED <<files, here, ui, shows, treeRoot, posted, watcher, root, wakeup, shutdown,
                       pc, target, handle, listen, read, buf, since>>
        /\ timer' \in BOOLEAN
    BY <1>8 DEF TimerFires, disk, asked, io
  <2>3. treeSeen' \in 0 .. MaxChanges
    BY <1>8, <2>1 DEF TimerFires, Inv, TypeOK
  <2>4. TypeOK
    BY DEF Inv
  <2> QED
    BY <2>2, <2>3, <2>4 DEF TypeOK
<1>9. CASE StartWatcher
  BY <1>9, SaveWatcherAssumption DEF StartWatcher, disk, asked, Inv, TypeOK, Placed, Messages, States
<1>10. CASE ChangeRoot
  BY <1>10, SaveWatcherAssumption DEF ChangeRoot, disk, io, Inv, TypeOK, Placed, Messages, States
<1>11. CASE Wake
  BY <1>11, SaveWatcherAssumption DEF Wake, disk, io, Inv, TypeOK, Placed, Messages, States
<1>12. CASE CancelRead
  BY <1>12, SaveWatcherAssumption DEF CancelRead, disk, asked, Inv, TypeOK, Placed, Messages, States
<1>13. CASE Join
  BY <1>13, SaveWatcherAssumption DEF Join, disk, asked, Inv, TypeOK, Placed, Messages, States
<1>14. CASE Arm
  BY <1>14, SaveWatcherAssumption DEF Arm, disk, window, asked, Inv, TypeOK, Placed, Messages, States
<1>15. CASE ArmFails
  BY <1>15, SaveWatcherAssumption DEF ArmFails, Dies, disk, window, asked, io, Inv, TypeOK, Placed, Messages, States
<1>16. CASE ReadReturns
  BY <1>16, SaveWatcherAssumption DEF ReadReturns, disk, window, asked, io, Inv, TypeOK, Placed, Messages, States
<1>17. CASE ShutDown
  BY <1>17, SaveWatcherAssumption DEF ShutDown, disk, window, Inv, TypeOK, Placed, Messages, States
<1>18. CASE WakesUp
  BY <1>18, SaveWatcherAssumption DEF WakesUp, disk, window, Inv, TypeOK, Placed, Messages, States
<1>19. CASE CopyRoot
  BY <1>19, SaveWatcherAssumption DEF CopyRoot, disk, window, asked, io, Inv, TypeOK, Placed, Messages, States
<1>20. CASE Open
  BY <1>20, SaveWatcherAssumption DEF Open, disk, window, asked, Inv, TypeOK, Placed, Messages, States
<1>21. CASE OpenFails
  BY <1>21, SaveWatcherAssumption DEF OpenFails, Dies, disk, window, asked, io, Inv, TypeOK, Placed, Messages, States
<1>22. CASE Report
  BY <1>22, SaveWatcherAssumption DEF Report, disk, window, asked, Inv, TypeOK, Placed, Messages, States
<1>23. CASE ReportFailure
  BY <1>23, SaveWatcherAssumption DEF ReportFailure, Dies, disk, window, asked, io, Inv, TypeOK, Placed, Messages, States
<1>24. CASE OpenHangs
  BY <1>24, SaveWatcherAssumption DEF OpenHangs, disk, window, asked, io, Inv, TypeOK, Placed, Messages, States
<1> QED
  BY <1>1, <1>2, <1>3, <1>4, <1>5, <1>6, <1>7, <1>8, <1>9, <1>10, <1>11, <1>12, <1>13, <1>14, <1>15, <1>16, <1>17, <1>18, <1>19, <1>20, <1>21, <1>22, <1>23, <1>24 DEF Next, Pump, Handler, Worker

(* Where the handle and the thread are.                                    *)
LEMMA StepPlaced ==
  ASSUME Inv, Next
  PROVE  Placed'
<1>1. ASSUME NEW r \in Roots, Change(r)
      PROVE  Placed'
  BY <1>1, SaveWatcherAssumption DEF Change, Recorded, window, asked, Inv, TypeOK, Placed, Messages
<1>2. ASSUME NEW r \in Roots, Remove(r)
      PROVE  Placed'
  BY <1>2, SaveWatcherAssumption DEF Remove, window, asked, Inv, TypeOK, Placed, Messages
<1>3. ASSUME NEW r \in Roots, Create(r)
      PROVE  Placed'
  BY <1>3, SaveWatcherAssumption DEF Create, window, asked, io, Inv, TypeOK, Placed, Messages
<1>4. ASSUME NEW r \in Roots, ShowRoot(r)
      PROVE  Placed'
  BY <1>4, SaveWatcherAssumption DEF ShowRoot, disk, asked, io, Inv, TypeOK, Placed, Messages
<1>5. ASSUME NEW m \in Messages, Notified(m)
      PROVE  Placed'
  BY <1>5, SaveWatcherAssumption DEF Notified, disk, asked, io, Inv, TypeOK, Placed, Messages
<1>6. CASE Refresh
  BY <1>6, SaveWatcherAssumption DEF Refresh, disk, asked, io, Inv, TypeOK, Placed, Messages
<1>7. CASE Close
  BY <1>7, SaveWatcherAssumption DEF Close, disk, io, Inv, TypeOK, Placed, Messages
<1>8. CASE TimerFires
  BY <1>8, SaveWatcherAssumption DEF TimerFires, disk, asked, io, Inv, TypeOK, Placed, Messages
<1>9. CASE StartWatcher
  BY <1>9, SaveWatcherAssumption DEF StartWatcher, disk, asked, Inv, TypeOK, Placed, Messages
<1>10. CASE ChangeRoot
  BY <1>10, SaveWatcherAssumption DEF ChangeRoot, disk, io, Inv, TypeOK, Placed, Messages
<1>11. CASE Wake
  BY <1>11, SaveWatcherAssumption DEF Wake, disk, io, Inv, TypeOK, Placed, Messages
<1>12. CASE CancelRead
  BY <1>12, SaveWatcherAssumption DEF CancelRead, disk, asked, Inv, TypeOK, Placed, Messages
<1>13. CASE Join
  BY <1>13, SaveWatcherAssumption DEF Join, disk, asked, Inv, TypeOK, Placed, Messages
<1>14. CASE Arm
  BY <1>14, SaveWatcherAssumption DEF Arm, disk, window, asked, Inv, TypeOK, Placed, Messages
<1>15. CASE ArmFails
  BY <1>15, SaveWatcherAssumption DEF ArmFails, Dies, disk, window, asked, io, Inv, TypeOK, Placed, Messages
<1>16. CASE ReadReturns
  BY <1>16, SaveWatcherAssumption DEF ReadReturns, disk, window, asked, io, Inv, TypeOK, Placed, Messages
<1>17. CASE ShutDown
  BY <1>17, SaveWatcherAssumption DEF ShutDown, disk, window, Inv, TypeOK, Placed, Messages
<1>18. CASE WakesUp
  BY <1>18, SaveWatcherAssumption DEF WakesUp, disk, window, Inv, TypeOK, Placed, Messages
<1>19. CASE CopyRoot
  BY <1>19, SaveWatcherAssumption DEF CopyRoot, disk, window, asked, io, Inv, TypeOK, Placed, Messages
<1>20. CASE Open
  BY <1>20, SaveWatcherAssumption DEF Open, disk, window, asked, Inv, TypeOK, Placed, Messages
<1>21. CASE OpenFails
  BY <1>21, SaveWatcherAssumption DEF OpenFails, Dies, disk, window, asked, io, Inv, TypeOK, Placed, Messages
<1>22. CASE Report
  BY <1>22, SaveWatcherAssumption DEF Report, disk, window, asked, Inv, TypeOK, Placed, Messages
<1>23. CASE ReportFailure
  BY <1>23, SaveWatcherAssumption DEF ReportFailure, Dies, disk, window, asked, io, Inv, TypeOK, Placed, Messages
<1>24. CASE OpenHangs
  BY <1>24, SaveWatcherAssumption DEF OpenHangs, disk, window, asked, io, Inv, TypeOK, Placed, Messages
<1> QED
  BY <1>1, <1>2, <1>3, <1>4, <1>5, <1>6, <1>7, <1>8, <1>9, <1>10, <1>11, <1>12, <1>13, <1>14, <1>15, <1>16, <1>17, <1>18, <1>19, <1>20, <1>21, <1>22, <1>23, <1>24 DEF Next, Pump, Handler, Worker

(* What is under way.                                                      *)
LEMMA StepUnderWay ==
  ASSUME Inv, Next
  PROVE  UnderWay'
<1>1. ASSUME NEW r \in Roots, Change(r)
      PROVE  UnderWay'
  BY <1>1, SaveWatcherAssumption DEF Change, Recorded, window, asked, Inv, TypeOK, Placed, UnderWay, Messages
<1>2. ASSUME NEW r \in Roots, Remove(r)
      PROVE  UnderWay'
  BY <1>2, SaveWatcherAssumption DEF Remove, window, asked, Inv, TypeOK, Placed, UnderWay, Messages
<1>3. ASSUME NEW r \in Roots, Create(r)
      PROVE  UnderWay'
  BY <1>3, SaveWatcherAssumption DEF Create, window, asked, io, Inv, TypeOK, Placed, UnderWay, Messages
<1>4. ASSUME NEW r \in Roots, ShowRoot(r)
      PROVE  UnderWay'
  BY <1>4, SaveWatcherAssumption DEF ShowRoot, disk, asked, io, Inv, TypeOK, Placed, UnderWay, Messages
<1>5. ASSUME NEW m \in Messages, Notified(m)
      PROVE  UnderWay'
  BY <1>5, SaveWatcherAssumption DEF Notified, disk, asked, io, Inv, TypeOK, Placed, UnderWay, Messages
<1>6. CASE Refresh
  BY <1>6, SaveWatcherAssumption DEF Refresh, disk, asked, io, Inv, TypeOK, Placed, UnderWay, Messages
<1>7. CASE Close
  BY <1>7, SaveWatcherAssumption DEF Close, disk, io, Inv, TypeOK, Placed, UnderWay, Messages
<1>8. CASE TimerFires
  BY <1>8, SaveWatcherAssumption DEF TimerFires, disk, asked, io, Inv, TypeOK, Placed, UnderWay, Messages
<1>9. CASE StartWatcher
  BY <1>9, SaveWatcherAssumption DEF StartWatcher, disk, asked, Inv, TypeOK, Placed, UnderWay, Messages
<1>10. CASE ChangeRoot
  BY <1>10, SaveWatcherAssumption DEF ChangeRoot, disk, io, Inv, TypeOK, Placed, UnderWay, Messages
<1>11. CASE Wake
  BY <1>11, SaveWatcherAssumption DEF Wake, disk, io, Inv, TypeOK, Placed, UnderWay, Messages
<1>12. CASE CancelRead
  BY <1>12, SaveWatcherAssumption DEF CancelRead, disk, asked, Inv, TypeOK, Placed, UnderWay, Messages
<1>13. CASE Join
  BY <1>13, SaveWatcherAssumption DEF Join, disk, asked, Inv, TypeOK, Placed, UnderWay, Messages
<1>14. CASE Arm
  BY <1>14, SaveWatcherAssumption DEF Arm, disk, window, asked, Inv, TypeOK, Placed, UnderWay, Messages
<1>15. CASE ArmFails
  BY <1>15, SaveWatcherAssumption DEF ArmFails, Dies, disk, window, asked, io, Inv, TypeOK, Placed, UnderWay, Messages
<1>16. CASE ReadReturns
  BY <1>16, SaveWatcherAssumption DEF ReadReturns, disk, window, asked, io, Inv, TypeOK, Placed, UnderWay, Messages
<1>17. CASE ShutDown
  BY <1>17, SaveWatcherAssumption DEF ShutDown, disk, window, Inv, TypeOK, Placed, UnderWay, Messages
<1>18. CASE WakesUp
  BY <1>18, SaveWatcherAssumption DEF WakesUp, disk, window, Inv, TypeOK, Placed, UnderWay, Messages
<1>19. CASE CopyRoot
  BY <1>19, SaveWatcherAssumption DEF CopyRoot, disk, window, asked, io, Inv, TypeOK, Placed, UnderWay, Messages
<1>20. CASE Open
  BY <1>20, SaveWatcherAssumption DEF Open, disk, window, asked, Inv, TypeOK, Placed, UnderWay, Messages
<1>21. CASE OpenFails
  BY <1>21, SaveWatcherAssumption DEF OpenFails, Dies, disk, window, asked, io, Inv, TypeOK, Placed, UnderWay, Messages
<1>22. CASE Report
  BY <1>22, SaveWatcherAssumption DEF Report, disk, window, asked, Inv, TypeOK, Placed, UnderWay, Messages
<1>23. CASE ReportFailure
  BY <1>23, SaveWatcherAssumption DEF ReportFailure, Dies, disk, window, asked, io, Inv, TypeOK, Placed, UnderWay, Messages
<1>24. CASE OpenHangs
  BY <1>24, SaveWatcherAssumption DEF OpenHangs, disk, window, asked, io, Inv, TypeOK, Placed, UnderWay, Messages
<1> QED
  BY <1>1, <1>2, <1>3, <1>4, <1>5, <1>6, <1>7, <1>8, <1>9, <1>10, <1>11, <1>12, <1>13, <1>14, <1>15, <1>16, <1>17, <1>18, <1>19, <1>20, <1>21, <1>22, <1>23, <1>24 DEF Next, Pump, Handler, Worker

(* What was asked.                                                         *)
LEMMA StepAsked ==
  ASSUME Inv, Next
  PROVE  Asked'
<1>1. ASSUME NEW r \in Roots, Change(r)
      PROVE  Asked'
  BY <1>1, SaveWatcherAssumption DEF Change, Recorded, window, asked, Inv, TypeOK, Placed, Asked, RequestsKept
<1>2. ASSUME NEW r \in Roots, Remove(r)
      PROVE  Asked'
  BY <1>2, SaveWatcherAssumption DEF Remove, window, asked, Inv, TypeOK, Placed, Asked, RequestsKept
<1>3. ASSUME NEW r \in Roots, Create(r)
      PROVE  Asked'
  BY <1>3, SaveWatcherAssumption DEF Create, window, asked, io, Inv, TypeOK, Placed, Asked, RequestsKept
<1>4. ASSUME NEW r \in Roots, ShowRoot(r)
      PROVE  Asked'
  BY <1>4, SaveWatcherAssumption DEF ShowRoot, disk, asked, io, Inv, TypeOK, Placed, Asked, RequestsKept
<1>5. ASSUME NEW m \in Messages, Notified(m)
      PROVE  Asked'
  BY <1>5, SaveWatcherAssumption DEF Notified, disk, asked, io, Inv, TypeOK, Placed, Asked, RequestsKept
<1>6. CASE Refresh
  BY <1>6, SaveWatcherAssumption DEF Refresh, disk, asked, io, Inv, TypeOK, Placed, Asked, RequestsKept
<1>7. CASE Close
  BY <1>7, SaveWatcherAssumption DEF Close, disk, io, Inv, TypeOK, Placed, Asked, RequestsKept
<1>8. CASE TimerFires
  BY <1>8, SaveWatcherAssumption DEF TimerFires, disk, asked, io, Inv, TypeOK, Placed, Asked, RequestsKept
<1>9. CASE StartWatcher
  BY <1>9, SaveWatcherAssumption DEF StartWatcher, disk, asked, Inv, TypeOK, Placed, Asked, RequestsKept
<1>10. CASE ChangeRoot
  BY <1>10, SaveWatcherAssumption DEF ChangeRoot, disk, io, Inv, TypeOK, Placed, Asked, RequestsKept
<1>11. CASE Wake
  BY <1>11, SaveWatcherAssumption DEF Wake, disk, io, Inv, TypeOK, Placed, Asked, RequestsKept
<1>12. CASE CancelRead
  BY <1>12, SaveWatcherAssumption DEF CancelRead, disk, asked, Inv, TypeOK, Placed, Asked, RequestsKept
<1>13. CASE Join
  BY <1>13, SaveWatcherAssumption DEF Join, disk, asked, Inv, TypeOK, Placed, Asked, RequestsKept
<1>14. CASE Arm
  BY <1>14, SaveWatcherAssumption DEF Arm, disk, window, asked, Inv, TypeOK, Placed, Asked, RequestsKept
<1>15. CASE ArmFails
  BY <1>15, SaveWatcherAssumption DEF ArmFails, Dies, disk, window, asked, io, Inv, TypeOK, Placed, Asked, RequestsKept
<1>16. CASE ReadReturns
  BY <1>16, SaveWatcherAssumption DEF ReadReturns, disk, window, asked, io, Inv, TypeOK, Placed, Asked, RequestsKept
<1>17. CASE ShutDown
  BY <1>17, SaveWatcherAssumption DEF ShutDown, disk, window, Inv, TypeOK, Placed, Asked, RequestsKept
<1>18. CASE WakesUp
  BY <1>18, SaveWatcherAssumption DEF WakesUp, disk, window, Inv, TypeOK, Placed, Asked, RequestsKept
<1>19. CASE CopyRoot
  BY <1>19, SaveWatcherAssumption DEF CopyRoot, disk, window, asked, io, Inv, TypeOK, Placed, Asked, RequestsKept
<1>20. CASE Open
  BY <1>20, SaveWatcherAssumption DEF Open, disk, window, asked, Inv, TypeOK, Placed, Asked, RequestsKept
<1>21. CASE OpenFails
  BY <1>21, SaveWatcherAssumption DEF OpenFails, Dies, disk, window, asked, io, Inv, TypeOK, Placed, Asked, RequestsKept
<1>22. CASE Report
  BY <1>22, SaveWatcherAssumption DEF Report, disk, window, asked, Inv, TypeOK, Placed, Asked, RequestsKept
<1>23. CASE ReportFailure
  BY <1>23, SaveWatcherAssumption DEF ReportFailure, Dies, disk, window, asked, io, Inv, TypeOK, Placed, Asked, RequestsKept
<1>24. CASE OpenHangs
  BY <1>24, SaveWatcherAssumption DEF OpenHangs, disk, window, asked, io, Inv, TypeOK, Placed, Asked, RequestsKept
<1> QED
  BY <1>1, <1>2, <1>3, <1>4, <1>5, <1>6, <1>7, <1>8, <1>9, <1>10, <1>11, <1>12, <1>13, <1>14, <1>15, <1>16, <1>17, <1>18, <1>19, <1>20, <1>21, <1>22, <1>23, <1>24 DEF Next, Pump, Handler, Worker

LEMMA InvAlways == Spec => []Inv
<1>1. Inv /\ UNCHANGED vars => Inv'
  BY DEF Inv, TypeOK, Placed, UnderWay, Asked, RequestsKept, vars, disk, window, asked, io, Messages, States
<1>2. Inv /\ [Next]_vars => Inv'
  BY <1>1, StepType, StepPlaced, StepUnderWay, StepAsked DEF Inv
<1> QED
  BY InitInv, <1>2, PTL DEF Spec

(* Types.                                                                  *)
THEOREM TypeCorrect == Spec => []TypeOK
<1>1. Inv => TypeOK
  BY DEF Inv
<1> QED
  BY <1>1, InvAlways, PTL

(* Whatever the two threads, the events, the message queue and the timer   *)
(* do, a change made in the tree's directory while the watcher has it in   *)
(* view is never forgotten before the tree has been refreshed.             *)
THEOREM ChangesKept == Spec => []NoChangeForgotten
<1>1. Inv => NoChangeForgotten
  BY SaveWatcherAssumption DEF Inv, TypeOK, Placed, UnderWay, NoChangeForgotten, Unseen, States
<1> QED
  BY <1>1, InvAlways, PTL

(* Wherever the worker thread is when the UI thread asks something of it,  *)
(* save_watcher_change_root and save_watcher_stop are heard: the request   *)
(* is there until the thread serves it, dies or hangs.                     *)
THEOREM RequestsAreKept == Spec => []RequestsKept
<1>1. Inv => RequestsKept
  BY DEF Inv, Asked
<1> QED
  BY <1>1, InvAlways, PTL

-----------------------------------------------------------------------------
(***************************************************************************)
(* Hotkeys.  In force is what is configured; while the hotkeys are         *)
(* registered one by one, those that are still to come are not bound, and  *)
(* those that have had their turn are bound or accounted for.              *)
(***************************************************************************)
Done(a) == stage = "main" \/ (stage = "register" /\ a < next)

Lost(a) == Done(a) /\ Missing(a)

Excused(a) == a \in refused \/ \E b \in 1 .. a - 1 : bound[b] = Parse(config[a])

InForce   == \A a \in Actions : bound[a] # None => Parses(config[a]) /\ bound[a] = Parse(config[a])
ToCome    == stage = "register" => \A a \in Actions : a >= next => bound[a] = None
Accounted == \A a \in Actions : Lost(a) => Excused(a)
Noticed   == stage = "register" => (ok <=> \A a \in Actions : ~Lost(a))
Told      == stage = "main" /\ chosen # None => (warned <=> \E a \in Actions : Lost(a))

KeysInv == /\ HotkeysTypeOK /\ RegistryIsSystem
           /\ InForce /\ ToCome /\ Accounted /\ Noticed /\ Told

LEMMA Distinct ==
  /\ None \notin Keys /\ None \notin Actions /\ None # Other /\ Other \notin Actions
  /\ Actions \subseteq Nat /\ 1 \in 1 .. Last + 1
BY HotkeysAssumption DEF Actions, Other

LEMMA ParsedKey ==
  ASSUME NEW t \in Texts, Parses(t)
  PROVE  Parse(t) \in Keys
BY HotkeysAssumption DEF Texts, Parses, Parse

LEMMA ControlType ==
  ASSUME NEW t \in Texts
  PROVE  ControlOf(t) \in Keys \cup {None}
BY ParsedKey, HotkeysAssumption DEF ControlOf

LEMMA UnboundType ==
  Unbound \in Bindings /\ \A a \in Actions : Unbound[a] = None
BY DEF Unbound, Bindings

LEMMA InitKeys == HotkeysInit => KeysInv
<1> SUFFICES ASSUME HotkeysInit
             PROVE  KeysInv
  OBVIOUS
<1>1. /\ stage = "off" /\ bound = Unbound /\ system = [k \in Keys |-> None]
      /\ controls = Unbound /\ config \in [Actions -> Texts] /\ ini = config
      /\ next = 1 /\ ok = TRUE /\ chosen = None /\ refused = {} /\ warned = FALSE
      /\ grabs = 0 /\ edits = 0
  BY HotkeysAssumption DEF HotkeysInit
<1>2. HotkeysTypeOK
  <2>1. 0 \in 0 .. MaxGrabs /\ 0 \in 0 .. MaxEdits
    BY HotkeysAssumption
  <2> QED
    BY <1>1, <2>1, UnboundType, Distinct DEF HotkeysTypeOK
<1>3. RegistryIsSystem
  BY <1>1, UnboundType, Distinct DEF RegistryIsSystem
<1>4. InForce /\ ToCome /\ Accounted /\ Noticed /\ Told
  BY <1>1, UnboundType DEF InForce, ToCome, Accounted, Lost, Done, Noticed, Told
<1> QED
  BY <1>2, <1>3, <1>4 DEF KeysInv

(* hotkey_unregister_all gives back what the registry holds, and that is   *)
(* all that the system has of Praxis.                                      *)
LEMMA UnregisterAllIs ==
  ASSUME HotkeysTypeOK, RegistryIsSystem
  PROVE  LET g == UnregisterAll(Registry)
         IN  /\ g.bound = Unbound
             /\ g.system \in [Keys -> {Other, None}]
<1> DEFINE taken == [k \in Keys |-> IF system[k] \in Actions /\ bound[system[k]] # None
                                      THEN None ELSE system[k]]
<1>1. UnregisterAll(Registry).bound = Unbound /\ UnregisterAll(Registry).system = taken
  BY DEF UnregisterAll, Registry
<1>2. ASSUME NEW k \in Keys
      PROVE  taken[k] \in {Other, None}
  <2>1. system[k] \in Actions \cup {Other, None}
    BY DEF HotkeysTypeOK
  <2>2. system[k] \in Actions => bound[system[k]] = k
    BY DEF RegistryIsSystem
  <2> QED
    BY <2>1, <2>2, Distinct
<1> QED
  BY <1>1, <1>2

(* With nothing bound and nothing of the system's, registry and system     *)
(* agree.                                                                  *)
LEMMA NothingBound ==
  ASSUME bound' = Unbound, system' \in [Keys -> {Other, None}]
  PROVE  /\ RegistryIsSystem' /\ bound' \in Bindings
         /\ system' \in [Keys -> Actions \cup {Other, None}]
         /\ InForce' /\ \A a \in Actions : bound'[a] = None
<1>1. \A a \in Actions : bound'[a] = None
  BY UnboundType
<1>2. \A a \in Actions, k \in Keys : None # k /\ system'[k] # a
  BY Distinct
<1>3. RegistryIsSystem'
  BY <1>1, <1>2 DEF RegistryIsSystem
<1>4. InForce'
  BY <1>1 DEF InForce
<1> QED
  BY <1>1, <1>3, <1>4, UnboundType

\* Registering begins with nothing bound: nothing has had its turn.
LEMMA Begun ==
  ASSUME BeginRegistering, bound' = Unbound, system' \in [Keys -> {Other, None}],
         config' \in [Actions -> Texts], ini' \in [Actions -> Texts], controls' \in Bindings,
         chosen' \in Bindings \cup {None}, grabs' \in 0 .. MaxGrabs, edits' \in 0 .. MaxEdits
  PROVE  KeysInv'
<1>1. stage' = "register" /\ next' = 1 /\ ok' = TRUE /\ refused' = {} /\ warned' = FALSE
  BY DEF BeginRegistering
<1>2. HotkeysTypeOK'
  BY <1>1, NothingBound, Distinct DEF HotkeysTypeOK
<1>3. \A a \in Actions : ~Lost(a)'
  BY <1>1, Distinct DEF Lost, Done, Actions
<1>4. ToCome' /\ Accounted' /\ Told'
  BY <1>1, <1>3, NothingBound DEF ToCome, Accounted, Told
<1>5. Noticed'
  BY <1>1, <1>3 DEF Noticed
<1> QED
  BY <1>2, <1>4, <1>5, NothingBound DEF KeysInv

\* With no hotkey in use nothing is missing.
LEMMA AtRest ==
  ASSUME HotkeysTypeOK', bound' = Unbound, system' \in [Keys -> {Other, None}],
         stage' \in {"off", "dialog"}
  PROVE  KeysInv'
<1>1. \A a \in Actions : ~Lost(a)'
  BY DEF Lost, Done
<1>2. ToCome' /\ Accounted' /\ Noticed' /\ Told'
  BY <1>1 DEF ToCome, Accounted, Noticed, Told
<1> QED
  BY <1>2, NothingBound DEF KeysInv

(* The turn of one action: its key is free and becomes its own, another    *)
(* program has it, or an action before has it.                             *)
LEMMA RegisterIs ==
  ASSUME KeysInv, stage = "register", next \in Actions, Parses(config[next])
  PROVE  LET k == Parse(config[next])
             g == Register(Registry, next, k)
         IN  /\ k \in Keys
             /\ \/ /\ system[k] = None
                   /\ g.bound = [bound EXCEPT ![next] = k] /\ g.system = [system EXCEPT ![k] = next]
                \/ /\ system[k] = Other \/ \E b \in 1 .. next - 1 : bound[b] = k
                   /\ system[k] # None /\ g.bound = bound /\ g.system = system
<1> DEFINE k == Parse(config[next])
           g == Register(Registry, next, k)
<1>1. k \in Keys
  BY ParsedKey DEF KeysInv, HotkeysTypeOK
<1>2. bound[next] = None
  BY Distinct DEF KeysInv, ToCome
<1>3. Unregister(Registry, next) = Registry
  BY <1>2 DEF Unregister, Registry
<1>4. /\ system[k] = None => g.bound = [bound EXCEPT ![next] = k] /\ g.system = [system EXCEPT ![k] = next]
      /\ system[k] # None => g.bound = bound /\ g.system = system
  BY <1>3 DEF Register, Free, Registry
<1>5. ASSUME system[k] # None, system[k] # Other
      PROVE  \E b \in 1 .. next - 1 : bound[b] = k
  <2>1. system[k] \in Actions
    BY <1>1, <1>5 DEF KeysInv, HotkeysTypeOK
  <2>2. bound[system[k]] = k
    BY <1>1, <2>1 DEF KeysInv, RegistryIsSystem
  <2>3. ~(system[k] >= next)
    BY <1>1, <2>1, <2>2, Distinct DEF KeysInv, ToCome
  <2>4. system[k] \in 1 .. next - 1
    BY <2>1, <2>3 DEF Actions
  <2> QED
    BY <2>2, <2>4
<1> HIDE DEF k, g
<1> QED
  BY <1>1, <1>4, <1>5 DEF k, g

LEMMA RegisterNextType ==
  ASSUME KeysInv, RegisterNext
  PROVE  HotkeysTypeOK'
<1> DEFINE k == Parse(config[next])
<1>1. /\ stage = "register" /\ stage' = stage /\ next \in Actions /\ next' = next + 1
      /\ UNCHANGED <<config, ini, controls, warned, grabs, edits, chosen>>
  BY DEF RegisterNext
<1>2. next' \in 1 .. Last + 1
  BY <1>1, HotkeysAssumption DEF Actions
<1>3. bound' \in Bindings /\ system' \in [Keys -> Actions \cup {Other, None}]
  <2>1. CASE UNCHANGED <<bound, system>>
    BY <2>1 DEF KeysInv, HotkeysTypeOK
  <2>2. CASE Parses(config[next]) /\ Becomes(Register(Registry, next, k))
    <3> DEFINE g == Register(Registry, next, k)
    <3>1. k \in Keys /\ \/ /\ g.bound = [bound EXCEPT ![next] = k]
                           /\ g.system = [system EXCEPT ![k] = next]
                        \/ g.bound = bound /\ g.system = system
      BY <1>1, <2>2, RegisterIs
    <3>2. bound' = g.bound /\ system' = g.system
      BY <2>2 DEF Becomes
    <3>3. bound \in Bindings /\ system \in [Keys -> Actions \cup {Other, None}]
      BY DEF KeysInv, HotkeysTypeOK
    <3> HIDE DEF k, g
    <3>4. [bound EXCEPT ![next] = k] \in Bindings
      BY <3>1, <3>3 DEF Bindings
    <3>5. [system EXCEPT ![k] = next] \in [Keys -> Actions \cup {Other, None}]
      BY <1>1, <3>3
    <3> QED
      BY <3>1, <3>2, <3>3, <3>4, <3>5
  <2> QED
    BY <2>1, <2>2 DEF RegisterNext
<1>4. ok' \in BOOLEAN /\ refused' \subseteq Actions
  <2>1. \/ ok' = ok
        \/ ok' = (ok /\ bound'[next] = k)
    BY DEF RegisterNext
  <2>2. ok' \in BOOLEAN
    BY <2>1 DEF KeysInv, HotkeysTypeOK
  <2>3. refused' \in {refused, refused \cup {next}}
    BY DEF RegisterNext
  <2> QED
    BY <1>1, <2>2, <2>3 DEF KeysInv, HotkeysTypeOK
<1> QED
  BY <1>1, <1>2, <1>3, <1>4 DEF KeysInv, HotkeysTypeOK

(* The three ways an action has its turn, and what it leaves of the        *)
(* others'.                                                                *)
Taken ==
  \E k \in Keys :
    /\ Parses(config[next]) /\ k = Parse(config[next]) /\ system[k] = None
    /\ bound' = [bound EXCEPT ![next] = k] /\ system' = [system EXCEPT ![k] = next]
    /\ ok' = ok /\ refused' = refused

Denied ==
  /\ Parses(config[next]) /\ bound' = bound /\ system' = system /\ ok' = FALSE
  /\ \/ refused' = refused \cup {next}
     \/ refused' = refused /\ \E b \in 1 .. next - 1 : bound[b] = Parse(config[next])

Skipped == ~Parses(config[next]) /\ UNCHANGED <<bound, system, ok, refused>>

LEMMA TurnIs ==
  ASSUME KeysInv, RegisterNext
  PROVE  Taken \/ Denied \/ Skipped
<1> DEFINE k == Parse(config[next])
           g == Register(Registry, next, k)
<1>1. stage = "register" /\ next \in Actions
  BY DEF RegisterNext
<1>2. CASE ~Parses(config[next])
  BY <1>2 DEF RegisterNext, Skipped
<1>3. CASE Parses(config[next])
  <2>1. /\ bound' = g.bound /\ system' = g.system
        /\ ok' = (ok /\ bound'[next] = k)
        /\ refused' = IF system[k] = Other THEN refused \cup {next} ELSE refused
    BY <1>3 DEF RegisterNext, Becomes
  <2>2. /\ k \in Keys
        /\ \/ /\ system[k] = None
              /\ g.bound = [bound EXCEPT ![next] = k] /\ g.system = [system EXCEPT ![k] = next]
           \/ /\ system[k] = Other \/ \E b \in 1 .. next - 1 : bound[b] = k
              /\ system[k] # None /\ g.bound = bound /\ g.system = system
    BY <1>1, <1>3, RegisterIs
  <2>3. bound[next] = None /\ bound \in Bindings /\ ok \in BOOLEAN
    BY <1>1, Distinct DEF KeysInv, ToCome, HotkeysTypeOK
  <2> HIDE DEF g
  <2>4. CASE system[k] = None
    <3>1. bound' = [bound EXCEPT ![next] = k] /\ system' = [system EXCEPT ![k] = next]
      BY <2>1, <2>2, <2>4
    <3>2. bound'[next] = k
      BY <1>1, <2>3, <3>1 DEF Bindings
    <3>3. ok' = ok
      BY <2>1, <2>3, <3>2
    <3>4. refused' = refused
      BY <2>1, <2>4, Distinct
    <3> QED
      BY <1>3, <2>2, <2>4, <3>1, <3>3, <3>4 DEF Taken
  <2>5. CASE system[k] # None
    <3>1. bound' = bound /\ system' = system
      BY <2>1, <2>2, <2>5
    <3>2. bound'[next] # k
      BY <2>2, <2>3, <3>1, Distinct
    <3>3. ok' = FALSE
      BY <2>1, <3>2
    <3>4. system[k] # Other => \E b \in 1 .. next - 1 : bound[b] = k
      BY <2>2, <2>5
    <3>5. \/ refused' = refused \cup {next}
          \/ refused' = refused /\ \E b \in 1 .. next - 1 : bound[b] = k
      BY <2>1, <3>4
    <3> QED
      BY <1>3, <3>1, <3>3, <3>5 DEF Denied
  <2> QED
    BY <2>4, <2>5
<1> QED
  BY <1>2, <1>3

\* In any of them the actions that have had their turn stay as they are.
LEMMA OthersStay ==
  ASSUME KeysInv, RegisterNext
  PROVE  /\ \A a \in Actions : a # next => bound'[a] = bound[a]
         /\ \A a \in Actions : Lost(a) /\ Excused(a) => Excused(a)'
         /\ \A a \in Actions : a # next => (Lost(a)' <=> Lost(a))
<1>1. /\ stage = "register" /\ stage' = stage /\ next \in Actions /\ next' = next + 1
      /\ config' = config
  BY DEF RegisterNext
<1>2. Taken \/ Denied \/ Skipped
  BY TurnIs
<1>3. \A a \in Actions : a # next => bound'[a] = bound[a]
  BY <1>1, <1>2 DEF Taken, Denied, Skipped, KeysInv, HotkeysTypeOK, Bindings
<1>4. refused \subseteq refused'
  BY <1>2 DEF Taken, Denied, Skipped
<1>5. \A a \in Actions : Parses(config[a]) => Parse(config[a]) # None
  BY ParsedKey, Distinct DEF KeysInv, HotkeysTypeOK
<1>6. bound[next] = None
  BY <1>1, Distinct DEF KeysInv, ToCome
<1>7. \A a \in Actions : a # next => (Lost(a)' <=> Lost(a))
  <2>1. ASSUME NEW a \in Actions, a # next
        PROVE  Lost(a)' <=> Lost(a)
    <3>1. Done(a)' <=> Done(a)
      BY <1>1, <2>1, Distinct DEF Done, Actions
    <3>2. Missing(a)' <=> Missing(a)
      BY <1>1, <1>3, <2>1 DEF Missing
    <3> QED
      BY <3>1, <3>2 DEF Lost
  <2> QED
    BY <2>1
<1>8. ASSUME NEW a \in Actions, Excused(a), Lost(a)
      PROVE  Excused(a)'
  <2>1. CASE a \in refused
    BY <1>4, <2>1 DEF Excused
  <2>2. ASSUME NEW b \in 1 .. a - 1, bound[b] = Parse(config[a])
        PROVE  Excused(a)'
    <3>1. b \in Actions
      BY <2>2, HotkeysAssumption DEF Actions
    <3>2. b # next
      <4>1. bound[b] # None
        BY <1>5, <1>8, <2>2 DEF Lost, Missing
      <4> QED
        BY <1>6, <4>1
    <3>3. bound'[b] = Parse(config'[a])
      BY <1>1, <1>3, <2>2, <3>1, <3>2
    <3> QED
      BY <3>3 DEF Excused
  <2> QED
    BY <1>8, <2>1, <2>2 DEF Excused
<1> QED
  BY <1>3, <1>7, <1>8

\* The one whose turn it was is bound to its key, excused, or without a key.
LEMMA TurnLeaves ==
  ASSUME KeysInv, RegisterNext, NEW n \in Actions, n = next
  PROVE  /\ bound'[n] # None => Parses(config[n]) /\ bound'[n] = Parse(config[n])
         /\ Lost(n)' => Excused(n)'
         /\ ok' <=> (ok /\ ~Lost(n)')
<1>1. stage = "register" /\ next' = n + 1 /\ stage' = stage /\ config' = config
  BY DEF RegisterNext
<1>2. bound[n] = None /\ bound \in Bindings
  BY <1>1, Distinct DEF KeysInv, ToCome, HotkeysTypeOK
<1>3. Lost(n)' <=> (Parses(config[n]) /\ bound'[n] = None)
  <2>1. Done(n)'
    BY <1>1, Distinct DEF Done
  <2> QED
    BY <1>1, <2>1 DEF Lost, Missing
<1>4. CASE Taken
  <2>1. PICK k \in Keys : /\ Parses(config[n]) /\ k = Parse(config[n])
                          /\ bound' = [bound EXCEPT ![n] = k] /\ ok' = ok
    BY <1>4 DEF Taken
  <2>2. bound'[n] = k /\ k # None
    BY <1>2, <2>1, Distinct DEF Bindings
  <2> QED
    BY <1>3, <2>1, <2>2
<1>5. CASE Denied
  <2>1. Excused(n)'
    <3>1. \/ n \in refused'
          \/ \E b \in 1 .. n - 1 : bound'[b] = Parse(config'[n])
      BY <1>1, <1>5 DEF Denied
    <3> QED
      BY <3>1 DEF Excused
  <2>2. bound'[n] = None /\ ok' = FALSE /\ Parses(config[n])
    BY <1>2, <1>5 DEF Denied
  <2> QED
    BY <1>3, <2>1, <2>2
<1>6. CASE Skipped
  <2>1. bound'[n] = None /\ ok' = ok /\ ~Parses(config[n])
    BY <1>2, <1>6 DEF Skipped
  <2> QED
    BY <1>3, <2>1
<1> QED
  BY <1>4, <1>5, <1>6, TurnIs

LEMMA RegisterNextKeeps ==
  ASSUME KeysInv, RegisterNext
  PROVE  KeysInv'
<1>1. /\ stage = "register" /\ stage' = stage /\ next \in Actions /\ next' = next + 1
      /\ config' = config
  BY DEF RegisterNext
<1>2. /\ HotkeysTypeOK /\ RegistryIsSystem /\ InForce /\ ToCome /\ Accounted /\ Noticed
  BY DEF KeysInv
<1>3. RegistryIsSystem'
  <2>1. CASE Taken
    <3>1. PICK k \in Keys : /\ system[k] = None
                            /\ bound' = [bound EXCEPT ![next] = k]
                            /\ system' = [system EXCEPT ![k] = next]
      BY <2>1 DEF Taken
    <3>2. bound[next] = None
      BY <1>1, <1>2, Distinct DEF ToCome
    <3>3. ASSUME NEW a \in Actions, NEW j \in Keys
          PROVE  bound'[a] = j <=> system'[j] = a
      <4>1. bound'[a] = (IF a = next THEN k ELSE bound[a]) /\ system'[j] = (IF j = k THEN next ELSE system[j])
        BY <1>2, <3>1 DEF HotkeysTypeOK, Bindings
      <4>2. bound[a] = j <=> system[j] = a
        BY <1>2 DEF RegistryIsSystem
      <4>3. bound[a] = k <=> system[k] = a
        BY <1>2 DEF RegistryIsSystem
      <4>4. bound[next] = j <=> system[j] = next
        BY <1>1, <1>2 DEF RegistryIsSystem
      <4> QED
        BY <3>1, <3>2, <4>1, <4>2, <4>3, <4>4, Distinct
    <3> QED
      BY <1>1, <3>3 DEF RegistryIsSystem
  <2>2. CASE Denied \/ Skipped
    BY <1>1, <1>2, <2>2 DEF Denied, Skipped, RegistryIsSystem
  <2> QED
    BY <2>1, <2>2, TurnIs
<1>4. InForce'
  <2>1. ASSUME NEW a \in Actions, bound'[a] # None
        PROVE  Parses(config[a]) /\ bound'[a] = Parse(config[a])
    <3>1. CASE a = next
      BY <2>1, <3>1, TurnLeaves
    <3>2. CASE a # next
      BY <1>2, <2>1, <3>2, OthersStay DEF InForce
    <3> QED
      BY <3>1, <3>2
  <2> QED
    BY <1>1, <2>1 DEF InForce
<1>5. ToCome'
  <2>1. ASSUME NEW a \in Actions, a >= next'
        PROVE  bound'[a] = None
    <3>1. a # next /\ a >= next
      BY <1>1, <2>1, Distinct
    <3> QED
      BY <1>1, <1>2, <3>1, OthersStay DEF ToCome
  <2> QED
    BY <2>1 DEF ToCome
<1>6. Accounted'
  <2>1. ASSUME NEW a \in Actions, Lost(a)'
        PROVE  Excused(a)'
    <3>1. CASE a = next
      BY <2>1, <3>1, TurnLeaves
    <3>2. CASE a # next
      BY <1>2, <2>1, <3>2, OthersStay DEF Accounted
    <3> QED
      BY <3>1, <3>2
  <2> QED
    BY <2>1 DEF Accounted
<1>7. Noticed'
  <2>1. ok <=> \A a \in Actions : ~Lost(a)
    BY <1>1, <1>2 DEF Noticed
  <2>2. ~Lost(next)
    BY <1>1, Distinct DEF Lost, Done
  <2>3. PICK n \in Actions : n = next
    BY <1>1
  <2>4. ok' <=> (ok /\ ~Lost(n)')
    BY <2>3, TurnLeaves
  <2>5. \A a \in Actions : a # n => (Lost(a)' <=> Lost(a))
    BY <2>3, OthersStay
  <2>6. ok' <=> \A a \in Actions : ~Lost(a)'
    BY <2>1, <2>2, <2>3, <2>4, <2>5
  <2> QED
    BY <2>6 DEF Noticed
<1>8. Told'
  BY <1>1 DEF Told
<1> QED
  BY RegisterNextType, <1>3, <1>4, <1>5, <1>6, <1>7, <1>8 DEF KeysInv

\* Every action has had its turn: the window is up.
LEMMA RegisteredKeeps ==
  ASSUME KeysInv, Registered
  PROVE  KeysInv'
<1>1. /\ stage = "register" /\ stage' = "main" /\ next > Last
      /\ warned' = (chosen # None /\ ~ok)
      /\ UNCHANGED <<next, ok, config, ini, bound, system, controls, grabs, edits, refused, chosen>>
  BY DEF Registered
<1>2. HotkeysTypeOK'
  <2>1. warned' \in BOOLEAN
    BY <1>1
  <2> QED
    BY <1>1, <2>1 DEF KeysInv, HotkeysTypeOK
<1>3. \A a \in Actions : (Lost(a)' <=> Lost(a)) /\ (Excused(a)' <=> Excused(a))
  <2>1. ASSUME NEW a \in Actions
        PROVE  (Lost(a)' <=> Lost(a)) /\ (Excused(a)' <=> Excused(a))
    <3>1. Done(a) /\ Done(a)'
      <4>1. a < next
        BY <1>1, HotkeysAssumption DEF Actions, KeysInv, HotkeysTypeOK
      <4> QED
        BY <1>1, <4>1 DEF Done
    <3>2. Missing(a)' <=> Missing(a)
      BY <1>1 DEF Missing
    <3>3. Excused(a)' <=> Excused(a)
      BY <1>1 DEF Excused
    <3> QED
      BY <3>1, <3>2, <3>3 DEF Lost
  <2> QED
    BY <2>1
<1>4. RegistryIsSystem' /\ InForce' /\ ToCome' /\ Noticed'
  BY <1>1 DEF KeysInv, RegistryIsSystem, InForce, ToCome, Noticed
<1>5. Accounted'
  BY <1>3 DEF KeysInv, Accounted
<1>6. Told'
  <2>1. ok <=> \A a \in Actions : ~Lost(a)
    BY <1>1 DEF KeysInv, Noticed
  <2>2. chosen # None => (warned' <=> \E a \in Actions : Lost(a)')
    BY <1>1, <1>3, <2>1
  <2> QED
    BY <1>1, <2>2 DEF Told
<1> QED
  BY <1>2, <1>4, <1>5, <1>6 DEF KeysInv

LEMMA StringType ==
  ASSUME NEW k \in Keys \cup {None}
  PROVE  hotkey_to_string(k) \in Texts
BY DEF hotkey_to_string, Texts

\* The dialog, and what begins or ends in it.
LEMMA DialogKeeps ==
  ASSUME KeysInv, OpenDialog \/ Cancel \/ \E saved \in BOOLEAN : Ok(saved)
  PROVE  KeysInv'
<1> DEFINE g == UnregisterAll(Registry)
<1>1. bound' = g.bound /\ system' = g.system /\ UNCHANGED <<grabs>>
  BY DEF OpenDialog, Cancel, Ok, Becomes
<1>2. HotkeysTypeOK
  BY DEF KeysInv
<1>3. g.bound = Unbound /\ g.system \in [Keys -> {Other, None}]
  BY UnregisterAllIs DEF KeysInv
<1> HIDE DEF g
<1>4. bound' = Unbound /\ system' \in [Keys -> {Other, None}]
  BY <1>1, <1>3
<1>5. CASE OpenDialog
  <2>1. /\ stage' = "dialog"
        /\ controls' = [a \in Actions |-> ControlOf(config[a])]
        /\ UNCHANGED <<next, ok, config, ini, warned, grabs, edits, refused, chosen>>
    BY <1>5 DEF OpenDialog
  <2>2. \A a \in Actions : ControlOf(config[a]) \in Keys \cup {None}
    BY <1>2, ControlType DEF HotkeysTypeOK
  <2>3. controls' \in Bindings
    BY <2>1, <2>2 DEF Bindings
  <2>4. HotkeysTypeOK'
    BY <1>2, <1>4, <2>1, <2>3, NothingBound DEF HotkeysTypeOK
  <2> QED
    BY <1>4, <2>1, <2>4, AtRest
<1>6. CASE Cancel
  <2>1. /\ BeginRegistering /\ controls' = Unbound /\ chosen' = None
        /\ UNCHANGED <<config, ini, grabs, edits>>
    BY <1>6 DEF Cancel
  <2> QED
    BY <1>2, <1>4, <2>1, Begun, UnboundType DEF HotkeysTypeOK
<1>7. ASSUME NEW saved \in BOOLEAN, Ok(saved)
      PROVE  KeysInv'
  <2>1. /\ BeginRegistering /\ config' = [a \in Actions |-> hotkey_to_string(controls[a])]
        /\ ini' \in {config', ini} /\ chosen' = controls /\ controls' = Unbound
        /\ UNCHANGED <<grabs, edits>>
    BY <1>7 DEF Ok
  <2>2. config' \in [Actions -> Texts]
    BY <1>2, <2>1, StringType DEF HotkeysTypeOK, Bindings
  <2> QED
    BY <1>2, <1>4, <2>1, <2>2, Begun, UnboundType DEF HotkeysTypeOK
<1> QED
  BY <1>5, <1>6, <1>7

LEMMA EditKeeps ==
  ASSUME KeysInv, NEW c \in Bindings, SetControls(c)
  PROVE  KeysInv'
<1>1. /\ stage = "dialog" /\ edits < MaxEdits /\ edits' = edits + 1 /\ controls' = c
      /\ UNCHANGED <<stage, next, ok, config, ini, bound, system, warned, grabs, refused, chosen>>
  BY DEF SetControls
<1>2. HotkeysTypeOK'
  <2>1. edits' \in 0 .. MaxEdits
    BY <1>1, HotkeysAssumption DEF KeysInv, HotkeysTypeOK
  <2> QED
    BY <1>1, <2>1 DEF KeysInv, HotkeysTypeOK
<1>3. \A a \in Actions : ~Lost(a)'
  BY <1>1 DEF Lost, Done
<1>4. RegistryIsSystem' /\ InForce'
  BY <1>1 DEF KeysInv, RegistryIsSystem, InForce
<1>5. ToCome' /\ Accounted' /\ Noticed' /\ Told'
  BY <1>1, <1>3 DEF ToCome, Accounted, Noticed, Told
<1> QED
  BY <1>2, <1>4, <1>5 DEF KeysInv

LEMMA StartKeeps ==
  ASSUME KeysInv, Start
  PROVE  KeysInv'
<1>1. /\ stage = "off" /\ BeginRegistering /\ config' = ini /\ bound' = Unbound /\ chosen' = None
      /\ UNCHANGED <<ini, system, controls, grabs, edits>>
  BY DEF Start
<1>2. HotkeysTypeOK
  BY DEF KeysInv
<1>3. \A k \in Keys : system[k] \notin Actions
  <2>1. ASSUME NEW k \in Keys, system[k] \in Actions
        PROVE  FALSE
    <3>1. bound[system[k]] = k /\ bound[system[k]] = None
      BY <1>1, <2>1 DEF KeysInv, RegistryIsSystem
    <3> QED
      BY <3>1, Distinct
  <2> QED
    BY <2>1
<1>4. system' \in [Keys -> {Other, None}]
  BY <1>1, <1>2, <1>3 DEF HotkeysTypeOK
<1> QED
  BY <1>1, <1>2, <1>4, Begun DEF HotkeysTypeOK

LEMMA EndKeeps ==
  ASSUME KeysInv, Killed \/ \E saved \in BOOLEAN : Stop(saved)
  PROVE  KeysInv'
<1>1. HotkeysTypeOK
  BY DEF KeysInv
<1>2. /\ stage' = "off" /\ warned' = FALSE /\ chosen' = None /\ refused' = {}
      /\ ini' \in {config, ini} /\ controls' \in {controls, Unbound}
      /\ UNCHANGED <<next, ok, config, grabs, edits>>
  BY DEF Killed, Stop
<1>3. bound' = Unbound /\ system' \in [Keys -> {Other, None}]
  <2>1. CASE Killed
    BY <1>1, <2>1 DEF Killed, HotkeysTypeOK
  <2>2. CASE \E saved \in BOOLEAN : Stop(saved)
    BY <2>2, UnregisterAllIs DEF KeysInv, Stop, Becomes
  <2> QED
    BY <2>1, <2>2
<1>4. HotkeysTypeOK'
  BY <1>1, <1>2, <1>3, NothingBound, UnboundType DEF HotkeysTypeOK
<1> QED
  BY <1>2, <1>3, <1>4, AtRest

\* Another program takes a key that is free, or gives its own back.
LEMMA OthersKeep ==
  ASSUME KeysInv, NEW k \in Keys, Grab(k) \/ Release(k)
  PROVE  KeysInv'
<1>1. /\ system[k] \in {Other, None}
      /\ \E v \in {Other, None} : system' = [system EXCEPT ![k] = v]
      /\ UNCHANGED <<stage, next, ok, config, ini, bound, controls, warned, edits, refused, chosen>>
  BY DEF Grab, Release
<1>2. HotkeysTypeOK
  BY DEF KeysInv
<1>3. grabs' \in 0 .. MaxGrabs
  BY <1>2, HotkeysAssumption DEF Grab, Release, HotkeysTypeOK
<1>4. system' \in [Keys -> Actions \cup {Other, None}]
  BY <1>1, <1>2 DEF HotkeysTypeOK
<1>5. HotkeysTypeOK'
  BY <1>1, <1>2, <1>3, <1>4 DEF HotkeysTypeOK
<1>6. RegistryIsSystem'
  <2>1. ASSUME NEW a \in Actions, NEW j \in Keys
        PROVE  system'[j] = a <=> system[j] = a
    BY <1>1, <1>2, <2>1, Distinct DEF HotkeysTypeOK
  <2> QED
    BY <1>1, <2>1 DEF KeysInv, RegistryIsSystem
<1>7. \A a \in Actions : (Lost(a)' <=> Lost(a)) /\ (Excused(a)' <=> Excused(a))
  BY <1>1 DEF Lost, Done, Missing, Excused
<1>8. InForce' /\ ToCome'
  BY <1>1 DEF KeysInv, InForce, ToCome
<1>9. Accounted' /\ Noticed' /\ Told'
  BY <1>1, <1>7 DEF KeysInv, Accounted, Noticed, Told
<1> QED
  BY <1>5, <1>6, <1>8, <1>9 DEF KeysInv

LEMMA KeysAlways == HotkeysSpec => []KeysInv
<1>1. ASSUME KeysInv, HotkeysNext
      PROVE  KeysInv'
  <2>1. CASE ResetDefaults
    <3>. DEFINE c == [a \in Actions |-> ControlOf(Default[a])]
    <3>0. \A a \in Actions : Default[a] \in Texts
      BY HotkeysAssumption DEF Texts
    <3>1. c \in Bindings
      BY <3>0, ControlType DEF Bindings
    <3> QED
      BY <1>1, <2>1, <3>1, EditKeeps DEF ResetDefaults
  <2>2. ASSUME NEW a \in Actions, NEW k \in {Shown[j] : j \in Keys} \cup {None}, SetControl(a, k)
        PROVE  KeysInv'
    <3>1. k \in Keys \cup {None}
      BY HotkeysAssumption
    <3>2. [controls EXCEPT ![a] = k] \in Bindings
      BY <1>1, <3>1 DEF KeysInv, HotkeysTypeOK, Bindings
    <3> QED
      BY <1>1, <2>2, <3>2, EditKeeps DEF SetControl
  <2> QED
    BY <1>1, <2>1, <2>2, StartKeeps, RegisterNextKeeps, RegisteredKeeps, DialogKeeps, EndKeeps, OthersKeep
       DEF HotkeysNext
<1>2. ASSUME KeysInv, UNCHANGED keyVars
      PROVE  KeysInv'
  BY <1>2 DEF keyVars, KeysInv, HotkeysTypeOK, RegistryIsSystem, InForce, ToCome, Accounted, Noticed,
              Told, Lost, Done, Missing, Excused
<1> QED
  BY InitKeys, <1>1, <1>2, PTL DEF HotkeysSpec

\* Every variable of the hotkeys keeps its shape.
THEOREM KeysTypeCorrect == HotkeysSpec => []HotkeysTypeOK
<1>1. KeysInv => HotkeysTypeOK
  BY DEF KeysInv
<1> QED
  BY <1>1, KeysAlways, PTL

(* RegistryIsSystem: whatever is bound, in whatever order, and whatever    *)
(* other programs do between any two calls of RegisterHotKey, g_bindings   *)
(* and the system never disagree.                                          *)
THEOREM RegistryAgrees == HotkeysSpec => []RegistryIsSystem
<1>1. KeysInv => RegistryIsSystem
  BY DEF KeysInv
<1> QED
  BY <1>1, KeysAlways, PTL

(* MissingAreAccountedFor: no hotkey is lost without a reason, and after   *)
(* OK no reason is kept from the user.                                     *)
THEOREM MissingHaveReasons == HotkeysSpec => []MissingAreAccountedFor
<1>1. ASSUME KeysInv
      PROVE  MissingAreAccountedFor
  <2>1. stage = "main" => \A a \in Actions : Lost(a) <=> Missing(a)
    BY DEF Lost, Done
  <2> QED
    BY <1>1, <2>1 DEF KeysInv, InForce, Accounted, Told, Excused, MissingAreAccountedFor
<1> QED
  BY <1>1, KeysAlways, PTL
=============================================================================
