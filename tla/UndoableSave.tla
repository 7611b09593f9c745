---------------------------- MODULE UndoableSave ----------------------------
(***************************************************************************)
(* What Praxis' restore and undo commands promise, without files, names,   *)
(* snapshots or metadata: a save, and for every backup root at most one    *)
(* content to go back to.  A restore and its undo point change together,   *)
(* an undo swaps the two (so a second undo is a redo), and what can go     *)
(* wrong is named: an undo point can get lost, a restore can stop half     *)
(* way, and a restore can happen without becoming the one to undo.         *)
(*                                                                         *)
(* A slot restore leaves nothing to undo: the snapshot it takes is of the  *)
(* whole save, and the undo would hand it to the backend as a slot file.   *)
(***************************************************************************)
CONSTANTS Roots, Slots, Chars, Backups, Torn, None

Bodies == [Slots -> Chars]

VARIABLES
  save,  \* what the save holds
  undo   \* undo[r]: the content that undo under root r brings back, or None

vars == <<save, undo>>

FullBackups == {b \in Backups : b.fmt \in {"raw", "container"}}
SlotBackups == {b \in Backups : b.fmt = "slot"}

WithSlot(content, s, char) ==
  IF content = Torn THEN Torn ELSE [content EXCEPT ![s] = char]

Play == /\ save' \in Bodies
        /\ UNCHANGED undo

RestoreFull(r) == /\ \E b \in FullBackups : save' = b.data
                  /\ undo' = [undo EXCEPT ![r] = save]

RestoreSlot(r) == /\ \E b \in SlotBackups, s \in Slots : save' = WithSlot(save, s, b.data)
                  /\ undo' = [undo EXCEPT ![r] = None]

Undo(r) == /\ undo[r] # None
           /\ save' = undo[r]
           /\ undo' = [undo EXCEPT ![r] = save]

LoseUndo(r) == /\ undo' = [undo EXCEPT ![r] = None]
               /\ UNCHANGED save

StopHalfWay == /\ save' = Torn
               /\ UNCHANGED undo

(* Praxis dies after the save was replaced and before that is on record.   *)
Unrecorded(r) == /\ \/ \E b \in FullBackups : save' = b.data
                    \/ \E b \in SlotBackups, s \in Slots : save' = WithSlot(save, s, b.data)
                    \/ undo[r] # None /\ save' = undo[r]
                 /\ undo' \in {undo, [undo EXCEPT ![r] = None]}

Init == /\ save \in Bodies
        /\ undo = [r \in Roots |-> None]

Next == \/ Play \/ StopHalfWay
        \/ \E r \in Roots : \/ RestoreFull(r) \/ RestoreSlot(r) \/ Undo(r)
                            \/ LoseUndo(r) \/ Unrecorded(r)

Spec == Init /\ [][Next]_vars
=============================================================================
