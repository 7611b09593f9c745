----------------------- MODULE RingRestoreImplements -----------------------
(***************************************************************************)
(* RingRestore implements UndoableSave: seen from outside, the sequence of *)
(* file operations that a command is collapses into one step.              *)
(*                                                                         *)
(* The step is taken when the metadata is written: between the restore and *)
(* that moment the abstract save still is what the command found, which is *)
(* what its snapshot holds.  There is something to undo under a root when  *)
(* its metadata can be read, names a whole-save restore, and the snapshot  *)
(* it names has not been rotated away.                                     *)
(***************************************************************************)
EXTENDS RingRestore

AbstractSave == IF op # None /\ op.stage = "meta" THEN op.pre ELSE live.data

AbstractUndo ==
  [r \in Roots |->
    IF meta[r] = None \/ meta[r].target # None \/ ring[r][meta[r].ring] = None
      THEN None
      ELSE ring[r][meta[r].ring].data]

Promise == INSTANCE UndoableSave WITH save <- AbstractSave, undo <- AbstractUndo

(* Every behaviour of the commands, with crashes and failing operations,   *)
(* is one that UndoableSave allows.  It needs the game to stay silent      *)
(* while a command runs (README.md:31 asks for that) and the clock to      *)
(* advance between snapshots (ring_backup.c:88-90 relies on that).         *)
ImplementsUndoableSave == Promise!Spec
=============================================================================
