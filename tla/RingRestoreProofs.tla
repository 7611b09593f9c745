------------------------- MODULE RingRestoreProofs -------------------------
(***************************************************************************)
(* Proofs about RingRestore, for any set of backup roots, slots, backup    *)
(* files and ring sizes, and for any clock.                                *)
(***************************************************************************)
EXTENDS RingRestoreImplements, FiniteSetTheorems, WellFoundedInduction, TLAPS

(* What the backends write into the save is again a raw save file: the     *)
(* shape of a backup file decides which restore can use it.                *)
LEMMA AppliedType ==
  ASSUME TypeOK, op # None, op.stage = "apply", CanApply
  PROVE  Applied \in RawFiles
<1>1. CASE op.kind = "undo"
  <2>1. Source \in RawFiles
    BY <1>1 DEF TypeOK, Ops, Source, CanApply
  <2>2. op.target = None
    BY <2>1 DEF CanApply, RawFiles
  <2>. QED
    BY <2>1, <2>2 DEF Applied, RawFiles
<1>2. CASE op.kind = "restore"
  <2>1. Source \in Backups
    BY <1>2 DEF TypeOK, Ops, Source
  <2>2. Source \in FullFiles \cup SlotFiles
    BY <2>1, RingRestoreAssumption
  <2>3. CASE op.target = None
    <3>1. Source.fmt # "slot"
      BY <2>3 DEF CanApply
    <3>2. Source \in FullFiles
      BY <2>2, <3>1 DEF SlotFiles
    <3>. QED
      BY <2>3, <3>2 DEF Applied, FullFiles, RawFiles, Contents
  <2>4. CASE op.target # None
    <3>1. Source \in SlotFiles
      BY <2>2, <2>4 DEF CanApply, FullFiles
    <3>2. live \in RawFiles /\ op.target \in Slots
      BY <2>4 DEF TypeOK, Ops, Targets
    <3>3. CASE live.data = Torn
      BY <2>4, <3>2, <3>3 DEF Applied, RawFiles, Contents
    <3>4. CASE live.data # Torn
      <4>1. live.data \in [Slots -> Chars]
        BY <3>2, <3>4 DEF RawFiles, Contents, Bodies
      <4>2. [live.data EXCEPT ![op.target] = Source.data] \in [Slots -> Chars]
        BY <3>1, <4>1 DEF SlotFiles
      <4>3. Applied = [live EXCEPT !.data = [live.data EXCEPT ![op.target] = Source.data]]
        BY <2>4, <3>2, <3>4 DEF Applied, RawFiles
      <4>. QED
        BY <3>2, <4>2, <4>3 DEF RawFiles, Contents, Bodies
    <3>. QED
      BY <3>3, <3>4
  <2>. QED
    BY <2>3, <2>4
<1>. QED
  BY <1>1, <1>2 DEF TypeOK, Ops

LEMMA TypeInit == Init => TypeOK
<1>. SUFFICES ASSUME Init PROVE TypeOK
  OBVIOUS
<1>1. live \in RawFiles
  BY DEF Init, RawFiles, Contents
<1>2. attempts \in [Roots -> 0 .. MaxAttempts]
  BY RingRestoreAssumption DEF Init
<1>. QED
  BY <1>1, <1>2 DEF Init, TypeOK

(***************************************************************************)
(* Type correctness, action by action.                                     *)
(***************************************************************************)
LEMMA BeginType ==
  ASSUME TypeOK, NEW r \in Roots, NEW kind \in {"restore", "undo"}, NEW src, NEW target \in Targets,
         src \in IF kind = "undo" THEN Names ELSE Backups,
         Begin(r, kind, src, target)
  PROVE  TypeOK'
<1>1. op' \in Ops /\ op'.stage = "rotate" /\ op'.kind = kind /\ op'.src = src
  BY DEF Begin, Ops
<1>. QED
  BY <1>1 DEF TypeOK, Begin, history

LEMMA RotateType ==
  ASSUME TypeOK, NEW t \in Times, Rotate(t)
  PROVE  TypeOK'
<1>1. NameAt(t, op.target) \in Names
  BY DEF NameAt, Names, Labels
<1>2. op' \in Ops /\ op'.stage = "copy" /\ op'.kind = op.kind /\ op'.src = op.src
      /\ op'.snap \in Names
  BY <1>1 DEF TypeOK, Rotate, Ops
<1>3. \A L : Rotated(op.root, L) \in [Names -> RawFiles \cup {None}]
  BY DEF TypeOK, Ops, Rotate, Rotated
<1>4. ring' \in [Roots -> [Names -> RawFiles \cup {None}]]
  <2>1. PICK L \in Listings(op.root) : ring' = [ring EXCEPT ![op.root] = Rotated(op.root, L)]
    BY DEF Rotate
  <2>. QED
    BY <1>3, <2>1 DEF TypeOK
<1>5. attempts' \in [Roots -> 0 .. MaxAttempts]
  <2>1. \A k \in 0 .. MaxAttempts : Saturated(k) \in 0 .. MaxAttempts
    BY RingRestoreAssumption DEF Saturated
  <2>. QED
    BY <2>1 DEF TypeOK, Rotate
<1>. QED
  BY <1>2, <1>4, <1>5 DEF TypeOK, Rotate

(* Writing one snapshot, or removing it, keeps the ring's shape.           *)
LEMMA SnapWriteType ==
  ASSUME TypeOK, op # None, op.stage = "copy", NEW f \in RawFiles \cup {None}
  PROVE  [ring EXCEPT ![op.root][op.snap] = f] \in [Roots -> [Names -> RawFiles \cup {None}]]
<1>1. op.root \in Roots /\ op.snap \in Names
  BY DEF TypeOK, Ops
<1>2. [ring[op.root] EXCEPT ![op.snap] = f] \in [Names -> RawFiles \cup {None}]
  BY <1>1 DEF TypeOK
<1>. QED
  BY <1>1, <1>2 DEF TypeOK

LEMMA TypeNext == TypeOK /\ [Next]_vars => TypeOK'
<1>. SUFFICES ASSUME TypeOK, [Next]_vars PROVE TypeOK'
  OBVIOUS
<1>1. ASSUME NEW r \in Roots, BeginUndo(r) PROVE TypeOK'
  <2>1. meta[r].ring \in Names /\ meta[r].target \in Targets
    BY <1>1 DEF BeginUndo, TypeOK, Metas
  <2>. QED
    BY <1>1, <2>1, BeginType DEF BeginUndo
<1>2. ASSUME NEW r \in Roots, NEW b \in Backups, BeginRestore(r, b) PROVE TypeOK'
  BY <1>2, BeginType DEF BeginRestore, Targets
<1>3. ASSUME NEW t \in Times, Rotate(t) PROVE TypeOK'
  BY <1>3, RotateType
<1>4. CASE Copy
  <2>1. op' \in Ops /\ op'.stage = "apply" /\ op'.kind = op.kind /\ op'.src = op.src
        /\ op'.snap = op.snap /\ op'.pre \in Contents
    BY <1>4 DEF TypeOK, Copy, Ops, RawFiles
  <2>2. ring' \in [Roots -> [Names -> RawFiles \cup {None}]]
    BY <1>4, SnapWriteType DEF TypeOK, Copy
  <2>. QED
    BY <1>4, <2>1, <2>2 DEF TypeOK, Copy, history
<1>5. CASE CopyFails
  <2>1. ring' \in [Roots -> [Names -> RawFiles \cup {None}]]
    <3>1. [ring EXCEPT ![op.root][op.snap] = None] \in [Roots -> [Names -> RawFiles \cup {None}]]
      BY <1>5, SnapWriteType DEF CopyFails
    <3>. QED
      BY <1>5, <3>1 DEF TypeOK, CopyFails
  <2>. QED
    BY <1>5, <2>1 DEF TypeOK, CopyFails, history
<1>6. CASE Apply
  <2>1. op' \in Ops /\ op'.stage = "meta" /\ op'.kind = op.kind /\ op'.src = op.src
        /\ op'.snap = op.snap /\ op'.pre = op.pre /\ op'.over \in Contents
    BY <1>6 DEF TypeOK, Apply, Ops, RawFiles
  <2>2. live' \in RawFiles
    BY <1>6, AppliedType DEF Apply
  <2>. QED
    BY <1>6, <2>1, <2>2 DEF TypeOK, Apply, history
<1>7. CASE ApplyRefused
  <2>1. live' \in RawFiles
    BY <1>7 DEF TypeOK, ApplyRefused, RawFiles
  <2>. QED
    BY <1>7, <2>1 DEF TypeOK, ApplyRefused, history
<1>8. CASE ApplyTorn
  <2>1. live' \in RawFiles
    BY <1>8 DEF TypeOK, ApplyTorn, RawFiles, Contents
  <2>. QED
    BY <1>8, <2>1 DEF TypeOK, ApplyTorn, history
<1>9. CASE WriteMeta
  <2>1. [ring |-> op.snap, target |-> op.target] \in Metas
    BY <1>9 DEF TypeOK, WriteMeta, Ops, Metas
  <2>2. Replaced \in UndoPoints /\ op.root \in Roots
    BY <1>9 DEF TypeOK, WriteMeta, Ops, Replaced, UndoPoints
  <2>. QED
    BY <1>9, <2>1, <2>2, RingRestoreAssumption DEF TypeOK, WriteMeta
<1>10. CASE WriteMetaFails
  <2>1. Replaced \in UndoPoints /\ op.root \in Roots
    BY <1>10 DEF TypeOK, WriteMetaFails, Ops, Replaced, UndoPoints
  <2>. QED
    BY <1>10, <2>1 DEF TypeOK, WriteMetaFails
<1>11. CASE Crash
  <2>1. [fmt |-> "raw", data |-> Torn, ro |-> FALSE] \in RawFiles
    BY DEF RawFiles, Contents
  <2>2. ring' \in [Roots -> [Names -> RawFiles \cup {None}]]
    BY <1>11, <2>1, SnapWriteType DEF TypeOK, Crash
  <2>3. meta' \in [Roots -> Metas \cup {None}]
    BY <1>11 DEF TypeOK, Crash
  <2>. QED
    BY <1>11, <2>2, <2>3 DEF TypeOK, Crash, history
<1>12. CASE GameSave
  <2>1. live' \in RawFiles
    BY <1>12 DEF TypeOK, GameSave, RawFiles, Contents
  <2>. QED
    BY <1>12, <2>1 DEF TypeOK, GameSave, history
<1>13. CASE UNCHANGED vars
  BY <1>13 DEF TypeOK, vars
<1>. QED
  BY <1>1, <1>2, <1>3, <1>4, <1>5, <1>6, <1>7, <1>8, <1>9, <1>10, <1>11, <1>12, <1>13 DEF Next

(* The state keeps its shape under every interleaving and every fault.     *)
THEOREM TypeCorrect == Spec => []TypeOK
BY TypeInit, TypeNext, PTL DEF Spec

-----------------------------------------------------------------------------
(***************************************************************************)
(* The snapshot comes first.  The property is about a step; what makes it  *)
(* true of every step is that a command cannot be about to restore without *)
(* its snapshot in the ring.                                               *)
(***************************************************************************)
SnapHeld ==
  op # None /\ op.stage = "apply"
    => /\ ring[op.root][op.snap] # None
       /\ ring[op.root][op.snap].data = op.pre
       /\ "game" \notin Env => ring[op.root][op.snap] = live

LEMMA SnapHeldInit == Init => SnapHeld
BY DEF Init, SnapHeld

LEMMA SnapHeldNext == TypeOK /\ SnapHeld /\ [Next]_vars => SnapHeld'
<1>. SUFFICES ASSUME TypeOK, SnapHeld, [Next]_vars PROVE SnapHeld'
  OBVIOUS
<1>1. CASE Copy
  <2>1. op.root \in Roots /\ op.snap \in Names /\ live \in RawFiles
    BY <1>1 DEF TypeOK, Copy, Ops
  <2>2. ring'[op.root][op.snap] = live
    BY <1>1, <2>1 DEF TypeOK, Copy
  <2>3. op'.root = op.root /\ op'.snap = op.snap /\ op'.pre = live.data /\ live' = live
    BY <1>1 DEF TypeOK, Copy, Ops
  <2>. QED
    BY <2>1, <2>2, <2>3, RingRestoreAssumption DEF SnapHeld
<1>2. CASE GameSave
  <2>1. UNCHANGED <<ring, op>> /\ (op = None \/ "game" \in Env)
    BY <1>2 DEF GameSave
  <2>. QED
    BY <2>1 DEF SnapHeld
<1>3. CASE \E r \in Roots : BeginUndo(r) \/ \E b \in Backups : BeginRestore(r, b)
  <2>1. op'.stage = "rotate"
    BY <1>3 DEF BeginUndo, BeginRestore, Begin
  <2>. QED
    BY <2>1 DEF SnapHeld
<1>4. CASE \E t \in Times : Rotate(t)
  <2>1. op'.stage = "copy"
    BY <1>4 DEF TypeOK, Rotate, Ops
  <2>. QED
    BY <2>1 DEF SnapHeld
<1>5. CASE Apply
  <2>1. op'.stage = "meta"
    BY <1>5 DEF TypeOK, Apply, Ops
  <2>. QED
    BY <2>1 DEF SnapHeld
<1>6. CASE CopyFails \/ ApplyRefused \/ ApplyTorn \/ WriteMeta \/ WriteMetaFails \/ Crash
  <2>1. op' = None
    BY <1>6 DEF CopyFails, ApplyRefused, ApplyTorn, WriteMeta, WriteMetaFails, Crash
  <2>. QED
    BY <2>1 DEF SnapHeld
<1>7. CASE UNCHANGED vars
  BY <1>7 DEF SnapHeld, vars
<1>. QED
  BY <1>1, <1>2, <1>3, <1>4, <1>5, <1>6, <1>7 DEF Next

(* No command of Praxis changes what the save holds unless a complete copy *)
(* of what it found is in the ring of its backup root, whatever fails and  *)
(* whatever the clock does.                                                *)
THEOREM SnapshotFirst == Spec => SnapshotBeforeOverwrite
<1>1. TypeOK /\ SnapHeld /\ [Next]_vars
        => [PraxisStep /\ live'.data # live.data
              => ring[op.root][op.snap] # None /\ ring[op.root][op.snap].data = op.pre
                 /\ ("game" \notin Env => ring[op.root][op.snap] = live)]_vars
  <2>. SUFFICES ASSUME TypeOK, SnapHeld, Next, PraxisStep, live'.data # live.data
                PROVE  op # None /\ op.stage = "apply"
    BY DEF SnapHeld
  <2>1. ~(\E r \in Roots : BeginUndo(r) \/ \E b \in Backups : BeginRestore(r, b))
    BY DEF BeginUndo, BeginRestore, Begin
  <2>2. ~(\E t \in Times : Rotate(t)) /\ ~Copy /\ ~CopyFails /\ ~WriteMeta /\ ~WriteMetaFails
        /\ ~Crash
    BY DEF Rotate, Copy, CopyFails, WriteMeta, WriteMetaFails, Crash
  <2>3. ~GameSave
    BY DEF GameSave, PraxisStep
  <2>4. Apply \/ ApplyRefused \/ ApplyTorn
    BY <2>1, <2>2, <2>3 DEF Next
  <2>. QED
    BY <2>4 DEF Apply, ApplyRefused, ApplyTorn
<1>. QED
  BY <1>1, TypeInit, TypeNext, SnapHeldInit, SnapHeldNext, PTL DEF Spec, SnapshotBeforeOverwrite

-----------------------------------------------------------------------------
(***************************************************************************)
(* The order of the names.  That the file a metadata file names still is   *)
(* the snapshot it was written for rests on the clock: a snapshot is newer *)
(* than every name in the ring and in any metadata, so it never lands on   *)
(* one of them.                                                            *)
(***************************************************************************)
ClockAdvances == "clock" \notin Env

NamesInOrder ==
  /\ \A r \in Roots, n \in Names : ring[r][n] # None => n.time <= now
  /\ \A r \in Roots : meta[r] # None => meta[r].ring.time <= now
  /\ op # None /\ op.stage # "rotate"
       => /\ op.snap.time = now
          /\ \A r \in Roots : meta[r] # None => meta[r].ring.time < now
          /\ \A n \in Names : ring[op.root][n] # None /\ n.time = now => n = op.snap

SnapKept ==
  op # None /\ op.stage \in {"apply", "meta"}
    => /\ ring[op.root][op.snap] # None
       /\ ring[op.root][op.snap].data = op.pre

UndoIsOfMeta ==
  op # None /\ op.kind = "undo"
    => meta[op.root] # None /\ op.src = meta[op.root].ring /\ op.target = meta[op.root].target

OrderInv == NamesInOrder /\ SnapKept /\ UndoIsOfMeta

LEMMA OrderInit == Init => OrderInv
BY DEF Init, OrderInv, NamesInOrder, SnapKept, UndoIsOfMeta

(* Steps that leave the files alone and do not advance a command.          *)
LEMMA OrderFrame ==
  ASSUME TypeOK, OrderInv, UNCHANGED <<ring, meta, now>>, op' = None \/ op' = op
  PROVE  OrderInv'
BY DEF OrderInv, NamesInOrder, SnapKept, UndoIsOfMeta

LEMMA OrderBegin ==
  ASSUME TypeOK, OrderInv, NEW r \in Roots,
         BeginUndo(r) \/ \E b \in Backups : BeginRestore(r, b)
  PROVE  OrderInv'
<1>1. UNCHANGED <<ring, meta, now>> /\ op'.stage = "rotate"
  BY DEF BeginUndo, BeginRestore, Begin
<1>2. UndoIsOfMeta'
  BY DEF BeginUndo, BeginRestore, Begin, UndoIsOfMeta
<1>. QED
  BY <1>1, <1>2 DEF OrderInv, NamesInOrder, SnapKept

(* Rotation only takes files away, and its time is a new one.              *)
LEMMA RotateEffect ==
  ASSUME TypeOK, ClockAdvances, NEW t \in Times, Rotate(t)
  PROVE  /\ t > now /\ now' = t /\ now \in Nat /\ t \in Nat
         /\ \A r \in Roots, n \in Names : ring'[r][n] # None => ring'[r][n] = ring[r][n]
         /\ \A r \in Roots \ {op.root} : ring'[r] = ring[r]
         /\ op # None /\ op \in Ops /\ op.stage = "rotate" /\ op.root \in Roots
         /\ op'.stage = "copy" /\ op'.snap.time = t /\ op'.snap \in Names
         /\ op'.root = op.root /\ op'.kind = op.kind /\ op'.src = op.src /\ op'.target = op.target
         /\ op'.pre = op.pre
         /\ UNCHANGED <<live, meta, ringSize, undoPoint>>
<1>1. t > now /\ now' = t /\ now \in Nat /\ t \in Nat
  BY RingRestoreAssumption DEF Rotate, ClockReads, ClockAdvances, TypeOK
<1>2. op # None /\ op \in Ops /\ op.stage = "rotate" /\ op.root \in Roots
      /\ op' = [op EXCEPT !.stage = "copy", !.snap = NameAt(t, op.target)]
      /\ UNCHANGED <<live, meta, ringSize, undoPoint>>
  BY DEF Rotate, TypeOK, Ops
<1>3. PICK L \in Listings(op.root) : ring' = [ring EXCEPT ![op.root] = Rotated(op.root, L)]
  BY DEF Rotate
<1>4. \A r \in Roots, n \in Names : ring'[r][n] # None => ring'[r][n] = ring[r][n]
  BY <1>3 DEF TypeOK, Rotated
<1>5. \A r \in Roots \ {op.root} : ring'[r] = ring[r]
  BY <1>3 DEF TypeOK
<1>6. NameAt(t, op.target) \in Names /\ NameAt(t, op.target).time = t
  BY DEF NameAt, Names, Labels
<1>. QED
  BY <1>1, <1>2, <1>4, <1>5, <1>6 DEF Ops

LEMMA OrderRotate ==
  ASSUME TypeOK, OrderInv, ClockAdvances, NEW t \in Times, Rotate(t)
  PROVE  OrderInv'
<1>1. \A n \in Names : n.time \in Nat
  BY RingRestoreAssumption DEF Names
<1>2. \A r \in Roots : meta[r] # None => meta[r].ring \in Names
  BY DEF TypeOK, Metas
<1>3. NamesInOrder'
  BY RotateEffect, <1>1, <1>2 DEF OrderInv, NamesInOrder
<1>4. SnapKept'
  BY RotateEffect DEF SnapKept
<1>5. UndoIsOfMeta'
  BY RotateEffect DEF OrderInv, UndoIsOfMeta
<1>. QED
  BY <1>3, <1>4, <1>5 DEF OrderInv

(* Writing a file under the command's new name touches no snapshot that    *)
(* metadata mentions.                                                      *)
LEMMA SnapWriteInOrder ==
  ASSUME TypeOK, OrderInv, op # None, op.stage = "copy", NEW f \in RawFiles \cup {None},
         ring' = [ring EXCEPT ![op.root][op.snap] = f], UNCHANGED <<meta, now>>
  PROVE  /\ \A r \in Roots, n \in Names :
              ring'[r][n] = IF r = op.root /\ n = op.snap THEN f ELSE ring[r][n]
         /\ \A r \in Roots, n \in Names : ring'[r][n] # None => n.time <= now
         /\ \A n \in Names : ring'[op.root][n] # None /\ n.time = now => n = op.snap
         /\ \A r \in Roots : meta[r] # None => ring'[r][meta[r].ring] = ring[r][meta[r].ring]
         /\ ring'[op.root][op.snap] = f
<1>1. op.root \in Roots /\ op.snap \in Names /\ op.snap.time = now
  BY DEF TypeOK, Ops, OrderInv, NamesInOrder
<1>2. \A r \in Roots, n \in Names :
        ring'[r][n] = IF r = op.root /\ n = op.snap THEN f ELSE ring[r][n]
  BY <1>1 DEF TypeOK
<1>3. now \in Nat /\ \A n \in Names : n.time \in Nat
  <2>1. now \in Nat
    BY RingRestoreAssumption DEF TypeOK
  <2>. QED
    BY <2>1, RingRestoreAssumption DEF Names
<1>4. \A r \in Roots, n \in Names : ring'[r][n] # None => n.time <= now
  BY <1>1, <1>2, <1>3 DEF OrderInv, NamesInOrder
<1>5. \A n \in Names : ring'[op.root][n] # None /\ n.time = now => n = op.snap
  BY <1>1, <1>2 DEF OrderInv, NamesInOrder
<1>6. \A r \in Roots : meta[r] # None => meta[r].ring \in Names /\ meta[r].ring.time < now
  BY DEF TypeOK, Metas, OrderInv, NamesInOrder
<1>7. \A r \in Roots : meta[r] # None => ring'[r][meta[r].ring] = ring[r][meta[r].ring]
  BY <1>1, <1>2, <1>3, <1>6
<1>. QED
  BY <1>1, <1>2, <1>4, <1>5, <1>7

(* What Copy does, in terms of the variables' values.                      *)
LEMMA CopyEffect ==
  ASSUME TypeOK, Copy
  PROVE  /\ op # None /\ op.stage = "copy" /\ live \in RawFiles /\ live # None
         /\ op.root \in Roots /\ op.snap \in Names
         /\ ring' = [ring EXCEPT ![op.root][op.snap] = live]
         /\ op'.stage = "apply" /\ op'.pre = live.data /\ op'.root = op.root
         /\ op'.kind = op.kind /\ op'.src = op.src /\ op'.snap = op.snap
         /\ op'.target = op.target
         /\ op'.over = op.over /\ raced' = FALSE
         /\ UNCHANGED <<live, meta, ringSize, now, undoPoint, attempts>>
<1>1. op # None /\ op \in Ops /\ op.stage = "copy" /\ live \in RawFiles /\ op.snap \in Names
      /\ ring' = [ring EXCEPT ![op.root][op.snap] = live]
      /\ op' = [op EXCEPT !.stage = "apply", !.pre = live.data] /\ raced' = FALSE
      /\ UNCHANGED <<live, meta, ringSize, now, undoPoint, attempts>>
  BY DEF Copy, TypeOK, history
<1>2. live # None
  BY <1>1, RingRestoreAssumption
<1>. QED
  BY <1>1, <1>2 DEF Ops

LEMMA ApplyEffect ==
  ASSUME TypeOK, Apply
  PROVE  /\ op # None /\ op.stage = "apply" /\ CanApply /\ live' = Applied
         /\ op.root \in Roots /\ op.snap \in Names
         /\ op' # None /\ op'.stage = "meta" /\ op'.root = op.root /\ op'.kind = op.kind
         /\ op'.src = op.src /\ op'.snap = op.snap /\ op'.pre = op.pre
         /\ op'.target = op.target /\ op'.over = live.data
         /\ UNCHANGED <<ring, meta, ringSize, now, undoPoint, attempts, raced>>
<1>1. op # None /\ op \in Ops /\ op.stage = "apply" /\ CanApply /\ live' = Applied
      /\ op.snap \in Names /\ op' = [op EXCEPT !.stage = "meta", !.over = live.data]
      /\ live.data \in Contents
      /\ UNCHANGED <<ring, meta, ringSize, now, undoPoint, attempts, raced>>
  BY DEF Apply, TypeOK, RawFiles, history
<1>2. op' \in Ops
  BY <1>1 DEF Ops
<1>. QED
  BY <1>1, <1>2, RingRestoreAssumption DEF Ops

LEMMA TornFile == [fmt |-> "raw", data |-> Torn, ro |-> FALSE] \in RawFiles
BY DEF RawFiles, Contents

LEMMA OrderNext == ClockAdvances /\ TypeOK /\ OrderInv /\ [Next]_vars => OrderInv'
<1>. SUFFICES ASSUME ClockAdvances, TypeOK, OrderInv, [Next]_vars PROVE OrderInv'
  OBVIOUS
<1>1. ASSUME NEW r \in Roots, BeginUndo(r) \/ \E b \in Backups : BeginRestore(r, b)
      PROVE  OrderInv'
  BY <1>1, OrderBegin
<1>2. ASSUME NEW t \in Times, Rotate(t) PROVE OrderInv'
  BY <1>2, OrderRotate
<1>3. CASE Copy
  <2>1. op.snap.time = now /\ \A r \in Roots : meta[r] # None => meta[r].ring.time < now
    BY <1>3, CopyEffect DEF OrderInv, NamesInOrder
  <2>2. NamesInOrder'
    BY <1>3, <2>1, CopyEffect, SnapWriteInOrder DEF OrderInv, NamesInOrder
  <2>3. SnapKept'
    BY <1>3, CopyEffect, SnapWriteInOrder DEF SnapKept
  <2>4. UndoIsOfMeta'
    BY <1>3, CopyEffect DEF OrderInv, UndoIsOfMeta
  <2>. QED
    BY <2>2, <2>3, <2>4 DEF OrderInv
<1>4. CASE CopyFails
  <2>1. op # None /\ op.stage = "copy" /\ op' = None /\ UNCHANGED <<meta, now>>
    BY <1>4 DEF CopyFails
  <2>2. CASE UNCHANGED ring
    BY <2>1, <2>2, OrderFrame
  <2>3. CASE ring' = [ring EXCEPT ![op.root][op.snap] = None]
    BY <2>1, <2>3, SnapWriteInOrder DEF OrderInv, NamesInOrder, SnapKept, UndoIsOfMeta
  <2>. QED
    BY <1>4, <2>2, <2>3 DEF CopyFails
<1>5. CASE Apply
  BY <1>5, ApplyEffect DEF OrderInv, NamesInOrder, SnapKept, UndoIsOfMeta
<1>6. CASE ApplyRefused \/ ApplyTorn
  BY <1>6, OrderFrame DEF ApplyRefused, ApplyTorn
<1>7. CASE WriteMeta
  <2>1. /\ op.root \in Roots /\ op.snap \in Names /\ op # None /\ op.stage = "meta"
        /\ op' = None /\ UNCHANGED <<ring, now>> /\ now \in Nat
        /\ meta' = [meta EXCEPT ![op.root] = [ring |-> op.snap, target |-> op.target]]
    BY <1>7, RingRestoreAssumption DEF WriteMeta, TypeOK, Ops
  <2>2. /\ meta'[op.root].ring = op.snap
        /\ \A r \in Roots \ {op.root} : meta'[r] = meta[r]
    BY <2>1 DEF TypeOK
  <2>3. NamesInOrder'
    BY <2>1, <2>2 DEF OrderInv, NamesInOrder
  <2>. QED
    BY <2>1, <2>3 DEF OrderInv, SnapKept, UndoIsOfMeta
<1>8. CASE WriteMetaFails
  <2>1. /\ op' = None /\ UNCHANGED <<ring, now>>
        /\ \A r \in Roots : meta'[r] # None => meta'[r] = meta[r]
    BY <1>8 DEF WriteMetaFails, TypeOK
  <2>. QED
    BY <2>1 DEF OrderInv, NamesInOrder, SnapKept, UndoIsOfMeta
<1>9. CASE Crash
  <2>1. op # None /\ op' = None /\ UNCHANGED now
    BY <1>9 DEF Crash
  <2>2. CASE UNCHANGED <<ring, meta>>
    BY <2>1, <2>2, OrderFrame
  <2>3. CASE /\ op.stage = "copy" /\ UNCHANGED meta
             /\ ring' = [ring EXCEPT ![op.root][op.snap] =
                            [fmt |-> "raw", data |-> Torn, ro |-> FALSE]]
    BY <2>1, <2>3, TornFile, SnapWriteInOrder DEF OrderInv, NamesInOrder, SnapKept, UndoIsOfMeta
  <2>4. CASE meta' = [meta EXCEPT ![op.root] = None] /\ UNCHANGED ring
    <3>1. \A r \in Roots : meta'[r] # None => meta'[r] = meta[r]
      BY <2>4 DEF TypeOK
    <3>. QED
      BY <2>1, <2>4, <3>1 DEF OrderInv, NamesInOrder, SnapKept, UndoIsOfMeta
  <2>. QED
    BY <1>9, <2>2, <2>3, <2>4 DEF Crash
<1>10. CASE GameSave
  BY <1>10, OrderFrame DEF GameSave
<1>11. CASE UNCHANGED vars
  BY <1>11, OrderFrame DEF vars
<1>. QED
  BY <1>1, <1>2, <1>3, <1>4, <1>5, <1>6, <1>7, <1>8, <1>9, <1>10, <1>11 DEF Next

LEMMA Ordered == ASSUME ClockAdvances PROVE Spec => [](TypeOK /\ OrderInv)
<1>1. ClockAdvances
  OBVIOUS
<1>. QED
  BY <1>1, TypeInit, TypeNext, OrderInit, OrderNext, PTL DEF Spec

-----------------------------------------------------------------------------
(***************************************************************************)
(* What undo brings back.  What a restore overwrites is what its snapshot  *)
(* holds, unless the game saved in between; and the metadata names a       *)
(* snapshot that holds what the last completed restore overwrote, if it    *)
(* can always be written.                                                  *)
(***************************************************************************)
OverwritesItsSnapshot ==
  op # None /\ ~raced => /\ op.stage = "apply" => live.data = op.pre
                         /\ op.stage = "meta" => op.over = op.pre

LEMMA OverwritesNext == TypeOK /\ OverwritesItsSnapshot /\ [Next]_vars => OverwritesItsSnapshot'
<1>. SUFFICES ASSUME TypeOK, OverwritesItsSnapshot, [Next]_vars PROVE OverwritesItsSnapshot'
  OBVIOUS
<1>1. CASE Copy
  BY <1>1, CopyEffect DEF OverwritesItsSnapshot
<1>2. CASE Apply
  BY <1>2, ApplyEffect DEF OverwritesItsSnapshot
<1>3. CASE GameSave
  BY <1>3 DEF OverwritesItsSnapshot, GameSave
<1>4. CASE \E r \in Roots : BeginUndo(r) \/ \E b \in Backups : BeginRestore(r, b)
  BY <1>4 DEF BeginUndo, BeginRestore, Begin, OverwritesItsSnapshot
<1>5. CASE \E t \in Times : Rotate(t)
  <2>1. op'.stage = "copy"
    BY <1>5 DEF TypeOK, Rotate, Ops
  <2>. QED
    BY <2>1 DEF OverwritesItsSnapshot
<1>6. CASE CopyFails \/ ApplyRefused \/ ApplyTorn \/ WriteMeta \/ WriteMetaFails \/ Crash
  <2>1. op' = None
    BY <1>6 DEF CopyFails, ApplyRefused, ApplyTorn, WriteMeta, WriteMetaFails, Crash
  <2>. QED
    BY <2>1 DEF OverwritesItsSnapshot
<1>7. CASE UNCHANGED vars
  BY <1>7 DEF OverwritesItsSnapshot, vars
<1>. QED
  BY <1>1, <1>2, <1>3, <1>4, <1>5, <1>6, <1>7 DEF Next

MetaNamesUndoPoint ==
  \A r \in Roots :
    meta[r] # None /\ ring[r][meta[r].ring] # None /\ ~undoPoint[r].raced
      => ring[r][meta[r].ring].data = undoPoint[r].over

MetaWritable == "meta" \notin Env

LEMMA UndoPointNext ==
  ClockAdvances /\ MetaWritable /\ TypeOK /\ OrderInv /\ OverwritesItsSnapshot
    /\ MetaNamesUndoPoint /\ [Next]_vars
    => MetaNamesUndoPoint'
<1>. SUFFICES ASSUME ClockAdvances, MetaWritable, TypeOK, OrderInv, OverwritesItsSnapshot,
                     MetaNamesUndoPoint, [Next]_vars
              PROVE  MetaNamesUndoPoint'
  OBVIOUS
<1>1. CASE UNCHANGED <<ring, meta, undoPoint>>
  BY <1>1 DEF MetaNamesUndoPoint
<1>2. ASSUME NEW t \in Times, Rotate(t) PROVE MetaNamesUndoPoint'
  <2>1. \A r \in Roots : meta[r] # None => meta[r].ring \in Names
    BY DEF TypeOK, Metas
  <2>. QED
    BY <1>2, <2>1, RotateEffect DEF MetaNamesUndoPoint
<1>3. CASE Copy
  BY <1>3, CopyEffect, SnapWriteInOrder DEF MetaNamesUndoPoint
<1>4. CASE CopyFails
  <2>1. op # None /\ op.stage = "copy" /\ UNCHANGED <<meta, now, undoPoint>>
    BY <1>4 DEF CopyFails, history
  <2>2. CASE ring' = [ring EXCEPT ![op.root][op.snap] = None]
    BY <2>1, <2>2, SnapWriteInOrder DEF MetaNamesUndoPoint
  <2>. QED
    BY <1>1, <1>4, <2>1, <2>2 DEF CopyFails
<1>5. CASE WriteMeta
  <2>1. /\ op.root \in Roots /\ op # None /\ op.stage = "meta" /\ UNCHANGED ring
        /\ meta' = [meta EXCEPT ![op.root] = [ring |-> op.snap, target |-> op.target]]
        /\ undoPoint' = [undoPoint EXCEPT ![op.root] = [over |-> op.over, raced |-> raced]]
    BY <1>5 DEF WriteMeta, Replaced, TypeOK, Ops
  <2>2. /\ meta'[op.root].ring = op.snap
        /\ undoPoint'[op.root].over = op.over /\ undoPoint'[op.root].raced = raced
        /\ \A r \in Roots \ {op.root} : meta'[r] = meta[r] /\ undoPoint'[r] = undoPoint[r]
    BY <2>1 DEF TypeOK
  <2>3. ring[op.root][op.snap].data = op.pre /\ (~raced => op.over = op.pre)
    BY <2>1 DEF OrderInv, SnapKept, OverwritesItsSnapshot
  <2>. QED
    BY <2>1, <2>2, <2>3 DEF MetaNamesUndoPoint
<1>6. CASE Crash
  <2>1. op # None /\ UNCHANGED <<now, undoPoint>>
    BY <1>6 DEF Crash, history
  <2>2. CASE /\ op.stage = "copy" /\ UNCHANGED meta
             /\ ring' = [ring EXCEPT ![op.root][op.snap] =
                            [fmt |-> "raw", data |-> Torn, ro |-> FALSE]]
    <3>1. \A r \in Roots : meta[r] # None => ring'[r][meta[r].ring] = ring[r][meta[r].ring]
      BY <2>1, <2>2, TornFile, SnapWriteInOrder
    <3>. QED
      BY <2>1, <2>2, <3>1 DEF MetaNamesUndoPoint
  <2>3. CASE meta' = [meta EXCEPT ![op.root] = None] /\ UNCHANGED ring
    <3>1. \A r \in Roots : meta'[r] # None => meta'[r] = meta[r]
      BY <2>3 DEF TypeOK
    <3>. QED
      BY <2>1, <2>3, <3>1 DEF MetaNamesUndoPoint
  <2>. QED
    BY <1>1, <1>6, <2>1, <2>2, <2>3 DEF Crash
<1>7. ~WriteMetaFails
  BY DEF WriteMetaFails, MetaWritable
<1>8. CASE \E r \in Roots : BeginUndo(r) \/ \E b \in Backups : BeginRestore(r, b)
  BY <1>1, <1>8 DEF BeginUndo, BeginRestore, Begin, history
<1>9. CASE Apply \/ ApplyRefused \/ ApplyTorn \/ GameSave \/ UNCHANGED vars
  BY <1>1, <1>9 DEF Apply, ApplyRefused, ApplyTorn, GameSave, vars, history
<1>. QED
  BY <1>2, <1>3, <1>4, <1>5, <1>6, <1>7, <1>8, <1>9 DEF Next

(* What an undo that takes effect finds.                                   *)
LEMMA UndoFinds ==
  ASSUME TypeOK, OrderInv, MetaNamesUndoPoint, Next, UndoTakesEffect, ~undoPoint[op.root].raced
  PROVE  live'.data = undoPoint[op.root].over
<1>1. ~GameSave
  BY DEF UndoTakesEffect, GameSave, PraxisStep
<1>2. Apply
  BY <1>1 DEF UndoTakesEffect, Next, BeginUndo, BeginRestore, Begin, Rotate, Copy, CopyFails,
              ApplyRefused, ApplyTorn, WriteMeta, WriteMetaFails, Crash
<1>3. /\ op.root \in Roots /\ meta[op.root] # None /\ op.src = meta[op.root].ring
      /\ op.src \in Names
  BY DEF UndoTakesEffect, TypeOK, Ops, OrderInv, UndoIsOfMeta
<1>4. Source = ring[op.root][op.src] /\ Source # None /\ Source \in RawFiles
  BY <1>2, <1>3 DEF UndoTakesEffect, Apply, Source, CanApply, TypeOK
<1>5. op.target = None
  BY <1>2, <1>4 DEF Apply, CanApply, RawFiles
<1>6. live'.data = Source.data
  BY <1>2, <1>5 DEF Apply, Applied
<1>. QED
  BY <1>3, <1>4, <1>6 DEF MetaNamesUndoPoint

LEMMA UndoPointsNamed ==
  ASSUME ClockAdvances, MetaWritable
  PROVE  Spec => [](TypeOK /\ OrderInv /\ MetaNamesUndoPoint)
<1>1. ClockAdvances /\ MetaWritable
  OBVIOUS
<1>2. Init => MetaNamesUndoPoint /\ OverwritesItsSnapshot
  BY DEF Init, MetaNamesUndoPoint, OverwritesItsSnapshot
<1>. QED
  BY <1>1, <1>2, Ordered, OverwritesNext, UndoPointNext, PTL DEF Spec

(* Where the metadata names a snapshot, a restore has been completed.      *)
PointKnown == \A r \in Roots : meta[r] # None => undoPoint[r] # None

LEMMA PointKnownNext == TypeOK /\ PointKnown /\ [Next]_vars => PointKnown'
<1>. SUFFICES ASSUME TypeOK, PointKnown, [Next]_vars PROVE PointKnown'
  OBVIOUS
<1>1. CASE WriteMeta \/ WriteMetaFails
  <2>1. /\ op # None /\ op.root \in Roots
        /\ undoPoint' = [undoPoint EXCEPT ![op.root] = [over |-> op.over, raced |-> raced]]
        /\ \A r \in Roots \ {op.root} : meta'[r] = meta[r]
    BY <1>1 DEF WriteMeta, WriteMetaFails, Replaced, TypeOK, Ops
  <2>2. /\ undoPoint'[op.root] = [over |-> op.over, raced |-> raced]
        /\ undoPoint'[op.root] \in UndoPoints
        /\ \A r \in Roots \ {op.root} : undoPoint'[r] = undoPoint[r]
    BY <1>1, <2>1 DEF TypeOK, Ops, WriteMeta, WriteMetaFails, UndoPoints
  <2>3. undoPoint'[op.root] # None
    BY <2>2, RingRestoreAssumption
  <2>. QED
    BY <2>1, <2>2, <2>3 DEF PointKnown
<1>2. CASE Crash
  <2>1. UNCHANGED undoPoint /\ \A r \in Roots : meta'[r] # None => meta[r] # None
    BY <1>2 DEF Crash, history, TypeOK
  <2>. QED
    BY <2>1 DEF PointKnown
<1>3. CASE \E r \in Roots : BeginUndo(r) \/ \E b \in Backups : BeginRestore(r, b)
  BY <1>3 DEF BeginUndo, BeginRestore, Begin, history, PointKnown
<1>4. CASE (\E t \in Times : Rotate(t)) \/ Copy
  BY <1>4 DEF Rotate, Copy, PointKnown
<1>5. CASE CopyFails \/ Apply \/ ApplyRefused \/ ApplyTorn \/ GameSave \/ UNCHANGED vars
  BY <1>5 DEF CopyFails, Apply, ApplyRefused, ApplyTorn, GameSave, vars, history, PointKnown
<1>. QED
  BY <1>1, <1>2, <1>3, <1>4, <1>5 DEF Next

(* An undo that takes effect brings back the content that the last         *)
(* completed restore of its root overwrote, provided that last_restore.txt *)
(* can be written and the clock advances from one snapshot to the next;    *)
(* where the game saved between that restore's snapshot and its            *)
(* replacement of the save nothing is claimed.                             *)
THEOREM UndoIsExact == ASSUME ClockAdvances, MetaWritable PROVE Spec => UndoBringsBack
<1>1. Init => PointKnown
  BY DEF Init, PointKnown
<1>2. TypeOK /\ OrderInv /\ MetaNamesUndoPoint /\ PointKnown /\ [Next]_vars
        => [UndoTakesEffect
              => LET u == undoPoint[op.root]
                 IN  u # None /\ (u.raced \/ live'.data = u.over)]_vars
  <2>. SUFFICES ASSUME TypeOK, OrderInv, MetaNamesUndoPoint, PointKnown, Next, UndoTakesEffect
                PROVE  /\ undoPoint[op.root] # None
                       /\ undoPoint[op.root].raced \/ live'.data = undoPoint[op.root].over
    OBVIOUS
  <2>1. undoPoint[op.root] # None
    BY DEF UndoTakesEffect, TypeOK, Ops, OrderInv, UndoIsOfMeta, PointKnown
  <2>. QED
    BY <2>1, UndoFinds
<1>. QED
  BY <1>1, <1>2, PointKnownNext, UndoPointsNamed, PTL DEF Spec, UndoBringsBack

GameQuiet == "game" \notin Env

(* No restore is raced, and none has left an undo point behind that was.   *)
NothingRaced ==
  /\ raced = FALSE
  /\ \A r \in Roots : undoPoint[r] # None => undoPoint[r].raced = FALSE
  /\ PointKnown

LEMMA NothingRacedNext ==
  GameQuiet /\ TypeOK /\ NothingRaced /\ [Next]_vars => NothingRaced'
<1>. SUFFICES ASSUME GameQuiet, TypeOK, NothingRaced, [Next]_vars PROVE NothingRaced'
  OBVIOUS
<1>1. PointKnown'
  BY PointKnownNext DEF NothingRaced
<1>2. CASE WriteMeta \/ WriteMetaFails
  <2>1. /\ op # None /\ op.root \in Roots /\ UNCHANGED raced
        /\ undoPoint' = [undoPoint EXCEPT ![op.root] = [over |-> op.over, raced |-> raced]]
    BY <1>2 DEF WriteMeta, WriteMetaFails, Replaced, TypeOK, Ops
  <2>2. /\ undoPoint'[op.root].raced = raced
        /\ \A r \in Roots \ {op.root} : undoPoint'[r] = undoPoint[r]
    BY <2>1 DEF TypeOK
  <2>. QED
    BY <1>1, <2>1, <2>2 DEF NothingRaced
<1>3. CASE GameSave
  BY <1>1, <1>3 DEF GameSave, GameQuiet, NothingRaced
<1>4. CASE \E r \in Roots : BeginUndo(r) \/ \E b \in Backups : BeginRestore(r, b)
  BY <1>1, <1>4 DEF BeginUndo, BeginRestore, Begin, history, NothingRaced
<1>5. CASE (\E t \in Times : Rotate(t)) \/ Copy
  BY <1>1, <1>5 DEF Rotate, Copy, NothingRaced
<1>6. CASE CopyFails \/ Apply \/ ApplyRefused \/ ApplyTorn \/ Crash \/ UNCHANGED vars
  BY <1>1, <1>6 DEF CopyFails, Apply, ApplyRefused, ApplyTorn, Crash, vars, history, NothingRaced
<1>. QED
  BY <1>2, <1>3, <1>4, <1>5, <1>6 DEF Next

(* As long as the game does not save while a command runs there is no      *)
(* exception: undo is the inverse of the last completed restore.           *)
THEOREM UndoIsInverseWhenQuiet ==
  ASSUME ClockAdvances, MetaWritable, GameQuiet PROVE Spec => UndoIsInverse
<1>1. Init => NothingRaced
  BY DEF Init, NothingRaced, PointKnown
<1>2. GameQuiet
  OBVIOUS
<1>3. TypeOK /\ OrderInv /\ MetaNamesUndoPoint /\ NothingRaced /\ [Next]_vars
        => [UndoTakesEffect => live'.data = undoPoint[op.root].over]_vars
  <2>. SUFFICES ASSUME TypeOK, OrderInv, MetaNamesUndoPoint, NothingRaced, Next, UndoTakesEffect
                PROVE  live'.data = undoPoint[op.root].over
    OBVIOUS
  <2>1. op.root \in Roots /\ meta[op.root] # None
    BY DEF UndoTakesEffect, TypeOK, Ops, OrderInv, UndoIsOfMeta
  <2>2. ~undoPoint[op.root].raced
    BY <2>1 DEF NothingRaced, PointKnown
  <2>. QED
    BY <2>2, UndoFinds
<1>. QED
  BY <1>1, <1>2, <1>3, NothingRacedNext, UndoPointsNamed, PTL DEF Spec, UndoIsInverse

-----------------------------------------------------------------------------
(***************************************************************************)
(* The commands implement UndoableSave, step by step.  The one step of a   *)
(* command that shows is the writing of its metadata; what has to be known *)
(* there is where the content of the save came from.                       *)
(***************************************************************************)
Landed ==
  op # None /\ op.stage = "meta"
    => \/ /\ op.kind = "restore" /\ op.target = None
          /\ op.src \in Promise!FullBackups /\ live.data = op.src.data
       \/ /\ op.kind = "restore" /\ op.target \in Slots
          /\ op.src \in Promise!SlotBackups
          /\ live.data = Promise!WithSlot(op.pre, op.target, op.src.data)
       \/ /\ op.kind = "undo" /\ op.target = None
          /\ ring[op.root][op.src] # None /\ live.data = ring[op.root][op.src].data

RefineInv == TypeOK /\ OrderInv /\ SnapHeld /\ Landed

LEMMA LandedApply ==
  ASSUME TypeOK, SnapHeld, GameQuiet, Apply
  PROVE  Landed'
<1>1. op \in Ops /\ op.pre = live.data /\ op.target \in Slots \cup {None}
  BY ApplyEffect DEF TypeOK, SnapHeld, GameQuiet, Ops, Targets
<1>2. CASE op.kind = "restore" /\ op.target = None
  <2>1. op.src \in Backups /\ op.src.fmt \in {"raw", "container"}
    BY <1>2, ApplyEffect DEF TypeOK, CanApply, Source
  <2>2. live'.data = op.src.data
    BY <1>2, ApplyEffect DEF Applied, Source
  <2>. QED
    BY <1>2, <2>1, <2>2, ApplyEffect DEF Landed, Promise!FullBackups
<1>3. CASE op.kind = "restore" /\ op.target # None
  <2>1. op.src \in Backups /\ op.src.fmt = "slot" /\ op.target \in Slots
    BY <1>1, <1>3, ApplyEffect DEF TypeOK, CanApply, Source
  <2>2. live'.data = Promise!WithSlot(live.data, op.target, op.src.data)
    <3>1. Applied = [live EXCEPT !.data = IF live.data = Torn THEN Torn
                                         ELSE [live.data EXCEPT ![op.target] = op.src.data]]
      BY <1>3 DEF Applied, Source
    <3>2. live \in RawFiles
      BY DEF TypeOK
    <3>. QED
      BY <3>1, <3>2, ApplyEffect DEF Promise!WithSlot, RawFiles
  <2>. QED
    BY <1>1, <1>3, <2>1, <2>2, ApplyEffect DEF Landed, Promise!SlotBackups
<1>4. CASE op.kind = "undo"
  <2>1. Source = ring[op.root][op.src] /\ Source # None /\ op.root \in Roots /\ op.src \in Names
    BY <1>4, ApplyEffect DEF TypeOK, CanApply, Source
  <2>2. Source \in RawFiles
    BY <2>1 DEF TypeOK
  <2>3. op.target = None
    BY <2>2, ApplyEffect DEF CanApply, RawFiles
  <2>4. live'.data = Source.data
    BY <2>3, ApplyEffect DEF Applied
  <2>. QED
    BY <1>4, <2>1, <2>3, <2>4, ApplyEffect DEF Landed
<1>. QED
  BY <1>1, <1>2, <1>3, <1>4 DEF Ops

LEMMA LandedNext == GameQuiet /\ TypeOK /\ SnapHeld /\ Landed /\ [Next]_vars => Landed'
<1>. SUFFICES ASSUME GameQuiet, TypeOK, SnapHeld, Landed, [Next]_vars PROVE Landed'
  OBVIOUS
<1>1. CASE Apply
  BY <1>1, LandedApply
<1>2. CASE \E r \in Roots : BeginUndo(r) \/ \E b \in Backups : BeginRestore(r, b)
  <2>1. op'.stage = "rotate"
    BY <1>2 DEF BeginUndo, BeginRestore, Begin
  <2>. QED
    BY <2>1 DEF Landed
<1>3. CASE \E t \in Times : Rotate(t)
  <2>1. op'.stage = "copy"
    BY <1>3 DEF TypeOK, Rotate, Ops
  <2>. QED
    BY <2>1 DEF Landed
<1>4. CASE Copy
  BY <1>4, CopyEffect DEF Landed
<1>5. CASE CopyFails \/ ApplyRefused \/ ApplyTorn \/ WriteMeta \/ WriteMetaFails \/ Crash
  <2>1. op' = None
    BY <1>5 DEF CopyFails, ApplyRefused, ApplyTorn, WriteMeta, WriteMetaFails, Crash
  <2>. QED
    BY <2>1 DEF Landed
<1>6. CASE GameSave
  <2>1. op' = op /\ op = None
    BY <1>6 DEF GameSave, GameQuiet
  <2>. QED
    BY <2>1 DEF Landed
<1>7. CASE UNCHANGED vars
  BY <1>7 DEF Landed, vars
<1>. QED
  BY <1>1, <1>2, <1>3, <1>4, <1>5, <1>6, <1>7 DEF Next

(* The undo points that the files offer only depend on the snapshots that  *)
(* metadata names.                                                         *)
LEMMA SameUndo ==
  ASSUME UNCHANGED meta,
         \A r \in Roots : meta[r] # None => ring'[r][meta[r].ring] = ring[r][meta[r].ring]
  PROVE  AbstractUndo' = AbstractUndo
BY DEF AbstractUndo

(* A command that is past the restore: everything it may still do leaves   *)
(* one of UndoableSave's steps, whichever way the command ends.            *)
LEMMA EndsUnrecorded ==
  ASSUME RefineInv, op # None, op.stage = "meta", op' = None, UNCHANGED live,
         AbstractUndo' \in {AbstractUndo, [AbstractUndo EXCEPT ![op.root] = None]}
  PROVE  Promise!Unrecorded(op.root)
<1>1. AbstractSave = op.pre /\ AbstractSave' = live.data /\ op.root \in Roots
  BY DEF AbstractSave, RefineInv, TypeOK, Ops
<1>2. CASE op.kind = "undo" /\ op.target = None
           /\ ring[op.root][op.src] # None /\ live.data = ring[op.root][op.src].data
  <2>1. meta[op.root] # None /\ op.src = meta[op.root].ring /\ meta[op.root].target = None
    BY <1>2 DEF RefineInv, OrderInv, UndoIsOfMeta
  <2>2. AbstractUndo[op.root] = live.data
    BY <1>1, <1>2, <2>1 DEF AbstractUndo
  <2>3. live.data # None
    BY RingRestoreAssumption DEF RefineInv, TypeOK, RawFiles
  <2>. QED
    BY <1>1, <2>2, <2>3 DEF Promise!Unrecorded
<1>. QED
  BY <1>1, <1>2 DEF RefineInv, Landed, Promise!Unrecorded

LEMMA EndsRecorded ==
  ASSUME RefineInv, WriteMeta
  PROVE  \/ Promise!RestoreFull(op.root) \/ Promise!RestoreSlot(op.root)
         \/ Promise!Undo(op.root)
<1>1. /\ op # None /\ op.stage = "meta" /\ op.root \in Roots /\ op.snap \in Names
      /\ op' = None /\ UNCHANGED <<live, ring>>
      /\ meta' = [meta EXCEPT ![op.root] = [ring |-> op.snap, target |-> op.target]]
  BY DEF WriteMeta, RefineInv, TypeOK, Ops
<1>2. AbstractSave = op.pre /\ AbstractSave' = live.data
  BY <1>1 DEF AbstractSave
<1>3. ring[op.root][op.snap] # None /\ ring[op.root][op.snap].data = op.pre
  BY <1>1 DEF RefineInv, OrderInv, SnapKept
<1>4. /\ meta'[op.root] = [ring |-> op.snap, target |-> op.target]
      /\ \A r \in Roots \ {op.root} : meta'[r] = meta[r]
  BY <1>1 DEF RefineInv, TypeOK
<1>5. [ring |-> op.snap, target |-> op.target] # None
  <2>1. [ring |-> op.snap, target |-> op.target] \in Metas
    BY <1>1 DEF RefineInv, TypeOK, Ops, Metas
  <2>. QED
    BY <2>1, RingRestoreAssumption
<1>6. AbstractUndo' = [AbstractUndo EXCEPT ![op.root] = IF op.target = None THEN op.pre ELSE None]
  <2>1. meta'[op.root] # None /\ meta'[op.root].ring = op.snap
        /\ meta'[op.root].target = op.target
    BY <1>4, <1>5
  <2>2. AbstractUndo'[op.root] = IF op.target = None THEN op.pre ELSE None
    BY <1>1, <1>3, <2>1 DEF AbstractUndo
  <2>3. \A r \in Roots \ {op.root} : AbstractUndo'[r] = AbstractUndo[r]
    BY <1>1, <1>4 DEF AbstractUndo
  <2>4. /\ AbstractUndo = [r \in Roots |-> AbstractUndo[r]]
        /\ AbstractUndo' = [r \in Roots |-> AbstractUndo'[r]]
    BY DEF AbstractUndo
  <2>. QED
    BY <1>1, <2>2, <2>3, <2>4
<1>7. CASE op.kind = "restore" /\ op.target = None
           /\ op.src \in Promise!FullBackups /\ live.data = op.src.data
  BY <1>2, <1>6, <1>7 DEF Promise!RestoreFull
<1>8. CASE op.kind = "restore" /\ op.target \in Slots
           /\ op.src \in Promise!SlotBackups
           /\ live.data = Promise!WithSlot(op.pre, op.target, op.src.data)
  <2>1. op.target # None
    BY <1>8, RingRestoreAssumption
  <2>. QED
    BY <1>2, <1>6, <1>8, <2>1 DEF Promise!RestoreSlot
<1>9. CASE op.kind = "undo" /\ op.target = None
           /\ ring[op.root][op.src] # None /\ live.data = ring[op.root][op.src].data
  <2>1. meta[op.root] # None /\ op.src = meta[op.root].ring /\ meta[op.root].target = None
    BY <1>1, <1>9 DEF RefineInv, OrderInv, UndoIsOfMeta
  <2>2. AbstractUndo[op.root] = live.data
    BY <1>1, <1>9, <2>1 DEF AbstractUndo
  <2>3. live.data # None
    BY RingRestoreAssumption DEF RefineInv, TypeOK, RawFiles
  <2>. QED
    BY <1>2, <1>6, <1>9, <2>2, <2>3 DEF Promise!Undo
<1>. QED
  BY <1>1, <1>7, <1>8, <1>9 DEF RefineInv, Landed

LEMMA RotateMapsToLoseUndo ==
  ASSUME RefineInv, ClockAdvances, NEW t \in Times, Rotate(t)
  PROVE  AbstractUndo' = AbstractUndo \/ Promise!LoseUndo(op.root)
<1>1. TypeOK
  BY DEF RefineInv
<1>2. \A r \in Roots : meta[r] # None => meta[r].ring \in Names
  BY <1>1 DEF TypeOK, Metas
<1>3. UNCHANGED meta /\ AbstractSave' = AbstractSave /\ op.root \in Roots
  BY <1>1, RotateEffect DEF AbstractSave
<1>4. CASE \A r \in Roots : meta[r] # None => ring'[r][meta[r].ring] = ring[r][meta[r].ring]
  BY <1>3, <1>4, SameUndo
<1>5. CASE \E r \in Roots : meta[r] # None /\ ring'[r][meta[r].ring] # ring[r][meta[r].ring]
  <2>1. meta[op.root] # None /\ ring'[op.root][meta[op.root].ring] = None
    BY <1>1, <1>2, <1>5, RotateEffect
  <2>2. \A r \in Roots \ {op.root} : ring'[r] = ring[r]
    BY <1>1, RotateEffect
  <2>3. AbstractUndo' = [AbstractUndo EXCEPT ![op.root] = None]
    BY <1>3, <2>1, <2>2 DEF AbstractUndo
  <2>. QED
    BY <1>3, <2>3 DEF Promise!LoseUndo
<1>. QED
  BY <1>4, <1>5

LEMMA StepSimulates ==
  ASSUME RefineInv, ClockAdvances, GameQuiet, [Next]_vars
  PROVE  [Promise!Next]_(Promise!vars)
<1>. USE DEF RefineInv
<1>1. CASE UNCHANGED <<AbstractSave, AbstractUndo>>
  BY <1>1 DEF Promise!vars
<1>2. CASE UNCHANGED <<live, ring, meta>> /\ ~(op # None /\ op.stage = "meta")
           /\ ~(op' # None /\ op'.stage = "meta")
  BY <1>1, <1>2 DEF AbstractSave, AbstractUndo
<1>3. CASE \E r \in Roots : BeginUndo(r) \/ \E b \in Backups : BeginRestore(r, b)
  <2>1. op = None /\ op'.stage = "rotate" /\ UNCHANGED <<live, ring, meta>>
    BY <1>3 DEF BeginUndo, BeginRestore, Begin
  <2>. QED
    BY <1>2, <2>1
<1>4. ASSUME NEW t \in Times, Rotate(t) PROVE [Promise!Next]_(Promise!vars)
  <2>1. AbstractSave' = AbstractSave /\ op.root \in Roots
    BY <1>4, RotateEffect DEF AbstractSave
  <2>. QED
    BY <1>1, <1>4, <2>1, RotateMapsToLoseUndo DEF Promise!Next
<1>5. CASE Copy
  <2>1. AbstractUndo' = AbstractUndo
    BY <1>5, CopyEffect, SnapWriteInOrder, SameUndo
  <2>2. AbstractSave' = AbstractSave
    BY <1>5, CopyEffect DEF AbstractSave
  <2>. QED
    BY <1>1, <2>1, <2>2
<1>6. CASE CopyFails
  <2>1. op # None /\ op.stage = "copy" /\ op' = None /\ UNCHANGED <<live, meta, now>>
    BY <1>6 DEF CopyFails
  <2>2. AbstractSave' = AbstractSave
    BY <2>1 DEF AbstractSave
  <2>3. AbstractUndo' = AbstractUndo
    BY <1>6, <2>1, SnapWriteInOrder, SameUndo DEF CopyFails
  <2>. QED
    BY <1>1, <2>2, <2>3
<1>7. CASE Apply
  <2>1. AbstractUndo' = AbstractUndo
    BY <1>7, ApplyEffect, SameUndo
  <2>2. op.pre = live.data
    BY <1>7, ApplyEffect DEF SnapHeld, GameQuiet
  <2>3. AbstractSave' = AbstractSave
    BY <1>7, <2>2, ApplyEffect DEF AbstractSave
  <2>. QED
    BY <1>1, <2>1, <2>3
<1>8. CASE ApplyRefused
  <2>1. op.stage = "apply" /\ op' = None /\ live'.data = live.data /\ UNCHANGED <<ring, meta>>
    BY <1>8 DEF ApplyRefused, TypeOK, RawFiles
  <2>. QED
    BY <1>1, <2>1, SameUndo DEF AbstractSave
<1>9. CASE ApplyTorn
  <2>1. op' = None /\ live'.data = Torn /\ UNCHANGED <<ring, meta>>
    BY <1>9 DEF ApplyTorn, TypeOK, RawFiles
  <2>2. AbstractSave' = Torn /\ AbstractUndo' = AbstractUndo
    BY <2>1, SameUndo DEF AbstractSave
  <2>. QED
    BY <2>2 DEF Promise!StopHalfWay, Promise!Next
<1>10. CASE WriteMeta
  <2>1. op.root \in Roots
    BY <1>10 DEF WriteMeta, TypeOK, Ops
  <2>. QED
    BY <1>10, <2>1, EndsRecorded DEF Promise!Next
<1>11. CASE WriteMetaFails
  <2>1. /\ op # None /\ op.stage = "meta" /\ op' = None /\ UNCHANGED <<live, ring>>
        /\ op.root \in Roots
        /\ \E m \in {meta[op.root], None} : meta' = [meta EXCEPT ![op.root] = m]
    BY <1>11 DEF WriteMetaFails, TypeOK, Ops
  <2>2. UNCHANGED meta \/ meta' = [meta EXCEPT ![op.root] = None]
    BY <2>1 DEF TypeOK
  <2>3. AbstractUndo' \in {AbstractUndo, [AbstractUndo EXCEPT ![op.root] = None]}
    BY <2>1, <2>2 DEF AbstractUndo, TypeOK
  <2>. QED
    BY <2>1, <2>3, EndsUnrecorded DEF Promise!Next
<1>12. CASE Crash
  <2>1. op # None /\ op' = None /\ UNCHANGED <<live, now>> /\ op.root \in Roots
    BY <1>12 DEF Crash, TypeOK, Ops
  <2>2. CASE op.stage # "meta"
    <3>1. AbstractSave' = AbstractSave
      BY <2>1, <2>2 DEF AbstractSave
    <3>2. AbstractUndo' = AbstractUndo
      BY <1>12, <2>1, <2>2, TornFile, SnapWriteInOrder, SameUndo DEF Crash
    <3>. QED
      BY <1>1, <3>1, <3>2
  <2>3. CASE op.stage = "meta"
    <3>1. UNCHANGED ring /\ (UNCHANGED meta \/ meta' = [meta EXCEPT ![op.root] = None])
      BY <1>12, <2>3 DEF Crash
    <3>2. AbstractUndo' \in {AbstractUndo, [AbstractUndo EXCEPT ![op.root] = None]}
      BY <2>1, <3>1 DEF AbstractUndo, TypeOK
    <3>. QED
      BY <2>1, <2>3, <3>2, EndsUnrecorded DEF Promise!Next
  <2>. QED
    BY <2>2, <2>3
<1>13. CASE GameSave
  <2>1. op = None /\ op' = op /\ UNCHANGED <<ring, meta>> /\ live'.data \in Bodies
    BY <1>13 DEF GameSave, GameQuiet, TypeOK, RawFiles
  <2>2. AbstractSave' \in Promise!Bodies /\ AbstractUndo' = AbstractUndo
    BY <2>1, SameUndo DEF AbstractSave, Bodies, Promise!Bodies
  <2>. QED
    BY <2>2 DEF Promise!Play, Promise!Next
<1>14. CASE UNCHANGED vars
  BY <1>1, <1>14 DEF vars, AbstractSave, AbstractUndo
<1>. QED
  BY <1>3, <1>4, <1>5, <1>6, <1>7, <1>8, <1>9, <1>10, <1>11, <1>12, <1>13, <1>14 DEF Next

LEMMA InitSimulates == Init => Promise!Init
BY DEF Init, AbstractSave, AbstractUndo, Promise!Init, Bodies, Promise!Bodies

(* Seen from outside, a restore or an undo is one step that swaps the save *)
(* and its undo point, or one of the failures UndoableSave names: whatever *)
(* is killed, whichever file operation fails, and whether or not           *)
(* last_restore.txt can be written.                                        *)
THEOREM Implements == ASSUME ClockAdvances, GameQuiet PROVE Spec => ImplementsUndoableSave
<1>1. RefineInv /\ [Next]_vars => [Promise!Next]_(Promise!vars)
  BY StepSimulates
<1>2. ClockAdvances /\ GameQuiet
  OBVIOUS
<1>3. Init => Landed
  BY DEF Init, Landed
<1>4. Spec => []RefineInv
  BY <1>2, <1>3, Ordered, SnapHeldInit, SnapHeldNext, LandedNext, PTL DEF Spec, RefineInv
<1>. QED
  BY <1>1, <1>4, InitSimulates, PTL DEF Spec, ImplementsUndoableSave, Promise!Spec
-----------------------------------------------------------------------------
(***************************************************************************)
(* Counting snapshots.                                                     *)
(***************************************************************************)
LEMMA RingSizePositive == TypeOK => GRingSize \in Nat \ {0}
BY RingRestoreAssumption DEF TypeOK, GRingSize

(* Names are totally ordered, and a ring that is not empty has an oldest   *)
(* one.                                                                    *)
LEMMA OldestName ==
  ASSUME NEW K \in SUBSET Names, K # {}
  PROVE  \E n \in K : \A m \in K \ {n} : Older(n, m)
<1>. DEFINE T == {n.time : n \in K}
<1>1. T \subseteq Nat /\ T # {}
  <2>1. Times \subseteq Nat
    BY RingRestoreAssumption
  <2>. QED
    BY <2>1 DEF Names
<1>2. PICK t \in T : \A u \in T : ~(<<u, t>> \in OpToRel(<, Nat))
  BY <1>1, NatLessThanWellFounded, WFMin
<1>3. \A u \in T : t <= u
  <2>1. SUFFICES ASSUME NEW u \in T PROVE t <= u
    OBVIOUS
  <2>2. u \in Nat /\ t \in Nat
    BY <1>1
  <2>3. u < t => <<u, t>> \in OpToRel(<, Nat)
    BY <2>2 DEF OpToRel
  <2>4. ~(u < t)
    BY <1>2, <2>3, Zenon
  <2>. QED
    BY <2>2, <2>4
<1>4. \A n \in K : n.time \in Nat /\ t <= n.time /\ n.label \in {"full", "slot"}
                   /\ n = [time |-> n.time, label |-> n.label]
  BY <1>1, <1>3 DEF Names, Labels
<1>5. CASE \E n \in K : n.time = t /\ n.label = "full"
  BY <1>1, <1>4, <1>5 DEF Older
<1>6. CASE ~\E n \in K : n.time = t /\ n.label = "full"
  <2>1. PICK n \in K : n.time = t
    BY <1>1
  <2>. QED
    BY <1>1, <1>4, <1>6, <2>1 DEF Older
<1>. QED
  BY <1>5, <1>6

(* Of any listing, at most k snapshots have fewer than k newer ones: what  *)
(* rotation spares.                                                        *)
LEMMA SparedFew ==
  ASSUME NEW L \in SUBSET Names, IsFiniteSet(L), NEW k \in Nat
  PROVE  Cardinality({n \in L : Cardinality({m \in L : Older(n, m)}) < k}) <= k
<1>. DEFINE N(n) == {m \in L : Older(n, m)}
            K == {n \in L : Cardinality(N(n)) < k}
<1>1. K \subseteq L /\ IsFiniteSet(K) /\ Cardinality(K) \in Nat
  BY FS_Subset, FS_CardinalityType
<1>2. \A n \in L : N(n) \subseteq L /\ IsFiniteSet(N(n)) /\ Cardinality(N(n)) \in Nat
  BY FS_Subset, FS_CardinalityType
<1>3. \A n \in K : Cardinality(N(n)) < k
  OBVIOUS
<1>4. \A n, m \in L : Older(n, m) => m \in N(n)
  OBVIOUS
<1>. SUFFICES Cardinality(K) <= k
  OBVIOUS
<1>. HIDE DEF K, N
<1>5. CASE K = {}
  BY <1>5, FS_EmptySet
<1>6. CASE K # {}
  <2>1. PICK n \in K : \A m \in K \ {n} : Older(n, m)
    BY <1>1, <1>6, OldestName
  <2>2. IsFiniteSet(K \ {n}) /\ Cardinality(K \ {n}) = Cardinality(K) - 1
    BY <1>1, FS_RemoveElement
  <2>3. K \ {n} \subseteq N(n)
    BY <1>1, <1>4, <2>1
  <2>4. Cardinality(K \ {n}) <= Cardinality(N(n))
    BY <1>1, <1>2, <2>3, FS_Subset
  <2>. QED
    BY <1>1, <1>2, <1>3, <2>2, <2>4
<1>. QED
  BY <1>5, <1>6

(***************************************************************************)
(* The bound on a ring.  It needs what the code takes for granted: that no *)
(* snapshot can refuse its deletion, and that ring_list_files can list a   *)
(* full ring.                                                              *)
(***************************************************************************)
NothingLocked == \A b \in Backups : ~b.ro
RingIsListed  == ListCap >= 5 /\ \A s \in RingSizes : ListCap >= s

Copying(r) == op # None /\ op.root = r /\ op.stage = "copy"

RoomMade ==
  /\ ~live.ro
  /\ \A r \in Roots, n \in Names : ring[r][n] # None => ~ring[r][n].ro
  /\ \A r \in Roots : /\ IsFiniteSet(Existing(r))
                      /\ Cardinality(Existing(r)) + (IF Copying(r) THEN 1 ELSE 0) <= GRingSize

LEMMA RoomInit == Init => RoomMade
<1>. SUFFICES ASSUME Init PROVE RoomMade
  OBVIOUS
<1>1. \A r \in Roots : Existing(r) = {} /\ ~Copying(r)
  BY DEF Init, Existing, Copying
<1>2. GRingSize \in Nat
  BY TypeInit, RingSizePositive
<1>3. ~live.ro /\ \A r \in Roots, n \in Names : ring[r][n] = None
  BY DEF Init
<1>. QED
  BY <1>1, <1>2, <1>3, FS_EmptySet DEF RoomMade

(* Steps after which no snapshot is there that was not there before, and   *)
(* that leave no command about to copy that was not before.                *)
LEMMA RoomFrame ==
  ASSUME TypeOK, RoomMade, ~live'.ro, UNCHANGED ringSize,
         \A r \in Roots, n \in Names : ring'[r][n] # None => ring'[r][n] = ring[r][n],
         op' = None \/ op' = op \/ op'.stage # "copy"
  PROVE  RoomMade'
<1>1. ASSUME NEW r \in Roots
      PROVE  /\ IsFiniteSet(Existing(r)')
             /\ Cardinality(Existing(r)') + (IF Copying(r)' THEN 1 ELSE 0) <= GRingSize'
  <2>1. Existing(r)' \subseteq Existing(r) /\ IsFiniteSet(Existing(r))
    BY DEF Existing, RoomMade
  <2>2. IsFiniteSet(Existing(r)') /\ Cardinality(Existing(r)') <= Cardinality(Existing(r))
    BY <2>1, FS_Subset
  <2>3. Cardinality(Existing(r)') \in Nat /\ Cardinality(Existing(r)) \in Nat
    BY <2>1, <2>2, FS_CardinalityType
  <2>4. Copying(r)' => Copying(r)
    BY DEF Copying
  <2>5. GRingSize' = GRingSize /\ GRingSize \in Nat
    BY RingSizePositive DEF GRingSize
  <2>6. Cardinality(Existing(r)) + (IF Copying(r) THEN 1 ELSE 0) <= GRingSize
    BY DEF RoomMade
  <2>. QED
    BY <2>2, <2>3, <2>4, <2>5, <2>6
<1>. QED
  BY <1>1 DEF RoomMade

LEMMA RoomRotate ==
  ASSUME TypeOK, RoomMade, RingIsListed, NEW t \in Times, Rotate(t)
  PROVE  RoomMade'
<1>0. PICK R \in Roots : R = op.root
  BY DEF Rotate, TypeOK, Ops
<1>. DEFINE L == Existing(R)
            k == GRingSize - 1
            K == {n \in L : Cardinality({m \in L : Older(n, m)}) < k}
<1>1. op'.root = R /\ UNCHANGED <<live, ringSize>> /\ op # None /\ op.stage = "rotate"
  BY <1>0 DEF Rotate, TypeOK, Ops
<1>2. IsFiniteSet(L) /\ Cardinality(L) <= GRingSize /\ L \subseteq Names
  <2>1. IsFiniteSet(L) /\ Cardinality(L) + (IF Copying(R) THEN 1 ELSE 0) <= GRingSize
    BY <1>1 DEF RoomMade
  <2>2. Cardinality(L) \in Nat /\ GRingSize \in Nat
    BY <2>1, FS_CardinalityType, RingSizePositive
  <2>. QED
    BY <2>1, <2>2 DEF Existing
<1>3. Listings(R) = {L}
  <2>1. GRingSize <= ListCap /\ GRingSize \in Nat /\ ListCap \in Nat
    BY RingSizePositive, RingRestoreAssumption DEF RingIsListed, GRingSize, TypeOK
  <2>2. Cardinality(L) <= ListCap
    BY <1>2, <2>1, FS_CardinalityType
  <2>. QED
    BY <2>2 DEF Listings
<1>4. ring' = [ring EXCEPT ![R] = Rotated(R, L)]
  BY <1>0, <1>3 DEF Rotate
<1>5. \A r \in Roots \ {R} : ring'[r] = ring[r]
  BY <1>4 DEF TypeOK
<1>6. \A n \in Names : ring'[R][n] = IF n \in Doomed(L) /\ ~ring[R][n].ro THEN None ELSE ring[R][n]
  BY <1>1, <1>4 DEF Rotated, TypeOK
<1>7. \A r \in Roots, n \in Names : ring'[r][n] # None => ring'[r][n] = ring[r][n]
  BY <1>5, <1>6
<1>8. k \in Nat /\ GRingSize \in Nat /\ GRingSize' = GRingSize
  BY <1>1, RingSizePositive DEF GRingSize
<1>9. Existing(R)' \subseteq K
  <2>1. SUFFICES ASSUME NEW n \in Names, ring'[R][n] # None PROVE n \in K
    BY DEF Existing
  <2>2. n \in L /\ ~ring[R][n].ro
    BY <1>1, <1>7, <2>1 DEF Existing, RoomMade
  <2>3. n \notin Doomed(L)
    BY <1>6, <2>1, <2>2
  <2>4. Cardinality({m \in L : Older(n, m)}) \in Nat
    BY <1>2, FS_Subset, FS_CardinalityType
  <2>. QED
    BY <1>8, <2>2, <2>3, <2>4 DEF Doomed
<1>10. IsFiniteSet(Existing(R)') /\ Cardinality(Existing(R)') + 1 <= GRingSize
  <2>1. IsFiniteSet(K) /\ Cardinality(K) <= k
    BY <1>2, <1>8, FS_Subset, SparedFew
  <2>2. IsFiniteSet(Existing(R)') /\ Cardinality(Existing(R)') <= Cardinality(K)
    BY <1>9, <2>1, FS_Subset
  <2>3. Cardinality(Existing(R)') \in Nat /\ Cardinality(K) \in Nat
    BY <2>1, <2>2, FS_CardinalityType
  <2>. HIDE DEF K
  <2>. QED
    BY <1>8, <2>1, <2>2, <2>3
<1>11. ASSUME NEW r \in Roots \ {R}
       PROVE  /\ IsFiniteSet(Existing(r)')
              /\ Cardinality(Existing(r)') + (IF Copying(r)' THEN 1 ELSE 0) <= GRingSize'
  <2>1. Existing(r)' = Existing(r) /\ ~Copying(r)'
    BY <1>1, <1>5 DEF Existing, Copying
  <2>2. IsFiniteSet(Existing(r)) /\ Cardinality(Existing(r)) \in Nat
    BY FS_CardinalityType DEF RoomMade
  <2>3. Cardinality(Existing(r)) + (IF Copying(r) THEN 1 ELSE 0) <= GRingSize
    BY DEF RoomMade
  <2>. QED
    BY <1>8, <2>1, <2>2, <2>3
<1>12. \A r \in Roots : /\ IsFiniteSet(Existing(r)')
                        /\ Cardinality(Existing(r)') + (IF Copying(r)' THEN 1 ELSE 0) <= GRingSize'
  <2>1. Cardinality(Existing(R)') \in Nat
    BY <1>10, FS_CardinalityType
  <2>2. /\ IsFiniteSet(Existing(R)')
        /\ Cardinality(Existing(R)') + (IF Copying(R)' THEN 1 ELSE 0) <= GRingSize'
    BY <1>8, <1>10, <2>1
  <2>. QED
    BY <1>11, <2>2
<1>13. ~live'.ro /\ \A r \in Roots, n \in Names : ring'[r][n] # None => ~ring'[r][n].ro
  BY <1>1, <1>7 DEF RoomMade
<1>. QED
  BY <1>12, <1>13 DEF RoomMade

(* The one file a command adds to its ring takes the place that rotation   *)
(* made.                                                                   *)
LEMMA RoomSnapWrite ==
  ASSUME TypeOK, RoomMade, op # None, op.stage = "copy", NEW f \in RawFiles \cup {None},
         f # None => ~f.ro,
         ring' = [ring EXCEPT ![op.root][op.snap] = f], UNCHANGED <<live, ringSize>>,
         op' = None \/ op'.stage # "copy"
  PROVE  RoomMade'
<1>. DEFINE R == op.root
<1>1. R \in Roots /\ op.snap \in Names
  BY DEF TypeOK, Ops
<1>2. \A r \in Roots, n \in Names :
        ring'[r][n] = IF r = R /\ n = op.snap THEN f ELSE ring[r][n]
  BY <1>1 DEF TypeOK
<1>3. GRingSize' = GRingSize /\ GRingSize \in Nat
  BY RingSizePositive DEF GRingSize
<1>4. \A r \in Roots : ~Copying(r)'
  BY DEF Copying
<1>5. ASSUME NEW r \in Roots
      PROVE  IsFiniteSet(Existing(r)') /\ Cardinality(Existing(r)') <= GRingSize
  <2>1. IsFiniteSet(Existing(r)) /\ Cardinality(Existing(r)) \in Nat
        /\ Cardinality(Existing(r)) + (IF Copying(r) THEN 1 ELSE 0) <= GRingSize
    BY FS_CardinalityType DEF RoomMade
  <2>2. CASE r = R
    <3>1. Existing(r)' \subseteq Existing(r) \cup {op.snap}
      BY <1>2 DEF Existing
    <3>2. /\ IsFiniteSet(Existing(r) \cup {op.snap})
          /\ Cardinality(Existing(r) \cup {op.snap}) <= Cardinality(Existing(r)) + 1
          /\ Cardinality(Existing(r) \cup {op.snap}) \in Nat
      <4>. DEFINE X == Existing(r)
      <4>1. IsFiniteSet(X) /\ Cardinality(X) \in Nat
        BY <2>1
      <4>. HIDE DEF X
      <4>2. /\ IsFiniteSet(X \cup {op.snap})
            /\ Cardinality(X \cup {op.snap}) = IF op.snap \in X THEN Cardinality(X)
                                               ELSE Cardinality(X) + 1
        BY <4>1, FS_AddElement, Zenon
      <4>. QED
        BY <4>1, <4>2, FS_CardinalityType DEF X
    <3>3. /\ IsFiniteSet(Existing(r)') /\ Cardinality(Existing(r)') \in Nat
          /\ Cardinality(Existing(r)') <= Cardinality(Existing(r) \cup {op.snap})
      BY <3>1, <3>2, FS_Subset, FS_CardinalityType
    <3>4. Copying(r)
      BY <2>2 DEF Copying
    <3>. QED
      BY <1>3, <2>1, <3>2, <3>3, <3>4
  <2>3. CASE r # R
    <3>1. Existing(r)' = Existing(r)
      BY <1>2, <2>3 DEF Existing
    <3>. QED
      BY <1>3, <2>1, <3>1
  <2>. QED
    BY <2>2, <2>3
<1>6. ~live'.ro /\ \A r \in Roots, n \in Names : ring'[r][n] # None => ~ring'[r][n].ro
  BY <1>2 DEF RoomMade
<1>7. \A r \in Roots : Cardinality(Existing(r)') \in Nat
  BY <1>5, FS_CardinalityType
<1>. QED
  BY <1>3, <1>4, <1>5, <1>6, <1>7 DEF RoomMade

LEMMA RoomNext ==
  NothingLocked /\ RingIsListed /\ TypeOK /\ RoomMade /\ [Next]_vars => RoomMade'
<1>. SUFFICES ASSUME NothingLocked, RingIsListed, TypeOK, RoomMade, [Next]_vars
              PROVE  RoomMade'
  OBVIOUS
<1>1. ASSUME NEW t \in Times, Rotate(t) PROVE RoomMade'
  BY <1>1, RoomRotate
<1>2. CASE Copy
  BY <1>2, CopyEffect, RoomSnapWrite DEF RoomMade
<1>3. CASE CopyFails
  <2>1. op # None /\ op.stage = "copy" /\ op' = None /\ UNCHANGED <<live, ringSize>>
    BY <1>3 DEF CopyFails
  <2>2. CASE UNCHANGED ring
    BY <2>1, <2>2, RoomFrame DEF RoomMade
  <2>3. CASE ring' = [ring EXCEPT ![op.root][op.snap] = None]
    BY <2>1, <2>3, RoomSnapWrite
  <2>. QED
    BY <1>3, <2>2, <2>3 DEF CopyFails
<1>4. CASE Apply
  <2>1. ~Applied.ro
    <3>1. CASE op.target # None
      BY <3>1 DEF Applied, RoomMade, TypeOK, RawFiles
    <3>2. CASE op.target = None /\ op.kind = "undo"
      <4>1. op.root \in Roots /\ op.src \in Names
        BY <1>4, <3>2, ApplyEffect DEF TypeOK
      <4>. QED
        BY <1>4, <3>2, <4>1, ApplyEffect DEF Applied, Source, CanApply, RoomMade
    <3>3. CASE op.target = None /\ op.kind # "undo"
      BY <1>4, <3>3, ApplyEffect DEF Applied, Source, TypeOK, NothingLocked
    <3>. QED
      BY <3>1, <3>2, <3>3
  <2>. QED
    BY <1>4, <2>1, ApplyEffect, RoomFrame
<1>5. CASE ApplyRefused \/ ApplyTorn \/ GameSave
  <2>1. ~live'.ro
    BY <1>5 DEF ApplyRefused, ApplyTorn, GameSave, RoomMade, TypeOK, RawFiles
  <2>2. UNCHANGED <<ring, ringSize>> /\ (op' = None \/ op' = op)
    BY <1>5 DEF ApplyRefused, ApplyTorn, GameSave
  <2>. QED
    BY <2>1, <2>2, RoomFrame
<1>6. CASE Crash
  <2>1. op # None /\ op' = None /\ UNCHANGED <<live, ringSize>>
    BY <1>6 DEF Crash
  <2>2. CASE UNCHANGED ring
    BY <2>1, <2>2, RoomFrame DEF RoomMade
  <2>3. CASE op.stage = "copy" /\ ring' = [ring EXCEPT ![op.root][op.snap] =
                                              [fmt |-> "raw", data |-> Torn, ro |-> FALSE]]
    BY <2>1, <2>3, TornFile, RoomSnapWrite
  <2>. QED
    BY <1>6, <2>2, <2>3 DEF Crash
<1>7. CASE \E r \in Roots : BeginUndo(r) \/ \E b \in Backups : BeginRestore(r, b)
  <2>1. op'.stage = "rotate" /\ UNCHANGED <<live, ring, ringSize>>
    BY <1>7 DEF BeginUndo, BeginRestore, Begin
  <2>. QED
    BY <2>1, RoomFrame DEF RoomMade
<1>8. CASE WriteMeta \/ WriteMetaFails \/ UNCHANGED vars
  <2>1. UNCHANGED <<live, ring, ringSize>> /\ (op' = None \/ op' = op)
    BY <1>8 DEF WriteMeta, WriteMetaFails, vars
  <2>. QED
    BY <2>1, RoomFrame DEF RoomMade
<1>. QED
  BY <1>1, <1>2, <1>3, <1>4, <1>5, <1>6, <1>7, <1>8 DEF Next

(* A ring never holds more than ring_size snapshots, whatever fails and    *)
(* whatever the clock does, as long as no backup and so no snapshot is     *)
(* marked read-only and the list of 64 entries can hold a full ring.       *)
THEOREM RingStaysBounded ==
  ASSUME NothingLocked, RingIsListed PROVE Spec => []RingBounded
<1>1. NothingLocked /\ RingIsListed
  OBVIOUS
<1>2. TypeOK /\ RoomMade => RingBounded
  <2>. SUFFICES ASSUME TypeOK, RoomMade, NEW r \in Roots
                PROVE  Cardinality(Existing(r)) <= GRingSize
    BY DEF RingBounded
  <2>1. IsFiniteSet(Existing(r))
        /\ Cardinality(Existing(r)) + (IF Copying(r) THEN 1 ELSE 0) <= GRingSize
    BY DEF RoomMade
  <2>2. Cardinality(Existing(r)) \in Nat /\ GRingSize \in Nat
    BY <2>1, FS_CardinalityType, RingSizePositive
  <2>. QED
    BY <2>1, <2>2
<1>. QED
  BY <1>1, <1>2, TypeInit, TypeNext, RoomInit, RoomNext, PTL DEF Spec
-----------------------------------------------------------------------------
(***************************************************************************)
(* The life of the snapshot that undo needs.  Rotation takes it when       *)
(* enough newer ones are listed; the newer ones are counted by attempts,   *)
(* of which a command that has made room but not copied yet is one ahead.  *)
(* The hypothesis on MaxAttempts says no more than that the count is not   *)
(* cut off before it reaches a ring's size.                                *)
(***************************************************************************)
AttemptsCounted == MaxAttempts >= 5 /\ \A s \in RingSizes : MaxAttempts >= s

Newer(r) == {n \in Existing(r) : Older(meta[r].ring, n)}

CountedAt(r) ==
  meta[r] # None /\ attempts[r] < GRingSize
    => /\ ring[r][meta[r].ring] # None
       /\ IsFiniteSet(Newer(r))
       /\ Cardinality(Newer(r)) + (IF Copying(r) THEN 1 ELSE 0) <= attempts[r]

NewerCounted == \A r \in Roots : CountedAt(r)

LEMMA NewerInit == Init => NewerCounted
BY DEF Init, NewerCounted, CountedAt

(* Steps that write no metadata, bring no snapshot that was not there, and *)
(* keep the one that metadata names.                                       *)
LEMMA NewerFrame ==
  ASSUME TypeOK, NewerCounted, UNCHANGED <<ringSize, attempts>>,
         \A r \in Roots : meta'[r] # None => meta'[r] = meta[r],
         \A r \in Roots, n \in Names : ring'[r][n] # None => ring[r][n] # None,
         \A r \in Roots : meta[r] # None => ring'[r][meta[r].ring] = ring[r][meta[r].ring],
         op' = None \/ op' = op \/ op'.stage # "copy"
  PROVE  NewerCounted'
<1>1. SUFFICES ASSUME NEW r \in Roots, meta'[r] # None, attempts'[r] < GRingSize'
               PROVE  /\ ring'[r][meta'[r].ring] # None
                      /\ IsFiniteSet(Newer(r)')
                      /\ Cardinality(Newer(r)') + (IF Copying(r)' THEN 1 ELSE 0) <= attempts'[r]
  BY DEF NewerCounted, CountedAt
<1>2. meta'[r] = meta[r] /\ meta[r] # None /\ attempts'[r] = attempts[r] /\ attempts[r] \in Nat
      /\ GRingSize' = GRingSize
  BY <1>1 DEF GRingSize, TypeOK
<1>3. /\ ring[r][meta[r].ring] # None /\ IsFiniteSet(Newer(r))
      /\ Cardinality(Newer(r)) + (IF Copying(r) THEN 1 ELSE 0) <= attempts[r]
  BY <1>1, <1>2 DEF NewerCounted, CountedAt
<1>4. Newer(r)' \subseteq Newer(r)
  BY <1>2 DEF Newer, Existing
<1>5. IsFiniteSet(Newer(r)') /\ Cardinality(Newer(r)') <= Cardinality(Newer(r))
      /\ Cardinality(Newer(r)') \in Nat /\ Cardinality(Newer(r)) \in Nat
  BY <1>3, <1>4, FS_Subset, FS_CardinalityType
<1>6. Copying(r)' => Copying(r)
  BY DEF Copying
<1>. QED
  BY <1>2, <1>3, <1>5, <1>6

LEMMA NewerRotate ==
  ASSUME TypeOK, OrderInv, NewerCounted, ClockAdvances, AttemptsCounted, NEW t \in Times, Rotate(t)
  PROVE  NewerCounted'
<1>1. SUFFICES ASSUME NEW r \in Roots, meta'[r] # None, attempts'[r] < GRingSize'
               PROVE  /\ ring'[r][meta'[r].ring] # None
                      /\ IsFiniteSet(Newer(r)')
                      /\ Cardinality(Newer(r)') + (IF Copying(r)' THEN 1 ELSE 0) <= attempts'[r]
  BY DEF NewerCounted, CountedAt
<1>2. meta' = meta /\ GRingSize' = GRingSize /\ GRingSize \in Nat /\ GRingSize <= MaxAttempts
  BY RotateEffect, RingSizePositive, RingRestoreAssumption DEF GRingSize, AttemptsCounted, TypeOK
<1>3. attempts[r] \in 0 .. MaxAttempts /\ MaxAttempts \in Nat
  BY RingRestoreAssumption DEF TypeOK
<1>4. op.root \in Roots /\ op'.root = op.root /\ op.stage = "rotate" /\ ~Copying(r)
  BY RotateEffect DEF Copying
<1>5. meta[r].ring \in Names
  BY <1>1, <1>2 DEF TypeOK, Metas
<1>6. attempts' = [attempts EXCEPT ![op.root] = Saturated(@)]
  BY DEF Rotate
<1>7. CASE r # op.root
  <2>1. attempts'[r] = attempts[r] /\ ring'[r] = ring[r] /\ ~Copying(r)'
    BY <1>4, <1>6, <1>7, RotateEffect DEF Copying, TypeOK
  <2>2. Newer(r)' = Newer(r)
    BY <1>2, <2>1 DEF Newer, Existing
  <2>3. /\ ring[r][meta[r].ring] # None /\ IsFiniteSet(Newer(r))
        /\ Cardinality(Newer(r)) + (IF Copying(r) THEN 1 ELSE 0) <= attempts[r]
    BY <1>1, <1>2, <2>1 DEF NewerCounted, CountedAt
  <2>. QED
    BY <1>2, <1>4, <2>1, <2>2, <2>3
<1>8. CASE r = op.root
  <2>1. attempts'[r] = attempts[r] + 1 /\ attempts[r] + 1 < GRingSize
    BY <1>1, <1>2, <1>3, <1>6, <1>8 DEF TypeOK, Saturated
  <2>2. /\ ring[r][meta[r].ring] # None /\ IsFiniteSet(Newer(r))
        /\ Cardinality(Newer(r)) + 0 <= attempts[r]
    BY <1>1, <1>2, <1>3, <1>4, <2>1 DEF NewerCounted, CountedAt
  <2>3. PICK L \in Listings(op.root) : ring' = [ring EXCEPT ![op.root] = Rotated(op.root, L)]
    BY DEF Rotate
  <2>4. L \subseteq Existing(r)
    BY <1>8, <2>3 DEF Listings
  <2>. DEFINE N == {m \in L : Older(meta[r].ring, m)}
  <2>5. Cardinality(N) < GRingSize - 1
    <3>1. N \subseteq Newer(r)
      BY <2>4 DEF Newer
    <3>2. Cardinality(N) <= Cardinality(Newer(r)) /\ Cardinality(N) \in Nat
          /\ Cardinality(Newer(r)) \in Nat
      BY <2>2, <3>1, FS_Subset, FS_CardinalityType
    <3>. HIDE DEF N
    <3>. QED
      BY <1>2, <1>3, <2>1, <2>2, <3>2
  <2>6. meta[r].ring \notin Doomed(L)
    <3>1. Cardinality(N) \in Nat
      BY <2>2, <2>4, FS_Subset, FS_CardinalityType DEF Newer
    <3>2. ~(Cardinality(N) >= GRingSize - 1)
      <4>. HIDE DEF N
      <4>. QED
        BY <1>2, <2>5, <3>1
    <3>. QED
      BY <3>2, Zenon DEF Doomed
  <2>7. ring'[r][meta[r].ring] # None
    BY <1>4, <1>5, <1>8, <2>2, <2>3, <2>6 DEF Rotated, TypeOK
  <2>8. Newer(r)' \subseteq Newer(r)
    <3>1. \A n \in Names : ring'[r][n] # None => ring[r][n] # None
      BY RotateEffect
    <3>. QED
      BY <1>2, <3>1 DEF Newer, Existing
  <2>9. IsFiniteSet(Newer(r)') /\ Cardinality(Newer(r)') <= Cardinality(Newer(r))
        /\ Cardinality(Newer(r)') \in Nat /\ Cardinality(Newer(r)) \in Nat
    BY <2>2, <2>8, FS_Subset, FS_CardinalityType
  <2>. QED
    BY <1>2, <1>3, <2>1, <2>2, <2>7, <2>9
<1>. QED
  BY <1>7, <1>8

(* A command's own snapshot is the one that rotation had been counted for. *)
LEMMA NewerSnapWrite ==
  ASSUME TypeOK, OrderInv, NewerCounted, op # None, op.stage = "copy",
         NEW f \in RawFiles \cup {None},
         ring' = [ring EXCEPT ![op.root][op.snap] = f],
         UNCHANGED <<meta, now, ringSize, attempts>>, op' = None \/ op'.stage # "copy"
  PROVE  NewerCounted'
<1>1. SUFFICES ASSUME NEW r \in Roots, meta[r] # None, attempts[r] < GRingSize
               PROVE  /\ ring'[r][meta[r].ring] # None
                      /\ IsFiniteSet(Newer(r)')
                      /\ Cardinality(Newer(r)') + (IF Copying(r)' THEN 1 ELSE 0) <= attempts[r]
  BY DEF NewerCounted, CountedAt, GRingSize
<1>2. ~Copying(r)' /\ attempts[r] \in Nat
  BY DEF Copying, TypeOK
<1>3. /\ ring[r][meta[r].ring] # None /\ IsFiniteSet(Newer(r))
      /\ Cardinality(Newer(r)) + (IF Copying(r) THEN 1 ELSE 0) <= attempts[r]
  BY <1>1 DEF NewerCounted, CountedAt
<1>4. ring'[r][meta[r].ring] # None
  BY <1>1, <1>3, SnapWriteInOrder
<1>5. Cardinality(Newer(r)) \in Nat
  BY <1>3, FS_CardinalityType
<1>6. CASE r = op.root
  <2>1. Newer(r)' \subseteq Newer(r) \cup {op.snap}
    BY SnapWriteInOrder DEF Newer, Existing
  <2>2. /\ IsFiniteSet(Newer(r) \cup {op.snap})
        /\ Cardinality(Newer(r) \cup {op.snap}) <= Cardinality(Newer(r)) + 1
        /\ Cardinality(Newer(r) \cup {op.snap}) \in Nat
    <3>. DEFINE X == Newer(r)
    <3>1. IsFiniteSet(X) /\ Cardinality(X) \in Nat
      BY <1>3, <1>5
    <3>. HIDE DEF X
    <3>2. /\ IsFiniteSet(X \cup {op.snap})
          /\ Cardinality(X \cup {op.snap}) = IF op.snap \in X THEN Cardinality(X)
                                             ELSE Cardinality(X) + 1
      BY <3>1, FS_AddElement, Zenon
    <3>. QED
      BY <3>1, <3>2, FS_CardinalityType DEF X
  <2>3. /\ IsFiniteSet(Newer(r)') /\ Cardinality(Newer(r)') \in Nat
        /\ Cardinality(Newer(r)') <= Cardinality(Newer(r) \cup {op.snap})
    BY <2>1, <2>2, FS_Subset, FS_CardinalityType
  <2>4. Copying(r)
    BY <1>6 DEF Copying
  <2>. QED
    BY <1>2, <1>3, <1>4, <1>5, <2>2, <2>3, <2>4
<1>7. CASE r # op.root
  <2>1. Newer(r)' = Newer(r) /\ ~Copying(r)
    BY <1>7, SnapWriteInOrder DEF Newer, Existing, Copying
  <2>. QED
    BY <1>2, <1>3, <1>4, <1>5, <2>1
<1>. QED
  BY <1>6, <1>7

(* The snapshot that new metadata names is there and the newest.           *)
LEMMA NewerWriteMeta ==
  ASSUME TypeOK, OrderInv, NewerCounted, WriteMeta
  PROVE  NewerCounted'
<1>1. /\ op.root \in Roots /\ op.snap \in Names /\ op # None /\ op.stage = "meta"
      /\ op' = None /\ UNCHANGED <<ring, ringSize>>
      /\ meta' = [meta EXCEPT ![op.root] = [ring |-> op.snap, target |-> op.target]]
      /\ attempts' = [attempts EXCEPT ![op.root] = 0]
  BY DEF WriteMeta, TypeOK, Ops
<1>2. SUFFICES ASSUME NEW r \in Roots, meta'[r] # None, attempts'[r] < GRingSize
               PROVE  /\ ring[r][meta'[r].ring] # None
                      /\ IsFiniteSet(Newer(r)')
                      /\ Cardinality(Newer(r)') <= attempts'[r]
  <2>1. \A r \in Roots : attempts'[r] \in Nat /\ ~Copying(r)'
    BY <1>1 DEF TypeOK, Copying
  <2>2. SUFFICES ASSUME NEW r \in Roots, meta'[r] # None, attempts'[r] < GRingSize
                 PROVE  /\ ring[r][meta'[r].ring] # None
                        /\ IsFiniteSet(Newer(r)')
                        /\ Cardinality(Newer(r)') + 0 <= attempts'[r]
    BY <1>1, <2>1 DEF NewerCounted, CountedAt, GRingSize
  <2>3. /\ ring[r][meta'[r].ring] # None /\ IsFiniteSet(Newer(r)')
        /\ Cardinality(Newer(r)') <= attempts'[r]
    BY <1>2, <2>2
  <2>4. Cardinality(Newer(r)') \in Nat
    BY <2>3, FS_CardinalityType
  <2>. QED
    BY <2>3, <2>4
<1>3. CASE r = op.root
  <2>1. meta'[r].ring = op.snap /\ attempts'[r] = 0
    BY <1>1, <1>3 DEF TypeOK
  <2>2. ring[r][op.snap] # None
    BY <1>1, <1>3 DEF OrderInv, SnapKept
  <2>3. op.snap.time = now /\ \A n \in Existing(r) : n.time <= now /\ (n.time = now => n = op.snap)
    BY <1>1, <1>3 DEF OrderInv, NamesInOrder, Existing
  <2>4. now \in Nat /\ \A n \in Existing(r) : n.time \in Nat
    <3>1. now \in Nat
      BY RingRestoreAssumption DEF TypeOK
    <3>. QED
      BY <3>1, RingRestoreAssumption DEF Existing, Names
  <2>5. \A n \in Existing(r) : ~Older(op.snap, n)
    BY <2>3, <2>4 DEF Older
  <2>6. Newer(r)' = {}
    BY <1>1, <2>1, <2>5 DEF Newer, Existing
  <2>. QED
    BY <2>1, <2>2, <2>6, FS_EmptySet
<1>4. CASE r # op.root
  <2>1. meta'[r] = meta[r] /\ attempts'[r] = attempts[r] /\ ~Copying(r)
    BY <1>1, <1>4 DEF TypeOK, Copying
  <2>2. Newer(r)' = Newer(r)
    BY <1>1, <2>1 DEF Newer, Existing
  <2>3. /\ ring[r][meta[r].ring] # None /\ IsFiniteSet(Newer(r))
        /\ Cardinality(Newer(r)) + 0 <= attempts[r]
    BY <1>2, <2>1 DEF NewerCounted, CountedAt
  <2>4. Cardinality(Newer(r)) \in Nat
    BY <2>3, FS_CardinalityType
  <2>. QED
    BY <2>1, <2>2, <2>3, <2>4
<1>. QED
  BY <1>3, <1>4

LEMMA NewerNext ==
  ClockAdvances /\ AttemptsCounted /\ TypeOK /\ OrderInv /\ NewerCounted /\ [Next]_vars
    => NewerCounted'
<1>. SUFFICES ASSUME ClockAdvances, AttemptsCounted, TypeOK, OrderInv, NewerCounted, [Next]_vars
              PROVE  NewerCounted'
  OBVIOUS
<1>1. ASSUME NEW t \in Times, Rotate(t) PROVE NewerCounted'
  BY <1>1, NewerRotate
<1>2. CASE WriteMeta
  BY <1>2, NewerWriteMeta
<1>3. CASE Copy
  BY <1>3, CopyEffect, NewerSnapWrite
<1>4. CASE CopyFails
  <2>1. op # None /\ op.stage = "copy" /\ op' = None
        /\ UNCHANGED <<meta, now, ringSize, attempts>>
    BY <1>4 DEF CopyFails, history
  <2>2. CASE UNCHANGED ring
    BY <2>1, <2>2, NewerFrame
  <2>3. CASE ring' = [ring EXCEPT ![op.root][op.snap] = None]
    BY <2>1, <2>3, NewerSnapWrite
  <2>. QED
    BY <1>4, <2>2, <2>3 DEF CopyFails
<1>5. CASE Crash
  <2>1. op # None /\ op' = None /\ UNCHANGED <<now, ringSize, attempts>>
    BY <1>5 DEF Crash, history
  <2>2. CASE UNCHANGED <<ring, meta>>
    BY <2>1, <2>2, NewerFrame
  <2>3. CASE /\ op.stage = "copy" /\ UNCHANGED meta
             /\ ring' = [ring EXCEPT ![op.root][op.snap] =
                            [fmt |-> "raw", data |-> Torn, ro |-> FALSE]]
    BY <2>1, <2>3, TornFile, NewerSnapWrite
  <2>4. CASE meta' = [meta EXCEPT ![op.root] = None] /\ UNCHANGED ring
    <3>1. \A r \in Roots : meta'[r] # None => meta'[r] = meta[r]
      BY <2>4 DEF TypeOK
    <3>. QED
      BY <2>1, <2>4, <3>1, NewerFrame
  <2>. QED
    BY <1>5, <2>2, <2>3, <2>4 DEF Crash
<1>6. CASE WriteMetaFails
  <2>1. /\ op' = None /\ UNCHANGED <<ring, ringSize, attempts>>
        /\ \A r \in Roots : meta'[r] # None => meta'[r] = meta[r]
    BY <1>6 DEF WriteMetaFails, TypeOK
  <2>. QED
    BY <2>1, NewerFrame
<1>7. CASE \E r \in Roots : BeginUndo(r) \/ \E b \in Backups : BeginRestore(r, b)
  <2>1. op'.stage = "rotate" /\ UNCHANGED <<ring, meta, ringSize, attempts>>
    BY <1>7 DEF BeginUndo, BeginRestore, Begin, history
  <2>. QED
    BY <2>1, NewerFrame
<1>8. CASE Apply
  BY <1>8, ApplyEffect, NewerFrame
<1>9. CASE ApplyRefused \/ ApplyTorn \/ GameSave \/ UNCHANGED vars
  <2>1. UNCHANGED <<ring, meta, ringSize, attempts>> /\ (op' = None \/ op' = op)
    BY <1>9 DEF ApplyRefused, ApplyTorn, GameSave, vars, history
  <2>. QED
    BY <2>1, NewerFrame
<1>. QED
  BY <1>1, <1>2, <1>3, <1>4, <1>5, <1>6, <1>7, <1>8, <1>9 DEF Next

LEMMA Counted ==
  ASSUME ClockAdvances, AttemptsCounted PROVE Spec => [](TypeOK /\ OrderInv /\ NewerCounted)
<1>1. ClockAdvances /\ AttemptsCounted
  OBVIOUS
<1>. QED
  BY <1>1, Ordered, NewerInit, NewerNext, PTL DEF Spec

(* The snapshot that metadata names survives ring_size - 1 further         *)
(* commands of its root, failed and killed ones included, when the clock   *)
(* advances from one snapshot to the next.                                 *)
THEOREM UndoPointSurvives ==
  ASSUME ClockAdvances, AttemptsCounted PROVE Spec => []UndoSurvivesAttempts
<1>1. NewerCounted => UndoSurvivesAttempts
  BY DEF NewerCounted, CountedAt, UndoSurvivesAttempts
<1>. QED
  BY <1>1, Counted, PTL

(* An undo that directly follows a completed full restore of its root      *)
(* finds a snapshot the backend can restore, in any ring of two or more.   *)
THEOREM FullRestoreUndoable ==
  ASSUME ClockAdvances, AttemptsCounted PROVE Spec => []FullRestoreIsUndoable
<1>1. TypeOK /\ OrderInv /\ NewerCounted => FullRestoreIsUndoable
  <2>. SUFFICES ASSUME TypeOK, OrderInv, NewerCounted, op # None, op.kind = "undo",
                       op.stage = "apply", attempts[op.root] = 1, op.target = None,
                       GRingSize # 1
                PROVE  CanApply
    BY DEF FullRestoreIsUndoable, UndoStuck
  <2>1. op.root \in Roots /\ meta[op.root] # None /\ op.src = meta[op.root].ring /\ op.src \in Names
    BY DEF TypeOK, Ops, OrderInv, UndoIsOfMeta
  <2>2. attempts[op.root] < GRingSize
    BY RingSizePositive
  <2>3. ring[op.root][op.src] # None
    BY <2>1, <2>2 DEF NewerCounted, CountedAt
  <2>4. Source = ring[op.root][op.src] /\ Source # None /\ Source.fmt = "raw"
    BY <2>1, <2>3 DEF Source, TypeOK, RawFiles
  <2>. QED
    BY <2>4 DEF CanApply
<1>. QED
  BY <1>1, Counted, PTL
=============================================================================
