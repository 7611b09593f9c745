------------------------- MODULE SaveLocationProofs -------------------------
(***************************************************************************)
(* Proofs about SaveLocation, for any games, account folders, roots, names *)
(* and bounds.                                                             *)
(***************************************************************************)
EXTENDS SaveLocation, WellFoundedInduction, TLAPS

(***************************************************************************)
(* Searches.                                                               *)
(***************************************************************************)
LEMMA SmallestNumber ==
  ASSUME NEW K, K \subseteq Nat, K # {}
  PROVE  \E k \in K : \A m \in K : k <= m
<1>1. PICK k \in K : \A m \in K : ~(<<m, k>> \in OpToRel(<, Nat))
  BY NatLessThanWellFounded, WFMin
<1>2. ASSUME NEW m \in K PROVE k <= m
  <2>1. m \in Nat /\ k \in Nat
    OBVIOUS
  <2>2. m < k => <<m, k>> \in OpToRel(<, Nat)
    BY <2>1 DEF OpToRel
  <2>3. ~(m < k)
    BY <1>1, <2>2, Zenon
  <2>. QED
    BY <2>1, <2>3
<1>. QED
  BY <1>2

(* The folders that a backend looks through.                               *)
Valid(g) ==
  CASE g = "er"  -> Decimal  [] g = "ds3" -> Hex
    [] g = "dsr" -> Decimal \cap UpTo(10) [] g = "ds2" -> Hex \cap Sixteen
    [] g = "sekiro" -> Decimal \cap UpTo(20)

LEMMA FolderNumbers == Folders \subseteq Nat
<1>1. Folders = 1 .. Len(Listing) /\ Len(Listing) \in Nat
  BY SaveLocationAssumption DEF Folders
<1>. QED
  BY <1>1

(* Both searches of a backend go through the same folders.                 *)
LEMMA BothSearches ==
  ASSUME NEW g \in Games
  PROVE  /\ Valid(g) \subseteq Folders
         /\ DefaultDir(g) = FirstWith(g, Valid(g))
         /\ Discovered(g) = SaveIn(g, FirstWith(g, Valid(g)))
<1>. USE DEF Valid, DefaultDir, Discovered
<1>0. g \in {"er", "ds3", "dsr", "ds2", "sekiro"}
  BY SaveLocationAssumption
<1>1. CASE g = "er"
  BY <1>1 DEF Decimal, er_get_default_save_dir, er_resolve_save_path
<1>2. CASE g = "ds3"
  BY <1>2 DEF Hex, ds3_get_default_save_dir, ds3_resolve_save_path
<1>3. CASE g = "dsr"
  BY <1>3 DEF Decimal, dsr_get_default_save_dir, dsr_resolve_save_path
<1>4. CASE g = "ds2"
  BY <1>4 DEF Hex, ds2_get_default_save_dir, ds2_resolve_save_path
<1>5. CASE g = "sekiro"
  BY <1>5 DEF Decimal, sekiro_get_default_save_dir, sekiro_resolve_save_path
<1>. QED
  BY <1>0, <1>1, <1>2, <1>3, <1>4, <1>5

(* A search ends with the first folder that has a save, if one has.        *)
LEMMA FirstFound ==
  ASSUME NEW g \in Games, NEW valid, valid \subseteq Folders, NEW n, n = FirstWith(g, valid)
  PROVE  \/ n = None /\ \A m \in valid : files[<<g, m>>] = None
         \/ /\ n \in valid /\ files[<<g, n>>] # None
            /\ \A m \in valid : files[<<g, m>>] # None => n <= m
<1>. DEFINE found == {m \in valid : files[<<g, m>>] # None}
<1>1. found \subseteq Nat
  BY FolderNumbers
<1>2. CASE found = {}
  BY <1>2 DEF FirstWith
<1>3. CASE found # {}
  <2>1. \E k \in found : \A m \in found : k <= m
    BY <1>1, <1>3, SmallestNumber
  <2>2. n = CHOOSE k \in found : \A m \in found : k <= m
    BY <1>3 DEF FirstWith
  <2>3. n \in found /\ \A m \in found : n <= m
    BY <2>1, <2>2
  <2>. QED
    BY <2>3
<1>. QED
  BY <1>2, <1>3

(* A name that is made up is that of no profile.                           *)
LEMMA UniqueNameIsFree ==
  ASSUME NEW g, UniqueName(g) # None
  PROVE  ~InUse(UniqueName(g))
<1>. DEFINE free == {k \in 1 .. MaxSuffix : ~InUse(<<g, k>>)}
            best == CHOOSE k \in free : \A m \in free : k <= m
<1>0. MaxSuffix \in Nat
  BY SaveLocationAssumption
<1>a. free # {}
  BY DEF UniqueName
<1>b. free \subseteq Nat
  BY <1>0
<1>1. free \subseteq Nat /\ free # {}
  BY <1>a, <1>b
<1>2. \E k \in free : \A m \in free : k <= m
  BY <1>1, SmallestNumber
<1>3. best \in free
  BY <1>2
<1>4. UniqueName(g) = <<g, best>>
  BY <1>1 DEF UniqueName
<1>. QED
  BY <1>3, <1>4

(***************************************************************************)
(* The invariant.                                                          *)
(***************************************************************************)
Shapes ==
  /\ nextId \in Nat /\ DOMAIN profiles \subseteq Nat
  /\ \A i \in DOMAIN profiles : profiles[i].game \in Games /\ profiles[i].root \in Roots
  /\ active \in DOMAIN profiles \cup {None}
  /\ tree \in Roots \cup {None}
  /\ DOMAIN kept = Roots /\ DOMAIN meta = Roots /\ DOMAIN over = Roots
  /\ dialog # None =>
       /\ dialog = [id |-> dialog.id, name |-> dialog.name, auto |-> dialog.auto,
                    game |-> dialog.game, save |-> dialog.save, root |-> dialog.root,
                    picked |-> dialog.picked]
       /\ dialog.game \in Games /\ dialog.root \in Roots \cup {None}

(* What is noted down is among what was overwritten since.                 *)
NotedDown == \A r \in Roots : meta[r] # None => meta[r] \in over[r]

(* A backup of a profile that leaves its save to discovery is of the first *)
(* account that had a save.                                                *)
FromFirst ==
  \A r \in Roots :
    LET k == kept[r] IN
    k # None /\ k.by.save = None =>
      /\ k.by.game \in Games
      /\ \E n \in Valid(k.by.game) \cap k.among :
           /\ k.from = <<k.by.game, n>>
           /\ \A m \in Valid(k.by.game) \cap k.among : n <= m

(* In the dialog of a new profile the save is that of the chosen game.     *)
PickedInDialog ==
  dialog # None /\ dialog.id = None => (dialog.save # None => dialog.picked = dialog.game)

(* A name that was typed is not the automatic one.                         *)
TypedIsKept == dialog # None /\ typed # None => dialog.name = typed /\ typed # dialog.auto

AutoIsFree == dialog # None /\ dialog.id = None /\ dialog.auto # None => ~InUse(dialog.auto)

Inv == Shapes /\ NotedDown /\ FromFirst /\ PickedForItsGame /\ PickedInDialog
         /\ TypedIsKept /\ AutoIsFree

LEMMA InitInv == ASSUME Init PROVE Inv
<1>1. DOMAIN profiles = {} /\ nextId \in Nat
  BY DEF Init
<1>2. Shapes
  BY <1>1 DEF Init, Shapes
<1>3. NotedDown /\ PickedInDialog /\ TypedIsKept /\ AutoIsFree
  BY DEF Init, NotedDown, PickedInDialog, TypedIsKept, AutoIsFree
<1>4. FromFirst
  BY DEF Init, FromFirst
<1>5. PickedForItsGame
  BY <1>1 DEF PickedForItsGame
<1>. QED
  BY <1>2, <1>3, <1>4, <1>5 DEF Inv

(***************************************************************************)
(* The commands, and what happens outside Praxis: no profile and no dialog *)
(* changes.                                                                *)
(***************************************************************************)
LEMMA ElsewhereStep ==
  ASSUME Inv, UNCHANGED <<store, tree, dialog, typed>>,
         DOMAIN kept' = Roots, DOMAIN meta' = Roots, DOMAIN over' = Roots,
         NotedDown', FromFirst'
  PROVE  Inv'
<1>1. UNCHANGED <<profiles, nextId, active, edited, tree, dialog, typed>>
  BY DEF store
<1>2. Shapes'
  BY <1>1 DEF Inv, Shapes
<1>3. PickedForItsGame'
  BY <1>1 DEF Inv, PickedForItsGame
<1>4. PickedInDialog' /\ TypedIsKept'
  BY <1>1 DEF Inv, PickedInDialog, TypedIsKept
<1>5. AutoIsFree'
  BY <1>1 DEF Inv, AutoIsFree, InUse
<1>. QED
  BY <1>2, <1>3, <1>4, <1>5 DEF Inv

(* The save of a profile that names none is the first one found.           *)
LEMMA SaveOfProfile ==
  ASSUME NEW p, p.game \in Games, p.save = None, Present(SaveOf(p))
  PROVE  \E n \in Valid(p.game) \cap Playing(p.game) :
           /\ SaveOf(p) = <<p.game, n>>
           /\ \A m \in Valid(p.game) \cap Playing(p.game) : n <= m
<1>. DEFINE g == p.game
            n == FirstWith(g, Valid(g))
<1>1. SaveOf(p) = SaveIn(g, n) /\ Valid(g) \subseteq Folders
  BY BothSearches DEF SaveOf
<1>. HIDE DEF n
<1>2. n # None /\ SaveOf(p) = <<g, n>>
  BY <1>1 DEF SaveIn, Present
<1>3. n \in Valid(g) /\ files[<<g, n>>] # None /\ \A m \in Valid(g) : files[<<g, m>>] # None => n <= m
  BY <1>1, <1>2, FirstFound DEF n
<1>4. n \in Playing(g) /\ \A m \in Playing(g) : files[<<g, m>>] # None
  BY <1>1, <1>3 DEF Playing
<1>. QED
  BY <1>2, <1>3, <1>4

LEMMA BackupFullKeeps == ASSUME Inv, BackupFull PROVE Inv'
<1>. DEFINE p == profiles[active]
            f == SaveOf(p)
            r == IF tree # None THEN tree ELSE p.root
            k == [data |-> files[f], from |-> f, by |-> p, among |-> Playing(p.game)]
<1>1. /\ active # None /\ Present(f) /\ kept' = [kept EXCEPT ![r] = k]
      /\ UNCHANGED <<files, meta, over, store, tree, dialog, typed>>
  BY DEF BackupFull, Command
<1>2. p.game \in Games /\ DOMAIN kept = Roots
  BY <1>1 DEF Inv, Shapes
<1>3. p.save = None =>
        \E n \in Valid(p.game) \cap Playing(p.game) :
          f = <<p.game, n>> /\ \A m \in Valid(p.game) \cap Playing(p.game) : n <= m
  BY <1>1, <1>2, SaveOfProfile
<1>4. k.by = p /\ k.from = f /\ k.among = Playing(p.game)
  OBVIOUS
<1>. HIDE DEF k
<1>5. ASSUME NEW x \in Roots, kept'[x] # None, kept'[x].by.save = None
      PROVE  /\ kept'[x].by.game \in Games
             /\ \E n \in Valid(kept'[x].by.game) \cap kept'[x].among :
                  /\ kept'[x].from = <<kept'[x].by.game, n>>
                  /\ \A m \in Valid(kept'[x].by.game) \cap kept'[x].among : n <= m
  <2>1. CASE x = r
    <3>1. kept'[x] = k
      BY <1>1, <1>2, <2>1
    <3>. QED
      BY <1>2, <1>3, <1>4, <1>5, <3>1
  <2>2. CASE x # r
    <3>1. kept'[x] = kept[x]
      BY <1>1, <1>2, <2>2
    <3>. QED
      BY <1>5, <3>1 DEF Inv, FromFirst
  <2>. QED
    BY <2>1, <2>2
<1>6. FromFirst'
  BY <1>5 DEF FromFirst
<1>. QED
  BY <1>1, <1>2, <1>6, ElsewhereStep DEF Inv, Shapes, NotedDown

LEMMA OverwrittenKeeps ==
  ASSUME Inv, NEW f, NEW data, NEW root, Overwritten(f, data, root)
  PROVE  Inv'
<1>. DEFINE m == [save |-> f, data |-> files[f]]
<1>0. /\ Noted(m, data, root) \/ Unnoted(m, data, root)
      /\ UNCHANGED <<kept, store, tree, dialog, typed>>
  BY DEF Overwritten
<1>. HIDE DEF m
<1>1. \/ /\ meta' = [meta EXCEPT ![root] = m]
         /\ over' = [over EXCEPT ![root] = {m}]
      \/ /\ meta' \in {meta, [meta EXCEPT ![root] = None]}
         /\ over' = [over EXCEPT ![root] = @ \cup {m}]
  BY <1>0 DEF Noted, Unnoted
<1>2. DOMAIN meta = Roots /\ DOMAIN over = Roots /\ NotedDown
  BY DEF Inv, Shapes
<1>3. DOMAIN meta' = Roots /\ DOMAIN over' = Roots
  BY <1>1, <1>2
<1>4. ASSUME NEW r \in Roots, meta'[r] # None PROVE meta'[r] \in over'[r]
  <2>1. CASE r # root
    BY <1>1, <1>2, <1>4, <2>1 DEF NotedDown
  <2>2. CASE r = root /\ meta' = [meta EXCEPT ![root] = m] /\ over' = [over EXCEPT ![root] = {m}]
    BY <1>2, <2>2
  <2>3. CASE /\ r = root /\ meta' \in {meta, [meta EXCEPT ![root] = None]}
             /\ over' = [over EXCEPT ![root] = @ \cup {m}]
    BY <1>2, <1>4, <2>3 DEF NotedDown
  <2>. QED
    BY <1>1, <2>1, <2>2, <2>3
<1>5. NotedDown'
  BY <1>4 DEF NotedDown
<1>6. FromFirst'
  BY <1>0 DEF Inv, FromFirst
<1>7. UNCHANGED <<store, tree, dialog, typed>> /\ DOMAIN kept' = Roots
  BY <1>0 DEF Inv, Shapes
<1>. QED
  BY <1>3, <1>5, <1>6, <1>7, ElsewhereStep

LEMMA CommandsKeep ==
  ASSUME Inv, \/ BackupFull \/ Restore \/ Undo
              \/ \E f \in Paths : Removed(f) \/ \E c \in Contents : GameSaves(f, c)
  PROVE  Inv'
<1>1. CASE Restore \/ Undo
  <2>1. PICK f, data, root : Overwritten(f, data, root)
    BY <1>1 DEF Restore, Undo
  <2>. QED
    BY <2>1, OverwrittenKeeps
<1>2. CASE \E f \in Paths : Removed(f) \/ \E c \in Contents : GameSaves(f, c)
  <2>1. UNCHANGED <<kept, meta, over, store, tree, dialog, typed>>
    BY <1>2 DEF Removed, GameSaves
  <2>2. FromFirst'
    BY <2>1 DEF Inv, FromFirst
  <2>. QED
    BY <2>1, <2>2, ElsewhereStep DEF Inv, Shapes, NotedDown
<1>. QED
  BY <1>1, <1>2, BackupFullKeeps

(***************************************************************************)
(* The manager and the choice of a profile.                                *)
(***************************************************************************)
LEMMA DisksStep ==
  ASSUME Inv, UNCHANGED disks, Shapes', PickedForItsGame', PickedInDialog', TypedIsKept', AutoIsFree'
  PROVE  Inv'
<1>1. UNCHANGED <<kept, meta, over>>
  BY DEF disks
<1>2. FromFirst' /\ NotedDown'
  BY <1>1 DEF Inv, FromFirst, NotedDown
<1>. QED
  BY <1>2 DEF Inv

LEMMA ManagerKeeps ==
  ASSUME Inv, \/ OpenManager \/ CloseManager
              \/ \E i \in DOMAIN profiles : PickProfile(i) \/ DeleteProfile(i)
  PROVE  Inv'
<1>0. UNCHANGED <<disks, dialog, typed, edited, nextId>> /\ UNCHANGED <<kept, meta, over>>
  BY DEF OpenManager, CloseManager, PickProfile, DeleteProfile, store, disks
<1>1. CASE OpenManager
  <2>1. UNCHANGED <<profiles, active, tree>>
    BY <1>1 DEF OpenManager, store
  <2>2. Shapes' /\ PickedForItsGame'
    BY <1>0, <2>1 DEF Inv, Shapes, PickedForItsGame
  <2>3. PickedInDialog' /\ TypedIsKept' /\ AutoIsFree'
    BY <1>0, <2>1 DEF Inv, PickedInDialog, TypedIsKept, AutoIsFree, InUse
  <2>. QED
    BY <1>0, <2>2, <2>3, DisksStep
<1>2. CASE CloseManager \/ \E i \in DOMAIN profiles : PickProfile(i)
  <2>1. /\ UNCHANGED profiles /\ active' \in DOMAIN profiles \cup {None}
        /\ tree' = tree \/ \E i \in DOMAIN profiles : tree' = profiles[i].root
    BY <1>2 DEF CloseManager, PickProfile, RootShown, store, Inv, Shapes
  <2>2. Shapes' /\ PickedForItsGame'
    BY <1>0, <2>1 DEF Inv, Shapes, PickedForItsGame
  <2>3. PickedInDialog' /\ TypedIsKept' /\ AutoIsFree'
    BY <1>0, <2>1 DEF Inv, PickedInDialog, TypedIsKept, AutoIsFree, InUse
  <2>. QED
    BY <1>0, <2>2, <2>3, DisksStep
<1>3. ASSUME NEW i \in DOMAIN profiles, DeleteProfile(i) PROVE Inv'
  <2>1. /\ dialog = None /\ tree' = tree
        /\ DOMAIN profiles' = DOMAIN profiles \ {i}
        /\ \A j \in DOMAIN profiles' : profiles'[j] = profiles[j]
        /\ active' = IF active # i THEN active
                     ELSE IF DOMAIN profiles' = {} THEN None
                     ELSE CHOOSE j \in DOMAIN profiles' : \A k \in DOMAIN profiles' : j <= k
    BY <1>3 DEF DeleteProfile
  <2>2. DOMAIN profiles' \subseteq Nat
    BY <2>1 DEF Inv, Shapes
  <2>3. active' \in DOMAIN profiles' \cup {None}
    <3>1. CASE active # i \/ DOMAIN profiles' = {}
      BY <2>1, <3>1 DEF Inv, Shapes
    <3>2. CASE active = i /\ DOMAIN profiles' # {}
      <4>. DEFINE D == DOMAIN profiles'
      <4>1. D \subseteq Nat /\ D # {}
        BY <2>2, <3>2
      <4>2. active' = CHOOSE j \in D : \A k \in D : j <= k
        BY <2>1, <3>2
      <4>. HIDE DEF D
      <4>3. \E j \in D : \A k \in D : j <= k
        BY <4>1, SmallestNumber
      <4>4. active' \in D
        BY <4>2, <4>3
      <4>. QED
        BY <4>4 DEF D
    <3>. QED
      BY <3>1, <3>2
  <2>4. Shapes' /\ PickedForItsGame'
    BY <1>0, <2>1, <2>2, <2>3 DEF Inv, Shapes, PickedForItsGame
  <2>5. PickedInDialog' /\ TypedIsKept' /\ AutoIsFree'
    BY <1>0, <2>1 DEF PickedInDialog, TypedIsKept, AutoIsFree
  <2>. QED
    BY <1>0, <2>4, <2>5, DisksStep
<1>. QED
  BY <1>1, <1>2, <1>3

(***************************************************************************)
(* The dialog.                                                             *)
(***************************************************************************)
DialogType(d) ==
  /\ d = [id |-> d.id, name |-> d.name, auto |-> d.auto, game |-> d.game,
          save |-> d.save, root |-> d.root, picked |-> d.picked]
  /\ d.game \in Games /\ d.root \in Roots \cup {None}

(* A step in which only the dialog changes.                                *)
LEMMA DialogStep ==
  ASSUME Inv, UNCHANGED <<disks, store, tree>>, DialogType(dialog'),
         dialog'.id = None => /\ dialog'.save # None => dialog'.picked = dialog'.game
                              /\ dialog'.auto # None => ~InUse(dialog'.auto),
         typed' # None => dialog'.name = typed' /\ typed' # dialog'.auto
  PROVE  Inv'
<1>1. UNCHANGED <<profiles, nextId, active, edited, tree, kept, meta, over>>
  BY DEF store, disks
<1>2. Shapes'
  BY <1>1 DEF Inv, Shapes, DialogType
<1>3. PickedForItsGame'
  BY <1>1 DEF Inv, PickedForItsGame
<1>4. PickedInDialog' /\ TypedIsKept'
  BY DEF PickedInDialog, TypedIsKept
<1>5. AutoIsFree'
  BY <1>1 DEF AutoIsFree, InUse
<1>. QED
  BY <1>2, <1>3, <1>4, <1>5, DisksStep

LEMMA OpeningKeeps ==
  ASSUME Inv, OpenAdd \/ \E i \in DOMAIN profiles : OpenEdit(i)
  PROVE  Inv'
<1>1. CASE OpenAdd
  <2>1. /\ dialog' = [id |-> None, name |-> UniqueName("er"), auto |-> UniqueName("er"),
                      game |-> "er", save |-> None, root |-> None, picked |-> None]
        /\ typed' = None /\ UNCHANGED <<disks, store, tree>>
    BY <1>1 DEF OpenAdd, Opened
  <2>2. DialogType(dialog') /\ dialog'.save = None /\ dialog'.auto = UniqueName("er")
    BY <2>1, SaveLocationAssumption DEF DialogType
  <2>. QED
    BY <2>1, <2>2, UniqueNameIsFree, DialogStep
<1>2. CASE \E i \in DOMAIN profiles : OpenEdit(i)
  <2>1. PICK i \in DOMAIN profiles : OpenEdit(i)
    BY <1>2
  <2>2. /\ dialog' = [id |-> i, name |-> profiles[i].name, auto |-> profiles[i].name,
                      game |-> profiles[i].game, save |-> profiles[i].save,
                      root |-> profiles[i].root, picked |-> profiles[i].picked]
        /\ typed' = None /\ UNCHANGED <<disks, store, tree>>
    BY <2>1 DEF OpenEdit, Opened
  <2>3. DialogType(dialog') /\ dialog'.id = i
    BY <2>2 DEF DialogType, Inv, Shapes
  <2>4. i # None
    BY SaveLocationAssumption DEF Inv, Shapes
  <2>. QED
    BY <2>2, <2>3, <2>4, DialogStep
<1>. QED
  BY <1>1, <1>2

LEMMA FillingKeeps ==
  ASSUME Inv,
         \/ \E n \in TypedNames : TypeName(n)
         \/ \E f \in Paths : PickSave(f)
         \/ PickSuggested \/ ClearSave
         \/ \E r \in Roots : PickRoot(r)
         \/ \E g \in Games : ChooseGame(g)
  PROVE  Inv'
<1>. DEFINE e == dialog
<1>1. dialog # None /\ UNCHANGED <<disks, store, tree>>
  BY DEF TypeName, PickSave, PickSuggested, ClearSave, PickRoot, ChooseGame, Filled
<1>2. /\ DialogType(e)
      /\ e.id = None => /\ e.save # None => e.picked = e.game
                        /\ e.auto # None => ~InUse(e.auto)
      /\ typed # None => e.name = typed /\ typed # e.auto
  BY <1>1 DEF Inv, Shapes, DialogType, PickedInDialog, AutoIsFree, TypedIsKept
<1>3. CASE \E n \in TypedNames : TypeName(n)
  <2>1. PICK n : dialog' = [e EXCEPT !.name = n] /\ typed' = IF n = e.auto THEN None ELSE n
    BY <1>3 DEF TypeName, Filled
  <2>2. /\ DialogType(dialog') /\ dialog'.name = n /\ dialog'.id = e.id /\ dialog'.save = e.save
        /\ dialog'.picked = e.picked /\ dialog'.game = e.game /\ dialog'.auto = e.auto
    BY <1>2, <2>1 DEF DialogType
  <2>. QED
    BY <1>1, <1>2, <2>1, <2>2, DialogStep
<1>4. CASE \/ \E f \in Paths : PickSave(f)
           \/ PickSuggested \/ ClearSave
  <2>1. PICK f : /\ \/ dialog' = [e EXCEPT !.save = f, !.picked = e.game]
                    \/ dialog' = [e EXCEPT !.save = None, !.picked = None]
                 /\ typed' = typed
    BY <1>4 DEF PickSave, PickSuggested, ClearSave, Filled
  <2>2. /\ DialogType(dialog') /\ dialog'.name = e.name /\ dialog'.id = e.id
        /\ dialog'.save = None \/ dialog'.picked = dialog'.game
        /\ dialog'.auto = e.auto
    BY <1>2, <2>1 DEF DialogType
  <2>. QED
    BY <1>1, <1>2, <2>1, <2>2, DialogStep
<1>5. CASE \E r \in Roots : PickRoot(r)
  <2>1. PICK r \in Roots : dialog' = [e EXCEPT !.root = r] /\ typed' = typed
    BY <1>5 DEF PickRoot, Filled
  <2>2. /\ DialogType(dialog') /\ dialog'.name = e.name /\ dialog'.id = e.id /\ dialog'.save = e.save
        /\ dialog'.picked = e.picked /\ dialog'.game = e.game /\ dialog'.auto = e.auto
    BY <1>2, <2>1 DEF DialogType
  <2>. QED
    BY <1>1, <1>2, <2>1, <2>2, DialogStep
<1>6. CASE \E g \in Games : ChooseGame(g)
  <2>1. PICK g \in Games :
          /\ dialog' = IF e.id = None
                         THEN [Renewed(e, g) EXCEPT !.save = None, !.picked = None]
                         ELSE [e EXCEPT !.game = g]
          /\ typed' = typed
    BY <1>6 DEF ChooseGame, Filled
  <2>2. CASE e.id # None
    <3>1. /\ DialogType(dialog') /\ dialog'.id = e.id /\ dialog'.name = e.name
          /\ dialog'.auto = e.auto
      BY <1>2, <2>1, <2>2 DEF DialogType
    <3>. QED
      BY <1>1, <1>2, <2>1, <2>2, <3>1, DialogStep
  <2>3. CASE e.id = None /\ e.name = e.auto /\ UniqueName(g) # None
    <3>1. dialog' = [[e EXCEPT !.game = g, !.name = UniqueName(g), !.auto = UniqueName(g)]
                       EXCEPT !.save = None, !.picked = None]
      BY <2>1, <2>3 DEF Renewed
    <3>2. DialogType(dialog') /\ dialog'.save = None /\ dialog'.auto = UniqueName(g)
      BY <1>2, <3>1 DEF DialogType
    <3>3. typed' = None
      BY <1>2, <2>1, <2>3
    <3>. QED
      BY <1>1, <3>2, <3>3, UniqueNameIsFree, DialogStep
  <2>4. CASE e.id = None /\ ~(e.name = e.auto /\ UniqueName(g) # None)
    <3>1. dialog' = [[e EXCEPT !.game = g] EXCEPT !.save = None, !.picked = None]
      BY <2>1, <2>4 DEF Renewed
    <3>2. /\ DialogType(dialog') /\ dialog'.save = None /\ dialog'.id = e.id
          /\ dialog'.name = e.name /\ dialog'.auto = e.auto
      BY <1>2, <3>1 DEF DialogType
    <3>. QED
      BY <1>1, <1>2, <2>1, <3>2, DialogStep
  <2>. QED
    BY <2>2, <2>3, <2>4
<1>. QED
  BY <1>3, <1>4, <1>5, <1>6

LEMMA ClosingKeeps == ASSUME Inv, CommitAdd \/ CommitEdit \/ Cancel PROVE Inv'
<1>. DEFINE e == dialog
<1>1. dialog # None /\ dialog' = None /\ typed' = None /\ UNCHANGED <<disks, tree>>
      /\ UNCHANGED <<kept, meta, over>>
  BY DEF CommitAdd, CommitEdit, Cancel, Closed, disks
<1>2. PickedInDialog' /\ TypedIsKept' /\ AutoIsFree'
  BY <1>1 DEF PickedInDialog, TypedIsKept, AutoIsFree
<1>3. /\ e.game \in Games /\ e.root \in Roots \cup {None}
      /\ e.id = None => (e.save # None => e.picked = e.game)
  BY <1>1 DEF Inv, Shapes, PickedInDialog
<1>4. CASE UNCHANGED <<profiles, nextId, active, edited>>
  <2>1. Shapes' /\ PickedForItsGame'
    BY <1>1, <1>4 DEF Inv, Shapes, PickedForItsGame
  <2>. QED
    BY <1>1, <1>2, <2>1, DisksStep
<1>. DEFINE q == Profile(e)
<1>5. q.game = e.game /\ q.root = e.root /\ q.save = e.save /\ q.picked = e.picked
  BY DEF Profile
<1>. HIDE DEF q
<1>6. CASE CommitAdd /\ Cardinality(DOMAIN profiles) < MaxProfiles
  <2>1. /\ e.id = None /\ e.root # None /\ nextId' = nextId + 1 /\ active' = nextId
        /\ edited' = edited
        /\ profiles' = [i \in DOMAIN profiles \cup {nextId} |-> IF i = nextId THEN q ELSE profiles[i]]
    BY <1>6 DEF CommitAdd, q
  <2>2. /\ DOMAIN profiles' = DOMAIN profiles \cup {nextId} /\ profiles'[nextId] = q
        /\ \A i \in DOMAIN profiles : i # nextId => profiles'[i] = profiles[i]
    BY <2>1
  <2>3. nextId \in Nat
    BY DEF Inv, Shapes
  <2>4. Shapes'
    BY <1>1, <1>3, <1>5, <2>1, <2>2, <2>3 DEF Inv, Shapes
  <2>5. PickedForItsGame'
    BY <1>3, <1>5, <2>1, <2>2 DEF Inv, PickedForItsGame
  <2>. QED
    BY <1>1, <1>2, <2>4, <2>5, DisksStep
<1>7. CASE CommitEdit
  <2>1. /\ e.root # None /\ UNCHANGED <<nextId, active>> /\ edited' = edited \cup {e.id}
        /\ profiles' = [profiles EXCEPT ![e.id] = q]
    BY <1>7 DEF CommitEdit, q
  <2>2. /\ DOMAIN profiles' = DOMAIN profiles
        /\ \A i \in DOMAIN profiles : profiles'[i] = IF i = e.id THEN q ELSE profiles[i]
    BY <2>1
  <2>3. Shapes'
    BY <1>1, <1>3, <1>5, <2>1, <2>2 DEF Inv, Shapes
  <2>4. PickedForItsGame'
    BY <2>1, <2>2 DEF Inv, PickedForItsGame
  <2>. QED
    BY <1>1, <1>2, <2>3, <2>4, DisksStep
<1>. QED
  BY <1>4, <1>6, <1>7 DEF CommitAdd, Cancel, store

LEMMA NextInv == ASSUME Inv, [Next]_vars PROVE Inv'
<1>1. CASE UNCHANGED vars
  <2>1. UNCHANGED <<kept, meta, over, store, tree, dialog, typed>>
    BY <1>1 DEF vars, disks
  <2>2. FromFirst'
    BY <2>1 DEF Inv, FromFirst
  <2>. QED
    BY <2>1, <2>2, ElsewhereStep DEF Inv, Shapes, NotedDown
<1>2. CASE Next
  BY <1>2, CommandsKeep, ManagerKeeps, OpeningKeeps, FillingKeeps, ClosingKeeps DEF Next
<1>. QED
  BY <1>1, <1>2

LEMMA Invariance == Spec => []Inv
<1>1. Init => Inv
  BY InitInv
<1>2. Inv /\ [Next]_vars => Inv'
  BY NextInv
<1>. QED
  BY <1>1, <1>2, PTL DEF Spec

(***************************************************************************)
(* The theorems.                                                           *)
(***************************************************************************)

(* The save of a profile that was never edited was picked for its game, in *)
(* whatever order the fields of the dialog were filled in.                 *)
THEOREM PickedRight == Spec => []PickedForItsGame
<1>1. Inv => PickedForItsGame
  BY DEF Inv
<1>. QED
  BY <1>1, Invariance, PTL

(* The dialog makes up the name of no other profile, and never replaces    *)
(* one that was typed.                                                     *)
THEOREM NamesKept == Spec => []NamesAreRight
<1>1. Inv => NamesAreRight
  BY DEF Inv, TypedIsKept, AutoIsFree, NamesAreRight
<1>. QED
  BY <1>1, Invariance, PTL

(* An undo puts back, where it was, what a restore or undo under that root *)
(* overwrote: the last one if its metadata was written, else one of those  *)
(* since the last that was noted down.  It may itself be cut short.        *)
THEOREM UndoReturns == Spec => UndoGoesBack
<1>1. ASSUME Inv, Undo
      PROVE  \E m \in over[profiles[active].root] :
               files' \in {[files EXCEPT ![m.save] = c] : c \in {m.data, Torn}}
  <2>. DEFINE r == profiles[active].root
              m == meta[r]
              n == [save |-> m.save, data |-> files[m.save]]
  <2>1. active # None /\ m # None /\ Overwritten(m.save, m.data, r)
    BY <1>1 DEF Undo, Command
  <2>2. m \in over[r]
    BY <1>1, <2>1 DEF Inv, Shapes, NotedDown
  <2>3. Noted(n, m.data, r) \/ Unnoted(n, m.data, r)
    BY <2>1 DEF Overwritten
  <2>4. files' = [files EXCEPT ![m.save] = m.data] \/ files' = [files EXCEPT ![m.save] = Torn]
    BY <2>3 DEF Noted, Unnoted
  <2>. QED
    BY <2>2, <2>4
<1>2. Inv /\ [Next]_vars =>
        [Undo => \E m \in over[profiles[active].root] :
                   files' \in {[files EXCEPT ![m.save] = c] : c \in {m.data, Torn}}]_vars
  BY <1>1
<1>. QED
  BY <1>2, Invariance, PTL DEF Spec, UndoGoesBack

(* Who takes the save that the picker opens on gets the one that an empty  *)
(* field would have meant: the two searches of a backend agree.            *)
THEOREM SuggestionsAgree == Spec => SuggestedIsDiscovered
<1>1. ASSUME Inv, PickSuggested PROVE dialog'.save = Discovered(dialog.game)
  <2>1. /\ dialog # None /\ dialog.save = None
        /\ dialog' = [dialog EXCEPT !.save = PickerAt(dialog), !.picked = dialog.game]
    BY <1>1 DEF PickSuggested, PickSave, Filled
  <2>2. DialogType(dialog)
    BY <1>1, <2>1 DEF Inv, Shapes, DialogType
  <2>3. dialog'.save = PickerAt(dialog)
    BY <2>1, <2>2 DEF DialogType
  <2>4. dialog.game \in Games
    BY <2>2 DEF DialogType
  <2>. QED
    BY <2>1, <2>3, <2>4, BothSearches DEF PickerAt
<1>2. Inv /\ [Next]_vars => [PickSuggested => dialog'.save = Discovered(dialog.game)]_vars
  BY <1>1
<1>. QED
  BY <1>2, Invariance, PTL DEF Spec, SuggestedIsDiscovered

(* Discovery moves a profile to another account only for one that is       *)
(* listed earlier and got its save after the backup, or because the        *)
(* account of the backup has none any more.                                *)
THEOREM DiscoveryOnlyForward == Spec => DiscoveryMovesForward
<1>1. ASSUME Inv, Restore, NEW k, k = kept[tree],
             k.by = profiles[active], k.by.save = None, files[k.from] # None,
             NEW f \in Touched \ {k.from}
      PROVE  f[2] < k.from[2] /\ f[2] \notin k.among
  <2>. DEFINE p == profiles[active]
              g == p.game
  <2>1. /\ active # None /\ tree # None /\ k # None
        /\ Overwritten(SaveOf(p), kept[tree].data, p.root)
    BY <1>1 DEF Restore, Command
  <2>2. g \in Games /\ p.root \in Roots /\ tree \in Roots /\ p.save = None
    BY <1>1, <2>1 DEF Inv, Shapes
  <2>3. f = SaveOf(p) /\ Present(SaveOf(p))
    <3>. DEFINE s == SaveOf(p)
                m == [save |-> s, data |-> files[s]]
    <3>1. Present(s) /\ (Noted(m, kept[tree].data, p.root) \/ Unnoted(m, kept[tree].data, p.root))
      BY <2>1 DEF Overwritten
    <3>2. m.save = s
      OBVIOUS
    <3>. HIDE DEF s, m
    <3>3. \E c : files' = [files EXCEPT ![s] = c]
      BY <3>1, <3>2 DEF Noted, Unnoted
    <3>4. f = s
      BY <3>3 DEF Touched
    <3>. QED
      BY <3>1, <3>4 DEF s
  <2>4. PICK n \in Valid(g) \cap Playing(g) :
          f = <<g, n>> /\ \A m \in Valid(g) \cap Playing(g) : n <= m
    BY <2>2, <2>3, SaveOfProfile
  <2>5. PICK o \in Valid(g) \cap k.among :
          k.from = <<g, o>> /\ \A m \in Valid(g) \cap k.among : o <= m
    BY <1>1, <2>1, <2>2 DEF Inv, FromFirst
  <2>6. n \in Nat /\ o \in Nat /\ n # o /\ o \in Folders
    BY <1>1, <2>2, <2>4, <2>5, BothSearches, FolderNumbers
  <2>7. n < o /\ n \notin k.among
    <3>1. o \in Playing(g)
      BY <1>1, <2>5, <2>6 DEF Playing
    <3>2. n < o
      BY <2>4, <2>5, <2>6, <3>1
    <3>. QED
      BY <2>4, <2>5, <2>6, <3>2
  <2>. QED
    BY <2>4, <2>5, <2>7
<1>2. Inv /\ [Next]_vars =>
        [Restore =>
           LET k == kept[tree]
           IN  k.by = profiles[active] /\ k.by.save = None /\ files[k.from] # None =>
                 \A f \in Touched \ {k.from} : f[2] < k.from[2] /\ f[2] \notin k.among]_vars
  BY <1>1
<1>. QED
  BY <1>2, Invariance, PTL DEF Spec, DiscoveryMovesForward
=============================================================================
