------------------------- MODULE ProfileStoreProofs -------------------------
(***************************************************************************)
(* Proofs about ProfileStore, for stores of any capacity and any number of *)
(* ids, whatever happens to Praxis.ini.                                    *)
(***************************************************************************)
EXTENDS ProfileStore, FiniteSetTheorems, WellFoundedInduction, TLAPS

-----------------------------------------------------------------------------
(***************************************************************************)
(* Ids and tables.                                                         *)
(***************************************************************************)

(* A non-empty set of ids has a least element.                             *)
LEMMA LeastExists ==
  ASSUME NEW D \in SUBSET Nat, D # {}
  PROVE  \E i \in D : \A j \in D : i <= j
<1> DEFINE R == OpToRel(<, Nat)
<1>1. \A i, j \in Nat : <<j, i>> \in R <=> j < i
  <2> SUFFICES ASSUME NEW i \in Nat, NEW j \in Nat
               PROVE  <<j, i>> \in R <=> j < i
    OBVIOUS
  <2> DEFINE p == <<j, i>>
  <2>1. p \in Nat \X Nat /\ p[1] = j /\ p[2] = i
    OBVIOUS
  <2> QED
    BY <2>1 DEF OpToRel
<1>2. IsWellFoundedOn(R, Nat)
  BY NatLessThanWellFounded
<1>3. D \subseteq Nat
  OBVIOUS
<1> HIDE DEF R
<1>4. PICK i \in D : \A j \in D : ~ (<<j, i>> \in R)
  BY <1>2, <1>3, WFMin
<1>5. \A j \in D : ~ (j < i)
  BY <1>1, <1>3, <1>4
<1>6. \A j \in D : i <= j
  BY <1>3, <1>5
<1> QED
  BY <1>6

LEMMA GreatestExists ==
  ASSUME NEW n \in Nat, NEW D \in SUBSET (0 .. n), D # {}
  PROVE  \E i \in D : \A j \in D : j <= i
<1> DEFINE E == {n - i : i \in D}
<1>1. E \in SUBSET Nat
  OBVIOUS
<1>2. E # {}
  <2>1. PICK i \in D : TRUE
    OBVIOUS
  <2> QED
    BY <2>1
<1> HIDE DEF E
<1>3. PICK e \in E : \A f \in E : e <= f
  BY <1>1, <1>2, LeastExists
<1>4. PICK i \in D : e = n - i
  BY DEF E
<1>5. \A j \in D : n - j \in E
  BY DEF E
<1>6. \A j \in D : n - i <= n - j
  BY <1>3, <1>4, <1>5
<1> QED
  BY <1>6

LEMMA FirstIsMember ==
  ASSUME NEW D \in SUBSET Nat
  PROVE  /\ D = {} => First(D) = 0
         /\ D # {} => First(D) \in D
         /\ First(D) \in Nat
<1>1. CASE D = {}
  BY <1>1 DEF First
<1>2. CASE D # {}
  <2>1. \E i \in D : \A j \in D : i <= j
    BY <1>2, LeastExists
  <2>2. First(D) \in D
    BY <1>2, <2>1 DEF First
  <2> QED
    BY <1>2, <2>2
<1> QED
  BY <1>1, <1>2

Bounded(D) == \E n \in Nat : D \subseteq 0 .. n

LEMMA NextIdIsFresh ==
  ASSUME NEW D \in SUBSET Nat, Bounded(D)
  PROVE  NextId(D) \in Ids /\ \A i \in D : i < NextId(D)
<1>1. CASE D = {}
  BY <1>1 DEF NextId, Ids
<1>2. CASE D # {}
  <2>1. PICK n \in Nat : D \subseteq 0 .. n
    BY DEF Bounded
  <2>2. \E i \in D : \A j \in D : j <= i
    BY <1>2, <2>1, GreatestExists
  <2> DEFINE m == CHOOSE i \in D : \A j \in D : j <= i
  <2>3. m \in D /\ \A j \in D : j <= m
    BY <2>2
  <2>4. NextId(D) = 1 + m
    BY <1>2 DEF NextId
  <2> HIDE DEF m
  <2> QED
    BY <2>3, <2>4 DEF Ids
<1> QED
  BY <1>1, <1>2

LEMMA RestrictedTable ==
  ASSUME NEW f, NEW V, NEW D, IsTable(f, V)
  PROVE  /\ IsTable(Restricted(f, D), V)
         /\ DOMAIN Restricted(f, D) = DOMAIN f \cap D
         /\ \A i \in DOMAIN f \cap D : Restricted(f, D)[i] = f[i]
BY DEF IsTable, Restricted

LEMMA WithTable ==
  ASSUME NEW f, NEW V, NEW i \in Ids, NEW v \in V, IsTable(f, V)
  PROVE  /\ IsTable(With(f, i, v), V)
         /\ DOMAIN With(f, i, v) = DOMAIN f \cup {i}
         /\ With(f, i, v)[i] = v
         /\ \A j \in DOMAIN f : j # i => With(f, i, v)[j] = f[j]
BY DEF IsTable, With

-----------------------------------------------------------------------------
(***************************************************************************)
(* What every operation preserves of a store, and saving and loading of a  *)
(* file.  The ids of a file are bounded, so that loading finds a largest.  *)
(***************************************************************************)
SoundStore(s) ==
  /\ s \in [games : {s.games}, backups : {s.backups}, activeGame : Nat, activeBackup : Nat,
            nextGame : Ids, nextBackup : Ids]
  /\ IsTable(s.games, Places) /\ IsTable(s.backups, Backups)
  /\ IdsFresh(s) /\ ParentsExist(s) /\ GameActive(s)

SoundFile(d) ==
  /\ d \in [games : {d.games}, backups : {d.backups}, activeGame : Nat, activeBackup : Nat,
            root : Trees, dismissed : BOOLEAN]
  /\ IsTable(d.games, Places) /\ IsTable(d.backups, Backups)
  /\ Bounded(DOMAIN d.games) /\ Bounded(DOMAIN d.backups)
  /\ ParentsExist(d) /\ GameActive(d)

(* A sound store, as a record of sound parts.                              *)
Record(G, B, ag, ab, ng, nb) ==
  [games |-> G, backups |-> B, activeGame |-> ag, activeBackup |-> ab,
   nextGame |-> ng, nextBackup |-> nb]

Sound(G, B, ag, ab, ng, nb) ==
  /\ IsTable(G, Places) /\ IsTable(B, Backups)
  /\ ag \in Nat /\ ab \in Nat /\ ng \in Ids /\ nb \in Ids
  /\ \A g \in DOMAIN G : g < ng
  /\ \A i \in DOMAIN B : i < nb
  /\ ab < nb
  /\ \A i \in DOMAIN B : B[i].parent \in DOMAIN G
  /\ IF DOMAIN G = {} THEN ag = 0 ELSE ag \in DOMAIN G

LEMMA SoundRecord ==
  ASSUME NEW G, NEW B, NEW ag, NEW ab, NEW ng, NEW nb, Sound(G, B, ag, ab, ng, nb)
  PROVE  SoundStore(Record(G, B, ag, ab, ng, nb))
BY DEF Record, Sound, SoundStore, IdsFresh, ParentsExist, GameActive

LEMMA SoundParts ==
  ASSUME NEW s, SoundStore(s)
  PROVE  /\ s = Record(s.games, s.backups, s.activeGame, s.activeBackup, s.nextGame, s.nextBackup)
         /\ Sound(s.games, s.backups, s.activeGame, s.activeBackup, s.nextGame, s.nextBackup)
<1>1. s = Record(s.games, s.backups, s.activeGame, s.activeBackup, s.nextGame, s.nextBackup)
  BY DEF Record, SoundStore
<1>2. Sound(s.games, s.backups, s.activeGame, s.activeBackup, s.nextGame, s.nextBackup)
  BY DEF Sound, SoundStore, IdsFresh, ParentsExist, GameActive
<1> QED
  BY <1>1, <1>2

LEMMA EmptyTableType == \A V : IsTable(EmptyTable, V) /\ DOMAIN EmptyTable = {}
BY DEF EmptyTable, IsTable

LEMMA EmptyStoreSound == SoundStore(profile_store_init)
BY EmptyTableType DEF SoundStore, profile_store_init, IdsFresh, ParentsExist, GameActive, Ids

LEMMA BlankSound == SoundFile(Blank)
<1>1. Bounded({})
  BY DEF Bounded
<1> QED
  BY <1>1, EmptyTableType DEF SoundFile, Blank, ParentsExist, GameActive, Trees

LEMMA AddGameSound ==
  ASSUME NEW s, SoundStore(s), NEW p \in Places
  PROVE  SoundStore(add_game(s, p))
<1> DEFINE main == [parent |-> s.nextGame, name |-> MainName]
           G == With(s.games, s.nextGame, p)
           M == With(s.backups, s.nextBackup, main)
           B == IF RoomForBackup(s) THEN M ELSE s.backups
<1>1. add_game(s, p) = Record(G, B, s.nextGame, s.nextBackup, s.nextGame + 1, s.nextBackup + 1)
  BY DEF add_game, Record
<1>2. Sound(s.games, s.backups, s.activeGame, s.activeBackup, s.nextGame, s.nextBackup)
  BY SoundParts
<1>3. main \in Backups /\ main.parent = s.nextGame
  BY <1>2, ProfileStoreAssumption DEF Sound, Backups
<1>4. IsTable(G, Places) /\ DOMAIN G = DOMAIN s.games \cup {s.nextGame}
  BY <1>2, WithTable DEF Sound
<1> HIDE DEF main
<1>5. /\ IsTable(M, Backups) /\ DOMAIN M = DOMAIN s.backups \cup {s.nextBackup}
      /\ M[s.nextBackup] = main
      /\ \A i \in DOMAIN s.backups : i # s.nextBackup => M[i] = s.backups[i]
  <2>1. IsTable(s.backups, Backups) /\ s.nextBackup \in Ids /\ main \in Backups
    BY <1>2, <1>3 DEF Sound
  <2>2. \A v \in Backups : LET W == With(s.backups, s.nextBackup, v)
                           IN  /\ IsTable(W, Backups)
                               /\ DOMAIN W = DOMAIN s.backups \cup {s.nextBackup}
                               /\ W[s.nextBackup] = v
                               /\ \A j \in DOMAIN s.backups : j # s.nextBackup => W[j] = s.backups[j]
    <3> TAKE v \in Backups
    <3> DEFINE f == s.backups
               i == s.nextBackup
    <3>1. IsTable(f, Backups) /\ i \in Ids
      BY <2>1
    <3> HIDE DEF f, i
    <3>2. /\ IsTable(With(f, i, v), Backups)
          /\ DOMAIN With(f, i, v) = DOMAIN f \cup {i}
          /\ With(f, i, v)[i] = v
          /\ \A j \in DOMAIN f : j # i => With(f, i, v)[j] = f[j]
      BY <3>1, WithTable
    <3> QED
      BY <3>2 DEF f, i
  <2> QED
    BY <2>1, <2>2
<1> HIDE DEF G, M
<1>6. /\ s.nextGame \in Ids /\ s.nextGame + 1 \in Ids /\ s.nextBackup \in Ids /\ s.nextBackup + 1 \in Ids
      /\ \A g \in DOMAIN G : g < s.nextGame + 1
      /\ \A i \in DOMAIN M : i < s.nextBackup + 1
      /\ \A i \in DOMAIN s.backups : i < s.nextBackup + 1
      /\ s.nextBackup < s.nextBackup + 1
  BY <1>2, <1>4, <1>5 DEF Sound, IsTable, Ids
<1>7. \A i \in DOMAIN M : M[i].parent \in DOMAIN G
  BY <1>2, <1>3, <1>4, <1>5 DEF Sound
<1>8. \A i \in DOMAIN s.backups : s.backups[i].parent \in DOMAIN G
  BY <1>2, <1>4 DEF Sound
<1>9. s.nextGame \in DOMAIN G /\ s.nextGame \in Nat /\ s.nextBackup \in Nat
  BY <1>4, <1>6 DEF Ids
<1>10. Sound(G, B, s.nextGame, s.nextBackup, s.nextGame + 1, s.nextBackup + 1)
  <2>1. CASE RoomForBackup(s)
    BY <2>1, <1>4, <1>5, <1>6, <1>7, <1>9 DEF Sound
  <2>2. CASE ~RoomForBackup(s)
    BY <2>2, <1>2, <1>4, <1>6, <1>8, <1>9 DEF Sound
  <2> QED
    BY <2>1, <2>2
<1> QED
  BY <1>1, <1>10, SoundRecord

LEMMA UpdateGameSound ==
  ASSUME NEW s, SoundStore(s), NEW g \in DOMAIN s.games, NEW p \in Places
  PROVE  SoundStore(update_game(s, g, p))
<1> DEFINE G == With(s.games, g, p)
<1>1. Sound(s.games, s.backups, s.activeGame, s.activeBackup, s.nextGame, s.nextBackup)
  BY SoundParts
<1>2. update_game(s, g, p)
        = Record(G, s.backups, s.activeGame, s.activeBackup, s.nextGame, s.nextBackup)
  BY DEF update_game, Record, SoundStore
<1>3. IsTable(s.games, Places) /\ g \in Ids
  BY <1>1 DEF Sound, IsTable
<1>4. IsTable(G, Places) /\ DOMAIN G = DOMAIN s.games
  <2>1. IsTable(G, Places) /\ DOMAIN G = DOMAIN s.games \cup {g}
    BY <1>3, WithTable
  <2> HIDE DEF G
  <2> QED
    BY <2>1
<1> HIDE DEF G
<1>5. Sound(G, s.backups, s.activeGame, s.activeBackup, s.nextGame, s.nextBackup)
  BY <1>1, <1>4 DEF Sound
<1> QED
  BY <1>2, <1>5, SoundRecord

LEMMA DeleteGameSound ==
  ASSUME NEW s, SoundStore(s), NEW g \in DOMAIN s.games
  PROVE  SoundStore(delete_game(s, g))
<1> DEFINE C == Children(s, g)
           G == Restricted(s.games, DOMAIN s.games \ {g})
           B == Restricted(s.backups, DOMAIN s.backups \ C)
           ag == IF s.activeGame = g THEN First(DOMAIN G) ELSE s.activeGame
           ab == IF s.activeBackup \in C THEN First(DOMAIN B) ELSE s.activeBackup
<1>1. Sound(s.games, s.backups, s.activeGame, s.activeBackup, s.nextGame, s.nextBackup)
  BY SoundParts
<1>2. delete_game(s, g) = Record(G, B, ag, ab, s.nextGame, s.nextBackup)
  <2>1. delete_game(s, g)
          = [s EXCEPT !.games = G, !.backups = B, !.activeBackup = ab, !.activeGame = ag]
    BY DEF delete_game
  <2> HIDE DEF G, B, ab, ag
  <2> QED
    BY <2>1 DEF Record, SoundStore
<1>3. /\ IsTable(G, Places) /\ DOMAIN G = DOMAIN s.games \ {g}
      /\ IsTable(B, Backups) /\ DOMAIN B = DOMAIN s.backups \ C
      /\ \A i \in DOMAIN B : B[i] = s.backups[i]
  BY <1>1 DEF Sound, IsTable, Restricted
<1>4. \A i \in DOMAIN B : B[i].parent \in DOMAIN G
  <2> SUFFICES ASSUME NEW i \in DOMAIN B
               PROVE  B[i].parent \in DOMAIN G
    OBVIOUS
  <2>1. i \in DOMAIN s.backups /\ s.backups[i].parent # g
    BY <1>3 DEF Children
  <2> QED
    BY <1>1, <1>3, <2>1 DEF Sound
<1> HIDE DEF C, G, B
<1>5. /\ DOMAIN G = {} => First(DOMAIN G) = 0
      /\ DOMAIN G # {} => First(DOMAIN G) \in DOMAIN G
      /\ First(DOMAIN G) \in Nat
  BY <1>3, FirstIsMember DEF IsTable, Ids
<1>6. /\ DOMAIN B = {} => First(DOMAIN B) = 0
      /\ DOMAIN B # {} => First(DOMAIN B) \in DOMAIN B
      /\ First(DOMAIN B) \in Nat
  BY <1>3, FirstIsMember DEF IsTable, Ids
<1>7. ag \in Nat /\ (IF DOMAIN G = {} THEN ag = 0 ELSE ag \in DOMAIN G)
  BY <1>1, <1>3, <1>5 DEF Sound
<1>8. ab \in Nat /\ ab < s.nextBackup
  BY <1>1, <1>3, <1>6 DEF Sound, Ids
<1>9. Sound(G, B, ag, ab, s.nextGame, s.nextBackup)
  <2> HIDE DEF ag, ab
  <2> QED
    BY <1>1, <1>3, <1>4, <1>7, <1>8 DEF Sound
<1> QED
  BY <1>2, <1>9, SoundRecord

LEMMA AddBackupSound ==
  ASSUME NEW s, SoundStore(s), NEW b \in Backups, b.parent \in DOMAIN s.games
  PROVE  /\ SoundStore(add_backup(s, b))
         /\ s.nextBackup \in DOMAIN add_backup(s, b).backups
         /\ add_backup(s, b).games = s.games
<1> DEFINE f == s.backups
           i == s.nextBackup
           B == With(f, i, b)
<1>1. Sound(s.games, f, s.activeGame, s.activeBackup, s.nextGame, i)
  BY SoundParts
<1>2. add_backup(s, b) = Record(s.games, B, s.activeGame, s.activeBackup, s.nextGame, i + 1)
  <2>1. add_backup(s, b) = [s EXCEPT !.backups = B, !.nextBackup = i + 1]
    BY DEF add_backup
  <2> HIDE DEF B
  <2> QED
    BY <2>1 DEF Record, SoundStore
<1>3. IsTable(f, Backups) /\ i \in Ids
  BY <1>1 DEF Sound
<1>4. /\ i + 1 \in Ids /\ i < i + 1
      /\ \A j \in DOMAIN f : j < i + 1
      /\ s.activeBackup < i + 1
  BY <1>1, <1>3 DEF Sound, IsTable, Ids
<1> HIDE DEF f, i, B
<1>5. /\ IsTable(B, Backups) /\ DOMAIN B = DOMAIN f \cup {i} /\ B[i] = b
      /\ \A j \in DOMAIN f : j # i => B[j] = f[j]
  <2>1. With(f, i, b) = [j \in DOMAIN f \cup {i} |-> IF j = i THEN b ELSE f[j]]
    BY DEF With
  <2> QED
    BY <1>3, <2>1 DEF B, IsTable
<1>6. \A j \in DOMAIN B : B[j].parent \in DOMAIN s.games
  BY <1>1, <1>5 DEF Sound
<1>7. Sound(s.games, B, s.activeGame, s.activeBackup, s.nextGame, i + 1)
  BY <1>1, <1>4, <1>5, <1>6 DEF Sound
<1>8. SoundStore(add_backup(s, b))
  BY <1>2, <1>7, SoundRecord
<1>9. add_backup(s, b).games = s.games /\ add_backup(s, b).backups = B
  BY <1>2 DEF Record
<1> QED
  BY <1>5, <1>8, <1>9 DEF i

LEMMA DeleteBackupSound ==
  ASSUME NEW s, SoundStore(s), NEW i \in DOMAIN s.backups
  PROVE  SoundStore(delete_backup(s, i))
<1> DEFINE B == Restricted(s.backups, DOMAIN s.backups \ {i})
           ab == IF s.activeBackup = i THEN First(DOMAIN B) ELSE s.activeBackup
<1>1. Sound(s.games, s.backups, s.activeGame, s.activeBackup, s.nextGame, s.nextBackup)
  BY SoundParts
<1>2. delete_backup(s, i) = Record(s.games, B, s.activeGame, ab, s.nextGame, s.nextBackup)
  <2>1. delete_backup(s, i) = [s EXCEPT !.backups = B, !.activeBackup = ab]
    BY DEF delete_backup
  <2> HIDE DEF B, ab
  <2> QED
    BY <2>1 DEF Record, SoundStore
<1>3. /\ IsTable(B, Backups) /\ DOMAIN B = DOMAIN s.backups \ {i}
      /\ \A j \in DOMAIN B : B[j] = s.backups[j]
  BY <1>1 DEF Sound, IsTable, Restricted
<1> HIDE DEF B
<1>4. /\ DOMAIN B = {} => First(DOMAIN B) = 0
      /\ DOMAIN B # {} => First(DOMAIN B) \in DOMAIN B
      /\ First(DOMAIN B) \in Nat
  BY <1>3, FirstIsMember DEF IsTable, Ids
<1>5. ab \in Nat /\ ab < s.nextBackup
  BY <1>1, <1>3, <1>4 DEF Sound, Ids
<1>6. \A j \in DOMAIN B : B[j].parent \in DOMAIN s.games
  BY <1>1, <1>3 DEF Sound
<1> HIDE DEF ab
<1>7. Sound(s.games, B, s.activeGame, ab, s.nextGame, s.nextBackup)
  BY <1>1, <1>3, <1>5, <1>6 DEF Sound
<1> QED
  BY <1>2, <1>7, SoundRecord

LEMMA SelectRecord ==
  ASSUME NEW s, SoundStore(s), NEW g, NEW i
  PROVE  [s EXCEPT !.activeGame = g, !.activeBackup = i]
           = Record(s.games, s.backups, g, i, s.nextGame, s.nextBackup)
<1> DEFINE t == [s EXCEPT !.activeGame = g, !.activeBackup = i]
<1>1. t = [s EXCEPT !.activeGame = g, !.activeBackup = i]
  OBVIOUS
<1> HIDE DEF t
<1>2. t = Record(s.games, s.backups, g, i, s.nextGame, s.nextBackup)
  BY <1>1 DEF Record, SoundStore
<1> QED
  BY <1>1, <1>2

(* What the handlers select: a game that is there, and a backup profile    *)
(* whose id has been handed out, or none.                                  *)
LEMMA SelectSound ==
  ASSUME NEW s, SoundStore(s), NEW g \in DOMAIN s.games, NEW i \in Nat, i < s.nextBackup
  PROVE  SoundStore([s EXCEPT !.activeGame = g, !.activeBackup = i])
<1>1. Sound(s.games, s.backups, s.activeGame, s.activeBackup, s.nextGame, s.nextBackup)
  BY SoundParts
<1>2. [s EXCEPT !.activeGame = g, !.activeBackup = i]
        = Record(s.games, s.backups, g, i, s.nextGame, s.nextBackup)
  BY SelectRecord
<1>3. Sound(s.games, s.backups, g, i, s.nextGame, s.nextBackup)
  BY <1>1 DEF Sound, IsTable, Ids
<1> QED
  BY <1>2, <1>3, SoundRecord

LEMMA ChildrenAreIds ==
  ASSUME NEW s, SoundStore(s), NEW g
  PROVE  /\ First(Children(s, g)) \in Nat
         /\ First(Children(s, g)) < s.nextBackup
         /\ Children(s, g) # {} => First(Children(s, g)) \in Children(s, g)
<1>1. Sound(s.games, s.backups, s.activeGame, s.activeBackup, s.nextGame, s.nextBackup)
  BY SoundParts
<1>2. Children(s, g) \subseteq DOMAIN s.backups /\ Children(s, g) \in SUBSET Nat
  BY <1>1 DEF Children, Sound, IsTable, Ids
<1> QED
  BY <1>1, <1>2, FirstIsMember DEF Sound, Ids

LEMMA PickGameSound ==
  ASSUME NEW s, SoundStore(s), NEW g \in DOMAIN s.games
  PROVE  LET t == set_active_game(s, g)
         IN  SoundStore(IF Children(t, g) # {} THEN set_active_backup(t, First(Children(t, g)))
                                               ELSE [t EXCEPT !.activeBackup = 0])
<1> DEFINE t == set_active_game(s, g)
           i == IF s.activeBackup \in Children(s, g) THEN s.activeBackup ELSE First(Children(s, g))
           k == First(Children(s, g))
<1>1. t = [s EXCEPT !.activeGame = g, !.activeBackup = i]
  BY DEF set_active_game
<1>2. /\ i \in Nat /\ i < s.nextBackup
      /\ k \in Nat /\ k < s.nextBackup
      /\ 0 < s.nextBackup
  BY SoundParts, ChildrenAreIds DEF Sound, Ids
<1> HIDE DEF i
<1>3. SoundStore(t)
  <2> HIDE DEF t
  <2>1. SoundStore([s EXCEPT !.activeGame = g, !.activeBackup = i])
    BY <1>2, SelectSound
  <2> QED
    BY <1>1, <2>1
<1>4. /\ t.games = s.games /\ t.backups = s.backups /\ t.nextBackup = s.nextBackup
      /\ t.activeGame = g
  BY <1>1 DEF SoundStore
<1>5. Children(t, g) = Children(s, g)
  BY <1>4 DEF Children
<1>6. \A j \in Nat : j < s.nextBackup => SoundStore([t EXCEPT !.activeBackup = j])
  <2> TAKE j \in Nat
  <2> HAVE j < s.nextBackup
  <2>1. SoundStore([t EXCEPT !.activeGame = g, !.activeBackup = j])
    <3> HIDE DEF t
    <3> QED
      BY <1>3, <1>4, SelectSound
  <2>2. [t EXCEPT !.activeGame = g, !.activeBackup = j] = [t EXCEPT !.activeBackup = j]
    <3> HIDE DEF t
    <3> QED
      BY <1>3, <1>4 DEF SoundStore
  <2> QED
    BY <2>1, <2>2
<1>7. SoundStore([t EXCEPT !.activeBackup = k]) /\ SoundStore([t EXCEPT !.activeBackup = 0])
  BY <1>2, <1>6
<1>8. set_active_backup(t, First(Children(t, g))) = [t EXCEPT !.activeBackup = k]
  BY <1>5 DEF set_active_backup
<1> HIDE DEF t, k
<1> QED
  BY <1>7, <1>8 DEF t

LEMMA PickBackupSound ==
  ASSUME NEW s, SoundStore(s), NEW i \in DOMAIN s.backups
  PROVE  SoundStore(set_active_game(set_active_backup(s, i), s.backups[i].parent))
<1> DEFINE t == set_active_backup(s, i)
           g == s.backups[i].parent
<1>1. Sound(s.games, s.backups, s.activeGame, s.activeBackup, s.nextGame, s.nextBackup)
  BY SoundParts
<1>2. i \in Nat /\ i < s.nextBackup /\ g \in DOMAIN s.games
  BY <1>1 DEF Sound, IsTable, Ids
<1>3. t = [s EXCEPT !.activeBackup = i]
  BY DEF set_active_backup
<1>4. t.backups = s.backups /\ t.activeBackup = i
  BY <1>3 DEF SoundStore
<1>5. i \in Children(t, g)
  BY <1>4 DEF Children
<1>6. set_active_game(t, g) = [t EXCEPT !.activeGame = g, !.activeBackup = i]
  <2> HIDE DEF g, t
  <2> QED
    BY <1>4, <1>5 DEF set_active_game
<1>7. [t EXCEPT !.activeGame = g, !.activeBackup = i] = [s EXCEPT !.activeGame = g, !.activeBackup = i]
  <2> HIDE DEF g
  <2> QED
    BY <1>3 DEF SoundStore
<1>8. SoundStore([s EXCEPT !.activeGame = g, !.activeBackup = i])
  <2> HIDE DEF g
  <2> QED
    BY <1>2, SelectSound
<1> QED
  BY <1>6, <1>7, <1>8

-----------------------------------------------------------------------------
(***************************************************************************)
(* Saving and loading.                                                     *)
(***************************************************************************)

(* What is saved of a sound store is a sound file.                         *)
LEMMA SaveSound ==
  ASSUME NEW s, SoundStore(s), NEW c \in [root : Trees, dismissed : BOOLEAN]
  PROVE  SoundFile(io_save(s, c))
<1> DEFINE r == IF Resolves(s) THEN RootOf(s) ELSE c.root
<1>1. Sound(s.games, s.backups, s.activeGame, s.activeBackup, s.nextGame, s.nextBackup)
  BY SoundParts
<1>2. r \in Trees
  <2>1. CASE Resolves(s)
    <3> DEFINE i == s.activeBackup
               g == s.backups[i].parent
    <3>1. i \in DOMAIN s.backups /\ g \in DOMAIN s.games
      BY <2>1 DEF Resolves
    <3>2. s.games[g] \in Places
      BY <1>1, <3>1 DEF Sound, IsTable
    <3>3. s.backups[i] \in Backups
      BY <1>1, <3>1 DEF Sound, IsTable
    <3>4. s.backups[i].name \in Names
      BY <3>3 DEF Backups
    <3>5. r = <<s.games[g], s.backups[i].name>>
      BY <2>1 DEF RootOf
    <3> QED
      BY <3>2, <3>4, <3>5 DEF Trees
  <2> QED
    BY <2>1
<1> HIDE DEF r
<1>3. io_save(s, c) = [games |-> s.games, backups |-> s.backups,
                       activeGame |-> s.activeGame, activeBackup |-> s.activeBackup,
                       root |-> r, dismissed |-> c.dismissed]
  BY DEF io_save, r
<1>4. Bounded(DOMAIN s.games) /\ Bounded(DOMAIN s.backups)
  <2>1. s.nextGame \in Nat /\ s.nextBackup \in Nat
    BY <1>1 DEF Sound, Ids
  <2>2. DOMAIN s.games \subseteq 0 .. s.nextGame /\ DOMAIN s.backups \subseteq 0 .. s.nextBackup
    BY <1>1 DEF Sound, IsTable, Ids
  <2> QED
    BY <2>1, <2>2 DEF Bounded
<1>5. c.dismissed \in BOOLEAN
  OBVIOUS
<1> DEFINE d == io_save(s, c)
<1>6. /\ d.games = s.games /\ d.backups = s.backups
      /\ d \in [games : {s.games}, backups : {s.backups}, activeGame : Nat, activeBackup : Nat,
                root : Trees, dismissed : BOOLEAN]
      /\ d.activeGame = s.activeGame
  BY <1>1, <1>2, <1>3, <1>5 DEF Sound
<1> HIDE DEF d
<1>7. SoundFile(d)
  BY <1>1, <1>4, <1>6 DEF SoundFile, Sound, ParentsExist, GameActive
<1> QED
  BY <1>7 DEF d

(* What is loaded from a sound file is a sound store, even when the file   *)
(* holds more profiles than the store has room for.                        *)
LEMMA LoadSound ==
  ASSUME NEW d, SoundFile(d)
  PROVE  SoundStore(io_load(d))
<1> DEFINE G == LoadedGames(d)
           B == LoadedBackups(d)
           ag == ActiveGameOf(d.activeGame, G)
           E == Eligible(B, ag)
           ab == ActiveBackupOf(d.activeBackup, B, ag)
           ng == NextId(DOMAIN G)
           nb == NextId(DOMAIN B)
<1>1. io_load(d) = Record(G, B, ag, ab, ng, nb)
  BY DEF io_load, Record
<1>2. /\ IsTable(d.games, Places) /\ IsTable(d.backups, Backups)
      /\ Bounded(DOMAIN d.games) /\ Bounded(DOMAIN d.backups)
      /\ d.activeGame \in Nat /\ d.activeBackup \in Nat
      /\ DOMAIN d.games # {} => d.activeGame \in DOMAIN d.games
  BY DEF SoundFile, GameActive
<1>3. IsTable(G, Places) /\ DOMAIN G \subseteq DOMAIN d.games
  BY <1>2 DEF LoadedGames, FirstFew, Restricted, IsTable
<1>4. /\ IsTable(B, Backups) /\ DOMAIN B \subseteq DOMAIN d.backups
      /\ \A i \in DOMAIN B : B[i].parent \in DOMAIN G
  <2> DEFINE K == FirstFew(d.backups, MaxBackups)
             kept == {i \in DOMAIN K : K[i].parent \in DOMAIN G}
  <2>1. IsTable(K, Backups) /\ DOMAIN K \subseteq DOMAIN d.backups
    BY <1>2 DEF FirstFew, Restricted, IsTable
  <2>2. B = Restricted(K, kept)
    BY DEF LoadedBackups
  <2> HIDE DEF G, K, B
  <2>3. /\ IsTable(B, Backups) /\ DOMAIN B = kept
        /\ \A i \in DOMAIN B : B[i] = K[i]
    BY <2>1, <2>2 DEF Restricted, IsTable
  <2> QED
    BY <2>1, <2>3
<1> HIDE DEF G, B
<1>5. Bounded(DOMAIN G) /\ Bounded(DOMAIN B)
  BY <1>2, <1>3, <1>4 DEF Bounded
<1>6. DOMAIN G \in SUBSET Nat /\ DOMAIN B \in SUBSET Nat
  BY <1>3, <1>4 DEF IsTable, Ids
<1>7. ng \in Ids /\ nb \in Ids /\ (\A g \in DOMAIN G : g < ng) /\ (\A i \in DOMAIN B : i < nb)
  BY <1>5, <1>6, NextIdIsFresh
<1>8. /\ DOMAIN G = {} => First(DOMAIN G) = 0
      /\ DOMAIN G # {} => First(DOMAIN G) \in DOMAIN G
      /\ First(DOMAIN G) \in Nat
  BY <1>6, FirstIsMember
<1>9. ag \in Nat /\ (IF DOMAIN G = {} THEN ag = 0 ELSE ag \in DOMAIN G)
  <2>1. DOMAIN G # {} => d.activeGame # 0
    BY <1>2, <1>3 DEF IsTable, Ids
  <2> QED
    BY <1>2, <1>8, <2>1 DEF ActiveGameOf
<1> HIDE DEF ng, nb, ag
<1>10. E \subseteq DOMAIN B /\ E \in SUBSET Nat
  BY <1>6 DEF Eligible
<1> HIDE DEF E
<1>11. /\ E = {} => First(E) = 0
       /\ E # {} => First(E) \in E
       /\ First(E) \in Nat
  BY <1>10, FirstIsMember
<1>12. ab = 0 \/ ab \in DOMAIN B
  BY <1>10, <1>11 DEF ActiveBackupOf, E
<1>13. ab \in Nat /\ ab < nb
  BY <1>6, <1>7, <1>12 DEF Ids
<1> HIDE DEF ab
<1>14. Sound(G, B, ag, ab, ng, nb)
  BY <1>3, <1>4, <1>7, <1>9, <1>13 DEF Sound
<1> QED
  BY <1>1, <1>14, SoundRecord

-----------------------------------------------------------------------------
(***************************************************************************)
(* The inductive invariant: the store in memory and the file are sound,    *)
(* and what a save adds to the store is well formed.                       *)
(***************************************************************************)
Inv == /\ SoundStore(store)
       /\ SoundFile(disk)
       /\ conf \in [root : Trees, dismissed : BOOLEAN]

LEMMA NoConf == [root |-> NoTree, dismissed |-> FALSE] \in [root : Trees, dismissed : BOOLEAN]
BY DEF Trees

LEMMA InitInv == Init => Inv
BY EmptyStoreSound, BlankSound, NoConf DEF Init, Inv

(* Saving keeps the file sound, whether it succeeds or not.                *)
LEMMA SaveInv ==
  ASSUME Inv, NEW s, SoundStore(s), NEW c \in [root : Trees, dismissed : BOOLEAN], Save(s, c)
  PROVE  SoundFile(disk')
<1>1. SoundFile(io_save(s, c))
  BY SaveSound
<1> QED
  BY <1>1 DEF Save, Inv

LEMMA ReadingsSound ==
  ASSUME Inv, NEW d \in Readings
  PROVE  SoundFile(d)
BY BlankSound DEF Inv, Readings

(* A handler that leaves a sound store and saves it.                       *)
LEMMA BecomesInv ==
  ASSUME Inv, NEW s, SoundStore(s), Becomes(s) \/ Managed(s)
  PROVE  Inv'
<1>1. store' = s /\ Save(s, conf) /\ conf' = conf
  BY DEF Becomes, Managed
<1>2. SoundFile(disk')
  BY <1>1, SaveInv DEF Inv
<1> QED
  BY <1>1, <1>2 DEF Inv

LEMMA StepInv ==
  ASSUME Inv, Next
  PROVE  Inv'
<1>1. CASE ReadConfig
  <2>1. PICK d \in Readings : conf' = [root |-> d.root, dismissed |-> d.dismissed]
    BY <1>1 DEF ReadConfig
  <2>2. d.root \in Trees /\ d.dismissed \in BOOLEAN
    BY ReadingsSound DEF SoundFile
  <2> QED
    BY <1>1, <2>1, <2>2 DEF ReadConfig, Inv
<1>2. CASE FirstLaunchSetup
  <2>1. PICK d \in Readings :
          \/ UNCHANGED <<conf, disk>>
          \/ \E p \in Places : Save(add_game(io_load(d), p), conf) /\ UNCHANGED conf
          \/ conf' = [conf EXCEPT !.dismissed = TRUE] /\ Save(io_load(d), conf')
    BY <1>2 DEF FirstLaunchSetup
  <2>2. SoundStore(io_load(d))
    BY ReadingsSound, LoadSound
  <2>3. store' = store
    BY <1>2 DEF FirstLaunchSetup
  <2>4. CASE UNCHANGED <<conf, disk>>
    BY <2>3, <2>4 DEF Inv
  <2>5. CASE \E p \in Places : Save(add_game(io_load(d), p), conf) /\ UNCHANGED conf
    <3>1. PICK p \in Places : Save(add_game(io_load(d), p), conf) /\ UNCHANGED conf
      BY <2>5
    <3>2. SoundStore(add_game(io_load(d), p))
      BY <2>2, AddGameSound
    <3>3. SoundFile(disk')
      BY <3>1, <3>2, SaveInv DEF Inv
    <3> QED
      BY <2>3, <3>1, <3>3 DEF Inv
  <2>6. CASE conf' = [conf EXCEPT !.dismissed = TRUE] /\ Save(io_load(d), conf')
    <3>1. conf' \in [root : Trees, dismissed : BOOLEAN]
      BY <2>6 DEF Inv
    <3>2. SoundFile(disk')
      <4>1. \A c \in [root : Trees, dismissed : BOOLEAN] : Save(io_load(d), c) => SoundFile(disk')
        BY <2>2, SaveInv
      <4> QED
        BY <2>6, <3>1, <4>1
    <3> QED
      BY <2>3, <3>1, <3>2 DEF Inv
  <2> QED
    BY <2>1, <2>4, <2>5, <2>6
<1>3. CASE OpenWindow
  <2>1. PICK d \in Readings : store' = io_load(d)
    BY <1>3 DEF OpenWindow
  <2>2. SoundStore(io_load(d))
    BY ReadingsSound, LoadSound
  <2> QED
    BY <1>3, <2>1, <2>2 DEF OpenWindow, Inv
<1>4. ASSUME NEW g \in DOMAIN store.games, PickGame(g)
      PROVE  Inv'
  <2> DEFINE s == LET t == set_active_game(store, g)
                  IN  IF Children(t, g) # {} THEN set_active_backup(t, First(Children(t, g)))
                                             ELSE [t EXCEPT !.activeBackup = 0]
  <2>1. Becomes(s)
    BY <1>4 DEF PickGame
  <2>2. SoundStore(s)
    BY PickGameSound DEF Inv
  <2> HIDE DEF s
  <2> QED
    BY <2>1, <2>2, BecomesInv
<1>5. ASSUME NEW i \in DOMAIN store.backups, PickBackup(i)
      PROVE  Inv'
  <2> DEFINE s == set_active_game(set_active_backup(store, i), store.backups[i].parent)
  <2>1. Becomes(s)
    BY <1>5 DEF PickBackup
  <2>2. SoundStore(s)
    BY PickBackupSound DEF Inv
  <2> HIDE DEF s
  <2> QED
    BY <2>1, <2>2, BecomesInv
<1>6. ASSUME NEW n \in Names, AddBackup(n)
      PROVE  Inv'
  <2> DEFINE b == [parent |-> store.activeGame, name |-> n]
             t == add_backup(store, b)
             s == set_active_backup(t, store.nextBackup)
  <2>1. Becomes(s) /\ store.activeGame \in DOMAIN store.games
    BY <1>6 DEF AddBackup
  <2>2. Sound(store.games, store.backups, store.activeGame, store.activeBackup, store.nextGame,
              store.nextBackup)
    BY SoundParts DEF Inv
  <2>3. b \in Backups /\ b.parent \in DOMAIN store.games
    BY <2>1, <2>2 DEF Backups, Sound, IsTable
  <2> HIDE DEF b
  <2>4. SoundStore(t) /\ t.activeGame = store.activeGame /\ t.nextBackup = store.nextBackup + 1
    <3>1. SoundStore(store)
      BY DEF Inv
    <3>2. SoundStore(t)
      BY <2>3, <3>1, AddBackupSound
    <3>3. t = [store EXCEPT !.backups = With(@, store.nextBackup, b), !.nextBackup = @ + 1]
      BY DEF add_backup
    <3> HIDE DEF t
    <3> QED
      BY <3>1, <3>2, <3>3 DEF SoundStore
  <2>5. t.games = store.games
    BY <2>3, AddBackupSound DEF Inv
  <2>6. SoundStore([t EXCEPT !.activeGame = store.activeGame, !.activeBackup = store.nextBackup])
    <3>1. store.nextBackup \in Nat /\ store.nextBackup < store.nextBackup + 1
      BY <2>2 DEF Sound, Ids
    <3> HIDE DEF t
    <3> QED
      BY <2>1, <2>4, <2>5, <3>1, SelectSound
  <2>7. SoundStore(s)
    <3>1. s = [t EXCEPT !.activeBackup = store.nextBackup]
      BY DEF set_active_backup
    <3> HIDE DEF t, s
    <3>2. s = [t EXCEPT !.activeGame = store.activeGame, !.activeBackup = store.nextBackup]
      BY <2>4, <3>1 DEF SoundStore
    <3> QED
      BY <2>6, <3>2
  <2> HIDE DEF s
  <2> QED
    BY <2>1, <2>7, BecomesInv
<1>7. CASE DeleteBackup
  <2>1. Becomes(delete_backup(store, store.activeBackup)) /\ store.activeBackup \in DOMAIN store.backups
    BY <1>7 DEF DeleteBackup, Listed, Eligible
  <2>2. SoundStore(delete_backup(store, store.activeBackup))
    BY <2>1, DeleteBackupSound DEF Inv
  <2> QED
    BY <2>1, <2>2, BecomesInv
<1>8. CASE OpenManager \/ CloseManager
  BY <1>8 DEF OpenManager, CloseManager, Inv
<1>9. ASSUME NEW p \in Places, ManagerAdd(p)
      PROVE  Inv'
  <2>1. Managed(add_game(store, p))
    BY <1>9 DEF ManagerAdd
  <2>2. SoundStore(add_game(store, p))
    BY AddGameSound DEF Inv
  <2> QED
    BY <2>1, <2>2, BecomesInv
<1>10. ASSUME NEW g \in DOMAIN store.games, ManagerDelete(g)
       PROVE  Inv'
  <2>1. Managed(delete_game(store, g))
    BY <1>10 DEF ManagerDelete
  <2>2. SoundStore(delete_game(store, g))
    BY DeleteGameSound DEF Inv
  <2> QED
    BY <2>1, <2>2, BecomesInv
<1>11. ASSUME NEW g \in DOMAIN store.games, NEW p \in Places, ManagerEdit(g, p)
       PROVE  Inv'
  <2>1. Managed(update_game(store, g, p))
    BY <1>11 DEF ManagerEdit
  <2>2. SoundStore(update_game(store, g, p))
    BY UpdateGameSound DEF Inv
  <2> QED
    BY <2>1, <2>2, BecomesInv
<1>12. CASE Exit
  <2>1. Save(store, conf) /\ Gone
    BY <1>12 DEF Exit
  <2>2. SoundFile(disk')
    BY <2>1, SaveInv DEF Inv
  <2> QED
    BY <2>1, <2>2, EmptyStoreSound, NoConf DEF Gone, Inv
<1>13. CASE Crash
  BY <1>13, EmptyStoreSound, NoConf DEF Crash, Gone, Inv
<1> QED
  BY <1>1, <1>2, <1>3, <1>4, <1>5, <1>6, <1>7, <1>8, <1>9, <1>10, <1>11, <1>12, <1>13 DEF Next

LEMMA InvAlways == Spec => []Inv
<1>1. Inv /\ UNCHANGED vars => Inv'
  BY DEF Inv, vars
<1>2. Inv /\ [Next]_vars => Inv'
  BY <1>1, StepInv
<1> QED
  BY InitInv, <1>2, PTL DEF Spec

(* Whatever the capacities, the operations, the saves that fail, the files *)
(* that cannot be read and the moments at which Praxis is killed: an id is *)
(* never handed out twice while its profile is there, every backup profile *)
(* has its game, in memory and in Praxis.ini, and a game is active when    *)
(* there is one.                                                           *)
THEOREM StoreAlwaysSound == Spec => []StoreSound
<1>1. Inv => StoreSound
  BY DEF Inv, SoundStore, SoundFile, StoreSound
<1> QED
  BY <1>1, InvAlways, PTL

-----------------------------------------------------------------------------
(***************************************************************************)
(* The save tree follows the active backup profile.                        *)
(***************************************************************************)
LEMMA ShownIsActive ==
  ASSUME NEW s, NEW t, Resolves(s)
  PROVE  Shown(s, t) = RootOf(s)
BY DEF Shown

LEMMA StepTree ==
  ASSUME TreeShowsActive, Next
  PROVE  TreeShowsActive'
<1>1. ASSUME NEW s, Becomes(s)
      PROVE  TreeShowsActive'
  <2>1. store' = s /\ tree' = Shown(s, tree)
    BY <1>1 DEF Becomes
  <2> QED
    BY <2>1, ShownIsActive DEF TreeShowsActive, Resolves, RootOf
<1>2. ASSUME mode' # "idle"
      PROVE  TreeShowsActive'
  BY <1>2 DEF TreeShowsActive
<1>3. CASE OpenWindow
  <2>1. tree' = Shown(store', conf.root)
    BY <1>3 DEF OpenWindow
  <2> QED
    BY <2>1, ShownIsActive DEF TreeShowsActive, Resolves, RootOf
<1>4. CASE CloseManager
  <2>1. store' = store /\ tree' = Shown(store, tree)
    BY <1>4 DEF CloseManager
  <2> QED
    BY <2>1, ShownIsActive DEF TreeShowsActive, Resolves, RootOf
<1>5. CASE ReadConfig \/ FirstLaunchSetup \/ OpenManager \/ Exit \/ Crash
  BY <1>2, <1>5 DEF ReadConfig, FirstLaunchSetup, OpenManager, Exit, Crash, Gone
<1>6. CASE \E g \in DOMAIN store.games : PickGame(g)
  BY <1>1, <1>6 DEF PickGame
<1>7. CASE \E i \in DOMAIN store.backups : PickBackup(i)
  BY <1>1, <1>7 DEF PickBackup
<1>8. CASE \E n \in Names : AddBackup(n)
  BY <1>1, <1>8 DEF AddBackup
<1>9. CASE DeleteBackup
  BY <1>1, <1>9 DEF DeleteBackup
<1>10. CASE \/ \E p \in Places : ManagerAdd(p)
            \/ \E g \in DOMAIN store.games : ManagerDelete(g) \/ \E p \in Places : ManagerEdit(g, p)
  BY <1>2, <1>10 DEF ManagerAdd, ManagerDelete, ManagerEdit, Managed
<1> QED
  BY <1>3, <1>4, <1>5, <1>6, <1>7, <1>8, <1>9, <1>10 DEF Next

(* Whenever the window is idle, what the hotkeys back up into and restore  *)
(* from is the tree of the profile whose save file they touch: the         *)
(* handlers, the start and the closing of the manager each bring the tree  *)
(* up to date before the next message is served.                           *)
THEOREM TreeFollows == Spec => []TreeShowsActive
<1>1. Init => TreeShowsActive
  BY DEF Init, TreeShowsActive
<1>2. TreeShowsActive /\ UNCHANGED vars => TreeShowsActive'
  BY DEF TreeShowsActive, Resolves, RootOf, vars
<1>3. TreeShowsActive /\ [Next]_vars => TreeShowsActive'
  BY <1>2, StepTree
<1> QED
  BY <1>1, <1>3, PTL DEF Spec

-----------------------------------------------------------------------------
(***************************************************************************)
(* What the operations leave of a store: what they keep, whether it fits   *)
(* into the arrays, and whether the active backup profile exists.          *)
(***************************************************************************)
\* Games in G and backup profiles in B may go, all others stay as they are.
Keeps(s, t, G, B) ==
  /\ DOMAIN s.games \ G \subseteq DOMAIN t.games
  /\ \A i \in DOMAIN s.backups \ B : i \in DOMAIN t.backups /\ t.backups[i] = s.backups[i]

FitsIn(D, n) == IsFiniteSet(D) /\ Cardinality(D) <= n
Fits(x)      == FitsIn(DOMAIN x.games, MaxGames) /\ FitsIn(DOMAIN x.backups, MaxBackups)

Named(s) == s.activeBackup = 0 \/ s.activeBackup \in DOMAIN s.backups

LEMMA SmallerFits ==
  ASSUME NEW D, NEW n \in Nat, FitsIn(D, n), NEW E \in SUBSET D
  PROVE  FitsIn(E, n)
BY FS_Subset, FS_CardinalityType DEF FitsIn

LEMMA OneMoreFits ==
  ASSUME NEW D, NEW n \in Nat, FitsIn(D, n), Cardinality(D) < n, NEW x
  PROVE  FitsIn(D \cup {x}, n)
<1>1. IsFiniteSet(D) /\ Cardinality(D) \in Nat
  BY FS_CardinalityType DEF FitsIn
<1>2. /\ IsFiniteSet(D \cup {x})
      /\ Cardinality(D \cup {x}) = IF x \in D THEN Cardinality(D) ELSE Cardinality(D) + 1
  BY <1>1, FS_AddElement
<1>3. Cardinality(D \cup {x}) <= n
  BY <1>1, <1>2
<1> QED
  BY <1>2, <1>3 DEF FitsIn

LEMMA Sizes == MaxGames \in Nat \ {0} /\ MaxBackups \in Nat \ {0}
BY ProfileStoreAssumption

LEMMA AddGameIs ==
  ASSUME NEW s, SoundStore(s), NEW p \in Places
  PROVE  LET t == add_game(s, p)
         IN  /\ Keeps(s, t, {}, {})
             /\ DOMAIN t.games = DOMAIN s.games \cup {s.nextGame}
             /\ DOMAIN t.backups = IF RoomForBackup(s) THEN DOMAIN s.backups \cup {s.nextBackup}
                                                       ELSE DOMAIN s.backups
             /\ RoomForBackup(s) => Named(t)
<1> DEFINE t == add_game(s, p)
           main == [parent |-> s.nextGame, name |-> MainName]
           f == s.backups
           k == s.nextBackup
<1>1. /\ t.games = With(s.games, s.nextGame, p)
      /\ t.backups = IF RoomForBackup(s) THEN With(f, k, main) ELSE f
      /\ t.activeBackup = k
  BY DEF add_game
<1>2. /\ IsTable(s.games, Places) /\ IsTable(f, Backups)
      /\ \A i \in DOMAIN f : i < k
      /\ k \in Ids
  BY SoundParts DEF Sound
<1>3. k \notin DOMAIN f
  BY <1>2 DEF IsTable, Ids
<1> HIDE DEF t, main, f, k
<1>4. DOMAIN t.games = DOMAIN s.games \cup {s.nextGame}
  BY <1>1 DEF With
<1>5. /\ DOMAIN With(f, k, main) = DOMAIN f \cup {k}
      /\ \A i \in DOMAIN f : With(f, k, main)[i] = f[i]
  BY <1>3 DEF With
<1>6. /\ DOMAIN t.backups = IF RoomForBackup(s) THEN DOMAIN f \cup {k} ELSE DOMAIN f
      /\ \A i \in DOMAIN f : t.backups[i] = f[i]
  BY <1>1, <1>5
<1>7. Keeps(s, t, {}, {})
  BY <1>4, <1>6 DEF Keeps, f
<1>8. RoomForBackup(s) => Named(t)
  BY <1>1, <1>6 DEF Named
<1> QED
  BY <1>4, <1>6, <1>7, <1>8 DEF t, f, k

LEMMA AddGameFits ==
  ASSUME NEW s, SoundStore(s), NEW p \in Places, Fits(s), RoomForGame(s)
  PROVE  Fits(add_game(s, p))
<1> DEFINE t == add_game(s, p)
<1>1. /\ DOMAIN t.games = DOMAIN s.games \cup {s.nextGame}
      /\ DOMAIN t.backups = IF RoomForBackup(s) THEN DOMAIN s.backups \cup {s.nextBackup}
                                                ELSE DOMAIN s.backups
  BY AddGameIs
<1> HIDE DEF t
<1>2. \A x : FitsIn(DOMAIN s.games \cup {x}, MaxGames)
  <2>1. FitsIn(DOMAIN s.games, MaxGames) /\ Cardinality(DOMAIN s.games) < MaxGames /\ MaxGames \in Nat
    BY Sizes DEF Fits, RoomForGame
  <2> QED
    BY <2>1, OneMoreFits
<1>3. ASSUME RoomForBackup(s)
      PROVE  \A x : FitsIn(DOMAIN s.backups \cup {x}, MaxBackups)
  <2>1. /\ FitsIn(DOMAIN s.backups, MaxBackups) /\ Cardinality(DOMAIN s.backups) < MaxBackups
        /\ MaxBackups \in Nat
    BY <1>3, Sizes DEF Fits, RoomForBackup
  <2> QED
    BY <2>1, OneMoreFits
<1>4. FitsIn(DOMAIN t.games, MaxGames) /\ FitsIn(DOMAIN t.backups, MaxBackups)
  BY <1>1, <1>2, <1>3 DEF Fits
<1> QED
  BY <1>4 DEF Fits, t

LEMMA UpdateGameIs ==
  ASSUME NEW s, SoundStore(s), NEW g \in DOMAIN s.games, NEW p \in Places
  PROVE  LET t == update_game(s, g, p)
         IN  /\ DOMAIN t.games = DOMAIN s.games /\ t.backups = s.backups
             /\ t.activeBackup = s.activeBackup
<1> DEFINE t == update_game(s, g, p)
           G == With(s.games, g, p)
<1>1. DOMAIN G = DOMAIN s.games
  BY DEF With
<1> HIDE DEF G
<1>2. t = [s EXCEPT !.games = G]
  BY DEF update_game, G
<1> HIDE DEF t
<1>3. t.games = G /\ t.backups = s.backups /\ t.activeBackup = s.activeBackup
  BY <1>2 DEF SoundStore
<1> QED
  BY <1>1, <1>3 DEF t

LEMMA DeleteGameIs ==
  ASSUME NEW s, SoundStore(s), NEW g \in DOMAIN s.games
  PROVE  LET t == delete_game(s, g)
         IN  /\ DOMAIN t.games = DOMAIN s.games \ {g}
             /\ DOMAIN t.backups = DOMAIN s.backups \ Children(s, g)
             /\ \A i \in DOMAIN t.backups : t.backups[i] = s.backups[i]
             /\ Named(s) => Named(t)
<1> DEFINE t == delete_game(s, g)
           C == Children(s, g)
           G == Restricted(s.games, DOMAIN s.games \ {g})
           B == Restricted(s.backups, DOMAIN s.backups \ C)
           ag == IF s.activeGame = g THEN First(DOMAIN G) ELSE s.activeGame
           ab == IF s.activeBackup \in C THEN First(DOMAIN B) ELSE s.activeBackup
<1>1. t = [s EXCEPT !.games = G, !.backups = B, !.activeBackup = ab, !.activeGame = ag]
  BY DEF delete_game
<1>2. Sound(s.games, s.backups, s.activeGame, s.activeBackup, s.nextGame, s.nextBackup)
  BY SoundParts
<1>3. /\ DOMAIN G = DOMAIN s.games \ {g} /\ DOMAIN B = DOMAIN s.backups \ C
      /\ \A i \in DOMAIN B : B[i] = s.backups[i]
  BY <1>2 DEF Sound, IsTable, Restricted
<1>4. DOMAIN B \in SUBSET Nat
  BY <1>2, <1>3 DEF Sound, IsTable, Ids
<1> HIDE DEF t, C, G, B, ag
<1>5. First(DOMAIN B) = 0 \/ First(DOMAIN B) \in DOMAIN B
  BY <1>4, FirstIsMember
<1>6. Named(s) => ab = 0 \/ ab \in DOMAIN B
  BY <1>3, <1>5 DEF Named
<1> HIDE DEF ab
<1>7. t.games = G /\ t.backups = B /\ t.activeBackup = ab
  BY <1>1 DEF SoundStore
<1> QED
  BY <1>3, <1>6, <1>7 DEF Named, t, C

LEMMA AddBackupIs ==
  ASSUME NEW s, SoundStore(s), NEW b
  PROVE  LET t == set_active_backup(add_backup(s, b), s.nextBackup)
         IN  /\ t.games = s.games
             /\ DOMAIN t.backups = DOMAIN s.backups \cup {s.nextBackup}
             /\ \A i \in DOMAIN s.backups : t.backups[i] = s.backups[i]
             /\ t.activeBackup = s.nextBackup
<1> DEFINE f == s.backups
           k == s.nextBackup
           B == With(f, k, b)
           t == set_active_backup(add_backup(s, b), k)
<1>1. IsTable(f, Backups) /\ (\A i \in DOMAIN f : i < k) /\ k \in Ids
  BY SoundParts DEF Sound
<1>2. k \notin DOMAIN f
  BY <1>1 DEF IsTable, Ids
<1>3. t = [[s EXCEPT !.backups = B, !.nextBackup = k + 1] EXCEPT !.activeBackup = k]
  BY DEF set_active_backup, add_backup
<1>4. DOMAIN B = DOMAIN f \cup {k} /\ \A i \in DOMAIN f : B[i] = f[i]
  BY <1>2 DEF With
<1> HIDE DEF t, B
<1>5. t.games = s.games /\ t.backups = B /\ t.activeBackup = k
  BY <1>3 DEF SoundStore
<1> QED
  BY <1>4, <1>5 DEF t

LEMMA DeleteBackupIs ==
  ASSUME NEW s, SoundStore(s), NEW k \in DOMAIN s.backups
  PROVE  LET t == delete_backup(s, k)
         IN  /\ t.games = s.games
             /\ DOMAIN t.backups = DOMAIN s.backups \ {k}
             /\ \A i \in DOMAIN t.backups : t.backups[i] = s.backups[i]
             /\ Named(s) => Named(t)
<1> DEFINE t == delete_backup(s, k)
           B == Restricted(s.backups, DOMAIN s.backups \ {k})
           ab == IF s.activeBackup = k THEN First(DOMAIN B) ELSE s.activeBackup
<1>1. t = [s EXCEPT !.backups = B, !.activeBackup = ab]
  BY DEF delete_backup
<1>2. Sound(s.games, s.backups, s.activeGame, s.activeBackup, s.nextGame, s.nextBackup)
  BY SoundParts
<1>3. DOMAIN B = DOMAIN s.backups \ {k} /\ \A i \in DOMAIN B : B[i] = s.backups[i]
  BY <1>2 DEF Sound, IsTable, Restricted
<1>4. DOMAIN B \in SUBSET Nat
  BY <1>2, <1>3 DEF Sound, IsTable, Ids
<1> HIDE DEF t, B
<1>5. First(DOMAIN B) = 0 \/ First(DOMAIN B) \in DOMAIN B
  BY <1>4, FirstIsMember
<1>6. Named(s) => ab = 0 \/ ab \in DOMAIN B
  BY <1>3, <1>5 DEF Named
<1> HIDE DEF ab
<1>7. t.games = s.games /\ t.backups = B /\ t.activeBackup = ab
  BY <1>1 DEF SoundStore
<1> QED
  BY <1>3, <1>6, <1>7 DEF Named, t

LEMMA PickGameIs ==
  ASSUME NEW s, SoundStore(s), NEW g \in DOMAIN s.games
  PROVE  LET t == set_active_game(s, g)
             u == IF Children(t, g) # {} THEN set_active_backup(t, First(Children(t, g)))
                                         ELSE [t EXCEPT !.activeBackup = 0]
         IN  u.games = s.games /\ u.backups = s.backups /\ Named(u)
<1> DEFINE t == set_active_game(s, g)
           i == IF s.activeBackup \in Children(s, g) THEN s.activeBackup ELSE First(Children(s, g))
           k == IF Children(s, g) # {} THEN First(Children(s, g)) ELSE 0
           u == IF Children(t, g) # {} THEN set_active_backup(t, First(Children(t, g)))
                                       ELSE [t EXCEPT !.activeBackup = 0]
<1>1. t = [s EXCEPT !.activeGame = g, !.activeBackup = i]
  BY DEF set_active_game
<1> HIDE DEF i
<1>2. t = Record(s.games, s.backups, g, i, s.nextGame, s.nextBackup)
  <2> HIDE DEF t
  <2>1. ASSUME NEW j
        PROVE  [s EXCEPT !.activeGame = g, !.activeBackup = j]
                 = Record(s.games, s.backups, g, j, s.nextGame, s.nextBackup)
    BY SelectRecord
  <2> QED
    BY <1>1, <2>1, Zenon
<1>3. t.backups = s.backups
  BY <1>2 DEF Record
<1>4. Children(t, g) = Children(s, g)
  BY <1>3 DEF Children
<1> HIDE DEF t
<1>5. u = [t EXCEPT !.activeBackup = k]
  BY <1>4 DEF set_active_backup
<1>6. k = 0 \/ k \in DOMAIN s.backups
  BY ChildrenAreIds DEF Children
<1> HIDE DEF k, u
<1>7. u.games = s.games /\ u.backups = s.backups /\ u.activeBackup = k
  BY <1>2, <1>5 DEF Record
<1>8. Named(u)
  BY <1>6, <1>7 DEF Named
<1> QED
  BY <1>7, <1>8 DEF u, t

LEMMA PickBackupIs ==
  ASSUME NEW s, SoundStore(s), NEW i \in DOMAIN s.backups
  PROVE  LET u == set_active_game(set_active_backup(s, i), s.backups[i].parent)
         IN  u.games = s.games /\ u.backups = s.backups /\ Named(u)
<1> DEFINE t == set_active_backup(s, i)
           g == s.backups[i].parent
           u == set_active_game(t, g)
<1>1. t = [s EXCEPT !.activeBackup = i]
  BY DEF set_active_backup
<1>2. t.backups = s.backups /\ t.activeBackup = i
  BY <1>1 DEF SoundStore
<1>3. i \in Children(t, g)
  BY <1>2 DEF Children
<1>4. u = [t EXCEPT !.activeGame = g, !.activeBackup = i]
  <2> HIDE DEF g, t
  <2> QED
    BY <1>2, <1>3 DEF set_active_game
<1> HIDE DEF u, t, g
<1>5. u.games = s.games /\ u.backups = s.backups /\ u.activeBackup = i
  BY <1>1, <1>4 DEF SoundStore
<1> QED
  BY <1>5 DEF Named, u, t, g

-----------------------------------------------------------------------------
(***************************************************************************)
(* What a start finds.                                                     *)
(***************************************************************************)
LEMMA LoadSelects ==
  ASSUME NEW d, SoundFile(d)
  PROVE  SelectionSound(io_load(d)) /\ Named(io_load(d))
<1> DEFINE t == io_load(d)
           E == Eligible(t.backups, t.activeGame)
<1>1. Sound(t.games, t.backups, t.activeGame, t.activeBackup, t.nextGame, t.nextBackup)
  BY LoadSound, SoundParts
<1>2. t.activeBackup = ActiveBackupOf(d.activeBackup, t.backups, t.activeGame)
  BY DEF io_load
<1> HIDE DEF t
<1>3. E \subseteq DOMAIN t.backups /\ E \in SUBSET Nat
  BY <1>1 DEF Eligible, Sound, IsTable, Ids
<1>4. \A i \in E : t.backups[i].parent = t.activeGame
  <2> SUFFICES ASSUME NEW i \in E
               PROVE  t.backups[i].parent = t.activeGame
    OBVIOUS
  <2>1. t.backups[i].parent \in DOMAIN t.games /\ 0 \notin DOMAIN t.games
    BY <1>1, <1>3 DEF Sound, IsTable, Ids
  <2>2. t.activeGame # 0
    BY <1>1, <2>1 DEF Sound
  <2> QED
    BY <2>2 DEF Eligible
<1> HIDE DEF E
<1>5. First(E) = 0 \/ First(E) \in E
  BY <1>3, FirstIsMember
<1>6. t.activeBackup = 0 \/ t.activeBackup \in E
  BY <1>2, <1>5 DEF ActiveBackupOf, E
<1> QED
  BY <1>3, <1>4, <1>6 DEF SelectionSound, Named, t

\* A table that fits is read to its end.
LEMMA AllRead ==
  ASSUME NEW f, NEW V, IsTable(f, V), NEW n \in Nat, FitsIn(DOMAIN f, n)
  PROVE  FirstFew(f, n) = f
<1> DEFINE D == DOMAIN f
           before(i) == {j \in D : j < i}
<1>1. D \subseteq Nat /\ f = [i \in D |-> f[i]]
  BY DEF IsTable, Ids
<1>2. ASSUME NEW i \in D
      PROVE  Cardinality(before(i)) < n
  <2>1. before(i) \in SUBSET D /\ i \notin before(i)
    BY <1>1
  <2> HIDE DEF before, D
  <2>2. /\ Cardinality(before(i)) <= Cardinality(D)
        /\ Cardinality(before(i)) # Cardinality(D)
        /\ Cardinality(before(i)) \in Nat /\ Cardinality(D) \in Nat
    BY <2>1, FS_Subset, FS_CardinalityType DEF FitsIn, D
  <2> QED
    BY <2>2 DEF FitsIn, D
<1>3. {i \in D : Cardinality(before(i)) < n} = D
  BY <1>2
<1>4. FirstFew(f, n) = Restricted(f, D)
  BY <1>3 DEF FirstFew
<1> QED
  BY <1>1, <1>4 DEF Restricted

LEMMA LoadKeeps ==
  ASSUME NEW d, SoundFile(d), Fits(d)
  PROVE  LET t == io_load(d)
         IN  /\ t.games = d.games /\ t.backups = d.backups
             /\ t.activeGame = d.activeGame
             /\ SelectionSound(d) => t.activeBackup = d.activeBackup
<1>1. IsTable(d.games, Places) /\ IsTable(d.backups, Backups) /\ ParentsExist(d) /\ GameActive(d)
  BY DEF SoundFile
<1>2. LoadedGames(d) = d.games
  BY <1>1, AllRead, Sizes DEF LoadedGames, Fits
<1>3. FirstFew(d.backups, MaxBackups) = d.backups
  BY <1>1, AllRead, Sizes DEF Fits
<1>4. LoadedBackups(d) = d.backups
  <2>1. {i \in DOMAIN d.backups : d.backups[i].parent \in DOMAIN d.games} = DOMAIN d.backups
    BY <1>1 DEF ParentsExist
  <2>2. LoadedBackups(d) = Restricted(d.backups, DOMAIN d.backups)
    BY <1>2, <1>3, <2>1 DEF LoadedBackups
  <2> QED
    BY <1>1, <2>2 DEF Restricted, IsTable
<1>5. ActiveGameOf(d.activeGame, d.games) = d.activeGame
  BY <1>1 DEF ActiveGameOf, GameActive
<1>6. SelectionSound(d) => ActiveBackupOf(d.activeBackup, d.backups, d.activeGame) = d.activeBackup
  BY DEF SelectionSound, ActiveBackupOf, Eligible
<1> QED
  BY <1>2, <1>4, <1>5, <1>6 DEF io_load

-----------------------------------------------------------------------------
(***************************************************************************)
(* The arrays are never asked to hold more than they can, in memory and in *)
(* the file, so that a start reads the file to its end.                    *)
(***************************************************************************)
Cap == Fits(store) /\ Fits(disk)

LEMMA BlankFits == Fits(profile_store_init) /\ Fits(Blank)
<1>1. FitsIn({}, MaxGames) /\ FitsIn({}, MaxBackups)
  BY FS_EmptySet, Sizes DEF FitsIn
<1>2. /\ profile_store_init.games = EmptyTable /\ profile_store_init.backups = EmptyTable
      /\ Blank.games = EmptyTable /\ Blank.backups = EmptyTable
  BY DEF profile_store_init, Blank
<1> QED
  BY <1>1, <1>2, EmptyTableType DEF Fits

LEMMA SaveIs ==
  ASSUME NEW s, NEW c, Save(s, c)
  PROVE  /\ Fits(s) /\ Fits(disk) => Fits(disk')
         /\ disk' # disk => disk'.games = s.games /\ disk'.backups = s.backups
<1>1. io_save(s, c).games = s.games /\ io_save(s, c).backups = s.backups
  BY DEF io_save
<1> QED
  BY <1>1 DEF Save, Fits

LEMMA ReadingsFit ==
  ASSUME Cap, NEW d \in Readings
  PROVE  Fits(d)
BY BlankFits DEF Cap, Readings

(* A handler of the window or the manager leaves s, without the profiles   *)
(* of G and B.                                                             *)
Handled(s, G, B) ==
  /\ WindowUp /\ (Becomes(s) \/ Managed(s))
  /\ Keeps(store, s, G, B)
  /\ Fits(store) => Fits(s)
  /\ Named(store) /\ RoomForBackup(store) => Named(s)

SameTables(s, t) == DOMAIN t.games = DOMAIN s.games /\ t.backups = s.backups

LEMMA SameKeeps ==
  ASSUME NEW s, NEW t, SameTables(s, t)
  PROVE  Keeps(s, t, {}, {}) /\ (Fits(s) => Fits(t))
BY DEF SameTables, Keeps, Fits

LEMMA PickGameHandled ==
  ASSUME Inv, NEW g \in DOMAIN store.games, PickGame(g)
  PROVE  \E s : Handled(s, {}, {})
<1> DEFINE s == LET t == set_active_game(store, g)
                IN  IF Children(t, g) # {} THEN set_active_backup(t, First(Children(t, g)))
                                           ELSE [t EXCEPT !.activeBackup = 0]
<1>1. Becomes(s) /\ mode = "idle"
  BY DEF PickGame
<1>2. s.games = store.games /\ s.backups = store.backups /\ Named(s)
  BY PickGameIs DEF Inv
<1> HIDE DEF s
<1>3. SameTables(store, s)
  BY <1>2 DEF SameTables
<1> QED
  BY <1>1, <1>2, <1>3, SameKeeps DEF Handled, WindowUp

LEMMA PickBackupHandled ==
  ASSUME Inv, NEW i \in DOMAIN store.backups, PickBackup(i)
  PROVE  \E s : Handled(s, {}, {})
<1> DEFINE s == set_active_game(set_active_backup(store, i), store.backups[i].parent)
<1>1. Becomes(s) /\ mode = "idle"
  BY DEF PickBackup
<1>2. s.games = store.games /\ s.backups = store.backups /\ Named(s)
  BY PickBackupIs DEF Inv
<1> HIDE DEF s
<1>3. SameTables(store, s)
  BY <1>2 DEF SameTables
<1> QED
  BY <1>1, <1>2, <1>3, SameKeeps DEF Handled, WindowUp

LEMMA AddBackupHandled ==
  ASSUME Inv, NEW n \in Names, AddBackup(n)
  PROVE  \E s : Handled(s, {}, {})
<1> DEFINE b == [parent |-> store.activeGame, name |-> n]
           s == set_active_backup(add_backup(store, b), store.nextBackup)
<1>1. Becomes(s) /\ mode = "idle" /\ RoomForBackup(store)
  BY DEF AddBackup
<1>2. /\ s.games = store.games
      /\ DOMAIN s.backups = DOMAIN store.backups \cup {store.nextBackup}
      /\ \A i \in DOMAIN store.backups : s.backups[i] = store.backups[i]
      /\ s.activeBackup = store.nextBackup
  BY AddBackupIs DEF Inv
<1> HIDE DEF s
<1>3. Keeps(store, s, {}, {}) /\ Named(s)
  BY <1>2 DEF Keeps, Named
<1>4. ASSUME Fits(store)
      PROVE  Fits(s)
  <2>1. /\ FitsIn(DOMAIN store.backups, MaxBackups) /\ Cardinality(DOMAIN store.backups) < MaxBackups
        /\ MaxBackups \in Nat
    BY <1>1, <1>4, Sizes DEF Fits, RoomForBackup
  <2>2. \A x : FitsIn(DOMAIN store.backups \cup {x}, MaxBackups)
    BY <2>1, OneMoreFits
  <2>3. FitsIn(DOMAIN s.backups, MaxBackups)
    BY <1>2, <2>2, Zenon
  <2> QED
    BY <1>2, <1>4, <2>3 DEF Fits
<1> QED
  BY <1>1, <1>3, <1>4 DEF Handled, WindowUp

LEMMA DeleteBackupHandled ==
  ASSUME Inv, DeleteBackup
  PROVE  \E s : Handled(s, {}, {store.activeBackup})
<1> DEFINE k == store.activeBackup
           s == delete_backup(store, k)
<1>1. Becomes(s) /\ mode = "idle" /\ k \in DOMAIN store.backups
  BY DEF DeleteBackup, Listed, Eligible
<1> HIDE DEF k
<1>2. /\ s.games = store.games /\ DOMAIN s.backups = DOMAIN store.backups \ {k}
      /\ \A i \in DOMAIN s.backups : s.backups[i] = store.backups[i]
      /\ Named(store) => Named(s)
  BY <1>1, DeleteBackupIs DEF Inv
<1> HIDE DEF s
<1>3. Keeps(store, s, {}, {k})
  BY <1>2 DEF Keeps
<1>4. Fits(store) => Fits(s)
  BY <1>2, SmallerFits, Sizes DEF Fits
<1> QED
  BY <1>1, <1>2, <1>3, <1>4 DEF Handled, WindowUp, k

LEMMA ManagerAddHandled ==
  ASSUME Inv, NEW p \in Places, ManagerAdd(p)
  PROVE  \E s : Handled(s, {}, {})
<1> DEFINE s == add_game(store, p)
<1>1. Managed(s) /\ mode = "manager" /\ RoomForGame(store)
  BY DEF ManagerAdd
<1>2. Keeps(store, s, {}, {}) /\ (RoomForBackup(store) => Named(s))
  BY AddGameIs DEF Inv
<1>3. Fits(store) => Fits(s)
  BY <1>1, AddGameFits DEF Inv
<1> HIDE DEF s
<1> QED
  BY <1>1, <1>2, <1>3 DEF Handled, WindowUp

LEMMA ManagerEditHandled ==
  ASSUME Inv, NEW g \in DOMAIN store.games, NEW p \in Places, ManagerEdit(g, p)
  PROVE  \E s : Handled(s, {}, {})
<1> DEFINE s == update_game(store, g, p)
<1>1. Managed(s) /\ mode = "manager"
  BY DEF ManagerEdit
<1>2. /\ DOMAIN s.games = DOMAIN store.games /\ s.backups = store.backups
      /\ s.activeBackup = store.activeBackup
  BY UpdateGameIs DEF Inv
<1> HIDE DEF s
<1>3. SameTables(store, s) /\ (Named(store) => Named(s))
  BY <1>2 DEF SameTables, Named
<1> QED
  BY <1>1, <1>3, SameKeeps DEF Handled, WindowUp

LEMMA ManagerDeleteHandled ==
  ASSUME Inv, NEW g \in DOMAIN store.games, ManagerDelete(g)
  PROVE  \E s : Handled(s, {g}, Children(store, g))
<1> DEFINE s == delete_game(store, g)
<1>1. Managed(s) /\ mode = "manager"
  BY DEF ManagerDelete
<1>2. /\ DOMAIN s.games = DOMAIN store.games \ {g}
      /\ DOMAIN s.backups = DOMAIN store.backups \ Children(store, g)
      /\ \A i \in DOMAIN s.backups : s.backups[i] = store.backups[i]
      /\ Named(store) => Named(s)
  BY DeleteGameIs DEF Inv
<1> HIDE DEF s
<1>3. Keeps(store, s, {g}, Children(store, g))
  BY <1>2 DEF Keeps
<1>4. Fits(store) => Fits(s)
  BY <1>2, SmallerFits, Sizes DEF Fits
<1> QED
  BY <1>1, <1>2, <1>3, <1>4 DEF Handled, WindowUp

LEMMA HandledIs ==
  ASSUME NEW s, NEW G, NEW B, Handled(s, G, B)
  PROVE  /\ store' = s /\ mode' = mode /\ Save(s, conf)
         /\ Cap => Cap'
BY SaveIs DEF Handled, Becomes, Managed, Cap, Fits

\* Every step but those of the handlers leaves the profiles in memory, starts or stops.
Outside == ReadConfig \/ FirstLaunchSetup \/ OpenWindow \/ OpenManager \/ CloseManager \/ Exit \/ Crash

LEMMA OutsideFits ==
  ASSUME Inv, Cap, Outside
  PROVE  Cap'
<1>1. CASE ReadConfig \/ OpenManager \/ CloseManager
  BY <1>1 DEF ReadConfig, OpenManager, CloseManager, Cap, Fits
<1>2. CASE FirstLaunchSetup
  <2>1. PICK d \in Readings :
          \/ UNCHANGED disk
          \/ /\ DOMAIN io_load(d).games = {}
             /\ \/ \E p \in Places : Save(add_game(io_load(d), p), conf)
                \/ Save(io_load(d), conf')
    BY <1>2 DEF FirstLaunchSetup
  <2> DEFINE t == io_load(d)
  <2>2. Fits(d) /\ SoundFile(d)
    BY ReadingsFit, ReadingsSound
  <2>3. SoundStore(t) /\ t.games = d.games /\ t.backups = d.backups
    BY <2>2, LoadSound, LoadKeeps
  <2> HIDE DEF t
  <2>4. Fits(t)
    BY <2>2, <2>3 DEF Fits
  <2>5. DOMAIN t.games = {} => RoomForGame(t)
    BY FS_EmptySet, Sizes DEF RoomForGame
  <2>6. store' = store
    BY <1>2 DEF FirstLaunchSetup
  <2>7. CASE UNCHANGED disk
    BY <2>6, <2>7 DEF Cap, Fits
  <2>8. ASSUME NEW p \in Places, Save(add_game(t, p), conf), DOMAIN t.games = {}
        PROVE  Cap'
    <3>1. Fits(add_game(t, p))
      BY <2>3, <2>4, <2>5, <2>8, AddGameFits
    <3>2. Fits(disk')
      BY <2>8, <3>1, SaveIs DEF Cap
    <3> QED
      BY <2>6, <3>2 DEF Cap, Fits
  <2>9. ASSUME Save(t, conf')
        PROVE  Cap'
    <3>1. \A c : Save(t, c) => Fits(disk')
      BY <2>4, SaveIs DEF Cap
    <3>2. Fits(disk')
      BY <2>9, <3>1
    <3> QED
      BY <2>6, <3>2 DEF Cap, Fits
  <2> QED
    BY <2>1, <2>7, <2>8, <2>9 DEF t
<1>3. CASE OpenWindow
  <2>1. PICK d \in Readings : store' = io_load(d) /\ disk' = disk
    BY <1>3 DEF OpenWindow
  <2>2. Fits(d) /\ SoundFile(d)
    BY ReadingsFit, ReadingsSound
  <2>3. io_load(d).games = d.games /\ io_load(d).backups = d.backups
    BY <2>2, LoadKeeps
  <2> QED
    BY <2>1, <2>2, <2>3 DEF Cap, Fits
<1>4. CASE Exit
  <2>1. Save(store, conf) /\ store' = profile_store_init
    BY <1>4 DEF Exit, Gone
  <2>2. Fits(disk') /\ Fits(profile_store_init)
    BY <2>1, SaveIs, BlankFits DEF Cap
  <2> QED
    BY <2>1, <2>2 DEF Cap, Fits
<1>5. CASE Crash
  BY <1>5, BlankFits DEF Crash, Gone, Cap, Fits
<1> QED
  BY <1>1, <1>2, <1>3, <1>4, <1>5 DEF Outside

\* What a step does to the profiles: nothing, or what its handler does.
LEMMA StepIs ==
  ASSUME Inv, Next
  PROVE  \/ Outside
         \/ \E s : Handled(s, {}, {})
         \/ DeleteBackup /\ \E s : Handled(s, {}, {store.activeBackup})
         \/ \E g \in DOMAIN store.games :
              ManagerDelete(g) /\ \E s : Handled(s, {g}, Children(store, g))
BY PickGameHandled, PickBackupHandled, AddBackupHandled, DeleteBackupHandled, ManagerAddHandled,
   ManagerEditHandled, ManagerDeleteHandled, Zenon DEF Next, Outside

LEMMA CapAlways == Spec => [](Inv /\ Cap)
<1>1. Init => Cap
  BY BlankFits DEF Init, Cap
<1>2. ASSUME Inv, Cap, [Next]_vars
      PROVE  Cap'
  <2>1. CASE UNCHANGED vars
    BY <1>2, <2>1 DEF vars, Cap, Fits
  <2>2. CASE Next
    <3>1. \A s, G, B : Handled(s, G, B) => Cap'
      BY <1>2, HandledIs
    <3> QED
      BY <1>2, <2>2, <3>1, OutsideFits, StepIs
  <2> QED
    BY <1>2, <2>1, <2>2
<1> QED
  BY <1>1, <1>2, InvAlways, PTL DEF Spec

(***************************************************************************)
(* DanglingOnlyWhenFull: whatever is added, deleted, selected, saved or    *)
(* read, an active backup profile that does not exist comes only from a    *)
(* game added when no backup profile fits any more.                        *)
(***************************************************************************)
THEOREM DanglesOnlyWhenFull == Spec => DanglingOnlyWhenFull
<1>1. ASSUME Inv, Next, ActiveBackupExists, RoomForBackup(store)
      PROVE  ActiveBackupExists'
  <2>1. Named(store) /\ (Named(store') => ActiveBackupExists')
    BY <1>1 DEF ActiveBackupExists, Named
  <2>2. \A s, G, B : Handled(s, G, B) => ActiveBackupExists'
    BY <1>1, <2>1, HandledIs DEF Handled
  <2>3. ASSUME Outside
        PROVE  ActiveBackupExists'
    <3>1. CASE OpenWindow
      <4>1. PICK d \in Readings : store' = io_load(d)
        BY <3>1 DEF OpenWindow
      <4>2. Named(io_load(d))
        BY <1>1, ReadingsSound, LoadSelects
      <4> QED
        BY <2>1, <4>1, <4>2
    <3>2. CASE Exit \/ Crash
      BY <3>2 DEF Exit, Crash, Gone, profile_store_init, ActiveBackupExists
    <3>3. CASE ReadConfig \/ FirstLaunchSetup \/ OpenManager \/ CloseManager
      BY <1>1, <3>3 DEF ReadConfig, FirstLaunchSetup, OpenManager, CloseManager, ActiveBackupExists
    <3> QED
      BY <2>3, <3>1, <3>2, <3>3 DEF Outside
  <2> QED
    BY <1>1, <2>2, <2>3, StepIs
<1>2. ASSUME Inv, [Next]_vars
      PROVE  [ActiveBackupExists /\ ~ActiveBackupExists' => ~RoomForBackup(store)]_vars
  BY <1>1, <1>2
<1> QED
  BY <1>2, InvAlways, PTL DEF Spec, DanglingOnlyWhenFull

LEMMA OpeningIs ==
  ASSUME Inv, Next, mode = "opening", mode' = "idle"
  PROVE  OpenWindow
<1>1. ASSUME NEW s, NEW G, NEW B, Handled(s, G, B)
      PROVE  FALSE
  BY <1>1 DEF Handled, WindowUp
<1>2. Outside
  BY <1>1, StepIs
<1> QED
  BY <1>2 DEF Outside, ReadConfig, FirstLaunchSetup, OpenManager, CloseManager, Exit, Crash, Gone

(***************************************************************************)
(* StartRepairsSelection: for any file that a run of Praxis can have left. *)
(***************************************************************************)
THEOREM StartRepairs == Spec => StartRepairsSelection
<1>1. ASSUME Inv, Cap, Next, mode = "opening", mode' = "idle"
      PROVE  /\ SelectionSound(store')
             /\ "open" \notin Env /\ SelectionSound(disk)
                  => /\ store'.activeGame = disk.activeGame
                     /\ store'.activeBackup = disk.activeBackup
  <2>1. OpenWindow
    BY <1>1, OpeningIs
  <2>2. PICK d \in Readings : store' = io_load(d)
    BY <2>1 DEF OpenWindow
  <2>3. SelectionSound(io_load(d))
    BY <1>1, ReadingsSound, LoadSelects
  <2>4. ASSUME "open" \notin Env, SelectionSound(disk)
        PROVE  store'.activeGame = disk.activeGame /\ store'.activeBackup = disk.activeBackup
    <3>1. d = disk
      BY <2>4 DEF Readings
    <3>2. SoundFile(disk) /\ Fits(disk)
      BY <1>1 DEF Inv, Cap
    <3> QED
      BY <2>2, <2>4, <3>1, <3>2, LoadKeeps
  <2> QED
    BY <2>2, <2>3, <2>4
<1>2. ASSUME Inv /\ Cap, [Next]_vars
      PROVE  [mode = "opening" /\ mode' = "idle"
                => /\ SelectionSound(store')
                   /\ "open" \notin Env /\ SelectionSound(disk)
                        => /\ store'.activeGame = disk.activeGame
                           /\ store'.activeBackup = disk.activeBackup]_vars
  BY <1>1, <1>2
<1> QED
  BY <1>2, CapAlways, PTL DEF Spec, StartRepairsSelection


(***************************************************************************)
(* OnlyDeletionLoses, as long as Praxis.ini can be read: one that cannot   *)
(* be opened counts as a fresh install, and the next save replaces it.     *)
(***************************************************************************)
HandlersKeep ==
  /\ \A g \in DOMAIN store.games : g \in DOMAIN store'.games \/ ManagerDelete(g)
  /\ \A i \in DOMAIN store.backups :
       \/ i \in DOMAIN store'.backups /\ store'.backups[i] = store.backups[i]
       \/ ManagerDelete(store.backups[i].parent)
       \/ i = store.activeBackup /\ DeleteBackup
  /\ disk' # disk => Holds(disk', store')

LEMMA HoldsSame ==
  ASSUME NEW x, NEW y, x.games = y.games, x.backups = y.backups
  PROVE  Holds(x, y)
BY DEF Holds

\* A handler loses no more than the profiles of G and B, and saves what it leaves.
LEMMA HandledKeeps ==
  ASSUME NEW s, NEW G, NEW B, Handled(s, G, B)
  PROVE  /\ \A g \in DOMAIN store.games \ G : g \in DOMAIN store'.games
         /\ \A i \in DOMAIN store.backups \ B :
              i \in DOMAIN store'.backups /\ store'.backups[i] = store.backups[i]
         /\ disk' # disk => Holds(disk', store')
<1>1. store' = s /\ Save(s, conf) /\ Keeps(store, s, G, B)
  BY HandledIs DEF Handled
<1>2. disk' # disk => Holds(disk', s)
  BY <1>1, SaveIs, HoldsSame
<1> QED
  BY <1>1, <1>2 DEF Keeps

LEMMA WindowKeeps ==
  ASSUME Inv, Next, WindowUp, mode' # "down"
  PROVE  HandlersKeep
<1>1. CASE Outside
  <2>1. store' = store /\ disk' = disk
    BY <1>1 DEF Outside, WindowUp, ReadConfig, FirstLaunchSetup, OpenWindow, OpenManager, CloseManager,
                Exit, Crash, Gone
  <2> QED
    BY <2>1 DEF HandlersKeep
<1>2. ASSUME NEW s, Handled(s, {}, {})
      PROVE  HandlersKeep
  BY <1>2, HandledKeeps DEF HandlersKeep
<1>3. ASSUME DeleteBackup, NEW s, Handled(s, {}, {store.activeBackup})
      PROVE  HandlersKeep
  BY <1>3, HandledKeeps DEF HandlersKeep
<1>4. ASSUME NEW g \in DOMAIN store.games, ManagerDelete(g),
             NEW s, Handled(s, {g}, Children(store, g))
      PROVE  HandlersKeep
  <2>1. \A i \in Children(store, g) : ManagerDelete(store.backups[i].parent)
    BY <1>4 DEF Children
  <2> QED
    BY <1>4, <2>1, HandledKeeps DEF HandlersKeep
<1> QED
  BY <1>1, <1>2, <1>3, <1>4, StepIs

LEMMA SetupKeeps ==
  ASSUME Inv, Cap, "open" \notin Env, Next, mode = "setup"
  PROVE  Holds(disk', disk)
<1>1. FirstLaunchSetup \/ disk' = disk
  <2>1. Outside
    BY StepIs DEF Handled, WindowUp
  <2> QED
    BY <2>1 DEF Outside, ReadConfig, OpenWindow, OpenManager, CloseManager, Exit, Crash
<1>2. CASE disk' = disk
  BY <1>2, HoldsSame
<1>3. CASE FirstLaunchSetup /\ disk' # disk
  <2>1. PICK d \in Readings : DOMAIN io_load(d).games = {}
    BY <1>3 DEF FirstLaunchSetup
  <2>2. d = disk
    BY DEF Readings
  <2>3. SoundFile(disk) /\ Fits(disk)
    BY DEF Inv, Cap
  <2>4. io_load(disk).games = disk.games
    BY <2>3, LoadKeeps
  <2>5. DOMAIN disk.games = {}
    BY <2>1, <2>2, <2>4
  <2>6. DOMAIN disk.backups = {}
    BY <2>3, <2>5 DEF SoundFile, ParentsExist
  <2> QED
    BY <2>5, <2>6 DEF Holds
<1> QED
  BY <1>1, <1>2, <1>3

THEOREM DeletionOnlyLoses == "open" \notin Env => (Spec => OnlyDeletionLoses)
<1> SUFFICES ASSUME "open" \notin Env
             PROVE  Spec => OnlyDeletionLoses
  OBVIOUS
<1>1. ASSUME Inv, Cap, Next, mode = "opening", mode' = "idle"
      PROVE  Holds(store', disk)
  <2>1. PICK d \in Readings : store' = io_load(d)
    BY <1>1, OpeningIs DEF OpenWindow
  <2>2. d = disk
    BY DEF Readings
  <2>3. SoundFile(disk) /\ Fits(disk)
    BY <1>1 DEF Inv, Cap
  <2>4. io_load(disk).games = disk.games /\ io_load(disk).backups = disk.backups
    BY <2>3, LoadKeeps
  <2> QED
    BY <2>1, <2>2, <2>4, HoldsSame
<1>2. ASSUME Inv, Next, mode' = "down", disk' # disk
      PROVE  Holds(disk', store)
  <2>1. ASSUME NEW s, NEW G, NEW B, Handled(s, G, B)
        PROVE  FALSE
    BY <1>2, <2>1, HandledIs DEF Handled, WindowUp
  <2>2. Outside
    BY <1>2, <2>1, StepIs
  <2>3. Save(store, conf)
    BY <1>2, <2>2 DEF Outside, ReadConfig, FirstLaunchSetup, OpenWindow, OpenManager, CloseManager,
                      Exit, Crash
  <2> QED
    BY <1>2, <2>3, SaveIs, HoldsSame
<1>3. ASSUME Inv /\ Cap, [Next]_vars
      PROVE  [/\ mode = "opening" /\ mode' = "idle" => Holds(store', disk)
              /\ mode = "setup" => Holds(disk', disk)
              /\ WindowUp /\ mode' # "down" => HandlersKeep
              /\ mode' = "down" /\ disk' # disk => Holds(disk', store)]_vars
  BY <1>1, <1>2, <1>3, SetupKeeps, WindowKeeps
<1> QED
  BY <1>3, CapAlways, PTL DEF Spec, OnlyDeletionLoses, HandlersKeep

(***************************************************************************)
(* TypeOK, with the sizes that Cap bounds.                                 *)
(***************************************************************************)
LEMMA ShownTree ==
  ASSUME NEW s, SoundStore(s), NEW t \in Trees
  PROVE  Shown(s, t) \in Trees
<1>1. ASSUME Resolves(s)
      PROVE  RootOf(s) \in Trees
  <2>1. s.backups[s.activeBackup] \in Backups
    BY <1>1 DEF SoundStore, IsTable, Resolves
  <2>2. s.games[s.backups[s.activeBackup].parent] \in Places
    BY <1>1 DEF SoundStore, IsTable, Resolves
  <2>3. s.backups[s.activeBackup].name \in Names
    BY <2>1 DEF Backups
  <2> QED
    BY <2>2, <2>3 DEF RootOf, Trees
<1> QED
  BY <1>1 DEF Shown

WindowTyped == tree \in Trees /\ mode \in Modes

LEMMA WindowTypedStep ==
  ASSUME Inv, Inv', WindowTyped, Next
  PROVE  WindowTyped'
<1>1. SoundStore(store) /\ SoundStore(store') /\ NoTree \in Trees /\ conf.root \in Trees
  BY DEF Inv, Trees
<1>2. ASSUME NEW s, NEW G, NEW B, Handled(s, G, B)
      PROVE  WindowTyped'
  <2>1. store' = s /\ mode' = mode /\ (tree' = Shown(s, tree) \/ tree' = tree)
    BY <1>2 DEF Handled, Becomes, Managed
  <2> QED
    BY <1>1, <2>1, ShownTree DEF WindowTyped
<1>3. CASE Outside
  <2>1. \/ tree' = tree \/ tree' = NoTree
        \/ tree' = Shown(store', conf.root) \/ tree' = Shown(store, tree)
    BY <1>3 DEF Outside, ReadConfig, FirstLaunchSetup, OpenWindow, OpenManager, CloseManager, Exit,
                Crash, Gone
  <2>2. tree' \in Trees
    BY <1>1, <2>1, ShownTree DEF WindowTyped
  <2>3. mode' \in Modes
    BY <1>3 DEF Outside, ReadConfig, FirstLaunchSetup, OpenWindow, OpenManager, CloseManager, Exit,
                Crash, Gone, Modes
  <2> QED
    BY <2>2, <2>3 DEF WindowTyped
<1> QED
  BY <1>2, <1>3, StepIs

LEMMA TypeFromInv ==
  ASSUME Inv, Cap, WindowTyped
  PROVE  TypeOK
<1>1. DOMAIN store = DOMAIN profile_store_init
  <2>1. store \in [games : {store.games}, backups : {store.backups}, activeGame : Nat,
                   activeBackup : Nat, nextGame : Ids, nextBackup : Ids]
    BY DEF Inv, SoundStore
  <2> QED
    BY <2>1 DEF profile_store_init
<1>2. DOMAIN disk = DOMAIN Blank
  <2>1. disk \in [games : {disk.games}, backups : {disk.backups}, activeGame : Nat,
                  activeBackup : Nat, root : Trees, dismissed : BOOLEAN]
    BY DEF Inv, SoundFile
  <2> QED
    BY <2>1 DEF Blank
<1>3. ProfilesIn(store) /\ store.nextGame \in Ids /\ store.nextBackup \in Ids
  BY DEF Inv, Cap, SoundStore, Fits, FitsIn, ProfilesIn
<1>4. ProfilesIn(disk) /\ disk.root \in Trees /\ disk.dismissed \in BOOLEAN
  BY DEF Inv, Cap, SoundFile, Fits, FitsIn, ProfilesIn
<1> QED
  BY <1>1, <1>2, <1>3, <1>4 DEF TypeOK, WindowTyped, Inv

\* Every variable keeps its shape, and the arrays and the file their capacity.
THEOREM TypeCorrect == Spec => []TypeOK
<1>1. Init => WindowTyped
  BY DEF Init, WindowTyped, Trees, Modes
<1>2. ASSUME Inv, Inv', WindowTyped, [Next]_vars
      PROVE  WindowTyped'
  <2>1. CASE UNCHANGED vars
    BY <1>2, <2>1 DEF vars, WindowTyped
  <2> QED
    BY <1>2, <2>1, WindowTypedStep
<1>3. Inv /\ Cap /\ WindowTyped => TypeOK
  BY TypeFromInv
<1> QED
  BY <1>1, <1>2, <1>3, CapAlways, PTL DEF Spec
=============================================================================
