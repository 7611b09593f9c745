-------------------------- MODULE BackupTreeProofs --------------------------
(***************************************************************************)
(* Proofs about BackupTree, for any names, libraries, sources and bounds,  *)
(* and whatever the environment does.                                      *)
(***************************************************************************)
EXTENDS BackupTree, SequenceTheorems, FiniteSetTheorems, WellFoundedInduction, TLAPS

(***************************************************************************)
(* Paths.  Being below a folder is having its path as a prefix.            *)
(***************************************************************************)
Path == Seq(Names)

LEMMA PathLen == ASSUME NEW p \in Path PROVE Len(p) \in Nat /\ (p = Root <=> Len(p) = 0)
BY EmptySeq, LenProperties DEF Path, Root

LEMMA PrefixPath ==
  ASSUME NEW S, NEW p \in Seq(S), NEW k \in 0 .. Len(p)
  PROVE  /\ SubSeq(p, 1, k) \in Seq(S) /\ Len(SubSeq(p, 1, k)) = k
         /\ \A i \in 1 .. k : SubSeq(p, 1, k)[i] = p[i]
<1>1. Len(p) \in Nat /\ \A i \in 1 .. Len(p) : p[i] \in S
  BY LenProperties, ElementOfSeq
<1>2. \A i \in 1 .. k : p[i] \in S
  BY <1>1
<1>. QED
  BY <1>1, <1>2, SubSeqProperties

LEMMA SamePath ==
  ASSUME NEW p \in Path, NEW q \in Path, Len(p) = Len(q), \A i \in 1 .. Len(p) : p[i] = q[i]
  PROVE  p = q
BY SeqEqual DEF Path

LEMMA WithinElements ==
  ASSUME NEW d \in Path, NEW p \in Path
  PROVE  Within(d, p) <=> Len(d) <= Len(p) /\ \A i \in 1 .. Len(d) : d[i] = p[i]
<1>1. Len(d) \in Nat /\ Len(p) \in Nat
  BY PathLen
<1>2. CASE Len(d) <= Len(p)
  <2>1. /\ SubSeq(p, 1, Len(d)) \in Path /\ Len(SubSeq(p, 1, Len(d))) = Len(d)
        /\ \A i \in 1 .. Len(d) : SubSeq(p, 1, Len(d))[i] = p[i]
    BY <1>1, <1>2, PrefixPath DEF Path
  <2>2. SubSeq(p, 1, Len(d)) = d <=> \A i \in 1 .. Len(d) : d[i] = p[i]
    BY <2>1, SamePath
  <2>. QED
    BY <1>2, <2>2 DEF Within
<1>. QED
  BY <1>1, <1>2 DEF Within

LEMMA WithinItself == ASSUME NEW p \in Path PROVE Within(p, p)
BY WithinElements, PathLen

LEMMA WithinTransitive ==
  ASSUME NEW a \in Path, NEW b \in Path, NEW c \in Path, Within(a, b), Within(b, c)
  PROVE  Within(a, c)
BY WithinElements, PathLen

LEMMA WithinBoth ==
  ASSUME NEW a \in Path, NEW b \in Path, Within(a, b), Within(b, a)
  PROVE  a = b
BY WithinElements, PathLen, SamePath

(* Two folders on the way to one path lie on one way.                      *)
LEMMA WithinOneWay ==
  ASSUME NEW a \in Path, NEW b \in Path, NEW c \in Path, Within(a, c), Within(b, c)
  PROVE  Within(a, b) \/ Within(b, a)
BY WithinElements, PathLen

LEMMA ParentPath ==
  ASSUME NEW p \in Path, p # Root
  PROVE  /\ Parent(p) \in Path /\ Len(Parent(p)) = Len(p) - 1
         /\ \A i \in 1 .. Len(p) - 1 : Parent(p)[i] = p[i]
         /\ Within(Parent(p), p) /\ Parent(p) # p
         /\ Leaf(p) \in Names
         /\ \A a \in Path : Within(a, p) /\ a # p => Within(a, Parent(p))
<1>1. Len(p) \in Nat \ {0}
  BY PathLen
<1>2. Parent(p) \in Path /\ Len(Parent(p)) = Len(p) - 1
      /\ \A i \in 1 .. Len(p) - 1 : Parent(p)[i] = p[i]
  <2>1. Len(p) - 1 \in 0 .. Len(p)
    BY <1>1
  <2>. QED
    BY <2>1, PrefixPath DEF Parent, Path
<1>3. Within(Parent(p), p) /\ Parent(p) # p
  BY <1>1, <1>2, WithinElements
<1>4. Leaf(p) \in Names
  BY <1>1, ElementOfSeq DEF Leaf, Path
<1>5. ASSUME NEW a \in Path, Within(a, p), a # p PROVE Within(a, Parent(p))
  <2>1. Len(a) \in Nat /\ Len(a) <= Len(p) /\ \A i \in 1 .. Len(a) : a[i] = p[i]
    BY <1>5, WithinElements, PathLen
  <2>2. Len(a) # Len(p)
    BY <1>5, <2>1, SamePath
  <2>. QED
    BY <1>1, <1>2, <2>1, <2>2, WithinElements
<1>. QED
  BY <1>2, <1>3, <1>4, <1>5

LEMMA InPath ==
  ASSUME NEW d \in Path, NEW n \in Names
  PROVE  /\ In(d, n) \in Path /\ In(d, n) # Root /\ Len(In(d, n)) = Len(d) + 1
         /\ Parent(In(d, n)) = d /\ Leaf(In(d, n)) = n
<1>1. /\ In(d, n) \in Path /\ Len(In(d, n)) = Len(d) + 1 /\ Len(d) \in Nat
      /\ \A i \in 1 .. Len(d) : In(d, n)[i] = d[i]
      /\ In(d, n)[Len(d) + 1] = n
  BY AppendProperties, LenProperties DEF In, Path
<1>2. In(d, n) # Root
  BY <1>1, PathLen
<1>3. Parent(In(d, n)) = d
  BY <1>1, <1>2, ParentPath, SamePath
<1>. QED
  BY <1>1, <1>2, <1>3 DEF Leaf

(***************************************************************************)
(* What moves from p to q takes what is below it along.                    *)
(***************************************************************************)
LEMMA MovedPath ==
  ASSUME NEW p \in Path, NEW q \in Path, NEW r \in Path, Within(p, r)
  PROVE  /\ Moved(p, q, r) \in Path
         /\ Len(Moved(p, q, r)) = Len(q) + (Len(r) - Len(p))
         /\ \A i \in 1 .. Len(q) : Moved(p, q, r)[i] = q[i]
         /\ \A i \in 1 .. Len(r) - Len(p) : Moved(p, q, r)[Len(q) + i] = r[Len(p) + i]
<1>. DEFINE t == SubSeq(r, Len(p) + 1, Len(r))
<1>1. Len(p) \in Nat /\ Len(q) \in Nat /\ Len(r) \in Nat /\ Len(p) <= Len(r)
  BY PathLen, WithinElements
<1>2. \A i \in Len(p) + 1 .. Len(r) : r[i] \in Names
  BY <1>1, ElementOfSeq DEF Path
<1>3. /\ t \in Path
      /\ Len(t) = IF Len(p) + 1 <= Len(r) THEN Len(r) - (Len(p) + 1) + 1 ELSE 0
      /\ \A i \in 1 .. Len(r) - (Len(p) + 1) + 1 : t[i] = r[(Len(p) + 1) + i - 1]
  <2>. HIDE DEF t
  <2>1. Len(p) + 1 \in Int /\ Len(r) \in Int
    BY <1>1
  <2>. QED
    BY <1>2, <2>1, SubSeqProperties DEF Path, t
<1>4. Len(t) = Len(r) - Len(p)
  BY <1>1, <1>3
<1>5. \A i \in 1 .. Len(r) - Len(p) : t[i] = r[Len(p) + i]
  BY <1>1, <1>3
<1>. HIDE DEF t
<1>6. /\ q \o t \in Path /\ Len(q \o t) = Len(q) + Len(t)
      /\ \A i \in 1 .. Len(q) + Len(t) : (q \o t)[i] = IF i <= Len(q) THEN q[i] ELSE t[i - Len(q)]
  BY <1>3, ConcatProperties DEF Path
<1>7. \A i \in 1 .. Len(q) : (q \o t)[i] = q[i]
  BY <1>1, <1>4, <1>6
<1>8. \A i \in 1 .. Len(r) - Len(p) : (q \o t)[Len(q) + i] = t[i]
  BY <1>1, <1>4, <1>6
<1>. QED
  BY <1>4, <1>5, <1>6, <1>7, <1>8 DEF Moved, t

LEMMA MovedBelow ==
  ASSUME NEW p \in Path, NEW q \in Path, NEW r \in Path, Within(p, r)
  PROVE  /\ Within(q, Moved(p, q, r))
         /\ Moved(p, q, p) = q
         /\ r # p => Moved(p, q, r) # q
<1>1. Len(p) \in Nat /\ Len(q) \in Nat /\ Len(r) \in Nat /\ Len(p) <= Len(r) /\ Within(p, p)
  BY PathLen, WithinElements, WithinItself
<1>. DEFINE m(x) == Moved(p, q, x)
<1>. HIDE DEF m
<1>0. /\ m(r) \in Path
      /\ Len(m(r)) = Len(q) + (Len(r) - Len(p))
      /\ \A i \in 1 .. Len(q) : m(r)[i] = q[i]
  BY MovedPath DEF m
<1>2. Within(q, m(r))
  <2>1. Len(q) <= Len(m(r))
    BY <1>0, <1>1
  <2>. QED
    BY <1>0, <2>1, WithinElements
<1>3. m(p) = q
  <2>1. /\ m(p) \in Path
        /\ Len(m(p)) = Len(q) + (Len(p) - Len(p))
        /\ \A i \in 1 .. Len(q) : m(p)[i] = q[i]
    BY <1>1, MovedPath DEF m
  <2>2. Len(m(p)) = Len(q)
    BY <1>1, <2>1
  <2>. QED
    BY <2>1, <2>2, SamePath
<1>4. ASSUME r # p PROVE m(r) # q
  <2>1. Len(r) # Len(p)
    BY <1>1, <1>4, WithinElements, SamePath
  <2>. QED
    BY <1>0, <1>1, <2>1
<1>. QED
  BY <1>2, <1>3, <1>4 DEF m

LEMMA MovedInjective ==
  ASSUME NEW p \in Path, NEW q \in Path, NEW r \in Path, NEW s \in Path,
         Within(p, r), Within(p, s), Moved(p, q, r) = Moved(p, q, s)
  PROVE  r = s
<1>1. Len(p) \in Nat /\ Len(q) \in Nat /\ Len(r) \in Nat /\ Len(s) \in Nat
      /\ Len(p) <= Len(r) /\ Len(p) <= Len(s)
  BY PathLen, WithinElements
<1>. DEFINE m(x) == Moved(p, q, x)
<1>. HIDE DEF m
<1>a. /\ Len(m(r)) = Len(q) + (Len(r) - Len(p))
      /\ \A i \in 1 .. Len(r) - Len(p) : m(r)[Len(q) + i] = r[Len(p) + i]
  BY MovedPath DEF m
<1>b. /\ Len(m(s)) = Len(q) + (Len(s) - Len(p))
      /\ \A i \in 1 .. Len(s) - Len(p) : m(s)[Len(q) + i] = s[Len(p) + i]
  BY MovedPath DEF m
<1>c. m(r) = m(s)
  BY DEF m
<1>2. Len(r) = Len(s)
  BY <1>1, <1>a, <1>b, <1>c
<1>3. ASSUME NEW i \in 1 .. Len(r) PROVE r[i] = s[i]
  <2>1. CASE i <= Len(p)
    BY <1>1, <2>1, WithinElements
  <2>2. CASE i > Len(p)
    <3>1. PICK j \in 1 .. Len(r) - Len(p) : i = Len(p) + j
      <4>1. i - Len(p) \in 1 .. Len(r) - Len(p) /\ i = Len(p) + (i - Len(p))
        BY <1>1, <2>2
      <4>. QED
        BY <4>1
    <3>. QED
      BY <1>2, <1>a, <1>b, <1>c, <3>1
  <2>. QED
    BY <1>1, <2>1, <2>2
<1>. QED
  BY <1>2, <1>3, SamePath

(* Every folder on the way to what has moved is one on the way to where it *)
(* went, or has moved as well.                                             *)
LEMMA MovedAncestors ==
  ASSUME NEW p \in Path, NEW q \in Path, NEW r \in Path, Within(p, r),
         NEW a \in Path, Within(a, Moved(p, q, r)), Within(q, a)
  PROVE  \E s \in Path : Within(p, s) /\ Within(s, r) /\ a = Moved(p, q, s)
<1>. DEFINE m(x) == Moved(p, q, x)
            k == Len(p) + (Len(a) - Len(q))
            s == SubSeq(r, 1, k)
<1>. HIDE DEF m
<1>a. /\ m(r) \in Path /\ Len(m(r)) = Len(q) + (Len(r) - Len(p))
      /\ \A i \in 1 .. Len(r) - Len(p) : m(r)[Len(q) + i] = r[Len(p) + i]
  BY MovedPath DEF m
<1>b. Len(a) <= Len(m(r)) /\ \A i \in 1 .. Len(a) : a[i] = m(r)[i]
  BY <1>a, WithinElements DEF m
<1>1. Len(p) \in Nat /\ Len(q) \in Nat /\ Len(r) \in Nat /\ Len(a) \in Nat
      /\ Len(p) <= Len(r) /\ Len(q) <= Len(a) /\ Len(a) <= Len(q) + (Len(r) - Len(p))
  BY <1>a, <1>b, PathLen, WithinElements
<1>2. k \in 0 .. Len(r) /\ Len(p) <= k
  BY <1>1
<1>3. s \in Path /\ Len(s) = k /\ \A i \in 1 .. k : s[i] = r[i]
  BY <1>2, PrefixPath DEF Path
<1>. HIDE DEF s
<1>4. Within(s, r)
  BY <1>1, <1>2, <1>3, WithinElements
<1>5. Within(p, s)
  <2>1. \A i \in 1 .. Len(p) : p[i] = r[i]
    BY WithinElements
  <2>2. \A i \in 1 .. Len(p) : i \in 1 .. k
    BY <1>1, <1>2
  <2>. HIDE DEF k
  <2>. QED
    BY <1>2, <1>3, <2>1, <2>2, WithinElements
<1>6. a = m(s)
  <2>1. /\ m(s) \in Path /\ Len(m(s)) = Len(q) + (Len(s) - Len(p))
        /\ \A i \in 1 .. Len(q) : m(s)[i] = q[i]
        /\ \A i \in 1 .. Len(s) - Len(p) : m(s)[Len(q) + i] = s[Len(p) + i]
    BY <1>3, <1>5, MovedPath DEF m
  <2>2. Len(m(s)) = Len(a)
    BY <1>1, <1>3, <2>1
  <2>3. ASSUME NEW i \in 1 .. Len(a) PROVE a[i] = m(s)[i]
    <3>1. CASE i <= Len(q)
      BY <1>1, <2>1, <3>1, WithinElements
    <3>2. CASE i > Len(q)
      <4>1. PICK j \in 1 .. Len(a) - Len(q) : i = Len(q) + j
        <5>1. i - Len(q) \in 1 .. Len(a) - Len(q) /\ i = Len(q) + (i - Len(q))
          BY <1>1, <3>2
        <5>. QED
          BY <5>1
      <4>2. /\ j \in 1 .. Len(r) - Len(p) /\ j \in 1 .. Len(s) - Len(p)
            /\ Len(p) + j \in 1 .. k
        BY <1>1, <1>3, <4>1
      <4>3. a[i] = r[Len(p) + j]
        BY <1>a, <1>b, <4>1, <4>2
      <4>4. m(s)[i] = s[Len(p) + j]
        BY <2>1, <4>1, <4>2
      <4>. HIDE DEF k
      <4>. QED
        BY <1>3, <4>2, <4>3, <4>4
    <3>. QED
      BY <1>1, <3>1, <3>2
  <2>. HIDE DEF k
  <2>. QED
    BY <2>1, <2>2, <2>3, SamePath
<1>. QED
  BY <1>3, <1>4, <1>5, <1>6 DEF m

(***************************************************************************)
(* Libraries.  Every folder on the way to a file or folder is there.       *)
(***************************************************************************)
Fitting(e, n) == /\ e \in Backup \cup {Folder}
                 /\ n \in IF e.kind = "dir" THEN DirNames ELSE FileNames

Closed(f) == \A p \in DOMAIN f : \A a \in Path : Within(a, p) /\ a # p => IsDir(f, a)

Good(f) == /\ \A p \in DOMAIN f : /\ p \in Path /\ p # Root /\ Len(p) <= MaxDepth
                                  /\ Fitting(f[p], Leaf(p))
           /\ Closed(f)

LEMMA NameKinds ==
  /\ \A n \in DirNames : n \in Names /\ n.ext = ""
  /\ \A n \in FileNames : n \in Names /\ n.ext \in {"bak", "tmp"}
  /\ \A n \in BackupNames : /\ n \in FileNames /\ n.ext = "bak"
                            /\ TempOf(n) \in FileNames /\ TempOf(n).ext = "tmp"
  /\ \A n \in FileNames : n.ext # "tmp" => n \in BackupNames
<1>1. \A n \in DirNames : n \in Names /\ n.ext = ""
  BY DEF DirNames, Names
<1>2. \A n \in BackupNames : n \in FileNames /\ n.ext = "bak"
  BY DEF BackupNames, FileNames
<1>3. \A n \in BackupNames : TempOf(n) \in FileNames /\ TempOf(n).ext = "tmp"
  BY DEF FileNames, TempOf, Name
<1>4. \A n \in FileNames : n \in Names /\ (n \in BackupNames \/ n.ext = "tmp")
  BY <1>3 DEF FileNames, Names
<1>. QED
  BY <1>1, <1>2, <1>3, <1>4

LEMMA Entries ==
  /\ Folder.kind = "dir" /\ ~Folder.ro
  /\ \A e \in Backup : e.kind \in Kinds /\ e.kind # "dir" /\ e.ro \in BOOLEAN
                       /\ e.data \in Data \cup {Torn}
BY DEF Folder, Backup, Kinds

LEMMA PathsDef == \A p : p \in Paths <=> p \in Path /\ p # Root /\ Len(p) <= MaxDepth
<1>1. MaxDepth \in Nat \ {0}
  BY BackupTreeAssumption
<1>2. ASSUME NEW p \in Paths PROVE p \in Path /\ p # Root /\ Len(p) <= MaxDepth
  <2>1. PICK k \in 1 .. MaxDepth : p \in [1 .. k -> Names]
    BY DEF Paths
  <2>2. k \in Nat /\ k # 0 /\ k <= MaxDepth
    BY <1>1, <2>1
  <2>3. p \in Path /\ Len(p) = k
    BY <2>1, <2>2, SeqDef, LenProperties DEF Path
  <2>. QED
    BY <2>2, <2>3, PathLen
<1>3. ASSUME NEW p \in Path, p # Root, Len(p) <= MaxDepth PROVE p \in Paths
  <2>1. Len(p) \in 1 .. MaxDepth
    BY <1>1, <1>3, PathLen
  <2>2. p \in [1 .. Len(p) -> Names]
    BY LenProperties DEF Path
  <2>. QED
    BY <2>1, <2>2 DEF Paths
<1>. QED
  BY <1>2, <1>3

LEMMA LibraryIsGood == ASSUME NEW f PROVE IsLibrary(f) <=> Good(f)
<1>1. ASSUME IsLibrary(f) PROVE Good(f)
  <2>1. \A p \in DOMAIN f : p \in Path /\ p # Root /\ Len(p) <= MaxDepth
    BY <1>1, PathsDef DEF IsLibrary
  <2>2. \A p \in DOMAIN f : Fitting(f[p], Leaf(p))
    BY <1>1 DEF IsLibrary, Fitting
  <2>3. ASSUME NEW p \in DOMAIN f, NEW a \in Path, Within(a, p), a # p PROVE IsDir(f, a)
    <3>1. Len(a) \in 0 .. Len(p) - 1
      BY <2>1, <2>3, PathLen, WithinElements, SamePath
    <3>2. SubSeq(p, 1, Len(a)) = a
      BY <2>3 DEF Within
    <3>. QED
      BY <1>1, <3>1, <3>2 DEF IsLibrary
  <2>. QED
    BY <2>1, <2>2, <2>3 DEF Good, Closed
<1>2. ASSUME Good(f) PROVE IsLibrary(f)
  <2>1. DOMAIN f \subseteq Paths
    BY <1>2, PathsDef DEF Good
  <2>2. \A p \in DOMAIN f : f[p] \in Backup \cup {Folder}
                            /\ Leaf(p) \in IF f[p].kind = "dir" THEN DirNames ELSE FileNames
    BY <1>2 DEF Good, Fitting
  <2>3. ASSUME NEW p \in DOMAIN f, NEW k \in 0 .. Len(p) - 1 PROVE IsDir(f, SubSeq(p, 1, k))
    <3>1. p \in Path /\ Len(p) \in Nat
      BY <1>2, PathLen DEF Good
    <3>2. k \in 0 .. Len(p) /\ k # Len(p)
      BY <3>1
    <3>3. /\ SubSeq(p, 1, k) \in Path /\ Len(SubSeq(p, 1, k)) = k
          /\ \A i \in 1 .. k : SubSeq(p, 1, k)[i] = p[i]
      BY <3>1, <3>2, PrefixPath DEF Path
    <3>4. Within(SubSeq(p, 1, k), p) /\ SubSeq(p, 1, k) # p
      <4>1. k <= Len(p)
        BY <3>1, <3>2
      <4>. QED
        BY <3>1, <3>2, <3>3, <4>1, WithinElements
    <3>. QED
      BY <1>2, <3>3, <3>4 DEF Good, Closed
  <2>. QED
    BY <2>1, <2>2, <2>3 DEF IsLibrary
<1>. QED
  BY <1>1, <1>2

(* A file has nothing below it.                                            *)
LEMMA FileIsAlone ==
  ASSUME NEW f, Good(f), NEW p \in Path, IsFile(f, p), NEW r \in DOMAIN f, Within(p, r)
  PROVE  r = p
BY DEF Good, Closed, IsDir, IsFile

(* What is put into a folder of the library has folders all the way up.    *)
LEMMA FoldersAbove ==
  ASSUME NEW f, Good(f), NEW p \in Path, p # Root, IsDir(f, Parent(p)),
         NEW a \in Path, Within(a, p), a # p
  PROVE  IsDir(f, a)
<1>1. Within(a, Parent(p)) /\ Parent(p) \in Path
  BY ParentPath
<1>2. CASE a = Parent(p)
  BY <1>2
<1>3. CASE Parent(p) = Root
  BY <1>1, <1>3, PathLen, WithinElements DEF IsDir
<1>4. CASE a # Parent(p) /\ Parent(p) # Root
  BY <1>1, <1>4 DEF Good, Closed, IsDir
<1>. QED
  BY <1>2, <1>3, <1>4

LEMMA GoodWith ==
  ASSUME NEW f, Good(f), NEW p \in Path, p # Root, Len(p) <= MaxDepth, IsDir(f, Parent(p)),
         NEW v, Fitting(v, Leaf(p)), p \notin DOMAIN f \/ IsFile(f, p)
  PROVE  Good(With(f, p, v))
<1>. DEFINE g == With(f, p, v)
<1>1. /\ DOMAIN g = DOMAIN f \cup {p} /\ g[p] = v
      /\ \A r \in DOMAIN f : r # p => g[r] = f[r]
  BY DEF With
<1>. HIDE DEF g
<1>2. ASSUME NEW r \in DOMAIN g, NEW a \in Path, Within(a, r), a # r PROVE IsDir(g, a)
  <2>1. IsDir(f, a)
    <3>1. CASE r = p
      BY <1>2, <3>1, FoldersAbove
    <3>2. CASE r # p
      BY <1>1, <1>2, <3>2 DEF Good, Closed
    <3>. QED
      BY <3>1, <3>2
  <2>2. a # p
    <3>1. CASE p \in DOMAIN f
      BY <2>1, <3>1 DEF IsDir, IsFile
    <3>2. CASE p \notin DOMAIN f
      BY <2>1, <3>2 DEF IsDir
    <3>. QED
      BY <3>1, <3>2
  <2>. QED
    BY <1>1, <2>1, <2>2 DEF IsDir
<1>3. \A r \in DOMAIN g : r \in Path /\ r # Root /\ Len(r) <= MaxDepth /\ Fitting(g[r], Leaf(r))
  BY <1>1 DEF Good
<1>. QED
  BY <1>1, <1>2, <1>3 DEF g, Good, Closed

LEMMA GoodWithout ==
  ASSUME NEW f, Good(f), NEW p \in Path
  PROVE  Good(Without(f, Below(f, p)))
<1>. DEFINE g == Without(f, Below(f, p))
<1>1. DOMAIN g = {r \in DOMAIN f : ~Within(p, r)} /\ \A r \in DOMAIN g : g[r] = f[r]
  BY DEF Without, Below
<1>. HIDE DEF g
<1>2. ASSUME NEW r \in DOMAIN g, NEW a \in Path, Within(a, r), a # r PROVE IsDir(g, a)
  <2>1. r \in DOMAIN f /\ r \in Path /\ ~Within(p, r)
    BY <1>1 DEF Good
  <2>2. IsDir(f, a)
    BY <1>2, <2>1 DEF Good, Closed
  <2>3. ~Within(p, a)
    BY <1>2, <2>1, WithinTransitive
  <2>. QED
    BY <1>1, <2>2, <2>3 DEF IsDir
<1>. QED
  BY <1>1, <1>2 DEF g, Good, Closed

LEMMA WithoutFile ==
  ASSUME NEW f, Good(f), NEW p \in Path, IsFile(f, p)
  PROVE  Below(f, p) = {p} /\ Good(Without(f, {p}))
<1>1. Below(f, p) = {p}
  BY FileIsAlone, WithinItself DEF Below, IsFile
<1>. QED
  BY <1>1, GoodWithout

LEMMA GoodLock ==
  ASSUME NEW f, Good(f), NEW p \in DOMAIN f, IsFile(f, p), NEW b \in BOOLEAN
  PROVE  Good([f EXCEPT ![p].ro = b])
<1>. DEFINE g == [f EXCEPT ![p].ro = b]
<1>1. DOMAIN g = DOMAIN f /\ g[p] = [f[p] EXCEPT !.ro = b] /\ \A r \in DOMAIN f : r # p => g[r] = f[r]
  OBVIOUS
<1>2. f[p] \in Backup
  BY Entries DEF Good, Fitting, IsFile
<1>3. g[p] \in Backup /\ g[p].kind = f[p].kind
  BY <1>1, <1>2 DEF Backup
<1>. HIDE DEF g
<1>4. \A r \in DOMAIN g : Fitting(g[r], Leaf(r))
  BY <1>1, <1>3 DEF Good, Fitting
<1>5. \A a : IsDir(f, a) <=> IsDir(g, a)
  BY <1>1, <1>3 DEF IsDir
<1>. QED
  BY <1>1, <1>4, <1>5 DEF Good, Closed, g

(* What holds something is a folder, and is named as one.                  *)
LEMMA FolderNames ==
  ASSUME NEW f, Good(f), NEW p \in DOMAIN f
  PROVE  Parent(p) \in Seq(DirNames) /\ IsDir(f, Parent(p))
<1>1. p \in Path /\ p # Root /\ Len(p) \in Nat
  BY PathLen DEF Good
<1>2. /\ Parent(p) \in Path /\ Len(Parent(p)) = Len(p) - 1 /\ Within(Parent(p), p) /\ Parent(p) # p
      /\ \A i \in 1 .. Len(p) - 1 : Parent(p)[i] = p[i]
  BY <1>1, ParentPath
<1>3. IsDir(f, Parent(p))
  BY <1>2 DEF Good, Closed
<1>4. ASSUME NEW i \in 1 .. Len(p) - 1 PROVE p[i] \in DirNames
  <2>. DEFINE a == SubSeq(p, 1, i)
  <2>1. i \in 0 .. Len(p) /\ i # 0 /\ i # Len(p) /\ i \in 1 .. i /\ i <= Len(p)
    BY <1>1
  <2>2. a \in Path /\ Len(a) = i /\ \A j \in 1 .. i : a[j] = p[j]
    BY <1>1, <2>1, PrefixPath DEF Path
  <2>. HIDE DEF a
  <2>3. Within(a, p) /\ a # p /\ a # Root
    BY <1>1, <2>1, <2>2, WithinElements, PathLen
  <2>4. a \in DOMAIN f /\ f[a].kind = "dir"
    BY <2>2, <2>3 DEF Good, Closed, IsDir
  <2>5. Leaf(a) \in DirNames
    BY <2>4 DEF Good, Fitting
  <2>. QED
    BY <2>1, <2>2, <2>5 DEF Leaf
<1>. DEFINE d == Parent(p)
<1>. HIDE DEF d
<1>5. d \in Path /\ \A i \in 1 .. Len(d) : d[i] \in DirNames
  BY <1>2, <1>4 DEF d
<1>6. d \in Seq(DirNames)
  <2>1. d = [i \in 1 .. Len(d) |-> d[i]] /\ Len(d) \in Nat
    BY <1>5, LenProperties DEF Path
  <2>2. d \in [1 .. Len(d) -> DirNames]
    BY <1>5, <2>1
  <2>. QED
    BY <2>1, <2>2, SeqDef
<1>. QED
  BY <1>3, <1>6 DEF d

(* The folders an import makes on the way to a file.                       *)
LEMMA AncestorsOf ==
  ASSUME NEW p \in Path
  PROVE  \A a : a \in Ancestors(p) <=> a \in Path /\ a # Root /\ Within(a, p) /\ a # p
<1>1. Len(p) \in Nat
  BY PathLen
<1>2. ASSUME NEW a \in Ancestors(p) PROVE a \in Path /\ a # Root /\ Within(a, p) /\ a # p
  <2>1. PICK k \in 1 .. Len(p) - 1 : a = SubSeq(p, 1, k)
    BY DEF Ancestors
  <2>2. k \in 0 .. Len(p) /\ k # 0 /\ k # Len(p) /\ k <= Len(p)
    BY <1>1, <2>1
  <2>3. a \in Path /\ Len(a) = k /\ \A j \in 1 .. k : a[j] = p[j]
    BY <2>1, <2>2, PrefixPath DEF Path
  <2>. QED
    BY <2>2, <2>3, WithinElements, PathLen
<1>3. ASSUME NEW a \in Path, a # Root, Within(a, p), a # p PROVE a \in Ancestors(p)
  <2>1. Len(a) \in 1 .. Len(p) - 1
    BY <1>1, <1>3, PathLen, WithinElements, SamePath
  <2>. QED
    BY <1>3, <2>1 DEF Ancestors, Within
<1>. QED
  BY <1>2, <1>3

LEMMA GoodWithDirs ==
  ASSUME NEW f, Good(f), NEW p \in Path, p # Root, Len(p) <= MaxDepth,
         Parent(p) \in Seq(DirNames), \A a \in Ancestors(p) : IsDir(WithDirs(f, p), a)
  PROVE  /\ Good(WithDirs(f, p)) /\ DOMAIN WithDirs(f, p) = DOMAIN f \cup Ancestors(p)
         /\ IsDir(WithDirs(f, p), Parent(p))
         /\ \A r \in DOMAIN f : WithDirs(f, p)[r] = f[r]
         /\ \A r \in Ancestors(p) \ DOMAIN f : WithDirs(f, p)[r] = Folder
<1>. DEFINE g == WithDirs(f, p)
<1>1. /\ DOMAIN g = DOMAIN f \cup Ancestors(p)
      /\ \A r \in DOMAIN f : g[r] = f[r]
      /\ \A r \in Ancestors(p) \ DOMAIN f : g[r] = Folder
      /\ \A a \in Ancestors(p) : IsDir(g, a)
  BY DEF WithDirs
<1>. HIDE DEF g
<1>2. Len(p) \in Nat /\ MaxDepth \in Nat
  BY PathLen, BackupTreeAssumption
<1>3. ASSUME NEW a \in Ancestors(p) PROVE Leaf(a) \in DirNames /\ Len(a) <= MaxDepth
  <2>1. a \in Path /\ a # Root /\ Within(a, p) /\ a # p
    BY AncestorsOf
  <2>2. Within(a, Parent(p)) /\ Parent(p) \in Path
    BY <2>1, ParentPath
  <2>3. Len(a) \in 1 .. Len(Parent(p)) /\ a[Len(a)] = Parent(p)[Len(a)]
    BY <2>1, <2>2, WithinElements, PathLen
  <2>4. Leaf(a) \in DirNames
    BY <2>3, ElementOfSeq DEF Leaf
  <2>5. Len(a) <= Len(p) /\ Len(a) \in Nat
    BY <2>1, WithinElements, PathLen
  <2>. QED
    BY <1>2, <2>4, <2>5
<1>4. ASSUME NEW r \in DOMAIN g
      PROVE  r \in Path /\ r # Root /\ Len(r) <= MaxDepth /\ Fitting(g[r], Leaf(r))
  <2>1. CASE r \in DOMAIN f
    BY <1>1, <2>1 DEF Good
  <2>2. CASE r \notin DOMAIN f
    BY <1>1, <1>3, <2>2, AncestorsOf, Entries DEF Fitting
  <2>. QED
    BY <2>1, <2>2
<1>5. ASSUME NEW r \in DOMAIN g, NEW a \in Path, Within(a, r), a # r PROVE IsDir(g, a)
  <2>1. CASE r \in DOMAIN f
    <3>1. IsDir(f, a)
      BY <1>5, <2>1 DEF Good, Closed
    <3>. QED
      BY <1>1, <3>1 DEF IsDir
  <2>2. CASE r \notin DOMAIN f
    <3>1. r \in Path /\ Within(r, p) /\ r # p
      BY <1>1, <2>2, AncestorsOf
    <3>2. Within(a, p) /\ a # p
      BY <1>5, <3>1, WithinTransitive, WithinBoth
    <3>. QED
      BY <1>1, <3>2, AncestorsOf DEF IsDir
  <2>. QED
    BY <2>1, <2>2
<1>6. IsDir(g, Parent(p))
  BY <1>1, AncestorsOf, ParentPath DEF IsDir
<1>. QED
  BY <1>1, <1>4, <1>5, <1>6 DEF g, Good, Closed

(* What moves takes a place where there is a folder for it, not inside     *)
(* itself, and what it replaces is of its sort.                            *)
MayRelocate(f, p, q) ==
  /\ p \in DOMAIN f /\ q \in Path /\ q # Root
  /\ IsDir(f, Parent(q)) /\ ~Within(p, Parent(q)) /\ Fitting(f[p], Leaf(q))
  /\ \A r \in Below(f, p) :
       /\ Len(Moved(p, q, r)) <= MaxDepth
       /\ Moved(p, q, r) \in DOMAIN f =>
            (f[Moved(p, q, r)].kind = "dir" <=> f[r].kind = "dir")

LEMMA RelocatedEntries ==
  ASSUME NEW f, Good(f), NEW p \in DOMAIN f, NEW q \in Path
  PROVE  /\ DOMAIN Relocated(f, p, q) =
              (DOMAIN f \ Below(f, p)) \cup {Moved(p, q, r) : r \in Below(f, p)}
         /\ \A r \in Below(f, p) : Relocated(f, p, q)[Moved(p, q, r)] = f[r]
         /\ \A r \in DOMAIN f \ Below(f, p) :
              r \in {Moved(p, q, s) : s \in Below(f, p)} \/ Relocated(f, p, q)[r] = f[r]
<1>. DEFINE g == Relocated(f, p, q)
            gone == Below(f, p)
            come == {Moved(p, q, r) : r \in gone}
            value(r) == IF r \in come THEN f[CHOOSE s \in gone : Moved(p, q, s) = r] ELSE f[r]
<1>1. g = [r \in (DOMAIN f \ gone) \cup come |-> value(r)]
  BY DEF Relocated
<1>2. ASSUME NEW r \in gone PROVE value(Moved(p, q, r)) = f[r]
  <2>1. Moved(p, q, r) \in come
    OBVIOUS
  <2>2. PICK s \in gone : /\ Moved(p, q, s) = Moved(p, q, r)
                          /\ s = CHOOSE t \in gone : Moved(p, q, t) = Moved(p, q, r)
    OBVIOUS
  <2>3. /\ p \in Path /\ r \in Path /\ s \in Path /\ Within(p, r) /\ Within(p, s)
    BY <1>2, <2>2 DEF Below, Good
  <2>4. r = s
    BY <2>2, <2>3, MovedInjective
  <2>. QED
    BY <2>1, <2>2, <2>4
<1>. HIDE DEF gone, value
<1>3. DOMAIN g = (DOMAIN f \ gone) \cup come
  BY <1>1
<1>4. ASSUME NEW r \in gone PROVE g[Moved(p, q, r)] = f[r]
  <2>1. Moved(p, q, r) \in come
    OBVIOUS
  <2>. HIDE DEF come
  <2>. QED
    BY <1>1, <1>2, <2>1
<1>5. ASSUME NEW r \in DOMAIN f \ gone, r \notin come PROVE g[r] = f[r]
  <2>1. value(r) = f[r]
    BY <1>5 DEF value
  <2>. HIDE DEF come
  <2>. QED
    BY <1>1, <1>5, <2>1
<1>. HIDE DEF g
<1>. QED
  BY <1>3, <1>4, <1>5 DEF g, gone

LEMMA MovedLeaf ==
  ASSUME NEW p \in Path, NEW q \in Path, NEW r \in Path, Within(p, r)
  PROVE  r # p => Leaf(Moved(p, q, r)) = Leaf(r)
<1>. SUFFICES ASSUME r # p PROVE Leaf(Moved(p, q, r)) = Leaf(r)
  OBVIOUS
<1>. DEFINE m == Moved(p, q, r)
<1>. HIDE DEF m
<1>1. Len(p) \in Nat /\ Len(q) \in Nat /\ Len(r) \in Nat /\ Len(p) <= Len(r) /\ Len(p) # Len(r)
  BY PathLen, WithinElements, SamePath
<1>2. /\ Len(m) = Len(q) + (Len(r) - Len(p))
      /\ \A i \in 1 .. Len(r) - Len(p) : m[Len(q) + i] = r[Len(p) + i]
  BY MovedPath DEF m
<1>3. Len(r) - Len(p) \in 1 .. Len(r) - Len(p)
  BY <1>1
<1>4. m[Len(q) + (Len(r) - Len(p))] = r[Len(p) + (Len(r) - Len(p))]
  BY <1>2, <1>3
<1>5. Len(p) + (Len(r) - Len(p)) = Len(r)
  BY <1>1
<1>. QED
  BY <1>2, <1>4, <1>5 DEF m, Leaf

LEMMA GoodRelocated ==
  ASSUME NEW f, Good(f), NEW p, NEW q, MayRelocate(f, p, q)
  PROVE  Good(Relocated(f, p, q))
<1>. DEFINE g == Relocated(f, p, q)
            gone == Below(f, p)
            come == {Moved(p, q, r) : r \in gone}
<1>1. p \in DOMAIN f /\ p \in Path /\ p # Root /\ q \in Path /\ q # Root
  BY DEF MayRelocate, Good
<1>2. /\ DOMAIN g = (DOMAIN f \ gone) \cup come
      /\ \A r \in gone : g[Moved(p, q, r)] = f[r]
      /\ \A r \in DOMAIN f \ gone : r \in come \/ g[r] = f[r]
  BY <1>1, RelocatedEntries
<1>3. \A r \in DOMAIN f : r \in gone <=> Within(p, r)
  BY DEF Below
<1>4. \A r \in gone : r \in DOMAIN f
  BY DEF Below
<1>. HIDE DEF g
<1>5. ASSUME NEW s \in DOMAIN g
      PROVE  s \in Path /\ s # Root /\ Len(s) <= MaxDepth /\ Fitting(g[s], Leaf(s))
  <2>1. CASE s \in come
    <3>1. PICK r \in gone : s = Moved(p, q, r)
      BY <2>1
    <3>2. r \in DOMAIN f /\ r \in Path /\ r # Root /\ Within(p, r) /\ Fitting(f[r], Leaf(r))
      BY <1>3, <1>4 DEF Good
    <3>3. s \in Path /\ Within(q, s) /\ (r = p => s = q) /\ (r # p => Leaf(s) = Leaf(r))
      <4>1. s \in Path
        BY <1>1, <3>1, <3>2, MovedPath
      <4>2. Within(q, s) /\ (r = p => s = q)
        BY <1>1, <3>1, <3>2, MovedBelow
      <4>3. r # p => Leaf(s) = Leaf(r)
        BY <1>1, <3>1, <3>2, MovedLeaf
      <4>. QED
        BY <4>1, <4>2, <4>3
    <3>4. s # Root
      BY <1>1, <3>3, WithinElements, PathLen
    <3>5. Len(s) <= MaxDepth
      BY <3>1 DEF MayRelocate
    <3>6. g[s] = f[r] /\ Fitting(g[s], Leaf(s))
      BY <1>2, <3>1, <3>2, <3>3 DEF MayRelocate
    <3>. QED
      BY <3>3, <3>4, <3>5, <3>6
  <2>2. CASE s \notin come
    BY <1>2, <2>2 DEF Good
  <2>. QED
    BY <2>1, <2>2
(* A folder that stays where it is, or that is merged into, is a folder.   *)
<1>6. ASSUME NEW a \in Path, IsDir(f, a), a \notin gone PROVE IsDir(g, a)
  <2>1. CASE a = Root
    BY <2>1 DEF IsDir
  <2>2. CASE a # Root /\ a \in come
    <3>1. PICK r \in gone : a = Moved(p, q, r)
      BY <2>2
    <3>2. a \in DOMAIN f /\ f[a].kind = "dir"
      BY <1>6, <2>2 DEF IsDir
    <3>3. f[r].kind = "dir"
      BY <3>1, <3>2 DEF MayRelocate
    <3>. QED
      BY <1>2, <3>1, <3>3 DEF IsDir
  <2>3. CASE a # Root /\ a \notin come
    BY <1>2, <1>6, <2>3 DEF IsDir
  <2>. QED
    BY <2>1, <2>2, <2>3
<1>7. ASSUME NEW s \in DOMAIN g, NEW a \in Path, Within(a, s), a # s PROVE IsDir(g, a)
  <2>1. CASE s \in come
    <3>1. PICK r \in gone : s = Moved(p, q, r)
      BY <2>1
    <3>2. r \in DOMAIN f /\ r \in Path /\ Within(p, r)
      BY <1>3, <1>4 DEF Good
    <3>3. s \in Path /\ Within(q, s)
      BY <1>1, <3>1, <3>2, MovedPath, MovedBelow
    <3>4. CASE Within(q, a)
      <4>1. PICK t \in Path : Within(p, t) /\ Within(t, r) /\ a = Moved(p, q, t)
        BY <1>1, <1>7, <3>1, <3>2, <3>4, MovedAncestors
      <4>2. t # r /\ t # Root
        BY <1>1, <1>7, <3>1, <4>1, WithinElements, PathLen
      <4>3. t \in DOMAIN f /\ f[t].kind = "dir"
        BY <3>2, <4>1, <4>2 DEF Good, Closed, IsDir
      <4>4. t \in gone
        BY <1>3, <4>1, <4>3
      <4>. QED
        BY <1>2, <4>1, <4>3, <4>4 DEF IsDir
    <3>5. CASE ~Within(q, a)
      <4>1. Within(a, q) /\ a # q
        BY <1>1, <1>7, <3>3, <3>5, WithinOneWay, WithinItself
      <4>2. IsDir(f, a)
        BY <1>1, <4>1, FoldersAbove DEF MayRelocate
      <4>3. Within(a, Parent(q)) /\ Parent(q) \in Path
        BY <1>1, <4>1, ParentPath
      <4>4. ~Within(p, a)
        BY <1>1, <4>3, WithinTransitive DEF MayRelocate
      <4>5. a \notin gone
        BY <4>4 DEF Below
      <4>. QED
        BY <1>6, <4>2, <4>5
    <3>. QED
      BY <3>4, <3>5
  <2>2. CASE s \notin come
    <3>1. s \in DOMAIN f /\ s \in Path /\ ~Within(p, s)
      BY <1>2, <1>3, <2>2 DEF Good
    <3>2. IsDir(f, a)
      BY <1>7, <3>1 DEF Good, Closed
    <3>3. ~Within(p, a)
      BY <1>1, <1>7, <3>1, WithinTransitive
    <3>4. a \notin gone
      BY <3>3 DEF Below
    <3>. QED
      BY <1>6, <3>2, <3>4
  <2>. QED
    BY <2>1, <2>2
<1>. QED
  BY <1>5, <1>7 DEF g, Good, Closed

(* A new name in the same folder.                                          *)
LEMMA Renamed ==
  ASSUME NEW f, Good(f), NEW p \in DOMAIN f, NEW n \in Names, In(Parent(p), n) # p,
         Fitting(f[p], n), CanWrite(f, In(Parent(p), n)),
         f[p].kind = "dir" => In(Parent(p), n) \notin DOMAIN f
  PROVE  /\ MayRelocate(f, p, In(Parent(p), n))
         /\ \A r \in DOMAIN f : \/ Within(p, r)
                                \/ r = In(Parent(p), n)
                                \/ /\ r \in DOMAIN Relocated(f, p, In(Parent(p), n))
                                   /\ Relocated(f, p, In(Parent(p), n))[r] = f[r]
<1>. DEFINE q == In(Parent(p), n)
            g == Relocated(f, p, q)
<1>1. /\ p \in Path /\ p # Root /\ Parent(p) \in Path /\ Len(Parent(p)) = Len(p) - 1
      /\ Len(p) \in Nat /\ ~Within(p, Parent(p)) /\ Len(p) <= MaxDepth
  <2>1. p \in Path /\ p # Root /\ Len(p) <= MaxDepth /\ Len(p) \in Nat
    BY PathLen DEF Good
  <2>2. Parent(p) \in Path /\ Len(Parent(p)) = Len(p) - 1 /\ Within(Parent(p), p) /\ Parent(p) # p
    BY <2>1, ParentPath
  <2>. QED
    BY <2>1, <2>2, WithinBoth
<1>2. q \in Path /\ q # Root /\ Len(q) = Len(p) /\ Parent(q) = Parent(p) /\ Leaf(q) = n
  BY <1>1, InPath
<1>3. IsDir(f, Parent(q))
  BY <1>2, FolderNames
<1>. HIDE DEF q
<1>4. ASSUME NEW r \in Below(f, p)
      PROVE  /\ r \in Path /\ Within(p, r) /\ r \in DOMAIN f
             /\ Len(Moved(p, q, r)) <= MaxDepth
             /\ r # p => f[p].kind = "dir" /\ Moved(p, q, r) \notin DOMAIN f
             /\ Moved(p, q, p) = q
  <2>1. r \in Path /\ Within(p, r) /\ r \in DOMAIN f /\ Len(r) \in Nat /\ Len(r) <= MaxDepth
    BY PathLen DEF Below, Good
  <2>2. Len(Moved(p, q, r)) = Len(q) + (Len(r) - Len(p))
    BY <1>1, <1>2, <2>1, MovedPath
  <2>3. Moved(p, q, r) \in Path /\ Within(q, Moved(p, q, r)) /\ (r # p => Moved(p, q, r) # q)
    BY <1>1, <1>2, <2>1, MovedPath, MovedBelow
  <2>4. ASSUME r # p PROVE f[p].kind = "dir" /\ Moved(p, q, r) \notin DOMAIN f
    <3>1. f[p].kind = "dir"
      BY <1>1, <2>1, <2>4 DEF Good, Closed, IsDir
    <3>2. q \notin DOMAIN f
      BY <3>1 DEF q
    <3>. QED
      BY <1>2, <2>3, <2>4, <3>1, <3>2 DEF Good, Closed, IsDir
  <2>5. Moved(p, q, p) = q
    BY <1>1, <1>2, WithinItself, MovedBelow
  <2>. QED
    BY <1>1, <1>2, <2>1, <2>2, <2>4, <2>5
<1>5. q \in DOMAIN f => f[q].kind # "dir" /\ f[p].kind # "dir"
  BY DEF CanWrite, IsFile, q
<1>6. MayRelocate(f, p, q)
  <2>1. \A r \in Below(f, p) :
          /\ Len(Moved(p, q, r)) <= MaxDepth
          /\ Moved(p, q, r) \in DOMAIN f => (f[Moved(p, q, r)].kind = "dir" <=> f[r].kind = "dir")
    BY <1>4, <1>5
  <2>2. Fitting(f[p], Leaf(q))
    BY <1>2
  <2>. QED
    BY <1>1, <1>2, <1>3, <2>1, <2>2 DEF MayRelocate
<1>7. ASSUME NEW r \in DOMAIN f, ~Within(p, r), r # q
      PROVE  r \in DOMAIN g /\ g[r] = f[r]
  <2>1. r \in DOMAIN f \ Below(f, p)
    BY <1>7 DEF Below
  <2>2. r \notin {Moved(p, q, s) : s \in Below(f, p)}
    BY <1>4, <1>7
  <2>. QED
    BY <1>2, <2>1, <2>2, RelocatedEntries
<1>. QED
  BY <1>6, <1>7 DEF q

(***************************************************************************)
(* What the tree shows.                                                    *)
(***************************************************************************)

(* Items of a tree are what a library can hold, below shown folders.       *)
Items(v) ==
  /\ Root \in DOMAIN v /\ v[Root].dir
  /\ \A i \in DOMAIN v :
       /\ i \in Path /\ Len(i) <= MaxDepth /\ Shown(i)
       /\ v[i] \in [dir : BOOLEAN, ro : BOOLEAN]
       /\ i # Root => /\ Parent(i) \in Seq(DirNames)
                      /\ Leaf(i) \in IF v[i].dir THEN DirNames ELSE FileNames

LEMMA ShownParts ==
  ASSUME NEW p \in Path
  PROVE  /\ Shown(p) <=> \A i \in 1 .. Len(p) : p[i].stem \notin Hidden
         /\ Shown(p) /\ p # Root => Shown(Parent(p))
         /\ \A n \in Names : Shown(p) /\ n.stem \notin Hidden => Shown(In(p, n))
<1>1. \A r \in Path : Shown(r) <=> \A i \in 1 .. Len(r) : r[i].stem \notin Hidden
  <2>1. \A r \in Path : DOMAIN r = 1 .. Len(r)
    BY LenProperties DEF Path
  <2>. QED
    BY <2>1 DEF Shown
<1>2. ASSUME Shown(p), p # Root PROVE Shown(Parent(p))
  <2>1. Parent(p) \in Path /\ Len(Parent(p)) = Len(p) - 1 /\ Len(p) \in Nat
        /\ \A i \in 1 .. Len(p) - 1 : Parent(p)[i] = p[i]
    BY <1>2, ParentPath, PathLen
  <2>2. \A i \in 1 .. Len(p) - 1 : i \in 1 .. Len(p)
    BY <2>1
  <2>. QED
    BY <1>1, <1>2, <2>1, <2>2
<1>3. ASSUME NEW n \in Names, Shown(p), n.stem \notin Hidden PROVE Shown(In(p, n))
  <2>1. /\ In(p, n) \in Path /\ Len(In(p, n)) = Len(p) + 1 /\ Len(p) \in Nat
        /\ \A i \in 1 .. Len(p) : In(p, n)[i] = p[i]
        /\ In(p, n)[Len(p) + 1] = n
    BY InPath, AppendProperties, LenProperties DEF In, Path
  <2>2. \A i \in 1 .. Len(p) + 1 : i \in 1 .. Len(p) \/ i = Len(p) + 1
    BY <2>1
  <2>. QED
    BY <1>1, <1>3, <2>1, <2>2
<1>. QED
  BY <1>1, <1>2, <1>3

LEMMA RootPath == Root \in Path /\ Root \in Seq(DirNames) /\ Shown(Root) /\ Len(Root) = 0
<1>1. Root \in Path /\ Root \in Seq(DirNames) /\ Len(Root) = 0
  BY EmptySeq DEF Root, Path
<1>. QED
  BY <1>1, ShownParts

LEMMA ViewShows ==
  ASSUME NEW f, Good(f)
  PROVE  /\ Items(View(f))
         /\ DOMAIN View(f) = {p \in DOMAIN f : Shown(p)} \cup {Root}
<1>. DEFINE v == View(f)
<1>1. /\ DOMAIN v = {p \in DOMAIN f : Shown(p)} \cup {Root}
      /\ v[Root] = [dir |-> TRUE, ro |-> FALSE]
      /\ \A p \in DOMAIN v : p # Root =>
           v[p] = [dir |-> f[p].kind = "dir", ro |-> f[p].kind # "dir" /\ f[p].ro]
  BY DEF View
<1>. HIDE DEF v
<1>2. v[Root] \in [dir : BOOLEAN, ro : BOOLEAN] /\ v[Root].dir
  BY <1>1
<1>3. ASSUME NEW i \in DOMAIN v, i # Root
      PROVE  /\ i \in Path /\ Len(i) <= MaxDepth /\ Shown(i)
             /\ v[i] \in [dir : BOOLEAN, ro : BOOLEAN]
             /\ Parent(i) \in Seq(DirNames)
             /\ Leaf(i) \in IF v[i].dir THEN DirNames ELSE FileNames
  <2>1. i \in DOMAIN f /\ Shown(i) /\ i \in Path /\ Len(i) <= MaxDepth /\ Fitting(f[i], Leaf(i))
    BY <1>1, <1>3 DEF Good
  <2>2. f[i].kind = "dir" \/ f[i].ro \in BOOLEAN
    BY <2>1, Entries DEF Fitting
  <2>3. v[i] = [dir |-> f[i].kind = "dir", ro |-> f[i].kind # "dir" /\ f[i].ro]
    BY <1>1, <1>3
  <2>4. v[i] \in [dir : BOOLEAN, ro : BOOLEAN]
    BY <2>2, <2>3
  <2>5. v[i].dir <=> f[i].kind = "dir"
    <3>. DEFINE d == f[i].kind = "dir"
                l == f[i].kind # "dir" /\ f[i].ro
    <3>1. v[i] = [dir |-> d, ro |-> l]
      BY <2>3
    <3>. HIDE DEF d, l
    <3>2. v[i].dir = d
      BY <3>1
    <3>. QED
      BY <3>2 DEF d
  <2>6. Leaf(i) \in IF v[i].dir THEN DirNames ELSE FileNames
    BY <2>1, <2>5 DEF Fitting
  <2>. QED
    BY <2>1, <2>4, <2>6, FolderNames
<1>4. Len(Root) <= MaxDepth
  BY RootPath, BackupTreeAssumption
<1>. QED
  BY <1>1, <1>2, <1>3, <1>4, RootPath DEF v, Items

LEMMA GreatestExists ==
  ASSUME NEW n \in Nat, NEW K \in SUBSET (0 .. n), K # {}
  PROVE  \E k \in K : \A j \in K : j <= k
<1>. DEFINE T == {n - k : k \in K}
<1>1. \A k \in K : k \in Nat /\ n - k \in Nat
  OBVIOUS
<1>0. \A k \in K : n - k \in T
  OBVIOUS
<1>a. T \subseteq Nat
  BY <1>1
<1>b. T # {}
  BY <1>0
<1>2. PICK t \in T : \A u \in T : ~(<<u, t>> \in OpToRel(<, Nat))
  BY <1>a, <1>b, NatLessThanWellFounded, WFMin
<1>3. ASSUME NEW u \in T PROVE ~(u < t)
  <2>1. u < t => <<u, t>> \in OpToRel(<, Nat)
    BY <1>a DEF OpToRel
  <2>. QED
    BY <1>2, <2>1, Zenon
<1>4. PICK k \in K : t = n - k
  OBVIOUS
<1>5. \A j \in K : ~(n - j < n - k)
  BY <1>0, <1>3, <1>4
<1>. QED
  BY <1>1, <1>5

(* The search for the selection ends at what was selected, if it is still  *)
(* there, and at a folder that is shown otherwise.                         *)
LEMMA NearestIsShown ==
  ASSUME NEW v, Items(v), NEW p \in Path
  PROVE  /\ Nearest(v, p) \in DOMAIN v
         /\ p \in DOMAIN v => Nearest(v, p) = p
<1>. DEFINE kept == {k \in 0 .. Len(p) : SubSeq(p, 1, k) \in DOMAIN v}
            best == CHOOSE k \in kept : \A j \in kept : j <= k
<1>1. Len(p) \in Nat /\ 0 \in 0 .. Len(p) /\ Len(p) \in 0 .. Len(p)
  BY PathLen
<1>2. SubSeq(p, 1, 0) = Root
  <2>1. SubSeq(p, 1, 0) \in Path /\ Len(SubSeq(p, 1, 0)) = 0
    BY <1>1, PrefixPath DEF Path
  <2>. QED
    BY <2>1, PathLen
<1>3. SubSeq(p, 1, Len(p)) = p
  BY WithinItself DEF Within
<1>4. 0 \in kept /\ kept \in SUBSET (0 .. Len(p))
  BY <1>1, <1>2 DEF Items
<1>5. \E k \in kept : \A j \in kept : j <= k
  BY <1>1, <1>4, GreatestExists
<1>6. best \in kept /\ \A j \in kept : j <= best
  BY <1>5
<1>7. Nearest(v, p) = SubSeq(p, 1, best)
  BY DEF Nearest
<1>8. p \in DOMAIN v => Len(p) \in kept
  BY <1>1, <1>3
<1>9. best \in 0 .. Len(p) /\ SubSeq(p, 1, best) \in DOMAIN v
  BY <1>6
<1>10. p \in DOMAIN v => Len(p) <= best
  BY <1>6, <1>8
<1>. HIDE DEF best, kept
<1>11. p \in DOMAIN v => best = Len(p)
  BY <1>1, <1>9, <1>10
<1>. QED
  BY <1>3, <1>7, <1>9, <1>11

(***************************************************************************)
(* The invariant.                                                          *)
(***************************************************************************)
SelInv == sel \in DOMAIN items \cup {None}

(* A handle that no refresh has voided is one of an item.                  *)
UiInv ==
  /\ ui \in [mode : Modes, item : Path \cup {None}, stale : BOOLEAN]
  /\ ui.mode \in {"drag", "edit"} => ~ui.stale /\ ui.item \in DOMAIN items
  /\ ui.mode = "menu" /\ ~ui.stale => ui.item \in DOMAIN items \cup {None}

Commands == [cmd : {"backup", "replace", "import"}, file : Path, target : Path,
             kind : Kinds, stage : {"write", "commit", "next"}, dir : Seq(DirNames),
             rest : SUBSET Found, count : Nat, made : SUBSET Path]

(* The file that is being written is as CREATE_ALWAYS left it.             *)
WriteInv ==
  op.stage = "write" =>
    op.file \in DOMAIN disk /\ disk[op.file] = [kind |-> op.kind, data |-> Torn, ro |-> FALSE]

BackupInv ==
  op.cmd = "backup" =>
    op.file = op.target /\ Shown(op.target) /\ op.target # Root /\ Leaf(op.target) \in BackupNames

(* What Replace is to replace is of the kind it writes, if still there.    *)
ReplaceInv ==
  op.cmd = "replace" =>
    /\ Shown(op.target) /\ op.target # Root /\ Leaf(op.target) \in BackupNames
    /\ op.file = Temp(op.target)
    /\ op.target \in DOMAIN disk => disk[op.target].kind = op.kind

(* The temporary file of Replace is complete before it is moved.           *)
CommitInv ==
  op.stage = "commit" =>
    /\ op.cmd = "replace"
    /\ op.file \in DOMAIN disk => disk[op.file].kind = op.kind /\ disk[op.file].data # Torn

ImportInv ==
  op.cmd = "import" /\ op.stage = "write" => fresh = None \/ fresh # op.file

OpInv == op # None => op \in Commands /\ WriteInv /\ BackupInv /\ ReplaceInv /\ CommitInv /\ ImportInv

(* The backup just made is still there, shown and selected.                *)
FreshInv ==
  fresh # None => /\ fresh \in DOMAIN disk /\ Shown(fresh) /\ sel = fresh
                  /\ Leaf(fresh).ext # "tmp"

Inv == Good(disk) /\ Items(items) /\ SelInv /\ UiInv /\ OpInv /\ FreshInv

(***************************************************************************)
(* Lemmas about the parts of an action.                                    *)
(***************************************************************************)
LEMMA DirPaths ==
  /\ Seq(DirNames) \subseteq Path
  /\ \A d \in Seq(DirNames), n \in DirNames : In(d, n) \in Seq(DirNames)
<1>1. DirNames \subseteq Names
  BY NameKinds
<1>2. Seq(DirNames) \subseteq Path
  <2>1. SUFFICES ASSUME NEW d \in Seq(DirNames) PROVE d \in Seq(Names)
    BY DEF Path
  <2>2. Len(d) \in Nat /\ d \in [1 .. Len(d) -> DirNames]
    BY LenProperties
  <2>3. d \in [1 .. Len(d) -> Names]
    BY <1>1, <2>2
  <2>. QED
    BY <2>2, <2>3, SeqDef
<1>3. \A d \in Seq(DirNames), n \in DirNames : In(d, n) \in Seq(DirNames)
  BY AppendProperties DEF In
<1>. QED
  BY <1>2, <1>3

LEMMA InParent == ASSUME NEW p \in Path, p # Root PROVE p = In(Parent(p), Leaf(p))
<1>1. Parent(p) \in Path /\ Len(Parent(p)) = Len(p) - 1 /\ Leaf(p) \in Names /\ Len(p) \in Nat \ {0}
      /\ \A i \in 1 .. Len(p) - 1 : Parent(p)[i] = p[i]
  BY ParentPath, PathLen
<1>2. /\ In(Parent(p), Leaf(p)) \in Path /\ Len(In(Parent(p), Leaf(p))) = Len(p)
      /\ \A i \in 1 .. Len(p) - 1 : In(Parent(p), Leaf(p))[i] = Parent(p)[i]
      /\ In(Parent(p), Leaf(p))[Len(p)] = Leaf(p)
  <2>1. /\ In(Parent(p), Leaf(p)) \in Path /\ Len(In(Parent(p), Leaf(p))) = Len(Parent(p)) + 1
        /\ \A i \in 1 .. Len(Parent(p)) : In(Parent(p), Leaf(p))[i] = Parent(p)[i]
        /\ In(Parent(p), Leaf(p))[Len(Parent(p)) + 1] = Leaf(p)
    BY <1>1, InPath, AppendProperties DEF In, Path
  <2>2. Len(Parent(p)) + 1 = Len(p)
    BY <1>1
  <2>. QED
    BY <1>1, <2>1, <2>2
<1>3. \A i \in 1 .. Len(p) : i \in 1 .. Len(p) - 1 \/ i = Len(p)
  BY <1>1
<1>4. \A i \in 1 .. Len(p) : In(Parent(p), Leaf(p))[i] = p[i]
  BY <1>1, <1>2, <1>3 DEF Leaf
<1>. QED
  BY <1>2, <1>4, SamePath

LEMMA FolderOfItem ==
  ASSUME Items(items), NEW i \in DOMAIN items \cup {None}
  PROVE  FolderOf(i) \in Seq(DirNames) /\ FolderOf(i) \in Path /\ Shown(FolderOf(i))
<1>1. CASE i = None
  BY <1>1, RootPath DEF FolderOf
<1>2. CASE i # None /\ i = Root
  BY <1>2, RootPath DEF FolderOf, Items
<1>3. CASE i # None /\ i # Root /\ items[i].dir
  <2>1. i \in Path /\ Parent(i) \in Seq(DirNames) /\ Leaf(i) \in DirNames /\ Shown(i)
    BY <1>3 DEF Items
  <2>. QED
    BY <1>3, <2>1, InParent, DirPaths DEF FolderOf
<1>4. CASE i # None /\ i # Root /\ ~items[i].dir
  <2>1. i \in Path /\ Parent(i) \in Seq(DirNames) /\ Shown(i)
    BY <1>4 DEF Items
  <2>. QED
    BY <1>4, <2>1, ShownParts, DirPaths DEF FolderOf
<1>. QED
  BY <1>1, <1>2, <1>3, <1>4

LEMMA SelectedFolder ==
  ASSUME Items(items), SelInv
  PROVE  SelectedDir \in Seq(DirNames) /\ SelectedDir \in Path /\ Shown(SelectedDir)
BY FolderOfItem DEF SelectedDir, FolderOf, SelInv

LEMMA TempPath ==
  ASSUME NEW p \in Path, p # Root, Leaf(p) \in BackupNames
  PROVE  /\ Temp(p) \in Path /\ Temp(p) # Root /\ Parent(Temp(p)) = Parent(p)
         /\ Leaf(Temp(p)) \in FileNames /\ Leaf(Temp(p)).ext = "tmp" /\ Temp(p) # p
<1>1. Parent(p) \in Path /\ TempOf(Leaf(p)) \in FileNames /\ TempOf(Leaf(p)) \in Names
      /\ TempOf(Leaf(p)).ext = "tmp" /\ Leaf(p).ext = "bak"
  BY ParentPath, NameKinds
<1>. QED
  BY <1>1, InPath DEF Temp

LEMMA StampedBackup ==
  ASSUME Items(items), SelInv, NEW k \in Kinds, NEW s \in StampOf[k]
  PROVE  /\ In(SelectedDir, Name(s, "bak")) \in Path
         /\ In(SelectedDir, Name(s, "bak")) # Root
         /\ Leaf(In(SelectedDir, Name(s, "bak"))) \in BackupNames
         /\ Shown(In(SelectedDir, Name(s, "bak")))
<1>1. s \in Stems /\ s \notin Hidden
  BY BackupTreeAssumption
<1>2. Name(s, "bak") \in BackupNames /\ Name(s, "bak").stem = s
  BY <1>1 DEF Name, BackupNames
<1>. QED
  BY <1>1, <1>2, NameKinds, SelectedFolder, InPath, ShownParts

LEMMA GoodUnopened ==
  ASSUME NEW f, Good(f), NEW p \in Path
  PROVE  /\ Good(Unopened(f, p))
         /\ \/ Unopened(f, p) = f
            \/ IsFile(f, p) /\ ~f[p].ro /\ Unopened(f, p) = Without(f, {p})
BY WithoutFile DEF Unopened

LEMMA NewFile ==
  ASSUME NEW f, Good(f), NEW p \in Path, p # Root, Leaf(p) \in FileNames,
         CanWrite(f, p), Fits(f, p), NEW k \in Kinds
  PROVE  /\ Good(Opened(f, p, k)) /\ DOMAIN Opened(f, p, k) = DOMAIN f \cup {p}
         /\ Opened(f, p, k)[p] = [kind |-> k, data |-> Torn, ro |-> FALSE]
         /\ \A r \in DOMAIN f : r # p => Opened(f, p, k)[r] = f[r]
<1>. DEFINE e == [kind |-> k, data |-> Torn, ro |-> FALSE]
<1>1. e \in Backup /\ e.kind # "dir"
  BY DEF Backup, Kinds
<1>. HIDE DEF e
<1>2. Fitting(e, Leaf(p))
  BY <1>1 DEF Fitting
<1>3. Len(p) <= MaxDepth /\ IsDir(f, Parent(p)) /\ (p \notin DOMAIN f \/ IsFile(f, p))
  BY DEF CanWrite, Fits
<1>4. Good(With(f, p, e))
  BY <1>2, <1>3, GoodWith
<1>5. /\ DOMAIN With(f, p, e) = DOMAIN f \cup {p} /\ With(f, p, e)[p] = e
      /\ \A r \in DOMAIN f : r # p => With(f, p, e)[r] = f[r]
  BY DEF With
<1>. QED
  BY <1>4, <1>5 DEF Opened, e

LEMMA FileWritten ==
  ASSUME Good(disk), op # None, op \in Commands, WriteInv, op.stage = "write", NEW d \in Data
  PROVE  /\ Good(Written(d)) /\ DOMAIN Written(d) = DOMAIN disk
         /\ Written(d)[op.file] = [kind |-> op.kind, data |-> d, ro |-> FALSE]
         /\ \A r \in DOMAIN disk : r # op.file => Written(d)[r] = disk[r]
<1>1. op.file \in DOMAIN disk /\ disk[op.file] = [kind |-> op.kind, data |-> Torn, ro |-> FALSE]
      /\ op.kind \in Kinds
  BY DEF WriteInv, Commands
<1>2. /\ op.file \in Path /\ op.file # Root /\ Len(op.file) <= MaxDepth
      /\ Fitting(disk[op.file], Leaf(op.file)) /\ IsDir(disk, Parent(op.file))
  BY <1>1, FolderNames DEF Good
<1>. DEFINE e == [kind |-> op.kind, data |-> d, ro |-> FALSE]
<1>3. e \in Backup /\ e.kind = op.kind
  BY <1>1 DEF Backup
<1>4. disk[op.file].kind = op.kind /\ op.kind # "dir"
  BY <1>1 DEF Kinds
<1>. HIDE DEF e
<1>5. Fitting(e, Leaf(op.file))
  BY <1>2, <1>3, <1>4 DEF Fitting
<1>a. IsFile(disk, op.file)
  BY <1>1, <1>4 DEF IsFile
<1>6. Good(With(disk, op.file, e))
  BY <1>2, <1>5, <1>a, GoodWith
<1>7. /\ DOMAIN With(disk, op.file, e) = DOMAIN disk \cup {op.file}
      /\ With(disk, op.file, e)[op.file] = e
      /\ \A r \in DOMAIN disk : r # op.file => With(disk, op.file, e)[r] = disk[r]
  BY DEF With
<1>. QED
  BY <1>1, <1>6, <1>7 DEF Written, e

LEMMA Refreshed ==
  ASSUME NEW f, Good(f), NEW u, u = Idle \/ (u = ui /\ UiInv), Refresh(f, u)
  PROVE  Items(items') /\ UiInv' /\ DOMAIN items' = {p \in DOMAIN f : Shown(p)} \cup {Root}
<1>1. Items(items') /\ DOMAIN items' = {p \in DOMAIN f : Shown(p)} \cup {Root}
  BY ViewShows DEF Refresh
<1>2. Idle \in [mode : Modes, item : Path \cup {None}, stale : BOOLEAN] /\ Idle.mode = "idle"
  BY DEF Idle, Modes
<1>3. u \in [mode : Modes, item : Path \cup {None}, stale : BOOLEAN]
  BY <1>2 DEF UiInv
<1>4. UiInv'
  <2>1. CASE u.mode \in {"drag", "edit"}
    <3>1. ui' = Idle
      BY <2>1 DEF Refresh, EndsDrag
    <3>. QED
      BY <1>2, <3>1 DEF UiInv
  <2>2. CASE u.mode = "menu"
    <3>1. ui' = [u EXCEPT !.stale = TRUE]
      BY <2>2 DEF Refresh, EndsDrag
    <3>2. ui' \in [mode : Modes, item : Path \cup {None}, stale : BOOLEAN]
          /\ ui'.mode = "menu" /\ ui'.stale
      BY <1>3, <2>2, <3>1
    <3>. QED
      BY <3>2 DEF UiInv
  <2>3. CASE u.mode \notin {"drag", "edit", "menu"}
    <3>1. ui' = u
      BY <2>3 DEF Refresh, EndsDrag
    <3>. QED
      BY <1>3, <2>3, <3>1 DEF UiInv
  <2>. QED
    BY <2>1, <2>2, <2>3
<1>. QED
  BY <1>1, <1>4

(* A command that ends well shows what it made.                            *)
LEMMA Finished ==
  ASSUME UiInv, NEW f, Good(f), NEW p \in DOMAIN f, Shown(p), Leaf(p).ext # "tmp", Finish(f, p)
  PROVE  Inv'
<1>1. Items(items') /\ UiInv' /\ DOMAIN items' = {r \in DOMAIN f : Shown(r)} \cup {Root}
  BY Refreshed DEF Finish
<1>2. p \in DOMAIN View(f)
  BY ViewShows
<1>3. disk' = f /\ sel' = p /\ fresh' = p /\ op' = None
  BY <1>2 DEF Finish, Selectable
<1>. QED
  BY <1>1, <1>3 DEF Inv, SelInv, OpInv, FreshInv

(* A refresh that preserves the selection keeps a new backup selected.     *)
LEMMA RefreshedPreserving ==
  ASSUME Items(items), SelInv, FreshInv, NEW f, Good(f), NEW u, u = Idle \/ (u = ui /\ UiInv),
         RefreshPreserving(f, u), disk' = f, DOMAIN disk \subseteq DOMAIN f, op' = None,
         fresh' = fresh
  PROVE  Inv'
<1>1. Items(items') /\ UiInv' /\ DOMAIN items' = {p \in DOMAIN f : Shown(p)} \cup {Root}
      /\ items' = View(f)
  BY Refreshed DEF RefreshPreserving, Refresh
<1>2. sel' = Reselect(items', sel)
  BY <1>1 DEF RefreshPreserving
<1>3. sel = None \/ sel \in Path
  BY DEF SelInv, Items
<1>4. SelInv'
  <2>1. CASE sel = None
    BY <1>1, <1>2, <2>1 DEF SelInv, Reselect
  <2>2. CASE sel # None
    BY <1>1, <1>2, <1>3, <2>2, NearestIsShown DEF SelInv, Reselect
  <2>. QED
    BY <2>1, <2>2
<1>5. FreshInv'
  <2>1. SUFFICES ASSUME fresh # None PROVE FreshInv'
    BY DEF FreshInv
  <2>2. fresh \in DOMAIN f /\ Shown(fresh) /\ sel = fresh /\ Leaf(fresh).ext # "tmp"
    BY <2>1 DEF FreshInv
  <2>3. sel \in DOMAIN items' /\ sel # None
    BY <1>1, <2>1, <2>2
  <2>4. sel' = sel
    BY <1>1, <1>2, <1>3, <2>3, NearestIsShown DEF Reselect
  <2>. QED
    BY <2>2, <2>4 DEF FreshInv
<1>. QED
  BY <1>1, <1>4, <1>5 DEF Inv, OpInv

(* A step of a command that leaves the tree alone.                         *)
LEMMA CommandStep ==
  ASSUME Inv, UNCHANGED <<items, sel, ui>>, Good(disk'), OpInv',
         fresh' = None \/ (fresh' = fresh /\ (fresh # None => fresh \in DOMAIN disk'))
  PROVE  Inv'
<1>1. Items(items') /\ SelInv' /\ UiInv'
  BY DEF Inv, SelInv, UiInv
<1>2. FreshInv'
  BY DEF Inv, FreshInv
<1>. QED
  BY <1>1, <1>2 DEF Inv

(***************************************************************************)
(* The commands that write a backup.                                       *)
(***************************************************************************)
LEMMA BackupSaveKeeps == ASSUME Inv, NEW k \in Kinds, BackupSave(k) PROVE Inv'
<1>1. PICK s \in StampOf[k] :
        LET p == In(SelectedDir, Name(s, "bak")) IN
        /\ CanWrite(disk, p) /\ Fits(disk, p)
        /\ disk' = Opened(disk, p, k)
        /\ op' = Command("backup", p, p, k)
  BY DEF BackupSave
<1>. DEFINE p == In(SelectedDir, Name(s, "bak"))
<1>2. p \in Path /\ p # Root /\ Leaf(p) \in BackupNames /\ Shown(p)
  BY StampedBackup DEF Inv
<1>3. /\ CanWrite(disk, p) /\ Fits(disk, p)
      /\ disk' = Opened(disk, p, k) /\ op' = Command("backup", p, p, k)
  BY <1>1
<1>. HIDE DEF p
<1>4. /\ Good(disk') /\ DOMAIN disk' = DOMAIN disk \cup {p}
      /\ disk'[p] = [kind |-> k, data |-> Torn, ro |-> FALSE]
  <2>1. Leaf(p) \in FileNames /\ Good(disk)
    BY <1>2, NameKinds DEF Inv
  <2>2. /\ Good(Opened(disk, p, k)) /\ DOMAIN Opened(disk, p, k) = DOMAIN disk \cup {p}
        /\ Opened(disk, p, k)[p] = [kind |-> k, data |-> Torn, ro |-> FALSE]
    BY <1>2, <1>3, <2>1, NewFile
  <2>. QED
    BY <1>3, <2>2
<1>5. OpInv'
  <2>1. /\ op'.cmd = "backup" /\ op'.stage = "write" /\ op'.file = p /\ op'.target = p
        /\ op'.kind = k /\ op' \in Commands
    BY <1>2, <1>3, RootPath DEF Command, Commands
  <2>. QED
    BY <1>2, <1>4, <2>1
       DEF OpInv, WriteInv, BackupInv, ReplaceInv, CommitInv, ImportInv
<1>6. UNCHANGED <<items, sel, ui, fresh>>
  BY DEF BackupSave
<1>7. fresh # None => fresh \in DOMAIN disk'
  BY <1>4 DEF Inv, FreshInv
<1>. QED
  BY <1>4, <1>5, <1>6, <1>7, CommandStep

(* What may be replaced is a backup, and its temporary file goes beside it. *)
LEMMA ReplaceTarget ==
  ASSUME Inv, CanReplace
  PROVE  /\ sel \in DOMAIN disk /\ sel \in Path /\ sel # Root /\ Shown(sel)
         /\ Leaf(sel) \in BackupNames /\ disk[sel] \in Backup
         /\ Temp(sel) \in Path /\ Temp(sel) # Root /\ Temp(sel) # sel
         /\ Leaf(Temp(sel)) \in FileNames /\ Leaf(Temp(sel)).ext = "tmp"
<1>1. sel \in DOMAIN disk /\ disk[sel].kind # "dir" /\ sel \in DOMAIN items /\ Shown(sel)
  BY DEF CanReplace, ShownWritable, IsFile, Inv, SelInv, Items
<1>2. sel \in Path /\ sel # Root /\ Fitting(disk[sel], Leaf(sel))
  BY <1>1 DEF Inv, Good
<1>3. disk[sel] \in Backup /\ Leaf(sel) \in FileNames
  BY <1>1, <1>2, Entries DEF Fitting
<1>4. Leaf(sel) \in BackupNames
  BY <1>2, <1>3, NameKinds DEF CanReplace, NotLeftOver
<1>. QED
  BY <1>1, <1>2, <1>3, <1>4, TempPath

LEMMA BackupReplaceKeeps == ASSUME Inv, BackupReplace PROVE Inv'
<1>1. /\ CanReplace /\ CanWrite(disk, Temp(sel)) /\ Fits(disk, Temp(sel))
      /\ disk' = Opened(disk, Temp(sel), disk[sel].kind)
      /\ op' = Command("replace", Temp(sel), sel, disk[sel].kind)
      /\ UNCHANGED <<items, sel, ui, fresh>>
  BY DEF BackupReplace
<1>2. /\ sel \in DOMAIN disk /\ sel \in Path /\ sel # Root /\ Shown(sel)
      /\ Leaf(sel) \in BackupNames /\ disk[sel] \in Backup
      /\ Temp(sel) \in Path /\ Temp(sel) # Root /\ Temp(sel) # sel
      /\ Leaf(Temp(sel)) \in FileNames
  BY <1>1, ReplaceTarget
<1>3. disk[sel].kind \in Kinds
  BY <1>2, Entries
<1>4. /\ Good(disk') /\ DOMAIN disk' = DOMAIN disk \cup {Temp(sel)}
      /\ disk'[Temp(sel)] = [kind |-> disk[sel].kind, data |-> Torn, ro |-> FALSE]
      /\ disk'[sel] = disk[sel]
  BY <1>1, <1>2, <1>3, NewFile DEF Inv
<1>5. OpInv'
  <2>1. /\ op'.cmd = "replace" /\ op'.stage = "write" /\ op'.file = Temp(sel) /\ op'.target = sel
        /\ op'.kind = disk[sel].kind /\ op' \in Commands
    BY <1>1, <1>2, <1>3, RootPath DEF Command, Commands
  <2>2. Temp(op'.target) = Temp(sel)
    BY <2>1
  <2>. QED
    BY <1>2, <1>4, <2>1, <2>2
       DEF OpInv, WriteInv, BackupInv, ReplaceInv, CommitInv, ImportInv
<1>6. fresh # None => fresh \in DOMAIN disk'
  BY <1>4 DEF Inv, FreshInv
<1>. QED
  BY <1>1, <1>4, <1>5, <1>6, CommandStep

LEMMA BackupRefusedKeeps == ASSUME Inv, BackupRefused PROVE Inv'
<1>1. \E p \in Path : disk' = Unopened(disk, p)
  <2>1. CASE \E k \in Kinds : \E s \in StampOf[k] :
               disk' = Unopened(disk, In(SelectedDir, Name(s, "bak")))
    BY <2>1, StampedBackup DEF Inv
  <2>2. CASE CanReplace /\ disk' = Unopened(disk, Temp(sel))
    BY <2>2, ReplaceTarget
  <2>. QED
    BY <2>1, <2>2 DEF BackupRefused
<1>2. Good(disk')
  BY <1>1, GoodUnopened DEF Inv
<1>3. /\ op' = None /\ UNCHANGED <<items, sel, ui>>
      /\ fresh' = IF fresh \in DOMAIN disk' THEN fresh ELSE None
  BY DEF BackupRefused
<1>4. OpInv'
  BY <1>3 DEF OpInv
<1>. QED
  BY <1>2, <1>3, <1>4, CommandStep

LEMMA WriteBackupKeeps == ASSUME Inv, NEW d \in Data, WriteBackup(d) PROVE Inv'
<1>1. op # None /\ op.stage = "write" /\ op.cmd = "backup" /\ Finish(Written(d), op.target)
  BY DEF WriteBackup, Writing
<1>2. op \in Commands /\ WriteInv /\ BackupInv
  BY <1>1 DEF Inv, OpInv
<1>3. Good(Written(d)) /\ DOMAIN Written(d) = DOMAIN disk /\ op.file \in DOMAIN disk
  BY <1>1, <1>2, FileWritten DEF Inv, WriteInv
<1>4. op.target \in DOMAIN Written(d) /\ Shown(op.target) /\ Leaf(op.target).ext # "tmp"
  BY <1>1, <1>2, <1>3, NameKinds DEF BackupInv
<1>. DEFINE f == Written(d)
            p == op.target
<1>5. UiInv /\ Good(f) /\ p \in DOMAIN f /\ Shown(p) /\ Leaf(p).ext # "tmp" /\ Finish(f, p)
  BY <1>1, <1>3, <1>4 DEF Inv
<1>. HIDE DEF f, p
<1>. QED
  BY <1>5, Finished, Zenon

LEMMA WriteTempKeeps == ASSUME Inv, NEW d \in Data, WriteTemp(d) PROVE Inv'
<1>1. /\ op # None /\ op.stage = "write" /\ op.cmd = "replace"
      /\ disk' = Written(d) /\ op' = [op EXCEPT !.stage = "commit"]
      /\ UNCHANGED <<items, sel, ui, fresh>>
  BY DEF WriteTemp, Writing
<1>2. op \in Commands /\ WriteInv /\ ReplaceInv
  BY <1>1 DEF Inv, OpInv
<1>3. /\ Good(disk') /\ DOMAIN disk' = DOMAIN disk
      /\ disk'[op.file] = [kind |-> op.kind, data |-> d, ro |-> FALSE]
      /\ \A r \in DOMAIN disk : r # op.file => disk'[r] = disk[r]
  BY <1>1, <1>2, FileWritten DEF Inv
<1>4. /\ op' \in Commands /\ op'.stage = "commit" /\ op'.cmd = "replace" /\ op'.file = op.file
      /\ op'.target = op.target /\ op'.kind = op.kind
  BY <1>1, <1>2 DEF Commands
<1>5. d # Torn
  BY BackupTreeAssumption
<1>6. CommitInv'
  BY <1>3, <1>4, <1>5 DEF CommitInv
<1>7. ReplaceInv'
  <2>1. op.target # op.file
    BY <1>1, <1>2, TempPath DEF ReplaceInv, Commands
  <2>2. Temp(op'.target) = Temp(op.target)
    BY <1>4
  <2>. QED
    BY <1>1, <1>2, <1>3, <1>4, <2>1, <2>2 DEF ReplaceInv
<1>8. OpInv'
  BY <1>4, <1>6, <1>7 DEF OpInv, WriteInv, BackupInv, ImportInv
<1>. QED
  BY <1>1, <1>3, <1>8, CommandStep DEF Inv, FreshInv

LEMMA WriteFailsKeeps == ASSUME Inv, WriteFails PROVE Inv'
<1>1. /\ op # None /\ op.stage = "write" /\ disk' = Without(disk, {op.file}) /\ op' = None
      /\ UNCHANGED <<items, sel, ui>> /\ fresh' = IF fresh = op.file THEN None ELSE fresh
  BY DEF WriteFails, Writing
<1>2. IsFile(disk, op.file) /\ op.file \in Path
  BY <1>1 DEF Inv, OpInv, WriteInv, Commands, Kinds, IsFile
<1>3. Good(disk') /\ DOMAIN disk' = DOMAIN disk \ {op.file}
  <2>1. DOMAIN Without(disk, {op.file}) = DOMAIN disk \ {op.file}
    BY DEF Without
  <2>. QED
    BY <1>1, <1>2, <2>1, WithoutFile DEF Inv
<1>4. OpInv'
  BY <1>1 DEF OpInv
<1>5. fresh' = None \/ (fresh' = fresh /\ (fresh # None => fresh \in DOMAIN disk'))
  BY <1>1, <1>3 DEF Inv, FreshInv
<1>. QED
  BY <1>1, <1>3, <1>4, <1>5, CommandStep

(* commit_replace_temp_file gives the temporary file the selected name.    *)
LEMMA CommitMoves ==
  ASSUME Inv, Commit
  PROVE  /\ op # None /\ op.stage = "commit" /\ op.cmd = "replace" /\ op \in Commands
         /\ ReplaceInv /\ CommitInv /\ IsFile(disk, op.file) /\ CanWrite(disk, op.target)
         /\ MayRelocate(disk, op.file, op.target)
         /\ Finish(Relocated(disk, op.file, op.target), op.target)
         /\ Below(disk, op.file) = {op.file} /\ Moved(op.file, op.target, op.file) = op.target
         /\ op.file # op.target
<1>1. /\ op # None /\ op.stage = "commit" /\ IsFile(disk, op.file) /\ CanWrite(disk, op.target)
      /\ Finish(Relocated(disk, op.file, op.target), op.target)
  BY DEF Commit, Committing, CanCommit
<1>2. op \in Commands /\ CommitInv /\ ReplaceInv /\ op.cmd = "replace"
  BY <1>1 DEF Inv, OpInv, CommitInv
<1>3. /\ op.target \in Path /\ op.target # Root /\ Leaf(op.target) \in BackupNames
      /\ op.file = Temp(op.target)
  BY <1>2 DEF Commands, ReplaceInv
<1>4. /\ op.file \in Path /\ op.file # op.target /\ Parent(op.file) = Parent(op.target)
      /\ op.file \in DOMAIN disk /\ disk[op.file].kind # "dir"
  BY <1>1, <1>3, TempPath DEF IsFile
<1>5. In(Parent(op.file), Leaf(op.target)) = op.target /\ Leaf(op.target) \in Names
  BY <1>3, <1>4, InParent, ParentPath
<1>6. Fitting(disk[op.file], Leaf(op.target))
  <2>1. Fitting(disk[op.file], Leaf(op.file))
    BY <1>4 DEF Inv, Good
  <2>. QED
    BY <1>3, <1>4, <2>1, NameKinds DEF Fitting
<1>7. MayRelocate(disk, op.file, op.target)
  BY <1>1, <1>4, <1>5, <1>6, Renamed DEF Inv
<1>8. Below(disk, op.file) = {op.file} /\ Moved(op.file, op.target, op.file) = op.target
  BY <1>1, <1>3, <1>4, WithoutFile, WithinItself, MovedBelow DEF Inv
<1>. QED
  BY <1>1, <1>2, <1>4, <1>7, <1>8

LEMMA CommitKeeps == ASSUME Inv, Commit PROVE Inv'
<1>. DEFINE g == Relocated(disk, op.file, op.target)
<1>1. /\ MayRelocate(disk, op.file, op.target) /\ Finish(g, op.target)
      /\ Below(disk, op.file) = {op.file} /\ Moved(op.file, op.target, op.file) = op.target
      /\ ReplaceInv /\ op.cmd = "replace"
  BY CommitMoves
<1>2. Good(g)
  BY <1>1, GoodRelocated DEF Inv
<1>3. op.target \in DOMAIN g
  <2>1. op.file \in DOMAIN disk /\ op.target \in Path
    BY <1>1 DEF MayRelocate
  <2>2. DOMAIN g = (DOMAIN disk \ Below(disk, op.file))
                     \cup {Moved(op.file, op.target, r) : r \in Below(disk, op.file)}
    BY <2>1, RelocatedEntries DEF Inv
  <2>. QED
    BY <1>1, <2>2
<1>4. Shown(op.target) /\ Leaf(op.target).ext # "tmp"
  BY <1>1, NameKinds DEF ReplaceInv
<1>. HIDE DEF g
<1>. QED
  BY <1>1, <1>2, <1>3, <1>4, Finished DEF Inv

LEMMA CommitFailsKeeps == ASSUME Inv, CommitFails PROVE Inv'
<1>1. /\ op # None /\ op.stage = "commit" /\ op' = None /\ UNCHANGED <<items, sel, ui, fresh>>
      /\ \/ disk' = disk
         \/ IsFile(disk, op.file) /\ disk' = Without(disk, {op.file})
  BY DEF CommitFails, Committing
<1>2. /\ op.file \in Path /\ Leaf(op.file).ext = "tmp"
  <2>1. op \in Commands /\ ReplaceInv /\ op.cmd = "replace"
    BY <1>1 DEF Inv, OpInv, CommitInv
  <2>2. /\ op.target \in Path /\ op.target # Root /\ Leaf(op.target) \in BackupNames
        /\ op.file = Temp(op.target)
    BY <2>1 DEF Commands, ReplaceInv
  <2>. QED
    BY <2>2, TempPath
<1>3. Good(disk')
  BY <1>1, <1>2, WithoutFile DEF Inv
<1>4. fresh # None => fresh \in DOMAIN disk'
  <2>1. DOMAIN Without(disk, {op.file}) = DOMAIN disk \ {op.file}
    BY DEF Without
  <2>. QED
    BY <1>1, <1>2, <2>1 DEF Inv, FreshInv
<1>5. OpInv'
  BY <1>1 DEF OpInv
<1>. QED
  BY <1>1, <1>3, <1>4, <1>5, CommandStep

(***************************************************************************)
(* Import.                                                                 *)
(***************************************************************************)

(* A save keeps its place below the folder it is imported into.            *)
LEMMA Destination ==
  ASSUME op \in Commands, NEW src \in Found
  PROVE  /\ Dest(src) \in Path /\ Dest(src) # Root /\ Parent(Dest(src)) \in Seq(DirNames)
         /\ Leaf(Dest(src)) \in BackupNames /\ src.kind \in Kinds
<1>. DEFINE d == op.dir
            r == src.rel
            p == d \o r
            S == DirNames \cup SourceNames
<1>1. d \in Seq(DirNames)
  BY DEF Commands
<1>2. /\ r \in Seq(S) /\ r # <<>> /\ Parent(r) \in Seq(DirNames) /\ Leaf(r) \in SourceNames
      /\ src.kind \in Kinds
  <2>1. IsSource(src) /\ src.kind # None
    BY BackupTreeAssumption DEF Found
  <2>. QED
    BY <2>1 DEF IsSource
<1>. HIDE DEF d, r, S
<1>3. d \in Seq(S)
  <2>1. Len(d) \in Nat /\ d \in [1 .. Len(d) -> DirNames]
    BY <1>1, LenProperties
  <2>2. d \in [1 .. Len(d) -> S]
    BY <2>1 DEF S
  <2>. QED
    BY <2>1, <2>2, SeqDef
<1>4. Len(d) \in Nat /\ Len(r) \in Nat /\ Len(r) # 0
  BY <1>2, <1>3, LenProperties, EmptySeq
<1>5. /\ p \in Seq(S) /\ Len(p) = Len(d) + Len(r)
      /\ \A i \in 1 .. Len(d) + Len(r) : p[i] = IF i <= Len(d) THEN d[i] ELSE r[i - Len(d)]
  BY <1>2, <1>3, ConcatProperties
<1>. HIDE DEF p
<1>6. Leaf(p) = Leaf(r)
  <2>1. Len(p) \in 1 .. Len(d) + Len(r) /\ ~(Len(p) <= Len(d)) /\ Len(p) - Len(d) = Len(r)
    BY <1>4, <1>5
  <2>. QED
    BY <1>5, <2>1 DEF Leaf
<1>7. Parent(p) \in Seq(DirNames)
  <2>1. Len(p) - 1 \in 0 .. Len(p)
    BY <1>4, <1>5
  <2>2. /\ Parent(p) \in Seq(S) /\ Len(Parent(p)) = Len(p) - 1
        /\ \A i \in 1 .. Len(p) - 1 : Parent(p)[i] = p[i]
    BY <1>5, <2>1, PrefixPath DEF Parent
  <2>3. Len(r) - 1 \in 0 .. Len(r)
    BY <1>4
  <2>4. /\ Len(Parent(r)) = Len(r) - 1
        /\ \A i \in 1 .. Len(r) - 1 : Parent(r)[i] = r[i]
    BY <1>2, <2>3, PrefixPath DEF Parent
  <2>5. ASSUME NEW i \in 1 .. Len(p) - 1 PROVE Parent(p)[i] \in DirNames
    <3>1. CASE i <= Len(d)
      <4>1. i \in 1 .. Len(d) /\ i \in 1 .. Len(d) + Len(r)
        BY <1>4, <1>5, <3>1
      <4>. QED
        BY <1>1, <1>5, <2>2, <3>1, <4>1, ElementOfSeq
    <3>2. CASE ~(i <= Len(d))
      <4>1. i - Len(d) \in 1 .. Len(r) - 1 /\ i \in 1 .. Len(d) + Len(r)
        BY <1>4, <1>5, <3>2
      <4>2. Parent(p)[i] = r[i - Len(d)]
        BY <1>5, <2>2, <3>2, <4>1
      <4>3. Parent(r)[i - Len(d)] \in DirNames
        BY <1>2, <2>4, <4>1, ElementOfSeq
      <4>. QED
        BY <2>4, <4>1, <4>2, <4>3
    <3>. QED
      BY <3>1, <3>2
  <2>6. Len(Parent(p)) \in Nat /\ Parent(p) = [i \in 1 .. Len(Parent(p)) |-> Parent(p)[i]]
    BY <2>2, LenProperties
  <2>7. Parent(p) \in [1 .. Len(Parent(p)) -> DirNames]
    BY <2>2, <2>5, <2>6
  <2>. QED
    BY <2>6, <2>7, SeqDef
<1>. DEFINE n == Name(Leaf(p).stem, "bak")
<1>8. n \in BackupNames /\ n \in Names
  <2>1. Leaf(p).stem \in Stems
    BY <1>2, <1>6 DEF SourceNames
  <2>2. n \in BackupNames
    BY <2>1 DEF Name, BackupNames
  <2>. QED
    BY <2>2, NameKinds
<1>9. Dest(src) = In(Parent(p), n)
  BY DEF Dest, p, d, r
<1>. HIDE DEF n
<1>10. Parent(p) \in Path
  BY <1>7, DirPaths
<1>. QED
  BY <1>2, <1>7, <1>8, <1>9, <1>10, InPath

LEMMA ImportStartKeeps == ASSUME Inv, NEW S \in Ticked, ImportStart(S) PROVE Inv'
<1>1. /\ op' = [Command("import", Root, Root, "full") EXCEPT
                  !.stage = "next", !.dir = SelectedDir, !.rest = S]
      /\ UNCHANGED <<disk, items, sel, ui, fresh>>
  BY DEF ImportStart
<1>2. SelectedDir \in Seq(DirNames) /\ S \subseteq Found
  BY SelectedFolder DEF Inv, Ticked
<1>3. op'.cmd = "import" /\ op'.stage = "next" /\ op' \in Commands
  BY <1>1, <1>2, RootPath DEF Command, Commands, Kinds
<1>4. OpInv'
  BY <1>3 DEF OpInv, WriteInv, BackupInv, ReplaceInv, CommitInv, ImportInv
<1>. QED
  BY <1>1, <1>4, CommandStep DEF Inv, FreshInv

LEMMA ImportOpenKeeps == ASSUME Inv, NEW src \in Found, NEW k \in Kinds, ImportOpen(src, k) PROVE Inv'
<1>. DEFINE p == Dest(src)
            f == WithDirs(disk, p)
<1>1. /\ op # None /\ op.cmd = "import" /\ \A a \in Ancestors(p) : IsDir(f, a)
      /\ CanWrite(f, p) /\ Fits(f, p) /\ disk' = Opened(f, p, k)
      /\ op' = [op EXCEPT !.stage = "write", !.file = p, !.kind = k, !.rest = @ \ {src}]
      /\ UNCHANGED <<items, sel, ui>> /\ fresh' = IF fresh = p THEN None ELSE fresh
  BY DEF ImportOpen, Importing
<1>2. op \in Commands
  BY <1>1 DEF Inv, OpInv
<1>3. /\ p \in Path /\ p # Root /\ Parent(p) \in Seq(DirNames) /\ Leaf(p) \in BackupNames
      /\ Len(p) <= MaxDepth /\ Leaf(p) \in FileNames
  BY <1>1, <1>2, Destination, NameKinds DEF Fits
<1>. HIDE DEF p
<1>4. Good(f) /\ DOMAIN f = DOMAIN disk \cup Ancestors(p)
  BY <1>1, <1>3, GoodWithDirs DEF Inv
<1>. HIDE DEF f
<1>a. CanWrite(f, p) /\ Fits(f, p)
  BY <1>1
<1>5. /\ Good(Opened(f, p, k)) /\ DOMAIN Opened(f, p, k) = DOMAIN f \cup {p}
      /\ Opened(f, p, k)[p] = [kind |-> k, data |-> Torn, ro |-> FALSE]
  BY <1>3, <1>4, <1>a, NewFile
<1>6. /\ op' \in Commands /\ op'.stage = "write" /\ op'.cmd = "import" /\ op'.file = p
      /\ op'.kind = k
  BY <1>1, <1>2, <1>3 DEF Commands
<1>7. OpInv'
  BY <1>1, <1>5, <1>6 DEF OpInv, WriteInv, BackupInv, ReplaceInv, CommitInv, ImportInv
<1>8. fresh' = None \/ (fresh' = fresh /\ (fresh # None => fresh \in DOMAIN disk'))
  BY <1>1, <1>4, <1>5 DEF Inv, FreshInv
<1>. QED
  BY <1>1, <1>5, <1>7, <1>8, CommandStep

LEMMA ImportSkipKeeps == ASSUME Inv, NEW src \in Found, ImportSkip(src) PROVE Inv'
<1>. DEFINE p == Dest(src)
            f == WithDirs(disk, p)
<1>1. /\ op # None /\ op.cmd = "import" /\ op.stage = "next"
      /\ \/ disk' = disk
         \/ /\ \A a \in Ancestors(p) : IsDir(f, a)
            /\ Fits(f, p)
            /\ disk' = f \/ disk' = Unopened(f, p)
      /\ op' = [op EXCEPT !.rest = @ \ {src}, !.made = @ \cap DOMAIN disk']
      /\ UNCHANGED <<items, sel, ui>>
      /\ fresh' = IF fresh \in DOMAIN disk' THEN fresh ELSE None
  BY DEF ImportSkip, Importing
<1>2. op \in Commands
  BY <1>1 DEF Inv, OpInv
<1>3. p \in Path /\ p # Root /\ Parent(p) \in Seq(DirNames)
  BY <1>2, Destination
<1>. HIDE DEF p
<1>4. Good(disk')
  <2>1. CASE disk' = disk
    BY <2>1 DEF Inv
  <2>2. CASE (\A a \in Ancestors(p) : IsDir(f, a)) /\ Fits(f, p) /\ (disk' = f \/ disk' = Unopened(f, p))
    <3>1. Good(f)
      BY <1>3, <2>2, GoodWithDirs DEF Inv, Fits
    <3>. HIDE DEF f
    <3>. QED
      BY <1>3, <2>2, <3>1, GoodUnopened
  <2>. QED
    BY <1>1, <2>1, <2>2
<1>5. op' \in Commands /\ op'.stage = "next" /\ op'.cmd = "import"
  BY <1>1, <1>2 DEF Commands
<1>6. OpInv'
  BY <1>5 DEF OpInv, WriteInv, BackupInv, ReplaceInv, CommitInv, ImportInv
<1>. HIDE DEF f
<1>. QED
  BY <1>1, <1>4, <1>6, CommandStep

LEMMA ImportWriteKeeps == ASSUME Inv, NEW d \in Data, ImportWrite(d) PROVE Inv'
<1>1. /\ op # None /\ op.stage = "write" /\ op.cmd = "import" /\ disk' = Written(d)
      /\ op' = [op EXCEPT !.stage = "next", !.count = @ + 1, !.made = @ \cup {op.file}]
      /\ UNCHANGED <<items, sel, ui, fresh>>
  BY DEF ImportWrite, Writing
<1>2. op \in Commands /\ WriteInv
  BY <1>1 DEF Inv, OpInv
<1>3. Good(disk') /\ DOMAIN disk' = DOMAIN disk
  BY <1>1, <1>2, FileWritten DEF Inv
<1>4. op' \in Commands /\ op'.stage = "next" /\ op'.cmd = "import"
  <2>1. op.made \cup {op.file} \in SUBSET Path /\ op.count + 1 \in Nat
    BY <1>2 DEF Commands
  <2>. QED
    BY <1>1, <1>2, <2>1 DEF Commands
<1>5. OpInv'
  BY <1>4 DEF OpInv, WriteInv, BackupInv, ReplaceInv, CommitInv, ImportInv
<1>. QED
  BY <1>1, <1>3, <1>5, CommandStep DEF Inv, FreshInv

LEMMA ImportWriteFailsKeeps == ASSUME Inv, ImportWriteFails PROVE Inv'
<1>1. /\ op # None /\ op.stage = "write" /\ op.cmd = "import" /\ disk' = Without(disk, {op.file})
      /\ op' = [op EXCEPT !.stage = "next", !.made = @ \ {op.file}]
      /\ UNCHANGED <<items, sel, ui, fresh>>
  BY DEF ImportWriteFails, Writing
<1>2. op \in Commands /\ WriteInv /\ ImportInv
  BY <1>1 DEF Inv, OpInv
<1>3. IsFile(disk, op.file) /\ op.file \in Path
  BY <1>1, <1>2 DEF WriteInv, Commands, Kinds, IsFile
<1>4. Good(disk') /\ DOMAIN disk' = DOMAIN disk \ {op.file}
  <2>1. DOMAIN Without(disk, {op.file}) = DOMAIN disk \ {op.file}
    BY DEF Without
  <2>. QED
    BY <1>1, <1>3, <2>1, WithoutFile DEF Inv
<1>5. op' \in Commands /\ op'.stage = "next" /\ op'.cmd = "import"
  <2>1. op.made \ {op.file} \in SUBSET Path
    BY <1>2 DEF Commands
  <2>. QED
    BY <1>1, <1>2, <2>1 DEF Commands
<1>6. OpInv'
  BY <1>5 DEF OpInv, WriteInv, BackupInv, ReplaceInv, CommitInv, ImportInv
<1>7. fresh # None => fresh \in DOMAIN disk'
  BY <1>1, <1>2, <1>4 DEF Inv, FreshInv, ImportInv
<1>. QED
  BY <1>1, <1>4, <1>6, <1>7, CommandStep

LEMMA ImportEndKeeps == ASSUME Inv, ImportEnd PROVE Inv'
<1>1. /\ op' = None /\ disk' = disk
      /\ \/ UNCHANGED <<items, sel, ui, fresh>>
         \/ Refresh(disk, ui) /\ sel' = None /\ fresh' = None
  BY DEF ImportEnd
<1>2. OpInv'
  BY <1>1 DEF OpInv
<1>3. CASE UNCHANGED <<items, sel, ui, fresh>>
  BY <1>1, <1>2, <1>3, CommandStep DEF Inv, FreshInv
<1>4. CASE Refresh(disk, ui) /\ sel' = None /\ fresh' = None
  <2>1. Items(items') /\ UiInv'
    BY <1>4, Refreshed DEF Inv
  <2>. QED
    BY <1>1, <1>2, <1>4, <2>1 DEF Inv, SelInv, FreshInv
<1>. QED
  BY <1>1, <1>3, <1>4

(***************************************************************************)
(* The tree's own commands.                                                *)
(***************************************************************************)

(* A step that waits, or stops waiting, and selects at most.               *)
LEMMA TreeStep ==
  ASSUME Inv, UNCHANGED <<disk, items>>, op' = None, UiInv', SelInv',
         fresh' = None \/ (fresh' = fresh /\ sel' = sel)
  PROVE  Inv'
BY DEF Inv, OpInv, FreshInv

(* A step that changes the library and shows the result, with nothing new. *)
LEMMA ShowStep ==
  ASSUME Inv, Good(disk'), op' = None, NEW u, u = Idle \/ u = ui, Refresh(disk', u),
         sel' \in DOMAIN items' \cup {None}, fresh' = None
  PROVE  Inv'
<1>1. u = Idle \/ (u = ui /\ UiInv)
  BY DEF Inv
<1>. DEFINE f == disk'
<1>2. Good(f) /\ Refresh(f, u)
  OBVIOUS
<1>. HIDE DEF f
<1>3. Items(items') /\ UiInv'
  BY <1>1, <1>2, Refreshed
<1>. QED
  BY <1>3 DEF Inv, SelInv, OpInv, FreshInv

LEMMA IdleUi == ASSUME ui' = Idle PROVE UiInv'
<1>1. Idle \in [mode : Modes, item : Path \cup {None}, stale : BOOLEAN] /\ Idle.mode = "idle"
  BY DEF Idle, Modes
<1>. QED
  BY <1>1 DEF UiInv

LEMMA WaitUi ==
  ASSUME Items(items), items' = items, NEW m \in Modes, NEW i \in DOMAIN items \cup {None},
         Wait(m, i), m \in {"drag", "edit"} => i \in DOMAIN items
  PROVE  UiInv'
<1>1. i \in Path \cup {None}
  BY DEF Items
<1>2. /\ ui' \in [mode : Modes, item : Path \cup {None}, stale : BOOLEAN]
      /\ ui'.mode = m /\ ui'.item = i /\ ~ui'.stale
  BY <1>1 DEF Wait
<1>. QED
  BY <1>2 DEF UiInv

LEMMA MeantItem ==
  ASSUME UiInv, ui.mode \in {"menu", "drag"}, NEW i \in Meant(ui)
  PROVE  i \in DOMAIN items \cup {None}
BY DEF Meant, UiInv

LEMMA SelectingKeeps ==
  ASSUME Inv,
         \/ \E i \in DOMAIN items : Select(i) \/ (i # Root /\ BeginDrag(i))
         \/ \E i \in DOMAIN items \cup {None} : RightClick(i)
         \/ SelectSibling \/ KeyDelete \/ KeyRename \/ Cancel \/ MenuRename \/ MenuDelete
  PROVE  Inv'
<1>0. Items(items) /\ SelInv /\ UiInv
  BY DEF Inv
<1>1. ASSUME NEW i \in DOMAIN items, Select(i) PROVE Inv'
  <2>1. UiInv' /\ SelInv'
    BY <1>0, <1>1 DEF Select, UiInv, SelInv
  <2>. QED
    BY <1>1, <2>1, TreeStep DEF Select, Ready
<1>2. ASSUME NEW i \in DOMAIN items, BeginDrag(i) PROVE Inv'
  <2>1. UiInv'
    BY <1>0, <1>2, WaitUi DEF BeginDrag, Modes
  <2>2. SelInv'
    BY <1>0, <1>2 DEF BeginDrag, SelInv
  <2>. QED
    BY <1>2, <2>1, <2>2, TreeStep DEF BeginDrag, Ready
<1>3. ASSUME NEW i \in DOMAIN items \cup {None}, RightClick(i) PROVE Inv'
  <2>1. UiInv'
    BY <1>0, <1>3, WaitUi DEF RightClick, Modes
  <2>2. SelInv'
    BY <1>0, <1>3 DEF RightClick, SelInv
  <2>. QED
    BY <1>3, <2>1, <2>2, TreeStep DEF RightClick, Ready
<1>4. ASSUME SelectSibling PROVE Inv'
  <2>1. UiInv'
    BY <1>0, <1>4 DEF SelectSibling, UiInv
  <2>2. SelInv'
    BY <1>0, <1>4 DEF SelectSibling, SiblingFiles, SelInv
  <2>. QED
    BY <1>4, <2>1, <2>2, TreeStep DEF SelectSibling
<1>5. ASSUME KeyDelete \/ KeyRename PROVE Inv'
  <2>1. sel \in DOMAIN items /\ SelInv'
    BY <1>0, <1>5 DEF KeyDelete, KeyRename, SelInv
  <2>2. UiInv'
    BY <1>0, <1>5, <2>1, WaitUi DEF KeyDelete, KeyRename, Modes
  <2>. QED
    BY <1>5, <2>1, <2>2, TreeStep DEF KeyDelete, KeyRename, Ready
<1>6. ASSUME Cancel PROVE Inv'
  <2>1. UiInv' /\ SelInv'
    BY <1>0, <1>6, IdleUi DEF Cancel, SelInv
  <2>. QED
    BY <1>6, <2>1, TreeStep DEF Cancel
<1>7. ASSUME MenuRename \/ MenuDelete PROVE Inv'
  <2>1. PICK i \in Meant(ui) \ {None, Root} : Wait("edit", i) \/ Wait("confirm", i)
    BY <1>7 DEF MenuRename, MenuDelete
  <2>2. i \in DOMAIN items
    BY <1>0, <1>7, <2>1, MeantItem DEF MenuRename, MenuDelete, Ready
  <2>3. UiInv' /\ SelInv'
    BY <1>0, <1>7, <2>1, <2>2, WaitUi DEF MenuRename, MenuDelete, Modes, SelInv
  <2>. QED
    BY <1>7, <2>3, TreeStep DEF MenuRename, MenuDelete, Ready
<1>. QED
  BY <1>1, <1>2, <1>3, <1>4, <1>5, <1>6, <1>7

LEMMA MenuNewFolderKeeps == ASSUME Inv, MenuNewFolder PROVE Inv'
<1>1. PICK i \in Meant(ui), s \in DirStems : NewFolder(In(FolderOf(i), Name(s, "")))
  BY DEF MenuNewFolder
<1>. DEFINE p == In(FolderOf(i), Name(s, ""))
<1>2. FolderOf(i) \in Path
  BY MeantItem, FolderOfItem DEF Inv, MenuNewFolder, Ready
<1>3. Name(s, "") \in DirNames /\ Name(s, "") \in Names
  <2>1. Name(s, "") \in DirNames
    BY DEF Name, DirNames
  <2>. QED
    BY <2>1, NameKinds
<1>4. p \in Path /\ p # Root /\ Leaf(p) \in DirNames
  BY <1>2, <1>3, InPath
<1>5. /\ IsDir(disk, Parent(p)) /\ p \notin DOMAIN disk /\ Len(p) <= MaxDepth
      /\ disk' = With(disk, p, Folder) /\ Refresh(disk', Idle) /\ sel' = None
  BY <1>1 DEF NewFolder, Fits
<1>. HIDE DEF p
<1>6. Fitting(Folder, Leaf(p))
  BY <1>4, Entries DEF Fitting
<1>7. Good(disk')
  BY <1>4, <1>5, <1>6, GoodWith DEF Inv
<1>8. op' = None /\ fresh' = None
  BY DEF MenuNewFolder, Ready
<1>. QED
  BY <1>5, <1>7, <1>8, ShowStep

LEMMA MenuReadOnlyKeeps == ASSUME Inv, MenuReadOnly PROVE Inv'
<1>1. PICK i \in Meant(ui) \ {None, Root} :
        IsFile(disk, i) /\ disk' = [disk EXCEPT ![i].ro = ~items[i].ro]
  BY DEF MenuReadOnly
<1>2. i \in DOMAIN items /\ items[i].ro \in BOOLEAN
  BY MeantItem DEF Inv, Items, MenuReadOnly, Ready
<1>3. (~items[i].ro) \in BOOLEAN /\ i \in DOMAIN disk
  BY <1>1, <1>2 DEF IsFile
<1>4. Good(disk') /\ DOMAIN disk' = DOMAIN disk
  BY <1>1, <1>3, GoodLock DEF Inv
<1>5. op' = None /\ fresh' = fresh
  BY DEF MenuReadOnly, Ready
<1>6. CASE disk' = disk
  <2>1. ui' = Idle /\ UNCHANGED <<items, sel>>
    BY <1>6 DEF MenuReadOnly
  <2>2. UiInv' /\ SelInv'
    BY <2>1, IdleUi DEF Inv, SelInv
  <2>. QED
    BY <1>5, <1>6, <2>1, <2>2, TreeStep
<1>7. CASE disk' # disk
  <2>1. RefreshPreserving(disk', Idle)
    BY <1>7 DEF MenuReadOnly
  <2>. DEFINE f == disk'
  <2>2. Good(f) /\ DOMAIN disk \subseteq DOMAIN f /\ RefreshPreserving(f, Idle) /\ disk' = f
    BY <1>4, <2>1
  <2>. HIDE DEF f
  <2>. QED
    BY <1>5, <2>2, RefreshedPreserving DEF Inv
<1>. QED
  BY <1>6, <1>7

LEMMA ConfirmDeleteKeeps == ASSUME Inv, ConfirmDelete PROVE Inv'
<1>1. /\ ui.item \in DOMAIN disk /\ disk' = Without(disk, Below(disk, ui.item))
      /\ Refresh(disk', Idle) /\ sel' = None /\ fresh' = None /\ op' = None
  BY DEF ConfirmDelete, Ready
<1>2. ui.item \in Path
  BY <1>1 DEF Inv, Good
<1>3. Good(disk')
  BY <1>1, <1>2, GoodWithout DEF Inv
<1>. QED
  BY <1>1, <1>3, ShowStep

(* A label edit gives what it is about a name of its sort.                 *)
LEMMA EndEditMoves ==
  ASSUME Inv, EndEdit
  PROVE  \E n \in Names :
           LET p == ui.item
               q == In(Parent(p), n) IN
           /\ p \in DOMAIN disk /\ q # p /\ CanWrite(disk, q) /\ Fitting(disk[p], n)
           /\ disk[p].kind = "dir" => q \notin DOMAIN disk
           /\ disk' = Relocated(disk, p, q) /\ Refresh(disk', Idle)
           /\ sel' = Selectable(View(disk'), q)
<1>. DEFINE p == ui.item
<1>1. PICK s \in IF items[p].dir THEN DirStems ELSE Stems :
        RenameTo(p, [Leaf(p) EXCEPT !.stem = s])
  BY DEF EndEdit
<1>. DEFINE n == [Leaf(p) EXCEPT !.stem = s]
            q == In(Parent(p), n)
<1>2. /\ p \in DOMAIN disk /\ p # q /\ CanWrite(disk, q)
      /\ disk[p].kind = "dir" => q \notin DOMAIN disk
      /\ disk' = Relocated(disk, p, q) /\ Refresh(disk', Idle)
      /\ sel' = Selectable(View(disk'), q)
  BY <1>1 DEF RenameTo
<1>3. p \in DOMAIN items /\ p # Root /\ Fitting(disk[p], Leaf(p)) /\ NotLeftOver(p)
  BY <1>2 DEF Inv, UiInv, Good, EndEdit, Ready
<1>4. Leaf(p) \in IF items[p].dir THEN DirNames ELSE FileNames
  BY <1>3 DEF Inv, Items
<1>. DEFINE l == Leaf(p)
<1>5. Fitting(disk[p], l) /\ (l \in IF items[p].dir THEN DirNames ELSE FileNames) /\ l.ext # "tmp"
  BY <1>3, <1>4 DEF NotLeftOver
<1>6. n = [l EXCEPT !.stem = s]
  OBVIOUS
<1>. HIDE DEF p, q, n, l
<1>7. CASE items[p].dir
  <2>1. l \in DirNames /\ disk[p].kind = "dir"
    BY <1>5, <1>7, NameKinds DEF Fitting
  <2>2. n \in DirNames
    BY <1>1, <1>6, <1>7, <2>1 DEF DirNames
  <2>3. Fitting(disk[p], n) /\ n \in Names
    BY <1>5, <2>1, <2>2, NameKinds DEF Fitting
  <2>. QED
    BY <1>2, <2>3 DEF p, q
<1>8. CASE ~items[p].dir
  <2>1. l \in BackupNames /\ disk[p].kind # "dir"
    BY <1>5, <1>8, NameKinds DEF Fitting
  <2>2. n \in BackupNames
    BY <1>1, <1>6, <1>8, <2>1 DEF BackupNames
  <2>3. Fitting(disk[p], n) /\ n \in Names
    BY <1>5, <2>1, <2>2, NameKinds DEF Fitting
  <2>. QED
    BY <1>2, <2>3 DEF p, q
<1>. QED
  BY <1>7, <1>8

LEMMA EndEditKeeps == ASSUME Inv, EndEdit PROVE Inv'
<1>. DEFINE p == ui.item
<1>1. PICK n \in Names :
        /\ p \in DOMAIN disk /\ In(Parent(p), n) # p /\ CanWrite(disk, In(Parent(p), n))
        /\ Fitting(disk[p], n)
        /\ disk[p].kind = "dir" => In(Parent(p), n) \notin DOMAIN disk
        /\ disk' = Relocated(disk, p, In(Parent(p), n)) /\ Refresh(disk', Idle)
        /\ sel' = Selectable(View(disk'), In(Parent(p), n))
  BY EndEditMoves
<1>. HIDE DEF p
<1>2. MayRelocate(disk, p, In(Parent(p), n))
  BY <1>1, Renamed DEF Inv
<1>3. Good(disk')
  BY <1>1, <1>2, GoodRelocated DEF Inv
<1>4. sel' \in DOMAIN items' \cup {None}
  BY <1>1 DEF Selectable, Refresh
<1>5. op' = None /\ fresh' = None
  BY DEF EndEdit, Ready
<1>. QED
  BY <1>1, <1>3, <1>4, <1>5, ShowStep

(* A drop moves what was picked up, if it is still there.                  *)
LEMMA DropMoves ==
  ASSUME Inv, NEW i \in DOMAIN items \cup {None}, Drop(i)
  PROVE  LET p == ui.item
             q == In(FolderOf(i), Leaf(p)) IN
         p \in DOMAIN disk /\ MayRelocate(disk, p, q) /\ disk' = Relocated(disk, p, q)
<1>1. PICK p \in Meant(ui) \ {None, Root} :
        CanMove(p, In(FolderOf(i), Leaf(p))) /\ disk' = Relocated(disk, p, In(FolderOf(i), Leaf(p)))
  BY DEF Drop
<1>2. p = ui.item
  BY <1>1 DEF Meant, Inv, UiInv, Drop, Ready
<1>. DEFINE q == In(FolderOf(i), Leaf(p))
<1>3. p \in DOMAIN disk /\ p \in Path /\ p # Root /\ Fitting(disk[p], Leaf(p)) /\ Leaf(p) \in Names
  <2>1. p \in DOMAIN disk
    BY <1>1 DEF CanMove
  <2>2. p \in Path /\ p # Root /\ Fitting(disk[p], Leaf(p))
    BY <2>1 DEF Inv, Good
  <2>. QED
    BY <2>1, <2>2, ParentPath
<1>4. FolderOf(i) \in Path
  BY FolderOfItem DEF Inv
<1>5. q \in Path /\ q # Root /\ Leaf(q) = Leaf(p)
  BY <1>3, <1>4, InPath
<1>6. CanMove(p, q) /\ disk' = Relocated(disk, p, q)
  BY <1>1
<1>. HIDE DEF q
<1>7. MayRelocate(disk, p, q)
  BY <1>3, <1>5, <1>6 DEF CanMove, MayRelocate
<1>. QED
  BY <1>2, <1>3, <1>6, <1>7 DEF q

LEMMA DropKeeps == ASSUME Inv, NEW i \in DOMAIN items \cup {None}, Drop(i) PROVE Inv'
<1>1. Good(disk')
  BY DropMoves, GoodRelocated DEF Inv
<1>2. Refresh(disk', Idle) /\ sel' = None /\ fresh' = None /\ op' = None
  BY DEF Drop, Ready
<1>. QED
  BY <1>1, <1>2, ShowStep

(***************************************************************************)
(* Other refreshes, other programs and kills.                              *)
(***************************************************************************)
LEMMA OtherRefreshesKeep == ASSUME Inv, TimerRefresh \/ UndoButton \/ Crash PROVE Inv'
<1>1. CASE TimerRefresh
  <2>. DEFINE f == disk
  <2>1. /\ op' = None /\ fresh' = fresh /\ disk' = f /\ Good(f) /\ DOMAIN disk \subseteq DOMAIN f
        /\ RefreshPreserving(f, ui)
    BY <1>1 DEF TimerRefresh, Inv
  <2>. HIDE DEF f
  <2>. QED
    BY <2>1, RefreshedPreserving DEF Inv
<1>2. CASE UndoButton
  <2>1. Refresh(disk', ui) /\ Good(disk') /\ op' = None /\ sel' = None /\ fresh' = None
    BY <1>2 DEF UndoButton, Ready, Inv
  <2>. QED
    BY <2>1, ShowStep
<1>3. CASE Crash
  <2>1. /\ Items(items') /\ disk' = disk /\ sel' = None /\ ui' = Idle /\ op' = None /\ fresh' = None
    BY <1>3, ViewShows DEF Crash, Inv
  <2>. QED
    BY <2>1, IdleUi DEF Inv, SelInv, OpInv, FreshInv
<1>. QED
  BY <1>1, <1>2, <1>3

(* Other programs take away what Praxis does not hold open, or lock it.    *)
LEMMA OthersChange ==
  ASSUME Inv, Others
  PROVE  /\ Good(disk') /\ DOMAIN disk' \subseteq DOMAIN disk
         /\ \A r \in DOMAIN disk' : /\ disk'[r].kind = disk[r].kind
                                    /\ disk'[r].data = disk[r].data
         /\ op # None /\ op.stage = "write" =>
              op.file \in DOMAIN disk' /\ disk'[op.file] = disk[op.file]
<1>1. PICK p \in DOMAIN disk :
        /\ Free(p)
        /\ \/ disk' = Without(disk, Below(disk, p))
           \/ disk[p].kind # "dir" /\ disk' = [disk EXCEPT ![p].ro = ~@]
  BY DEF Others
<1>2. p \in Path /\ p # Root /\ Fitting(disk[p], Leaf(p)) /\ Good(disk)
  BY DEF Inv, Good
<1>3. op # None /\ op.stage = "write" => op.file \in DOMAIN disk /\ ~Within(p, op.file) /\ op.file # p
  <2>1. op # None /\ op.stage = "write" => op.file \in DOMAIN disk /\ ~Within(p, op.file)
    BY <1>1 DEF Free, Inv, OpInv, WriteInv
  <2>. QED
    BY <1>2, <2>1, WithinItself
<1>4. CASE disk' = Without(disk, Below(disk, p))
  <2>1. DOMAIN disk' = {r \in DOMAIN disk : ~Within(p, r)} /\ \A r \in DOMAIN disk' : disk'[r] = disk[r]
    BY <1>4 DEF Without, Below
  <2>2. Good(disk')
    BY <1>2, <1>4, GoodWithout
  <2>. QED
    BY <1>3, <2>1, <2>2
<1>5. CASE disk[p].kind # "dir" /\ disk' = [disk EXCEPT ![p].ro = ~@]
  <2>1. disk[p] \in Backup /\ IsFile(disk, p) /\ (~disk[p].ro) \in BOOLEAN
    BY <1>2, <1>5, Entries DEF Fitting, IsFile
  <2>2. disk' = [disk EXCEPT ![p].ro = ~disk[p].ro]
    BY <1>5
  <2>3. Good(disk')
    BY <1>2, <2>1, <2>2, GoodLock
  <2>4. /\ DOMAIN disk' = DOMAIN disk /\ disk'[p] = [disk[p] EXCEPT !.ro = ~disk[p].ro]
        /\ \A r \in DOMAIN disk : r # p => disk'[r] = disk[r]
    BY <2>2
  <2>5. disk'[p].kind = disk[p].kind /\ disk'[p].data = disk[p].data
    BY <2>1, <2>4 DEF Backup
  <2>. QED
    BY <1>3, <2>3, <2>4, <2>5
<1>. QED
  BY <1>1, <1>4, <1>5

LEMMA OthersKeep == ASSUME Inv, Others PROVE Inv'
<1>1. /\ Good(disk') /\ DOMAIN disk' \subseteq DOMAIN disk
      /\ \A r \in DOMAIN disk' : disk'[r].kind = disk[r].kind /\ disk'[r].data = disk[r].data
      /\ op # None /\ op.stage = "write" =>
           op.file \in DOMAIN disk' /\ disk'[op.file] = disk[op.file]
  BY OthersChange
<1>2. /\ UNCHANGED <<items, sel, ui, op>>
      /\ fresh' = IF fresh \in DOMAIN disk' THEN fresh ELSE None
  BY DEF Others
<1>3. OpInv'
  <2>1. SUFFICES ASSUME op # None PROVE OpInv'
    BY <1>2 DEF OpInv
  <2>2. op' = op /\ op \in Commands /\ WriteInv /\ BackupInv /\ ReplaceInv /\ CommitInv /\ ImportInv
    BY <1>2, <2>1 DEF Inv, OpInv
  <2>3. WriteInv' /\ BackupInv' /\ CommitInv' /\ ImportInv'
    BY <1>1, <1>2, <2>1, <2>2 DEF WriteInv, BackupInv, CommitInv, ImportInv
  <2>4. ReplaceInv'
    <3>1. Temp(op'.target) = Temp(op.target)
      BY <2>2
    <3>. QED
      BY <1>1, <2>2, <3>1 DEF ReplaceInv
  <2>. QED
    BY <2>2, <2>3, <2>4 DEF OpInv
<1>. QED
  BY <1>1, <1>2, <1>3, CommandStep

LEMMA StutterKeeps == ASSUME Inv, UNCHANGED vars PROVE Inv'
<1>1. UNCHANGED <<disk, items, sel, ui, op, fresh>>
  BY DEF vars
<1>2. OpInv'
  BY <1>1 DEF Inv, OpInv, WriteInv, BackupInv, ReplaceInv, CommitInv, ImportInv
<1>. QED
  BY <1>1, <1>2 DEF Inv, SelInv, UiInv, FreshInv

(***************************************************************************)
(* Every behaviour keeps the invariant.                                    *)
(***************************************************************************)
LEMMA InitInv == ASSUME Init PROVE Inv
<1>1. Good(disk)
  BY BackupTreeAssumption, LibraryIsGood DEF Init
<1>2. Items(items)
  BY <1>1, ViewShows DEF Init
<1>3. UiInv
  <2>1. Idle \in [mode : Modes, item : Path \cup {None}, stale : BOOLEAN] /\ Idle.mode = "idle"
    BY DEF Idle, Modes
  <2>. QED
    BY <2>1 DEF Init, UiInv
<1>. QED
  BY <1>1, <1>2, <1>3 DEF Init, Inv, SelInv, OpInv, FreshInv

LEMMA NextInv == ASSUME Inv, [Next]_vars PROVE Inv'
<1>1. ASSUME NEW k \in Kinds, BackupSave(k) PROVE Inv'
  BY <1>1, BackupSaveKeeps
<1>2. ASSUME BackupReplace \/ BackupRefused PROVE Inv'
  BY <1>2, BackupReplaceKeeps, BackupRefusedKeeps
<1>3. ASSUME NEW d \in Data, WriteBackup(d) \/ WriteTemp(d) \/ ImportWrite(d) PROVE Inv'
  BY <1>3, WriteBackupKeeps, WriteTempKeeps, ImportWriteKeeps
<1>4. ASSUME WriteFails \/ Commit \/ CommitFails PROVE Inv'
  BY <1>4, WriteFailsKeeps, CommitKeeps, CommitFailsKeeps
<1>5. ASSUME NEW S \in Ticked, ImportStart(S) PROVE Inv'
  BY <1>5, ImportStartKeeps
<1>6. ASSUME NEW src \in Found, ImportSkip(src) \/ \E k \in Kinds : ImportOpen(src, k) PROVE Inv'
  BY <1>6, ImportSkipKeeps, ImportOpenKeeps
<1>7. ASSUME ImportWriteFails \/ ImportEnd PROVE Inv'
  BY <1>7, ImportWriteFailsKeeps, ImportEndKeeps
<1>8. ASSUME \/ \E i \in DOMAIN items : Select(i) \/ (i # Root /\ BeginDrag(i))
             \/ \E i \in DOMAIN items \cup {None} : RightClick(i)
             \/ SelectSibling \/ KeyDelete \/ KeyRename \/ Cancel \/ MenuRename \/ MenuDelete
      PROVE  Inv'
  BY <1>8, SelectingKeeps
<1>9. ASSUME NEW i \in DOMAIN items \cup {None}, Drop(i) PROVE Inv'
  BY <1>9, DropKeeps
<1>10. ASSUME MenuNewFolder \/ MenuReadOnly \/ ConfirmDelete \/ EndEdit PROVE Inv'
  BY <1>10, MenuNewFolderKeeps, MenuReadOnlyKeeps, ConfirmDeleteKeeps, EndEditKeeps
<1>11. ASSUME TimerRefresh \/ UndoButton \/ Crash PROVE Inv'
  BY <1>11, OtherRefreshesKeep
<1>12. ASSUME Others PROVE Inv'
  BY <1>12, OthersKeep
<1>13. ASSUME UNCHANGED vars PROVE Inv'
  BY <1>13, StutterKeeps
<1>. QED
  BY <1>1, <1>2, <1>3, <1>4, <1>5, <1>6, <1>7, <1>8, <1>9, <1>10, <1>11, <1>12, <1>13 DEF Next

LEMMA Invariance == Spec => []Inv
<1>1. Init => Inv
  BY InitInv
<1>2. Inv /\ [Next]_vars => Inv'
  BY NextInv
<1>. QED
  BY <1>1, <1>2, PTL DEF Spec

LEMMA InvTypeOK == ASSUME Inv PROVE TypeOK
<1>1. IsLibrary(disk)
  BY LibraryIsGood DEF Inv
<1>2. /\ DOMAIN items \subseteq Paths \cup {Root} /\ Root \in DOMAIN items
      /\ \A i \in DOMAIN items : items[i] \in [dir : BOOLEAN, ro : BOOLEAN]
  BY PathsDef DEF Inv, Items
<1>3. fresh \in Paths \cup {None}
  BY <1>1 DEF Inv, FreshInv, IsLibrary
<1>4. op # None => /\ op.cmd \in {"backup", "replace", "import"} /\ op.kind \in Kinds
                   /\ op.stage \in {"write", "commit", "next"} /\ op.rest \subseteq Found
                   /\ op.stage = "write" => IsFile(disk, op.file) /\ disk[op.file].data = Torn
  <2>1. SUFFICES ASSUME op # None PROVE op \in Commands /\
                   (op.stage = "write" => IsFile(disk, op.file) /\ disk[op.file].data = Torn)
    BY DEF Commands
  <2>. QED
    BY <2>1 DEF Inv, OpInv, WriteInv, IsFile, Commands, Kinds
<1>5. sel \in DOMAIN items \cup {None} /\ ui.mode \in Modes /\ ui.stale \in BOOLEAN
  BY DEF Inv, SelInv, UiInv
<1>. QED
  BY <1>1, <1>2, <1>3, <1>4, <1>5 DEF TypeOK

(* Type correctness: the library stays a tree of files below folders, and  *)
(* the selection and the command that is writing stay about it, whatever   *)
(* the tree's commands, imports, failures, kills and other programs do.    *)
THEOREM TypeCorrect == Spec => []TypeOK
<1>1. Inv => TypeOK
  BY InvTypeOK
<1>. QED
  BY <1>1, Invariance, PTL

(* A drag or a label edit under way is never about a node that a refresh   *)
(* has deleted, so dropping moves what was picked up.                      *)
THEOREM HandlesStayLive == Spec => []HandlesLive
<1>1. Inv => HandlesLive
  BY DEF Inv, UiInv, HandlesLive
<1>. QED
  BY <1>1, Invariance, PTL

(* A backup that was just made stays selected through refreshes, failing   *)
(* commands and dialogs until the user turns elsewhere or it is gone.      *)
THEOREM FreshKept == Spec => []FreshStaysSelected
<1>1. Inv => FreshStaysSelected
  BY DEF Inv, FreshInv, FreshStaysSelected
<1>. QED
  BY <1>1, Invariance, PTL

(***************************************************************************)
(* What a step does to the files it is not about.                          *)
(***************************************************************************)
Kept(p) == p \in DOMAIN disk' /\ disk'[p] = disk[p]

(* The writing commands empty, fill or delete one file, which is not       *)
(* read-only, and it is a temporary one in a replacement.                  *)
LEMMA WritesOneFile ==
  ASSUME Inv,
         \/ \E k \in Kinds : BackupSave(k)
         \/ BackupReplace \/ BackupRefused
         \/ \E d \in Data : WriteBackup(d) \/ WriteTemp(d) \/ ImportWrite(d)
         \/ WriteFails \/ CommitFails \/ ImportWriteFails
         \/ \E src \in Found : ImportSkip(src) \/ \E k \in Kinds : ImportOpen(src, k),
         NEW p \in DOMAIN disk
  PROVE  \/ Kept(p)
         \/ /\ ~disk[p].ro \/ (op # None /\ op.stage = "commit" /\ p = op.file)
            /\ Replacing => Leaf(p).ext = "tmp"
<1>0. Good(disk) /\ p \in Path
  BY DEF Inv, Good
<1>. DEFINE Spared(x) == Kept(p) \/ (p = x /\ ~disk[x].ro)
<1>1. ASSUME NEW f, NEW x, NEW k, DOMAIN disk \subseteq DOMAIN f, \A r \in DOMAIN disk : f[r] = disk[r],
             x \in DOMAIN disk => ~f[x].ro, disk' = Opened(f, x, k)
      PROVE  Spared(x)
  BY <1>1 DEF Opened, With, Kept
<1>2. ASSUME NEW x, disk' = Without(disk, {x}), ~disk[x].ro PROVE Spared(x)
  BY <1>2 DEF Without, Kept
<1>3. ASSUME NEW f, NEW x, DOMAIN disk \subseteq DOMAIN f, \A r \in DOMAIN disk : f[r] = disk[r],
             disk' = Unopened(f, x)
      PROVE  Spared(x)
  BY <1>3 DEF Unopened, Without, Kept
<1>4. ASSUME op # None, op.stage = "write" PROVE op.file \in DOMAIN disk /\ ~disk[op.file].ro
  BY <1>4 DEF Inv, OpInv, WriteInv
<1>5. ASSUME NEW d, op # None, op.stage = "write", disk' = Written(d) PROVE Spared(op.file)
  BY <1>4, <1>5 DEF Written, With, Kept
<1>6. ASSUME op # None, op.cmd = "replace" PROVE Leaf(op.file).ext = "tmp"
  <2>1. /\ op.target \in Path /\ op.target # Root /\ Leaf(op.target) \in BackupNames
        /\ op.file = Temp(op.target)
    BY <1>6 DEF Inv, OpInv, ReplaceInv, Commands
  <2>. QED
    BY <2>1, TempPath
<1>. HIDE DEF Spared
<1>7. ASSUME NEW x, Spared(x), Replacing => Leaf(x).ext = "tmp"
      PROVE  \/ Kept(p)
             \/ ~disk[p].ro /\ (Replacing => Leaf(p).ext = "tmp")
  BY <1>7 DEF Spared
<1>8. CASE \E k \in Kinds : BackupSave(k)
  <2>0. PICK k \in Kinds : BackupSave(k)
    BY <1>8
  <2>1. PICK s \in StampOf[k] :
          LET x == In(SelectedDir, Name(s, "bak")) IN
          CanWrite(disk, x) /\ disk' = Opened(disk, x, k) /\ op' = Command("backup", x, x, k)
    BY <2>0 DEF BackupSave
  <2>2. ~Replacing
    BY <1>8, <2>1 DEF BackupSave, Replacing, Command
  <2>. DEFINE x == In(SelectedDir, Name(s, "bak"))
  <2>3. disk' = Opened(disk, x, k) /\ (x \in DOMAIN disk => ~disk[x].ro)
    BY <2>1 DEF CanWrite
  <2>. HIDE DEF x
  <2>4. Spared(x)
    BY <1>1, <2>3
  <2>. QED
    BY <1>7, <2>2, <2>4
<1>9. CASE BackupReplace
  <2>. DEFINE x == Temp(sel)
  <2>1. disk' = Opened(disk, x, disk[sel].kind) /\ (x \in DOMAIN disk => ~disk[x].ro)
    BY <1>9 DEF BackupReplace, CanWrite
  <2>2. Leaf(x).ext = "tmp"
    BY <1>9, ReplaceTarget DEF BackupReplace
  <2>. HIDE DEF x
  <2>3. Spared(x)
    BY <1>1, <2>1
  <2>. QED
    BY <1>7, <2>2, <2>3
<1>10. CASE BackupRefused
  <2>1. ~Replacing
    BY <1>10 DEF BackupRefused, Replacing
  <2>2. PICK x : disk' = Unopened(disk, x)
    BY <1>10 DEF BackupRefused
  <2>3. Spared(x)
    BY <1>3, <2>2
  <2>. QED
    BY <1>7, <2>1, <2>3
<1>11. CASE \E d \in Data : WriteBackup(d) \/ WriteTemp(d) \/ ImportWrite(d)
  <2>1. PICK d \in Data : op # None /\ op.stage = "write" /\ disk' = Written(d)
    BY <1>11 DEF WriteBackup, WriteTemp, ImportWrite, Writing, Finish
  <2>2. Spared(op.file)
    BY <1>5, <2>1
  <2>3. Replacing => Leaf(op.file).ext = "tmp"
    BY <1>6, <2>1 DEF Replacing
  <2>. QED
    BY <1>7, <2>2, <2>3
<1>12. CASE WriteFails \/ ImportWriteFails
  <2>1. op # None /\ op.stage = "write" /\ disk' = Without(disk, {op.file})
    BY <1>12 DEF WriteFails, ImportWriteFails, Writing
  <2>2. Spared(op.file)
    BY <1>2, <1>4, <2>1
  <2>3. Replacing => Leaf(op.file).ext = "tmp"
    BY <1>6, <2>1 DEF Replacing
  <2>. QED
    BY <1>7, <2>2, <2>3
<1>13. CASE CommitFails
  <2>1. op # None /\ op.stage = "commit" /\ (disk' = disk \/ disk' = Without(disk, {op.file}))
    BY <1>13 DEF CommitFails, Committing
  <2>2. Leaf(op.file).ext = "tmp"
    BY <1>6, <2>1 DEF Inv, OpInv, CommitInv
  <2>3. Kept(p) \/ p = op.file
    BY <2>1 DEF Kept, Without
  <2>. QED
    BY <2>1, <2>2, <2>3
<1>14. CASE \E src \in Found : ImportSkip(src) \/ \E k \in Kinds : ImportOpen(src, k)
  <2>1. PICK src \in Found : ImportSkip(src) \/ \E k \in Kinds : ImportOpen(src, k)
    BY <1>14
  <2>. DEFINE x == Dest(src)
              f == WithDirs(disk, x)
  <2>2. op # None /\ op.cmd = "import"
    BY <2>1 DEF ImportSkip, ImportOpen, Importing
  <2>3. ~Replacing
    BY <2>2 DEF Replacing
  <2>4. DOMAIN disk \subseteq DOMAIN f /\ \A r \in DOMAIN disk : f[r] = disk[r]
    BY DEF WithDirs
  <2>5. \/ disk' = disk \/ disk' = f \/ disk' = Unopened(f, x)
        \/ \E k \in Kinds : CanWrite(f, x) /\ disk' = Opened(f, x, k)
    BY <2>1 DEF ImportSkip, ImportOpen
  <2>. HIDE DEF f, x
  <2>6. CASE disk' = disk \/ disk' = f
    BY <2>4, <2>6 DEF Kept
  <2>7. CASE disk' = Unopened(f, x)
    <3>1. Spared(x)
      BY <1>3, <2>4, <2>7
    <3>. QED
      BY <1>7, <2>3, <3>1
  <2>8. CASE \E k \in Kinds : CanWrite(f, x) /\ disk' = Opened(f, x, k)
    <3>1. PICK k \in Kinds : CanWrite(f, x) /\ disk' = Opened(f, x, k)
      BY <2>8
    <3>2. x \in DOMAIN disk => ~f[x].ro
      BY <2>4, <3>1 DEF CanWrite
    <3>3. Spared(x)
      BY <1>1, <2>4, <3>1, <3>2
    <3>. QED
      BY <1>7, <2>3, <3>3
  <2>. QED
    BY <2>5, <2>6, <2>7, <2>8
<1>. QED
  BY <1>8, <1>9, <1>10, <1>11, <1>12, <1>13, <1>14

(* Moving the temporary file changes it and what it replaces, which is not *)
(* read-only and gets a complete backup of its kind.                       *)
LEMMA CommitReplaces ==
  ASSUME Inv, Commit, NEW p \in DOMAIN disk
  PROVE  \/ Kept(p)
         \/ op # None /\ op.stage = "commit" /\ p = op.file /\ Leaf(p).ext = "tmp"
         \/ /\ op # None /\ p = op.target /\ ~disk[p].ro /\ p \in DOMAIN disk'
            /\ disk'[p].data # Torn /\ disk'[p].kind = disk[p].kind
<1>. DEFINE a == op.file
            b == op.target
<1>1. /\ op # None /\ op.stage = "commit" /\ ReplaceInv /\ CommitInv /\ op \in Commands
      /\ op.cmd = "replace" /\ IsFile(disk, a) /\ CanWrite(disk, b)
      /\ MayRelocate(disk, a, b) /\ Below(disk, a) = {a} /\ Moved(a, b, a) = b /\ a # b
      /\ disk' = Relocated(disk, a, b)
  BY CommitMoves DEF Finish
<1>2. a \in DOMAIN disk /\ b \in Path /\ Good(disk)
  BY <1>1 DEF IsFile, MayRelocate, Inv
<1>3. Leaf(a).ext = "tmp"
  <2>1. b \in Path /\ b # Root /\ Leaf(b) \in BackupNames /\ a = Temp(b)
    BY <1>1 DEF ReplaceInv, Commands
  <2>. QED
    BY <2>1, TempPath
<1>4. disk[a].kind = op.kind /\ disk[a].data # Torn
      /\ (b \in DOMAIN disk => disk[b].kind = op.kind /\ ~disk[b].ro)
  BY <1>1, <1>2 DEF CommitInv, ReplaceInv, CanWrite
<1>. HIDE DEF a, b
<1>5. /\ DOMAIN disk' = (DOMAIN disk \ Below(disk, a)) \cup {Moved(a, b, r) : r \in Below(disk, a)}
      /\ \A r \in Below(disk, a) : disk'[Moved(a, b, r)] = disk[r]
      /\ \A r \in DOMAIN disk \ Below(disk, a) :
           r \in {Moved(a, b, s) : s \in Below(disk, a)} \/ disk'[r] = disk[r]
  <2>. DEFINE g == Relocated(disk, a, b)
  <2>1. /\ DOMAIN g = (DOMAIN disk \ Below(disk, a)) \cup {Moved(a, b, r) : r \in Below(disk, a)}
        /\ \A r \in Below(disk, a) : g[Moved(a, b, r)] = disk[r]
        /\ \A r \in DOMAIN disk \ Below(disk, a) :
             r \in {Moved(a, b, s) : s \in Below(disk, a)} \/ g[r] = disk[r]
    BY <1>2, RelocatedEntries
  <2>2. disk' = g
    BY <1>1
  <2>. HIDE DEF g
  <2>. QED
    BY <2>1, <2>2
<1>6. /\ DOMAIN disk' = (DOMAIN disk \ {a}) \cup {b} /\ disk'[b] = disk[a]
      /\ \A r \in DOMAIN disk \ {a} : r = b \/ disk'[r] = disk[r]
  <2>1. {Moved(a, b, r) : r \in Below(disk, a)} = {b}
    BY <1>1
  <2>2. DOMAIN disk' = (DOMAIN disk \ {a}) \cup {b}
    BY <1>1, <1>5, <2>1
  <2>3. disk'[b] = disk[a]
    BY <1>1, <1>5
  <2>. QED
    BY <1>1, <1>5, <2>1, <2>2, <2>3
<1>7. CASE p = a
  BY <1>1, <1>3, <1>7 DEF a
<1>8. CASE p = b
  BY <1>1, <1>4, <1>6, <1>8 DEF b
<1>9. CASE p # a /\ p # b
  BY <1>6, <1>9 DEF Kept
<1>. QED
  BY <1>7, <1>8, <1>9

(* The tree's commands change what the user has picked, and what is in the *)
(* way of a move.                                                          *)
LEMMA UserChangesPicked ==
  ASSUME Inv, NEW p \in DOMAIN disk, disk[p].ro,
         \/ MenuNewFolder \/ MenuReadOnly \/ ConfirmDelete \/ EndEdit
         \/ \E i \in DOMAIN items \cup {None} : Drop(i)
  PROVE  Kept(p) \/ (op = None /\ op' = None /\ PickedByUser(p))
<1>0. Good(disk) /\ p \in Path /\ op = None /\ op' = None
  BY DEF Inv, Good, MenuNewFolder, MenuReadOnly, ConfirmDelete, EndEdit, Drop, Ready
<1>1. CASE MenuNewFolder
  <2>1. PICK x : x \notin DOMAIN disk /\ disk' = With(disk, x, Folder)
    BY <1>1 DEF MenuNewFolder, NewFolder
  <2>. QED
    BY <2>1 DEF With, Kept
<1>2. CASE MenuReadOnly
  <2>1. PICK i \in Meant(ui) \ {None, Root} :
          IsFile(disk, i) /\ disk' = [disk EXCEPT ![i].ro = ~items[i].ro]
    BY <1>2 DEF MenuReadOnly
  <2>2. ui.mode = "menu" /\ items[i].ro \in BOOLEAN
    BY <1>2, <2>1, MeantItem DEF Inv, Items, MenuReadOnly, Ready
  <2>3. CASE p # i
    BY <2>1, <2>3 DEF Kept
  <2>4. CASE p = i
    <3>1. disk[p] \in Backup
      BY <2>1, <2>4, Entries DEF Inv, Good, Fitting, IsFile
    <3>2. p \in DOMAIN disk' /\ disk'[p] = [disk[p] EXCEPT !.ro = ~items[i].ro]
      BY <2>1, <2>4
    <3>3. CASE items[i].ro
      <4>1. disk'[p] = [disk[p] EXCEPT !.ro = FALSE]
        BY <3>2, <3>3
      <4>. QED
        BY <1>0, <2>2, <3>2, <4>1 DEF PickedByUser
    <3>4. CASE ~items[i].ro
      <4>1. disk'[p] = [disk[p] EXCEPT !.ro = TRUE]
        BY <3>2, <3>4
      <4>2. disk[p].ro = TRUE
        BY <3>1 DEF Backup
      <4>3. disk'[p] = disk[p]
        BY <3>1, <4>1, <4>2 DEF Backup
      <4>. QED
        BY <3>2, <4>3 DEF Kept
    <3>. QED
      BY <2>2, <3>3, <3>4
  <2>. QED
    BY <2>3, <2>4
<1>3. CASE ConfirmDelete
  <2>1. ui.mode = "confirm" /\ disk' = Without(disk, Below(disk, ui.item))
    BY <1>3 DEF ConfirmDelete, Ready
  <2>2. CASE Within(ui.item, p)
    BY <1>0, <2>1, <2>2 DEF PickedByUser
  <2>3. CASE ~Within(ui.item, p)
    BY <2>1, <2>3 DEF Without, Below, Kept
  <2>. QED
    BY <2>2, <2>3
<1>4. CASE EndEdit
  <2>. DEFINE x == ui.item
  <2>1. PICK n \in Names :
          /\ x \in DOMAIN disk /\ In(Parent(x), n) # x /\ CanWrite(disk, In(Parent(x), n))
          /\ Fitting(disk[x], n)
          /\ disk[x].kind = "dir" => In(Parent(x), n) \notin DOMAIN disk
          /\ disk' = Relocated(disk, x, In(Parent(x), n))
    BY <1>4, EndEditMoves
  <2>2. ui.mode = "edit"
    BY <1>4 DEF EndEdit, Ready
  <2>3. Within(x, p) => PickedByUser(p)
    BY <2>2 DEF PickedByUser
  <2>. HIDE DEF x
  <2>4. p # In(Parent(x), n)
    BY <2>1 DEF CanWrite
  <2>5. Within(x, p) \/ Kept(p)
    BY <1>0, <2>1, <2>4, Renamed DEF Kept
  <2>. QED
    BY <1>0, <2>3, <2>5
<1>5. ASSUME NEW i \in DOMAIN items \cup {None}, Drop(i)
      PROVE  Kept(p) \/ (op = None /\ op' = None /\ PickedByUser(p))
  <2>. DEFINE x == ui.item
              q == In(FolderOf(i), Leaf(x))
  <2>1. x \in DOMAIN disk /\ MayRelocate(disk, x, q) /\ disk' = Relocated(disk, x, q)
    BY <1>5, DropMoves
  <2>2. ui.mode = "drag"
    BY <1>5 DEF Drop, Ready
  <2>3. Within(x, p) \/ p \in DOMAIN disk' => PickedByUser(p)
    BY <2>2 DEF PickedByUser
  <2>. HIDE DEF x, q
  <2>4. q \in Path /\ x \in DOMAIN disk
    BY <2>1 DEF MayRelocate
  <2>. DEFINE g == Relocated(disk, x, q)
  <2>5. /\ DOMAIN g = (DOMAIN disk \ Below(disk, x)) \cup {Moved(x, q, r) : r \in Below(disk, x)}
        /\ \A r \in Below(disk, x) : g[Moved(x, q, r)] = disk[r]
        /\ \A r \in DOMAIN disk \ Below(disk, x) :
             r \in {Moved(x, q, s) : s \in Below(disk, x)} \/ g[r] = disk[r]
    BY <1>0, <2>4, RelocatedEntries
  <2>6. p \in Below(disk, x) \/ p \in DOMAIN disk'
    BY <2>1, <2>5
  <2>. QED
    BY <1>0, <2>3, <2>6 DEF Below
<1>. QED
  BY <1>1, <1>2, <1>3, <1>4, <1>5

(* What is left leaves the library as it is.                               *)
LEMMA StepChanges ==
  ASSUME [Next]_vars
  PROVE  \/ UNCHANGED disk /\ ~(op = None /\ op' # None /\ op'.cmd = "replace")
         \/ \E k \in Kinds : BackupSave(k)
         \/ BackupReplace \/ BackupRefused
         \/ \E d \in Data : WriteBackup(d) \/ WriteTemp(d) \/ ImportWrite(d)
         \/ WriteFails \/ CommitFails \/ ImportWriteFails
         \/ \E src \in Found : ImportSkip(src) \/ \E k \in Kinds : ImportOpen(src, k)
         \/ Commit
         \/ MenuNewFolder \/ MenuReadOnly \/ ConfirmDelete \/ EndEdit
         \/ \E i \in DOMAIN items \cup {None} : Drop(i)
         \/ Others
<1>1. ASSUME NEW S \in Ticked, ImportStart(S)
      PROVE  UNCHANGED disk /\ ~(op = None /\ op' # None /\ op'.cmd = "replace")
  BY <1>1 DEF ImportStart, Command
<1>2. ASSUME ImportEnd PROVE UNCHANGED disk /\ op' = None
  BY <1>2 DEF ImportEnd
<1>3. ASSUME \E i \in DOMAIN items : Select(i) \/ (i # Root /\ BeginDrag(i))
      PROVE  UNCHANGED <<disk, op>>
  BY <1>3 DEF Select, BeginDrag
<1>4. ASSUME \E i \in DOMAIN items \cup {None} : RightClick(i) PROVE UNCHANGED <<disk, op>>
  BY <1>4 DEF RightClick
<1>5. ASSUME SelectSibling \/ KeyDelete \/ KeyRename \/ Cancel \/ MenuRename \/ MenuDelete
      PROVE  UNCHANGED <<disk, op>>
  BY <1>5 DEF SelectSibling, KeyDelete, KeyRename, Cancel, MenuRename, MenuDelete
<1>6. ASSUME TimerRefresh \/ UndoButton \/ UNCHANGED vars PROVE UNCHANGED <<disk, op>>
  BY <1>6 DEF TimerRefresh, UndoButton, vars
<1>7. ASSUME Crash PROVE UNCHANGED disk /\ op' = None
  BY <1>7 DEF Crash
<1>. QED
  BY <1>1, <1>2, <1>3, <1>4, <1>5, <1>6, <1>7 DEF Next

(* A backup that is read-only on disk, whatever the tree shows, is changed *)
(* by no backup command, import or rename of something else.               *)
THEOREM ReadOnlyIsKept == Spec => ReadOnlyKept
<1>1. ASSUME Inv, [Next]_vars, NEW p \in DOMAIN disk, disk[p].ro
      PROVE  \/ p \in DOMAIN disk' /\ disk'[p] = disk[p]
             \/ op = None /\ op' = None /\ PickedByUser(p)
             \/ op # None /\ op.stage = "commit" /\ p = op.file
             \/ Others
  <2>1. CASE UNCHANGED disk
    BY <2>1
  <2>2. CASE \/ \E k \in Kinds : BackupSave(k)
             \/ BackupReplace \/ BackupRefused
             \/ \E d \in Data : WriteBackup(d) \/ WriteTemp(d) \/ ImportWrite(d)
             \/ WriteFails \/ CommitFails \/ ImportWriteFails
             \/ \E src \in Found : ImportSkip(src) \/ \E k \in Kinds : ImportOpen(src, k)
    BY <1>1, <2>2, WritesOneFile DEF Kept
  <2>3. CASE Commit
    BY <1>1, <2>3, CommitReplaces DEF Kept
  <2>4. CASE \/ MenuNewFolder \/ MenuReadOnly \/ ConfirmDelete \/ EndEdit
             \/ \E i \in DOMAIN items \cup {None} : Drop(i)
    BY <1>1, <2>4, UserChangesPicked DEF Kept
  <2>. QED
    BY <1>1, <2>1, <2>2, <2>3, <2>4, StepChanges
<1>2. Inv /\ [Next]_vars =>
        [\A p \in DOMAIN disk :
           disk[p].ro => \/ p \in DOMAIN disk' /\ disk'[p] = disk[p]
                         \/ op = None /\ op' = None /\ PickedByUser(p)
                         \/ op # None /\ op.stage = "commit" /\ p = op.file
                         \/ Others]_vars
  BY <1>1
<1>. QED
  BY <1>2, Invariance, PTL DEF Spec, ReadOnlyKept

(* Backup & Replace at every moment, a kill included: the selected backup  *)
(* is what it was or a complete new one of its kind, and no other backup   *)
(* is touched.                                                             *)
THEOREM ReplaceIsOldOrNew == Spec => ReplaceOldOrNew
<1>1. ASSUME Inv, [Next]_vars, Replacing, NEW p \in DOMAIN disk
      PROVE  \/ p \in DOMAIN disk' /\ disk'[p] = disk[p]
             \/ Leaf(p).ext = "tmp"
             \/ /\ op # None /\ p = op.target /\ p \in DOMAIN disk'
                /\ disk'[p].data # Torn /\ disk'[p].kind = disk[p].kind
             \/ Others
  <2>1. CASE UNCHANGED disk
    BY <2>1
  <2>2. CASE \/ \E k \in Kinds : BackupSave(k)
             \/ BackupReplace \/ BackupRefused
             \/ \E d \in Data : WriteBackup(d) \/ WriteTemp(d) \/ ImportWrite(d)
             \/ WriteFails \/ CommitFails \/ ImportWriteFails
             \/ \E src \in Found : ImportSkip(src) \/ \E k \in Kinds : ImportOpen(src, k)
    BY <1>1, <2>2, WritesOneFile DEF Kept
  <2>3. CASE Commit
    BY <1>1, <2>3, CommitReplaces DEF Kept
  <2>4. CASE \/ MenuNewFolder \/ MenuReadOnly \/ ConfirmDelete \/ EndEdit
             \/ \E i \in DOMAIN items \cup {None} : Drop(i)
    <3>1. op = None /\ op' = None
      BY <2>4 DEF MenuNewFolder, MenuReadOnly, ConfirmDelete, EndEdit, Drop, Ready
    <3>. QED
      BY <1>1, <3>1 DEF Replacing
  <2>. QED
    BY <1>1, <2>1, <2>2, <2>3, <2>4, StepChanges
<1>2. Inv /\ [Next]_vars =>
        [Replacing => \A p \in DOMAIN disk :
           \/ p \in DOMAIN disk' /\ disk'[p] = disk[p]
           \/ Leaf(p).ext = "tmp"
           \/ /\ op # None /\ p = op.target /\ p \in DOMAIN disk'
              /\ disk'[p].data # Torn /\ disk'[p].kind = disk[p].kind
           \/ Others]_vars
  BY <1>1
<1>. QED
  BY <1>2, Invariance, PTL DEF Spec, ReplaceOldOrNew
=============================================================================
