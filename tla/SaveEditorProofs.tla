-------------------------- MODULE SaveEditorProofs --------------------------
(***************************************************************************)
(* Proofs about SaveEditor, for any slots, folders, lists and bounds.      *)
(***************************************************************************)
EXTENDS SaveEditor, FiniteSetTheorems, WellFoundedInduction, TLAPS

LEMMA SmallestNumber ==
  ASSUME NEW K, K \subseteq Nat, K # {}
  PROVE  \E k \in K : \A n \in K : k <= n
<1>1. PICK k \in K : \A n \in K : ~(<<n, k>> \in OpToRel(<, Nat))
  BY NatLessThanWellFounded, WFMin
<1>2. ASSUME NEW n \in K PROVE k <= n
  <2>1. n \in Nat /\ k \in Nat
    OBVIOUS
  <2>2. n < k => <<n, k>> \in OpToRel(<, Nat)
    BY <2>1 DEF OpToRel
  <2>3. ~(n < k)
    BY <1>1, <2>2, Zenon
  <2>. QED
    BY <2>1, <2>3
<1>. QED
  BY <1>2

-----------------------------------------------------------------------------
(***************************************************************************)
(* Plans.  What the first k writes leave, place by place and field by      *)
(* field: the order of the writes matters only for what a prefix holds.    *)
(***************************************************************************)
Shaped(f) ==
  /\ f = [p \in Places |-> [body |-> f[p].body, sum |-> f[p].sum]]
  /\ \A p \in Places : f[p].body = [x \in DOMAIN f[p].body |-> f[p].body[x]]
AtHome(m) == m.at = [i \in Slots |-> i]
IsPlan(plan) == /\ Len(plan) \in Nat /\ DOMAIN plan = 1 .. Len(plan)
                /\ \A n \in 1 .. Len(plan) : plan[n].place \in Places

Seals(plan, k, p) == \E n \in 1 .. k : plan[n].kind = "sum" /\ plan[n].place = p
Covers(plan, k, p, x) ==
  \E n \in 1 .. k : plan[n].kind # "sum" /\ plan[n].place = p /\ x \in plan[n].fields

After(f, m, plan, k) ==
  [p \in Places |->
    [body |-> [x \in DOMAIN f[p].body |->
                 IF Covers(plan, k, p, x) THEN m.body[p][x] ELSE f[p].body[x]],
     sum  |-> IF Seals(plan, k, p) THEN m.body[p] ELSE f[p].sum]]

PutInto(f, m, w) ==
  [p \in Places |->
    [body |-> [x \in DOMAIN f[p].body |->
                 IF w.kind # "sum" /\ w.place = p /\ x \in w.fields
                   THEN m.body[p][x] ELSE f[p].body[x]],
     sum  |-> IF w.kind = "sum" /\ w.place = p THEN m.body[p] ELSE f[p].sum]]

LEMMA PutIs ==
  ASSUME NEW f, NEW m, NEW w, Shaped(f), AtHome(m), w.place \in Places
  PROVE  Put(f, m, w) = PutInto(f, m, w)
<1>0. Target(m, w.place) = w.place
  BY DEF Target, AtHome, Places
<1>. DEFINE q == w.place
            New(p) == [body |-> [x \in DOMAIN f[p].body |->
                                   IF w.kind # "sum" /\ w.place = p /\ x \in w.fields
                                     THEN m.body[p][x] ELSE f[p].body[x]],
                       sum  |-> IF w.kind = "sum" /\ w.place = p THEN m.body[p] ELSE f[p].sum]
<1>. SUFFICES Put(f, m, w) = [p \in Places |-> New(p)]
  BY Zenon DEF PutInto
<1>1. /\ DOMAIN f = Places /\ q \in Places
      /\ \A p \in Places : f[p] = [body |-> f[p].body, sum |-> f[p].sum]
  BY DEF Shaped
<1>2. CASE w.kind = "sum"
  <2>1. Put(f, m, w) = [f EXCEPT ![q] = [@ EXCEPT !.sum = m.body[q]]]
    BY <1>0, <1>2 DEF Put
  <2>2. [f[q] EXCEPT !.sum = m.body[q]] = [body |-> f[q].body, sum |-> m.body[q]]
    BY <1>1
  <2>3. Put(f, m, w) =
          [p \in Places |-> IF p = q THEN [body |-> f[q].body, sum |-> m.body[q]] ELSE f[p]]
    BY <1>1, <2>1, <2>2 DEF Shaped
  <2>4. \A p \in Places : New(p) = IF p = q THEN [body |-> f[q].body, sum |-> m.body[q]] ELSE f[p]
    BY <1>1, <1>2 DEF Shaped
  <2>. HIDE DEF New, q
  <2>. QED
    BY <2>3, <2>4
<1>3. CASE w.kind # "sum"
  <2>. DEFINE b == [x \in DOMAIN f[q].body |-> IF x \in w.fields THEN m.body[q][x] ELSE f[q].body[x]]
  <2>1. Put(f, m, w) = [f EXCEPT ![q] = [@ EXCEPT !.body = b]]
    BY <1>0, <1>3 DEF Put
  <2>2. [f[q] EXCEPT !.body = b] = [body |-> b, sum |-> f[q].sum]
    BY <1>1
  <2>3. Put(f, m, w) =
          [p \in Places |-> IF p = q THEN [body |-> b, sum |-> f[q].sum] ELSE f[p]]
    BY <1>1, <2>1, <2>2 DEF Shaped
  <2>4. ASSUME NEW p \in Places
        PROVE  New(p) = IF p = q THEN [body |-> b, sum |-> f[q].sum] ELSE f[p]
    <3>1. CASE p = q
      BY <3>1, <1>3
    <3>2. CASE p # q
      <4>1. New(p) = [body |-> [x \in DOMAIN f[p].body |-> f[p].body[x]], sum |-> f[p].sum]
        BY <3>2
      <4>. QED
        BY <4>1, <3>2, <1>1 DEF Shaped
    <3>. QED
      BY <3>1, <3>2
  <2>. HIDE DEF New, q
  <2>. QED
    BY <2>3, <2>4
<1>. QED
  BY <1>2, <1>3

LEMMA PutAfter ==
  ASSUME NEW f, NEW m, NEW plan, NEW n \in Nat, Shaped(f), AtHome(m), IsPlan(plan),
         n + 1 <= Len(plan)
  PROVE  Put(After(f, m, plan, n), m, plan[n + 1]) = After(f, m, plan, n + 1)
<1>. DEFINE g == After(f, m, plan, n)
            w == plan[n + 1]
            Old(p) == [x \in DOMAIN f[p].body |->
                         IF Covers(plan, n, p, x) THEN m.body[p][x] ELSE f[p].body[x]]
<1>1. n + 1 \in 1 .. Len(plan) /\ w.place \in Places
  BY DEF IsPlan
<1>2. ASSUME NEW p \in Places
      PROVE  /\ g[p].body = Old(p)
             /\ g[p].sum = IF Seals(plan, n, p) THEN m.body[p] ELSE f[p].sum
  BY DEF After
<1>3. Shaped(g)
  <2>1. g = [p \in Places |-> [body |-> g[p].body, sum |-> g[p].sum]]
    BY DEF After
  <2>. QED
    BY <1>2, <2>1 DEF Shaped
<1>. HIDE DEF g, w
<1>4. Put(g, m, w) = PutInto(g, m, w)
  BY <1>1, <1>3, PutIs, Zenon
<1>5. 1 .. n + 1 = (1 .. n) \cup {n + 1}
  OBVIOUS
<1>6. ASSUME NEW p
      PROVE  /\ Seals(plan, n + 1, p) <=> Seals(plan, n, p) \/ (w.kind = "sum" /\ w.place = p)
             /\ \A x : Covers(plan, n + 1, p, x) <=>
                   Covers(plan, n, p, x) \/ (w.kind # "sum" /\ w.place = p /\ x \in w.fields)
  BY <1>5, Zenon DEF Seals, Covers, w
<1>7. ASSUME NEW p \in Places
      PROVE  /\ [x \in DOMAIN g[p].body |->
                   IF w.kind # "sum" /\ w.place = p /\ x \in w.fields
                     THEN m.body[p][x] ELSE g[p].body[x]]
                 = [x \in DOMAIN f[p].body |->
                     IF Covers(plan, n + 1, p, x) THEN m.body[p][x] ELSE f[p].body[x]]
             /\ (IF w.kind = "sum" /\ w.place = p THEN m.body[p] ELSE g[p].sum)
                 = IF Seals(plan, n + 1, p) THEN m.body[p] ELSE f[p].sum
  <2>1. /\ DOMAIN g[p].body = DOMAIN f[p].body
        /\ \A x \in DOMAIN f[p].body :
             g[p].body[x] = IF Covers(plan, n, p, x) THEN m.body[p][x] ELSE f[p].body[x]
    BY <1>2
  <2>2. ASSUME NEW x \in DOMAIN f[p].body
        PROVE  (IF w.kind # "sum" /\ w.place = p /\ x \in w.fields
                  THEN m.body[p][x] ELSE g[p].body[x])
                = IF Covers(plan, n + 1, p, x) THEN m.body[p][x] ELSE f[p].body[x]
    BY <1>6, <2>1
  <2>. QED
    BY <1>2, <1>6, <2>1, <2>2
<1>8. PutInto(g, m, w) = After(f, m, plan, n + 1)
  BY <1>7 DEF PutInto, After
<1>. QED
  BY <1>4, <1>8, Zenon DEF g, w

LEMMA WrittenIs ==
  ASSUME NEW f, NEW m, NEW plan, NEW k \in Nat, Shaped(f), AtHome(m), IsPlan(plan),
         k <= Len(plan)
  PROVE  Written(f, m, plan, k) = After(f, m, plan, k)
<1>. DEFINE Step(h) == [n \in 0 .. k |-> IF n = 0 THEN f ELSE Put(h[n - 1], m, plan[n])]
            done == CHOOSE h : h = Step(h)
            g == [n \in 0 .. k |-> After(f, m, plan, n)]
<1>1. Written(f, m, plan, k) = done[k]
  BY DEF Written
<1>2. After(f, m, plan, 0) = f
  <2>1. \A p : ~Seals(plan, 0, p) /\ \A x : ~Covers(plan, 0, p, x)
    BY DEF Seals, Covers
  <2>. QED
    BY <2>1 DEF After, Shaped
<1>3. ASSUME NEW n \in 0 .. k, n # 0
      PROVE  /\ n - 1 \in 0 .. k /\ n - 1 \in Nat /\ n = (n - 1) + 1
             /\ Put(After(f, m, plan, n - 1), m, plan[n]) = After(f, m, plan, n)
  <2>1. n - 1 \in 0 .. k /\ n - 1 \in Nat /\ n = (n - 1) + 1 /\ (n - 1) + 1 <= Len(plan)
    BY <1>3 DEF IsPlan
  <2>2. Put(After(f, m, plan, n - 1), m, plan[(n - 1) + 1]) = After(f, m, plan, (n - 1) + 1)
    BY <2>1, PutAfter, Zenon
  <2>. QED
    BY <2>1, <2>2
<1>4. g = Step(g)
  BY <1>2, <1>3
<1>5. done = Step(done)
  <2>. HIDE DEF g, Step
  <2>. QED
    BY <1>4
<1>6. \A n \in 0 .. k : done[n] = IF n = 0 THEN f ELSE Put(done[n - 1], m, plan[n])
  <2>. HIDE DEF done
  <2>. QED
    BY <1>5
<1>7. ASSUME NEW n \in 0 .. k, done[n] # After(f, m, plan, n)
      PROVE  FALSE
  <2>. HIDE DEF done
  <2>. DEFINE T == {j \in 0 .. k : done[j] # After(f, m, plan, j)}
  <2>1. T # {} /\ T \subseteq Nat
    BY <1>7
  <2>2. PICK j \in T : \A i \in T : j <= i
    BY <2>1, SmallestNumber, Zenon
  <2>3. j \in 0 .. k /\ j # 0
    BY <1>2, <1>6, <2>2
  <2>4. done[j - 1] = After(f, m, plan, j - 1)
    BY <2>2, <2>3
  <2>. QED
    BY <1>3, <1>6, <2>2, <2>3, <2>4
<1>. QED
  BY <1>1, <1>7

-----------------------------------------------------------------------------
(***************************************************************************)
(* Files and loaded saves.                                                 *)
(***************************************************************************)
LEMMA PlaceFacts ==
  /\ Slots \subseteq Nat /\ Summary \notin Slots /\ Summary \in Places
  /\ \A i \in Slots : i \in Places
  /\ \A p \in Places : p = Summary \/ p \in Slots
  /\ None \notin Places
<1>1. Cardinality(Slots) \in Nat
  BY SaveEditorAssumption, FS_CardinalityType
<1>. QED
  BY <1>1, SaveEditorAssumption DEF Places, Summary

\* What a place holds is a function on the fields of its kind.
Fields(p) == IF p = Summary THEN SummaryFields ELSE CharFields

LEMMA BodyFields ==
  ASSUME NEW bs, AreBodies(bs), NEW p \in Places
  PROVE  bs[p] = [x \in Fields(p) |-> bs[p][x]] /\ DOMAIN bs[p] = Fields(p)
<1>1. CASE p = Summary
  BY <1>1 DEF AreBodies, IsSummary, Fields
<1>2. CASE p # Summary
  <2>1. IsChar(bs[p]) /\ Fields(p) = CharFields
    BY <1>2, PlaceFacts DEF AreBodies, Fields
  <2>. QED
    BY <2>1 DEF IsChar
<1>. QED
  BY <1>1, <1>2

LEMMA FileFields ==
  ASSUME NEW f, IsFile(f)
  PROVE  /\ Shaped(f) /\ DOMAIN f = Places
         /\ \A p \in Places : /\ f[p] = [body |-> f[p].body, sum |-> f[p].sum]
                              /\ f[p].body = Bodies(f)[p] /\ f[p].sum = Sums(f)[p]
                              /\ f[p].body = [x \in Fields(p) |-> f[p].body[x]]
                              /\ DOMAIN f[p].body = Fields(p)
                              /\ f[p].sum = [x \in Fields(p) |-> f[p].sum[x]]
                              /\ DOMAIN f[p].sum = Fields(p)
<1>1. f = [p \in Places |-> [body |-> f[p].body, sum |-> f[p].sum]]
  BY DEF IsFile
<1>2. ASSUME NEW p \in Places
      PROVE  /\ f[p].body = Bodies(f)[p] /\ f[p].sum = Sums(f)[p]
             /\ Bodies(f)[p] = [x \in Fields(p) |-> Bodies(f)[p][x]]
             /\ DOMAIN Bodies(f)[p] = Fields(p)
             /\ Sums(f)[p] = [x \in Fields(p) |-> Sums(f)[p][x]]
             /\ DOMAIN Sums(f)[p] = Fields(p)
  <2>1. f[p].body = Bodies(f)[p] /\ f[p].sum = Sums(f)[p]
    BY DEF Bodies, Sums
  <2>2. AreBodies(Bodies(f)) /\ AreBodies(Sums(f))
    BY DEF IsFile
  <2>. QED
    BY <2>1, <2>2, BodyFields
<1>3. DOMAIN f = Places
  BY <1>1
<1>4. \A p \in Places : f[p] = [body |-> f[p].body, sum |-> f[p].sum]
  BY <1>1
<1>5. ASSUME NEW p \in Places
      PROVE  /\ f[p].body = [x \in Fields(p) |-> f[p].body[x]]
             /\ DOMAIN f[p].body = Fields(p)
             /\ f[p].sum = [x \in Fields(p) |-> f[p].sum[x]]
             /\ DOMAIN f[p].sum = Fields(p)
  BY <1>2
<1>. QED
  BY <1>1, <1>2, <1>3, <1>4, <1>5 DEF Shaped

IsMem(m) == /\ m = [save |-> m.save, body |-> m.body, at |-> m.at]
            /\ m.save \in Saves /\ AreBodies(m.body) /\ AtHome(m)

\* The fields of a slot and of the summary have the types of their kind.
HasTypes(p, b) ==
  IF p = Summary THEN IsSummary(b) ELSE IsChar(b)

LEMMA BodiesByPlace ==
  ASSUME NEW bs
  PROVE  AreBodies(bs) <=> bs = [p \in Places |-> bs[p]] /\ \A p \in Places : HasTypes(p, bs[p])
BY PlaceFacts DEF AreBodies, HasTypes

\* A body that has each of its fields from one of two others.
LEMMA MixedBody ==
  ASSUME NEW p \in Places, NEW b, NEW c, NEW d, HasTypes(p, b), HasTypes(p, c),
         d = [x \in Fields(p) |-> d[x]],
         \A x \in Fields(p) : d[x] = b[x] \/ d[x] = c[x]
  PROVE  HasTypes(p, d)
<1>1. CASE p = Summary
  BY <1>1 DEF HasTypes, IsSummary, Fields, SummaryFields
<1>2. CASE p # Summary
  BY <1>2 DEF HasTypes, IsChar, Fields, CharFields
<1>. QED
  BY <1>1, <1>2

LEMMA AfterIsFile ==
  ASSUME NEW f, NEW m, NEW plan, NEW k, IsFile(f), IsMem(m)
  PROVE  /\ IsFile(After(f, m, plan, k))
         /\ \A p \in Places :
              /\ \A x \in Fields(p) :
                   After(f, m, plan, k)[p].body[x] =
                     IF Covers(plan, k, p, x) THEN m.body[p][x] ELSE f[p].body[x]
              /\ After(f, m, plan, k)[p].sum = IF Seals(plan, k, p) THEN m.body[p] ELSE f[p].sum
<1>. DEFINE g == After(f, m, plan, k)
<1>1. /\ g = [p \in Places |-> [body |-> g[p].body, sum |-> g[p].sum]]
      /\ \A p \in Places :
           /\ g[p].body = [x \in DOMAIN f[p].body |->
                             IF Covers(plan, k, p, x) THEN m.body[p][x] ELSE f[p].body[x]]
           /\ g[p].sum = IF Seals(plan, k, p) THEN m.body[p] ELSE f[p].sum
  BY DEF After
<1>. HIDE DEF g
<1>2. \A p \in Places : DOMAIN f[p].body = Fields(p)
  BY FileFields
<1>3. \A p \in Places :
        /\ g[p].body = [x \in Fields(p) |-> g[p].body[x]]
        /\ \A x \in Fields(p) :
             g[p].body[x] = IF Covers(plan, k, p, x) THEN m.body[p][x] ELSE f[p].body[x]
  BY <1>1, <1>2
<1>4. \A p \in Places : /\ HasTypes(p, m.body[p])
                        /\ HasTypes(p, f[p].body) /\ HasTypes(p, f[p].sum)
  <2>1. AreBodies(m.body) /\ AreBodies(Bodies(f)) /\ AreBodies(Sums(f))
    BY DEF IsMem, IsFile
  <2>2. \A p \in Places : f[p].body = Bodies(f)[p] /\ f[p].sum = Sums(f)[p]
    BY DEF Bodies, Sums
  <2>. QED
    BY <2>1, <2>2, BodiesByPlace
<1>5. \A p \in Places : HasTypes(p, g[p].body)
  <2>. SUFFICES ASSUME NEW p \in Places PROVE HasTypes(p, g[p].body)
    OBVIOUS
  <2>1. \A x \in Fields(p) : g[p].body[x] = m.body[p][x] \/ g[p].body[x] = f[p].body[x]
    BY <1>3
  <2>2. /\ HasTypes(p, m.body[p]) /\ HasTypes(p, f[p].body)
        /\ g[p].body = [x \in Fields(p) |-> g[p].body[x]]
    BY <1>3, <1>4
  <2>. DEFINE d == g[p].body
  <2>3. /\ d = [x \in Fields(p) |-> d[x]]
        /\ \A x \in Fields(p) : d[x] = m.body[p][x] \/ d[x] = f[p].body[x]
    BY <2>1, <2>2
  <2>. HIDE DEF d
  <2>4. HasTypes(p, d)
    BY <2>2, <2>3, MixedBody
  <2>. QED
    BY <2>4 DEF d
<1>6. \A p \in Places : HasTypes(p, g[p].sum)
  BY <1>1, <1>4
<1>7. AreBodies(Bodies(g)) /\ AreBodies(Sums(g))
  BY <1>5, <1>6, BodiesByPlace DEF Bodies, Sums
<1>. QED
  BY <1>1, <1>3, <1>7 DEF IsFile, g

-----------------------------------------------------------------------------
(***************************************************************************)
(* Edits.  What is required of a command on one slot, of what it makes of  *)
(* memory and of its plan: it writes to its slot and to its entry in the   *)
(* summary, all that it changed and all the checksums, and a slot is       *)
(* marked as used after its owner is written.                              *)
(***************************************************************************)
EntryOf(slot) == {<<"profile", slot>>, <<"used", slot>>, <<"face", 0>>}

IsEdit(m, n, plan, slot) ==
  /\ IsPlan(plan) /\ slot \in Places /\ IsMem(n) /\ n.save = m.save
  /\ \A j \in 1 .. Len(plan) :
       /\ plan[j].place \in {slot, Summary}
       /\ plan[j].kind # "sum" /\ plan[j].place = Summary => plan[j].fields \subseteq EntryOf(slot)
       /\ Seals(plan, Len(plan), plan[j].place)
  /\ \A p \in Places : \A x \in Fields(p) :
       n.body[p][x] = m.body[p][x] \/ Covers(plan, Len(plan), p, x)
  /\ slot \in Slots => \A k \in 0 .. Len(plan) :
       /\ Covers(plan, k, Summary, <<"used", slot>>) => Covers(plan, k, slot, "owner")
       /\ Covers(plan, k, slot, "owner") => n.body[slot]["owner"] = UserOf(n.body)

LEMMA EditFrame ==
  ASSUME NEW m, NEW n, NEW plan, NEW slot, IsEdit(m, n, plan, slot), NEW k \in 0 .. Len(plan)
  PROVE  /\ \A p \in Places \ {slot, Summary} :
              ~Seals(plan, k, p) /\ \A x : ~Covers(plan, k, p, x)
         /\ \A x : Covers(plan, k, Summary, x) /\ slot # Summary => x \in EntryOf(slot)
<1>1. Len(plan) \in Nat
  BY DEF IsEdit, IsPlan
<1>2. \A j \in 1 .. k : j \in 1 .. Len(plan)
  BY <1>1
<1>3. \A j \in 1 .. k :
        /\ plan[j].place \in {slot, Summary}
        /\ plan[j].kind # "sum" /\ plan[j].place = Summary => plan[j].fields \subseteq EntryOf(slot)
  BY <1>2 DEF IsEdit
<1>. QED
  BY <1>3 DEF Seals, Covers

\* The fields that commands write.
LEMMA FieldFacts ==
  /\ "hero" \in CharFields /\ "name" \in CharFields /\ "dlc" \in CharFields /\ "owner" \in CharFields
  /\ <<"user", 0>> \in SummaryFields /\ <<"face", 0>> \in SummaryFields
  /\ \A i \in Slots : <<"profile", i>> \in SummaryFields /\ <<"used", i>> \in SummaryFields
  /\ \A i \in Slots : i \in Places /\ i # Summary /\ Fields(i) = CharFields
  /\ Summary \in Places /\ Fields(Summary) = SummaryFields
  /\ \A i, j \in Nat : <<"profile", i>> # <<"used", j>> /\ <<"user", 0>> # <<"used", j>>
                       /\ <<"user", 0>> # <<"profile", i>> /\ <<"face", 0>> # <<"used", j>>
                       /\ <<"face", 0>> # <<"profile", i>>
  /\ <<"user", 0>> # <<"face", 0>>
<1>1. /\ \A i \in Slots : i \in Places /\ i # Summary /\ Fields(i) = CharFields
      /\ Summary \in Places /\ Fields(Summary) = SummaryFields
  BY PlaceFacts DEF Fields
<1>2. /\ "hero" \in CharFields /\ "name" \in CharFields /\ "dlc" \in CharFields
      /\ "owner" \in CharFields
      /\ <<"user", 0>> \in SummaryFields /\ <<"face", 0>> \in SummaryFields
      /\ \A i \in Slots : <<"profile", i>> \in SummaryFields /\ <<"used", i>> \in SummaryFields
  BY DEF CharFields, SummaryFields
<1>3. \A i, j \in Nat : <<"profile", i>> # <<"used", j>> /\ <<"user", 0>> # <<"used", j>>
                       /\ <<"user", 0>> # <<"profile", i>> /\ <<"face", 0>> # <<"used", j>>
                       /\ <<"face", 0>> # <<"profile", i>>
  OBVIOUS
<1>4. <<"user", 0>> # <<"face", 0>>
  OBVIOUS
<1>. QED
  BY <1>1, <1>2, <1>3, <1>4

\* What a command makes of a slot and of the summary.
Remade(m, i, b, s) ==
  [m EXCEPT !.body = [p \in Places |-> IF p = i THEN b ELSE IF p = Summary THEN s ELSE m.body[p]]]

LEMMA RemadeIsMem ==
  ASSUME NEW m, IsMem(m), NEW i \in Places, NEW b, HasTypes(i, b), NEW s, IsSummary(s)
  PROVE  /\ IsMem(Remade(m, i, b, s)) /\ Remade(m, i, b, s).save = m.save
         /\ \A p \in Places : Remade(m, i, b, s).body[p] =
              IF p = i THEN b ELSE IF p = Summary THEN s ELSE m.body[p]
<1>. DEFINE n == Remade(m, i, b, s)
            bs == [p \in Places |-> IF p = i THEN b ELSE IF p = Summary THEN s ELSE m.body[p]]
<1>1. n = [save |-> m.save, body |-> bs, at |-> m.at]
  BY DEF Remade, IsMem
<1>2. AreBodies(bs)
  <2>1. bs = [p \in Places |-> bs[p]]
    BY DEF AreBodies
  <2>2. IsSummary(bs[Summary])
    BY PlaceFacts DEF HasTypes
  <2>3. \A j \in Slots : IsChar(bs[j])
    BY PlaceFacts DEF IsMem, AreBodies, HasTypes
  <2>. HIDE DEF bs
  <2>. QED
    BY <2>1, <2>2, <2>3 DEF AreBodies
<1>. HIDE DEF n
<1>3. n.save = m.save /\ n.body = bs /\ n.at = m.at
  BY <1>1
<1>4. IsMem(n)
  BY <1>1, <1>2, <1>3 DEF IsMem, AtHome
<1>5. \A p \in Places : bs[p] = IF p = i THEN b ELSE IF p = Summary THEN s ELSE m.body[p]
  OBVIOUS
<1>. QED
  BY <1>3, <1>4, <1>5 DEF n

LEMMA ImportedIs ==
  ASSUME NEW m, IsMem(m), NEW i \in Slots, NEW c, IsChar(c)
  PROVE  \E b, s : /\ IsChar(b) /\ IsSummary(s) /\ Imported(m, i, c) = Remade(m, i, b, s)
                   /\ b["owner"] = UserOf(m.body)
                   /\ \A x \in SummaryFields \ {<<"profile", i>>, <<"used", i>>} :
                        s[x] = m.body[Summary][x]
<1>. DEFINE b == [c EXCEPT !["owner"] = UserOf(m.body)]
            s == [m.body[Summary] EXCEPT ![<<"profile", i>>] = c["name"], ![<<"used", i>>] = TRUE]
<1>1. AreBodies(m.body) /\ IsSummary(m.body[Summary])
  BY DEF IsMem, AreBodies
<1>2. UserOf(m.body) \in Users
  BY <1>1 DEF UserOf, IsSummary
<1>3. IsChar(b) /\ b["owner"] = UserOf(m.body)
  BY <1>2, FieldFacts DEF IsChar
<1>4. c["name"] \in Texts
  BY DEF IsChar
<1>5. IsSummary(s) /\ \A x \in SummaryFields \ {<<"profile", i>>, <<"used", i>>} :
        s[x] = m.body[Summary][x]
  BY <1>1, <1>4, FieldFacts, PlaceFacts DEF IsSummary
<1>6. Imported(m, i, c) = Remade(m, i, b, s)
  <2>1. m.body = [p \in Places |-> m.body[p]] /\ m = [save |-> m.save, body |-> m.body, at |-> m.at]
    BY <1>1 DEF AreBodies, IsMem
  <2>2. [m.body EXCEPT ![i] = b, ![Summary] = s] =
          [p \in Places |-> IF p = i THEN b ELSE IF p = Summary THEN s ELSE m.body[p]]
    BY <2>1, FieldFacts
  <2>3. Imported(m, i, c) = [m EXCEPT !.body = [m.body EXCEPT ![i] = b, ![Summary] = s]]
    BY <2>1, FieldFacts DEF Imported
  <2>. QED
    BY <2>2, <2>3, Zenon DEF Remade
<1>. HIDE DEF b, s
<1>. QED
  BY <1>3, <1>5, <1>6

LEMMA ImportIsEdit ==
  ASSUME NEW m, IsMem(m), NEW i \in Slots, NEW c, IsChar(c)
  PROVE  IsEdit(m, Imported(m, i, c), ImportPlan(i), i)
<1>. DEFINE n == Imported(m, i, c)
            plan == ImportPlan(i)
<1>1. PICK b, s : /\ IsChar(b) /\ IsSummary(s) /\ n = Remade(m, i, b, s)
                  /\ b["owner"] = UserOf(m.body)
                  /\ \A x \in SummaryFields \ {<<"profile", i>>, <<"used", i>>} :
                       s[x] = m.body[Summary][x]
  BY ImportedIs
<1>2. /\ IsMem(n) /\ n.save = m.save
      /\ \A p \in Places : n.body[p] = IF p = i THEN b ELSE IF p = Summary THEN s ELSE m.body[p]
  <2>1. i \in Places /\ HasTypes(i, b)
    BY <1>1, FieldFacts DEF HasTypes
  <2>. QED
    BY <1>1, <2>1, RemadeIsMem
<1>3. /\ Len(plan) = 5
      /\ plan[1] = [kind |-> "sum", place |-> i]
      /\ plan[2] = [kind |-> "body", place |-> i, fields |-> CharFields]
      /\ plan[3] = [kind |-> "sum", place |-> Summary]
      /\ plan[4] = [kind |-> "body", place |-> Summary, fields |-> {<<"profile", i>>}]
      /\ plan[5] = [kind |-> "body", place |-> Summary, fields |-> {<<"used", i>>}]
  BY DEF ImportPlan, SumOf, PartOf
<1>. HIDE DEF n, plan
<1>4. \A j : j \in 1 .. 5 <=> j = 1 \/ j = 2 \/ j = 3 \/ j = 4 \/ j = 5
  OBVIOUS
<1>5. /\ \A j \in 1 .. 5 : plan[j].place \in {i, Summary}
      /\ \A j \in 1 .. 5 : plan[j].kind # "sum" /\ plan[j].place = Summary
                             => plan[j].fields \subseteq EntryOf(i)
  BY <1>3, <1>4, FieldFacts DEF EntryOf
<1>6. Seals(plan, 5, i) /\ Seals(plan, 5, Summary)
  BY <1>3, <1>4 DEF Seals
<1>7. /\ \A x \in CharFields : Covers(plan, 5, i, x)
      /\ Covers(plan, 5, Summary, <<"profile", i>>) /\ Covers(plan, 5, Summary, <<"used", i>>)
  BY <1>3, <1>4 DEF Covers
<1>8. ASSUME NEW p \in Places, NEW x \in Fields(p)
      PROVE  n.body[p][x] = m.body[p][x] \/ Covers(plan, 5, p, x)
  <2>1. CASE p = i
    BY <2>1, <1>7, FieldFacts
  <2>2. CASE p = Summary
    BY <2>2, <1>1, <1>2, <1>7, FieldFacts
  <2>3. CASE p # i /\ p # Summary
    BY <2>3, <1>2
  <2>. QED
    BY <2>1, <2>2, <2>3
<1>9. ASSUME NEW k \in 0 .. 5
      PROVE  /\ Covers(plan, k, Summary, <<"used", i>>) => Covers(plan, k, i, "owner")
             /\ Covers(plan, k, i, "owner") => n.body[i]["owner"] = UserOf(n.body)
  <2>1. ASSUME Covers(plan, k, Summary, <<"used", i>>) PROVE k = 5
    <3>1. PICK j \in 1 .. k : /\ plan[j].kind # "sum" /\ plan[j].place = Summary
                              /\ <<"used", i>> \in plan[j].fields
      BY <2>1 DEF Covers
    <3>2. j \in 1 .. 5 /\ j <= k
      BY <3>1
    <3>3. j # 1 /\ j # 2 /\ j # 3 /\ j # 4
      BY <1>3, <3>1, FieldFacts, PlaceFacts
    <3>. QED
      BY <3>2, <3>3, <1>4
  <2>2. n.body[i]["owner"] = UserOf(n.body)
    BY <1>1, <1>2, FieldFacts, PlaceFacts DEF UserOf
  <2>. QED
    BY <2>1, <2>2, <1>7, FieldFacts
<1>10. IsPlan(plan)
  BY <1>3, <1>5, FieldFacts DEF IsPlan
<1>. QED
  BY <1>2, <1>3, <1>5, <1>6, <1>8, <1>9, <1>10, FieldFacts DEF IsEdit, n, plan

LEMMA RenamedIs ==
  ASSUME NEW m, IsMem(m), NEW i \in Slots, NEW t \in Texts
  PROVE  \E b, s : /\ IsChar(b) /\ IsSummary(s) /\ Renamed(m, i, t) = Remade(m, i, b, s)
                   /\ \A x \in CharFields \ {"name"} : b[x] = m.body[i][x]
                   /\ \A x \in SummaryFields \ {<<"profile", i>>} : s[x] = m.body[Summary][x]
<1>. DEFINE b == [m.body[i] EXCEPT !["name"] = t]
            s == [m.body[Summary] EXCEPT ![<<"profile", i>>] = t]
<1>1. AreBodies(m.body) /\ IsSummary(m.body[Summary]) /\ IsChar(m.body[i])
  BY DEF IsMem, AreBodies
<1>2. IsChar(b) /\ \A x \in CharFields \ {"name"} : b[x] = m.body[i][x]
  BY <1>1, FieldFacts DEF IsChar
<1>3. IsSummary(s) /\ \A x \in SummaryFields \ {<<"profile", i>>} : s[x] = m.body[Summary][x]
  BY <1>1, FieldFacts, PlaceFacts DEF IsSummary
<1>4. Renamed(m, i, t) = Remade(m, i, b, s)
  <2>1. m.body = [p \in Places |-> m.body[p]] /\ m = [save |-> m.save, body |-> m.body, at |-> m.at]
    BY <1>1 DEF AreBodies, IsMem
  <2>2. [m.body EXCEPT ![i] = b, ![Summary] = s] =
          [p \in Places |-> IF p = i THEN b ELSE IF p = Summary THEN s ELSE m.body[p]]
    BY <2>1, FieldFacts
  <2>3. Renamed(m, i, t) = [m EXCEPT !.body = [m.body EXCEPT ![i] = b, ![Summary] = s]]
    BY <2>1, FieldFacts DEF Renamed
  <2>. QED
    BY <2>2, <2>3, Zenon DEF Remade
<1>. HIDE DEF b, s
<1>. QED
  BY <1>2, <1>3, <1>4

LEMMA RenameIsEdit ==
  ASSUME NEW m, IsMem(m), NEW i \in Slots, NEW t \in Texts
  PROVE  IsEdit(m, Renamed(m, i, t), RenamePlan(i), i)
<1>. DEFINE n == Renamed(m, i, t)
            plan == RenamePlan(i)
<1>1. PICK b, s : /\ IsChar(b) /\ IsSummary(s) /\ n = Remade(m, i, b, s)
                  /\ \A x \in CharFields \ {"name"} : b[x] = m.body[i][x]
                  /\ \A x \in SummaryFields \ {<<"profile", i>>} : s[x] = m.body[Summary][x]
  BY RenamedIs
<1>2. /\ IsMem(n) /\ n.save = m.save
      /\ \A p \in Places : n.body[p] = IF p = i THEN b ELSE IF p = Summary THEN s ELSE m.body[p]
  <2>1. i \in Places /\ HasTypes(i, b)
    BY <1>1, FieldFacts DEF HasTypes
  <2>. QED
    BY <1>1, <2>1, RemadeIsMem
<1>3. /\ Len(plan) = 4
      /\ plan[1] = [kind |-> "sum", place |-> i]
      /\ plan[2] = [kind |-> "body", place |-> i, fields |-> {"name"}]
      /\ plan[3] = [kind |-> "sum", place |-> Summary]
      /\ plan[4] = [kind |-> "body", place |-> Summary, fields |-> {<<"profile", i>>}]
  BY DEF RenamePlan, SumOf, PartOf
<1>. HIDE DEF n, plan
<1>4. \A j : j \in 1 .. 4 <=> j = 1 \/ j = 2 \/ j = 3 \/ j = 4
  OBVIOUS
<1>5. /\ \A j \in 1 .. 4 : plan[j].place \in {i, Summary}
      /\ \A j \in 1 .. 4 : plan[j].kind # "sum" /\ plan[j].place = Summary
                             => plan[j].fields \subseteq EntryOf(i)
  BY <1>3, <1>4, FieldFacts DEF EntryOf
<1>6. Seals(plan, 4, i) /\ Seals(plan, 4, Summary)
  BY <1>3, <1>4 DEF Seals
<1>7. Covers(plan, 4, i, "name") /\ Covers(plan, 4, Summary, <<"profile", i>>)
  BY <1>3, <1>4 DEF Covers
<1>8. ASSUME NEW p \in Places, NEW x \in Fields(p)
      PROVE  n.body[p][x] = m.body[p][x] \/ Covers(plan, 4, p, x)
  <2>1. CASE p = i
    BY <2>1, <1>1, <1>2, <1>7, FieldFacts
  <2>2. CASE p = Summary
    BY <2>2, <1>1, <1>2, <1>7, FieldFacts
  <2>3. CASE p # i /\ p # Summary
    BY <2>3, <1>2
  <2>. QED
    BY <2>1, <2>2, <2>3
<1>9. ASSUME NEW k \in 0 .. 4
      PROVE  ~Covers(plan, k, Summary, <<"used", i>>) /\ ~Covers(plan, k, i, "owner")
  <2>1. \A j \in 1 .. k : j \in 1 .. 4
    OBVIOUS
  <2>2. \A j \in 1 .. 4 : ~(/\ plan[j].kind # "sum" /\ plan[j].place = Summary
                            /\ <<"used", i>> \in plan[j].fields)
    BY <1>3, <1>4, FieldFacts, PlaceFacts
  <2>3. \A j \in 1 .. 4 : ~(/\ plan[j].kind # "sum" /\ plan[j].place = i
                            /\ "owner" \in plan[j].fields)
    BY <1>3, <1>4, FieldFacts
  <2>. QED
    BY <2>1, <2>2, <2>3 DEF Covers
<1>10. IsPlan(plan)
  BY <1>3, <1>5, FieldFacts DEF IsPlan
<1>. QED
  BY <1>2, <1>3, <1>5, <1>6, <1>8, <1>9, <1>10, FieldFacts DEF IsEdit, n, plan

LEMMA DlcIsEdit ==
  ASSUME NEW m, IsMem(m), NEW i \in Slots
  PROVE  IsEdit(m, Toggled(m, i), DlcPlan(i), i)
<1>. DEFINE n == Toggled(m, i)
            plan == DlcPlan(i)
            b == [m.body[i] EXCEPT !["dlc"] = ~@]
            s == m.body[Summary]
<1>1. AreBodies(m.body) /\ IsSummary(s) /\ IsChar(m.body[i])
  BY DEF IsMem, AreBodies
<1>2. IsChar(b) /\ \A x \in CharFields \ {"dlc"} : b[x] = m.body[i][x]
  <2>1. (~m.body[i]["dlc"]) \in BOOLEAN
    BY <1>1 DEF IsChar
  <2>. QED
    BY <1>1, <2>1, FieldFacts DEF IsChar
<1>3. n = Remade(m, i, b, s)
  <2>1. m.body = [p \in Places |-> m.body[p]] /\ m = [save |-> m.save, body |-> m.body, at |-> m.at]
    BY <1>1 DEF AreBodies, IsMem
  <2>2. [m.body EXCEPT ![i] = b] =
          [p \in Places |-> IF p = i THEN b ELSE IF p = Summary THEN s ELSE m.body[p]]
    BY <2>1, FieldFacts
  <2>3. n = [m EXCEPT !.body = [m.body EXCEPT ![i] = b]]
    BY <2>1, FieldFacts DEF Toggled
  <2>. QED
    BY <2>2, <2>3, Zenon DEF Remade
<1>4. /\ Len(plan) = 2
      /\ plan[1] = [kind |-> "sum", place |-> i]
      /\ plan[2] = [kind |-> "body", place |-> i, fields |-> {"dlc"}]
  BY DEF DlcPlan, SumOf, PartOf
<1>. HIDE DEF n, plan, b, s
<1>5. /\ IsMem(n) /\ n.save = m.save
      /\ \A p \in Places : n.body[p] = IF p = i THEN b ELSE IF p = Summary THEN s ELSE m.body[p]
  <2>1. i \in Places /\ HasTypes(i, b)
    BY <1>2, FieldFacts DEF HasTypes
  <2>. QED
    BY <1>1, <1>3, <2>1, RemadeIsMem
<1>6. \A j : j \in 1 .. 2 <=> j = 1 \/ j = 2
  OBVIOUS
<1>7. \A j \in 1 .. 2 : plan[j].place = i /\ i # Summary /\ i \in Places
  BY <1>4, <1>6, FieldFacts
<1>8. Seals(plan, 2, i) /\ Covers(plan, 2, i, "dlc")
  BY <1>4, <1>6 DEF Seals, Covers
<1>9. ASSUME NEW p \in Places, NEW x \in Fields(p)
      PROVE  n.body[p][x] = m.body[p][x] \/ Covers(plan, 2, p, x)
  <2>1. CASE p = i
    BY <2>1, <1>2, <1>5, <1>8, FieldFacts
  <2>2. CASE p # i
    BY <2>2, <1>5 DEF s
  <2>. QED
    BY <2>1, <2>2
<1>10. ASSUME NEW k \in 0 .. 2
       PROVE  ~Covers(plan, k, Summary, <<"used", i>>) /\ ~Covers(plan, k, i, "owner")
  <2>1. \A j \in 1 .. k : j \in 1 .. 2
    OBVIOUS
  <2>2. \A j \in 1 .. 2 : ~(/\ plan[j].kind # "sum" /\ plan[j].place = i
                            /\ "owner" \in plan[j].fields)
    BY <1>4, <1>6
  <2>. QED
    BY <1>7, <2>1, <2>2 DEF Covers
<1>11. IsPlan(plan)
  BY <1>4, <1>7 DEF IsPlan
<1>. QED
  BY <1>4, <1>5, <1>7, <1>8, <1>9, <1>10, <1>11 DEF IsEdit, n, plan

LEMMA FacedIs ==
  ASSUME NEW m, IsMem(m), NEW v \in Faces
  PROVE  /\ IsMem(Faced(m, v)) /\ Faced(m, v).save = m.save
         /\ \A p \in Places : \A x \in Fields(p) :
              Faced(m, v).body[p][x] =
                IF p = Summary /\ x = <<"face", 0>> THEN v ELSE m.body[p][x]
         /\ \A i \in Slots : Faced(m, v).body[i] = m.body[i]
         /\ UserOf(Faced(m, v).body) = UserOf(m.body)
<1>. DEFINE n == Faced(m, v)
            s == [m.body[Summary] EXCEPT ![<<"face", 0>>] = v]
<1>1. AreBodies(m.body) /\ IsSummary(m.body[Summary])
  BY DEF IsMem, AreBodies
<1>2. /\ IsSummary(s)
      /\ \A x \in SummaryFields : s[x] = IF x = <<"face", 0>> THEN v ELSE m.body[Summary][x]
  BY <1>1, FieldFacts, PlaceFacts DEF IsSummary
<1>3. n = Remade(m, Summary, s, s)
  <2>1. m.body = [p \in Places |-> m.body[p]] /\ m = [save |-> m.save, body |-> m.body, at |-> m.at]
    BY <1>1 DEF AreBodies, IsMem
  <2>2. [m.body EXCEPT ![Summary] = s] =
          [p \in Places |-> IF p = Summary THEN s ELSE IF p = Summary THEN s ELSE m.body[p]]
    BY <2>1, FieldFacts
  <2>3. n = [m EXCEPT !.body = [m.body EXCEPT ![Summary] = s]]
    BY <2>1, FieldFacts DEF Faced
  <2>. QED
    BY <2>2, <2>3, Zenon DEF Remade
<1>. HIDE DEF n, s
<1>4. /\ IsMem(n) /\ n.save = m.save
      /\ \A p \in Places : n.body[p] = IF p = Summary THEN s ELSE m.body[p]
  <2>1. HasTypes(Summary, s)
    BY <1>2 DEF HasTypes
  <2>2. /\ IsMem(n) /\ n.save = m.save
        /\ \A p \in Places : n.body[p] =
             IF p = Summary THEN s ELSE IF p = Summary THEN s ELSE m.body[p]
    BY <1>2, <1>3, <2>1, RemadeIsMem, FieldFacts
  <2>. QED
    BY <2>2
<1>5. UserOf(n.body) = UserOf(m.body)
  BY <1>2, <1>4, FieldFacts DEF UserOf
<1>. QED
  BY <1>2, <1>4, <1>5, FieldFacts DEF n

LEMMA FaceIsEdit ==
  ASSUME NEW m, IsMem(m), NEW v \in Faces
  PROVE  IsEdit(m, Faced(m, v), FacePlan, Summary)
<1>. DEFINE n == Faced(m, v)
            plan == FacePlan
<1>1. /\ Len(plan) = 2
      /\ plan[1] = [kind |-> "sum", place |-> Summary]
      /\ plan[2] = [kind |-> "body", place |-> Summary, fields |-> {<<"face", 0>>}]
  BY DEF FacePlan, SumOf, PartOf
<1>2. /\ IsMem(n) /\ n.save = m.save
      /\ \A p \in Places : \A x \in Fields(p) :
           n.body[p][x] = IF p = Summary /\ x = <<"face", 0>> THEN v ELSE m.body[p][x]
  BY FacedIs
<1>. HIDE DEF n, plan
<1>3. \A j : j \in 1 .. 2 <=> j = 1 \/ j = 2
  OBVIOUS
<1>4. /\ \A j \in 1 .. 2 : plan[j].place = Summary
      /\ \A j \in 1 .. 2 : plan[j].kind # "sum" => plan[j].fields \subseteq EntryOf(Summary)
  BY <1>1, <1>3 DEF EntryOf
<1>5. Seals(plan, 2, Summary) /\ Covers(plan, 2, Summary, <<"face", 0>>)
  BY <1>1, <1>3 DEF Seals, Covers
<1>6. IsPlan(plan) /\ Summary \in Places /\ Summary \notin Slots
  BY <1>1, <1>4, PlaceFacts DEF IsPlan
<1>. QED
  BY <1>1, <1>2, <1>4, <1>5, <1>6 DEF IsEdit, n, plan

-----------------------------------------------------------------------------
(***************************************************************************)
(* Re-signing.  Its plan is as long as there are used slots: it has the    *)
(* two writes of each used slot, and those of the summary after them all.  *)
(***************************************************************************)
OwnerWrites(used) == {SumOf(i) : i \in used} \cup {PartOf(i, {"owner"}) : i \in used}

WithOwner(used, i, s) == IF i \in used THEN s \o <<SumOf(i), PartOf(i, {"owner"})>> ELSE s

Lists(s, used, i) ==
  /\ s \in Seq(OwnerWrites(used))
  /\ \A j \in used : j <= i =>
       /\ \E n \in 1 .. Len(s) : s[n] = SumOf(j)
       /\ \E n \in 1 .. Len(s) : s[n] = PartOf(j, {"owner"})

LEMMA WithOwnerLists ==
  ASSUME NEW used, used \subseteq Nat, NEW i \in Nat, NEW s, Lists(s, used, i)
  PROVE  Lists(WithOwner(used, i + 1, s), used, i + 1)
<1>1. s \in Seq(OwnerWrites(used)) /\ Len(s) \in Nat
  BY DEF Lists
<1>2. CASE i + 1 \in used
  <2>. DEFINE a == SumOf(i + 1)
              b == PartOf(i + 1, {"owner"})
              t == s \o <<a, b>>
  <2>1. a \in OwnerWrites(used) /\ b \in OwnerWrites(used)
    BY <1>2 DEF OwnerWrites
  <2>. HIDE DEF a, b
  <2>2. /\ t \in Seq(OwnerWrites(used)) /\ Len(t) = Len(s) + 2
        /\ \A n \in 1 .. Len(s) : t[n] = s[n]
        /\ t[Len(s) + 1] = a /\ t[Len(s) + 2] = b
    BY <1>1, <2>1
  <2>3. \A n \in 1 .. Len(s) : n \in 1 .. Len(t)
    BY <1>1, <2>2
  <2>4. Len(s) + 1 \in 1 .. Len(t) /\ Len(s) + 2 \in 1 .. Len(t)
    BY <1>1, <2>2
  <2>. HIDE DEF t
  <2>5. ASSUME NEW j \in used, j <= i + 1
        PROVE  /\ \E n \in 1 .. Len(t) : t[n] = SumOf(j)
               /\ \E n \in 1 .. Len(t) : t[n] = PartOf(j, {"owner"})
    <3>1. CASE j <= i
      <4>1. /\ \E n \in 1 .. Len(s) : s[n] = SumOf(j)
            /\ \E n \in 1 .. Len(s) : s[n] = PartOf(j, {"owner"})
        BY <3>1 DEF Lists
      <4>. QED
        BY <4>1, <2>2, <2>3
    <3>2. CASE ~(j <= i)
      <4>1. j = i + 1
        BY <2>5, <3>2
      <4>. QED
        BY <4>1, <2>2, <2>4 DEF a, b
    <3>. QED
      BY <3>1, <3>2
  <2>6. WithOwner(used, i + 1, s) = t
    BY <1>2 DEF WithOwner, t, a, b
  <2>. QED
    BY <2>2, <2>5, <2>6 DEF Lists
<1>3. CASE i + 1 \notin used
  <2>1. \A j \in used : j <= i + 1 => j <= i
    BY <1>3
  <2>. QED
    BY <1>3, <2>1 DEF Lists, WithOwner
<1>. QED
  BY <1>2, <1>3

\* The writes up to a slot exist, for each slot.
UpTo(used, N, g) == g = [i \in 0 .. N |-> IF i = 0 THEN <<>> ELSE WithOwner(used, i, g[i - 1])]

LEMMA UpToExists ==
  ASSUME NEW used, NEW N \in Nat
  PROVE  \E g : UpTo(used, N, g)
<1>. DEFINE T == {n \in Nat : ~\E g : UpTo(used, n, g)}
<1>1. SUFFICES ASSUME T # {} PROVE FALSE
  OBVIOUS
<1>2. PICK n \in T : \A k \in T : n <= k
  BY <1>1, SmallestNumber
<1>3. n # 0
  <2>. DEFINE g == [i \in 0 .. 0 |-> <<>>]
  <2>1. UpTo(used, 0, g)
    BY DEF UpTo
  <2>. QED
    BY <1>2, <2>1
<1>4. n - 1 \in Nat /\ n - 1 \notin T
  BY <1>2, <1>3
<1>5. PICK g : UpTo(used, n - 1, g)
  BY <1>4
<1>. DEFINE h == [i \in 0 .. n |-> IF i = n THEN WithOwner(used, n, g[n - 1]) ELSE g[i]]
<1>6. \A i \in 0 .. n - 1 : g[i] = IF i = 0 THEN <<>> ELSE WithOwner(used, i, g[i - 1])
  BY <1>5 DEF UpTo
<1>7. ASSUME NEW i \in 0 .. n
      PROVE  h[i] = IF i = 0 THEN <<>> ELSE WithOwner(used, i, h[i - 1])
  <2>1. CASE i = n
    BY <2>1, <1>3, <1>4
  <2>2. CASE i # n /\ i # 0
    <3>1. i \in 0 .. n - 1 /\ i - 1 \in 0 .. n /\ i - 1 # n
      BY <2>2, <1>4
    <3>. QED
      BY <2>2, <3>1, <1>6
  <2>3. CASE i = 0 /\ i # n
    BY <2>3, <1>4, <1>6
  <2>. QED
    BY <2>1, <2>2, <2>3
<1>8. UpTo(used, n, h)
  <2>1. h = [i \in 0 .. n |-> h[i]]
    OBVIOUS
  <2>. HIDE DEF h
  <2>. QED
    BY <1>7, <2>1 DEF UpTo
<1>. QED
  BY <1>2, <1>8

LEMMA UpToLists ==
  ASSUME NEW used, used \subseteq Nat \ {0}, NEW N \in Nat, NEW g, UpTo(used, N, g)
  PROVE  Lists(g[N], used, N)
<1>. DEFINE T == {n \in 0 .. N : ~Lists(g[n], used, n)}
<1>1. SUFFICES ASSUME T # {} PROVE FALSE
  OBVIOUS
<1>2. PICK n \in T : \A k \in T : n <= k
  <2>1. T \subseteq Nat
    OBVIOUS
  <2>. QED
    BY <1>1, <2>1, SmallestNumber
<1>3. \A i \in 0 .. N : g[i] = IF i = 0 THEN <<>> ELSE WithOwner(used, i, g[i - 1])
  BY DEF UpTo
<1>4. Lists(<<>>, used, 0)
  BY DEF Lists
<1>5. n # 0
  BY <1>2, <1>3, <1>4
<1>6. n - 1 \in Nat /\ n - 1 \in 0 .. N /\ n - 1 \notin T /\ (n - 1) + 1 = n
  BY <1>2, <1>5
<1>7. Lists(g[n - 1], used, n - 1) /\ used \subseteq Nat
  BY <1>6
<1>8. Lists(WithOwner(used, (n - 1) + 1, g[n - 1]), used, (n - 1) + 1)
  BY <1>6, <1>7, WithOwnerLists, Zenon
<1>. QED
  BY <1>2, <1>3, <1>5, <1>6, <1>8

LEMMA OwnersPlanLists ==
  ASSUME NEW m
  PROVE  /\ OwnersPlan(m) \in Seq(OwnerWrites(UsedSlots(m.body)))
         /\ \A j \in UsedSlots(m.body) :
              /\ \E n \in 1 .. Len(OwnersPlan(m)) : OwnersPlan(m)[n] = SumOf(j)
              /\ \E n \in 1 .. Len(OwnersPlan(m)) : OwnersPlan(m)[n] = PartOf(j, {"owner"})
<1>. DEFINE used == UsedSlots(m.body)
            N == Cardinality(Slots)
            Step(h) == [i \in Slots \cup {0} |->
                         IF i = 0 THEN <<>>
                         ELSE IF i \in UsedSlots(m.body)
                                THEN h[i - 1] \o <<SumOf(i), PartOf(i, {"owner"})>>
                         ELSE h[i - 1]]
            upTo == CHOOSE h : h = Step(h)
<1>1. N \in Nat /\ Slots = 1 .. N
  BY SaveEditorAssumption, FS_CardinalityType
<1>2. Slots \cup {0} = 0 .. N /\ used \subseteq Nat \ {0} /\ used \subseteq 1 .. N
  BY <1>1 DEF UsedSlots
<1>3. (CHOOSE i \in Slots \cup {0} : i + 1 \notin Slots) = N
  <2>1. N \in Slots \cup {0} /\ N + 1 \notin Slots
    BY <1>1, <1>2
  <2>2. \A i \in Slots \cup {0} : i + 1 \notin Slots => i = N
    BY <1>1, <1>2
  <2>. QED
    BY <2>1, <2>2
<1>4. OwnersPlan(m) = upTo[N]
  BY <1>3 DEF OwnersPlan
<1>5. \A h : h = Step(h) <=> UpTo(used, N, h)
  <2>. HIDE DEF N
  <2>1. \A h : Step(h) = [i \in 0 .. N |-> IF i = 0 THEN <<>> ELSE WithOwner(used, i, h[i - 1])]
    BY <1>2 DEF WithOwner
  <2>. QED
    BY <2>1 DEF UpTo
<1>6. UpTo(used, N, upTo)
  <2>1. \E h : h = Step(h)
    BY <1>1, <1>5, UpToExists, Zenon
  <2>2. upTo = Step(upTo)
    <3>. HIDE DEF Step
    <3>. QED
      BY <2>1
  <2>. HIDE DEF Step, upTo, N
  <2>. QED
    BY <1>5, <2>2
<1>. HIDE DEF upTo, N, Step
<1>7. Lists(upTo[N], used, N)
  BY <1>1, <1>2, <1>6, UpToLists, Zenon
<1>. QED
  BY <1>1, <1>2, <1>4, <1>7 DEF Lists

LEMMA ResignedIs ==
  ASSUME NEW m, IsMem(m), NEW u \in Users
  PROVE  /\ IsMem(Resigned(m, u)) /\ Resigned(m, u).save = m.save
         /\ \A p \in Places : \A x \in Fields(p) :
              Resigned(m, u).body[p][x] =
                IF (p = Summary /\ x = <<"user", 0>>) \/ (p \in UsedSlots(m.body) /\ x = "owner")
                  THEN u ELSE m.body[p][x]
<1>. DEFINE used == UsedSlots(m.body)
            bs == [p \in Places |->
                    IF p = Summary THEN [m.body[p] EXCEPT ![<<"user", 0>>] = u]
                    ELSE IF p \in used THEN [m.body[p] EXCEPT !["owner"] = u] ELSE m.body[p]]
            n == [save |-> m.save, body |-> bs, at |-> m.at]
<1>1. m = [save |-> m.save, body |-> m.body, at |-> m.at] /\ AreBodies(m.body)
  BY DEF IsMem
<1>2. Resigned(m, u) = n
  BY <1>1 DEF Resigned
<1>3. used \subseteq Slots
  BY DEF UsedSlots
<1>. HIDE DEF used
<1>4. ASSUME NEW p \in Places
      PROVE  /\ HasTypes(p, bs[p])
             /\ \A x \in Fields(p) :
                  bs[p][x] = IF (p = Summary /\ x = <<"user", 0>>) \/ (p \in used /\ x = "owner")
                               THEN u ELSE m.body[p][x]
  <2>1. CASE p = Summary
    <3>1. IsSummary(m.body[p]) /\ bs[p] = [m.body[p] EXCEPT ![<<"user", 0>>] = u] /\ p \notin used
      BY <1>1, <1>3, <2>1, PlaceFacts DEF AreBodies
    <3>2. IsSummary(bs[p])
      BY <3>1, FieldFacts, PlaceFacts DEF IsSummary
    <3>3. \A x \in SummaryFields : bs[p][x] = IF x = <<"user", 0>> THEN u ELSE m.body[p][x]
      BY <3>1 DEF IsSummary
    <3>. QED
      BY <2>1, <3>1, <3>2, <3>3, FieldFacts DEF HasTypes
  <2>2. CASE p # Summary /\ p \in used
    <3>1. IsChar(m.body[p]) /\ bs[p] = [m.body[p] EXCEPT !["owner"] = u]
      BY <1>1, <1>3, <2>2 DEF AreBodies
    <3>2. IsChar(bs[p])
      BY <3>1, FieldFacts DEF IsChar
    <3>3. \A x \in CharFields : bs[p][x] = IF x = "owner" THEN u ELSE m.body[p][x]
      BY <3>1 DEF IsChar
    <3>. QED
      BY <1>3, <2>2, <3>1, <3>2, <3>3, FieldFacts DEF HasTypes
  <2>3. CASE p # Summary /\ p \notin used
    BY <1>1, <2>3, BodiesByPlace
  <2>. QED
    BY <2>1, <2>2, <2>3
<1>5. AreBodies(bs)
  <2>1. bs = [p \in Places |-> bs[p]]
    OBVIOUS
  <2>. HIDE DEF bs
  <2>. QED
    BY <1>4, <2>1, BodiesByPlace
<1>. HIDE DEF bs
<1>6. n.save = m.save /\ n.body = bs /\ n.at = m.at
  OBVIOUS
<1>7. IsMem(n)
  BY <1>5, <1>6 DEF IsMem, AtHome
<1>. HIDE DEF n
<1>. QED
  BY <1>2, <1>4, <1>6, <1>7, Zenon DEF used

LEMMA ResignPlanIs ==
  ASSUME NEW m
  PROVE  LET used == UsedSlots(m.body)
             plan == ResignPlan(m)
         IN  /\ IsPlan(plan)
             /\ \A j \in 1 .. Len(plan) : Seals(plan, Len(plan), plan[j].place)
             /\ \A i \in used : Covers(plan, Len(plan), i, "owner")
             /\ Covers(plan, Len(plan), Summary, <<"user", 0>>)
             /\ \A k \in 0 .. Len(plan) : \A x : Covers(plan, k, Summary, x) =>
                  /\ x = <<"user", 0>>
                  /\ \A i \in used : Covers(plan, k, i, "owner")
             /\ \A k \in 0 .. Len(plan) : \A i \in Slots : \A x :
                  Covers(plan, k, i, x) => i \in used /\ x = "owner"
<1>. DEFINE used == UsedSlots(m.body)
            s == OwnersPlan(m)
            W == OwnerWrites(used)
            plan == ResignPlan(m)
            N == Len(s)
<1>1. /\ s \in Seq(W) /\ N \in Nat
      /\ \A j \in used : /\ \E n \in 1 .. N : s[n] = SumOf(j)
                         /\ \E n \in 1 .. N : s[n] = PartOf(j, {"owner"})
  <2>. HIDE DEF s
  <2>1. s \in Seq(W)
    BY OwnersPlanLists DEF s
  <2>. QED
    BY <2>1, OwnersPlanLists DEF s
<1>2. used \subseteq Slots
  BY DEF UsedSlots
<1>3. \A w \in W : /\ w.place \in used
                   /\ w.kind # "sum" => w.fields = {"owner"}
                   /\ w = SumOf(w.place) \/ w = PartOf(w.place, {"owner"})
  BY DEF OwnerWrites, SumOf, PartOf
<1>4. plan = s \o <<SumOf(Summary), PartOf(Summary, {<<"user", 0>>})>>
  BY DEF ResignPlan, UserPlan
<1>. HIDE DEF s, W, used, plan
<1>5. /\ Len(plan) = N + 2
      /\ \A n \in 1 .. N : plan[n] = s[n] /\ s[n] \in W
      /\ plan[N + 1] = SumOf(Summary) /\ plan[N + 2] = PartOf(Summary, {<<"user", 0>>})
  <2>. DEFINE a == SumOf(Summary)
              b == PartOf(Summary, {<<"user", 0>>})
  <2>. HIDE DEF a, b
  <2>1. plan = s \o <<a, b>>
    BY <1>4 DEF a, b
  <2>2. /\ Len(plan) = N + 2 /\ \A n \in 1 .. N : plan[n] = s[n] /\ s[n] \in W
        /\ plan[N + 1] = a /\ plan[N + 2] = b
    BY <1>1, <2>1
  <2>. QED
    BY <2>2 DEF a, b
<1>. HIDE DEF N
<1>6. \A j \in 1 .. Len(plan) : j \in 1 .. N \/ j = N + 1 \/ j = N + 2
  BY <1>1, <1>5
<1>7. /\ \A j \in 1 .. N : j \in 1 .. Len(plan)
      /\ N + 1 \in 1 .. Len(plan) /\ N + 2 \in 1 .. Len(plan) /\ Len(plan) \in Nat
  BY <1>1, <1>5
<1>8. /\ plan[N + 1].kind = "sum" /\ plan[N + 1].place = Summary
      /\ plan[N + 2].kind # "sum" /\ plan[N + 2].place = Summary
      /\ plan[N + 2].fields = {<<"user", 0>>}
  BY <1>5 DEF SumOf, PartOf
<1>9. \A i \in used : Seals(plan, Len(plan), i) /\ \A k \in Nat : k >= N => Covers(plan, k, i, "owner")
  <2>. SUFFICES ASSUME NEW i \in used
                PROVE  /\ Seals(plan, Len(plan), i)
                       /\ \A k \in Nat : k >= N => Covers(plan, k, i, "owner")
    OBVIOUS
  <2>1. PICK j \in 1 .. N : s[j] = SumOf(i)
    BY <1>1
  <2>2. PICK n \in 1 .. N : s[n] = PartOf(i, {"owner"})
    BY <1>1
  <2>3. Seals(plan, Len(plan), i)
    BY <1>5, <1>7, <2>1 DEF Seals, SumOf
  <2>4. plan[n].kind # "sum" /\ plan[n].place = i /\ "owner" \in plan[n].fields
    BY <1>5, <2>2 DEF PartOf
  <2>5. \A k \in Nat : k >= N => n \in 1 .. k
    BY <1>1, <2>2
  <2>. QED
    BY <2>3, <2>4, <2>5 DEF Covers
<1>10. Seals(plan, Len(plan), Summary) /\ Covers(plan, Len(plan), Summary, <<"user", 0>>)
  BY <1>7, <1>8 DEF Seals, Covers
<1>11. \A j \in 1 .. N : plan[j].place \in used /\ (plan[j].kind # "sum" => plan[j].fields = {"owner"})
  BY <1>3, <1>5
<1>12. IsPlan(plan)
  BY <1>2, <1>6, <1>7, <1>8, <1>11, FieldFacts DEF IsPlan
<1>13. \A j \in 1 .. Len(plan) : Seals(plan, Len(plan), plan[j].place)
  BY <1>6, <1>8, <1>9, <1>10, <1>11
<1>14. ASSUME NEW k \in 0 .. Len(plan), NEW x, Covers(plan, k, Summary, x)
       PROVE  x = <<"user", 0>> /\ \A i \in used : Covers(plan, k, i, "owner")
  <2>1. PICK j \in 1 .. k : plan[j].kind # "sum" /\ plan[j].place = Summary /\ x \in plan[j].fields
    BY <1>14 DEF Covers
  <2>2. j \in 1 .. Len(plan) /\ k \in Nat /\ j <= k
    BY <1>7, <2>1
  <2>3. j \notin 1 .. N
    BY <1>2, <1>11, <2>1, PlaceFacts
  <2>4. j = N + 2
    BY <1>6, <1>8, <2>1, <2>2, <2>3
  <2>5. k >= N
    BY <1>1, <2>2, <2>4
  <2>. QED
    BY <1>8, <1>9, <2>1, <2>2, <2>4, <2>5
<1>15. ASSUME NEW k \in 0 .. Len(plan), NEW i \in Slots, NEW x, Covers(plan, k, i, x)
       PROVE  i \in used /\ x = "owner"
  <2>1. PICK j \in 1 .. k : plan[j].kind # "sum" /\ plan[j].place = i /\ x \in plan[j].fields
    BY <1>15 DEF Covers
  <2>2. j \in 1 .. Len(plan)
    BY <1>7, <2>1
  <2>3. j \in 1 .. N
    BY <1>6, <1>8, <2>1, <2>2, PlaceFacts
  <2>. QED
    BY <1>11, <2>1, <2>3
<1>16. \A i \in used : Covers(plan, Len(plan), i, "owner")
  BY <1>1, <1>5, <1>7, <1>9
<1>. QED
  BY <1>10, <1>12, <1>13, <1>14, <1>15, <1>16 DEF used, plan

-----------------------------------------------------------------------------
(***************************************************************************)
(* Carrying a plan out.                                                    *)
(***************************************************************************)
\* A save is loaded; the face dialog is not open without one.
MemInv == Held => IsMem(mem) /\ IsFile(disk[mem.save])

\* The file after k writes, and what else is set then.
Result(n, plan, slot, k) ==
  /\ disk' = [disk EXCEPT ![n.save] = After(disk[n.save], n, plan, k)]
  /\ mem' = n
  /\ faults' = IF k < Len(plan) THEN faults + 1 ELSE faults
  /\ k < Len(plan) => faults < MaxFaults
  /\ commands < MaxCommands /\ commands' = commands + 1
  /\ rows' = IF k = Len(plan) \/ slot = None THEN Refreshed(n, slot) ELSE rows
  /\ clean' = (k = Len(plan) /\ (slot # None => clean))
  /\ sealed' = (IF slot # None THEN sealed ELSE {}) \cup Touched(n, plan)
  /\ edited' = [save |-> n.save, slot |-> slot]

LEMMA CarriedOutIs ==
  ASSUME NEW n, NEW plan, NEW slot, IsDisk(disk), IsMem(n), IsFile(disk[n.save]), IsPlan(plan),
         CarriedOut(n, plan, slot)
  PROVE  \E k \in 0 .. Len(plan) : Result(n, plan, slot, k)
<1>1. PICK k \in 0 .. Len(plan) :
        /\ k < Len(plan) => faults < MaxFaults
        /\ faults' = IF k < Len(plan) THEN faults + 1 ELSE faults
        /\ commands < MaxCommands /\ commands' = commands + 1
        /\ disk' = [disk EXCEPT ![n.save] = Written(@, n, plan, k)]
        /\ mem' = n
        /\ rows' = IF k = Len(plan) \/ slot = None THEN Refreshed(n, slot) ELSE rows
        /\ clean' = (k = Len(plan) /\ (slot # None => clean))
        /\ sealed' = (IF slot # None THEN sealed ELSE {}) \cup Touched(n, plan)
        /\ edited' = [save |-> n.save, slot |-> slot]
  BY Zenon DEF CarriedOut
<1>2. Shaped(disk[n.save]) /\ AtHome(n)
  BY FileFields DEF IsMem
<1>3. k \in Nat /\ k <= Len(plan)
  BY DEF IsPlan
<1>4. Written(disk[n.save], n, plan, k) = After(disk[n.save], n, plan, k)
  BY <1>2, <1>3, WrittenIs, Zenon
<1>5. disk' = [disk EXCEPT ![n.save] = After(disk[n.save], n, plan, k)]
  BY <1>1, <1>4
<1>. QED
  BY <1>1, <1>5, Zenon DEF Result

LEMMA ResultFile ==
  ASSUME NEW n, NEW plan, NEW slot, NEW k, IsDisk(disk), IsMem(n), IsFile(disk[n.save]),
         Result(n, plan, slot, k)
  PROVE  /\ IsDisk(disk') /\ IsFile(disk'[n.save])
         /\ disk'[n.save] = After(disk[n.save], n, plan, k)
         /\ \A s \in Saves \ {n.save} : disk'[s] = disk[s]
         /\ \A p \in Places :
              /\ \A x \in Fields(p) :
                   disk'[n.save][p].body[x] =
                     IF Covers(plan, k, p, x) THEN n.body[p][x] ELSE disk[n.save][p].body[x]
              /\ disk'[n.save][p].sum =
                   IF Seals(plan, k, p) THEN n.body[p] ELSE disk[n.save][p].sum
<1>. DEFINE g == After(disk[n.save], n, plan, k)
<1>1. /\ IsFile(g)
      /\ \A p \in Places :
           /\ \A x \in Fields(p) :
                g[p].body[x] = IF Covers(plan, k, p, x) THEN n.body[p][x] ELSE disk[n.save][p].body[x]
           /\ g[p].sum = IF Seals(plan, k, p) THEN n.body[p] ELSE disk[n.save][p].sum
  BY AfterIsFile
<1>2. n.save \in Saves /\ disk = [s \in Saves |-> disk[s]]
  BY DEF IsMem, IsDisk
<1>3. disk' = [disk EXCEPT ![n.save] = g]
  BY DEF Result
<1>. HIDE DEF g
<1>4. disk'[n.save] = g /\ \A s \in Saves \ {n.save} : disk'[s] = disk[s]
  BY <1>2, <1>3
<1>5. disk' = [s \in Saves |-> disk'[s]]
  BY <1>2, <1>3
<1>6. \A s \in Saves : disk'[s] # None => IsFile(disk'[s])
  BY <1>1, <1>4 DEF IsDisk
<1>7. IsDisk(disk')
  BY <1>5, <1>6 DEF IsDisk
<1>. QED
  BY <1>1, <1>4, <1>7 DEF g

\* Two bodies of a place that agree on its fields.
LEMMA SameBody ==
  ASSUME NEW p \in Places, NEW b, NEW c, HasTypes(p, b), HasTypes(p, c),
         \A x \in Fields(p) : b[x] = c[x]
  PROVE  b = c
BY FieldFacts DEF HasTypes, IsSummary, IsChar, Fields

LEMMA BodyTypes ==
  /\ \A m : IsMem(m) => \A p \in Places : HasTypes(p, m.body[p])
  /\ \A f : IsFile(f) => \A p \in Places : HasTypes(p, f[p].body) /\ HasTypes(p, f[p].sum)
<1>1. ASSUME NEW m, IsMem(m) PROVE \A p \in Places : HasTypes(p, m.body[p])
  BY <1>1, BodiesByPlace DEF IsMem
<1>2. ASSUME NEW f, IsFile(f)
      PROVE  \A p \in Places : HasTypes(p, f[p].body) /\ HasTypes(p, f[p].sum)
  <2>1. AreBodies(Bodies(f)) /\ AreBodies(Sums(f))
    BY <1>2 DEF IsFile
  <2>2. \A p \in Places : f[p].body = Bodies(f)[p] /\ f[p].sum = Sums(f)[p]
    BY DEF Bodies, Sums
  <2>. QED
    BY <2>1, <2>2, BodiesByPlace
<1>. QED
  BY <1>1, <1>2

\* The bodies of a file are those of memory; what changed in memory is written; what is
\* written is sealed; the checksums of some places are right.
SameBodies(f, m)    == \A p \in Places : f[p].body = m.body[p]
Writes(plan, m, n)  == \A p \in Places : \A x \in Fields(p) :
                         n.body[p][x] = m.body[p][x] \/ Covers(plan, Len(plan), p, x)
SealsAll(plan)      == \A j \in 1 .. Len(plan) : Seals(plan, Len(plan), plan[j].place)
SumsRight(f, D)     == \A p \in D : f[p].sum = f[p].body

\* What is written has the bodies of memory, all with their checksums, when the rest of the
\* file had them and the plan is carried out.
LEMMA WholeResult ==
  ASSUME NEW m, NEW n, NEW plan, NEW slot, IsDisk(disk), IsMem(n), IsFile(disk[n.save]),
         IsPlan(plan),
         Result(n, plan, slot, Len(plan)),
         SameBodies(disk[n.save], m), Writes(plan, m, n), SealsAll(plan),
         NEW D, SumsRight(disk[n.save], D)
  PROVE  \A p \in Places :
           /\ disk'[n.save][p].body = n.body[p]
           /\ p \in D \cup Touched(n, plan) => disk'[n.save][p].sum = disk'[n.save][p].body
<1>. SUFFICES ASSUME NEW p \in Places
              PROVE  /\ disk'[n.save][p].body = n.body[p]
                     /\ p \in D \cup Touched(n, plan) =>
                          disk'[n.save][p].sum = disk'[n.save][p].body
  OBVIOUS
<1>. DEFINE k == Len(plan)
            g == disk'[n.save]
            f == disk[n.save]
<1>1. /\ IsFile(g)
      /\ \A x \in Fields(p) : g[p].body[x] = IF Covers(plan, k, p, x) THEN n.body[p][x] ELSE f[p].body[x]
      /\ g[p].sum = IF Seals(plan, k, p) THEN n.body[p] ELSE f[p].sum
  BY ResultFile
<1>. HIDE DEF g, k
<1>2. \A x \in Fields(p) : g[p].body[x] = n.body[p][x]
  BY <1>1 DEF k, SameBodies, Writes
<1>3. g[p].body = n.body[p]
  <2>1. HasTypes(p, g[p].body) /\ HasTypes(p, n.body[p])
    BY <1>1, BodyTypes
  <2>. QED
    BY <1>2, <2>1, SameBody, Zenon
<1>4. ASSUME p \in D \cup Touched(n, plan) PROVE g[p].sum = g[p].body
  <2>1. CASE Seals(plan, k, p)
    BY <1>1, <1>3, <2>1
  <2>2. CASE ~Seals(plan, k, p)
    <3>1. \A j \in 1 .. Len(plan) : plan[j].place # p
      BY <2>2 DEF k, SealsAll
    <3>2. \A x : ~Covers(plan, k, p, x)
      BY <3>1 DEF Covers, k
    <3>3. p \notin Touched(n, plan)
      <4>1. DOMAIN plan = 1 .. Len(plan)
        BY DEF IsPlan
      <4>2. \A j \in 1 .. Len(plan) : Target(n, plan[j].place) = plan[j].place
        BY PlaceFacts DEF Target, IsMem, AtHome, IsPlan
      <4>. QED
        BY <3>1, <4>1, <4>2 DEF Touched
    <3>4. f[p].sum = f[p].body
      BY <1>4, <3>3 DEF SumsRight
    <3>5. \A x \in Fields(p) : g[p].body[x] = f[p].body[x]
      BY <1>1, <3>2
    <3>6. HasTypes(p, g[p].body) /\ HasTypes(p, f[p].body)
      BY <1>1, BodyTypes
    <3>7. g[p].body = f[p].body
      BY <3>5, <3>6, SameBody, Zenon
    <3>. QED
      BY <1>1, <2>2, <3>4, <3>7
  <2>. QED
    BY <2>1, <2>2
<1>. QED
  BY <1>3, <1>4 DEF g

-----------------------------------------------------------------------------
(***************************************************************************)
(* What an edit keeps.                                                     *)
(***************************************************************************)
LEMMA SavePair ==
  ASSUME NEW s \in Saves
  PROVE  /\ <<s[1], s[2]>> = s /\ s[1] \in Roots /\ s[2] \in Names
         /\ s[2] \in Entries(s[1]) /\ FolderUser[s[2]] \in Users
BY SaveEditorAssumption DEF Saves

\* The Steam ID and the used slots of a file.
UserIn(f)    == f[Summary].body[<<"user", 0>>]
IsUsed(f, i) == f[Summary].body[<<"used", i>>]
Owned(f, u)  == UserIn(f) = u => \A i \in Slots : IsUsed(f, i) => f[i].body["owner"] = u

LEMMA InFile ==
  ASSUME NEW f
  PROVE  UserOf(Bodies(f)) = UserIn(f) /\ UsedSlots(Bodies(f)) = {i \in Slots : IsUsed(f, i)}
BY FieldFacts DEF UserOf, UsedSlots, Bodies, UserIn, IsUsed

\* The loaded save has its folder's Steam ID, or its file does not.
OwnerKnown ==
  Held => UserOf(mem.body) = FolderUser[mem.save[2]]
            \/ UserIn(disk[mem.save]) # FolderUser[mem.save[2]]

\* OwnersFollowSummary, and the same for the save that is loaded.
OwnersHeld ==
  \A s \in Saves : disk[s] # None \/ (Held /\ mem.save = s) => Owned(disk[s], FolderUser[s[2]])

LEMMA MismatchIs ==
  ASSUME NEW s \in Saves
  PROVE  Mismatch(s[1], s[2]) <=> UserIn(disk[s]) # FolderUser[s[2]]
BY SavePair, InFile DEF Mismatch

LEMMA HeldAreFollowed == OwnersHeld => OwnersFollowSummary
<1>. SUFFICES ASSUME OwnersHeld, NEW s \in Saves, disk[s] # None, ~Mismatch(s[1], s[2]),
                     NEW i \in UsedSlots(Bodies(disk[s]))
              PROVE  disk[s][i].body["owner"] = FolderUser[s[2]]
  BY DEF OwnersFollowSummary
<1>1. i \in Slots /\ IsUsed(disk[s], i)
  BY InFile
<1>2. UserIn(disk[s]) = FolderUser[s[2]]
  BY MismatchIs
<1>. QED
  BY <1>1, <1>2 DEF OwnersHeld, Owned

\* MemoryIsTheSave, of what is held.
MemoryHeld ==
  Held /\ clean =>
    \A p \in Places : LET q == Target(mem, p) IN
      /\ disk[mem.save][q].body = mem.body[p]
      /\ q \in sealed => disk[mem.save][q].sum = disk[mem.save][q].body

LEMMA EditKeepsMemory ==
  ASSUME MemInv, IsDisk(disk), Held, MemoryHeld, NEW n, NEW plan, NEW slot,
         IsEdit(mem, n, plan, slot), NEW k \in 0 .. Len(plan), Result(n, plan, slot, k)
  PROVE  MemoryHeld'
<1>1. /\ IsMem(n) /\ n.save = mem.save /\ IsFile(disk[n.save]) /\ IsMem(mem) /\ IsPlan(plan)
      /\ slot # None
  BY PlaceFacts DEF IsEdit, MemInv
<1>2. SUFFICES ASSUME clean'
               PROVE  \A p \in Places : LET q == Target(n, p) IN
                        /\ disk'[n.save][q].body = n.body[p]
                        /\ q \in sealed' => disk'[n.save][q].sum = disk'[n.save][q].body
  BY DEF MemoryHeld, Result
<1>3. k = Len(plan) /\ clean /\ sealed' = sealed \cup Touched(n, plan)
  BY <1>1, <1>2 DEF Result
<1>4. \A p \in Places : Target(mem, p) = p /\ Target(n, p) = p
  BY <1>1, PlaceFacts DEF Target, IsMem, AtHome
<1>. DEFINE D == sealed \cap Places
<1>5. SameBodies(disk[n.save], mem) /\ SumsRight(disk[n.save], D)
  BY <1>1, <1>3, <1>4 DEF MemoryHeld, SameBodies, SumsRight
<1>6. Writes(plan, mem, n) /\ SealsAll(plan)
  BY DEF IsEdit, Writes, SealsAll
<1>7. Result(n, plan, slot, Len(plan))
  BY <1>3
<1>. HIDE DEF D
<1>8. \A p \in Places :
        /\ disk'[n.save][p].body = n.body[p]
        /\ p \in D \cup Touched(n, plan) => disk'[n.save][p].sum = disk'[n.save][p].body
  BY <1>1, <1>5, <1>6, <1>7, WholeResult
<1>. QED
  BY <1>3, <1>4, <1>8 DEF D

\* The rows: what the edit writes is in its own slot.
LEMMA EditKeepsRows ==
  ASSUME MemInv, Held, NEW n, NEW plan, NEW slot, IsEdit(mem, n, plan, slot),
         NEW k \in 0 .. Len(plan), Result(n, plan, slot, k), clean',
         clean => \A i \in Slots : rows[i] = Row(mem, i)
  PROVE  \A i \in Slots : rows'[i] = Row(n, i)
<1>1. slot # None /\ slot \in Places
  BY PlaceFacts DEF IsEdit
<1>2. k = Len(plan) /\ clean /\ rows' = Refreshed(n, slot)
  BY <1>1 DEF Result
<1>. SUFFICES ASSUME NEW i \in Slots PROVE rows'[i] = Row(n, i)
  OBVIOUS
<1>3. rows'[i] = IF i = slot THEN Row(n, i) ELSE Row(mem, i)
  BY <1>1, <1>2, PlaceFacts DEF Refreshed
<1>4. CASE i = slot
  BY <1>3, <1>4
<1>5. CASE i # slot
  <2>1. \A x \in CharFields : n.body[i][x] = mem.body[i][x]
    <3>1. i \in Places \ {slot, Summary} /\ Fields(i) = CharFields
      BY <1>5, FieldFacts
    <3>2. Len(plan) \in 0 .. Len(plan)
      BY <1>2
    <3>3. \A x : ~Covers(plan, Len(plan), i, x)
      BY <3>1, <3>2, EditFrame
    <3>. QED
      BY <3>1, <3>3 DEF IsEdit
  <2>2. n.body[Summary][<<"used", i>>] = mem.body[Summary][<<"used", i>>]
    <3>1. ~Covers(plan, Len(plan), Summary, <<"used", i>>)
      <4>1. \A j \in 1 .. Len(plan) : plan[j].kind # "sum" /\ plan[j].place = Summary
                                        => plan[j].fields \subseteq EntryOf(slot)
        BY DEF IsEdit
      <4>2. slot \in Nat /\ i \in Nat
        BY <1>1, PlaceFacts DEF Places, Summary
      <4>3. <<"used", i>> \notin EntryOf(slot)
        BY <1>5, <4>2, FieldFacts DEF EntryOf
      <4>. QED
        BY <4>1, <4>3 DEF Covers
    <3>2. Summary \in Places /\ <<"used", i>> \in Fields(Summary)
      BY FieldFacts
    <3>. QED
      BY <3>1, <3>2 DEF IsEdit
  <2>3. i \in UsedSlots(n.body) <=> i \in UsedSlots(mem.body)
    BY <2>2 DEF UsedSlots
  <2>4. Row(n, i) = Row(mem, i)
    BY <2>1, <2>3, FieldFacts DEF Row
  <2>. QED
    BY <1>3, <1>5, <2>4
<1>. QED
  BY <1>4, <1>5

LEMMA EditKeepsOwners ==
  ASSUME MemInv, IsDisk(disk), Held, OwnerKnown, NEW n, NEW plan, NEW slot,
         IsEdit(mem, n, plan, slot), NEW k \in 0 .. Len(plan), Result(n, plan, slot, k)
  PROVE  /\ OwnerKnown'
         /\ OwnersHeld => OwnersHeld'
<1>. DEFINE s == mem.save
            f == disk[s]
            g == disk'[s]
<1>1. /\ IsMem(n) /\ n.save = s /\ IsFile(f) /\ IsMem(mem) /\ IsPlan(plan) /\ s \in Saves
      /\ slot \in Places
  BY DEF IsEdit, MemInv, IsMem
<1>2. /\ IsDisk(disk') /\ IsFile(g) /\ \A t \in Saves \ {s} : disk'[t] = disk[t]
      /\ \A p \in Places : \A x \in Fields(p) :
           g[p].body[x] = IF Covers(plan, k, p, x) THEN n.body[p][x] ELSE f[p].body[x]
  <2>1. /\ IsDisk(disk') /\ IsFile(disk'[n.save])
        /\ \A t \in Saves \ {n.save} : disk'[t] = disk[t]
        /\ \A p \in Places : \A x \in Fields(p) :
             disk'[n.save][p].body[x] =
               IF Covers(plan, k, p, x) THEN n.body[p][x] ELSE disk[n.save][p].body[x]
    BY <1>1, ResultFile
  <2>. QED
    BY <1>1, <2>1
<1>3. mem' = n
  BY DEF Result
<1>. HIDE DEF f, g, s
<1>4. /\ ~Covers(plan, k, Summary, <<"user", 0>>)
      /\ ~Covers(plan, Len(plan), Summary, <<"user", 0>>)
      /\ \A i \in Slots \ {slot} : ~Covers(plan, k, Summary, <<"used", i>>)
  <2>1. \A j \in 1 .. Len(plan) : plan[j].kind # "sum" /\ plan[j].place = Summary
                                    => plan[j].fields \subseteq EntryOf(slot)
    BY DEF IsEdit
  <2>2. \A j \in 1 .. k : j \in 1 .. Len(plan)
    BY <1>1 DEF IsPlan
  <2>3. slot \in Nat
    BY <1>1, PlaceFacts DEF Places, Summary
  <2>4. <<"user", 0>> \notin EntryOf(slot) /\ \A i \in Slots \ {slot} : <<"used", i>> \notin EntryOf(slot)
    BY <2>3, FieldFacts, PlaceFacts DEF EntryOf
  <2>. QED
    BY <2>1, <2>2, <2>4 DEF Covers
<1>5. g[Summary].body[<<"user", 0>>] = f[Summary].body[<<"user", 0>>]
  BY <1>2, <1>4, FieldFacts
<1>6. UserOf(n.body) = UserOf(mem.body)
  BY <1>4, FieldFacts DEF UserOf, IsEdit
<1>7. UserIn(g) = UserIn(f)
  BY <1>5 DEF UserIn
<1>8. OwnerKnown'
  <2>1. UserOf(mem.body) = FolderUser[s[2]] \/ UserIn(f) # FolderUser[s[2]]
    BY <1>1 DEF OwnerKnown, s, f
  <2>. QED
    BY <1>1, <1>3, <1>6, <1>7, <2>1 DEF OwnerKnown, g
<1>9. ASSUME OwnersHeld PROVE OwnersHeld'
  <2>1. ASSUME UserIn(g) = FolderUser[s[2]], NEW i \in Slots, IsUsed(g, i)
        PROVE  g[i].body["owner"] = FolderUser[s[2]]
    <3>1. UserOf(n.body) = FolderUser[s[2]]
      BY <1>1, <1>6, <1>7, <2>1 DEF OwnerKnown, s, f
    <3>2. Owned(f, FolderUser[s[2]])
      BY <1>1, <1>9 DEF OwnersHeld, s, f
    <3>3. /\ Covers(plan, k, Summary, <<"used", i>>) \/ IsUsed(f, i)
          /\ g[i].body["owner"] =
               IF Covers(plan, k, i, "owner") THEN n.body[i]["owner"] ELSE f[i].body["owner"]
      BY <1>2, <2>1, FieldFacts DEF IsUsed
    <3>4. CASE i = slot
      <4>1. /\ Covers(plan, k, Summary, <<"used", i>>) => Covers(plan, k, i, "owner")
            /\ Covers(plan, k, i, "owner") => n.body[i]["owner"] = UserOf(n.body)
        BY <3>4 DEF IsEdit
      <4>. QED
        BY <1>7, <2>1, <3>1, <3>2, <3>3, <4>1 DEF Owned
    <3>5. CASE i # slot
      <4>1. ~Covers(plan, k, i, "owner")
        BY <3>5, EditFrame, FieldFacts
      <4>2. IsUsed(f, i)
        BY <1>4, <3>3, <3>5
      <4>. QED
        BY <1>7, <2>1, <3>2, <3>3, <4>1, <4>2 DEF Owned
    <3>. QED
      BY <3>4, <3>5
  <2>2. Owned(g, FolderUser[s[2]])
    BY <2>1 DEF Owned
  <2>3. ASSUME NEW t \in Saves, disk'[t] # None \/ (Held' /\ mem'.save = t)
        PROVE  Owned(disk'[t], FolderUser[t[2]])
    <3>1. CASE t = s
      BY <2>2, <3>1 DEF g
    <3>2. CASE t # s
      <4>1. disk'[t] = disk[t] /\ disk[t] # None
        BY <1>1, <1>2, <1>3, <2>3, <3>2
      <4>. QED
        BY <1>9, <4>1 DEF OwnersHeld
    <3>. QED
      BY <3>1, <3>2
  <2>. QED
    BY <2>3 DEF OwnersHeld
<1>. QED
  BY <1>8, <1>9

-----------------------------------------------------------------------------
(***************************************************************************)
(* The invariant.                                                          *)
(***************************************************************************)
RowsInv == Held /\ clean => \A i \in Slots : rows[i] = Row(mem, i)

SaveInv == IsDisk(disk) /\ MemInv /\ MemoryHeld /\ OwnerKnown /\ RowsInv

FaceInv ==
  /\ ~open => mem = None /\ faces = None
  /\ Held /\ clean => faces \in {None, mem.body[Summary][<<"face", 0>>]}
  /\ faces \in Faces \cup {None}

SelInv ==
  /\ path \in Roots /\ sub \in Names \cup {None} /\ shown \in OnList(listed) \cup {None}
  /\ listed \in Seq(Names) /\ OnList(listed) \subseteq Entries(path)
  /\ ini \in [path : Roots, sub : Names \cup {None}]
  /\ Held /\ ~moved => mem.save = <<path, sub>> /\ shown = sub

ShelfInv ==
  /\ shelf = [char |-> shelf.char, face |-> shelf.face]
  /\ shelf.char # None => IsChar(shelf.char)
  /\ shelf.face \in Faces \cup {None}

Counts ==
  /\ open \in BOOLEAN /\ clean \in BOOLEAN /\ moved \in BOOLEAN /\ sealed \subseteq Places
  /\ faults \in 0 .. MaxFaults /\ commands \in 0 .. MaxCommands /\ games \in 0 .. MaxGame

Inv == SaveInv /\ FaceInv /\ SelInv /\ ShelfInv /\ Counts

LEMMA InvIsEnough == Inv => TypeOK /\ MemoryIsTheSave /\ ListShowsMemory /\ SelectionIsLoaded
<1>. SUFFICES ASSUME Inv PROVE TypeOK /\ MemoryIsTheSave /\ ListShowsMemory
  BY DEF Inv, SelInv, SelectionIsLoaded, Held
<1>1. MemoryIsTheSave /\ ListShowsMemory
  BY DEF Inv, SaveInv, RowsInv, FaceInv, MemoryHeld, Held, MemoryIsTheSave, ListShowsMemory
<1>2. mem # None => mem.save \in Saves /\ AreBodies(mem.body) /\ mem.at \in [Slots -> Slots]
  BY DEF Inv, SaveInv, MemInv, Held, IsMem, AtHome
<1>. QED
  BY <1>1, <1>2 DEF Inv, SaveInv, FaceInv, SelInv, ShelfInv, Counts, TypeOK

LEMMA NoneFacts ==
  /\ None \notin Faces /\ None \notin Names
  /\ MaxFaults \in Nat /\ MaxCommands \in Nat /\ MaxGame \in Nat
BY SaveEditorAssumption

LEMMA EntryFacts ==
  ASSUME NEW r \in Roots
  PROVE  /\ Entries(r) \subseteq Names
         /\ \A l \in Listings[r] : l \in Seq(Names) /\ OnList(l) \subseteq Entries(r)
<1>1. Listings[r] \subseteq Seq(Names)
  BY SaveEditorAssumption
<1>2. \A l \in Seq(Names) : OnList(l) \subseteq Names
  BY DEF OnList
<1>. QED
  BY <1>1, <1>2 DEF Entries

LEMMA ListFacts ==
  ASSUME NEW l \in Seq(Names)
  PROVE  /\ OnList(l) \subseteq Names
         /\ FirstOf(l) \in OnList(l) \cup {None}
         /\ FirstOf(l) = None => OnList(l) = {}
         /\ \A s : /\ Back(l, s) \in OnList(l) \cup {None}
                   /\ Back(l, s) = None => OnList(l) = {}
                   /\ s \in OnList(l) => Back(l, s) = s
<1>1. OnList(l) \subseteq Names
  BY DEF OnList
<1>2. l = <<>> => OnList(l) = {}
  BY DEF OnList
<1>3. l # <<>> => l[1] \in OnList(l)
  BY DEF OnList
<1>. QED
  BY <1>1, <1>2, <1>3, NoneFacts DEF FirstOf, Back

\* Steps that leave the file, memory and the rows alone.
LEMMA SaveFrame ==
  ASSUME SaveInv, UNCHANGED <<disk, mem, rows, sealed>>, clean' => clean, Held' => Held
  PROVE  SaveInv' /\ (OwnersHeld => OwnersHeld')
<1>1. IsDisk(disk)' /\ MemInv'
  BY DEF SaveInv, MemInv
<1>2. MemoryHeld'
  BY DEF SaveInv, MemoryHeld
<1>3. OwnerKnown' /\ (OwnersHeld => OwnersHeld')
  BY DEF SaveInv, OwnerKnown, OwnersHeld
<1>4. RowsInv'
  <2>1. \A i \in Slots : Row(mem, i)' = Row(mem, i)
    BY DEF Row
  <2>. QED
    BY <2>1 DEF SaveInv, RowsInv
<1>. QED
  BY <1>1, <1>2, <1>3, <1>4 DEF SaveInv

LEMMA SelFrame ==
  ASSUME SelInv, UNCHANGED <<mem, path, sub, listed, shown, moved>>, Held' => Held,
         ini' = ini \/ ini' = Config(path, sub)
  PROVE  SelInv'
BY DEF SelInv, Config

LEMMA NoSave ==
  ASSUME IsDisk(disk), disk' = disk, mem' = None, faces' = None
  PROVE  SaveInv' /\ (OwnersHeld => OwnersHeld')
<1>1. ~Held'
  BY DEF Held
<1>2. SaveInv'
  BY <1>1 DEF SaveInv, MemInv, MemoryHeld, OwnerKnown, RowsInv
<1>3. OwnersHeld => OwnersHeld'
  BY <1>1 DEF OwnersHeld
<1>. QED
  BY <1>2, <1>3

-----------------------------------------------------------------------------
(***************************************************************************)
(* What edits may do: EditsStayInTheirSlot.                                *)
(***************************************************************************)
Stays ==
  edited' # None /\ edited'.slot # None =>
    /\ \A s \in Saves \ {mem.save} : disk'[s] = disk[s]
    /\ \A j \in Slots \ {edited'.slot} :
         /\ disk'[mem.save][j] = disk[mem.save][j]
         /\ \A x \in {"profile", "used"} :
              disk'[mem.save][Summary].body[<<x, j>>] = disk[mem.save][Summary].body[<<x, j>>]

LEMMA EditStays ==
  ASSUME MemInv, IsDisk(disk), Held, NEW n, NEW plan, NEW slot,
         IsEdit(mem, n, plan, slot), NEW k \in 0 .. Len(plan), Result(n, plan, slot, k)
  PROVE  Stays
<1>. DEFINE s == mem.save
            f == disk[s]
            g == disk'[s]
<1>1. /\ IsMem(n) /\ n.save = s /\ IsFile(f) /\ s \in Saves /\ slot \in Places
  BY DEF IsEdit, MemInv, IsMem
<1>2. /\ IsFile(g) /\ \A t \in Saves \ {s} : disk'[t] = disk[t]
      /\ \A p \in Places :
           /\ \A x \in Fields(p) :
                g[p].body[x] = IF Covers(plan, k, p, x) THEN n.body[p][x] ELSE f[p].body[x]
           /\ g[p].sum = IF Seals(plan, k, p) THEN n.body[p] ELSE f[p].sum
  <2>1. /\ IsFile(disk'[n.save])
        /\ \A t \in Saves \ {n.save} : disk'[t] = disk[t]
        /\ \A p \in Places :
             /\ \A x \in Fields(p) :
                  disk'[n.save][p].body[x] =
                    IF Covers(plan, k, p, x) THEN n.body[p][x] ELSE disk[n.save][p].body[x]
             /\ disk'[n.save][p].sum =
                  IF Seals(plan, k, p) THEN n.body[p] ELSE disk[n.save][p].sum
    BY <1>1, ResultFile
  <2>. QED
    BY <1>1, <2>1
<1>3. edited'.slot = slot
  BY DEF Result
<1>. HIDE DEF f, g, s
<1>4. ASSUME NEW j \in Slots \ {slot}
      PROVE  /\ g[j] = f[j]
             /\ \A x \in {"profile", "used"} : g[Summary].body[<<x, j>>] = f[Summary].body[<<x, j>>]
  <2>1. j \in Places \ {slot, Summary}
    BY FieldFacts
  <2>2. ~Seals(plan, k, j) /\ \A x : ~Covers(plan, k, j, x)
    BY <2>1, EditFrame
  <2>3. /\ f[j] = [body |-> f[j].body, sum |-> f[j].sum]
        /\ g[j] = [body |-> g[j].body, sum |-> g[j].sum]
        /\ HasTypes(j, f[j].body) /\ HasTypes(j, g[j].body)
    BY <1>1, <1>2, <2>1, FileFields, BodyTypes
  <2>4. g[j].sum = f[j].sum /\ \A x \in Fields(j) : g[j].body[x] = f[j].body[x]
    BY <1>2, <2>1, <2>2
  <2>5. g[j].body = f[j].body
    BY <2>1, <2>3, <2>4, SameBody
  <2>6. slot \in Nat /\ j \in Nat
    BY <1>1, PlaceFacts DEF Places, Summary
  <2>7. <<"used", j>> \notin EntryOf(slot) /\ <<"profile", j>> \notin EntryOf(slot)
    BY <2>6, FieldFacts DEF EntryOf
  <2>8. ~Covers(plan, k, Summary, <<"used", j>>) /\ ~Covers(plan, k, Summary, <<"profile", j>>)
    <3>1. \A l \in 1 .. Len(plan) : plan[l].kind # "sum" /\ plan[l].place = Summary
                                      => plan[l].fields \subseteq EntryOf(slot)
      BY DEF IsEdit
    <3>2. \A l \in 1 .. k : l \in 1 .. Len(plan)
      BY DEF IsEdit, IsPlan
    <3>. QED
      BY <2>7, <3>1, <3>2 DEF Covers
  <2>9. /\ g[Summary].body[<<"used", j>>] = f[Summary].body[<<"used", j>>]
        /\ g[Summary].body[<<"profile", j>>] = f[Summary].body[<<"profile", j>>]
    BY <1>2, <2>8, FieldFacts
  <2>. QED
    BY <2>3, <2>4, <2>5, <2>9
<1>. QED
  BY <1>2, <1>3, <1>4 DEF Stays, f, g, s

-----------------------------------------------------------------------------
(***************************************************************************)
(* Each action.                                                            *)
(***************************************************************************)
Kept == Inv' /\ (OwnersHeld => OwnersHeld') /\ Stays

LEMMA EditSave ==
  ASSUME SaveInv, Counts, Held, NEW n, NEW plan, NEW slot,
         IsEdit(mem, n, plan, slot), CarriedOut(n, plan, slot)
  PROVE  /\ SaveInv' /\ (OwnersHeld => OwnersHeld') /\ Stays
         /\ mem' = n /\ n.save = mem.save
         /\ clean' => clean /\ faults' = faults
         /\ clean' \in BOOLEAN /\ sealed' \subseteq Places
         /\ faults' \in 0 .. MaxFaults /\ commands' \in 0 .. MaxCommands
<1>1. /\ IsMem(n) /\ n.save = mem.save /\ IsFile(disk[n.save]) /\ IsMem(mem) /\ IsPlan(plan)
      /\ slot # None /\ MemInv /\ IsDisk(disk) /\ MemoryHeld /\ OwnerKnown /\ RowsInv
  BY PlaceFacts DEF IsEdit, SaveInv, MemInv
<1>2. PICK k \in 0 .. Len(plan) : Result(n, plan, slot, k)
  BY <1>1, CarriedOutIs, Zenon
<1>3. mem' = n /\ Stays
  BY <1>1, <1>2, EditStays DEF Result
<1>4. IsDisk(disk') /\ IsFile(disk'[n.save])
  BY <1>1, <1>2, ResultFile
<1>5. MemoryHeld' /\ OwnerKnown' /\ (OwnersHeld => OwnersHeld')
  BY <1>1, <1>2, EditKeepsMemory, EditKeepsOwners, Zenon
<1>6. RowsInv'
  <2>1. ASSUME clean' PROVE \A i \in Slots : rows'[i] = Row(n, i)
    <3>1. clean => \A i \in Slots : rows[i] = Row(mem, i)
      BY <1>1 DEF RowsInv
    <3>. QED
      BY <1>1, <1>2, <2>1, <3>1, EditKeepsRows, Zenon
  <2>2. ASSUME clean' PROVE \A i \in Slots : rows'[i] = Row(mem', i)
    BY <1>3, <2>1, <2>2
  <2>. QED
    BY <2>2 DEF RowsInv, Row
<1>7. SaveInv'
  BY <1>1, <1>3, <1>4, <1>5, <1>6 DEF SaveInv, MemInv
<1>8. k \in Nat /\ k <= Len(plan) /\ Len(plan) \in Nat
  BY <1>1 DEF IsPlan
<1>9. /\ clean' => clean /\ faults' = faults
      /\ clean' \in BOOLEAN
      /\ faults' \in 0 .. MaxFaults /\ commands' \in 0 .. MaxCommands
  <2>1. clean' = (k = Len(plan) /\ clean) /\ clean \in BOOLEAN
    BY <1>1, <1>2 DEF Result, Counts
  <2>2. (k < Len(plan) => faults < MaxFaults) /\ commands < MaxCommands
    BY <1>2 DEF Result
  <2>3. faults' = (IF k < Len(plan) THEN faults + 1 ELSE faults) /\ commands' = commands + 1
    BY <1>2 DEF Result
  <2>4. faults \in 0 .. MaxFaults /\ commands \in 0 .. MaxCommands
    BY DEF Counts
  <2>5. faults' \in 0 .. MaxFaults /\ commands' \in 0 .. MaxCommands
    BY <2>2, <2>3, <2>4, NoneFacts
  <2>6. clean' => clean /\ k = Len(plan)
    BY <2>1
  <2>. QED
    BY <1>8, <2>1, <2>3, <2>5, <2>6
<1>10. sealed' \subseteq Places
  <2>1. \A j \in 1 .. Len(plan) : Target(n, plan[j].place) \in Places
    BY <1>1, PlaceFacts DEF Target, IsMem, AtHome, IsPlan
  <2>2. Touched(n, plan) \subseteq Places
    BY <1>1, <2>1 DEF Touched, IsPlan
  <2>. QED
    BY <1>1, <1>2, <2>2 DEF Result, Counts
<1>. QED
  BY <1>1, <1>3, <1>5, <1>7, <1>9, <1>10

LEMMA EditKeeps ==
  ASSUME Inv, Loaded, NEW n, NEW plan, NEW slot, IsEdit(mem, n, plan, slot), Edit(n, plan, slot)
  PROVE  Kept
<1>1. /\ Held /\ mem # None /\ faces = None /\ open /\ CarriedOut(n, plan, slot)
      /\ UNCHANGED <<shelf, path, sub, listed, shown, ini, open, moved, faces, games>>
      /\ SaveInv /\ Counts /\ FaceInv /\ SelInv /\ ShelfInv
  BY DEF Loaded, InMain, Edit, settings, Inv, Held
<1>2. /\ SaveInv' /\ (OwnersHeld => OwnersHeld') /\ Stays
      /\ mem' = n /\ n.save = mem.save
      /\ clean' => clean /\ faults' = faults
      /\ clean' \in BOOLEAN /\ sealed' \subseteq Places
      /\ faults' \in 0 .. MaxFaults /\ commands' \in 0 .. MaxCommands
  BY <1>1, EditSave
<1>3. FaceInv'
  BY <1>1 DEF FaceInv
<1>4. SelInv'
  BY <1>1, <1>2 DEF SelInv
<1>5. ShelfInv' /\ Counts'
  BY <1>1, <1>2 DEF ShelfInv, Counts
<1>. QED
  BY <1>2, <1>3, <1>4, <1>5 DEF Inv, Kept

LEMMA LoadedFacts == ASSUME Inv, Held PROVE IsMem(mem) /\ IsFile(disk[mem.save])
BY DEF Inv, SaveInv, MemInv

\* What can be imported is a character.
LEMMA ImportableFacts == ASSUME Inv PROVE \A c \in Importable : IsChar(c)
<1>1. \A c \in Foreign : IsChar(c)
  BY SaveEditorAssumption
<1>2. shelf.char # None => IsChar(shelf.char)
  BY DEF Inv, ShelfInv
<1>3. ASSUME NEW s \in Saves, disk[s] # None, NEW i \in UsedSlots(Bodies(disk[s]))
      PROVE  IsChar(disk[s][i].body)
  <2>1. IsFile(disk[s]) /\ i \in Slots
    BY <1>3 DEF Inv, SaveInv, IsDisk, UsedSlots
  <2>2. HasTypes(i, disk[s][i].body)
    BY <2>1, BodyTypes, FieldFacts
  <2>. QED
    BY <2>1, <2>2, FieldFacts DEF HasTypes
<1>4. \A c \in FromSaves : IsChar(c)
  BY <1>3 DEF FromSaves
<1>. QED
  BY <1>1, <1>2, <1>4 DEF Importable, Exported

LEMMA ImportCharKeeps ==
  ASSUME Inv, NEW i \in Slots, NEW c \in Importable, ImportChar(i, c)
  PROVE  Kept
<1>1. Loaded /\ Held /\ Edit(Imported(mem, i, c), ImportPlan(i), i)
  BY DEF ImportChar, Loaded, Held
<1>2. IsEdit(mem, Imported(mem, i, c), ImportPlan(i), i)
  BY <1>1, LoadedFacts, ImportableFacts, ImportIsEdit
<1>. QED
  BY <1>1, <1>2, EditKeeps, Zenon

LEMMA RenameCharKeeps ==
  ASSUME Inv, NEW i \in Slots, NEW t \in Texts, RenameChar(i, t)
  PROVE  Kept
<1>1. Loaded /\ Held /\ Edit(Renamed(mem, i, t), RenamePlan(i), i)
  BY DEF RenameChar, HasChar, Loaded, Held
<1>2. IsEdit(mem, Renamed(mem, i, t), RenamePlan(i), i)
  BY <1>1, LoadedFacts, RenameIsEdit
<1>. QED
  BY <1>1, <1>2, EditKeeps, Zenon

LEMMA SetDlcFlagKeeps ==
  ASSUME Inv, NEW i \in Slots, SetDlcFlag(i)
  PROVE  Kept
<1>1. Loaded /\ Held /\ Edit(Toggled(mem, i), DlcPlan(i), i)
  BY DEF SetDlcFlag, HasChar, Loaded, Held
<1>2. IsEdit(mem, Toggled(mem, i), DlcPlan(i), i)
  BY <1>1, LoadedFacts, DlcIsEdit
<1>. QED
  BY <1>1, <1>2, EditKeeps, Zenon

\* Steps that edit nothing.
LEMMA NoEdit == ASSUME edited' = None PROVE Stays
BY DEF Stays

LEMMA OpenFacesKeeps == ASSUME Inv, OpenFaces PROVE Kept
<1>1. /\ Held /\ open /\ faces' = mem.body[Summary][<<"face", 0>>] /\ edited' = None
      /\ UNCHANGED <<disk, mem, rows, shelf, faults, commands, games, clean, sealed>>
      /\ UNCHANGED <<path, sub, listed, shown, ini, open, moved>>
  BY DEF OpenFaces, Loaded, InMain, settings, Held
<1>2. mem.body[Summary][<<"face", 0>>] \in Faces
  BY <1>1, LoadedFacts DEF IsMem, AreBodies, IsSummary
<1>3. FaceInv'
  BY <1>1, <1>2 DEF FaceInv
<1>4. SaveInv' /\ (OwnersHeld => OwnersHeld') /\ SelInv'
  BY <1>1, SaveFrame, SelFrame DEF Inv
<1>5. ShelfInv' /\ Counts'
  BY <1>1 DEF Inv, ShelfInv, Counts
<1>. QED
  BY <1>1, <1>3, <1>4, <1>5, NoEdit DEF Inv, Kept

LEMMA CloseFacesKeeps == ASSUME Inv, CloseFaces PROVE Kept
<1>1. /\ faces' = None /\ edited' = None /\ (Held' => Held)
      /\ UNCHANGED <<disk, mem, rows, shelf, faults, commands, games, clean, sealed>>
      /\ UNCHANGED <<path, sub, listed, shown, ini, open, moved>>
  BY DEF CloseFaces, settings, Held
<1>2. FaceInv'
  BY <1>1 DEF Inv, FaceInv
<1>3. SaveInv' /\ (OwnersHeld => OwnersHeld') /\ SelInv'
  BY <1>1, SaveFrame, SelFrame DEF Inv
<1>4. ShelfInv' /\ Counts'
  BY <1>1 DEF Inv, ShelfInv, Counts
<1>. QED
  BY <1>1, <1>2, <1>3, <1>4, NoEdit DEF Inv, Kept

LEMMA FaceCommandKeeps ==
  ASSUME Inv, NEW v \in Faces, FaceCommand(v)
  PROVE  Kept
<1>1. /\ faces # None /\ Held /\ open /\ IsMem(mem) /\ IsFile(disk[mem.save]) /\ v # None
      /\ SaveInv /\ Counts /\ FaceInv /\ SelInv /\ ShelfInv
  <2>1. faces # None /\ Held
    BY DEF FaceCommand, Held
  <2>. QED
    BY <2>1, LoadedFacts, NoneFacts DEF Inv, FaceInv, Counts
<1>. DEFINE n == Faced(mem, v)
<1>2. /\ IsMem(n) /\ n.save = mem.save /\ n.body[Summary][<<"face", 0>>] = v
      /\ \A i \in Slots : n.body[i] = mem.body[i]
      /\ UserOf(n.body) = UserOf(mem.body)
  BY <1>1, FacedIs, FieldFacts
<1>3. CASE ImportFace(v)
  <2>1. /\ CarriedOut(n, FacePlan, Summary)
        /\ faces' = IF faults' = faults THEN v ELSE faces
        /\ UNCHANGED <<shelf, path, sub, listed, shown, ini, open, moved, games>>
    BY <1>3 DEF ImportFace, settings
  <2>2. IsEdit(mem, n, FacePlan, Summary)
    BY <1>1, FaceIsEdit
  <2>. HIDE DEF n
  <2>3. /\ SaveInv' /\ (OwnersHeld => OwnersHeld') /\ Stays
        /\ mem' = n /\ n.save = mem.save
        /\ clean' => clean /\ faults' = faults
        /\ clean' \in BOOLEAN /\ sealed' \subseteq Places
        /\ faults' \in 0 .. MaxFaults /\ commands' \in 0 .. MaxCommands
    BY <1>1, <2>1, <2>2, EditSave
  <2>4. FaceInv'
    BY <1>1, <1>2, <2>1, <2>3 DEF FaceInv
  <2>5. SelInv'
    BY <1>1, <2>1, <2>3 DEF SelInv
  <2>6. ShelfInv' /\ Counts'
    BY <1>1, <2>1, <2>3 DEF ShelfInv, Counts
  <2>. QED
    BY <2>3, <2>4, <2>5, <2>6 DEF Inv, Kept
<1>4. CASE ImportFaceUnopened(v)
  <2>1. /\ faults < MaxFaults /\ faults' = faults + 1 /\ mem' = n /\ clean' = FALSE /\ edited' = None
        /\ UNCHANGED <<disk, rows, shelf, faces, commands, games, sealed>>
        /\ UNCHANGED <<path, sub, listed, shown, ini, open, moved>>
    BY <1>4 DEF ImportFaceUnopened, settings
  <2>. HIDE DEF n
  <2>2. MemInv' /\ MemoryHeld' /\ RowsInv' /\ IsDisk(disk)'
    BY <1>1, <1>2, <2>1 DEF SaveInv, MemInv, MemoryHeld, RowsInv
  <2>3. OwnerKnown' /\ (OwnersHeld => OwnersHeld')
    BY <1>1, <1>2, <2>1 DEF SaveInv, OwnerKnown, OwnersHeld
  <2>4. FaceInv' /\ SelInv'
    BY <1>1, <1>2, <2>1 DEF FaceInv, SelInv
  <2>5. ShelfInv' /\ Counts'
    <3>1. faults' \in 0 .. MaxFaults
      BY <1>1, <2>1, NoneFacts DEF Counts
    <3>. QED
      BY <1>1, <2>1, <3>1 DEF ShelfInv, Counts
  <2>. QED
    BY <2>1, <2>2, <2>3, <2>4, <2>5, NoEdit DEF Inv, Kept, SaveInv
<1>. QED
  BY <1>3, <1>4 DEF FaceCommand

LEMMA ExportKeeps ==
  ASSUME Inv, NEW kind \in {"char", "face"}, NEW what, Export(kind, what),
         kind = "char" => IsChar(what), kind = "face" => what \in Faces
  PROVE  Kept
<1>1. /\ edited' = None /\ commands < MaxCommands /\ commands' = commands + 1
      /\ UNCHANGED <<disk, mem, rows, faces, games, clean, sealed>>
      /\ UNCHANGED <<path, sub, listed, shown, ini, open, moved>>
      /\ \/ shelf' = [shelf EXCEPT ![kind] = what] /\ faults' = faults
         \/ shelf' = [shelf EXCEPT ![kind] = None] /\ faults < MaxFaults /\ faults' = faults + 1
      /\ Held' => Held
  BY DEF Export, settings, Held
<1>2. ShelfInv'
  BY <1>1 DEF Inv, ShelfInv
<1>3. FaceInv' /\ Counts'
  BY <1>1, NoneFacts DEF Inv, FaceInv, Counts, Held
<1>4. SaveInv' /\ (OwnersHeld => OwnersHeld') /\ SelInv'
  BY <1>1, SaveFrame, SelFrame DEF Inv
<1>. QED
  BY <1>1, <1>2, <1>3, <1>4, NoEdit DEF Inv, Kept

LEMMA ExportCharKeeps ==
  ASSUME Inv, NEW i \in Slots, ExportChar(i)
  PROVE  Kept
<1>1. Held /\ Export("char", mem.body[i])
  BY DEF ExportChar, HasChar, Loaded, Held
<1>2. IsChar(mem.body[i])
  BY <1>1, LoadedFacts DEF IsMem, AreBodies
<1>. QED
  BY <1>1, <1>2, ExportKeeps

LEMMA ExportFaceKeeps == ASSUME Inv, ExportFace PROVE Kept
<1>1. Held /\ Export("face", mem.body[Summary][<<"face", 0>>])
  BY DEF ExportFace, Held
<1>2. mem.body[Summary][<<"face", 0>>] \in Faces
  BY <1>1, LoadedFacts DEF IsMem, AreBodies, IsSummary
<1>. QED
  BY <1>1, <1>2, ExportKeeps

LEMMA ConfigureKeeps == ASSUME Inv, Configure PROVE Kept
<1>1. /\ ini' = Config(path, sub) /\ edited' = None /\ (Held' => Held)
      /\ UNCHANGED <<disk, mem, rows, shelf, path, sub, listed, shown, open, moved, faces,
                     faults, commands, games, clean, sealed>>
  BY DEF Configure, Held
<1>2. SaveInv' /\ (OwnersHeld => OwnersHeld') /\ SelInv'
  BY <1>1, SaveFrame, SelFrame DEF Inv
<1>3. FaceInv' /\ ShelfInv' /\ Counts'
  BY <1>1 DEF Inv, FaceInv, ShelfInv, Counts, Held
<1>. QED
  BY <1>1, <1>2, <1>3, NoEdit DEF Inv, Kept

LEMMA StopKeeps == ASSUME Inv, NEW saved \in BOOLEAN, Stop(saved) PROVE Kept
<1>1. /\ open' = FALSE /\ faces' = None /\ mem' = None
      /\ ini' = IF saved THEN Config(path, sub) ELSE ini
      /\ path' = ini'.path /\ sub' = ini'.sub /\ listed' = <<>> /\ shown' = None
      /\ moved' = FALSE /\ clean' = FALSE /\ sealed' = {} /\ edited' = None
      /\ UNCHANGED <<disk, shelf, faults, commands, games>>
  BY DEF Stop
<1>2. SaveInv' /\ (OwnersHeld => OwnersHeld') /\ ~Held'
  BY <1>1, NoSave DEF Inv, SaveInv, Held
<1>3. ini' \in [path : Roots, sub : Names \cup {None}]
  BY <1>1 DEF Inv, SelInv, Config
<1>4. SelInv'
  <2>1. listed' \in Seq(Names) /\ OnList(listed') = {}
    BY <1>1 DEF OnList
  <2>. QED
    BY <1>1, <1>2, <1>3, <2>1 DEF SelInv
<1>5. FaceInv' /\ ShelfInv' /\ Counts'
  BY <1>1, <1>2 DEF Inv, FaceInv, ShelfInv, Counts
<1>. QED
  BY <1>1, <1>2, <1>4, <1>5, NoEdit DEF Inv, Kept

-----------------------------------------------------------------------------
(***************************************************************************)
(* The selection of a save.                                                *)
(***************************************************************************)
\* What a selection needs: an entry of the list, which has the loaded save if it is of the
\* same folder, and what was selected before.
Selectable(r, n, s) ==
  /\ r \in Roots /\ n \in OnList(listed') \cup {None} /\ s \in Names \cup {None}
  /\ listed' \in Seq(Names) /\ OnList(listed') \subseteq Entries(r)
  /\ n = None => OnList(listed') = {}
  /\ Held => s = sub /\ (~moved /\ r = path => sub \in OnList(listed'))
  /\ faces = None

\* What every selection but a load keeps, and the rest of what it sets.
LEMMA NotLoadedKeeps ==
  ASSUME Inv, NEW r, NEW n, NEW s, Selectable(r, n, s), open' = TRUE,
         UNCHANGED <<disk, mem, rows, ini, shelf, faces, games, commands, clean, sealed>>,
         edited' = None, faults' \in 0 .. MaxFaults,
         path' = r, moved' = (moved \/ r # path),
         \/ n = None /\ sub' = None /\ shown' = None
         \/ sub' = s /\ shown' = Back(listed', s)
  PROVE  Kept
<1>1. Held' <=> Held
  BY DEF Held
<1>2. SaveInv' /\ (OwnersHeld => OwnersHeld')
  BY <1>1, SaveFrame DEF Inv
<1>3. /\ r \in Roots /\ sub' \in Names \cup {None} /\ shown' \in OnList(listed') \cup {None}
      /\ listed' \in Seq(Names) /\ OnList(listed') \subseteq Entries(r)
  BY ListFacts DEF Selectable
<1>4. ASSUME Held, ~moved' PROVE mem'.save = <<path', sub'>> /\ shown' = sub'
  <2>1. ~moved /\ r = path /\ mem.save = <<path, sub>> /\ mem.save \in Saves /\ s = sub
    BY <1>4, LoadedFacts DEF Inv, SelInv, IsMem, Selectable
  <2>2. sub \in OnList(listed')
    BY <1>4, <2>1 DEF Selectable
  <2>3. n # None /\ Back(listed', s) = sub
    BY <1>3, <2>1, <2>2, ListFacts DEF Selectable
  <2>. QED
    BY <2>1, <2>3
<1>5. SelInv'
  BY <1>1, <1>3, <1>4 DEF Inv, SelInv, OnList
<1>6. FaceInv' /\ ShelfInv'
  BY <1>1 DEF Inv, FaceInv, ShelfInv
<1>7. Counts'
  <2>1. moved' \in BOOLEAN /\ open' \in BOOLEAN
    OBVIOUS
  <2>. QED
    BY <2>1 DEF Inv, Counts
<1>. QED
  BY <1>2, <1>5, <1>6, <1>7, NoEdit DEF Inv, Kept

\* What a load reads.
LEMMA ReadIs ==
  ASSUME Inv, NEW r \in Roots, NEW n \in Entries(r), disk[<<r, n>>] # None
  PROVE  LET s == <<r, n>>
             m == Read(r, n)
         IN  /\ s \in Saves /\ n \in Names /\ FolderUser[n] \in Users
             /\ IsFile(disk[s]) /\ IsMem(m) /\ m.save = s
             /\ UserOf(m.body) = UserIn(disk[s])
             /\ UsedSlots(m.body) = {i \in Slots : IsUsed(disk[s], i)}
             /\ \A p \in Places : disk[s][p].body = m.body[p]
             /\ Mismatch(r, n) <=> UserIn(disk[s]) # FolderUser[n]
<1>. DEFINE s == <<r, n>>
            m == Read(r, n)
<1>1. s \in Saves /\ n \in Names /\ FolderUser[n] \in Users
  BY EntryFacts, SaveEditorAssumption DEF Saves
<1>2. IsFile(disk[s])
  BY <1>1 DEF Inv, SaveInv, IsDisk
<1>3. m = [save |-> s, body |-> Bodies(disk[s]), at |-> [i \in Slots |-> i]]
  BY DEF Read
<1>4. m.save = s /\ m.body = Bodies(disk[s]) /\ m.at = [i \in Slots |-> i]
  BY <1>3
<1>. HIDE DEF m
<1>5. IsMem(m)
  BY <1>1, <1>2, <1>3, <1>4 DEF IsMem, IsFile, AtHome
<1>6. \A p \in Places : disk[s][p].body = m.body[p]
  BY <1>4 DEF Bodies
<1>7. Mismatch(r, n) <=> UserIn(disk[s]) # FolderUser[n]
  BY InFile DEF Mismatch
<1>8. /\ UserOf(m.body) = UserIn(disk[s])
      /\ UsedSlots(m.body) = {i \in Slots : IsUsed(disk[s], i)}
  BY <1>4, InFile
<1>. QED
  BY <1>1, <1>2, <1>4, <1>5, <1>6, <1>7, <1>8 DEF m

\* The list is of the folder and has the entry.
ListHas(r, n) ==
  listed' \in Seq(Names) /\ OnList(listed') \subseteq Entries(r) /\ n \in OnList(listed')

\* A save that was loaded, re-signed or not, is the one that is selected.
LEMMA AcceptedKeeps ==
  ASSUME Inv, NEW r \in Roots, NEW n \in Entries(r), NEW starting \in BOOLEAN,
         Accept(r, n, starting), faces = None, open' = TRUE, ListHas(r, n),
         UNCHANGED <<shelf, faces, games>>,
         mem'.save = <<r, n>>, SaveInv', OwnersHeld => OwnersHeld', Stays,
         clean' \in BOOLEAN, sealed' \subseteq Places,
         faults' \in 0 .. MaxFaults, commands' \in 0 .. MaxCommands
  PROVE  Kept
<1>1. /\ path' = r /\ sub' = n /\ shown' = n /\ moved' = FALSE
      /\ ini' = IF starting THEN ini ELSE Config(r, n)
  BY DEF Accept
<1>2. n \in Names
  BY EntryFacts
<1>3. SelInv'
  BY <1>1, <1>2 DEF Inv, SelInv, Config, ListHas, OnList
<1>4. FaceInv' /\ ShelfInv' /\ Counts'
  BY <1>1 DEF Inv, FaceInv, ShelfInv, Counts
<1>. QED
  BY <1>3, <1>4 DEF Inv, Kept

LEMMA LoadSaveKeeps ==
  ASSUME Inv, NEW r \in Roots, NEW n \in Entries(r), NEW starting \in BOOLEAN,
         LoadSave(r, n, starting), faces = None, open' = TRUE, UNCHANGED <<shelf, faces, games>>,
         ListHas(r, n)
  PROVE  Kept
<1>. DEFINE s == <<r, n>>
            m == Read(r, n)
<1>1. /\ disk[s] # None /\ mem' = m /\ rows' = Refreshed(m, None) /\ clean' = TRUE /\ sealed' = {}
      /\ edited' = None /\ Accept(r, n, starting) /\ disk' = disk /\ commands' = commands
      /\ Mismatch(r, n) => faults < MaxFaults
      /\ faults' = IF Mismatch(r, n) THEN faults + 1 ELSE faults
  BY DEF LoadSave
<1>2. /\ s \in Saves /\ IsFile(disk[s]) /\ IsMem(m) /\ m.save = s
      /\ UserOf(m.body) = UserIn(disk[s]) /\ FolderUser[s[2]] = FolderUser[n]
      /\ \A p \in Places : disk[s][p].body = m.body[p]
  BY <1>1, ReadIs
<1>. HIDE DEF m, s
<1>3. IsDisk(disk)' /\ MemInv' /\ OwnerKnown'
  BY <1>1, <1>2 DEF Inv, SaveInv, MemInv, OwnerKnown
<1>4. MemoryHeld'
  <2>1. \A p \in Places : Target(m, p) = p
    BY <1>2, PlaceFacts DEF Target, IsMem, AtHome
  <2>. QED
    BY <1>1, <1>2, <2>1 DEF MemoryHeld, Target
<1>5. RowsInv'
  <2>1. \A i \in Slots : rows'[i] = Row(m, i)
    BY <1>1 DEF Refreshed
  <2>. QED
    BY <1>1, <2>1 DEF RowsInv, Row
<1>6. OwnersHeld => OwnersHeld'
  BY <1>1, <1>2 DEF OwnersHeld
<1>7. faults' \in 0 .. MaxFaults /\ commands' \in 0 .. MaxCommands
  BY <1>1, NoneFacts DEF Inv, Counts
<1>8. mem'.save = <<r, n>> /\ SaveInv' /\ Stays
  BY <1>1, <1>2, <1>3, <1>4, <1>5, NoEdit DEF SaveInv, s
<1>. QED
  BY <1>1, <1>6, <1>7, <1>8, AcceptedKeeps

LEMMA LoadAndResignKeeps ==
  ASSUME Inv, NEW r \in Roots, NEW n \in Entries(r), NEW starting \in BOOLEAN,
         LoadAndResign(r, n, starting), faces = None, open' = TRUE,
         UNCHANGED <<shelf, faces, games>>, ListHas(r, n)
  PROVE  Kept
<1>. DEFINE s == <<r, n>>
            u == FolderUser[n]
            m == Read(r, n)
            m2 == Resigned(m, u)
            plan == ResignPlan(m)
            f == disk[s]
            g == disk'[s]
<1>1. /\ disk[s] # None /\ Mismatch(r, n) /\ Accept(r, n, starting)
      /\ CarriedOut(m2, plan, None)
  BY DEF LoadAndResign
<1>2. /\ s \in Saves /\ IsFile(f) /\ IsMem(m) /\ m.save = s /\ u \in Users
      /\ UsedSlots(m.body) = {i \in Slots : IsUsed(f, i)}
      /\ FolderUser[s[2]] = u /\ UserIn(f) # u
      /\ \A p \in Places : f[p].body = m.body[p]
  BY <1>1, ReadIs
<1>. HIDE DEF m
<1>3. /\ IsMem(m2) /\ m2.save = s
      /\ \A p \in Places : \A x \in Fields(p) :
           m2.body[p][x] =
             IF (p = Summary /\ x = <<"user", 0>>) \/ (p \in UsedSlots(m.body) /\ x = "owner")
               THEN u ELSE m.body[p][x]
  BY <1>2, ResignedIs
<1>4. /\ IsPlan(plan)
      /\ \A j \in 1 .. Len(plan) : Seals(plan, Len(plan), plan[j].place)
      /\ \A i \in UsedSlots(m.body) : Covers(plan, Len(plan), i, "owner")
      /\ Covers(plan, Len(plan), Summary, <<"user", 0>>)
      /\ \A k \in 0 .. Len(plan) : \A x : Covers(plan, k, Summary, x) =>
           /\ x = <<"user", 0>>
           /\ \A i \in UsedSlots(m.body) : Covers(plan, k, i, "owner")
      /\ \A k \in 0 .. Len(plan) : \A i \in Slots : \A x :
           Covers(plan, k, i, x) => i \in UsedSlots(m.body) /\ x = "owner"
  BY ResignPlanIs
<1>. HIDE DEF m2, plan, u, s
<1>5. IsDisk(disk) /\ IsFile(disk[m2.save])
  BY <1>2, <1>3 DEF Inv, SaveInv
<1>6. PICK k \in 0 .. Len(plan) : Result(m2, plan, None, k)
  BY <1>1, <1>3, <1>4, <1>5, CarriedOutIs, Zenon
<1>7. /\ disk' = [disk EXCEPT ![s] = After(f, m2, plan, k)]
      /\ mem' = m2
      /\ faults' = IF k < Len(plan) THEN faults + 1 ELSE faults
      /\ k < Len(plan) => faults < MaxFaults
      /\ commands < MaxCommands /\ commands' = commands + 1
      /\ rows' = Refreshed(m2, None)
      /\ clean' = (k = Len(plan))
      /\ sealed' = Touched(m2, plan)
      /\ edited' = [save |-> m2.save, slot |-> None]
  BY <1>3, <1>6 DEF Result
<1>8. /\ IsDisk(disk') /\ IsFile(g) /\ \A t \in Saves \ {s} : disk'[t] = disk[t]
      /\ \A p \in Places : \A x \in Fields(p) :
           g[p].body[x] = IF Covers(plan, k, p, x) THEN m2.body[p][x] ELSE f[p].body[x]
  <2>1. /\ IsDisk(disk') /\ IsFile(disk'[m2.save])
        /\ \A t \in Saves \ {m2.save} : disk'[t] = disk[t]
        /\ \A p \in Places : \A x \in Fields(p) :
             disk'[m2.save][p].body[x] =
               IF Covers(plan, k, p, x) THEN m2.body[p][x] ELSE disk[m2.save][p].body[x]
    BY <1>3, <1>5, <1>6, ResultFile
  <2>. QED
    BY <1>3, <2>1
<1>. HIDE DEF f, g
<1>9. UserOf(m2.body) = u
  BY <1>3, FieldFacts DEF UserOf
<1>10. MemInv' /\ OwnerKnown'
  BY <1>2, <1>3, <1>7, <1>8, <1>9 DEF MemInv, OwnerKnown, g
<1>11. RowsInv'
  <2>1. \A i \in Slots : rows'[i] = Row(m2, i)
    BY <1>7 DEF Refreshed
  <2>. QED
    BY <1>7, <2>1 DEF RowsInv, Row
<1>12. MemoryHeld'
  <2>. SUFFICES ASSUME clean'
                PROVE  \A p \in Places : LET q == Target(m2, p) IN
                         /\ disk'[s][q].body = m2.body[p]
                         /\ q \in sealed' => disk'[s][q].sum = disk'[s][q].body
    BY <1>3, <1>7 DEF MemoryHeld
  <2>1. Result(m2, plan, None, Len(plan))
    BY <1>6, <1>7
  <2>2. SameBodies(disk[m2.save], m)
    BY <1>2, <1>3 DEF f, SameBodies
  <2>3. Writes(plan, m, m2) /\ SealsAll(plan)
    BY <1>3, <1>4 DEF Writes, SealsAll
  <2>4. SumsRight(disk[m2.save], {})
    BY DEF SumsRight
  <2>5. \A p \in Places :
          /\ disk'[m2.save][p].body = m2.body[p]
          /\ p \in {} \cup Touched(m2, plan) => disk'[m2.save][p].sum = disk'[m2.save][p].body
    <3>1. IsMem(m2) /\ IsPlan(plan)
      BY <1>3, <1>4
    <3>. QED
      BY <3>1, <1>5, <2>1, <2>2, <2>3, <2>4, WholeResult
  <2>6. \A p \in Places : Target(m2, p) = p
    BY <1>3, PlaceFacts DEF Target, IsMem, AtHome
  <2>. QED
    BY <1>3, <1>7, <2>5, <2>6
<1>13. ASSUME OwnersHeld PROVE OwnersHeld'
  <2>1. ASSUME UserIn(g) = u, NEW i \in Slots, IsUsed(g, i)
        PROVE  g[i].body["owner"] = u
    <3>1. Covers(plan, k, Summary, <<"user", 0>>)
      BY <1>2, <1>8, <2>1, FieldFacts DEF UserIn
    <3>2. ~Covers(plan, k, Summary, <<"used", i>>)
      BY <1>4, FieldFacts, PlaceFacts
    <3>3. i \in UsedSlots(m.body)
      BY <1>2, <1>8, <2>1, <3>2, FieldFacts DEF IsUsed
    <3>4. Covers(plan, k, i, "owner") /\ m2.body[i]["owner"] = u
      BY <1>3, <1>4, <3>1, <3>3, FieldFacts
    <3>. QED
      BY <1>8, <3>4, FieldFacts
  <2>2. Owned(g, FolderUser[s[2]])
    BY <1>2, <2>1 DEF Owned
  <2>3. ASSUME NEW t \in Saves, disk'[t] # None \/ (Held' /\ mem'.save = t)
        PROVE  Owned(disk'[t], FolderUser[t[2]])
    <3>1. CASE t = s
      BY <2>2, <3>1 DEF g
    <3>2. CASE t # s
      <4>1. disk'[t] = disk[t] /\ disk[t] # None
        BY <1>3, <1>7, <1>8, <2>3, <3>2
      <4>. QED
        BY <1>13, <4>1 DEF OwnersHeld
    <3>. QED
      BY <3>1, <3>2
  <2>. QED
    BY <2>3 DEF OwnersHeld
<1>14. Stays
  BY <1>7 DEF Stays
<1>15. SaveInv' /\ mem'.save = <<r, n>>
  BY <1>3, <1>7, <1>8, <1>10, <1>11, <1>12 DEF SaveInv, s
<1>16. /\ clean' \in BOOLEAN
       /\ faults' \in 0 .. MaxFaults /\ commands' \in 0 .. MaxCommands
  <2>1. faults \in 0 .. MaxFaults /\ commands \in 0 .. MaxCommands /\ Len(plan) \in Nat
    BY <1>4 DEF Inv, Counts, IsPlan
  <2>2. faults' \in 0 .. MaxFaults /\ commands' \in 0 .. MaxCommands
    BY <1>7, <2>1, NoneFacts
  <2>. QED
    BY <1>7, <2>2
<1>17. sealed' \subseteq Places
  <2>1. \A j \in 1 .. Len(plan) : Target(m2, plan[j].place) \in Places
    BY <1>3, <1>4, PlaceFacts DEF Target, IsMem, AtHome, IsPlan
  <2>. QED
    BY <1>4, <1>7, <2>1 DEF Touched, IsPlan
<1>. QED
  BY <1>1, <1>13, <1>14, <1>15, <1>16, <1>17, AcceptedKeeps

LEMMA SelectionKeeps ==
  ASSUME Inv, NEW r, NEW n, NEW s, NEW starting \in BOOLEAN, Selectable(r, n, s),
         Selection(r, n, s, starting), open' = TRUE
  PROVE  Kept
<1>1. /\ UNCHANGED <<shelf, faces, games>> /\ faces = None /\ r \in Roots
      /\ n # None => n \in Entries(r) /\ ListHas(r, n)
      /\ faults \in 0 .. MaxFaults
  BY DEF Selection, Selectable, Inv, Counts, ListHas
<1>2. CASE NothingListed(r, n)
  <2>1. /\ n = None /\ path' = r /\ sub' = None /\ shown' = None /\ moved' = (moved \/ r # path)
        /\ edited' = None /\ UNCHANGED <<disk, mem, rows, ini, faults, commands, clean, sealed>>
    BY <1>2 DEF NothingListed
  <2>. QED
    BY <1>1, <2>1, NotLoadedKeeps
<1>3. CASE Unreadable(r, n, s) \/ Declined(r, n, s)
  <2>1. Reject(r, n, s) /\ faults' \in 0 .. MaxFaults
    BY <1>1, <1>3, NoneFacts DEF Unreadable, Declined
  <2>2. /\ path' = r /\ sub' = s /\ shown' = Back(listed', s) /\ moved' = (moved \/ r # path)
        /\ edited' = None /\ UNCHANGED <<disk, mem, rows, ini, commands, clean, sealed>>
    BY <2>1 DEF Reject
  <2>. QED
    BY <1>1, <2>1, <2>2, NotLoadedKeeps
<1>4. CASE LoadSave(r, n, starting)
  BY <1>1, <1>4, LoadSaveKeeps DEF LoadSave
<1>5. CASE LoadAndResign(r, n, starting)
  BY <1>1, <1>5, LoadAndResignKeeps DEF LoadAndResign
<1>. QED
  BY <1>2, <1>3, <1>4, <1>5 DEF Selection

LEMMA SelectSaveKeeps == ASSUME Inv, NEW n \in Names, SelectSave(n) PROVE Kept
<1>1. /\ InMain /\ n \in OnList(listed) /\ listed' = listed
      /\ Selection(path, n, sub, FALSE) /\ open' = TRUE
  BY DEF SelectSave, InMain, Inv, Counts
<1>2. ASSUME Held, ~moved PROVE sub \in OnList(listed)
  <2>1. shown = sub /\ mem.save = <<path, sub>> /\ mem.save \in Saves
    BY <1>2, LoadedFacts DEF Inv, SelInv, IsMem
  <2>. QED
    BY <2>1, SavePair, NoneFacts DEF Inv, SelInv
<1>3. Selectable(path, n, sub)
  BY <1>1, <1>2, NoneFacts DEF Selectable, InMain, Inv, SelInv
<1>. QED
  BY <1>1, <1>3, SelectionKeeps

\* A scan of the folder of the loaded save finds it.
LEMMA ScanFacts ==
  ASSUME Inv, NEW r \in Roots, Scan(r)
  PROVE  /\ listed' \in Seq(Names) /\ OnList(listed') \subseteq Entries(r)
         /\ Held /\ ~moved /\ r = path => sub \in OnList(listed')
<1>1. /\ listed' \in Listings[r]
      /\ \A n \in Entries(r) : IsThere(<<r, n>>) => n \in OnList(listed')
  BY DEF Scan
<1>2. ASSUME Held, ~moved, r = path PROVE sub \in OnList(listed')
  <2>1. mem.save = <<r, sub>> /\ mem.save \in Saves /\ IsThere(<<r, sub>>)
    BY <1>2, LoadedFacts DEF Inv, SelInv, IsMem, IsThere
  <2>2. sub \in Entries(r)
    BY <2>1, SavePair
  <2>. QED
    BY <1>1, <2>1, <2>2
<1>. QED
  BY <1>1, <1>2, EntryFacts

LEMMA ChangeFolderKeeps == ASSUME Inv, NEW r \in Roots, ChangeFolder(r) PROVE Kept
<1>1. InMain /\ Scan(r) /\ Selection(r, FirstOf(listed'), sub, FALSE) /\ open' = TRUE
  BY DEF ChangeFolder, InMain, Inv, Counts
<1>2. Selectable(r, FirstOf(listed'), sub)
  BY <1>1, ScanFacts, ListFacts DEF Selectable, InMain, Inv, SelInv
<1>. QED
  BY <1>1, <1>2, SelectionKeeps

LEMMA StartKeeps == ASSUME Inv, Start PROVE Kept
<1>1. /\ ~open /\ open' = TRUE /\ Scan(ini.path)
      /\ Selection(ini.path, Back(listed', ini.sub), ini.sub, TRUE)
  BY DEF Start
<1>2. ~Held /\ faces = None
  BY <1>1 DEF Inv, FaceInv, Held
<1>3. ini.path \in Roots /\ ini.sub \in Names \cup {None}
  BY DEF Inv, SelInv
<1>4. Selectable(ini.path, Back(listed', ini.sub), ini.sub)
  BY <1>1, <1>2, <1>3, ScanFacts, ListFacts DEF Selectable
<1>. QED
  BY <1>1, <1>4, SelectionKeeps

-----------------------------------------------------------------------------
(***************************************************************************)
(* The game, and all steps.                                                *)
(***************************************************************************)
LEMMA GameSavesKeeps ==
  ASSUME Inv, NEW s \in Saves, NEW i \in Slots, NEW h \in Heroes, GameSaves(s, i, h)
  PROVE  Kept
<1>. DEFINE f == disk[s]
            g == disk'[s]
            With(b) == [b EXCEPT !["hero"] = h]
            c == [body |-> With(f[i].body), sum |-> With(f[i].sum)]
<1>1. /\ games < MaxGame /\ games' = games + 1 /\ f # None
      /\ disk' = [disk EXCEPT ![s][i].body["hero"] = h, ![s][i].sum["hero"] = h]
      /\ clean' = (clean /\ mem.save # s)
      /\ edited' = None
      /\ UNCHANGED <<mem, rows, shelf, faces, faults, commands, sealed>>
      /\ UNCHANGED <<path, sub, listed, shown, ini, open, moved>>
  BY DEF GameSaves, settings
<1>2. /\ IsFile(f) /\ disk = [t \in Saves |-> disk[t]]
      /\ \A t \in Saves : disk[t] # None => IsFile(disk[t])
  BY <1>1 DEF Inv, SaveInv, IsDisk
<1>3. /\ f = [p \in Places |-> [body |-> f[p].body, sum |-> f[p].sum]]
      /\ i \in Places /\ i # Summary /\ Fields(i) = CharFields
      /\ f[i] = [body |-> f[i].body, sum |-> f[i].sum]
      /\ HasTypes(i, f[i].body) /\ HasTypes(i, f[i].sum)
  BY <1>2, FileFields, FieldFacts, BodyTypes DEF Shaped
<1>4. disk' = [disk EXCEPT ![s] = [f EXCEPT ![i] = c]]
  <2>. DEFINE c1 == [body |-> With(f[i].body), sum |-> f[i].sum]
              f1 == [f EXCEPT ![i] = c1]
              d1 == [disk EXCEPT ![s] = f1]
  <2>1. [f[i] EXCEPT !.body = With(f[i].body)] = c1
    BY <1>3
  <2>2. [disk EXCEPT ![s][i].body["hero"] = h] = d1
    <3>1. [disk EXCEPT ![s][i].body["hero"] = h] =
            [disk EXCEPT ![s] = [f EXCEPT ![i] = [f[i] EXCEPT !.body = With(f[i].body)]]]
      OBVIOUS
    <3>. QED
      BY <2>1, <3>1
  <2>3. [c1 EXCEPT !.sum = With(f[i].sum)] = c
    OBVIOUS
  <2>4. f1[i] = c1 /\ d1[s] = f1
    BY <1>2, <1>3
  <2>5. disk' = [d1 EXCEPT ![s] = [d1[s] EXCEPT ![i] = [d1[s][i] EXCEPT !.sum = With(d1[s][i].sum)]]]
    <3>1. disk' = [[disk EXCEPT ![s][i].body["hero"] = h] EXCEPT ![s][i].sum["hero"] = h]
      BY <1>1
    <3>2. disk' = [d1 EXCEPT ![s][i].sum["hero"] = h]
      BY <2>2, <3>1
    <3>. HIDE DEF d1
    <3>. QED
      BY <3>2
  <2>6. disk' = [d1 EXCEPT ![s] = [f1 EXCEPT ![i] = c]]
    BY <2>3, <2>4, <2>5
  <2>7. [f1 EXCEPT ![i] = c] = [f EXCEPT ![i] = c]
    BY <1>3
  <2>8. disk' = [d1 EXCEPT ![s] = [f EXCEPT ![i] = c]]
    BY <2>6, <2>7
  <2>. HIDE DEF c, f1, f
  <2>. QED
    BY <1>2, <2>8
<1>5. g = [f EXCEPT ![i] = c] /\ \A t \in Saves \ {s} : disk'[t] = disk[t]
  BY <1>2, <1>4
<1>6. disk' = [t \in Saves |-> disk'[t]]
  BY <1>2, <1>4
<1>7. \A b : IsChar(b) => /\ IsChar(With(b))
                          /\ \A x \in CharFields \ {"hero"} : With(b)[x] = b[x]
  BY FieldFacts DEF IsChar
<1>8. /\ HasTypes(i, c.body) /\ HasTypes(i, c.sum)
      /\ \A x \in CharFields \ {"hero"} : c.body[x] = f[i].body[x]
  BY <1>3, <1>7 DEF HasTypes
<1>. HIDE DEF c, g, f
<1>9. \A p \in Places : g[p] = IF p = i THEN c ELSE f[p]
  BY <1>3, <1>5
<1>10. g = [p \in Places |-> g[p]]
  BY <1>3, <1>5
<1>11. \A p \in Places : HasTypes(p, g[p].body) /\ HasTypes(p, g[p].sum)
  BY <1>2, <1>8, <1>9, BodyTypes
<1>12. IsFile(g)
  <2>1. AreBodies(Bodies(g)) /\ AreBodies(Sums(g))
    BY <1>11, BodiesByPlace DEF Bodies, Sums
  <2>2. \A p \in Places : g[p] = [body |-> g[p].body, sum |-> g[p].sum]
    BY <1>3, <1>9 DEF c
  <2>3. g = [p \in Places |-> [body |-> g[p].body, sum |-> g[p].sum]]
    BY <1>10, <2>2
  <2>. QED
    BY <2>1, <2>3 DEF IsFile
<1>13. /\ UserIn(g) = UserIn(f) /\ \A j \in Slots : IsUsed(g, j) = IsUsed(f, j)
       /\ \A j \in Slots : g[j].body["owner"] = f[j].body["owner"]
  BY <1>3, <1>8, <1>9, FieldFacts DEF UserIn, IsUsed
<1>14. IsDisk(disk')
  BY <1>2, <1>5, <1>6, <1>12 DEF IsDisk, g
<1>15. MemInv' /\ OwnerKnown'
  <2>1. Held' <=> Held
    BY <1>1 DEF Held
  <2>2. ASSUME Held PROVE /\ IsFile(disk'[mem.save]) /\ UserIn(disk'[mem.save]) = UserIn(disk[mem.save])
    <3>1. mem.save \in Saves /\ IsFile(disk[mem.save])
      BY <2>2 DEF Inv, SaveInv, MemInv, IsMem
    <3>. QED
      BY <1>5, <1>12, <1>13, <3>1 DEF f, g
  <2>. QED
    BY <1>1, <2>1, <2>2 DEF Inv, SaveInv, MemInv, OwnerKnown
<1>16. OwnersHeld => OwnersHeld'
  <2>. SUFFICES ASSUME OwnersHeld, NEW t \in Saves, disk'[t] # None \/ (Held' /\ mem'.save = t)
                PROVE  Owned(disk'[t], FolderUser[t[2]])
    BY DEF OwnersHeld
  <2>1. Held' <=> Held
    BY <1>1 DEF Held
  <2>2. CASE t = s
    BY <1>1, <1>13, <2>2 DEF OwnersHeld, Owned, f, g
  <2>3. CASE t # s
    BY <1>1, <1>5, <2>1, <2>3 DEF OwnersHeld
  <2>. QED
    BY <2>2, <2>3
<1>17. ASSUME Held', clean' PROVE clean /\ Held /\ disk'[mem.save] = disk[mem.save]
  <2>1. Held /\ clean /\ mem.save # s
    BY <1>1, <1>17 DEF Held
  <2>2. mem.save \in Saves
    BY <2>1 DEF Inv, SaveInv, MemInv, IsMem
  <2>. QED
    BY <1>5, <2>1, <2>2
<1>18. MemoryHeld' /\ RowsInv'
  <2>1. MemoryHeld'
    BY <1>1, <1>17 DEF Inv, SaveInv, MemoryHeld, Target
  <2>2. \A j \in Slots : Row(mem, j)' = Row(mem, j)
    BY <1>1 DEF Row
  <2>. QED
    BY <1>1, <1>17, <2>1, <2>2 DEF Inv, SaveInv, RowsInv
<1>19. SaveInv'
  BY <1>14, <1>15, <1>18 DEF SaveInv
<1>20. FaceInv' /\ SelInv'
  BY <1>1 DEF Inv, FaceInv, SelInv, Held
<1>21. ShelfInv' /\ Counts'
  <2>1. games' \in 0 .. MaxGame /\ clean' \in BOOLEAN
    BY <1>1, NoneFacts DEF Inv, Counts
  <2>. QED
    BY <1>1, <2>1 DEF Inv, ShelfInv, Counts
<1>. QED
  BY <1>1, <1>16, <1>19, <1>20, <1>21, NoEdit DEF Inv, Kept

\* The saves that are there at first, or come later: one that has its folder's Steam ID has
\* it throughout, as the game writes it.
InitOwned ==
  \A d \in InitDisks : \A s \in Saves : d[s] # None => Owned(d[s], FolderUser[s[2]])

KeptIfOwned == Inv' /\ (OwnersHeld /\ InitOwned => OwnersHeld') /\ Stays

LEMMA ReplacedKeeps ==
  ASSUME Inv, NEW s \in Saves, NEW d \in {None} \cup {x[s] : x \in InitDisks}, Replaced(s, d)
  PROVE  KeptIfOwned
<1>1. /\ games < MaxGame /\ games' = games + 1 /\ (Held => mem.save # s)
      /\ disk' = [disk EXCEPT ![s] = d] /\ edited' = None
      /\ UNCHANGED <<mem, rows, shelf, faces, faults, commands, clean, sealed>>
      /\ UNCHANGED <<path, sub, listed, shown, ini, open, moved>>
  BY DEF Replaced, settings
<1>2. Held' <=> Held
  BY <1>1 DEF Held
<1>3. /\ disk = [t \in Saves |-> disk[t]] /\ \A t \in Saves : disk[t] # None => IsFile(disk[t])
      /\ d # None => IsFile(d)
  <2>1. \A x \in InitDisks : x[s] # None => IsFile(x[s])
    BY SaveEditorAssumption DEF IsDisk
  <2>. QED
    BY <2>1 DEF Inv, SaveInv, IsDisk
<1>4. /\ disk' = [t \in Saves |-> disk'[t]] /\ disk'[s] = d
      /\ \A t \in Saves \ {s} : disk'[t] = disk[t]
  BY <1>1, <1>3
<1>5. IsDisk(disk')
  BY <1>3, <1>4 DEF IsDisk
<1>6. ASSUME Held PROVE disk'[mem.save] = disk[mem.save]
  BY <1>1, <1>4, <1>6, LoadedFacts DEF Held, IsMem
<1>7. MemInv' /\ MemoryHeld' /\ OwnerKnown' /\ RowsInv'
  <2>1. MemInv' /\ OwnerKnown' /\ MemoryHeld'
    BY <1>1, <1>2, <1>6 DEF Inv, SaveInv, MemInv, OwnerKnown, MemoryHeld, Target
  <2>2. \A j \in Slots : Row(mem, j)' = Row(mem, j)
    BY <1>1 DEF Row
  <2>. QED
    BY <1>1, <1>2, <2>1, <2>2 DEF Inv, SaveInv, RowsInv
<1>8. SaveInv' /\ FaceInv' /\ SelInv'
  BY <1>1, <1>2, <1>5, <1>7, SelFrame DEF Inv, SaveInv, FaceInv
<1>9. ShelfInv' /\ Counts'
  <2>1. games' \in 0 .. MaxGame
    BY <1>1, NoneFacts DEF Inv, Counts
  <2>. QED
    BY <1>1, <2>1 DEF Inv, ShelfInv, Counts
<1>10. ASSUME OwnersHeld, InitOwned PROVE OwnersHeld'
  <2>. SUFFICES ASSUME NEW t \in Saves, disk'[t] # None \/ (Held' /\ mem'.save = t)
                PROVE  Owned(disk'[t], FolderUser[t[2]])
    BY DEF OwnersHeld
  <2>1. CASE t = s
    BY <1>1, <1>2, <1>4, <1>10, <2>1 DEF InitOwned, Held
  <2>2. CASE t # s
    BY <1>1, <1>2, <1>4, <1>10, <2>2 DEF OwnersHeld
  <2>. QED
    BY <2>1, <2>2
<1>. QED
  BY <1>1, <1>8, <1>9, <1>10, NoEdit DEF Inv, KeptIfOwned

LEMMA InitHolds == Init => Inv
<1>. SUFFICES ASSUME Init PROVE Inv
  OBVIOUS
<1>1. ~Held
  BY DEF Init, Held
<1>2. SaveInv
  BY <1>1, SaveEditorAssumption
     DEF Init, SaveInv, MemInv, MemoryHeld, OwnerKnown, RowsInv
<1>3. FaceInv /\ SelInv /\ ShelfInv
  BY <1>1 DEF Init, FaceInv, SelInv, ShelfInv, OnList
<1>4. Counts
  <2>1. 0 \in 0 .. MaxFaults /\ 0 \in 0 .. MaxCommands /\ 0 \in 0 .. MaxGame
    BY NoneFacts
  <2>2. faults = 0 /\ commands = 0 /\ games = 0
    BY DEF Init
  <2>3. open \in BOOLEAN /\ clean \in BOOLEAN /\ moved \in BOOLEAN /\ sealed \subseteq Places
    BY DEF Init
  <2>. QED
    BY <2>1, <2>2, <2>3 DEF Counts
<1>. QED
  BY <1>2, <1>3, <1>4 DEF Inv

LEMMA NextKeeps == ASSUME Inv, Next PROVE KeptIfOwned
<1>1. ASSUME NEW i \in Slots, NEW c \in Importable, ImportChar(i, c) PROVE Kept
  BY <1>1, ImportCharKeeps
<1>2. ASSUME NEW i \in Slots, NEW t \in Texts, RenameChar(i, t) PROVE Kept
  BY <1>2, RenameCharKeeps
<1>3. ASSUME NEW i \in Slots, SetDlcFlag(i) \/ ExportChar(i) PROVE Kept
  BY <1>3, SetDlcFlagKeeps, ExportCharKeeps
<1>4. ASSUME OpenFaces \/ CloseFaces \/ ExportFace PROVE Kept
  BY <1>4, OpenFacesKeeps, CloseFacesKeeps, ExportFaceKeeps
<1>5. ASSUME NEW v \in Faces, FaceCommand(v) PROVE Kept
  BY <1>5, FaceCommandKeeps
<1>6. ASSUME NEW n \in Names, SelectSave(n) PROVE Kept
  BY <1>6, SelectSaveKeeps
<1>7. ASSUME NEW r \in Roots, ChangeFolder(r) PROVE Kept
  BY <1>7, ChangeFolderKeeps
<1>8. ASSUME Start \/ Configure PROVE Kept
  BY <1>8, StartKeeps, ConfigureKeeps
<1>9. ASSUME NEW saved \in BOOLEAN, Stop(saved) PROVE Kept
  BY <1>9, StopKeeps
<1>10. ASSUME NEW s \in Saves, NEW i \in Slots, NEW h \in Heroes, GameSaves(s, i, h) PROVE Kept
  BY <1>10, GameSavesKeeps
<1>11. ASSUME NEW s \in Saves, NEW d \in {None} \cup {x[s] : x \in InitDisks}, Replaced(s, d)
       PROVE  KeptIfOwned
  BY <1>11, ReplacedKeeps
<1>12. Kept => KeptIfOwned
  BY DEF Kept, KeptIfOwned
<1>. QED
  BY <1>1, <1>2, <1>3, <1>4, <1>5, <1>6, <1>7, <1>8, <1>9, <1>10, <1>11, <1>12 DEF Next

LEMMA StutterKeeps == ASSUME Inv, UNCHANGED vars PROVE Inv' /\ (OwnersHeld => OwnersHeld')
<1>1. /\ UNCHANGED <<disk, mem, rows, shelf, faces, faults, commands, games, clean, sealed, edited>>
      /\ UNCHANGED <<path, sub, listed, shown, ini, open, moved>>
  BY DEF vars, settings
<1>2. Held' <=> Held
  BY <1>1 DEF Held
<1>3. SaveInv' /\ (OwnersHeld => OwnersHeld') /\ SelInv'
  BY <1>1, <1>2, SaveFrame, SelFrame DEF Inv
<1>4. FaceInv' /\ ShelfInv' /\ Counts'
  BY <1>1, <1>2 DEF Inv, FaceInv, ShelfInv, Counts
<1>. QED
  BY <1>3, <1>4 DEF Inv

LEMMA Invariance == Spec => []Inv
<1>1. Init => Inv
  BY InitHolds
<1>2. Inv /\ [Next]_vars => Inv'
  BY NextKeeps, StutterKeeps DEF KeptIfOwned
<1>. QED
  BY <1>1, <1>2, PTL DEF Spec

-----------------------------------------------------------------------------
(***************************************************************************)
(* Theorems.                                                               *)
(***************************************************************************)

\* The variables have their types in every state that ERSaveManager reaches.
THEOREM TypeCorrect == Spec => []TypeOK
<1>1. Inv => TypeOK
  BY InvIsEnough
<1>. QED
  BY <1>1, Invariance, PTL

\* What the window edits is what the file holds, and what it wrote has its checksums, as long
\* as no write failed and the game did not save (the edit functions of ersave.c).
THEOREM EditsReachTheFile == Spec => []MemoryIsTheSave
<1>1. Inv => MemoryIsTheSave
  BY InvIsEnough
<1>. QED
  BY <1>1, Invariance, PTL

\* The two list views show what is loaded as long as nothing failed, though only the row of
\* the edited slot is set (update_char_list_view, import_face_data).
THEOREM ListIsTrue == Spec => []ListShowsMemory
<1>1. Inv => ListShowsMemory
  BY InvIsEnough
<1>. QED
  BY <1>1, Invariance, PTL

\* Refused selections never part list, configuration and loaded save while the folder stays
\* (handle_save_folder_selection, restore_previous_save_selection).
THEOREM SelectionStays == Spec => []SelectionIsLoaded
<1>1. Inv => SelectionIsLoaded
  BY InvIsEnough
<1>. QED
  BY <1>1, Invariance, PTL

\* No edit touches another save or the slot of another character, wherever it is cut short
\* (er_char_data_import, er_char_data_rename, er_char_data_set_dlc_flag).
THEOREM SlotsAreApart == Spec => EditsStayInTheirSlot
<1>1. Inv /\ [Next]_vars => [Stays]_vars
  BY NextKeeps DEF KeptIfOwned
<1>2. [Stays]_vars <=>
        [edited' # None /\ edited'.slot # None =>
           /\ \A s \in Saves \ {mem.save} : disk'[s] = disk[s]
           /\ \A j \in Slots \ {edited'.slot} :
                /\ disk'[mem.save][j] = disk[mem.save][j]
                /\ \A x \in {"profile", "used"} :
                     disk'[mem.save][Summary].body[<<x, j>>] =
                       disk[mem.save][Summary].body[<<x, j>>]]_vars
  BY DEF Stays
<1>. QED
  BY <1>1, <1>2, Invariance, PTL DEF Spec, EditsStayInTheirSlot

\* Whatever is re-signed, edited and imported, and wherever it is cut short: a save with its
\* folder's Steam ID in the summary has it in every used slot (er_save_resign_userid writes
\* the summary last, er_char_data_import the owner before the slot is marked as used).
THEOREM OwnersKept ==
  ASSUME InitOwned
  PROVE  Spec => []OwnersFollowSummary
<1>1. Init => Inv /\ OwnersHeld
  <2>. SUFFICES ASSUME Init PROVE OwnersHeld
    BY InitHolds
  <2>1. ~Held /\ disk \in InitDisks
    BY DEF Init, Held
  <2>. QED
    BY <2>1 DEF InitOwned, OwnersHeld
<1>2. Inv /\ OwnersHeld /\ [Next]_vars => Inv' /\ OwnersHeld'
  BY NextKeeps, StutterKeeps DEF KeptIfOwned
<1>3. OwnersHeld => OwnersFollowSummary
  BY HeldAreFollowed
<1>. QED
  BY <1>1, <1>2, <1>3, PTL DEF Spec
=============================================================================
