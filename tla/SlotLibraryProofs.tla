-------------------------- MODULE SlotLibraryProofs --------------------------
(***************************************************************************)
(* Proofs about SlotLibrary, for any libraries, slots, heroes, accounts    *)
(* and bounds.                                                             *)
(***************************************************************************)
EXTENDS SlotLibrary, SequenceTheorems, WellFoundedInduction, TLAPS

LEMMA SmallestNumber ==
  ASSUME NEW K, K \subseteq Nat, K # {}
  PROVE  \E k \in K : \A n \in K : k <= n
<1>1. PICK k \in K : \A n \in K : ~(<<n, k>> \in OpToRel(<, Nat))
  BY NatLessThanWellFounded, WFMin
<1>2. ASSUME NEW n \in K PROVE k <= n
  <2>1. n \in Nat /\ k \in Nat
    OBVIOUS
  <2>2. n < k => <<n, k>> \in OpToRel(<, Nat)
    BY <2>1 DEF OpToRel
  <2>3. ~(n < k)
    BY <1>1, <2>2, Zenon
  <2>. QED
    BY <2>1, <2>3
<1>. QED
  BY <1>2

-----------------------------------------------------------------------------
(***************************************************************************)
(* The writes of a plan, one after the other.                              *)
(***************************************************************************)
IsRun(h, f, plan, k) ==
  h = [j \in 0 .. k |-> IF j = 0 THEN f ELSE Applied(h[j - 1], plan[j])]

LEMMA RunExists ==
  ASSUME NEW f, NEW plan, NEW k \in Nat
  PROVE  \E h : IsRun(h, f, plan, k)
<1>. DEFINE K == {n \in Nat : ~ \E h : IsRun(h, f, plan, n)}
<1>1. SUFFICES ASSUME K # {} PROVE FALSE
  OBVIOUS
<1>2. PICK n \in K : \A j \in K : n <= j
  BY <1>1, SmallestNumber, Zenon
<1>3. n # 0
  <2>1. IsRun([j \in 0 .. 0 |-> f], f, plan, 0)
    BY DEF IsRun
  <2>. QED
    BY <2>1
<1>4. n - 1 \in Nat /\ n - 1 \notin K
  BY <1>2, <1>3
<1>5. PICK h : IsRun(h, f, plan, n - 1)
  BY <1>4
<1>. DEFINE g == [j \in 0 .. n |-> IF j = n THEN Applied(h[n - 1], plan[n]) ELSE h[j]]
<1>6. IsRun(g, f, plan, n)
  <2>1. \A j \in 0 .. n - 1 : h[j] = IF j = 0 THEN f ELSE Applied(h[j - 1], plan[j])
    BY <1>5 DEF IsRun
  <2>2. \A j \in 0 .. n : g[j] = IF j = 0 THEN f ELSE Applied(g[j - 1], plan[j])
    BY <1>3, <1>4, <2>1
  <2>. HIDE DEF g
  <2>3. g = [j \in 0 .. n |-> g[j]]
    BY DEF g
  <2>. QED
    BY <2>2, <2>3 DEF IsRun
<1>. QED
  BY <1>2, <1>6

LEMMA RunsAgree ==
  ASSUME NEW f, NEW plan, NEW k \in Nat, NEW g, NEW h,
         IsRun(g, f, plan, k), IsRun(h, f, plan, k + 1), NEW n \in 0 .. k
  PROVE  g[n] = h[n]
<1>. DEFINE K == {j \in 0 .. k : g[j] # h[j]}
<1>1. SUFFICES ASSUME K # {} PROVE FALSE
  OBVIOUS
<1>2. K \subseteq Nat
  OBVIOUS
<1>3. PICK j \in K : \A i \in K : j <= i
  BY <1>1, <1>2, SmallestNumber, Zenon
<1>4. /\ g[j] = IF j = 0 THEN f ELSE Applied(g[j - 1], plan[j])
      /\ h[j] = IF j = 0 THEN f ELSE Applied(h[j - 1], plan[j])
  BY DEF IsRun
<1>5. j # 0
  BY <1>4
<1>6. j - 1 \in 0 .. k /\ j - 1 \notin K
  BY <1>3, <1>5
<1>. QED
  BY <1>4, <1>5, <1>6

LEMMA WrittenStep ==
  ASSUME NEW f, NEW plan
  PROVE  /\ Written(f, plan, 0) = f
         /\ \A k \in Nat : Written(f, plan, k + 1) = Applied(Written(f, plan, k), plan[k + 1])
<1>. DEFINE done(k) == CHOOSE h : IsRun(h, f, plan, k)
<1>1. ASSUME NEW k \in Nat PROVE IsRun(done(k), f, plan, k)
  BY RunExists
<1>2. ASSUME NEW k \in Nat PROVE Written(f, plan, k) = done(k)[k]
  BY DEF Written, IsRun
<1>. HIDE DEF done
<1>3. ASSUME NEW k \in Nat
      PROVE  Written(f, plan, k + 1) = Applied(Written(f, plan, k), plan[k + 1])
  <2>1. done(k + 1)[k + 1] = Applied(done(k + 1)[k], plan[k + 1])
    <3>1. IsRun(done(k + 1), f, plan, k + 1)
      BY <1>1
    <3>. QED
      BY <3>1 DEF IsRun
  <2>2. done(k)[k] = done(k + 1)[k]
    BY <1>1, RunsAgree
  <2>. QED
    BY <1>2, <2>1, <2>2
<1>4. Written(f, plan, 0) = f
  <2>1. IsRun(done(0), f, plan, 0)
    BY <1>1
  <2>. QED
    BY <1>2, <2>1 DEF IsRun
<1>. QED
  BY <1>3, <1>4

(***************************************************************************)
(* The plans of the libraries.                                             *)
(***************************************************************************)
\* Writes k and k + 1 of a plan put a body with its checksum at a place.
Seals(plan, k, p, body) ==
  plan[k] = Write(p, "sum", body) /\ plan[k + 1] = Write(p, "body", body)

LEMMA PlanIs ==
  ASSUME NEW m, NEW item, NEW i
  PROVE  LET plan == Plan(m, item, i)
             new  == ImportedSummary(m, item, i)
         IN  /\ lib = "er" =>
                  /\ Len(plan) = 5 /\ Seals(plan, 1, <<i, "a">>, ImportedPart(m, item, "a"))
                  /\ plan[3] = Write(Summary, "sum", new)
                  /\ plan[4] = Write(Summary, "profile", <<i, item.profile>>)
                  /\ plan[5] = Write(Summary, "used", i)
             /\ lib = "ds2" =>
                  /\ Len(plan) = 6 /\ Seals(plan, 1, Summary, new)
                  /\ Seals(plan, 3, <<i, "a">>, ImportedPart(m, item, "a"))
                  /\ Seals(plan, 5, <<i, "b">>, ImportedPart(m, item, "b"))
             /\ lib \notin {"er", "ds2"} =>
                  /\ Len(plan) = 4 /\ Seals(plan, 1, <<i, "a">>, ImportedPart(m, item, "a"))
                  /\ Seals(plan, 3, Summary, new)
<1>. DEFINE new == ImportedSummary(m, item, i)
            a   == ImportedPart(m, item, "a")
            b   == ImportedPart(m, item, "b")
<1>. HIDE DEF new, a, b
<1>. DEFINE s1 == <<Write(Summary, "sum", new), Write(Summary, "body", new)>>
            a1 == <<Write(<<i, "a">>, "sum", a), Write(<<i, "a">>, "body", a)>>
            b1 == <<Write(<<i, "b">>, "sum", b), Write(<<i, "b">>, "body", b)>>
            e1 == <<Write(Summary, "sum", new), Write(Summary, "profile", <<i, item.profile>>),
                    Write(Summary, "used", i)>>
<1>1. Plan(m, item, i) = IF lib = "er" THEN a1 \o e1
                         ELSE IF lib = "ds2" THEN s1 \o a1 \o b1 ELSE a1 \o s1
  BY DEF Plan, WritePlan, ErPlan, Ds2Plan, OtherPlan, CharPlan, SealedWrite, new, a, b
<1>2. CASE lib = "er"
  <2>1. Len(a1 \o e1) = 5 /\ \A k \in 1 .. 5 : (a1 \o e1)[k] = IF k <= 2 THEN a1[k] ELSE e1[k - 2]
    OBVIOUS
  <2>2. lib # "ds2" /\ Plan(m, item, i) = a1 \o e1
    BY <1>1, <1>2
  <2>3. LET p == a1 \o e1 IN
        /\ Len(p) = 5 /\ p[1] = a1[1] /\ p[1 + 1] = a1[2]
        /\ p[3] = e1[1] /\ p[4] = e1[2] /\ p[5] = e1[3]
    BY <2>1
  <2>. QED
    BY <1>2, <2>2, <2>3 DEF Seals, new, a, b
<1>3. CASE lib = "ds2"
  <2>1. LET p == s1 \o a1 \o b1 IN
        /\ Len(p) = 6 /\ p[1] = s1[1] /\ p[1 + 1] = s1[2]
        /\ p[3] = a1[1] /\ p[3 + 1] = a1[2] /\ p[5] = b1[1] /\ p[5 + 1] = b1[2]
    OBVIOUS
  <2>2. lib # "er" /\ Plan(m, item, i) = s1 \o a1 \o b1
    BY <1>1, <1>3
  <2>. QED
    BY <1>3, <2>1, <2>2 DEF Seals, new, a, b
<1>4. CASE lib \notin {"er", "ds2"}
  <2>1. LET p == a1 \o s1 IN
        /\ Len(p) = 4 /\ p[1] = a1[1] /\ p[1 + 1] = a1[2] /\ p[3] = s1[1] /\ p[3 + 1] = s1[2]
    OBVIOUS
  <2>2. lib # "er" /\ lib # "ds2" /\ Plan(m, item, i) = a1 \o s1
    BY <1>1, <1>4
  <2>. QED
    BY <1>4, <2>1, <2>2 DEF Seals, new, a, b
<1>. QED
  BY <1>2, <1>3, <1>4

-----------------------------------------------------------------------------
(***************************************************************************)
(* Files.  Every write, whole or cut short, puts one region at one place.  *)
(***************************************************************************)
Put(f, p, r)   == [q \in Places |-> IF q = p THEN r ELSE f[q]]
BodiesAt(p)    == IF p = Summary THEN SummaryBodies ELSE CharBodies
Hero(f, i, p)  == f[<<i, p>>].body.hero

LEMMA Constants ==
  /\ NoHero \notin Heroes /\ None \notin Slots /\ None \notin Slots \X Heroes
  /\ MaxSaves \in Nat /\ MaxFaults \in Nat /\ MaxTemps \in Nat
BY SlotLibraryAssumption

LEMMA PlaceFacts ==
  /\ Summary \in Places
  /\ \A i \in Slots, p \in Parts : <<i, p>> \in Places /\ <<i, p>> # Summary
  /\ \A q \in Places : q # Summary => /\ q = <<q[1], q[2]>> /\ q[1] \in Slots /\ q[2] \in Parts
  /\ "a" \in Parts
  /\ lib = "ds2" => Parts = {"a", "b"}
  /\ lib # "ds2" => Parts = {"a"}
<1>1. None \notin Slots
  BY Constants
<1>2. \A i \in Slots, p \in Parts : <<i, p>> \in Places /\ <<i, p>> # Summary
  BY <1>1 DEF Places, Summary
<1>. QED
  BY <1>2 DEF Places, Summary, Parts

LEMMA RegionIs ==
  ASSUME NEW f, IsSave(f), NEW p \in Places
  PROVE  /\ f[p] = [body |-> f[p].body, sum |-> f[p].sum]
         /\ f[p].body \in BodiesAt(p) /\ f[p].sum \in BodiesAt(p) \cup {Torn}
<1>1. f[p] \in [body : BodiesAt(p), sum : BodiesAt(p) \cup {Torn}]
  BY DEF IsSave, IsRegion, BodiesAt
<1>. QED
  BY <1>1

LEMMA PutKeeps ==
  ASSUME NEW f, IsSave(f), NEW p \in Places, NEW v \in BodiesAt(p),
         NEW s \in BodiesAt(p) \cup {Torn}
  PROVE  /\ IsSave(Put(f, p, [body |-> v, sum |-> s]))
         /\ Put(f, p, [body |-> v, sum |-> s])[p] = [body |-> v, sum |-> s]
         /\ \A q \in Places : q # p => Put(f, p, [body |-> v, sum |-> s])[q] = f[q]
<1>. DEFINE g == Put(f, p, [body |-> v, sum |-> s])
<1>1. g[p] = [body |-> v, sum |-> s] /\ \A q \in Places : q # p => g[q] = f[q]
  BY DEF Put
<1>2. g = [q \in Places |-> g[q]]
  BY DEF Put
<1>3. \A q \in Places : IsRegion(g[q], BodiesAt(q))
  <2>1. IsRegion(g[p], BodiesAt(p))
    BY <1>1 DEF IsRegion
  <2>2. ASSUME NEW q \in Places, q # p PROVE IsRegion(g[q], BodiesAt(q))
    BY <1>1, <2>2 DEF IsSave, IsRegion, BodiesAt
  <2>. QED
    BY <2>1, <2>2
<1>. HIDE DEF g
<1>4. IsSave(g)
  BY <1>2, <1>3 DEF IsSave, BodiesAt
<1>. QED
  BY <1>1, <1>4 DEF g

\* Records as EXCEPT leaves them.
WithProfile(v, i, h) == [v EXCEPT !.profile[i] = h]
WithUsed(v, i)       == [v EXCEPT !.used[i] = TRUE]
Cut(v)               == [v EXCEPT !.whole = FALSE]

LEMMA ExceptIs ==
  ASSUME NEW f, IsSave(f), NEW p \in Places
  PROVE  /\ \A x : [f EXCEPT ![p].sum = x] = Put(f, p, [body |-> f[p].body, sum |-> x])
         /\ \A x : [f EXCEPT ![p].body = x] = Put(f, p, [body |-> x, sum |-> f[p].sum])
<1>1. f = [q \in Places |-> f[q]]
  BY DEF IsSave
<1>2. f[p] = [body |-> f[p].body, sum |-> f[p].sum]
  BY RegionIs
<1>3. \A x : [f EXCEPT ![p].sum = x] = Put(f, p, [body |-> f[p].body, sum |-> x])
  BY <1>1, <1>2 DEF Put
<1>4. \A x : [f EXCEPT ![p].body = x] = Put(f, p, [body |-> x, sum |-> f[p].sum])
  BY <1>1, <1>2 DEF Put
<1>. QED
  BY <1>3, <1>4

LEMMA WritesAre ==
  ASSUME NEW f, NEW p, NEW v
  PROVE  /\ Applied(f, Write(p, "sum", v)) = [f EXCEPT ![p].sum = v]
         /\ Applied(f, Write(p, "body", v)) = [f EXCEPT ![p].body = v]
         /\ CutShort(f, Write(p, "sum", v)) = [f EXCEPT ![p].sum = Torn]
         /\ CutShort(f, Write(p, "body", v)) = [f EXCEPT ![p].body = Cut(v)]
BY DEF Applied, CutShort, Write, Cut

LEMMA SumIs ==
  ASSUME NEW f, IsSave(f), NEW p \in Places, NEW v
  PROVE  Applied(f, Write(p, "sum", v)) = Put(f, p, [body |-> f[p].body, sum |-> v])
<1>1. Applied(f, Write(p, "sum", v)) = [f EXCEPT ![p].sum = v]
  BY WritesAre
<1>. QED
  BY <1>1, ExceptIs

LEMMA BodyIs ==
  ASSUME NEW f, IsSave(f), NEW p \in Places, NEW v
  PROVE  Applied(f, Write(p, "body", v)) = Put(f, p, [body |-> v, sum |-> f[p].sum])
<1>1. Applied(f, Write(p, "body", v)) = [f EXCEPT ![p].body = v]
  BY WritesAre
<1>. QED
  BY <1>1, ExceptIs

LEMMA SumCutIs ==
  ASSUME NEW f, IsSave(f), NEW p \in Places, NEW v
  PROVE  CutShort(f, Write(p, "sum", v)) = Put(f, p, [body |-> f[p].body, sum |-> Torn])
<1>1. CutShort(f, Write(p, "sum", v)) = [f EXCEPT ![p].sum = Torn]
  BY WritesAre
<1>. QED
  BY <1>1, ExceptIs

LEMMA BodyCutIs ==
  ASSUME NEW f, IsSave(f), NEW p \in Places, NEW v
  PROVE  CutShort(f, Write(p, "body", v)) = Put(f, p, [body |-> Cut(v), sum |-> f[p].sum])
<1>1. CutShort(f, Write(p, "body", v)) = [f EXCEPT ![p].body = Cut(v)]
  BY WritesAre
<1>. QED
  BY <1>1, ExceptIs

LEMMA SummaryWritesAre ==
  ASSUME NEW f, IsSave(f), NEW i \in Slots, NEW h
  PROVE  LET v == SummaryOf(f)
             s == f[Summary].sum
             announce == Write(Summary, "used", i)
             describe == Write(Summary, "profile", <<i, h>>)
         IN  /\ Applied(f, describe) = Put(f, Summary, [body |-> WithProfile(v, i, h), sum |-> s])
             /\ Applied(f, announce) = Put(f, Summary, [body |-> WithUsed(v, i), sum |-> s])
             /\ CutShort(f, describe) = Put(f, Summary, [body |-> Cut(v), sum |-> s])
             /\ CutShort(f, announce) = f
<1>1. f = [q \in Places |-> f[q]]
  BY DEF IsSave
<1>2. f[Summary] = [body |-> f[Summary].body, sum |-> f[Summary].sum]
  BY RegionIs, PlaceFacts
<1>. DEFINE describe == Write(Summary, "profile", <<i, h>>)
            announce == Write(Summary, "used", i)
<1>3. Applied(f, describe) = Put(f, Summary, [body |-> WithProfile(f[Summary].body, i, h), sum |-> f[Summary].sum])
  <2>1. Applied(f, describe) = [f EXCEPT ![Summary].body.profile[i] = h]
    BY DEF Applied, Write
  <2>. QED
    BY <1>1, <1>2, <2>1, PlaceFacts DEF Put, WithProfile
<1>4. Applied(f, announce) = Put(f, Summary, [body |-> WithUsed(f[Summary].body, i), sum |-> f[Summary].sum])
  <2>1. Applied(f, announce) = [f EXCEPT ![Summary].body.used[i] = TRUE]
    BY DEF Applied, Write
  <2>. QED
    BY <1>1, <1>2, <2>1, PlaceFacts DEF Put, WithUsed
<1>5. CutShort(f, describe) = Put(f, Summary, [body |-> Cut(f[Summary].body), sum |-> f[Summary].sum])
  <2>1. CutShort(f, describe) = [f EXCEPT ![Summary].body.whole = FALSE]
    BY DEF CutShort, Write
  <2>. QED
    BY <1>1, <1>2, <2>1, PlaceFacts DEF Put, Cut
<1>6. CutShort(f, announce) = f
  BY DEF CutShort, Write
<1>. QED
  BY <1>3, <1>4, <1>5, <1>6 DEF SummaryOf

Profiles == [Slots -> Heroes \cup {NoHero}]
Uses     == [Slots -> BOOLEAN]

SummaryBody(u, k, r, s, b) ==
  [user |-> u, active |-> k, profile |-> r, used |-> s, whole |-> b]
CharBody(h, u, b) == [hero |-> h, owner |-> u, whole |-> b]

LEMMA IsSummaryBody ==
  ASSUME NEW u \in Users, NEW k \in Slots \cup {None}, NEW r \in Profiles,
         NEW s \in Uses, NEW b \in BOOLEAN
  PROVE  /\ SummaryBody(u, k, r, s, b) \in SummaryBodies
         /\ SummaryBody(u, k, r, s, b).profile = r /\ SummaryBody(u, k, r, s, b).used = s
BY DEF SummaryBodies, SummaryBody, Profiles, Uses

LEMMA IsCharBody ==
  ASSUME NEW h \in Heroes \cup {NoHero}, NEW u \in Users, NEW b \in BOOLEAN
  PROVE  CharBody(h, u, b) \in CharBodies /\ CharBody(h, u, b).hero = h
BY DEF CharBodies, CharBody

LEMMA SummaryParts ==
  ASSUME NEW v \in SummaryBodies
  PROVE  /\ v = SummaryBody(v.user, v.active, v.profile, v.used, v.whole)
         /\ v.user \in Users /\ v.active \in Slots \cup {None} /\ v.profile \in Profiles
         /\ v.used \in Uses /\ v.whole \in BOOLEAN
BY DEF SummaryBodies, SummaryBody, Profiles, Uses

LEMMA WithProfileIs ==
  ASSUME NEW v \in SummaryBodies, NEW i \in Slots, NEW h \in Heroes \cup {NoHero}
  PROVE  /\ WithProfile(v, i, h) \in SummaryBodies
         /\ WithProfile(v, i, h).used = v.used
         /\ WithProfile(v, i, h).profile = [v.profile EXCEPT ![i] = h]
<1>1. v = SummaryBody(v.user, v.active, v.profile, v.used, v.whole)
  BY SummaryParts
<1>2. /\ v.user \in Users /\ v.active \in Slots \cup {None}
      /\ v.profile \in Profiles /\ v.used \in Uses
      /\ v.whole \in BOOLEAN
  BY SummaryParts
<1>3. [v.profile EXCEPT ![i] = h] \in Profiles
  BY <1>2 DEF Profiles
<1>4. WithProfile(v, i, h)
        = SummaryBody(v.user, v.active, [v.profile EXCEPT ![i] = h], v.used, v.whole)
  BY <1>1 DEF WithProfile, SummaryBody
<1>5. /\ WithProfile(v, i, h) \in SummaryBodies
      /\ WithProfile(v, i, h).used = v.used
      /\ WithProfile(v, i, h).profile = [v.profile EXCEPT ![i] = h]
  <2>. DEFINE r == [v.profile EXCEPT ![i] = h]
  <2>. HIDE DEF r
  <2>1. r \in Profiles
    BY <1>3 DEF r
  <2>2. WithProfile(v, i, h) = SummaryBody(v.user, v.active, r, v.used, v.whole)
    BY <1>4 DEF r
  <2>3. ASSUME NEW u \in Users, NEW k \in Slots \cup {None}, NEW s \in Uses, NEW b \in BOOLEAN
        PROVE  /\ SummaryBody(u, k, r, s, b) \in SummaryBodies
               /\ SummaryBody(u, k, r, s, b).used = s /\ SummaryBody(u, k, r, s, b).profile = r
    BY <2>1, IsSummaryBody
  <2>4. LET x == SummaryBody(v.user, v.active, r, v.used, v.whole)
        IN  x \in SummaryBodies /\ x.used = v.used /\ x.profile = r
    BY <1>2, <2>3, Zenon
  <2>. QED
    BY <2>2, <2>4, Zenon DEF r
<1>. QED
  BY <1>5, Zenon

LEMMA WithUsedIs ==
  ASSUME NEW v \in SummaryBodies, NEW i \in Slots
  PROVE  /\ WithUsed(v, i) \in SummaryBodies
         /\ WithUsed(v, i).used = [v.used EXCEPT ![i] = TRUE]
         /\ WithUsed(v, i).profile = v.profile
<1>1. v = SummaryBody(v.user, v.active, v.profile, v.used, v.whole)
  BY SummaryParts
<1>2. /\ v.user \in Users /\ v.active \in Slots \cup {None}
      /\ v.profile \in Profiles /\ v.used \in Uses
      /\ v.whole \in BOOLEAN
  BY SummaryParts
<1>3. [v.used EXCEPT ![i] = TRUE] \in Uses
  BY <1>2 DEF Uses
<1>4. WithUsed(v, i)
        = SummaryBody(v.user, v.active, v.profile, [v.used EXCEPT ![i] = TRUE], v.whole)
  <2>1. \A b : [v EXCEPT !.used[i] = b]
                 = SummaryBody(v.user, v.active, v.profile, [v.used EXCEPT ![i] = b], v.whole)
    BY <1>1 DEF SummaryBody
  <2>. QED
    BY <2>1, Zenon DEF WithUsed
<1>5. /\ WithUsed(v, i) \in SummaryBodies
      /\ WithUsed(v, i).used = [v.used EXCEPT ![i] = TRUE] /\ WithUsed(v, i).profile = v.profile
  <2>. DEFINE s == [v.used EXCEPT ![i] = TRUE]
  <2>. HIDE DEF s
  <2>1. s \in Uses
    BY <1>3 DEF s
  <2>2. WithUsed(v, i) = SummaryBody(v.user, v.active, v.profile, s, v.whole)
    BY <1>4 DEF s
  <2>. QED
    BY <1>2, <2>1, <2>2, IsSummaryBody DEF s
<1>. QED
  BY <1>5, Zenon

LEMMA CutIs ==
  ASSUME NEW v \in SummaryBodies
  PROVE  Cut(v) \in SummaryBodies /\ Cut(v).used = v.used
<1>1. v = SummaryBody(v.user, v.active, v.profile, v.used, v.whole)
  BY SummaryParts
<1>2. /\ v.user \in Users /\ v.active \in Slots \cup {None}
      /\ v.profile \in Profiles /\ v.used \in Uses
      /\ v.whole \in BOOLEAN
  BY SummaryParts
<1>3. FALSE \in BOOLEAN
  OBVIOUS
<1>4. Cut(v) = SummaryBody(v.user, v.active, v.profile, v.used, FALSE)
  <2>1. \A b : [v EXCEPT !.whole = b] = SummaryBody(v.user, v.active, v.profile, v.used, b)
    BY <1>1 DEF SummaryBody
  <2>. QED
    BY <2>1, Zenon DEF Cut
<1>5. Cut(v) \in SummaryBodies /\ Cut(v).used = v.used
  <2>1. \A b \in BOOLEAN : /\ SummaryBody(v.user, v.active, v.profile, v.used, b) \in SummaryBodies
                           /\ SummaryBody(v.user, v.active, v.profile, v.used, b).used = v.used
    <3>1. ASSUME NEW u \in Users, NEW k \in Slots \cup {None}, NEW r \in Profiles,
                 NEW s \in Uses, NEW b \in BOOLEAN
          PROVE  SummaryBody(u, k, r, s, b) \in SummaryBodies /\ SummaryBody(u, k, r, s, b).used = s
      BY IsSummaryBody
    <3>. QED
      BY <1>2, <3>1, Zenon
  <2>. QED
    BY <1>3, <1>4, <2>1, Zenon
<1>. QED
  BY <1>5, Zenon

LEMMA CharBodyIs ==
  ASSUME NEW c \in CharBodies, NEW u \in Users
  PROVE  /\ Cut(c) \in CharBodies /\ Cut(c).hero = c.hero
         /\ [c EXCEPT !.owner = u] \in CharBodies /\ [c EXCEPT !.owner = u].hero = c.hero
         /\ c.hero \in Heroes \cup {NoHero}
<1>1. /\ c = CharBody(c.hero, c.owner, c.whole)
      /\ c.hero \in Heroes \cup {NoHero} /\ c.owner \in Users /\ c.whole \in BOOLEAN
  BY DEF CharBodies, CharBody
<1>2. [c EXCEPT !.owner = u] = CharBody(c.hero, u, c.whole)
  BY <1>1 DEF CharBody
<1>3. [c EXCEPT !.owner = u] \in CharBodies /\ [c EXCEPT !.owner = u].hero = c.hero
  BY <1>1, <1>2, IsCharBody
<1>4. Cut(c) = CharBody(c.hero, c.owner, FALSE)
  <2>1. \A b : [c EXCEPT !.whole = b] = CharBody(c.hero, c.owner, b)
    BY <1>1 DEF CharBody
  <2>. QED
    BY <2>1, Zenon DEF Cut
<1>5. Cut(c) \in CharBodies /\ Cut(c).hero = c.hero
  <2>1. \A b \in BOOLEAN : /\ CharBody(c.hero, c.owner, b) \in CharBodies
                           /\ CharBody(c.hero, c.owner, b).hero = c.hero
    BY <1>1, IsCharBody
  <2>2. FALSE \in BOOLEAN
    OBVIOUS
  <2>. QED
    BY <1>4, <2>1, <2>2, Zenon
<1>. QED
  BY <1>1, <1>3, <1>5

LEMMA SaveIs ==
  ASSUME NEW f, IsSave(f)
  PROVE  /\ SummaryOf(f) \in SummaryBodies
         /\ \A i \in Slots, p \in Parts : f[<<i, p>>].body \in CharBodies
<1>1. SummaryOf(f) \in SummaryBodies
  BY RegionIs, PlaceFacts DEF SummaryOf, BodiesAt
<1>2. ASSUME NEW i \in Slots, NEW p \in Parts PROVE f[<<i, p>>].body \in CharBodies
  <2>1. <<i, p>> \in Places /\ <<i, p>> # Summary
    BY PlaceFacts
  <2>. QED
    BY <2>1, RegionIs DEF BodiesAt
<1>. QED
  BY <1>1, <1>2

IsSlotItem(x) == /\ x.part \in [Parts -> CharBodies]
                 /\ x.profile \in Heroes \cup {NoHero}

LEMMA ImportedPartIs ==
  ASSUME NEW m, IsSave(m), NEW item, IsSlotItem(item), NEW p \in Parts
  PROVE  /\ ImportedPart(m, item, p) \in CharBodies
         /\ ImportedPart(m, item, p).hero = item.part[p].hero
<1>1. SummaryOf(m).user \in Users
  BY SaveIs DEF SummaryBodies
<1>2. item.part[p] \in CharBodies
  BY DEF IsSlotItem
<1>. QED
  BY <1>1, <1>2, CharBodyIs DEF ImportedPart

LEMMA ImportedSummaryIs ==
  ASSUME NEW m, NEW item, NEW i
  PROVE  ImportedSummary(m, item, i) = WithUsed(WithProfile(SummaryOf(m), i, item.profile), i)
BY DEF ImportedSummary, WithUsed, WithProfile

LEMMA ImportedSummaryParts ==
  ASSUME NEW m, IsSave(m), NEW item, IsSlotItem(item), NEW i \in Slots
  PROVE  /\ ImportedSummary(m, item, i) \in SummaryBodies
         /\ ImportedSummary(m, item, i).used = [SummaryOf(m).used EXCEPT ![i] = TRUE]
         /\ ImportedSummary(m, item, i).profile = [SummaryOf(m).profile EXCEPT ![i] = item.profile]
<1>. DEFINE v == SummaryOf(m)
            h == item.profile
            w == WithProfile(v, i, h)
<1>1. h \in Heroes \cup {NoHero} /\ v \in SummaryBodies
  BY SaveIs DEF IsSlotItem
<1>. HIDE DEF v, h
<1>2. w \in SummaryBodies /\ w.used = v.used /\ w.profile = [v.profile EXCEPT ![i] = h]
  BY <1>1, WithProfileIs
<1>. HIDE DEF w
<1>3. /\ WithUsed(w, i) \in SummaryBodies
      /\ WithUsed(w, i).used = [w.used EXCEPT ![i] = TRUE]
      /\ WithUsed(w, i).profile = w.profile
  BY <1>2, WithUsedIs
<1>4. ImportedSummary(m, item, i) = WithUsed(w, i)
  BY ImportedSummaryIs DEF v, h, w
<1>. QED
  BY <1>2, <1>3, <1>4 DEF v, h

-----------------------------------------------------------------------------
(***************************************************************************)
(* What holds of a file after any of the writes of a plan, and in the      *)
(* middle of one: no slot is announced, here or in the copy m that the     *)
(* plan was made from, whose character was not written.                    *)
(***************************************************************************)
AllWritten(f, m) == lib # "ds2" => \A j \in Announced(m) : Hero(f, j, "a") # NoHero
Ready(f, i)      == lib # "ds2" => Hero(f, i, "a") # NoHero
Ground(f, m)     == IsSave(f) /\ AllWritten(f, f) /\ AllWritten(f, m)

LEMMA SumKeeps ==
  ASSUME NEW f, NEW m, Ground(f, m), NEW p \in Places, NEW s \in BodiesAt(p) \cup {Torn},
         NEW i \in Slots
  PROVE  LET g == Put(f, p, [body |-> f[p].body, sum |-> s])
         IN  Ground(g, m) /\ (Ready(f, i) => Ready(g, i))
<1>. DEFINE g == Put(f, p, [body |-> f[p].body, sum |-> s])
<1>1. f[p].body \in BodiesAt(p)
  BY RegionIs DEF Ground
<1>2. /\ IsSave(g) /\ g[p].body = f[p].body
      /\ \A q \in Places : q # p => g[q] = f[q]
  BY <1>1, PutKeeps DEF Ground
<1>3. \A q \in Places : g[q].body = f[q].body
  BY <1>2
<1>. HIDE DEF g
<1>4. Announced(g) = Announced(f)
  BY <1>3, PlaceFacts DEF Announced, SummaryOf
<1>5. lib # "ds2" => \A j \in Slots : Hero(g, j, "a") = Hero(f, j, "a")
  BY <1>3, PlaceFacts DEF Hero
<1>6. AllWritten(g, g) /\ AllWritten(g, m)
  BY <1>4, <1>5 DEF AllWritten, Ground, Announced
<1>. QED
  BY <1>2, <1>5, <1>6 DEF Ground, Ready, g

LEMMA CharKeeps ==
  ASSUME NEW f, NEW m, Ground(f, m), NEW i \in Slots, NEW p \in Parts,
         NEW c \in CharBodies, lib # "ds2" => c.hero # NoHero
  PROVE  LET g == Put(f, <<i, p>>, [body |-> c, sum |-> f[<<i, p>>].sum])
         IN  Ground(g, m) /\ Ready(g, i)
<1>. DEFINE at == <<i, p>>
            g  == Put(f, at, [body |-> c, sum |-> f[at].sum])
<1>1. at \in Places /\ at # Summary /\ BodiesAt(at) = CharBodies
  BY PlaceFacts DEF BodiesAt
<1>2. f[at].sum \in BodiesAt(at) \cup {Torn}
  BY <1>1, RegionIs DEF Ground
<1>3. IsSave(g) /\ g[at].body = c /\ \A q \in Places : q # at => g[q] = f[q]
  BY <1>1, <1>2, PutKeeps DEF Ground
<1>. HIDE DEF g
<1>4. Announced(g) = Announced(f)
  BY <1>1, <1>3, PlaceFacts DEF Announced, SummaryOf
<1>5. ASSUME lib # "ds2"
      PROVE  /\ Hero(g, i, "a") # NoHero
             /\ \A j \in Slots : j # i => Hero(g, j, "a") = Hero(f, j, "a")
  <2>1. p = "a"
    BY <1>5, PlaceFacts
  <2>2. \A j \in Slots : <<j, "a">> \in Places /\ (j # i => <<j, "a">> # at)
    BY PlaceFacts
  <2>. QED
    BY <1>3, <1>5, <2>1, <2>2 DEF Hero
<1>6. AllWritten(g, g) /\ AllWritten(g, m)
  BY <1>4, <1>5 DEF AllWritten, Ground, Announced
<1>. QED
  BY <1>3, <1>5, <1>6 DEF Ground, Ready, g

LEMMA SummaryKeeps ==
  ASSUME NEW f, NEW m, Ground(f, m), NEW i \in Slots, Ready(f, i),
         NEW v \in SummaryBodies,
         \A j \in Slots : v.used[j] => j = i \/ j \in Announced(f) \/ j \in Announced(m)
  PROVE  LET g == Put(f, Summary, [body |-> v, sum |-> f[Summary].sum])
         IN  Ground(g, m) /\ Ready(g, i)
<1>. DEFINE g == Put(f, Summary, [body |-> v, sum |-> f[Summary].sum])
<1>1. f[Summary].sum \in BodiesAt(Summary) \cup {Torn} /\ v \in BodiesAt(Summary)
  BY PlaceFacts, RegionIs DEF Ground, BodiesAt
<1>2. IsSave(g) /\ g[Summary].body = v /\ \A q \in Places : q # Summary => g[q] = f[q]
  BY <1>1, PlaceFacts, PutKeeps DEF Ground
<1>. HIDE DEF g
<1>3. Announced(g) = {j \in Slots : v.used[j]}
  BY <1>2 DEF Announced, SummaryOf
<1>4. \A j \in Slots : Hero(g, j, "a") = Hero(f, j, "a")
  BY <1>2, PlaceFacts DEF Hero
<1>5. AllWritten(g, g) /\ AllWritten(g, m)
  BY <1>3, <1>4 DEF AllWritten, Ground, Announced, Ready
<1>. QED
  BY <1>2, <1>4, <1>5 DEF Ground, Ready, g

LEMMA PutTwice ==
  ASSUME NEW f, NEW p \in Places, NEW r, NEW s
  PROVE  Put(Put(f, p, r), p, s) = Put(f, p, s)
BY DEF Put

\* A body and its checksum: before, between and after the two writes, and in each.
LEMMA CharSealKeeps ==
  ASSUME NEW f, NEW m, Ground(f, m), NEW i \in Slots, NEW p \in Parts, NEW c \in CharBodies,
         lib # "ds2" => c.hero # NoHero, NEW plan, NEW k, Seals(plan, k, <<i, p>>, c)
  PROVE  LET f1 == Applied(f, plan[k])
             f2 == Applied(f1, plan[k + 1])
         IN  /\ Ground(f1, m) /\ Ground(f2, m) /\ Ready(f2, i)
             /\ f2 = Put(f, <<i, p>>, Intact(c))
             /\ Ground(CutShort(f, plan[k]), m) /\ Ground(CutShort(f1, plan[k + 1]), m)
<1>. DEFINE at == <<i, p>>
            f1 == Applied(f, plan[k])
            f2 == Applied(f1, plan[k + 1])
<1>1. at \in Places /\ BodiesAt(at) = CharBodies
  BY PlaceFacts DEF BodiesAt
<1>2. plan[k] = Write(at, "sum", c) /\ plan[k + 1] = Write(at, "body", c)
  BY DEF Seals
<1>. HIDE DEF at
<1>3. IsSave(f)
  BY DEF Ground
<1>4. f1 = Put(f, at, [body |-> f[at].body, sum |-> c])
  BY <1>1, <1>2, <1>3, SumIs
<1>5. CutShort(f, plan[k]) = Put(f, at, [body |-> f[at].body, sum |-> Torn])
  BY <1>1, <1>2, <1>3, SumCutIs
<1>6. Ground(f1, m) /\ Ground(CutShort(f, plan[k]), m)
  <2>1. c \in BodiesAt(at) \cup {Torn} /\ Torn \in BodiesAt(at) \cup {Torn}
    BY <1>1
  <2>. QED
    BY <1>1, <1>4, <1>5, <2>1, SumKeeps
<1>7. IsSave(f1)
  BY <1>6 DEF Ground
<1>8. f1[at].sum = c
  BY <1>1, <1>4 DEF Put
<1>. HIDE DEF f1
<1>9. f2 = Put(f1, at, [body |-> c, sum |-> c])
  BY <1>1, <1>2, <1>7, <1>8, BodyIs
<1>10. CutShort(f1, plan[k + 1]) = Put(f1, at, [body |-> Cut(c), sum |-> f1[at].sum])
  BY <1>1, <1>2, <1>7, BodyCutIs
<1>11. Ground(f2, m) /\ Ready(f2, i)
  BY <1>6, <1>8, <1>9, CharKeeps DEF at
<1>12. Ground(CutShort(f1, plan[k + 1]), m)
  <2>1. Cut(c) \in CharBodies /\ Cut(c).hero = c.hero
    <3>1. c.owner \in Users
      BY DEF CharBodies
    <3>. QED
      BY <3>1, CharBodyIs
  <2>. QED
    BY <1>6, <1>10, <2>1, CharKeeps DEF at
<1>13. f2 = Put(f, at, Intact(c))
  BY <1>1, <1>4, <1>9, PutTwice DEF Intact
<1>. QED
  BY <1>6, <1>11, <1>12, <1>13 DEF at, f1

LEMMA SummarySealKeeps ==
  ASSUME NEW f, NEW m, Ground(f, m), NEW i \in Slots, Ready(f, i), NEW v \in SummaryBodies,
         \A j \in Slots : v.used[j] => j = i \/ j \in Announced(m),
         NEW plan, NEW k, Seals(plan, k, Summary, v)
  PROVE  LET f1 == Applied(f, plan[k])
             f2 == Applied(f1, plan[k + 1])
         IN  /\ Ground(f1, m) /\ Ground(f2, m)
             /\ f2 = Put(f, Summary, Intact(v))
             /\ Ground(CutShort(f, plan[k]), m) /\ Ground(CutShort(f1, plan[k + 1]), m)
<1>. DEFINE f1 == Applied(f, plan[k])
            f2 == Applied(f1, plan[k + 1])
<1>1. Summary \in Places /\ BodiesAt(Summary) = SummaryBodies
  BY PlaceFacts DEF BodiesAt
<1>2. plan[k] = Write(Summary, "sum", v) /\ plan[k + 1] = Write(Summary, "body", v)
  BY DEF Seals
<1>3. IsSave(f)
  BY DEF Ground
<1>4. f1 = Put(f, Summary, [body |-> f[Summary].body, sum |-> v])
  BY <1>1, <1>2, <1>3, SumIs
<1>5. CutShort(f, plan[k]) = Put(f, Summary, [body |-> f[Summary].body, sum |-> Torn])
  BY <1>1, <1>2, <1>3, SumCutIs
<1>6. Ground(f1, m) /\ Ready(f1, i) /\ Ground(CutShort(f, plan[k]), m)
  <2>1. v \in BodiesAt(Summary) \cup {Torn} /\ Torn \in BodiesAt(Summary) \cup {Torn}
    BY <1>1
  <2>. QED
    BY <1>1, <1>4, <1>5, <2>1, SumKeeps
<1>7. IsSave(f1)
  BY <1>6 DEF Ground
<1>8. f1[Summary].sum = v
  BY <1>1, <1>4 DEF Put
<1>. HIDE DEF f1
<1>9. f2 = Put(f1, Summary, [body |-> v, sum |-> v])
  BY <1>1, <1>2, <1>7, <1>8, BodyIs
<1>10. CutShort(f1, plan[k + 1]) = Put(f1, Summary, [body |-> Cut(v), sum |-> f1[Summary].sum])
  BY <1>1, <1>2, <1>7, BodyCutIs
<1>11. Ground(f2, m)
  BY <1>6, <1>8, <1>9, SummaryKeeps
<1>12. Ground(CutShort(f1, plan[k + 1]), m)
  <2>1. Cut(v) \in SummaryBodies /\ Cut(v).used = v.used
    BY CutIs
  <2>2. \A j \in Slots : Cut(v).used[j] => j = i \/ j \in Announced(m)
    BY <2>1
  <2>. HIDE DEF Cut
  <2>. QED
    BY <1>6, <1>10, <2>1, <2>2, SummaryKeeps
<1>13. f2 = Put(f, Summary, Intact(v))
  BY <1>1, <1>4, <1>9, PutTwice DEF Intact
<1>. QED
  BY <1>6, <1>11, <1>12, <1>13 DEF f1

\* The profile and the announcing byte, which Elden Ring writes one by one.
LEMMA DescribeKeeps ==
  ASSUME NEW f, NEW m, Ground(f, m), NEW i \in Slots, Ready(f, i), NEW h \in Heroes \cup {NoHero}
  PROVE  LET w == Write(Summary, "profile", <<i, h>>)
         IN  Ground(Applied(f, w), m) /\ Ready(Applied(f, w), i) /\ Ground(CutShort(f, w), m)
<1>. DEFINE w == Write(Summary, "profile", <<i, h>>)
            v == SummaryOf(f)
<1>1. IsSave(f) /\ v \in SummaryBodies
  BY SaveIs DEF Ground
<1>2. /\ WithProfile(v, i, h) \in SummaryBodies /\ WithProfile(v, i, h).used = v.used
      /\ Cut(v) \in SummaryBodies /\ Cut(v).used = v.used
  BY <1>1, WithProfileIs, CutIs
<1>3. /\ Applied(f, w) = Put(f, Summary, [body |-> WithProfile(v, i, h), sum |-> f[Summary].sum])
      /\ CutShort(f, w) = Put(f, Summary, [body |-> Cut(v), sum |-> f[Summary].sum])
  BY <1>1, SummaryWritesAre
<1>4. \A j \in Slots : v.used[j] => j \in Announced(f)
  BY DEF Announced
<1>. HIDE DEF v, w
<1>5. /\ \A j \in Slots : WithProfile(v, i, h).used[j] => j \in Announced(f)
      /\ \A j \in Slots : Cut(v).used[j] => j \in Announced(f)
  BY <1>2, <1>4
<1>6. Ground(Applied(f, w), m) /\ Ready(Applied(f, w), i)
  BY <1>2, <1>3, <1>5, SummaryKeeps
<1>7. Ground(CutShort(f, w), m)
  BY <1>2, <1>3, <1>5, SummaryKeeps
<1>. QED
  BY <1>6, <1>7 DEF w

LEMMA AnnounceKeeps ==
  ASSUME NEW f, NEW m, Ground(f, m), NEW i \in Slots, Ready(f, i)
  PROVE  LET w == Write(Summary, "used", i)
         IN  Ground(Applied(f, w), m) /\ Ground(CutShort(f, w), m)
<1>. DEFINE w == Write(Summary, "used", i)
            v == SummaryOf(f)
<1>1. IsSave(f) /\ v \in SummaryBodies
  BY SaveIs DEF Ground
<1>2. /\ WithUsed(v, i) \in SummaryBodies
      /\ WithUsed(v, i).used = [v.used EXCEPT ![i] = TRUE]
      /\ v.used \in [Slots -> BOOLEAN]
  BY <1>1, WithUsedIs, SummaryParts DEF Uses
<1>3. /\ Applied(f, w) = Put(f, Summary, [body |-> WithUsed(v, i), sum |-> f[Summary].sum])
      /\ CutShort(f, w) = f
  BY <1>1, SummaryWritesAre
<1>4. \A j \in Slots : v.used[j] => j \in Announced(f)
  BY DEF Announced
<1>. HIDE DEF v, w
<1>5. \A j \in Slots : WithUsed(v, i).used[j] => j = i \/ j \in Announced(f)
  BY <1>2, <1>4
<1>6. Ground(Applied(f, w), m)
  BY <1>2, <1>3, <1>5, SummaryKeeps
<1>. QED
  BY <1>3, <1>6 DEF w

LEMMA ErSummaryKeeps ==
  ASSUME NEW f, NEW m, Ground(f, m), IsSave(m), NEW i \in Slots, Ready(f, i),
         NEW item, IsSlotItem(item), NEW plan,
         plan[3] = Write(Summary, "sum", ImportedSummary(m, item, i)),
         plan[4] = Write(Summary, "profile", <<i, item.profile>>),
         plan[5] = Write(Summary, "used", i)
  PROVE  LET f1 == Applied(f, plan[3])
             f2 == Applied(f1, plan[4])
             f3 == Applied(f2, plan[5])
         IN  /\ Ground(f1, m) /\ Ground(f2, m) /\ Ground(f3, m)
             /\ Ground(CutShort(f, plan[3]), m) /\ Ground(CutShort(f1, plan[4]), m)
             /\ Ground(CutShort(f2, plan[5]), m)
             /\ SummaryOf(f) = SummaryOf(m)
                  => f3 = Put(f, Summary, Intact(ImportedSummary(m, item, i)))
<1>. DEFINE new == ImportedSummary(m, item, i)
            f1 == Applied(f, plan[3])
            f2 == Applied(f1, plan[4])
            f3 == Applied(f2, plan[5])
<1>1. new \in SummaryBodies /\ new = WithUsed(WithProfile(SummaryOf(m), i, item.profile), i)
  BY ImportedSummaryIs, ImportedSummaryParts
<1>. HIDE DEF new
<1>2. Summary \in Places /\ BodiesAt(Summary) = SummaryBodies /\ IsSave(f)
  BY PlaceFacts DEF BodiesAt, Ground
<1>3. plan[3] = Write(Summary, "sum", new)
  BY DEF new
<1>4. f1 = Put(f, Summary, [body |-> f[Summary].body, sum |-> new])
  BY <1>2, <1>3, SumIs
<1>5. CutShort(f, plan[3]) = Put(f, Summary, [body |-> f[Summary].body, sum |-> Torn])
  BY <1>2, <1>3, SumCutIs
<1>6. Ground(f1, m) /\ Ready(f1, i) /\ Ground(CutShort(f, plan[3]), m)
  <2>1. new \in BodiesAt(Summary) \cup {Torn} /\ Torn \in BodiesAt(Summary) \cup {Torn}
    BY <1>1, <1>2
  <2>. QED
    BY <1>2, <1>4, <1>5, <2>1, SumKeeps
<1>7. f1[Summary].sum = new /\ SummaryOf(f1) = SummaryOf(f)
  BY <1>2, <1>4 DEF Put, SummaryOf
<1>. HIDE DEF f1
<1>8. item.profile \in Heroes \cup {NoHero}
  BY DEF IsSlotItem
<1>9. Ground(f2, m) /\ Ready(f2, i) /\ Ground(CutShort(f1, plan[4]), m)
  BY <1>6, <1>8, DescribeKeeps
<1>10. f2 = Put(f1, Summary, [body |-> WithProfile(SummaryOf(f1), i, item.profile), sum |-> new])
  <2>1. IsSave(f1)
    BY <1>6 DEF Ground
  <2>2. ASSUME NEW h
        PROVE  Applied(f1, Write(Summary, "profile", <<i, h>>))
                 = Put(f1, Summary, [body |-> WithProfile(SummaryOf(f1), i, h), sum |-> f1[Summary].sum])
    BY <2>1, SummaryWritesAre
  <2>. QED
    BY <1>7, <2>2
<1>11. f2[Summary].sum = new /\ SummaryOf(f2) = WithProfile(SummaryOf(f), i, item.profile)
  BY <1>2, <1>7, <1>10 DEF Put, SummaryOf
<1>. HIDE DEF f2
<1>12. Ground(f3, m) /\ Ground(CutShort(f2, plan[5]), m)
  BY <1>9, AnnounceKeeps
<1>13. f3 = Put(f2, Summary, [body |-> WithUsed(SummaryOf(f2), i), sum |-> new])
  BY <1>9, <1>11, SummaryWritesAre DEF Ground
<1>14. ASSUME SummaryOf(f) = SummaryOf(m) PROVE f3 = Put(f, Summary, Intact(new))
  <2>1. WithUsed(SummaryOf(f2), i) = new
    BY <1>1, <1>11, <1>14
  <2>. QED
    BY <1>2, <1>4, <1>10, <1>13, <2>1, PutTwice DEF Intact
<1>. QED
  BY <1>6, <1>9, <1>12, <1>14 DEF f1, f2, new

\* A backup of a slot, and that its character was written when it was made.
IsBackup(x) == IsSlotItem(x) /\ (lib # "ds2" => x.part["a"].hero # NoHero)

\* The file when a plan from the copy m, which may be older, is carried out.
PlanHolds(f, m, plan) ==
  /\ \A k \in 0 .. Len(plan) : Ground(Written(f, plan, k), m)
  /\ \A k \in 0 .. Len(plan) - 1 : Ground(CutShort(Written(f, plan, k), plan[k + 1]), m)

\* The same file, once the character and the summary are there.
Complete(f, m, item, i) ==
  LET part(p) == Intact(ImportedPart(m, item, p))
      both    == Put(f, <<i, "a">>, part("a"))
      new     == Intact(ImportedSummary(m, item, i))
  IN  IF lib = "ds2" THEN Put(Put(Put(f, Summary, new), <<i, "a">>, part("a")), <<i, "b">>, part("b"))
      ELSE Put(both, Summary, new)

LEMMA NewAnnounced ==
  ASSUME NEW m, IsSave(m), NEW item, IsSlotItem(item), NEW i \in Slots, NEW j \in Slots,
         ImportedSummary(m, item, i).used[j]
  PROVE  j = i \/ j \in Announced(m)
<1>. DEFINE v == SummaryOf(m)
            h == item.profile
            w == WithProfile(v, i, h)
<1>1. h \in Heroes \cup {NoHero} /\ v \in SummaryBodies
  BY SaveIs DEF IsSlotItem
<1>2. ImportedSummary(m, item, i) = WithUsed(w, i)
  BY ImportedSummaryIs
<1>. HIDE DEF v, h
<1>3. w \in SummaryBodies /\ w.used = v.used
  BY <1>1, WithProfileIs
<1>. HIDE DEF w
<1>4. WithUsed(w, i).used = [w.used EXCEPT ![i] = TRUE]
  BY <1>3, WithUsedIs
<1>5. w.used \in [Slots -> BOOLEAN]
  BY <1>1, <1>3, SummaryParts DEF Uses
<1>6. j # i => ([w.used EXCEPT ![i] = TRUE][j] <=> w.used[j])
  BY <1>5
<1>. QED
  BY <1>2, <1>3, <1>4, <1>6 DEF Announced, v

LEMMA OneByOne ==
  ASSUME NEW f, NEW plan
  PROVE  /\ Written(f, plan, 0) = f
         /\ Written(f, plan, 1) = Applied(Written(f, plan, 0), plan[1])
         /\ Written(f, plan, 2) = Applied(Written(f, plan, 1), plan[2])
         /\ Written(f, plan, 3) = Applied(Written(f, plan, 2), plan[3])
         /\ Written(f, plan, 4) = Applied(Written(f, plan, 3), plan[4])
         /\ Written(f, plan, 5) = Applied(Written(f, plan, 4), plan[5])
         /\ Written(f, plan, 6) = Applied(Written(f, plan, 5), plan[6])
<1>1. \A k \in Nat : Written(f, plan, k + 1) = Applied(Written(f, plan, k), plan[k + 1])
  BY WrittenStep
<1>2. /\ Written(f, plan, 0 + 1) = Applied(Written(f, plan, 0), plan[0 + 1])
      /\ Written(f, plan, 1 + 1) = Applied(Written(f, plan, 1), plan[1 + 1])
      /\ Written(f, plan, 2 + 1) = Applied(Written(f, plan, 2), plan[2 + 1])
      /\ Written(f, plan, 3 + 1) = Applied(Written(f, plan, 3), plan[3 + 1])
      /\ Written(f, plan, 4 + 1) = Applied(Written(f, plan, 4), plan[4 + 1])
      /\ Written(f, plan, 5 + 1) = Applied(Written(f, plan, 5), plan[5 + 1])
  BY <1>1
<1>. QED
  BY <1>2, WrittenStep

LEMMA PlanKeeps ==
  ASSUME NEW f, NEW m, Ground(f, m), IsSave(m), NEW i \in Slots, NEW item, IsBackup(item)
  PROVE  LET plan == Plan(m, item, i)
         IN  /\ PlanHolds(f, m, plan)
             /\ SummaryOf(f) = SummaryOf(m) => Written(f, plan, Len(plan)) = Complete(f, m, item, i)
<1>. DEFINE plan == Plan(m, item, i)
            new  == ImportedSummary(m, item, i)
            a    == ImportedPart(m, item, "a")
            b    == ImportedPart(m, item, "b")
            w(k) == Written(f, plan, k)
<1>1. /\ lib = "er" =>
           /\ Len(plan) = 5 /\ Seals(plan, 1, <<i, "a">>, a)
           /\ plan[3] = Write(Summary, "sum", new)
           /\ plan[4] = Write(Summary, "profile", <<i, item.profile>>)
           /\ plan[5] = Write(Summary, "used", i)
      /\ lib = "ds2" =>
           /\ Len(plan) = 6 /\ Seals(plan, 1, Summary, new)
           /\ Seals(plan, 3, <<i, "a">>, a) /\ Seals(plan, 5, <<i, "b">>, b)
      /\ lib \notin {"er", "ds2"} =>
           /\ Len(plan) = 4 /\ Seals(plan, 1, <<i, "a">>, a) /\ Seals(plan, 3, Summary, new)
  BY PlanIs
<1>2. /\ w(0) = f
      /\ w(1) = Applied(w(0), plan[1]) /\ w(2) = Applied(w(1), plan[2])
      /\ w(3) = Applied(w(2), plan[3]) /\ w(4) = Applied(w(3), plan[4])
      /\ w(5) = Applied(w(4), plan[5]) /\ w(6) = Applied(w(5), plan[6])
  BY OneByOne
<1>3. IsSlotItem(item) /\ new \in SummaryBodies
  BY ImportedSummaryParts DEF IsBackup
<1>4. \A j \in Slots : new.used[j] => j = i \/ j \in Announced(m)
  BY <1>3, NewAnnounced
<1>5. "a" \in Parts /\ a \in CharBodies /\ (lib # "ds2" => a.hero # NoHero)
  BY <1>3, PlaceFacts, ImportedPartIs DEF IsBackup
<1>6. lib = "ds2" => "b" \in Parts /\ b \in CharBodies
  BY <1>3, PlaceFacts, ImportedPartIs
<1>. HIDE DEF plan, new, a, b, w
<1>7. ASSUME NEW g, Ground(g, m), NEW k, Seals(plan, k, <<i, "a">>, a)
      PROVE  /\ Ground(Applied(g, plan[k]), m) /\ Ground(CutShort(g, plan[k]), m)
             /\ Ground(Applied(Applied(g, plan[k]), plan[k + 1]), m)
             /\ Ready(Applied(Applied(g, plan[k]), plan[k + 1]), i)
             /\ Applied(Applied(g, plan[k]), plan[k + 1]) = Put(g, <<i, "a">>, Intact(a))
             /\ Ground(CutShort(Applied(g, plan[k]), plan[k + 1]), m)
  BY <1>5, <1>7, CharSealKeeps
<1>8. ASSUME NEW g, Ground(g, m), Ready(g, i), NEW k, Seals(plan, k, Summary, new)
      PROVE  /\ Ground(Applied(g, plan[k]), m) /\ Ground(CutShort(g, plan[k]), m)
             /\ Ground(Applied(Applied(g, plan[k]), plan[k + 1]), m)
             /\ Applied(Applied(g, plan[k]), plan[k + 1]) = Put(g, Summary, Intact(new))
             /\ Ground(CutShort(Applied(g, plan[k]), plan[k + 1]), m)
  BY <1>3, <1>4, <1>8, SummarySealKeeps
<1>9. CASE lib = "er"
  <2>1. /\ Ground(w(0), m) /\ Ground(w(1), m) /\ Ground(w(2), m) /\ Ready(w(2), i)
        /\ Ground(CutShort(w(0), plan[1]), m) /\ Ground(CutShort(w(1), plan[2]), m)
        /\ w(2) = Put(f, <<i, "a">>, Intact(a))
    <3>1. Seals(plan, 1, <<i, "a">>, a) /\ plan[1 + 1] = plan[2] /\ Ground(w(0), m)
      BY <1>1, <1>2, <1>9
    <3>. QED
      BY <1>2, <1>7, <3>1
  <2>2. SummaryOf(w(2)) = SummaryOf(f)
    BY <1>5, <2>1, PlaceFacts DEF Put, SummaryOf
  <2>3. /\ Ground(w(3), m) /\ Ground(w(4), m) /\ Ground(w(5), m)
        /\ Ground(CutShort(w(2), plan[3]), m) /\ Ground(CutShort(w(3), plan[4]), m)
        /\ Ground(CutShort(w(4), plan[5]), m)
        /\ SummaryOf(f) = SummaryOf(m) => w(5) = Put(w(2), Summary, Intact(new))
    <3>1. /\ plan[3] = Write(Summary, "sum", ImportedSummary(m, item, i))
          /\ plan[4] = Write(Summary, "profile", <<i, item.profile>>)
          /\ plan[5] = Write(Summary, "used", i)
      BY <1>1, <1>9 DEF new
    <3>. QED
      BY <1>2, <1>3, <2>1, <2>2, <3>1, ErSummaryKeeps DEF new
  <2>4. Len(plan) = 5
    BY <1>1, <1>9
  <2>5. /\ \A k \in 0 .. 5 : Ground(w(k), m)
        /\ \A k \in 0 .. 4 : Ground(CutShort(w(k), plan[k + 1]), m)
    BY <2>1, <2>3
  <2>6. SummaryOf(f) = SummaryOf(m) => w(5) = Complete(f, m, item, i)
    BY <1>9, <2>1, <2>3 DEF Complete, new, a
  <2>. QED
    BY <2>4, <2>5, <2>6 DEF PlanHolds, plan, w
<1>10. CASE lib = "ds2"
  <2>1. Ground(w(0), m) /\ Ready(w(0), i) /\ \A g : Ready(g, i)
    BY <1>2, <1>10 DEF Ready
  <2>2. /\ Ground(w(1), m) /\ Ground(w(2), m) /\ w(2) = Put(f, Summary, Intact(new))
        /\ Ground(CutShort(w(0), plan[1]), m) /\ Ground(CutShort(w(1), plan[2]), m)
    <3>1. Seals(plan, 1, Summary, new) /\ plan[1 + 1] = plan[2]
      BY <1>1, <1>10
    <3>. QED
      BY <1>2, <1>8, <2>1, <3>1
  <2>3. /\ Ground(w(3), m) /\ Ground(w(4), m) /\ w(4) = Put(w(2), <<i, "a">>, Intact(a))
        /\ Ground(CutShort(w(2), plan[3]), m) /\ Ground(CutShort(w(3), plan[4]), m)
    <3>1. Seals(plan, 3, <<i, "a">>, a) /\ plan[3 + 1] = plan[4]
      BY <1>1, <1>10
    <3>. QED
      BY <1>2, <1>7, <2>2, <3>1
  <2>4. /\ Ground(w(5), m) /\ Ground(w(6), m) /\ w(6) = Put(w(4), <<i, "b">>, Intact(b))
        /\ Ground(CutShort(w(4), plan[5]), m) /\ Ground(CutShort(w(5), plan[6]), m)
    <3>1. Seals(plan, 5, <<i, "b">>, b) /\ plan[5 + 1] = plan[6]
      BY <1>1, <1>10
    <3>2. "b" \in Parts /\ b \in CharBodies /\ (lib # "ds2" => b.hero # NoHero)
      BY <1>6, <1>10
    <3>. QED
      BY <1>2, <2>3, <3>1, <3>2, CharSealKeeps
  <2>5. Len(plan) = 6
    BY <1>1, <1>10
  <2>6. /\ \A k \in 0 .. 6 : Ground(w(k), m)
        /\ \A k \in 0 .. 5 : Ground(CutShort(w(k), plan[k + 1]), m)
    BY <2>1, <2>2, <2>3, <2>4
  <2>7. w(6) = Complete(f, m, item, i)
    BY <1>10, <2>2, <2>3, <2>4 DEF Complete, new, a, b
  <2>. QED
    BY <2>5, <2>6, <2>7 DEF PlanHolds, plan, w
<1>11. CASE lib \notin {"er", "ds2"}
  <2>1. /\ Ground(w(0), m) /\ Ground(w(1), m) /\ Ground(w(2), m) /\ Ready(w(2), i)
        /\ Ground(CutShort(w(0), plan[1]), m) /\ Ground(CutShort(w(1), plan[2]), m)
        /\ w(2) = Put(f, <<i, "a">>, Intact(a))
    <3>1. Seals(plan, 1, <<i, "a">>, a) /\ plan[1 + 1] = plan[2] /\ Ground(w(0), m)
      BY <1>1, <1>2, <1>11
    <3>. QED
      BY <1>2, <1>7, <3>1
  <2>2. /\ Ground(w(3), m) /\ Ground(w(4), m) /\ w(4) = Put(w(2), Summary, Intact(new))
        /\ Ground(CutShort(w(2), plan[3]), m) /\ Ground(CutShort(w(3), plan[4]), m)
    <3>1. Seals(plan, 3, Summary, new) /\ plan[3 + 1] = plan[4]
      BY <1>1, <1>11
    <3>. QED
      BY <1>2, <1>8, <2>1, <3>1
  <2>3. Len(plan) = 4
    BY <1>1, <1>11
  <2>4. /\ \A k \in 0 .. 4 : Ground(w(k), m)
        /\ \A k \in 0 .. 3 : Ground(CutShort(w(k), plan[k + 1]), m)
    BY <2>1, <2>2
  <2>5. w(4) = Complete(f, m, item, i)
    BY <1>11, <2>1, <2>2 DEF Complete, new, a
  <2>. QED
    BY <2>3, <2>4, <2>5 DEF PlanHolds, plan, w
<1>. QED
  BY <1>9, <1>10, <1>11

\* What a whole import leaves, when nothing changed since the save was loaded.
LEMMA CompleteIs ==
  ASSUME NEW f, IsSave(f), NEW item, NEW i \in Slots
  PROVE  LET g == Complete(f, f, item, i)
         IN  /\ \A p \in Parts : g[<<i, p>>] = Intact(ImportedPart(f, item, p))
             /\ g[Summary] = Intact(ImportedSummary(f, item, i))
             /\ \A q \in Places : q # Summary /\ q[1] # i => g[q] = f[q]
<1>. DEFINE g    == Complete(f, f, item, i)
            a    == Intact(ImportedPart(f, item, "a"))
            b    == Intact(ImportedPart(f, item, "b"))
            new  == Intact(ImportedSummary(f, item, i))
<1>1. /\ Summary \in Places /\ <<i, "a">> \in Places /\ <<i, "a">> # Summary
      /\ lib = "ds2" => <<i, "b">> \in Places /\ <<i, "b">> # Summary
  BY PlaceFacts
<1>2. <<i, "a">>[1] = i /\ <<i, "b">>[1] = i /\ <<i, "a">> # <<i, "b">>
  OBVIOUS
<1>3. g = IF lib = "ds2" THEN Put(Put(Put(f, Summary, new), <<i, "a">>, a), <<i, "b">>, b)
          ELSE Put(Put(f, <<i, "a">>, a), Summary, new)
  BY DEF Complete
<1>. HIDE DEF a, b, new, g
<1>4. CASE lib = "ds2"
  <2>1. /\ g[<<i, "a">>] = a /\ g[<<i, "b">>] = b /\ g[Summary] = new
        /\ \A q \in Places : q # Summary /\ q # <<i, "a">> /\ q # <<i, "b">> => g[q] = f[q]
    BY <1>1, <1>2, <1>3, <1>4 DEF Put
  <2>2. Parts = {"a", "b"}
    BY <1>4, PlaceFacts
  <2>. QED
    BY <1>2, <2>1, <2>2 DEF a, b, new, g
<1>5. CASE lib # "ds2"
  <2>1. /\ g[<<i, "a">>] = a /\ g[Summary] = new
        /\ \A q \in Places : q # Summary /\ q # <<i, "a">> => g[q] = f[q]
    BY <1>1, <1>3, <1>5 DEF Put
  <2>2. Parts = {"a"}
    BY <1>5, PlaceFacts
  <2>. QED
    BY <1>2, <2>1, <2>2 DEF a, new, g
<1>. QED
  BY <1>4, <1>5

\* The summary of an import: the slot, and the others.
LEMMA ImportedSlot ==
  ASSUME NEW m, IsSave(m), NEW item, IsSlotItem(item), NEW i \in Slots
  PROVE  /\ ImportedSummary(m, item, i).used[i]
         /\ ImportedSummary(m, item, i).profile[i] = item.profile
<1>. DEFINE v == SummaryOf(m)
            h == item.profile
            w == WithProfile(v, i, h)
<1>1. h \in Heroes \cup {NoHero} /\ v \in SummaryBodies
  BY SaveIs DEF IsSlotItem
<1>2. ImportedSummary(m, item, i) = WithUsed(w, i)
  BY ImportedSummaryIs
<1>. HIDE DEF v, h
<1>3. w \in SummaryBodies /\ w.profile = [v.profile EXCEPT ![i] = h]
  BY <1>1, WithProfileIs
<1>. HIDE DEF w
<1>4. WithUsed(w, i).used = [w.used EXCEPT ![i] = TRUE] /\ WithUsed(w, i).profile = w.profile
  BY <1>3, WithUsedIs
<1>5. w.used \in [Slots -> BOOLEAN] /\ v.profile \in [Slots -> Heroes \cup {NoHero}]
  BY <1>1, <1>3, SummaryParts DEF Uses, Profiles
<1>6. [w.used EXCEPT ![i] = TRUE][i]
  BY <1>5
<1>7. [v.profile EXCEPT ![i] = h][i] = h
  BY <1>5
<1>8. ImportedSummary(m, item, i).used[i]
  BY <1>2, <1>4, <1>6
<1>9. ImportedSummary(m, item, i).profile[i] = h
  BY <1>2, <1>3, <1>4, <1>7
<1>. QED
  BY <1>8, <1>9 DEF h

LEMMA ImportedOthers ==
  ASSUME NEW m, IsSave(m), NEW item, IsSlotItem(item), NEW i \in Slots, NEW j \in Slots, j # i
  PROVE  /\ ImportedSummary(m, item, i).used[j] = SummaryOf(m).used[j]
         /\ ImportedSummary(m, item, i).profile[j] = SummaryOf(m).profile[j]
<1>. DEFINE v == SummaryOf(m)
            h == item.profile
            w == WithProfile(v, i, h)
<1>1. h \in Heroes \cup {NoHero} /\ v \in SummaryBodies
  BY SaveIs DEF IsSlotItem
<1>2. ImportedSummary(m, item, i) = WithUsed(w, i)
  BY ImportedSummaryIs
<1>. HIDE DEF v, h
<1>3. w \in SummaryBodies /\ w.profile = [v.profile EXCEPT ![i] = h] /\ w.used = v.used
  BY <1>1, WithProfileIs
<1>. HIDE DEF w
<1>4. WithUsed(w, i).used = [w.used EXCEPT ![i] = TRUE] /\ WithUsed(w, i).profile = w.profile
  BY <1>3, WithUsedIs
<1>5. w.used \in [Slots -> BOOLEAN] /\ v.profile \in [Slots -> Heroes \cup {NoHero}]
  BY <1>1, <1>3, SummaryParts DEF Uses, Profiles
<1>6. [w.used EXCEPT ![i] = TRUE][j] = w.used[j]
  BY <1>5
<1>7. [v.profile EXCEPT ![i] = h][j] = v.profile[j]
  BY <1>5
<1>8. ImportedSummary(m, item, i).used[j] = v.used[j]
  BY <1>2, <1>3, <1>4, <1>6
<1>9. ImportedSummary(m, item, i).profile[j] = v.profile[j]
  BY <1>2, <1>3, <1>4, <1>7
<1>. QED
  BY <1>8, <1>9 DEF v

PairedIn(f) == \A i \in Announced(f) : Paired(f, i)

LEMMA CompleteIsPaired ==
  ASSUME NEW f, IsSave(f), PairedIn(f), NEW item, IsSlotItem(item), NEW i \in Slots,
         \A p \in Parts : item.part[p].hero = item.profile
  PROVE  PairedIn(Complete(f, f, item, i))
<1>. DEFINE g == Complete(f, f, item, i)
            new == ImportedSummary(f, item, i)
            c(p) == ImportedPart(f, item, p)
<1>1. /\ \A p \in Parts : g[<<i, p>>] = Intact(c(p))
      /\ g[Summary] = Intact(new)
      /\ \A q \in Places : q # Summary /\ q[1] # i => g[q] = f[q]
  BY CompleteIs
<1>2. /\ \A p \in Parts : c(p).hero = item.profile
      /\ new.profile[i] = item.profile
  BY ImportedPartIs, ImportedSlot
<1>3. ASSUME NEW j \in Slots, j # i
      PROVE  new.profile[j] = SummaryOf(f).profile[j]
  BY <1>3, ImportedOthers
<1>4. \A j \in Slots : new.used[j] => j = i \/ j \in Announced(f)
  BY NewAnnounced
<1>. HIDE DEF g, new, c
<1>5. SummaryOf(g) = new
  BY <1>1 DEF SummaryOf, Intact
<1>6. ASSUME NEW p \in Parts
      PROVE  g[<<i, p>>].body = c(p)
  <2>1. g[<<i, p>>] = Intact(c(p))
    BY <1>1, Zenon
  <2>. DEFINE b == c(p)
  <2>. HIDE DEF b
  <2>2. Intact(b).body = b
    BY DEF Intact
  <2>. QED
    BY <2>1, <2>2 DEF b
<1>7. ASSUME NEW j \in Announced(g), NEW p \in Parts
      PROVE  g[<<j, p>>].body.hero = SummaryOf(g).profile[j]
  <2>1. j \in Slots /\ (j = i \/ j \in Announced(f))
    BY <1>4, <1>5 DEF Announced
  <2>2. CASE j = i
    BY <1>2, <1>5, <1>6, <2>2
  <2>3. CASE j # i
    <3>1. new.profile[j] = SummaryOf(f).profile[j]
      BY <1>3, <2>1, <2>3
    <3>2. f[<<j, p>>].body.hero = SummaryOf(f).profile[j]
      BY <2>1, <2>3 DEF PairedIn, Paired
    <3>3. g[<<j, p>>] = f[<<j, p>>]
      BY <1>1, <2>1, <2>3, PlaceFacts
    <3>. QED
      BY <1>5, <3>1, <3>2, <3>3
  <2>. QED
    BY <2>2, <2>3
<1>8. ASSUME NEW j \in Announced(g)
      PROVE  Paired(g, j)
  <2>1. \A p \in Parts : g[<<j, p>>].body.hero = SummaryOf(g).profile[j]
    BY <1>7, <1>8
  <2>. QED
    BY <2>1 DEF Paired
<1>. QED
  BY <1>8 DEF PairedIn, g

-----------------------------------------------------------------------------
(***************************************************************************)
(* The invariant, part by part, as predicates of what they are about.      *)
(***************************************************************************)
SaveOk(s) == IsSave(s) /\ AllWritten(s, s)

\* While the game saves, the character it saves is written, the others are paired.
GameOk(s, g, e) ==
  /\ ~e /\ g = None => PairedIn(s)
  /\ g # None => /\ \A p \in Parts : Hero(s, g[1], p) = g[2]
                 /\ ~e => \A i \in Announced(s) \ {g[1]} : Paired(s, i)

ItemOk(x, e) ==
  \/ /\ x.kind = "slot" /\ IsBackup(x)
     /\ ~e => \A p \in Parts : x.part[p].hero = x.profile
  \/ /\ x.kind = "full" /\ x.raw \in BOOLEAN /\ x.during \in BOOLEAN /\ SaveOk(x.image)
     /\ ~e /\ ~x.during => PairedIn(x.image)

ShelfOk(b, e) == \A x \in b : ItemOk(x, e)

\* A slot command is about the active slot unless the game saved since, and it is not
\* about a save that announces what is not there.
JobOk(j, s, g, n, b) ==
  j # None =>
    /\ j = [item |-> j.item, slot |-> j.slot, mem |-> j.mem, since |-> j.since]
    /\ j.item \in b \cup {None} /\ j.slot \in Slots /\ j.since \in Nat /\ j.since <= n
    /\ j.item # None => j.item.kind = "slot"
    /\ g # None => j.since < n
    /\ j.since = n => j.slot = ActiveSlot(s)
    /\ j.mem # None => j.item # None /\ IsSave(j.mem) /\ AllWritten(s, j.mem)

UnpackOk(u, b) ==
  /\ u \in [step : {"no", "temp", "read"}, item : b \cup {None}]
  /\ u.step # "no" => u.item \in b /\ u.item.kind = "full"

\* A restore of a container is alone, and its file is one of those in the directory.
Alone == Unpacking => job = None /\ temps > 0

Counts ==
  /\ lib \in Libs /\ game \in (Slots \X Heroes) \cup {None} /\ saves \in 0 .. MaxSaves
  /\ rotten \subseteq shelf /\ temps \in 0 .. MaxTemps /\ faults \in 0 .. MaxFaults
  /\ excused \in BOOLEAN /\ UnpackOk(unpack, shelf) /\ Alone

Inv == /\ SaveOk(save) /\ GameOk(save, game, excused) /\ ShelfOk(shelf, excused)
       /\ JobOk(job, save, game, saves, shelf) /\ Counts /\ TempsComeFromFailure

LEMMA InvIsEnough == Inv => TypeOK /\ Consistent
<1>. SUFFICES ASSUME Inv PROVE TypeOK /\ Consistent
  OBVIOUS
<1>1. ASSUME NEW x \in shelf
      PROVE  /\ IsItem(x)
             /\ ~excused /\ x.kind = "slot" => \A p \in Parts : x.part[p].hero = x.profile
  BY DEF Inv, ShelfOk, ItemOk, IsBackup, IsSlotItem, IsItem, SaveOk
<1>2. TypeOK
  BY <1>1 DEF Inv, TypeOK, Counts, UnpackOk, Unpacking, JobOk, SaveOk
<1>3. AnnouncedIsWritten
  BY DEF Inv, SaveOk, AllWritten, AnnouncedIsWritten, Hero
<1>4. ~excused => BelongTogether
  BY <1>1 DEF Inv, GameOk, PairedIn, BelongTogether
<1>. QED
  BY <1>2, <1>3, <1>4 DEF Consistent

\* The library never changes.
LEMMA LibStays == ASSUME lib' = lib PROVE Parts' = Parts /\ Places' = Places
BY DEF Parts, Places

LEMMA IsSavePrimed == ASSUME lib' = lib, NEW f PROVE IsSave(f)' <=> IsSave(f)
BY LibStays DEF IsSave

LEMMA SaveOkPrimed == ASSUME lib' = lib, SaveOk(save') PROVE SaveOk(save)'
BY LibStays DEF SaveOk, IsSave, AllWritten, Announced, SummaryOf, Hero

LEMMA GameOkPrimed == ASSUME lib' = lib, GameOk(save', game', excused') PROVE GameOk(save, game, excused)'
BY LibStays DEF GameOk, PairedIn, Announced, SummaryOf, Hero, Paired

LEMMA ShelfOkPrimed == ASSUME lib' = lib, ShelfOk(shelf', excused') PROVE ShelfOk(shelf, excused)'
BY LibStays DEF ShelfOk, ItemOk, IsBackup, IsSlotItem, SaveOk, IsSave, AllWritten, PairedIn,
                Announced, SummaryOf, Hero, Paired

LEMMA JobOkPrimed ==
  ASSUME lib' = lib, JobOk(job', save', game', saves', shelf')
  PROVE  JobOk(job, save, game, saves, shelf)'
BY LibStays DEF JobOk, IsSave, AllWritten, Announced, SummaryOf, Hero, ActiveSlot

LEMMA InvPrimed ==
  ASSUME lib' = lib, SaveOk(save'), GameOk(save', game', excused'), ShelfOk(shelf', excused'),
         JobOk(job', save', game', saves', shelf'), Counts', TempsComeFromFailure'
  PROVE  Inv'
BY SaveOkPrimed, GameOkPrimed, ShelfOkPrimed, JobOkPrimed DEF Inv

LEMMA ShelfStays ==
  ASSUME NEW b, NEW d, ShelfOk(b, d), NEW e, d => e
  PROVE  ShelfOk(b, e)
BY DEF ShelfOk, ItemOk

\* With the characters of f and its summary, whatever held of what is announced holds.
LEMMA StillWritten ==
  ASSUME NEW f, NEW g, NEW m, AllWritten(f, m),
         \A j \in Slots : Hero(g, j, "a") = Hero(f, j, "a") \/ Hero(g, j, "a") # NoHero
  PROVE  AllWritten(g, m)
BY DEF AllWritten, Announced

-----------------------------------------------------------------------------
(***************************************************************************)
(* The initial states.                                                     *)
(***************************************************************************)
LEMMA FreshSaveIsOk ==
  ASSUME NEW u \in Users, NEW heroes \in Profiles, NEW a \in Slots \cup {None}
  PROVE  SaveOk(FreshSave(u, a, heroes)) /\ PairedIn(FreshSave(u, a, heroes))
<1>. DEFINE f    == FreshSave(u, a, heroes)
            used == [i \in Slots |-> heroes[i] # NoHero]
            body == SummaryBody(u, a, heroes, used, TRUE)
<1>1. used \in Uses
  BY DEF Uses
<1>2. \A i \in Slots : used[i] <=> heroes[i] # NoHero
  OBVIOUS
<1>3. f = [p \in Places |-> IF p = Summary THEN Intact(body)
                            ELSE Intact(CharBody(heroes[p[1]], u, TRUE))]
  BY Zenon DEF FreshSave, SummaryBody, CharBody
<1>. HIDE DEF f, used
<1>4. body \in SummaryBodies /\ body.profile = heroes /\ body.used = used
  <2>1. ASSUME NEW b \in BOOLEAN
        PROVE  LET v == SummaryBody(u, a, heroes, used, b)
               IN  v \in SummaryBodies /\ v.profile = heroes /\ v.used = used
    BY <1>1, IsSummaryBody
  <2>2. TRUE \in BOOLEAN
    OBVIOUS
  <2>. QED
    BY <2>1, <2>2, Zenon
<1>. HIDE DEF body
<1>5. f[Summary] = Intact(body)
  BY <1>3, PlaceFacts
<1>6. ASSUME NEW i \in Slots, NEW p \in Parts
      PROVE  /\ f[<<i, p>>] = Intact(CharBody(heroes[i], u, TRUE))
             /\ CharBody(heroes[i], u, TRUE) \in CharBodies
             /\ CharBody(heroes[i], u, TRUE).hero = heroes[i]
  <2>1. <<i, p>> \in Places /\ <<i, p>> # Summary /\ <<i, p>>[1] = i
    BY PlaceFacts
  <2>2. f[<<i, p>>] = Intact(CharBody(heroes[<<i, p>>[1]], u, TRUE))
    BY <1>3, <2>1, Zenon
  <2>3. heroes[i] \in Heroes \cup {NoHero} /\ TRUE \in BOOLEAN
    BY DEF Profiles
  <2>4. CharBody(heroes[i], u, TRUE) \in CharBodies /\ CharBody(heroes[i], u, TRUE).hero = heroes[i]
    BY <2>3, IsCharBody, Zenon
  <2>. QED
    BY <2>1, <2>2, <2>4, Zenon
<1>7. IsSave(f)
  <2>1. f = [p \in Places |-> f[p]]
    BY <1>3, Zenon
  <2>2. ASSUME NEW p \in Places
        PROVE  IsRegion(f[p], IF p = Summary THEN SummaryBodies ELSE CharBodies)
    <3>1. CASE p = Summary
      BY <1>4, <1>5, <3>1 DEF IsRegion, Intact
    <3>2. CASE p # Summary
      <4>. DEFINE c == CharBody(heroes[p[1]], u, TRUE)
      <4>1. p = <<p[1], p[2]>> /\ p[1] \in Slots /\ p[2] \in Parts
        BY <3>2, PlaceFacts
      <4>2. f[p] = Intact(c) /\ c \in CharBodies
        BY <1>6, <4>1
      <4>. HIDE DEF c
      <4>. QED
        BY <3>2, <4>2 DEF IsRegion, Intact
    <3>. QED
      BY <3>1, <3>2
  <2>. QED
    BY <2>1, <2>2 DEF IsSave
<1>8. SummaryOf(f) = body
  BY <1>5 DEF SummaryOf, Intact
<1>9. \A i \in Slots, p \in Parts : Hero(f, i, p) = heroes[i]
  <2>. SUFFICES ASSUME NEW i \in Slots, NEW p \in Parts
                PROVE  Hero(f, i, p) = heroes[i]
    OBVIOUS
  <2>. DEFINE c == CharBody(heroes[i], u, TRUE)
  <2>1. f[<<i, p>>] = Intact(c) /\ c.hero = heroes[i]
    BY <1>6
  <2>. HIDE DEF c
  <2>. QED
    BY <2>1 DEF Hero, Intact
<1>10. \A i \in Announced(f) : i \in Slots /\ heroes[i] # NoHero
  BY <1>2, <1>4, <1>8 DEF Announced, used
<1>11. AllWritten(f, f)
  BY <1>9, <1>10, PlaceFacts DEF AllWritten
<1>12. PairedIn(f)
  <2>1. ASSUME NEW i \in Announced(f), NEW p \in Parts
        PROVE  Hero(f, i, p) = SummaryOf(f).profile[i]
    BY <1>4, <1>8, <1>9, <1>10
  <2>2. ASSUME NEW i \in Announced(f)
        PROVE  Paired(f, i)
    BY <2>1, <2>2 DEF Paired, Hero
  <2>. QED
    BY <2>2 DEF PairedIn
<1>. QED
  BY <1>7, <1>11, <1>12 DEF SaveOk, f

LEMMA ForeignIsOk ==
  ASSUME NEW u \in Users, NEW h \in Heroes, NEW e
  PROVE  ItemOk(Foreign(u, h), e)
<1>. DEFINE x == Foreign(u, h)
            c == CharBody(h, u, TRUE)
<1>1. c \in CharBodies /\ c.hero = h
  <2>1. h \in Heroes \cup {NoHero} /\ TRUE \in BOOLEAN
    OBVIOUS
  <2>. QED
    BY <2>1, IsCharBody, Zenon
<1>2. x = [kind |-> "slot", profile |-> h, part |-> [p \in Parts |-> c]]
  BY Zenon DEF Foreign, CharBody
<1>. HIDE DEF x, c
<1>3. x.kind = "slot" /\ x.profile = h /\ x.part = [p \in Parts |-> c]
  BY <1>2
<1>4. x.part \in [Parts -> CharBodies] /\ \A p \in Parts : x.part[p].hero = h
  BY <1>1, <1>3
<1>5. ItemOk(x, e)
  BY <1>3, <1>4, Constants, PlaceFacts DEF ItemOk, IsBackup, IsSlotItem
<1>. QED
  BY <1>5 DEF x

LEMMA InitIsOk == ASSUME Init PROVE Inv
<1>1. PICK u \in Users, heroes \in Profiles, a \in Slots \cup {None} : save = FreshSave(u, a, heroes)
  BY DEF Init, Profiles
<1>2. SaveOk(save) /\ PairedIn(save)
  BY <1>1, FreshSaveIsOk
<1>3. GameOk(save, game, excused)
  BY <1>2 DEF Init, GameOk
<1>4. ShelfOk(shelf, excused)
  BY ForeignIsOk DEF Init, ShelfOk
<1>5. JobOk(job, save, game, saves, shelf)
  BY DEF Init, JobOk
<1>6. Counts
  <2>1. 0 \in 0 .. MaxSaves /\ 0 \in 0 .. MaxTemps /\ 0 \in 0 .. MaxFaults
    BY Constants
  <2>2. FALSE \in BOOLEAN /\ {} \subseteq shelf
    OBVIOUS
  <2>3. UnpackOk(unpack, shelf) /\ Alone
    BY DEF Init, UnpackOk, Alone, Unpacking, NotUnpacking
  <2>. QED
    BY <2>1, <2>2, <2>3, Zenon DEF Init, Counts
<1>. QED
  BY <1>2, <1>3, <1>4, <1>5, <1>6 DEF Init, Inv, TempsComeFromFailure, Unpacking, NotUnpacking

-----------------------------------------------------------------------------
(***************************************************************************)
(* The game saves.                                                         *)
(***************************************************************************)
LEMMA GameOpensKeeps ==
  ASSUME Inv, NEW i \in Slots, NEW h \in Heroes, GameOpens(i, h)
  PROVE  Inv'
<1>. DEFINE u == SummaryOf(save).user
            c == CharBody(h, u, TRUE)
            r == Intact(c)
            g == [p \in Places |-> IF p # Summary /\ p[1] = i THEN r ELSE save[p]]
<1>1. /\ game = None /\ saves < MaxSaves /\ game' = <<i, h>> /\ saves' = saves + 1
      /\ lib' = lib /\ shelf' = shelf /\ rotten' = rotten /\ job' = job /\ unpack' = unpack /\ temps' = temps
      /\ faults' = faults /\ excused' = excused
  BY DEF GameOpens
<1>2. save' = g
  BY Zenon DEF GameOpens, CharBody
<1>3. /\ SaveOk(save) /\ GameOk(save, game, excused) /\ ShelfOk(shelf, excused) /\ Counts
      /\ JobOk(job, save, game, saves, shelf) /\ TempsComeFromFailure
  BY DEF Inv
<1>4. c \in CharBodies /\ c.hero = h
  <2>1. u \in Users /\ h \in Heroes \cup {NoHero}
    BY <1>3, SaveIs, SummaryParts DEF SaveOk
  <2>2. ASSUME NEW b \in BOOLEAN
        PROVE  CharBody(h, u, b) \in CharBodies /\ CharBody(h, u, b).hero = h
    BY <2>1, IsCharBody
  <2>3. TRUE \in BOOLEAN
    OBVIOUS
  <2>. QED
    BY <2>2, <2>3, Zenon
<1>. HIDE DEF c
<1>5. r.body = c /\ r.sum = c /\ IsRegion(r, CharBodies)
  BY <1>4 DEF Intact, IsRegion
<1>. HIDE DEF r
<1>6. /\ g[Summary] = save[Summary]
      /\ \A p \in Parts : g[<<i, p>>] = r
      /\ \A j \in Slots, p \in Parts : j # i => g[<<j, p>>] = save[<<j, p>>]
  BY PlaceFacts
<1>7. IsSave(g)
  <2>1. ASSUME NEW p \in Places
        PROVE  IsRegion(g[p], IF p = Summary THEN SummaryBodies ELSE CharBodies)
    BY <1>3, <1>5 DEF SaveOk, IsSave
  <2>2. g = [p \in Places |-> g[p]]
    OBVIOUS
  <2>. HIDE DEF g
  <2>. QED
    BY <2>1, <2>2 DEF IsSave
<1>. HIDE DEF g
<1>8. SummaryOf(g) = SummaryOf(save) /\ Announced(g) = Announced(save)
  BY <1>6 DEF SummaryOf, Announced
<1>9. /\ \A p \in Parts : Hero(g, i, p) = h
      /\ \A j \in Slots, p \in Parts : j # i => Hero(g, j, p) = Hero(save, j, p)
  BY <1>4, <1>5, <1>6 DEF Hero
<1>10. \A m : AllWritten(save, m) => AllWritten(g, m)
  <2>1. \A j \in Slots : Hero(g, j, "a") = Hero(save, j, "a") \/ Hero(g, j, "a") # NoHero
    BY <1>9, PlaceFacts, Constants
  <2>. QED
    BY <2>1, StillWritten
<1>11. SaveOk(save')
  <2>1. AllWritten(g, save)
    BY <1>3, <1>10 DEF SaveOk
  <2>. QED
    BY <1>2, <1>7, <1>8, <2>1 DEF SaveOk, AllWritten
<1>12. game' # None /\ game'[1] = i /\ game'[2] = h /\ game' \in Slots \X Heroes
  BY <1>1, Constants
<1>13. GameOk(save', game', excused')
  <2>1. ASSUME ~excused, NEW j \in Announced(g) \ {i}
        PROVE  Paired(g, j)
    <3>1. Paired(save, j) /\ j \in Slots
      BY <1>1, <1>3, <1>8, <2>1 DEF GameOk, PairedIn, Announced
    <3>. QED
      BY <1>8, <1>9, <2>1, <3>1 DEF Paired, Hero
  <2>. QED
    BY <1>1, <1>2, <1>9, <1>12, <2>1 DEF GameOk
<1>14. JobOk(job', save', game', saves', shelf')
  BY <1>1, <1>2, <1>3, <1>10 DEF JobOk, Counts
<1>15. Counts'
  BY <1>1, <1>3, <1>12, Constants DEF Counts, UnpackOk, Alone, Unpacking
<1>16. ShelfOk(shelf', excused') /\ TempsComeFromFailure'
  BY <1>1, <1>3 DEF TempsComeFromFailure, Unpacking
<1>. QED
  BY <1>1, <1>11, <1>13, <1>14, <1>15, <1>16, InvPrimed

\* The summary the game writes: its slot is used, active, and holds what it saved.
Finished(v, i, h) == [v EXCEPT !.profile[i] = h, !.used[i] = TRUE, !.active = i]

LEMMA FinishedIs ==
  ASSUME NEW v \in SummaryBodies, NEW i \in Slots, NEW h \in Heroes \cup {NoHero}
  PROVE  /\ Finished(v, i, h) \in SummaryBodies
         /\ Finished(v, i, h).profile = [v.profile EXCEPT ![i] = h]
         /\ Finished(v, i, h).used = [v.used EXCEPT ![i] = TRUE]
<1>. DEFINE w == WithUsed(WithProfile(v, i, h), i)
            x == WithProfile(v, i, h)
<1>1. \A t : [v EXCEPT !.profile[i] = h, !.used[i] = t, !.active = i]
               = [[[v EXCEPT !.profile[i] = h] EXCEPT !.used[i] = t] EXCEPT !.active = i]
  OBVIOUS
<1>2. Finished(v, i, h) = [w EXCEPT !.active = i]
  BY <1>1, Zenon DEF Finished, WithUsed, WithProfile
<1>3. x \in SummaryBodies /\ x.used = v.used /\ x.profile = [v.profile EXCEPT ![i] = h]
  BY WithProfileIs
<1>. HIDE DEF x
<1>4. /\ WithUsed(x, i) \in SummaryBodies
      /\ WithUsed(x, i).used = [x.used EXCEPT ![i] = TRUE]
      /\ WithUsed(x, i).profile = x.profile
  BY <1>3, WithUsedIs
<1>5. /\ w \in SummaryBodies /\ w.used = [v.used EXCEPT ![i] = TRUE]
      /\ w.profile = [v.profile EXCEPT ![i] = h]
  BY <1>3, <1>4 DEF x
<1>. HIDE DEF w
<1>6. /\ w = SummaryBody(w.user, w.active, w.profile, w.used, w.whole)
      /\ w.user \in Users /\ w.profile \in Profiles /\ w.used \in Uses /\ w.whole \in BOOLEAN
  BY <1>5, SummaryParts
<1>7. [w EXCEPT !.active = i] = SummaryBody(w.user, i, w.profile, w.used, w.whole)
  BY <1>6 DEF SummaryBody
<1>8. /\ SummaryBody(w.user, i, w.profile, w.used, w.whole) \in SummaryBodies
      /\ SummaryBody(w.user, i, w.profile, w.used, w.whole).profile = w.profile
      /\ SummaryBody(w.user, i, w.profile, w.used, w.whole).used = w.used
  BY <1>6, IsSummaryBody
<1>. QED
  BY <1>2, <1>5, <1>7, <1>8

LEMMA GameClosesKeeps ==
  ASSUME Inv, GameCloses
  PROVE  Inv'
<1>. DEFINE v == SummaryOf(save)
            i == game[1]
            h == game[2]
            w == Finished(v, i, h)
            g == Put(save, Summary, Intact(w))
<1>1. /\ game # None /\ game' = None
      /\ lib' = lib /\ saves' = saves /\ shelf' = shelf /\ rotten' = rotten /\ job' = job
      /\ unpack' = unpack /\ temps' = temps /\ faults' = faults /\ excused' = excused
  BY DEF GameCloses
<1>2. save' = [save EXCEPT ![Summary] = Intact(w)]
  BY Zenon DEF GameCloses, Finished
<1>3. /\ SaveOk(save) /\ GameOk(save, game, excused) /\ ShelfOk(shelf, excused) /\ Counts
      /\ JobOk(job, save, game, saves, shelf) /\ TempsComeFromFailure
  BY DEF Inv
<1>4. i \in Slots /\ h \in Heroes /\ v \in SummaryBodies
  BY <1>1, <1>3, SaveIs DEF Counts, SaveOk
<1>. HIDE DEF v, i, h
<1>5. /\ w \in SummaryBodies /\ w.profile = [v.profile EXCEPT ![i] = h]
      /\ w.used = [v.used EXCEPT ![i] = TRUE]
  BY <1>4, FinishedIs
<1>6. v.profile \in [Slots -> Heroes \cup {NoHero}] /\ v.used \in [Slots -> BOOLEAN]
  BY <1>4, SummaryParts DEF Profiles, Uses
<1>7. /\ w.profile[i] = h
      /\ \A j \in Slots : j # i => w.profile[j] = v.profile[j]
  BY <1>4, <1>5, <1>6
<1>8. \A j \in Slots : j # i => (w.used[j] <=> v.used[j])
  BY <1>4, <1>5, <1>6
<1>. HIDE DEF w
<1>9. save' = g
  <2>1. save = [p \in Places |-> save[p]] /\ Summary \in Places
    BY <1>3, PlaceFacts DEF SaveOk, IsSave
  <2>. QED
    BY <1>2, <2>1 DEF Put
<1>10. IsSave(g) /\ g[Summary] = Intact(w) /\ \A q \in Places : q # Summary => g[q] = save[q]
  <2>1. IsSave(save) /\ Summary \in Places /\ w \in BodiesAt(Summary)
    BY <1>3, <1>5, PlaceFacts DEF SaveOk, BodiesAt
  <2>. QED
    BY <2>1, PutKeeps DEF Intact
<1>. HIDE DEF g
<1>11. SummaryOf(g) = w
  BY <1>10 DEF SummaryOf, Intact
<1>12. ASSUME NEW j \in Slots, NEW p \in Parts
       PROVE  Hero(g, j, p) = Hero(save, j, p)
  <2>1. <<j, p>> \in Places /\ <<j, p>> # Summary
    BY PlaceFacts
  <2>. QED
    BY <1>10, <2>1 DEF Hero
<1>13. \A p \in Parts : Hero(save, i, p) = h
  BY <1>1, <1>3 DEF GameOk, i, h
<1>14. \A m : AllWritten(save, m) => AllWritten(g, m)
  BY <1>12, StillWritten, PlaceFacts
<1>15. \A j \in Announced(g) : j \in Slots /\ (j # i => j \in Announced(save))
  BY <1>8, <1>11 DEF Announced, v
<1>16. SaveOk(save')
  <2>1. ASSUME lib # "ds2", NEW j \in Announced(g)
        PROVE  Hero(g, j, "a") # NoHero
    <3>1. "a" \in Parts /\ j \in Slots
      BY <1>15, PlaceFacts
    <3>2. CASE j = i
      BY <1>4, <1>12, <1>13, <3>1, <3>2, Constants
    <3>3. CASE j # i
      BY <1>3, <1>12, <1>15, <2>1, <3>1, <3>3 DEF SaveOk, AllWritten
    <3>. QED
      BY <3>2, <3>3
  <2>. QED
    BY <1>9, <1>10, <2>1 DEF SaveOk, AllWritten
<1>17. GameOk(save', game', excused')
  <2>1. ASSUME ~excused, NEW j \in Announced(g)
        PROVE  Paired(g, j)
    <3>1. CASE j = i
      BY <1>7, <1>11, <1>12, <1>13, <1>15, <3>1 DEF Paired, Hero
    <3>2. CASE j # i
      <4>1. Paired(save, j) /\ j \in Slots
        BY <1>1, <1>3, <1>15, <2>1, <3>2 DEF GameOk, i
      <4>. QED
        BY <1>7, <1>11, <1>12, <3>2, <4>1 DEF Paired, Hero, v
    <3>. QED
      BY <3>1, <3>2
  <2>. QED
    BY <1>1, <1>9, <2>1 DEF GameOk, PairedIn
<1>18. JobOk(job', save', game', saves', shelf')
  BY <1>1, <1>3, <1>9, <1>14 DEF JobOk, Counts
<1>19. Counts' /\ ShelfOk(shelf', excused') /\ TempsComeFromFailure'
  BY <1>1, <1>3 DEF Counts, UnpackOk, Alone, Unpacking, TempsComeFromFailure
<1>. QED
  BY <1>1, <1>16, <1>17, <1>18, <1>19, InvPrimed

-----------------------------------------------------------------------------
(***************************************************************************)
(* Slot commands and backups.                                              *)
(***************************************************************************)
LEMMA ChosenKeeps ==
  ASSUME Inv, NEW item \in shelf \cup {None}, item # None => item.kind = "slot", Chosen(item)
  PROVE  Inv'
<1>1. /\ job = None /\ ~Unpacking /\ game = None /\ ActiveSlot(save) # None
      /\ job' = Job(item, ActiveSlot(save), None)
      /\ lib' = lib /\ save' = save /\ game' = game /\ saves' = saves /\ shelf' = shelf
      /\ rotten' = rotten /\ unpack' = unpack /\ temps' = temps /\ faults' = faults /\ excused' = excused
  BY DEF Chosen, Idle, Loads
<1>2. /\ SaveOk(save) /\ GameOk(save, game, excused) /\ ShelfOk(shelf, excused) /\ Counts
      /\ TempsComeFromFailure
  BY DEF Inv
<1>3. ActiveSlot(save) \in Slots
  BY <1>1, <1>2, SaveIs, SummaryParts DEF SaveOk, ActiveSlot
<1>4. JobOk(job', save', game', saves', shelf')
  BY <1>1, <1>2, <1>3 DEF JobOk, Job, Counts
<1>5. Counts' /\ TempsComeFromFailure'
  BY <1>1, <1>2 DEF Counts, UnpackOk, Alone, Unpacking, TempsComeFromFailure
<1>. QED
  BY <1>1, <1>2, <1>4, <1>5, InvPrimed

LEMMA ShelvedKeeps ==
  ASSUME Inv, NEW item, ItemOk(item, excused), Shelved(item), job' \in {job, None}
  PROVE  Inv'
<1>1. /\ shelf' = shelf \cup {item} /\ lib' = lib /\ save' = save /\ game' = game
      /\ saves' = saves /\ rotten' = rotten /\ unpack' = unpack /\ temps' = temps /\ faults' = faults
      /\ excused' = excused
  BY DEF Shelved
<1>2. /\ SaveOk(save) /\ GameOk(save, game, excused) /\ ShelfOk(shelf, excused) /\ Counts
      /\ JobOk(job, save, game, saves, shelf) /\ TempsComeFromFailure
  BY DEF Inv
<1>3. ShelfOk(shelf', excused')
  BY <1>1, <1>2 DEF ShelfOk
<1>4. JobOk(job', save', game', saves', shelf')
  BY <1>1, <1>2 DEF JobOk
<1>5. Counts' /\ TempsComeFromFailure'
  BY <1>1, <1>2 DEF Counts, UnpackOk, Alone, Unpacking, TempsComeFromFailure
<1>. QED
  BY <1>1, <1>2, <1>3, <1>4, <1>5, InvPrimed

LEMMA BackupSlotKeeps ==
  ASSUME Inv, BackupSlot
  PROVE  Inv'
<1>. DEFINE i == job.slot
            x == Serialized(save, i)
            v == SummaryOf(save)
<1>1. game = None /\ i \in Announced(save) /\ Shelved(x) /\ job' = None
  BY DEF BackupSlot, Loads
<1>2. SaveOk(save) /\ GameOk(save, game, excused)
  BY DEF Inv
<1>3. i \in Slots /\ v.profile \in [Slots -> Heroes \cup {NoHero}]
  BY <1>1, <1>2, SaveIs, SummaryParts DEF SaveOk, Announced, Profiles
<1>. HIDE DEF i
<1>4. /\ x.kind = "slot" /\ x.profile = v.profile[i]
      /\ x.part = [p \in Parts |-> save[<<i, p>>].body]
  BY DEF Serialized
<1>. HIDE DEF x
<1>5. \A p \in Parts : save[<<i, p>>].body \in CharBodies
  BY <1>2, <1>3, SaveIs DEF SaveOk
<1>6. IsSlotItem(x)
  BY <1>3, <1>4, <1>5 DEF IsSlotItem
<1>7. IsBackup(x)
  BY <1>1, <1>2, <1>4, <1>6, PlaceFacts DEF IsBackup, SaveOk, AllWritten, Hero
<1>8. ASSUME ~excused, NEW p \in Parts
      PROVE  x.part[p].hero = x.profile
  BY <1>1, <1>2, <1>4, <1>8 DEF GameOk, PairedIn, Paired
<1>9. ItemOk(x, excused)
  BY <1>4, <1>7, <1>8 DEF ItemOk
<1>. QED
  BY <1>1, <1>9, ShelvedKeeps DEF x

LEMMA ImageKeeps ==
  ASSUME Inv, NEW raw \in BOOLEAN, Shelved(Image(raw)), job' = job
  PROVE  Inv'
<1>. DEFINE x == Image(raw)
            d == game # None
<1>1. x = [kind |-> "full", raw |-> raw, image |-> save, during |-> d] /\ d \in BOOLEAN
  BY DEF Image
<1>. HIDE DEF x, d
<1>2. x.kind = "full" /\ x.raw \in BOOLEAN /\ x.image = save /\ x.during = d
  BY <1>1
<1>3. SaveOk(save) /\ GameOk(save, game, excused)
  BY DEF Inv
<1>4. ~excused /\ ~d => PairedIn(save)
  BY <1>3 DEF GameOk, d
<1>5. x.during \in BOOLEAN /\ (~x.during => ~d)
  BY <1>1, <1>2
<1>6. ItemOk(x, excused)
  BY <1>2, <1>3, <1>4, <1>5 DEF ItemOk
<1>. QED
  BY <1>6, ShelvedKeeps DEF x

LEMMA RotKeeps ==
  ASSUME Inv, NEW item \in shelf, Rot(item)
  PROVE  Inv'
<1>1. /\ rotten' = rotten \cup {item}
      /\ lib' = lib /\ save' = save /\ game' = game /\ saves' = saves /\ shelf' = shelf
      /\ job' = job /\ unpack' = unpack /\ temps' = temps /\ faults' = faults /\ excused' = excused
  BY DEF Rot
<1>2. /\ SaveOk(save) /\ GameOk(save, game, excused) /\ ShelfOk(shelf, excused) /\ Counts
      /\ JobOk(job, save, game, saves, shelf)
  BY DEF Inv
<1>3. Counts' /\ TempsComeFromFailure'
  BY <1>1, <1>2 DEF Counts, UnpackOk, Alone, Unpacking, TempsComeFromFailure
<1>. QED
  BY <1>1, <1>2, <1>3, InvPrimed

LEMMA RestoreSlotKeeps ==
  ASSUME Inv, RestoreSlot
  PROVE  Inv'
<1>1. /\ job # None /\ job.item # None /\ game = None
      /\ job' = [job EXCEPT !.mem = save]
      /\ lib' = lib /\ save' = save /\ game' = game /\ saves' = saves /\ shelf' = shelf
      /\ rotten' = rotten /\ unpack' = unpack /\ temps' = temps /\ faults' = faults /\ excused' = excused
  BY DEF RestoreSlot, LoadsForRestore, Loads
<1>2. /\ SaveOk(save) /\ GameOk(save, game, excused) /\ ShelfOk(shelf, excused) /\ Counts
      /\ JobOk(job, save, game, saves, shelf) /\ TempsComeFromFailure
  BY DEF Inv
<1>3. job = [item |-> job.item, slot |-> job.slot, mem |-> job.mem, since |-> job.since]
  BY <1>1, <1>2 DEF JobOk
<1>4. job' = [item |-> job.item, slot |-> job.slot, mem |-> save, since |-> job.since]
  BY <1>1, <1>3
<1>5. /\ job'.item = job.item /\ job'.slot = job.slot /\ job'.mem = save /\ job'.since = job.since
      /\ job' = [item |-> job'.item, slot |-> job'.slot, mem |-> job'.mem, since |-> job'.since]
  BY <1>4
<1>6. JobOk(job', save', game', saves', shelf')
  BY <1>1, <1>2, <1>5 DEF JobOk, SaveOk
<1>7. Counts' /\ TempsComeFromFailure'
  BY <1>1, <1>2 DEF Counts, UnpackOk, Alone, Unpacking, TempsComeFromFailure
<1>. QED
  BY <1>1, <1>2, <1>6, <1>7, InvPrimed

LEMMA RefusedKeeps ==
  ASSUME Inv, Refused
  PROVE  Inv'
<1>1. /\ job' = None
      /\ lib' = lib /\ save' = save /\ game' = game /\ saves' = saves /\ shelf' = shelf
      /\ rotten' = rotten /\ unpack' = unpack /\ temps' = temps /\ faults' = faults /\ excused' = excused
  BY DEF Refused
<1>2. /\ SaveOk(save) /\ GameOk(save, game, excused) /\ ShelfOk(shelf, excused) /\ Counts
      /\ TempsComeFromFailure
  BY DEF Inv
<1>3. JobOk(job', save', game', saves', shelf') /\ Counts' /\ TempsComeFromFailure'
  BY <1>1, <1>2 DEF JobOk, Counts, UnpackOk, Alone, Unpacking, TempsComeFromFailure
<1>. QED
  BY <1>1, <1>2, <1>3, InvPrimed

-----------------------------------------------------------------------------
(***************************************************************************)
(* Restores.                                                               *)
(***************************************************************************)
\* What an import starts from.
LEMMA ImportFrom ==
  ASSUME Inv, Importing, game = None
  PROVE  /\ Ground(save, job.mem) /\ IsSave(job.mem)
         /\ job.item \in shelf /\ job.item.kind = "slot" /\ IsBackup(job.item)
         /\ ~excused => \A p \in Parts : job.item.part[p].hero = job.item.profile
         /\ job.slot \in Slots
<1>1. SaveOk(save) /\ ShelfOk(shelf, excused) /\ JobOk(job, save, game, saves, shelf)
  BY DEF Inv
<1>2. job # None /\ job.mem # None
  BY DEF Importing
<1>3. /\ job.item \in shelf /\ job.item.kind = "slot" /\ job.slot \in Slots
      /\ IsSave(job.mem) /\ AllWritten(save, job.mem)
  BY <1>1, <1>2 DEF JobOk
<1>4. ItemOk(job.item, excused) /\ "slot" # "full"
  BY <1>1, <1>3 DEF ShelfOk
<1>. QED
  BY <1>1, <1>3, <1>4 DEF ItemOk, Ground, SaveOk

LEMMA JobPlanIs ==
  ASSUME Inv, Importing, game = None
  PROVE  /\ PlanHolds(save, job.mem, JobPlan) /\ Len(JobPlan) \in Nat
         /\ ~Raced => Written(save, JobPlan, Len(JobPlan))
                        = Complete(save, save, job.item, job.slot)
<1>. DEFINE m == job.mem
            i == job.slot
            x == job.item
            plan == Plan(m, x, i)
<1>1. Ground(save, m) /\ IsSave(m) /\ i \in Slots /\ IsBackup(x)
  BY ImportFrom
<1>2. JobPlan = plan
  BY DEF JobPlan
<1>3. Raced <=> m # save
  BY DEF Raced
<1>. HIDE DEF m, i, x
<1>4. /\ PlanHolds(save, m, plan)
      /\ SummaryOf(save) = SummaryOf(m) => Written(save, plan, Len(plan)) = Complete(save, m, x, i)
  BY <1>1, PlanKeeps
<1>5. Len(plan) \in Nat
  <2>1. Len(plan) = 4 \/ Len(plan) = 5 \/ Len(plan) = 6
    BY PlanIs
  <2>. HIDE DEF plan
  <2>. QED
    BY <2>1
<1>. HIDE DEF plan
<1>6. ~Raced => Written(save, plan, Len(plan)) = Complete(save, save, x, i)
  BY <1>3, <1>4
<1>. QED
  BY <1>2, <1>4, <1>5, <1>6 DEF m, i, x

LEMMA ImportKeeps ==
  ASSUME Inv, Import
  PROVE  Inv'
<1>1. /\ Importing /\ game = None /\ save' = Written(save, JobPlan, Len(JobPlan))
      /\ job' = None /\ excused' = (excused \/ Raced)
      /\ lib' = lib /\ game' = game /\ saves' = saves /\ shelf' = shelf
      /\ rotten' = rotten /\ unpack' = unpack /\ temps' = temps /\ faults' = faults
  BY DEF Import
<1>2. /\ SaveOk(save) /\ GameOk(save, game, excused) /\ ShelfOk(shelf, excused) /\ Counts
      /\ TempsComeFromFailure
  BY DEF Inv
<1>3. SaveOk(save')
  <2>1. PlanHolds(save, job.mem, JobPlan) /\ Len(JobPlan) \in Nat
    BY <1>1, JobPlanIs
  <2>2. Len(JobPlan) \in 0 .. Len(JobPlan)
    BY <2>1
  <2>3. Ground(save', job.mem)
    BY <1>1, <2>1, <2>2 DEF PlanHolds
  <2>. QED
    BY <2>3 DEF Ground, SaveOk
<1>4. ASSUME ~excused'
      PROVE  PairedIn(save')
  <2>1. ~excused /\ ~Raced
    BY <1>1, <1>4
  <2>2. save' = Complete(save, save, job.item, job.slot)
    BY <1>1, <2>1, JobPlanIs
  <2>3. /\ PairedIn(save) /\ IsSave(save) /\ IsSlotItem(job.item) /\ job.slot \in Slots
        /\ \A p \in Parts : job.item.part[p].hero = job.item.profile
    BY <1>1, <1>2, <2>1, ImportFrom DEF GameOk, SaveOk, IsBackup
  <2>. QED
    BY <2>2, <2>3, CompleteIsPaired
<1>5. GameOk(save', game', excused')
  BY <1>1, <1>4 DEF GameOk
<1>6. excused' \in BOOLEAN /\ (excused => excused')
  <2>1. Raced \in BOOLEAN
    BY DEF Raced
  <2>. QED
    BY <1>1, <1>2, <2>1 DEF Counts
<1>7. ShelfOk(shelf', excused')
  BY <1>1, <1>2, <1>6, ShelfStays
<1>8. JobOk(job', save', game', saves', shelf') /\ Counts' /\ TempsComeFromFailure'
  BY <1>1, <1>2, <1>6 DEF JobOk, Counts, UnpackOk, Alone, Unpacking, TempsComeFromFailure
<1>. QED
  BY <1>1, <1>3, <1>5, <1>7, <1>8, InvPrimed

LEMMA ImportStopsKeeps ==
  ASSUME Inv, ImportStops
  PROVE  Inv'
<1>1. /\ Importing /\ game = None /\ faults < MaxFaults
      /\ job' = None /\ faults' = faults + 1 /\ excused' = TRUE
      /\ lib' = lib /\ game' = game /\ saves' = saves /\ shelf' = shelf
      /\ rotten' = rotten /\ unpack' = unpack /\ temps' = temps
  BY Zenon DEF ImportStops
<1>2. PICK k \in 0 .. Len(JobPlan) - 1 :
        LET done == Written(save, JobPlan, k)
        IN  save' \in {done, CutShort(done, JobPlan[k + 1])}
  BY DEF ImportStops
<1>3. /\ SaveOk(save) /\ GameOk(save, game, excused) /\ ShelfOk(shelf, excused) /\ Counts
      /\ TempsComeFromFailure
  BY DEF Inv
<1>4. SaveOk(save')
  <2>1. PlanHolds(save, job.mem, JobPlan) /\ Len(JobPlan) \in Nat
    BY <1>1, JobPlanIs
  <2>2. k \in 0 .. Len(JobPlan)
    BY <2>1
  <2>3. Ground(save', job.mem)
    BY <1>2, <2>1, <2>2 DEF PlanHolds
  <2>. QED
    BY <2>3 DEF Ground, SaveOk
<1>5. excused'
  BY <1>1, Zenon
<1>6. GameOk(save', game', excused') /\ ShelfOk(shelf', excused')
  <2>1. ShelfOk(shelf, excused')
    BY <1>3, <1>5, ShelfStays
  <2>. QED
    BY <1>1, <1>5, <2>1 DEF GameOk
<1>7. faults' \in 0 .. MaxFaults
  BY <1>1, <1>3, Constants DEF Counts
<1>8. JobOk(job', save', game', saves', shelf') /\ TempsComeFromFailure'
  BY <1>1, <1>3 DEF JobOk, Counts, Unpacking, TempsComeFromFailure
<1>9. TRUE \in BOOLEAN
  OBVIOUS
<1>10. Counts'
  BY <1>1, <1>3, <1>7, <1>9, Zenon DEF Counts, UnpackOk, Alone, Unpacking
<1>. QED
  BY <1>1, <1>4, <1>6, <1>8, <1>10, InvPrimed

LEMMA FullKeeps ==
  ASSUME Inv, NEW item \in shelf, item.kind = "full", job = None, game = None,
         save' = item.image, excused' = (excused \/ item.during),
         UNCHANGED <<lib, game, saves, shelf, rotten, job, faults>>,
         \/ unpack' = unpack /\ temps' = temps
         \/ Unpacking /\ unpack' = NotUnpacking /\ temps' = temps - 1
  PROVE  Inv'
<1>1. /\ SaveOk(save) /\ GameOk(save, game, excused) /\ ShelfOk(shelf, excused) /\ Counts
      /\ TempsComeFromFailure
  BY DEF Inv
<1>2. ItemOk(item, excused) /\ "slot" # "full"
  BY <1>1 DEF ShelfOk
<1>3. /\ item.during \in BOOLEAN /\ SaveOk(item.image)
      /\ ~excused /\ ~item.during => PairedIn(item.image)
  BY <1>2 DEF ItemOk
<1>4. excused' \in BOOLEAN /\ (excused => excused')
  BY <1>1, <1>3 DEF Counts
<1>5. ShelfOk(shelf', excused')
  BY <1>1, <1>4, ShelfStays
<1>6. GameOk(save', game', excused')
  BY <1>3 DEF GameOk
<1>7. JobOk(job', save', game', saves', shelf')
  BY DEF JobOk
<1>8. temps' \in 0 .. MaxTemps
  BY <1>1, Constants DEF Counts, Alone
<1>9. Counts'
  BY <1>1, <1>4, <1>8 DEF Counts, UnpackOk, Alone, Unpacking, NotUnpacking
<1>10. TempsComeFromFailure'
  BY <1>1 DEF Counts, Alone, TempsComeFromFailure, Unpacking, NotUnpacking
<1>. QED
  BY <1>3, <1>5, <1>6, <1>7, <1>9, <1>10, InvPrimed

(* The steps of a container restore that leave the save alone.             *)
LEMMA UnpackKeeps ==
  ASSUME Inv, UNCHANGED <<lib, save, game, saves, shelf, rotten, job, excused>>,
         Counts', TempsComeFromFailure'
  PROVE  Inv'
<1>1. /\ lib' = lib /\ save' = save /\ game' = game /\ saves' = saves /\ shelf' = shelf
      /\ job' = job /\ excused' = excused
  OBVIOUS
<1>2. /\ SaveOk(save) /\ GameOk(save, game, excused) /\ ShelfOk(shelf, excused)
      /\ JobOk(job, save, game, saves, shelf)
  BY DEF Inv
<1>. QED
  BY <1>1, <1>2, InvPrimed

LEMMA BeginContainerKeeps ==
  ASSUME Inv, NEW item \in shelf, BeginContainer(item)
  PROVE  Inv'
<1>1. /\ job = None /\ ~Unpacking /\ temps < MaxTemps /\ item.kind = "full"
      /\ unpack' = [step |-> "temp", item |-> item] /\ temps' = temps + 1
      /\ UNCHANGED <<lib, save, game, saves, shelf, rotten, job, faults, excused>>
  BY DEF BeginContainer, Idle
<1>2. Counts /\ TempsComeFromFailure
  BY DEF Inv
<1>3. Unpacking'
  BY <1>1 DEF Unpacking
<1>4. UnpackOk(unpack', shelf')
  BY <1>1 DEF UnpackOk
<1>5. temps' \in 0 .. MaxTemps /\ temps' > 0
  BY <1>1, <1>2, Constants DEF Counts
<1>6. Counts'
  BY <1>1, <1>2, <1>4, <1>5 DEF Counts, Alone, UnpackOk
<1>7. TempsComeFromFailure'
  BY <1>1, <1>2, <1>3 DEF TempsComeFromFailure
<1>. QED
  BY <1>1, <1>6, <1>7, UnpackKeeps

LEMMA ReadContainerKeeps ==
  ASSUME Inv, ReadContainer
  PROVE  Inv'
<1>1. /\ Unpacking /\ unpack' = [unpack EXCEPT !.step = "read"]
      /\ UNCHANGED <<lib, save, game, saves, shelf, rotten, job, temps, faults, excused>>
  BY DEF ReadContainer, Unpacking
<1>2. Counts /\ TempsComeFromFailure
  BY DEF Inv
<1>3. UnpackOk(unpack, shelf) /\ unpack.step # "no"
  BY <1>1, <1>2 DEF Counts, Unpacking
<1>4. UnpackOk(unpack', shelf') /\ unpack'.step # "no"
  BY <1>1, <1>3 DEF UnpackOk
<1>5. Counts'
  BY <1>1, <1>2, <1>3, <1>4 DEF Counts, UnpackOk, Alone, Unpacking
<1>6. TempsComeFromFailure'
  BY <1>1, <1>2, <1>4 DEF TempsComeFromFailure, Unpacking
<1>. QED
  BY <1>1, <1>5, <1>6, UnpackKeeps

LEMMA ContainerEndsKeeps ==
  ASSUME Inv, ContainerRefused \/ ContainerUnread
  PROVE  Inv'
<1>1. /\ Unpacking /\ unpack' = NotUnpacking
      /\ UNCHANGED <<lib, save, game, saves, shelf, rotten, job, excused>>
  BY DEF ContainerRefused, ContainerUnread, Unpacking
<1>2. Counts /\ TempsComeFromFailure
  BY DEF Inv
<1>3. temps > 0 /\ temps \in 0 .. MaxTemps
      /\ faults \in 0 .. MaxFaults
  BY <1>1, <1>2 DEF Counts, UnpackOk, Alone, Unpacking
<1>4. CASE ContainerRefused
  <2>1. temps' = temps - 1 /\ faults' = faults
    BY <1>4 DEF ContainerRefused
  <2>2. temps' \in 0 .. MaxTemps
    BY <1>3, <2>1, Constants
  <2>3. Counts'
    BY <1>1, <1>2, <2>1, <2>2 DEF Counts, UnpackOk, Alone, Unpacking, NotUnpacking
  <2>4. TempsComeFromFailure'
    BY <1>1, <1>2, <2>1 DEF TempsComeFromFailure, Unpacking, NotUnpacking
  <2>. QED
    BY <1>1, <2>3, <2>4, UnpackKeeps
<1>5. CASE ContainerUnread
  <2>1. /\ temps' = temps
        /\ \/ unpack.item \in rotten /\ faults' = faults
           \/ faults < MaxFaults /\ faults' = faults + 1
    BY <1>5 DEF ContainerUnread, Decompresses
  <2>2. faults' \in 0 .. MaxFaults /\ (rotten' = {} => faults' # 0)
    BY <1>1, <1>3, <2>1, Constants
  <2>3. Counts'
    BY <1>1, <1>2, <2>1, <2>2 DEF Counts, UnpackOk, Alone, Unpacking, NotUnpacking
  <2>4. TempsComeFromFailure'
    BY <2>2 DEF TempsComeFromFailure
  <2>. QED
    BY <1>1, <2>3, <2>4, UnpackKeeps
<1>. QED
  BY <1>4, <1>5

LEMMA RestoreContainerKeeps ==
  ASSUME Inv, RestoreContainer
  PROVE  Inv'
<1>1. /\ Unpacking /\ game = None /\ save' = unpack.item.image
      /\ excused' = (excused \/ unpack.item.during) /\ unpack' = NotUnpacking /\ temps' = temps - 1
      /\ UNCHANGED <<lib, game, saves, shelf, rotten, job, faults>>
  BY DEF RestoreContainer, Unpacking
<1>2. unpack.item \in shelf /\ unpack.item.kind = "full" /\ job = None
  BY <1>1 DEF Inv, Counts, UnpackOk, Alone, Unpacking
<1>. QED
  BY <1>1, <1>2, FullKeeps

LEMMA StutterKeeps ==
  ASSUME Inv, UNCHANGED vars
  PROVE  Inv'
<1>1. /\ lib' = lib /\ save' = save /\ game' = game /\ saves' = saves /\ shelf' = shelf
      /\ rotten' = rotten /\ job' = job /\ unpack' = unpack /\ temps' = temps /\ faults' = faults
      /\ excused' = excused
  BY DEF vars
<1>2. /\ SaveOk(save) /\ GameOk(save, game, excused) /\ ShelfOk(shelf, excused) /\ Counts
      /\ JobOk(job, save, game, saves, shelf) /\ TempsComeFromFailure
  BY DEF Inv
<1>3. Counts' /\ TempsComeFromFailure'
  BY <1>1, <1>2 DEF Counts, UnpackOk, Alone, Unpacking, TempsComeFromFailure
<1>. QED
  BY <1>1, <1>2, <1>3, InvPrimed

-----------------------------------------------------------------------------
(***************************************************************************)
(* The theorems.                                                           *)
(***************************************************************************)
LEMMA NextKeeps ==
  ASSUME Inv, [Next]_vars
  PROVE  Inv'
<1>1. CASE \E i \in Slots, h \in Heroes : GameOpens(i, h)
  BY <1>1, GameOpensKeeps
<1>2. CASE GameCloses
  BY <1>2, GameClosesKeeps
<1>3. CASE ChooseBackup
  <2>1. Chosen(None) /\ None \in shelf \cup {None}
    BY <1>3 DEF ChooseBackup
  <2>. QED
    BY <2>1, ChosenKeeps
<1>4. CASE BackupSlot
  BY <1>4, BackupSlotKeeps
<1>5. CASE BackupRaw \/ BackupFull \/ FindFull
  <2>1. job' = job /\ (Shelved(Image(TRUE)) \/ Shelved(Image(FALSE)))
    BY <1>5, Zenon DEF BackupRaw, BackupFull, FindFull
  <2>2. TRUE \in BOOLEAN /\ FALSE \in BOOLEAN
    OBVIOUS
  <2>. QED
    BY <2>1, <2>2, ImageKeeps, Zenon
<1>6. CASE RestoreSlot
  BY <1>6, RestoreSlotKeeps
<1>7. CASE Import
  BY <1>7, ImportKeeps
<1>8. CASE ImportStops
  BY <1>8, ImportStopsKeeps
<1>9. CASE Refused
  BY <1>9, RefusedKeeps
<1>10. ASSUME NEW item \in shelf, Rot(item)
       PROVE  Inv'
  BY <1>10, RotKeeps
<1>11. ASSUME NEW item \in shelf, ChooseRestore(item)
       PROVE  Inv'
  <2>1. item \in shelf \cup {None} /\ item.kind = "slot" /\ Chosen(item)
    BY <1>11 DEF ChooseRestore
  <2>. QED
    BY <2>1, ChosenKeeps
<1>12. ASSUME NEW item \in shelf, RestoreRaw(item)
       PROVE  Inv'
  BY <1>12, FullKeeps DEF RestoreRaw, Idle
<1>13. CASE RestoreContainer
  BY <1>13, RestoreContainerKeeps
<1>14. ASSUME NEW item \in shelf, BeginContainer(item)
       PROVE  Inv'
  BY <1>14, BeginContainerKeeps
<1>16. CASE ReadContainer
  BY <1>16, ReadContainerKeeps
<1>17. CASE ContainerRefused \/ ContainerUnread
  BY <1>17, ContainerEndsKeeps
<1>15. CASE UNCHANGED vars
  BY <1>15, StutterKeeps
<1>. QED
  BY <1>1, <1>2, <1>3, <1>4, <1>5, <1>6, <1>7, <1>8, <1>9, <1>10, <1>11, <1>12, <1>13, <1>14,
     <1>15, <1>16, <1>17 DEF Next

THEOREM InvAlways == Spec => []Inv
BY InitIsOk, NextKeeps, PTL DEF Spec

(***************************************************************************)
(* TypeOK: every file, live, backed up or loaded, keeps the shape of a     *)
(* save through every write of every import, and every cut in one.         *)
(***************************************************************************)
THEOREM TypeCorrect == Spec => []TypeOK
BY InvAlways, InvIsEnough, PTL

(***************************************************************************)
(* Consistent: a character and its profile belong together unless one of   *)
(* the three known causes came before, and outside Dark Souls II no slot   *)
(* is announced whose character was not written, wherever an import that   *)
(* works from a copy, however old, stops.                                  *)
(***************************************************************************)
THEOREM ConsistentAlways == Spec => []Consistent
BY InvAlways, InvIsEnough, PTL

(***************************************************************************)
(* TempsComeFromFailure: as long as every container decompresses and       *)
(* nothing fails to read or is killed, the only temporary file in the save *)
(* directory is that of the restore under way.                             *)
(***************************************************************************)
THEOREM TempsOnlyFromFailure == Spec => []TempsComeFromFailure
<1>1. Inv => TempsComeFromFailure
  BY DEF Inv
<1>. QED
  BY <1>1, InvAlways, PTL

(***************************************************************************)
(* RestoredExactly: an import that completes on the save it was loaded     *)
(* from leaves the character of the backup and its profile in its slot,    *)
(* announced and with valid checksums, and nothing else changed.           *)
(***************************************************************************)
LEMMA ImportRestores ==
  ASSUME Inv, Import, ~Raced
  PROVE  LET i == job.slot IN
         /\ job.since = saves => i = ActiveSlot(save)
         /\ i \in Announced(save')
         /\ SummaryOf(save').profile[i] = job.item.profile
         /\ \A p \in Parts : /\ Sealed(save', <<i, p>>)
                             /\ save'[<<i, p>>].body = ImportedPart(save, job.item, p)
         /\ Sealed(save', Summary)
         /\ \A q \in Places \ ({i} \X Parts) : q # Summary => save'[q] = save[q]
         /\ \A j \in Slots \ {i} :
              /\ SummaryOf(save').used[j] = SummaryOf(save).used[j]
              /\ SummaryOf(save').profile[j] = SummaryOf(save).profile[j]
<1>. DEFINE i    == job.slot
            x    == job.item
            g    == save'
            new  == ImportedSummary(save, x, i)
            c(p) == ImportedPart(save, x, p)
<1>1. /\ Importing /\ game = None /\ g = Written(save, JobPlan, Len(JobPlan))
  BY DEF Import
<1>2. g = Complete(save, save, x, i)
  BY <1>1, JobPlanIs
<1>3. IsSave(save) /\ IsSlotItem(x) /\ i \in Slots
  BY <1>1, ImportFrom DEF Ground, IsBackup
<1>4. job.since = saves => i = ActiveSlot(save)
  <2>1. JobOk(job, save, game, saves, shelf)
    BY DEF Inv
  <2>. QED
    BY <1>1, <2>1 DEF JobOk, Importing
<1>. HIDE DEF i, x, g
<1>5. /\ \A p \in Parts : g[<<i, p>>] = Intact(c(p))
      /\ g[Summary] = Intact(new)
      /\ \A q \in Places : q # Summary /\ q[1] # i => g[q] = save[q]
  BY <1>2, <1>3, CompleteIs
<1>6. new.used[i] /\ new.profile[i] = x.profile
  BY <1>3, ImportedSlot
<1>7. ASSUME NEW j \in Slots \ {i}
      PROVE  new.used[j] = SummaryOf(save).used[j] /\ new.profile[j] = SummaryOf(save).profile[j]
  BY <1>3, ImportedOthers
<1>. HIDE DEF new, c
<1>8. SummaryOf(g) = new /\ Sealed(g, Summary)
  BY <1>5 DEF SummaryOf, Intact, Sealed
<1>9. ASSUME NEW p \in Parts
      PROVE  Sealed(g, <<i, p>>) /\ g[<<i, p>>].body = c(p)
  <2>1. g[<<i, p>>] = Intact(c(p))
    BY <1>5, Zenon
  <2>. DEFINE b == c(p)
  <2>. HIDE DEF b
  <2>2. Intact(b).body = b /\ Intact(b).sum = b
    BY DEF Intact
  <2>. QED
    BY <2>1, <2>2 DEF Sealed, b
<1>10. i \in Announced(g)
  BY <1>3, <1>6, <1>8 DEF Announced
<1>11. ASSUME NEW q \in Places \ ({i} \X Parts), q # Summary
       PROVE  g[q] = save[q]
  <2>1. q = <<q[1], q[2]>> /\ q[1] \in Slots /\ q[2] \in Parts
    BY <1>11, PlaceFacts
  <2>2. q[1] # i
    BY <1>11, <2>1
  <2>. QED
    BY <1>5, <1>11, <2>2
<1>12. ASSUME NEW j \in Slots \ {i}
       PROVE  /\ SummaryOf(g).used[j] = SummaryOf(save).used[j]
              /\ SummaryOf(g).profile[j] = SummaryOf(save).profile[j]
  BY <1>7, <1>8
<1>13. SummaryOf(g).profile[i] = x.profile
  BY <1>6, <1>8
<1>. QED
  BY <1>4, <1>8, <1>9, <1>10, <1>11, <1>12, <1>13, Zenon DEF i, x, g, c

THEOREM RestoresExactly == Spec => RestoredExactly
<1>1. ASSUME Inv, [Next]_vars
      PROVE  [Import /\ ~Raced =>
                LET i == job.slot  IN
                /\ job.since = saves => i = ActiveSlot(save)
                /\ i \in Announced(save')
                /\ SummaryOf(save').profile[i] = job.item.profile
                /\ \A p \in Parts : /\ Sealed(save', <<i, p>>)
                                    /\ save'[<<i, p>>].body = ImportedPart(save, job.item, p)
                /\ Sealed(save', Summary)
                /\ \A q \in Places \ ({i} \X Parts) : q # Summary => save'[q] = save[q]
                /\ \A j \in Slots \ {i} :
                     /\ SummaryOf(save').used[j] = SummaryOf(save).used[j]
                     /\ SummaryOf(save').profile[j] = SummaryOf(save).profile[j]]_vars
  BY <1>1, ImportRestores, Zenon
<1>. QED
  BY <1>1, InvAlways, PTL DEF Spec, RestoredExactly
=============================================================================
