------------------------- MODULE DistributionProofs -------------------------
(***************************************************************************)
(* What a caller of the distribution API may rely on, for any number of    *)
(* frameworks, versions, tokens and organizations, any page size and any   *)
(* length of the feed.  The inductive invariant, Inv, is made of           *)
(*                                                                         *)
(*   Types      the rows, the feed and the cursor of the caller;           *)
(*   RowsTold   what the feed says of a version, by the status of its row, *)
(*              and, of the framework of a published version, that its     *)
(*              public column is what its license says: the two columns    *)
(*              that FeedMatchesCatalog compares are settled together;     *)
(*   Marked     an event names the row it is about, and one of a release   *)
(*              or a withdrawal carries the visibility its framework's     *)
(*              license gives;                                             *)
(*   OneOfEach  no two frameworks there are have one reference id;         *)
(*   Ordered    behind the release of a framework that is there, all       *)
(*              events under its reference id are its own: whoever had the *)
(*              id before is told of earlier;                              *)
(*   Walked     the caller has the visible events up to its cursor, the    *)
(*              head it was told is a visible event or none, and it has    *)
(*              reached it when it was told that there is no more.         *)
(***************************************************************************)
EXTENDS Distribution, FiniteSetTheorems, WellFoundedInduction, TLAPS

-----------------------------------------------------------------------------
(* Finite sets of numbers *)

\* A set of numbers with a bound has a greatest member.
LEMMA MaxExists ==
  ASSUME NEW n \in Nat, NEW S \in SUBSET (0..n), S # {}
  PROVE  Max(S) \in S /\ \A j \in S : j <= Max(S)
<1> DEFINE After(i) == {j \in S : j > i}
<1> DEFINE T == {After(i) : i \in S}
<1>1. IsFiniteSet(S)
  <2>1. IsFiniteSet(0..n) BY FS_Interval
  <2> QED BY <2>1, FS_Subset
<1>2. T \subseteq FiniteSubsetsOf(S) /\ T # {}
  <2>1. FiniteSubsetsOf(S) = SUBSET S BY <1>1, FS_FiniteSubsetsOfFinite
  <2>2. \A i \in S : After(i) \in SUBSET S OBVIOUS
  <2>3. PICK i \in S : TRUE OBVIOUS
  <2>4. After(i) \in T OBVIOUS
  <2> HIDE DEF After
  <2> QED BY <2>1, <2>2, <2>4
<1>3. PICK x \in T : \A y \in T : ~(<<y, x>> \in StrictSubsetOrdering(S))
  <2> HIDE DEF T
  <2> QED BY <1>2, FS_StrictSubsetOrderingWellFounded, WFMin
<1>4. PICK m \in S : x = After(m) OBVIOUS
<1>5. \A i \in S : i \in Int OBVIOUS
<1>6. ASSUME NEW j \in S, j > m PROVE FALSE
  <2>1. After(j) \in SUBSET S /\ After(m) \in SUBSET S OBVIOUS
  <2>2. \A k : k \in After(j) => k \in After(m) BY <1>5, <1>6
  <2>3. j \in After(m) /\ j \notin After(j) BY <1>5, <1>6
  <2>4. After(j) \in T OBVIOUS
  <2> HIDE DEF After
  <2>5. <<After(j), x>> \in StrictSubsetOrdering(S) BY <1>4, <2>1, <2>2, <2>3 DEF StrictSubsetOrdering
  <2> QED BY <1>3, <2>4, <2>5
<1>7. \A j \in S : m >= j BY <1>5, <1>6
<1>8. Max(S) \in S /\ \A j \in S : Max(S) >= j BY <1>7 DEF Max
<1> QED BY <1>5, <1>8

\* And a least one.
LEMMA MinExists ==
  ASSUME NEW n \in Nat, NEW S \in SUBSET (0..n), S # {}
  PROVE  Min(S) \in S /\ \A j \in S : Min(S) <= j
<1> PICK R : R = {k \in 0..n : n - k \in S} OBVIOUS
<1>1. R \in SUBSET (0..n) OBVIOUS
<1>2. \A i \in S : i \in 0..n /\ n - i \in 0..n /\ n - (n - i) = i OBVIOUS
<1>3. \A i \in S : n - i \in R BY <1>2
<1>4. Max(R) \in R /\ \A k \in R : k <= Max(R) BY <1>1, <1>3, MaxExists
<1> PICK m : m = n - Max(R) OBVIOUS
<1>5. m \in S /\ Max(R) = n - m BY <1>1, <1>4
<1>6. ASSUME NEW j \in S PROVE m <= j BY <1>2, <1>3, <1>4, <1>5
<1> QED BY <1>5, <1>6 DEF Min

\* The first n members of a finite set of numbers: whoever is before a member is
\* a member.
LEMMA FirstIsInitial ==
  ASSUME NEW n \in Nat, NEW m \in Nat, NEW S \in SUBSET (0..m), NEW i \in First(n, S),
         NEW j \in S, j <= i
  PROVE  j \in First(n, S)
<1> DEFINE Upto(k) == {l \in S : l <= k}
<1>1. IsFiniteSet(S)
  <2>1. IsFiniteSet(0..m) BY FS_Interval
  <2> QED BY <2>1, FS_Subset
<1>2. i \in S /\ Cardinality(Upto(i)) <= n BY DEF First
<1>3. Upto(j) \subseteq Upto(i)
  <2>1. i \in Int /\ \A k \in S : k \in Int BY <1>2
  <2>2. \A l \in S : l <= j => l <= i BY <2>1
  <2> QED BY <2>2
<1>4. IsFiniteSet(Upto(i)) BY <1>1, FS_Subset
<1>5. IsFiniteSet(Upto(j)) /\ Cardinality(Upto(j)) <= Cardinality(Upto(i)) BY <1>3, <1>4, FS_Subset
<1>6. Cardinality(Upto(i)) \in Nat /\ Cardinality(Upto(j)) \in Nat
  BY <1>4, <1>5, FS_CardinalityType
<1>7. Cardinality(Upto(j)) <= n
  <2> HIDE DEF Upto
  <2> QED BY <1>2, <1>5, <1>6
<1> QED BY <1>7 DEF First

\* They are all there is if one more would have been taken, and was not there.
LEMMA FirstIsAll ==
  ASSUME NEW n \in Nat, NEW m \in Nat, NEW S \in SUBSET (0..m),
         Cardinality(First(n + 1, S)) <= n
  PROVE  First(n + 1, S) = S /\ First(n, First(n + 1, S)) = S
<1> DEFINE Upto(k) == {l \in S : l <= k}
<1> PICK P : P = First(n + 1, S) OBVIOUS
<1>1. IsFiniteSet(S) /\ P \subseteq S /\ IsFiniteSet(P) /\ Cardinality(P) <= n
  <2>1. IsFiniteSet(0..m) BY FS_Interval
  <2>2. IsFiniteSet(S) BY <2>1, FS_Subset
  <2>3. P \subseteq S BY DEF First
  <2> QED BY <2>2, <2>3, FS_Subset
<1>2. P = S
  <2> SUFFICES ASSUME S \ P # {} PROVE FALSE BY <1>1
  <2> PICK x : x = Min(S \ P) OBVIOUS
  <2>1. x \in S \ P /\ \A y \in S \ P : x <= y BY MinExists
  <2>2. \A l \in S : l <= x => l \in P \union {x} BY <2>1
  <2>3. Upto(x) \subseteq P \union {x} BY <2>2
  <2>4. IsFiniteSet(P \union {x}) /\ Cardinality(P \union {x}) = Cardinality(P) + 1
    <3>1. x \notin P BY <2>1
    <3> QED BY <1>1, <3>1, FS_AddElement
  <2>5. IsFiniteSet(Upto(x)) /\ Cardinality(Upto(x)) <= Cardinality(P \union {x})
    BY <2>3, <2>4, FS_Subset
  <2>6. Cardinality(P) \in Nat /\ Cardinality(Upto(x)) \in Nat
    BY <1>1, <2>5, FS_CardinalityType
  <2>7. Cardinality(Upto(x)) <= n + 1
    <3> HIDE DEF Upto
    <3> QED BY <1>1, <2>4, <2>5, <2>6
  <2>8. x \in P BY <2>1, <2>7 DEF First
  <2> QED BY <2>1, <2>8
<1>3. ASSUME NEW i \in S PROVE i \in First(n, S)
  <2>1. Upto(i) \subseteq S OBVIOUS
  <2>2. IsFiniteSet(Upto(i)) /\ Cardinality(Upto(i)) <= Cardinality(S) BY <1>1, <2>1, FS_Subset
  <2>3. Cardinality(Upto(i)) \in Nat /\ Cardinality(S) \in Nat BY <1>1, <2>2, FS_CardinalityType
  <2>4. Cardinality(Upto(i)) <= n
    <3> HIDE DEF Upto
    <3> QED BY <1>1, <1>2, <2>2, <2>3
  <2> QED BY <2>4 DEF First
<1>4. First(n, S) = S BY <1>3 DEF First
<1> QED BY <1>2, <1>4

-----------------------------------------------------------------------------
(* The inductive invariant *)

Types ==
  /\ framework \in [Frameworks -> {"absent", "private", "public", "deleted"}]
  /\ version \in [Versions -> [status : {"absent", "draft", "published", "deprecated", "deleted"},
                               at : Nat]]
  /\ feed \in Seq(Event) /\ origin \in Seq(Versions) /\ Len(origin) = Len(feed)
  /\ walk \in [pc : {"idle", "head"}, head : Nat, cursor : Nat, more : BOOLEAN, got : SUBSET Nat]

Says(i, kind, v) == i \in DOMAIN feed /\ feed[i].kind = kind /\ origin[i] = v

\* The public column that a publication writes, and the event that goes with it.
Open(f) == f \in OpenLicense
Licensed(f) == IF f \in OpenLicense THEN "public" ELSE "private"

RowTold(v) ==
  LET f == FrameworkOf[v]  s == version[v].status IN
  /\ s \in {"absent", "draft"} => \A i : ~Says(i, "published", v) /\ ~Says(i, "deprecated", v)
  /\ s = "published" => /\ \A i : /\ Says(i, "published", v) <=> i = version[v].at
                                  /\ ~Says(i, "deprecated", v)
                        /\ framework[f] = Licensed(f)
  /\ s = "deprecated" => \E j : /\ Says(j, "deprecated", v)
                                /\ \A i : Says(i, "published", v) => i <= j
  /\ framework[f] = "absent" => s = "absent"
  /\ framework[f] = "deleted" <=> s = "deleted"
RowsTold == \A v \in Versions : RowTold(v)

MarkedBy(e, v) ==
  LET f == FrameworkOf[v] IN
  /\ e.framework = RefOf[f] /\ e.version = NameOf[v]
  /\ e.kind # "mapping_published" => e.region = RegionOf[f] /\ (e.public <=> f \in OpenLicense)
Marked == \A i \in DOMAIN feed : MarkedBy(feed[i], origin[i])

OneOfEach ==
  \A f, g \in Frameworks : Exists(f) /\ Exists(g) /\ RefOf[f] = RefOf[g] => f = g

About(i) == FrameworkOf[origin[i]]
Ordered ==
  \A i, j \in DOMAIN feed :
    i < j /\ feed[i].kind # "mapping_published" /\ Exists(About(i)) /\ RefOf[About(i)] = RefOf[About(j)]
      => About(j) = About(i)

Walked ==
  /\ NothingMissed
  /\ walk.cursor <= Len(feed)
  /\ walk.head = 0 \/ walk.head \in VisibleSeqs(caller)

Rest == Types /\ RowsTold /\ Marked /\ OneOfEach /\ Ordered
Inv == Rest /\ Walked

LEMMA ConstantFacts ==
  /\ Cardinality(Versions) \in Nat /\ Versions \in SUBSET (0..Cardinality(Versions))
  /\ \A v \in Versions : FrameworkOf[v] \in Frameworks
  /\ \A f \in Frameworks : VersionsOf(f) \in SUBSET (0..Cardinality(Versions)) /\ VersionsOf(f) # {}
<1>1. Cardinality(Versions) \in Nat BY DistributionAssumption, FS_CardinalityType
<1> QED BY <1>1, DistributionAssumption DEF VersionsOf

LEMMA FeedFacts ==
  ASSUME Types
  PROVE  /\ Len(feed) \in Nat /\ DOMAIN feed = 1..Len(feed)
         /\ \A i \in DOMAIN feed : feed[i] \in Event /\ origin[i] \in Versions /\ About(i) \in Frameworks
BY ConstantFacts DEF Types, About

\* The events there are stay as they are.
Quiet == Len(feed) \in Nat /\ DOMAIN feed = 1..Len(feed) /\ feed' \in Seq(Event)
         /\ Len(feed) <= Len(feed') /\ DOMAIN feed' = 1..Len(feed')
         /\ \A i \in DOMAIN feed : feed'[i] = feed[i] /\ origin'[i] = origin[i]

LEMMA AnnouncementFacts ==
  ASSUME NEW kind \in Kinds, NEW v \in Versions, NEW p \in BOOLEAN, NEW e, e = Announcement(kind, v, p)
  PROVE  /\ e \in Event /\ e.kind = kind
         /\ e.framework = RefOf[FrameworkOf[v]] /\ e.version = NameOf[v]
         /\ e.region = RegionOf[FrameworkOf[v]] /\ (e.public <=> p)
<1>1. e = [kind |-> kind, framework |-> RefOf[FrameworkOf[v]], version |-> NameOf[v],
           region |-> RegionOf[FrameworkOf[v]], public |-> p]
  BY DEF Announcement
<1>2. /\ RegionOf[FrameworkOf[v]] \in Regions /\ RefOf[FrameworkOf[v]] \in References
      /\ NameOf[v] \in Names
  BY ConstantFacts DEF Regions, References, Names
<1>3. e \in Event BY <1>1, <1>2 DEF Event
<1>4. /\ e.kind = kind /\ e.framework = RefOf[FrameworkOf[v]] /\ e.version = NameOf[v]
      /\ e.region = RegionOf[FrameworkOf[v]]
  BY <1>1
<1>5. e.public = p BY <1>1
<1> QED BY <1>3, <1>4, <1>5

\* What an event more does to the feed, when it is about a framework there is.
LEMMA FeedGrows ==
  ASSUME Rest, NEW kind \in Kinds, NEW v \in Versions, NEW p \in BOOLEAN,
         emitDistributionEvent(kind, v, p), Exists(FrameworkOf[v]),
         kind # "mapping_published" => (p <=> FrameworkOf[v] \in OpenLicense),
         \A f \in Frameworks : Exists(f)' <=> Exists(f)
  PROVE  /\ Quiet /\ origin' \in Seq(Versions) /\ Len(origin') = Len(feed')
         /\ \A i, k, w : Says(i, k, w)' <=> Says(i, k, w) \/ (i = Len(feed) + 1 /\ k = kind /\ w = v)
         /\ Marked' /\ OneOfEach' /\ Ordered'
<1> USE DEF Rest
<1> PICK e : e = Announcement(kind, v, p) OBVIOUS
<1> PICK n : n = Len(feed) OBVIOUS
<1>1. feed' = Append(feed, e) /\ origin' = Append(origin, v) BY DEF emitDistributionEvent
<1>2. /\ e \in Event /\ e.kind = kind
      /\ e.framework = RefOf[FrameworkOf[v]] /\ e.version = NameOf[v]
      /\ e.region = RegionOf[FrameworkOf[v]] /\ (e.public <=> p)
  BY AnnouncementFacts
<1>3. n \in Nat /\ feed \in Seq(Event) /\ origin \in Seq(Versions) /\ Len(origin) = n
  BY FeedFacts DEF Types
<1>4. /\ feed' \in Seq(Event) /\ Len(feed') = n + 1 /\ DOMAIN feed = 1..n /\ DOMAIN feed' = 1..(n + 1)
      /\ \A i \in 1..n : feed'[i] = feed[i]
      /\ feed'[n + 1] = e
  BY <1>1, <1>2, <1>3
<1>5. /\ origin' \in Seq(Versions) /\ Len(origin') = n + 1
      /\ \A i \in 1..n : origin'[i] = origin[i]
      /\ origin'[n + 1] = v
  BY <1>1, <1>3
<1>6. DOMAIN feed' = DOMAIN feed \union {n + 1} BY <1>3, <1>4
<1>7. Quiet BY <1>3, <1>4, <1>5 DEF Quiet
<1>8. \A i, k, w : Says(i, k, w)' <=> Says(i, k, w) \/ (i = n + 1 /\ k = kind /\ w = v)
  <2> SUFFICES ASSUME NEW i, NEW k, NEW w
               PROVE  Says(i, k, w)' <=> Says(i, k, w) \/ (i = n + 1 /\ k = kind /\ w = v)
    OBVIOUS
  <2>1. CASE i \in 1..n
    <3>1. i # n + 1 BY <1>3, <2>1
    <3> QED BY <1>4, <1>5, <1>6, <2>1, <3>1 DEF Says
  <2>2. CASE i = n + 1
    <3>1. i \notin 1..n BY <1>3, <2>2
    <3> QED BY <1>2, <1>4, <1>5, <1>6, <2>2, <3>1 DEF Says
  <2>3. CASE i \notin 1..n /\ i # n + 1 BY <1>4, <1>6, <2>3 DEF Says
  <2> QED BY <2>1, <2>2, <2>3
<1>9. Marked'
  <2>1. MarkedBy(e, v) BY <1>2 DEF MarkedBy
  <2>2. \A i \in 1..n : MarkedBy(feed'[i], origin'[i]) BY <1>4, <1>5 DEF Marked
  <2>3. MarkedBy(feed'[n + 1], origin'[n + 1]) BY <1>4, <1>5, <2>1
  <2>4. \A i \in DOMAIN feed' : MarkedBy(feed'[i], origin'[i]) BY <1>4, <1>6, <2>2, <2>3
  <2> QED BY <2>4 DEF Marked, MarkedBy
<1>10. OneOfEach' BY DEF OneOfEach
<1>11. Ordered'
  <2> SUFFICES ASSUME NEW i \in DOMAIN feed', NEW j \in DOMAIN feed', i < j,
                      feed'[i].kind # "mapping_published", Exists(About(i))',
                      RefOf[About(i)'] = RefOf[About(j)']
               PROVE  About(j)' = About(i)'
    BY DEF Ordered
  <2>1. i \in 1..n BY <1>3, <1>4
  <2>2. About(i)' = About(i) /\ About(i) \in Frameworks /\ i \in DOMAIN feed
    BY <1>4, <1>5, <2>1, FeedFacts DEF About
  <2>3. Exists(About(i)) BY <2>2 DEF Exists
  <2>4. CASE j \in 1..n
    <3>1. About(j)' = About(j) /\ j \in DOMAIN feed BY <1>4, <1>5, <2>4 DEF About
    <3>2. feed[i].kind # "mapping_published" BY <1>4, <2>1
    <3> QED BY <2>2, <2>3, <3>1, <3>2 DEF Ordered
  <2>5. CASE j = n + 1
    <3>1. About(j)' = FrameworkOf[v] BY <1>5, <2>5 DEF About
    <3> QED BY <2>2, <2>3, <3>1, ConstantFacts DEF OneOfEach
  <2> QED BY <1>4, <1>6, <2>4, <2>5
<1> QED BY <1>3, <1>4, <1>5, <1>7, <1>8, <1>9, <1>10, <1>11

\* And when there is none, and no framework comes back.
LEMMA FeedKept ==
  ASSUME Rest, feed' = feed, origin' = origin
  PROVE  /\ Quiet /\ feed' \in Seq(Event) /\ origin' \in Seq(Versions) /\ Len(origin') = Len(feed')
         /\ \A i, k, w : Says(i, k, w)' <=> Says(i, k, w)
         /\ Marked'
         /\ (\A f \in Frameworks : Exists(f)' => Exists(f)) => OneOfEach' /\ Ordered'
<1> USE DEF Rest
<1>1. Quiet /\ feed' \in Seq(Event) /\ origin' \in Seq(Versions) /\ Len(origin') = Len(feed')
  BY DEF Quiet, Types
<1>2. \A i, k, w : Says(i, k, w)' <=> Says(i, k, w) BY DEF Says
<1>3. Marked' BY DEF Marked, MarkedBy
<1>4. ASSUME \A f \in Frameworks : Exists(f)' => Exists(f) PROVE OneOfEach' /\ Ordered'
  <2>1. OneOfEach' BY <1>4 DEF OneOfEach
  <2>2. ASSUME NEW i \in DOMAIN feed, Exists(About(i))' PROVE Exists(About(i))
    <3>1. About(i)' = About(i) /\ About(i) \in Frameworks BY FeedFacts DEF About
    <3> QED BY <1>4, <2>2, <3>1 DEF Exists
  <2>3. \A i : About(i)' = About(i) BY DEF About
  <2>4. Ordered' BY <2>2, <2>3 DEF Ordered
  <2> QED BY <2>1, <2>4
<1> QED BY <1>1, <1>2, <1>3, <1>4

-----------------------------------------------------------------------------
(* The registry *)

LEMMA InitInv == Init => Inv
<1> SUFFICES ASSUME Init PROVE Inv OBVIOUS
<1>1. feed = <<>> /\ origin = <<>> /\ DOMAIN feed = {} /\ Len(feed) = 0 BY DEF Init
<1>2. Types BY DEF Init, Types
<1>3. RowsTold BY <1>1, ConstantFacts DEF RowsTold, RowTold, Says, Init
<1>4. Marked /\ Ordered BY <1>1 DEF Marked, Ordered
<1>5. OneOfEach BY DEF OneOfEach, Exists, Init
<1>6. Walked BY <1>1 DEF Walked, NothingMissed, VisibleSeqs, Init
<1> QED BY <1>2, <1>3, <1>4, <1>5, <1>6 DEF Inv, Rest

LEMMA CreateFrameworkRest ==
  ASSUME Rest, NEW f \in Frameworks, CreateFramework(f)
  PROVE  Rest' /\ Quiet
<1> USE ConstantFacts DEF Rest
<1> PICK m : m = Min(VersionsOf(f)) OBVIOUS
<1>1. /\ framework[f] = "absent" /\ framework' = [framework EXCEPT ![f] = "private"]
      /\ version' = [version EXCEPT ![m].status = "draft"]
      /\ feed' = feed /\ origin' = origin /\ walk' = walk
      /\ \A g \in Frameworks : RefOf[g] = RefOf[f] => ~Exists(g)
  BY DEF CreateFramework, requests
<1>2. m \in VersionsOf(f) /\ m \in Versions /\ FrameworkOf[m] = f
  <2>1. m \in VersionsOf(f) BY MinExists
  <2> QED BY <2>1 DEF VersionsOf
<1>3. Types'
  <2>1. /\ framework' \in [Frameworks -> {"absent", "private", "public", "deleted"}]
        /\ version' \in [Versions -> [status : {"absent", "draft", "published", "deprecated", "deleted"},
                                      at : Nat]]
    BY <1>1, ZenonT(40) DEF Types
  <2> QED BY <1>1, <2>1 DEF Types
<1>4. Quiet /\ Marked' /\ \A i, k, w : Says(i, k, w)' <=> Says(i, k, w) BY <1>1, FeedKept
<1>5. \A v \in Versions : /\ version'[v].status = IF v = m THEN "draft" ELSE version[v].status
                          /\ version'[v].at = version[v].at
                          /\ framework'[FrameworkOf[v]] =
                               IF FrameworkOf[v] = f THEN "private" ELSE framework[FrameworkOf[v]]
  BY <1>1, <1>2 DEF Types
<1>6. ASSUME NEW v \in Versions, FrameworkOf[v] = f PROVE version[v].status = "absent"
  BY <1>1, <1>6 DEF RowsTold, RowTold
<1>7. ASSUME NEW v \in Versions PROVE RowTold(v)'
  <2>1. RowTold(v) /\ Licensed(FrameworkOf[v])' = Licensed(FrameworkOf[v]) BY DEF RowsTold, Licensed
  <2>2. CASE FrameworkOf[v] = f
    <3>1. version'[v].status \in {"absent", "draft"} BY <1>5, <1>6, <2>2
    <3> QED BY <1>4, <1>5, <1>6, <2>1, <2>2, <3>1 DEF RowTold
  <2>3. CASE FrameworkOf[v] # f
    <3>1. v # m BY <1>2, <2>3
    <3> QED BY <1>4, <1>5, <2>1, <2>3, <3>1 DEF RowTold
  <2> QED BY <2>2, <2>3
<1>8. \A g \in Frameworks : Exists(g)' <=> Exists(g) \/ g = f BY <1>1 DEF Exists, Types
<1>9. OneOfEach' BY <1>1, <1>8 DEF OneOfEach
<1>10. Ordered'
  <2>1. ASSUME NEW i \in DOMAIN feed, feed[i].kind # "mapping_published" PROVE About(i) # f
    <3>1. feed[i].kind \in {"published", "deprecated"} /\ origin[i] \in Versions
      BY <2>1, FeedFacts DEF Event, Kinds
    <3>2. Says(i, "published", origin[i]) \/ Says(i, "deprecated", origin[i]) BY <3>1 DEF Says
    <3> QED BY <1>6, <3>1, <3>2 DEF About, RowsTold, RowTold
  <2>2. ASSUME NEW i \in DOMAIN feed, feed[i].kind # "mapping_published", Exists(About(i))'
        PROVE  Exists(About(i))
    <3>1. About(i)' = About(i) /\ About(i) \in Frameworks BY <1>1, FeedFacts DEF About
    <3>2. (Exists(About(i)))' <=> framework'[About(i)] \in {"private", "public"} BY <3>1 DEF Exists
    <3>3. framework'[About(i)] = framework[About(i)] BY <1>1, <2>1, <2>2, <3>1 DEF Types
    <3> QED BY <2>2, <3>2, <3>3 DEF Exists
  <2>3. \A i : About(i)' = About(i) BY <1>1 DEF About
  <2> QED BY <1>1, <2>2, <2>3 DEF Ordered
<1> QED BY <1>3, <1>4, <1>7, <1>9, <1>10 DEF RowsTold

LEMMA OpenDraftRest ==
  ASSUME Rest, NEW f \in Frameworks, OpenDraft(f)
  PROVE  Rest' /\ Quiet
<1> USE ConstantFacts DEF Rest
<1> PICK m : m = Min(VersionsOf(f) \ Rows(f)) OBVIOUS
<1>1. /\ Rows(f) # {} /\ Rows(f) # VersionsOf(f)
      /\ version' = [version EXCEPT ![m].status = "draft"]
      /\ framework' = framework /\ feed' = feed /\ origin' = origin /\ walk' = walk
  BY DEF OpenDraft, requests
<1>2. m \in VersionsOf(f) \ Rows(f) /\ m \in Versions /\ FrameworkOf[m] = f
  <2>1. VersionsOf(f) \ Rows(f) # {} BY <1>1 DEF Rows
  <2>2. m \in VersionsOf(f) \ Rows(f) BY <2>1, MinExists
  <2> QED BY <2>2 DEF VersionsOf
<1>3. version[m].status = "absent"
  <2>1. PICK w \in Rows(f) : TRUE BY <1>1
  <2>2. w \in Versions /\ FrameworkOf[w] = f /\ version[w].status # "deleted" BY <2>1 DEF Rows, VersionsOf
  <2>3. framework[f] # "deleted" BY <2>2 DEF RowsTold, RowTold
  <2>4. version[m].status \in {"absent", "deleted"} BY <1>2 DEF Rows, Types
  <2>5. version[m].status # "deleted" BY <1>2, <2>3 DEF RowsTold, RowTold
  <2> QED BY <2>4, <2>5
<1>4. framework[f] # "absent"
  <2>1. PICK w \in Rows(f) : TRUE BY <1>1
  <2> QED BY <2>1 DEF Rows, VersionsOf, RowsTold, RowTold
<1>5. Types' BY <1>1, ZenonT(40) DEF Types
<1>6. Quiet /\ Marked' /\ \A i, k, w : Says(i, k, w)' <=> Says(i, k, w) BY <1>1, FeedKept
<1>7. OneOfEach' /\ Ordered'
  <2>1. \A g \in Frameworks : Exists(g)' => Exists(g) BY <1>1 DEF Exists
  <2> QED BY <1>1, <2>1, FeedKept
<1>8. \A v \in Versions : /\ version'[v].status = IF v = m THEN "draft" ELSE version[v].status
                          /\ version'[v].at = version[v].at
  BY <1>1, <1>2 DEF Types
<1>9. ASSUME NEW v \in Versions PROVE RowTold(v)'
  <2>1. RowTold(v) /\ Licensed(FrameworkOf[v])' = Licensed(FrameworkOf[v]) BY DEF RowsTold, Licensed
  <2>2. CASE v = m
    <3>1. /\ version[v].status = "absent" /\ version'[v].status = "draft"
          /\ framework'[FrameworkOf[v]] = framework[f] /\ framework[f] # "absent"
      BY <1>1, <1>2, <1>3, <1>4, <1>8, <2>2
    <3>2. framework[f] # "deleted" BY <1>2, <2>1, <2>2, <3>1 DEF RowTold
    <3>3. \A i : ~Says(i, "published", v) /\ ~Says(i, "deprecated", v) BY <2>1, <3>1 DEF RowTold
    <3>4. \A i : ~Says(i, "published", v)' /\ ~Says(i, "deprecated", v)' BY <1>6, <3>3
    <3> QED BY <3>1, <3>2, <3>4 DEF RowTold
  <2>3. CASE v # m BY <1>1, <1>6, <1>8, <2>1, <2>3 DEF RowTold
  <2> QED BY <2>2, <2>3
<1> QED BY <1>5, <1>6, <1>7, <1>9 DEF RowsTold

LEMMA PublishRest ==
  ASSUME Rest, NEW v \in Versions, Publish(v)
  PROVE  Rest' /\ Quiet
<1> USE ConstantFacts DEF Rest
<1> PICK f : f = FrameworkOf[v] OBVIOUS
<1>1. /\ version[v].status = "draft"
      /\ version' = [version EXCEPT ![v] = [status |-> "published", at |-> Len(feed) + 1]]
      /\ framework' = [framework EXCEPT ![f] = Licensed(f)]
      /\ emitDistributionEvent("published", v, Open(f)) /\ walk' = walk
  BY DEF Publish, requests, Licensed, Open
<1>2. Licensed(f) \in {"public", "private"} /\ Licensed(f)' = Licensed(f) BY DEF Licensed
<1>3. framework[f] \in {"private", "public"}
  <2>1. framework[f] \notin {"absent", "deleted"} BY <1>1 DEF RowsTold, RowTold
  <2> QED BY <2>1 DEF Types
<1>4. Exists(f) /\ \A g \in Frameworks : Exists(g)' <=> Exists(g)
  BY <1>1, <1>2, <1>3 DEF Exists, Types
<1>5. Len(feed) \in Nat BY FeedFacts
<1>6. /\ Quiet /\ origin' \in Seq(Versions) /\ Len(origin') = Len(feed')
      /\ \A i, k, w : Says(i, k, w)' <=> Says(i, k, w) \/ (i = Len(feed) + 1 /\ k = "published" /\ w = v)
      /\ Marked' /\ OneOfEach' /\ Ordered'
  <2>1. Open(f) \in BOOLEAN /\ (Open(f) <=> f \in OpenLicense) /\ "published" \in Kinds BY DEF Open, Kinds
  <2> HIDE DEF Rest
  <2> QED BY <1>1, <1>4, <2>1, FeedGrows
<1>7. Types'
  <2>1. framework' \in [Frameworks -> {"absent", "private", "public", "deleted"}] BY <1>1, <1>2 DEF Types
  <2>2. version' \in [Versions -> [status : {"absent", "draft", "published", "deprecated", "deleted"},
                                  at : Nat]]
    BY <1>1, <1>5 DEF Types
  <2> QED BY <1>1, <1>6, <2>1, <2>2 DEF Types, Quiet
<1>8. \A w \in Versions : /\ version'[w].status = IF w = v THEN "published" ELSE version[w].status
                          /\ version'[w].at = IF w = v THEN Len(feed) + 1 ELSE version[w].at
                          /\ framework'[FrameworkOf[w]] =
                               IF FrameworkOf[w] = f THEN Licensed(f) ELSE framework[FrameworkOf[w]]
  BY <1>1 DEF Types
<1>9. ASSUME NEW w \in Versions PROVE RowTold(w)'
  <2>1. RowTold(w) /\ Licensed(FrameworkOf[w])' = Licensed(FrameworkOf[w]) BY DEF RowsTold, Licensed
  <2>2. CASE w = v
    <3>1. \A i : ~Says(i, "published", v) /\ ~Says(i, "deprecated", v) BY <1>1, <2>1, <2>2 DEF RowTold
    <3>2. \A i : (Says(i, "published", v)' <=> i = version'[v].at) /\ ~Says(i, "deprecated", v)'
      BY <1>6, <1>8, <3>1
    <3> QED BY <1>2, <1>8, <2>1, <2>2, <3>2 DEF RowTold
  <2>3. CASE w # v
    <3>1. \A i : /\ Says(i, "published", w)' <=> Says(i, "published", w)
                 /\ Says(i, "deprecated", w)' <=> Says(i, "deprecated", w)
      BY <1>6, <2>3
    <3>2. CASE FrameworkOf[w] = f BY <1>2, <1>3, <1>8, <2>1, <2>3, <3>1, <3>2 DEF RowTold
    <3>3. CASE FrameworkOf[w] # f BY <1>8, <2>1, <2>3, <3>1, <3>3 DEF RowTold
    <3> QED BY <3>2, <3>3
  <2> QED BY <2>2, <2>3
<1> QED BY <1>6, <1>7, <1>9 DEF RowsTold

LEMMA DeprecateRest ==
  ASSUME Rest, NEW v \in Versions, Deprecate(v)
  PROVE  Rest' /\ Quiet
<1> USE ConstantFacts DEF Rest
<1> PICK f : f = FrameworkOf[v] OBVIOUS
<1>1. /\ version[v].status = "published"
      /\ version' = [version EXCEPT ![v].status = "deprecated"] /\ framework' = framework
      /\ emitDistributionEvent("deprecated", v, Public(f)) /\ walk' = walk
  BY DEF Deprecate, requests
<1>2. framework[f] = Licensed(f) BY <1>1 DEF RowsTold, RowTold
<1>3. Exists(f) /\ (Public(f) <=> f \in OpenLicense) BY <1>2 DEF Exists, Public, Licensed
<1>4. \A g \in Frameworks : Exists(g)' <=> Exists(g) BY <1>1 DEF Exists
<1>5. Len(feed) \in Nat /\ DOMAIN feed = 1..Len(feed) BY FeedFacts
<1>6. /\ Quiet /\ origin' \in Seq(Versions) /\ Len(origin') = Len(feed')
      /\ \A i, k, w : Says(i, k, w)' <=> Says(i, k, w) \/ (i = Len(feed) + 1 /\ k = "deprecated" /\ w = v)
      /\ Marked' /\ OneOfEach' /\ Ordered'
  <2>1. Public(f) \in BOOLEAN /\ "deprecated" \in Kinds BY DEF Public, Kinds
  <2> HIDE DEF Rest
  <2> QED BY <1>1, <1>3, <1>4, <2>1, FeedGrows
<1>7. Types'
  <2>1. version' \in [Versions -> [status : {"absent", "draft", "published", "deprecated", "deleted"},
                                  at : Nat]]
    BY <1>1 DEF Types
  <2> QED BY <1>1, <1>6, <2>1 DEF Types, Quiet
<1>8. \A w \in Versions : /\ version'[w].status = IF w = v THEN "deprecated" ELSE version[w].status
                          /\ version'[w].at = version[w].at
  BY <1>1 DEF Types
<1>9. ASSUME NEW w \in Versions PROVE RowTold(w)'
  <2>1. RowTold(w) /\ Licensed(FrameworkOf[w])' = Licensed(FrameworkOf[w]) BY DEF RowsTold, Licensed
  <2>2. CASE w = v
    <3> PICK n : n = Len(feed) + 1 OBVIOUS
    <3>1. Says(n, "deprecated", v)' BY <1>6
    <3>2. \A i : Says(i, "published", v)' <=> Says(i, "published", v) BY <1>6
    <3>3. \A i : Says(i, "published", v) => i <= n BY <1>5 DEF Says
    <3> QED BY <1>1, <1>8, <2>1, <2>2, <3>1, <3>2, <3>3 DEF RowTold
  <2>3. CASE w # v
    <3>1. \A i : /\ Says(i, "published", w)' <=> Says(i, "published", w)
                 /\ Says(i, "deprecated", w)' <=> Says(i, "deprecated", w)
      BY <1>6, <2>3
    <3> QED BY <1>1, <1>8, <2>1, <2>3, <3>1 DEF RowTold
  <2> QED BY <2>2, <2>3
<1> QED BY <1>6, <1>7, <1>9 DEF RowsTold

LEMMA PublishMappingSetRest ==
  ASSUME Rest, NEW f \in Frameworks, PublishMappingSet(f)
  PROVE  Rest' /\ Quiet
<1> USE ConstantFacts DEF Rest
<1> PICK m : m = Max(Rows(f)) OBVIOUS
<1>1. /\ Rows(f) # {} /\ version' = version /\ framework' = framework
      /\ emitDistributionEvent("mapping_published", m, Public(f)) /\ walk' = walk
  BY DEF PublishMappingSet, requests
<1>2. m \in Versions /\ FrameworkOf[m] = f /\ version[m].status \in {"draft", "published", "deprecated"}
  <2>1. Rows(f) \in SUBSET (0..Cardinality(Versions)) BY DEF Rows
  <2>2. m \in Rows(f) BY <1>1, <2>1, MaxExists
  <2> QED BY <2>2 DEF Rows, VersionsOf
<1>3. Exists(f)
  <2>1. framework[f] \notin {"absent", "deleted"} BY <1>2 DEF RowsTold, RowTold
  <2> QED BY <2>1 DEF Exists, Types
<1>4. \A g \in Frameworks : Exists(g)' <=> Exists(g) BY <1>1 DEF Exists
<1>5. /\ Quiet /\ origin' \in Seq(Versions) /\ Len(origin') = Len(feed')
      /\ \A i, k, w : Says(i, k, w)' <=>
           Says(i, k, w) \/ (i = Len(feed) + 1 /\ k = "mapping_published" /\ w = m)
      /\ Marked' /\ OneOfEach' /\ Ordered'
  <2>1. Public(f) \in BOOLEAN /\ "mapping_published" \in Kinds BY DEF Public, Kinds
  <2> HIDE DEF Rest
  <2> QED BY <1>1, <1>2, <1>3, <1>4, <2>1, FeedGrows
<1>6. Types' BY <1>1, <1>5 DEF Types, Quiet
<1>7. ASSUME NEW w \in Versions PROVE RowTold(w)'
  <2>1. RowTold(w) /\ Licensed(FrameworkOf[w])' = Licensed(FrameworkOf[w]) BY DEF RowsTold, Licensed
  <2>2. \A i : /\ Says(i, "published", w)' <=> Says(i, "published", w)
               /\ Says(i, "deprecated", w)' <=> Says(i, "deprecated", w)
    BY <1>5
  <2> QED BY <1>1, <2>1, <2>2 DEF RowTold
<1> QED BY <1>5, <1>6, <1>7 DEF RowsTold

LEMMA DeleteFrameworkRest ==
  ASSUME Rest, NEW f \in Frameworks, DeleteFramework(f)
  PROVE  Rest' /\ Quiet
<1> USE ConstantFacts DEF Rest
<1>1. /\ Exists(f) /\ framework' = [framework EXCEPT ![f] = "deleted"]
      /\ version' = [v \in Versions |->
           IF v \in VersionsOf(f) THEN [status |-> "deleted", at |-> 0] ELSE version[v]]
      /\ feed' = feed /\ origin' = origin /\ walk' = walk
  BY DEF DeleteFramework, requests
<1>2. Types' BY <1>1 DEF Types
<1>3. Quiet /\ Marked' /\ \A i, k, w : Says(i, k, w)' <=> Says(i, k, w) BY <1>1, FeedKept
<1>4. OneOfEach' /\ Ordered'
  <2>1. \A g \in Frameworks : Exists(g)' => Exists(g) BY <1>1 DEF Exists, Types
  <2> QED BY <1>1, <2>1, FeedKept
<1>5. \A v \in Versions :
        /\ version'[v].status = IF FrameworkOf[v] = f THEN "deleted" ELSE version[v].status
        /\ FrameworkOf[v] # f => version'[v].at = version[v].at
        /\ framework'[FrameworkOf[v]] =
             IF FrameworkOf[v] = f THEN "deleted" ELSE framework[FrameworkOf[v]]
  BY <1>1 DEF Types, VersionsOf
<1>6. ASSUME NEW v \in Versions PROVE RowTold(v)'
  <2>1. RowTold(v) /\ Licensed(FrameworkOf[v])' = Licensed(FrameworkOf[v]) BY DEF RowsTold, Licensed
  <2>2. CASE FrameworkOf[v] = f BY <1>5, <2>2 DEF RowTold
  <2>3. CASE FrameworkOf[v] # f BY <1>3, <1>5, <2>1, <2>3 DEF RowTold
  <2> QED BY <2>2, <2>3
<1> QED BY <1>2, <1>3, <1>4, <1>6 DEF RowsTold

LEMMA StepRest ==
  ASSUME Inv, [Next]_vars
  PROVE  /\ Rest' /\ Quiet
         /\ \/ walk' = walk
            \/ /\ UNCHANGED <<feed, caller>>
               /\ HeadSeq \/ Changes
<1> USE DEF Inv
<1>1. Rest OBVIOUS
<1>2. ASSUME UNCHANGED registry, UNCHANGED caller,
             walk' \in [pc : {"idle", "head"}, head : Nat, cursor : Nat, more : BOOLEAN, got : SUBSET Nat]
      PROVE  Rest' /\ Quiet
  <2>1. framework' = framework /\ version' = version /\ feed' = feed /\ origin' = origin
    BY <1>2 DEF registry
  <2>2. Types' BY <1>2, <2>1 DEF Rest, Types
  <2>3. \A g \in Frameworks : Exists(g)' => Exists(g) BY <2>1 DEF Exists
  <2>4. /\ Quiet /\ Marked' /\ OneOfEach' /\ Ordered'
        /\ \A i, k, w : Says(i, k, w)' <=> Says(i, k, w)
    BY <2>1, <2>3, FeedKept
  <2>5. RowsTold' BY <2>1, <2>4 DEF Rest, RowsTold, RowTold, Licensed
  <2> QED BY <2>2, <2>4, <2>5 DEF Rest
<1>3. ASSUME UNCHANGED registry, UNCHANGED caller, walk' = walk PROVE Rest' /\ Quiet
  BY <1>2, <1>3 DEF Rest, Types
<1>4. ASSUME NEW f \in Frameworks,
             CreateFramework(f) \/ OpenDraft(f) \/ PublishMappingSet(f) \/ DeleteFramework(f)
      PROVE  Rest' /\ Quiet /\ walk' = walk
  BY <1>1, <1>4, CreateFrameworkRest, OpenDraftRest, PublishMappingSetRest, DeleteFrameworkRest
  DEF CreateFramework, OpenDraft, PublishMappingSet, DeleteFramework, requests
<1>5. ASSUME NEW v \in Versions, Publish(v) \/ Deprecate(v) PROVE Rest' /\ Quiet /\ walk' = walk
  BY <1>1, <1>5, PublishRest, DeprecateRest DEF Publish, Deprecate, requests
<1>6. ASSUME HeadSeq PROVE Rest' /\ Quiet /\ UNCHANGED <<feed, caller>>
  <2> PICK h : h = IF VisibleSeqs(caller) = {} THEN 0 ELSE Max(VisibleSeqs(caller)) OBVIOUS
  <2>1. walk' = [walk EXCEPT !.pc = "head", !.head = h] /\ UNCHANGED <<registry, caller>>
    BY <1>6 DEF HeadSeq
  <2>2. h \in Nat
    <3>1. Len(feed) \in Nat /\ VisibleSeqs(caller) \in SUBSET (0..Len(feed))
      BY DEF VisibleSeqs, Rest, Types
    <3>2. VisibleSeqs(caller) # {} => Max(VisibleSeqs(caller)) \in VisibleSeqs(caller)
      BY <3>1, MaxExists
    <3>3. \A i \in VisibleSeqs(caller) : i \in Nat BY <3>1
    <3> QED BY <3>2, <3>3
  <2>3. walk' \in [pc : {"idle", "head"}, head : Nat, cursor : Nat, more : BOOLEAN, got : SUBSET Nat]
    BY <2>1, <2>2 DEF Rest, Types
  <2> QED BY <1>2, <2>1, <2>3 DEF registry
<1>7. ASSUME Changes PROVE Rest' /\ Quiet /\ UNCHANGED <<feed, caller>>
  <2> PICK page : page = First(PageLimit, Page) OBVIOUS
  <2> PICK c : c = IF page = {} THEN walk.cursor ELSE Max(page) OBVIOUS
  <2> PICK more : more = (Cardinality(Page) > PageLimit) OBVIOUS
  <2>1. /\ walk' = [walk EXCEPT !.pc = "idle", !.more = more, !.cursor = c, !.got = @ \union page]
        /\ UNCHANGED <<registry, caller>>
    BY <1>7 DEF Changes
  <2>2. Len(feed) \in Nat /\ page \in SUBSET (0..Len(feed))
    BY DEF First, Page, VisibleSeqs, Rest, Types
  <2>3. c \in Nat
    <3>1. page # {} => Max(page) \in page BY <2>2, MaxExists
    <3>2. \A i \in page : i \in Nat BY <2>2
    <3>3. walk.cursor \in Nat BY DEF Rest, Types
    <3> QED BY <3>1, <3>2, <3>3
  <2>4. walk' \in [pc : {"idle", "head"}, head : Nat, cursor : Nat, more : BOOLEAN, got : SUBSET Nat]
    <3>1. more \in BOOLEAN OBVIOUS
    <3>2. page \in SUBSET Nat BY <2>2
    <3>3. walk.got \union page \in SUBSET Nat BY <3>2 DEF Rest, Types
    <3> QED BY <2>1, <2>3, <3>1, <3>3 DEF Rest, Types
  <2> QED BY <1>2, <2>1, <2>4 DEF registry
<1>8. CASE Next
  <2>1. ASSUME NEW f \in Frameworks, ResolveFramework(f) PROVE Rest' /\ Quiet /\ walk' = walk
    BY <1>3, <2>1 DEF ResolveFramework
  <2>2. ASSUME NEW v \in Versions, ResolveVersion(v) \/ FetchMappingSet(v)
        PROVE  Rest' /\ Quiet /\ walk' = walk
    BY <1>3, <2>2 DEF ResolveVersion, FetchMappingSet
  <2>3. ASSUME \/ IssueToken \/ RevokeToken \/ ReinstateToken \/ DeleteToken
               \/ RegisterOrganization \/ \E status \in {"approved", "suspended"} : SetOrgStatus(status)
               \/ NotFound \/ \E kind \in {"bundle", "seed"} : Serve(kind)
        PROVE  Rest' /\ Quiet /\ walk' = walk
    <3>1. UNCHANGED registry /\ UNCHANGED caller /\ walk' = walk
      BY <2>3 DEF IssueToken, RevokeToken, ReinstateToken, DeleteToken, TokenAction,
                  RegisterOrganization, SetOrgStatus, NotFound, Serve, requests
    <3> QED BY <1>3, <3>1
  <2> QED BY <1>4, <1>5, <1>6, <1>7, <1>8, <2>1, <2>2, <2>3 DEF Next
<1>9. CASE UNCHANGED vars
  <2>1. UNCHANGED registry /\ UNCHANGED caller /\ walk' = walk BY <1>9 DEF vars, registry
  <2> QED BY <1>3, <2>1
<1> QED BY <1>8, <1>9

-----------------------------------------------------------------------------
(* The walk through the feed *)

\* What a caller may see never changes: an event shows up or stays out for good.
LEMMA VisibleGrows ==
  ASSUME Inv, Quiet, caller' = caller
  PROVE  /\ VisibleSeqs(caller) \in SUBSET (1..Len(feed))
         /\ \A i \in 1..Len(feed) : i \in VisibleSeqs(caller)' <=> i \in VisibleSeqs(caller)
         /\ VisibleSeqs(caller)' \in SUBSET (1..Len(feed'))
BY DEF Quiet, VisibleSeqs, Visible

LEMMA StepWalked == ASSUME Inv, [Next]_vars PROVE Walked'
<1> USE DEF Inv
<1>1. Quiet /\ Rest' BY StepRest
<1>2. caller' = caller
  BY DEF Next, vars, CreateFramework, OpenDraft, PublishMappingSet, DeleteFramework,
         ResolveFramework, Publish, Deprecate, ResolveVersion, FetchMappingSet,
         IssueToken, RevokeToken, ReinstateToken, DeleteToken, TokenAction,
         RegisterOrganization, SetOrgStatus, HeadSeq, Changes, NotFound, Serve, requests
<1>3. /\ VisibleSeqs(caller) \in SUBSET (1..Len(feed))
      /\ \A i \in 1..Len(feed) : i \in VisibleSeqs(caller)' <=> i \in VisibleSeqs(caller)
      /\ VisibleSeqs(caller)' \in SUBSET (1..Len(feed'))
  BY <1>1, <1>2, VisibleGrows
<1>4. /\ walk.cursor \in Nat /\ walk.head \in Nat /\ walk.cursor <= Len(feed)
      /\ Len(feed) \in Nat /\ Len(feed') \in Nat /\ Len(feed) <= Len(feed')
  BY <1>1 DEF Rest, Types, Walked, Quiet
<1>5. walk.got = {i \in VisibleSeqs(caller) : i <= walk.cursor} BY DEF Walked, NothingMissed
<1>6. ASSUME walk' = walk PROVE Walked'
  <2>1. walk'.got = {i \in VisibleSeqs(caller)' : i <= walk'.cursor}
    <3>1. \A i \in VisibleSeqs(caller)' : i <= walk.cursor => i \in 1..Len(feed) BY <1>3, <1>4
    <3>2. \A i \in VisibleSeqs(caller) : i \in VisibleSeqs(caller)' BY <1>3
    <3> QED BY <1>3, <1>5, <1>6, <3>1, <3>2
  <2>2. walk'.cursor <= Len(feed') BY <1>4, <1>6
  <2>3. walk'.head = 0 \/ walk'.head \in VisibleSeqs(caller)' BY <1>3, <1>6 DEF Walked
  <2>4. walk'.pc = "idle" /\ ~walk'.more => walk'.head <= walk'.cursor
    BY <1>6 DEF Walked, NothingMissed
  <2> QED BY <2>1, <2>2, <2>3, <2>4 DEF Walked, NothingMissed
<1>7. ASSUME UNCHANGED <<feed, caller>>, HeadSeq PROVE Walked'
  <2> PICK h : h = IF VisibleSeqs(caller) = {} THEN 0 ELSE Max(VisibleSeqs(caller)) OBVIOUS
  <2>1. walk' = [walk EXCEPT !.pc = "head", !.head = h] BY <1>7 DEF HeadSeq
  <2>2. h = 0 \/ h \in VisibleSeqs(caller)
    <3>1. VisibleSeqs(caller) \in SUBSET (0..Len(feed)) BY <1>3
    <3> QED BY <1>4, <3>1, MaxExists
  <2>3. VisibleSeqs(caller)' = VisibleSeqs(caller) BY <1>7 DEF VisibleSeqs, Visible
  <2>4. walk'.pc = "head" /\ walk'.head = h /\ walk'.cursor = walk.cursor /\ walk'.got = walk.got
    BY <2>1 DEF Rest, Types
  <2> QED BY <1>4, <1>5, <1>7, <2>2, <2>3, <2>4 DEF Walked, NothingMissed
<1>8. ASSUME UNCHANGED <<feed, caller>>, Changes PROVE Walked'
  <2> PICK after : after = {i \in VisibleSeqs(caller) : i > walk.cursor} OBVIOUS
  <2> PICK P : P = First(PageLimit + 1, after) OBVIOUS
  <2> PICK page : page = First(PageLimit, P) OBVIOUS
  <2> PICK c : c = IF page = {} THEN walk.cursor ELSE Max(page) OBVIOUS
  <2> PICK more : more = (Cardinality(P) > PageLimit) OBVIOUS
  <2>1. walk' = [walk EXCEPT !.pc = "idle", !.more = more, !.cursor = c, !.got = @ \union page]
    BY <1>8 DEF Changes, Page
  <2>2. PageLimit \in Nat /\ PageLimit + 1 \in Nat BY DistributionAssumption
  <2>3. after \in SUBSET (0..Len(feed)) /\ P \in SUBSET (0..Len(feed)) /\ page \in SUBSET (0..Len(feed))
        /\ page \subseteq P /\ P \subseteq after
    BY <1>3 DEF First
  <2>4. \A i \in page : \A j \in after : j <= i => j \in page
    <3>1. \A i \in P : \A j \in after : j <= i => j \in P BY <1>4, <2>2, <2>3, FirstIsInitial
    <3>2. \A i \in page : \A j \in P : j <= i => j \in page BY <1>4, <2>2, <2>3, FirstIsInitial
    <3> QED BY <2>3, <3>1, <3>2
  <2>5. page # {} => Max(page) \in page /\ \A j \in page : j <= Max(page)
    BY <1>4, <2>3, MaxExists
  <2>6. c \in 0..Len(feed) /\ walk.cursor <= c
    <3>1. CASE page = {} BY <1>4, <3>1
    <3>2. CASE page # {}
      <4>1. c \in page /\ c \in after BY <2>3, <2>5, <3>2
      <4> QED BY <1>4, <2>3, <4>1
    <3> QED BY <3>1, <3>2
  <2>7. ASSUME NEW i \in VisibleSeqs(caller) PROVE i \in walk.got \union page <=> i <= c
    <3>1. i \in Nat /\ (i <= walk.cursor \/ i \in after) BY <1>3, <1>4
    <3>2. CASE i <= walk.cursor BY <1>4, <1>5, <2>6, <3>1, <3>2
    <3>3. CASE i \in after /\ page = {} BY <1>4, <1>5, <3>1, <3>3
    <3>4. CASE i \in after /\ page # {}
      <4>1. c = Max(page) /\ i \notin walk.got BY <1>4, <1>5, <3>1, <3>4
      <4> QED BY <2>4, <2>5, <3>4, <4>1
    <3> QED BY <3>1, <3>2, <3>3, <3>4
  <2>8. walk.got \union page \subseteq VisibleSeqs(caller) BY <1>5, <2>3
  <2>9. walk.got \union page = {i \in VisibleSeqs(caller) : i <= c} BY <2>7, <2>8
  <2>10. ~more => walk.head <= c
    <3> SUFFICES ASSUME ~more PROVE walk.head <= c OBVIOUS
    <3>1. IsFiniteSet(P)
      <4>1. IsFiniteSet(0..Len(feed)) BY <1>4, FS_Interval
      <4> QED BY <2>3, <4>1, FS_Subset
    <3>2. Cardinality(P) \in Nat BY <3>1, FS_CardinalityType
    <3>3. Cardinality(P) <= PageLimit
      <4>1. ~(Cardinality(P) > PageLimit) BY Zenon
      <4> QED BY <2>2, <3>2, <4>1
    <3>4. page = after BY <1>4, <2>2, <2>3, <3>3, FirstIsAll
    <3>5. CASE walk.head = 0 BY <2>6, <3>5
    <3>6. CASE walk.head \in VisibleSeqs(caller)
      <4>1. walk.head <= walk.cursor \/ walk.head \in page BY <1>3, <1>4, <3>4, <3>6
      <4>2. walk.head \in walk.got \union page BY <1>5, <3>6, <4>1
      <4> QED BY <2>7, <3>6, <4>2
    <3> QED BY <3>5, <3>6 DEF Walked
  <2>11. VisibleSeqs(caller)' = VisibleSeqs(caller) /\ Len(feed') = Len(feed)
    BY <1>8 DEF VisibleSeqs, Visible
  <2>12. walk'.head = walk.head /\ walk'.cursor = c /\ walk'.got = walk.got \union page
    BY <2>1 DEF Rest, Types
  <2>13. walk'.more = more BY <2>1 DEF Rest, Types
  <2>14. NothingMissed'
    <3>1. walk'.got = {i \in VisibleSeqs(caller)' : i <= walk'.cursor} BY <2>9, <2>11, <2>12
    <3>2. ~walk'.more => walk'.head <= walk'.cursor BY <2>10, <2>12, <2>13
    <3> QED BY <3>1, <3>2 DEF NothingMissed
  <2> QED BY <2>6, <2>11, <2>12, <2>14 DEF Walked
<1> QED BY <1>6, <1>7, <1>8, StepRest

LEMMA AlwaysInv == Spec => []Inv
<1>1. ASSUME Inv, [Next]_vars PROVE Inv' BY <1>1, StepRest, StepWalked DEF Inv
<1> QED BY <1>1, InitInv, PTL DEF Spec

\* A caller that walks the feed from nextSeq to nextSeq (Changes) gets every
\* event it may ever see, whatever the page limit and however the registry moves
\* under it.
THEOREM WalksMissNothing == Spec => []NothingMissed
<1>1. Inv => NothingMissed BY DEF Inv, Walked
<1> QED BY <1>1, AlwaysInv, PTL

-----------------------------------------------------------------------------
(* Who sees what *)

\* The versions served under a name other than "latest".
LEMMA NamedFacts ==
  ASSUME NEW c \in Callers, NEW ref, NEW name, name # "latest", NEW v
  PROVE  v \in Served(c, ref, name) <=>
           /\ v \in Versions /\ RefOf[FrameworkOf[v]] = ref /\ NameOf[v] = name
           /\ version[v].status = "published" /\ Distributable(c, FrameworkOf[v])
BY ConstantFacts DEF Served, Resolved, VersionNamed, VersionsOf

\* And under "latest".
LEMMA LatestFacts ==
  ASSUME NEW c \in Callers, NEW ref, NEW v
  PROVE  v \in Served(c, ref, "latest") <=>
           /\ v \in Versions /\ RefOf[FrameworkOf[v]] = ref
           /\ Distributable(c, FrameworkOf[v]) /\ v \in LatestPublished(FrameworkOf[v])
BY ConstantFacts DEF Served, Resolved, VersionNamed, VersionsOf, LatestPublished

\* A release or a withdrawal is visible to whom its framework's license and
\* region allow, and so is a version as long as it is published.
MayHave(c, f) == /\ f \in OpenLicense \/ Owns(c)
                 /\ RegionList(c) = {} \/ RegionOf[f] \in RegionList(c)

LEMMA VisibilityFacts ==
  ASSUME Rest, NEW c \in Callers
  PROVE  /\ \A i \in DOMAIN feed : feed[i].kind # "mapping_published" =>
              (i \in VisibleSeqs(c) <=> MayHave(c, About(i)))
         /\ \A v \in Versions : version[v].status = "published" =>
              (Distributable(c, FrameworkOf[v]) <=> MayHave(c, FrameworkOf[v]))
<1>1. \A i \in DOMAIN feed : feed[i].kind # "mapping_published" =>
              (i \in VisibleSeqs(c) <=> MayHave(c, About(i)))
  BY DEF Rest, Marked, MarkedBy, VisibleSeqs, Visible, MayHave, About
<1>2. ASSUME NEW v \in Versions, version[v].status = "published"
      PROVE  Distributable(c, FrameworkOf[v]) <=> MayHave(c, FrameworkOf[v])
  <2>1. framework[FrameworkOf[v]] = Licensed(FrameworkOf[v]) BY <1>2 DEF Rest, RowsTold, RowTold
  <2> QED BY <2>1 DEF Distributable, Exists, Public, Licensed, MayHave
<1> QED BY <1>1, <1>2

\* A version that is there is one of a framework that is there.
LEMMA RowFacts ==
  ASSUME Rest, NEW v \in Versions, version[v].status = "published"
  PROVE  /\ Exists(FrameworkOf[v]) /\ FrameworkOf[v] \in Frameworks
         /\ \A i : Says(i, "published", v) <=> i = version[v].at
         /\ \A i : ~Says(i, "deprecated", v)
<1>1. RowTold(v) /\ FrameworkOf[v] \in Frameworks BY ConstantFacts DEF Rest, RowsTold
<1>2. framework[FrameworkOf[v]] \in {"private", "public"} BY <1>1 DEF RowTold, Licensed
<1> QED BY <1>1, <1>2 DEF RowTold, Exists

\* What the feed tells a caller and what the API serves it agree under every
\* reference id and name: the visibility kept in the events of a release
\* (emitDistributionEvent) and the gate on today's row (resolveDistributable) are
\* the same rule, and no event of a framework that had the id before comes behind
\* those of the one that has it now.
THEOREM FeedAndApiAgree == Spec => []FeedMatchesCatalog
<1>1. ASSUME Inv PROVE FeedMatchesCatalog
  <2> SUFFICES ASSUME NEW c \in Callers, NEW ref \in References, NEW name \in Names \ {"latest"}, NEW v
               PROVE  v \in Served(c, ref, name) <=>
                        \E i \in LastToldReleased(c, ref, name) : v = origin[i] /\ Exists(About(i))
    BY DEF FeedMatchesCatalog, About
  <2> DEFINE Heard == Told(c, ref, name, {"published", "deprecated"})
  <2> USE <1>1 DEF Inv
  <2>1. ASSUME NEW i
        PROVE  i \in Heard <=> /\ i \in DOMAIN feed /\ feed[i].kind \in {"published", "deprecated"}
                               /\ RefOf[About(i)] = ref /\ NameOf[origin[i]] = name
                               /\ MayHave(c, About(i))
    <3>1. i \in Heard <=> /\ i \in VisibleSeqs(c) /\ feed[i].framework = ref /\ feed[i].version = name
                          /\ feed[i].kind \in {"published", "deprecated"}
      BY DEF Told
    <3>2. i \in DOMAIN feed => feed[i].framework = RefOf[About(i)] /\ feed[i].version = NameOf[origin[i]]
      BY DEF Rest, Marked, MarkedBy, About
    <3>3. i \in VisibleSeqs(c) => i \in DOMAIN feed BY DEF VisibleSeqs
    <3> QED BY <3>1, <3>2, <3>3, VisibilityFacts
  <2>2. /\ Len(feed) \in Nat /\ DOMAIN feed = 1..Len(feed)
        /\ \A i \in DOMAIN feed : origin[i] \in Versions /\ About(i) \in Frameworks
    BY FeedFacts DEF Rest
  <2>3. \A i : i \in LastToldReleased(c, ref, name) <=>
                 i \in Heard /\ feed[i].kind = "published" /\ \A j \in Heard : j <= i
    BY DEF LastToldReleased
  <2> HIDE DEF Heard
  <2>4. ASSUME v \in Served(c, ref, name)
        PROVE  \E i \in LastToldReleased(c, ref, name) : v = origin[i] /\ Exists(About(i))
    <3>1. /\ v \in Versions /\ RefOf[FrameworkOf[v]] = ref /\ NameOf[v] = name
          /\ version[v].status = "published" /\ Distributable(c, FrameworkOf[v])
      BY <2>4, NamedFacts
    <3> PICK i : i = version[v].at OBVIOUS
    <3>2. /\ i \in DOMAIN feed /\ feed[i].kind = "published" /\ origin[i] = v
          /\ About(i) = FrameworkOf[v] /\ Exists(About(i))
      BY <3>1, RowFacts DEF Says, About
    <3>3. i \in Heard BY <2>1, <3>1, <3>2, VisibilityFacts
    <3>4. ASSUME NEW j \in Heard PROVE j <= i
      <4> SUFFICES ASSUME i < j PROVE FALSE BY <2>1, <2>2, <3>2
      <4>1. j \in DOMAIN feed /\ feed[j].kind \in {"published", "deprecated"}
            /\ RefOf[About(j)] = ref /\ NameOf[origin[j]] = name
        BY <2>1
      <4>2. About(j) = FrameworkOf[v] BY <3>1, <3>2, <4>1 DEF Rest, Ordered
      <4>3. origin[j] = v
        <5>1. origin[j] \in VersionsOf(FrameworkOf[v]) /\ v \in VersionsOf(FrameworkOf[v])
          BY <2>2, <3>1, <4>1, <4>2 DEF About, VersionsOf
        <5>2. FrameworkOf[v] \in Frameworks BY <3>1, ConstantFacts
        <5> QED BY <3>1, <4>1, <5>1, <5>2, DistributionAssumption
      <4>4. Says(j, "published", v) \/ Says(j, "deprecated", v) BY <4>1, <4>3 DEF Says
      <4>5. j = i BY <3>1, <4>4, RowFacts
      <4> QED BY <2>2, <3>2, <4>5
    <3> QED BY <2>3, <3>2, <3>3, <3>4
  <2>5. ASSUME NEW i \in LastToldReleased(c, ref, name), v = origin[i], Exists(About(i))
        PROVE  v \in Served(c, ref, name)
    <3>1. /\ i \in Heard /\ feed[i].kind = "published" /\ \A j \in Heard : j <= i
      BY <2>3
    <3>2. /\ i \in DOMAIN feed /\ RefOf[About(i)] = ref /\ NameOf[v] = name /\ MayHave(c, About(i))
          /\ v \in Versions /\ About(i) = FrameworkOf[v] /\ Says(i, "published", v)
      BY <2>1, <2>2, <2>5, <3>1 DEF About, Says
    <3>3. RowTold(v) /\ framework[FrameworkOf[v]] # "deleted" BY <2>5, <3>2 DEF Rest, RowsTold, Exists
    <3>4. version[v].status \notin {"absent", "draft", "deleted"} BY <3>2, <3>3 DEF RowTold
    <3>5. version[v].status # "deprecated"
      <4> SUFFICES ASSUME version[v].status = "deprecated" PROVE FALSE OBVIOUS
      <4>1. PICK j : Says(j, "deprecated", v) /\ \A k : Says(k, "published", v) => k <= j
        BY <3>3 DEF RowTold
      <4>2. j \in DOMAIN feed /\ feed[j].kind = "deprecated" /\ About(j) = About(i) /\ i <= j
        BY <3>2, <4>1 DEF Says, About
      <4>3. origin[j] = v BY <4>1 DEF Says
      <4>4. j \in Heard BY <2>1, <3>2, <4>2, <4>3
      <4>5. j <= i BY <3>1, <4>4
      <4>6. i = j BY <2>2, <3>2, <4>2, <4>5
      <4> QED BY <3>1, <4>2, <4>6
    <3>6. version[v].status = "published" BY <3>2, <3>4, <3>5 DEF Rest, Types
    <3>7. Distributable(c, FrameworkOf[v]) BY <3>2, <3>6, VisibilityFacts
    <3> QED BY <3>2, <3>6, <3>7, NamedFacts
  <2> QED BY <2>4, <2>5
<1> QED BY <1>1, AlwaysInv, PTL

\* No two published versions have one place in the feed, and some version of a
\* framework is its newest if any is published.
LEMMA NewestFacts ==
  ASSUME Rest, NEW f \in Frameworks
  PROVE  /\ \A v, w \in LatestPublished(f) : v = w
         /\ (\E v \in VersionsOf(f) : version[v].status = "published") => LatestPublished(f) # {}
         /\ \A v \in LatestPublished(f) : /\ v \in Versions /\ FrameworkOf[v] = f
                                          /\ version[v].status = "published"
<1> DEFINE Out == {v \in VersionsOf(f) : version[v].status = "published"}
<1>1. \A v \in Out : v \in Versions /\ FrameworkOf[v] = f /\ version[v].status = "published" BY DEF VersionsOf
<1>2. \A v : v \in LatestPublished(f) <=> v \in Out /\ \A w \in Out : version[w].at <= version[v].at
  BY DEF LatestPublished
<1> HIDE DEF Out
<1>3. \A v \in Out : Says(version[v].at, "published", v) BY <1>1, RowFacts
<1>4. Len(feed) \in Nat /\ \A v \in Out : version[v].at \in 0..Len(feed)
  <2>1. Len(feed) \in Nat /\ DOMAIN feed = 1..Len(feed) BY FeedFacts DEF Rest
  <2> QED BY <1>3, <2>1 DEF Says
<1>5. ASSUME NEW v \in LatestPublished(f), NEW w \in LatestPublished(f) PROVE v = w
  <2>1. v \in Out /\ w \in Out /\ version[w].at <= version[v].at /\ version[v].at <= version[w].at BY <1>2
  <2>2. version[v].at = version[w].at BY <1>4, <2>1
  <2> QED BY <1>3, <2>1, <2>2 DEF Says
<1>6. ASSUME Out # {} PROVE LatestPublished(f) # {}
  <2> PICK S : S = {version[v].at : v \in Out} OBVIOUS
  <2>1. S \in SUBSET (0..Len(feed)) /\ S # {} BY <1>4, <1>6
  <2>2. Max(S) \in S /\ \A j \in S : j <= Max(S) BY <1>4, <2>1, MaxExists
  <2>3. PICK v \in Out : version[v].at = Max(S) BY <2>2
  <2>4. \A w \in Out : version[w].at \in S OBVIOUS
  <2>5. v \in LatestPublished(f) BY <1>2, <2>2, <2>3, <2>4
  <2> QED BY <2>5
<1>7. (\E v \in VersionsOf(f) : version[v].status = "published") => Out # {} BY DEF Out
<1> QED BY <1>1, <1>2, <1>5, <1>6, <1>7

\* What is listed is served and what is served is listed, in every state: the
\* catalog, the list of versions and the gate of a fetch (LoadCatalog, Versions,
\* resolveDistributable) let the same versions through, whatever list of regions
\* a token was issued with, and a name stands for one version, "latest" for the
\* newest, even if an author named a version so.
THEOREM ListingsAgree == Spec => []ListedIsServed
<1>1. ASSUME Inv, NEW c \in Callers, NEW ref \in References,
             NEW latest, latest = Served(c, ref, "latest")
      PROVE  /\ \A name \in Names \union {"latest"} : \A v, w \in Served(c, ref, name) : v = w
             /\ {v \in Listed(c, ref) : NameOf[v] # "latest"} =
                  UNION {Served(c, ref, name) : name \in Names \ {"latest"}}
             /\ latest \subseteq Listed(c, ref) /\ (latest = {} => Listed(c, ref) = {})
             /\ {v \in Catalog(c, NoRegion) : RefOf[FrameworkOf[v]] = ref} = latest
  <2> USE <1>1 DEF Inv
  <2>1. ASSUME NEW f \in Frameworks, NEW g \in Frameworks, Distributable(c, f), Distributable(c, g),
               RefOf[f] = RefOf[g]
        PROVE  f = g
    BY <2>1 DEF Rest, OneOfEach, Distributable
  <2>2. ASSUME NEW v
        PROVE  v \in Listed(c, ref) <=>
                 /\ v \in Versions /\ RefOf[FrameworkOf[v]] = ref
                 /\ version[v].status = "published" /\ Distributable(c, FrameworkOf[v])
    <3>1. ASSUME NEW f \in Frameworks
          PROVE  v \in ListVersions(c, f) <=>
                   v \in VersionsOf(f) /\ Distributable(c, f) /\ version[v].status = "published"
      BY DEF ListVersions, AllVersions, Rows, Distributable
    <3>2. v \in Listed(c, ref) <=> \E f \in Frameworks : RefOf[f] = ref /\ v \in ListVersions(c, f)
      BY DEF Listed
    <3> QED BY <3>1, <3>2, ConstantFacts DEF VersionsOf
  <2>3. ASSUME NEW name \in Names \union {"latest"}, NEW v \in Served(c, ref, name),
               NEW w \in Served(c, ref, name)
        PROVE  v = w
    <3>1. CASE name = "latest"
      <4>1. /\ v \in Versions /\ v \in LatestPublished(FrameworkOf[v])
            /\ w \in Versions /\ w \in LatestPublished(FrameworkOf[w])
            /\ RefOf[FrameworkOf[v]] = RefOf[FrameworkOf[w]]
            /\ Distributable(c, FrameworkOf[v]) /\ Distributable(c, FrameworkOf[w])
        BY <2>3, <3>1, LatestFacts
      <4>2. FrameworkOf[v] = FrameworkOf[w] /\ FrameworkOf[v] \in Frameworks BY <2>1, <4>1, ConstantFacts
      <4> QED BY <4>1, <4>2, NewestFacts
    <3>2. CASE name # "latest"
      <4>1. /\ v \in Versions /\ w \in Versions /\ NameOf[v] = NameOf[w]
            /\ RefOf[FrameworkOf[v]] = RefOf[FrameworkOf[w]]
            /\ Distributable(c, FrameworkOf[v]) /\ Distributable(c, FrameworkOf[w])
        BY <2>3, <3>2, NamedFacts
      <4>2. FrameworkOf[v] = FrameworkOf[w] /\ FrameworkOf[v] \in Frameworks BY <2>1, <4>1, ConstantFacts
      <4> QED BY <4>1, <4>2, DistributionAssumption DEF VersionsOf
    <3> QED BY <3>1, <3>2
  <2>4. {v \in Listed(c, ref) : NameOf[v] # "latest"} =
          UNION {Served(c, ref, name) : name \in Names \ {"latest"}}
    <3>1. ASSUME NEW v
          PROVE  v \in Listed(c, ref) /\ NameOf[v] # "latest" <=>
                   \E name \in Names \ {"latest"} : v \in Served(c, ref, name)
      <4>1. v \in Versions => NameOf[v] \in Names BY DEF Names
      <4> QED BY <2>2, <4>1, NamedFacts
    <3> QED BY <3>1
  <2>5. latest \subseteq Listed(c, ref)
    <3>1. ASSUME NEW v \in latest PROVE v \in Listed(c, ref)
      <4>1. /\ v \in Versions /\ RefOf[FrameworkOf[v]] = ref
            /\ Distributable(c, FrameworkOf[v]) /\ v \in LatestPublished(FrameworkOf[v])
        BY LatestFacts
      <4>2. version[v].status = "published" BY <4>1, NewestFacts, ConstantFacts
      <4> QED BY <2>2, <4>1, <4>2
    <3> QED BY <3>1
  <2>6. ASSUME NEW v \in Listed(c, ref) PROVE latest # {}
    <3> PICK f : f = FrameworkOf[v] OBVIOUS
    <3>1. /\ v \in Versions /\ RefOf[f] = ref /\ version[v].status = "published" /\ Distributable(c, f)
      BY <2>2
    <3>2. f \in Frameworks /\ v \in VersionsOf(f) BY <3>1, ConstantFacts DEF VersionsOf
    <3>3. PICK w : w \in LatestPublished(f) BY <3>1, <3>2, NewestFacts
    <3>4. w \in Versions /\ FrameworkOf[w] = f BY <3>2, <3>3, NewestFacts
    <3>5. w \in latest BY <3>1, <3>3, <3>4, LatestFacts
    <3> QED BY <3>5
  <2>7. ASSUME NEW v
        PROVE  v \in Catalog(c, NoRegion) /\ RefOf[FrameworkOf[v]] = ref <=> v \in latest
    <3>1. Catalog(c, NoRegion) = UNION {LatestPublished(g) : g \in LoadCatalog(c, RegionList(c))}
      BY DEF Catalog
    <3>2. \A g : g \in LoadCatalog(c, RegionList(c)) <=> g \in Frameworks /\ Distributable(c, g)
      BY DEF LoadCatalog, Distributable
    <3>3. v \in Catalog(c, NoRegion) <=>
            \E g \in Frameworks : Distributable(c, g) /\ v \in LatestPublished(g)
      BY <3>1, <3>2
    <3>4. \A g \in Frameworks : v \in LatestPublished(g) => v \in Versions /\ FrameworkOf[v] = g
      BY NewestFacts
    <3> QED BY <3>3, <3>4, LatestFacts, ConstantFacts
  <2> QED BY <2>3, <2>4, <2>5, <2>6, <2>7
<1>2. ASSUME NEW c \in Callers PROVE UNION {Catalog(c, region) : region \in Regions} = Catalog(c, NoRegion)
  <2> DEFINE Asked(region) == IF RegionList(c) = {} THEN {region} ELSE RegionList(c) \intersect {region}
  <2>1. Catalog(c, NoRegion) = UNION {LatestPublished(g) : g \in LoadCatalog(c, RegionList(c))}
    BY DEF Catalog
  <2>2. ASSUME NEW region \in Regions
        PROVE  Catalog(c, region) = IF Asked(region) = {} THEN {}
                                    ELSE UNION {LatestPublished(g) : g \in LoadCatalog(c, Asked(region))}
    <3>1. region # NoRegion BY DistributionAssumption
    <3> QED BY <3>1 DEF Catalog
  <2>3. ASSUME NEW region \in Regions
        PROVE  Catalog(c, region) \subseteq Catalog(c, NoRegion)
    <3>1. Asked(region) # {} => LoadCatalog(c, Asked(region)) \subseteq LoadCatalog(c, RegionList(c))
      BY DEF LoadCatalog
    <3> HIDE DEF Asked
    <3>2. CASE Asked(region) = {} BY <2>2, <3>2
    <3>3. CASE Asked(region) # {}
      <4>1. Catalog(c, region) = UNION {LatestPublished(g) : g \in LoadCatalog(c, Asked(region))}
        BY <2>2, <3>3
      <4> QED BY <2>1, <3>1, <3>3, <4>1
    <3> QED BY <3>2, <3>3
  <2>4. ASSUME NEW v \in Catalog(c, NoRegion) PROVE \E region \in Regions : v \in Catalog(c, region)
    <3>1. PICK g \in LoadCatalog(c, RegionList(c)) : v \in LatestPublished(g) BY <2>1
    <3>2. g \in Frameworks /\ RegionOf[g] \in Regions BY DEF LoadCatalog, Regions
    <3>3. Asked(RegionOf[g]) = {RegionOf[g]} /\ g \in LoadCatalog(c, Asked(RegionOf[g]))
      BY <3>2 DEF LoadCatalog
    <3>4. Catalog(c, RegionOf[g]) =
            UNION {LatestPublished(h) : h \in LoadCatalog(c, Asked(RegionOf[g]))}
      <4>1. Asked(RegionOf[g]) # {} BY <3>3
      <4> HIDE DEF Asked
      <4> QED BY <2>2, <3>2, <4>1
    <3>5. v \in Catalog(c, RegionOf[g]) BY <3>1, <3>3, <3>4
    <3> QED BY <3>2, <3>5
  <2> QED BY <2>3, <2>4
<1>3. Inv => ListedIsServed BY <1>1, <1>2, Zenon DEF ListedIsServed
<1> QED BY <1>3, AlwaysInv, PTL
=============================================================================
