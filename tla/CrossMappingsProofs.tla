------------------------ MODULE CrossMappingsProofs ------------------------
(***************************************************************************)
(* Theorems about CrossMappings for any number of frameworks, versions,    *)
(* codes, texts and mappings, with and without an AddItemMapping that      *)
(* overlaps the other requests.                                            *)
(*                                                                         *)
(* The statements that resolve stubs are compositions of ResolveTo.  What  *)
(* the proofs need of them is one relation, Resolved(m2, m, r): m2 is m    *)
(* but for open stubs, which may have got a target that is published in r  *)
(* and has the requirement.  It composes, and the order of the statements  *)
(* does not matter for it.                                                 *)
(*                                                                         *)
(* The inductive invariant, Inv, adds to TypeOK                            *)
(*                                                                         *)
(*   AllReal    ResolvedTargetIsReal, also for what the AddItemMapping     *)
(*              under way has written and not committed: the foreign keys  *)
(*              of its rows hold the requirements they point at;           *)
(*   NoneMissed PinnedStubsResolved;                                       *)
(*   AddHolds   the same for the row of that transaction, unless a         *)
(*              publication came in between.                               *)
(***************************************************************************)
EXTENDS CrossMappings, FiniteSetTheorems, WellFoundedInduction, TLAPS

-----------------------------------------------------------------------------
(* Types of rows and mappings *)

RowType ==
  [status : {"absent", "draft", "in_review", "published", "deprecated", "deleted"},
   createdAt : Nat, publishedAt : Nat]
RowsType == [Versions -> RowType]
Table == [Links -> MappingState]

LEMMA LinkTypes ==
  \A l \in Links : /\ l.source \in Versions /\ l.code \in Codes /\ l.target \in Codes
                   /\ l.framework \in Frameworks /\ l.pin \in Versions \union {NoVersion}
  BY MappingAssumption DEF MappingAssumption, LinkType

LEMMA NoMappingType ==
  /\ NoMapping \in MappingState /\ NoMapping.resolved = NoVersion /\ ~NoMapping.present
  /\ Stub \in MappingState /\ Stub.resolved = NoVersion /\ Stub.present
  /\ Stub # NoMapping
<1>1. NoMapping \in MappingState BY DEF NoMapping, MappingState, Reviews
<1>2. NoMapping.resolved = NoVersion /\ NoMapping.present = FALSE BY DEF NoMapping
<1>3. Stub \in MappingState /\ Stub.present = TRUE /\ Stub.resolved = NoVersion
  BY <1>1, <1>2 DEF Stub, MappingState
<1> QED BY <1>1, <1>2, <1>3

\* What changes when the target, or the review, of a mapping is written.
LEMMA Retargeted ==
  ASSUME NEW s \in MappingState, NEW v \in Versions \union {NoVersion}
  PROVE  /\ [s EXCEPT !.resolved = v] \in MappingState
         /\ [s EXCEPT !.resolved = v].resolved = v
         /\ [s EXCEPT !.resolved = v].present = s.present
  BY DEF MappingState

LEMMA Reviewed ==
  ASSUME NEW s \in MappingState, NEW f \in Reviews
  PROVE  /\ [s EXCEPT !.review = f] \in MappingState
         /\ [s EXCEPT !.review = f].resolved = s.resolved
         /\ [s EXCEPT !.review = f].present = s.present
         /\ [s EXCEPT !.review = f].review = f
  BY DEF MappingState

-----------------------------------------------------------------------------
(* The version published last, and the one drafted last *)

\* In a finite set that is not empty something is the last.
LEMMA LastExists ==
  ASSUME NEW at \in [Versions -> Nat], NEW V \in SUBSET Versions, V # {}
  PROVE  \E v \in V : \A w \in V : at[w] <= at[v]
<1> DEFINE Above(v) == {w \in V : at[w] > at[v]}
<1> DEFINE T == {Above(v) : v \in V}
<1>1. IsFiniteSet(V)
  BY MappingAssumption, FS_Subset DEF MappingAssumption
<1>2. T \subseteq FiniteSubsetsOf(V) /\ T # {}
  <2>1. FiniteSubsetsOf(V) = SUBSET V BY <1>1, FS_FiniteSubsetsOfFinite
  <2>2. \A v \in V : Above(v) \in SUBSET V OBVIOUS
  <2>3. PICK v \in V : TRUE OBVIOUS
  <2>4. Above(v) \in T OBVIOUS
  <2> HIDE DEF Above
  <2> QED BY <2>1, <2>2, <2>4
<1>3. PICK x \in T : \A y \in T : ~(<<y, x>> \in StrictSubsetOrdering(V))
  <2> HIDE DEF T
  <2> QED BY <1>1, <1>2, FS_StrictSubsetOrderingWellFounded, WFMin
<1>4. PICK v \in V : x = Above(v) OBVIOUS
<1>5. \A w \in V : at[w] \in Nat OBVIOUS
<1>6. ASSUME NEW w \in V, at[w] > at[v] PROVE FALSE
  <2>1. Above(w) \in SUBSET V /\ Above(v) \in SUBSET V OBVIOUS
  <2>2. \A k : k \in Above(w) => k \in Above(v) BY <1>5, <1>6
  <2>3. w \in Above(v) /\ w \notin Above(w) BY <1>5, <1>6
  <2>4. Above(w) \in T OBVIOUS
  <2> HIDE DEF Above
  <2>5. <<Above(w), x>> \in StrictSubsetOrdering(V) BY <1>4, <2>1, <2>2, <2>3 DEF StrictSubsetOrdering
  <2> QED BY <1>3, <2>4, <2>5
<1> QED BY <1>5, <1>6

LEMMA LatestIsThere ==
  ASSUME NEW r \in RowsType, NEW V \in SUBSET Versions, V # {}
  PROVE  LatestPublished(r, V) \in V
<1> PICK at : at = [v \in Versions |-> r[v].publishedAt] OBVIOUS
<1>1. at \in [Versions -> Nat] /\ \A v \in Versions : at[v] = r[v].publishedAt BY DEF RowsType, RowType
<1>2. PICK v \in V : \A w \in V : at[w] <= at[v] BY <1>1, LastExists
<1>3. \A w \in V : r[w].publishedAt <= r[v].publishedAt BY <1>1, <1>2
<1> QED BY <1>3 DEF LatestPublished

\* The newest draft depends on the times of creation alone.
LEMMA NewestByCreation ==
  ASSUME NEW r, NEW s, NEW V, \A v \in V : r[v].createdAt = s[v].createdAt
  PROVE  NewestCreated(r, V) = NewestCreated(s, V)
<1>1. \A v : (v \in V /\ \A w \in V : r[w].createdAt <= r[v].createdAt)
             <=> (v \in V /\ \A w \in V : s[w].createdAt <= s[v].createdAt)
  OBVIOUS
<1> QED BY <1>1, Zenon DEF NewestCreated

-----------------------------------------------------------------------------
(* What resolving and flagging do to the table *)

\* v is published in r and has what l points at.
Serves(r, v, l) ==
  /\ v \in Versions /\ r[v].status = "published"
  /\ FrameworkOf[v] = l.framework /\ Honours(l, v) /\ HasCode(v, l.target)

Resolved(m2, m, r) ==
  /\ m2 \in Table
  /\ \A l \in Links :
       \/ m2[l] = m[l]
       \/ IsOpen(m, l) /\ \E v \in Versions : Serves(r, v, l) /\ m2[l] = [m[l] EXCEPT !.resolved = v]

\* l is a pinned stub that is open although its target is published in r.
Missed(r, m, l) ==
  /\ IsOpen(m, l) /\ l.pin # NoVersion
  /\ r[l.pin].status = "published" /\ FrameworkOf[l.pin] = l.framework
  /\ HasCode(l.pin, l.target)

\* No mapping goes, loses its target or gets another one.
Keeps(m2, m) ==
  \A l \in Links : /\ m[l].present => m2[l].present
                   /\ m[l].resolved # NoVersion => m2[l].resolved = m[l].resolved
                   /\ IsOpen(m2, l) => IsOpen(m, l)

LEMMA ResolvedKeeps ==
  ASSUME NEW m \in Table, NEW m2, NEW r, Resolved(m2, m, r)
  PROVE  Keeps(m2, m)
<1> SUFFICES ASSUME NEW l \in Links
             PROVE  /\ m[l].present => m2[l].present
                    /\ m[l].resolved # NoVersion => m2[l].resolved = m[l].resolved
                    /\ IsOpen(m2, l) => IsOpen(m, l)
  BY DEF Keeps
<1>1. CASE m2[l] = m[l] BY <1>1 DEF IsOpen
<1>2. CASE IsOpen(m, l) /\ \E v \in Versions : m2[l] = [m[l] EXCEPT !.resolved = v]
  <2>1. PICK v \in Versions : m2[l] = [m[l] EXCEPT !.resolved = v] BY <1>2
  <2>2. m[l] \in MappingState BY DEF Table
  <2>3. m2[l].present = m[l].present BY <2>1, <2>2, Retargeted, MappingAssumption
  <2> QED BY <1>2, <2>3 DEF IsOpen
<1> QED BY <1>1, <1>2 DEF Resolved

LEMMA ResolvedComposes ==
  ASSUME NEW m \in Table, NEW m2, NEW m3, NEW r, Resolved(m2, m, r), Resolved(m3, m2, r)
  PROVE  Resolved(m3, m, r)
<1>1. Keeps(m2, m) BY ResolvedKeeps
<1>2. ASSUME NEW l \in Links
      PROVE  \/ m3[l] = m[l]
             \/ IsOpen(m, l) /\ \E v \in Versions : Serves(r, v, l) /\ m3[l] = [m[l] EXCEPT !.resolved = v]
  <2>1. CASE m3[l] = m2[l] BY <2>1 DEF Resolved
  <2>2. CASE m3[l] # m2[l]
    <3>1. IsOpen(m2, l) BY <2>2 DEF Resolved
    <3>2. m2[l] = m[l]
      <4>1. SUFFICES ASSUME NEW v \in Versions, m2[l] = [m[l] EXCEPT !.resolved = v] PROVE FALSE
        BY DEF Resolved
      <4>2. m[l] \in MappingState BY DEF Table
      <4>3. m2[l].resolved = v BY <4>1, <4>2, Retargeted
      <4> QED BY <3>1, <4>3, MappingAssumption DEF IsOpen, MappingAssumption
    <3>3. IsOpen(m, l) BY <1>1, <3>1 DEF Keeps
    <3> QED BY <2>2, <3>2, <3>3 DEF Resolved
  <2> QED BY <2>1, <2>2
<1> QED BY <1>2 DEF Resolved

\* ResolveTo, when every target it is given serves its stub.
LEMMA ResolveToResolves ==
  ASSUME NEW m \in Table, NEW r, NEW D \in SUBSET Links, NEW target \in [D -> Versions],
         \A l \in D : Serves(r, target[l], l)
  PROVE  /\ Resolved(ResolveTo(m, target), m, r)
         /\ \A l \in D : ~IsOpen(ResolveTo(m, target), l)
<1> PICK m2 : m2 = ResolveTo(m, target) OBVIOUS
<1>1. DOMAIN target = D OBVIOUS
<1>2. \A l \in Links : m2[l] = IF l \in D /\ IsOpen(m, l) THEN [m[l] EXCEPT !.resolved = target[l]] ELSE m[l]
  BY <1>1 DEF ResolveTo
<1>3. \A l \in Links : m2[l] \in MappingState
  <2> TAKE l \in Links
  <2>1. m[l] \in MappingState BY DEF Table
  <2>2. l \in D => target[l] \in Versions OBVIOUS
  <2>3. l \in D => [m[l] EXCEPT !.resolved = target[l]] \in MappingState
    BY <2>1, <2>2, Retargeted
  <2> QED BY <1>2, <2>1, <2>3
<1>4. m2 \in Table
  <2>1. m2 = [l \in Links |-> m2[l]] BY DEF ResolveTo
  <2> QED BY <1>3, <2>1 DEF Table
<1>5. ASSUME NEW l \in Links
      PROVE  \/ m2[l] = m[l]
             \/ IsOpen(m, l) /\ \E v \in Versions : Serves(r, v, l) /\ m2[l] = [m[l] EXCEPT !.resolved = v]
  <2>1. CASE l \in D /\ IsOpen(m, l)
    <3>1. target[l] \in Versions /\ Serves(r, target[l], l) BY <2>1
    <3>2. m2[l] = [m[l] EXCEPT !.resolved = target[l]] BY <1>2, <2>1
    <3> QED BY <2>1, <3>1, <3>2
  <2>2. CASE ~(l \in D /\ IsOpen(m, l)) BY <1>2, <2>2
  <2> QED BY <2>1, <2>2
<1>6. ASSUME NEW l \in D PROVE ~IsOpen(m2, l)
  <2>1. CASE IsOpen(m, l)
    <3>1. m[l] \in MappingState /\ target[l] \in Versions BY DEF Table
    <3>2. m2[l] = [m[l] EXCEPT !.resolved = target[l]] BY <1>2, <2>1
    <3>3. m2[l].resolved = target[l] BY <3>1, <3>2, Retargeted
    <3> QED BY <3>1, <3>3, MappingAssumption DEF IsOpen, MappingAssumption
  <2>2. CASE ~IsOpen(m, l) BY <1>2, <2>2 DEF IsOpen
  <2> QED BY <2>1, <2>2
<1> QED BY <1>4, <1>5, <1>6 DEF Resolved

\* The stubs of one version: every pinned one that can be resolved is.
LEMMA OwnStubsResolved ==
  ASSUME NEW m \in Table, NEW r \in RowsType, NEW source \in Versions
  PROVE  /\ Resolved(ResolveOwnStubs(m, source, r), m, r)
         /\ \A l \in Links : l.source = source => ~Missed(r, ResolveOwnStubs(m, source, r), l)
<1> DEFINE Candidates(l) == {v \in PublishedIn(r, l.framework) : Honours(l, v)}
           own == {l \in Links : l.source = source /\ Candidates(l) # {}}
           latest == [l \in own |-> LatestPublished(r, Candidates(l))]
           D == {k \in own : HasCode(latest[k], k.target)}
           goal == [l \in D |-> latest[l]]
<1>1. ResolveOwnStubs(m, source, r) = ResolveTo(m, goal) BY DEF ResolveOwnStubs
<1>2. \A l \in own : latest[l] \in Candidates(l)
  <2> TAKE l \in own
  <2>1. Candidates(l) \in SUBSET Versions /\ Candidates(l) # {} BY DEF PublishedIn
  <2>2. latest[l] = LatestPublished(r, Candidates(l)) OBVIOUS
  <2> HIDE DEF Candidates, own, latest
  <2> QED BY <2>1, <2>2, LatestIsThere
<1>3. D \in SUBSET Links /\ goal \in [D -> Versions] /\ \A l \in D : Serves(r, goal[l], l)
  <2>1. \A l \in D : goal[l] = latest[l] /\ latest[l] \in Candidates(l) /\ HasCode(latest[l], l.target)
    BY <1>2
  <2>2. \A l \in D : Serves(r, goal[l], l) BY <2>1 DEF Serves, PublishedIn
  <2> QED BY <2>2 DEF Serves
<1>4. Resolved(ResolveTo(m, goal), m, r) /\ \A l \in D : ~IsOpen(ResolveTo(m, goal), l)
  <2> HIDE DEF D, goal
  <2> QED BY <1>3, ResolveToResolves
<1>5. ASSUME NEW l \in Links, l.source = source, Missed(r, ResolveTo(m, goal), l)
      PROVE  FALSE
  <2>1. l.pin \in Candidates(l) BY <1>5, LinkTypes DEF Missed, PublishedIn, Honours
  <2>2. \A v \in Candidates(l) : v = l.pin BY <1>5 DEF Missed, Honours
  <2>3. l \in own BY <1>5, <2>1
  <2>4. latest[l] = l.pin
    <3> HIDE DEF Candidates, own, latest
    <3> QED BY <1>2, <2>2, <2>3
  <2>5. l \in D BY <1>5, <2>3, <2>4 DEF Missed
  <2> QED BY <1>4, <1>5, <2>5 DEF Missed
<1> QED BY <1>1, <1>4, <1>5

\* The stubs that point at a framework, against one published version of it.
LEMMA TargetingResolved ==
  ASSUME NEW m \in Table, NEW r \in RowsType, NEW v \in Versions, r[v].status = "published"
  PROVE  /\ Resolved(ResolveStubsTargeting(m, v), m, r)
         /\ \A l \in Links : l.pin = v => ~Missed(r, ResolveStubsTargeting(m, v), l)
<1> DEFINE D == {k \in Links : /\ k.framework = FrameworkOf[v]
                               /\ Honours(k, v)
                               /\ HasCode(v, k.target)}
           goal == [l \in D |-> v]
<1>1. ResolveStubsTargeting(m, v) = ResolveTo(m, goal) BY DEF ResolveStubsTargeting
<1>2. D \in SUBSET Links /\ goal \in [D -> Versions] /\ \A l \in D : Serves(r, goal[l], l)
  BY DEF Serves
<1>3. Resolved(ResolveTo(m, goal), m, r) /\ \A l \in D : ~IsOpen(ResolveTo(m, goal), l)
  <2> HIDE DEF D, goal
  <2> QED BY <1>2, ResolveToResolves
<1>4. \A l \in Links : l.pin = v /\ FrameworkOf[v] = l.framework /\ HasCode(v, l.target) => l \in D
  BY DEF Honours
<1> QED BY <1>1, <1>3, <1>4 DEF Missed

\* Every stub, against the version of its target framework published last.
LEMMA AllStubsResolved ==
  ASSUME TypeOK, ResolveAllStubs
  PROVE  Resolved(xm', xm, rows)
<1> DEFINE known == {l \in Links : PublishedIn(rows, l.framework) # {}}
           latest == [l \in known |-> LatestPublished(rows, PublishedIn(rows, l.framework))]
           matching == {l \in known : Honours(l, latest[l]) /\ HasCode(latest[l], l.target)}
           goal == [l \in matching |-> latest[l]]
<1>1. xm' = ResolveTo(xm, goal) BY DEF ResolveAllStubs
<1>2. rows \in RowsType /\ xm \in Table BY DEF TypeOK, RowsType, RowType, Table
<1>3. \A l \in known : latest[l] \in PublishedIn(rows, l.framework)
  <2> TAKE l \in known
  <2>1. PublishedIn(rows, l.framework) \in SUBSET Versions /\ PublishedIn(rows, l.framework) # {}
    BY DEF PublishedIn
  <2>2. latest[l] = LatestPublished(rows, PublishedIn(rows, l.framework)) OBVIOUS
  <2> HIDE DEF known, latest
  <2> QED BY <1>2, <2>1, <2>2, LatestIsThere
<1>4. matching \in SUBSET Links /\ goal \in [matching -> Versions]
      /\ \A l \in matching : Serves(rows, goal[l], l)
  <2>1. \A l \in matching : goal[l] = latest[l] /\ latest[l] \in PublishedIn(rows, l.framework)
    BY <1>3
  <2>2. \A l \in matching : Serves(rows, goal[l], l) BY <2>1 DEF Serves, PublishedIn
  <2> QED BY <2>2 DEF Serves
<1> HIDE DEF matching, goal
<1> QED BY <1>1, <1>2, <1>4, ResolveToResolves

\* Flagging writes the review of a mapping, and nothing else.
LEMMA FlaggingKeeps ==
  ASSUME NEW m \in Table, NEW v \in Versions, NEW r
  PROVE  /\ FlagMappings(m, v, r) \in Table
         /\ \A l \in Links : /\ FlagMappings(m, v, r)[l].present = m[l].present
                             /\ FlagMappings(m, v, r)[l].resolved = m[l].resolved
                             /\ m[l] = NoMapping => FlagMappings(m, v, r)[l] = NoMapping
<1> PICK m2 : m2 = FlagMappings(m, v, r) OBVIOUS
<1>1. ASSUME NEW l \in Links
      PROVE  \/ m2[l] = m[l]
             \/ m[l].present /\ \E f \in Reviews : m2[l] = [m[l] EXCEPT !.review = f]
  BY DEF FlagMappings, Reviews
<1>2. ASSUME NEW l \in Links
      PROVE  /\ m2[l] \in MappingState /\ m2[l].present = m[l].present
             /\ m2[l].resolved = m[l].resolved
             /\ m[l] = NoMapping => m2[l] = NoMapping
  <2>1. m[l] \in MappingState BY DEF Table
  <2>2. CASE m2[l] = m[l] BY <2>1, <2>2
  <2>3. ASSUME m[l].present, NEW f \in Reviews, m2[l] = [m[l] EXCEPT !.review = f]
        PROVE  /\ m2[l] \in MappingState /\ m2[l].present = m[l].present
               /\ m2[l].resolved = m[l].resolved
    <3>1. /\ [m[l] EXCEPT !.review = f] \in MappingState
          /\ [m[l] EXCEPT !.review = f].resolved = m[l].resolved
          /\ [m[l] EXCEPT !.review = f].present = m[l].present
      BY <2>1, Reviewed
    <3> QED BY <2>3, <3>1, Zenon
  <2>4. m[l].present => m[l] # NoMapping BY NoMappingType
  <2> QED BY <1>1, <2>2, <2>3, <2>4
<1>3. m2 = [l \in Links |-> m2[l]] BY DEF FlagMappings, Table
<1>4. m2 \in Table BY <1>2, <1>3 DEF Table
<1> QED BY <1>2, <1>4

-----------------------------------------------------------------------------
(* The inductive invariant *)

\* v is, or was, released and has what l points at.
Points(v, l) ==
  /\ v \in Versions /\ rows[v].status \in {"published", "deprecated"}
  /\ FrameworkOf[v] = l.framework /\ Honours(l, v) /\ HasCode(v, l.target)

PointsReally(m) == \A l \in Links : m[l].resolved # NoVersion => Points(m[l].resolved, l)

\* A mapping that is not there has no target and no flag.
HoldsNothing(m) == \A l \in Links : m[l].present \/ m[l] = NoMapping

AllReal == PointsReally(xm) /\ PointsReally(adding.outcome)

NoneMissed == \A l \in Links \ raced : ~Missed(rows, xm, l)

AddHolds ==
  adding # NoAdd =>
    /\ adding.link \in Links /\ adding.outcome[adding.link].present
    /\ adding.link \notin raced => ~Missed(rows, adding.outcome, adding.link)

AddType == [link : Links \union {NoLink}, outcome : Table]

Inv == TypeOK /\ AllReal /\ NoneMissed /\ AddHolds

LEMMA Types ==
  TypeOK <=> /\ rows \in RowsType /\ content \in [Versions -> Bodies]
             /\ xm \in Table /\ HoldsNothing(xm) /\ adding \in AddType
             /\ deprecated \in 0..MaxDeprecations /\ raced \subseteq Links
  BY DEF TypeOK, RowsType, RowType, Table, HoldsNothing, AddType

LEMMA TypesNext ==
  TypeOK' <=> /\ rows' \in RowsType /\ content' \in [Versions -> Bodies]
              /\ xm' \in Table /\ HoldsNothing(xm') /\ adding' \in AddType
              /\ deprecated' \in 0..MaxDeprecations /\ raced' \subseteq Links
  BY DEF TypeOK, RowsType, RowType, Table, HoldsNothing, AddType

LEMMA NoAddType ==
  /\ NoAdd \in AddType /\ NoAdd.link = NoLink /\ NoAdd.outcome \in Table
  /\ \A l \in Links : NoAdd.outcome[l] = NoMapping
  BY NoMappingType DEF NoAdd, AddType, Table

\* What is added or resolved keeps to the three parts about tables.
LEMMA ResolvedIsReal ==
  ASSUME NEW m \in Table, NEW m2, NEW r, Resolved(m2, m, r), HoldsNothing(m)
  PROVE  /\ HoldsNothing(m2)
         /\ PointsReally(m) /\ r = rows => PointsReally(m2)
         /\ \A l \in Links : Missed(r, m2, l) => Missed(r, m, l)
<1>1. Keeps(m2, m) BY ResolvedKeeps
<1>2. ASSUME NEW l \in Links PROVE m2[l].present \/ m2[l] = NoMapping
  BY <1>1 DEF Resolved, HoldsNothing, IsOpen, Keeps
<1>3. ASSUME PointsReally(m), r = rows, NEW l \in Links, m2[l].resolved # NoVersion
      PROVE  Points(m2[l].resolved, l)
  <2>1. CASE m2[l] = m[l] BY <1>3, <2>1 DEF PointsReally
  <2>2. CASE m2[l] # m[l]
    <3>1. PICK v \in Versions : Serves(r, v, l) /\ m2[l] = [m[l] EXCEPT !.resolved = v]
      BY <2>2 DEF Resolved
    <3>2. m2[l].resolved = v BY <3>1, Retargeted DEF Table
    <3> QED BY <1>3, <3>1, <3>2 DEF Serves, Points
  <2> QED BY <2>1, <2>2
<1>4. \A l \in Links : Missed(r, m2, l) => Missed(r, m, l) BY <1>1 DEF Missed, Keeps
<1> QED BY <1>2, <1>3, <1>4 DEF HoldsNothing, PointsReally

\* Released versions stay released and as they are, and none is released.
Settled ==
  \A v \in Versions :
    /\ rows[v].status \in {"published", "deprecated"} =>
         rows'[v].status \in {"published", "deprecated"} /\ content'[v] = content[v]
    /\ rows'[v].status = "published" => rows[v].status = "published"

LEMMA StillReal ==
  ASSUME NEW m \in Table, PointsReally(m),
         \A v \in Versions :
           rows[v].status \in {"published", "deprecated"} =>
             rows'[v].status \in {"published", "deprecated"} /\ content'[v] = content[v]
  PROVE  \A l \in Links : m[l].resolved # NoVersion => Points(m[l].resolved, l)'
  BY DEF PointsReally, Points, HasCode, Honours

LEMMA SettledStep ==
  ASSUME Inv, Settled, NEW m \in Table, xm' = m, PointsReally(m),
         \A l \in Links \ raced : ~Missed(rows, m, l),
         adding' = adding, raced' = raced
  PROVE  AllReal' /\ NoneMissed' /\ AddHolds'
<1> PICK out : out = adding.outcome OBVIOUS
<1>1. out \in Table BY DEF Inv, TypeOK, Table
<1>2. AllReal'
  <2>1. PointsReally(out) BY DEF Inv, AllReal
  <2> QED BY <1>1, <2>1, StillReal DEF Settled, AllReal, PointsReally
<1>3. \A l \in Links : Missed(rows, m, l)' => Missed(rows, m, l)
  BY LinkTypes DEF Settled, Missed, HasCode, IsOpen
<1>4. \A l \in Links : Missed(rows, out, l)' => Missed(rows, out, l)
  BY LinkTypes DEF Settled, Missed, HasCode, IsOpen
<1>5. NoneMissed' BY <1>3 DEF NoneMissed, Missed, IsOpen, HasCode
<1>6. AddHolds'
  <2>1. SUFFICES ASSUME adding # NoAdd
                 PROVE  /\ adding.link \in Links /\ out[adding.link].present
                        /\ adding.link \notin raced => ~Missed(rows, out, adding.link)'
    BY DEF AddHolds, Missed, IsOpen, HasCode
  <2> QED BY <1>4, <2>1 DEF Inv, AddHolds
<1> QED BY <1>2, <1>5, <1>6

-----------------------------------------------------------------------------
(* One lemma per action *)

LEMMA InitInv == Init => Inv
<1> SUFFICES ASSUME Init PROVE Inv OBVIOUS
<1>1. rows \in RowsType BY DEF Init, NewRow, RowsType, RowType
<1>2. content \in [Versions -> Bodies] BY DEF Init, EmptyBody, Bodies
<1>3. xm \in Table /\ \A l \in Links : xm[l] = NoMapping BY NoMappingType DEF Init, Table
<1>4. adding \in AddType BY NoAddType DEF Init
<1>5. TypeOK
  BY <1>1, <1>2, <1>3, <1>4, Types, MappingAssumption DEF Init, HoldsNothing, MappingAssumption
<1>6. AllReal BY <1>3, NoAddType, NoMappingType DEF Init, AllReal, PointsReally
<1>7. NoneMissed BY <1>3, NoMappingType DEF NoneMissed, Missed, IsOpen
<1> QED BY <1>5, <1>6, <1>7 DEF Inv, AddHolds, Init

LEMMA StampType == ASSUME NEW v \in Versions, NEW at PROVE Stamp(v, at) \in Nat
<1>1. IsFiniteSet({u \in Versions : FrameworkOf[u] = FrameworkOf[v] /\ rows[u][at] # 0})
  BY MappingAssumption, FS_Subset DEF MappingAssumption
<1> QED BY <1>1, FS_CardinalityType DEF Stamp

LEMMA OpenDraftInv ==
  ASSUME Inv, NEW v \in Versions, NEW body \in Bodies \ {EmptyBody}, NEW links \in SUBSET Links,
         OpenDraft(v, body, links)
  PROVE  Inv'
<1> PICK m : m = [l \in Links |-> IF l \in links THEN Stub ELSE xm[l]] OBVIOUS
<1> PICK m2 : m2 = ResolveOwnStubs(m, v, rows) OBVIOUS
<1>1. rows \in RowsType /\ xm \in Table /\ HoldsNothing(xm) BY Types DEF Inv
<1>2. m \in Table /\ HoldsNothing(m)
  <2>1. \A l \in Links : m[l] \in MappingState BY <1>1, NoMappingType DEF Table
  <2>2. \A l \in Links : m[l].present \/ m[l] = NoMapping BY <1>1, NoMappingType DEF HoldsNothing
  <2> QED BY <2>1, <2>2 DEF Table, HoldsNothing
<1>3. PointsReally(m) BY NoMappingType DEF PointsReally, Inv, AllReal
<1>4. Resolved(m2, m, rows) /\ \A l \in Links : l.source = v => ~Missed(rows, m2, l)
  BY <1>1, <1>2, OwnStubsResolved
<1>5. m2 \in Table /\ HoldsNothing(m2) /\ PointsReally(m2)
  BY <1>2, <1>3, <1>4, ResolvedIsReal DEF Resolved
<1>6. ASSUME NEW l \in Links \ raced PROVE ~Missed(rows, m2, l)
  <2>1. CASE l \in links BY <1>4, <2>1 DEF OpenDraft
  <2>2. CASE l \notin links
    <3>1. Missed(rows, m2, l) => Missed(rows, m, l) BY <1>2, <1>4, ResolvedIsReal
    <3>2. m[l] = xm[l] BY <2>2
    <3> QED BY <3>1, <3>2 DEF Inv, NoneMissed, Missed, IsOpen
  <2> QED BY <2>1, <2>2
<1>7. xm' = m2 BY DEF OpenDraft
<1>8. Settled BY <1>1 DEF Settled, OpenDraft, RowsType, RowType, Inv, TypeOK
<1>9. AllReal' /\ NoneMissed' /\ AddHolds'
  BY <1>5, <1>6, <1>7, <1>8, SettledStep DEF OpenDraft
<1>10. rows' \in RowsType
  <2>1. Stamp(v, "createdAt") \in Nat BY StampType
  <2>2. [rows[v] EXCEPT !.status = "draft", !.createdAt = Stamp(v, "createdAt")] \in RowType
    BY <1>1, <2>1 DEF RowsType, RowType
  <2> QED BY <1>1, <2>2 DEF OpenDraft, RowsType
<1>11. content' \in [Versions -> Bodies] BY Types DEF OpenDraft, Inv
<1>12. TypeOK' BY <1>5, <1>7, <1>10, <1>11, Types, TypesNext DEF OpenDraft, Inv
<1> QED BY <1>9, <1>12 DEF Inv

\* Steps that leave the mappings as they are.
LEMMA VersionStepInv ==
  ASSUME Inv, Settled, rows' \in RowsType, content' \in [Versions -> Bodies],
         deprecated' \in 0..MaxDeprecations,
         xm' = xm, adding' = adding, raced' = raced
  PROVE  Inv'
<1> PICK m : m = xm OBVIOUS
<1>1. m \in Table /\ PointsReally(m) /\ \A l \in Links \ raced : ~Missed(rows, m, l)
  BY Types DEF Inv, AllReal, NoneMissed
<1>2. AllReal' /\ NoneMissed' /\ AddHolds' BY <1>1, SettledStep
<1>3. TypeOK' BY Types, TypesNext DEF Inv
<1> QED BY <1>2, <1>3 DEF Inv

LEMMA AddRequirementInv ==
  ASSUME Inv, NEW v \in Versions, NEW c \in Codes, NEW text \in Texts, AddRequirement(v, c, text)
  PROVE  Inv'
<1>1. content' \in [Versions -> Bodies] BY Types DEF AddRequirement, Inv, Bodies
<1>2. Settled BY Types DEF Settled, AddRequirement, Inv
<1> QED BY <1>1, <1>2, VersionStepInv, Types DEF AddRequirement, Inv

LEMMA ReviewInv ==
  ASSUME Inv, NEW v \in Versions, Submit(v) \/ Reject(v)
  PROVE  Inv'
<1>1. rows \in RowsType BY Types DEF Inv
<1>2. rows' \in RowsType BY <1>1 DEF Submit, Reject, RowsType, RowType
<1>3. Settled BY <1>1 DEF Settled, Submit, Reject, RowsType, RowType
<1> QED BY <1>2, <1>3, VersionStepInv, Types DEF Submit, Reject, Inv

LEMMA DeprecateInv ==
  ASSUME Inv, NEW v \in Versions, Deprecate(v)
  PROVE  Inv'
<1>1. rows \in RowsType BY Types DEF Inv
<1>2. rows' \in RowsType BY <1>1 DEF Deprecate, RowsType, RowType
<1>3. Settled BY <1>1 DEF Settled, Deprecate, RowsType, RowType
<1>4. deprecated' \in 0..MaxDeprecations
  BY MappingAssumption, Types DEF Deprecate, Inv, MappingAssumption
<1> QED BY <1>2, <1>3, <1>4, VersionStepInv, Types DEF Deprecate, Inv

\* The draft that loses requirements is nobody's target.
LEMMA DeleteNodeInv ==
  ASSUME Inv, NEW v \in Versions, NEW C \in SUBSET Codes, DeleteStructureNode(v, C)
  PROVE  Inv'
<1> PICK m : m = DropRequirements(xm, v, C) OBVIOUS
<1>1. rows \in RowsType /\ content \in [Versions -> Bodies] /\ xm \in Table /\ HoldsNothing(xm)
  BY Types DEF Inv
<1>2. \A l \in Links : xm[l].resolved # v
  BY MappingAssumption
     DEF MappingAssumption, Inv, AllReal, PointsReally, Points, DeleteStructureNode
<1>3. \A l \in Links : m[l] = NoMapping \/ m[l] = xm[l] BY <1>2 DEF DropRequirements
<1>4. m \in Table /\ HoldsNothing(m)
  <2>1. m = [l \in Links |-> m[l]] BY DEF DropRequirements
  <2>2. \A l \in Links : m[l] \in MappingState BY <1>1, <1>3, NoMappingType DEF Table
  <2> QED BY <1>1, <1>3, <2>1, <2>2 DEF Table, HoldsNothing
<1>5. PointsReally(m) BY <1>3, NoMappingType DEF PointsReally, Inv, AllReal
<1>6. \A l \in Links \ raced : ~Missed(rows, m, l)
  BY <1>3, NoMappingType DEF Missed, IsOpen, Inv, NoneMissed
<1>7. Settled BY <1>1 DEF Settled, DeleteStructureNode
<1>8. AllReal' /\ NoneMissed' /\ AddHolds'
  BY <1>4, <1>5, <1>6, <1>7, SettledStep DEF DeleteStructureNode
<1>9. content' \in [Versions -> Bodies] BY <1>1 DEF DeleteStructureNode, Bodies
<1>10. TypeOK' BY <1>4, <1>9, Types, TypesNext DEF DeleteStructureNode, Inv
<1> QED BY <1>8, <1>10 DEF Inv

LEMMA ResolveAllInv ==
  ASSUME Inv, ResolveAllStubs
  PROVE  Inv'
<1> PICK m : m = xm' OBVIOUS
<1>1. Resolved(m, xm, rows) BY AllStubsResolved DEF Inv
<1>2. m \in Table /\ HoldsNothing(m) /\ PointsReally(m)
      /\ \A l \in Links : Missed(rows, m, l) => Missed(rows, xm, l)
  BY <1>1, Types, ResolvedIsReal DEF Inv, AllReal, Resolved
<1>3. Settled BY DEF ResolveAllStubs, Settled
<1>4. AllReal' /\ NoneMissed' /\ AddHolds'
  BY <1>2, <1>3, SettledStep DEF ResolveAllStubs, Inv, NoneMissed
<1>5. TypeOK' BY <1>2, Types, TypesNext DEF ResolveAllStubs, Inv
<1> QED BY <1>4, <1>5 DEF Inv

\* One mapping goes, or its review is written.
LEMMA EditInv ==
  ASSUME Inv, NEW l \in Links, RemoveItemMapping(l) \/ UpdateMapping(l)
  PROVE  Inv'
<1> PICK m : m = xm' OBVIOUS
<1>1. xm \in Table /\ HoldsNothing(xm) BY Types DEF Inv
<1>2. PICK s \in MappingState :
        /\ m = [xm EXCEPT ![l] = s]
        /\ s.present \/ s = NoMapping
        /\ s.resolved = NoVersion \/ s.resolved = xm[l].resolved
        /\ s.present /\ s.resolved = NoVersion => IsOpen(xm, l)
  <2>1. CASE RemoveItemMapping(l) BY <2>1, NoMappingType DEF RemoveItemMapping
  <2>2. CASE UpdateMapping(l)
    <3>1. "current" \in Reviews /\ xm[l] \in MappingState BY <1>1 DEF Table, Reviews
    <3>2. PICK s : s = [xm[l] EXCEPT !.review = "current"] OBVIOUS
    <3>3. s \in MappingState /\ s.resolved = xm[l].resolved /\ s.present = xm[l].present
      BY <3>1, <3>2, Reviewed
    <3>4. m = [xm EXCEPT ![l] = s] BY <1>1, <2>2, <3>2 DEF UpdateMapping, Table
    <3> QED BY <2>2, <3>3, <3>4 DEF UpdateMapping, IsOpen
  <2> QED BY <2>1, <2>2
<1>3. m \in Table /\ HoldsNothing(m)
  <2>1. m \in Table BY <1>1, <1>2 DEF Table
  <2>2. \A k \in Links : m[k] = s \/ m[k] = xm[k] BY <1>1, <1>2 DEF Table
  <2> QED BY <1>1, <1>2, <2>1, <2>2 DEF HoldsNothing
<1>4. PointsReally(m) BY <1>1, <1>2 DEF PointsReally, Inv, AllReal, Table
<1>5. \A k \in Links \ raced : ~Missed(rows, m, k)
  <2> TAKE k \in Links \ raced
  <2>1. IsOpen(m, k) => IsOpen(xm, k)
    <3>1. CASE k = l BY <1>1, <1>2, <3>1 DEF Table, IsOpen
    <3>2. CASE k # l BY <1>1, <1>2, <3>2 DEF Table, IsOpen
    <3> QED BY <3>1, <3>2
  <2> QED BY <2>1 DEF Missed, Inv, NoneMissed
<1>6. Settled BY DEF RemoveItemMapping, UpdateMapping, Settled
<1>7. AllReal' /\ NoneMissed' /\ AddHolds'
  BY <1>3, <1>4, <1>5, <1>6, SettledStep DEF RemoveItemMapping, UpdateMapping
<1>8. TypeOK' BY <1>3, Types, TypesNext DEF RemoveItemMapping, UpdateMapping, Inv
<1> QED BY <1>7, <1>8 DEF Inv

\* What a release does to the table: open stubs are resolved, those pinned to
\* the version all of them, and then mappings are flagged.
LEMMA ReleaseResolves ==
  ASSUME NEW m \in Table, NEW r \in RowsType, NEW v \in Versions, r[v].status = "published"
  PROVE  LET m2 == ResolveStubsTargeting(ResolveOwnStubs(m, v, r), v) IN
         /\ Resolved(m2, m, r) /\ \A l \in Links : l.pin = v => ~Missed(r, m2, l)
         /\ ResolveAfterPublish(m, v, r) = FlagMappings(m2, v, r)
<1> PICK m1 : m1 = ResolveOwnStubs(m, v, r) OBVIOUS
<1>1. Resolved(m1, m, r) BY OwnStubsResolved
<1>2. m1 \in Table BY <1>1 DEF Resolved
<1>3. /\ Resolved(ResolveStubsTargeting(m1, v), m1, r)
      /\ \A l \in Links : l.pin = v => ~Missed(r, ResolveStubsTargeting(m1, v), l)
  BY <1>2, TargetingResolved
<1>4. Resolved(ResolveStubsTargeting(m1, v), m, r) BY <1>1, <1>3, ResolvedComposes
<1> QED BY <1>3, <1>4 DEF ResolveAfterPublish

LEMMA PublishInv ==
  ASSUME Inv, NEW v \in Versions, Publish(v)
  PROVE  Inv'
<1> PICK r : r = rows' OBVIOUS
<1> PICK m : m = xm OBVIOUS
<1> PICK out : out = adding.outcome OBVIOUS
<1> PICK m2 : m2 = ResolveStubsTargeting(ResolveOwnStubs(m, v, r), v) OBVIOUS
<1> PICK m3 : m3 = FlagMappings(m2, v, r) OBVIOUS
<1>1. rows \in RowsType /\ m \in Table /\ HoldsNothing(m) /\ out \in Table
      /\ adding \in AddType /\ raced \subseteq Links
  BY Types DEF Inv, AddType
<1>2. r \in RowsType /\ r[v].status = "published"
  <2>1. Stamp(v, "publishedAt") \in Nat BY StampType
  <2> QED BY <1>1, <2>1 DEF Publish, RowsType, RowType
<1>3. \A w \in Versions \ {v} : r[w] = rows[w] BY <1>1 DEF Publish, RowsType
<1>4. /\ Resolved(m2, m, r) /\ \A l \in Links : l.pin = v => ~Missed(r, m2, l)
      /\ ResolveAfterPublish(m, v, r) = m3
  BY <1>1, <1>2, ReleaseResolves
<1>5. xm' = m3 BY <1>4 DEF Publish
<1>6. m2 \in Table /\ HoldsNothing(m2) /\ \A l \in Links : Missed(r, m2, l) => Missed(r, m, l)
  BY <1>1, <1>4, ResolvedIsReal DEF Resolved
<1>7. m3 \in Table /\ \A l \in Links : /\ m3[l].present = m2[l].present
                                       /\ m3[l].resolved = m2[l].resolved
                                       /\ m2[l] = NoMapping => m3[l] = NoMapping
  BY <1>6, FlaggingKeeps
<1>8. HoldsNothing(m3) BY <1>6, <1>7 DEF HoldsNothing
<1>9. \A w \in Versions :
        rows[w].status \in {"published", "deprecated"} =>
          rows'[w].status \in {"published", "deprecated"} /\ content'[w] = content[w]
  BY <1>2, <1>3 DEF Publish
<1>10. \A l \in Links : m3[l].resolved # NoVersion => Points(m3[l].resolved, l)'
  <2> TAKE l \in Links
  <2>1. m2[l] = m[l] => (m2[l].resolved # NoVersion => Points(m2[l].resolved, l)')
    <3>1. PointsReally(m) BY DEF Inv, AllReal
    <3> QED BY <1>1, <1>9, <3>1, StillReal
  <2>2. ASSUME NEW w \in Versions, Serves(r, w, l), m2[l] = [m[l] EXCEPT !.resolved = w]
        PROVE  Points(m2[l].resolved, l)'
    <3>1. m2[l].resolved = w BY <1>1, <2>2, Retargeted DEF Table
    <3>2. Points(w, l)' BY <2>2 DEF Serves, Points, Publish, HasCode, Honours
    <3> QED BY <3>1, <3>2
  <2> QED BY <1>4, <1>7, <2>1, <2>2 DEF Resolved
<1>11. AllReal'
  <2>1. PointsReally(out) BY DEF Inv, AllReal
  <2>2. \A l \in Links : out[l].resolved # NoVersion => Points(out[l].resolved, l)'
    BY <1>1, <1>9, <2>1, StillReal
  <2>3. adding' = adding BY DEF Publish
  <2> QED BY <1>5, <1>10, <2>2, <2>3 DEF AllReal, PointsReally
<1>12. NoneMissed'
  <2> SUFFICES ASSUME NEW l \in Links, l \notin raced', Missed(rows, xm, l)' PROVE FALSE
    BY DEF NoneMissed
  <2>1. l \notin raced BY DEF Publish
  <2>2. Missed(r, m2, l)
    <3>1. IsOpen(m3, l) <=> IsOpen(m2, l) BY <1>7 DEF IsOpen
    <3> QED BY <1>5, <3>1 DEF Missed, Publish, HasCode, IsOpen
  <2>3. l.pin \in Versions \ {v} BY <1>4, <2>2, LinkTypes DEF Missed
  <2>4. Missed(rows, m, l) BY <1>3, <1>6, <2>2, <2>3 DEF Missed
  <2> QED BY <2>1, <2>4 DEF Inv, NoneMissed
<1>13. AddHolds'
  <2>1. adding' = adding /\ (adding # NoAdd => adding.link \in raced') BY DEF Publish
  <2> QED BY <2>1 DEF AddHolds, Inv
<1>14. raced' \subseteq Links
  BY <1>1 DEF Publish, Inv, AddHolds
<1>15. TypeOK' BY <1>2, <1>5, <1>7, <1>8, <1>14, Types, TypesNext DEF Publish, Inv
<1> QED BY <1>11, <1>12, <1>13, <1>15 DEF Inv

\* A framework goes as a whole, so that a stub that opens again finds nothing of
\* it; and what the transaction under way points at cannot go.
LEMMA DeleteFrameworkInv ==
  ASSUME Inv, NEW f \in Frameworks, DeleteFramework(f)
  PROVE  Inv'
<1> PICK gone : gone = {v \in Versions : FrameworkOf[v] = f /\ rows[v].status \notin {"absent", "deleted"}}
  OBVIOUS
<1> PICK m : m = xm OBVIOUS
<1> PICK m2 : m2 = xm' OBVIOUS
<1> PICK out : out = adding.outcome OBVIOUS
<1>1. rows \in RowsType /\ content \in [Versions -> Bodies] /\ m \in Table /\ HoldsNothing(m)
      /\ out \in Table /\ adding \in AddType
  BY Types DEF Inv, AddType
<1>2. /\ \A v \in gone : ~KeyShared(v, Codes)
      /\ rows' = [v \in Versions |-> IF v \in gone THEN [NewRow EXCEPT !.status = "deleted"] ELSE rows[v]]
      /\ content' = [v \in Versions |-> IF v \in gone THEN EmptyBody ELSE content[v]]
      /\ m2 = [l \in Links |-> IF l.source \in gone THEN NoMapping
                               ELSE IF m[l].resolved \in gone
                                    THEN [m[l] EXCEPT !.resolved = NoVersion] ELSE m[l]]
      /\ UNCHANGED <<adding, deprecated, raced>>
  BY DEF DeleteFramework
<1>3. rows' \in RowsType /\ content' \in [Versions -> Bodies]
  BY <1>1, <1>2 DEF RowsType, RowType, NewRow, EmptyBody, Bodies
<1>4. \A v \in Versions : /\ v \in gone => rows'[v].status = "deleted"
                          /\ v \notin gone => rows'[v] = rows[v] /\ content'[v] = content[v]
  BY <1>2 DEF NewRow
<1>5. \A l \in Links : \/ m2[l] = NoMapping
                       \/ m2[l] = m[l] /\ m[l].resolved \notin gone
                       \/ m[l].resolved \in gone /\ m2[l] = [m[l] EXCEPT !.resolved = NoVersion]
  BY <1>2
<1>6. ASSUME NEW l \in Links
      PROVE  /\ m2[l] \in MappingState /\ (m2[l].present \/ m2[l] = NoMapping)
             /\ m2[l].resolved # NoVersion => m2[l].resolved = m[l].resolved /\ m[l].resolved \notin gone
             /\ IsOpen(m2, l) => IsOpen(m, l) \/ m[l].resolved \in gone
  <2>1. CASE m2[l] = NoMapping BY <2>1, NoMappingType DEF IsOpen
  <2>2. CASE m2[l] = m[l] /\ m[l].resolved \notin gone BY <1>1, <2>2 DEF Table, HoldsNothing, IsOpen
  <2>3. CASE m[l].resolved \in gone /\ m2[l] = [m[l] EXCEPT !.resolved = NoVersion]
    <3>1. m[l] \in MappingState BY <1>1 DEF Table
    <3>2. m2[l] \in MappingState /\ m2[l].resolved = NoVersion /\ m2[l].present = m[l].present
      BY <2>3, <3>1, Retargeted
    <3>3. m[l] # NoMapping BY <2>3, NoMappingType, MappingAssumption DEF MappingAssumption
    <3>4. m[l].present BY <1>1, <3>3 DEF HoldsNothing
    <3> QED BY <2>3, <3>2, <3>4 DEF IsOpen
  <2> QED BY <1>5, <2>1, <2>2, <2>3
<1>7. m2 \in Table /\ HoldsNothing(m2)
  <2>1. m2 = [l \in Links |-> m2[l]] BY <1>2
  <2> QED BY <1>6, <2>1 DEF Table, HoldsNothing
<1>8. ASSUME NEW v \in Versions, v \notin gone, NEW l \in Links, Points(v, l) PROVE Points(v, l)'
  BY <1>4, <1>8 DEF Points, HasCode, Honours
<1>9. AllReal'
  <2>1. \A l \in Links : m2[l].resolved # NoVersion => Points(m2[l].resolved, l)'
    <3> SUFFICES ASSUME NEW l \in Links, NEW v, v = m2[l].resolved, v # NoVersion PROVE Points(v, l)'
      OBVIOUS
    <3>1. Points(v, l) /\ v \notin gone BY <1>6 DEF Inv, AllReal, PointsReally
    <3> QED BY <1>8, <3>1 DEF Points
  <2>2. \A l \in Links : out[l].resolved # NoVersion => Points(out[l].resolved, l)'
    <3> SUFFICES ASSUME NEW l \in Links, NEW v, v = out[l].resolved, v # NoVersion PROVE Points(v, l)'
      OBVIOUS
    <3>1. Points(v, l) BY DEF Inv, AllReal, PointsReally
    <3>2. adding # NoAdd BY NoAddType, NoMappingType
    <3>3. v \notin gone BY <1>2, <3>2, LinkTypes DEF KeyShared
    <3> QED BY <1>8, <3>1, <3>3 DEF Points
  <2>3. adding' = adding BY <1>2
  <2> QED BY <2>1, <2>2, <2>3 DEF AllReal, PointsReally
<1>10. ASSUME NEW n, NEW l \in Links, Missed(rows, n, l)'
       PROVE  Missed(rows, n, l) /\ l.pin \in Versions \ gone
  <2>1. l.pin \in Versions BY <1>10, LinkTypes DEF Missed
  <2>2. l.pin \notin gone BY <1>4, <1>10, <2>1 DEF Missed
  <2> QED BY <1>4, <1>10, <2>1, <2>2 DEF Missed, HasCode, IsOpen
<1>11. NoneMissed'
  <2> SUFFICES ASSUME NEW l \in Links \ raced, Missed(rows, m2, l)' PROVE FALSE
    BY <1>2 DEF NoneMissed, Missed, IsOpen, HasCode
  <2>1. Missed(rows, m2, l) /\ l.pin \in Versions \ gone BY <1>10
  <2>2. m[l].resolved \notin gone
    <3>1. ASSUME m[l].resolved \in gone PROVE FALSE
      <4>1. Points(m[l].resolved, l)
        BY <3>1, MappingAssumption DEF Inv, AllReal, PointsReally, MappingAssumption
      <4>2. FrameworkOf[l.pin] = f BY <2>1, <3>1, <4>1 DEF Missed, Points
      <4> QED BY <2>1, <4>2 DEF Missed
    <3> QED BY <3>1
  <2>3. Missed(rows, m, l) BY <1>6, <2>1, <2>2 DEF Missed
  <2> QED BY <2>3 DEF Inv, NoneMissed
<1>12. AddHolds'
  <2>1. SUFFICES ASSUME adding # NoAdd
                 PROVE  /\ adding.link \in Links /\ out[adding.link].present
                        /\ adding.link \notin raced => ~Missed(rows, out, adding.link)'
    BY <1>2 DEF AddHolds, Missed, IsOpen, HasCode
  <2>2. /\ adding.link \in Links /\ adding.outcome[adding.link].present
        /\ adding.link \notin raced => ~Missed(rows, adding.outcome, adding.link)
    BY <2>1 DEF Inv, AddHolds
  <2>3. \A l \in Links : Missed(rows, out, l)' => Missed(rows, out, l) BY <1>10
  <2>4. adding' = adding BY <1>2
  <2> QED BY <2>2, <2>3, <2>4, Zenon
<1>13. TypeOK' BY <1>2, <1>3, <1>7, Types, TypesNext DEF Inv
<1> QED BY <1>9, <1>11, <1>12, <1>13 DEF Inv

LEMMA BeginAddInv ==
  ASSUME Inv, NEW l \in Links, BeginAdd(l)
  PROVE  Inv'
<1> PICK m : m = [xm EXCEPT ![l] = Stub] OBVIOUS
<1> PICK after : after = ResolveOwnStubs(m, l.source, rows) OBVIOUS
<1> PICK out : out = [k \in Links |-> IF after[k] # xm[k] THEN after[k] ELSE NoMapping] OBVIOUS
<1>1. rows \in RowsType /\ xm \in Table /\ HoldsNothing(xm) /\ raced \subseteq Links /\ l.source \in Versions
  BY Types, LinkTypes DEF Inv
<1>2. m \in Table /\ m[l] = Stub /\ \A k \in Links : k # l => m[k] = xm[k]
  BY <1>1, NoMappingType DEF Table
<1>3. HoldsNothing(m) /\ PointsReally(m)
  BY <1>1, <1>2, NoMappingType DEF HoldsNothing, PointsReally, Inv, AllReal
<1>4. Resolved(after, m, rows) /\ ~Missed(rows, after, l) BY <1>1, <1>2, OwnStubsResolved
<1>5. after \in Table /\ PointsReally(after) /\ Keeps(after, m)
  <2>1. after \in Table BY <1>4 DEF Resolved
  <2>2. PointsReally(after) BY <1>2, <1>3, <1>4, ResolvedIsReal
  <2>3. Keeps(after, m) BY <1>2, <1>4, ResolvedKeeps
  <2> QED BY <2>1, <2>2, <2>3
<1>6. after[l].present BY <1>2, <1>5, NoMappingType DEF Keeps
<1>7. out[l] = after[l] BY <1>6 DEF BeginAdd
<1>8. out \in Table /\ \A k \in Links : out[k] = after[k] \/ out[k] = NoMapping
  BY <1>5, NoMappingType DEF Table
<1>9. PointsReally(out) BY <1>5, <1>8, NoMappingType DEF PointsReally
<1>10. /\ adding' = [link |-> l, outcome |-> out] /\ raced' = raced \ {l}
       /\ UNCHANGED <<rows, content, xm, deprecated>>
  BY DEF BeginAdd
<1>11. adding' \in AddType /\ adding'.link = l /\ adding'.outcome = out
  BY <1>8, <1>10 DEF AddType
<1>12. AllReal'
  BY <1>9, <1>10, <1>11 DEF AllReal, PointsReally, Points, HasCode, Honours, Inv
<1>13. NoneMissed'
  <2>1. ~IsOpen(xm, l) BY DEF BeginAdd, IsOpen
  <2>2. \A k \in Links : Missed(rows, xm, k)' => Missed(rows, xm, k)
    BY <1>10 DEF Missed, IsOpen, HasCode
  <2> QED BY <1>10, <2>1, <2>2 DEF NoneMissed, Missed, Inv
<1>14. AddHolds'
  <2>1. ~Missed(rows, out, l) BY <1>4, <1>7 DEF Missed, IsOpen
  <2>2. ~Missed(rows, out, l)' BY <1>10, <2>1 DEF Missed, IsOpen, HasCode
  <2>3. out[l].present BY <1>6, <1>7
  <2> QED BY <1>11, <2>2, <2>3 DEF AddHolds, Missed, IsOpen, HasCode
<1>15. TypeOK' BY <1>1, <1>10, <1>11, Types, TypesNext DEF Inv
<1> QED BY <1>12, <1>13, <1>14, <1>15 DEF Inv

LEMMA CommitAddInv ==
  ASSUME Inv, CommitAdd
  PROVE  Inv'
<1> PICK m : m = xm OBVIOUS
<1> PICK m2 : m2 = xm' OBVIOUS
<1> PICK out : out = adding.outcome OBVIOUS
<1> PICK l \in Links : l = adding.link BY DEF Inv, AddHolds, CommitAdd
<1>1. m \in Table /\ HoldsNothing(m) /\ out \in Table BY Types DEF Inv, AddType
<1>2. \A k \in Links : m2[k] = IF k = l THEN out[k]
                               ELSE IF out[k].present /\ IsOpen(m, k)
                               THEN [m[k] EXCEPT !.resolved = out[k].resolved] ELSE m[k]
  BY DEF CommitAdd
<1>3. out[l].present /\ (l \notin raced => ~Missed(rows, out, l)) BY DEF Inv, AddHolds, CommitAdd
<1>4. ASSUME NEW k \in Links
      PROVE  /\ m2[k] \in MappingState /\ (m2[k].present \/ m2[k] = NoMapping)
             /\ m2[k].resolved = m[k].resolved \/ m2[k].resolved = out[k].resolved
             /\ k # l => (IsOpen(m2, k) => IsOpen(m, k))
             /\ k = l => m2[k] = out[k]
  <2>1. m[k] \in MappingState /\ out[k] \in MappingState BY <1>1 DEF Table
  <2>2. CASE k = l BY <1>2, <1>3, <2>1, <2>2
  <2>3. CASE k # l /\ out[k].present /\ IsOpen(m, k)
    <3>1. m2[k] = [m[k] EXCEPT !.resolved = out[k].resolved] BY <1>2, <2>3
    <3>2. out[k].resolved \in Versions \union {NoVersion} BY <2>1 DEF MappingState
    <3>3. m2[k] \in MappingState /\ m2[k].resolved = out[k].resolved /\ m2[k].present = m[k].present
      BY <2>1, <3>1, <3>2, Retargeted
    <3> QED BY <2>3, <3>3 DEF IsOpen
  <2>4. CASE k # l /\ ~(out[k].present /\ IsOpen(m, k))
    <3>1. m2[k] = m[k] BY <1>2, <2>4
    <3> QED BY <1>1, <2>1, <2>4, <3>1 DEF HoldsNothing, IsOpen
  <2> QED BY <2>2, <2>3, <2>4
<1>5. m2 \in Table /\ HoldsNothing(m2)
  <2>1. m2 = [k \in Links |-> m2[k]] BY DEF CommitAdd
  <2> QED BY <1>4, <2>1 DEF Table, HoldsNothing
<1>6. PointsReally(m2) BY <1>4 DEF PointsReally, Inv, AllReal
<1>7. adding' = NoAdd /\ UNCHANGED <<rows, content, deprecated, raced>> BY DEF CommitAdd
<1>8. AllReal'
  BY <1>6, <1>7, NoAddType, NoMappingType DEF AllReal, PointsReally, Points, HasCode, Honours
<1>9. NoneMissed'
  <2> SUFFICES ASSUME NEW k \in Links \ raced, Missed(rows, m2, k) PROVE FALSE
    BY <1>7 DEF NoneMissed, Missed, IsOpen, HasCode
  <2>1. CASE k = l
    <3>1. Missed(rows, out, k) BY <1>4, <2>1 DEF Missed, IsOpen
    <3> QED BY <1>3, <2>1, <3>1
  <2>2. CASE k # l
    <3>1. Missed(rows, m, k) BY <1>4, <2>2 DEF Missed
    <3> QED BY <3>1 DEF Inv, NoneMissed
  <2> QED BY <2>1, <2>2
<1>10. AddHolds' BY <1>7 DEF AddHolds
<1>11. TypeOK' BY <1>5, <1>7, NoAddType, Types, TypesNext DEF Inv
<1> QED BY <1>8, <1>9, <1>10, <1>11 DEF Inv

LEMMA AbortAddInv ==
  ASSUME Inv, AbortAdd
  PROVE  Inv'
<1>1. adding' = NoAdd /\ UNCHANGED <<rows, content, xm, deprecated, raced>> BY DEF AbortAdd
<1>2. AllReal'
  <2>1. PointsReally(xm)' BY <1>1 DEF Inv, AllReal, PointsReally, Points, HasCode, Honours
  <2>2. PointsReally(adding.outcome)' BY <1>1, NoAddType, NoMappingType DEF PointsReally
  <2> QED BY <2>1, <2>2 DEF AllReal
<1>3. NoneMissed' BY <1>1 DEF Inv, NoneMissed, Missed, IsOpen, HasCode
<1>4. AddHolds' BY <1>1 DEF AddHolds
<1>5. TypeOK' BY <1>1, NoAddType, Types, TypesNext DEF Inv
<1> QED BY <1>2, <1>3, <1>4, <1>5 DEF Inv

LEMMA StutterInv == ASSUME Inv, UNCHANGED vars PROVE Inv'
<1>1. UNCHANGED <<rows, content, xm, adding, deprecated, raced>> BY DEF vars
<1>2. TypeOK' BY <1>1, Types, TypesNext DEF Inv
<1>3. AllReal' BY <1>1 DEF Inv, AllReal, PointsReally, Points, HasCode, Honours
<1>4. NoneMissed' BY <1>1 DEF Inv, NoneMissed, Missed, IsOpen, HasCode
<1>5. AddHolds' BY <1>1 DEF Inv, AddHolds, Missed, IsOpen, HasCode
<1> QED BY <1>2, <1>3, <1>4, <1>5 DEF Inv

LEMMA StepInv == ASSUME Inv, [Next]_vars PROVE Inv'
<1>1. ASSUME NEW v \in Versions, NEW body \in Bodies \ {EmptyBody}, NEW links \in SUBSET Links,
             OpenDraft(v, body, links)
      PROVE  Inv'
  BY <1>1, OpenDraftInv
<1>2. ASSUME NEW v \in Versions, NEW c \in Codes, NEW text \in Texts, AddRequirement(v, c, text)
      PROVE  Inv'
  BY <1>2, AddRequirementInv
<1>3. ASSUME NEW v \in Versions, NEW C \in SUBSET Codes, DeleteStructureNode(v, C) PROVE Inv'
  BY <1>3, DeleteNodeInv
<1>4. ASSUME NEW v \in Versions, Submit(v) \/ Reject(v) PROVE Inv' BY <1>4, ReviewInv
<1>5. ASSUME NEW v \in Versions, Publish(v) PROVE Inv' BY <1>5, PublishInv
<1>6. ASSUME NEW v \in Versions, Deprecate(v) PROVE Inv' BY <1>6, DeprecateInv
<1>7. ASSUME NEW f \in Frameworks, DeleteFramework(f) PROVE Inv' BY <1>7, DeleteFrameworkInv
<1>8. ASSUME NEW l \in Links, BeginAdd(l) PROVE Inv' BY <1>8, BeginAddInv
<1>9. ASSUME NEW l \in Links, RemoveItemMapping(l) \/ UpdateMapping(l) PROVE Inv' BY <1>9, EditInv
<1> QED
  BY <1>1, <1>2, <1>3, <1>4, <1>5, <1>6, <1>7, <1>8, <1>9,
     CommitAddInv, AbortAddInv, ResolveAllInv, StutterInv
  DEF Next

LEMMA AlwaysInv == Spec => []Inv
<1>1. Inv /\ [Next]_vars => Inv' BY StepInv
<1> QED BY InitInv, <1>1, PTL DEF Spec

-----------------------------------------------------------------------------
(* What holds in every state *)

\* Rows, requirements, mappings and the transaction under way keep the types of
\* their columns.
THEOREM TypeCorrect == Spec => []TypeOK
<1>1. Inv => TypeOK BY DEF Inv
<1> QED BY <1>1, AlwaysInv, PTL

\* A mapping that is resolved points at a requirement that is there, in a
\* released version of the framework and the pinned version it names: neither
\* an overlapping AddItemMapping nor a deletion leaves one that does not
\* (ResolveStubs, the foreign keys of requirement_cross_mappings).
THEOREM TargetsAreReal == Spec => []ResolvedTargetIsReal
<1>1. Inv => ResolvedTargetIsReal
  BY DEF Inv, AllReal, PointsReally, Points, ResolvedTargetIsReal
<1> QED BY <1>1, AlwaysInv, PTL

\* No stub stays open while the version it pins is published and has the
\* requirement, whichever was there first, unless AddItemMapping and the
\* publication overlapped.
THEOREM PinnedStubsAreResolved == Spec => []PinnedStubsResolved
<1>1. Inv => PinnedStubsResolved
  BY DEF Inv, NoneMissed, Missed, PinnedStubsResolved
<1> QED BY <1>1, AlwaysInv, PTL

-----------------------------------------------------------------------------
(* What a release may do to the mappings *)

LEMMA OnlyPublishReleases ==
  ASSUME Inv, Next, NEW v \in Versions, Publishes(v)
  PROVE  Publish(v)
<1> USE DEF Publishes
<1>1. rows \in RowsType BY Types DEF Inv
<1>2. ASSUME NEW w \in Versions, NEW body, NEW links, OpenDraft(w, body, links) PROVE FALSE
  BY <1>1, <1>2 DEF OpenDraft, RowsType, RowType
<1>3. ASSUME NEW w \in Versions, Submit(w) \/ Reject(w) \/ Deprecate(w) PROVE FALSE
  BY <1>1, <1>3 DEF Submit, Reject, Deprecate, RowsType, RowType
<1>4. ASSUME NEW w \in Versions, Publish(w) PROVE w = v
  BY <1>1, <1>4 DEF Publish, RowsType, RowType
<1>5. ASSUME NEW f \in Frameworks, DeleteFramework(f) PROVE FALSE
  BY <1>5 DEF DeleteFramework, NewRow
<1>6. ASSUME rows' = rows PROVE FALSE BY <1>6
<1>7. ASSUME NEW w \in Versions, NEW c, NEW text, AddRequirement(w, c, text) PROVE rows' = rows
  BY <1>7 DEF AddRequirement
<1>8. ASSUME NEW w \in Versions, NEW C, DeleteStructureNode(w, C) PROVE rows' = rows
  BY <1>8 DEF DeleteStructureNode
<1>9. ASSUME NEW l \in Links, BeginAdd(l) \/ RemoveItemMapping(l) \/ UpdateMapping(l) PROVE rows' = rows
  BY <1>9 DEF BeginAdd, RemoveItemMapping, UpdateMapping
<1>10. CommitAdd \/ AbortAdd \/ ResolveAllStubs => rows' = rows
  BY DEF CommitAdd, AbortAdd, ResolveAllStubs
<1> QED
  BY <1>2, <1>3, <1>4, <1>5, <1>6, <1>7, <1>8, <1>9, <1>10 DEF Next

\* What Publish leaves of the table, before it flags.
LEMMA PublishKeeps ==
  ASSUME Inv, NEW v \in Versions, Publish(v)
  PROVE  \E m2 \in Table :
           /\ Keeps(m2, xm) /\ xm' = FlagMappings(m2, v, rows')
<1> PICK r : r = rows' OBVIOUS
<1> PICK m2 : m2 = ResolveStubsTargeting(ResolveOwnStubs(xm, v, r), v) OBVIOUS
<1>1. rows \in RowsType /\ xm \in Table BY Types DEF Inv
<1>2. r \in RowsType /\ r[v].status = "published"
  <2>1. Stamp(v, "publishedAt") \in Nat BY StampType
  <2> QED BY <1>1, <2>1 DEF Publish, RowsType, RowType
<1>3. Resolved(m2, xm, r) /\ ResolveAfterPublish(xm, v, r) = FlagMappings(m2, v, r)
  BY <1>1, <1>2, ReleaseResolves
<1>4. m2 \in Table BY <1>3 DEF Resolved
<1>5. Keeps(m2, xm) BY <1>1, <1>3, ResolvedKeeps
<1> QED BY <1>3, <1>4, <1>5 DEF Publish

\* Nothing is auto-deleted: no release removes a mapping, un-resolves it or
\* points it somewhere else.
THEOREM ReleasesKeepMappings == Spec => ReleaseKeepsMappings
<1>1. ASSUME Inv, Next, NEW v \in Versions, NEW l \in Links, Publishes(v), xm[l].present
      PROVE  /\ xm'[l].present
             /\ xm[l].resolved # NoVersion => xm'[l].resolved = xm[l].resolved
  <2>1. PICK m2 \in Table : Keeps(m2, xm) /\ xm' = FlagMappings(m2, v, rows')
    BY <1>1, OnlyPublishReleases, PublishKeeps
  <2>2. xm'[l].present = m2[l].present /\ xm'[l].resolved = m2[l].resolved
    BY <2>1, FlaggingKeeps
  <2> QED BY <1>1, <2>1, <2>2 DEF Keeps
<1>2. Inv /\ [Next]_vars =>
        [\A v \in Versions, l \in Links :
           Publishes(v) /\ xm[l].present =>
             /\ xm'[l].present
             /\ xm[l].resolved # NoVersion => xm'[l].resolved = xm[l].resolved]_vars
  BY <1>1
<1> QED BY <1>2, AlwaysInv, PTL DEF Spec, ReleaseKeepsMappings

\* A release that changes or drops a requirement of the version released before
\* it flags the mappings to it, provided that version is also the one drafted
\* last of those still published (flagMappingsAfterPublish takes its baseline
\* by creation).
THEOREM ChangesInOrderAreFlagged == Spec => ChangedInOrderFlagged
<1>1. ASSUME Inv, Next, NEW v \in Versions, NEW l \in Links,
             Publishes(v), ChangesTarget(v, l),
             NewestCreated(rows, PublishedIn(rows, FrameworkOf[v]))
               = LatestPublished(rows, PublishedIn(rows, FrameworkOf[v]))
      PROVE  xm'[l].review # "current"
  <2> PICK r : r = rows' OBVIOUS
  <2> PICK before : before = PublishedIn(rows, FrameworkOf[v]) OBVIOUS
  <2> PICK base : base = NewestCreated(rows, before) OBVIOUS
  <2>1. Publish(v) BY <1>1, OnlyPublishReleases
  <2>2. PICK m2 \in Table : Keeps(m2, xm) /\ xm' = FlagMappings(m2, v, r)
    BY <1>1, <2>1, PublishKeeps
  <2>3. rows \in RowsType BY <1>1, Types DEF Inv
  <2>4. /\ \A w \in Versions \ {v} : r[w] = rows[w]
        /\ \A w \in Versions : r[w].createdAt = rows[w].createdAt
        /\ rows[v].status # "published"
    BY <2>1, <2>3 DEF Publish, RowsType, RowType
  <2>5. PublishedIn(r, FrameworkOf[v]) \ {v} = before BY <2>4 DEF PublishedIn
  <2>6. NewestCreated(r, before) = base
    <3>1. \A w \in before : r[w].createdAt = rows[w].createdAt BY <2>4 DEF PublishedIn
    <3> QED BY <3>1, NewestByCreation
  <2>7. /\ before # {} /\ xm[l].present /\ l.framework = FrameworkOf[v]
        /\ HasCode(base, l.target) /\ content[v][l.target] # content[base][l.target]
    BY <1>1 DEF ChangesTarget
  <2>8. m2[l].present BY <2>2, <2>7 DEF Keeps
  <2>9. PICK f \in {"needs_review", "orphaned"} : xm'[l] = [m2[l] EXCEPT !.review = f]
    BY <2>2, <2>5, <2>6, <2>7, <2>8 DEF FlagMappings
  <2>10. m2[l] \in MappingState /\ f \in Reviews BY DEF Table, Reviews
  <2>11. xm'[l].review = f BY <2>9, <2>10, Reviewed
  <2> QED BY <2>11
<1>2. Inv /\ [Next]_vars =>
        [\A v \in Versions, l \in Links :
           LET before == PublishedIn(rows, FrameworkOf[v]) IN
           /\ Publishes(v) /\ ChangesTarget(v, l)
           /\ NewestCreated(rows, before) = LatestPublished(rows, before)
           => xm'[l].review # "current"]_vars
  BY <1>1
<1> QED BY <1>2, AlwaysInv, PTL DEF Spec, ChangedInOrderFlagged
=============================================================================
