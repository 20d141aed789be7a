------------------------ MODULE AuditTemplatesProofs ------------------------
(***************************************************************************)
(* Theorems about AuditTemplates, for any requirements and sections, any   *)
(* answers of the model, any number of tasks and editors.  Two invariants: *)
(*                                                                         *)
(*   Inv     the types; an id was handed out for each stored question, and *)
(*           for no other (Handed); what a form was opened on is gone or   *)
(*           still about the same requirement (Seen), because a template   *)
(*           that is stored again has new ids;                             *)
(*   Walked  each template that is stored, on its way to be stored, or left*)
(*           by the form now open can be walked.  It is an invariant when  *)
(*           there is one editor: two forms, each valid when it was opened,*)
(*           need not leave a valid template together.                     *)
(*                                                                         *)
(* TypeCorrect, EditsHit and GenerationsCover follow from Inv, and hold for*)
(* any number of editors; TemplatesAreWalked needs both.                   *)
(***************************************************************************)
EXTENDS AuditTemplates, FiniteSetTheorems, TLAPS

Distinct(qs) == \A q, p \in qs : q.id = p.id => q = p
Templates == {qs \in SUBSET Question : IsFiniteSet(qs) /\ Distinct(qs)}
Walkable(qs) == FollowUpsResolveIn(qs) /\ ConditionalsReachedIn(qs)

TaskType ==
  {Idle}
    \union [kind : {"generate"}, doc : SUBSET Requirements]
    \union [kind : {"added"}, req : Requirements]
    \union [kind : {"append"}, req : Requirements, questions : Templates, status : Statuses]
    \union [kind : {"translate"}, questions : Templates, status : Statuses]
    \union [kind : {"persist"}, from : {"generate", "append", "translate"}, req : 0 .. Count,
            language : Languages, questions : Templates, status : Statuses]

EditorType ==
  {Idle}
    \union [kind : {"update"}, language : Languages, saw : Question, form : Question]
    \union [kind : {"delete"}, language : Languages, saw : Question]

\* Every id of a stored question was handed out, and to one question only.
Handed ==
  /\ nextId \in Nat \ {0}
  /\ \A l \in Languages : \A q \in rows[l].questions : q.id \in 1 .. nextId - 1
  /\ \A q \in rows["canonical"].questions, p \in rows["translated"].questions : q.id # p.id

\* What a form was opened on is gone or is still about the same requirement.
Seen(e) ==
  editor[e] # Idle =>
    /\ editor[e].saw.id \in 1 .. nextId - 1
    /\ editor[e].kind = "update" =>
         editor[e].form.id = editor[e].saw.id /\ editor[e].form.req = editor[e].saw.req
    /\ \A q \in rows[editor[e].language].questions :
         q.id = editor[e].saw.id => q.req = editor[e].saw.req

RowsType == [Languages -> [status : Statuses \union {"none"}, questions : Templates]]

Inv ==
  /\ version \in {"DRAFT", "PUBLISHED"} /\ doc \subseteq Requirements
  /\ rows \in RowsType
  /\ \A l \in Languages : ~Exists(l) => rows[l].questions = {}
  /\ task \in [Tasks -> TaskType] /\ editor \in [Editors -> EditorType]
  /\ \A t \in Tasks : task[t].kind = "append" => \A q \in task[t].questions : q.id \in Nat
  /\ Handed
  /\ \A e \in Editors : Seen(e)

Alone == \A e, f \in Editors : e = f

\* Each template that is stored, is about to be, or will be once the form is saved.
Walked ==
  /\ \A l \in Languages : Walkable(rows[l].questions)
  /\ \A t \in Tasks : task[t].kind \in {"translate", "persist"} => Walkable(task[t].questions)
  /\ \A e \in Editors :
       editor[e] # Idle => Walkable(Saved(editor[e], rows[editor[e].language].questions))

-----------------------------------------------------------------------------
(* Ranks, and what renumbering does *)

Below(S, x) == {y \in S : y < x}

\* The rank of a member of a finite set of numbers is less than the size of the
\* set, and grows with the member.
LEMMA RankBelowSize ==
  ASSUME NEW S \in SUBSET Int, IsFiniteSet(S), NEW x \in S
  PROVE  Cardinality(Below(S, x)) \in 0 .. Cardinality(S) - 1
<1>1. Below(S, x) \in SUBSET (S \ {x}) BY DEF Below
<1>2. IsFiniteSet(S \ {x}) /\ Cardinality(S \ {x}) = Cardinality(S) - 1 BY FS_RemoveElement
<1>3. IsFiniteSet(Below(S, x)) /\ Cardinality(Below(S, x)) <= Cardinality(S) - 1
  BY <1>1, <1>2, FS_Subset
<1>4. Cardinality(S) \in Nat /\ Cardinality(Below(S, x)) \in Nat BY <1>3, FS_CardinalityType
<1> QED BY <1>3, <1>4

LEMMA RankGrows ==
  ASSUME NEW S \in SUBSET Int, IsFiniteSet(S), NEW x \in S, NEW y \in S, x < y
  PROVE  Cardinality(Below(S, x)) < Cardinality(Below(S, y))
<1>1. IsFiniteSet(Below(S, y)) BY FS_Subset DEF Below
<1>2. x \in Below(S, y) BY DEF Below
<1>3. Below(S, x) \in SUBSET (Below(S, y) \ {x})
  <2>1. x \in Int /\ y \in Int /\ \A z \in S : z \in Int OBVIOUS
  <2>2. \A z \in S : z < x => z < y /\ z # x BY <2>1
  <2> QED BY <2>2 DEF Below
<1>4. /\ IsFiniteSet(Below(S, y) \ {x})
      /\ Cardinality(Below(S, y) \ {x}) = Cardinality(Below(S, y)) - 1
  BY <1>1, <1>2, FS_RemoveElement
<1>5. /\ IsFiniteSet(Below(S, x))
      /\ Cardinality(Below(S, x)) <= Cardinality(Below(S, y)) - 1
  BY <1>3, <1>4, FS_Subset
<1>6. Cardinality(Below(S, x)) \in Nat /\ Cardinality(Below(S, y)) \in Nat
  BY <1>1, <1>5, FS_CardinalityType
<1> QED BY <1>5, <1>6

\* Questions with ids of their own are as many as their ids.
LEMMA AsManyIds ==
  ASSUME NEW qs, IsFiniteSet(qs), Distinct(qs)
  PROVE  IsFiniteSet(Ids(qs)) /\ Cardinality(Ids(qs)) = Cardinality(qs)
<1> DEFINE f == [q \in qs |-> q.id]
<1>1. f \in Bijection(qs, Ids(qs))
  BY DEF Bijection, Injection, Surjection, IsInjective, Distinct, Ids
<1>2. ExistsBijection(qs, Ids(qs)) BY <1>1 DEF ExistsBijection
<1> QED BY <1>2, FS_Bijection

\* The questions made from those of a finite set are finitely many.
LEMMA FiniteImage ==
  ASSUME NEW S, IsFiniteSet(S), NEW f, f = [x \in S |-> f[x]], NEW T, T = {f[x] : x \in S}
  PROVE  IsFiniteSet(T)
<1>1. f \in Surjection(S, T) BY DEF Surjection
<1> QED BY <1>1, FS_Surjection

NewId(qs, id) == IF id \in Ids(qs) THEN nextId + Cardinality(Below(Ids(qs), id)) ELSE id
Moved(qs, q) == [q EXCEPT !.id = NewId(qs, @), !.asks = {NewId(qs, x) : x \in @}]

LEMMA RenumberedMoves == ASSUME NEW qs PROVE Renumbered(qs) = {Moved(qs, q) : q \in qs}
  BY DEF Renumbered, Moved, NewId, Below

\* A template that is stored again keeps its shape under ids that were never
\* used before.
LEMMA RenumberedIs ==
  ASSUME NEW qs \in Templates, nextId \in Nat \ {0}
  PROVE  /\ Renumbered(qs) \in Templates
         /\ \A p \in Renumbered(qs) : p.id \in nextId .. nextId + Cardinality(qs) - 1
         /\ Walkable(qs) => Walkable(Renumbered(qs))
<1> DEFINE N(id) == NewId(qs, id)
<1>1. IsFiniteSet(qs) /\ Distinct(qs) /\ \A q \in qs : q \in Question BY DEF Templates
<1>2. IsFiniteSet(Ids(qs)) /\ Cardinality(Ids(qs)) = Cardinality(qs) BY <1>1, AsManyIds
<1>3. Ids(qs) \in SUBSET Int BY <1>1 DEF Ids, Question
<1>4. Cardinality(qs) \in Nat BY <1>1, FS_CardinalityType
<1>5. \A x \in Ids(qs) : N(x) \in nextId .. nextId + Cardinality(qs) - 1
  <2> TAKE x \in Ids(qs)
  <2>1. Cardinality(Below(Ids(qs), x)) \in 0 .. Cardinality(qs) - 1 BY <1>2, <1>3, RankBelowSize
  <2> QED BY <1>4, <2>1 DEF NewId
<1>6. \A x, y \in Ids(qs) : N(x) = N(y) => x = y
  <2> SUFFICES ASSUME NEW x \in Ids(qs), NEW y \in Ids(qs), x < y PROVE N(x) # N(y)
    <3>1. \A x, y \in Ids(qs) : x < y \/ y < x \/ x = y BY <1>3
    <3> QED BY <3>1
  <2>1. Cardinality(Below(Ids(qs), x)) < Cardinality(Below(Ids(qs), y))
    BY <1>2, <1>3, RankGrows
  <2>2. Cardinality(Below(Ids(qs), x)) \in Int /\ Cardinality(Below(Ids(qs), y)) \in Int
    BY <1>2, <1>3, <1>4, RankBelowSize
  <2> QED BY <2>1, <2>2 DEF NewId
<1>7. \A x \in Int : N(x) \in Int
  <2> TAKE x \in Int
  <2>1. CASE x \in Ids(qs) BY <1>4, <1>5, <2>1
  <2>2. CASE x \notin Ids(qs) BY <2>2 DEF NewId
  <2> QED BY <2>1, <2>2
<1>8. \A q \in qs : /\ Moved(qs, q) \in Question
                    /\ Moved(qs, q).id = N(q.id)
                    /\ Moved(qs, q).asks = {N(x) : x \in q.asks}
                    /\ Moved(qs, q).conditional = q.conditional
  <2> TAKE q \in qs
  <2>1. q \in Question BY <1>1
  <2>2. N(q.id) \in Int /\ {N(x) : x \in q.asks} \in SUBSET Int
    BY <1>7, <2>1 DEF Question
  <2> HIDE DEF N
  <2>3. Moved(qs, q) = [q EXCEPT !.id = N(q.id), !.asks = {N(x) : x \in q.asks}]
    BY DEF Moved, N
  <2> QED BY <2>1, <2>2, <2>3 DEF Question
<1>9. Renumbered(qs) = {Moved(qs, q) : q \in qs} BY RenumberedMoves
<1>10. \A q \in qs : q.id \in Ids(qs) BY DEF Ids
<1> HIDE DEF N
<1>11. Renumbered(qs) \in Templates
  <2>1. Renumbered(qs) \in SUBSET Question BY <1>8, <1>9
  <2>2. IsFiniteSet(Renumbered(qs))
    <3> DEFINE f == [q \in qs |-> Moved(qs, q)]
    <3>1. f = [q \in qs |-> f[q]] /\ Renumbered(qs) = {f[q] : q \in qs} BY <1>9
    <3> HIDE DEF f
    <3> QED BY <1>1, <3>1, FiniteImage
  <2>3. Distinct(Renumbered(qs)) BY <1>1, <1>6, <1>8, <1>9, <1>10 DEF Distinct
  <2> QED BY <2>1, <2>2, <2>3 DEF Templates
<1>12. \A p \in Renumbered(qs) : p.id \in nextId .. nextId + Cardinality(qs) - 1
  BY <1>5, <1>8, <1>9, <1>10
<1>13. ASSUME Walkable(qs) PROVE Walkable(Renumbered(qs))
  <2>1. Targets(qs) \subseteq Ids(qs) /\ \A q \in qs : q.conditional => q.id \in Targets(qs)
    BY <1>13 DEF Walkable, FollowUpsResolveIn, ConditionalsReachedIn
  <2>2. Targets(Renumbered(qs)) \subseteq Ids(Renumbered(qs))
    <3> SUFFICES ASSUME NEW q \in qs, NEW x \in q.asks PROVE N(x) \in Ids(Renumbered(qs))
      BY <1>8, <1>9 DEF Targets
    <3>1. PICK p \in qs : p.id = x BY <2>1 DEF Targets, Ids
    <3> QED BY <1>8, <1>9, <3>1 DEF Ids
  <2>3. ASSUME NEW p \in Renumbered(qs), p.conditional PROVE p.id \in Targets(Renumbered(qs))
    <3>1. PICK q \in qs : p = Moved(qs, q) BY <1>9
    <3>2. q.conditional /\ p.id = N(q.id) BY <1>8, <2>3, <3>1
    <3>3. PICK r \in qs : q.id \in r.asks BY <2>1, <3>2 DEF Targets
    <3>4. p.id \in Moved(qs, r).asks BY <1>8, <3>2, <3>3
    <3> QED BY <1>9, <3>4 DEF Targets
  <2> QED BY <2>2, <2>3 DEF Walkable, FollowUpsResolveIn, ConditionalsReachedIn
<1> QED BY <1>11, <1>12, <1>13

-----------------------------------------------------------------------------
(* Templates that are made *)

Made == [conditional : BOOLEAN, asks : SUBSET Int]
Lists == Seq(Made) \ {<<>>}

\* The id of a question before it is stored tells its requirement and its
\* position, and is not one that was handed out.
LEMMA SchemaIdTells ==
  ASSUME NEW r \in Requirements, NEW s \in Requirements, NEW i \in Nat \ {0}, NEW j \in Nat \ {0}
  PROVE  /\ SchemaId(r, i) \in Int /\ SchemaId(r, i) < 0
         /\ SchemaId(r, i) = SchemaId(s, j) => r = s /\ i = j
<1>1. Count \in Nat \ {0} /\ r \in 1 .. Count /\ s \in 1 .. Count
  BY AuditAssumption DEF AuditAssumption, Requirements
<1>2. \A a \in Nat : Count * a \in Nat BY <1>1
<1>3. ASSUME NEW a \in Nat, NEW b \in Nat, a < b PROVE Count * a + Count <= Count * b
  <2>1. b - a - 1 \in Nat BY <1>3
  <2>2. Count * b = Count * a + Count + Count * (b - a - 1) BY <1>1
  <2> QED BY <1>1, <1>2, <2>1, <2>2
<1>4. SchemaId(r, i) = - (Count * (i - 1) + r) /\ SchemaId(s, j) = - (Count * (j - 1) + s)
  BY DEF SchemaId
<1>5. i - 1 \in Nat /\ j - 1 \in Nat OBVIOUS
<1>6. Count * (i - 1) \in Nat /\ Count * (j - 1) \in Nat BY <1>2, <1>5
<1>7. i < j => Count * (i - 1) + Count <= Count * (j - 1) BY <1>3, <1>5
<1>8. j < i => Count * (j - 1) + Count <= Count * (i - 1) BY <1>3, <1>5
<1> QED BY <1>1, <1>4, <1>6, <1>7, <1>8

LEMMA MadeIsBuilt ==
  ASSUME NEW r \in Requirements, NEW base \in Nat, NEW list \in Lists
  PROVE  /\ BuildRequirementQuestions(r, base, list) \in Templates
         /\ \A q \in BuildRequirementQuestions(r, base, list) :
              q.req = r /\ \E i \in Nat \ {0} : q.id = SchemaId(r, i)
         /\ Covered(r, BuildRequirementQuestions(r, base, list))
<1> DEFINE n == Len(list)
           Raw(i) == [id |-> SchemaId(r, i), req |-> r, order |-> base + i,
                      conditional |-> list[i].conditional, asks |-> ResolveFollowUps(r, i, list),
                      edited |-> FALSE]
           raw == {Raw(i) : i \in DOMAIN list}
           Reached(q) == [q EXCEPT !.conditional = @ /\ q.id \in Targets(raw)]
           Kept(i) == Reached(Raw(i))
           B == BuildRequirementQuestions(r, base, list)
<1>1. n \in Nat /\ DOMAIN list = 1 .. n /\ 1 \in DOMAIN list /\ \A i \in DOMAIN list : list[i] \in Made
  <2>1. list \in Seq(Made) /\ list # <<>> BY DEF Lists
  <2>2. n \in Nat /\ DOMAIN list = 1 .. n /\ n # 0 BY <2>1
  <2> QED BY <2>1, <2>2
<1>2. \A i \in DOMAIN list : Raw(i) \in Question
  <2> TAKE i \in DOMAIN list
  <2>1. SchemaId(r, i) \in Int /\ base + i \in Nat \ {0} /\ list[i].conditional \in BOOLEAN
    BY <1>1, SchemaIdTells DEF Made
  <2>2. \A m \in DOMAIN list : SchemaId(r, m) \in Int BY <1>1, SchemaIdTells
  <2>3. ResolveFollowUps(r, i, list) \in SUBSET Int BY <2>2 DEF ResolveFollowUps
  <2> QED BY <2>1, <2>3 DEF Question
<1>3. B = {Kept(i) : i \in DOMAIN list}
  <2>1. B = {Reached(q) : q \in raw} BY DEF BuildRequirementQuestions, ReconcileConditionals
  <2> HIDE DEF B, Raw, Reached
  <2> QED BY <2>1
<1>4. \A i \in DOMAIN list : /\ Kept(i) \in Question
                             /\ Kept(i).req = r /\ Kept(i).id = SchemaId(r, i)
  <2> TAKE i \in DOMAIN list
  <2>1. Raw(i) \in Question /\ Raw(i).req = r /\ Raw(i).id = SchemaId(r, i) BY <1>2
  <2> HIDE DEF Raw, raw
  <2> QED BY <2>1 DEF Question
<1> HIDE DEF Kept
<1>5. IsFiniteSet(B)
  <2> DEFINE f == [i \in 1 .. n |-> Kept(i)]
  <2>1. f = [i \in 1 .. n |-> f[i]] /\ B = {f[i] : i \in 1 .. n} BY <1>1, <1>3
  <2>2. IsFiniteSet(1 .. n) BY <1>1, FS_Interval
  <2> HIDE DEF f, n, B
  <2> QED BY <2>1, <2>2, FiniteImage
<1> HIDE DEF B
<1>6. Distinct(B)
  <2> SUFFICES ASSUME NEW i \in DOMAIN list, NEW j \in DOMAIN list, Kept(i).id = Kept(j).id
               PROVE  i = j
    BY <1>3 DEF Distinct
  <2> QED BY <1>1, <1>4, SchemaIdTells
<1>7. B \in Templates BY <1>3, <1>4, <1>5, <1>6 DEF Templates
<1>8. \A q \in B : q.req = r /\ \E i \in Nat \ {0} : q.id = SchemaId(r, i) BY <1>1, <1>3, <1>4
<1>9. Covered(r, B) BY <1>1, <1>3, <1>4 DEF Covered
<1> QED BY <1>7, <1>8, <1>9 DEF B

\* However the model answers, every requirement ends up with questions.
LEMMA NoneIsEmpty ==
  ASSUME NEW D, NEW made \in [D -> Shapes \union {<<>>}], NEW again \in [D -> Shapes \union {<<>>}]
  PROVE  EnsureRequirementCoverage(made, again) \in [D -> Lists]
<1>1. Shapes \subseteq Lists BY AuditAssumption DEF AuditAssumption, Lists, Made
<1>2. Baseline \in Lists
  <2>1. [conditional |-> FALSE, asks |-> {}] \in Made BY DEF Made
  <2> QED BY <2>1 DEF Baseline, Lists
<1>3. \A r \in D : /\ made[r] # <<>> => made[r] \in Lists
                   /\ again[r] # <<>> => again[r] \in Lists
  BY <1>1
<1> QED BY <1>2, <1>3 DEF EnsureRequirementCoverage

\* A generation assembles a template about all of the requirements.
LEMMA AssembledCovers ==
  ASSUME NEW D \in SUBSET Requirements, NEW made \in [D -> Lists]
  PROVE  /\ AssembleQATemplate(made) \in Templates
         /\ \A r \in D : Covered(r, AssembleQATemplate(made))
<1> DEFINE B(r) == BuildRequirementQuestions(r, Cardinality(Before(made, r)), made[r])
           F == {B(r) : r \in D}
<1>1. DOMAIN made = D /\ \A r \in D : made[r] \in Lists OBVIOUS
<1>2. AssembleQATemplate(made) = UNION F BY <1>1 DEF AssembleQATemplate
<1>3. IsFiniteSet(D)
  <2>1. IsFiniteSet(1 .. Count) BY AuditAssumption, FS_Interval DEF AuditAssumption
  <2> QED BY <2>1, FS_Subset DEF Requirements
<1>4. \A r \in D : IsFiniteSet(Positions(made, r))
  <2> TAKE r \in D
  <2>1. Len(made[r]) \in Nat /\ DOMAIN made[r] = 1 .. Len(made[r])
    <3>1. made[r] \in Seq(Made) BY <1>1 DEF Lists
    <3> QED BY <3>1
  <2>2. IsFiniteSet(DOMAIN made[r]) BY <2>1, FS_Interval
  <2>3. IsFiniteSet({r}) BY FS_Singleton
  <2> QED BY <2>2, <2>3, FS_Product DEF Positions
<1>5. \A r \in D : Cardinality(Before(made, r)) \in Nat
  <2> TAKE r \in D
  <2> DEFINE E == {p \in D : p < r /\ CategoryOf[p] = CategoryOf[r]}
             f == [p \in E |-> Positions(made, p)]
             T == {f[p] : p \in E}
  <2>1. IsFiniteSet(E) BY <1>3, FS_Subset
  <2>2. f = [p \in E |-> f[p]] OBVIOUS
  <2>3. \A x \in T : IsFiniteSet(x) BY <1>4
  <2>4. Before(made, r) = UNION T BY <1>1 DEF Before
  <2>5. IsFiniteSet(T)
    <3> HIDE DEF f, E
    <3> QED BY <2>1, <2>2, FiniteImage
  <2> HIDE DEF T
  <2>6. IsFiniteSet(UNION T) BY <2>3, <2>5, FS_UNION
  <2> QED BY <2>4, <2>6, FS_CardinalityType
<1>6. \A r \in D : /\ B(r) \in Templates /\ Covered(r, B(r))
                   /\ \A q \in B(r) : q.req = r /\ \E i \in Nat \ {0} : q.id = SchemaId(r, i)
  BY <1>1, <1>5, MadeIsBuilt
<1> HIDE DEF B
<1>7. IsFiniteSet(UNION F)
  <2> DEFINE f == [r \in D |-> B(r)]
  <2>1. f = [r \in D |-> f[r]] /\ F = {f[r] : r \in D} OBVIOUS
  <2>2. \A x \in F : IsFiniteSet(x) BY <1>6 DEF Templates
  <2> HIDE DEF f, F
  <2>3. IsFiniteSet(F) BY <1>3, <2>1, FiniteImage
  <2> QED BY <2>2, <2>3, FS_UNION
<1>8. Distinct(UNION F)
  <2> SUFFICES ASSUME NEW r \in D, NEW s \in D, NEW q \in B(r), NEW p \in B(s), q.id = p.id
               PROVE  q = p
    BY DEF Distinct
  <2>1. PICK i \in Nat \ {0} : q.id = SchemaId(r, i) BY <1>6
  <2>2. PICK j \in Nat \ {0} : p.id = SchemaId(s, j) BY <1>6
  <2>3. r = s BY <2>1, <2>2, SchemaIdTells
  <2> QED BY <1>6, <2>3 DEF Templates, Distinct
<1>9. UNION F \in SUBSET Question BY <1>6 DEF Templates
<1>10. \A r \in D : Covered(r, UNION F) BY <1>6 DEF Covered
<1> QED BY <1>2, <1>7, <1>8, <1>9, <1>10 DEF Templates

\* What is appended to a stored template does not clash with it.
LEMMA AppendedIs ==
  ASSUME NEW qs \in Templates, \A q \in qs : q.id \in Nat,
         NEW r \in Requirements, NEW list \in Lists
  PROVE  Appended(qs, r, list) \in Templates
<1> PICK base : base = Cardinality(InSection(CategoryOf[r], qs)) OBVIOUS
<1> PICK B : B = BuildRequirementQuestions(r, base, list) OBVIOUS
<1>1. base \in Nat
  <2>1. IsFiniteSet(InSection(CategoryOf[r], qs)) BY FS_Subset DEF InSection, Templates
  <2> QED BY <2>1, FS_CardinalityType
<1>2. B \in Templates /\ \A q \in B : \E i \in Nat \ {0} : q.id = SchemaId(r, i)
  BY <1>1, MadeIsBuilt
<1>3. \A q \in B : q.id \in Int /\ q.id < 0 BY <1>2, SchemaIdTells
<1>4. IsFiniteSet(qs \union B) BY <1>2, FS_Union DEF Templates
<1>5. \A q \in B, p \in qs : q.id # p.id BY <1>3
<1>6. Distinct(qs \union B)
  <2> SUFFICES ASSUME NEW q \in qs \union B, NEW p \in qs \union B, q.id = p.id PROVE q = p
    BY DEF Distinct
  <2>1. (q \in qs /\ p \in qs) \/ (q \in B /\ p \in B) BY <1>5
  <2> QED BY <1>2, <2>1 DEF Templates, Distinct
<1>7. Appended(qs, r, list) = qs \union B BY DEF Appended
<1> QED BY <1>2, <1>4, <1>6, <1>7 DEF Templates

-----------------------------------------------------------------------------
(* The invariant *)

LEMMA NoTemplate == {} \in Templates
  BY FS_EmptySet DEF Templates, Distinct

LEMMA InitInv == Init => Inv
<1> SUFFICES ASSUME Init PROVE Inv OBVIOUS
<1>1. rows = [l \in Languages |-> NoRow] /\ \A l \in Languages : rows[l] = NoRow BY DEF Init
<1>2. rows \in RowsType BY <1>1, NoTemplate DEF RowsType, NoRow
<1>3. \A l \in Languages : rows[l].questions = {} BY <1>1 DEF NoRow
<1>4. task \in [Tasks -> TaskType] /\ \A t \in Tasks : task[t].kind = "none"
  BY DEF Init, TaskType, Idle
<1>5. editor \in [Editors -> EditorType] /\ \A e \in Editors : editor[e] = Idle
  BY DEF Init, EditorType
<1>6. Handed BY <1>3 DEF Handed, Init, Languages
<1>7. version \in {"DRAFT", "PUBLISHED"} /\ doc \subseteq Requirements
  BY AuditAssumption DEF Init, AuditAssumption
<1> QED BY <1>2, <1>3, <1>4, <1>5, <1>6, <1>7 DEF Inv, Seen

\* What a task has in memory, by what it is about.
LEMMA TaskHas ==
  ASSUME NEW x \in TaskType
  PROVE  /\ x.kind = "generate" => x.doc \in SUBSET Requirements
         /\ x.kind = "added" => x.req \in Requirements
         /\ x.kind = "append" =>
              x.req \in Requirements /\ x.questions \in Templates /\ x.status \in Statuses
         /\ x.kind = "translate" => x.questions \in Templates /\ x.status \in Statuses
         /\ x.kind = "persist" =>
              x.language \in Languages /\ x.questions \in Templates /\ x.status \in Statuses
  BY DEF TaskType, Idle

LEMMA EditorHas ==
  ASSUME NEW x \in EditorType, x # Idle
  PROVE  /\ x.kind \in {"update", "delete"} /\ x.language \in Languages /\ x.saw \in Question
         /\ x.kind = "update" => x.form \in Question
  BY DEF EditorType

LEMMA PersistingHas ==
  ASSUME NEW kind \in {"generate", "append", "translate"}, NEW r \in 0 .. Count,
         NEW l \in Languages, NEW qs \in Templates, NEW status \in Statuses
  PROVE  /\ Persisting(kind, r, l, qs, status) \in TaskType
         /\ Persisting(kind, r, l, qs, status).kind = "persist"
         /\ Persisting(kind, r, l, qs, status).questions = qs
  BY DEF Persisting, TaskType, Statuses

\* A step that only changes what one task has in memory.
LEMMA TaskStep ==
  ASSUME Inv, NEW t \in Tasks, NEW x \in TaskType, task' = [task EXCEPT ![t] = x],
         x.kind = "append" => \A q \in x.questions : q.id \in Nat,
         doc' \in SUBSET Requirements, UNCHANGED <<version, rows, nextId, editor>>
  PROVE  Inv'
<1>1. task' \in [Tasks -> TaskType] BY DEF Inv
<1>2. \A s \in Tasks : task'[s].kind = "append" => \A q \in task'[s].questions : q.id \in Nat
  BY DEF Inv
<1>3. Handed' BY DEF Inv, Handed
<1>4. \A e \in Editors : Seen(e)' BY DEF Inv, Seen
<1> QED BY <1>1, <1>2, <1>3, <1>4 DEF Inv, Exists

\* A stored template and its status.
LEMMA StoredHas ==
  ASSUME Inv, NEW l \in Languages
  PROVE  /\ rows[l].questions \in Templates /\ rows[l].status \in Statuses \union {"none"}
         /\ Exists(l) => rows[l].status \in Statuses
         /\ \A q \in rows[l].questions : q.id \in 1 .. nextId - 1 /\ q.id \in Nat
  BY DEF Inv, RowsType, Exists, Handed

LEMMA StartQATemplateJobInv ==
  ASSUME Inv, NEW t \in Tasks, StartQATemplateJob(t) PROVE Inv'
<1> PICK x : x = [kind |-> "generate", doc |-> doc] OBVIOUS
<1>1. x \in TaskType /\ x.kind # "append" BY DEF TaskType, Inv
<1> QED BY <1>1, TaskStep DEF StartQATemplateJob, Inv

LEMMA AddRequirementInv ==
  ASSUME Inv, NEW t \in Tasks, NEW r \in Requirements, AddRequirement(t, r) PROVE Inv'
<1> PICK x : x = [kind |-> "added", req |-> r] OBVIOUS
<1>1. x \in TaskType /\ x.kind # "append" BY DEF TaskType
<1> QED BY <1>1, TaskStep DEF AddRequirement, Inv

\* What the model makes of a document, once assembled.
LEMMA GeneratedIs ==
  ASSUME Inv, NEW t \in Tasks, task[t].kind = "generate",
         NEW made \in [task[t].doc -> Shapes \union {<<>>}],
         NEW again \in [task[t].doc -> Shapes \union {<<>>}]
  PROVE  LET qs == AssembleQATemplate(EnsureRequirementCoverage(made, again))
         IN  qs \in Templates /\ \A r \in task[t].doc : Covered(r, qs)
<1>1. task[t].doc \in SUBSET Requirements BY TaskHas DEF Inv
<1>2. EnsureRequirementCoverage(made, again) \in [task[t].doc -> Lists] BY NoneIsEmpty
<1> QED BY <1>1, <1>2, AssembledCovers

\* A generation that ends well has a template about its document to write.
LEMMA GenerationMakes ==
  ASSUME Inv, NEW t \in Tasks, RunQAGeneration(t)
  PROVE  \E x \in TaskType :
           /\ task' = [task EXCEPT ![t] = x]
           /\ x = Idle \/ /\ x.kind = "persist" /\ x.questions \in Templates
                          /\ Validate(x.questions)
                          /\ \A r \in task[t].doc : Covered(r, x.questions)
<1>1. PICK made \in [task[t].doc -> Shapes \union {<<>>}],
           again \in [task[t].doc -> Shapes \union {<<>>}] :
        LET qs == AssembleQATemplate(EnsureRequirementCoverage(made, again))
        IN  task' = [task EXCEPT ![t] =
              IF Validate(qs) THEN Persisting("generate", 0, "canonical", qs, "draft") ELSE Idle]
  BY DEF RunQAGeneration
<1> PICK qs : qs = AssembleQATemplate(EnsureRequirementCoverage(made, again)) OBVIOUS
<1>2. qs \in Templates /\ \A r \in task[t].doc : Covered(r, qs)
  BY GeneratedIs DEF RunQAGeneration
<1> PICK x : x = Persisting("generate", 0, "canonical", qs, "draft") OBVIOUS
<1>3. x \in TaskType /\ x.kind = "persist" /\ x.questions = qs
  <2>1. 0 \in 0 .. Count /\ "canonical" \in Languages /\ "draft" \in Statuses
    BY AuditAssumption DEF AuditAssumption, Languages, Statuses
  <2> QED BY <1>2, <2>1, PersistingHas
<1>4. CASE Validate(qs) BY <1>1, <1>2, <1>3, <1>4
<1>5. CASE ~Validate(qs)
  <2>1. Idle \in TaskType BY DEF TaskType
  <2> QED BY <1>1, <1>5, <2>1
<1> QED BY <1>4, <1>5

LEMMA RunQAGenerationInv ==
  ASSUME Inv, NEW t \in Tasks, RunQAGeneration(t) PROVE Inv'
<1>1. PICK x \in TaskType : /\ task' = [task EXCEPT ![t] = x]
                            /\ x = Idle \/ x.kind = "persist"
  BY GenerationMakes
<1>2. x.kind # "append" BY <1>1 DEF Idle
<1> QED BY <1>1, <1>2, TaskStep DEF RunQAGeneration, Inv

LEMMA LoadForAppendInv ==
  ASSUME Inv, NEW t \in Tasks, LoadForAppend(t) PROVE Inv'
<1> PICK row : row = rows["canonical"] OBVIOUS
<1> PICK x : x = IF Exists("canonical") /\ ~Covered(task[t].req, row.questions)
                 THEN [kind |-> "append", req |-> task[t].req, questions |-> row.questions,
                       status |-> row.status]
                 ELSE Idle
  OBVIOUS
<1>1. task[t].req \in Requirements BY TaskHas DEF Inv, LoadForAppend
<1>2. /\ row.questions \in Templates /\ \A q \in row.questions : q.id \in Nat
      /\ Exists("canonical") => row.status \in Statuses
  BY StoredHas DEF Languages
<1>3. x \in TaskType BY <1>1, <1>2 DEF TaskType
<1>4. x.kind = "append" => \A q \in x.questions : q.id \in Nat BY <1>2 DEF Idle
<1> QED BY <1>3, <1>4, TaskStep DEF LoadForAppend, Inv

\* An append that ends well has a template that was validated to write.
LEMMA AppendMakes ==
  ASSUME Inv, NEW t \in Tasks, AppendQATemplateQuestions(t)
  PROVE  \E x \in TaskType :
           /\ task' = [task EXCEPT ![t] = x]
           /\ x = Idle \/ /\ x.kind = "persist" /\ x.questions \in Templates
                          /\ Validate(x.questions)
<1>1. PICK list \in Shapes \union {Baseline} :
        LET qs == Appended(task[t].questions, task[t].req, list)
        IN  task' = [task EXCEPT ![t] =
              IF Validate(qs)
              THEN Persisting("append", task[t].req, "canonical", qs, task[t].status)
              ELSE Idle]
  BY DEF AppendQATemplateQuestions
<1> PICK qs : qs = Appended(task[t].questions, task[t].req, list) OBVIOUS
<1>2. /\ task[t].req \in Requirements /\ task[t].questions \in Templates
      /\ task[t].status \in Statuses
  BY TaskHas DEF Inv, AppendQATemplateQuestions
<1>3. \A q \in task[t].questions : q.id \in Nat BY DEF Inv, AppendQATemplateQuestions
<1>4. list \in Lists
  <2>1. Shapes \subseteq Lists BY AuditAssumption DEF AuditAssumption, Lists, Made
  <2>2. Baseline \in Lists
    <3>1. [conditional |-> FALSE, asks |-> {}] \in Made BY DEF Made
    <3> QED BY <3>1 DEF Baseline, Lists
  <2> QED BY <2>1, <2>2
<1>5. qs \in Templates BY <1>2, <1>3, <1>4, AppendedIs
<1> PICK x : x = Persisting("append", task[t].req, "canonical", qs, task[t].status) OBVIOUS
<1>6. x \in TaskType /\ x.kind = "persist" /\ x.questions = qs
  <2>1. task[t].req \in 0 .. Count /\ "canonical" \in Languages
    BY <1>2, AuditAssumption DEF AuditAssumption, Languages, Requirements
  <2> QED BY <1>2, <1>5, <2>1, PersistingHas
<1>7. CASE Validate(qs) BY <1>1, <1>5, <1>6, <1>7
<1>8. CASE ~Validate(qs)
  <2>1. Idle \in TaskType BY DEF TaskType
  <2> QED BY <1>1, <1>8, <2>1
<1> QED BY <1>7, <1>8

LEMMA AppendQATemplateQuestionsInv ==
  ASSUME Inv, NEW t \in Tasks, AppendQATemplateQuestions(t) PROVE Inv'
<1>1. PICK x \in TaskType : /\ task' = [task EXCEPT ![t] = x]
                            /\ x = Idle \/ x.kind = "persist"
  BY AppendMakes
<1>2. x.kind # "append" BY <1>1 DEF Idle
<1> QED BY <1>1, <1>2, TaskStep DEF AppendQATemplateQuestions, Inv

LEMMA TranslateQATemplateInv ==
  ASSUME Inv, NEW t \in Tasks, TranslateQATemplate(t) PROVE Inv'
<1> PICK row : row = rows["canonical"] OBVIOUS
<1> PICK x : x = [kind |-> "translate", questions |-> row.questions, status |-> row.status] OBVIOUS
<1>1. row.questions \in Templates /\ row.status \in Statuses
  BY StoredHas DEF Languages, TranslateQATemplate
<1>2. x \in TaskType /\ x.kind # "append" BY <1>1 DEF TaskType
<1> QED BY <1>2, TaskStep DEF TranslateQATemplate, Inv

LEMMA TranslateStringsInv ==
  ASSUME Inv, NEW t \in Tasks, TranslateStrings(t) PROVE Inv'
<1> PICK x : x = Persisting("translate", 0, "translated", task[t].questions, task[t].status) OBVIOUS
<1>1. task[t].questions \in Templates /\ task[t].status \in Statuses
  BY TaskHas DEF Inv, TranslateStrings
<1>2. x \in TaskType /\ x.kind = "persist"
  <2>1. 0 \in 0 .. Count /\ "translated" \in Languages
    BY AuditAssumption DEF AuditAssumption, Languages
  <2> QED BY <1>1, <2>1, PersistingHas
<1> QED BY <1>2, TaskStep DEF TranslateStrings, Inv

-----------------------------------------------------------------------------
(* The console and the write of a template *)

\* A step that leaves the languages with questions that were there, perhaps
\* with other contents.
LEMMA QuestionsStep ==
  ASSUME Inv, rows' \in RowsType, \A l \in Languages : ~Exists(l)' => rows'[l].questions = {},
         \A l \in Languages : \A q \in rows'[l].questions :
           \E p \in rows[l].questions : p.id = q.id /\ p.req = q.req,
         editor' \in [Editors -> EditorType],
         \A e \in Editors : editor'[e] \in {editor[e], Idle},
         version' \in {"DRAFT", "PUBLISHED"}, UNCHANGED <<doc, nextId, task>>
  PROVE  Inv'
<1>1. "canonical" \in Languages /\ "translated" \in Languages BY DEF Languages
<1>2. Handed'
  <2>1. nextId' \in Nat \ {0} BY DEF Inv, Handed
  <2>2. \A l \in Languages : \A q \in rows'[l].questions : q.id \in 1 .. nextId' - 1
    BY DEF Inv, Handed
  <2>3. ASSUME NEW q \in rows'["canonical"].questions, NEW p \in rows'["translated"].questions
        PROVE  q.id # p.id
    <3>1. PICK r \in rows["canonical"].questions : r.id = q.id BY <1>1
    <3>2. PICK s \in rows["translated"].questions : s.id = p.id BY <1>1
    <3>3. r.id # s.id BY DEF Inv, Handed
    <3> QED BY <3>1, <3>2, <3>3
  <2> QED BY <2>1, <2>2, <2>3 DEF Handed
<1>3. ASSUME NEW e \in Editors PROVE Seen(e)'
  <2>1. CASE editor'[e] = Idle BY <2>1 DEF Seen
  <2>2. CASE editor'[e] = editor[e] /\ editor[e] # Idle
    <3>1. editor[e].language \in Languages BY <2>2, EditorHas DEF Inv
    <3>2. Seen(e) BY DEF Inv
    <3>3. \A q \in rows'[editor[e].language].questions :
            q.id = editor[e].saw.id => q.req = editor[e].saw.req
      <4> TAKE q \in rows'[editor[e].language].questions
      <4>1. PICK p \in rows[editor[e].language].questions : p.id = q.id /\ p.req = q.req BY <3>1
      <4> QED BY <2>2, <3>2, <4>1 DEF Seen
    <3> QED BY <2>2, <3>2, <3>3 DEF Seen
  <2> QED BY <2>1, <2>2
<1> QED BY <1>2, <1>3 DEF Inv

\* A form is opened on a question that is there.
LEMMA FormOpened ==
  ASSUME Inv, NEW e \in Editors, NEW l \in Languages, NEW q \in rows[l].questions,
         NEW x \in EditorType, x # Idle, x.language = l, x.saw = q,
         x.kind = "update" => x.form.id = q.id /\ x.form.req = q.req,
         editor' = [editor EXCEPT ![e] = x], UNCHANGED <<version, doc, rows, nextId, task>>
  PROVE  Inv'
<1>1. editor' \in [Editors -> EditorType] BY DEF Inv
<1>2. ASSUME NEW f \in Editors PROVE Seen(f)'
  <2>1. CASE f = e
    <3>1. editor'[f] = x BY <2>1 DEF Inv
    <3>2. q.id \in 1 .. nextId - 1 BY StoredHas
    <3>3. \A p \in rows[l].questions : p.id = q.id => p.req = q.req
      <4>1. Distinct(rows[l].questions) BY StoredHas DEF Templates
      <4> QED BY <4>1 DEF Distinct
    <3> QED BY <3>1, <3>2, <3>3 DEF Seen
  <2>2. CASE f # e
    <3>1. editor'[f] = editor[f] BY <2>2 DEF Inv
    <3> QED BY <3>1 DEF Seen, Inv
  <2> QED BY <2>1, <2>2
<1>3. Handed' BY DEF Inv, Handed
<1> QED BY <1>1, <1>2, <1>3 DEF Inv, Exists

\* What an editor may submit is a question with the place of the one it is for.
LEMMA FormIs ==
  ASSUME NEW q \in Question, NEW qs \in Templates, NEW form \in Forms(q, qs)
  PROVE  form \in Question /\ form.id = q.id /\ form.req = q.req /\ form.order = q.order
<1>1. PICK c \in BOOLEAN, a \in {{}} \union {{x} : x \in Ids(qs) \ {q.id}} : form = Filled(q, c, a)
  BY DEF Forms
<1>2. a \in SUBSET Int
  <2>1. \A p \in qs : p.id \in Int BY DEF Templates, Question
  <2>2. Ids(qs) \in SUBSET Int BY <2>1 DEF Ids
  <2> QED BY <2>2
<1> QED BY <1>1, <1>2, ZenonT(40) DEF Question, Filled

LEMMA UpdateQAQuestionInv ==
  ASSUME Inv, NEW e \in Editors, NEW l \in Languages, UpdateQAQuestion(e, l) PROVE Inv'
<1>1. PICK q \in rows[l].questions : \E form \in Forms(q, rows[l].questions) :
        editor' = [editor EXCEPT ![e] =
          [kind |-> "update", language |-> l, saw |-> q, form |-> form]]
  BY DEF UpdateQAQuestion
<1>2. PICK form \in Forms(q, rows[l].questions) :
        editor' = [editor EXCEPT ![e] =
          [kind |-> "update", language |-> l, saw |-> q, form |-> form]]
  BY <1>1
<1>3. rows[l].questions \in Templates BY StoredHas
<1>4. q \in Question BY <1>3 DEF Templates
<1>5. form \in Question /\ form.id = q.id /\ form.req = q.req BY <1>3, <1>4, FormIs
<1> PICK x : x = [kind |-> "update", language |-> l, saw |-> q, form |-> form] OBVIOUS
<1>6. x \in EditorType /\ x # Idle BY <1>4, <1>5 DEF EditorType, Idle
<1> QED BY <1>2, <1>5, <1>6, FormOpened DEF UpdateQAQuestion

LEMMA DeleteQAQuestionInv ==
  ASSUME Inv, NEW e \in Editors, NEW l \in Languages, DeleteQAQuestion(e, l) PROVE Inv'
<1>1. PICK q \in rows[l].questions :
        editor' = [editor EXCEPT ![e] = [kind |-> "delete", language |-> l, saw |-> q]]
  BY DEF DeleteQAQuestion
<1>2. q \in Question BY StoredHas DEF Templates
<1> PICK x : x = [kind |-> "delete", language |-> l, saw |-> q] OBVIOUS
<1>3. x \in EditorType /\ x # Idle BY <1>2 DEF EditorType, Idle
<1> QED BY <1>1, <1>3, FormOpened DEF DeleteQAQuestion

\* What one row becomes when the form is saved.
Written(edit, q) == IF q.id = edit.saw.id THEN [edit.form EXCEPT !.order = q.order] ELSE q

\* A saved form leaves questions with ids of their own, each in the place of
\* one that was there; whoever is not the question of the form stays.
LEMMA SavedIs ==
  ASSUME NEW qs \in Templates, NEW x \in EditorType, x # Idle,
         x.kind = "update" => x.form.id = x.saw.id /\ x.form.req = x.saw.req,
         \A q \in qs : q.id = x.saw.id => q.req = x.saw.req
  PROVE  /\ Saved(x, qs) \in Templates
         /\ \A p \in Saved(x, qs) : \E q \in qs : q.id = p.id /\ q.req = p.req
         /\ \A q \in qs : q.id # x.saw.id => q \in Saved(x, qs)
<1>1. IsFiniteSet(qs) /\ Distinct(qs) /\ \A q \in qs : q \in Question BY DEF Templates
<1>2. CASE x.kind = "delete"
  <2>1. Saved(x, qs) = {q \in qs : q.id # x.saw.id} BY <1>2 DEF Saved
  <2>2. Saved(x, qs) \in SUBSET qs BY <2>1
  <2>3. IsFiniteSet(Saved(x, qs)) BY <1>1, <2>2, FS_Subset
  <2> QED BY <1>1, <2>1, <2>3 DEF Templates, Distinct
<1>3. CASE x.kind # "delete"
  <2>1. x.kind = "update" /\ x.form \in Question /\ x.saw \in Question BY <1>3, EditorHas
  <2>2. Saved(x, qs) = {Written(x, q) : q \in qs} BY <1>3 DEF Saved, Written
  <2>3. \A q \in qs : Written(x, q) \in Question /\ Written(x, q).id = q.id /\ Written(x, q).req = q.req
    <3> TAKE q \in qs
    <3>1. CASE q.id = x.saw.id
      <4>1. Written(x, q) = [x.form EXCEPT !.order = q.order] BY <3>1 DEF Written
      <4>2. q.order \in Nat \ {0} BY <1>1 DEF Question
      <4>3. /\ Written(x, q) \in Question
            /\ Written(x, q).id = x.form.id /\ Written(x, q).req = x.form.req
        BY <2>1, <4>1, <4>2, ZenonT(40) DEF Question
      <4> QED BY <2>1, <3>1, <4>3
    <3>2. CASE q.id # x.saw.id BY <1>1, <3>2 DEF Written
    <3> QED BY <3>1, <3>2
  <2>4. IsFiniteSet(Saved(x, qs))
    <3> DEFINE f == [q \in qs |-> Written(x, q)]
    <3>1. f = [q \in qs |-> f[q]] /\ Saved(x, qs) = {f[q] : q \in qs} BY <2>2
    <3> HIDE DEF f
    <3> QED BY <1>1, <3>1, FiniteImage
  <2>5. Distinct(Saved(x, qs)) BY <1>1, <2>2, <2>3 DEF Distinct
  <2>6. \A q \in qs : q.id # x.saw.id => q \in Saved(x, qs) BY <2>2 DEF Written
  <2>7. Saved(x, qs) \in SUBSET Question BY <2>2, <2>3
  <2> QED BY <2>2, <2>3, <2>4, <2>5, <2>6, <2>7 DEF Templates
<1> QED BY <1>2, <1>3

\* What a save does to the rows.
LEMMA SaveDoes ==
  ASSUME Inv, NEW e \in Editors, Save(e)
  PROVE  /\ editor[e] # Idle /\ editor[e].language \in Languages /\ editor' = [editor EXCEPT ![e] = Idle]
         /\ Seen(e) /\ editor[e] \in EditorType
         /\ rows' \in RowsType
         /\ \A l \in Languages :
              /\ rows'[l].status = rows[l].status
              /\ rows'[l].questions = IF l = editor[e].language THEN Saved(editor[e], rows[l].questions)
                                      ELSE rows[l].questions
         /\ Saved(editor[e], rows[editor[e].language].questions) \in Templates
<1>1. editor[e] # Idle /\ editor[e] \in EditorType /\ editor' = [editor EXCEPT ![e] = Idle] /\ Seen(e)
  BY DEF Save, Inv
<1> PICK k : k = editor[e].language OBVIOUS
<1>2. k \in Languages BY <1>1, EditorHas
<1> PICK qs : qs = Saved(editor[e], rows[k].questions) OBVIOUS
<1>3. qs \in Templates
  <2>1. rows[k].questions \in Templates BY <1>2, StoredHas
  <2>2. \A q \in rows[k].questions : q.id = editor[e].saw.id => q.req = editor[e].saw.req
    BY <1>1 DEF Seen
  <2>3. editor[e].kind = "update" =>
          editor[e].form.id = editor[e].saw.id /\ editor[e].form.req = editor[e].saw.req
    BY <1>1 DEF Seen
  <2> QED BY <1>1, <2>1, <2>2, <2>3, SavedIs
<1>4. rows' = [rows EXCEPT ![k] = [rows[k] EXCEPT !.questions = qs]] BY DEF Save
<1>5. rows \in RowsType BY DEF Inv
<1>6. rows' \in RowsType BY <1>2, <1>3, <1>4, <1>5 DEF RowsType
<1>7. \A l \in Languages :
        /\ rows'[l].status = rows[l].status
        /\ rows'[l].questions = IF l = k THEN qs ELSE rows[l].questions
  BY <1>2, <1>4, <1>5 DEF RowsType
<1> QED BY <1>1, <1>2, <1>3, <1>6, <1>7

LEMMA SaveInv ==
  ASSUME Inv, NEW e \in Editors, Save(e) PROVE Inv'
<1>1. \A l \in Languages : \A q \in rows'[l].questions :
        \E p \in rows[l].questions : p.id = q.id /\ p.req = q.req
  <2> TAKE l \in Languages
  <2>1. CASE l = editor[e].language
    <3>1. rows[l].questions \in Templates BY StoredHas
    <3>2. rows'[l].questions = Saved(editor[e], rows[l].questions) BY <2>1, SaveDoes
    <3>3. \A q \in rows[l].questions : q.id = editor[e].saw.id => q.req = editor[e].saw.req
      BY <2>1, SaveDoes DEF Seen
    <3>4. editor[e].kind = "update" =>
            editor[e].form.id = editor[e].saw.id /\ editor[e].form.req = editor[e].saw.req
      BY SaveDoes DEF Seen
    <3>5. editor[e] \in EditorType /\ editor[e] # Idle BY SaveDoes
    <3> QED BY <3>1, <3>2, <3>3, <3>4, <3>5, SavedIs
  <2>2. CASE l # editor[e].language BY <2>2, SaveDoes
  <2> QED BY <2>1, <2>2
<1>2. \A l \in Languages : ~Exists(l)' => rows'[l].questions = {}
  <2> SUFFICES ASSUME NEW l \in Languages, ~Exists(l)', NEW q \in rows'[l].questions PROVE FALSE
    OBVIOUS
  <2>1. ~Exists(l) BY SaveDoes DEF Exists
  <2> QED BY <1>1, <2>1 DEF Inv
<1>3. editor' \in [Editors -> EditorType] /\ \A f \in Editors : editor'[f] \in {editor[f], Idle}
  BY SaveDoes DEF Inv, EditorType
<1>4. rows' \in RowsType BY SaveDoes
<1>5. version' \in {"DRAFT", "PUBLISHED"} /\ UNCHANGED <<doc, nextId, task>> BY DEF Save, Inv
<1> QED BY <1>1, <1>2, <1>3, <1>4, <1>5, QuestionsStep

\* What a new order of one question does to the rows.
Placed(q, n) == [q EXCEPT !.order = n]
Reordered(l, q, p) ==
  /\ rows' \in RowsType
  /\ \A k \in Languages :
       /\ rows'[k].status = rows[k].status
       /\ rows'[k].questions = IF k = l THEN (rows[l].questions \ {q}) \union {p}
                               ELSE rows[k].questions

LEMMA ReorderDoes ==
  ASSUME Inv, NEW l \in Languages, ReorderQAQuestions(l)
  PROVE  \E q \in rows[l].questions, p \in Question :
           /\ p.id = q.id /\ p.req = q.req /\ p.asks = q.asks /\ p.conditional = q.conditional
           /\ Reordered(l, q, p)
<1>1. PICK q \in rows[l].questions, n \in 1 .. Cardinality(rows[l].questions) :
        rows' = [rows EXCEPT ![l].questions = (@ \ {q}) \union {[q EXCEPT !.order = n]}]
  BY DEF ReorderQAQuestions
<1> PICK old : old = rows[l].questions OBVIOUS
<1> PICK p : p = Placed(q, n) OBVIOUS
<1> PICK qs : qs = (old \ {q}) \union {p} OBVIOUS
<1>2. old \in Templates /\ q \in Question BY StoredHas DEF Templates
<1>3. n \in Nat \ {0}
  <2>1. Cardinality(old) \in Nat BY <1>2, FS_CardinalityType DEF Templates
  <2> QED BY <2>1
<1>4. p \in Question /\ p.id = q.id /\ p.req = q.req /\ p.asks = q.asks /\ p.conditional = q.conditional
  BY <1>2, <1>3 DEF Question, Placed
<1>5. qs \in Templates
  <2>1. IsFiniteSet(qs) BY <1>2, FS_RemoveElement, FS_AddElement DEF Templates
  <2>2. Distinct(qs) BY <1>2, <1>4 DEF Templates, Distinct
  <2> QED BY <1>2, <1>4, <2>1, <2>2 DEF Templates
<1>6. rows \in RowsType BY DEF Inv
<1>7. rows' = [rows EXCEPT ![l] = [rows[l] EXCEPT !.questions = qs]] BY <1>1 DEF Placed
<1>8. rows' \in RowsType BY <1>5, <1>6, <1>7 DEF RowsType
<1>9. \A k \in Languages :
        /\ rows'[k].status = rows[k].status
        /\ rows'[k].questions = IF k = l THEN qs ELSE rows[k].questions
  BY <1>6, <1>7 DEF RowsType
<1>10. Reordered(l, q, p) BY <1>8, <1>9 DEF Reordered
<1> QED BY <1>4, <1>10

LEMMA ReorderQAQuestionsInv ==
  ASSUME Inv, NEW l \in Languages, ReorderQAQuestions(l) PROVE Inv'
<1>1. PICK q \in rows[l].questions, p \in Question :
        p.id = q.id /\ p.req = q.req /\ Reordered(l, q, p)
  BY ReorderDoes
<1>2. \A k \in Languages : \A r \in rows'[k].questions :
        \E s \in rows[k].questions : s.id = r.id /\ s.req = r.req
  BY <1>1 DEF Reordered
<1>3. \A k \in Languages : ~Exists(k)' => rows'[k].questions = {}
  <2> SUFFICES ASSUME NEW k \in Languages, ~Exists(k)', NEW r \in rows'[k].questions PROVE FALSE
    OBVIOUS
  <2>1. ~Exists(k) BY <1>1 DEF Exists, Reordered
  <2> QED BY <1>2, <2>1 DEF Inv
<1>4. /\ editor' \in [Editors -> EditorType] /\ \A f \in Editors : editor'[f] \in {editor[f], Idle}
      /\ version' \in {"DRAFT", "PUBLISHED"} /\ UNCHANGED <<doc, nextId, task>>
  BY DEF ReorderQAQuestions, Inv
<1>5. rows' \in RowsType BY <1>1 DEF Reordered
<1> QED BY <1>2, <1>3, <1>4, <1>5, QuestionsStep

\* A step that changes the status of stored templates only.
LEMMA StatusStep ==
  ASSUME Inv, rows' \in RowsType,
         \A l \in Languages : rows'[l].questions = rows[l].questions /\ (Exists(l) => Exists(l)'),
         version' \in {"DRAFT", "PUBLISHED"}, UNCHANGED <<doc, nextId, task, editor>>
  PROVE  Inv'
<1>1. \A l \in Languages : ~Exists(l)' => rows'[l].questions = {} BY DEF Inv
<1>2. editor' \in [Editors -> EditorType] /\ \A f \in Editors : editor'[f] \in {editor[f], Idle}
  BY DEF Inv
<1> QED BY <1>1, <1>2, QuestionsStep

LEMMA SetStatusDoes ==
  ASSUME Inv, NEW l \in Languages, NEW status \in Statuses, SetQATemplateStatus(l, status)
  PROVE  /\ rows' \in RowsType
         /\ \A k \in Languages : rows'[k].questions = rows[k].questions /\ (Exists(k) => Exists(k)')
<1>1. rows' = [rows EXCEPT ![l] = [rows[l] EXCEPT !.status = status]] BY DEF SetQATemplateStatus
<1>2. rows \in RowsType BY DEF Inv
<1>3. status # "none" BY DEF Statuses
<1>4. rows' \in RowsType BY <1>1, <1>2 DEF RowsType
<1> QED BY <1>1, <1>2, <1>3, <1>4 DEF RowsType, Exists

LEMMA PublishDoes ==
  ASSUME Inv, Publish
  PROVE  /\ rows' \in RowsType
         /\ \A k \in Languages : rows'[k].questions = rows[k].questions /\ (Exists(k) => Exists(k)')
<1>1. rows' = [l \in Languages |-> IF Exists(l) THEN [rows[l] EXCEPT !.status = "ready"] ELSE NoRow]
  BY DEF Publish
<1>2. rows \in RowsType /\ \A l \in Languages : ~Exists(l) => rows[l].questions = {} BY DEF Inv
<1>3. ASSUME NEW l \in Languages
      PROVE  /\ rows'[l] \in [status : Statuses \union {"none"}, questions : Templates]
             /\ rows'[l].questions = rows[l].questions /\ (Exists(l) => rows'[l].status # "none")
  <2>1. CASE Exists(l)
    <3>1. rows'[l] = [rows[l] EXCEPT !.status = "ready"] BY <1>1, <2>1
    <3>2. rows[l] \in [status : Statuses \union {"none"}, questions : Templates] BY <1>2 DEF RowsType
    <3> QED BY <3>1, <3>2 DEF Statuses
  <2>2. CASE ~Exists(l)
    <3>1. rows'[l] = NoRow BY <1>1, <2>2
    <3> QED BY <1>2, <2>2, <3>1, NoTemplate DEF NoRow
  <2> QED BY <2>1, <2>2
<1>4. rows' \in RowsType BY <1>1, <1>3 DEF RowsType
<1> QED BY <1>3, <1>4 DEF Exists

LEMMA SetQATemplateStatusInv ==
  ASSUME Inv, NEW l \in Languages, NEW status \in Statuses, SetQATemplateStatus(l, status)
  PROVE  Inv'
<1>1. version' \in {"DRAFT", "PUBLISHED"} /\ UNCHANGED <<doc, nextId, task, editor>>
  BY DEF SetQATemplateStatus, Inv
<1> QED BY <1>1, SetStatusDoes, StatusStep

LEMMA PublishInv ==
  ASSUME Inv, Publish PROVE Inv'
<1>1. version' \in {"DRAFT", "PUBLISHED"} /\ UNCHANGED <<doc, nextId, task, editor>> BY DEF Publish
<1> QED BY <1>1, PublishDoes, StatusStep

\* What the write of a template does to the rows.
LEMMA PersistDoes ==
  ASSUME Inv, NEW t \in Tasks, PersistQATemplate(t)
  PROVE  /\ task[t].language \in Languages /\ task[t].questions \in Templates
         /\ task[t].kind = "persist" /\ task' = [task EXCEPT ![t] = Idle]
         /\ nextId' \in Nat \ {0} /\ nextId <= nextId'
         /\ \A p \in Renumbered(task[t].questions) : p.id \in nextId .. nextId' - 1
         /\ rows' \in RowsType
         /\ \A l \in Languages :
              IF l = task[t].language
              THEN rows'[l].questions = Renumbered(task[t].questions) /\ Exists(l)'
              ELSE rows'[l] = rows[l]
<1> PICK k, qs, st : k = task[t].language /\ qs = task[t].questions /\ st = task[t].status OBVIOUS
<1>1. /\ task[t].kind = "persist" /\ task' = [task EXCEPT ![t] = Idle]
      /\ nextId' = nextId + Cardinality(qs)
      /\ rows' = [rows EXCEPT ![k] = [status |-> st, questions |-> Renumbered(qs)]]
  BY DEF PersistQATemplate
<1>2. k \in Languages /\ qs \in Templates /\ st \in Statuses BY <1>1, TaskHas DEF Inv
<1>3. nextId \in Nat \ {0} /\ rows \in RowsType BY DEF Inv, Handed
<1>4. Cardinality(qs) \in Nat BY <1>2, FS_CardinalityType DEF Templates
<1>5. /\ Renumbered(qs) \in Templates
      /\ \A p \in Renumbered(qs) : p.id \in nextId .. nextId + Cardinality(qs) - 1
  BY <1>2, <1>3, RenumberedIs
<1>6. rows' \in RowsType BY <1>1, <1>2, <1>3, <1>5 DEF RowsType
<1>7. ASSUME NEW l \in Languages
      PROVE  IF l = k THEN rows'[l].questions = Renumbered(qs) /\ rows'[l].status = st
             ELSE rows'[l] = rows[l]
  BY <1>1, <1>2, <1>3 DEF RowsType
<1>8. st # "none" BY <1>2 DEF Statuses
<1>9. nextId' \in Nat \ {0} /\ nextId <= nextId' BY <1>1, <1>3, <1>4
<1>10. \A p \in Renumbered(qs) : p.id \in nextId .. nextId' - 1
  <2>1. nextId' - 1 = nextId + Cardinality(qs) - 1 BY <1>1, <1>3, <1>4
  <2> QED BY <1>5, <2>1
<1>11. \A l \in Languages : IF l = k THEN rows'[l].questions = Renumbered(qs) /\ Exists(l)'
                            ELSE rows'[l] = rows[l]
  BY <1>7, <1>8 DEF Exists
<1> QED BY <1>1, <1>2, <1>6, <1>9, <1>10, <1>11

LEMMA PersistQATemplateInv ==
  ASSUME Inv, NEW t \in Tasks, PersistQATemplate(t) PROVE Inv'
<1> PICK k, R : k = task[t].language /\ R = Renumbered(task[t].questions) OBVIOUS
<1>1. /\ k \in Languages /\ task' = [task EXCEPT ![t] = Idle]
      /\ nextId' \in Nat \ {0} /\ nextId <= nextId' /\ nextId \in Nat \ {0}
      /\ \A p \in R : p.id \in nextId .. nextId' - 1
      /\ rows' \in RowsType
      /\ \A l \in Languages : IF l = k THEN rows'[l].questions = R /\ Exists(l)'
                              ELSE rows'[l] = rows[l]
  BY PersistDoes DEF Inv, Handed
<1>2. version' = version /\ doc' = doc /\ editor' = editor BY DEF PersistQATemplate
<1>3. task' \in [Tasks -> TaskType] BY <1>1 DEF Inv, TaskType
<1>4. \A s \in Tasks : task'[s].kind = "append" => \A q \in task'[s].questions : q.id \in Nat
  BY <1>1 DEF Inv, Idle
<1>5. \A l \in Languages : ~Exists(l)' => rows'[l].questions = {} BY <1>1 DEF Inv, Exists
<1>6. Handed'
  <2>1. \A l \in Languages : \A q \in rows[l].questions : q.id \in 1 .. nextId - 1
    BY DEF Inv, Handed
  <2>2. ASSUME NEW l \in Languages, NEW q \in rows'[l].questions PROVE q.id \in 1 .. nextId' - 1
    <3>1. CASE l = k BY <1>1, <3>1
    <3>2. CASE l # k
      <4>1. q.id \in 1 .. nextId - 1 BY <1>1, <2>1, <3>2
      <4> QED BY <1>1, <4>1
    <3> QED BY <3>1, <3>2
  <2>3. ASSUME NEW q \in rows'["canonical"].questions, NEW p \in rows'["translated"].questions
        PROVE  q.id # p.id
    <3>1. "canonical" \in Languages /\ "translated" \in Languages BY DEF Languages
    <3>2. CASE k = "canonical"
      <4>1. q \in R /\ p \in rows["translated"].questions BY <1>1, <3>1, <3>2
      <4> QED BY <1>1, <2>1, <3>1, <4>1
    <3>3. CASE k = "translated"
      <4>1. p \in R /\ q \in rows["canonical"].questions BY <1>1, <3>1, <3>3
      <4> QED BY <1>1, <2>1, <3>1, <4>1
    <3> QED BY <1>1, <3>2, <3>3 DEF Languages
  <2> QED BY <1>1, <2>2, <2>3 DEF Handed
<1>7. ASSUME NEW e \in Editors PROVE Seen(e)'
  <2>1. CASE editor[e] = Idle BY <1>2, <2>1 DEF Seen
  <2>2. CASE editor[e] # Idle
    <3>1. Seen(e) /\ editor[e].language \in Languages BY <2>2, EditorHas DEF Inv
    <3>2. editor[e].saw.id \in 1 .. nextId' - 1 BY <1>1, <2>2, <3>1 DEF Seen
    <3>3. ASSUME NEW q \in rows'[editor[e].language].questions, q.id = editor[e].saw.id
          PROVE  q.req = editor[e].saw.req
      <4>1. CASE editor[e].language = k
        <5>1. q \in R BY <1>1, <4>1
        <5>2. q.id \in nextId .. nextId' - 1 /\ q.id \in 1 .. nextId - 1
          BY <1>1, <2>2, <3>1, <3>3, <5>1 DEF Seen
        <5> QED BY <1>1, <5>2
      <4>2. CASE editor[e].language # k BY <1>1, <2>2, <3>1, <3>3, <4>2 DEF Seen
      <4> QED BY <4>1, <4>2
    <3> QED BY <1>2, <2>2, <3>1, <3>2, <3>3 DEF Seen
  <2> QED BY <2>1, <2>2
<1> QED BY <1>1, <1>2, <1>3, <1>4, <1>5, <1>6, <1>7 DEF Inv

LEMMA StepInv == Inv /\ [Next]_vars => Inv'
<1> SUFFICES ASSUME Inv, [Next]_vars PROVE Inv' OBVIOUS
<1>1. CASE UNCHANGED vars BY <1>1 DEF vars, Inv, Handed, Seen, Exists
<1>2. ASSUME NEW t \in Tasks, Task(t) PROVE Inv'
  BY <1>2, StartQATemplateJobInv, RunQAGenerationInv, AddRequirementInv, LoadForAppendInv,
     AppendQATemplateQuestionsInv, TranslateQATemplateInv, TranslateStringsInv,
     PersistQATemplateInv DEF Task
<1>3. ASSUME Console PROVE Inv'
  BY <1>3, UpdateQAQuestionInv, DeleteQAQuestionInv, SaveInv, ReorderQAQuestionsInv,
     SetQATemplateStatusInv, PublishInv DEF Console
<1> QED BY <1>1, <1>2, <1>3 DEF Next

LEMMA AlwaysInv == Spec => []Inv
  BY InitInv, StepInv, PTL DEF Spec

-----------------------------------------------------------------------------
(* What holds whoever edits *)

\* Every stored question has an id that was handed out, and no two questions,
\* whatever their language, share one.
THEOREM TypeCorrect == Spec => []TypeOK
<1>1. ASSUME Inv PROVE TypeOK
  <2> PICK A, B : A = rows["canonical"].questions /\ B = rows["translated"].questions OBVIOUS
  <2>1. \A l \in Languages :
          /\ rows[l].questions \in Templates /\ rows[l].status \in Statuses \union {"none"}
          /\ \A q \in rows[l].questions : q.id \in 1 .. nextId - 1
    BY <1>1, StoredHas
  <2>2. A \in Templates /\ B \in Templates BY <2>1 DEF Languages
  <2>3. /\ IsFiniteSet(Ids(A)) /\ Cardinality(Ids(A)) = Cardinality(A)
        /\ IsFiniteSet(Ids(B)) /\ Cardinality(Ids(B)) = Cardinality(B)
    BY <2>2, AsManyIds DEF Templates
  <2>4. Ids(A) \intersect Ids(B) = {}
    <3>1. \A q \in A, p \in B : q.id # p.id BY <1>1 DEF Inv, Handed
    <3> QED BY <3>1 DEF Ids
  <2>5. Cardinality(Ids(A) \union Ids(B)) = Cardinality(A) + Cardinality(B)
    <3>1. Cardinality({}) = 0 BY FS_EmptySet
    <3>2. Cardinality(A) \in Nat /\ Cardinality(B) \in Nat BY <2>3, FS_CardinalityType
    <3>3. Cardinality(Ids(A) \union Ids(B)) = Cardinality(A) + Cardinality(B) - Cardinality({})
      BY <2>3, <2>4, FS_Union
    <3> QED BY <3>1, <3>2, <3>3
  <2>6. \A l \in Languages : \A q \in rows[l].questions : q \in Question BY <2>1 DEF Templates
  <2> QED BY <1>1, <2>1, <2>5, <2>6 DEF TypeOK, Inv
<1> QED BY <1>1, AlwaysInv, PTL

\* A task or a console request other than a save leaves the open forms open.
LEMMA FormsStay ==
  ASSUME Inv, Next, NEW e \in Editors, editor[e] # Idle, editor'[e] = Idle
  PROVE  Save(e)
<1>1. editor \in [Editors -> EditorType] BY DEF Inv
<1>2. CASE UNCHANGED editor BY <1>2
<1>3. ASSUME NEW t \in Tasks, Task(t) PROVE UNCHANGED editor
  BY <1>3 DEF Task, StartQATemplateJob, RunQAGeneration, AddRequirement, LoadForAppend,
     AppendQATemplateQuestions, TranslateQATemplate, TranslateStrings, PersistQATemplate
<1>4. ASSUME NEW f \in Editors, NEW l \in Languages, UpdateQAQuestion(f, l) PROVE editor'[e] # Idle
  <2>1. editor[f] = Idle /\ f # e BY <1>4 DEF UpdateQAQuestion
  <2>2. PICK x : editor' = [editor EXCEPT ![f] = x] BY <1>4 DEF UpdateQAQuestion
  <2> QED BY <1>1, <2>1, <2>2
<1>5. ASSUME NEW f \in Editors, NEW l \in Languages, DeleteQAQuestion(f, l) PROVE editor'[e] # Idle
  <2>1. editor[f] = Idle /\ f # e BY <1>5 DEF DeleteQAQuestion
  <2>2. PICK x : editor' = [editor EXCEPT ![f] = x] BY <1>5 DEF DeleteQAQuestion
  <2> QED BY <1>1, <2>1, <2>2
<1>6. ASSUME NEW f \in Editors, Save(f), f # e PROVE editor'[e] # Idle
  <2>1. editor' = [editor EXCEPT ![f] = Idle] BY <1>6 DEF Save
  <2> QED BY <1>1, <1>6, <2>1
<1>7. CASE Console
  <2>1. ASSUME NEW l \in Languages, ReorderQAQuestions(l) PROVE UNCHANGED editor
    BY <2>1 DEF ReorderQAQuestions
  <2>2. ASSUME NEW l \in Languages, NEW status \in Statuses, SetQATemplateStatus(l, status)
        PROVE  UNCHANGED editor
    BY <2>2 DEF SetQATemplateStatus
  <2>3. ASSUME Publish PROVE UNCHANGED editor BY <2>3 DEF Publish
  <2> QED BY <1>2, <1>4, <1>5, <1>6, <1>7, <2>1, <2>2, <2>3 DEF Console
<1> QED BY <1>2, <1>3, <1>7 DEF Next

\* However many people edit and whatever is stored under their forms, an edit or
\* a deletion reaches only the question its form was opened on.
THEOREM EditsHit == Spec => EditHitsItsQuestion
<1>1. ASSUME Inv, [Next]_vars
      PROVE  [\A e \in Editors :
                editor[e] # Idle /\ editor'[e] = Idle =>
                  \A q \in rows[editor[e].language].questions \ rows'[editor[e].language].questions :
                    q.req = editor[e].saw.req /\ q.id = editor[e].saw.id]_vars
  <2>1. CASE UNCHANGED vars BY <2>1
  <2>2. CASE Next
    <3> SUFFICES ASSUME NEW e \in Editors, editor[e] # Idle, editor'[e] = Idle,
                        NEW q \in rows[editor[e].language].questions,
                        q \notin rows'[editor[e].language].questions
                 PROVE  q.req = editor[e].saw.req /\ q.id = editor[e].saw.id
      OBVIOUS
    <3> PICK l, x : l = editor[e].language /\ x = editor[e] OBVIOUS
    <3>1. Save(e) BY <1>1, <2>2, FormsStay
    <3>2. l \in Languages /\ Seen(e) /\ x \in EditorType /\ x # Idle
          /\ rows'[l].questions = Saved(x, rows[l].questions)
      BY <1>1, <3>1, SaveDoes
    <3>3. rows[l].questions \in Templates BY <1>1, <3>2, StoredHas
    <3>4. /\ \A p \in rows[l].questions : p.id = x.saw.id => p.req = x.saw.req
          /\ x.kind = "update" => x.form.id = x.saw.id /\ x.form.req = x.saw.req
      BY <3>2 DEF Seen
    <3>5. \A p \in rows[l].questions : p.id # x.saw.id => p \in Saved(x, rows[l].questions)
      BY <3>2, <3>3, <3>4, SavedIs
    <3>6. q.id = x.saw.id BY <3>2, <3>5
    <3> QED BY <3>4, <3>6
  <2> QED BY <1>1, <2>1, <2>2
<1> QED BY <1>1, AlwaysInv, PTL DEF Spec, EditHitsItsQuestion

\* Whatever the model answers, a generation that has something to write covers
\* every requirement of the document it started from.
THEOREM GenerationsCover == Spec => GenerationCovers
<1>1. ASSUME Inv, [Next]_vars
      PROVE  [\A t \in Tasks :
                task[t].kind = "generate" /\ task'[t].kind = "persist" =>
                  \A r \in task[t].doc : Covered(r, task'[t].questions)]_vars
  <2>1. CASE UNCHANGED vars BY <2>1
  <2>2. CASE Next
    <3> SUFFICES ASSUME NEW t \in Tasks, task[t].kind = "generate", task'[t].kind = "persist"
                 PROVE  \A r \in task[t].doc : Covered(r, task'[t].questions)
      OBVIOUS
    <3>1. task \in [Tasks -> TaskType] BY <1>1 DEF Inv
    <3>2. task'[t] # task[t] OBVIOUS
    <3>3. ASSUME Console PROVE UNCHANGED task
      BY <3>3 DEF Console, UpdateQAQuestion, DeleteQAQuestion, Save, ReorderQAQuestions,
         SetQATemplateStatus, Publish
    <3>4. PICK s \in Tasks : Task(s) BY <2>2, <3>2, <3>3 DEF Next
    <3>5. PICK x : task' = [task EXCEPT ![s] = x]
      BY <3>4 DEF Task, StartQATemplateJob, RunQAGeneration, AddRequirement, LoadForAppend,
         AppendQATemplateQuestions, TranslateQATemplate, TranslateStrings, PersistQATemplate
    <3>6. s = t BY <3>1, <3>2, <3>5
    <3>7. RunQAGeneration(t)
      BY <3>4, <3>6 DEF Task, StartQATemplateJob, AddRequirement, LoadForAppend,
         AppendQATemplateQuestions, TranslateQATemplate, TranslateStrings, PersistQATemplate, Idle
    <3>8. PICK y \in TaskType : /\ task' = [task EXCEPT ![t] = y]
                                /\ y = Idle \/ /\ y.kind = "persist"
                                               /\ \A r \in task[t].doc : Covered(r, y.questions)
      BY <1>1, <3>7, GenerationMakes
    <3>9. task'[t] = y BY <3>1, <3>8
    <3> QED BY <3>8, <3>9 DEF Idle
  <2> QED BY <1>1, <2>1, <2>2
<1> QED BY <1>1, AlwaysInv, PTL DEF Spec, GenerationCovers

-----------------------------------------------------------------------------
(* Templates that can be walked *)

LEMMA ValidWalks == ASSUME NEW qs, Validate(qs) PROVE Walkable(qs)
  BY DEF Validate, Walkable

LEMMA EmptyWalks == Walkable({})
  BY DEF Walkable, FollowUpsResolveIn, ConditionalsReachedIn, Targets, Ids

\* The same walk: the same questions but for text, order and requirement.
SameWalk(q, p) == q.id = p.id /\ q.asks = p.asks /\ q.conditional = p.conditional
SameWalks(qs, ps) ==
  /\ \A q \in qs : \E p \in ps : SameWalk(q, p)
  /\ \A p \in ps : \E q \in qs : SameWalk(q, p)

LEMMA WalksAlike ==
  ASSUME NEW qs, NEW ps, SameWalks(qs, ps), Walkable(qs) PROVE Walkable(ps)
<1>1. Ids(qs) = Ids(ps) BY DEF SameWalks, SameWalk, Ids
<1>2. Targets(qs) = Targets(ps) BY DEF SameWalks, SameWalk, Targets
<1>3. \A p \in ps : p.conditional => p.id \in Targets(qs)
  <2> TAKE p \in ps
  <2>1. PICK q \in qs : SameWalk(q, p) BY DEF SameWalks
  <2> QED BY <2>1 DEF SameWalk, Walkable, ConditionalsReachedIn
<1> QED BY <1>1, <1>2, <1>3 DEF Walkable, FollowUpsResolveIn, ConditionalsReachedIn

\* A form is saved over questions that are walked the same way.
LEMMA SavedAlike ==
  ASSUME NEW qs, NEW ps, SameWalks(qs, ps), NEW x \in EditorType, x # Idle
  PROVE  SameWalks(Saved(x, qs), Saved(x, ps))
<1>1. CASE x.kind = "delete"
  BY <1>1 DEF Saved, SameWalks, SameWalk
<1>2. CASE x.kind # "delete"
  <2>1. x.form \in Question BY <1>2, EditorHas
  <2>2. Saved(x, qs) = {Written(x, q) : q \in qs} /\ Saved(x, ps) = {Written(x, p) : p \in ps}
    BY <1>2 DEF Saved, Written
  <2>3. ASSUME NEW q, NEW p, SameWalk(q, p) PROVE SameWalk(Written(x, q), Written(x, p))
    <3>1. q.id = p.id BY <2>3 DEF SameWalk
    <3>2. CASE q.id = x.saw.id
      <4>1. /\ Written(x, q) = [x.form EXCEPT !.order = q.order]
            /\ Written(x, p) = [x.form EXCEPT !.order = p.order]
        BY <3>1, <3>2 DEF Written
      <4>2. \A n : LET f == [x.form EXCEPT !.order = n]
                   IN  f.id = x.form.id /\ f.asks = x.form.asks /\ f.conditional = x.form.conditional
        BY <2>1 DEF Question
      <4> QED BY <4>1, <4>2 DEF SameWalk
    <3>3. CASE q.id # x.saw.id BY <2>3, <3>1, <3>3 DEF Written
    <3> QED BY <3>2, <3>3
  <2> HIDE DEF Written
  <2>4. \A q \in Saved(x, qs) : \E p \in Saved(x, ps) : SameWalk(q, p)
    BY <2>2, <2>3 DEF SameWalks
  <2>5. \A p \in Saved(x, ps) : \E q \in Saved(x, qs) : SameWalk(q, p)
    BY <2>2, <2>3 DEF SameWalks
  <2> QED BY <2>4, <2>5 DEF SameWalks
<1> QED BY <1>1, <1>2

LEMMA InitWalked == Init => Walked
<1> SUFFICES ASSUME Init PROVE Walked OBVIOUS
<1>1. \A l \in Languages : rows[l].questions = {} BY DEF Init, NoRow
<1>2. \A t \in Tasks : task[t].kind = "none" BY DEF Init, Idle
<1>3. \A e \in Editors : editor[e] = Idle BY DEF Init
<1> QED BY <1>1, <1>2, <1>3, EmptyWalks DEF Walked

\* A step that only changes what one task has in memory.
LEMMA TaskStepWalked ==
  ASSUME Inv, Walked, NEW t \in Tasks, NEW x, task' = [task EXCEPT ![t] = x],
         x.kind \in {"translate", "persist"} => Walkable(x.questions),
         UNCHANGED <<rows, editor>>
  PROVE  Walked'
<1>1. \A s \in Tasks : task'[s].kind \in {"translate", "persist"} => Walkable(task'[s].questions)
  BY DEF Inv, Walked
<1> QED BY <1>1 DEF Walked

LEMMA TaskWalked ==
  ASSUME Inv, Walked, NEW t \in Tasks, Task(t), ~PersistQATemplate(t)
  PROVE  Walked'
<1>1. ASSUME StartQATemplateJob(t) PROVE Walked'
  <2> PICK x : x = [kind |-> "generate", doc |-> doc] OBVIOUS
  <2>1. task' = [task EXCEPT ![t] = x] /\ UNCHANGED <<rows, editor>> BY <1>1 DEF StartQATemplateJob
  <2>2. x.kind \notin {"translate", "persist"} OBVIOUS
  <2> QED BY <2>1, <2>2, TaskStepWalked
<1>2. ASSUME RunQAGeneration(t) PROVE Walked'
  <2>1. PICK x \in TaskType : /\ task' = [task EXCEPT ![t] = x]
                              /\ x = Idle \/ (x.kind = "persist" /\ Validate(x.questions))
    BY <1>2, GenerationMakes
  <2>2. x.kind \in {"translate", "persist"} => Walkable(x.questions) BY <2>1, ValidWalks DEF Idle
  <2>3. UNCHANGED <<rows, editor>> BY <1>2 DEF RunQAGeneration
  <2> QED BY <2>1, <2>2, <2>3, TaskStepWalked
<1>3. ASSUME NEW r \in Requirements, AddRequirement(t, r) PROVE Walked'
  <2> PICK x : x = [kind |-> "added", req |-> r] OBVIOUS
  <2>1. task' = [task EXCEPT ![t] = x] /\ UNCHANGED <<rows, editor>> BY <1>3 DEF AddRequirement
  <2>2. x.kind \notin {"translate", "persist"} OBVIOUS
  <2> QED BY <2>1, <2>2, TaskStepWalked
<1>4. ASSUME LoadForAppend(t) PROVE Walked'
  <2> PICK row : row = rows["canonical"] OBVIOUS
  <2> PICK x : x = IF Exists("canonical") /\ ~Covered(task[t].req, row.questions)
                   THEN [kind |-> "append", req |-> task[t].req, questions |-> row.questions,
                         status |-> row.status]
                   ELSE Idle
    OBVIOUS
  <2>1. task' = [task EXCEPT ![t] = x] /\ UNCHANGED <<rows, editor>> BY <1>4 DEF LoadForAppend
  <2>2. x.kind \notin {"translate", "persist"} BY DEF Idle
  <2> QED BY <2>1, <2>2, TaskStepWalked
<1>5. ASSUME AppendQATemplateQuestions(t) PROVE Walked'
  <2>1. PICK x \in TaskType : /\ task' = [task EXCEPT ![t] = x]
                              /\ x = Idle \/ (x.kind = "persist" /\ Validate(x.questions))
    BY <1>5, AppendMakes
  <2>2. x.kind \in {"translate", "persist"} => Walkable(x.questions) BY <2>1, ValidWalks DEF Idle
  <2>3. UNCHANGED <<rows, editor>> BY <1>5 DEF AppendQATemplateQuestions
  <2> QED BY <2>1, <2>2, <2>3, TaskStepWalked
<1>6. ASSUME TranslateQATemplate(t) PROVE Walked'
  <2> PICK row : row = rows["canonical"] OBVIOUS
  <2> PICK x : x = [kind |-> "translate", questions |-> row.questions, status |-> row.status] OBVIOUS
  <2>1. task' = [task EXCEPT ![t] = x] /\ UNCHANGED <<rows, editor>> BY <1>6 DEF TranslateQATemplate
  <2>2. Walkable(x.questions) BY DEF Walked, Languages
  <2> QED BY <2>1, <2>2, TaskStepWalked
<1>7. ASSUME TranslateStrings(t) PROVE Walked'
  <2> PICK x : x = Persisting("translate", 0, "translated", task[t].questions, task[t].status) OBVIOUS
  <2>1. task' = [task EXCEPT ![t] = x] /\ UNCHANGED <<rows, editor>> BY <1>7 DEF TranslateStrings
  <2>2. x.questions = task[t].questions BY DEF Persisting
  <2>3. Walkable(x.questions) BY <1>7, <2>2 DEF Walked, TranslateStrings
  <2> QED BY <2>1, <2>3, TaskStepWalked
<1> QED BY <1>1, <1>2, <1>3, <1>4, <1>5, <1>6, <1>7 DEF Task

\* What is stored now comes from a template that was validated, or from one that
\* did; its ids are new to whoever has a form open.
LEMMA PersistWalked ==
  ASSUME Inv, Walked, NEW t \in Tasks, PersistQATemplate(t)
  PROVE  Walked'
<1> PICK k, R : k = task[t].language /\ R = Renumbered(task[t].questions) OBVIOUS
<1>1. /\ k \in Languages /\ task[t].questions \in Templates /\ task[t].kind = "persist"
      /\ task' = [task EXCEPT ![t] = Idle] /\ nextId \in Nat \ {0}
      /\ \A p \in R : p.id \in nextId .. nextId' - 1
      /\ \A l \in Languages : rows'[l].questions = IF l = k THEN R ELSE rows[l].questions
  BY PersistDoes DEF Inv, Handed
<1>2. Walkable(R) /\ R \in Templates BY <1>1, RenumberedIs DEF Walked
<1>3. editor' = editor /\ editor \in [Editors -> EditorType] BY DEF PersistQATemplate, Inv
<1>4. \A l \in Languages : Walkable(rows'[l].questions) BY <1>1, <1>2 DEF Walked
<1>5. \A s \in Tasks : task'[s].kind \in {"translate", "persist"} => Walkable(task'[s].questions)
  BY <1>1 DEF Inv, Walked, Idle
<1>6. ASSUME NEW e \in Editors, editor[e] # Idle
      PROVE  Walkable(Saved(editor[e], rows'[editor[e].language].questions))
  <2>1. editor[e].language \in Languages BY <1>3, <1>6, EditorHas
  <2>2. CASE editor[e].language = k
    <3>1. \A p \in R : p.id # editor[e].saw.id
      <4>1. editor[e].saw.id \in 1 .. nextId - 1 BY <1>6 DEF Inv, Seen
      <4>2. nextId' \in Int BY PersistDoes
      <4> QED BY <1>1, <4>1, <4>2
    <3>2. Saved(editor[e], R) = R
      <4>1. {q \in R : q.id # editor[e].saw.id} = R BY <3>1
      <4>2. {Written(editor[e], q) : q \in R} = R BY <3>1 DEF Written
      <4> QED BY <4>1, <4>2 DEF Saved, Written
    <3> QED BY <1>1, <1>2, <2>2, <3>2
  <2>3. CASE editor[e].language # k BY <1>1, <1>6, <2>1, <2>3 DEF Walked
  <2> QED BY <2>2, <2>3
<1> QED BY <1>3, <1>4, <1>5, <1>6 DEF Walked

\* A form is only opened when the template it would leave can be walked.
LEMMA FormWalked ==
  ASSUME Inv, Walked, NEW e \in Editors, NEW x, editor' = [editor EXCEPT ![e] = x],
         Walkable(Saved(x, rows[x.language].questions)), UNCHANGED <<rows, task>>
  PROVE  Walked'
<1>1. \A f \in Editors : editor'[f] # Idle =>
        Walkable(Saved(editor'[f], rows[editor'[f].language].questions))
  BY DEF Inv, Walked
<1> QED BY <1>1 DEF Walked

LEMMA UpdateQAQuestionWalked ==
  ASSUME Inv, Walked, NEW e \in Editors, NEW l \in Languages, UpdateQAQuestion(e, l)
  PROVE  Walked'
<1>1. PICK q \in rows[l].questions : \E form \in Forms(q, rows[l].questions) :
        /\ Validate((rows[l].questions \ {q}) \union {form})
        /\ editor' = [editor EXCEPT ![e] =
             [kind |-> "update", language |-> l, saw |-> q, form |-> form]]
  BY DEF UpdateQAQuestion
<1>2. PICK form \in Forms(q, rows[l].questions) :
        /\ Validate((rows[l].questions \ {q}) \union {form})
        /\ editor' = [editor EXCEPT ![e] =
             [kind |-> "update", language |-> l, saw |-> q, form |-> form]]
  BY <1>1
<1> PICK qs : qs = rows[l].questions OBVIOUS
<1> PICK x : x = [kind |-> "update", language |-> l, saw |-> q, form |-> form] OBVIOUS
<1>3. qs \in Templates /\ q \in Question BY StoredHas DEF Templates
<1>4. form \in Question /\ form.id = q.id /\ form.order = q.order BY <1>3, FormIs
<1>5. Saved(x, qs) = (qs \ {q}) \union {form}
  <2>1. x.kind # "delete" /\ x.saw = q /\ x.form = form OBVIOUS
  <2>2. Saved(x, qs) = {Written(x, p) : p \in qs} BY <2>1 DEF Saved, Written
  <2>3. Written(x, q) = form
    <3>1. Written(x, q) = [form EXCEPT !.order = form.order] BY <1>4, <2>1 DEF Written
    <3> QED BY <1>4, <3>1 DEF Question
  <2>4. \A p \in qs \ {q} : Written(x, p) = p
    <3>1. \A p \in qs \ {q} : p.id # q.id BY <1>3 DEF Templates, Distinct
    <3> QED BY <2>1, <3>1 DEF Written
  <2> QED BY <2>2, <2>3, <2>4
<1>6. Walkable(Saved(x, rows[x.language].questions)) BY <1>2, <1>5, ValidWalks
<1> QED BY <1>2, <1>6, FormWalked DEF UpdateQAQuestion

LEMMA DeleteQAQuestionWalked ==
  ASSUME Inv, Walked, NEW e \in Editors, NEW l \in Languages, DeleteQAQuestion(e, l)
  PROVE  Walked'
<1>1. PICK q \in rows[l].questions :
        /\ rows[l].questions \ {q} # {} => Validate(rows[l].questions \ {q})
        /\ editor' = [editor EXCEPT ![e] = [kind |-> "delete", language |-> l, saw |-> q]]
  BY DEF DeleteQAQuestion
<1> PICK qs : qs = rows[l].questions OBVIOUS
<1> PICK x : x = [kind |-> "delete", language |-> l, saw |-> q] OBVIOUS
<1>2. Saved(x, qs) = qs \ {q}
  <2>1. \A p \in qs : p.id = q.id => p = q BY StoredHas DEF Templates, Distinct
  <2> QED BY <2>1 DEF Saved
<1>3. Walkable(qs \ {q}) BY <1>1, ValidWalks, EmptyWalks
<1>4. Walkable(Saved(x, rows[x.language].questions)) BY <1>2, <1>3
<1> QED BY <1>1, <1>4, FormWalked DEF DeleteQAQuestion

\* One editor: nobody else has a form open on what is saved.
LEMMA SaveWalked ==
  ASSUME Alone, Inv, Walked, NEW e \in Editors, Save(e)
  PROVE  Walked'
<1>1. \A l \in Languages : Walkable(rows'[l].questions) BY SaveDoes DEF Walked
<1>2. \A f \in Editors : editor'[f] = Idle BY SaveDoes DEF Alone, Inv
<1>3. task' = task BY DEF Save
<1> QED BY <1>1, <1>2, <1>3 DEF Walked

LEMMA ReorderWalked ==
  ASSUME Inv, Walked, NEW l \in Languages, ReorderQAQuestions(l)
  PROVE  Walked'
<1>1. PICK q \in rows[l].questions, p \in Question :
        /\ p.id = q.id /\ p.req = q.req /\ p.asks = q.asks /\ p.conditional = q.conditional
        /\ Reordered(l, q, p)
  BY ReorderDoes
<1>2. \A k \in Languages : SameWalks(rows[k].questions, rows'[k].questions)
  BY <1>1 DEF Reordered, SameWalks, SameWalk
<1>3. task' = task /\ editor' = editor BY DEF ReorderQAQuestions
<1>4. \A k \in Languages : Walkable(rows'[k].questions) BY <1>2, WalksAlike DEF Walked
<1>5. ASSUME NEW e \in Editors, editor[e] # Idle
      PROVE  Walkable(Saved(editor[e], rows'[editor[e].language].questions))
  <2>1. editor[e].language \in Languages /\ editor[e] \in EditorType BY <1>5, EditorHas DEF Inv
  <2>2. Walkable(Saved(editor[e], rows[editor[e].language].questions)) BY <1>5 DEF Walked
  <2> QED BY <1>2, <1>5, <2>1, <2>2, SavedAlike, WalksAlike
<1> QED BY <1>3, <1>4, <1>5 DEF Walked

\* The status of a template does not matter to a walk.
LEMMA StatusWalked ==
  ASSUME Inv, Walked, \A l \in Languages : rows'[l].questions = rows[l].questions,
         UNCHANGED <<task, editor>>
  PROVE  Walked'
<1>1. \A e \in Editors : editor[e] # Idle => editor[e].language \in Languages
  BY EditorHas DEF Inv
<1> QED BY <1>1 DEF Walked

LEMMA StepWalked ==
  ASSUME Alone, Inv, Walked, [Next]_vars
  PROVE  Walked'
<1>1. CASE UNCHANGED vars BY <1>1 DEF vars, Walked
<1>2. ASSUME NEW t \in Tasks, Task(t) PROVE Walked' BY <1>2, TaskWalked, PersistWalked
<1>3. ASSUME NEW l \in Languages, NEW status \in Statuses, SetQATemplateStatus(l, status)
      PROVE  Walked'
  <2>1. UNCHANGED <<task, editor>> BY <1>3 DEF SetQATemplateStatus
  <2> QED BY <1>3, <2>1, SetStatusDoes, StatusWalked
<1>4. ASSUME Publish PROVE Walked'
  <2>1. UNCHANGED <<task, editor>> BY <1>4 DEF Publish
  <2> QED BY <1>4, <2>1, PublishDoes, StatusWalked
<1>5. ASSUME Console PROVE Walked'
  BY <1>3, <1>4, <1>5, UpdateQAQuestionWalked, DeleteQAQuestionWalked, SaveWalked,
     ReorderWalked DEF Console
<1> QED BY <1>1, <1>2, <1>5 DEF Next

\* While one person edits at a time, every stored template can be walked,
\* whatever jobs replace it under the open form.
THEOREM TemplatesAreWalked ==
  ASSUME Alone
  PROVE  Spec => []FollowUpsResolve
<1>1. Init => Inv /\ Walked BY InitInv, InitWalked
<1>2. (Inv /\ Walked) /\ [Next]_vars => (Inv /\ Walked)' BY StepInv, StepWalked
<1>3. Inv /\ Walked => FollowUpsResolve BY DEF Walked, Walkable, FollowUpsResolve
<1> QED BY <1>1, <1>2, <1>3, PTL DEF Spec

=============================================================================
