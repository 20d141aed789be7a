--------------------------- MODULE AuditTemplates ---------------------------
(***************************************************************************)
(* The audit (QA) template of one framework version: generated from its    *)
(* requirements by a job, extended when a requirement is added by hand,    *)
(* translated, edited question by question in the console, and marked      *)
(* ready.  Every one of these loads the stored template, works on the copy *)
(* (the model may take minutes) and writes later, in a transaction that    *)
(* does not look at what was loaded.                                       *)
(*                                                                         *)
(* A template is a set of questions.  Text, types and rules are left out   *)
(* here (module AuditRules has them); what is kept is what the flow of an *)
(* audit depends on: identity, requirement, order in the section, the      *)
(* conditional flag, the follow-ups, and whether a person edited it.       *)
(***************************************************************************)
EXTENDS Integers, Sequences, FiniteSets

CONSTANTS
  Count,        \* the requirements are 1 .. Count, in document order
  Sections,
  CategoryOf,   \* requirement -> section
  Shapes,       \* the lists of questions the model may return for one of them
  Present,      \* the requirements the version starts with
  Editors,      \* people in the console
  Tasks,        \* requests and goroutines that call the model
  MaxStarts,    \* bound: tasks started
  MaxEdits      \* bound: edits, deletions, new orders and statuses accepted

Requirements == 1 .. Count
Languages == {"canonical", "translated"}
Statuses == {"draft", "ready"}

ASSUME AuditAssumption ==
  /\ Count \in Nat \ {0} /\ MaxStarts \in Nat /\ MaxEdits \in Nat
  /\ CategoryOf \in [Requirements -> Sections]
  /\ Present \subseteq Requirements
  /\ Shapes \subseteq Seq([conditional : BOOLEAN, asks : SUBSET Int]) \ {<<>>}

VARIABLES
  version,  \* status of the framework version
  doc,      \* its requirements
  rows,     \* qa_templates and qa_questions, per language
  nextId,   \* question ids are never used twice
  task,     \* what each task loaded and made
  editor,   \* the form each editor has open
  starts, edits  \* counters for MaxStarts and MaxEdits

vars == <<version, doc, rows, nextId, task, editor, starts, edits>>

NoRow == [status |-> "none", questions |-> {}]
Idle == [kind |-> "none"]

Init ==
  /\ version = "DRAFT" /\ doc = Present
  /\ rows = [l \in Languages |-> NoRow]
  /\ nextId = 1
  /\ task = [t \in Tasks |-> Idle] /\ editor = [e \in Editors |-> Idle]
  /\ starts = 0 /\ edits = 0

Exists(l) == rows[l].status # "none"
Ids(qs) == {q.id : q \in qs}
Covered(r, qs) == \E q \in qs : q.req = r
InSection(c, qs) == {q \in qs : CategoryOf[q.req] = c}

-----------------------------------------------------------------------------
(* Validation and assembly *)

Targets(qs) == UNION {q.asks : q \in qs}

FollowUpsResolveIn(qs) == Targets(qs) \subseteq Ids(qs)
ConditionalsReachedIn(qs) == \A q \in qs : q.conditional => q.id \in Targets(qs)
OrdersDistinctIn(qs) ==
  \A q, p \in qs : q # p /\ CategoryOf[q.req] = CategoryOf[p.req] => q.order # p.order

Validate(qs) ==
  /\ qs # {}
  /\ FollowUpsResolveIn(qs)
  /\ OrdersDistinctIn(qs)
  /\ ConditionalsReachedIn(qs)

\* The id a question has before it is stored, q-<requirement>-<position>: one
\* for each pair, and none that was handed out.
SchemaId(r, i) == - (Count * (i - 1) + r)

ResolveFollowUps(r, i, list) ==
  {SchemaId(r, n) : n \in (list[i].asks \intersect DOMAIN list) \ {i}}

ReconcileConditionals(qs) ==
  {[q EXCEPT !.conditional = @ /\ q.id \in Targets(qs)] : q \in qs}

BuildRequirementQuestions(r, base, list) ==
  ReconcileConditionals(
    {[id |-> SchemaId(r, i), req |-> r, order |-> base + i,
      conditional |-> list[i].conditional, asks |-> ResolveFollowUps(r, i, list),
      edited |-> FALSE] : i \in DOMAIN list})

\* Mutant of EnsureRequirementCoverage: no baseline question for what the model leaves empty twice.
EnsureCoverageByAsking(made, again) ==
  [r \in DOMAIN made |-> IF made[r] # <<>> THEN made[r] ELSE again[r]]

\* What the model left empty is asked once more, then given a baseline question.
Baseline == <<[conditional |-> FALSE, asks |-> {}]>>
EnsureRequirementCoverage(made, again) ==
  [r \in DOMAIN made |->
     IF made[r] # <<>> THEN made[r] ELSE IF again[r] # <<>> THEN again[r] ELSE Baseline]

\* The questions made for a requirement, and those its section has before them.
Positions(made, p) == {p} \X DOMAIN made[p]
Before(made, r) ==
  UNION {Positions(made, p) : p \in {p \in DOMAIN made : p < r /\ CategoryOf[p] = CategoryOf[r]}}

AssembleQATemplate(made) ==
  UNION {BuildRequirementQuestions(r, Cardinality(Before(made, r)), made[r]) : r \in DOMAIN made}

\* Mutant of Renumbered: questions that were stored before keep their id.
RenumberedNewOnly(qs) ==
  LET New(id) == IF id \in Ids(qs) /\ id < 0
                 THEN nextId + Cardinality({x \in Ids(qs) : x < id}) ELSE id
  IN  {[q EXCEPT !.id = New(@), !.asks = {New(x) : x \in @}] : q \in qs}

\* Mutant of Renumbered: ids count from one in every template.
RenumberedFromOne(qs) ==
  LET New(id) == IF id \in Ids(qs) THEN 1 + Cardinality({x \in Ids(qs) : x < id}) ELSE id
  IN  {[q EXCEPT !.id = New(@), !.asks = {New(x) : x \in @}] : q \in qs}

\* Mutant of Renumbered: follow-ups keep the ids they were written with.
RenumberedWithoutFollowUps(qs) ==
  {[q EXCEPT !.id = nextId + Cardinality({x \in Ids(qs) : x < q.id})] : q \in qs}

\* qaQuestionRows: every question gets a new id and follow-ups are rewritten.
\* An id that is not in the template is kept as it is.
Renumbered(qs) ==
  LET New(id) == IF id \in Ids(qs)
                 THEN nextId + Cardinality({x \in Ids(qs) : x < id}) ELSE id
  IN  {[q EXCEPT !.id = New(@), !.asks = {New(x) : x \in @}] : q \in qs}

-----------------------------------------------------------------------------
(* Tasks: load, ask the model, write *)

\* The template a task made is about to be written by persistQATemplate; the
\* status it will have depends on the version read at the start of the
\* transaction.
Persisting(kind, r, l, qs, status) ==
  [kind |-> "persist", from |-> kind, req |-> r, language |-> l, questions |-> qs,
   status |-> IF version = "PUBLISHED" THEN "ready" ELSE status]

StartQATemplateJob(t) ==
  /\ task[t] = Idle /\ doc # {} /\ starts < MaxStarts /\ starts' = starts + 1
  /\ task' = [task EXCEPT ![t] = [kind |-> "generate", doc |-> doc]]
  /\ UNCHANGED <<version, doc, rows, nextId, editor, edits>>

RunQAGeneration(t) ==
  /\ task[t].kind = "generate"
  /\ \E made, again \in [task[t].doc -> Shapes \union {<<>>}] :
       LET qs == AssembleQATemplate(EnsureRequirementCoverage(made, again))
       IN  /\ \A r \in DOMAIN made : made[r] # <<>> => again[r] = <<>>
           /\ task' = [task EXCEPT ![t] =
                IF Validate(qs) THEN Persisting("generate", 0, "canonical", qs, "draft")
                                ELSE Idle]
  /\ UNCHANGED <<version, doc, rows, nextId, editor, starts, edits>>

\* The handler adds the requirement, then appends its questions.
AddRequirement(t, r) ==
  /\ task[t] = Idle /\ version = "DRAFT" /\ r \notin doc
  /\ starts < MaxStarts /\ starts' = starts + 1
  /\ doc' = doc \union {r}
  /\ task' = [task EXCEPT ![t] = [kind |-> "added", req |-> r]]
  /\ UNCHANGED <<version, rows, nextId, editor, edits>>

LoadForAppend(t) ==
  /\ task[t].kind = "added"
  /\ LET row == rows["canonical"]
     IN  task' = [task EXCEPT ![t] =
           IF Exists("canonical") /\ ~Covered(task[t].req, row.questions)
           THEN [kind |-> "append", req |-> task[t].req, questions |-> row.questions,
                 status |-> row.status]
           ELSE Idle]
  /\ UNCHANGED <<version, doc, rows, nextId, editor, starts, edits>>

Appended(loaded, r, list) ==
  loaded \union BuildRequirementQuestions(
    r, Cardinality(InSection(CategoryOf[r], loaded)), list)

AppendQATemplateQuestions(t) ==
  /\ task[t].kind = "append"
  /\ \E list \in Shapes \union {Baseline} :
       LET qs == Appended(task[t].questions, task[t].req, list)
       IN  task' = [task EXCEPT ![t] =
             IF Validate(qs)
             THEN Persisting("append", task[t].req, "canonical", qs, task[t].status)
             ELSE Idle]
  /\ UNCHANGED <<version, doc, rows, nextId, editor, starts, edits>>

TranslateQATemplate(t) ==
  /\ task[t] = Idle /\ Exists("canonical")
  /\ starts < MaxStarts /\ starts' = starts + 1
  /\ LET row == rows["canonical"]
     IN  task' = [task EXCEPT ![t] =
           [kind |-> "translate", questions |-> row.questions, status |-> row.status]]
  /\ UNCHANGED <<version, doc, rows, nextId, editor, edits>>

TranslateStrings(t) ==
  /\ task[t].kind = "translate"
  /\ task' = [task EXCEPT ![t] =
       Persisting("translate", 0, "translated", task[t].questions, task[t].status)]
  /\ UNCHANGED <<version, doc, rows, nextId, editor, starts, edits>>

PersistQATemplate(t) ==
  /\ task[t].kind = "persist"
  /\ rows' = [rows EXCEPT ![task[t].language] =
       [status |-> task[t].status, questions |-> Renumbered(task[t].questions)]]
  /\ nextId' = nextId + Cardinality(task[t].questions)
  /\ task' = [task EXCEPT ![t] = Idle]
  /\ UNCHANGED <<version, doc, editor, starts, edits>>

-----------------------------------------------------------------------------
(* The console *)

\* The forms an editor may submit for a question: flags and follow-ups.
Filled(q, c, a) == [q EXCEPT !.conditional = c, !.asks = a, !.edited = TRUE]
Forms(q, qs) ==
  {Filled(q, c, a) : c \in BOOLEAN, a \in {{}} \union {{x} : x \in Ids(qs) \ {q.id}}}

UpdateQAQuestion(e, l) ==
  /\ editor[e] = Idle /\ edits < MaxEdits
  /\ \E q \in rows[l].questions : \E form \in Forms(q, rows[l].questions) :
       /\ Validate((rows[l].questions \ {q}) \union {form})
       /\ editor' = [editor EXCEPT ![e] =
            [kind |-> "update", language |-> l, saw |-> q, form |-> form]]
  /\ UNCHANGED <<version, doc, rows, nextId, task, starts, edits>>

DeleteQAQuestion(e, l) ==
  /\ editor[e] = Idle /\ edits < MaxEdits
  /\ \E q \in rows[l].questions :
       LET left == rows[l].questions \ {q}
       IN  /\ left # {} => Validate(left)
           /\ editor' = [editor EXCEPT ![e] = [kind |-> "delete", language |-> l, saw |-> q]]
  /\ UNCHANGED <<version, doc, rows, nextId, task, starts, edits>>

\* UPDATE and DELETE by template and question id: no row, no change, no error.
Saved(edit, qs) ==
  IF edit.kind = "delete" THEN {q \in qs : q.id # edit.saw.id}
  ELSE {IF q.id = edit.saw.id THEN [edit.form EXCEPT !.order = q.order] ELSE q : q \in qs}

Save(e) ==
  /\ editor[e] # Idle
  /\ rows' = [rows EXCEPT ![editor[e].language].questions = Saved(editor[e], @)]
  /\ editor' = [editor EXCEPT ![e] = Idle]
  /\ edits' = edits + 1
  /\ UNCHANGED <<version, doc, nextId, task, starts>>

\* The new orders are stored as they come, in one transaction.
ReorderQAQuestions(l) ==
  /\ edits < MaxEdits
  /\ \E q \in rows[l].questions, n \in 1 .. Cardinality(rows[l].questions) :
       rows' = [rows EXCEPT ![l].questions = (@ \ {q}) \union {[q EXCEPT !.order = n]}]
  /\ edits' = edits + 1
  /\ UNCHANGED <<version, doc, nextId, task, editor, starts>>

SetQATemplateStatus(l, status) ==
  /\ edits < MaxEdits /\ Exists(l)
  /\ rows' = [rows EXCEPT ![l].status = status]
  /\ edits' = edits + 1
  /\ UNCHANGED <<version, doc, nextId, task, editor, starts>>

\* PublishVersion marks the templates of every language ready.
Publish ==
  /\ version = "DRAFT"
  /\ version' = "PUBLISHED"
  /\ rows' = [l \in Languages |-> IF Exists(l) THEN [rows[l] EXCEPT !.status = "ready"] ELSE NoRow]
  /\ UNCHANGED <<doc, nextId, task, editor, starts, edits>>

-----------------------------------------------------------------------------

Task(t) ==
  \/ StartQATemplateJob(t) \/ RunQAGeneration(t)
  \/ \E r \in Requirements : AddRequirement(t, r)
  \/ LoadForAppend(t) \/ AppendQATemplateQuestions(t)
  \/ TranslateQATemplate(t) \/ TranslateStrings(t)
  \/ PersistQATemplate(t)

Console ==
  \/ \E e \in Editors :
       \/ \E l \in Languages : UpdateQAQuestion(e, l) \/ DeleteQAQuestion(e, l)
       \/ Save(e)
  \/ \E l \in Languages : ReorderQAQuestions(l)
  \/ \E l \in Languages, status \in Statuses : SetQATemplateStatus(l, status)
  \/ Publish

Next == Console \/ \E t \in Tasks : Task(t)

Spec == Init /\ [][Next]_vars

-----------------------------------------------------------------------------
(* Properties *)

Question == [id : Int, req : Requirements, order : Nat \ {0}, conditional : BOOLEAN,
             asks : SUBSET Int, edited : BOOLEAN]

\* A stored question has an id that was handed out, a template that was never
\* written has no questions, and no two questions of any language share an id.
TypeOK ==
  /\ version \in {"DRAFT", "PUBLISHED"} /\ doc \subseteq Requirements
  /\ \A l \in Languages :
       /\ rows[l].status \in Statuses \union {"none"}
       /\ ~Exists(l) => rows[l].questions = {}
       /\ \A q \in rows[l].questions : q \in Question /\ q.id \in 1 .. nextId - 1
  /\ Cardinality(Ids(rows["canonical"].questions) \union Ids(rows["translated"].questions)) =
       Cardinality(rows["canonical"].questions) + Cardinality(rows["translated"].questions)

\* A stored template can be walked: each follow-up leads to a question of the
\* same template and each conditional question has one that leads to it.  Holds
\* for one editor at a time, whatever jobs replace the template under the form
\* that editor has open (qa_edit_service.go:30-31).
FollowUpsResolve ==
  \A l \in Languages :
    /\ FollowUpsResolveIn(rows[l].questions)
    /\ ConditionalsReachedIn(rows[l].questions)

\* An edit or a deletion reaches only the question the editor was looking at:
\* when the template was replaced meanwhile it reaches none
\* (qa_template_service.go:657-664).
EditHitsItsQuestion ==
  [][\A e \in Editors :
       editor[e] # Idle /\ editor'[e] = Idle =>
         \A q \in rows[editor[e].language].questions \ rows'[editor[e].language].questions :
           q.req = editor[e].saw.req /\ q.id = editor[e].saw.id]_vars

\* A generation never stores a template that leaves out a requirement of the
\* document it started from (qa_template_service.go:289-292).
GenerationCovers ==
  [][\A t \in Tasks :
       task[t].kind = "generate" /\ task'[t].kind = "persist" =>
         \A r \in task[t].doc : Covered(r, task'[t].questions)]_vars

\* What structure_handler.go:84 promises: a requirement added by hand does not
\* leave an existing template without questions about it.
AddedRequirementIsAsked ==
  [][\A t \in Tasks :
       task[t].kind = "append" /\ task'[t] = Idle => Covered(task[t].req, rows["canonical"].questions)]_vars

\* What qa_template_service.go:175-176 promises of an append: the questions
\* that are there, and their edits, are preserved.
AppendKeepsEdits ==
  [][\A t \in Tasks :
       task[t].kind = "persist" /\ task[t].from = "append" /\ task'[t] = Idle =>
         \A q \in rows["canonical"].questions :
           q.edited => \E p \in rows'["canonical"].questions :
                         p.edited /\ p.req = q.req /\ p.order = q.order]_vars

\* What docs/GRC-INTEGRATION.md says of the languages of a template: everything
\* but the words is the same in each of them.
LanguagesAgree ==
  Exists("translated") =>
    {<<q.req, q.order, q.conditional>> : q \in rows["translated"].questions} =
    {<<q.req, q.order, q.conditional>> : q \in rows["canonical"].questions}

\* What qa_template_service.go:603-606 says: the template of a published
\* version is ready, with no further step.  Stated for runs without
\* SetQATemplateStatus (MaxEdits = 0).
PublishedTemplateReady ==
  version = "PUBLISHED" => \A l \in Languages : rows[l].status # "draft"
=============================================================================
