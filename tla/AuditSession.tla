---------------------------- MODULE AuditSession ----------------------------
(***************************************************************************)
(* One requirement's questions from the model's answer to an audit walked  *)
(* through in the console: built, checked, saved, and answered one after   *)
(* the other, each answer judged by the server and its follow-ups asked    *)
(* next (apps/registry/src/components/QAPreview.jsx keeps the queue).      *)
(***************************************************************************)
EXTENDS AuditRules

CONSTANTS
  Lists,      \* what the model may return
  Answers,    \* what the auditor may answer
  Conditions, \* conditions as their authors mean them, as trees
  MaxAnswers  \* bound: answers in a walk

VARIABLES
  list,       \* what the model returned
  template,   \* the questions built from it
  phase,      \* "returned", "built", "saved" or "refused"
  queue,      \* the ids still to ask
  transcript  \* what was answered and how it was judged

vars == <<list, template, phase, queue, transcript>>

Ids(qs) == [i \in DOMAIN qs |-> qs[i].id]
QuestionById(id) == template[SelectInSeq(template, LAMBDA q : q.id = id)]

Init ==
  /\ list \in Lists
  /\ template = <<>> /\ phase = "returned" /\ queue = <<>> /\ transcript = <<>>

Build ==
  /\ phase = "returned"
  /\ template' = BuildRequirementQuestions("r", 0, list)
  /\ phase' = "built"
  /\ UNCHANGED <<list, queue, transcript>>

Save ==
  /\ phase = "built"
  /\ IF ValidateTemplate(template)
     THEN phase' = "saved" /\ queue' = Ids(MainSequence(template))
     ELSE phase' = "refused" /\ queue' = <<>>
  /\ UNCHANGED <<list, template, transcript>>

\* The follow-ups that fired go to the front.  An answer that cannot be judged
\* leaves the question where it is.
Answer(a) ==
  /\ phase = "saved" /\ queue # <<>> /\ Len(transcript) < MaxAnswers
  /\ \E q \in {QuestionById(Head(queue))} : \E judged \in {Step(q, a)} :
       IF judged.ok
       THEN /\ queue' = judged.ask \o Tail(queue)
            /\ transcript' = Append(transcript,
                 [id |-> q.id, answer |-> a, verdict |-> judged.verdict])
       ELSE UNCHANGED <<queue, transcript>>
  /\ UNCHANGED <<list, template, phase>>

Restart ==
  /\ transcript # <<>>
  /\ queue' = Ids(MainSequence(template))
  /\ transcript' = <<>>
  /\ UNCHANGED <<list, template, phase>>

Next == Build \/ Save \/ Restart \/ \E a \in Answers : Answer(a)

Spec == Init /\ [][Next]_vars

-----------------------------------------------------------------------------
(* How a condition is written, with no more brackets than it needs *)

Sym(s) == Token(s, s)
Bracketed(toks) == <<Sym("(")>> \o toks \o <<Sym(")")>>

RECURSIVE Written(_)
Written(c) ==
  LET Side(t, ops) == IF t.op \in ops THEN Bracketed(Written(t)) ELSE Written(t)
  IN  CASE c.op = "or" -> Side(c.l, {}) \o <<Sym("or")>> \o Side(c.r, {"or"})
        [] c.op = "and" -> Side(c.l, {"or"}) \o <<Sym("and")>> \o Side(c.r, {"or", "and"})
        [] c.op \in {"in", "superset"} ->
             <<c.left, Token("keyword", c.op), Sym("[")>>
               \o FlattenSeq([i \in DOMAIN c.list |->
                    (IF i = 1 THEN <<>> ELSE <<Sym(",")>>) \o <<Token("string", c.list[i])>>])
               \o <<Sym("]")>>
        [] OTHER -> <<c.left, Token("op", c.op), c.right>>

\* And what it means of an answer: the definition the evaluator is held to.
RECURSIVE Holds(_, _)
Holds(c, a) ==
  CASE c.op = "or" -> Holds(c.l, a) \/ Holds(c.r, a)
    [] c.op = "and" -> Holds(c.l, a) /\ Holds(c.r, a)
    [] c.op = "in" -> a.answer \in Range(c.list)
    [] c.op = "superset" -> Range(c.list) \subseteq a.selected
    [] c.op = ">=" -> a.score >= NumberOf[c.right.text]
    [] c.op = "!=" -> a.answer # c.right.text
    [] OTHER -> a.answer = c.right.text

-----------------------------------------------------------------------------
(* Properties *)

\* Every answer got the verdict of the first rule, in the order of the model,
\* whose condition holds as its author meant it, whatever brackets were left
\* out and whatever rules around it were thrown away as malformed.
VerdictFollowsRules ==
  \A k \in DOMAIN transcript :
    LET t == transcript[k]
        sound == SelectSeq(list[t.id[2]].rules, LAMBDA r :
                   r.verdict \in Verdicts /\ \E c \in Conditions : Written(c) = r.when)
        first == SelectInSeq(sound, LAMBDA r :
                   \E c \in Conditions : Written(c) = r.when /\ Holds(c, t.answer))
    IN  t.verdict = IF first = 0 THEN "" ELSE sound[first].verdict

\* Whatever the model returned, the questions built from it pass the check that
\* stands before saving, unless a branch depends on a variable that does not
\* exist: the answers already paid for are not lost to a slip of the model.
BuiltAuditIsValid ==
  phase = "refused" =>
    \E i \in DOMAIN template : \E f \in Range(template[i].followUps) : ~CheckVars(f.when)

\* What src/pkg/registry/qa_template_service.go:535 says, "better to lose one
\* branch than fail the whole generation".  The code fails it: a branch is
\* dropped when its condition does not parse, but the variables in it are only
\* looked at by the check that refuses the whole template.
BranchNeverSinks == phase # "refused"
=============================================================================
