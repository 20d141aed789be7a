----------------------------- MODULE AuditRules -----------------------------
(***************************************************************************)
(* The audit engine (src/pkg/fwqa) and the assembly of a template from the *)
(* answers of a model: the language of the conditions in rules and         *)
(* follow-ups, the verdict an answer gets and what it triggers, the check  *)
(* a template must pass, and the repairs made so that what a model returns *)
(* passes it.                                                              *)
(*                                                                         *)
(* A condition is a sequence of tokens; how characters make tokens is left *)
(* out.  Errors carry no text.                                             *)
(***************************************************************************)
EXTENDS Integers, Sequences, FiniteSets, SequencesExt

CONSTANT NumberOf   \* the value of each number token that ParseFloat accepts

Token(kind, text) == [kind |-> kind, text |-> text]
End == Token("end", "")

-----------------------------------------------------------------------------
(* Parsing: a recursive descent over tokens.  A parser returns what it read *)
(* and the position after it, or fails.                                     *)

Good(node, pos) == [ok |-> TRUE, node |-> node, pos |-> pos]
Bad == [ok |-> FALSE]
Then(read, Continue(_)) == IF read.ok THEN Continue(read) ELSE Bad

Cur(toks, p) == IF p <= Len(toks) THEN toks[p] ELSE End
Is(toks, p, kind) == Cur(toks, p).kind = kind

ParseValue(toks, p) ==
  IF Cur(toks, p).kind \in {"ident", "number", "string"}
  THEN Good(Cur(toks, p), p + 1) ELSE Bad

RECURSIVE ParseItems(_, _, _)
ParseItems(toks, p, items) ==
  IF Is(toks, p, "]") THEN Good(items, p + 1)
  ELSE IF ~Is(toks, p, "string") THEN Bad
  ELSE LET more == Append(items, Cur(toks, p).text)
       IN  CASE Is(toks, p + 1, ",") -> ParseItems(toks, p + 2, more)
             [] Is(toks, p + 1, "]") -> Good(more, p + 2)
             [] OTHER -> Bad

ParseList(toks, p) == IF Is(toks, p, "[") THEN ParseItems(toks, p + 1, <<>>) ELSE Bad

RECURSIVE ParseOr(_, _), ParseCmp(_, _)
RECURSIVE AndsAfter(_, _), OrsAfter(_, _)

ParseComparison(toks, left) ==
  LET op == Cur(toks, left.pos)
  IN  CASE op.kind = "keyword" ->
             Then(ParseList(toks, left.pos + 1), LAMBDA list :
               Good([op |-> op.text, left |-> left.node, list |-> list.node], list.pos))
        [] op.kind = "op" ->
             Then(ParseValue(toks, left.pos + 1), LAMBDA right :
               Good([op |-> op.text, left |-> left.node, right |-> right.node], right.pos))
        [] OTHER -> Bad

ParseCmp(toks, p) ==
  IF Is(toks, p, "(")
  THEN Then(ParseOr(toks, p + 1), LAMBDA inner :
         IF Is(toks, inner.pos, ")") THEN Good(inner.node, inner.pos + 1) ELSE Bad)
  ELSE Then(ParseValue(toks, p), LAMBDA left : ParseComparison(toks, left))

AndsAfter(toks, left) ==
  IF Is(toks, left.pos, "and")
  THEN Then(ParseCmp(toks, left.pos + 1), LAMBDA right :
         AndsAfter(toks, Good([op |-> "and", l |-> left.node, r |-> right.node], right.pos)))
  ELSE left

ParseAnd(toks, p) == Then(ParseCmp(toks, p), LAMBDA left : AndsAfter(toks, left))

OrsAfter(toks, left) ==
  IF Is(toks, left.pos, "or")
  THEN Then(ParseAnd(toks, left.pos + 1), LAMBDA right :
         OrsAfter(toks, Good([op |-> "or", l |-> left.node, r |-> right.node], right.pos)))
  ELSE left

\* Mutant of ParseOr: both operators at one level, read from the left.
RECURSIVE MixedAfter(_, _)
MixedAfter(toks, left) ==
  IF Cur(toks, left.pos).kind \in {"or", "and"}
  THEN Then(ParseCmp(toks, left.pos + 1), LAMBDA right :
         MixedAfter(toks, Good([op |-> Cur(toks, left.pos).kind,
                                l |-> left.node, r |-> right.node], right.pos)))
  ELSE left
ParseFlat(toks, p) == Then(ParseCmp(toks, p), LAMBDA left : MixedAfter(toks, left))

ParseOr(toks, p) == Then(ParseAnd(toks, p), LAMBDA left : OrsAfter(toks, left))

Parse(toks) ==
  Then(ParseOr(toks, 1), LAMBDA e : IF Is(toks, e.pos, "end") THEN e ELSE Bad)

CheckExpr(toks) == Parse(toks).ok

-----------------------------------------------------------------------------
(* Evaluation: "true", "false", or "error" when the types do not fit *)

Truth(b) == IF b THEN "true" ELSE "false"

NumericVars == {"score", "value", "ageDays", "evidence.count", "selected.count"}
BooleanVars == {"true", "false", "attested"}
KnownVars == {"answer", "verdict", "selected"} \union NumericVars \union BooleanVars

\* An answer is a record of the variables, with dots written as underscores.
NumberVar(name, ctx) ==
  CASE name = "score" -> ctx.score
    [] name = "value" -> ctx.value
    [] name = "ageDays" -> ctx.ageDays
    [] name = "evidence.count" -> ctx.evidence
    [] name = "selected.count" -> Cardinality(ctx.selected)

IsNumber(o) ==
  \/ o.kind = "number" /\ o.text \in DOMAIN NumberOf
  \/ o.kind = "ident" /\ o.text \in NumericVars
Number(o, ctx) == IF o.kind = "number" THEN NumberOf[o.text] ELSE NumberVar(o.text, ctx)

IsBoolean(o) == o.kind = "ident" /\ o.text \in BooleanVars
Boolean(o, ctx) == IF o.text = "attested" THEN ctx.attested ELSE o.text = "true"

\* Variables that are neither text nor a literal read as the empty string.
Text(o, ctx) ==
  CASE o.kind # "ident" -> o.text
    [] o.text = "answer" -> ctx.answer
    [] o.text = "verdict" -> ctx.verdict
    [] o.text \in {"true", "false"} -> o.text
    [] OTHER -> ""

Ordered(op, l, r) ==
  CASE op = "<" -> l < r [] op = "<=" -> l <= r [] op = ">" -> l > r [] op = ">=" -> l >= r

Same(l, r, ctx) ==
  CASE IsBoolean(l) /\ IsBoolean(r) -> Boolean(l, ctx) = Boolean(r, ctx)
    [] IsNumber(l) /\ IsNumber(r) -> Number(l, ctx) = Number(r, ctx)
    [] OTHER -> Text(l, ctx) = Text(r, ctx)

EvalCmp(n, ctx) ==
  IF n.op \in {"==", "!="} THEN Truth(Same(n.left, n.right, ctx) = (n.op = "=="))
  ELSE IF IsNumber(n.left) /\ IsNumber(n.right)
       THEN Truth(Ordered(n.op, Number(n.left, ctx), Number(n.right, ctx)))
       ELSE "error"

EvalSet(n, ctx) ==
  CASE n.op = "in" -> Truth(Text(n.left, ctx) \in Range(n.list))
    [] n.left.kind = "ident" /\ n.left.text = "selected" ->
         Truth(Range(n.list) \subseteq ctx.selected)
    [] OTHER -> "error"

RECURSIVE EvalNode(_, _)
EvalNode(n, ctx) ==
  CASE n.op = "or" -> LET l == EvalNode(n.l, ctx) IN IF l = "false" THEN EvalNode(n.r, ctx) ELSE l
    [] n.op = "and" -> LET l == EvalNode(n.l, ctx) IN IF l = "true" THEN EvalNode(n.r, ctx) ELSE l
    [] n.op \in {"in", "superset"} -> EvalSet(n, ctx)
    [] OTHER -> EvalCmp(n, ctx)

Eval(toks, ctx) ==
  LET e == Parse(toks) IN IF e.ok THEN EvalNode(e.node, ctx) ELSE "error"

ReferencedVars(toks) == {t.text : t \in {t \in Range(toks) : t.kind = "ident"}}
CheckVars(toks) == ReferencedVars(toks) \subseteq KnownVars

-----------------------------------------------------------------------------
(* Templates.  None of the strings matters here except whether it is there. *)

Types == {"yes_no", "yes_no_na", "yes_no_evidence", "scale", "single_choice", "multi_choice",
          "numeric", "date", "evidence", "attestation", "free_text"}
ChoiceTypes == {"single_choice", "multi_choice"}
Verdicts == {"compliant", "partial", "non_compliant", "not_applicable"}

RuleOK(r) == CheckExpr(r.when) /\ CheckVars(r.when) /\ r.verdict \in Verdicts

Distinct(s) == Cardinality(Range(s)) = Len(s)

ValidateTypeSpecifics(q) ==
  /\ q.type \in ChoiceTypes => q.options # <<>> /\ "" \notin Range(q.options) /\ Distinct(q.options)
  /\ q.type = "numeric" => q.low <= q.high
  /\ q.type = "attestation" => q.statement

ValidateFollowUp(f, ids) == CheckExpr(f.when) /\ CheckVars(f.when) /\ f.ask \in ids

\* Questions that a follow-up leads to.
Asked(qs) == {f.ask : f \in UNION {Range(qs[i].followUps) : i \in DOMAIN qs}}

ValidateAssessment(q) == \A r \in Range(q.rules) : RuleOK(r)

ValidateQuestion(q, ids) ==
  /\ q.req # "" /\ q.type \in Types /\ q.text
  /\ ValidateTypeSpecifics(q)
  /\ ValidateAssessment(q)
  /\ \A f \in Range(q.followUps) : ValidateFollowUp(f, ids)

\* The questions of a template with one section, in order.
ValidateTemplate(qs) ==
  LET ids == {qs[i].id : i \in DOMAIN qs}
  IN  /\ qs # <<>>
      /\ Cardinality(ids) = Len(qs)
      /\ Cardinality({qs[i].order : i \in DOMAIN qs}) = Len(qs)
      /\ \A i \in DOMAIN qs : ValidateQuestion(qs[i], ids)
      /\ \A i \in DOMAIN qs : qs[i].conditional => qs[i].id \in Asked(qs)

MainSequence(qs) == SelectSeq(qs, LAMBDA q : ~q.conditional)

-----------------------------------------------------------------------------
(* Answering: the first rule that holds gives the verdict, and the follow-ups *)
(* see it.                                                                    *)

Scores == [compliant |-> 2, partial |-> 1, non_compliant |-> 0]  \* in halves

ScoreFor(verdict) == IF verdict \in DOMAIN Scores THEN Scores[verdict] ELSE -1

WithVerdict(answer, verdict) == [answer EXCEPT !.verdict = verdict]

EvalAll(clauses, ctx) == [i \in DOMAIN clauses |-> Eval(clauses[i].when, ctx)]

\* The verdict of the first rule that is not false, if it is not an error either.
FirstVerdict(rules, says) ==
  LET first == SelectInSeq(says, LAMBDA v : v # "false")
  IN  CASE first = 0 -> "" [] says[first] = "error" -> "error" [] OTHER -> rules[first].verdict

Assess(q, answer) == FirstVerdict(q.rules, EvalAll(q.rules, WithVerdict(answer, "")))

StepResult(q, verdict, says) ==
  IF "error" \in Range(says) \union {verdict} THEN [ok |-> FALSE]
  ELSE [ok |-> TRUE, verdict |-> verdict, score |-> ScoreFor(verdict),
        ask |-> LET fired == SelectSeq([i \in DOMAIN says |-> i], LAMBDA i : says[i] = "true")
                IN  [k \in DOMAIN fired |-> q.followUps[fired[k]].ask]]

FollowUps(q, answer, verdict) ==
  StepResult(q, verdict, EvalAll(q.followUps, WithVerdict(answer, verdict)))

Step(q, answer) == FollowUps(q, answer, Assess(q, answer))

-----------------------------------------------------------------------------
(* From the model's questions for one requirement to questions of a template *)

QuestionId(reqRef, i) == <<reqRef, i>>

KeepFirst(s) ==
  FoldLeft(LAMBDA out, x : IF x = "" \/ x \in Range(out) THEN out ELSE Append(out, x), <<>>, s)
CleanOptions(options) == KeepFirst(options)

KeepValidRules(rules) == SelectSeq(rules, RuleOK)

\* A branch to itself, to nothing, or on a condition that cannot be parsed goes.
\* The variables of the condition are not looked at.
ResolveFollowUps(reqRef, self, list) ==
  LET kept == SelectSeq(list[self].followUps, LAMBDA f :
                CheckExpr(f.when) /\ f.ask \in DOMAIN list /\ f.ask # self)
  IN  [i \in DOMAIN kept |-> [when |-> kept[i].when, ask |-> QuestionId(reqRef, kept[i].ask)]]

RepairQuestionType(q) ==
  CASE q.type \in ChoiceTypes ->
         LET options == CleanOptions(q.options)
         IN  [q EXCEPT !.options = options, !.type = IF options = <<>> THEN "free_text" ELSE @]
    [] q.type = "attestation" -> [q EXCEPT !.statement = TRUE]
    [] OTHER -> q

\* A question never has empty text: it falls back to the intent, then to a
\* sentence of its own.  Bounds are not part of what the model returns.
BuildQuestion(reqRef, base, list, i) ==
  RepairQuestionType(
    [id |-> QuestionId(reqRef, i), order |-> base + i, req |-> reqRef, text |-> TRUE,
     type |-> IF list[i].type \in Types THEN list[i].type ELSE "free_text",
     conditional |-> list[i].conditional, options |-> list[i].options,
     rules |-> KeepValidRules(list[i].rules),
     followUps |-> ResolveFollowUps(reqRef, i, list),
     statement |-> FALSE, low |-> 0, high |-> 0])

\* Mutant of ReconcileConditionals: a question that branches to another one
\* counts as reached itself.
ReconcileLeaves(qs) ==
  [i \in DOMAIN qs |->
     [qs[i] EXCEPT !.conditional = @ /\ (qs[i].id \in Asked(qs) \/ qs[i].followUps # <<>>)]]

ReconcileConditionals(qs) ==
  [i \in DOMAIN qs |-> [qs[i] EXCEPT !.conditional = @ /\ qs[i].id \in Asked(qs)]]

BuildRequirementQuestions(reqRef, base, list) ==
  ReconcileConditionals([i \in DOMAIN list |-> BuildQuestion(reqRef, base, list, i)])
=============================================================================
