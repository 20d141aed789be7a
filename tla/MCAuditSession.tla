-------------------------- MODULE MCAuditSession --------------------------
(* One or two questions a requirement, with the slips a model makes. *)
EXTENDS AuditSession, TLC

Var(v) == Token("ident", v)
Str(v) == Token("string", v)
Cmp(op, l, r) == [op |-> op, left |-> l, right |-> r]
Set(op, l, items) == [op |-> op, left |-> l, list |-> items]
Both(op, l, r) == [op |-> op, l |-> l, r |-> r]

Yes == Cmp("==", Var("answer"), Str("yes"))
Good3 == Cmp(">=", Var("score"), Token("number", "3"))
OneOf == Set("in", Var("answer"), <<"no", "na">>)
Picked == Set("superset", Var("selected"), <<"x">>)

McNumberOf == "3" :> 3
Mixed == Both("or", Yes, Both("and", Good3, OneOf))
McConditions == {Mixed, Both("and", Both("or", Yes, Good3), Picked), Yes,
                 Both("and", Picked, Both("and", Good3, Cmp("!=", Var("answer"), Str("na"))))}

Typo == <<Var("anwser"), Token("op", "=="), Str("yes")>>
IllTyped == <<Var("answer"), Token("op", ">="), Token("number", "3")>>
Cut == <<Var("answer"), Token("op", "==")>>

McLists(branches) ==
  LET Rule(when, verdict) == [when |-> when, verdict |-> verdict]
      Rules == {<<Rule(Cut, "partial"), Rule(Written(c), "compliant"), Rule(Written(Yes), "maybe"),
                  Rule(Typo, "partial"), Rule(Written(d), "partial")>> :
                  c \in McConditions, d \in {Mixed, Yes}}
               \union {<<Rule(Written(Yes), "compliant"), Rule(IllTyped, "partial")>>}
      Question(type, conditional, followUps, rules) ==
        [type |-> type, conditional |-> conditional, followUps |-> followUps, rules |-> rules,
         options |-> IF type = "multi_choice" THEN <<"x", "", "x">> ELSE <<"">>]
      Branch(when, ask) == [when |-> when, ask |-> ask]
      One(conditional) == {Question(t, conditional, f, r) :
        t \in {"yes_no", "single_choice", "multi_choice", "attestation", "essay"},
        f \in {<<Branch(Cut, 2), Branch(b, 1), Branch(b, 3)>> : b \in branches}, r \in Rules}
      Two == {Question("scale", c, f, <<>>) : c \in BOOLEAN,
        f \in {<<>>} \union {<<Branch(b, 1)>> : b \in branches}}
      First == {Question("yes_no", c, f, <<Rule(Written(Mixed), "compliant")>>) : c \in BOOLEAN,
        f \in {<<>>} \union {<<Branch(Written(Yes), 2), Branch(b, 3)>> : b \in branches}}
  IN  {<<q>> : q \in UNION {One(c) : c \in BOOLEAN}} \union {<<q, r>> : q \in First, r \in Two}

Known == McLists({Written(Yes), <<Var("verdict"), Token("op", "=="), Str("partial")>>})
Unknown == McLists({Typo})

McAnswers == {[answer |-> v, verdict |-> "", score |-> n, value |-> 0, ageDays |-> 0, evidence |-> 0,
               selected |-> s, attested |-> FALSE] : v \in {"yes", "no"}, n \in {0, 3}, s \in {{}, {"x"}}}
=============================================================================
