------------------------- MODULE MCFrameworkDrafts -------------------------
(* Two frameworks, two requirements, categories with and without padding. *)
EXTENDS FrameworkDrafts, TLC

McTrimOf == " A" :> "A" @@ " " :> ""
McSlugOf == "r1" :> "r-control" @@ "r2" :> "r-control"
McRankOf == "r-control" :> 1 @@ "k" :> 2 @@ "r1" :> 3 @@ "own" :> 4

\* Short; two long blocks; one block longer than a chunk, and another.
McTexts == {<<<<2>>>>, <<<<3, 2>>, <<6>>, <<2>>>>, <<<<4, 4, 4>>, <<2>>>>}

Req(ref, category, name, description) ==
  [ref |-> ref, category |-> category, name |-> name, description |-> description]
Cat(ref) == [ref |-> ref, name |-> "Cat"]
McParts == {
  [categories |-> <<>>, requirements |-> <<>>],
  [categories |-> <<Cat(" A")>>, requirements |-> <<Req("r1", "A", "One", 1), Req("r2", "", "Two", 3)>>],
  [categories |-> <<Cat("A")>>, requirements |-> <<Req("r2", " A", "", 1), Req("r1", "B", "One", 3)>>]}

Ctl(ref, category, name) == [ref |-> ref, name |-> name, description |-> 1, category |-> category]
McControlReplies == {
  [controls |-> <<>>, links |-> <<[requirement |-> "r1", controls |-> <<"k">>]>>],
  [controls |-> <<Ctl("k", "Access", "Keep")>>,
   links |-> <<[requirement |-> "r1", controls |-> <<"k", "none">>]>>]}

Doc(cats, reqs, ctls) == [categories |-> cats, requirements |-> reqs, controls |-> ctls]
Full(req, controls) == req @@ [controls |-> controls]
McHanded == {
  Doc(<<>>, <<Full(Req("r1", "", "One", 1), <<"r1">>)>>, <<Ctl("r1", "", "Named as its requirement")>>),
  Doc(<<Cat("A"), Cat("B")>>,
      <<Full(Req("r1", "B", "One", 2), <<"k">>), Full(Req("r2", "", "Two", 2), <<"k", "k">>)>>,
      <<Ctl("k", "Policy", "Keep")>>)}

McNested == {
  <<[code |-> "A", name |-> "Cat",
     requirements |-> <<[ref |-> "r1", name |-> "One", description |-> 1, items |-> <<>>],
                        [ref |-> "r9", name |-> "Nine", description |-> 1,
                         items |-> <<[ref |-> "r2", name |-> " ", description |-> 0]>>]>>]>>}

McByHand ==
  {[ref |-> "own", name |-> "Ours", description |-> 1, category |-> "Front desk", items |-> {"r1"}]}
McOwnCategories == {[code |-> "C", name |-> "Own"]}
McOwnRequirements == {Full(Req("r3", "", "Three", 1), <<>>)}

\* A bound: a run has a generation, or two of translations and changes of a
\* structure by hand.
Narrow ==
  LET later == Len(translation) + begun.edit
  IN  later + 2 * begun.generate <= 2
=============================================================================
