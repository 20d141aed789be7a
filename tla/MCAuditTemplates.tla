-------------------------- MODULE MCAuditTemplates --------------------------
(* One section, so that the order of its questions is shared; one requirement *)
(* at the start and one more that may be added.  The model answers with one   *)
(* question, or with a question that branches to a conditional one.           *)
EXTENDS AuditTemplates, TLC

Branch == [conditional |-> FALSE, asks |-> {2, 7}]
Loose == [conditional |-> TRUE, asks |-> {}]

MCShapes == {<<Branch, Loose>>, <<Loose>>}
MCCategoryOf == [r \in Requirements |-> CHOOSE s \in Sections : TRUE]
MCPresent == {1}

Symmetry == Permutations(Tasks)
=============================================================================
