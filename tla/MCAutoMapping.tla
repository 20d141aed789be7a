--------------------------- MODULE MCAutoMapping ---------------------------
(***************************************************************************)
(* Instances of AutoMapping: two source versions, and one node that a run  *)
(* may match, with one relation or another, to one target node.            *)
(***************************************************************************)
EXTENDS AutoMapping, TLC

CONSTANTS a, b, x, r1, r2, equivalent, subset

\* Nothing tells one relation from another but their being different.
RelationsAlike == Permutations(Relations)

\* A bound: two of the things that make decisions interesting at a time, which
\* are proposals, edits by hand and a newer version of the target.
Narrow ==
  Cardinality({p \in Proposal : proposals[p].status # "none"}) + edits + (target - 1) <= 2
=============================================================================
