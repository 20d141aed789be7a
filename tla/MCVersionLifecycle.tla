------------------------- MODULE MCVersionLifecycle -------------------------
(***************************************************************************)
(* Instances of VersionLifecycle small enough to enumerate: one framework  *)
(* with two versions, an author without review rights and two reviewers,   *)
(* the second a superadmin, and texts of one or two requirements.          *)
(***************************************************************************)
EXTENDS VersionLifecycle, TLC

CONSTANTS f1, v1, v2, ann, mod, root, c1, c2

OneFramework == [v \in Versions |-> f1]

\* Sessions, texts and keys are interchangeable.
Interchangeable == Permutations(Sessions) \union Permutations(Texts) \union Permutations(Keys)
=============================================================================
