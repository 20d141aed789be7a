--------------------------- MODULE MCDistribution ---------------------------
(***************************************************************************)
(* Instances of Distribution.  open is in the public domain; closed is     *)
(* proprietary and takes the reference id of open, in another region, once *)
(* open is deleted.  The second version of open is named "latest".         *)
(***************************************************************************)
EXTENDS Distribution, TLC

CONSTANTS open, closed, r, eu, us, one, t, u, o

SharedRef == (open :> r) @@ (closed :> r)
TwoRegions == (open :> eu) @@ (closed :> us)
ThreeVersions == <<open, open, closed>>
ThreeNames == <<one, "latest", one>>
Scopes == (t :> {eu, Blank}) @@ (u :> {Blank})
=============================================================================
