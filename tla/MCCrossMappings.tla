-------------------------- MODULE MCCrossMappings --------------------------
(***************************************************************************)
(* Instances of CrossMappings: a target framework with two or three        *)
(* versions, and a source version whose requirement is mapped to it by an  *)
(* unpinned stub, by one pinned to the first version, or by both.          *)
(***************************************************************************)
EXTENDS CrossMappings

CONSTANTS target, source, t1, t2, t3, w, c

TargetAndSource == [v \in Versions |-> IF v = w THEN source ELSE target]

Unpinned == [source |-> w, code |-> c, framework |-> target, pin |-> NoVersion, target |-> c]
Pinned == [Unpinned EXCEPT !.pin = t1]

OneLink == {Unpinned}
TwoLinks == {Unpinned, Pinned}
=============================================================================
