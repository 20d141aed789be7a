--------------------------- MODULE MCMappingSets ---------------------------
(***************************************************************************)
(* Instances of MappingSets: two source versions, one or two target        *)
(* versions and one node, with two publications that may overlap.          *)
(***************************************************************************)
EXTENDS MappingSets

CONSTANTS a, p1, p2
=============================================================================
