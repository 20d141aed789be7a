--------------------------- MODULE MCIngestJobs ---------------------------
(***************************************************************************)
(* Instances of IngestJobs: two replicas, two automatic translations of    *)
(* one framework, a generation whose document must be cleaned before it    *)
(* can be stored, and one audit template job.                              *)
(***************************************************************************)
EXTENDS IngestJobs

CONSTANTS i1, i2, f, gen, tr1, tr2, qa

KindMC ==
  [j \in Jobs |-> IF j = gen THEN "generate" ELSE IF j = qa THEN "qa_template" ELSE "translate"]

OneFramework == [j \in Jobs |-> f]
=============================================================================
