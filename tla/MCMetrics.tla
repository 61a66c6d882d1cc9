----------------------------- MODULE MCMetrics ------------------------------
(***************************************************************************)
(* Metrics for TLC: every job has every step; pipelines are interchangeable,  *)
(* and so are jobs.                                                         *)
(***************************************************************************)
EXTENDS Metrics

CONSTANT Jobs

EveryJobsSteps == Jobs \X Steps

Symmetry == Permutations(Pipelines) \union Permutations(Jobs)
=============================================================================
