---------------------------- MODULE MCBatchJobs ----------------------------
(* BatchJobs for TLC: sets of model values.                                *)
EXTENDS BatchJobs, TLC

Symmetry == Permutations(Workers) \cup Permutations(Items)

============================================================================
