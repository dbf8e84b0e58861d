-------------------- MODULE MCProviderComputeJobManager --------------------
(* Small instances of ProviderComputeJobManager for TLC. *)
EXTENDS ProviderComputeJobManager, TLC

Symmetry == Permutations(JobIds) \cup Permutations(Keys)
            \cup Permutations(Workers) \cup Permutations(Clients)
=============================================================================
