---------------------------- MODULE OrchestratorMC ----------------------------
(* Instances of Orchestrator for TLC. *)
EXTENDS Episodes, TLC

\* Request threads, workers and row ids are interchangeable.
Symmetry == Permutations(Handlers) \cup Permutations(Workers) \cup Permutations(Incidents)
=============================================================================
