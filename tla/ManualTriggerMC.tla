--------------------------- MODULE ManualTriggerMC ---------------------------
(* Instances of ManualTrigger for TLC. *)
EXTENDS ManualTrigger, TLC

\* Workers and row ids are interchangeable, and so are request threads.
Symmetry == Permutations(Handlers) \cup Permutations(Workers) \cup Permutations(Incidents)
=============================================================================
