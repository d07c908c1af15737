---------------------------- MODULE RemediationMC ----------------------------
(* Instances of Remediation for TLC. *)
EXTENDS Remediation, TLC

\* Threads are interchangeable.
Symmetry == Permutations(Threads)
=============================================================================
