-------------------------- MODULE DashboardCacheMC --------------------------
(* Instances of DashboardCache for TLC. *)
EXTENDS DashboardCache, TLC

\* The threads that run investigations are interchangeable.
Symmetry == Permutations(Threads)
=============================================================================
