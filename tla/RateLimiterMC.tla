---------------------------- MODULE RateLimiterMC ----------------------------
(* Instances of RateLimiter for TLC. *)
EXTENDS RateLimiter, TLC

\* The threads that serve a caller are interchangeable.
Symmetry == Permutations(Requests)
=============================================================================
