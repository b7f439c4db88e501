-------------------------- MODULE MCDomainRateLimiter --------------------------
(***************************************************************************)
(* DomainRateLimiter for TLC.  Callers, hosts and objects are              *)
(* interchangeable, so the safety run takes them up to permutation; the    *)
(* liveness run does not.                                                  *)
(***************************************************************************)
EXTENDS DomainRateLimiter, TLC

Symmetry == Permutations(Callers) \cup Permutations(Hosts) \cup Permutations(States)
=============================================================================
