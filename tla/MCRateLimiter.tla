---------------------------- MODULE MCRateLimiter ----------------------------
(* Instances of RateLimiter for model checking. *)
EXTENDS RateLimiter, TLC

\* Nothing tells calls, workers or ips apart.
Symmetry == Permutations(Calls) \cup Permutations(Workers) \cup Permutations(Ips)
=============================================================================
