---------------------------- MODULE MCLinkCache ----------------------------
(* Instances of LinkCache for model checking: the requests are alike.        *)
EXTENDS LinkCache, TLC

Symmetry == Permutations(Requests)
=============================================================================
