-------------------------- MODULE MCDashboardCache --------------------------
(* An instance of DashboardCache for model checking: the workers and the      *)
(* requests are alike.                                                        *)
EXTENDS DashboardCache, TLC

\* An account of each drive; without a cookie in the environment a worker's
\* session is of either, or of none.
MCStart == {("a" :> "d" @@ "b" :> "e")}

Symmetry == Permutations(Workers) \union Permutations(Requests)
=============================================================================
