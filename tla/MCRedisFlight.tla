---------------------------- MODULE MCRedisFlight ----------------------------
(* Instances of RedisFlight for model checking. *)
EXTENDS RedisFlight

\* The requests are spread over as many workers as there are requests for.
Served(f) == Cardinality({f[r] : r \in Requests})
MCWorkerOf ==
  CHOOSE f \in [Requests -> Workers] :
    \A g \in [Requests -> Workers] : Served(g) <= Served(f)

\* One request may ask with the wait flag as well, the others without.
MCMayAsk ==
  LET free == CHOOSE r \in Requests : TRUE
  IN [r \in Requests |-> IF r = free THEN Keys ELSE Links \X {FALSE}]
=============================================================================
