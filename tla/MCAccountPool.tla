---------------------------- MODULE MCAccountPool ----------------------------
(* Instances of AccountPool for model checking. *)
EXTENDS AccountPool

\* One worker serves the resolves; the others reload, rotate, run the cron
\* check and serve the administrator, as it does.
Server == CHOOSE w \in Workers : TRUE
MCWorkerOf == [p \in Requests |-> Server]
=============================================================================
