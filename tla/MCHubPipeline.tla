---------------------------- MODULE MCHubPipeline ----------------------------
(* HubPipeline on small instances.                                         *)
EXTENDS HubPipeline, TLC

\* One task with a subtask, or two tasks without.
SmallPlans == {<<1>>, <<0, 0>>}

Symmetry == Permutations(Posts) \cup Permutations(Clients)
=============================================================================
