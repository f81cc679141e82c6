------------------------ MODULE MCRefreshCoordinator ------------------------
(* Model-checking instances of RefreshCoordinator: calls, replicas and     *)
(* keys are interchangeable.  SYMMETRY Perms is for instances with safety  *)
(* alone; the one with liveness goes without.                              *)
EXTENDS RefreshCoordinator, TLC

Perms == Permutations(Call) \cup Permutations(Replica) \cup Permutations(Key)
=============================================================================
