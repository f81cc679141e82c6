--------------------------- MODULE MCTieredCache ---------------------------
(* Model-checking instances of TieredCache: replicas, keys and calls are   *)
(* interchangeable.  SYMMETRY Perms is for instances with safety alone;    *)
(* the one with liveness goes without.                                     *)
EXTENDS TieredCache, TLC

Perms == Permutations(Replica) \cup Permutations(Key) \cup Permutations(Call)
=============================================================================
