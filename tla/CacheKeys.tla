----------------------------- MODULE CacheKeys -----------------------------
(* What SieveCache, TieredCache and HitBatcher have in common: the keys    *)
(* that internal/cache stores DNS answers under.                           *)

CONSTANTS
    Key,         (* cache keys                                             *)
    Nil          (* no key, and no value of whatever else may be absent    *)

ASSUME NilAssumption == Nil \notin Key
=============================================================================
