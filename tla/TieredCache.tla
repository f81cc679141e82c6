---------------------------- MODULE TieredCache ----------------------------
(***************************************************************************)
(* The two cache tiers of internal/cache/redis.go: an L0 cache in every    *)
(* replica over one shared Redis (L1), which also holds the expiry index   *)
(* that the sweep of internal/dnsresolver/resolver.go works from.          *)
(*                                                                         *)
(* One step is one round trip to Redis or one visit to L0; calls on all    *)
(* replicas interleave between them.  A cell holds Nil or the generation   *)
(* of its data: the number of ClearCache calls begun when it was stored.   *)
(* Which key is cold, warm, oldest or next to expire is a choice.  Inside  *)
(* L0, see SieveCache; for the refresh lock, RefreshCoordinator.           *)
(***************************************************************************)
EXTENDS CacheKeys, Naturals, FiniteSets

CONSTANTS
    Replica,         (* resolver instances that share the Redis            *)
    Call,            (* lookups and stores that can be in progress         *)
    Cluster,         (* clusterMode: commands on two slots are not atomic  *)
    MaxKeys,         (* cache.redis.max_keys, 0 for no cap                 *)
    MaxClears,       (* bound on the number of ClearCache calls            *)
    OrphansRemoved   (* the sweep removes index members without an entry   *)

ASSUME SwitchAssumption == Cluster \in BOOLEAN /\ OrphansRemoved \in BOOLEAN
ASSUME BoundAssumption == MaxKeys \in Nat /\ MaxClears \in Nat
ASSUME KeyAssumption == IsFiniteSet(Key)
ASSUME CellAssumption == Nil \notin Nat /\ Nil \notin Replica

VARIABLES
    l0,       (* the L0 cache of each replica                              *)
    l1,       (* the dns:* hashes in Redis                                 *)
    index,    (* members of the expiry index                               *)
    usable,   (* the replicas for which canUseRedis() holds                *)
    failing,  (* for now, commands fail, replicas die, health monitors see *)
              (* Redis down and caches are cleared                         *)
    calm,     (* nothing has failed yet, and no member of the index has    *)
              (* been removed as an orphan or by a ClearCache (history)    *)
    gen,      (* ClearCache calls begun                                    *)
    cleared,  (* generation of each replica's last ClearCache              *)
    revived,  (* the keys in its L0 that a lookup has brought back since   *)
              (* then (history)                                            *)
    pc,       (* where each call is                                        *)
    at,       (* the replica it runs on                                    *)
    key,      (* the key it is about                                       *)
    val,      (* the data it carries                                       *)
    sweep,    (* the stage each replica's sweep is in                      *)
    todo,     (* index members it has yet to check                         *)
    batch,    (* keys it has yet to remove from the index or to delete     *)
    zrem,     (* the key DeleteCacheKey has deleted from L0                *)
    hdel,     (* the key DeleteCacheKey has also taken out of the index    *)
    wipe,     (* the stage of each replica's ClearCache                    *)
    wiping    (* keys it has yet to delete                                 *)

callVars == <<pc, at, key, val>>
sweepVars == <<sweep, todo, batch, zrem, hdel>>
clearVars == <<gen, cleared, revived, wipe, wiping>>
vars == <<l0, l1, index, usable, failing, calm, callVars, sweepVars, clearVars>>

Gen == 0 .. MaxClears
Stored == {k \in Key : l1[k] # Nil}

Init ==
    /\ l0 = [r \in Replica |-> [k \in Key |-> Nil]]
    /\ l1 = [k \in Key |-> Nil]
    /\ index = {}
    /\ usable = Replica
    /\ failing = TRUE
    /\ calm = TRUE
    /\ gen = 0
    /\ cleared = [r \in Replica |-> 0]
    /\ revived = [r \in Replica |-> {}]
    /\ pc = [c \in Call |-> "idle"]
    /\ at = [c \in Call |-> Nil]
    /\ key = [c \in Call |-> Nil]
    /\ val = [c \in Call |-> Nil]
    /\ sweep = [r \in Replica |-> "tick"]
    /\ todo = [r \in Replica |-> {}]
    /\ batch = [r \in Replica |-> {}]
    /\ zrem = [r \in Replica |-> Nil]
    /\ hdel = [r \in Replica |-> Nil]
    /\ wipe = [r \in Replica |-> "idle"]
    /\ wiping = [r \in Replica |-> {}]

Begin(c, r, k, v, step) ==
    /\ pc[c] = "idle"
    /\ pc' = [pc EXCEPT ![c] = step]
    /\ at' = [at EXCEPT ![c] = r]
    /\ key' = [key EXCEPT ![c] = k]
    /\ val' = [val EXCEPT ![c] = v]

Leave(c) ==
    /\ pc' = [pc EXCEPT ![c] = "idle"]
    /\ at' = [at EXCEPT ![c] = Nil]
    /\ key' = [key EXCEPT ![c] = Nil]
    /\ val' = [val EXCEPT ![c] = Nil]

-----------------------------------------------------------------------------
(* What is now in the L0 of r for k was not brought back.                  *)
Renews(r, k) == revived' = [revived EXCEPT ![r] = @ \ {k}]

(* GetWithTTL: an L0 miss goes to Redis, and a hit there is put into L0    *)
(* unless it is past its soft expiry.                                      *)
GetMissesL0(c, r, k) ==
    /\ l0[r][k] = Nil
    /\ r \in usable
    /\ Begin(c, r, k, Nil, "hgetall")
    /\ UNCHANGED <<l0, l1, index, usable, failing, calm, sweepVars, clearVars>>

GetHash(c) ==
    /\ pc[c] = "hgetall"
    /\ \/ /\ l1[key[c]] # Nil
          /\ val' = [val EXCEPT ![c] = l1[key[c]]]
          /\ pc' = [pc EXCEPT ![c] = "promote"]
          /\ UNCHANGED <<at, key>>
       \/ Leave(c)
    /\ UNCHANGED <<l0, l1, index, usable, failing, calm, sweepVars, clearVars>>

Promote(c) ==
    /\ pc[c] = "promote"
    /\ l0' = [l0 EXCEPT ![at[c]][key[c]] = val[c]]
    /\ IF val[c] < cleared[at[c]]
       THEN revived' = [revived EXCEPT ![at[c]] = @ \cup {key[c]}]
       ELSE Renews(at[c], key[c])
    /\ Leave(c)
    /\ UNCHANGED <<l1, index, usable, failing, calm, sweepVars, gen, cleared, wipe, wiping>>

(* SetWithIndex: L0 first, and only L0 when Redis is not to be used.       *)
SetL0(c, r, k) ==
    /\ l0' = [l0 EXCEPT ![r][k] = gen]
    /\ Renews(r, k)
    /\ IF r \in usable THEN Begin(c, r, k, gen, "hset") ELSE UNCHANGED callVars
    /\ UNCHANGED <<l1, index, usable, failing, calm, sweepVars, gen, cleared, wipe, wiping>>

(* Mutant of SetHash: the member is not added to the index.                *)
SetHashForgetsIndex(c) ==
    /\ pc[c] = "hset"
    /\ l1' = [l1 EXCEPT ![key[c]] = val[c]]
    /\ Leave(c)
    /\ UNCHANGED <<l0, index, usable, failing, calm, sweepVars, clearVars>>

(* The transaction of HSET, ZADD and EXPIRE; in a cluster, HSET and EXPIRE. *)
SetHash(c) ==
    /\ pc[c] = "hset"
    /\ l1' = [l1 EXCEPT ![key[c]] = val[c]]
    /\ IF Cluster
       THEN /\ pc' = [pc EXCEPT ![c] = "zadd"]
            /\ UNCHANGED <<index, at, key, val>>
       ELSE index' = index \cup {key[c]} /\ Leave(c)
    /\ UNCHANGED <<l0, usable, failing, calm, sweepVars, clearVars>>

SetIndex(c) ==
    /\ pc[c] = "zadd"
    /\ index' = index \cup {key[c]}
    /\ Leave(c)
    /\ UNCHANGED <<l0, l1, usable, failing, calm, sweepVars, clearVars>>

(* Either command fails, before or after Redis has carried it out.         *)
SetFails(c) ==
    /\ failing
    /\ pc[c] \in {"hset", "zadd"}
    /\ l1' \in IF Cluster /\ pc[c] = "hset"
               THEN {l1, [l1 EXCEPT ![key[c]] = val[c]]} ELSE {l1}
    /\ Leave(c)
    /\ calm' = FALSE
    /\ UNCHANGED <<l0, index, usable, failing, sweepVars, clearVars>>

-----------------------------------------------------------------------------
(* sweepRefresh, stage by stage: ReconcileExpiryIndex, EvictToCap, and the *)
(* deletion of cold candidates.                                            *)
Stage(r, s) == sweep' = [sweep EXCEPT ![r] = s]

(* ReconcileExpiryIndex reads its sample, larger than the index here.      *)
SampleIndex(r) ==
    /\ sweep[r] = "tick"
    /\ IF OrphansRemoved /\ r \in usable /\ index # {}
       THEN Stage(r, "exists") /\ todo' = [todo EXCEPT ![r] = index]
       ELSE Stage(r, "count") /\ UNCHANGED todo
    /\ UNCHANGED <<l0, l1, index, usable, failing, calm, callVars, batch, zrem, hdel, clearVars>>

(* EXISTS; in a cluster an error counts as absence.  The checks of the     *)
(* sweep's own candidates, and their RemoveFromIndex, are of this form too. *)
CheckExists(r, k) ==
    /\ sweep[r] = "exists"
    /\ k \in todo[r]
    /\ todo' = [todo EXCEPT ![r] = @ \ {k}]
    /\ \/ l1[k] # Nil /\ UNCHANGED batch
       \/ /\ l1[k] = Nil \/ (Cluster /\ failing)
          /\ batch' = [batch EXCEPT ![r] = @ \cup {k}]
    /\ Stage(r, IF todo'[r] # {} THEN "exists"
                ELSE IF batch'[r] # {} THEN "unindex" ELSE "count")
    /\ UNCHANGED <<l0, l1, index, usable, failing, calm, callVars, zrem, hdel, clearVars>>

ReconcileFails(r) ==
    /\ failing
    /\ sweep[r] = "exists"
    /\ Stage(r, "count")
    /\ todo' = [todo EXCEPT ![r] = {}]
    /\ batch' = [batch EXCEPT ![r] = {}]
    /\ UNCHANGED <<l0, l1, index, usable, failing, calm, callVars, zrem, hdel, clearVars>>

(* Mutant of RemoveFromIndex: the ZREM is never sent.                      *)
RemoveFromIndexSkipped(r, k) ==
    /\ sweep[r] = "unindex"
    /\ k \in batch[r]
    /\ batch' = [batch EXCEPT ![r] = @ \ {k}]
    /\ Stage(r, IF batch'[r] # {} THEN "unindex" ELSE "count")
    /\ UNCHANGED <<l0, l1, index, usable, failing, calm, callVars, todo, zrem, hdel, clearVars>>

RemoveFromIndex(r, k) ==
    /\ sweep[r] = "unindex"
    /\ k \in batch[r]
    /\ \/ index' = index \ {k}
       \/ failing /\ UNCHANGED index
    /\ batch' = [batch EXCEPT ![r] = @ \ {k}]
    /\ Stage(r, IF batch'[r] # {} THEN "unindex" ELSE "count")
    /\ calm' = FALSE
    /\ UNCHANGED <<l0, l1, usable, failing, callVars, todo, zrem, hdel, clearVars>>

(* EvictToCap: as many index members as there are keys over the cap, or    *)
(* all.  The scan, the range and the hit counts are read as one step.      *)
EvictToCap(r) ==
    /\ sweep[r] = "count"
    /\ LET over == Cardinality(Stored) - MaxKeys
       IN  IF r \in usable /\ MaxKeys > 0 /\ Cardinality(Stored) > MaxKeys /\ index # {}
           THEN \E victims \in SUBSET index :
                   /\ Cardinality(victims) =
                         IF over < Cardinality(index) THEN over ELSE Cardinality(index)
                   /\ batch' = [batch EXCEPT ![r] = victims]
                   /\ Stage(r, "evict")
           ELSE Stage(r, "cold") /\ UNCHANGED batch
    /\ UNCHANGED <<l0, l1, index, usable, failing, calm, callVars, todo, zrem, hdel, clearVars>>

(* The candidates that exist and turn out cold, none of them perhaps.      *)
SweepCandidates(r) ==
    /\ sweep[r] = "cold"
    /\ \/ Stage(r, "tick") /\ UNCHANGED batch
       \/ /\ r \in usable
          /\ \E cold \in SUBSET (index \cap Stored) \ {{}} :
                batch' = [batch EXCEPT ![r] = cold]
          /\ Stage(r, "delete")
    /\ UNCHANGED <<l0, l1, index, usable, failing, calm, callVars, todo, zrem, hdel, clearVars>>

(* DeleteCacheKey: L0 first, then Redis if it is to be used.               *)
DeleteL0(r, k) ==
    /\ sweep[r] \in {"evict", "delete"}
    /\ zrem[r] = Nil /\ hdel[r] = Nil
    /\ k \in batch[r]
    /\ l0' = [l0 EXCEPT ![r][k] = Nil]
    /\ Renews(r, k)
    /\ batch' = [batch EXCEPT ![r] = @ \ {k}]
    /\ IF r \in usable THEN zrem' = [zrem EXCEPT ![r] = k] ELSE UNCHANGED zrem
    /\ UNCHANGED <<l1, index, usable, failing, calm, callVars, sweep, todo, hdel>>
    /\ UNCHANGED <<gen, cleared, wipe, wiping>>

(* The transaction of ZREM and DEL; in a cluster, the ZREM, whose error    *)
(* does not stop the DEL.                                                  *)
DeleteFromIndex(r) ==
    /\ zrem[r] # Nil
    /\ \/ /\ index' = index \ {zrem[r]}
          /\ l1' = IF Cluster THEN l1 ELSE [l1 EXCEPT ![zrem[r]] = Nil]
       \/ failing /\ UNCHANGED <<index, l1>>
    /\ zrem' = [zrem EXCEPT ![r] = Nil]
    /\ hdel' = [hdel EXCEPT ![r] = IF Cluster THEN zrem[r] ELSE Nil]
    /\ UNCHANGED <<l0, usable, failing, calm, callVars, sweep, todo, batch, clearVars>>

(* The DEL of the entry, in a cluster.                                     *)
DeleteHash(r) ==
    /\ hdel[r] # Nil
    /\ \/ l1' = [l1 EXCEPT ![hdel[r]] = Nil] /\ UNCHANGED calm
       \/ failing /\ UNCHANGED l1 /\ calm' = FALSE
    /\ hdel' = [hdel EXCEPT ![r] = Nil]
    /\ UNCHANGED <<l0, index, usable, failing, callVars, sweep, todo, batch, zrem, clearVars>>

DeletesDone(r) ==
    /\ sweep[r] \in {"evict", "delete"}
    /\ batch[r] = {} /\ zrem[r] = Nil /\ hdel[r] = Nil
    /\ Stage(r, IF sweep[r] = "evict" THEN "cold" ELSE "tick")
    /\ UNCHANGED <<l0, l1, index, usable, failing, calm, callVars, todo, batch, zrem, hdel, clearVars>>

-----------------------------------------------------------------------------
(* ClearCache: L0, then the dns:* keys batch by batch, then the metadata.  *)

(* Mutant of ClearL0: the L0 cache is left as it is.                       *)
ClearL0Skipped(r) ==
    /\ wipe[r] = "idle"
    /\ failing
    /\ gen < MaxClears
    /\ gen' = gen + 1
    /\ cleared' = [cleared EXCEPT ![r] = gen + 1]
    /\ IF r \in usable
       THEN wipe' = [wipe EXCEPT ![r] = "dns"] /\ wiping' = [wiping EXCEPT ![r] = Key]
       ELSE UNCHANGED <<wipe, wiping>>
    /\ UNCHANGED <<l0, l1, index, usable, failing, calm, callVars, sweepVars, revived>>

ClearL0(r) ==
    /\ wipe[r] = "idle"
    /\ failing
    /\ gen < MaxClears
    /\ gen' = gen + 1
    /\ cleared' = [cleared EXCEPT ![r] = gen + 1]
    /\ l0' = [l0 EXCEPT ![r] = [k \in Key |-> Nil]]
    /\ revived' = [revived EXCEPT ![r] = {}]
    /\ IF r \in usable
       THEN wipe' = [wipe EXCEPT ![r] = "dns"] /\ wiping' = [wiping EXCEPT ![r] = Key]
       ELSE UNCHANGED <<wipe, wiping>>
    /\ UNCHANGED <<l1, index, usable, failing, calm, callVars, sweepVars>>

ClearHash(r, k) ==
    /\ wipe[r] = "dns"
    /\ k \in wiping[r]
    /\ l1' = [l1 EXCEPT ![k] = Nil]
    /\ wiping' = [wiping EXCEPT ![r] = @ \ {k}]
    /\ UNCHANGED <<l0, index, usable, failing, calm, callVars, sweepVars, gen, cleared, revived, wipe>>

ClearFails(r) ==
    /\ failing
    /\ wipe[r] # "idle"
    /\ wipe' = [wipe EXCEPT ![r] = "idle"]
    /\ wiping' = [wiping EXCEPT ![r] = {}]
    /\ UNCHANGED <<l0, l1, index, usable, failing, calm, callVars, sweepVars, gen, cleared, revived>>

(* The dnsmeta keys, of which the index is one.                            *)
ClearMeta(r) ==
    /\ wipe[r] = "dns"
    /\ wiping[r] = {}
    /\ index' = {}
    /\ wipe' = [wipe EXCEPT ![r] = "idle"]
    /\ calm' = FALSE
    /\ UNCHANGED <<l0, l1, usable, failing, callVars, sweepVars, gen, cleared, revived, wiping>>

-----------------------------------------------------------------------------
(* L0 evicts the key or cleans it away; Redis lets the entry's TTL run out. *)
L0Drops(r, k) ==
    /\ l0[r][k] # Nil
    /\ l0' = [l0 EXCEPT ![r][k] = Nil]
    /\ Renews(r, k)
    /\ UNCHANGED <<l1, index, usable, failing, calm, callVars, sweepVars>>
    /\ UNCHANGED <<gen, cleared, wipe, wiping>>

L1Expires(k) ==
    /\ l1[k] # Nil
    /\ l1' = [l1 EXCEPT ![k] = Nil]
    /\ UNCHANGED <<l0, index, usable, failing, calm, callVars, sweepVars, clearVars>>

(* The ping that finds Redis down, or up again.                            *)
HealthMonitor(r) ==
    /\ failing
    /\ usable' = IF r \in usable THEN usable \ {r} ELSE usable \cup {r}
    /\ UNCHANGED <<l0, l1, index, failing, calm, callVars, sweepVars, clearVars>>

(* From some time on the network and the replicas are in good health, the  *)
(* monitors have seen it, and no cache is cleared.  calm has then done its *)
(* work: no step is left that was not possible before.                     *)
FailuresEnd ==
    /\ failing
    /\ \A r \in Replica : wipe[r] = "idle"
    /\ failing' = FALSE
    /\ usable' = Replica
    /\ calm' = FALSE
    /\ UNCHANGED <<l0, l1, index, callVars, sweepVars, clearVars>>

(* A replica dies and starts again; what it had begun in Redis stays.      *)
Crash(r) ==
    /\ failing
    /\ l0' = [l0 EXCEPT ![r] = [k \in Key |-> Nil]]
    /\ revived' = [revived EXCEPT ![r] = {}]
    /\ pc' = [c \in Call |-> IF at[c] = r THEN "idle" ELSE pc[c]]
    /\ at' = [c \in Call |-> IF at[c] = r THEN Nil ELSE at[c]]
    /\ key' = [c \in Call |-> IF at[c] = r THEN Nil ELSE key[c]]
    /\ val' = [c \in Call |-> IF at[c] = r THEN Nil ELSE val[c]]
    /\ Stage(r, "tick")
    /\ todo' = [todo EXCEPT ![r] = {}]
    /\ batch' = [batch EXCEPT ![r] = {}]
    /\ zrem' = [zrem EXCEPT ![r] = Nil]
    /\ hdel' = [hdel EXCEPT ![r] = Nil]
    /\ wipe' = [wipe EXCEPT ![r] = "idle"]
    /\ wiping' = [wiping EXCEPT ![r] = {}]
    /\ calm' = FALSE
    /\ UNCHANGED <<l1, index, usable, failing, gen, cleared>>

-----------------------------------------------------------------------------
CallStep(c) ==
    \/ \E r \in Replica, k \in Key : GetMissesL0(c, r, k) \/ SetL0(c, r, k)
    \/ GetHash(c) \/ Promote(c)
    \/ SetHash(c) \/ SetIndex(c) \/ SetFails(c)

SweepStep(r) ==
    \/ SampleIndex(r) \/ ReconcileFails(r)
    \/ EvictToCap(r) \/ SweepCandidates(r)
    \/ DeleteFromIndex(r) \/ DeleteHash(r) \/ DeletesDone(r)
    \/ \E k \in Key : CheckExists(r, k) \/ RemoveFromIndex(r, k) \/ DeleteL0(r, k)

ClearStep(r) ==
    \/ ClearL0(r) \/ ClearMeta(r) \/ ClearFails(r)
    \/ \E k \in Key : ClearHash(r, k)

Next ==
    \/ \E c \in Call : CallStep(c)
    \/ \E r \in Replica : SweepStep(r) \/ ClearStep(r) \/ HealthMonitor(r) \/ Crash(r)
    \/ \E r \in Replica, k \in Key : L0Drops(r, k)
    \/ \E k \in Key : L1Expires(k)
    \/ FailuresEnd

Spec == Init /\ [][Next]_vars

(* The sweep's ticker fires, and a sweep runs to its end: every round trip *)
(* ends by the client's timeout.                                           *)
FairSpec == Spec /\ \A r \in Replica : WF_sweepVars(SweepStep(r))

-----------------------------------------------------------------------------
(* Types of the tiers and of what is in progress.                          *)
TypeOK ==
    /\ l0 \in [Replica -> [Key -> Gen \cup {Nil}]]
    /\ l1 \in [Key -> Gen \cup {Nil}]
    /\ index \in SUBSET Key
    /\ usable \in SUBSET Replica
    /\ failing \in BOOLEAN
    /\ calm \in BOOLEAN
    /\ gen \in Gen
    /\ cleared \in [Replica -> Gen]
    /\ revived \in [Replica -> SUBSET Key]
    /\ pc \in [Call -> {"idle", "hgetall", "promote", "hset", "zadd"}]
    /\ at \in [Call -> Replica \cup {Nil}]
    /\ key \in [Call -> Key \cup {Nil}]
    /\ val \in [Call -> Gen \cup {Nil}]
    /\ \A c \in Call : /\ pc[c] # "idle" => at[c] # Nil /\ key[c] # Nil
                       /\ pc[c] \in {"promote", "hset", "zadd"} => val[c] # Nil
    /\ sweep \in [Replica -> {"tick", "exists", "unindex", "count",
                              "evict", "cold", "delete"}]
    /\ todo \in [Replica -> SUBSET Key]
    /\ batch \in [Replica -> SUBSET Key]
    /\ zrem \in [Replica -> Key \cup {Nil}]
    /\ hdel \in [Replica -> Key \cup {Nil}]
    /\ wipe \in [Replica -> {"idle", "dns"}]
    /\ wiping \in [Replica -> SUBSET Key]

(* docs/redis-key-schema.md: the index serves to "List cache keys by       *)
(* soft-expiry time for sweep".  An entry in Redis is in it, unless the    *)
(* call that stored the entry is about to add it or a DeleteCacheKey is    *)
(* about to delete it: otherwise neither the sweep nor EvictToCap sees the *)
(* entry.                                                                  *)
IndexCovers ==
    \A k \in Stored \ index :
       \/ \E c \in Call : pc[c] = "zadd" /\ key[c] = k
       \/ \E r \in Replica : hdel[r] = k

(* So it is, whatever stores, expirations, evictions and deletions         *)
(* interleave and in whichever mode, until something fails or orphan       *)
(* removal or ClearCache takes members out.  A ZREM that fails does no     *)
(* harm.                                                                   *)
IndexKept == calm => IndexCovers

(* redis.go, ClearCache: "removes all DNS cache entries and metadata from  *)
(* Redis [...] and clears the L0 LRU cache.  Use for a full cache reset".  *)
(* The L0 cache of the replica that ran it holds nothing from before, but  *)
(* for what a lookup that was under way has brought back from Redis.       *)
ClearIsComplete ==
    \A r \in Replica, k \in Key :
       l0[r][k] # Nil => l0[r][k] >= cleared[r] \/ k \in revived[r]

(* A member whose entry has expired does not stay for ever.                *)
OrphansGo ==
    <>[]~failing =>
       \A k \in Key : []<>(k \notin index \/ l1[k] # Nil)

(* Once stores have stopped, EvictToCap brings Redis under its cap and it  *)
(* stays there, though orphans in the index may be among the victims: as   *)
(* long as the entries are in the index, which is all EvictToCap looks at. *)
CapReached ==
    MaxKeys > 0
    /\ <>[](/\ ~failing
            /\ IndexCovers
            /\ \A c \in Call : pc[c] \notin {"hset", "zadd"})
       => <>[](Cardinality(Stored) <= MaxKeys)

(* What the sweeps are for.                                                *)
SweepsKeepUp == OrphansGo /\ CapReached
=============================================================================
