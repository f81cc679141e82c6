------------------------- MODULE RefreshCoordinator -------------------------
(***************************************************************************)
(* Background refresh of cached answers by several resolver replicas that  *)
(* share one Redis: scheduleRefresh and refreshCache of                    *)
(* internal/dnsresolver/resolver.go, the SERVFAIL tracker they consult     *)
(* (internal/dnsresolver/servfail_tracker.go), and the per-key refresh     *)
(* lock of internal/cache/redis.go.                                        *)
(*                                                                         *)
(* A call is one invocation of scheduleRefresh, by a cache hit or by the   *)
(* sweeper, together with the goroutine it starts.  Its steps are the      *)
(* points where it takes a mutex, a semaphore slot, or talks to Redis or   *)
(* to the upstream; steps of different calls and replicas interleave.      *)
(* Whether an entry is due (hot, warm, normal, stale, found by the sweep)  *)
(* is abstracted to "due".                                                 *)
(***************************************************************************)
EXTENDS Naturals, FiniteSets

CONSTANTS
    Replica,         (* resolver instances that share the Redis            *)
    Key,             (* cache keys outside the root zone                   *)
    Call,            (* calls of scheduleRefresh that can be in progress   *)
    Nil,             (* no replica, no key                                 *)
    MaxInflight,     (* refresh.max_inflight, slots of refreshSem          *)
    Threshold        (* servfail_refresh_threshold                         *)

ASSUME InflightAssumption == MaxInflight \in Nat \ {0}
ASSUME ThresholdAssumption == Threshold \in Nat \ {0}
ASSUME CallsAssumption == IsFiniteSet(Call)
ASSUME NilAssumption == Nil \notin Replica /\ Nil \notin Key

VARIABLES
    entry,    (* what the shared cache holds for each key                  *)
    lock,     (* the keys whose refresh lock exists in Redis               *)
    pc,       (* where each call is                                        *)
    at,       (* the replica each call in progress runs on                 *)
    key,      (* the key each call in progress is about                    *)
    sem,      (* slots of refreshSem in use, per replica                   *)
    backoff,  (* keys in SERVFAIL backoff, per replica                     *)
    count,    (* SERVFAILs counted by refreshes, per replica and key       *)
    usable,   (* the replicas for which canUseRedis() holds                *)
    disturbed (* a lock was lost to its holder: its TTL ran out, its key   *)
              (* was deleted, or its DEL was sent twice (history)          *)

vars == <<entry, lock, pc, at, key, sem, backoff, count, usable, disturbed>>

Steps == {"idle", "threshold", "backoff", "token", "lock", "exchange",
          "servfail", "store", "done", "unlock"}

(* Where a call owns a slot of the semaphore.                              *)
HasToken(c) == pc[c] \in {"lock", "exchange", "servfail", "store", "done"}

(* Where a call's SETNX has succeeded and its DEL has not been sent.       *)
HasLock(c) == pc[c] \in {"exchange", "servfail", "store", "done", "unlock"}

TokenHolders(r) == {c \in Call : HasToken(c) /\ at[c] = r}

Init ==
    /\ entry \in [Key -> {"absent", "fresh", "due"}]
    /\ lock = {}
    /\ pc = [c \in Call |-> "idle"]
    /\ at = [c \in Call |-> Nil]
    /\ key = [c \in Call |-> Nil]
    /\ sem = [r \in Replica |-> 0]
    /\ backoff = [r \in Replica |-> {}]
    /\ count = [r \in Replica |-> [k \in Key |-> 0]]
    /\ usable \in SUBSET Replica
    /\ disturbed = FALSE

Goto(c, step) == pc' = [pc EXCEPT ![c] = step] /\ UNCHANGED <<at, key>>

(* The call returns, or its goroutine ends.                                *)
Leave(c) ==
    /\ pc' = [pc EXCEPT ![c] = "idle"]
    /\ at' = [at EXCEPT ![c] = Nil]
    /\ key' = [key EXCEPT ![c] = Nil]

-----------------------------------------------------------------------------
(* scheduleRefresh                                                         *)

(* A hit, or the sweep, finds the entry due for refresh.                   *)
Decide(c, r, k) ==
    /\ pc[c] = "idle"
    /\ entry[k] = "due"
    /\ pc' = [pc EXCEPT ![c] = "threshold"]
    /\ at' = [at EXCEPT ![c] = r]
    /\ key' = [key EXCEPT ![c] = k]
    /\ UNCHANGED <<entry, lock, sem, backoff, count, usable, disturbed>>

(* Mutant of CheckThreshold: the count is not consulted.                   *)
CheckThresholdSkipped(c) ==
    /\ pc[c] = "threshold"
    /\ Goto(c, "backoff")
    /\ UNCHANGED <<entry, lock, sem, backoff, count, usable, disturbed>>

CheckThreshold(c) ==
    /\ pc[c] = "threshold"
    /\ IF count[at[c]][key[c]] >= Threshold THEN Leave(c) ELSE Goto(c, "backoff")
    /\ UNCHANGED <<entry, lock, sem, backoff, count, usable, disturbed>>

CheckBackoff(c) ==
    /\ pc[c] = "backoff"
    /\ IF key[c] \in backoff[at[c]] THEN Leave(c) ELSE Goto(c, "token")
    /\ UNCHANGED <<entry, lock, sem, backoff, count, usable, disturbed>>

(* The select with a default: a full semaphore gives the refresh up.       *)
TakeToken(c) ==
    /\ pc[c] = "token"
    /\ IF sem[at[c]] < MaxInflight
       THEN Goto(c, "lock") /\ sem' = [sem EXCEPT ![at[c]] = @ + 1]
       ELSE Leave(c) /\ UNCHANGED sem
    /\ UNCHANGED <<entry, lock, backoff, count, usable, disturbed>>

(* Mutant of LockGranted: SET in the place of SETNX.                       *)
LockGrantedAlways(c) ==
    /\ pc[c] = "lock"
    /\ at[c] \in usable
    /\ lock' = lock \cup {key[c]}
    /\ Goto(c, "exchange")
    /\ UNCHANGED <<entry, sem, backoff, count, usable, disturbed>>

(* SETNX finds no lock: the goroutine starts.                              *)
LockGranted(c) ==
    /\ pc[c] = "lock"
    /\ at[c] \in usable
    /\ key[c] \notin lock
    /\ lock' = lock \cup {key[c]}
    /\ Goto(c, "exchange")
    /\ UNCHANGED <<entry, sem, backoff, count, usable, disturbed>>

(* Mutant of LockRefused: the slot is not given back.                      *)
LockRefusedKeepsToken(c) ==
    /\ pc[c] = "lock"
    /\ \/ UNCHANGED lock
       \/ at[c] \in usable /\ lock' = lock \cup {key[c]}
    /\ Leave(c)
    /\ UNCHANGED <<entry, sem, backoff, count, usable, disturbed>>

(* Redis is not to be used, SETNX finds the lock, or it fails: the slot is *)
(* given back.  A SETNX whose reply is lost has still taken the lock, and  *)
(* the client's retry of it, or its error, reads as not acquired.          *)
LockRefused(c) ==
    /\ pc[c] = "lock"
    /\ \/ UNCHANGED lock
       \/ at[c] \in usable /\ lock' = lock \cup {key[c]}
    /\ sem' = [sem EXCEPT ![at[c]] = @ - 1]
    /\ Leave(c)
    /\ UNCHANGED <<entry, backoff, count, usable, disturbed>>

-----------------------------------------------------------------------------
(* refreshCache, in the goroutine                                          *)

(* A transport error or REFUSED: the entry stays as it is.                 *)
ExchangeFails(c) ==
    /\ pc[c] = "exchange"
    /\ Goto(c, "done")
    /\ UNCHANGED <<entry, lock, sem, backoff, count, usable, disturbed>>

(* SERVFAIL: RecordBackoff and IncrementCount lock the tracker separately. *)
ExchangeServfail(c) ==
    /\ pc[c] = "exchange"
    /\ backoff' = [backoff EXCEPT ![at[c]] = @ \cup {key[c]}]
    /\ Goto(c, "servfail")
    /\ UNCHANGED <<entry, lock, sem, count, usable, disturbed>>

CountServfail(c) ==
    /\ pc[c] = "servfail"
    /\ count' = [count EXCEPT ![at[c]][key[c]] = @ + 1]
    /\ Goto(c, "done")
    /\ UNCHANGED <<entry, lock, sem, backoff, usable, disturbed>>

(* An answer: ClearCount, then cacheSet, which may fail.                   *)
ExchangeAnswered(c) ==
    /\ pc[c] = "exchange"
    /\ count' = [count EXCEPT ![at[c]][key[c]] = 0]
    /\ Goto(c, "store")
    /\ UNCHANGED <<entry, lock, sem, backoff, usable, disturbed>>

Store(c) ==
    /\ pc[c] = "store"
    /\ entry' \in {entry, [entry EXCEPT ![key[c]] = "fresh"]}
    /\ Goto(c, "done")
    /\ UNCHANGED <<lock, sem, backoff, count, usable, disturbed>>

(* The deferred calls, last first: the slot, then the lock.                *)
ReturnToken(c) ==
    /\ pc[c] = "done"
    /\ sem' = [sem EXCEPT ![at[c]] = @ - 1]
    /\ Goto(c, "unlock")
    /\ UNCHANGED <<entry, lock, backoff, count, usable, disturbed>>

(* Mutant of ReleaseRefresh: it waits for Redis to come back.              *)
ReleaseRefreshWaits(c) ==
    /\ pc[c] = "unlock"
    /\ at[c] \in usable
    /\ lock' = lock \ {key[c]}
    /\ Leave(c)
    /\ UNCHANGED <<entry, sem, backoff, count, usable, disturbed>>

(* DEL of the lock, whoever holds it by now; nothing when Redis is not to  *)
(* be used, and an error is ignored.                                       *)
ReleaseRefresh(c) ==
    /\ pc[c] = "unlock"
    /\ \/ UNCHANGED lock
       \/ at[c] \in usable /\ lock' = lock \ {key[c]}
    /\ Leave(c)
    /\ UNCHANGED <<entry, sem, backoff, count, usable, disturbed>>

(* The reply to that DEL is lost: the client (MaxRetries: 3) sends it again *)
ReleaseRetried(c) ==
    /\ pc[c] = "unlock"
    /\ at[c] \in usable
    /\ lock' = lock \ {key[c]}
    /\ disturbed' = TRUE
    /\ UNCHANGED <<entry, pc, at, key, sem, backoff, count, usable>>

-----------------------------------------------------------------------------
(* What goes on beside the refreshes                                       *)

Loses(k) == disturbed' = (disturbed \/ \E c \in Call : HasLock(c) /\ key[c] = k)

(* The TTL that TryAcquireRefresh gave the lock runs out, be it before the *)
(* refresh is over.                                                        *)
LockExpires(k) ==
    /\ k \in lock
    /\ lock' = lock \ {k}
    /\ Loses(k)
    /\ UNCHANGED <<entry, pc, at, key, sem, backoff, count, usable>>

(* A sweep of some replica deletes a key, because it is cold or the cache *)
(* over its cap, or ClearCache does: the key's metadata goes along, the    *)
(* refresh lock included.                                                  *)
DeleteCacheKey(k) ==
    /\ usable # {}
    /\ entry' = [entry EXCEPT ![k] = "absent"]
    /\ lock' = lock \ {k}
    /\ Loses(k)
    /\ UNCHANGED <<pc, at, key, sem, backoff, count, usable>>

(* A query that missed the cache gets SERVFAIL from the upstream.  Its     *)
(* exchange began at some earlier time, whatever the entry is by now.      *)
MissServfail(r, k) ==
    /\ backoff' = [backoff EXCEPT ![r] = @ \cup {k}]
    /\ UNCHANGED <<entry, lock, pc, at, key, sem, count, usable, disturbed>>

(* A query that missed the cache is answered, and the answer cached.       *)
MissAnswered(r, k) ==
    /\ entry' = [entry EXCEPT ![k] = "fresh"]
    /\ UNCHANGED <<lock, pc, at, key, sem, backoff, count, usable, disturbed>>

(* Time: an entry becomes due, then unservable; a backoff runs out.        *)
EntryAges(k) ==
    /\ entry' = [entry EXCEPT ![k] = IF @ = "fresh" THEN "due" ELSE "absent"]
    /\ UNCHANGED <<lock, pc, at, key, sem, backoff, count, usable, disturbed>>

BackoffExpires(r, k) ==
    /\ backoff' = [backoff EXCEPT ![r] = @ \ {k}]
    /\ UNCHANGED <<entry, lock, pc, at, key, sem, count, usable, disturbed>>

(* The health monitor of one replica enters or leaves degraded mode.       *)
HealthMonitor(r) ==
    /\ usable' = IF r \in usable THEN usable \ {r} ELSE usable \cup {r}
    /\ UNCHANGED <<entry, lock, pc, at, key, sem, backoff, count, disturbed>>

(* A replica dies and starts again: its goroutines, its semaphore and its  *)
(* SERVFAIL tracker are gone, the locks it took in Redis are not.          *)
Crash(r) ==
    /\ pc' = [c \in Call |-> IF at[c] = r THEN "idle" ELSE pc[c]]
    /\ at' = [c \in Call |-> IF at[c] = r THEN Nil ELSE at[c]]
    /\ key' = [c \in Call |-> IF at[c] = r THEN Nil ELSE key[c]]
    /\ sem' = [sem EXCEPT ![r] = 0]
    /\ backoff' = [backoff EXCEPT ![r] = {}]
    /\ count' = [count EXCEPT ![r] = [k \in Key |-> 0]]
    /\ UNCHANGED <<entry, lock, usable, disturbed>>

-----------------------------------------------------------------------------
CallStep(c) ==
    \/ CheckThreshold(c) \/ CheckBackoff(c) \/ TakeToken(c)
    \/ LockGranted(c) \/ LockRefused(c)
    \/ ExchangeFails(c) \/ ExchangeServfail(c) \/ CountServfail(c)
    \/ ExchangeAnswered(c) \/ Store(c)
    \/ ReturnToken(c) \/ ReleaseRefresh(c)

Next ==
    \/ \E c \in Call : \/ \E r \in Replica, k \in Key : Decide(c, r, k)
                       \/ CallStep(c)
                       \/ ReleaseRetried(c)
    \/ \E k \in Key : LockExpires(k) \/ DeleteCacheKey(k) \/ EntryAges(k)
    \/ \E r \in Replica, k \in Key :
          MissServfail(r, k) \/ MissAnswered(r, k) \/ BackoffExpires(r, k)
    \/ \E r \in Replica : HealthMonitor(r) \/ Crash(r)

Spec == Init /\ [][Next]_vars

(* Goroutines are scheduled, an exchange ends by its timeout at the latest *)
(* and a lock that nothing renews runs out.                                *)
FairSpec ==
    /\ Spec
    /\ \A c \in Call : WF_pc(CallStep(c))
    /\ \A k \in Key : WF_lock(LockExpires(k))

-----------------------------------------------------------------------------
(* Types of the coordination state, in every replica and in Redis.         *)
TypeOK ==
    /\ entry \in [Key -> {"absent", "fresh", "due"}]
    /\ lock \in SUBSET Key
    /\ pc \in [Call -> Steps]
    /\ at \in [Call -> Replica \cup {Nil}]
    /\ key \in [Call -> Key \cup {Nil}]
    /\ \A c \in Call : pc[c] # "idle" => at[c] # Nil /\ key[c] # Nil
    /\ sem \in [Replica -> Nat]
    /\ backoff \in [Replica -> SUBSET Key]
    /\ count \in [Replica -> [Key -> Nat]]
    /\ usable \in SUBSET Replica
    /\ disturbed \in BOOLEAN

(* Every path out of scheduleRefresh and its goroutine gives back the slot *)
(* it took, and takes no other: a leaked slot would for ever lower the     *)
(* replica's refresh capacity.                                             *)
TokensExact == \A r \in Replica : sem[r] = Cardinality(TokenHolders(r))

(* max_inflight bounds the upstream exchanges of refreshes in progress on  *)
(* one replica.                                                            *)
InflightBounded ==
    \A r \in Replica :
       Cardinality({c \in Call : at[c] = r /\ pc[c] = "exchange"}) <= MaxInflight

(* docs/performance.md: "No stampede: Only one instance refreshes each     *)
(* key".  From SETNX to DEL no two calls, of any replicas, are about the   *)
(* same key.                                                               *)
OneRefreshPerKey ==
    \A c, d \in Call : HasLock(c) /\ HasLock(d) /\ key[c] = key[d] => c = d

(* The lock keeps its promise until one runs out under its holder, a       *)
(* delete of the key takes it along, or a DEL is sent twice.               *)
OneRefreshWhileLockHolds == ~disturbed => OneRefreshPerKey

(* Calls that read the count before it reached the threshold may still add *)
(* to it; with those accounted for, retries stop at the threshold.         *)
OnItsWay(c) ==
    pc[c] \in {"backoff", "token", "lock", "exchange", "servfail"}

RetriesStop ==
    \A r \in Replica, k \in Key :
       count[r][k] + Cardinality({c \in Call : OnItsWay(c) /\ at[c] = r /\ key[c] = k})
          < Threshold + Cardinality(Call)

(* No call is stuck, whatever Redis and the upstream do.                   *)
CallsFinish == \A c \in Call : []<>(pc[c] = "idle")

(* A lock left behind by a crash, by a degraded replica or by a failed DEL *)
(* does not bar the key from refresh for ever.                             *)
LocksGoAway == \A k \in Key : []<>(k \notin lock)

(* Both: what has begun is over some time, in the process and in Redis.    *)
NothingStuck == CallsFinish /\ LocksGoAway
=============================================================================
