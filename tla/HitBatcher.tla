----------------------------- MODULE HitBatcher -----------------------------
(***************************************************************************)
(* Batching of hit counts on their way to Redis:                           *)
(* internal/cache/hit_batcher.go.  Goroutines of queries add increments    *)
(* under a mutex and flush when a batch is full; the batcher's own         *)
(* goroutine flushes on a ticker and when it is stopped; the refresh sweep *)
(* flushes before it reads the counts.                                     *)
(*                                                                         *)
(* An increment is an identity with a kind and a key, and the two pending  *)
(* maps are the set of increments in them, so that one that is lost or     *)
(* counted twice shows.                                                    *)
(***************************************************************************)
EXTENDS CacheKeys, Naturals, FiniteSets

CONSTANTS
    Inc,         (* increments that are ever added: bounds the behaviour   *)
    Caller,      (* goroutines that call addHitFireAndForget, addSweepHit  *)
    Runner,      (* the goroutine of run                                   *)
    Sweeper,     (* the goroutine of the refresh sweep                     *)
    BatchSize,   (* hitBatchMaxSize, in keys                               *)
    Failures     (* a pipeline can fail                                    *)

Thread == Caller \cup {Runner, Sweeper}
Kind == {"hit", "sweep"}

ASSUME BatchAssumption == BatchSize \in Nat \ {0}
ASSUME FiniteAssumption == IsFiniteSet(Caller) /\ IsFiniteSet(Inc)
ASSUME ThreadAssumption ==
    Runner \notin Caller /\ Sweeper \notin Caller /\ Runner # Sweeper
ASSUME KindAssumption == Nil \notin Kind

VARIABLES
    keyOf,     (* the key of each increment added so far                   *)
    kindOf,    (* and the map it was added to                              *)
    pending,   (* increments in hitPending and sweepPending                *)
    snap,      (* increments each thread has taken out to flush            *)
    applied,   (* how often INCRBY has counted each increment              *)
    lost,      (* increments of a pipeline that failed                     *)
    stage,     (* where each thread is                                     *)
    stopping,  (* stopCh is closed                                         *)
    last,      (* run has seen that and is in its last flush               *)
    owed       (* increments that were pending when the sweep called Flush *)

batcherVars == <<keyOf, kindOf, pending, snap, applied, lost, stage, stopping, last, owed>>

Pending(kind) == {i \in pending : kindOf[i] = kind}
PendingKeys(kind) == {keyOf[i] : i \in Pending(kind)}
Flushing(t) == {i \in snap[t] : kindOf[i] = stage[t]}

BatcherInit ==
    /\ keyOf = [i \in Inc |-> Nil]
    /\ kindOf = [i \in Inc |-> Nil]
    /\ pending = {}
    /\ snap = [t \in Thread |-> {}]
    /\ applied = [i \in Inc |-> 0]
    /\ lost = {}
    /\ stage = [t \in Thread |-> "idle"]
    /\ stopping = FALSE
    /\ last = FALSE
    /\ owed = {}

Goto(t, step) == stage' = [stage EXCEPT ![t] = step]

(* Where a thread goes when it has flushed, or found nothing to flush.     *)
Flushed(t) ==
    Goto(t, IF t = Sweeper THEN "counts"
            ELSE IF t = Runner /\ last THEN "stopped" ELSE "idle")

(* addHitFireAndForget, addSweepHit.                                       *)
Add(c, i, k, kind) ==
    /\ stage[c] = "idle"
    /\ keyOf[i] = Nil
    /\ keyOf' = [keyOf EXCEPT ![i] = k]
    /\ kindOf' = [kindOf EXCEPT ![i] = kind]
    /\ pending' = pending \cup {i}
    /\ Goto(c, IF Cardinality(PendingKeys(kind) \cup {k}) >= BatchSize
               THEN "flush" ELSE "idle")
    /\ UNCHANGED <<snap, applied, lost, stopping, last, owed>>

(* run's select: the ticker, or, once stopCh is closed, the last flush.    *)
Tick ==
    /\ stage[Runner] = "idle"
    /\ Goto(Runner, "flush")
    /\ UNCHANGED <<keyOf, kindOf, pending, snap, applied, lost, stopping, last, owed>>

(* Mutant of FlushAll: run returns without a last flush.                   *)
FlushAllSkipped ==
    /\ stage[Runner] = "idle"
    /\ stopping
    /\ Goto(Runner, "stopped")
    /\ last' = TRUE
    /\ UNCHANGED <<keyOf, kindOf, pending, snap, applied, lost, stopping, owed>>

FlushAll ==
    /\ stage[Runner] = "idle"
    /\ stopping
    /\ Goto(Runner, "flush")
    /\ last' = TRUE
    /\ UNCHANGED <<keyOf, kindOf, pending, snap, applied, lost, stopping, owed>>

Stop ==
    /\ ~stopping
    /\ stopping' = TRUE
    /\ UNCHANGED <<keyOf, kindOf, pending, snap, applied, lost, stage, last, owed>>

(* sweepRefresh calls Flush.                                               *)
SweepFlush ==
    /\ stage[Sweeper] = "idle"
    /\ Goto(Sweeper, "flush")
    /\ owed' = {i \in Inc : keyOf[i] # Nil}
    /\ UNCHANGED <<keyOf, kindOf, pending, snap, applied, lost, stopping, last>>

(* Mutant of TakePending: the maps are read but not replaced.              *)
TakePendingKeeps(t) ==
    /\ stage[t] = "flush"
    /\ IF pending = {}
       THEN Flushed(t) /\ UNCHANGED snap
       ELSE Goto(t, "hit") /\ snap' = [snap EXCEPT ![t] = pending]
    /\ UNCHANGED <<keyOf, kindOf, pending, applied, lost, stopping, last, owed>>

(* maybeFlush, under the mutex: both maps are taken and replaced.          *)
TakePending(t) ==
    /\ stage[t] = "flush"
    /\ IF pending = {}
       THEN Flushed(t) /\ UNCHANGED <<snap, pending>>
       ELSE /\ Goto(t, "hit")
            /\ snap' = [snap EXCEPT ![t] = pending]
            /\ pending' = {}
    /\ UNCHANGED <<keyOf, kindOf, applied, lost, stopping, last, owed>>

(* flushHits, then flushSweepHits: one pipeline each.  Some INCRBYs of a   *)
(* pipeline that fails have been carried out; no increment is retried.     *)
Exec(t) ==
    /\ stage[t] \in Kind
    /\ \E failed \in SUBSET {keyOf[i] : i \in Flushing(t)} :
          /\ Failures \/ failed = {}
          /\ applied' = [i \in Inc |-> IF i \in Flushing(t) /\ keyOf[i] \notin failed
                                       THEN applied[i] + 1 ELSE applied[i]]
          /\ lost' = lost \cup {i \in Flushing(t) : keyOf[i] \in failed}
    /\ snap' = [snap EXCEPT ![t] = @ \ Flushing(t)]
    /\ IF stage[t] = "hit" THEN Goto(t, "sweep") ELSE Flushed(t)
    /\ UNCHANGED <<keyOf, kindOf, pending, stopping, last, owed>>

(* The sweep reads the counts, deletes what is cold, and is done.          *)
ReadCounts ==
    /\ stage[Sweeper] = "counts"
    /\ Goto(Sweeper, "idle")
    /\ owed' = {}
    /\ UNCHANGED <<keyOf, kindOf, pending, snap, applied, lost, stopping, last>>

BatcherNext ==
    \/ \E c \in Caller, i \in Inc, k \in Key, kind \in Kind : Add(c, i, k, kind)
    \/ Tick \/ FlushAll \/ Stop \/ SweepFlush \/ ReadCounts
    \/ \E t \in Thread : TakePending(t) \/ Exec(t)

BatcherSpec == BatcherInit /\ [][BatcherNext]_batcherVars

(* The ticker fires, goroutines run, and a pipeline ends by its 2 seconds. *)
BatcherFairSpec ==
    /\ BatcherSpec
    /\ WF_batcherVars(Tick \/ FlushAll)
    /\ WF_batcherVars(TakePending(Runner) \/ Exec(Runner))

-----------------------------------------------------------------------------
(* Types of the increments and of the threads that carry them.             *)
BatcherTypeOK ==
    /\ keyOf \in [Inc -> Key \cup {Nil}]
    /\ kindOf \in [Inc -> Kind \cup {Nil}]
    /\ pending \in SUBSET Inc
    /\ snap \in [Thread -> SUBSET Inc]
    /\ applied \in [Inc -> Nat]
    /\ lost \in SUBSET Inc
    /\ stage \in [Thread -> {"idle", "flush", "hit", "sweep", "counts", "stopped"}]
    /\ \A t \in Thread :
          /\ stage[t] = "counts" => t = Sweeper
          /\ stage[t] = "stopped" => t = Runner
    /\ stopping \in BOOLEAN
    /\ last \in BOOLEAN
    /\ owed \in SUBSET Inc

(* Every hit that was added is in one place: pending, in the hands of one  *)
(* flush, counted once in Redis, or lost with a pipeline that failed.  No  *)
(* race of flushes counts one twice or drops one.                          *)
InHand(i) == \E t \in Thread : i \in snap[t]

HitsAccounted ==
    /\ \A i \in Inc :
          /\ keyOf[i] # Nil => i \in pending \/ InHand(i) \/ applied[i] = 1 \/ i \in lost
          /\ i \in pending => ~InHand(i)
          /\ i \in pending \/ InHand(i) => applied[i] = 0 /\ i \notin lost
          /\ i \in lost => applied[i] = 0
          /\ applied[i] <= 1
    /\ \A t, u \in Thread : t # u => snap[t] \cap snap[u] = {}

(* Backpressure without a wait: a map reaches the size of a batch only     *)
(* while callers are about to flush it, and each of those lets it grow by  *)
(* one key.                                                                *)
Flushers == {c \in Caller : stage[c] = "flush"}

BacklogBounded ==
    \A kind \in Kind :
       Cardinality(PendingKeys(kind)) < BatchSize + Cardinality(Flushers)

(* When the sweep reads the counts, a hit that was served before it called *)
(* Flush is missing only if another flush has it in hand or it was lost.   *)
FlushLeavesInHand ==
    stage[Sweeper] = "counts" =>
       \A i \in owed : \/ applied[i] = 1 \/ i \in lost
                       \/ \E t \in Thread \ {Sweeper} : i \in snap[t]

(* An increment that was added before the batcher is stopped does not stay *)
(* pending for ever: the last flush takes what the ticker has left.        *)
PendingFlushed ==
    \A i \in Inc : i \in pending /\ ~stopping ~> i \notin pending
=============================================================================
