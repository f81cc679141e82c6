----------------------------- MODULE SieveCache -----------------------------
(***************************************************************************)
(* One shard of the in-memory (L0) DNS cache: LRUCache in                  *)
(* internal/cache/lru.go.  The shard is a doubly linked list `ll` (front = *)
(* newest), a map `cache` from key to list element, and the SIEVE `hand`,  *)
(* a pointer to the next eviction candidate that walks from back to front. *)
(*                                                                         *)
(* List elements are heap objects with an identity (Elem).  An element     *)
(* that has left the list keeps its contents for as long as the hand still *)
(* points at it; only an element nothing refers to is allocated again.     *)
(*                                                                         *)
(* Time is abstracted to what the code compares: an entry has passed its   *)
(* hard expiry or it has not.                                              *)
(***************************************************************************)
EXTENDS CacheKeys, Naturals, Sequences, SequencesExt

CONSTANTS
    Elem,        (* identities of list elements                            *)
    MaxEntries   (* capacity of the shard                                  *)

ASSUME CapacityAssumption == MaxEntries \in Nat \ {0}
ASSUME ElemAssumption == Nil \notin Elem

VARIABLES
    ll,        (* the list, front first                                    *)
    cache,     (* key -> element, Nil when the key is absent               *)
    ent,       (* contents of every element                                *)
    hand,      (* the SIEVE hand                                           *)
    lock,      (* what the goroutine holding c.mu is doing                 *)
    setting,   (* the key of the Set that is evicting, else Nil            *)
    expiring   (* keys of Gets between RUnlock and Lock on an expired hit  *)

l0Vars == <<ll, cache, ent, hand, lock, setting, expiring>>

Entry == [key : Key, visited : BOOLEAN, expired : BOOLEAN]

InList(e) == \E i \in DOMAIN ll : ll[i] = e

Back == ll[Len(ll)]

(* list.Element.Prev: nil at the front of the list, and nil for an element *)
(* that is no longer in it.                                                *)
Prev(e) ==
    IF \E i \in 2..Len(ll) : ll[i] = e
    THEN ll[(CHOOSE i \in 2..Len(ll) : ll[i] = e) - 1]
    ELSE Nil

(* list.Remove: unlinks e, and does nothing when e is not in the list.     *)
Unlink(e) ==
    IF InList(e)
    THEN RemoveAt(ll, CHOOSE i \in DOMAIN ll : ll[i] = e)
    ELSE ll

(* Mutant of MapWithout: the element is unlinked, the map keeps it.        *)
MapWithoutForgotten(e) == cache

(* delete(c.cache, entry.key) in removeElement: by the key the element     *)
(* carries, whatever element the map holds for that key.                   *)
MapWithout(e) == [cache EXCEPT ![ent[e].key] = Nil]

(* removeElement *)
RemoveElement(e) ==
    /\ ll' = Unlink(e)
    /\ cache' = MapWithout(e)

L0Init ==
    /\ ll = <<>>
    /\ cache = [k \in Key |-> Nil]
    /\ ent \in [Elem -> Entry]
    /\ hand = Nil
    /\ lock = "free"
    /\ setting = Nil
    /\ expiring = {}

(* The hard expiry of an entry passes.  Operations read the clock once,    *)
(* while they hold the lock, so an entry never expires inside one.         *)
Expire(e) ==
    /\ lock = "free"
    /\ InList(e)
    /\ ~ent[e].expired
    /\ ent' = [ent EXCEPT ![e].expired = TRUE]
    /\ UNCHANGED <<ll, cache, hand, lock, setting, expiring>>

(* Get of a live entry: the read lock only, one atomic store.              *)
GetHit(k) ==
    /\ lock = "free"
    /\ cache[k] # Nil
    /\ ~ent[cache[k]].expired
    /\ ent' = [ent EXCEPT ![cache[k]].visited = TRUE]
    /\ UNCHANGED <<ll, cache, hand, lock, setting, expiring>>

(* Get of an expired entry gives up the read lock before it takes the      *)
(* write lock ...                                                          *)
GetExpired(k) ==
    /\ lock = "free"
    /\ cache[k] # Nil
    /\ ent[cache[k]].expired
    /\ expiring' = expiring \cup {k}
    /\ UNCHANGED <<ll, cache, ent, hand, lock, setting>>

(* ... and looks the key up again under it: an entry that was Set in       *)
(* between has a later expiry and stays.  (One that was Set and has run    *)
(* out again by now is left to the next Get; that Get's removal and this   *)
(* one's leave the same state.)                                            *)
GetRemove(k) ==
    /\ lock = "free"
    /\ k \in expiring
    /\ expiring' = expiring \ {k}
    /\ IF cache[k] # Nil /\ ent[cache[k]].expired
       THEN RemoveElement(cache[k])
       ELSE UNCHANGED <<ll, cache>>
    /\ UNCHANGED <<ent, hand, lock, setting>>

(* Set / SetWithStoredTTL of a key that is present: updated in place.      *)
SetExisting(k) ==
    /\ lock = "free"
    /\ cache[k] # Nil
    /\ ent' = [ent EXCEPT ![cache[k]].expired = FALSE, ![cache[k]].visited = TRUE]
    /\ UNCHANGED <<ll, cache, hand, lock, setting, expiring>>

(* Mutant of SetNew: the capacity test of Set's loop is off by one.        *)
SetNewOffByOne(k, e) ==
    /\ lock = "free"
    /\ cache[k] = Nil
    /\ ~InList(e)
    /\ e # hand
    /\ ent' = [ent EXCEPT ![e] = [key |-> k, visited |-> TRUE, expired |-> FALSE]]
    /\ ll' = <<e>> \o ll
    /\ cache' = [cache EXCEPT ![k] = e]
    /\ IF Len(ll) > MaxEntries
       THEN lock' = "evict" /\ setting' = k
       ELSE UNCHANGED <<lock, setting>>
    /\ UNCHANGED <<hand, expiring>>

(* Set of a new key: pushed at the front, then evictOne while the list is  *)
(* over capacity; the write lock is kept throughout.                       *)
SetNew(k, e) ==
    /\ lock = "free"
    /\ cache[k] = Nil
    /\ ~InList(e)
    /\ e # hand
    /\ ent' = [ent EXCEPT ![e] = [key |-> k, visited |-> TRUE, expired |-> FALSE]]
    /\ ll' = <<e>> \o ll
    /\ cache' = [cache EXCEPT ![k] = e]
    /\ IF Len(ll) + 1 > MaxEntries
       THEN lock' = "evict" /\ setting' = k
       ELSE UNCHANGED <<lock, setting>>
    /\ UNCHANGED <<hand, expiring>>

(* Where the hand goes from e: towards the front, wrapping to the back.    *)
NextHand(e) == IF Prev(e) = Nil THEN Back ELSE Prev(e)

(* Mutant of EvictStep: the visited bit of a passed element is not cleared. *)
EvictStepKeepsVisited ==
    /\ lock = "evict"
    /\ LET h == IF hand = Nil THEN Back ELSE hand
       IN  /\ hand' = NextHand(h)
           /\ IF ent[h].visited
              THEN UNCHANGED <<ll, cache, lock, setting>>
              ELSE /\ RemoveElement(h)
                   /\ IF Len(ll') > MaxEntries
                      THEN UNCHANGED <<lock, setting>>
                      ELSE lock' = "free" /\ setting' = Nil
    /\ UNCHANGED <<ent, expiring>>

(* One turn of the loop of evictOne, at the element the hand points at: a  *)
(* visited one gets a second chance, an unvisited one is removed.          *)
EvictStep ==
    /\ lock = "evict"
    /\ LET h == IF hand = Nil THEN Back ELSE hand
       IN  /\ hand' = NextHand(h)
           /\ IF ent[h].visited
              THEN /\ ent' = [ent EXCEPT ![h].visited = FALSE]
                   /\ UNCHANGED <<ll, cache, lock, setting>>
              ELSE /\ RemoveElement(h)
                   /\ IF Len(ll') > MaxEntries
                      THEN UNCHANGED <<lock, setting>>
                      ELSE lock' = "free" /\ setting' = Nil
                   /\ UNCHANGED ent
    /\ UNCHANGED expiring

Delete(k) ==
    /\ lock = "free"
    /\ cache[k] # Nil
    /\ RemoveElement(cache[k])
    /\ UNCHANGED <<ent, hand, lock, setting, expiring>>

Clear ==
    /\ lock = "free"
    /\ ll' = <<>>
    /\ cache' = [k \in Key |-> Nil]
    /\ hand' = Nil
    /\ UNCHANGED <<ent, lock, setting, expiring>>

(* CleanExpired walks the list from the front under the write lock and     *)
(* removes every expired element.                                          *)
CleanStart ==
    /\ lock = "free"
    /\ lock' = "clean"
    /\ UNCHANGED <<ll, cache, ent, hand, setting, expiring>>

CleanStep ==
    /\ lock = "clean"
    /\ \E i \in DOMAIN ll :
          /\ ent[ll[i]].expired
          /\ \A j \in 1..(i - 1) : ~ent[ll[j]].expired
          /\ RemoveElement(ll[i])
    /\ UNCHANGED <<ent, hand, lock, setting, expiring>>

CleanEnd ==
    /\ lock = "clean"
    /\ \A i \in DOMAIN ll : ~ent[ll[i]].expired
    /\ lock' = "free"
    /\ UNCHANGED <<ll, cache, ent, hand, setting, expiring>>

L0Next ==
    \/ \E e \in Elem : Expire(e)
    \/ \E k \in Key : \/ GetHit(k) \/ GetExpired(k) \/ GetRemove(k)
                      \/ SetExisting(k) \/ Delete(k)
                      \/ \E e \in Elem : SetNew(k, e)
    \/ EvictStep
    \/ Clear
    \/ CleanStart \/ CleanStep \/ CleanEnd

L0Spec == L0Init /\ [][L0Next]_l0Vars

(* A goroutine that holds the lock is scheduled again.                     *)
L0FairSpec == L0Spec /\ WF_l0Vars(EvictStep) /\ WF_l0Vars(CleanStep) /\ WF_l0Vars(CleanEnd)

-----------------------------------------------------------------------------
(* Types of the state of an LRUCache shard, and: an eviction belongs to a  *)
(* Set in progress.                                                        *)
L0TypeOK ==
    /\ ll \in Seq(Elem)
    /\ cache \in [Key -> Elem \cup {Nil}]
    /\ ent \in [Elem -> Entry]
    /\ hand \in Elem \cup {Nil}
    /\ lock \in {"free", "evict", "clean"}
    /\ setting \in Key \cup {Nil}
    /\ (lock = "evict") = (setting # Nil)
    /\ expiring \in SUBSET Key

(* The map never leads a Get to an element that has left the list, or to   *)
(* one that carries another key: what Get serves is an entry that eviction *)
(* and CleanExpired can still reach, whatever the dangling hand removed.   *)
MapPointsIntoList ==
    \A k \in Key : cache[k] # Nil => InList(cache[k]) /\ ent[cache[k]].key = k

(* Outside Set's eviction loop the shard is within its capacity; inside it *)
(* the list is over by exactly the entry being inserted.  Orphans count:   *)
(* the bound is on the list, which is what holds the memory.               *)
CapacityRespected ==
    Len(ll) <= IF lock = "evict" THEN MaxEntries + 1 ELSE MaxEntries

(* evictOne's walk ends: clearing visited bits on the way round, the hand  *)
(* finds a victim, even when it starts from an element that is gone.       *)
EvictionTerminates == lock = "evict" ~> lock = "free"

(* lru.go: "Set adds or updates a DNS message in the cache".  When Set     *)
(* releases the lock, the key it stored is in the map.                     *)
SetStoresKey ==
    [][lock = "evict" /\ lock' = "free" => cache'[setting] # Nil]_l0Vars
=============================================================================
