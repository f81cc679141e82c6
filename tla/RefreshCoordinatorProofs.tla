---------------------- MODULE RefreshCoordinatorProofs ----------------------
(* Theorems about RefreshCoordinator, for any number of replicas, keys and *)
(* calls, any max_inflight and any threshold.                              *)
EXTENDS RefreshCoordinator, FiniteSetTheorems, TLAPS

(* A call between SETNX and DEL has its lock in Redis.  It is inductive    *)
(* only while no lock is lost to its holder.                               *)
HoldersLocked == \A c \in Call : HasLock(c) => key[c] \in lock

SlotsBounded == \A r \in Replica : sem[r] <= MaxInflight

IInv ==
    /\ TypeOK
    /\ TokensExact
    /\ SlotsBounded
    /\ ~disturbed => HoldersLocked /\ OneRefreshPerKey

LEMMA HoldersFinite ==
    ASSUME NEW r
    PROVE  IsFiniteSet(TokenHolders(r)) /\ Cardinality(TokenHolders(r)) \in Nat
  BY CallsAssumption, FS_Subset, FS_CardinalityType DEF TokenHolders

(* Steps that neither take nor give back a slot.                           *)
LEMMA SameHolders ==
    ASSUME TokensExact, sem' = sem,
           \A c \in Call : HasToken(c)' = HasToken(c),
           \A c \in Call : HasToken(c) => at'[c] = at[c]
    PROVE  TokensExact'
<1>1. \A r \in Replica : TokenHolders(r)' = TokenHolders(r)
  BY DEF TokenHolders
<1>2. QED
  BY <1>1 DEF TokensExact

(* A call takes a slot on its replica.                                     *)
LEMMA HolderJoins ==
    ASSUME TypeOK, TokensExact, NEW c \in Call, at[c] \in Replica,
           ~HasToken(c), HasToken(c)', UNCHANGED at,
           \A d \in Call \ {c} : HasToken(d)' = HasToken(d),
           sem' = [sem EXCEPT ![at[c]] = @ + 1]
    PROVE  TokensExact'
<1>1. ASSUME NEW r \in Replica, r # at[c]
      PROVE  sem'[r] = Cardinality(TokenHolders(r)')
  <2>1. TokenHolders(r)' = TokenHolders(r)
    BY <1>1 DEF TokenHolders
  <2>2. QED
    BY <1>1, <2>1 DEF TokensExact, TypeOK
<1>2. sem'[at[c]] = Cardinality(TokenHolders(at[c])')
  <2> DEFINE T == TokenHolders(at[c])
  <2>1. IsFiniteSet(T) /\ Cardinality(T) \in Nat /\ c \notin T
    BY HoldersFinite DEF TokenHolders
  <2>2. Cardinality(T \cup {c}) = Cardinality(T) + 1
    BY <2>1, FS_AddElement
  <2>3. sem'[at[c]] = Cardinality(T) + 1
    BY DEF TypeOK, TokensExact
  <2>4. TokenHolders(at[c])' = T \cup {c}
    BY DEF TokenHolders
  <2>5. QED
    BY <2>2, <2>3, <2>4
<1>3. QED
  BY <1>1, <1>2 DEF TokensExact

(* A call gives its slot back.                                             *)
LEMMA HolderLeaves ==
    ASSUME TypeOK, TokensExact, NEW c \in Call, at[c] \in Replica,
           HasToken(c), ~HasToken(c)',
           \A d \in Call \ {c} : HasToken(d)' = HasToken(d) /\ at'[d] = at[d],
           sem' = [sem EXCEPT ![at[c]] = @ - 1]
    PROVE  TokensExact' /\ sem' \in [Replica -> Nat]
<1>1. ASSUME NEW r \in Replica, r # at[c]
      PROVE  sem'[r] = Cardinality(TokenHolders(r)')
  <2>1. TokenHolders(r)' = TokenHolders(r)
    BY <1>1 DEF TokenHolders
  <2>2. QED
    BY <1>1, <2>1 DEF TokensExact, TypeOK
<1> DEFINE T == TokenHolders(at[c])
<1>2. IsFiniteSet(T) /\ Cardinality(T) \in Nat /\ c \in T
  BY HoldersFinite DEF TokenHolders
<1>3. Cardinality(T \ {c}) = Cardinality(T) - 1 /\ IsFiniteSet(T \ {c})
  BY <1>2, FS_RemoveElement
<1>4. Cardinality(T \ {c}) \in Nat
  BY <1>3, FS_CardinalityType
<1>5. sem'[at[c]] = Cardinality(T) - 1
  BY DEF TypeOK, TokensExact
<1>6. {d \in Call : HasToken(d)' /\ at'[d] = at[c]} = T \ {c}
  BY DEF TokenHolders
<1>7. \A r \in Replica : TokenHolders(r)' = {d \in Call : HasToken(d)' /\ at'[d] = r}
  BY DEF TokenHolders
<1>8. \A r \in Replica : sem'[r] = Cardinality({d \in Call : HasToken(d)' /\ at'[d] = r})
  BY <1>1, <1>3, <1>5, <1>6, <1>7
<1>9. TokensExact'
  BY <1>7, <1>8 DEF TokensExact
<1>10. sem' \in [Replica -> Nat]
  BY <1>3, <1>4, <1>5 DEF TypeOK
<1>11. QED
  BY <1>9, <1>10

LEMMA InitIInv == Init => IInv
<1> SUFFICES ASSUME Init PROVE IInv
  OBVIOUS
<1>1. TypeOK
  BY DEF Init, TypeOK, Steps
<1>2. TokensExact
  <2>1. \A r \in Replica : TokenHolders(r) = {}
    BY DEF Init, TokenHolders, HasToken
  <2>2. QED
    BY <2>1, FS_EmptySet DEF Init, TokensExact
<1>3. SlotsBounded
  BY InflightAssumption DEF Init, SlotsBounded
<1>4. HoldersLocked /\ OneRefreshPerKey
  BY DEF Init, HoldersLocked, OneRefreshPerKey, HasLock
<1>5. QED
  BY <1>1, <1>2, <1>3, <1>4 DEF IInv

(* The lock part survives a step that adds no holder and takes away no     *)
(* lock that a remaining holder relies on.                                 *)
LEMMA LockKept ==
    ASSUME HoldersLocked, OneRefreshPerKey,
           \A c \in Call : HasLock(c)' => HasLock(c) /\ key'[c] = key[c],
           \A c \in Call : HasLock(c)' /\ key[c] \in lock => key[c] \in lock'
    PROVE  HoldersLocked' /\ OneRefreshPerKey'
  BY DEF HoldersLocked, OneRefreshPerKey

(* The slots of a replica bound the exchanges running on it.               *)
LEMMA SlotsBoundExchanges ==
    ASSUME TokensExact, SlotsBounded
    PROVE  InflightBounded
<1> SUFFICES ASSUME NEW r \in Replica
             PROVE  Cardinality({c \in Call : at[c] = r /\ pc[c] = "exchange"})
                       <= MaxInflight
  BY DEF InflightBounded
<1> DEFINE X == {c \in Call : at[c] = r /\ pc[c] = "exchange"}
<1>1. X \subseteq TokenHolders(r)
  BY DEF TokenHolders, HasToken
<1>2. /\ Cardinality(X) <= Cardinality(TokenHolders(r))
      /\ Cardinality(X) \in Nat
  BY <1>1, HoldersFinite, FS_Subset, FS_CardinalityType
<1>3. QED
  BY <1>2, HoldersFinite, InflightAssumption DEF TokensExact, SlotsBounded

LEMMA NextIInv == IInv /\ [Next]_vars => IInv'
<1> SUFFICES ASSUME IInv, [Next]_vars PROVE IInv'
  OBVIOUS
<1> USE InflightAssumption, NilAssumption
<1>0. TypeOK /\ TokensExact /\ SlotsBounded
  BY DEF IInv
<1>1. ASSUME NEW c \in Call, NEW r \in Replica, NEW k \in Key, Decide(c, r, k)
      PROVE  IInv'
  <2>1. TypeOK'
    BY <1>0, <1>1 DEF Decide, TypeOK, Steps
  <2>2. TokensExact'
    BY <1>0, <1>1, SameHolders DEF Decide, TypeOK, HasToken
  <2>3. SlotsBounded'
    BY <1>0, <1>1 DEF Decide, SlotsBounded
  <2>4. ~disturbed' => HoldersLocked' /\ OneRefreshPerKey'
    BY <1>0, <1>1, LockKept DEF IInv, Decide, TypeOK, HasLock
  <2>5. QED
    BY <2>1, <2>2, <2>3, <2>4 DEF IInv
<1>2. ASSUME NEW c \in Call, CheckThreshold(c) \/ CheckBackoff(c) PROVE IInv'
  <2>1. TypeOK'
    BY <1>0, <1>2 DEF CheckThreshold, CheckBackoff, Leave, Goto, TypeOK, Steps
  <2>2. TokensExact'
    BY <1>0, <1>2, SameHolders
       DEF CheckThreshold, CheckBackoff, Leave, Goto, TypeOK, HasToken
  <2>3. SlotsBounded'
    BY <1>0, <1>2 DEF CheckThreshold, CheckBackoff, SlotsBounded
  <2>4. ~disturbed' => HoldersLocked' /\ OneRefreshPerKey'
    BY <1>0, <1>2, LockKept
       DEF IInv, CheckThreshold, CheckBackoff, Leave, Goto, TypeOK, HasLock
  <2>5. QED
    BY <2>1, <2>2, <2>3, <2>4 DEF IInv
<1>3. ASSUME NEW c \in Call, TakeToken(c) PROVE IInv'
  <2>0. at[c] \in Replica /\ pc[c] = "token"
    BY <1>0, <1>3 DEF TakeToken, TypeOK
  <2>1. TypeOK'
    <3>1. CASE sem[at[c]] < MaxInflight
      <4>1. sem' = [sem EXCEPT ![at[c]] = @ + 1] /\ sem' \in [Replica -> Nat]
        BY <1>0, <1>3, <2>0, <3>1 DEF TakeToken, TypeOK
      <4>2. QED
        BY <1>0, <1>3, <3>1, <4>1 DEF TakeToken, Goto, TypeOK, Steps
    <3>2. CASE ~(sem[at[c]] < MaxInflight)
      BY <1>0, <1>3, <3>2 DEF TakeToken, Leave, TypeOK, Steps
    <3>3. QED
      BY <3>1, <3>2
  <2>2. TokensExact' /\ SlotsBounded'
    <3>1. CASE sem[at[c]] < MaxInflight
      <4>1. /\ pc' = [pc EXCEPT ![c] = "lock"] /\ UNCHANGED <<at, key>>
            /\ sem' = [sem EXCEPT ![at[c]] = @ + 1]
        BY <1>3, <3>1 DEF TakeToken, Goto
      <4>2. /\ ~HasToken(c) /\ HasToken(c)'
            /\ \A d \in Call \ {c} : HasToken(d)' = HasToken(d)
        BY <1>0, <2>0, <4>1 DEF TypeOK, HasToken
      <4>3. TokensExact'
        BY <1>0, <2>0, <4>1, <4>2, HolderJoins
      <4>4. SlotsBounded'
        BY <1>0, <2>0, <3>1, <4>1 DEF TypeOK, SlotsBounded
      <4>5. QED
        BY <4>3, <4>4
    <3>2. CASE ~(sem[at[c]] < MaxInflight)
      BY <1>0, <1>3, <3>2, SameHolders
         DEF TakeToken, Leave, TypeOK, HasToken, SlotsBounded
    <3>3. QED
      BY <3>1, <3>2
  <2>3. ~disturbed' => HoldersLocked' /\ OneRefreshPerKey'
    BY <1>0, <1>3, LockKept DEF IInv, TakeToken, Leave, Goto, TypeOK, HasLock
  <2>4. QED
    BY <2>1, <2>2, <2>3 DEF IInv
<1>4. ASSUME NEW c \in Call, LockGranted(c) PROVE IInv'
  <2>1. TypeOK'
    BY <1>0, <1>4 DEF LockGranted, Goto, TypeOK, Steps
  <2>2. TokensExact'
    BY <1>0, <1>4, SameHolders DEF LockGranted, Goto, TypeOK, HasToken
  <2>3. SlotsBounded'
    BY <1>0, <1>4 DEF LockGranted, SlotsBounded
  <2>4. ASSUME ~disturbed' PROVE HoldersLocked' /\ OneRefreshPerKey'
    <3>1. HoldersLocked /\ OneRefreshPerKey
      BY <1>4, <2>4 DEF IInv, LockGranted
    <3>2. \A d \in Call : HasLock(d) => key[d] # key[c]
      BY <1>4, <3>1 DEF LockGranted, HoldersLocked
    <3>3. /\ \A d \in Call \ {c} : HasLock(d)' = HasLock(d)
          /\ key' = key /\ lock' = lock \cup {key[c]}
      BY <1>0, <1>4 DEF LockGranted, Goto, TypeOK, HasLock
    <3>4. HoldersLocked'
      BY <3>1, <3>3 DEF HoldersLocked
    <3>5. OneRefreshPerKey'
      BY <3>1, <3>2, <3>3 DEF OneRefreshPerKey
    <3>6. QED
      BY <3>4, <3>5
  <2>5. QED
    BY <2>1, <2>2, <2>3, <2>4 DEF IInv
<1>5. ASSUME NEW c \in Call, LockRefused(c) PROVE IInv'
  <2>0. /\ at[c] \in Replica /\ key[c] \in Key /\ pc[c] = "lock"
        /\ sem' = [sem EXCEPT ![at[c]] = @ - 1]
    BY <1>0, <1>5 DEF LockRefused, TypeOK
  <2>1. /\ HasToken(c) /\ ~HasToken(c)'
        /\ \A d \in Call \ {c} : HasToken(d)' = HasToken(d) /\ at'[d] = at[d]
    BY <1>0, <1>5, <2>0 DEF LockRefused, Leave, TypeOK, HasToken
  <2>2. TokensExact' /\ sem' \in [Replica -> Nat]
    BY <1>0, <2>0, <2>1, HolderLeaves
  <2>3. TypeOK'
    BY <1>0, <1>5, <2>0, <2>2 DEF LockRefused, Leave, TypeOK, Steps
  <2>4. SlotsBounded'
    BY <1>0, <2>0 DEF TypeOK, SlotsBounded
  <2>5. ~disturbed' => HoldersLocked' /\ OneRefreshPerKey'
    BY <1>0, <1>5, LockKept DEF IInv, LockRefused, Leave, TypeOK, HasLock
  <2>6. QED
    BY <2>2, <2>3, <2>4, <2>5 DEF IInv
<1>6. ASSUME NEW c \in Call,
             \/ ExchangeFails(c) \/ ExchangeServfail(c) \/ CountServfail(c)
             \/ ExchangeAnswered(c) \/ Store(c)
      PROVE  IInv'
  <2> USE DEF ExchangeFails, ExchangeServfail, CountServfail, ExchangeAnswered, Store
  <2>0. at[c] \in Replica /\ key[c] \in Key
    BY <1>0, <1>6 DEF TypeOK
  <2>1. TypeOK'
    <3>1. /\ \E step \in Steps : pc' = [pc EXCEPT ![c] = step]
          /\ UNCHANGED <<at, key, lock, sem, usable, disturbed>>
          /\ pc[c] # "idle"
      BY <1>6 DEF Goto, Steps
    <3>2. entry' \in [Key -> {"absent", "fresh", "due"}]
      BY <1>0, <1>6, <2>0 DEF TypeOK
    <3>3. backoff' \in [Replica -> SUBSET Key]
      BY <1>0, <1>6, <2>0 DEF TypeOK
    <3>4. count' \in [Replica -> [Key -> Nat]]
      <4>1. \A n \in Nat : [count EXCEPT ![at[c]][key[c]] = n] \in [Replica -> [Key -> Nat]]
        BY <1>0, <2>0 DEF TypeOK
      <4>2. count[at[c]][key[c]] + 1 \in Nat
        BY <1>0, <2>0 DEF TypeOK
      <4>3. CASE UNCHANGED count
        BY <1>0, <4>3 DEF TypeOK
      <4>4. CASE CountServfail(c)
        BY <4>1, <4>2, <4>4
      <4>5. CASE ExchangeAnswered(c)
        BY <4>1, <4>5
      <4>6. QED
        BY <1>6, <4>3, <4>4, <4>5
    <3>5. QED
      BY <1>0, <3>1, <3>2, <3>3, <3>4 DEF TypeOK
  <2>2. TokensExact'
    BY <1>0, <1>6, SameHolders DEF Goto, TypeOK, HasToken
  <2>3. SlotsBounded'
    BY <1>0, <1>6 DEF SlotsBounded
  <2>4. ~disturbed' => HoldersLocked' /\ OneRefreshPerKey'
    BY <1>0, <1>6, LockKept DEF IInv, Goto, TypeOK, HasLock
  <2>5. QED
    BY <2>1, <2>2, <2>3, <2>4 DEF IInv
<1>7. ASSUME NEW c \in Call, ReturnToken(c) PROVE IInv'
  <2>0. /\ at[c] \in Replica /\ pc[c] = "done"
        /\ sem' = [sem EXCEPT ![at[c]] = @ - 1]
    BY <1>0, <1>7 DEF ReturnToken, TypeOK
  <2>1. /\ HasToken(c) /\ ~HasToken(c)'
        /\ \A d \in Call \ {c} : HasToken(d)' = HasToken(d) /\ at'[d] = at[d]
    BY <1>0, <1>7, <2>0 DEF ReturnToken, Goto, TypeOK, HasToken
  <2>2. TokensExact' /\ sem' \in [Replica -> Nat]
    BY <1>0, <2>0, <2>1, HolderLeaves
  <2>3. TypeOK'
    BY <1>0, <1>7, <2>2 DEF ReturnToken, Goto, TypeOK, Steps
  <2>4. SlotsBounded'
    BY <1>0, <2>0 DEF TypeOK, SlotsBounded
  <2>5. ~disturbed' => HoldersLocked' /\ OneRefreshPerKey'
    BY <1>0, <1>7, LockKept DEF IInv, ReturnToken, Goto, TypeOK, HasLock
  <2>6. QED
    BY <2>2, <2>3, <2>4, <2>5 DEF IInv
<1>8. ASSUME NEW c \in Call, ReleaseRefresh(c) \/ ReleaseRetried(c) PROVE IInv'
  <2>1. TypeOK'
    BY <1>0, <1>8 DEF ReleaseRefresh, ReleaseRetried, Leave, TypeOK, Steps
  <2>2. TokensExact'
    BY <1>0, <1>8, SameHolders
       DEF ReleaseRefresh, ReleaseRetried, Leave, TypeOK, HasToken
  <2>3. SlotsBounded'
    BY <1>0, <1>8 DEF ReleaseRefresh, ReleaseRetried, SlotsBounded
  <2>4. ASSUME ~disturbed' PROVE HoldersLocked' /\ OneRefreshPerKey'
    <3>1. ReleaseRefresh(c) /\ HasLock(c)
      BY <1>8, <2>4 DEF ReleaseRefresh, ReleaseRetried, HasLock
    <3>2. HoldersLocked /\ OneRefreshPerKey
      BY <2>4, <3>1 DEF IInv, ReleaseRefresh
    <3>3. /\ \A d \in Call : HasLock(d)' => d # c /\ HasLock(d) /\ key'[d] = key[d]
          /\ lock' = lock \/ lock' = lock \ {key[c]}
      BY <1>0, <3>1 DEF ReleaseRefresh, Leave, TypeOK, HasLock
    <3>4. \A d \in Call : HasLock(d)' => key[d] # key[c]
      BY <3>1, <3>2, <3>3 DEF OneRefreshPerKey
    <3>5. QED
      BY <3>2, <3>3, <3>4, LockKept
  <2>5. QED
    BY <2>1, <2>2, <2>3, <2>4 DEF IInv
<1>9. ASSUME NEW k \in Key, LockExpires(k) \/ DeleteCacheKey(k) PROVE IInv'
  <2>1. TypeOK'
    BY <1>0, <1>9 DEF LockExpires, DeleteCacheKey, Loses, TypeOK
  <2>2. TokensExact'
    BY <1>0, <1>9, SameHolders DEF LockExpires, DeleteCacheKey, HasToken
  <2>3. SlotsBounded'
    BY <1>0, <1>9 DEF LockExpires, DeleteCacheKey, SlotsBounded
  <2>4. ~disturbed' => HoldersLocked' /\ OneRefreshPerKey'
    BY <1>9, LockKept DEF IInv, LockExpires, DeleteCacheKey, Loses, HasLock
  <2>5. QED
    BY <2>1, <2>2, <2>3, <2>4 DEF IInv
<1>10. ASSUME \/ \E k \in Key : EntryAges(k)
              \/ \E r \in Replica, k \in Key :
                    MissServfail(r, k) \/ MissAnswered(r, k) \/ BackoffExpires(r, k)
              \/ \E r \in Replica : HealthMonitor(r)
       PROVE  IInv'
  <2> USE DEF EntryAges, MissServfail, MissAnswered, BackoffExpires, HealthMonitor
  <2>1. TypeOK'
    <3>1. CASE \E k \in Key : EntryAges(k)
      BY <1>0, <3>1 DEF TypeOK
    <3>2. CASE \E r \in Replica, k \in Key :
                  MissServfail(r, k) \/ MissAnswered(r, k) \/ BackoffExpires(r, k)
      <4>1. ASSUME NEW r \in Replica, NEW k \in Key, MissServfail(r, k) PROVE TypeOK'
        BY <1>0, <4>1 DEF TypeOK
      <4>2. ASSUME NEW r \in Replica, NEW k \in Key, MissAnswered(r, k) PROVE TypeOK'
        BY <1>0, <4>2 DEF TypeOK
      <4>3. ASSUME NEW r \in Replica, NEW k \in Key, BackoffExpires(r, k) PROVE TypeOK'
        BY <1>0, <4>3 DEF TypeOK
      <4>4. QED
        BY <3>2, <4>1, <4>2, <4>3
    <3>3. CASE \E r \in Replica : HealthMonitor(r)
      BY <1>0, <3>3 DEF TypeOK
    <3>4. QED
      BY <1>10, <3>1, <3>2, <3>3
  <2>2. TokensExact'
    BY <1>0, <1>10, SameHolders DEF HasToken
  <2>3. SlotsBounded'
    BY <1>0, <1>10 DEF SlotsBounded
  <2>4. ~disturbed' => HoldersLocked' /\ OneRefreshPerKey'
    BY <1>10, LockKept DEF IInv, HasLock
  <2>5. QED
    BY <2>1, <2>2, <2>3, <2>4 DEF IInv
<1>11. ASSUME NEW r \in Replica, Crash(r) PROVE IInv'
  <2>1. TypeOK'
    BY <1>0, <1>11 DEF Crash, TypeOK, Steps
  <2>2. TokensExact'
    <3>1. TokenHolders(r)' = {}
      BY <1>0, <1>11 DEF Crash, TypeOK, TokenHolders, HasToken
    <3>2. ASSUME NEW q \in Replica, q # r PROVE TokenHolders(q)' = TokenHolders(q)
      BY <1>0, <1>11, <3>2 DEF Crash, TypeOK, TokenHolders, HasToken
    <3>3. QED
      BY <1>0, <1>11, <3>1, <3>2, FS_EmptySet DEF Crash, TypeOK, TokensExact
  <2>3. SlotsBounded'
    BY <1>0, <1>11 DEF Crash, TypeOK, SlotsBounded
  <2>4. ~disturbed' => HoldersLocked' /\ OneRefreshPerKey'
    BY <1>0, <1>11, LockKept DEF IInv, Crash, TypeOK, HasLock
  <2>5. QED
    BY <2>1, <2>2, <2>3, <2>4 DEF IInv
<1>12. ASSUME UNCHANGED vars PROVE IInv'
  BY <1>12
     DEF vars, IInv, TypeOK, TokensExact, TokenHolders, HasToken, SlotsBounded,
         HoldersLocked, OneRefreshPerKey, HasLock
<1>13. QED
  BY <1>1, <1>2, <1>3, <1>4, <1>5, <1>6, <1>7, <1>8, <1>9, <1>10, <1>11, <1>12
     DEF Next, CallStep

(* The coordination state keeps its types.                                 *)
THEOREM TypeCorrect == Spec => []TypeOK
<1>1. IInv => TypeOK
  BY DEF IInv
<1>2. QED
  BY InitIInv, NextIInv, <1>1, PTL DEF Spec

(* No path through scheduleRefresh and its goroutine leaks or doubles a    *)
(* slot of refreshSem, crashes included.                                   *)
THEOREM TokensCorrect == Spec => []TokensExact
<1>1. IInv => TokensExact
  BY DEF IInv
<1>2. QED
  BY InitIInv, NextIInv, <1>1, PTL DEF Spec

(* max_inflight bounds the concurrent upstream exchanges of every replica. *)
THEOREM InflightCorrect == Spec => []InflightBounded
<1>1. IInv => InflightBounded
  BY SlotsBoundExchanges DEF IInv
<1>2. QED
  BY InitIInv, NextIInv, <1>1, PTL DEF Spec

(* "No stampede" holds for as many replicas as there are, as long as no    *)
(* lock runs out under its holder, is deleted with its key, or its DEL is  *)
(* sent twice.                                                             *)
THEOREM NoStampede == Spec => []OneRefreshWhileLockHolds
<1>1. IInv => OneRefreshWhileLockHolds
  BY DEF IInv, OneRefreshWhileLockHolds
<1>2. QED
  BY InitIInv, NextIInv, <1>1, PTL DEF Spec

-----------------------------------------------------------------------------
(* The bound on SERVFAIL retries.                                          *)

(* The calls that may still count a SERVFAIL for a key.                    *)
Coming(r, k) == {c \in Call : OnItsWay(c) /\ at[c] = r /\ key[c] = k}

Below(r, k) == count[r][k] + Cardinality(Coming(r, k)) < Threshold + Cardinality(Call)

LEMMA ComingFinite ==
    ASSUME NEW r, NEW k
    PROVE  /\ IsFiniteSet(Coming(r, k)) /\ Cardinality(Coming(r, k)) \in Nat
           /\ Cardinality(Call) \in Nat
           /\ Cardinality(Coming(r, k)) <= Cardinality(Call)
<1>1. Coming(r, k) \subseteq Call
  BY DEF Coming
<1>2. QED
  BY <1>1, CallsAssumption, FS_Subset, FS_CardinalityType

(* Nobody sets out to count for the key, and its count does not grow.      *)
LEMMA FewerComing ==
    ASSUME TypeOK, NEW r \in Replica, NEW k \in Key, Below(r, k),
           NEW C, NEW n \in Nat, C \subseteq Coming(r, k), n <= count[r][k]
    PROVE  n + Cardinality(C) < Threshold + Cardinality(Call)
<1>1. Cardinality(C) <= Cardinality(Coming(r, k)) /\ Cardinality(C) \in Nat
  BY ComingFinite, FS_Subset, FS_CardinalityType
<1>2. count[r][k] \in Nat
  BY DEF TypeOK
<1>3. QED
  BY <1>1, <1>2, ComingFinite, ThresholdAssumption DEF Below

(* Every step but those of CheckThreshold and CountServfail is of this     *)
(* kind.                                                                   *)
LEMMA RetriesKept ==
    ASSUME TypeOK, TypeOK', RetriesStop,
           \A r \in Replica, k \in Key : count'[r][k] <= count[r][k],
           \A c \in Call : OnItsWay(c)' => OnItsWay(c) /\ at'[c] = at[c] /\ key'[c] = key[c]
    PROVE  RetriesStop'
<1> SUFFICES ASSUME NEW r \in Replica, NEW k \in Key
             PROVE  count'[r][k] + Cardinality({c \in Call : OnItsWay(c)' /\ at'[c] = r /\ key'[c] = k})
                       < Threshold + Cardinality(Call)
  BY DEF RetriesStop
<1> DEFINE C == {c \in Call : OnItsWay(c)' /\ at'[c] = r /\ key'[c] = k}
<1>1. C \subseteq Coming(r, k)
  BY DEF Coming
<1>2. count'[r][k] \in Nat
  BY DEF TypeOK
<1>3. Below(r, k)
  BY DEF RetriesStop, Below, Coming
<1>4. QED
  BY <1>1, <1>2, <1>3, FewerComing

LEMMA NextRetries ==
    ASSUME IInv, IInv', RetriesStop, [Next]_vars
    PROVE  RetriesStop'
<1>0. TypeOK /\ TypeOK'
  BY DEF IInv
<1>1. ASSUME NEW c \in Call, CheckThreshold(c)
      PROVE  RetriesStop'
  <2>1. CASE count[at[c]][key[c]] >= Threshold
    <3>1. /\ count' = count
          /\ \A d \in Call : OnItsWay(d)' => OnItsWay(d) /\ at'[d] = at[d] /\ key'[d] = key[d]
      BY <1>0, <1>1, <2>1 DEF CheckThreshold, Leave, TypeOK, OnItsWay
    <3>2. \A r \in Replica, k \in Key : count'[r][k] <= count[r][k]
      BY <1>0, <3>1 DEF TypeOK
    <3> QED
      BY <1>0, <3>1, <3>2, RetriesKept
  <2>2. CASE ~(count[at[c]][key[c]] >= Threshold)
    <3> SUFFICES ASSUME NEW r \in Replica, NEW k \in Key
                 PROVE  count'[r][k] + Cardinality({d \in Call : OnItsWay(d)' /\ at'[d] = r /\ key'[d] = k})
                           < Threshold + Cardinality(Call)
      BY DEF RetriesStop
    <3> DEFINE C == {d \in Call : OnItsWay(d)' /\ at'[d] = r /\ key'[d] = k}
    <3>1. /\ UNCHANGED <<count, at, key>>
          /\ \A d \in Call \ {c} : OnItsWay(d)' => OnItsWay(d)
      BY <1>0, <1>1, <2>2 DEF CheckThreshold, Goto, TypeOK, OnItsWay
    <3>2. CASE r = at[c] /\ k = key[c]
      <4>1. C \subseteq Call
        OBVIOUS
      <4>2. Cardinality(C) <= Cardinality(Call) /\ Cardinality(C) \in Nat
            /\ Cardinality(Call) \in Nat
        BY <4>1, CallsAssumption, FS_Subset, FS_CardinalityType
      <4>3. count[r][k] \in Nat /\ count[r][k] < Threshold
        BY <1>0, <2>2, <3>2, ThresholdAssumption DEF TypeOK
      <4> DEFINE n == Cardinality(C)
      <4> HIDE DEF n
      <4>4. count'[r][k] + n < Threshold + Cardinality(Call)
        <5>1. n \in Nat /\ n <= Cardinality(Call)
          BY <4>2 DEF n
        <5> QED
          BY <3>1, <4>2, <4>3, <5>1, ThresholdAssumption
      <4> QED
        BY <4>4 DEF n
    <3>3. CASE ~(r = at[c] /\ k = key[c])
      <4>1. C \subseteq Coming(r, k)
        BY <3>1, <3>3 DEF Coming
      <4>2. Below(r, k)
        BY DEF RetriesStop, Below, Coming
      <4>3. count'[r][k] \in Nat /\ count'[r][k] <= count[r][k]
        BY <1>0, <3>1 DEF TypeOK
      <4> QED
        BY <1>0, <4>1, <4>2, <4>3, FewerComing
    <3> QED
      BY <3>2, <3>3
  <2> QED
    BY <2>1, <2>2
<1>2. ASSUME NEW c \in Call, CountServfail(c)
      PROVE  RetriesStop'
  <2> SUFFICES ASSUME NEW r \in Replica, NEW k \in Key
               PROVE  count'[r][k] + Cardinality({d \in Call : OnItsWay(d)' /\ at'[d] = r /\ key'[d] = k})
                         < Threshold + Cardinality(Call)
    BY DEF RetriesStop
  <2> DEFINE C == {d \in Call : OnItsWay(d)' /\ at'[d] = r /\ key'[d] = k}
  <2>0. Below(r, k)
    BY DEF RetriesStop, Below, Coming
  <2>1. /\ UNCHANGED <<at, key>>
        /\ OnItsWay(c) /\ ~OnItsWay(c)'
        /\ \A d \in Call \ {c} : OnItsWay(d)' = OnItsWay(d)
        /\ at[c] \in Replica /\ key[c] \in Key
    BY <1>0, <1>2 DEF CountServfail, Goto, TypeOK, OnItsWay
  <2>2. count' = [count EXCEPT ![at[c]][key[c]] = @ + 1]
    BY <1>2 DEF CountServfail
  <2>3. CASE r = at[c] /\ k = key[c]
    <3>1. C = Coming(r, k) \ {c} /\ c \in Coming(r, k)
      BY <2>1, <2>3 DEF Coming
    <3>2. Cardinality(C) = Cardinality(Coming(r, k)) - 1
      BY <3>1, ComingFinite, FS_RemoveElement
    <3>3. count'[r][k] = count[r][k] + 1 /\ count[r][k] \in Nat
      BY <1>0, <2>1, <2>2, <2>3 DEF TypeOK
    <3>4. count[r][k] + Cardinality(Coming(r, k)) < Threshold + Cardinality(Call)
      BY <2>0 DEF Below
    <3> DEFINE n == Cardinality(C)
               m == Cardinality(Coming(r, k))
    <3>5. n = m - 1 /\ m \in Nat /\ Cardinality(Call) \in Nat
      BY <3>2, ComingFinite
    <3> HIDE DEF n, m
    <3>6. count'[r][k] + n < Threshold + Cardinality(Call)
      BY <3>3, <3>4, <3>5, ThresholdAssumption DEF m
    <3> QED
      BY <3>6 DEF n
  <2>4. CASE ~(r = at[c] /\ k = key[c])
    <3>1. C \subseteq Coming(r, k)
      BY <2>1 DEF Coming
    <3>2. count'[r][k] = count[r][k] /\ count[r][k] \in Nat
      BY <1>0, <2>1, <2>2, <2>4 DEF TypeOK
    <3>3. count'[r][k] \in Nat /\ count'[r][k] <= count[r][k]
      BY <3>2
    <3> QED
      BY <1>0, <2>0, <3>1, <3>3, FewerComing
  <2> QED
    BY <2>3, <2>4
<1>3. ASSUME NEW c \in Call,
             \/ \E r \in Replica, k \in Key : Decide(c, r, k)
             \/ CheckBackoff(c) \/ TakeToken(c) \/ LockGranted(c) \/ LockRefused(c)
             \/ ExchangeFails(c) \/ ExchangeServfail(c) \/ Store(c)
             \/ ReturnToken(c) \/ ReleaseRefresh(c) \/ ReleaseRetried(c)
      PROVE  RetriesStop'
  <2>1. UNCHANGED count
    BY <1>3 DEF Decide, CheckBackoff, TakeToken, LockGranted, LockRefused, ExchangeFails,
                ExchangeServfail, Store, ReturnToken, ReleaseRefresh, ReleaseRetried
  <2>2. \A r \in Replica, k \in Key : count'[r][k] <= count[r][k]
    BY <1>0, <2>1 DEF TypeOK
  <2>3. \A d \in Call : OnItsWay(d)' => OnItsWay(d) /\ at'[d] = at[d] /\ key'[d] = key[d]
    <3>1. CASE \E r \in Replica, k \in Key : Decide(c, r, k)
      BY <1>0, <3>1 DEF Decide, TypeOK, OnItsWay
    <3>2. CASE CheckBackoff(c) \/ TakeToken(c)
      BY <1>0, <3>2 DEF CheckBackoff, TakeToken, Goto, Leave, TypeOK, OnItsWay
    <3>3. CASE LockGranted(c) \/ LockRefused(c)
      BY <1>0, <3>3 DEF LockGranted, LockRefused, Goto, Leave, TypeOK, OnItsWay
    <3>4. CASE ExchangeFails(c) \/ ExchangeServfail(c) \/ Store(c) \/ ReturnToken(c)
      BY <1>0, <3>4
         DEF ExchangeFails, ExchangeServfail, Store, ReturnToken, Goto, TypeOK, OnItsWay
    <3>5. CASE ReleaseRefresh(c) \/ ReleaseRetried(c)
      BY <1>0, <3>5 DEF ReleaseRefresh, ReleaseRetried, Leave, TypeOK, OnItsWay
    <3> QED
      BY <1>3, <3>1, <3>2, <3>3, <3>4, <3>5
  <2> QED
    BY <1>0, <2>2, <2>3, RetriesKept
<1>4. ASSUME NEW c \in Call, ExchangeAnswered(c)
      PROVE  RetriesStop'
  <2>1. \A d \in Call : OnItsWay(d)' => OnItsWay(d) /\ at'[d] = at[d] /\ key'[d] = key[d]
    BY <1>0, <1>4 DEF ExchangeAnswered, Goto, TypeOK, OnItsWay
  <2>2. at[c] \in Replica /\ key[c] \in Key
    BY <1>0, <1>4 DEF ExchangeAnswered, TypeOK
  <2>3. ASSUME NEW r \in Replica, NEW k \in Key PROVE count'[r][k] <= count[r][k]
    <3>1. count[r][k] \in Nat /\ count'[r][k] \in {0, count[r][k]}
      <4>1. count' = [count EXCEPT ![at[c]][key[c]] = 0] /\ count \in [Replica -> [Key -> Nat]]
        BY <1>0, <1>4 DEF ExchangeAnswered, TypeOK
      <4> QED
        BY <2>2, <4>1
    <3> QED
      BY <3>1
  <2> QED
    BY <1>0, <2>1, <2>3, RetriesKept
<1>5. ASSUME NEW q \in Replica, Crash(q)
      PROVE  RetriesStop'
  <2>1. \A d \in Call : OnItsWay(d)' => OnItsWay(d) /\ at'[d] = at[d] /\ key'[d] = key[d]
    BY <1>0, <1>5 DEF Crash, TypeOK, OnItsWay
  <2>2. ASSUME NEW r \in Replica, NEW k \in Key PROVE count'[r][k] <= count[r][k]
    <3>1. count[r][k] \in Nat /\ count'[r][k] \in {0, count[r][k]}
      BY <1>0, <1>5 DEF Crash, TypeOK
    <3> QED
      BY <3>1
  <2> QED
    BY <1>0, <2>1, <2>2, RetriesKept
<1>6. ASSUME \/ \E k \in Key : LockExpires(k) \/ DeleteCacheKey(k) \/ EntryAges(k)
             \/ \E r \in Replica, k \in Key :
                   MissServfail(r, k) \/ MissAnswered(r, k) \/ BackoffExpires(r, k)
             \/ \E r \in Replica : HealthMonitor(r)
             \/ UNCHANGED vars
      PROVE  RetriesStop'
  <2>1. UNCHANGED <<pc, at, key, count>>
    BY <1>6 DEF LockExpires, DeleteCacheKey, EntryAges, MissServfail, MissAnswered,
                BackoffExpires, HealthMonitor, vars
  <2>2. \A r \in Replica, k \in Key : count'[r][k] <= count[r][k]
    BY <1>0, <2>1 DEF TypeOK
  <2>3. \A d \in Call : OnItsWay(d)' => OnItsWay(d) /\ at'[d] = at[d] /\ key'[d] = key[d]
    BY <2>1 DEF OnItsWay
  <2> QED
    BY <1>0, <2>2, <2>3, RetriesKept
<1> QED
  BY <1>1, <1>2, <1>3, <1>4, <1>5, <1>6 DEF Next, CallStep

(* Retries of a name that answers SERVFAIL stop: however many calls have   *)
(* read the count before it reached the threshold, with those that may     *)
(* still add to it the count stays within the threshold and the calls.     *)
THEOREM RetriesBounded == Spec => []RetriesStop
<1>1. Init => RetriesStop
  <2> SUFFICES ASSUME Init, NEW r \in Replica, NEW k \in Key
               PROVE  count[r][k] + Cardinality(Coming(r, k)) < Threshold + Cardinality(Call)
    BY DEF RetriesStop, Coming
  <2>1. Coming(r, k) = {} /\ count[r][k] = 0
    BY DEF Init, Coming, OnItsWay
  <2> QED
    BY <2>1, ComingFinite, FS_EmptySet, ThresholdAssumption
<1>2. QED
  BY <1>1, InitIInv, NextIInv, NextRetries, PTL DEF Spec
=============================================================================
