---------------------------- MODULE CacheProofs ----------------------------
(* Theorems about the three components of internal/cache, whatever the     *)
(* keys.  The L0 cache, for any elements and any capacity: its map leads   *)
(* into its list, it stays within its capacity, and each turn of an        *)
(* eviction leaves less to do.  The two tiers, for any replicas and calls  *)
(* and in both modes: the expiry index covers Redis until something fails  *)
(* or takes members out on its own, and a clear of the cache leaves        *)
(* nothing old in L0 but what a lookup brings back.  The hit batcher, for  *)
(* any increments, goroutines and batch size: it accounts for every hit,   *)
(* bounds its backlog, and leaves the sweep's counts short only of hits in *)
(* hand.                                                                   *)
EXTENDS SieveCache, TieredCache, HitBatcher, SequenceTheorems, FiniteSetTheorems, TLAPS

-----------------------------------------------------------------------------
(* The L0 cache                                                            *)

(* What evictOne relies on besides the invariants the runs check: no       *)
(* element is linked twice, and while Set evicts the list holds exactly    *)
(* one element too many.                                                   *)
NoDuplicates == \A i, j \in DOMAIN ll : ll[i] = ll[j] => i = j
OverByOne == lock = "evict" => Len(ll) = MaxEntries + 1

L0Inv ==
    /\ L0TypeOK
    /\ MapPointsIntoList
    /\ NoDuplicates
    /\ OverByOne
    /\ CapacityRespected

(* What RemoveAt leaves: every other element, in the same order.           *)
LEMMA RemoveAtFacts ==
    ASSUME NEW S, NEW s \in Seq(S), NEW p \in 1..Len(s)
    PROVE  /\ RemoveAt(s, p) \in Seq(S)
           /\ Len(RemoveAt(s, p)) = Len(s) - 1
           /\ \A i \in 1..(Len(s) - 1) :
                 RemoveAt(s, p)[i] = IF i < p THEN s[i] ELSE s[i + 1]
<1> DEFINE a == SubSeq(s, 1, p - 1)
           b == SubSeq(s, p + 1, Len(s))
<1>1. /\ a \in Seq(S) /\ Len(a) = p - 1
      /\ \A i \in 1..(p - 1) : a[i] = s[i]
  <2>1. \A i \in 1..(p - 1) : s[i] \in S
    BY ElementOfSeq
  <2>2. QED
    BY <2>1, SubSeqProperties
<1>2. /\ b \in Seq(S) /\ Len(b) = Len(s) - p
      /\ \A i \in 1..(Len(s) - p) : b[i] = s[p + i]
  <2>1. \A i \in (p + 1)..Len(s) : s[i] \in S
    BY ElementOfSeq
  <2>2. /\ b \in Seq(S)
        /\ Len(b) = IF p + 1 <= Len(s) THEN Len(s) - (p + 1) + 1 ELSE 0
        /\ \A i \in 1..(Len(s) - (p + 1) + 1) : b[i] = s[(p + 1) + i - 1]
    BY <2>1, SubSeqProperties
  <2>3. QED
    BY <2>2
<1>3. RemoveAt(s, p) = a \o b
  BY DEF RemoveAt
<1> HIDE DEF a, b
<1>4. /\ a \o b \in Seq(S)
      /\ Len(a \o b) = Len(s) - 1
  <2>1. a \o b \in Seq(S) /\ Len(a \o b) = Len(a) + Len(b)
    BY <1>1, <1>2, ConcatProperties
  <2>2. Len(s) \in Nat /\ p \in Int
    BY LenProperties
  <2>3. QED
    BY <1>1, <1>2, <2>1, <2>2
<1>5. ASSUME NEW i \in 1..(Len(s) - 1)
      PROVE  (a \o b)[i] = IF i < p THEN s[i] ELSE s[i + 1]
  <2>1. CASE i < p
    <3>1. i \in 1..(p - 1)
      BY <2>1
    <3>2. QED
      BY <3>1, <2>1, <1>1, <1>2
  <2>2. CASE ~(i < p)
    <3>1. i - (p - 1) \in 1..(Len(s) - p) /\ p + (i - (p - 1)) = i + 1
      BY <2>2
    <3>2. (a \o b)[i] = b[i - (p - 1)]
      BY <2>2, <1>1, <1>2
    <3>3. QED
      BY <3>1, <3>2, <2>2, <1>2
  <2>3. QED
    BY <2>1, <2>2
<1>6. QED
  BY <1>3, <1>4, <1>5

(* list.Remove takes out the element it is given and nothing else, and     *)
(* does nothing for one that has left the list.                            *)
LEMMA UnlinkFacts ==
    ASSUME ll \in Seq(Elem), NoDuplicates, NEW e \in Elem
    PROVE  /\ Unlink(e) \in Seq(Elem)
           /\ Len(Unlink(e)) = IF InList(e) THEN Len(ll) - 1 ELSE Len(ll)
           /\ \A i, j \in DOMAIN Unlink(e) : Unlink(e)[i] = Unlink(e)[j] => i = j
           /\ \A x \in Elem : x # e /\ InList(x) => \E i \in DOMAIN Unlink(e) : Unlink(e)[i] = x
<1>1. CASE ~InList(e)
  BY <1>1 DEF Unlink, InList, NoDuplicates
<1>2. CASE InList(e)
  <2> DEFINE p == CHOOSE i \in DOMAIN ll : ll[i] = e
             r == RemoveAt(ll, p)
  <2>1. p \in 1..Len(ll) /\ ll[p] = e
    BY <1>2 DEF InList
  <2>2. Unlink(e) = r
    BY <1>2 DEF Unlink
  <2> HIDE DEF p
  <2>3. /\ r \in Seq(Elem)
        /\ Len(r) = Len(ll) - 1
        /\ \A i \in 1..(Len(ll) - 1) : r[i] = IF i < p THEN ll[i] ELSE ll[i + 1]
    BY <2>1, RemoveAtFacts
  <2> HIDE DEF r
  <2>4. ASSUME NEW i \in DOMAIN r, NEW j \in DOMAIN r, r[i] = r[j]
        PROVE  i = j
    <3> DEFINE pos(n) == IF n < p THEN n ELSE n + 1
    <3>1. i \in 1..(Len(ll) - 1) /\ j \in 1..(Len(ll) - 1)
      BY <2>3
    <3>2. /\ pos(i) \in 1..Len(ll) /\ pos(j) \in 1..Len(ll)
          /\ pos(i) = pos(j) => i = j
      BY <3>1, <2>1
    <3>3. r[i] = ll[pos(i)] /\ r[j] = ll[pos(j)]
      BY <3>1, <2>3
    <3> HIDE DEF pos
    <3>4. pos(i) \in DOMAIN ll /\ pos(j) \in DOMAIN ll
      BY <3>2
    <3>5. ll[pos(i)] = ll[pos(j)]
      BY <3>3, <2>4
    <3>6. QED
      BY <3>2, <3>4, <3>5 DEF NoDuplicates
  <2>5. ASSUME NEW x \in Elem, x # e, InList(x)
        PROVE  \E i \in DOMAIN r : r[i] = x
    <3>1. PICK q \in 1..Len(ll) : ll[q] = x
      BY <2>5 DEF InList
    <3>2. CASE q < p
      BY <3>1, <3>2, <2>1, <2>3
    <3>3. CASE q > p
      <4>1. q - 1 \in 1..(Len(ll) - 1) /\ ~(q - 1 < p)
        BY <3>1, <3>3, <2>1
      <4>2. QED
        BY <4>1, <3>1, <2>3
    <3>4. QED
      BY <3>1, <3>2, <3>3, <2>1, <2>5
  <2>6. QED
    BY <1>2, <2>2, <2>3, <2>4, <2>5
<1>3. QED
  BY <1>1, <1>2

(* removeElement, of an element in the list or of one that has left it:    *)
(* no key is left pointing at what was unlinked.                           *)
LEMMA RemoveElementFacts ==
    ASSUME L0TypeOK, MapPointsIntoList, NoDuplicates,
           NEW e \in Elem, RemoveElement(e), ent' = ent
    PROVE  /\ ll' \in Seq(Elem)
           /\ cache' \in [Key -> Elem \cup {Nil}]
           /\ Len(ll') = IF InList(e) THEN Len(ll) - 1 ELSE Len(ll)
           /\ NoDuplicates'
           /\ MapPointsIntoList'
<1>1. /\ ll' \in Seq(Elem)
      /\ Len(ll') = IF InList(e) THEN Len(ll) - 1 ELSE Len(ll)
      /\ NoDuplicates'
      /\ \A x \in Elem : x # e /\ InList(x) => InList(x)'
  <2>1. ll' = Unlink(e)
    BY DEF RemoveElement
  <2>2. ll \in Seq(Elem)
    BY DEF L0TypeOK
  <2>3. /\ Unlink(e) \in Seq(Elem)
        /\ Len(Unlink(e)) = IF InList(e) THEN Len(ll) - 1 ELSE Len(ll)
        /\ \A i, j \in DOMAIN Unlink(e) : Unlink(e)[i] = Unlink(e)[j] => i = j
        /\ \A x \in Elem : x # e /\ InList(x) =>
              \E i \in DOMAIN Unlink(e) : Unlink(e)[i] = x
    BY <2>2, UnlinkFacts
  <2>4. NoDuplicates'
    BY <2>1, <2>3 DEF NoDuplicates
  <2>5. \A x \in Elem : InList(x)' = \E i \in DOMAIN Unlink(e) : Unlink(e)[i] = x
    BY <2>1 DEF InList
  <2>6. QED
    BY <2>1, <2>3, <2>4, <2>5
<1>2. cache' = [cache EXCEPT ![ent[e].key] = Nil]
  BY DEF RemoveElement, MapWithout
<1>3. cache' \in [Key -> Elem \cup {Nil}]
  BY <1>2 DEF L0TypeOK
<1>4. MapPointsIntoList'
  <2> SUFFICES ASSUME NEW k \in Key, cache'[k] # Nil
               PROVE  InList(cache[k])' /\ ent'[cache'[k]].key = k
    BY DEF MapPointsIntoList
  <2>1. k # ent[e].key /\ cache'[k] = cache[k]
    BY <1>2 DEF L0TypeOK, Entry
  <2>2. cache[k] \in Elem /\ InList(cache[k]) /\ ent[cache[k]].key = k
    BY <2>1 DEF L0TypeOK, MapPointsIntoList
  <2>3. cache[k] # e
    BY <2>1, <2>2
  <2>4. QED
    BY <2>1, <2>2, <2>3, <1>1 DEF InList
<1>5. QED
  BY <1>1, <1>3, <1>4

(* The typed parts of an unchanged shard survive any change of entries     *)
(* that keeps their keys: Get's and evictOne's writes of the visited bit,  *)
(* Set's update in place, and the passing of time.                         *)
LEMMA EntriesChange ==
    ASSUME L0Inv, UNCHANGED <<ll, cache>>, ent' \in [Elem -> Entry],
           \A e \in Elem : ent'[e].key = ent[e].key
    PROVE  MapPointsIntoList' /\ NoDuplicates'
  BY DEF L0Inv, L0TypeOK, MapPointsIntoList, NoDuplicates, InList

LEMMA L0InitInv == L0Init => L0Inv
  BY CapacityAssumption
     DEF L0Init, L0Inv, L0TypeOK, MapPointsIntoList, NoDuplicates, OverByOne,
         CapacityRespected

(* What the walk reads next is an element: prev of one in the list, the    *)
(* back of the list otherwise.                                             *)
LEMMA NextHandType ==
    ASSUME ll \in Seq(Elem), Len(ll) > 0, NEW e
    PROVE  Back \in Elem /\ NextHand(e) \in Elem
<1>1. Back \in Elem
  BY ElementOfSeq DEF Back
<1>2. CASE \E i \in 2..Len(ll) : ll[i] = e
  <2>1. PICK i \in 2..Len(ll) : Prev(e) = ll[i - 1]
    BY <1>2 DEF Prev
  <2>2. i - 1 \in 1..Len(ll)
    BY <2>1
  <2>3. Prev(e) \in Elem
    BY <2>1, <2>2, ElementOfSeq
  <2>4. QED
    BY <1>1, <2>3 DEF NextHand
<1>3. CASE ~\E i \in 2..Len(ll) : ll[i] = e
  BY <1>1, <1>3 DEF NextHand, Prev
<1>4. QED
  BY <1>2, <1>3

LEMMA L0NextInv == L0Inv /\ [L0Next]_l0Vars => L0Inv'
<1> SUFFICES ASSUME L0Inv, [L0Next]_l0Vars PROVE L0Inv'
  OBVIOUS
<1> USE CapacityAssumption, NilAssumption, ElemAssumption
<1>0. /\ L0TypeOK /\ MapPointsIntoList /\ NoDuplicates
      /\ OverByOne /\ CapacityRespected
  BY DEF L0Inv
<1>1. ASSUME NEW e \in Elem, Expire(e) PROVE L0Inv'
  <2>1. ent' \in [Elem -> Entry] /\ \A x \in Elem : ent'[x].key = ent[x].key
    BY <1>0, <1>1 DEF Expire, L0TypeOK, Entry
  <2>2. MapPointsIntoList' /\ NoDuplicates'
    BY <1>1, <2>1, EntriesChange DEF Expire
  <2>3. QED
    BY <1>0, <1>1, <2>1, <2>2
       DEF Expire, L0Inv, L0TypeOK, OverByOne, CapacityRespected
<1>2. ASSUME NEW k \in Key, GetHit(k) PROVE L0Inv'
  <2>1. ent' \in [Elem -> Entry] /\ \A x \in Elem : ent'[x].key = ent[x].key
    BY <1>0, <1>2 DEF GetHit, L0TypeOK, Entry
  <2>2. MapPointsIntoList' /\ NoDuplicates'
    BY <1>2, <2>1, EntriesChange DEF GetHit
  <2>3. QED
    BY <1>0, <1>2, <2>1, <2>2
       DEF GetHit, L0Inv, L0TypeOK, OverByOne, CapacityRespected
<1>3. ASSUME NEW k \in Key, GetExpired(k) PROVE L0Inv'
  BY <1>0, <1>3
     DEF GetExpired, L0Inv, L0TypeOK, MapPointsIntoList, InList, NoDuplicates,
         OverByOne, CapacityRespected
<1>4. ASSUME NEW k \in Key, GetRemove(k) PROVE L0Inv'
  <2>1. CASE cache[k] # Nil /\ ent[cache[k]].expired
    <3>1. cache[k] \in Elem /\ RemoveElement(cache[k]) /\ ent' = ent
      BY <1>0, <1>4, <2>1 DEF GetRemove, L0TypeOK
    <3>2. /\ ll' \in Seq(Elem) /\ cache' \in [Key -> Elem \cup {Nil}]
          /\ Len(ll') <= Len(ll)
          /\ NoDuplicates' /\ MapPointsIntoList'
      BY <1>0, <3>1, RemoveElementFacts, LenProperties DEF L0TypeOK
    <3>3. QED
      BY <1>0, <1>4, <3>2
         DEF GetRemove, L0Inv, L0TypeOK, OverByOne, CapacityRespected
  <2>2. CASE ~(cache[k] # Nil /\ ent[cache[k]].expired)
    BY <1>0, <1>4, <2>2
       DEF GetRemove, L0Inv, L0TypeOK, MapPointsIntoList, InList, NoDuplicates,
           OverByOne, CapacityRespected
  <2>3. QED
    BY <2>1, <2>2
<1>5. ASSUME NEW k \in Key, SetExisting(k) PROVE L0Inv'
  <2>1. ent' \in [Elem -> Entry] /\ \A x \in Elem : ent'[x].key = ent[x].key
    BY <1>0, <1>5 DEF SetExisting, L0TypeOK, Entry
  <2>2. MapPointsIntoList' /\ NoDuplicates'
    BY <1>5, <2>1, EntriesChange DEF SetExisting
  <2>3. QED
    BY <1>0, <1>5, <2>1, <2>2
       DEF SetExisting, L0Inv, L0TypeOK, OverByOne, CapacityRespected
<1>6. ASSUME NEW k \in Key, Delete(k) PROVE L0Inv'
  <2>1. cache[k] \in Elem /\ RemoveElement(cache[k]) /\ ent' = ent
    BY <1>0, <1>6 DEF Delete, L0TypeOK
  <2>2. /\ ll' \in Seq(Elem) /\ cache' \in [Key -> Elem \cup {Nil}]
        /\ Len(ll') <= Len(ll)
        /\ NoDuplicates' /\ MapPointsIntoList'
    BY <1>0, <2>1, RemoveElementFacts, LenProperties DEF L0TypeOK
  <2>3. QED
    BY <1>0, <1>6, <2>2 DEF Delete, L0Inv, L0TypeOK, OverByOne, CapacityRespected
<1>7. ASSUME NEW k \in Key, NEW e \in Elem, SetNew(k, e) PROVE L0Inv'
  <2>1. /\ ll' \in Seq(Elem) /\ Len(ll') = Len(ll) + 1
        /\ ll'[1] = e
        /\ \A i \in 1..Len(ll) : ll'[i + 1] = ll[i]
    BY <1>0, <1>7 DEF SetNew, L0TypeOK
  <2>2. NoDuplicates'
    <3>1. \A i \in 2..Len(ll') : i - 1 \in 1..Len(ll) /\ ll'[i] = ll[i - 1]
      BY <2>1
    <3>2. \A i \in 1..Len(ll) : ll[i] # e
      BY <1>7 DEF SetNew, InList
    <3>3. QED
      BY <2>1, <3>1, <3>2, <1>0 DEF NoDuplicates
  <2>3. MapPointsIntoList'
    <3> SUFFICES ASSUME NEW x \in Key, cache'[x] # Nil
                 PROVE  InList(cache[x])' /\ ent'[cache'[x]].key = x
      BY DEF MapPointsIntoList
    <3>1. CASE x = k
      BY <3>1, <1>0, <1>7, <2>1 DEF SetNew, L0TypeOK, InList
    <3>2. CASE x # k
      <4>1. cache'[x] = cache[x] /\ InList(cache[x]) /\ ent[cache[x]].key = x
        BY <3>2, <1>0, <1>7 DEF SetNew, L0TypeOK, MapPointsIntoList
      <4>2. PICK i \in 1..Len(ll) : ll[i] = cache[x]
        BY <4>1 DEF InList
      <4>3. i + 1 \in DOMAIN ll' /\ ll'[i + 1] = cache[x]
        BY <4>2, <2>1
      <4>4. cache[x] # e /\ cache[x] \in Elem
        BY <4>1, <1>0, <1>7, <3>2 DEF SetNew, L0TypeOK
      <4>5. ent'[cache[x]] = ent[cache[x]]
        BY <4>4, <1>0, <1>7 DEF SetNew, L0TypeOK
      <4>6. QED
        BY <4>1, <4>3, <4>5 DEF InList
    <3>3. QED
      BY <3>1, <3>2
  <2>4. L0TypeOK'
    BY <1>0, <1>7, <2>1 DEF SetNew, L0TypeOK, Entry
  <2>5. OverByOne' /\ CapacityRespected'
    <3>1. Len(ll) \in Nat /\ Len(ll) <= MaxEntries
      BY <1>0, <1>7, LenProperties DEF SetNew, L0TypeOK, CapacityRespected
    <3>2. QED
      BY <3>1, <2>1, <1>7 DEF SetNew, OverByOne, CapacityRespected
  <2>6. QED
    BY <2>2, <2>3, <2>4, <2>5 DEF L0Inv
<1>8. ASSUME EvictStep PROVE L0Inv'
  <2> DEFINE h == IF hand = Nil THEN Back ELSE hand
  <2>1. Len(ll) = MaxEntries + 1 /\ Len(ll) > 0 /\ ll \in Seq(Elem)
    BY <1>0, <1>8 DEF EvictStep, OverByOne, L0TypeOK
  <2>2. h \in Elem /\ NextHand(h) \in Elem
    BY <2>1, <1>0, NextHandType DEF L0TypeOK
  <2>3. hand' \in Elem
    BY <1>8, <2>2 DEF EvictStep
  <2>4. CASE ent[h].visited
    <3>1. /\ ent' = [ent EXCEPT ![h].visited = FALSE]
          /\ UNCHANGED <<ll, cache, lock, setting, expiring>>
      BY <1>8, <2>4 DEF EvictStep
    <3> HIDE DEF h
    <3>2. ent' \in [Elem -> Entry] /\ \A x \in Elem : ent'[x].key = ent[x].key
      BY <1>0, <3>1, <2>2 DEF L0TypeOK, Entry
    <3>3. MapPointsIntoList' /\ NoDuplicates'
      BY <3>1, <3>2, EntriesChange
    <3>4. QED
      BY <1>0, <2>3, <3>1, <3>2, <3>3
         DEF L0Inv, L0TypeOK, OverByOne, CapacityRespected
  <2>5. CASE ~ent[h].visited
    <3>1. /\ RemoveElement(h)
          /\ IF Len(ll') > MaxEntries
             THEN UNCHANGED <<lock, setting>>
             ELSE lock' = "free" /\ setting' = Nil
          /\ UNCHANGED <<ent, expiring>>
      BY <1>8, <2>5 DEF EvictStep
    <3> HIDE DEF h
    <3>2. /\ ll' \in Seq(Elem) /\ cache' \in [Key -> Elem \cup {Nil}]
          /\ Len(ll') = IF InList(h) THEN Len(ll) - 1 ELSE Len(ll)
          /\ NoDuplicates' /\ MapPointsIntoList'
      BY <1>0, <3>1, <2>2, RemoveElementFacts
    <3>3. Len(ll') = MaxEntries + 1 \/ Len(ll') = MaxEntries
      BY <3>2, <2>1
    <3>4. lock = "evict"
      BY <1>8 DEF EvictStep
    <3>5. QED
      BY <1>0, <2>3, <3>1, <3>2, <3>3, <3>4
         DEF L0Inv, L0TypeOK, OverByOne, CapacityRespected
  <2>6. QED
    BY <2>4, <2>5
<1>9. ASSUME Clear PROVE L0Inv'
  BY <1>0, <1>9
     DEF Clear, L0Inv, L0TypeOK, MapPointsIntoList, NoDuplicates, OverByOne,
         CapacityRespected
<1>10. ASSUME CleanStart PROVE L0Inv'
  BY <1>0, <1>10
     DEF CleanStart, L0Inv, L0TypeOK, MapPointsIntoList, InList, NoDuplicates,
         OverByOne, CapacityRespected
<1>11. ASSUME CleanStep PROVE L0Inv'
  <2>1. PICK i \in DOMAIN ll : RemoveElement(ll[i]) /\ ent' = ent
    BY <1>11 DEF CleanStep
  <2>2. ll[i] \in Elem
    BY <1>0, <2>1, ElementOfSeq DEF L0TypeOK
  <2>3. /\ ll' \in Seq(Elem) /\ cache' \in [Key -> Elem \cup {Nil}]
        /\ Len(ll') <= Len(ll)
        /\ NoDuplicates' /\ MapPointsIntoList'
    BY <1>0, <2>1, <2>2, RemoveElementFacts, LenProperties DEF L0TypeOK
  <2>4. QED
    BY <1>0, <1>11, <2>3
       DEF CleanStep, L0Inv, L0TypeOK, OverByOne, CapacityRespected
<1>12. ASSUME CleanEnd PROVE L0Inv'
  BY <1>0, <1>12
     DEF CleanEnd, L0Inv, L0TypeOK, MapPointsIntoList, InList, NoDuplicates,
         OverByOne, CapacityRespected
<1>13. ASSUME UNCHANGED l0Vars PROVE L0Inv'
  BY <1>0, <1>13
     DEF l0Vars, L0Inv, L0TypeOK, MapPointsIntoList, InList, NoDuplicates,
         OverByOne, CapacityRespected
<1>14. QED
  BY <1>1, <1>2, <1>3, <1>4, <1>5, <1>6, <1>7, <1>8, <1>9, <1>10, <1>11,
     <1>12, <1>13 DEF L0Next

(* The shard keeps its types through every sequence of operations.         *)
THEOREM L0TypeCorrect == L0Spec => []L0TypeOK
<1>1. L0Inv => L0TypeOK
  BY DEF L0Inv
<1>2. QED
  BY L0InitInv, L0NextInv, <1>1, PTL DEF L0Spec

(* removeElement's delete by key, also through a hand that points at an    *)
(* element long removed, never leaves a key leading out of the list.       *)
THEOREM MapSound == L0Spec => []MapPointsIntoList
<1>1. L0Inv => MapPointsIntoList
  BY DEF L0Inv
<1>2. QED
  BY L0InitInv, L0NextInv, <1>1, PTL DEF L0Spec

(* The configured capacity bounds the list, whatever evictOne does to the  *)
(* map on the way.                                                         *)
THEOREM CapacitySafe == L0Spec => []CapacityRespected
<1>1. L0Inv => CapacityRespected
  BY DEF L0Inv
<1>2. QED
  BY L0InitInv, L0NextInv, <1>1, PTL DEF L0Spec

(* evictOne's walk ends, for any capacity.  What is left of it: a visited  *)
(* bit to clear, or a way back into the list for a hand that points out.   *)
VisitedPlaces == {i \in DOMAIN ll : ent[ll[i]].visited}
HandGone == hand # Nil /\ ~InList(hand)
EvictionWork == Cardinality(VisitedPlaces) + IF HandGone THEN 1 ELSE 0

EvictionBounded == lock = "evict" => EvictionWork \in 0 .. MaxEntries + 2
EvictionShrinks ==
    [][lock = "evict" => EvictStep /\ (lock' = "free" \/ EvictionWork' < EvictionWork)]_l0Vars

LEMMA VisitedFinite ==
    ASSUME ll \in Seq(Elem)
    PROVE  /\ IsFiniteSet(VisitedPlaces)
           /\ Cardinality(VisitedPlaces) \in 0 .. Len(ll)
<1>0. Len(ll) \in Nat /\ Len(ll) \in Int /\ 1 \in Int
  BY LenProperties
<1>1. IsFiniteSet(1 .. Len(ll)) /\ Cardinality(1 .. Len(ll)) = Len(ll) /\ Len(ll) \in Nat
  BY <1>0, FS_Interval
<1>2. VisitedPlaces \in SUBSET (1 .. Len(ll))
  BY DEF VisitedPlaces
<1>3. IsFiniteSet(VisitedPlaces) /\ Cardinality(VisitedPlaces) <= Len(ll)
  BY <1>1, <1>2, FS_Subset
<1>4. Cardinality(VisitedPlaces) \in Nat
  BY <1>3, FS_CardinalityType
<1> QED
  BY <1>1, <1>3, <1>4

(* The walk goes to an element that is in the list.                        *)
LEMMA NextHandInList ==
    ASSUME ll \in Seq(Elem), Len(ll) > 0, NEW e
    PROVE  InList(NextHand(e))
<1>1. Len(ll) \in DOMAIN ll /\ InList(Back)
  BY LenProperties DEF Back, InList
<1>2. CASE \E i \in 2..Len(ll) : ll[i] = e
  <2>1. PICK i \in 2..Len(ll) : Prev(e) = ll[i - 1]
    BY <1>2 DEF Prev
  <2>2. i - 1 \in DOMAIN ll /\ InList(Prev(e))
    BY <2>1 DEF InList
  <2> QED
    BY <1>1, <2>2 DEF NextHand
<1>3. CASE ~\E i \in 2..Len(ll) : ll[i] = e
  BY <1>1, <1>3 DEF NextHand, Prev
<1> QED
  BY <1>2, <1>3

(* The second chance: one bit less, and the hand is in the list.           *)
LEMMA SecondChance ==
    ASSUME L0Inv, NEW h \in Elem, ent[h].visited, h = (IF hand = Nil THEN Back ELSE hand),
           ent' = [ent EXCEPT ![h].visited = FALSE], ll' = ll, hand' = NextHand(h), Len(ll) > 0
    PROVE  EvictionWork' < EvictionWork
<1>1. ll \in Seq(Elem) /\ ll' \in Seq(Elem) /\ NoDuplicates /\ ent \in [Elem -> Entry]
  BY DEF L0Inv, L0TypeOK
<1>2. /\ IsFiniteSet(VisitedPlaces) /\ Cardinality(VisitedPlaces) \in Nat
      /\ IsFiniteSet(VisitedPlaces') /\ Cardinality(VisitedPlaces') \in Nat
  <2>1. IsFiniteSet(VisitedPlaces) /\ Cardinality(VisitedPlaces) \in Nat
    BY <1>1, VisitedFinite, LenProperties
  <2>2. VisitedPlaces' \in SUBSET VisitedPlaces
    BY <1>1, ElementOfSeq DEF VisitedPlaces, Entry
  <2> QED
    BY <2>1, <2>2, FS_Subset, FS_CardinalityType
<1>3. ~HandGone'
  BY <1>1, NextHandInList DEF HandGone, InList
<1>4. CASE InList(h)
  <2>1. PICK i \in DOMAIN ll : ll[i] = h
    BY <1>4 DEF InList
  <2>2. VisitedPlaces' = VisitedPlaces \ {i} /\ i \in VisitedPlaces
    BY <1>1, <2>1, ElementOfSeq DEF VisitedPlaces, NoDuplicates, Entry
  <2>3. Cardinality(VisitedPlaces') = Cardinality(VisitedPlaces) - 1
    BY <1>2, <2>2, FS_RemoveElement
  <2> QED
    BY <1>2, <1>3, <2>3 DEF EvictionWork
<1>5. CASE ~InList(h)
  <2>1. VisitedPlaces' = VisitedPlaces
    BY <1>1, <1>5, ElementOfSeq DEF VisitedPlaces, InList, Entry
  <2>2. HandGone
    <3>1. InList(Back)
      BY <1>1, LenProperties DEF Back, InList
    <3> QED
      BY <1>5, <3>1 DEF HandGone
  <2> QED
    BY <1>2, <1>3, <2>1, <2>2 DEF EvictionWork
<1> QED
  BY <1>4, <1>5

LEMMA EvictionStep ==
    ASSUME L0Inv, EvictStep
    PROVE  lock' = "free" \/ EvictionWork' < EvictionWork
<1> DEFINE h == IF hand = Nil THEN Back ELSE hand
<1>1. Len(ll) = MaxEntries + 1 /\ Len(ll) > 0 /\ ll \in Seq(Elem) /\ NoDuplicates /\ MaxEntries \in Nat
  BY CapacityAssumption DEF EvictStep, L0Inv, OverByOne, L0TypeOK
<1>2. h \in Elem /\ hand' = NextHand(h)
  BY <1>1, NextHandType DEF EvictStep, L0Inv, L0TypeOK
<1>3. CASE ent[h].visited
  <2>1. ent' = [ent EXCEPT ![h].visited = FALSE] /\ ll' = ll
    BY <1>3 DEF EvictStep
  <2> QED
    BY <1>1, <1>2, <1>3, <2>1, SecondChance
<1>4. CASE ~ent[h].visited
  <2>1. /\ RemoveElement(h) /\ UNCHANGED ent
        /\ Len(ll') > MaxEntries \/ lock' = "free"
    BY <1>4 DEF EvictStep
  <2>2. ll' = Unlink(h)
    BY <2>1 DEF RemoveElement
  <2>3. CASE InList(h)
    <3>1. Len(ll') = MaxEntries
      BY <1>1, <1>2, <2>2, <2>3, UnlinkFacts
    <3> QED
      BY <1>1, <2>1, <3>1
  <2>4. CASE ~InList(h)
    <3>1. ll' = ll
      BY <2>2, <2>4 DEF Unlink
    <3>2. VisitedPlaces' = VisitedPlaces
      BY <2>1, <3>1 DEF VisitedPlaces
    <3>3. ~HandGone'
      BY <1>1, <1>2, <3>1, NextHandInList DEF HandGone, InList
    <3>4. HandGone
      <4>1. InList(Back)
        BY <1>1, LenProperties DEF Back, InList
      <4> QED
        BY <2>4, <4>1 DEF HandGone
    <3>5. Cardinality(VisitedPlaces) \in Nat
      BY <1>1, VisitedFinite, LenProperties
    <3> QED
      BY <3>2, <3>3, <3>4, <3>5 DEF EvictionWork
  <2> QED
    BY <2>3, <2>4
<1> QED
  BY <1>3, <1>4

(* The loops of Set and evictOne in lru.go, under the shard's lock: with   *)
(* the next theorem, they take at most MaxEntries + 3 turns together.      *)
THEOREM EvictionIsBounded == L0Spec => []EvictionBounded
<1>1. L0Inv => EvictionBounded
  <2> SUFFICES ASSUME L0Inv, lock = "evict" PROVE EvictionWork \in 0 .. MaxEntries + 2
    BY DEF EvictionBounded
  <2>1. Len(ll) = MaxEntries + 1 /\ ll \in Seq(Elem) /\ MaxEntries \in Nat
    BY CapacityAssumption DEF L0Inv, OverByOne, L0TypeOK
  <2>2. Cardinality(VisitedPlaces) \in 0 .. MaxEntries + 1
    BY <2>1, VisitedFinite
  <2> QED
    BY <2>1, <2>2 DEF EvictionWork
<1> QED
  BY L0InitInv, L0NextInv, <1>1, PTL DEF L0Spec

(* Each turn of that loop ends it or leaves less to do, and nobody else    *)
(* touches the shard meanwhile: a hand that points at a removed element,   *)
(* which removes nothing, costs one turn and no more.                      *)
THEOREM EvictionAdvances == L0Spec => EvictionShrinks
<1>1. L0Inv /\ [L0Next]_l0Vars =>
        [lock = "evict" => EvictStep /\ (lock' = "free" \/ EvictionWork' < EvictionWork)]_l0Vars
  <2> SUFFICES ASSUME L0Inv, L0Next, lock = "evict"
               PROVE  EvictStep /\ (lock' = "free" \/ EvictionWork' < EvictionWork)
    OBVIOUS
  <2>1. EvictStep
    BY DEF L0Next, Expire, GetHit, GetExpired, GetRemove, SetExisting, Delete, SetNew, Clear,
           CleanStart, CleanStep, CleanEnd
  <2> QED
    BY <2>1, EvictionStep
<1> QED
  BY L0InitInv, L0NextInv, <1>1, PTL DEF L0Spec, EvictionShrinks

-----------------------------------------------------------------------------
(* The two tiers                                                           *)

LEMMA InitTypeOK == Init => TypeOK
  BY NilAssumption, CellAssumption, BoundAssumption DEF Init, TypeOK, Gen

-----------------------------------------------------------------------------
(* Types                                                                   *)

LEMMA CallTypes ==
    ASSUME TypeOK, NEW c \in Call, CallStep(c)
    PROVE  TypeOK'
  <1>0. Nil \notin Gen /\ Nil \notin Key /\ Nil \notin Replica
    BY NilAssumption, CellAssumption DEF Gen
  <1>1. ASSUME NEW r \in Replica, NEW k \in Key, GetMissesL0(c, r, k)
        PROVE  TypeOK'
    BY <1>0, <1>1 DEF TypeOK, GetMissesL0, Begin, sweepVars, clearVars
  <1>2. ASSUME NEW r \in Replica, NEW k \in Key, SetL0(c, r, k)
        PROVE  TypeOK'
    <2>1. /\ l0' \in [Replica -> [Key -> Gen \cup {Nil}]]
          /\ UNCHANGED <<l1, index, usable, failing, calm, gen, cleared>>
          /\ UNCHANGED <<sweep, todo, batch, zrem, hdel, wipe, wiping>>
          /\ revived' \in [Replica -> SUBSET Key]
      BY <1>2 DEF TypeOK, SetL0, Renews, sweepVars
    <2>2. CASE r \in usable
      <3>1. gen \in Gen /\ gen # Nil
        BY <1>0 DEF TypeOK
      <3>2. Begin(c, r, k, gen, "hset")
        BY <1>2, <2>2 DEF SetL0
      <3>3. /\ pc' \in [Call -> {"idle", "hgetall", "promote", "hset", "zadd"}]
            /\ at' \in [Call -> Replica \cup {Nil}]
            /\ key' \in [Call -> Key \cup {Nil}]
            /\ val' \in [Call -> Gen \cup {Nil}]
        BY <3>1, <3>2 DEF Begin, TypeOK
      <3>4. \A d \in Call : /\ pc'[d] # "idle" => at'[d] # Nil /\ key'[d] # Nil
                            /\ pc'[d] \in {"promote", "hset", "zadd"} => val'[d] # Nil
        BY <1>0, <3>1, <3>2 DEF Begin, TypeOK
      <3> QED
        BY <2>1, <3>3, <3>4 DEF TypeOK
    <2>3. CASE r \notin usable
      BY <1>2, <2>1, <2>3 DEF TypeOK, SetL0, callVars
    <2> QED
      BY <2>2, <2>3
  <1>3. CASE GetHash(c)
    <2>1. UNCHANGED <<l0, l1, index, usable, failing, calm, gen, cleared, sweep, todo, batch, zrem, hdel,
                      revived, wipe, wiping>>
      BY <1>3 DEF GetHash, sweepVars, clearVars
    <2>2. CASE Leave(c)
      BY <2>1, <2>2 DEF TypeOK, Leave
    <2>3. CASE /\ pc[c] = "hgetall"
               /\ l1[key[c]] # Nil
               /\ val' = [val EXCEPT ![c] = l1[key[c]]]
               /\ pc' = [pc EXCEPT ![c] = "promote"]
               /\ UNCHANGED <<at, key>>
      <3>1. key[c] \in Key /\ at[c] # Nil
        BY <2>3 DEF TypeOK
      <3>2. l1[key[c]] \in Gen
        BY <2>3, <3>1 DEF TypeOK
      <3> QED
        BY <1>0, <2>1, <2>3, <3>1, <3>2 DEF TypeOK
    <2> QED
      BY <1>3, <2>2, <2>3 DEF GetHash
  <1>4. CASE Promote(c)
    <2>1. at[c] \in Replica /\ key[c] \in Key /\ val[c] \in Gen
      BY <1>4 DEF TypeOK, Promote
    <2>2. l0' \in [Replica -> [Key -> Gen \cup {Nil}]]
      BY <1>4, <2>1 DEF TypeOK, Promote
    <2>3. revived' \in [Replica -> SUBSET Key]
      BY <1>4, <2>1 DEF TypeOK, Promote, Renews
    <2> QED
      BY <1>4, <2>2, <2>3 DEF TypeOK, Promote, Leave, sweepVars
  <1>5. CASE SetHash(c)
    <2>1. key[c] \in Key /\ val[c] \in Gen /\ at[c] # Nil
      BY <1>5 DEF TypeOK, SetHash
    <2>2. l1' \in [Key -> Gen \cup {Nil}] /\ index' \in SUBSET Key
      BY <1>5, <2>1 DEF TypeOK, SetHash
    <2>3. UNCHANGED <<l0, usable, failing, calm, gen, cleared, sweep, todo, batch, zrem, hdel, revived, wipe, wiping>>
      BY <1>5 DEF SetHash, sweepVars, clearVars
    <2>4. CASE Cluster
      BY <1>0, <1>5, <2>1, <2>2, <2>3, <2>4 DEF TypeOK, SetHash
    <2>5. CASE ~Cluster
      BY <1>5, <2>2, <2>3, <2>5 DEF TypeOK, SetHash, Leave
    <2> QED
      BY <2>4, <2>5
  <1>6. CASE SetIndex(c)
    <2>1. key[c] \in Key
      BY <1>6 DEF TypeOK, SetIndex
    <2> QED
      BY <1>6, <2>1 DEF TypeOK, SetIndex, Leave, sweepVars, clearVars
  <1>7. CASE SetFails(c)
    <2>1. key[c] \in Key /\ val[c] \in Gen
      BY <1>7 DEF TypeOK, SetFails
    <2>2. l1' \in [Key -> Gen \cup {Nil}]
      <3>1. [l1 EXCEPT ![key[c]] = val[c]] \in [Key -> Gen \cup {Nil}]
        BY <2>1 DEF TypeOK
      <3> QED
        BY <1>7, <3>1 DEF TypeOK, SetFails
    <2> QED
      BY <1>7, <2>2 DEF TypeOK, SetFails, Leave, sweepVars, clearVars
  <1> QED
    BY <1>1, <1>2, <1>3, <1>4, <1>5, <1>6, <1>7 DEF CallStep

LEMMA SweepTypes ==
    ASSUME TypeOK, NEW r \in Replica, SweepStep(r)
    PROVE  TypeOK'
  <1>0. Nil \notin Gen /\ Nil \notin Key /\ Nil \notin Replica
    BY NilAssumption, CellAssumption DEF Gen
  <1>1. CASE SampleIndex(r)
    BY <1>1 DEF TypeOK, SampleIndex, Stage, callVars, clearVars
  <1>2. CASE ReconcileFails(r)
    BY <1>2 DEF TypeOK, ReconcileFails, Stage, callVars, clearVars
  <1>3. CASE EvictToCap(r)
    <2>1. batch' \in [Replica -> SUBSET Key]
      BY <1>3 DEF TypeOK, EvictToCap
    <2>2. sweep' = [sweep EXCEPT ![r] = "evict"] \/ sweep' = [sweep EXCEPT ![r] = "cold"]
      BY <1>3 DEF EvictToCap, Stage
    <2>3. UNCHANGED <<l0, l1, index, usable, failing, calm, pc, at, key, val, todo, zrem, hdel,
                      gen, cleared, revived, wipe, wiping>>
      BY <1>3 DEF EvictToCap, callVars, clearVars
    <2> QED
      BY <2>1, <2>2, <2>3 DEF TypeOK
  <1>4. CASE SweepCandidates(r)
    <2>1. batch' \in [Replica -> SUBSET Key]
      BY <1>4 DEF TypeOK, SweepCandidates
    <2>2. sweep' = [sweep EXCEPT ![r] = "delete"] \/ sweep' = [sweep EXCEPT ![r] = "tick"]
      BY <1>4 DEF SweepCandidates, Stage
    <2>3. UNCHANGED <<l0, l1, index, usable, failing, calm, pc, at, key, val, todo, zrem, hdel,
                      gen, cleared, revived, wipe, wiping>>
      BY <1>4 DEF SweepCandidates, callVars, clearVars
    <2> QED
      BY <2>1, <2>2, <2>3 DEF TypeOK
  <1>5. CASE DeleteFromIndex(r)
    <2>1. zrem[r] \in Key
      BY <1>5 DEF TypeOK, DeleteFromIndex
    <2>2. l1' \in [Key -> Gen \cup {Nil}] /\ index' \in SUBSET Key
      BY <1>5, <2>1 DEF TypeOK, DeleteFromIndex
    <2>3. zrem' \in [Replica -> Key \cup {Nil}] /\ hdel' \in [Replica -> Key \cup {Nil}]
      BY <1>5, <2>1 DEF TypeOK, DeleteFromIndex
    <2>4. UNCHANGED <<l0, usable, failing, calm, pc, at, key, val, sweep, todo, batch,
                      gen, cleared, revived, wipe, wiping>>
      BY <1>5 DEF DeleteFromIndex, callVars, clearVars
    <2> QED
      BY <2>2, <2>3, <2>4 DEF TypeOK
  <1>6. CASE DeleteHash(r)
    <2>1. hdel[r] \in Key
      BY <1>6 DEF TypeOK, DeleteHash
    <2>2. l1' \in [Key -> Gen \cup {Nil}]
      BY <1>6, <2>1 DEF TypeOK, DeleteHash
    <2> QED
      BY <1>6, <2>2 DEF TypeOK, DeleteHash, callVars, clearVars
  <1>7. CASE DeletesDone(r)
    BY <1>7 DEF TypeOK, DeletesDone, Stage, callVars, clearVars
  <1>8. ASSUME NEW k \in Key, CheckExists(r, k)
        PROVE  TypeOK'
    <2>1. todo' \in [Replica -> SUBSET Key] /\ batch' \in [Replica -> SUBSET Key]
      <3>1. todo' = [todo EXCEPT ![r] = todo[r] \ {k}]
        BY <1>8 DEF CheckExists
      <3>2. batch' = batch \/ batch' = [batch EXCEPT ![r] = batch[r] \cup {k}]
        BY <1>8 DEF CheckExists
      <3>3. batch' \in [Replica -> SUBSET Key]
        <4>1. batch \in [Replica -> SUBSET Key] /\ batch[r] \cup {k} \in SUBSET Key
          BY DEF TypeOK
        <4> QED
          BY <3>2, <4>1
      <3>4. todo' \in [Replica -> SUBSET Key]
        BY <3>1 DEF TypeOK
      <3> QED
        BY <3>3, <3>4
    <2>2. \E s \in {"exists", "unindex", "count"} : sweep' = [sweep EXCEPT ![r] = s]
      BY <1>8 DEF CheckExists, Stage
    <2>3. UNCHANGED <<l0, l1, index, usable, failing, calm, pc, at, key, val, zrem, hdel,
                      gen, cleared, revived, wipe, wiping>>
      BY <1>8 DEF CheckExists, callVars, clearVars
    <2> QED
      BY <2>1, <2>2, <2>3 DEF TypeOK
  <1>9. ASSUME NEW k \in Key, RemoveFromIndex(r, k)
        PROVE  TypeOK'
    <2>1. index' \in SUBSET Key /\ batch' \in [Replica -> SUBSET Key]
      BY <1>9 DEF TypeOK, RemoveFromIndex
    <2>2. \E s \in {"unindex", "count"} : sweep' = [sweep EXCEPT ![r] = s]
      BY <1>9 DEF RemoveFromIndex, Stage
    <2>3. UNCHANGED <<l0, l1, usable, failing, pc, at, key, val, todo, zrem, hdel,
                      gen, cleared, revived, wipe, wiping>>
      BY <1>9 DEF RemoveFromIndex, callVars, clearVars
    <2>4. calm' = FALSE
      BY <1>9 DEF RemoveFromIndex
    <2> QED
      <3>1. PICK s \in {"unindex", "count"} : sweep' = [sweep EXCEPT ![r] = s]
        BY <2>2
      <3>2. sweep' \in [Replica -> {"tick", "exists", "unindex", "count",
                                    "evict", "cold", "delete"}]
        BY <3>1 DEF TypeOK
      <3>3. calm' \in BOOLEAN
        BY <2>4
      <3> QED
        BY <2>1, <2>3, <3>2, <3>3 DEF TypeOK
  <1>10. ASSUME NEW k \in Key, DeleteL0(r, k)
         PROVE  TypeOK'
    <2>1. l0' \in [Replica -> [Key -> Gen \cup {Nil}]]
      BY <1>10 DEF TypeOK, DeleteL0
    <2>2. batch' \in [Replica -> SUBSET Key] /\ zrem' \in [Replica -> Key \cup {Nil}]
      BY <1>10 DEF TypeOK, DeleteL0
    <2>3. UNCHANGED <<l1, index, usable, failing, calm, pc, at, key, val, sweep, todo, hdel,
                      gen, cleared, wipe, wiping>>
      BY <1>10 DEF DeleteL0, callVars
    <2>4. revived' \in [Replica -> SUBSET Key]
      BY <1>10 DEF TypeOK, DeleteL0, Renews
    <2> QED
      BY <2>1, <2>2, <2>3, <2>4 DEF TypeOK
  <1> QED
    BY <1>1, <1>2, <1>3, <1>4, <1>5, <1>6, <1>7, <1>8, <1>9, <1>10 DEF SweepStep

LEMMA ClearTypes ==
    ASSUME TypeOK, NEW r \in Replica, ClearStep(r)
    PROVE  TypeOK'
  <1>1. CASE ClearL0(r)
    <2>1. gen' \in Gen /\ gen' = gen + 1
      BY <1>1, BoundAssumption DEF ClearL0, TypeOK, Gen
    <2>4. cleared' \in [Replica -> Gen] /\ revived' \in [Replica -> SUBSET Key]
      BY <1>1, <2>1 DEF ClearL0, TypeOK
    <2>2. l0' \in [Replica -> [Key -> Gen \cup {Nil}]]
      BY <1>1 DEF ClearL0, TypeOK
    <2>3. wipe' \in [Replica -> {"idle", "dns"}] /\ wiping' \in [Replica -> SUBSET Key]
      BY <1>1 DEF ClearL0, TypeOK
    <2> QED
      BY <1>1, <2>1, <2>2, <2>3, <2>4 DEF ClearL0, TypeOK, callVars, sweepVars
  <1>2. CASE ClearMeta(r)
    BY <1>2 DEF ClearMeta, TypeOK, callVars, sweepVars
  <1>3. CASE ClearFails(r)
    BY <1>3 DEF ClearFails, TypeOK, callVars, sweepVars
  <1>4. ASSUME NEW k \in Key, ClearHash(r, k)
        PROVE  TypeOK'
    BY <1>4 DEF ClearHash, TypeOK, callVars, sweepVars
  <1> QED
    BY <1>1, <1>2, <1>3, <1>4 DEF ClearStep

LEMMA CrashTypes ==
    ASSUME TypeOK, NEW r \in Replica, Crash(r)
    PROVE  TypeOK'
  <1>1. l0' \in [Replica -> [Key -> Gen \cup {Nil}]]
    BY DEF Crash, TypeOK
  <1>2. /\ pc' \in [Call -> {"idle", "hgetall", "promote", "hset", "zadd"}]
        /\ at' \in [Call -> Replica \cup {Nil}]
        /\ key' \in [Call -> Key \cup {Nil}]
        /\ val' \in [Call -> Gen \cup {Nil}]
    BY DEF Crash, TypeOK
  <1>3. \A c \in Call : /\ pc'[c] # "idle" => at'[c] # Nil /\ key'[c] # Nil
                        /\ pc'[c] \in {"promote", "hset", "zadd"} => val'[c] # Nil
    BY DEF Crash, TypeOK
  <1>4. /\ sweep' \in [Replica -> {"tick", "exists", "unindex", "count",
                                   "evict", "cold", "delete"}]
        /\ todo' \in [Replica -> SUBSET Key]
        /\ batch' \in [Replica -> SUBSET Key]
        /\ zrem' \in [Replica -> Key \cup {Nil}]
        /\ hdel' \in [Replica -> Key \cup {Nil}]
        /\ wipe' \in [Replica -> {"idle", "dns"}]
        /\ wiping' \in [Replica -> SUBSET Key]
        /\ revived' \in [Replica -> SUBSET Key]
    BY DEF Crash, TypeOK, Stage
  <1> QED
    BY <1>1, <1>2, <1>3, <1>4 DEF Crash, TypeOK

LEMMA NextTypeOK == TypeOK /\ [Next]_vars => TypeOK'
  <1> SUFFICES ASSUME TypeOK, [Next]_vars PROVE TypeOK'
    OBVIOUS
  <1>1. ASSUME NEW r \in Replica, HealthMonitor(r)
        PROVE  TypeOK'
    BY <1>1 DEF HealthMonitor, TypeOK, callVars, sweepVars, clearVars
  <1>2. ASSUME NEW r \in Replica, NEW k \in Key, L0Drops(r, k)
        PROVE  TypeOK'
    <2>1. l0' \in [Replica -> [Key -> Gen \cup {Nil}]]
      BY <1>2 DEF TypeOK, L0Drops
    <2>2. revived' \in [Replica -> SUBSET Key]
      BY <1>2 DEF TypeOK, L0Drops, Renews
    <2> QED
      BY <1>2, <2>1, <2>2 DEF L0Drops, TypeOK, callVars, sweepVars
  <1>3. ASSUME NEW k \in Key, L1Expires(k)
        PROVE  TypeOK'
    BY <1>3 DEF L1Expires, TypeOK, callVars, sweepVars, clearVars
  <1>4. CASE UNCHANGED vars \/ FailuresEnd
    BY <1>4 DEF vars, FailuresEnd, TypeOK, callVars, sweepVars, clearVars
  <1> QED
    BY <1>1, <1>2, <1>3, <1>4, CallTypes, SweepTypes, ClearTypes, CrashTypes DEF Next

(* Types of both tiers, of the index and of every call, sweep and clear in *)
(* progress: a call that is to write has data to write.                    *)
THEOREM TypeCorrect == Spec => []TypeOK
  BY InitTypeOK, NextTypeOK, PTL DEF Spec

-----------------------------------------------------------------------------
(* The index                                                               *)

(* A DeleteCacheKey sends its DEL before its replica turns to another key. *)
OneDeletion == \A r \in Replica : zrem[r] = Nil \/ hdel[r] = Nil

IndexInv == TypeOK /\ OneDeletion /\ IndexKept

LEMMA InitIndexInv == Init => IndexInv
  <1> SUFFICES ASSUME Init PROVE IndexInv
    OBVIOUS
  <1>1. TypeOK
    BY InitTypeOK
  <1> QED
    BY <1>1 DEF Init, IndexInv, IndexKept, IndexCovers, OneDeletion, Stored

(* A step that leaves the index, the deletions and the stores in progress  *)
(* alone, and at most takes entries away.                                  *)
LEMMA QuietIndex ==
    ASSUME IndexKept, UNCHANGED <<index, calm, hdel, pc, key>>,
           Stored' \subseteq Stored
    PROVE  IndexKept'
  BY DEF IndexKept, IndexCovers

LEMMA CallIndex ==
    ASSUME IndexInv, NEW c \in Call, CallStep(c)
    PROVE  IndexKept'
  <1> USE DEF IndexInv
  <1>1. CASE \/ \E r \in Replica, k \in Key : GetMissesL0(c, r, k) \/ SetL0(c, r, k)
             \/ GetHash(c) \/ Promote(c)
    <2>1. UNCHANGED <<l1, index, calm, hdel>>
      BY <1>1 DEF GetMissesL0, SetL0, GetHash, Promote, sweepVars
    <2>2. \A d \in Call : pc[d] = "zadd" => pc'[d] = "zadd" /\ key'[d] = key[d]
      BY <1>1 DEF TypeOK, GetMissesL0, SetL0, Begin, GetHash, Promote, Leave, callVars
    <2> QED
      BY <2>1, <2>2 DEF IndexKept, IndexCovers, Stored
  <1>2. CASE SetHash(c)
    <2>1. /\ pc[c] = "hset"
          /\ \A k \in Key \ {key[c]} : l1'[k] = l1[k]
          /\ hdel' = hdel /\ calm' = calm
      BY <1>2 DEF TypeOK, SetHash, sweepVars
    <2>2. \A d \in Call \ {c} : pc'[d] = pc[d] /\ key'[d] = key[d]
      BY <1>2 DEF TypeOK, SetHash, Leave
    <2>3. CASE Cluster
      <3>1. pc'[c] = "zadd" /\ key'[c] = key[c] /\ index' = index
        BY <1>2, <2>3 DEF TypeOK, SetHash
      <3> QED
        BY <2>1, <2>2, <3>1 DEF IndexKept, IndexCovers, Stored
    <2>4. CASE ~Cluster
      <3>1. index' = index \cup {key[c]}
        BY <1>2, <2>4 DEF SetHash
      <3> QED
        BY <2>1, <2>2, <3>1 DEF IndexKept, IndexCovers, Stored
    <2> QED
      BY <2>3, <2>4
  <1>3. CASE SetIndex(c)
    <2>1. l1' = l1 /\ hdel' = hdel /\ calm' = calm /\ index' = index \cup {key[c]}
      BY <1>3 DEF SetIndex, sweepVars
    <2>2. \A d \in Call \ {c} : pc'[d] = pc[d] /\ key'[d] = key[d]
      BY <1>3 DEF TypeOK, SetIndex, Leave
    <2> QED
      BY <2>1, <2>2 DEF IndexKept, IndexCovers, Stored
  <1>4. CASE SetFails(c)
    BY <1>4 DEF SetFails, IndexKept
  <1> QED
    BY <1>1, <1>2, <1>3, <1>4 DEF CallStep

LEMMA SweepIndex ==
    ASSUME IndexInv, NEW r \in Replica, SweepStep(r)
    PROVE  IndexKept'
  <1> USE DEF IndexInv
  <1>1. CASE DeleteFromIndex(r)
    <2>1. /\ zrem[r] \in Key /\ hdel[r] = Nil
          /\ UNCHANGED <<pc, key, calm>>
      BY <1>1 DEF TypeOK, OneDeletion, DeleteFromIndex, callVars
    <2>2. \A q \in Replica \ {r} : hdel'[q] = hdel[q]
      BY <1>1 DEF TypeOK, DeleteFromIndex
    <2>3. \A k \in Key : hdel[r] # k
      BY <2>1, NilAssumption, CellAssumption
    <2>4. CASE UNCHANGED <<index, l1>>
      BY <2>1, <2>2, <2>3, <2>4 DEF IndexKept, IndexCovers, Stored
    <2>5. CASE index' = index \ {zrem[r]} /\ Cluster /\ l1' = l1
      <3>1. hdel'[r] = zrem[r]
        BY <1>1, <2>5 DEF TypeOK, DeleteFromIndex
      <3> QED
        BY <2>1, <2>2, <2>3, <2>5, <3>1 DEF IndexKept, IndexCovers, Stored
    <2>6. CASE index' = index \ {zrem[r]} /\ l1' = [l1 EXCEPT ![zrem[r]] = Nil]
      <3>1. Stored' = Stored \ {zrem[r]}
        BY <2>1, <2>6 DEF TypeOK, Stored
      <3> QED
        BY <2>1, <2>2, <2>3, <2>6, <3>1 DEF IndexKept, IndexCovers, Stored
    <2> QED
      BY <1>1, <2>4, <2>5, <2>6 DEF DeleteFromIndex
  <1>2. CASE DeleteHash(r)
    <2>1. /\ hdel[r] \in Key
          /\ UNCHANGED <<index, pc, key>>
          /\ calm' => calm' = calm /\ l1' = [l1 EXCEPT ![hdel[r]] = Nil]
      BY <1>2 DEF TypeOK, DeleteHash, callVars
    <2>2. \A q \in Replica \ {r} : hdel'[q] = hdel[q]
      BY <1>2 DEF TypeOK, DeleteHash
    <2>3. calm' => Stored' = Stored \ {hdel[r]}
      BY <2>1 DEF TypeOK, Stored
    <2> QED
      BY <2>1, <2>2, <2>3 DEF IndexKept, IndexCovers, Stored
  <1>3. CASE SampleIndex(r) \/ ReconcileFails(r) \/ EvictToCap(r) \/ SweepCandidates(r)
             \/ DeletesDone(r)
    <2>1. UNCHANGED <<l1, index, calm, hdel, pc, key>>
      BY <1>3 DEF SampleIndex, ReconcileFails, EvictToCap, SweepCandidates, DeletesDone, callVars
    <2> QED
      BY <2>1, QuietIndex DEF Stored
  <1>4. ASSUME NEW k \in Key, CheckExists(r, k) \/ DeleteL0(r, k)
        PROVE  IndexKept'
    <2>1. UNCHANGED <<l1, index, calm, hdel, pc, key>>
      BY <1>4 DEF CheckExists, DeleteL0, callVars
    <2> QED
      BY <2>1, QuietIndex DEF Stored
  <1>5. ASSUME NEW k \in Key, RemoveFromIndex(r, k)
        PROVE  IndexKept'
    BY <1>5 DEF RemoveFromIndex, IndexKept
  <1> QED
    BY <1>1, <1>2, <1>3, <1>4, <1>5 DEF SweepStep

LEMMA ClearIndex ==
    ASSUME IndexInv, NEW r \in Replica, ClearStep(r)
    PROVE  IndexKept'
  <1> USE DEF IndexInv
  <1>1. CASE ClearL0(r) \/ ClearFails(r)
    <2>1. UNCHANGED <<l1, index, calm, hdel, pc, key>>
      BY <1>1 DEF ClearL0, ClearFails, callVars, sweepVars
    <2> QED
      BY <2>1, QuietIndex DEF Stored
  <1>2. CASE ClearMeta(r)
    BY <1>2 DEF ClearMeta, IndexKept
  <1>3. ASSUME NEW k \in Key, ClearHash(r, k)
        PROVE  IndexKept'
    <2>1. UNCHANGED <<index, calm, hdel, pc, key>> /\ Stored' \subseteq Stored
      BY <1>3 DEF TypeOK, ClearHash, Stored, callVars, sweepVars
    <2> QED
      BY <2>1, QuietIndex
  <1> QED
    BY <1>1, <1>2, <1>3 DEF ClearStep

LEMMA NextOneDeletion ==
    ASSUME TypeOK, OneDeletion, [Next]_vars
    PROVE  OneDeletion'
  <1>1. ASSUME UNCHANGED <<zrem, hdel>>
        PROVE  OneDeletion'
    BY <1>1 DEF OneDeletion
  <1>2. ASSUME NEW c \in Call, CallStep(c)
        PROVE  UNCHANGED <<zrem, hdel>>
    BY <1>2 DEF CallStep, GetMissesL0, SetL0, GetHash, Promote, SetHash, SetIndex, SetFails,
                sweepVars
  <1>3. ASSUME NEW r \in Replica, SweepStep(r)
        PROVE  OneDeletion'
    <2>1. CASE SampleIndex(r) \/ ReconcileFails(r) \/ EvictToCap(r) \/ SweepCandidates(r)
               \/ DeletesDone(r) \/ \E k \in Key : CheckExists(r, k) \/ RemoveFromIndex(r, k)
      <3>1. UNCHANGED <<zrem, hdel>>
        BY <2>1 DEF SampleIndex, ReconcileFails, EvictToCap, SweepCandidates, DeletesDone,
                    CheckExists, RemoveFromIndex
      <3> QED
        BY <1>1, <3>1
    <2>2. CASE DeleteFromIndex(r) \/ DeleteHash(r) \/ \E k \in Key : DeleteL0(r, k)
      BY <2>2 DEF OneDeletion, TypeOK, DeleteFromIndex, DeleteHash, DeleteL0
    <2> QED
      BY <1>3, <2>1, <2>2 DEF SweepStep
  <1>4. ASSUME NEW r \in Replica, ClearStep(r) \/ HealthMonitor(r)
        PROVE  UNCHANGED <<zrem, hdel>>
    BY <1>4 DEF ClearStep, ClearL0, ClearHash, ClearMeta, ClearFails, HealthMonitor, sweepVars
  <1>5. ASSUME NEW r \in Replica, Crash(r)
        PROVE  OneDeletion'
    BY <1>5 DEF OneDeletion, TypeOK, Crash
  <1>6. ASSUME NEW r \in Replica, NEW k \in Key, L0Drops(r, k)
        PROVE  UNCHANGED <<zrem, hdel>>
    BY <1>6 DEF L0Drops, sweepVars
  <1>7. ASSUME NEW k \in Key, L1Expires(k)
        PROVE  UNCHANGED <<zrem, hdel>>
    BY <1>7 DEF L1Expires, sweepVars
  <1>8. CASE UNCHANGED vars \/ FailuresEnd
    BY <1>1, <1>8 DEF vars, FailuresEnd, sweepVars
  <1> QED
    <2>1. Next => OneDeletion'
      BY <1>1, <1>2, <1>3, <1>4, <1>5, <1>6, <1>7, <1>8 DEF Next
    <2> QED
      BY <1>8, <2>1

LEMMA NextIndexInv ==
    ASSUME IndexInv, [Next]_vars
    PROVE  IndexInv'
  <1> USE DEF IndexInv
  <1>1. ASSUME NEW r \in Replica, HealthMonitor(r)
        PROVE  IndexKept'
    BY <1>1, QuietIndex DEF Stored, HealthMonitor, callVars, sweepVars
  <1>2. ASSUME NEW r \in Replica, Crash(r)
        PROVE  IndexKept'
    BY <1>2 DEF Crash, IndexKept
  <1>3. ASSUME NEW r \in Replica, NEW k \in Key, L0Drops(r, k)
        PROVE  IndexKept'
    BY <1>3, QuietIndex DEF Stored, L0Drops, callVars, sweepVars
  <1>4. ASSUME NEW k \in Key, L1Expires(k)
        PROVE  IndexKept'
    <2>1. UNCHANGED <<index, calm, hdel, pc, key>> /\ Stored' \subseteq Stored
      BY <1>4 DEF TypeOK, L1Expires, Stored, callVars, sweepVars
    <2> QED
      BY <2>1, QuietIndex
  <1>5. ASSUME UNCHANGED vars
        PROVE  IndexKept'
    BY <1>5, QuietIndex DEF Stored, vars, callVars, sweepVars
  <1>7. ASSUME FailuresEnd
        PROVE  IndexKept'
    BY <1>7 DEF FailuresEnd, IndexKept
  <1>6. IndexKept'
    BY <1>1, <1>2, <1>3, <1>4, <1>5, <1>7, CallIndex, SweepIndex, ClearIndex DEF Next
  <1> QED
    BY <1>6, NextTypeOK, NextOneDeletion

(* In both modes, every interleaving of stores, lookups, expiries and      *)
(* deletions by any number of replicas leaves every Redis entry within     *)
(* reach of the sweep: HSET before ZADD and ZREM before DEL suffice, and   *)
(* neither a failed ZREM nor an unfinished ClearCache changes that.        *)
THEOREM IndexCovered == Spec => []IndexKept
  <1>1. IndexInv => IndexKept
    BY DEF IndexInv
  <1> QED
    BY InitIndexInv, NextIndexInv, <1>1, PTL DEF Spec

-----------------------------------------------------------------------------
(* ClearCache                                                              *)

ClearInv == TypeOK /\ ClearIsComplete /\ \A r \in Replica : cleared[r] <= gen

LEMMA CellsKept ==
    ASSUME ClearInv, UNCHANGED <<l0, gen, cleared, revived>>
    PROVE  ClearIsComplete' /\ \A r \in Replica : cleared'[r] <= gen'
  BY DEF ClearInv, ClearIsComplete

(* A step that puts what has begun since into cells, or empties them.      *)
LEMMA CellsRenewed ==
    ASSUME ClearInv, UNCHANGED <<gen, cleared>>,
           \A r \in Replica, k \in Key :
              \/ l0'[r][k] = Nil
              \/ l0'[r][k] >= cleared[r]
              \/ k \in revived'[r]
              \/ l0'[r][k] = l0[r][k] /\ (k \in revived[r] => k \in revived'[r])
    PROVE  ClearIsComplete' /\ \A r \in Replica : cleared'[r] <= gen'
  BY DEF ClearInv, ClearIsComplete

LEMMA NextClearInv ==
    ASSUME ClearInv, [Next]_vars
    PROVE  ClearInv'
  <1>0. TypeOK /\ ClearIsComplete
    BY DEF ClearInv
  <1> DEFINE Goal == ClearIsComplete' /\ \A r \in Replica : cleared'[r] <= gen'
  <1>1. ASSUME NEW c \in Call, NEW r \in Replica, NEW k \in Key, SetL0(c, r, k)
        PROVE  Goal
    <2>1. cleared[r] <= gen /\ gen \in Nat /\ cleared[r] \in Nat
      BY BoundAssumption DEF ClearInv, TypeOK, Gen
    <2> QED
      BY <1>0, <1>1, <2>1, CellsRenewed DEF SetL0, Renews, TypeOK
  <1>2. ASSUME NEW c \in Call, Promote(c)
        PROVE  Goal
    <2>1. at[c] \in Replica /\ key[c] \in Key /\ val[c] \in Nat
      BY <1>0, <1>2, NilAssumption, CellAssumption, BoundAssumption DEF Promote, TypeOK, Gen
    <2>2. cleared[at[c]] \in Nat
      BY <1>0, <2>1, BoundAssumption DEF TypeOK, Gen
    <2>3. val[c] < cleared[at[c]] \/ val[c] >= cleared[at[c]]
      BY <2>1, <2>2
    <2> QED
      BY <1>0, <1>2, <2>1, <2>3, CellsRenewed DEF Promote, Renews, TypeOK
  <1>3. ASSUME NEW r \in Replica, NEW k \in Key, DeleteL0(r, k) \/ L0Drops(r, k)
        PROVE  Goal
    BY <1>0, <1>3, CellsRenewed DEF DeleteL0, L0Drops, Renews, TypeOK
  <1>4. ASSUME NEW r \in Replica, Crash(r)
        PROVE  Goal
    BY <1>0, <1>4, CellsRenewed DEF Crash, TypeOK
  <1>5. ASSUME NEW r \in Replica, ClearL0(r)
        PROVE  Goal
    <2>1. gen \in Nat /\ gen' = gen + 1
      BY <1>0, <1>5, BoundAssumption DEF ClearL0, TypeOK, Gen
    <2>2. \A q \in Replica : cleared'[q] = IF q = r THEN gen + 1 ELSE cleared[q]
      BY <1>0, <1>5 DEF ClearL0, TypeOK
    <2>3. \A q \in Replica : cleared[q] <= gen /\ cleared[q] \in Nat
      BY <1>0, BoundAssumption DEF ClearInv, TypeOK, Gen
    <2>4. \A q \in Replica : cleared'[q] <= gen'
      BY <2>1, <2>2, <2>3
    <2>5. \A q \in Replica : q # r => l0'[q] = l0[q] /\ revived'[q] = revived[q]
      BY <1>0, <1>5 DEF ClearL0, TypeOK
    <2>6. \A k \in Key : l0'[r][k] = Nil
      BY <1>0, <1>5 DEF ClearL0, TypeOK
    <2>7. ClearIsComplete'
      BY <1>0, <2>2, <2>5, <2>6 DEF ClearIsComplete
    <2> QED
      BY <2>4, <2>7
  <1>6. ASSUME UNCHANGED <<l0, gen, cleared, revived>>
        PROVE  Goal
    BY <1>6, CellsKept
  <1>7. ASSUME NEW c \in Call,
               \/ \E r \in Replica, k \in Key : GetMissesL0(c, r, k)
               \/ GetHash(c) \/ SetHash(c) \/ SetIndex(c) \/ SetFails(c)
        PROVE  UNCHANGED <<l0, gen, cleared, revived>>
    BY <1>7 DEF GetMissesL0, GetHash, SetHash, SetIndex, SetFails, clearVars
  <1>8. ASSUME NEW r \in Replica,
               \/ SampleIndex(r) \/ ReconcileFails(r) \/ EvictToCap(r) \/ SweepCandidates(r)
               \/ DeleteFromIndex(r) \/ DeleteHash(r) \/ DeletesDone(r)
               \/ \E k \in Key : CheckExists(r, k) \/ RemoveFromIndex(r, k) \/ ClearHash(r, k)
               \/ ClearMeta(r) \/ ClearFails(r) \/ HealthMonitor(r)
        PROVE  UNCHANGED <<l0, gen, cleared, revived>>
    BY <1>8 DEF SampleIndex, ReconcileFails, EvictToCap, SweepCandidates, DeleteFromIndex,
                DeleteHash, DeletesDone, CheckExists, RemoveFromIndex, ClearHash, ClearMeta,
                ClearFails, HealthMonitor, clearVars
  <1>9. CASE FailuresEnd \/ UNCHANGED vars \/ \E k \in Key : L1Expires(k)
    <2>1. UNCHANGED <<l0, gen, cleared, revived>>
      BY <1>9 DEF FailuresEnd, L1Expires, vars, clearVars
    <2> QED
      BY <1>0, <1>6, <2>1, NextTypeOK DEF ClearInv
  <1>10. Goal
    BY <1>1, <1>2, <1>3, <1>4, <1>5, <1>6, <1>7, <1>8, <1>9
       DEF ClearInv, Next, CallStep, SweepStep, ClearStep
  <1> QED
    BY <1>0, <1>10, NextTypeOK DEF ClearInv

(* However lookups, stores, sweeps and clears of all replicas interleave,  *)
(* a replica that has cleared its cache serves nothing from before, but    *)
(* for what a lookup has brought back from Redis since.                    *)
THEOREM ClearComplete == Spec => []ClearIsComplete
  <1>1. Init => ClearInv
    BY InitTypeOK, BoundAssumption DEF Init, ClearInv, ClearIsComplete
  <1>2. ClearInv => ClearIsComplete
    BY DEF ClearInv
  <1> QED
    BY <1>1, <1>2, NextClearInv, PTL DEF Spec

-----------------------------------------------------------------------------
(* The hit batcher                                                         *)

Added(i) == keyOf[i] # Nil

(* A flush has sent the hits before it sends the sweep hits, and a thread  *)
(* that is not flushing has nothing in hand.                               *)
HandsInv ==
    \A t \in Thread :
       /\ stage[t] \notin Kind => snap[t] = {}
       /\ stage[t] = "sweep" => \A i \in snap[t] : kindOf[i] = "sweep"

(* Only what was added is anywhere, and has a kind.                        *)
AddedInv ==
    \A i \in Inc :
       /\ Added(i) => kindOf[i] \in Kind
       /\ ~Added(i) => /\ i \notin pending /\ ~InHand(i)
                       /\ applied[i] = 0 /\ i \notin lost /\ i \notin owed

(* Once the sweep's flush has had its turn at the maps, what it owes is no *)
(* longer in them.                                                         *)
OwedInv ==
    stage[Sweeper] \in Kind \cup {"counts"} => owed \cap pending = {}

HandInv == BatcherTypeOK /\ HandsInv /\ AddedInv /\ HitsAccounted /\ OwedInv

LEMMA ThreadFacts ==
    /\ Runner \in Thread /\ Sweeper \in Thread /\ Caller \subseteq Thread
    /\ Sweeper \notin Caller /\ Runner \notin Caller /\ Runner # Sweeper
  BY ThreadAssumption DEF Thread

LEMMA InitHandInv == BatcherInit => HandInv
  <1> SUFFICES ASSUME BatcherInit PROVE HandInv
    OBVIOUS
  <1>1. BatcherTypeOK
    BY DEF BatcherInit, BatcherTypeOK
  <1>2. HandsInv
    BY DEF BatcherInit, HandsInv
  <1>3. AddedInv
    BY DEF BatcherInit, AddedInv, Added, InHand
  <1>4. HitsAccounted
    BY DEF BatcherInit, HitsAccounted, InHand
  <1>5. OwedInv
    BY DEF BatcherInit, OwedInv
  <1> QED
    BY <1>1, <1>2, <1>3, <1>4, <1>5 DEF HandInv

-----------------------------------------------------------------------------
(* Where every increment is                                                *)

LEMMA AddHands ==
    ASSUME HandInv, NEW c \in Caller, NEW i \in Inc, NEW k \in Key, NEW kind \in Kind,
           Add(c, i, k, kind)
    PROVE  HandInv'
  <1> USE DEF HandInv
  <1>0. /\ c \in Thread /\ c # Sweeper /\ c # Runner /\ k # Nil
        /\ Sweeper \in Thread
    BY ThreadFacts, NilAssumption, KindAssumption
  <1>1. /\ keyOf' = [keyOf EXCEPT ![i] = k]
        /\ kindOf' = [kindOf EXCEPT ![i] = kind]
        /\ pending' = pending \cup {i}
        /\ stage[c] = "idle" /\ ~Added(i)
        /\ UNCHANGED <<snap, applied, lost, stopping, last, owed>>
    BY DEF Add, Added
  <1>2. PICK step \in {"flush", "idle"} : stage' = [stage EXCEPT ![c] = step]
    BY DEF Add, Goto
  <1>3. BatcherTypeOK'
    BY <1>0, <1>1, <1>2 DEF BatcherTypeOK
  <1>4. HandsInv'
    <2> SUFFICES ASSUME NEW t \in Thread
                 PROVE  /\ stage'[t] \notin Kind => snap'[t] = {}
                        /\ stage'[t] = "sweep" => \A j \in snap'[t] : kindOf'[j] = "sweep"
      BY DEF HandsInv
    <2>1. CASE t = c
      BY <1>0, <1>1, <1>2, <2>1 DEF BatcherTypeOK, HandsInv, Kind
    <2>2. CASE t # c
      <3>1. stage'[t] = stage[t] /\ snap'[t] = snap[t]
        BY <1>0, <1>1, <1>2, <2>2 DEF BatcherTypeOK
      <3>2. i \notin snap[t] /\ snap[t] \subseteq Inc
        BY <1>1 DEF BatcherTypeOK, AddedInv, InHand
      <3>3. \A j \in snap[t] : kindOf'[j] = kindOf[j]
        BY <1>1, <3>2 DEF BatcherTypeOK
      <3> QED
        BY <3>1, <3>3 DEF HandsInv
    <2> QED
      BY <2>1, <2>2
  <1>5. AddedInv'
    BY <1>0, <1>1 DEF BatcherTypeOK, AddedInv, Added, InHand
  <1>6. HitsAccounted'
    BY <1>0, <1>1 DEF BatcherTypeOK, AddedInv, Added, HitsAccounted, InHand
  <1>7. OwedInv'
    BY <1>0, <1>1, <1>2 DEF BatcherTypeOK, AddedInv, OwedInv
  <1> QED
    BY <1>3, <1>4, <1>5, <1>6, <1>7

(* A step that moves one thread, not to a flush, and no increment.         *)
LEMMA MoveHands ==
    ASSUME HandInv, NEW t \in Thread, NEW step,
           stage' = [stage EXCEPT ![t] = step],
           step \in {"idle", "flush", "counts", "stopped"},
           step = "counts" => t = Sweeper /\ pending = {},
           step = "stopped" => t = Runner,
           snap[t] = {},
           UNCHANGED <<keyOf, kindOf, pending, snap, applied, lost>>,
           stopping' \in BOOLEAN, last' \in BOOLEAN,
           owed' \subseteq {i \in Inc : Added(i)},
           owed' # owed => step \in {"flush", "idle"} /\ t = Sweeper
    PROVE  HandInv'
  <1> USE DEF HandInv
  <1>1. BatcherTypeOK'
    BY DEF BatcherTypeOK
  <1>2. HandsInv'
    BY DEF BatcherTypeOK, HandsInv, Kind
  <1>3. AddedInv'
    BY DEF BatcherTypeOK, AddedInv, Added, InHand
  <1>4. HitsAccounted'
    BY DEF HitsAccounted, InHand
  <1>5. OwedInv'
    BY ThreadFacts DEF BatcherTypeOK, OwedInv, Kind
  <1> QED
    BY <1>1, <1>2, <1>3, <1>4, <1>5

LEMMA TakeHands ==
    ASSUME HandInv, NEW t \in Thread, TakePending(t)
    PROVE  HandInv'
  <1> USE DEF HandInv
  <1>0. stage[t] = "flush" /\ snap[t] = {}
    BY DEF TakePending, HandsInv, Kind
  <1>1. CASE pending = {}
    <2>1. PICK step : /\ stage' = [stage EXCEPT ![t] = step]
                      /\ step \in {"counts", "stopped", "idle"}
                      /\ step = "counts" => t = Sweeper
                      /\ step = "stopped" => t = Runner
      BY <1>1 DEF TakePending, Flushed, Goto
    <2>2. UNCHANGED <<keyOf, kindOf, pending, snap, applied, lost, stopping, last, owed>>
      BY <1>1 DEF TakePending
    <2>3. owed \subseteq {i \in Inc : Added(i)} /\ stopping \in BOOLEAN /\ last \in BOOLEAN
      BY DEF BatcherTypeOK, AddedInv
    <2>4. /\ step \in {"idle", "flush", "counts", "stopped"}
          /\ stopping' \in BOOLEAN /\ last' \in BOOLEAN
          /\ owed' = owed /\ owed' \subseteq {i \in Inc : Added(i)}
      BY <2>1, <2>2, <2>3
    <2> QED
      BY <1>0, <1>1, <2>1, <2>2, <2>4, MoveHands
  <1>2. CASE pending # {}
    <2>1. /\ stage' = [stage EXCEPT ![t] = "hit"]
          /\ snap' = [snap EXCEPT ![t] = pending]
          /\ pending' = {}
          /\ UNCHANGED <<keyOf, kindOf, applied, lost, stopping, last, owed>>
      BY <1>2 DEF TakePending, Goto
    <2>2. BatcherTypeOK'
      BY <2>1 DEF BatcherTypeOK
    <2>3. HandsInv'
      BY <2>1 DEF BatcherTypeOK, HandsInv, Kind
    <2>4. \A i \in Inc : InHand(i)' <=> InHand(i) \/ i \in pending
      BY <1>0, <2>1 DEF BatcherTypeOK, InHand
    <2>5. AddedInv'
      BY <2>1, <2>4 DEF AddedInv, Added
    <2>6. HitsAccounted'
      <3>1. \A u, v \in Thread : u # v => snap'[u] \cap snap'[v] = {}
        <4> SUFFICES ASSUME NEW u \in Thread, NEW v \in Thread, u # v
                     PROVE  snap'[u] \cap snap'[v] = {}
          OBVIOUS
        <4>1. \A w \in Thread : snap[w] \cap pending = {}
          BY DEF BatcherTypeOK, HitsAccounted, InHand
        <4> QED
          BY <2>1, <4>1 DEF BatcherTypeOK, HitsAccounted
      <3> QED
        BY <2>1, <2>4, <3>1 DEF HitsAccounted
    <2>7. OwedInv'
      BY <2>1 DEF OwedInv
    <2> QED
      BY <2>2, <2>3, <2>5, <2>6, <2>7
  <1> QED
    BY <1>1, <1>2

LEMMA ExecHands ==
    ASSUME HandInv, NEW t \in Thread, Exec(t)
    PROVE  HandInv'
  <1> USE DEF HandInv
  <1> DEFINE F == Flushing(t)
  <1>0. /\ F \subseteq snap[t] /\ snap[t] \subseteq Inc /\ snap \in [Thread -> SUBSET Inc]
        /\ stage[t] \in Kind
    BY DEF Exec, Flushing, BatcherTypeOK
  <1>1. /\ snap' = [snap EXCEPT ![t] = snap[t] \ F]
        /\ UNCHANGED <<keyOf, kindOf, pending, stopping, last, owed>>
    BY DEF Exec
  <1>2. PICK step : /\ stage' = [stage EXCEPT ![t] = step]
                    /\ step = IF stage[t] = "hit" THEN "sweep"
                              ELSE IF t = Sweeper THEN "counts"
                              ELSE IF t = Runner /\ last THEN "stopped" ELSE "idle"
    BY DEF Exec, Flushed, Goto
  <1>3. PICK failed \in SUBSET {keyOf[i] : i \in F} :
           /\ applied' = [i \in Inc |-> IF i \in F /\ keyOf[i] \notin failed
                                        THEN applied[i] + 1 ELSE applied[i]]
           /\ lost' = lost \cup {i \in F : keyOf[i] \in failed}
    BY DEF Exec
  <1> HIDE DEF F
  <1>4. \A i \in F : applied[i] = 0 /\ i \notin lost /\ i \notin pending /\ Added(i)
    BY <1>0 DEF HitsAccounted, AddedInv, InHand
  <1>5. \A i \in Inc : InHand(i)' <=> InHand(i) /\ i \notin F
    <2>1. \A u \in Thread : u # t => snap[u] \cap F = {}
      BY <1>0 DEF HitsAccounted
    <2> QED
      BY <1>0, <1>1, <2>1 DEF InHand
  <1>6. BatcherTypeOK'
    <2>1. applied' \in [Inc -> Nat]
      BY <1>3 DEF BatcherTypeOK
    <2>2. lost' \in SUBSET Inc
      BY <1>0, <1>3 DEF BatcherTypeOK
    <2>3. snap' \in [Thread -> SUBSET Inc]
      BY <1>0, <1>1
    <2>4. /\ stage' \in [Thread -> {"idle", "flush", "hit", "sweep", "counts", "stopped"}]
          /\ \A u \in Thread : /\ stage'[u] = "counts" => u = Sweeper
                               /\ stage'[u] = "stopped" => u = Runner
      BY <1>2 DEF BatcherTypeOK
    <2> QED
      BY <1>1, <2>1, <2>2, <2>3, <2>4 DEF BatcherTypeOK
  <1>7. HandsInv'
    <2>1. /\ stage'[t] \notin Kind => snap'[t] = {}
          /\ stage'[t] = "sweep" => \A i \in snap'[t] : kindOf'[i] = "sweep"
      <3>1. stage'[t] = step /\ snap'[t] = snap[t] \ F /\ kindOf' = kindOf
        BY <1>0, <1>1, <1>2 DEF BatcherTypeOK
      <3>2. \A i \in snap[t] : kindOf[i] \in Kind
        BY <1>0 DEF AddedInv, InHand
      <3>3. CASE stage[t] = "hit"
        <4>1. step = "sweep"
          BY <1>2, <3>3
        <4>2. \A i \in snap[t] \ F : kindOf[i] = "sweep"
          BY <3>2, <3>3 DEF F, Flushing, Kind
        <4> QED
          BY <3>1, <4>1, <4>2 DEF Kind
      <3>4. CASE stage[t] = "sweep"
        <4>1. F = snap[t]
          BY <3>4 DEF F, Flushing, HandsInv
        <4>2. step # "sweep"
          BY <1>2, <3>4
        <4> QED
          BY <3>1, <4>1, <4>2
      <3> QED
        BY <1>0, <3>3, <3>4 DEF Kind
    <2>2. \A u \in Thread : u # t => stage'[u] = stage[u] /\ snap'[u] = snap[u]
      BY <1>0, <1>1, <1>2 DEF BatcherTypeOK
    <2> QED
      BY <1>1, <2>1, <2>2 DEF HandsInv
  <1>8. \A i \in Inc \ F : applied'[i] = applied[i] /\ (i \in lost' <=> i \in lost)
    BY <1>3
  <1>9. \A i \in F : \/ applied'[i] = 1 /\ i \notin lost'
                     \/ applied'[i] = 0 /\ i \in lost'
    <2> SUFFICES ASSUME NEW i \in F
                 PROVE  \/ applied'[i] = 1 /\ i \notin lost'
                        \/ applied'[i] = 0 /\ i \in lost'
      OBVIOUS
    <2>1. i \in Inc /\ applied[i] = 0 /\ i \notin lost
      BY <1>0, <1>4
    <2>2. CASE keyOf[i] \in failed
      BY <1>3, <2>1, <2>2
    <2>3. CASE keyOf[i] \notin failed
      BY <1>3, <2>1, <2>3
    <2> QED
      BY <2>2, <2>3
  <1>10. AddedInv'
    <2> SUFFICES ASSUME NEW i \in Inc
                 PROVE  /\ Added(i)' => kindOf'[i] \in Kind
                        /\ ~Added(i)' => /\ i \notin pending' /\ ~InHand(i)'
                                         /\ applied'[i] = 0 /\ i \notin lost' /\ i \notin owed'
      BY DEF AddedInv
    <2>1. Added(i)' <=> Added(i)
      BY <1>1 DEF Added
    <2>2. ~Added(i) => i \notin F
      BY <1>4
    <2> QED
      BY <1>1, <1>5, <1>8, <2>1, <2>2 DEF AddedInv
  <1>11. HitsAccounted'
    <2>1. \A i \in Inc :
             /\ keyOf'[i] # Nil => i \in pending' \/ InHand(i)' \/ applied'[i] = 1 \/ i \in lost'
             /\ i \in pending' => ~InHand(i)'
             /\ i \in pending' \/ InHand(i)' => applied'[i] = 0 /\ i \notin lost'
             /\ i \in lost' => applied'[i] = 0
             /\ applied'[i] <= 1
      <3> SUFFICES ASSUME NEW i \in Inc
                   PROVE  /\ keyOf'[i] # Nil => \/ i \in pending' \/ InHand(i)'
                                                \/ applied'[i] = 1 \/ i \in lost'
                          /\ i \in pending' => ~InHand(i)'
                          /\ i \in pending' \/ InHand(i)' => applied'[i] = 0 /\ i \notin lost'
                          /\ i \in lost' => applied'[i] = 0
                          /\ applied'[i] <= 1
        OBVIOUS
      <3>1. CASE i \in F
        BY <1>1, <1>4, <1>5, <1>9, <3>1
      <3>2. CASE i \notin F
        BY <1>1, <1>5, <1>8, <3>2 DEF HitsAccounted
      <3> QED
        BY <3>1, <3>2
    <2>2. \A u, v \in Thread : u # v => snap'[u] \cap snap'[v] = {}
      <3>1. \A u \in Thread : snap'[u] \subseteq snap[u]
        BY <1>0, <1>1
      <3> QED
        BY <3>1 DEF HitsAccounted
    <2> QED
      BY <2>1, <2>2 DEF HitsAccounted
  <1>12. OwedInv'
    <2>1. stage'[Sweeper] \in Kind \cup {"counts"} => stage[Sweeper] \in Kind \cup {"counts"}
      BY <1>0, <1>2, ThreadFacts DEF BatcherTypeOK
    <2> QED
      BY <1>1, <2>1 DEF OwedInv
  <1> QED
    BY <1>6, <1>7, <1>10, <1>11, <1>12

LEMMA NextHandInv == HandInv /\ [BatcherNext]_batcherVars => HandInv'
  <1> SUFFICES ASSUME HandInv, [BatcherNext]_batcherVars PROVE HandInv'
    OBVIOUS
  <1>0. /\ owed \subseteq {i \in Inc : Added(i)} /\ stopping \in BOOLEAN /\ last \in BOOLEAN
        /\ \A t \in Thread : stage[t] \notin Kind => snap[t] = {}
    BY DEF HandInv, BatcherTypeOK, AddedInv, HandsInv
  <1>1. CASE Tick
    <2>1. /\ stage' = [stage EXCEPT ![Runner] = "flush"] /\ snap[Runner] = {}
          /\ UNCHANGED <<keyOf, kindOf, pending, snap, applied, lost, stopping, last, owed>>
      BY <1>0, <1>1, ThreadFacts DEF Tick, Goto, Kind
    <2>2. /\ stopping' \in BOOLEAN /\ last' \in BOOLEAN
          /\ owed' = owed /\ owed' \subseteq {i \in Inc : Added(i)}
      BY <1>0, <2>1
    <2> QED
      BY <2>1, <2>2, ThreadFacts, MoveHands
  <1>2. CASE FlushAll
    <2>1. /\ stage' = [stage EXCEPT ![Runner] = "flush"] /\ snap[Runner] = {} /\ last' = TRUE
          /\ UNCHANGED <<keyOf, kindOf, pending, snap, applied, lost, stopping, owed>>
      BY <1>0, <1>2, ThreadFacts DEF FlushAll, Goto, Kind
    <2>2. /\ stopping' \in BOOLEAN /\ last' \in BOOLEAN
          /\ owed' = owed /\ owed' \subseteq {i \in Inc : Added(i)}
      BY <1>0, <2>1
    <2> QED
      BY <2>1, <2>2, ThreadFacts, MoveHands
  <1>3. CASE Stop
    <2>1. /\ stopping' = TRUE
          /\ UNCHANGED <<keyOf, kindOf, pending, snap, applied, lost, stage, last, owed>>
      BY <1>3 DEF Stop
    <2> QED
      BY <2>1 DEF HandInv, BatcherTypeOK, HandsInv, AddedInv, Added, HitsAccounted, InHand, OwedInv
  <1>4. CASE SweepFlush
    <2>1. /\ stage' = [stage EXCEPT ![Sweeper] = "flush"] /\ snap[Sweeper] = {}
          /\ owed' = {i \in Inc : Added(i)}
          /\ UNCHANGED <<keyOf, kindOf, pending, snap, applied, lost, stopping, last>>
      BY <1>0, <1>4, ThreadFacts DEF SweepFlush, Goto, Kind, Added
    <2> QED
      BY <1>0, <2>1, ThreadFacts, MoveHands
  <1>5. CASE ReadCounts
    <2>1. /\ stage' = [stage EXCEPT ![Sweeper] = "idle"] /\ snap[Sweeper] = {}
          /\ owed' = {}
          /\ UNCHANGED <<keyOf, kindOf, pending, snap, applied, lost, stopping, last>>
      BY <1>0, <1>5, ThreadFacts DEF ReadCounts, Goto, Kind
    <2> QED
      BY <1>0, <2>1, ThreadFacts, MoveHands
  <1>6. CASE UNCHANGED batcherVars
    BY <1>6 DEF batcherVars, HandInv, BatcherTypeOK, HandsInv, AddedInv, Added, HitsAccounted, InHand, OwedInv
  <1> QED
    BY <1>1, <1>2, <1>3, <1>4, <1>5, <1>6, AddHands, TakeHands, ExecHands DEF BatcherNext

LEMMA SpecHandInv == BatcherSpec => []HandInv
  BY InitHandInv, NextHandInv, PTL DEF BatcherSpec

-----------------------------------------------------------------------------
(* The backlog                                                             *)

LEMMA FlushersFinite == IsFiniteSet(Flushers) /\ Cardinality(Flushers) \in Nat
  BY FiniteAssumption, FS_Subset, FS_CardinalityType DEF Flushers

LEMMA PendingFinite ==
    ASSUME BatcherTypeOK, NEW kind
    PROVE  IsFiniteSet(PendingKeys(kind)) /\ Cardinality(PendingKeys(kind)) \in Nat
  <1>1. IsFiniteSet(Pending(kind))
    BY FiniteAssumption, FS_Subset DEF BatcherTypeOK, Pending
  <1>2. IsFiniteSet(PendingKeys(kind))
    <2> DEFINE f == [i \in Pending(kind) |-> keyOf[i]]
    <2>1. f \in Surjection(Pending(kind), PendingKeys(kind))
      BY DEF Surjection, PendingKeys
    <2> QED
      BY <1>1, <2>1, FS_Surjection
  <1> QED
    BY <1>2, FS_CardinalityType

LEMMA InitBacklog == BatcherInit => BacklogBounded
  <1> SUFFICES ASSUME BatcherInit, NEW kind \in Kind
               PROVE  Cardinality(PendingKeys(kind)) < BatchSize + Cardinality(Flushers)
    BY DEF BacklogBounded
  <1>1. PendingKeys(kind) = {}
    BY DEF BatcherInit, PendingKeys, Pending
  <1> QED
    BY <1>1, FS_EmptySet, FlushersFinite, BatchAssumption

LEMMA AddBacklog ==
    ASSUME HandInv, BacklogBounded,
           NEW c \in Caller, NEW i \in Inc, NEW k \in Key, NEW kind \in Kind,
           Add(c, i, k, kind)
    PROVE  BacklogBounded'
  <1>1. BatcherTypeOK /\ c \in Thread /\ i \notin pending
    BY ThreadFacts DEF HandInv, AddedInv, Add, Added
  <1>2. /\ keyOf' = [keyOf EXCEPT ![i] = k]
        /\ kindOf' = [kindOf EXCEPT ![i] = kind]
        /\ pending' = pending \cup {i}
        /\ stage[c] = "idle"
        /\ stage' = [stage EXCEPT ![c] = IF Cardinality(PendingKeys(kind) \cup {k}) >= BatchSize
                                   THEN "flush" ELSE "idle"]
    BY DEF Add, Goto
  <1>3. PendingKeys(kind)' = PendingKeys(kind) \cup {k}
    BY <1>1, <1>2 DEF BatcherTypeOK, PendingKeys, Pending
  <1>4. \A other \in Kind \ {kind} : PendingKeys(other)' = PendingKeys(other)
    BY <1>1, <1>2 DEF BatcherTypeOK, PendingKeys, Pending
  <1>5. /\ IsFiniteSet(PendingKeys(kind)) /\ Cardinality(PendingKeys(kind)) \in Nat
        /\ Cardinality(PendingKeys(kind) \cup {k}) \in Nat
        /\ Cardinality(PendingKeys(kind) \cup {k}) <= Cardinality(PendingKeys(kind)) + 1
    <2>1. IsFiniteSet(PendingKeys(kind)) /\ Cardinality(PendingKeys(kind)) \in Nat
      BY <1>1, PendingFinite
    <2> HIDE DEF PendingKeys
    <2>2. Cardinality(PendingKeys(kind) \cup {k}) =
             IF k \in PendingKeys(kind) THEN Cardinality(PendingKeys(kind))
                                        ELSE Cardinality(PendingKeys(kind)) + 1
      BY <2>1, FS_AddElement
    <2> QED
      BY <2>1, <2>2
  <1>6. CASE Cardinality(PendingKeys(kind) \cup {k}) >= BatchSize
    <2>1. Flushers' = Flushers \cup {c} /\ c \notin Flushers
      BY <1>1, <1>2, <1>6, ThreadFacts DEF BatcherTypeOK, Flushers
    <2>2. Cardinality(Flushers') = Cardinality(Flushers) + 1
      BY <2>1, FlushersFinite, FS_AddElement
    <2>3. Cardinality(PendingKeys(kind)') < BatchSize + Cardinality(Flushers')
      BY <1>3, <1>5, <2>2, FlushersFinite, BatchAssumption DEF BacklogBounded
    <2>4. \A other \in Kind \ {kind} :
             Cardinality(PendingKeys(other)') < BatchSize + Cardinality(Flushers')
      BY <1>1, <1>4, <2>2, FlushersFinite, PendingFinite, BatchAssumption DEF BacklogBounded
    <2> QED
      BY <2>3, <2>4 DEF BacklogBounded
  <1>7. CASE ~(Cardinality(PendingKeys(kind) \cup {k}) >= BatchSize)
    <2>1. Flushers' = Flushers
      BY <1>1, <1>2, <1>7, ThreadFacts DEF BatcherTypeOK, Flushers
    <2>3. Cardinality(PendingKeys(kind)') < BatchSize + Cardinality(Flushers')
      BY <1>3, <1>5, <1>7, <2>1, FlushersFinite, BatchAssumption
    <2>4. \A other \in Kind \ {kind} :
             Cardinality(PendingKeys(other)') < BatchSize + Cardinality(Flushers')
      BY <1>4, <2>1 DEF BacklogBounded
    <2> QED
      BY <2>3, <2>4 DEF BacklogBounded
  <1> QED
    BY <1>6, <1>7

LEMMA TakeBacklog ==
    ASSUME BatcherTypeOK, NEW t \in Thread, TakePending(t)
    PROVE  BacklogBounded'
  <1>1. pending' = {}
    BY DEF TakePending
  <1>2. \A kind \in Kind : PendingKeys(kind)' = {}
    BY <1>1 DEF PendingKeys, Pending
  <1>3. Cardinality(Flushers') \in Nat
    BY FiniteAssumption, FS_Subset, FS_CardinalityType DEF Flushers
  <1> QED
    BY <1>2, <1>3, FS_EmptySet, BatchAssumption DEF BacklogBounded

LEMMA QuietBacklog ==
    ASSUME BacklogBounded, UNCHANGED <<keyOf, kindOf, pending>>, Flushers' = Flushers
    PROVE  BacklogBounded'
  BY DEF BacklogBounded, PendingKeys, Pending

LEMMA NextBacklog == HandInv /\ BacklogBounded /\ [BatcherNext]_batcherVars => BacklogBounded'
  <1> SUFFICES ASSUME HandInv, BacklogBounded, [BatcherNext]_batcherVars PROVE BacklogBounded'
    OBVIOUS
  <1>0. BatcherTypeOK
    BY DEF HandInv
  <1>1. CASE Tick \/ FlushAll \/ Stop \/ SweepFlush \/ ReadCounts
    <2>1. UNCHANGED <<keyOf, kindOf, pending>>
      BY <1>1 DEF Tick, FlushAll, Stop, SweepFlush, ReadCounts
    <2>2. Flushers' = Flushers
      BY <1>0, <1>1, ThreadFacts
         DEF BatcherTypeOK, Flushers, Tick, FlushAll, Stop, SweepFlush, ReadCounts, Goto
    <2> QED
      BY <2>1, <2>2, QuietBacklog
  <1>2. ASSUME NEW t \in Thread, Exec(t)
        PROVE  BacklogBounded'
    <2>1. UNCHANGED <<keyOf, kindOf, pending>>
      BY <1>2 DEF Exec
    <2>2. stage[t] # "flush" /\ \E step \in {"sweep", "counts", "stopped", "idle"} :
                                 stage' = [stage EXCEPT ![t] = step]
      BY <1>2 DEF Exec, Flushed, Goto, Kind
    <2>3. Flushers' = Flushers
      BY <1>0, <2>2, ThreadFacts DEF BatcherTypeOK, Flushers
    <2> QED
      BY <2>1, <2>3, QuietBacklog
  <1>3. CASE UNCHANGED batcherVars
    BY <1>3, QuietBacklog DEF batcherVars, Flushers
  <1> QED
    BY <1>0, <1>1, <1>2, <1>3, AddBacklog, TakeBacklog DEF BatcherNext

-----------------------------------------------------------------------------
(* Types of the increments, the maps and the threads.                      *)
THEOREM BatcherTypeCorrect == BatcherSpec => []BatcherTypeOK
  <1>1. HandInv => BatcherTypeOK
    BY DEF HandInv
  <1> QED
    BY <1>1, SpecHandInv, PTL

(* Whatever flushes race on full batches, the ticker, the sweep and stop,  *)
(* each hit is counted at most once and is never dropped on the way to its *)
(* pipeline: the maps are taken and replaced in one critical section.      *)
THEOREM EveryHitAccounted == BatcherSpec => []HitsAccounted
  <1>1. HandInv => HitsAccounted
    BY DEF HandInv
  <1> QED
    BY <1>1, SpecHandInv, PTL

(* A map holds as many keys as a batch, or more, only while callers that   *)
(* will flush it are on their way, though nothing makes an adder wait.     *)
THEOREM BacklogStaysBounded == BatcherSpec => []BacklogBounded
  BY InitBacklog, NextBacklog, SpecHandInv, PTL DEF BatcherSpec

(* The sweep's counts lack a hit served before its Flush only while some   *)
(* other thread's flush still has it in hand.                              *)
THEOREM SweepMissesOnlyInHand == BatcherSpec => []FlushLeavesInHand
  <1>1. HandInv => FlushLeavesInHand
    <2> SUFFICES ASSUME HandInv, stage[Sweeper] = "counts", NEW i \in owed
                 PROVE  \/ applied[i] = 1 \/ i \in lost
                        \/ \E t \in Thread \ {Sweeper} : i \in snap[t]
      BY DEF FlushLeavesInHand
    <2>1. i \in Inc /\ keyOf[i] # Nil /\ i \notin pending
      BY DEF HandInv, BatcherTypeOK, AddedInv, Added, OwedInv
    <2>2. snap[Sweeper] = {}
      BY ThreadFacts DEF HandInv, HandsInv, Kind
    <2> QED
      BY <2>1, <2>2 DEF HandInv, HitsAccounted, InHand
  <1> QED
    BY <1>1, SpecHandInv, PTL
=============================================================================
