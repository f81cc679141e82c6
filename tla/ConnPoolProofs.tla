--------------------------- MODULE ConnPoolProofs ---------------------------
(* Proofs, for any number of connections, queries and pools and any pool   *)
(* size, that ConnPool keeps its types, gives a connection to one query at *)
(* a time and loses none, never hands out a drained pool, and brings each  *)
(* query to its end in a bounded number of its own steps.                  *)
EXTENDS ConnPool, TLAPS

(* The three invariants and the types support one another: a connection    *)
(* that is dialled is new because the open ones are exactly the owned ones. *)
IInv == TypeOK /\ ExclusiveUse /\ ConnsAccounted /\ CurrentPoolOpen

LEMMA InitIInv == Init => IInv
  BY NilAssumption DEF Init, IInv, TypeOK, ExclusiveUse, ConnsAccounted, CurrentPoolOpen

(* Steps that leave every owner as it is: no connection changes hands.     *)
Quiet ==
    /\ UNCHANGED <<open, idle, conn>>

LEMMA QuietOwners ==
    ASSUME ExclusiveUse, ConnsAccounted, Quiet
    PROVE  ExclusiveUse' /\ ConnsAccounted'
  BY DEF ExclusiveUse, ConnsAccounted, Quiet

(* Each action of a query keeps the types.                                 *)
LEMMA StepTypes ==
    ASSUME TypeOK, NEW e \in Exchange,
           \/ Lookup(e)
           \/ \E p \in Pool : LookupCreates(e, p)
           \/ ExchangeStep(e)
    PROVE  TypeOK'
  <1>0. Nil \notin Conn /\ Nil \notin Pool
    BY NilAssumption
  <1>1. CASE Lookup(e)
    BY <1>0, <1>1 DEF TypeOK, Lookup, Goto
  <1>2. ASSUME NEW p \in Pool, LookupCreates(e, p)
        PROVE  TypeOK'
    BY <1>0, <1>2 DEF TypeOK, LookupCreates, Goto
  <1>3. ASSUME NEW c \in Conn, GetReuse(e, c)
        PROVE  TypeOK'
    BY <1>0, <1>3 DEF TypeOK, GetReuse, Goto
  <1>4. ASSUME NEW c \in Conn, GetDiscard(e, c)
        PROVE  TypeOK'
    BY <1>0, <1>4 DEF TypeOK, GetDiscard, Goto, Close
  <1>5. ASSUME NEW c \in Conn, Dial(e, c)
        PROVE  TypeOK'
    BY <1>0, <1>5 DEF TypeOK, Dial, Goto
  <1>6. CASE GetNone(e)
    BY <1>0, <1>6 DEF TypeOK, GetNone, Goto
  <1>7. CASE DialFails(e)
    BY <1>0, <1>7 DEF TypeOK, DialFails, Return
  <1>8. CASE ExchangeOk(e)
    BY <1>0, <1>8 DEF TypeOK, ExchangeOk, Goto
  <1>9. CASE ExchangeRetries(e)
    BY <1>0, <1>9 DEF TypeOK, ExchangeRetries, Goto, Close
  <1>10. CASE ExchangeFails(e)
    BY <1>0, <1>10 DEF TypeOK, ExchangeFails, Return, Close
  <1>11. CASE PutDrained(e)
    BY <1>0, <1>11 DEF TypeOK, PutDrained, Return, Close
  <1>12. CASE PutChecked(e)
    BY <1>0, <1>12 DEF TypeOK, PutChecked, Goto
  <1>13. CASE PutSends(e)
    BY <1>0, <1>13 DEF TypeOK, PutSends, Return
  <1>14. CASE PutFull(e)
    BY <1>0, <1>14 DEF TypeOK, PutFull, Return, Close
  <1> QED
    BY <1>1, <1>2, <1>3, <1>4, <1>5, <1>6, <1>7, <1>8, <1>9, <1>10,
       <1>11, <1>12, <1>13, <1>14 DEF ExchangeStep

(* Each action of a query hands a connection over to one owner or closes it. *)
LEMMA StepOwners ==
    ASSUME TypeOK, ExclusiveUse, ConnsAccounted, NEW e \in Exchange,
           \/ Lookup(e)
           \/ \E p \in Pool : LookupCreates(e, p)
           \/ ExchangeStep(e)
    PROVE  ExclusiveUse' /\ ConnsAccounted'
  <1>0. Nil \notin Conn /\ Nil \notin Pool
    BY NilAssumption
  <1>1. CASE \/ Lookup(e) \/ \E p \in Pool : LookupCreates(e, p)
             \/ GetNone(e) \/ ExchangeOk(e) \/ PutChecked(e)
    BY <1>1, QuietOwners DEF Quiet, Lookup, LookupCreates, GetNone, ExchangeOk, PutChecked
  <1>3. ASSUME NEW c \in Conn, GetReuse(e, c)
        PROVE  ExclusiveUse' /\ ConnsAccounted'
    <2>1. /\ pool[e] \in Pool /\ conn[e] = Nil /\ c \in idle[pool[e]]
          /\ idle' = [idle EXCEPT ![pool[e]] = idle[pool[e]] \ {c}]
          /\ conn' = [conn EXCEPT ![e] = c]
          /\ open' = open
      BY <1>3 DEF GetReuse, TypeOK
    <2> QED
      BY <1>0, <2>1 DEF TypeOK, ExclusiveUse, ConnsAccounted
  <1>4. ASSUME NEW c \in Conn, GetDiscard(e, c)
        PROVE  ExclusiveUse' /\ ConnsAccounted'
    <2>1. /\ pool[e] \in Pool /\ c \in idle[pool[e]]
          /\ idle' = [idle EXCEPT ![pool[e]] = idle[pool[e]] \ {c}]
          /\ open' = open \ {c}
          /\ conn' = conn
      BY <1>4 DEF GetDiscard, Close, TypeOK
    <2> QED
      BY <1>0, <2>1 DEF TypeOK, ExclusiveUse, ConnsAccounted
  <1>5. ASSUME NEW c \in Conn, Dial(e, c)
        PROVE  ExclusiveUse' /\ ConnsAccounted'
    <2>1. /\ conn[e] = Nil /\ c \notin open
          /\ idle' = idle
          /\ open' = open \cup {c}
          /\ conn' = [conn EXCEPT ![e] = c]
      BY <1>5 DEF Dial, TypeOK
    <2> QED
      BY <1>0, <2>1 DEF TypeOK, ExclusiveUse, ConnsAccounted
  <1>6. CASE DialFails(e)
    <2>1. conn[e] = Nil
      BY <1>6 DEF DialFails, TypeOK
    <2> QED
      BY <1>0, <1>6, <2>1 DEF TypeOK, ExclusiveUse, ConnsAccounted, DialFails, Return
  <1>7. CASE ExchangeRetries(e) \/ ExchangeFails(e) \/ PutDrained(e) \/ PutFull(e)
    <2>1. /\ conn[e] \in Conn
          /\ open' = open \ {conn[e]}
          /\ conn' = [conn EXCEPT ![e] = Nil]
          /\ idle' = idle
      BY <1>7 DEF TypeOK, ExchangeRetries, ExchangeFails, PutDrained, PutFull, Return, Close
    <2> QED
      BY <1>0, <2>1 DEF TypeOK, ExclusiveUse, ConnsAccounted
  <1>8. CASE PutSends(e)
    <2>1. /\ conn[e] \in Conn /\ pool[e] \in Pool
          /\ open' = open
          /\ conn' = [conn EXCEPT ![e] = Nil]
          /\ idle' = [idle EXCEPT ![pool[e]] = idle[pool[e]] \cup {conn[e]}]
      BY <1>8 DEF TypeOK, PutSends, Return
    <2> QED
      BY <1>0, <2>1 DEF TypeOK, ExclusiveUse, ConnsAccounted
  <1> QED
    BY <1>1, <1>3, <1>4, <1>5, <1>6, <1>7, <1>8 DEF ExchangeStep

(* Only LookupCreates and ApplyUpstreamConfig touch the map and the flags. *)
LEMMA StepCurrent ==
    ASSUME TypeOK, CurrentPoolOpen, NEW e \in Exchange,
           \/ Lookup(e)
           \/ \E p \in Pool : LookupCreates(e, p)
           \/ ExchangeStep(e)
    PROVE  CurrentPoolOpen'
  <1>1. ASSUME NEW p \in Pool, LookupCreates(e, p)
        PROVE  CurrentPoolOpen'
    BY <1>1 DEF LookupCreates, TypeOK, CurrentPoolOpen
  <1>2. CASE Lookup(e) \/ ExchangeStep(e)
    BY <1>2 DEF CurrentPoolOpen, Lookup, ExchangeStep, GetReuse, GetDiscard, GetNone,
                Dial, DialFails, ExchangeOk, ExchangeRetries, ExchangeFails,
                PutDrained, PutChecked, PutSends, PutFull
  <1> QED
    BY <1>1, <1>2

LEMMA NextIInv == IInv /\ [Next]_vars => IInv'
  <1> SUFFICES ASSUME IInv, [Next]_vars PROVE IInv'
    OBVIOUS
  <1> USE DEF IInv
  <1>0. Nil \notin Conn /\ Nil \notin Pool
    BY NilAssumption
  <1>1. ASSUME NEW e \in Exchange,
               Lookup(e) \/ (\E p \in Pool : LookupCreates(e, p)) \/ ExchangeStep(e)
        PROVE  IInv'
    BY <1>1, StepTypes, StepOwners, StepCurrent
  <1>2. ASSUME NEW c \in Conn, PeerCloses(c)
        PROVE  IInv'
    <2>1. TypeOK'
      BY <1>2 DEF PeerCloses, TypeOK
    <2>2. ExclusiveUse' /\ ConnsAccounted'
      BY <1>2, QuietOwners DEF Quiet, PeerCloses
    <2>3. CurrentPoolOpen'
      BY <1>2 DEF PeerCloses, CurrentPoolOpen
    <2> QED
      BY <2>1, <2>2, <2>3
  <1>3. ASSUME NEW p \in Pool, Collect(p)
        PROVE  IInv'
    <2>1. /\ open' = open \ idle[p]
          /\ idle' = [idle EXCEPT ![p] = {}]
          /\ UNCHANGED <<drained, cur, draining, pc, pool, conn, fromPool>>
          /\ dead' = dead \ idle[p]
      BY <1>3 DEF Collect
    <2>2. TypeOK'
      BY <2>1 DEF TypeOK
    <2>3. ExclusiveUse' /\ ConnsAccounted'
      BY <1>0, <2>1 DEF TypeOK, ExclusiveUse, ConnsAccounted
    <2>4. CurrentPoolOpen'
      BY <2>1 DEF CurrentPoolOpen
    <2> QED
      BY <2>2, <2>3, <2>4
  <1>4. CASE DrainStart
    <2>1. TypeOK'
      BY <1>4 DEF DrainStart, TypeOK
    <2>2. ExclusiveUse' /\ ConnsAccounted'
      BY <1>4, QuietOwners DEF Quiet, DrainStart
    <2>3. CurrentPoolOpen'
      BY <1>4, <1>0 DEF DrainStart, CurrentPoolOpen, TypeOK
    <2> QED
      BY <2>1, <2>2, <2>3
  <1>5. CASE DrainStep
    <2>1. PICK c \in idle[draining] :
             /\ idle' = [idle EXCEPT ![draining] = idle[draining] \ {c}]
             /\ open' = open \ {c}
             /\ dead' = dead \ {c}
      BY <1>5 DEF DrainStep, Close
    <2>2. draining \in Pool /\ c \in Conn
      BY <1>5, <2>1 DEF DrainStep, TypeOK
    <2>3. UNCHANGED <<drained, cur, draining, pc, pool, conn, fromPool>>
      BY <1>5 DEF DrainStep
    <2>4. TypeOK'
      BY <2>1, <2>2, <2>3 DEF TypeOK
    <2>5. ExclusiveUse' /\ ConnsAccounted'
      BY <1>0, <2>1, <2>2, <2>3 DEF TypeOK, ExclusiveUse, ConnsAccounted
    <2>6. CurrentPoolOpen'
      BY <2>3 DEF CurrentPoolOpen
    <2> QED
      BY <2>4, <2>5, <2>6
  <1>6. CASE DrainEnd
    <2>1. TypeOK'
      BY <1>6 DEF DrainEnd, TypeOK
    <2>2. ExclusiveUse' /\ ConnsAccounted'
      BY <1>6, QuietOwners DEF Quiet, DrainEnd
    <2>3. CurrentPoolOpen'
      BY <1>6 DEF DrainEnd, CurrentPoolOpen
    <2> QED
      BY <2>1, <2>2, <2>3
  <1>7. CASE UNCHANGED vars
    BY <1>7 DEF vars, TypeOK, ExclusiveUse, ConnsAccounted, CurrentPoolOpen
  <1> QED
    BY <1>1, <1>2, <1>3, <1>4, <1>5, <1>6, <1>7 DEF Next

LEMMA SpecIInv == Spec => []IInv
  BY InitIInv, NextIInv, PTL DEF Spec

(* Types; and a query holds a connection exactly between getConn or a dial *)
(* and the return, retry or putConn that ends its use.                     *)
THEOREM TypeCorrect == Spec => []TypeOK
  <1>1. IInv => TypeOK
    BY DEF IInv
  <1> QED
    BY <1>1, SpecIInv, PTL

(* No two queries are ever on one connection, nor a query and a pool: an   *)
(* answer read from a pooled connection is the answer to its own question. *)
THEOREM UseIsExclusive == Spec => []ExclusiveUse
  <1>1. IInv => ExclusiveUse
    BY DEF IInv
  <1> QED
    BY <1>1, SpecIInv, PTL

(* exchange, getConn, putConn and drainConnPool leak no connection and     *)
(* close none that is still in use, drains and retries included.           *)
THEOREM NoConnLost == Spec => []ConnsAccounted
  <1>1. IInv => ConnsAccounted
    BY DEF IInv
  <1> QED
    BY <1>1, SpecIInv, PTL

(* ApplyUpstreamConfig holds the map's lock from the first drain to the    *)
(* replacement of the map, so no query looks a drained pool up.            *)
THEOREM MapHoldsOpenPool == Spec => []CurrentPoolOpen
  <1>1. IInv => CurrentPoolOpen
    BY DEF IInv
  <1> QED
    BY <1>1, SpecIInv, PTL

-----------------------------------------------------------------------------
(* An exchange ends: what it still has to do, at most, in steps.           *)
ExchangeWork(e) ==
    CASE pc[e] = "returned" -> 0
      [] pc[e] = "send" -> 1
      [] pc[e] = "put" -> 2
      [] pc[e] = "exchange" -> IF e \in fromPool THEN 5 ELSE 3
      [] pc[e] = "dial" -> 4
      [] pc[e] = "get" -> 6

(* A connection that was dialled is not retried on.                        *)
FreshIsFinal == \A e \in Exchange : pc[e] \in {"returned", "get", "dial"} => e \notin fromPool

ExchangesAdvance ==
    [][\A e \in Exchange :
          IF ExchangeStep(e) THEN ExchangeWork(e)' < ExchangeWork(e)
          ELSE pc[e] = "returned" \/ ExchangeWork(e)' = ExchangeWork(e)]_vars

LEMMA StepAdvances ==
    ASSUME TypeOK, FreshIsFinal, NEW e \in Exchange, ExchangeStep(e)
    PROVE  /\ ExchangeWork(e)' < ExchangeWork(e)
           /\ pc' = [pc EXCEPT ![e] = pc'[e]]
           /\ \A x \in Exchange \ {e} : x \in fromPool' <=> x \in fromPool
           /\ pc'[e] \in {"returned", "dial"} => e \notin fromPool'
           /\ pc'[e] # "get"
<1>1. CASE \E c \in Conn : GetReuse(e, c)
  BY <1>1 DEF GetReuse, Goto, TypeOK, ExchangeWork
<1>2. CASE (\E c \in Conn : GetDiscard(e, c)) \/ GetNone(e)
  BY <1>2 DEF GetDiscard, GetNone, Goto, TypeOK, ExchangeWork, FreshIsFinal
<1>3. CASE \E c \in Conn : Dial(e, c)
  BY <1>3 DEF Dial, Goto, TypeOK, ExchangeWork, FreshIsFinal
<1>4. CASE DialFails(e)
  BY <1>4 DEF DialFails, Return, TypeOK, ExchangeWork
<1>5. CASE ExchangeOk(e)
  BY <1>5 DEF ExchangeOk, Goto, TypeOK, ExchangeWork
<1>6. CASE ExchangeRetries(e)
  BY <1>6 DEF ExchangeRetries, Goto, TypeOK, ExchangeWork
<1>7. CASE ExchangeFails(e)
  BY <1>7 DEF ExchangeFails, Return, TypeOK, ExchangeWork
<1>8. CASE PutChecked(e)
  BY <1>8 DEF PutChecked, Goto, TypeOK, ExchangeWork
<1>9. CASE PutDrained(e) \/ PutSends(e) \/ PutFull(e)
  BY <1>9 DEF PutDrained, PutSends, PutFull, Return, TypeOK, ExchangeWork
<1> QED
  BY <1>1, <1>2, <1>3, <1>4, <1>5, <1>6, <1>7, <1>8, <1>9 DEF ExchangeStep

(* A look-up begins an exchange; nothing else moves one but its own steps. *)
LEMMA BeginOrQuiet ==
    ASSUME TypeOK, [Next]_vars, NEW e \in Exchange, ~ExchangeStep(e)
    PROVE  \/ pc[e] = "returned" /\ pc'[e] = "get" /\ (e \in fromPool' <=> e \in fromPool)
           \/ pc'[e] = pc[e] /\ (e \in fromPool' <=> e \in fromPool)
<1>1. ASSUME NEW f \in Exchange, Lookup(f) \/ (\E p \in Pool : LookupCreates(f, p))
      PROVE  \/ pc[e] = "returned" /\ pc'[e] = "get" /\ (e \in fromPool' <=> e \in fromPool)
             \/ pc'[e] = pc[e] /\ (e \in fromPool' <=> e \in fromPool)
  BY <1>1 DEF Lookup, LookupCreates, Goto, TypeOK
<1>2. ASSUME NEW f \in Exchange, ExchangeStep(f)
      PROVE  pc'[e] = pc[e] /\ (e \in fromPool' <=> e \in fromPool)
  <2>1. f # e
    BY <1>2
  <2> QED
    BY <1>2, <2>1 DEF ExchangeStep, GetReuse, GetDiscard, GetNone, Dial, DialFails, ExchangeOk,
       ExchangeRetries, ExchangeFails, PutDrained, PutChecked, PutSends, PutFull, Goto, Return, TypeOK
<1>3. CASE \/ \E c \in Conn : PeerCloses(c)
           \/ \E p \in Pool : Collect(p)
           \/ DrainStart \/ DrainStep \/ DrainEnd
           \/ UNCHANGED vars
  BY <1>3 DEF PeerCloses, Collect, DrainStart, DrainStep, DrainEnd, vars
<1> QED
  BY <1>1, <1>2, <1>3 DEF Next

LEMMA NextFresh == TypeOK /\ FreshIsFinal /\ [Next]_vars => FreshIsFinal'
<1> SUFFICES ASSUME TypeOK, FreshIsFinal, [Next]_vars, NEW e \in Exchange,
                    pc'[e] \in {"returned", "get", "dial"}
             PROVE  e \notin fromPool'
  BY DEF FreshIsFinal
<1>1. CASE ExchangeStep(e)
  BY <1>1, StepAdvances
<1>2. CASE ~ExchangeStep(e)
  BY <1>2, BeginOrQuiet DEF FreshIsFinal
<1> QED
  BY <1>1, <1>2

LEMMA SpecFresh == Spec => []FreshIsFinal
<1>1. Init => FreshIsFinal
  BY DEF Init, FreshIsFinal
<1>2. IInv => TypeOK
  BY DEF IInv
<1> QED
  BY <1>1, <1>2, NextFresh, SpecIInv, PTL DEF Spec

(* exchange in upstream_exchange.go: each step of a query brings it nearer *)
(* to its end and no step of another, of the peer or of a drain sets it    *)
(* back, so that it returns after at most six steps of its own, one retry  *)
(* included.                                                               *)
THEOREM ExchangesAreBounded == Spec => ExchangesAdvance
<1>1. TypeOK /\ FreshIsFinal /\ [Next]_vars =>
        [\A e \in Exchange :
            IF ExchangeStep(e) THEN ExchangeWork(e)' < ExchangeWork(e)
            ELSE pc[e] = "returned" \/ ExchangeWork(e)' = ExchangeWork(e)]_vars
  <2> SUFFICES ASSUME TypeOK, FreshIsFinal, [Next]_vars, NEW e \in Exchange
               PROVE  IF ExchangeStep(e) THEN ExchangeWork(e)' < ExchangeWork(e)
                      ELSE pc[e] = "returned" \/ ExchangeWork(e)' = ExchangeWork(e)
    OBVIOUS
  <2>1. CASE ExchangeStep(e)
    BY <2>1, StepAdvances
  <2>2. CASE ~ExchangeStep(e)
    <3>1. pc[e] = "returned" \/ (pc'[e] = pc[e] /\ (e \in fromPool' <=> e \in fromPool))
      BY <2>2, BeginOrQuiet
    <3>2. pc[e] = "returned" \/ ExchangeWork(e)' = ExchangeWork(e)
      BY <3>1 DEF ExchangeWork
    <3> QED
      BY <2>2, <3>2
  <2> QED
    BY <2>1, <2>2
<1>2. IInv => TypeOK
  BY DEF IInv
<1> QED
  BY <1>1, <1>2, SpecIInv, SpecFresh, PTL DEF Spec, ExchangesAdvance
=============================================================================
