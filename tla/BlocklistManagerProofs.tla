----------------------- MODULE BlocklistManagerProofs -----------------------
(***************************************************************************)
(* Proofs about BlocklistManager, for any sets of configurations, sources  *)
(* and handlers.                                                           *)
(***************************************************************************)
EXTENDS BlocklistManager, TLAPS

USE SourcesAssumption, FailAssumption, NamesAssumption

(* What a load has in hand while it fetches: answers of its own            *)
(* configuration's sources, and with fail_on_any no source dropped.        *)
LoadInv(t) ==
    /\ blocked[t] \subseteq answered[t]
    /\ pc[t] # "fetch" => answered[t] = {}
    /\ pc[t] = "fetch" =>
          /\ answered[t] \cup todo[t] \subseteq SourcesOf[cfg[t]]
          /\ cfg[t] \in FailOnAny => answered[t] \cup todo[t] = SourcesOf[cfg[t]]

IInv ==
    /\ TypeOK
    /\ \A t \in Thread : LoadInv(t)
    /\ SnapshotOfOneConfig

LEMMA InitIInv == Init => IInv
  <1> SUFFICES ASSUME Init PROVE IInv
    OBVIOUS
  <1>1. TypeOK
    BY DEF Init, TypeOK, Snapshot, Thread
  <1>2. \A t \in Thread : LoadInv(t)
    BY DEF Init, LoadInv
  <1>3. SnapshotOfOneConfig
    BY DEF Init, SnapshotOfOneConfig
  <1> QED
    BY <1>1, <1>2, <1>3 DEF IInv

-----------------------------------------------------------------------------
(* A step of a load changes the load's own thread only.                    *)
LEMMA ReturnClears ==
    ASSUME TypeOK, NEW t \in Thread, Return(t)
    PROVE  /\ pc' \in [Thread -> {"idle", "apply", "copy", "fetch", "start", "ended"}]
           /\ cfg' \in [Thread -> Config \cup {Nil}]
           /\ todo' \in [Thread -> SUBSET Source]
           /\ answered' \in [Thread -> SUBSET Source]
           /\ blocked' \in [Thread -> SUBSET Source]
           /\ pc'[t] \in {"idle", "start"}
           /\ answered'[t] = {} /\ blocked'[t] = {}
           /\ \A u \in Thread \ {t} :
                 /\ pc'[u] = pc[u] /\ cfg'[u] = cfg[u] /\ todo'[u] = todo[u]
                 /\ answered'[u] = answered[u] /\ blocked'[u] = blocked[u]
  BY DEF TypeOK, Return, Goto

(* The other threads' loads are as they were.                              *)
LEMMA OthersKept ==
    ASSUME NEW t \in Thread, \A u \in Thread : LoadInv(u), LoadInv(t)',
           \A u \in Thread \ {t} :
              /\ pc'[u] = pc[u] /\ cfg'[u] = cfg[u] /\ todo'[u] = todo[u]
              /\ answered'[u] = answered[u] /\ blocked'[u] = blocked[u]
    PROVE  \A u \in Thread : LoadInv(u)'
  BY DEF LoadInv

-----------------------------------------------------------------------------
LEMMA NextIInv == IInv /\ [Next]_vars => IInv'
  <1> SUFFICES ASSUME IInv, [Next]_vars PROVE IInv'
    OBVIOUS
  <1> USE DEF IInv
  <1> DEFINE Loads == \A u \in Thread : LoadInv(u)
  <1>1. ASSUME NEW t \in Thread, NEW c \in Config, Reload(t, c) PROVE IInv'
    <2>1. TypeOK'
      BY <1>1 DEF TypeOK, Reload, Goto
    <2>2. LoadInv(t)'
      BY <1>1 DEF TypeOK, Reload, Goto, LoadInv
    <2>3. Loads'
      BY <1>1, <2>2, OthersKept DEF TypeOK, Reload, Goto
    <2>4. SnapshotOfOneConfig'
      BY <1>1 DEF Reload, SnapshotOfOneConfig
    <2> QED
      BY <2>1, <2>3, <2>4
  <1>2. ASSUME NEW t \in Thread, ApplyConfig(t) PROVE IInv'
    <2>1. CASE cfg[t] = current
      <3>1. Return(t) /\ UNCHANGED <<current, snapshot, ticking, alive, server>>
        BY <1>2, <2>1 DEF ApplyConfig
      <3>2. TypeOK'
        BY <3>1, ReturnClears DEF TypeOK
      <3>3. LoadInv(t)'
        BY <3>1, ReturnClears DEF LoadInv
      <3>4. Loads'
        BY <3>1, <3>3, ReturnClears, OthersKept
      <3>5. SnapshotOfOneConfig'
        BY <3>1 DEF SnapshotOfOneConfig
      <3> QED
        BY <3>2, <3>4, <3>5
    <2>2. CASE cfg[t] # current
      <3>1. TypeOK'
        BY <1>2, <2>2 DEF TypeOK, ApplyConfig, Goto
      <3>2. LoadInv(t)'
        BY <1>2, <2>2 DEF TypeOK, ApplyConfig, Goto, LoadInv
      <3>3. Loads'
        BY <1>2, <2>2, <3>2, OthersKept DEF TypeOK, ApplyConfig, Goto
      <3>4. SnapshotOfOneConfig'
        BY <1>2 DEF ApplyConfig, SnapshotOfOneConfig
      <3> QED
        BY <3>1, <3>3, <3>4
    <2> QED
      BY <2>1, <2>2
  <1>3. ASSUME NEW t \in Thread, Copy(t) PROVE IInv'
    <2>1. TypeOK'
      BY <1>3 DEF TypeOK, Copy, Goto
    <2>2. LoadInv(t)'
      BY <1>3 DEF TypeOK, Copy, Goto, LoadInv
    <2>3. Loads'
      BY <1>3, <2>2, OthersKept DEF TypeOK, Copy, Goto
    <2>4. SnapshotOfOneConfig'
      BY <1>3 DEF Copy, SnapshotOfOneConfig
    <2> QED
      BY <2>1, <2>3, <2>4
  <1>4. ASSUME NEW t \in Thread, NEW s \in Source, FetchOk(t, s) PROVE IInv'
    <2>1. TypeOK'
      BY <1>4 DEF TypeOK, FetchOk
    <2>2. LoadInv(t)'
      BY <1>4 DEF TypeOK, FetchOk, LoadInv
    <2>3. Loads'
      BY <1>4, <2>2, OthersKept DEF TypeOK, FetchOk
    <2>4. SnapshotOfOneConfig'
      BY <1>4 DEF FetchOk, SnapshotOfOneConfig
    <2> QED
      BY <2>1, <2>3, <2>4
  <1>5. ASSUME NEW t \in Thread, NEW s \in Source, FetchFails(t, s) PROVE IInv'
    <2>1. CASE cfg[t] \in FailOnAny
      <3>1. Return(t) /\ UNCHANGED <<current, snapshot, ticking, alive, server>>
        BY <1>5, <2>1 DEF FetchFails
      <3>2. TypeOK'
        BY <3>1, ReturnClears DEF TypeOK
      <3>3. LoadInv(t)'
        BY <3>1, ReturnClears DEF LoadInv
      <3>4. Loads'
        BY <3>1, <3>3, ReturnClears, OthersKept
      <3>5. SnapshotOfOneConfig'
        BY <3>1 DEF SnapshotOfOneConfig
      <3> QED
        BY <3>2, <3>4, <3>5
    <2>2. CASE cfg[t] \notin FailOnAny
      <3>1. TypeOK'
        BY <1>5, <2>2 DEF TypeOK, FetchFails
      <3>2. LoadInv(t)'
        BY <1>5, <2>2 DEF TypeOK, FetchFails, LoadInv
      <3>3. Loads'
        BY <1>5, <2>2, <3>2, OthersKept DEF TypeOK, FetchFails
      <3>4. SnapshotOfOneConfig'
        BY <1>5 DEF FetchFails, SnapshotOfOneConfig
      <3> QED
        BY <3>1, <3>3, <3>4
    <2> QED
      BY <2>1, <2>2
  <1>6. ASSUME NEW t \in Thread, Store(t) PROVE IInv'
    <2>1. Return(t) /\ UNCHANGED <<current, ticking, alive, server>>
      BY <1>6 DEF Store
    <2>2. cfg[t] \in Config
      BY <1>6 DEF Store, TypeOK
    <2>3. snapshot' \in Snapshot
      BY <1>6, <2>2 DEF Store, TypeOK, Snapshot
    <2>4. TypeOK'
      BY <2>1, <2>3, ReturnClears DEF TypeOK
    <2>5. LoadInv(t)'
      BY <2>1, ReturnClears DEF LoadInv
    <2>6. Loads'
      BY <2>1, <2>5, ReturnClears, OthersKept
    (* Nothing is left to fetch: what answered is all there was to ask.    *)
    <2>7. SnapshotOfOneConfig'
      <3>1. /\ blocked[t] \subseteq answered[t]
            /\ answered[t] \subseteq SourcesOf[cfg[t]]
            /\ cfg[t] \in FailOnAny => answered[t] = SourcesOf[cfg[t]]
        BY <1>6 DEF Store, LoadInv
      <3>2. CASE UNCHANGED snapshot
        BY <3>2 DEF SnapshotOfOneConfig
      <3>3. CASE snapshot' = [cfg |-> cfg[t], answered |-> answered[t],
                              blocked |-> blocked[t]]
        BY <3>1, <3>3 DEF SnapshotOfOneConfig
      <3> QED
        BY <1>6, <3>2, <3>3 DEF Store
    <2> QED
      BY <2>4, <2>6, <2>7
  <1>7. ASSUME Start \/ Tick \/ RefresherEnds PROVE IInv'
    <2>1. TypeOK'
      BY <1>7 DEF TypeOK, Start, Tick, RefresherEnds, Goto, Thread
    <2>2. Loads'
      BY <1>7 DEF TypeOK, Start, Tick, RefresherEnds, Goto, Thread, LoadInv
    <2>3. SnapshotOfOneConfig'
      BY <1>7 DEF Start, Tick, RefresherEnds, SnapshotOfOneConfig
    <2> QED
      BY <2>1, <2>2, <2>3
  <1>8. ASSUME ContextDone \/ (\E s \in Source : ServerChanges(s)) \/ UNCHANGED vars
        PROVE  IInv'
    <2>1. TypeOK'
      BY <1>8 DEF TypeOK, ContextDone, ServerChanges, vars, loadVars
    <2>2. Loads'
      BY <1>8 DEF ContextDone, ServerChanges, vars, loadVars, LoadInv
    <2>3. SnapshotOfOneConfig'
      BY <1>8 DEF ContextDone, ServerChanges, vars, loadVars, SnapshotOfOneConfig
    <2> QED
      BY <2>1, <2>2, <2>3
  <1> QED
    BY <1>1, <1>2, <1>3, <1>4, <1>5, <1>6, <1>7, <1>8 DEF Next, LoadStep

-----------------------------------------------------------------------------
(* The types hold whatever is applied, loaded and cancelled when.          *)
THEOREM TypeCorrect == Spec => []TypeOK
  BY InitIInv, NextIInv, PTL DEF Spec, IInv

(* Whatever loads overlap, a snapshot is of one configuration and, with    *)
(* fail_on_any, whole.                                                     *)
THEOREM SnapshotSound == Spec => []SnapshotOfOneConfig
  BY InitIInv, NextIInv, PTL DEF Spec, IInv

(* A load in which everything failed leaves the lists in place.            *)
THEOREM NeverEmptiedCorrect == Spec => NeverEmptied
  <1> DEFINE Kept == snapshot.answered # {} =>
                        snapshot'.answered # {} \/ SourcesOf[snapshot'.cfg] = {}
  <1>1. [Next]_vars => [Kept]_vars
    <2> SUFFICES ASSUME Next PROVE Kept \/ UNCHANGED vars
      OBVIOUS
    <2>1. ASSUME NEW t \in Thread, Store(t) PROVE Kept
      BY <2>1 DEF Store
    <2>2. ASSUME UNCHANGED snapshot PROVE Kept
      BY <2>2
    <2>3. \/ UNCHANGED snapshot
          \/ \E t \in Thread : Store(t)
      BY DEF Next, LoadStep, Reload, ApplyConfig, Copy, FetchOk, FetchFails,
             Start, Tick, RefresherEnds, ContextDone, ServerChanges
    <2> QED
      BY <2>1, <2>2, <2>3
  <1> QED
    BY <1>1, PTL DEF Spec, NeverEmptied
=============================================================================
