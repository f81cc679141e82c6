------------------------------ MODULE ConnPool ------------------------------
(***************************************************************************)
(* Reuse of TCP and TLS connections to one upstream address: connPool of   *)
(* internal/dnsresolver/connpool.go, the lookup of the address's pool      *)
(* (internal/dnsresolver/upstream_exchange.go), and the replacement of the *)
(* pool by ApplyUpstreamConfig (internal/dnsresolver/resolver.go).         *)
(*                                                                         *)
(* A pool's channel is the set of connections in it: which one a query     *)
(* gets does not matter here.  Whether a pooled connection has been idle   *)
(* too long is a choice; that validateConn may miss a closed connection,   *)
(* and that the peer may close one at any time, is what makes reuse hard.  *)
(***************************************************************************)
EXTENDS Naturals, FiniteSets

CONSTANTS
    Conn,        (* connections: file descriptors of this process          *)
    Exchange,    (* queries in progress over this address                  *)
    Pool,        (* identities of connPool objects                         *)
    Nil,         (* no connection, no pool                                 *)
    PoolSize     (* connPoolSize, capacity of a pool's channel             *)

ASSUME PoolSizeAssumption == PoolSize \in Nat \ {0}
ASSUME ConnAssumption == IsFiniteSet(Conn)
ASSUME NilAssumption == Nil \notin Conn /\ Nil \notin Pool

VARIABLES
    open,      (* connections this process has not closed                  *)
    dead,      (* open connections that the peer has closed                *)
    idle,      (* the connections in each pool's channel                   *)
    drained,   (* the drained flag of each pool                            *)
    cur,       (* the pool the address's map entry holds                   *)
    draining,  (* the pool ApplyUpstreamConfig drains, under the map's lock *)
    pc,        (* where each query is                                      *)
    pool,      (* the pool each query has looked up                        *)
    conn,      (* the connection each query owns                           *)
    fromPool   (* queries whose connection came out of the pool            *)

vars == <<open, dead, idle, drained, cur, draining, pc, pool, conn, fromPool>>

Init ==
    /\ open = {}
    /\ dead = {}
    /\ idle = [p \in Pool |-> {}]
    /\ drained = [p \in Pool |-> FALSE]
    /\ cur = Nil
    /\ draining = Nil
    /\ pc = [e \in Exchange |-> "returned"]
    /\ pool = [e \in Exchange |-> Nil]
    /\ conn = [e \in Exchange |-> Nil]
    /\ fromPool = {}

Close(c) ==
    /\ open' = open \ {c}
    /\ dead' = dead \ {c}

Goto(e, step) == pc' = [pc EXCEPT ![e] = step]

(* exchange returns; the query owns nothing any more.                      *)
Return(e) ==
    /\ pc' = [pc EXCEPT ![e] = "returned"]
    /\ pool' = [pool EXCEPT ![e] = Nil]
    /\ conn' = [conn EXCEPT ![e] = Nil]
    /\ fromPool' = fromPool \ {e}

-----------------------------------------------------------------------------
(* tcpConnPoolFor / tlsConnPoolFor: the map entry, or a new pool.  Both    *)
(* wait for the lock that ApplyUpstreamConfig holds while it drains.       *)
Lookup(e) ==
    /\ pc[e] = "returned"
    /\ draining = Nil
    /\ cur # Nil
    /\ pool' = [pool EXCEPT ![e] = cur]
    /\ Goto(e, "get")
    /\ UNCHANGED <<open, dead, idle, drained, cur, draining, conn, fromPool>>

(* A pool nothing refers to and that holds no connection is a new object.  *)
LookupCreates(e, p) ==
    /\ pc[e] = "returned"
    /\ draining = Nil
    /\ cur = Nil
    /\ idle[p] = {}
    /\ \A x \in Exchange : pool[x] # p
    /\ cur' = p
    /\ drained' = [drained EXCEPT ![p] = FALSE]
    /\ pool' = [pool EXCEPT ![e] = p]
    /\ Goto(e, "get")
    /\ UNCHANGED <<open, dead, idle, draining, conn, fromPool>>

(* Mutant of GetReuse: the connection is looked at, not taken.             *)
GetReusePeeks(e, c) ==
    /\ pc[e] = "get"
    /\ c \in idle[pool[e]]
    /\ conn' = [conn EXCEPT ![e] = c]
    /\ fromPool' = fromPool \cup {e}
    /\ Goto(e, "exchange")
    /\ UNCHANGED <<open, dead, idle, drained, cur, draining, pool>>

(* getConn receives a connection and keeps it, alive or (not validated, or *)
(* closed by the peer in a way validateConn takes for alive) dead.         *)
GetReuse(e, c) ==
    /\ pc[e] = "get"
    /\ c \in idle[pool[e]]
    /\ idle' = [idle EXCEPT ![pool[e]] = @ \ {c}]
    /\ conn' = [conn EXCEPT ![e] = c]
    /\ fromPool' = fromPool \cup {e}
    /\ Goto(e, "exchange")
    /\ UNCHANGED <<open, dead, drained, cur, draining, pool>>

(* Mutant of GetDiscard: the unusable connection is dropped, not closed.   *)
GetDiscardDrops(e, c) ==
    /\ pc[e] = "get"
    /\ c \in idle[pool[e]]
    /\ idle' = [idle EXCEPT ![pool[e]] = @ \ {c}]
    /\ Goto(e, "dial")
    /\ UNCHANGED <<open, dead, drained, cur, draining, pool, conn, fromPool>>

(* getConn receives a connection that has been idle too long, or that      *)
(* validateConn finds closed.                                              *)
GetDiscard(e, c) ==
    /\ pc[e] = "get"
    /\ c \in idle[pool[e]]
    /\ idle' = [idle EXCEPT ![pool[e]] = @ \ {c}]
    /\ Close(c)
    /\ Goto(e, "dial")
    /\ UNCHANGED <<drained, cur, draining, pool, conn, fromPool>>

GetNone(e) ==
    /\ pc[e] = "get"
    /\ idle[pool[e]] = {}
    /\ Goto(e, "dial")
    /\ UNCHANGED <<open, dead, idle, drained, cur, draining, pool, conn, fromPool>>

Dial(e, c) ==
    /\ pc[e] = "dial"
    /\ c \notin open
    /\ open' = open \cup {c}
    /\ conn' = [conn EXCEPT ![e] = c]
    /\ Goto(e, "exchange")
    /\ UNCHANGED <<dead, idle, drained, cur, draining, pool, fromPool>>

DialFails(e) ==
    /\ pc[e] = "dial"
    /\ Return(e)
    /\ UNCHANGED <<open, dead, idle, drained, cur, draining>>

ExchangeOk(e) ==
    /\ pc[e] = "exchange"
    /\ conn[e] \notin dead
    /\ Goto(e, "put")
    /\ UNCHANGED <<open, dead, idle, drained, cur, draining, pool, conn, fromPool>>

(* Mutant of ExchangeRetries: the second attempt asks the pool again.      *)
ExchangeRetriesFromPool(e) ==
    /\ pc[e] = "exchange"
    /\ e \in fromPool
    /\ Close(conn[e])
    /\ conn' = [conn EXCEPT ![e] = Nil]
    /\ fromPool' = fromPool \ {e}
    /\ Goto(e, "get")
    /\ UNCHANGED <<idle, drained, cur, draining, pool>>

(* A retriable error on a connection of the pool: closed, and the exchange *)
(* repeated on a fresh one, whose errors are final.                        *)
ExchangeRetries(e) ==
    /\ pc[e] = "exchange"
    /\ e \in fromPool
    /\ Close(conn[e])
    /\ conn' = [conn EXCEPT ![e] = Nil]
    /\ fromPool' = fromPool \ {e}
    /\ Goto(e, "dial")
    /\ UNCHANGED <<idle, drained, cur, draining, pool>>

(* Any other error, such as the timeout: putConn(hadError) closes.         *)
ExchangeFails(e) ==
    /\ pc[e] = "exchange"
    /\ Close(conn[e])
    /\ Return(e)
    /\ UNCHANGED <<idle, drained, cur, draining>>

(* putConn reads the drained flag ...                                      *)
PutDrained(e) ==
    /\ pc[e] = "put"
    /\ drained[pool[e]]
    /\ Close(conn[e])
    /\ Return(e)
    /\ UNCHANGED <<idle, drained, cur, draining>>

PutChecked(e) ==
    /\ pc[e] = "put"
    /\ ~drained[pool[e]]
    /\ Goto(e, "send")
    /\ UNCHANGED <<open, dead, idle, drained, cur, draining, pool, conn, fromPool>>

(* ... and then sends to the channel, or closes when it is full.           *)
PutSends(e) ==
    /\ pc[e] = "send"
    /\ Cardinality(idle[pool[e]]) < PoolSize
    /\ idle' = [idle EXCEPT ![pool[e]] = @ \cup {conn[e]}]
    /\ Return(e)
    /\ UNCHANGED <<open, dead, drained, cur, draining>>

PutFull(e) ==
    /\ pc[e] = "send"
    /\ Cardinality(idle[pool[e]]) = PoolSize
    /\ Close(conn[e])
    /\ Return(e)
    /\ UNCHANGED <<idle, drained, cur, draining>>

-----------------------------------------------------------------------------
PeerCloses(c) ==
    /\ c \in open \ dead
    /\ dead' = dead \cup {c}
    /\ UNCHANGED <<open, idle, drained, cur, draining, pc, pool, conn, fromPool>>

(* A pool out of the map and out of every query's hands is unreachable;    *)
(* the Go runtime finalizes the connections left in it some time later.    *)
Collect(p) ==
    /\ p # cur
    /\ \A e \in Exchange : pool[e] # p
    /\ idle[p] # {}
    /\ open' = open \ idle[p]
    /\ dead' = dead \ idle[p]
    /\ idle' = [idle EXCEPT ![p] = {}]
    /\ UNCHANGED <<drained, cur, draining, pc, pool, conn, fromPool>>

(* ApplyUpstreamConfig takes the map's lock, drainConnPool sets the flag,  *)
(* empties the channel until it finds nothing, and the map is replaced.    *)
DrainStart ==
    /\ draining = Nil
    /\ cur # Nil
    /\ draining' = cur
    /\ drained' = [drained EXCEPT ![cur] = TRUE]
    /\ UNCHANGED <<open, dead, idle, cur, pc, pool, conn, fromPool>>

DrainStep ==
    /\ draining # Nil
    /\ \E c \in idle[draining] :
          /\ idle' = [idle EXCEPT ![draining] = @ \ {c}]
          /\ Close(c)
    /\ UNCHANGED <<drained, cur, draining, pc, pool, conn, fromPool>>

DrainEnd ==
    /\ draining # Nil
    /\ idle[draining] = {}
    /\ draining' = Nil
    /\ cur' = Nil
    /\ UNCHANGED <<open, dead, idle, drained, pc, pool, conn, fromPool>>

-----------------------------------------------------------------------------
(* Steps of a query that has begun.                                        *)
ExchangeStep(e) ==
    \/ \E c \in Conn : GetReuse(e, c) \/ GetDiscard(e, c) \/ Dial(e, c)
    \/ GetNone(e) \/ DialFails(e)
    \/ ExchangeOk(e) \/ ExchangeRetries(e) \/ ExchangeFails(e)
    \/ PutDrained(e) \/ PutChecked(e) \/ PutSends(e) \/ PutFull(e)

Next ==
    \/ \E e \in Exchange : \/ Lookup(e)
                           \/ \E p \in Pool : LookupCreates(e, p)
                           \/ ExchangeStep(e)
    \/ \E c \in Conn : PeerCloses(c)
    \/ \E p \in Pool : Collect(p)
    \/ DrainStart \/ DrainStep \/ DrainEnd

Spec == Init /\ [][Next]_vars

(* Dials and exchanges end by the context's deadline; goroutines run.      *)
FairSpec ==
    /\ Spec
    /\ \A e \in Exchange : WF_vars(ExchangeStep(e))
    /\ WF_vars(DrainStep \/ DrainEnd)

-----------------------------------------------------------------------------
(* Types, and: from the moment a query has a connection until it returns   *)
(* or gives the connection up, the connection is recorded as its own.      *)
TypeOK ==
    /\ open \in SUBSET Conn
    /\ dead \in SUBSET open
    /\ idle \in [Pool -> SUBSET Conn]
    /\ drained \in [Pool -> BOOLEAN]
    /\ cur \in Pool \cup {Nil}
    /\ draining \in {cur, Nil}
    /\ pc \in [Exchange -> {"returned", "get", "dial", "exchange", "put", "send"}]
    /\ pool \in [Exchange -> Pool \cup {Nil}]
    /\ conn \in [Exchange -> Conn \cup {Nil}]
    /\ fromPool \in SUBSET Exchange
    /\ \A e \in Exchange : /\ (pc[e] # "returned") = (pool[e] # Nil)
                           /\ (pc[e] \in {"exchange", "put", "send"}) = (conn[e] # Nil)

(* Two queries never write to one connection, a connection in a pool is    *)
(* nobody's, and it is in one pool only: otherwise answers would reach the *)
(* wrong query.                                                            *)
ExclusiveUse ==
    /\ \A e, f \in Exchange : conn[e] = conn[f] /\ conn[e] # Nil => e = f
    /\ \A e \in Exchange, p \in Pool : conn[e] \notin idle[p]
    /\ \A p, q \in Pool : p # q => idle[p] \cap idle[q] = {}

(* Every path through exchange, getConn, putConn and drainConnPool closes  *)
(* what it does not keep, and closes nothing another owner still has: a    *)
(* connection is open exactly when a query owns it or a pool holds it.     *)
ConnsAccounted ==
    \A c \in Conn :
       c \in open <=> \/ \E p \in Pool : c \in idle[p]
                     \/ \E e \in Exchange : conn[e] = c

(* A query never looks up a pool that has been drained: its connection     *)
(* would be closed after every use.                                        *)
CurrentPoolOpen == cur # Nil /\ draining = Nil => ~drained[cur]

(* A query ends, however often the peer closes connections under it: the   *)
(* retry is on a fresh connection and is not retried.                      *)
ExchangesFinish == \A e \in Exchange : pc[e] # "returned" ~> pc[e] = "returned"
=============================================================================
