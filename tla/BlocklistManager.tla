-------------------------- MODULE BlocklistManager --------------------------
(***************************************************************************)
(* Loading of blocklists: Manager in internal/blocklist/manager.go.  The   *)
(* manager's goroutine reloads every source on a ticker; handlers of the   *)
(* control server (internal/control/server.go, POST /blocklists/reload)    *)
(* apply a new configuration and load it in their own goroutine; queries   *)
(* read one snapshot, which a load replaces as a whole.                    *)
(*                                                                         *)
(* A load holds no lock while it fetches, so loads of different            *)
(* configurations overlap.  The domains of a source are abstracted to the  *)
(* source, the allowlist and denylist to the configuration they come from. *)
(***************************************************************************)
CONSTANTS
    Config,      (* blocklists sections that are ever applied              *)
    Source,      (* source URLs                                            *)
    SourcesOf,   (* the sources of each configuration                      *)
    FailOnAny,   (* configurations with health_check.fail_on_any           *)
    Handler,     (* goroutines of POST /blocklists/reload                  *)
    Refresher,   (* the goroutine of Start                                 *)
    Nil          (* no configuration                                       *)

ASSUME SourcesAssumption == SourcesOf \in [Config -> SUBSET Source]
ASSUME FailAssumption == FailOnAny \subseteq Config
ASSUME NamesAssumption == Refresher \notin Handler /\ Nil \notin Config

Thread == Handler \cup {Refresher}

VARIABLES
    current,    (* sources, matchers and lastAppliedCfg, under configMu    *)
    snapshot,   (* what queries see: the configuration of its matchers,    *)
                (* the sources that answered, those that had domains       *)
    pc,         (* where each goroutine is                                 *)
    cfg,        (* the configuration each is to apply, or is loading       *)
    todo,       (* sources it has yet to fetch                             *)
    answered,   (* sources that answered it with a list                    *)
    blocked,    (* those whose list was not empty                          *)
    ticking,    (* the ticker has been started                             *)
    alive,      (* the context of Start is not done                        *)
    server      (* what each source's server does at present               *)

loadVars == <<pc, cfg, todo, answered, blocked>>
vars == <<current, snapshot, loadVars, ticking, alive, server>>

Snapshot == [cfg : Config, answered : SUBSET Source, blocked : SUBSET Source]

Init ==
    /\ current \in Config
    /\ snapshot = [cfg |-> current, answered |-> {}, blocked |-> {}]
    /\ pc = [t \in Thread |-> IF t = Refresher THEN "copy" ELSE "idle"]
    /\ cfg = [t \in Thread |-> Nil]
    /\ todo = [t \in Thread |-> {}]
    /\ answered = [t \in Thread |-> {}]
    /\ blocked = [t \in Thread |-> {}]
    /\ ticking = FALSE
    /\ alive = TRUE
    /\ server \in [Source -> {"up", "blank", "down"}]

Goto(t, step) == pc' = [pc EXCEPT ![t] = step]

(* LoadOnce returns, to Start the first time.                              *)
Return(t) ==
    /\ Goto(t, IF t = Refresher /\ ~ticking THEN "start" ELSE "idle")
    /\ cfg' = [cfg EXCEPT ![t] = Nil]
    /\ todo' = [todo EXCEPT ![t] = {}]
    /\ answered' = [answered EXCEPT ![t] = {}]
    /\ blocked' = [blocked EXCEPT ![t] = {}]

-----------------------------------------------------------------------------
(* The control server is started, and a group's manager published, when    *)
(* Start has returned.                                                     *)
Started == ticking \/ pc[Refresher] = "ended"

(* handleBlocklistsReload: the configuration is read from the file.        *)
Reload(t, c) ==
    /\ Started
    /\ t \in Handler
    /\ pc[t] = "idle"
    /\ Goto(t, "apply")
    /\ cfg' = [cfg EXCEPT ![t] = c]
    /\ UNCHANGED <<current, snapshot, todo, answered, blocked, ticking, alive, server>>

(* ApplyConfig, up to its Unlock: nothing is done about a configuration    *)
(* that is equal to the last applied one.                                  *)
ApplyConfig(t) ==
    /\ pc[t] = "apply"
    /\ IF cfg[t] = current
       THEN Return(t) /\ UNCHANGED current
       ELSE /\ current' = cfg[t]
            /\ Goto(t, "copy")
            /\ cfg' = [cfg EXCEPT ![t] = Nil]
            /\ UNCHANGED <<todo, answered, blocked>>
    /\ UNCHANGED <<snapshot, ticking, alive, server>>

(* Mutant of Copy: the refresh loads what Start found.                     *)
CopyOfSnapshot(t) ==
    /\ pc[t] = "copy"
    /\ LET c == IF t = Refresher THEN snapshot.cfg ELSE current
       IN  /\ cfg' = [cfg EXCEPT ![t] = c]
           /\ todo' = [todo EXCEPT ![t] = SourcesOf[c]]
    /\ Goto(t, "fetch")
    /\ UNCHANGED <<current, snapshot, answered, blocked, ticking, alive, server>>

(* LoadOnce: what it needs of the configuration, under the read lock.      *)
Copy(t) ==
    /\ pc[t] = "copy"
    /\ cfg' = [cfg EXCEPT ![t] = current]
    /\ todo' = [todo EXCEPT ![t] = SourcesOf[current]]
    /\ Goto(t, "fetch")
    /\ UNCHANGED <<current, snapshot, answered, blocked, ticking, alive, server>>

(* A source that answers with a page without domains has answered.         *)
FetchOk(t, s) ==
    /\ pc[t] = "fetch"
    /\ s \in todo[t]
    /\ server[s] # "down"
    /\ t = Refresher => alive
    /\ todo' = [todo EXCEPT ![t] = @ \ {s}]
    /\ answered' = [answered EXCEPT ![t] = @ \cup {s}]
    /\ blocked' = [blocked EXCEPT ![t] = IF server[s] = "up" THEN @ \cup {s} ELSE @]
    /\ UNCHANGED <<current, snapshot, pc, cfg, ticking, alive, server>>

(* The server is down, or the context is done: a handler's is its request, *)
(* which the client may give up.  With fail_on_any the load ends here.     *)
FetchFails(t, s) ==
    /\ pc[t] = "fetch"
    /\ s \in todo[t]
    /\ server[s] = "down" \/ t \in Handler \/ ~alive
    /\ IF cfg[t] \in FailOnAny
       THEN Return(t)
       ELSE /\ todo' = [todo EXCEPT ![t] = @ \ {s}]
            /\ UNCHANGED <<pc, cfg, answered, blocked>>
    /\ UNCHANGED <<current, snapshot, ticking, alive, server>>

(* Mutant of Store: the matchers are read when the load is stored.         *)
StoreWithCurrent(t) ==
    /\ pc[t] = "fetch"
    /\ todo[t] = {}
    /\ IF answered[t] = {} /\ SourcesOf[cfg[t]] # {}
       THEN UNCHANGED snapshot
       ELSE snapshot' = [cfg |-> current, answered |-> answered[t],
                         blocked |-> blocked[t]]
    /\ Return(t)
    /\ UNCHANGED <<current, ticking, alive, server>>

(* The end of LoadOnce: unless every source has failed, the snapshot is    *)
(* replaced.                                                               *)
Store(t) ==
    /\ pc[t] = "fetch"
    /\ todo[t] = {}
    /\ IF answered[t] = {} /\ SourcesOf[cfg[t]] # {}
       THEN UNCHANGED snapshot
       ELSE snapshot' = [cfg |-> cfg[t], answered |-> answered[t],
                         blocked |-> blocked[t]]
    /\ Return(t)
    /\ UNCHANGED <<current, ticking, alive, server>>

-----------------------------------------------------------------------------
(* Start, after the initial load: no ticker for a manager that has no      *)
(* sources by now.                                                         *)
Start ==
    /\ pc[Refresher] = "start"
    /\ IF SourcesOf[current] = {}
       THEN Goto(Refresher, "ended") /\ UNCHANGED ticking
       ELSE Goto(Refresher, "idle") /\ ticking' = TRUE
    /\ UNCHANGED <<current, snapshot, cfg, todo, answered, blocked, alive, server>>

Tick ==
    /\ pc[Refresher] = "idle"
    /\ Goto(Refresher, "copy")
    /\ UNCHANGED <<current, snapshot, cfg, todo, answered, blocked, ticking, alive, server>>

RefresherEnds ==
    /\ pc[Refresher] = "idle"
    /\ ~alive
    /\ Goto(Refresher, "ended")
    /\ UNCHANGED <<current, snapshot, cfg, todo, answered, blocked, ticking, alive, server>>

(* The context given to Start is done: the process is shutting down, or    *)
(* the request is over by which ApplyBlocklistConfig made the manager.     *)
ContextDone ==
    /\ alive
    /\ alive' = FALSE
    /\ UNCHANGED <<current, snapshot, loadVars, ticking, server>>

(* A source's server goes down, comes back, or serves an empty page.       *)
ServerChanges(s) ==
    /\ \E state \in {"up", "blank", "down"} : server' = [server EXCEPT ![s] = state]
    /\ UNCHANGED <<current, snapshot, loadVars, ticking, alive>>

-----------------------------------------------------------------------------
LoadStep(t) ==
    \/ ApplyConfig(t) \/ Copy(t) \/ Store(t)
    \/ \E s \in Source : FetchOk(t, s) \/ FetchFails(t, s)

Next ==
    \/ \E t \in Thread : LoadStep(t) \/ \E c \in Config : Reload(t, c)
    \/ Start \/ Tick \/ RefresherEnds \/ ContextDone
    \/ \E s \in Source : ServerChanges(s)

Spec == Init /\ [][Next]_vars

(* A fetch ends within the client's 15 seconds, and the ticker fires.      *)
FairSpec ==
    /\ Spec
    /\ \A t \in Thread : WF_vars(LoadStep(t))
    /\ WF_vars(Start)
    /\ WF_vars(Tick)

-----------------------------------------------------------------------------
(* Types of the configuration, the snapshot and the loads in progress.     *)
TypeOK ==
    /\ current \in Config
    /\ snapshot \in Snapshot
    /\ pc \in [Thread -> {"idle", "apply", "copy", "fetch", "start", "ended"}]
    /\ cfg \in [Thread -> Config \cup {Nil}]
    /\ \A t \in Thread : pc[t] \in {"apply", "fetch"} => cfg[t] # Nil
    /\ todo \in [Thread -> SUBSET Source]
    /\ answered \in [Thread -> SUBSET Source]
    /\ blocked \in [Thread -> SUBSET Source]
    /\ ticking \in BOOLEAN
    /\ alive \in BOOLEAN
    /\ server \in [Source -> {"up", "blank", "down"}]

(* A snapshot is of one configuration, whatever was applied while it was   *)
(* loaded: the domains of none but that configuration's sources go with    *)
(* its allowlist and denylist.  With fail_on_any none of the sources is    *)
(* missing (manager_test.go, "Failed reloads must not replace the previous *)
(* snapshot with partial data").                                           *)
SnapshotOfOneConfig ==
    /\ snapshot.blocked \subseteq snapshot.answered
    /\ snapshot.answered \subseteq SourcesOf[snapshot.cfg]
    /\ snapshot.cfg \in FailOnAny =>
          snapshot.answered \in {{}, SourcesOf[snapshot.cfg]}

(* Failures do not unblock everything: only a configuration without        *)
(* sources replaces loaded lists by none at all.                           *)
NeverEmptied ==
    [][snapshot.answered # {} =>
          snapshot'.answered # {} \/ SourcesOf[snapshot'.cfg] = {}]_vars

(* docs/errors.md, on a load that failed or was partial: "refresh will     *)
(* retry on next cycle".  Once configurations stop changing and the        *)
(* servers are well, queries see all of the current configuration, though  *)
(* a slower load of an older one may have been stored after it.            *)
CatchesUp ==
    \A c \in Config :
       <>[](current = c /\ ticking /\ alive /\ server = [s \in Source |-> "up"])
          => <>[](snapshot = [cfg |-> c, answered |-> SourcesOf[c],
                              blocked |-> SourcesOf[c]])
=============================================================================
