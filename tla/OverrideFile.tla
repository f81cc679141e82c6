---------------------------- MODULE OverrideFile ----------------------------
(***************************************************************************)
(* The override configuration file and everybody who changes it: the       *)
(* routes of web/server/src/routes, which read the whole file, replace     *)
(* some parts and write the whole file back, without a lock, and the two   *)
(* writers of the DNS service (internal/sync).                             *)
(*                                                                         *)
(* An operation is one HTTP request, or one write of the DNS service.  Its *)
(* steps are the awaits of its handler; steps of different operations      *)
(* interleave.  A part of the file holds Nil when it is absent, Old as it  *)
(* was at the start, or the operation that wrote it; what the routes make  *)
(* of the values in a body is in ConfigValues.                             *)
(***************************************************************************)
EXTENDS Naturals, FiniteSets

CONSTANTS
    Op,              (* operations that can be in progress                 *)
    Token,           (* sync tokens                                        *)
    Age(_),          (* their order of creation                            *)
    Nil,             (* an absent part; no operation                       *)
    Old              (* a part as it was at the start                      *)

(* What a primary sends to its replicas, and the sections in all.          *)
Synced == {"blocklists", "upstreams", "local_records", "response",
           "safe_search", "clients"}
Section == Synced \cup {"system", "logging", "webhooks"}

(* sync.role and sync.enabled; "off" is a disabled primary.                *)
Role == {"off", "primary", "replica", "replica off"}
Part == Section \cup {"sync"} \cup Token
Value == Op \cup Role \cup {Nil, Old}

ASSUME TokenAssumption == /\ IsFiniteSet(Token)
                          /\ Token \cap (Section \cup {"sync"}) = {}
                          /\ \A t \in Token : Age(t) \in Nat
                          /\ \A t, u \in Token : Age(t) = Age(u) => t = u
ASSUME NilAssumption == Nil \notin Op \cup Role

(* The routes that ask first whether this is a replica, the others, and    *)
(* the writes of the DNS service.                                          *)
Asking == {"system", "blocklists", "upstreams", "local_records", "response",
           "safe_search"}
Web == Asking \cup {"import", "webhooks", "log_level", "token_create",
                    "token_revoke", "sync_settings", "sync_config"}
Dns == {"touch", "pull"}

VARIABLES
    file,     (* the file's content, or what it was before it was emptied  *)
    torn,     (* the writer that has emptied it and not written it, or Nil *)
    pc,       (* where each operation is                                   *)
    kind,     (* what it is                                                *)
    index,    (* the index a revocation sends                              *)
    parts,    (* the parts the operation is about                          *)
    doc,      (* the new content it has prepared                           *)
    running,  (* what the DNS service has loaded of each section           *)
    role,     (* the role the DNS service was started in                   *)
    shown,    (* the token beside the button of a revocation (history)     *)
    stale,    (* parts changed since an operation read the file (history)  *)
    gone,     (* parts of a save that others have undone (history)         *)
    left,     (* tokens that have left the file, and who wrote it then     *)
              (* (history)                                                 *)
    blind,    (* somebody has read the emptied file (history)              *)
    calm      (* so far no import, no failed role check, no change of role *)
              (* under another operation (history)                         *)

opVars == <<pc, kind, index, parts, doc>>
history == <<shown, stale, gone, left, blind, calm>>
vars == <<file, torn, opVars, running, role, history>>

Empty == [p \in Part |-> Nil]
open == {o \in Op : pc[o] \in {"write", "rename", "fill"}}
Written == {o \in Op : pc[o] \in {"reply", "saved", "applied"}}
Ended == {"idle", "refused", "failed", "lost", "saved", "applied"}
Acked == {o \in Op : pc[o] \in {"saved", "applied"}}
Tokens(c) == {t \in Token : c[t] # Nil}
IsReplica(c) == c["sync"] = "replica"

Init ==
    /\ \E r \in Role, ts \in SUBSET Token :
          file = [p \in Part |-> IF p = "sync" THEN r
                                 ELSE IF p \in Section \cup ts THEN Old ELSE Nil]
    /\ torn = Nil
    /\ pc = [o \in Op |-> "idle"]
    /\ kind = [o \in Op |-> "none"]
    /\ index = [o \in Op |-> 0]
    /\ parts = [o \in Op |-> {}]
    /\ doc = [o \in Op |-> Empty]
    /\ running = [s \in Section |-> Old]
    /\ role = file["sync"]
    /\ shown = [o \in Op |-> Nil]
    /\ stale = [o \in Op |-> {}]
    /\ gone = [o \in Op |-> {}]
    /\ left = {}
    /\ blind = FALSE
    /\ calm = TRUE

(* readYamlFile: no file, and an empty one, are an empty configuration.    *)
Content == IF torn = Nil THEN file ELSE Empty
Look == blind' = (blind \/ torn # Nil)

Goto(o, step) == pc' = [pc EXCEPT ![o] = step]

-----------------------------------------------------------------------------
(* A request comes in.                                                     *)
Receive(o, k) ==
    /\ pc[o] = "idle"
    /\ k \in Web \ {"token_revoke"}
    /\ kind' = [kind EXCEPT ![o] = k]
    /\ Goto(o, IF k \in Asking THEN "check" ELSE "read")
    /\ UNCHANGED <<file, torn, index, parts, doc, running, role, history>>

(* The Sync page has the list of GET /api/sync/status, and sends the index *)
(* that a token has in it.                                                 *)
ReceiveRevoke(o, t) ==
    /\ pc[o] = "idle"
    /\ t \in Tokens(Content)
    /\ kind' = [kind EXCEPT ![o] = "token_revoke"]
    /\ index' = [index EXCEPT ![o] = Cardinality({u \in Tokens(Content) : Age(u) < Age(t)})]
    /\ shown' = [shown EXCEPT ![o] = t]
    /\ Goto(o, "read")
    /\ UNCHANGED <<file, torn, parts, doc, running, role, stale, gone, left, blind, calm>>

(* The body is not valid or does not fit the role (400), or a file cannot  *)
(* be read or parsed (500).                                                *)
Reject(o) ==
    /\ pc[o] \in {"check", "read"}
    /\ Goto(o, "refused")
    /\ UNCHANGED <<file, torn, kind, index, parts, doc, running, role, history>>

(* PUT /api/system/config: a replica keeps its clients and client groups.  *)
CheckSystem(o) ==
    /\ pc[o] = "check"
    /\ kind[o] = "system"
    /\ parts' = [parts EXCEPT ![o] = {"system", "logging"} \cup
                    IF IsReplica(Content) THEN {} ELSE {"clients"}]
    /\ Goto(o, "read")
    /\ Look
    /\ UNCHANGED <<file, torn, kind, index, doc, running, role, shown, stale, gone, left, calm>>

(* Mutant of CheckReplica: the role is not asked for.                      *)
CheckReplicaSkipped(o) ==
    /\ pc[o] = "check"
    /\ kind[o] \in Asking \ {"system"}
    /\ Goto(o, "read")
    /\ UNCHANGED <<file, torn, kind, index, parts, doc, running, role, history>>

(* The routes of what is synced refuse to change it on a replica (403);    *)
(* when the configuration cannot be read, they take it for empty.          *)
CheckReplica(o) ==
    /\ pc[o] = "check"
    /\ kind[o] \in Asking \ {"system"}
    /\ \/ /\ Goto(o, IF IsReplica(Content) THEN "refused" ELSE "read")
          /\ Look
          /\ UNCHANGED calm
       \/ Goto(o, "read") /\ calm' = FALSE /\ UNCHANGED blind
    /\ UNCHANGED <<file, torn, kind, index, parts, doc, running, role, shown, stale, gone, left>>

-----------------------------------------------------------------------------
(* readOverrideConfig, and what each route makes of what it has read: the  *)
(* new content c, for the parts ps.                                        *)
Prepare(o, ps, c) ==
    /\ parts' = [parts EXCEPT ![o] = ps]
    /\ doc' = [doc EXCEPT ![o] = c]
    /\ stale' = [stale EXCEPT ![o] = IF torn = Nil THEN {} ELSE Part]
    /\ Goto(o, "write")
    /\ Look
    /\ UNCHANGED <<file, torn, kind, index, running, role, shown, gone, left>>

Replaced(o, ps) == [p \in Part |-> IF p \in ps THEN o ELSE Content[p]]

Reads(o, k) == pc[o] = "read" /\ kind[o] = k

PutSystemConfig(o) ==
    /\ Reads(o, "system")
    /\ Prepare(o, parts[o], Replaced(o, parts[o]))
    /\ UNCHANGED calm

PutLocalRecords(o) ==
    /\ Reads(o, "local_records")
    /\ Prepare(o, {"local_records"}, Replaced(o, {"local_records"}))
    /\ UNCHANGED calm

PutUpstreams(o) ==
    /\ Reads(o, "upstreams")
    /\ Prepare(o, {"upstreams"}, Replaced(o, {"upstreams"}))
    /\ UNCHANGED calm

PutResponse(o) ==
    /\ Reads(o, "response")
    /\ Prepare(o, {"response"}, Replaced(o, {"response"}))
    /\ UNCHANGED calm

PutSafeSearch(o) ==
    /\ Reads(o, "safe_search")
    /\ Prepare(o, {"safe_search"}, Replaced(o, {"safe_search"}))
    /\ UNCHANGED calm

(* Mutant of PutBlocklists: the file is written with this section alone.   *)
PutBlocklistsAlone(o) ==
    /\ Reads(o, "blocklists")
    /\ Prepare(o, {"blocklists"}, [Empty EXCEPT !["blocklists"] = o])
    /\ UNCHANGED calm

PutBlocklists(o) ==
    /\ Reads(o, "blocklists")
    /\ Prepare(o, {"blocklists"}, Replaced(o, {"blocklists"}))
    /\ UNCHANGED calm

PutWebhooks(o) ==
    /\ Reads(o, "webhooks")
    /\ Prepare(o, {"webhooks"}, Replaced(o, {"webhooks"}))
    /\ UNCHANGED calm

(* Mutant of PutLogLevel: the sections are written as the service has them. *)
PutLogLevelLoaded(o) ==
    /\ Reads(o, "log_level")
    /\ Prepare(o, {"logging"}, [p \in Part |-> IF p = "logging" THEN o
                                  ELSE IF p \in Section THEN running[p] ELSE Content[p]])
    /\ UNCHANGED calm

PutLogLevel(o) ==
    /\ Reads(o, "log_level")
    /\ Prepare(o, {"logging"}, Replaced(o, {"logging"}))
    /\ UNCHANGED calm

(* POST /api/config/import: a section or everything an export holds.  It   *)
(* does not ask for the role.                                              *)
ImportConfig(o) ==
    /\ Reads(o, "import")
    /\ \E ps \in {Section, {"blocklists"}} : Prepare(o, ps, Replaced(o, ps))
    /\ calm' = FALSE

(* POST /api/sync/tokens: the list grows at its end, and sync is switched  *)
(* on as a primary's.                                                      *)
PostToken(o) ==
    /\ Reads(o, "token_create")
    /\ Content["sync"] \in {"off", "primary", Nil}
    /\ \E t \in Token :
          /\ \A u \in Token : Age(u) >= Age(t) =>
                file[u] = Nil /\ \A q \in Op : u \notin parts[q] /\ <<u, q>> \notin left
          /\ Prepare(o, {"sync", t},
                     [Content EXCEPT !["sync"] = "primary", ![t] = o])
    /\ UNCHANGED calm

(* Mutant of DeleteToken: the index of the next token.                     *)
DeleteTokenOffByOne(o) ==
    /\ Reads(o, "token_revoke")
    /\ Content["sync"] \in {"off", "primary", Nil}
    /\ \E t \in Tokens(Content) :
          /\ Cardinality({u \in Tokens(Content) : Age(u) <= Age(t)}) = index[o]
          /\ Prepare(o, {t}, [Content EXCEPT ![t] = Nil])
    /\ UNCHANGED calm

(* DELETE /api/sync/tokens/:index: the token at that index in the list as  *)
(* it is now.                                                              *)
DeleteToken(o) ==
    /\ Reads(o, "token_revoke")
    /\ Content["sync"] \in {"off", "primary", Nil}
    /\ \E t \in Tokens(Content) :
          /\ Cardinality({u \in Tokens(Content) : Age(u) < Age(t)}) = index[o]
          /\ Prepare(o, {t}, [Content EXCEPT ![t] = Nil])
    /\ UNCHANGED calm

(* PUT /api/sync/settings: the URL, token and interval of a replica.       *)
PutSyncSettings(o) ==
    /\ Reads(o, "sync_settings")
    /\ Content["sync"] \in {"replica", "replica off"}
    /\ Prepare(o, {}, Content)
    /\ UNCHANGED calm

(* PUT /api/sync/config: any role, on or off.                              *)
PutSyncConfig(o) ==
    /\ Reads(o, "sync_config")
    /\ \E r \in Role : Prepare(o, {"sync"}, [Content EXCEPT !["sync"] = r])
    /\ UNCHANGED calm

-----------------------------------------------------------------------------
(* Every write tells the others what they have missed.                     *)
Changes(os, ps) ==
    /\ stale' = [o \in Op |-> IF o \in os THEN {}
                              ELSE IF o \in open THEN stale[o] \cup ps
                              ELSE stale[o]]
    /\ gone' = [o \in Op |-> IF o \in Written \ os
                             THEN gone[o] \cup (parts[o] \cap ps) ELSE gone[o]]

(* The file now holds what an operation has prepared.                      *)
Replace(o, next) ==
    /\ file' = doc[o]
    /\ torn' = Nil
    /\ Goto(o, next)
    /\ Changes({o}, parts[o] \cup stale[o])
    /\ left' = left \cup ((Tokens(file) \ Tokens(doc[o])) \X {o})
    /\ calm' = (calm /\ (IsReplica(doc[o]) => IsReplica(file) \/ ~\E q \in Op \ {o} :
                                kind[q] \in Asking /\ pc[q] \in {"read", "write", "rename"}))
    /\ UNCHANGED <<kind, index, parts, doc, running, role, shown, blind>>

(* writeConfig: the content goes to a file of another name ...             *)
WriteTmp(o) ==
    /\ pc[o] = "write"
    /\ kind[o] \in Web
    /\ Goto(o, "rename")
    /\ UNCHANGED <<file, torn, kind, index, parts, doc, running, role, history>>

(* ... which then takes the name of the override file.                     *)
Rename(o) ==
    /\ pc[o] = "rename"
    /\ Replace(o, "reply")

(* Either fails, and the request with it (500).                            *)
WriteFails(o) ==
    /\ pc[o] \in {"write", "rename"}
    /\ kind[o] \in Web
    /\ Goto(o, "failed")
    /\ Changes({o}, {})
    /\ UNCHANGED <<file, torn, kind, index, parts, doc, running, role, shown, left, blind, calm>>

(* { ok: true }, after a cap on Redis keys has been sent on, or has not.   *)
Reply(o) ==
    /\ pc[o] = "reply"
    /\ Goto(o, "saved")
    /\ UNCHANGED <<file, torn, kind, index, parts, doc, running, role, history>>

(* The section that an Apply button makes the DNS service load.            *)
Applies(k) == IF k = "system" THEN "clients" ELSE k

(* Mutant of Apply: the service loads what the page had, not the file.     *)
ApplyWhatWasSent(o) ==
    /\ pc[o] = "saved"
    /\ kind[o] \in Asking
    /\ running' = [running EXCEPT ![Applies(kind[o])] = Old]
    /\ Goto(o, "applied")
    /\ UNCHANGED <<file, torn, kind, index, parts, doc, role, history>>

(* POST .../apply: the DNS service reads the section from the file.  When  *)
(* the request fails (502, 500), the section stays as it was loaded.       *)
Apply(o) ==
    /\ pc[o] = "saved"
    /\ kind[o] \in Asking
    /\ running' = [running EXCEPT ![Applies(kind[o])] = Content[Applies(kind[o])]]
    /\ Goto(o, "applied")
    /\ Look
    /\ UNCHANGED <<file, torn, kind, index, parts, doc, role, shown, stale, gone, left, calm>>
-----------------------------------------------------------------------------
(* The DNS service.  One writer of it at a time, as a bound.               *)
Fetch(o, k) ==
    /\ pc[o] = "idle"
    /\ torn = Nil
    /\ ~\E q \in open : kind[q] \in Dns
    /\ kind' = [kind EXCEPT ![o] = k]
    /\ stale' = [stale EXCEPT ![o] = {}]
    /\ Goto(o, "write")
    /\ UNCHANGED <<file, torn, index, running, role, shown, gone, left, blind, calm>>

(* UpdateTokenLastUsed: the primary notes that a token has been used.      *)
Touch(o) ==
    /\ role = "primary"
    /\ Tokens(file) # {}
    /\ Fetch(o, "touch")
    /\ doc' = [doc EXCEPT ![o] = file]
    /\ UNCHANGED parts

(* mergeAndWrite: the replica takes over what its primary has sent, which  *)
(* may leave out the clients.                                              *)
Pull(o) ==
    /\ role = "replica"
    /\ Fetch(o, "pull")
    /\ \E ps \in {Synced, Synced \ {"clients"}} :
          /\ parts' = [parts EXCEPT ![o] = ps]
          /\ doc' = [doc EXCEPT ![o] = [p \in Part |-> IF p \in ps THEN o ELSE file[p]]]

(* os.WriteFile: the file is emptied ...                                   *)
Truncate(o) ==
    /\ pc[o] = "write"
    /\ kind[o] \in Dns
    /\ torn = Nil
    /\ torn' = o
    /\ Goto(o, "fill")
    /\ UNCHANGED <<file, kind, index, parts, doc, running, role, history>>

(* ... and written, or what is written is no longer the override file,     *)
(* because a route has put another in its place.                           *)
Fill(o) ==
    /\ pc[o] = "fill"
    /\ IF torn = o THEN Replace(o, "reply")
       ELSE /\ Goto(o, "lost")
            /\ Changes({o}, {})
            /\ UNCHANGED <<file, torn, kind, index, parts, doc, running, role, shown,
                           left, blind, calm>>

Dies(ks) ==
    LET os == {o \in Op : kind[o] \in ks /\ pc[o] \notin Ended}
    IN  /\ pc' = [o \in Op |-> IF o \in os THEN "lost" ELSE pc[o]]
        /\ IF torn \in os
           THEN /\ file' = Empty
                /\ torn' = Nil
                /\ left' = left \cup (Tokens(file) \X {torn})
                /\ Changes(os, Part)
           ELSE UNCHANGED <<file, torn, left>> /\ Changes(os, {})

(* POST /api/restart, or a crash, ends every request of the web server.    *)
WebRestart ==
    /\ Dies(Web)
    /\ UNCHANGED <<kind, index, parts, doc, running, role, shown, blind, calm>>

(* The DNS service ends, a write of it perhaps half done, and starts again *)
(* with what the file then holds.                                          *)
DnsRestart ==
    /\ Dies(Dns)
    /\ running' = [s \in Section |-> file'[s]]
    /\ role' = file'["sync"]
    /\ UNCHANGED <<kind, index, parts, doc, shown, blind, calm>>

-----------------------------------------------------------------------------
ReadStep(o) ==
    \/ PutSystemConfig(o) \/ PutLocalRecords(o) \/ PutUpstreams(o)
    \/ PutResponse(o) \/ PutSafeSearch(o) \/ PutBlocklists(o)
    \/ PutWebhooks(o) \/ PutLogLevel(o) \/ ImportConfig(o)
    \/ PostToken(o) \/ DeleteToken(o) \/ PutSyncSettings(o) \/ PutSyncConfig(o)

Next ==
    \/ \E o \in Op : \/ \E k \in Web : Receive(o, k)
                     \/ \E t \in Token : ReceiveRevoke(o, t)
                     \/ Reject(o) \/ CheckSystem(o) \/ CheckReplica(o)
                     \/ ReadStep(o)
                     \/ WriteTmp(o) \/ Rename(o) \/ WriteFails(o)
                     \/ Reply(o) \/ Apply(o)
                     \/ Touch(o) \/ Pull(o) \/ Truncate(o) \/ Fill(o)
    \/ WebRestart
    \/ DnsRestart

Spec == Init /\ [][Next]_vars
-----------------------------------------------------------------------------
(* Types of the file, of the operations and of what the history records.   *)
TypeOK ==
    /\ file \in [Part -> Value]
    /\ torn \in Op \cup {Nil}
    /\ pc \in [Op -> Ended \cup {"check", "read", "write", "rename", "fill", "reply"}]
    /\ kind \in [Op -> Web \cup Dns \cup {"none"}]
    /\ index \in [Op -> Nat]
    /\ parts \in [Op -> SUBSET Part]
    /\ doc \in [Op -> [Part -> Value]]
    /\ running \in [Section -> Value]
    /\ role \in Role \cup {Nil}
    /\ shown \in [Op -> Token \cup {Nil}]
    /\ stale \in [Op -> SUBSET Part]
    /\ gone \in [Op -> SUBSET Part]
    /\ left \in SUBSET (Token \X Op)
    /\ blind \in BOOLEAN /\ calm \in BOOLEAN
    /\ \A o \in Op : pc[o] = "check" => kind[o] \in Asking
    /\ torn # Nil => pc[torn] = "fill" /\ kind[torn] \in Dns

(* "{ ok: true }": what a request was told is saved stays saved, tokens it *)
(* created or revoked included, until another operation replaces the same  *)
(* part, had read the file before and wrote it after, had read it emptied, *)
(* or died while it was empty.  Nothing else undoes a save.                *)
UpdatesKept ==
    \A o \in Acked : \A p \in parts[o] \ gone[o] : file[p] = doc[o][p]

(* 403 "config is synced from primary": on a replica, what is synced is    *)
(* changed by the pull alone.  A request can take back what a pull wrote   *)
(* while it ran; otherwise it takes an import, a configuration that could  *)
(* not be read or was read empty, or a change of role under a request that *)
(* had asked before.                                                       *)
ReplicaKeepsSynced ==
    [][calm' /\ ~blind' /\ IsReplica(file) /\ IsReplica(file') =>
         \A s \in Synced : file'[s] # file[s] =>
            \E o \in Op : pc'[o] # pc[o] /\ (kind[o] = "pull" \/ s \in stale[o])]_vars

(* Revoke: the token that goes is the one beside the button, unless a      *)
(* token of the list, from the first to that one, has left the file by     *)
(* what somebody else wrote.                                               *)
RevokesShown ==
    \A o \in Acked : kind[o] = "token_revoke" /\ parts[o] # {shown[o]} =>
       \E t \in Token, q \in Op \ {o} : <<t, q>> \in left /\ Age(t) <= Age(shown[o])

(* Apply after save: the DNS service runs what the page saved, unless      *)
(* somebody has undone it or the service has read the file while it was    *)
(* writing it itself.                                                      *)
AppliedRuns ==
    \A o \in Op : pc[o] = "applied" /\ ~blind =>
       LET s == Applies(kind[o])
       IN  s \in parts[o] \ gone[o] => running[s] = o

(* The file keeps the promise of ConfigStore, by way of every handler's    *)
(* steps, the writers in place and the restarts.                           *)
Group == {{}, {"sync"}, Section, Synced, Synced \ {"clients"}, {"system", "logging"},
          {"system", "logging", "clients"}}
         \cup {{s} : s \in Section} \cup {{t} : t \in Token}
         \cup {{"sync", t} : t \in Token}

Claim == [o \in Op |-> IF o \in open THEN parts[o] ELSE {}]
Store == INSTANCE ConfigStore WITH claim <- Claim
StoreSpec == Store!Spec
=============================================================================
