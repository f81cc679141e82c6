---------------------------- MODULE ConfigProofs ----------------------------
(***************************************************************************)
(* Proofs about the configuration, in two parts.                           *)
(*                                                                         *)
(* OverrideFile, for any number of operations and tokens: what was saved   *)
(* is kept, applied saves run, a replica keeps what it got from its        *)
(* primary, and the file implements ConfigStore.                           *)
(*                                                                         *)
(* ConfigValues, for every kind of field, whatever the files and the       *)
(* environment hold and however long the lists are: what a form lets       *)
(* through is taken, comes back as it was sent and changes nothing that    *)
(* was not touched, and an export restores what was exported.              *)
(***************************************************************************)
EXTENDS OverrideFile, ConfigValues, FiniteSetTheorems, WellFoundedInduction, TLAPS

-----------------------------------------------------------------------------
(* The override file, and who writes it when.                              *)

(* Who has not begun is about nothing; who has not read the file, or is    *)
(* done with it, has missed nothing.                                       *)
Fresh == \A o \in Op : pc[o] = "idle" => parts[o] = {}
ClosedMissNothing == \A o \in Op \ open : stale[o] = {}

(* What an operation that has the file open is about is one of the groups. *)
SystemParts ==
    \A o \in Op : pc[o] \in {"read", "write", "rename"} /\ kind[o] = "system" =>
       parts[o] \in {{"system", "logging"}, {"system", "logging", "clients"}}
OpenParts == \A o \in open : parts[o] \in Group

(* What it has prepared is its own where it is about, and the file's       *)
(* outside that and what it has missed.                                    *)
Prepared ==
    \A o \in open : \A p \in Part \ (parts[o] \cup stale[o]) : doc[o][p] = file[p]
OwnParts ==
    \A o \in open \cup Written : kind[o] \in Asking => \A p \in parts[o] : doc[o][p] = o

(* UpdatesKept holds from the moment of the write.                         *)
WrittenKept == \A o \in Written : \A p \in parts[o] \ gone[o] : file[p] = doc[o][p]

(* The role is one of those sync.role and sync.enabled can give.           *)
SyncRole == file["sync"] \in Role \cup {Nil} /\ \A o \in Op : doc[o]["sync"] \in Role \cup {Nil}

AppliedKind == \A o \in Op : pc[o] = "applied" => kind[o] \in Asking

(* On a replica only those that write nothing synced get past the check.   *)
ReplicaHeld ==
    calm /\ ~blind /\ IsReplica(file) =>
       \A o \in Op : kind[o] \in Asking /\ pc[o] \in {"read", "write", "rename"} =>
          kind[o] = "system" /\ "clients" \notin parts[o]
OthersHeld ==
    calm => \A o \in open : kind[o] \notin Asking \cup {"pull"} => parts[o] \cap Synced = {}

IInv == /\ TypeOK
        /\ Fresh /\ ClosedMissNothing
        /\ SystemParts /\ OpenParts /\ SyncRole
        /\ Prepared /\ OwnParts /\ WrittenKept
        /\ AppliedKind /\ AppliedRuns
        /\ ReplicaHeld /\ OthersHeld

-----------------------------------------------------------------------------
(* What the sets of names contain.                                         *)
LEMMA Names ==
    /\ Asking \subseteq Web /\ Web \cap Dns = {} /\ "pull" \notin Web
    /\ "none" \notin Web \cup Dns
    /\ Synced \subseteq Section /\ Section \subseteq Part /\ Token \subseteq Part
    /\ "sync" \in Part /\ "sync" \notin Section
    /\ Op \subseteq Value /\ Role \subseteq Value /\ Nil \in Value /\ Old \in Value
    /\ Nil # "replica"
    /\ Token \cap Section = {}
    /\ \A k \in Asking : Applies(k) \in Section
  BY TokenAssumption, NilAssumption
     DEF Asking, Web, Dns, Synced, Section, Part, Value, Role, Applies

LEMMA Groups ==
    /\ \A W \in Group : W \subseteq Part
    /\ {} \in Group /\ {"sync"} \in Group /\ Section \in Group /\ Synced \in Group
    /\ Synced \ {"clients"} \in Group /\ {"system", "logging"} \in Group
    /\ {"system", "logging", "clients"} \in Group
    /\ \A s \in Section : {s} \in Group
    /\ \A t \in Token : {t} \in Group /\ {"sync", t} \in Group
<1>1. Synced \subseteq Part /\ {"system", "logging", "clients"} \subseteq Part
  BY DEF Synced, Section, Part
<1>2. QED
  BY <1>1, Names DEF Group

LEMMA ContentType == TypeOK => Content \in [Part -> Value] /\ Empty \in [Part -> Value]
  BY Names DEF TypeOK, Content, Empty

LEMMA InitInv == Init => IInv
<1> SUFFICES ASSUME Init PROVE IInv
  OBVIOUS
<1>1. file \in [Part -> Value]
  BY Names DEF Init, Value
<1>2. PICK r \in Role : file["sync"] = r
  <2>1. PICK r \in Role, ts \in SUBSET Token :
          file = [p \in Part |-> IF p = "sync" THEN r
                                 ELSE IF p \in Section \cup ts THEN Old ELSE Nil]
    BY DEF Init
  <2>2. QED
    BY <2>1, Names
<1>3. TypeOK
  BY <1>1, <1>2, ContentType, Names DEF Init, TypeOK, Empty, Ended
<1>a. SyncRole
  BY <1>2, Names DEF Init, SyncRole, Empty
<1>4. open = {} /\ Written = {}
  BY DEF Init, open, Written
<1>5. QED
  BY <1>3, <1>4, <1>a DEF Init, IInv, Fresh, ClosedMissNothing, SystemParts, OpenParts,
       Prepared, OwnParts, WrittenKept, AppliedKind, AppliedRuns, ReplicaHeld, OthersHeld

-----------------------------------------------------------------------------
(* What all routes have in common: they are about one of the groups, leave *)
(* the rest as they have read it, and make what is theirs their own.       *)
Prepares(o, ps, c) ==
    /\ pc[o] = "read" /\ kind[o] \in Web
    /\ ps \in Group /\ c \in [Part -> Value] /\ c["sync"] \in Role \cup {Nil}
    /\ \A p \in Part \ ps : c[p] = Content[p]
    /\ kind[o] \in Asking => \A p \in ps : c[p] = o
    /\ kind[o] = "system" => ps = parts[o]
    /\ Prepare(o, ps, c)
    /\ calm' \in BOOLEAN /\ (calm' => calm)
    /\ calm' /\ kind[o] \notin Asking => ps \cap Synced = {}

LEMMA ContentSync == SyncRole => Content["sync"] \in Role \cup {Nil}
  BY Names DEF SyncRole, Content, Empty

LEMMA PreparesReplaced ==
    ASSUME TypeOK, SyncRole, NEW o \in Op, NEW ps \in Group, "sync" \notin ps,
           pc[o] = "read", kind[o] \in Web,
           Prepare(o, ps, Replaced(o, ps)),
           kind[o] = "system" => ps = parts[o],
           calm' \in BOOLEAN, calm' => calm,
           calm' /\ kind[o] \notin Asking => ps \cap Synced = {}
    PROVE  \E qs, c : Prepares(o, qs, c)
<1>1. /\ Replaced(o, ps) \in [Part -> Value]
      /\ \A p \in Part \ ps : Replaced(o, ps)[p] = Content[p]
      /\ \A p \in ps : Replaced(o, ps)[p] = o
      /\ Replaced(o, ps)["sync"] = Content["sync"]
  BY ContentType, Names, Groups DEF Replaced
<1>2. Prepares(o, ps, Replaced(o, ps))
  BY <1>1, ContentSync DEF Prepares
<1>3. QED
  BY <1>2

LEMMA ReadStepsPrepare ==
    ASSUME TypeOK, SyncRole, SystemParts, NEW o \in Op, ReadStep(o)
    PROVE  \E ps, c : Prepares(o, ps, c)
<1>0. calm \in BOOLEAN
  BY DEF TypeOK
<1>1. CASE PutSystemConfig(o)
  <2>1. parts[o] \in Group /\ "sync" \notin parts[o]
    <3>1. parts[o] \in {{"system", "logging"}, {"system", "logging", "clients"}}
      BY <1>1 DEF PutSystemConfig, Reads, SystemParts
    <3>2. QED
      BY <3>1, Groups
  <2>2. QED
    BY <1>0, <1>1, <2>1, PreparesReplaced DEF PutSystemConfig, Reads, Asking, Web
<1>2. CASE PutLocalRecords(o)
  BY <1>0, <1>2, Groups, PreparesReplaced DEF PutLocalRecords, Reads, Asking, Web, Section, Synced
<1>3. CASE PutUpstreams(o)
  BY <1>0, <1>3, Groups, PreparesReplaced DEF PutUpstreams, Reads, Asking, Web, Section, Synced
<1>4. CASE PutResponse(o)
  BY <1>0, <1>4, Groups, PreparesReplaced DEF PutResponse, Reads, Asking, Web, Section, Synced
<1>5. CASE PutSafeSearch(o)
  BY <1>0, <1>5, Groups, PreparesReplaced DEF PutSafeSearch, Reads, Asking, Web, Section, Synced
<1>6. CASE PutBlocklists(o)
  BY <1>0, <1>6, Groups, PreparesReplaced DEF PutBlocklists, Reads, Asking, Web, Section, Synced
<1>7. CASE PutWebhooks(o)
  BY <1>0, <1>7, Groups, PreparesReplaced DEF PutWebhooks, Reads, Asking, Web, Section, Synced
<1>8. CASE PutLogLevel(o)
  BY <1>0, <1>8, Groups, PreparesReplaced DEF PutLogLevel, Reads, Asking, Web, Section, Synced
<1>9. CASE ImportConfig(o)
  <2>1. PICK ps \in {Section, {"blocklists"}} : Prepare(o, ps, Replaced(o, ps))
    BY <1>9 DEF ImportConfig
  <2>2. ps \in Group /\ "sync" \notin ps
    BY <2>1, Groups DEF Section, Synced
  <2>3. QED
    BY <1>9, <2>1, <2>2, PreparesReplaced DEF ImportConfig, Reads, Web
<1>10. CASE PostToken(o)
  <2> DEFINE with(t) == [Content EXCEPT !["sync"] = "primary", ![t] = o]
  <2>1. PICK t \in Token : Prepare(o, {"sync", t}, with(t))
    BY <1>10 DEF PostToken
  <2>2. /\ with(t) \in [Part -> Value]
        /\ \A p \in Part \ {"sync", t} : with(t)[p] = Content[p]
        /\ with(t)["sync"] \in Role \cup {Nil}
    BY ContentType, Names, TokenAssumption DEF Role
  <2>3. {"sync", t} \cap Synced = {}
    BY Names
  <2>4. kind[o] = "token_create" /\ kind[o] \in Web \ Asking /\ pc[o] = "read"
    BY <1>10 DEF PostToken, Reads, Web, Asking
  <2>5. Prepares(o, {"sync", t}, with(t))
    BY <1>0, <1>10, <2>1, <2>2, <2>3, <2>4, Groups DEF PostToken, Prepares
  <2>6. QED
    BY <2>5
<1>11. CASE DeleteToken(o)
  <2> DEFINE without(t) == [Content EXCEPT ![t] = Nil]
  <2>1. PICK t \in Token : Prepare(o, {t}, without(t))
    BY <1>11 DEF DeleteToken, Tokens
  <2>2. /\ without(t) \in [Part -> Value]
        /\ \A p \in Part \ {t} : without(t)[p] = Content[p]
        /\ without(t)["sync"] \in Role \cup {Nil}
    BY ContentType, ContentSync, Names
  <2>3. {t} \cap Synced = {}
    BY Names
  <2>4. kind[o] = "token_revoke" /\ kind[o] \in Web \ Asking /\ pc[o] = "read"
    BY <1>11 DEF DeleteToken, Reads, Web, Asking
  <2>5. Prepares(o, {t}, without(t))
    BY <1>0, <1>11, <2>1, <2>2, <2>3, <2>4, Groups DEF DeleteToken, Prepares
  <2>6. QED
    BY <2>5
<1>12. CASE PutSyncSettings(o)
  <2>1. kind[o] = "sync_settings" /\ kind[o] \in Web \ Asking
    BY <1>12 DEF PutSyncSettings, Reads, Web, Asking
  <2>2. Prepares(o, {}, Content)
    BY <1>0, <1>12, <2>1, Groups, ContentType, ContentSync DEF PutSyncSettings, Reads, Prepares
  <2>3. QED
    BY <2>2
<1>13. CASE PutSyncConfig(o)
  <2> DEFINE as(r) == [Content EXCEPT !["sync"] = r]
  <2>1. PICK r \in Role : Prepare(o, {"sync"}, as(r))
    BY <1>13 DEF PutSyncConfig
  <2>2. /\ as(r) \in [Part -> Value]
        /\ \A p \in Part \ {"sync"} : as(r)[p] = Content[p]
        /\ as(r)["sync"] \in Role \cup {Nil}
    BY ContentType, Names
  <2>3. {"sync"} \cap Synced = {}
    BY Names
  <2>4. kind[o] = "sync_config" /\ kind[o] \in Web \ Asking /\ pc[o] = "read"
    BY <1>13 DEF PutSyncConfig, Reads, Web, Asking
  <2>5. Prepares(o, {"sync"}, as(r))
    BY <1>0, <1>13, <2>1, <2>2, <2>3, <2>4, Groups DEF PutSyncConfig, Prepares
  <2>6. QED
    BY <2>5
<1>14. QED
  BY <1>1, <1>2, <1>3, <1>4, <1>5, <1>6, <1>7, <1>8, <1>9, <1>10, <1>11, <1>12, <1>13
     DEF ReadStep

-----------------------------------------------------------------------------
(* Reading opens the file.                                                 *)
LEMMA PrepareOpens ==
    ASSUME TypeOK, NEW o \in Op, NEW ps, NEW c, Prepares(o, ps, c)
    PROVE  /\ o \notin open /\ o \notin Written
           /\ open' = open \cup {o} /\ Written' = Written
           /\ pc' = [pc EXCEPT ![o] = "write"]
           /\ parts' = [parts EXCEPT ![o] = ps] /\ doc' = [doc EXCEPT ![o] = c]
           /\ stale' = [stale EXCEPT ![o] = IF torn = Nil THEN {} ELSE Part]
           /\ UNCHANGED <<file, torn, kind, index, running, role, shown, gone, left>>
           /\ blind' = (blind \/ torn # Nil)
  BY DEF TypeOK, Prepares, Prepare, Goto, Look, open, Written

LEMMA PrepareKeeps ==
    ASSUME IInv, NEW o \in Op, NEW ps, NEW c, Prepares(o, ps, c)
    PROVE  IInv'
<1>a. /\ o \notin open /\ o \notin Written
      /\ open' = open \cup {o} /\ Written' = Written
      /\ pc' = [pc EXCEPT ![o] = "write"]
      /\ parts' = [parts EXCEPT ![o] = ps] /\ doc' = [doc EXCEPT ![o] = c]
      /\ stale' = [stale EXCEPT ![o] = IF torn = Nil THEN {} ELSE Part]
      /\ UNCHANGED <<file, torn, kind, index, running, role, shown, gone, left>>
      /\ blind' = (blind \/ torn # Nil)
  BY PrepareOpens DEF IInv
<1>b. /\ pc[o] = "read" /\ kind[o] \in Web
      /\ ps \in Group /\ ps \subseteq Part
      /\ c \in [Part -> Value] /\ c["sync"] \in Role \cup {Nil}
      /\ \A p \in Part \ ps : c[p] = Content[p]
      /\ kind[o] \in Asking => \A p \in ps : c[p] = o
      /\ kind[o] = "system" => ps = parts[o]
      /\ calm' \in BOOLEAN /\ (calm' => calm)
      /\ calm' /\ kind[o] \notin Asking => ps \cap Synced = {}
  BY Groups DEF Prepares
<1>c. \A q \in open \cup Written : q \in Op /\ q # o
  BY <1>a DEF open, Written
<1>1. TypeOK' /\ SyncRole'
  BY <1>a, <1>b, Names DEF IInv, TypeOK, SyncRole
<1>2. Fresh' /\ SystemParts' /\ AppliedKind'
  BY <1>a, <1>b DEF IInv, TypeOK, Fresh, SystemParts, AppliedKind
<1>3. ClosedMissNothing' /\ OpenParts'
  BY <1>a, <1>b, <1>c DEF IInv, TypeOK, ClosedMissNothing, OpenParts
<1>4. Prepared'
  <2>1. \A p \in Part \ (parts'[o] \cup stale'[o]) : doc'[o][p] = file'[p]
    BY <1>a, <1>b DEF IInv, TypeOK, Content
  <2>2. QED
    BY <1>a, <1>c, <2>1 DEF IInv, TypeOK, Prepared
<1>5. OwnParts' /\ WrittenKept'
  BY <1>a, <1>b, <1>c DEF IInv, TypeOK, OwnParts, WrittenKept
<1>6. AppliedRuns'
  <2>1. \A q \in Op : pc'[q] = "applied" /\ ~blind' =>
           pc[q] = "applied" /\ ~blind /\ parts'[q] = parts[q]
    BY <1>a DEF IInv, TypeOK
  <2>2. QED
    BY <1>a, <2>1 DEF IInv, AppliedRuns
<1>7. ReplicaHeld'
  <2>1. \A q \in Op : pc'[q] \in {"read", "write", "rename"} =>
           pc[q] \in {"read", "write", "rename"} /\ (kind[q] = "system" => parts'[q] = parts[q])
    BY <1>a, <1>b DEF IInv, TypeOK
  <2>2. QED
    BY <1>a, <1>b, <2>1 DEF IInv, TypeOK, ReplicaHeld
<1>8. OthersHeld'
  BY <1>a, <1>b, <1>c DEF IInv, TypeOK, OthersHeld
<1>9. QED
  BY <1>1, <1>2, <1>3, <1>4, <1>5, <1>6, <1>7, <1>8 DEF IInv

(* A step of one operation that neither opens nor closes the file, nor     *)
(* writes it.                                                              *)
Quiet(o) ==
    /\ o \notin open /\ o \notin open'
    /\ \A q \in Op \ {o} : pc'[q] = pc[q] /\ kind'[q] = kind[q] /\ parts'[q] = parts[q]
    /\ UNCHANGED <<file, torn, doc, stale, gone, left>>

LEMMA QuietKeeps ==
    ASSUME IInv, NEW o \in Op, Quiet(o)
    PROVE  /\ open' = open
           /\ ClosedMissNothing' /\ OpenParts' /\ Prepared'
           /\ (calm' => calm) => OthersHeld'
           /\ (Written' \subseteq Written /\ UNCHANGED kind
                 /\ (o \in Written => parts'[o] = parts[o])
               => OwnParts' /\ WrittenKept')
<1>1. \A q \in Op \ {o} : q \in open' <=> q \in open
  BY DEF Quiet, open
<1>2. open \subseteq Op /\ open' \subseteq Op /\ Written \subseteq Op
  BY DEF open, Written
<1>3. open' = open
  BY <1>1, <1>2 DEF Quiet
<1>4. QED
  BY <1>2, <1>3 DEF IInv, Quiet, ClosedMissNothing, OpenParts, Prepared, OthersHeld,
       OwnParts, WrittenKept

LEMMA ReceiveKeeps ==
    ASSUME IInv, NEW o \in Op,
           \/ \E k \in Web : Receive(o, k)
           \/ \E t \in Token : ReceiveRevoke(o, t)
    PROVE  IInv' /\ Quiet(o) /\ o \notin Written /\ UNCHANGED <<parts, calm>>
<1>1. /\ pc[o] = "idle"
      /\ pc' = [pc EXCEPT ![o] = pc'[o]] /\ pc'[o] \in {"check", "read"}
      /\ kind' = [kind EXCEPT ![o] = kind'[o]] /\ kind'[o] \in Web
      /\ pc'[o] = "check" => kind'[o] \in Asking
      /\ pc'[o] = "read" => kind'[o] \notin Asking
      /\ UNCHANGED <<file, torn, parts, doc, running, role, stale, gone, left, blind, calm>>
      /\ index' \in [Op -> Nat] /\ shown' \in [Op -> Token \cup {Nil}]
  <2>1. CASE \E k \in Web : Receive(o, k)
    BY <2>1 DEF IInv, TypeOK, Receive, Goto, history
  <2>2. CASE \E t \in Token : ReceiveRevoke(o, t)
    <3>1. PICK t \in Token : ReceiveRevoke(o, t)
      BY <2>2
    <3>2. Cardinality({u \in Tokens(Content) : Age(u) < Age(t)}) \in Nat
      <4>1. IsFiniteSet({u \in Tokens(Content) : Age(u) < Age(t)})
        BY TokenAssumption, FS_Subset DEF Tokens
      <4>2. QED
        BY <4>1, FS_CardinalityType
    <3>3. "token_revoke" \in Web \ Asking
      BY DEF Web, Asking
    <3>4. QED
      BY <3>1, <3>2, <3>3 DEF IInv, TypeOK, ReceiveRevoke, Goto
  <2>3. QED
    BY <2>1, <2>2
<1>2. Quiet(o) /\ o \notin Written /\ Written' \subseteq Written
  <2>1. \A q \in Op \ {o} : pc'[q] = pc[q] /\ kind'[q] = kind[q]
    BY <1>1 DEF IInv, TypeOK
  <2>2. QED
    BY <1>1, <2>1 DEF Quiet, open, Written
<1>3. TypeOK' /\ SyncRole'
  <2>1. pc' \in [Op -> Ended \cup {"check", "read", "write", "rename", "fill", "reply"}]
    BY <1>1 DEF IInv, TypeOK
  <2>2. kind' \in [Op -> Web \cup Dns \cup {"none"}]
    BY <1>1 DEF IInv, TypeOK
  <2>3. torn # Nil => torn # o
    BY <1>1 DEF IInv, TypeOK
  <2>4. QED
    BY <1>1, <2>1, <2>2, <2>3 DEF IInv, TypeOK, SyncRole
<1>5. Fresh' /\ SystemParts' /\ AppliedKind'
  BY <1>1 DEF IInv, TypeOK, Fresh, SystemParts, AppliedKind, Asking
<1>6. OwnParts' /\ WrittenKept'
  <2>1. open' = open /\ Written' = Written /\ \A q \in open \cup Written : q \in Op /\ q # o
    BY <1>1, <1>2, QuietKeeps DEF IInv, TypeOK, open, Written
  <2>2. QED
    BY <1>1, <2>1 DEF IInv, TypeOK, OwnParts, WrittenKept
<1>7. AppliedRuns'
  <2>1. \A q \in Op : pc'[q] = "applied" => q # o /\ pc[q] = "applied" /\ kind'[q] = kind[q]
    BY <1>1 DEF IInv, TypeOK
  <2>2. QED
    BY <1>1, <2>1 DEF IInv, AppliedRuns
<1>8. ReplicaHeld'
  <2>1. \A q \in Op : kind'[q] \in Asking /\ pc'[q] \in {"read", "write", "rename"} =>
           q # o /\ kind'[q] = kind[q] /\ pc'[q] = pc[q]
    BY <1>1 DEF IInv, TypeOK
  <2>2. QED
    BY <1>1, <2>1 DEF IInv, ReplicaHeld
<1>9. QED
  BY <1>1, <1>2, <1>3, <1>5, <1>6, <1>7, <1>8, QuietKeeps DEF IInv

LEMMA CheckKeeps ==
    ASSUME IInv, NEW o \in Op, Reject(o) \/ CheckSystem(o) \/ CheckReplica(o)
    PROVE  IInv' /\ Quiet(o) /\ o \notin Written
<1>1. /\ pc[o] \in {"check", "read"}
      /\ pc' \in {[pc EXCEPT ![o] = "refused"], [pc EXCEPT ![o] = "read"]}
      /\ parts' = parts \/ (kind[o] = "system" /\ \E ps \in {{"system", "logging"},
              {"system", "logging", "clients"}} : parts' = [parts EXCEPT ![o] = ps])
      /\ kind[o] = "system" /\ pc'[o] = "read" => \E ps \in {{"system", "logging"},
              {"system", "logging", "clients"}} : parts' = [parts EXCEPT ![o] = ps]
      /\ UNCHANGED <<file, torn, kind, index, doc, running, role, shown, stale, gone, left>>
      /\ blind' = blind \/ blind' = (blind \/ torn # Nil)
      /\ calm' = calm \/ calm' = FALSE
  <2>1. CASE Reject(o)
    BY <2>1 DEF IInv, TypeOK, Reject, Goto, history
  <2>2. CASE CheckSystem(o)
    <3>1. /\ {"system", "logging"} \cup {} = {"system", "logging"}
          /\ {"system", "logging"} \cup {"clients"} = {"system", "logging", "clients"}
      OBVIOUS
    <3>2. QED
      BY <2>2, <3>1 DEF IInv, TypeOK, CheckSystem, Goto, Look
  <2>3. CASE CheckReplica(o)
    BY <2>3 DEF IInv, TypeOK, CheckReplica, Goto, Look
  <2>4. QED
    BY <2>1, <2>2, <2>3
<1>2. Quiet(o) /\ o \notin Written /\ Written' \subseteq Written
  BY <1>1 DEF IInv, TypeOK, Quiet, open, Written
<1>3. TypeOK' /\ SyncRole'
  <2>1. {"system", "logging"} \subseteq Part /\ {"system", "logging", "clients"} \subseteq Part
    BY DEF Part, Section, Synced
  <2>2. parts' \in [Op -> SUBSET Part]
    <3>1. parts \in [Op -> SUBSET Part]
      BY DEF IInv, TypeOK
    <3>2. PICK ps \in SUBSET Part : parts' = parts \/ parts' = [parts EXCEPT ![o] = ps]
      BY <1>1, <2>1
    <3>3. QED
      BY <3>1, <3>2
  <2>3. pc' \in [Op -> Ended \cup {"check", "read", "write", "rename", "fill", "reply"}]
    BY <1>1 DEF IInv, TypeOK, Ended
  <2>4. \A q \in Op : pc'[q] = "check" => pc[q] = "check"
    BY <1>1 DEF IInv, TypeOK
  <2>5. torn # Nil => pc'[torn] = "fill"
    BY <1>1 DEF IInv, TypeOK
  <2>6. QED
    BY <1>1, <2>2, <2>3, <2>4, <2>5 DEF IInv, TypeOK, SyncRole
<1>4. Fresh' /\ SystemParts' /\ AppliedKind'
  BY <1>1 DEF IInv, TypeOK, Fresh, SystemParts, AppliedKind
<1>5. OwnParts' /\ WrittenKept'
  BY <1>1, <1>2, QuietKeeps
<1>6. AppliedRuns'
  <2>1. \A q \in Op : pc'[q] = "applied" => pc[q] = "applied" /\ parts'[q] = parts[q]
    BY <1>1 DEF IInv, TypeOK
  <2>2. QED
    BY <1>1, <2>1 DEF IInv, TypeOK, AppliedRuns
<1>7. ReplicaHeld'
  <2>1. CASE Reject(o)
    BY <2>1 DEF IInv, TypeOK, Reject, Goto, history, ReplicaHeld
  <2>2. CASE CheckSystem(o)
    <3>1. ~blind' => Content = file
      BY <2>2 DEF CheckSystem, Look, Content
    <3>2. QED
      BY <2>2, <3>1 DEF IInv, TypeOK, CheckSystem, Goto, Look, ReplicaHeld
  <2>3. CASE CheckReplica(o)
    <3>1. calm' /\ ~blind' => Content = file /\ ~blind
      BY <2>3 DEF CheckReplica, Look, Content
    <3>2. QED
      BY <2>3, <3>1 DEF IInv, TypeOK, CheckReplica, Goto, Look, ReplicaHeld
  <2>4. QED
    BY <2>1, <2>2, <2>3
<1>8. QED
  BY <1>1, <1>2, <1>3, <1>4, <1>5, <1>6, <1>7, QuietKeeps DEF IInv

LEMMA ReplyKeeps ==
    ASSUME IInv, NEW o \in Op, Reply(o) \/ Apply(o)
    PROVE  IInv' /\ Quiet(o) /\ UNCHANGED <<parts, gone, calm>>
<1>1. /\ pc[o] \in {"reply", "saved"}
      /\ pc' = [pc EXCEPT ![o] = pc'[o]] /\ pc'[o] \in {"saved", "applied"}
      /\ UNCHANGED <<file, torn, kind, index, parts, doc, role, shown, stale, gone, left, calm>>
      /\ blind' = blind \/ blind' = (blind \/ torn # Nil)
      /\ running' = running \/ Apply(o)
      /\ pc'[o] = "applied" => kind[o] \in Asking /\ Apply(o)
  BY DEF IInv, TypeOK, Reply, Apply, Goto, history, Look
<1>2. Quiet(o) /\ Written' = Written
  <2>1. \A q \in Op \ {o} : pc'[q] = pc[q]
    BY <1>1 DEF IInv, TypeOK
  <2>2. QED
    BY <1>1, <2>1 DEF Quiet, open, Written
<1>3. TypeOK' /\ SyncRole'
  <2>1. running' \in [Section -> Value]
    BY <1>1, ContentType, Names DEF IInv, TypeOK, Apply
  <2>2. torn # Nil => torn # o
    BY <1>1 DEF IInv, TypeOK
  <2>3. pc' \in [Op -> Ended \cup {"check", "read", "write", "rename", "fill", "reply"}]
    BY <1>1 DEF IInv, TypeOK, Ended
  <2>4. QED
    BY <1>1, <2>1, <2>2, <2>3 DEF IInv, TypeOK, SyncRole
<1>4. Fresh' /\ SystemParts' /\ AppliedKind'
  BY <1>1 DEF IInv, TypeOK, Fresh, SystemParts, AppliedKind
<1>5. OwnParts' /\ WrittenKept'
  BY <1>1, <1>2, QuietKeeps
<1>6. AppliedRuns'
  <2>1. CASE running' = running /\ pc'[o] # "applied"
    <3>1. \A q \in Op : pc'[q] = "applied" => pc[q] = "applied"
      BY <1>1, <2>1 DEF IInv, TypeOK
    <3>2. QED
      BY <1>1, <2>1, <3>1 DEF IInv, TypeOK, AppliedRuns
  <2>2. CASE Apply(o)
    <3> DEFINE s == Applies(kind[o])
    <3>1. SUFFICES ASSUME NEW q \in Op, pc'[q] = "applied", ~blind',
                          Applies(kind[q]) \in parts[q] \ gone[q]
                   PROVE  running'[Applies(kind[q])] = q
      BY <1>1 DEF AppliedRuns
    <3>2. ~blind /\ torn = Nil
      BY <2>2, <3>1 DEF IInv, TypeOK, Apply, Look
    <3>3. running' = [running EXCEPT ![s] = file[s]] /\ s \in Section
      BY <2>2, <3>2, Names DEF Apply, Content
    <3>4. CASE Applies(kind[q]) = s
      <4>1. q \in Written /\ kind[q] \in Asking
        BY <1>1, <3>1 DEF IInv, TypeOK, Written, AppliedKind
      <4>2. file[s] = q
        BY <3>1, <3>4, <4>1 DEF IInv, WrittenKept, OwnParts
      <4>3. QED
        BY <3>3, <3>4, <4>2 DEF IInv, TypeOK
    <3>5. CASE Applies(kind[q]) # s
      <4>1. q # o /\ pc[q] = "applied"
        BY <1>1, <3>1, <3>5 DEF IInv, TypeOK
      <4>2. running'[Applies(kind[q])] = running[Applies(kind[q])]
        BY <3>3, <3>5, <4>1, Names DEF IInv, TypeOK, AppliedKind
      <4>3. QED
        BY <3>1, <3>2, <4>1, <4>2 DEF IInv, AppliedRuns
    <3>6. QED
      BY <3>4, <3>5
  <2>3. QED
    BY <1>1, <2>1, <2>2
<1>7. ReplicaHeld'
  BY <1>1 DEF IInv, TypeOK, ReplicaHeld
<1>8. QED
  BY <1>1, <1>2, <1>3, <1>4, <1>5, <1>6, <1>7, QuietKeeps DEF IInv

(* From "write" on to the step that changes the file.                      *)
LEMMA WriteKeeps ==
    ASSUME IInv, NEW o \in Op, WriteTmp(o) \/ Truncate(o)
    PROVE  /\ IInv' /\ o \in open /\ open' = open
           /\ UNCHANGED <<file, kind, parts, doc, stale>>
           /\ \/ torn' = torn
              \/ torn = Nil /\ torn' = o
<1>1. /\ pc[o] = "write"
      /\ pc' = [pc EXCEPT ![o] = pc'[o]]
      /\ UNCHANGED <<file, kind, index, parts, doc, running, role, history>>
      /\ \/ kind[o] \in Web /\ pc'[o] = "rename" /\ torn' = torn
         \/ kind[o] \in Dns /\ pc'[o] = "fill" /\ torn = Nil /\ torn' = o
  BY DEF IInv, TypeOK, WriteTmp, Truncate, Goto
<1>2. \A q \in Op \ {o} : pc'[q] = pc[q]
  BY <1>1 DEF IInv, TypeOK
<1>3. open' = open /\ o \in open /\ Written' = Written
  BY <1>1, <1>2 DEF open, Written
<1>4. TypeOK'
  <2>1. pc' \in [Op -> Ended \cup {"check", "read", "write", "rename", "fill", "reply"}]
    BY <1>1 DEF IInv, TypeOK
  <2>2. torn' # Nil => pc'[torn'] = "fill" /\ kind[torn'] \in Dns
    BY <1>1, <1>2 DEF IInv, TypeOK
  <2>3. QED
    BY <1>1, <1>2, <2>1, <2>2 DEF IInv, TypeOK, history
<1>5. Fresh' /\ ClosedMissNothing' /\ SystemParts' /\ AppliedKind'
  BY <1>1, <1>2, <1>3 DEF IInv, Fresh, ClosedMissNothing, SystemParts, AppliedKind, history
<1>6. OpenParts' /\ SyncRole' /\ Prepared' /\ OwnParts' /\ WrittenKept' /\ OthersHeld'
  BY <1>1, <1>3 DEF IInv, OpenParts, SyncRole, Prepared, OwnParts, WrittenKept,
       OthersHeld, history
<1>7. AppliedRuns' /\ ReplicaHeld'
  <2>1. AppliedRuns'
    BY <1>1, <1>2 DEF IInv, AppliedRuns, history
  <2>2. ReplicaHeld'
    BY <1>1, <1>2 DEF IInv, ReplicaHeld, IsReplica, history
  <2>3. QED
    BY <2>1, <2>2
<1>8. QED
  <2>1. IInv'
    BY <1>4, <1>5, <1>6, <1>7 DEF IInv
  <2>2. QED
    BY <1>1, <1>3, <2>1 DEF history

(* The DNS service opens the file, and finds it whole.                     *)
LEMMA FetchKeeps ==
    ASSUME IInv, NEW o \in Op, Touch(o) \/ Pull(o)
    PROVE  /\ IInv' /\ torn = Nil /\ o \notin open /\ open' = open \cup {o}
           /\ parts'[o] \in Group
           /\ parts' = [parts EXCEPT ![o] = parts'[o]]
           /\ stale' = [stale EXCEPT ![o] = {}]
           /\ UNCHANGED <<file, torn>>
<1>1. /\ pc[o] = "idle" /\ torn = Nil
      /\ pc' = [pc EXCEPT ![o] = "write"]
      /\ kind' = [kind EXCEPT ![o] = kind'[o]] /\ kind'[o] \in Dns
      /\ stale' = [stale EXCEPT ![o] = {}]
      /\ UNCHANGED <<file, torn, index, running, role, shown, gone, left, blind, calm>>
  BY DEF IInv, TypeOK, Touch, Pull, Fetch, Goto, Dns
<1>2. /\ parts' = [parts EXCEPT ![o] = parts'[o]] /\ parts'[o] \in Group
      /\ doc' = [doc EXCEPT ![o] = doc'[o]] /\ doc'[o] \in [Part -> Value]
      /\ \A p \in Part \ parts'[o] : doc'[o][p] = file[p]
      /\ doc'[o]["sync"] = file["sync"]
      /\ kind'[o] # "pull" => parts'[o] = {}
  <2>1. CASE Touch(o)
    <3>1. parts' = parts /\ parts[o] = {} /\ doc' = [doc EXCEPT ![o] = file]
      BY <1>1, <2>1 DEF IInv, Touch, Fresh
    <3>2. QED
      BY <3>1, Groups DEF IInv, TypeOK
  <2>2. CASE Pull(o)
    <3> DEFINE merged(ps) == [p \in Part |-> IF p \in ps THEN o ELSE file[p]]
    <3>1. PICK ps \in {Synced, Synced \ {"clients"}} :
             parts' = [parts EXCEPT ![o] = ps] /\ doc' = [doc EXCEPT ![o] = merged(ps)]
      BY <2>2 DEF Pull
    <3>2. ps \in Group /\ "sync" \notin ps
      BY <3>1, Groups, Names
    <3>3. merged(ps) \in [Part -> Value] /\ merged(ps)["sync"] = file["sync"]
      BY <3>2, Names DEF IInv, TypeOK
    <3>4. kind'[o] = "pull"
      BY <2>2 DEF IInv, TypeOK, Pull, Fetch
    <3>5. QED
      BY <3>1, <3>2, <3>3, <3>4 DEF IInv, TypeOK
  <2>3. QED
    BY <2>1, <2>2
<1>3. \A q \in Op \ {o} : pc'[q] = pc[q] /\ kind'[q] = kind[q] /\ parts'[q] = parts[q]
                         /\ doc'[q] = doc[q] /\ stale'[q] = stale[q]
  BY <1>1, <1>2 DEF IInv, TypeOK
<1>a. /\ pc'[o] = "write" /\ stale'[o] = {}
      /\ kind'[o] \notin Asking /\ kind'[o] # "system"
  BY <1>1, Names DEF IInv, TypeOK, Asking
<1>4. /\ o \notin open /\ open' = open \cup {o} /\ Written' = Written /\ o \notin Written
      /\ open \subseteq Op /\ Written \subseteq Op
  BY <1>1, <1>3, <1>a DEF open, Written
<1>5. TypeOK'
  <2>1. torn' = Nil
    BY <1>1
  <2>2. parts'[o] \subseteq Part
    BY <1>2, Groups
  <2>3. QED
    BY <1>1, <1>2, <2>1, <2>2 DEF IInv, TypeOK
<1>6. Fresh' /\ ClosedMissNothing' /\ SystemParts' /\ AppliedKind'
  BY <1>3, <1>a, <1>4 DEF IInv, Fresh, ClosedMissNothing, SystemParts, AppliedKind
<1>7. OpenParts' /\ SyncRole' /\ Prepared' /\ OthersHeld'
  BY <1>1, <1>2, <1>3, <1>a, <1>4 DEF IInv, OpenParts, SyncRole, Prepared, OthersHeld
<1>8. OwnParts' /\ WrittenKept'
  BY <1>1, <1>3, <1>a, <1>4 DEF IInv, OwnParts, WrittenKept
<1>9. AppliedRuns'
  BY <1>1, <1>3, <1>a DEF IInv, AppliedRuns
<1>10. ReplicaHeld'
  BY <1>1, <1>3, <1>a DEF IInv, ReplicaHeld, IsReplica
<1>11. QED
  BY <1>1, <1>2, <1>4, <1>5, <1>6, <1>7, <1>8, <1>9, <1>10 DEF IInv

(* The write itself.                                                       *)
LEMMA ReplaceKeeps ==
    ASSUME IInv, NEW o \in open, Replace(o, "reply")
    PROVE  IInv' /\ open' = open \ {o}
<1>1. /\ o \in Op
      /\ file' = doc[o] /\ torn' = Nil
      /\ pc' = [pc EXCEPT ![o] = "reply"]
      /\ stale' = [q \in Op |-> IF q \in {o} THEN {}
                      ELSE IF q \in open THEN stale[q] \cup (parts[o] \cup stale[o])
                      ELSE stale[q]]
      /\ gone' = [q \in Op |-> IF q \in Written \ {o}
                      THEN gone[q] \cup (parts[q] \cap (parts[o] \cup stale[o])) ELSE gone[q]]
      /\ left' = left \cup ((Tokens(file) \ Tokens(doc[o])) \X {o})
      /\ UNCHANGED <<kind, index, parts, doc, running, role, shown, blind>>
  BY DEF Replace, Changes, Goto, open
<1>2. \A q \in Op \ {o} : pc'[q] = pc[q]
  BY <1>1 DEF IInv, TypeOK
<1>3. pc'[o] = "reply" /\ o \notin Written
  BY <1>1 DEF IInv, TypeOK, open, Written
<1>4. /\ open' = open \ {o} /\ Written' = Written \cup {o}
      /\ open \subseteq Op /\ Written \subseteq Op
  BY <1>1, <1>2, <1>3 DEF open, Written
<1>5. TypeOK' /\ SyncRole'
  <2>1. pc' \in [Op -> Ended \cup {"check", "read", "write", "rename", "fill", "reply"}]
    BY <1>1 DEF IInv, TypeOK
  <2>2. stale' \in [Op -> SUBSET Part] /\ gone' \in [Op -> SUBSET Part]
    BY <1>1 DEF IInv, TypeOK
  <2>3. left' \in SUBSET (Token \X Op)
    BY <1>1 DEF IInv, TypeOK, Tokens
  <2>4. calm' \in BOOLEAN
    BY DEF Replace
  <2>5. QED
    BY <1>1, <1>2, <1>3, <2>1, <2>2, <2>3, <2>4 DEF IInv, TypeOK, SyncRole
<1>6. Fresh' /\ ClosedMissNothing' /\ SystemParts' /\ AppliedKind' /\ OpenParts'
  BY <1>1, <1>2, <1>3, <1>4 DEF IInv, Fresh, ClosedMissNothing, SystemParts, AppliedKind,
     OpenParts
<1>7. Prepared'
  <2>1. SUFFICES ASSUME NEW q \in open, q # o,
                        NEW p \in Part, p \notin parts[q], p \notin stale'[q]
                 PROVE  doc[q][p] = file'[p]
    BY <1>1, <1>4 DEF Prepared
  <2>2. q \in Op /\ p \notin stale[q] /\ p \notin parts[o] /\ p \notin stale[o]
    BY <1>1, <1>4, <2>1
  <2>3. doc[q][p] = file[p] /\ doc[o][p] = file[p]
    BY <2>1, <2>2 DEF IInv, Prepared
  <2>4. QED
    BY <1>1, <2>3
<1>8. WrittenKept'
  <2>1. SUFFICES ASSUME NEW q \in Written, q # o, NEW p \in parts[q], p \notin gone'[q]
                 PROVE  file'[p] = doc[q][p]
    BY <1>1, <1>4 DEF WrittenKept
  <2>2. q \in Op /\ p \notin gone[q] /\ p \notin parts[o] /\ p \notin stale[o]
    BY <1>1, <1>4, <2>1
  <2>3. p \in Part
    BY <2>1, <2>2 DEF IInv, TypeOK
  <2>4. file[p] = doc[q][p] /\ doc[o][p] = file[p]
    BY <2>1, <2>2, <2>3 DEF IInv, WrittenKept, Prepared
  <2>5. QED
    BY <1>1, <2>4
<1>9. OwnParts' /\ AppliedRuns'
  <2>1. \A q \in Op : gone[q] \subseteq gone'[q]
    BY <1>1
  <2>2. QED
    BY <1>1, <1>2, <1>3, <1>4, <2>1 DEF IInv, OwnParts, AppliedRuns
<1>10. ReplicaHeld'
  <2>1. SUFFICES ASSUME calm', ~blind', IsReplica(file'),
                        NEW q \in Op, kind[q] \in Asking, pc'[q] \in {"read", "write", "rename"}
                 PROVE  kind[q] = "system" /\ "clients" \notin parts[q]
    BY <1>1 DEF ReplicaHeld
  <2>2. q # o /\ pc[q] \in {"read", "write", "rename"}
    BY <1>2, <1>3, <2>1
  <2>3. calm /\ IsReplica(file)
    BY <1>1, <2>1, <2>2 DEF Replace
  <2>4. QED
    BY <1>1, <2>1, <2>2, <2>3 DEF IInv, ReplicaHeld
<1>11. OthersHeld'
  <2>1. calm' => calm
    BY DEF Replace
  <2>2. QED
    BY <1>1, <1>4, <2>1 DEF IInv, OthersHeld
<1>12. QED
  BY <1>4, <1>5, <1>6, <1>7, <1>8, <1>9, <1>10, <1>11 DEF IInv

(* Operations fail, or die with their process.                             *)
Ends(os) ==
    /\ os \subseteq Op
    /\ \A q \in Op \ os : pc'[q] = pc[q]
    /\ \A q \in os : pc'[q] \in {"failed", "lost"}
    /\ pc' \in [Op -> Ended \cup {"check", "read", "write", "rename", "fill", "reply"}]
    /\ IF torn \in os
       THEN file' = Empty /\ torn' = Nil /\ left' = left \cup (Tokens(file) \X {torn}) /\ Changes(os, Part)
       ELSE UNCHANGED <<file, torn, left>> /\ Changes(os, {})
    /\ \/ UNCHANGED <<running, role>>
       \/ running' = [s \in Section |-> file'[s]] /\ role' = file'["sync"]
    /\ UNCHANGED <<kind, index, parts, doc, shown, blind, calm>>

LEMMA EndsKeep ==
    ASSUME IInv, NEW os, Ends(os)
    PROVE  IInv' /\ open' = open \ os
<1>1. /\ file' = file \/ (file' = Empty /\ torn \in os)
      /\ file' \in [Part -> Value] /\ file'["sync"] \in Role \cup {Nil}
      /\ left' \in SUBSET (Token \X Op)
      /\ torn' = Nil \/ (torn' = torn /\ torn \notin os)
  BY ContentType, Names DEF IInv, TypeOK, SyncRole, Ends, Tokens, Empty
<1>2. /\ \A q \in Op \cap os : stale'[q] = {}
      /\ \A q \in Op \ open : stale'[q] \in {{}, stale[q]}
      /\ \A q \in open \ os : stale'[q] = stale[q] \/ Part \subseteq stale'[q]
      /\ \A q \in open \ os : file' = file \/ Part \subseteq stale'[q]
      /\ \A q \in Written \ os : gone[q] \subseteq gone'[q]
      /\ \A q \in Written \ os : file' = file \/ parts[q] \subseteq gone'[q]
      /\ \A q \in Op : gone[q] \subseteq gone'[q]
      /\ stale' \in [Op -> SUBSET Part] /\ gone' \in [Op -> SUBSET Part]
  <2>1. PICK ps \in {{}, Part} : Changes(os, ps) /\ (ps = Part \/ file' = file)
    BY DEF Ends
  <2>2. \A q \in Op : /\ stale'[q] = IF q \in os THEN {}
                                     ELSE IF q \in open THEN stale[q] \cup ps ELSE stale[q]
                     /\ gone'[q] = IF q \in Written \ os
                                   THEN gone[q] \cup (parts[q] \cap ps) ELSE gone[q]
    BY <2>1 DEF Changes
  <2>3. stale' \in [Op -> SUBSET Part] /\ gone' \in [Op -> SUBSET Part]
    BY <2>1 DEF IInv, TypeOK, Changes
  <2>4. \A q \in Op : parts[q] \subseteq Part /\ stale[q] \subseteq Part
    BY DEF IInv, TypeOK
  <2>5. open \subseteq Op /\ Written \subseteq Op
    BY DEF open, Written
  <2>6. CASE ps = {}
    <3>1. \A q \in Op : /\ stale[q] \cup {} = stale[q]
                       /\ gone[q] \cup (parts[q] \cap {}) = gone[q]
      OBVIOUS
    <3>2. file' = file \/ Part = {}
      BY <2>1, <2>6
    <3>3. \A q \in Op : stale'[q] = (IF q \in os THEN {} ELSE stale[q]) /\ gone'[q] = gone[q]
      BY <2>2, <2>6, <3>1
    <3>4. QED
      BY <2>3, <2>5, <3>2, <3>3, Names
  <2>7. CASE ps = Part
    <3>1. \A q \in open \ os : Part \subseteq stale'[q]
      <4>1. \A q \in open \ os : stale'[q] = stale[q] \cup Part
        BY <2>2, <2>5, <2>7
      <4>2. QED
        BY <4>1
    <3>2. \A q \in Written \ os : gone[q] \subseteq gone'[q] /\ parts[q] \subseteq gone'[q]
      BY <2>2, <2>4, <2>5, <2>7
    <3>3. \A q \in Op : gone[q] \subseteq gone'[q]
      BY <2>2
    <3>4. /\ \A q \in Op \cap os : stale'[q] = {}
          /\ \A q \in Op \ open : stale'[q] \in {{}, stale[q]}
      BY <2>2
    <3>5. QED
      BY <2>3, <3>1, <3>2, <3>3, <3>4
  <2>8. QED
    BY <2>1, <2>6, <2>7
<1>3. /\ open' = open \ os /\ Written' = Written \ os
      /\ open \subseteq Op /\ Written \subseteq Op
  BY DEF Ends, open, Written
<1>4. \A q \in Op : pc'[q] \notin {"failed", "lost"} => q \notin os /\ pc'[q] = pc[q]
  BY DEF Ends
<1>5. UNCHANGED <<kind, index, parts, doc, shown, blind, calm>>
  BY DEF Ends
<1>6. TypeOK' /\ SyncRole'
  <2>1. running' \in [Section -> Value] /\ role' \in Role \cup {Nil}
    BY <1>1, Names DEF IInv, TypeOK, Ends
  <2>2. torn' # Nil => torn' = torn /\ pc'[torn] = pc[torn]
    BY <1>1 DEF IInv, TypeOK, Ends
  <2>3. pc' \in [Op -> Ended \cup {"check", "read", "write", "rename", "fill", "reply"}]
    BY DEF Ends
  <2>4. torn' \in Op \cup {Nil} /\ (torn' # Nil => pc'[torn'] = "fill" /\ kind'[torn'] \in Dns)
    BY <1>5, <2>2 DEF IInv, TypeOK
  <2>5. \A q \in Op : pc'[q] = "check" => kind'[q] \in Asking
    BY <1>4, <1>5 DEF IInv, TypeOK
  <2>6. QED
    BY <1>1, <1>2, <1>5, <2>1, <2>3, <2>4, <2>5 DEF IInv, TypeOK, SyncRole
<1>7. Fresh' /\ SystemParts' /\ AppliedKind'
  BY <1>4, <1>5 DEF IInv, Fresh, SystemParts, AppliedKind
<1>8. ClosedMissNothing' /\ OpenParts' /\ OwnParts' /\ OthersHeld'
  BY <1>2, <1>3, <1>5 DEF IInv, ClosedMissNothing, OpenParts, OwnParts, OthersHeld
<1>9. Prepared'
  BY <1>2, <1>3, <1>5 DEF IInv, Prepared
<1>10. WrittenKept'
  BY <1>2, <1>3, <1>5 DEF IInv, WrittenKept
<1>11. AppliedRuns'
  <2>1. SUFFICES ASSUME NEW q \in Op, pc'[q] = "applied", ~blind',
                        Applies(kind[q]) \in parts[q] \ gone'[q]
                 PROVE  running'[Applies(kind[q])] = q
    BY <1>5 DEF AppliedRuns
  <2>2. /\ pc[q] = "applied" /\ q \notin os /\ q \in Written /\ kind[q] \in Asking
        /\ Applies(kind[q]) \in parts[q] \ gone[q] /\ Applies(kind[q]) \in Section
    BY <1>2, <1>4, <2>1, Names DEF IInv, Written, AppliedKind
  <2>3. running[Applies(kind[q])] = q
    BY <1>5, <2>1, <2>2 DEF IInv, AppliedRuns
  <2>4. file'[Applies(kind[q])] = q
    <3>1. file'[Applies(kind[q])] = doc[q][Applies(kind[q])]
      BY <1>3, <1>5, <1>10, <2>1, <2>2 DEF WrittenKept
    <3>2. QED
      BY <2>2, <3>1 DEF IInv, OwnParts
  <2>5. QED
    BY <2>2, <2>3, <2>4 DEF Ends
<1>12. ReplicaHeld'
  <2>1. IsReplica(file') => file' = file
    BY <1>1, Names DEF IsReplica, Empty
  <2>2. QED
    BY <1>4, <1>5, <2>1 DEF IInv, ReplicaHeld
<1>13. QED
  BY <1>3, <1>6, <1>7, <1>8, <1>9, <1>10, <1>11, <1>12 DEF IInv

LEMMA FailsEnd ==
    ASSUME IInv, NEW o \in Op, WriteFails(o) \/ (Fill(o) /\ torn # o)
    PROVE  Ends({o}) /\ o \in open
<1>1. /\ pc[o] \in {"write", "rename", "fill"} /\ pc' = [pc EXCEPT ![o] = pc'[o]]
      /\ pc'[o] \in {"failed", "lost"}
      /\ torn # o
      /\ UNCHANGED <<file, torn, kind, index, parts, doc, running, role, shown, left, blind, calm>>
      /\ Changes({o}, {})
  <2>1. CASE WriteFails(o)
    <3>1. torn # o
      BY <2>1, NilAssumption DEF IInv, TypeOK, WriteFails
    <3>2. pc'[o] = "failed"
      BY <2>1 DEF IInv, TypeOK, WriteFails, Goto
    <3>3. QED
      BY <2>1, <3>1, <3>2 DEF WriteFails, Goto
  <2>2. CASE Fill(o) /\ torn # o
    <3>1. pc'[o] = "lost"
      BY <2>2 DEF IInv, TypeOK, Fill, Goto
    <3>2. QED
      BY <2>2, <3>1 DEF Fill, Goto
  <2>3. QED
    BY <2>1, <2>2
<1>2. pc' \in [Op -> Ended \cup {"check", "read", "write", "rename", "fill", "reply"}]
  BY <1>1 DEF IInv, TypeOK, Ended
<1>3. \A q \in Op \ {o} : pc'[q] = pc[q]
  BY <1>1 DEF IInv, TypeOK
<1>4. QED
  BY <1>1, <1>2, <1>3 DEF Ends, open

LEMMA RestartsEnd ==
    ASSUME IInv, WebRestart \/ DnsRestart
    PROVE  \E os : Ends(os)
<1>1. PICK ks : Dies(ks) /\ (WebRestart \/ DnsRestart)
  BY DEF WebRestart, DnsRestart
<1> DEFINE os == {o \in Op : kind[o] \in ks /\ pc[o] \notin Ended}
<1>2. /\ \A q \in Op \ os : pc'[q] = pc[q]
      /\ \A q \in os : pc'[q] \in {"failed", "lost"}
  BY <1>1 DEF Dies
<1>3. pc' \in [Op -> Ended \cup {"check", "read", "write", "rename", "fill", "reply"}]
  BY <1>1 DEF IInv, TypeOK, Dies, Ended
<1>4. Ends(os)
  <2>1. IF torn \in os
        THEN file' = Empty /\ torn' = Nil /\ left' = left \cup (Tokens(file) \X {torn}) /\ Changes(os, Part)
        ELSE UNCHANGED <<file, torn, left>> /\ Changes(os, {})
    BY <1>1 DEF Dies
  <2>2. QED
    BY <1>1, <1>2, <1>3, <2>1 DEF Ends, WebRestart, DnsRestart
<1>5. QED
  BY <1>4

(* The write and its failure, as steps of Next.                            *)
LEMMA WritesOrEnds ==
    ASSUME IInv, NEW o \in Op, Rename(o) \/ WriteFails(o) \/ Fill(o)
    PROVE  /\ o \in open
           /\ \/ Ends({o})
              \/ Replace(o, "reply") /\ (pc[o] = "rename" \/ kind[o] \in Dns)
<1>1. CASE Rename(o)
  BY <1>1 DEF Rename, open
<1>2. CASE WriteFails(o) \/ (Fill(o) /\ torn # o)
  BY <1>2, FailsEnd
<1>3. CASE Fill(o) /\ torn = o
  BY <1>3, NilAssumption DEF IInv, TypeOK, Fill, open
<1>4. QED
  BY <1>1, <1>2, <1>3

LEMMA InvStep == IInv /\ [Next]_vars => IInv'
<1> SUFFICES ASSUME IInv, [Next]_vars PROVE IInv'
  OBVIOUS
<1>1. CASE UNCHANGED vars
  BY <1>1 DEF vars, opVars, history, IInv, TypeOK, Fresh, ClosedMissNothing, SystemParts,
     OpenParts, SyncRole, Prepared, OwnParts, WrittenKept, AppliedKind, AppliedRuns,
     ReplicaHeld, OthersHeld, open, Written
<1>2. CASE WebRestart \/ DnsRestart
  BY <1>2, RestartsEnd, EndsKeep
<1>3. ASSUME NEW o \in Op,
             \/ \E k \in Web : Receive(o, k)
             \/ \E t \in Token : ReceiveRevoke(o, t)
      PROVE  IInv'
  BY <1>3, ReceiveKeeps
<1>4. ASSUME NEW o \in Op, Reject(o) \/ CheckSystem(o) \/ CheckReplica(o)
      PROVE  IInv'
  BY <1>4, CheckKeeps
<1>5. ASSUME NEW o \in Op, ReadStep(o)
      PROVE  IInv'
  <2>1. PICK ps, c : Prepares(o, ps, c)
    BY <1>5, ReadStepsPrepare DEF IInv
  <2>2. QED
    BY <2>1, PrepareKeeps
<1>6. ASSUME NEW o \in Op, Reply(o) \/ Apply(o)
      PROVE  IInv'
  BY <1>6, ReplyKeeps
<1>7. ASSUME NEW o \in Op, WriteTmp(o) \/ Truncate(o)
      PROVE  IInv'
  BY <1>7, WriteKeeps
<1>8. ASSUME NEW o \in Op, Rename(o) \/ WriteFails(o) \/ Fill(o)
      PROVE  IInv'
  BY <1>8, WritesOrEnds, ReplaceKeeps, EndsKeep
<1>9. ASSUME NEW o \in Op, Touch(o) \/ Pull(o)
      PROVE  IInv'
  BY <1>9, FetchKeeps
<1>10. QED
  BY <1>1, <1>2, <1>3, <1>4, <1>5, <1>6, <1>7, <1>8, <1>9 DEF Next

LEMMA Invariance == Spec => []IInv
  BY InitInv, InvStep, PTL DEF Spec

-----------------------------------------------------------------------------
(* The variables stay in their types, for any operations and tokens.       *)
THEOREM TypeCorrect == Spec => []TypeOK
<1>1. IInv => TypeOK
  BY DEF IInv
<1>2. QED
  BY <1>1, Invariance, PTL

(* "{ ok: true }": no interleaving of routes, restarts and writes of the   *)
(* DNS service undoes a save, but those UpdatesKept names.                 *)
THEOREM SavesKept == Spec => []UpdatesKept
<1>1. IInv => UpdatesKept
  BY DEF IInv, UpdatesKept, WrittenKept, Written, Acked
<1>2. QED
  BY <1>1, Invariance, PTL

(* After Apply the DNS service runs what the page has saved, unless        *)
(* somebody has undone it.                                                 *)
THEOREM AppliedSavesRun == Spec => []AppliedRuns
<1>1. IInv => AppliedRuns
  BY DEF IInv
<1>2. QED
  BY <1>1, Invariance, PTL

(* What a step does to what is synced on a replica: the pull writes it, or *)
(* a request takes back what it has missed.                                *)
LEMMA ReplicaStep ==
    IInv /\ [Next]_vars =>
       (calm' /\ ~blind' /\ IsReplica(file) /\ IsReplica(file') =>
          \A s \in Synced : file'[s] # file[s] =>
             \E o \in Op : pc'[o] # pc[o] /\ (kind[o] = "pull" \/ s \in stale[o]))
<1> SUFFICES ASSUME IInv, [Next]_vars, calm', ~blind', IsReplica(file), IsReplica(file'),
                    NEW s \in Synced, file'[s] # file[s]
             PROVE  \E o \in Op : pc'[o] # pc[o] /\ (kind[o] = "pull" \/ s \in stale[o])
  OBVIOUS
<1>1. PICK o \in open : Replace(o, "reply") /\ (pc[o] = "rename" \/ kind[o] \in Dns)
  <2>1. ~(UNCHANGED vars)
    BY DEF vars
  <2>2. \A os : ~Ends(os)
    <3>1. ASSUME NEW os, Ends(os)
          PROVE  FALSE
      <4>1. file' = Empty
        BY <3>1 DEF Ends
      <4>2. QED
        BY <4>1, Names DEF IsReplica, Empty
    <3>2. QED
      BY <3>1
  <2>3. ~(WebRestart \/ DnsRestart)
    BY <2>2, RestartsEnd
  <2>4. PICK o \in Op : \/ \E k \in Web : Receive(o, k)
                        \/ \E t \in Token : ReceiveRevoke(o, t)
                        \/ Reject(o) \/ CheckSystem(o) \/ CheckReplica(o)
                        \/ ReadStep(o)
                        \/ WriteTmp(o) \/ Rename(o) \/ WriteFails(o)
                        \/ Reply(o) \/ Apply(o)
                        \/ Touch(o) \/ Pull(o) \/ Truncate(o) \/ Fill(o)
    BY <2>1, <2>3 DEF Next
  <2>5. ~ReadStep(o)
    BY ReadStepsPrepare, PrepareOpens DEF IInv
  <2>6. Rename(o) \/ WriteFails(o) \/ Fill(o)
    BY <2>4, <2>5, ReceiveKeeps, CheckKeeps, ReplyKeeps, WriteKeeps, FetchKeeps DEF Quiet
  <2>7. QED
    BY <2>2, <2>6, WritesOrEnds
<1>2. /\ o \in Op /\ pc[o] \in {"write", "rename", "fill"} /\ pc'[o] = "reply"
      /\ file' = doc[o] /\ calm /\ ~blind
  BY <1>1 DEF IInv, TypeOK, Replace, Goto, open
<1>3. s \in parts[o] \/ s \in stale[o]
  BY <1>1, <1>2, Names DEF IInv, Prepared
<1>4. CASE s \in parts[o] /\ kind[o] # "pull"
  <2>1. kind[o] \in Asking
    BY <1>1, <1>2, <1>4 DEF IInv, OthersHeld
  <2>2. pc[o] = "rename"
    BY <1>1, <2>1, Names
  <2>3. kind[o] = "system" /\ "clients" \notin parts[o]
    BY <1>2, <2>1, <2>2 DEF IInv, ReplicaHeld
  <2>4. parts[o] = {"system", "logging"}
    BY <1>2, <2>2, <2>3 DEF IInv, SystemParts
  <2>5. QED
    BY <1>4, <2>4 DEF Synced
<1>5. QED
  BY <1>2, <1>3, <1>4

(* 403 "config is synced from primary": what is synced changes on a        *)
(* replica by the pull alone, however the requests interleave with it, as  *)
(* long as nothing ReplicaKeepsSynced names has happened.                  *)
THEOREM ReplicaKept == Spec => ReplicaKeepsSynced
<1>1. IInv /\ [Next]_vars => ReplicaKeepsSynced!1
  BY ReplicaStep
<1>2. QED
  BY <1>1, Invariance, PTL DEF Spec, ReplicaKeepsSynced

-----------------------------------------------------------------------------
(* Revocations.  The position that a page has sent still is that of the    *)
(* token beside the button when the route reads the file, as long as no    *)
(* token up to that one has left it: what a late writer brings back has    *)
(* left the file before, and what is new is younger than all there is.     *)
Older(c, s) == {u \in Tokens(c) : Age(u) < Age(s)}
GoneBefore(o) ==
    \E t \in Token, q \in Op \ {o} : <<t, q>> \in left /\ Age(t) <= Age(shown[o])

LeftByWriters ==
    \A t \in Token, q \in Op :
       <<t, q>> \in left => pc[q] \in {"reply", "saved", "applied", "failed", "lost"}
KnownTokens(d) ==
    \A u \in Tokens(d) : \/ u \in Tokens(file)
                         \/ \E q \in Op : <<u, q>> \in left
                         \/ \A v \in Token \ {u} : Age(v) >= Age(u) => v \notin Tokens(d)
DocsKnown == \A o \in open : KnownTokens(doc[o])
Aimed ==
    \A o \in Op : pc[o] = "read" /\ kind[o] = "token_revoke" =>
       \/ GoneBefore(o)
       \/ shown[o] \in Tokens(file) /\ index[o] = Cardinality(Older(file, shown[o]))
Hit ==
    \A o \in open \cup Written : kind[o] = "token_revoke" =>
       GoneBefore(o) \/ parts[o] = {shown[o]}

TokenInv == LeftByWriters /\ DocsKnown /\ Aimed /\ Hit

LEMMA OlderFinite == \A c, s : IsFiniteSet(Older(c, s)) /\ Cardinality(Older(c, s)) \in Nat
<1>1. \A c, s : Older(c, s) \subseteq Token
  BY DEF Older, Tokens
<1>2. QED
  BY <1>1, TokenAssumption, FS_Subset, FS_CardinalityType

LEMMA OlderGrows ==
    ASSUME NEW c, NEW t \in Tokens(c), NEW s \in Tokens(c), Age(t) < Age(s)
    PROVE  Cardinality(Older(c, t)) < Cardinality(Older(c, s))
<1>1. /\ t \notin Older(c, t)
      /\ Older(c, t) \cup {t} \subseteq Older(c, s)
  BY TokenAssumption DEF Older, Tokens
<1> DEFINE m == Cardinality(Older(c, t))
           n == Cardinality(Older(c, s))
<1>2. Cardinality(Older(c, t) \cup {t}) = m + 1
  BY <1>1, OlderFinite, FS_AddElement
<1>3. Cardinality(Older(c, t) \cup {t}) <= n
  BY <1>1, OlderFinite, FS_Subset
<1>4. m \in Nat /\ n \in Nat
  BY OlderFinite
<1> HIDE DEF m, n
<1>5. m < n
  BY <1>2, <1>3, <1>4
<1>6. QED
  BY <1>5 DEF m, n

LEMMA OnePosition ==
    ASSUME NEW c, NEW t \in Tokens(c), NEW s \in Tokens(c),
           Cardinality(Older(c, t)) = Cardinality(Older(c, s))
    PROVE  t = s
<1> DEFINE m == Cardinality(Older(c, t))
           n == Cardinality(Older(c, s))
<1>1. m \in Nat /\ n \in Nat /\ m = n
  BY OlderFinite
<1>2. t \in Token /\ s \in Token
  BY DEF Tokens
<1>3. Age(t) < Age(s) => m < n
  BY OlderGrows
<1>4. Age(s) < Age(t) => n < m
  BY OlderGrows
<1> HIDE DEF m, n
<1>5. ~(Age(t) < Age(s)) /\ ~(Age(s) < Age(t))
  BY <1>1, <1>3, <1>4
<1>6. QED
  BY <1>2, <1>5, TokenAssumption

LEMMA StillGone ==
    ASSUME NEW o \in Op, GoneBefore(o), left \subseteq left', shown'[o] = shown[o]
    PROVE  GoneBefore(o)'
  BY DEF GoneBefore

(* What the routes prepare holds no token but those read and a new one     *)
(* that is younger than those.                                             *)
LEMMA KnownAlready ==
    ASSUME NEW d, Tokens(d) \subseteq Tokens(file)
    PROVE  KnownTokens(d)
  BY DEF KnownTokens

LEMMA ContentTokens == Tokens(Content) \subseteq Tokens(file)
  BY Names DEF Tokens, Content, Empty

LEMMA ReplacedTokens ==
    ASSUME NEW o \in Op, NEW ps, ps \subseteq Part \ Token
    PROVE  KnownTokens(Replaced(o, ps))
<1>1. \A t \in Token : Replaced(o, ps)[t] = Content[t]
  BY Names DEF Replaced
<1>2. QED
  BY <1>1, ContentTokens, KnownAlready DEF Tokens

LEMMA PreparedDoc ==
    ASSUME TypeOK, NEW o \in Op, NEW ps, NEW c, Prepare(o, ps, c)
    PROVE  doc'[o] = c /\ parts'[o] = ps
  BY DEF TypeOK, Prepare

LEMMA PreparedKnown ==
    ASSUME TypeOK, NEW o \in Op, NEW ps, ps \subseteq Part \ Token,
           Prepare(o, ps, Replaced(o, ps))
    PROVE  KnownTokens(doc'[o])
  BY PreparedDoc, ReplacedTokens

LEMMA ReadStepsKnown ==
    ASSUME TypeOK, SystemParts, NEW o \in Op, ReadStep(o)
    PROVE  KnownTokens(doc'[o])
<1>0. \A S : S \subseteq Section => S \subseteq Part \ Token
  BY Names
<1>1. CASE PutSystemConfig(o)
  <2>1. parts[o] \in {{"system", "logging"}, {"system", "logging", "clients"}}
    BY <1>1 DEF PutSystemConfig, Reads, SystemParts
  <2>2. parts[o] \subseteq Part \ Token
    BY <1>0, <2>1 DEF Section, Synced
  <2>3. QED
    BY <1>1, <2>2, PreparedKnown DEF PutSystemConfig
<1>2. CASE PutLocalRecords(o)
  <2>1. {"local_records"} \subseteq Part \ Token
    BY <1>0 DEF Section, Synced
  <2>2. QED
    BY <1>2, <2>1, PreparedKnown DEF PutLocalRecords
<1>3. CASE PutUpstreams(o)
  <2>1. {"upstreams"} \subseteq Part \ Token
    BY <1>0 DEF Section, Synced
  <2>2. QED
    BY <1>3, <2>1, PreparedKnown DEF PutUpstreams
<1>4. CASE PutResponse(o)
  <2>1. {"response"} \subseteq Part \ Token
    BY <1>0 DEF Section, Synced
  <2>2. QED
    BY <1>4, <2>1, PreparedKnown DEF PutResponse
<1>5. CASE PutSafeSearch(o)
  <2>1. {"safe_search"} \subseteq Part \ Token
    BY <1>0 DEF Section, Synced
  <2>2. QED
    BY <1>5, <2>1, PreparedKnown DEF PutSafeSearch
<1>6. CASE PutBlocklists(o)
  <2>1. {"blocklists"} \subseteq Part \ Token
    BY <1>0 DEF Section, Synced
  <2>2. QED
    BY <1>6, <2>1, PreparedKnown DEF PutBlocklists
<1>7. CASE PutWebhooks(o)
  <2>1. {"webhooks"} \subseteq Part \ Token
    BY <1>0 DEF Section
  <2>2. QED
    BY <1>7, <2>1, PreparedKnown DEF PutWebhooks
<1>8. CASE PutLogLevel(o)
  <2>1. {"logging"} \subseteq Part \ Token
    BY <1>0 DEF Section
  <2>2. QED
    BY <1>8, <2>1, PreparedKnown DEF PutLogLevel
<1>9. CASE ImportConfig(o)
  <2>1. Section \subseteq Part \ Token /\ {"blocklists"} \subseteq Part \ Token
    BY <1>0 DEF Section, Synced
  <2>2. QED
    BY <1>9, <2>1, PreparedKnown DEF ImportConfig
<1>10. CASE PostToken(o)
  <2> DEFINE with(t) == [Content EXCEPT !["sync"] = "primary", ![t] = o]
  <2>1. PICK t \in Token :
           /\ \A u \in Token : Age(u) >= Age(t) => file[u] = Nil
           /\ Prepare(o, {"sync", t}, with(t))
    BY <1>10 DEF PostToken
  <2>2. doc'[o] = with(t)
    BY <2>1, PreparedDoc
  <2>3. \A u \in Token \ {t} : with(t)[u] = Content[u]
    BY ContentType, Names, TokenAssumption
  <2>4. \A u \in Token \ {t} : u \in Tokens(doc'[o]) => u \in Tokens(file)
    BY <2>2, <2>3, ContentTokens DEF Tokens
  <2>5. \A u \in Token \ {t} : Age(u) >= Age(t) => u \notin Tokens(doc'[o])
    BY <2>1, <2>4 DEF Tokens
  <2>6. QED
    BY <2>4, <2>5 DEF KnownTokens, Tokens
<1>11. CASE DeleteToken(o)
  <2> DEFINE without(t) == [Content EXCEPT ![t] = Nil]
  <2>1. PICK t \in Token : Prepare(o, {t}, without(t))
    BY <1>11 DEF DeleteToken, Tokens
  <2>a. doc'[o] = without(t)
    BY <2>1, PreparedDoc
  <2>b. \A u \in Token : without(t)[u] # Nil => Content[u] # Nil
    BY ContentType, Names
  <2>2. Tokens(doc'[o]) \subseteq Tokens(Content)
    BY <2>a, <2>b DEF Tokens
  <2>3. QED
    BY <2>2, ContentTokens, KnownAlready
<1>12. CASE PutSyncSettings(o)
  BY <1>12, PreparedDoc, ContentTokens, KnownAlready DEF PutSyncSettings
<1>13. CASE PutSyncConfig(o)
  <2> DEFINE as(r) == [Content EXCEPT !["sync"] = r]
  <2>1. PICK r \in Role : Prepare(o, {"sync"}, as(r))
    BY <1>13 DEF PutSyncConfig
  <2>a. doc'[o] = as(r)
    BY <2>1, PreparedDoc
  <2>b. \A u \in Token : as(r)[u] = Content[u]
    BY ContentType, Names, TokenAssumption
  <2>2. Tokens(doc'[o]) \subseteq Tokens(Content)
    BY <2>a, <2>b DEF Tokens
  <2>3. QED
    BY <2>2, ContentTokens, KnownAlready
<1>14. QED
  BY <1>1, <1>2, <1>3, <1>4, <1>5, <1>6, <1>7, <1>8, <1>9, <1>10, <1>11, <1>12, <1>13
     DEF ReadStep

(* The token that a revocation takes out is the one it was aimed at.       *)
LEMMA RevokeHits ==
    ASSUME TypeOK, TokenInv, NEW o \in Op, ReadStep(o), kind[o] = "token_revoke",
           ~GoneBefore(o)
    PROVE  parts'[o] = {shown[o]}
<1>1. DeleteToken(o) /\ pc[o] = "read"
  BY DEF ReadStep, DeleteToken, PutSystemConfig, PutLocalRecords, PutUpstreams, PutResponse,
     PutSafeSearch, PutBlocklists, PutWebhooks, PutLogLevel, ImportConfig, PostToken,
     PutSyncSettings, PutSyncConfig, Reads
<1>2. PICK t \in Tokens(Content) :
         /\ Cardinality({u \in Tokens(Content) : Age(u) < Age(t)}) = index[o]
         /\ Prepare(o, {t}, [Content EXCEPT ![t] = Nil])
  BY <1>1 DEF DeleteToken
<1>3. Content = file
  BY <1>2, Names DEF Content, Tokens, Empty
<1>4. Cardinality(Older(file, t)) = index[o]
  BY <1>2, <1>3 DEF Older
<1>5. shown[o] \in Tokens(file) /\ index[o] = Cardinality(Older(file, shown[o]))
  BY <1>1 DEF TokenInv, Aimed
<1>6. t = shown[o]
  BY <1>2, <1>3, <1>4, <1>5, OnePosition
<1>7. QED
  BY <1>2, <1>6, PreparedDoc

LEMMA TokenInit == Init => TokenInv
<1> SUFFICES ASSUME Init PROVE TokenInv
  OBVIOUS
<1>1. open = {} /\ Written = {} /\ left = {} /\ \A o \in Op : pc[o] = "idle"
  BY DEF Init, open, Written
<1>2. QED
  BY <1>1 DEF TokenInv, LeftByWriters, DocsKnown, Aimed, Hit

(* A step of one operation that does not change the file.                  *)
LEMMA TokensQuiet ==
    ASSUME TypeOK, TokenInv, NEW o \in Op,
           \A q \in Op \ {o} : /\ pc'[q] = pc[q] /\ kind'[q] = kind[q] /\ parts'[q] = parts[q]
                              /\ index'[q] = index[q] /\ shown'[q] = shown[q]
                              /\ doc'[q] = doc[q],
           pc[o] \in {"reply", "saved", "applied"} => pc'[o] \in {"saved", "applied"},
           pc[o] \notin {"failed", "lost"},
           UNCHANGED <<file, left>>,
           o \in open' => KnownTokens(doc'[o]),
           pc'[o] = "read" /\ kind'[o] = "token_revoke" =>
              shown'[o] \in Tokens(file) /\ index'[o] = Cardinality(Older(file, shown'[o])),
           o \in open' \cup Written' /\ kind'[o] = "token_revoke" =>
              GoneBefore(o)' \/ parts'[o] = {shown'[o]}
    PROVE  TokenInv'
<1>1. /\ \A q \in Op \ {o} : (q \in open' <=> q \in open) /\ (q \in Written' <=> q \in Written)
      /\ open' \subseteq Op /\ Written' \subseteq Op
  BY DEF open, Written
<1>2. \A q \in Op \ {o} : GoneBefore(q) => GoneBefore(q)'
  BY StillGone
<1>3. LeftByWriters'
  BY DEF TokenInv, LeftByWriters
<1>4. DocsKnown'
  <2>1. SUFFICES ASSUME NEW q \in open' PROVE KnownTokens(doc'[q])
    BY DEF DocsKnown, KnownTokens
  <2>2. CASE q = o
    BY <2>2
  <2>3. CASE q # o
    BY <1>1, <2>3 DEF TokenInv, DocsKnown
  <2>4. QED
    BY <2>2, <2>3
<1>5. Aimed'
  <2>1. SUFFICES ASSUME NEW q \in Op, pc'[q] = "read", kind'[q] = "token_revoke"
                 PROVE  \/ GoneBefore(q)'
                        \/ /\ shown'[q] \in Tokens(file)
                           /\ index'[q] = Cardinality(Older(file, shown'[q]))
    BY DEF Aimed, Tokens, Older
  <2>2. CASE q = o
    BY <2>1, <2>2
  <2>3. CASE q # o
    BY <1>2, <2>1, <2>3 DEF TokenInv, Aimed
  <2>4. QED
    BY <2>2, <2>3
<1>6. Hit'
  <2>1. SUFFICES ASSUME NEW q \in open' \cup Written', kind'[q] = "token_revoke"
                 PROVE  GoneBefore(q)' \/ parts'[q] = {shown'[q]}
    BY DEF Hit
  <2>2. CASE q = o
    BY <2>1, <2>2
  <2>3. CASE q # o
    BY <1>1, <1>2, <2>1, <2>3 DEF TokenInv, Hit
  <2>4. QED
    BY <2>2, <2>3
<1>7. QED
  BY <1>3, <1>4, <1>5, <1>6 DEF TokenInv

LEMMA TokensReplaced ==
    ASSUME IInv, TokenInv, NEW o \in open, Replace(o, "reply")
    PROVE  TokenInv'
<1>1. /\ o \in Op
      /\ file' = doc[o]
      /\ pc' = [pc EXCEPT ![o] = "reply"]
      /\ left' = left \cup ((Tokens(file) \ Tokens(doc[o])) \X {o})
      /\ UNCHANGED <<kind, index, parts, doc, shown>>
  BY DEF Replace, Goto, open
<1>2. pc'[o] = "reply" /\ \A q \in Op \ {o} : pc'[q] = pc[q]
  BY <1>1 DEF IInv, TypeOK
<1>3. /\ open' = open \ {o} /\ Written' \subseteq open \cup Written
      /\ pc[o] \in {"write", "rename", "fill"}
  BY <1>1, <1>2 DEF open, Written
<1>4. /\ left \subseteq left'
      /\ \A u \in Tokens(file) \ Tokens(doc[o]) : <<u, o>> \in left'
  BY <1>1
<1>5. \A q \in Op : GoneBefore(q) => GoneBefore(q)'
  BY <1>1, <1>4, StillGone
<1>6. LeftByWriters'
  <2>1. SUFFICES ASSUME NEW t \in Token, NEW q \in Op, <<t, q>> \in left'
                 PROVE  pc'[q] \in {"reply", "saved", "applied", "failed", "lost"}
    BY DEF LeftByWriters
  <2>2. q = o \/ <<t, q>> \in left
    BY <1>1, <2>1
  <2>3. QED
    BY <1>2, <2>2 DEF TokenInv, LeftByWriters
<1>7. DocsKnown'
  <2>1. SUFFICES ASSUME NEW q \in open, NEW u \in Tokens(doc[q])
                 PROVE  \/ u \in Tokens(file')
                        \/ \E r \in Op : <<u, r>> \in left'
                        \/ \A v \in Token \ {u} : Age(v) >= Age(u) => v \notin Tokens(doc[q])
    BY <1>1, <1>3 DEF DocsKnown, KnownTokens, Tokens
  <2>2. \/ u \in Tokens(file)
        \/ \E r \in Op : <<u, r>> \in left
        \/ \A v \in Token \ {u} : Age(v) >= Age(u) => v \notin Tokens(doc[q])
    BY <2>1 DEF TokenInv, DocsKnown, KnownTokens
  <2>3. u \in Tokens(file) => u \in Tokens(file') \/ <<u, o>> \in left'
    BY <1>1, <1>4
  <2>4. QED
    BY <1>1, <1>4, <2>2, <2>3
<1>8. Aimed'
  <2>1. SUFFICES ASSUME NEW q \in Op, pc'[q] = "read", kind[q] = "token_revoke",
                        ~GoneBefore(q)'
                 PROVE  /\ shown[q] \in Tokens(doc[o])
                        /\ index[q] = Cardinality(Older(doc[o], shown[q]))
    BY <1>1 DEF Aimed, Older, Tokens
  <2>2. q # o /\ pc[q] = "read" /\ ~GoneBefore(q)
    BY <1>2, <1>5, <2>1
  <2>3. shown[q] \in Tokens(file) /\ index[q] = Cardinality(Older(file, shown[q]))
    BY <2>1, <2>2 DEF TokenInv, Aimed
  <2>4. shown[q] \in Token /\ Tokens(file) \subseteq Token /\ Tokens(doc[o]) \subseteq Token
    BY <2>3 DEF Tokens
  <2>5. \A u \in Token, r \in Op \ {q} :
           Age(u) <= Age(shown[q]) => <<u, r>> \notin left' /\ <<u, r>> \notin left
    BY <1>1, <1>4, <2>1 DEF GoneBefore
  <2>6. \A u \in Tokens(file) : Age(u) <= Age(shown[q]) => u \in Tokens(doc[o])
    BY <1>1, <1>4, <2>2, <2>4, <2>5
  <2>7. shown[q] \in Tokens(doc[o])
    BY <2>3, <2>4, <2>6, TokenAssumption
  <2>8. \A u \in Tokens(doc[o]) : Age(u) < Age(shown[q]) => u \in Tokens(file)
    <3>1. SUFFICES ASSUME NEW u \in Tokens(doc[o]), Age(u) < Age(shown[q]), u \notin Tokens(file)
                   PROVE  FALSE
      OBVIOUS
    <3>2. /\ u \in Token /\ u # shown[q]
          /\ Age(u) <= Age(shown[q]) /\ Age(shown[q]) >= Age(u)
      BY <2>4, <3>1, TokenAssumption
    <3>3. \A r \in Op : <<u, r>> \notin left
      <4>1. <<u, q>> \notin left
        BY <2>2, <3>2 DEF TokenInv, LeftByWriters
      <4>2. QED
        BY <2>5, <3>2, <4>1
    <3>4. \A v \in Token \ {u} : Age(v) >= Age(u) => v \notin Tokens(doc[o])
      BY <3>1, <3>3 DEF TokenInv, DocsKnown, KnownTokens
    <3>5. QED
      BY <2>4, <2>7, <3>2, <3>4
  <2>9. Older(doc[o], shown[q]) = Older(file, shown[q])
    <3>1. \A u \in Tokens(file) : Age(u) < Age(shown[q]) => Age(u) <= Age(shown[q])
      BY <2>4, TokenAssumption
    <3>2. QED
      BY <2>6, <2>8, <3>1 DEF Older
  <2>10. QED
    BY <2>3, <2>7, <2>9
<1>9. Hit'
  <2>1. SUFFICES ASSUME NEW q \in open \cup Written, kind[q] = "token_revoke"
                 PROVE  GoneBefore(q)' \/ parts[q] = {shown[q]}
    BY <1>1, <1>3 DEF Hit
  <2>2. q \in Op
    BY <2>1 DEF open, Written
  <2>3. QED
    BY <1>5, <2>1, <2>2 DEF TokenInv, Hit
<1>10. QED
  BY <1>6, <1>7, <1>8, <1>9 DEF TokenInv

LEMMA TokensEnd ==
    ASSUME IInv, TokenInv, NEW os, Ends(os)
    PROVE  TokenInv'
<1>1. /\ os \subseteq Op
      /\ \A q \in Op \ os : pc'[q] = pc[q]
      /\ \A q \in os : pc'[q] \in {"failed", "lost"}
      /\ \/ file' = file /\ left' = left
         \/ torn \in os /\ left' = left \cup (Tokens(file) \X {torn})
      /\ UNCHANGED <<kind, index, parts, doc, shown>>
  BY DEF Ends
<1>2. open' = open \ os /\ Written' \subseteq Written /\ Written \subseteq Op /\ open \subseteq Op
  BY <1>1, EndsKeep DEF Written, open
<1>3. \A q \in Op : GoneBefore(q) => GoneBefore(q)'
  <2>1. left \subseteq left'
    BY <1>1
  <2>2. QED
    BY <1>1, <2>1, StillGone
<1>4. LeftByWriters'
  <2>1. SUFFICES ASSUME NEW t \in Token, NEW q \in Op, <<t, q>> \in left'
                 PROVE  pc'[q] \in {"reply", "saved", "applied", "failed", "lost"}
    BY DEF LeftByWriters
  <2>2. q \in os \/ <<t, q>> \in left
    BY <1>1, <2>1
  <2>3. QED
    BY <1>1, <2>2 DEF TokenInv, LeftByWriters
<1>5. DocsKnown'
  <2>1. SUFFICES ASSUME NEW q \in open, NEW u \in Tokens(doc[q])
                 PROVE  \/ u \in Tokens(file')
                        \/ \E r \in Op : <<u, r>> \in left'
                        \/ \A v \in Token \ {u} : Age(v) >= Age(u) => v \notin Tokens(doc[q])
    BY <1>1, <1>2 DEF DocsKnown, KnownTokens, Tokens
  <2>2. \/ u \in Tokens(file)
        \/ \E r \in Op : <<u, r>> \in left
        \/ \A v \in Token \ {u} : Age(v) >= Age(u) => v \notin Tokens(doc[q])
    BY <2>1 DEF TokenInv, DocsKnown, KnownTokens
  <2>3. u \in Tokens(file) => u \in Tokens(file') \/ (torn \in Op /\ <<u, torn>> \in left')
    BY <1>1
  <2>4. left \subseteq left'
    BY <1>1
  <2>5. QED
    BY <2>2, <2>3, <2>4
<1>6. Aimed'
  <2>1. SUFFICES ASSUME NEW q \in Op, pc'[q] = "read", kind[q] = "token_revoke",
                        ~GoneBefore(q)'
                 PROVE  /\ shown[q] \in Tokens(file')
                        /\ index[q] = Cardinality(Older(file', shown[q]))
    BY <1>1 DEF Aimed, Older, Tokens
  <2>2. q \notin os /\ pc[q] = "read" /\ ~GoneBefore(q)
    BY <1>1, <1>3, <2>1
  <2>3. shown[q] \in Tokens(file) /\ index[q] = Cardinality(Older(file, shown[q]))
    BY <2>1, <2>2 DEF TokenInv, Aimed
  <2>4. file' = file
    <3>1. SUFFICES ASSUME torn \in os, left' = left \cup (Tokens(file) \X {torn})
                   PROVE  FALSE
      BY <1>1
    <3>2. <<shown[q], torn>> \in left' /\ torn \in Op \ {q}
      BY <1>1, <2>2, <2>3, <3>1
    <3>3. shown[q] \in Token /\ Age(shown[q]) <= Age(shown[q])
      BY <2>3, TokenAssumption DEF Tokens
    <3>4. QED
      BY <1>1, <2>1, <3>2, <3>3 DEF GoneBefore
  <2>5. QED
    BY <2>3, <2>4
<1>7. Hit'
  <2>1. SUFFICES ASSUME NEW q \in open \cup Written, kind[q] = "token_revoke"
                 PROVE  GoneBefore(q)' \/ parts[q] = {shown[q]}
    BY <1>1, <1>2 DEF Hit
  <2>2. QED
    BY <1>2, <1>3, <2>1 DEF TokenInv, Hit
<1>8. QED
  BY <1>4, <1>5, <1>6, <1>7 DEF TokenInv

LEMMA TokensReceived ==
    ASSUME IInv, TokenInv, NEW o \in Op,
           \/ \E k \in Web : Receive(o, k)
           \/ \E t \in Token : ReceiveRevoke(o, t)
    PROVE  TokenInv'
<1>1. /\ pc[o] = "idle" /\ pc'[o] \in {"check", "read"}
      /\ pc' = [pc EXCEPT ![o] = pc'[o]]
      /\ kind' = [kind EXCEPT ![o] = kind'[o]]
      /\ index' = [index EXCEPT ![o] = index'[o]]
      /\ shown' = [shown EXCEPT ![o] = shown'[o]]
      /\ UNCHANGED <<file, left, doc, parts>>
      /\ kind'[o] = "token_revoke" => \E t \in Token : ReceiveRevoke(o, t)
  <2>1. CASE \E k \in Web : Receive(o, k)
    BY <2>1 DEF IInv, TypeOK, Receive, Goto, history
  <2>2. CASE \E t \in Token : ReceiveRevoke(o, t)
    BY <2>2 DEF IInv, TypeOK, ReceiveRevoke, Goto
  <2>3. QED
    BY <2>1, <2>2
<1>2. ASSUME kind'[o] = "token_revoke"
      PROVE  shown'[o] \in Tokens(file) /\ index'[o] = Cardinality(Older(file, shown'[o]))
  <2>1. PICK t \in Token :
           /\ t \in Tokens(Content)
           /\ index' = [index EXCEPT ![o] = Cardinality({u \in Tokens(Content) : Age(u) < Age(t)})]
           /\ shown' = [shown EXCEPT ![o] = t]
    BY <1>1, <1>2 DEF ReceiveRevoke
  <2>2. Content = file
    BY <2>1, Names DEF Content, Tokens, Empty
  <2>3. shown'[o] = t /\ index'[o] = Cardinality({u \in Tokens(Content) : Age(u) < Age(t)})
    BY <2>1 DEF IInv, TypeOK
  <2>4. QED
    BY <2>1, <2>2, <2>3 DEF Older
<1>3. o \notin open' \cup Written'
  BY <1>1 DEF open, Written
<1>4. \A q \in Op \ {o} : /\ pc'[q] = pc[q] /\ kind'[q] = kind[q] /\ parts'[q] = parts[q]
                         /\ index'[q] = index[q] /\ shown'[q] = shown[q] /\ doc'[q] = doc[q]
  BY <1>1 DEF IInv, TypeOK
<1>5. QED
  BY <1>1, <1>2, <1>3, <1>4, TokensQuiet DEF IInv

LEMMA TokensChecked ==
    ASSUME IInv, TokenInv, NEW o \in Op, Reject(o) \/ CheckSystem(o) \/ CheckReplica(o)
    PROVE  TokenInv'
<1>1. /\ pc[o] \in {"check", "read"}
      /\ pc' = [pc EXCEPT ![o] = pc'[o]] /\ pc'[o] \in {"refused", "read"}
      /\ pc'[o] = "read" => kind[o] \in Asking
      /\ parts' = [parts EXCEPT ![o] = parts'[o]]
      /\ UNCHANGED <<file, left, kind, index, shown, doc>>
  <2>1. CASE Reject(o)
    BY <2>1 DEF IInv, TypeOK, Reject, Goto, history
  <2>2. CASE CheckSystem(o)
    BY <2>2 DEF IInv, TypeOK, CheckSystem, Goto, Asking
  <2>3. CASE CheckReplica(o)
    BY <2>3 DEF IInv, TypeOK, CheckReplica, Goto
  <2>4. QED
    BY <2>1, <2>2, <2>3
<1>2. o \notin open' \cup Written'
  BY <1>1 DEF open, Written
<1>3. pc'[o] = "read" => kind'[o] # "token_revoke"
  BY <1>1 DEF Asking
<1>4. \A q \in Op \ {o} : /\ pc'[q] = pc[q] /\ kind'[q] = kind[q] /\ parts'[q] = parts[q]
                         /\ index'[q] = index[q] /\ shown'[q] = shown[q] /\ doc'[q] = doc[q]
  BY <1>1 DEF IInv, TypeOK
<1>5. QED
  BY <1>1, <1>2, <1>3, <1>4, TokensQuiet DEF IInv

LEMMA TokensRead ==
    ASSUME IInv, TokenInv, NEW o \in Op, ReadStep(o)
    PROVE  TokenInv'
<1>1. PICK ps, c : Prepares(o, ps, c)
  BY ReadStepsPrepare DEF IInv
<1>2. /\ pc' = [pc EXCEPT ![o] = "write"] /\ pc[o] = "read"
      /\ parts' = [parts EXCEPT ![o] = ps] /\ doc' = [doc EXCEPT ![o] = c]
      /\ UNCHANGED <<file, kind, index, shown, left>>
  BY <1>1, PrepareOpens DEF IInv, Prepares
<1>3. KnownTokens(doc'[o])
  BY ReadStepsKnown DEF IInv
<1>4. kind[o] = "token_revoke" => GoneBefore(o)' \/ parts'[o] = {shown'[o]}
  BY <1>2, RevokeHits, StillGone DEF IInv
<1>5. \A q \in Op \ {o} : /\ pc'[q] = pc[q] /\ kind'[q] = kind[q] /\ parts'[q] = parts[q]
                         /\ index'[q] = index[q] /\ shown'[q] = shown[q] /\ doc'[q] = doc[q]
  BY <1>2 DEF IInv, TypeOK
<1>6. pc'[o] = "write"
  BY <1>2 DEF IInv, TypeOK
<1>7. QED
  BY <1>2, <1>3, <1>4, <1>5, <1>6, TokensQuiet DEF IInv

LEMMA TokensWritten ==
    ASSUME IInv, TokenInv, NEW o \in Op,
           WriteTmp(o) \/ Truncate(o) \/ Reply(o) \/ Apply(o)
    PROVE  TokenInv'
<1>1. /\ pc' = [pc EXCEPT ![o] = pc'[o]]
      /\ \/ pc[o] = "write" /\ pc'[o] \in {"rename", "fill"}
         \/ pc[o] \in {"reply", "saved"} /\ pc'[o] \in {"saved", "applied"}
      /\ UNCHANGED <<file, left, kind, index, shown, doc, parts>>
  <2>1. CASE WriteTmp(o) \/ Truncate(o)
    BY <2>1 DEF IInv, TypeOK, WriteTmp, Truncate, Goto, history
  <2>2. CASE Reply(o)
    BY <2>2 DEF IInv, TypeOK, Reply, Goto, history
  <2>3. CASE Apply(o)
    BY <2>3 DEF IInv, TypeOK, Apply, Goto
  <2>4. QED
    BY <2>1, <2>2, <2>3
<1>2. o \in open \cup Written /\ (o \in open' => o \in open)
  BY <1>1 DEF open, Written
<1>3. o \in open' => KnownTokens(doc'[o])
  BY <1>1, <1>2 DEF TokenInv, DocsKnown
<1>4. kind'[o] = "token_revoke" => GoneBefore(o)' \/ parts'[o] = {shown'[o]}
  BY <1>1, <1>2, StillGone DEF TokenInv, Hit
<1>5. \A q \in Op \ {o} : pc'[q] = pc[q]
  BY <1>1 DEF IInv, TypeOK
<1>6. QED
  BY <1>1, <1>3, <1>4, <1>5, TokensQuiet DEF IInv

LEMMA TokensFetched ==
    ASSUME IInv, TokenInv, NEW o \in Op, Touch(o) \/ Pull(o)
    PROVE  TokenInv'
<1>1. /\ pc[o] = "idle"
      /\ pc' = [pc EXCEPT ![o] = "write"]
      /\ kind' = [kind EXCEPT ![o] = kind'[o]] /\ kind'[o] \in Dns
      /\ parts' = [parts EXCEPT ![o] = parts'[o]]
      /\ doc' = [doc EXCEPT ![o] = doc'[o]]
      /\ UNCHANGED <<file, left, index, shown>>
  BY DEF IInv, TypeOK, Touch, Pull, Fetch, Goto, Dns
<1>2. Tokens(doc'[o]) \subseteq Tokens(file)
  <2>1. CASE Touch(o)
    BY <2>1 DEF IInv, TypeOK, Touch, Tokens
  <2>2. CASE Pull(o)
    <3>1. PICK ps \in {Synced, Synced \ {"clients"}} :
             doc' = [doc EXCEPT ![o] = [p \in Part |-> IF p \in ps THEN o ELSE file[p]]]
      BY <2>2 DEF Pull
    <3>2. \A t \in Token : doc'[o][t] = file[t]
      BY <3>1, Names DEF IInv, TypeOK
    <3>3. QED
      BY <3>2 DEF Tokens
  <2>3. QED
    BY <2>1, <2>2
<1>3. KnownTokens(doc'[o])
  BY <1>1, <1>2, KnownAlready
<1>4. pc'[o] = "write" /\ kind'[o] # "token_revoke"
  BY <1>1 DEF IInv, TypeOK, Dns
<1>5. \A q \in Op \ {o} : /\ pc'[q] = pc[q] /\ kind'[q] = kind[q] /\ parts'[q] = parts[q]
                         /\ index'[q] = index[q] /\ shown'[q] = shown[q] /\ doc'[q] = doc[q]
  BY <1>1 DEF IInv, TypeOK
<1>6. QED
  BY <1>1, <1>3, <1>4, <1>5, TokensQuiet DEF IInv

LEMMA TokenStep == IInv /\ TokenInv /\ [Next]_vars => TokenInv'
<1> SUFFICES ASSUME IInv, TokenInv, [Next]_vars PROVE TokenInv'
  OBVIOUS
<1>1. CASE UNCHANGED vars
  BY <1>1 DEF vars, opVars, history, TokenInv, LeftByWriters, DocsKnown, KnownTokens, Aimed,
     Hit, GoneBefore, Older, Tokens, open, Written
<1>2. CASE WebRestart \/ DnsRestart
  BY <1>2, RestartsEnd, TokensEnd
<1>3. ASSUME NEW o \in Op,
             \/ \E k \in Web : Receive(o, k)
             \/ \E t \in Token : ReceiveRevoke(o, t)
      PROVE  TokenInv'
  BY <1>3, TokensReceived
<1>4. ASSUME NEW o \in Op, Reject(o) \/ CheckSystem(o) \/ CheckReplica(o)
      PROVE  TokenInv'
  BY <1>4, TokensChecked
<1>5. ASSUME NEW o \in Op, ReadStep(o)
      PROVE  TokenInv'
  BY <1>5, TokensRead
<1>6. ASSUME NEW o \in Op, WriteTmp(o) \/ Truncate(o) \/ Reply(o) \/ Apply(o)
      PROVE  TokenInv'
  BY <1>6, TokensWritten
<1>7. ASSUME NEW o \in Op, Rename(o) \/ WriteFails(o) \/ Fill(o)
      PROVE  TokenInv'
  BY <1>7, WritesOrEnds, TokensReplaced, TokensEnd
<1>8. ASSUME NEW o \in Op, Touch(o) \/ Pull(o)
      PROVE  TokenInv'
  BY <1>8, TokensFetched
<1>9. QED
  BY <1>1, <1>2, <1>3, <1>4, <1>5, <1>6, <1>7, <1>8 DEF Next

(* Revoke: whatever runs between the page's list and the route's read, the *)
(* token that goes is the one beside the button, unless a token up to that *)
(* one has left the file by what somebody else wrote.                      *)
THEOREM RevokesHit == Spec => []RevokesShown
<1>1. TokenInv => RevokesShown
  BY DEF TokenInv, Hit, GoneBefore, RevokesShown, Acked, Written
<1>2. QED
  BY <1>1, TokenInit, TokenStep, Invariance, PTL DEF Spec

-----------------------------------------------------------------------------
(* The file as ConfigStore sees it: who has it open, and for which parts.  *)
LEMMA ClaimQuiet ==
    ASSUME open' = open, \A q \in open : parts'[q] = parts[q],
           UNCHANGED <<file, torn, stale>>
    PROVE  UNCHANGED Store!vars
<1>1. Claim' = Claim
  BY DEF Claim
<1>2. QED
  BY <1>1 DEF Store!vars

LEMMA ClaimOpens ==
    ASSUME IInv, NEW o \in Op, o \notin open, open' = open \cup {o},
           parts' = [parts EXCEPT ![o] = parts'[o]], parts'[o] \in Group,
           stale' = [stale EXCEPT ![o] = IF torn = Nil THEN {} ELSE Part],
           UNCHANGED <<file, torn>>
    PROVE  Store!Open(o)
<1>1. Claim' = [Claim EXCEPT ![o] = parts'[o]]
  BY DEF IInv, TypeOK, Claim
<1>2. QED
  BY <1>1 DEF Store!Open

LEMMA ClaimCloses ==
    ASSUME IInv, NEW os, NEW ps, open' = open \ os, Changes(os, ps), UNCHANGED parts
    PROVE  Store!Changes(os \cap open, ps)
<1>1. Claim' = [q \in Op |-> IF q \in os \cap open THEN {} ELSE Claim[q]]
  BY DEF Claim
<1>2. stale' = [q \in Op |-> IF q \in os \cap open THEN {}
                             ELSE IF q \in open THEN stale[q] \cup ps ELSE stale[q]]
  BY DEF IInv, ClosedMissNothing, Changes
<1>3. open' = open \ (os \cap open)
  OBVIOUS
<1>4. QED
  BY <1>1, <1>2, <1>3 DEF Store!Changes

LEMMA ReplaceSaves ==
    ASSUME IInv, NEW o \in open, Replace(o, "reply")
    PROVE  Store!Save(o)
<1>1. o \in Op /\ Claim[o] = parts[o]
  BY DEF Claim, open
<1>2. file' = doc[o] /\ torn' = Nil /\ Changes({o}, parts[o] \cup stale[o]) /\ UNCHANGED parts
  BY DEF Replace
<1>3. {o} \cap open = {o}
  OBVIOUS
<1>4. Store!Changes({o}, Claim[o] \cup stale[o])
  BY <1>1, <1>2, <1>3, ReplaceKeeps, ClaimCloses
<1>5. file' \in [Part -> Value] /\ \A p \in Part \ (Claim[o] \cup stale[o]) : file'[p] = file[p]
  BY <1>1, <1>2 DEF IInv, TypeOK, Prepared
<1>6. QED
  BY <1>2, <1>4, <1>5 DEF Store!Save

LEMMA EndsClose ==
    ASSUME IInv, NEW os, Ends(os)
    PROVE  Store!Close(os \cap open)
<1>1. /\ open' = open \ os /\ UNCHANGED parts
  BY EndsKeep DEF Ends
<1>2. torn \in os <=> torn \in os \cap open
  BY NilAssumption DEF IInv, TypeOK, Ends, open
<1>3. CASE torn \in os
  <2>1. Store!Changes(os \cap open, Part)
    BY <1>1, <1>3, ClaimCloses DEF Ends
  <2>2. QED
    BY <1>2, <1>3, <2>1 DEF Ends, Store!Close, Empty, Store!Empty
<1>4. CASE torn \notin os
  <2>1. Store!Changes(os \cap open, {})
    BY <1>1, <1>4, ClaimCloses DEF Ends
  <2>2. QED
    BY <1>2, <1>4, <2>1 DEF Ends, Store!Close
<1>5. QED
  BY <1>3, <1>4

LEMMA StoreInit == Init => Store!Init
<1> SUFFICES ASSUME Init PROVE Store!Init
  OBVIOUS
<1>1. file \in [Part -> Value]
  BY InitInv DEF IInv, TypeOK
<1>2. open = {} /\ Claim = [o \in Op |-> {}]
  BY DEF Init, open, Claim
<1>3. QED
  BY <1>1, <1>2 DEF Init, Store!Init

LEMMA StoreStep == IInv /\ [Next]_vars => [Store!Next]_(Store!vars)
<1> SUFFICES ASSUME IInv, [Next]_vars PROVE [Store!Next]_(Store!vars)
  OBVIOUS
<1>0. \A os : os \cap open \in SUBSET Op
  BY DEF open
<1>1. CASE UNCHANGED vars
  <2>1. open' = open /\ UNCHANGED <<file, torn, stale, parts>>
    BY <1>1 DEF vars, opVars, history, open
  <2>2. QED
    BY <2>1, ClaimQuiet
<1>2. CASE WebRestart \/ DnsRestart
  <2>1. PICK os : Ends(os)
    BY <1>2, RestartsEnd
  <2>2. QED
    BY <1>0, <2>1, EndsClose DEF Store!Next
<1>3. ASSUME NEW o \in Op,
             \/ \E k \in Web : Receive(o, k)
             \/ \E t \in Token : ReceiveRevoke(o, t)
             \/ Reject(o) \/ CheckSystem(o) \/ CheckReplica(o)
             \/ Reply(o) \/ Apply(o)
      PROVE  UNCHANGED Store!vars
  <2>1. Quiet(o)
    BY <1>3, ReceiveKeeps, CheckKeeps, ReplyKeeps
  <2>2. open' = open
    BY <2>1, QuietKeeps
  <2>3. \A q \in open : q # o /\ q \in Op
    BY <2>1 DEF Quiet, open
  <2>4. QED
    BY <2>1, <2>2, <2>3, ClaimQuiet DEF Quiet
<1>4. ASSUME NEW o \in Op, ReadStep(o)
      PROVE  Store!Next
  <2>1. PICK ps, c : Prepares(o, ps, c)
    BY <1>4, ReadStepsPrepare DEF IInv
  <2>2. /\ o \notin open /\ open' = open \cup {o}
        /\ parts' = [parts EXCEPT ![o] = ps] /\ ps \in Group
        /\ stale' = [stale EXCEPT ![o] = IF torn = Nil THEN {} ELSE Part]
        /\ UNCHANGED <<file, torn>>
    BY <2>1, PrepareOpens DEF IInv, Prepares
  <2>3. parts'[o] = ps
    BY <2>2 DEF IInv, TypeOK
  <2>4. QED
    BY <2>2, <2>3, ClaimOpens DEF Store!Next
<1>5. ASSUME NEW o \in Op, WriteTmp(o) \/ Truncate(o)
      PROVE  [Store!Next]_(Store!vars)
  <2>1. /\ o \in open /\ open' = open /\ UNCHANGED <<file, parts, stale>>
        /\ \/ torn' = torn
           \/ torn = Nil /\ torn' = o
    BY <1>5, WriteKeeps
  <2>2. CASE torn' = torn
    BY <2>1, <2>2, ClaimQuiet
  <2>3. CASE torn = Nil /\ torn' = o
    <3>1. Claim' = Claim
      BY <2>1 DEF Claim
    <3>2. QED
      BY <2>1, <2>3, <3>1 DEF Store!Empties, Store!Next
  <2>4. QED
    BY <2>1, <2>2, <2>3
<1>6. ASSUME NEW o \in Op, Rename(o) \/ WriteFails(o) \/ Fill(o)
      PROVE  Store!Next
  BY <1>0, <1>6, WritesOrEnds, ReplaceSaves, EndsClose DEF Store!Next
<1>7. ASSUME NEW o \in Op, Touch(o) \/ Pull(o)
      PROVE  Store!Next
  <2>1. Store!Open(o)
    BY <1>7, FetchKeeps, ClaimOpens
  <2>2. QED
    BY <2>1 DEF Store!Next
<1>8. QED
  BY <1>1, <1>2, <1>3, <1>4, <1>5, <1>6, <1>7 DEF Next

(* The routes, the writers in place and the restarts together implement    *)
(* the store of whole configurations that ConfigStore describes.           *)
THEOREM Implements == Spec => StoreSpec
  BY StoreInit, StoreStep, Invariance, PTL DEF Spec, StoreSpec, Store!Spec

-----------------------------------------------------------------------------
(* Induction over the places of a list.  What fails first has a least      *)
(* place.                                                                  *)
LEMMA LessWellFounded == IsWellFoundedOn({p \in Nat \X Nat : p[1] < p[2]}, Nat)
BY NatLessThanWellFounded DEF OpToRel

LEMMA Least == ASSUME NEW T \in SUBSET Nat, T # {} PROVE \E x \in T : \A y \in T : x <= y
<1> DEFINE R == {p \in Nat \X Nat : p[1] < p[2]}
<1>1. IsWellFoundedOn(R, Nat)
  BY LessWellFounded
<1> HIDE DEF R
<1>2. \E x \in T : \A y \in T : ~(<<y, x>> \in R)
  BY <1>1, WFMin
<1>3. PICK x \in T : \A y \in T : ~(<<y, x>> \in R)
  BY <1>2
<1>4. ASSUME NEW y \in T PROVE x <= y
  <2>1. ~(<<y, x>> \in R)
    BY <1>3
  <2>2. ~(y < x)
    BY <2>1 DEF R
  <2> QED
    BY <2>2
<1> QED
  BY <1>4

LEMMA Places ==
    ASSUME NEW N \in Nat, NEW T, T \subseteq 0 .. N, 0 \in T,
           \A n \in T : n < N => n + 1 \in T
    PROVE  T = 0 .. N
<1> SUFFICES ASSUME (0 .. N) \ T # {} PROVE FALSE
  OBVIOUS
<1>1. (0 .. N) \ T \in SUBSET Nat
  OBVIOUS
<1>2. PICK x \in (0 .. N) \ T : \A y \in (0 .. N) \ T : x <= y
  BY <1>1, Least
<1>3. x # 0
  OBVIOUS
<1>4. x - 1 \in 0 .. N /\ x - 1 < x
  BY <1>3
<1>5. x - 1 \in T
  BY <1>2, <1>4
<1> QED
  BY <1>2, <1>4, <1>5

(* The list as Keep makes it up to each place.                             *)
KeepStep(rows, places, m, f) ==
    f = [n \in 0 .. m |->
           IF n = 0 THEN <<>>
           ELSE IF n \in places THEN Append(f[n - 1], rows[n]) ELSE f[n - 1]]

LEMMA KeepExists ==
    ASSUME NEW rows, NEW places, NEW N \in Nat
    PROVE  \E f : KeepStep(rows, places, N, f)
<1> DEFINE T == {m \in 0 .. N : \E f : KeepStep(rows, places, m, f)}
<1>1. 0 \in T
  <2>1. KeepStep(rows, places, 0, [n \in 0 .. 0 |-> <<>>])
    BY DEF KeepStep
  <2> QED
    BY <2>1
<1>2. ASSUME NEW m \in T, m < N PROVE m + 1 \in T
  <2>1. PICK f : KeepStep(rows, places, m, f)
    OBVIOUS
  <2> DEFINE new == IF m + 1 \in places THEN Append(f[m], rows[m + 1]) ELSE f[m]
             g == [n \in 0 .. m + 1 |-> IF n = m + 1 THEN new ELSE f[n]]
  <2>2. m \in Nat
    OBVIOUS
  <2>3. \A n \in 0 .. m : g[n] = f[n]
    BY <2>2
  <2>4. g[m + 1] = new
    BY <2>2
  <2>5. ASSUME NEW n \in 0 .. m + 1
        PROVE  g[n] = IF n = 0 THEN <<>>
                      ELSE IF n \in places THEN Append(g[n - 1], rows[n]) ELSE g[n - 1]
    <3>1. CASE n = m + 1
      <4>1. n # 0 /\ n - 1 = m /\ g[n - 1] = f[m]
        BY <3>1, <2>2, <2>3
      <4> QED
        BY <3>1, <4>1, <2>4
    <3>2. CASE n # m + 1
      <4>1. n \in 0 .. m
        BY <3>2, <2>2
      <4>2. g[n] = f[n]
        BY <4>1, <2>3
      <4>3. n # 0 => g[n - 1] = f[n - 1]
        BY <4>1, <2>3, <2>2
      <4>4. f[n] = IF n = 0 THEN <<>>
                   ELSE IF n \in places THEN Append(f[n - 1], rows[n]) ELSE f[n - 1]
        BY <4>1, <2>1 DEF KeepStep
      <4> HIDE DEF g
      <4> QED
        BY <4>2, <4>3, <4>4
    <3> QED
      BY <3>1, <3>2
  <2>6. KeepStep(rows, places, m + 1, g)
    BY <2>5 DEF KeepStep
  <2>7. m + 1 \in 0 .. N
    BY <1>2
  <2> HIDE DEF g
  <2> QED
    BY <2>6, <2>7
<1> HIDE DEF T
<1>3. T \subseteq 0 .. N
  BY DEF T
<1>4. T = 0 .. N
  BY <1>1, <1>2, <1>3, Places
<1> QED
  BY <1>4 DEF T

LEMMA KeepDef ==
    ASSUME NEW S, NEW rows \in Seq(S), NEW places
    PROVE  \E f : KeepStep(rows, places, Len(rows), f) /\ Keep(rows, places) = f[Len(rows)]
<1>1. Len(rows) \in Nat
  OBVIOUS
<1>2. \E f : KeepStep(rows, places, Len(rows), f)
  BY <1>1, KeepExists
<1> QED
  BY <1>2 DEF Keep, KeepStep

(* Up to each place, it is a list of the rows that are kept until there.   *)
KeptUpTo(S, rows, places, f, n) ==
    /\ f[n] \in Seq(S)
    /\ {f[n][j] : j \in DOMAIN f[n]} = {rows[i] : i \in places \cap (1 .. n)}
    /\ (1 .. n) \subseteq places => Len(f[n]) = n /\ \A i \in 1 .. n : f[n][i] = rows[i]

LEMMA KeepUpTo ==
    ASSUME NEW S, NEW rows \in Seq(S), NEW places, NEW f,
           KeepStep(rows, places, Len(rows), f)
    PROVE  \A n \in 0 .. Len(rows) : KeptUpTo(S, rows, places, f, n)
<1> DEFINE N == Len(rows)
           Good(n) == KeptUpTo(S, rows, places, f, n)
           T == {n \in 0 .. N : Good(n)}
<1>n. N \in Nat
  OBVIOUS
<1>1. Good(0)
  <2>1. f[0] = <<>>
    BY <1>n DEF KeepStep
  <2> QED
    BY <2>1 DEF KeptUpTo
<1>2. ASSUME NEW n \in 0 .. N, n < N, Good(n) PROVE Good(n + 1)
  <2> USE DEF KeptUpTo
  <2>1. /\ n + 1 \in 0 .. N /\ n + 1 # 0 /\ (n + 1) - 1 = n /\ n \in Nat
        /\ n + 1 \in 1 .. N
    BY <1>n, <1>2
  <2>2. f[n + 1] = IF n + 1 \in places THEN Append(f[n], rows[n + 1]) ELSE f[n]
    BY <2>1 DEF KeepStep
  <2>3. rows[n + 1] \in S
    BY <2>1
  <2>4. 1 .. n + 1 = (1 .. n) \cup {n + 1}
    BY <2>1
  <2>5. CASE n + 1 \in places
    <3>1. f[n + 1] = Append(f[n], rows[n + 1])
      BY <2>2, <2>5
    <3>2. /\ f[n + 1] \in Seq(S) /\ Len(f[n + 1]) = Len(f[n]) + 1
          /\ f[n + 1][Len(f[n]) + 1] = rows[n + 1]
          /\ \A j \in 1 .. Len(f[n]) : f[n + 1][j] = f[n][j]
      BY <3>1, <2>3, <1>2
    <3>3. {f[n + 1][j] : j \in DOMAIN f[n + 1]} = {f[n][j] : j \in DOMAIN f[n]} \cup {rows[n + 1]}
      <4>1. DOMAIN f[n] = 1 .. Len(f[n]) /\ Len(f[n]) \in Nat
        BY <1>2
      <4>2. DOMAIN f[n + 1] = (1 .. Len(f[n])) \cup {Len(f[n]) + 1}
        BY <3>2, <4>1
      <4> QED
        BY <3>2, <4>1, <4>2
    <3>4. {rows[i] : i \in places \cap (1 .. n + 1)}
             = {rows[i] : i \in places \cap (1 .. n)} \cup {rows[n + 1]}
      BY <2>4, <2>5
    <3>5. ASSUME (1 .. n + 1) \subseteq places
          PROVE  Len(f[n + 1]) = n + 1 /\ \A i \in 1 .. n + 1 : f[n + 1][i] = rows[i]
      <4>1. Len(f[n]) = n /\ \A i \in 1 .. n : f[n][i] = rows[i]
        BY <3>5, <2>4, <1>2
      <4> QED
        BY <4>1, <3>2, <2>4
    <3> QED
      BY <3>2, <3>3, <3>4, <3>5, <1>2
  <2>6. CASE n + 1 \notin places
    <3>1. places \cap (1 .. n + 1) = places \cap (1 .. n)
      BY <2>4, <2>6
    <3>2. ~((1 .. n + 1) \subseteq places)
      BY <2>1, <2>6
    <3> QED
      BY <3>1, <3>2, <2>2, <2>6, <1>2
  <2> QED
    BY <2>5, <2>6
<1> HIDE DEF Good
<1>3. T = 0 .. N
  <2>1. T \subseteq 0 .. N /\ 0 \in T
    BY <1>1, <1>n
  <2>2. \A n \in T : n < N => n + 1 \in T
    BY <1>2, <1>n
  <2> QED
    BY <1>n, <2>1, <2>2, Places
<1> QED
  BY <1>3 DEF Good

(* Keep returns a list of such rows, of just those at the places, and the  *)
(* whole list when every place is kept.                                    *)
LEMMA KeepRows ==
    ASSUME NEW S, NEW rows \in Seq(S), NEW places
    PROVE  /\ Keep(rows, places) \in Seq(S)
           /\ ToSet(Keep(rows, places)) = {rows[i] : i \in places \cap DOMAIN rows}
           /\ DOMAIN rows \subseteq places => Keep(rows, places) = rows
<1>1. PICK f : KeepStep(rows, places, Len(rows), f) /\ Keep(rows, places) = f[Len(rows)]
  BY KeepDef
<1>2. Len(rows) \in 0 .. Len(rows) /\ DOMAIN rows = 1 .. Len(rows)
  OBVIOUS
<1>3. KeptUpTo(S, rows, places, f, Len(rows))
  BY <1>1, <1>2, KeepUpTo
<1>4. DOMAIN rows \subseteq places => Keep(rows, places) = rows
  BY <1>1, <1>2, <1>3 DEF KeptUpTo
<1> QED
  BY <1>1, <1>2, <1>3, <1>4 DEF ToSet, KeptUpTo

LEMMA KeepThose ==
    ASSUME NEW S, NEW T, NEW rows \in Seq(S), NEW places,
           \A i \in places \cap DOMAIN rows : rows[i] \in T
    PROVE  Keep(rows, places) \in Seq(T)
<1> DEFINE kept == Keep(rows, places)
<1>1. kept \in Seq(S) /\ ToSet(kept) = {rows[i] : i \in places \cap DOMAIN rows}
  BY KeepRows
<1> HIDE DEF kept
<1>2. \A j \in DOMAIN kept : kept[j] \in T
  BY <1>1 DEF ToSet
<1>3. kept \in [1 .. Len(kept) -> T] /\ Len(kept) \in Nat
  BY <1>1, <1>2
<1>4. kept \in Seq(T)
  BY <1>3
<1> QED
  BY <1>4 DEF kept

LEMMA MoreThan ==
    ASSUME NEW S, NEW T, NEW rows \in Seq(S), \A x \in S : x \in T
    PROVE  rows \in Seq(T)
OBVIOUS

LEMMA NoRows == ASSUME NEW S PROVE <<>> \in Seq(S)
OBVIOUS

(* Distinct returns a list of such rows, the whole list when no two have   *)
(* the same key, and otherwise one for every key.                          *)
LEMMA DistinctRows ==
    ASSUME NEW S, NEW rows \in Seq(S), NEW key, DOMAIN key = DOMAIN rows
    PROVE  /\ Distinct(rows, key) \in Seq(S)
           /\ NoTwo(key) => Distinct(rows, key) = rows
<1> DEFINE places == {n \in DOMAIN rows : \A i \in 1 .. n - 1 : key[i] # key[n]}
<1>1. Distinct(rows, key) = Keep(rows, places)
  BY DEF Distinct
<1>2. NoTwo(key) => DOMAIN rows \subseteq places
  <2> SUFFICES ASSUME NoTwo(key), NEW n \in DOMAIN rows, NEW i \in 1 .. n - 1
               PROVE  key[i] # key[n]
    OBVIOUS
  <2>1. i \in DOMAIN rows /\ i # n
    OBVIOUS
  <2> QED
    BY <2>1 DEF NoTwo
<1> HIDE DEF places
<1> QED
  BY <1>1, <1>2, KeepRows

LEMMA DistinctSame ==
    ASSUME NEW S, NEW rows \in Seq(S)
    PROVE  ToSet(Distinct(rows, rows)) = ToSet(rows)
<1> DEFINE places == {n \in DOMAIN rows : \A i \in 1 .. n - 1 : rows[i] # rows[n]}
<1>1. Distinct(rows, rows) = Keep(rows, places)
  BY DEF Distinct
<1>2. ToSet(Keep(rows, places)) = {rows[i] : i \in places \cap DOMAIN rows}
  BY KeepRows
<1>3. ASSUME NEW i \in DOMAIN rows PROVE \E n \in places \cap DOMAIN rows : rows[n] = rows[i]
  <2> DEFINE T == {n \in DOMAIN rows : rows[n] = rows[i]}
  <2>1. T \in SUBSET Nat /\ T # {}
    OBVIOUS
  <2>2. PICK n \in T : \A m \in T : n <= m
    BY <2>1, Least
  <2>3. n \in DOMAIN rows /\ rows[n] = rows[i]
    OBVIOUS
  <2>4. ASSUME NEW j \in 1 .. n - 1, rows[j] = rows[n] PROVE FALSE
    <3>1. j \in T
      BY <2>3, <2>4
    <3>2. n <= j
      BY <3>1, <2>2
    <3> QED
      BY <3>2, <2>3
  <2> QED
    BY <2>3, <2>4
<1> HIDE DEF places
<1> QED
  BY <1>1, <1>2, <1>3 DEF ToSet

-----------------------------------------------------------------------------
(* What is said of the rows of a list, at its places.                      *)
LEMMA AllRows ==
    ASSUME NEW rows
    PROVE  /\ \A i \in DOMAIN rows : rows[i] \in ToSet(rows)
           /\ \A r \in ToSet(rows) : \E i \in DOMAIN rows : rows[i] = r
BY DEF ToSet

LEMMA RowsOf ==
    ASSUME NEW S, NEW rows \in Seq(S)
    PROVE  /\ Len(rows) \in Nat /\ DOMAIN rows = 1 .. Len(rows)
           /\ \A i \in DOMAIN rows : rows[i] \in S
           /\ \A r \in ToSet(rows) : r \in S
BY DEF ToSet

LEMMA SomeRow ==
    ASSUME NEW S, NEW rows \in Seq(S), rows # <<>>
    PROVE  \E r \in ToSet(rows) : TRUE
<1>1. 1 \in DOMAIN rows
  OBVIOUS
<1> QED
  BY <1>1, AllRows

LEMMA ListOf ==
    ASSUME NEW S, NEW N \in Nat, NEW f \in [1 .. N -> S]
    PROVE  f \in Seq(S)
OBVIOUS

LEMMA Words ==
    /\ "" \in Word /\ "0" \in Word /\ "4" \in Word /\ "10" \in Word /\ "99" \in Word
    /\ "5s" \in Word /\ "9s" \in Word /\ "r1" \in Word /\ "***" \in Word /\ "nxdomain" \in Word
    /\ "64" \in Word /\ "r2" \in Word /\ "warning" \in Word
    /\ "debug" \in Word /\ "true" \in Word /\ "false" \in Word /\ "n" \in Word /\ "u" \in Word /\ "U" \in Word /\ "d" \in Word /\ "bad" \in Word
BY DEF Word, Flags, Numerals, Durations

LEMMA AbsentWord == Absent \notin Word
<1>1. "timeout" \in Kind /\ InFile("timeout") = Word
  BY DEF Kind, Texts, InFile, Numbers
<1> QED
  BY <1>1, AbsentAssumption

LEMMA LowerWords ==
    ASSUME NEW t \in Word
    PROVE  /\ Lower(t) \in Word
           /\ Lower(Lower(t)) = Lower(t)
           /\ Lower(t) = "" <=> t = ""
<1>1. CASE t = "N"
  BY <1>1, Words DEF Lower
<1>2. CASE t = "U"
  BY <1>2, Words DEF Lower
<1>3. CASE t = "D"
  BY <1>3, Words DEF Lower
<1>4. CASE t \notin {"N", "U", "D"}
  BY <1>4 DEF Lower
<1> QED
  BY <1>1, <1>2, <1>3, <1>4

LEMMA NamedRows ==
    ASSUME NEW U \in SUBSET Word, NEW rows \in Seq([name : Word, url : U])
    PROVE  /\ Named(rows) \in Seq([name : Word, url : U])
           /\ DOMAIN Named(rows) = DOMAIN rows
           /\ \A i \in DOMAIN rows : Named(rows)[i].url = rows[i].url
           /\ {r.url : r \in ToSet(Named(rows))} = {r.url : r \in ToSet(rows)}
           /\ Named(Named(rows)) = Named(rows)
<1> DEFINE named(i) == Source(Or(rows[i].name, rows[i].url), rows[i].url)
<1>1. \A i \in DOMAIN rows : rows[i] \in [name : Word, url : U]
  BY RowsOf
<1>2. \A i \in DOMAIN rows : named(i) \in [name : Word, url : U]
  BY <1>1 DEF Source, Or
<1>3. Named(rows) = [i \in 1 .. Len(rows) |-> named(i)] /\ DOMAIN rows = 1 .. Len(rows)
  BY RowsOf DEF Named
<1>4. Named(rows) \in Seq([name : Word, url : U])
  <2>1. Named(rows) \in [1 .. Len(rows) -> [name : Word, url : U]] /\ Len(rows) \in Nat
    BY <1>2, <1>3
  <2> QED
    BY <2>1, ListOf
<1>5. \A i \in DOMAIN rows : Named(rows)[i].url = rows[i].url
  BY <1>3 DEF Source
<1>6. {r.url : r \in ToSet(Named(rows))} = {r.url : r \in ToSet(rows)}
  BY <1>3, <1>5 DEF ToSet
<1>7. \A i \in DOMAIN rows : Or(named(i).name, named(i).url) = named(i).name
  BY <1>1 DEF Source, Or
<1>8. \A i \in DOMAIN rows : Source(named(i).name, named(i).url) = named(i)
  BY DEF Source
<1>9. Named(Named(rows)) = Named(rows)
  BY <1>3, <1>7, <1>8 DEF Named
<1> QED
  BY <1>3, <1>4, <1>5, <1>6, <1>9

LEMMA LoweredRows ==
    ASSUME NEW N \in {Word, Filled},
           NEW rows \in Seq([name : N, type : Word, value : N])
    PROVE  /\ Lowered(rows) \in Seq([name : N, type : Word, value : N])
           /\ DOMAIN Lowered(rows) = DOMAIN rows
           /\ \A i \in DOMAIN rows :
                 Lowered(rows)[i] = Record(Lower(rows[i].name), rows[i].type, rows[i].value)
           /\ Lowered(Lowered(rows)) = Lowered(rows)
<1> DEFINE R == [name : N, type : Word, value : N]
           lowered(i) == Record(Lower(rows[i].name), rows[i].type, rows[i].value)
<1>1. \A i \in DOMAIN rows : rows[i] \in R
  BY RowsOf
<1>2. \A i \in DOMAIN rows : rows[i].name \in Word /\ Lower(rows[i].name) \in N
  BY <1>1, LowerWords DEF Filled
<1>d. DOMAIN rows = 1 .. Len(rows) /\ Len(rows) \in Nat
  BY RowsOf
<1>3. ASSUME NEW i \in DOMAIN rows PROVE lowered(i) \in R
  <2>1. rows[i] \in R /\ Lower(rows[i].name) \in N
    BY <1>1, <1>2
  <2> QED
    BY <2>1 DEF Record
<1>4. Lowered(rows) = [i \in 1 .. Len(rows) |-> lowered(i)] /\ DOMAIN rows = 1 .. Len(rows)
  BY <1>d DEF Lowered
<1>5. Lowered(rows) \in Seq(R)
  <2> HIDE DEF R, lowered
  <2>1. Lowered(rows) \in [1 .. Len(rows) -> R] /\ Len(rows) \in Nat
    BY <1>3, <1>4, <1>d
  <2> QED
    BY <2>1, ListOf
<1>6. \A i \in DOMAIN rows :
         Record(Lower(lowered(i).name), lowered(i).type, lowered(i).value) = lowered(i)
  BY <1>2, LowerWords DEF Record
<1>7. Lowered(Lowered(rows)) = Lowered(rows)
  BY <1>4, <1>6 DEF Lowered
<1> QED
  BY <1>4, <1>5, <1>7

-----------------------------------------------------------------------------
(* What a form holds, and what a file and the environment hold.            *)
InForm(k) ==
    CASE k \in {"reuse_port", "serve_stale"} -> Flags
      [] k = "level" -> {"debug", "warning"}
      [] k = "window" -> [on : Flags, window : Word]
      [] k = "clients" -> Seq([name : Word, ip : Word])
      [] k = "sources" -> Seq([name : Word, url : Word])
      [] k = "upstreams" -> Seq([address : Word, protocol : Word])
      [] k = "records" -> Seq([name : Word, type : Word, value : Word])
      [] k = "domains" -> Seq(Filled)
      [] k = "pause" -> [on : Flags, start : Times, end : Times, days : SUBSET (0 .. 6)]
      [] k = "family" -> [on : Flags, start : Times, end : Times,
                          services : SUBSET Word, domains : {{}}]
      [] k = "hook" -> [limit : Word, targets : Seq(Word)]
      [] k = "usage" -> [on : Flags, url : Word, time : Times]
      [] OTHER -> Word

File(k) == {Absent} \cup InFile(k)

(* What a save of a form makes of the override.                            *)
Saved(k, f, o) == RemovePasswordFields(k, Stored(k, Sent(k, f), o))

Env(k) == {Absent} \cup (IF k = "disk" THEN {"4"} ELSE IF k = "address" THEN {"r2"} ELSE {})

(* The field and what the files and the environment hold of it.            *)
Held == /\ field \in Kind
        /\ default \in File(field)
        /\ override \in File(field)
        /\ env \in Env(field)

(* What a save of a form f comes to: it is only refused where it may be;   *)
(* otherwise a file can hold what it stores, the page then shows what was  *)
(* sent, and the service runs on as before when the page was untouched.    *)
Well(f, b, v, m) ==
    /\ Refused(field, b) => field \in {"backoff", "usage"}
    /\ ~Refused(field, b) =>
          /\ v \in File(field)
          /\ Read(field, m, env) = b \/ Excused(field, b)
          /\ f = Read(field, Effective, env) =>
                Disturbed \/ Runs(field, m, env) = Runs(field, Effective, env)
SavesWell(f) ==
    LET v == Saved(field, f, override)
    IN  Accepted(field, f) => Well(f, Sent(field, f), v, Merge(default, v))

(* What the fields of one text have to say of Excused and Disturbed.       *)
TextExcuse(b) ==
    \/ field = "password" \/ env # Absent \/ b = ""
    \/ field \in {"lru_size", "disk"} /\ b = "0"

TextDisturb ==
    \/ field \in {"reuse_port", "listeners", "hot_rate"} /\ Effective = Absent
    \/ field = "disk" /\ env = Absent /\ override = "0"
    \/ field = "password" /\ override # Absent

LEMMA TextSaves ==
    ASSUME Held, field \in Texts, NEW f \in InForm(field)
    PROVE  Now \in InForm(field) /\ SavesWell(f)
<1> DEFINE b == Sent(field, f)
           v == Saved(field, f, override)
           m == Merge(default, v)
<1>1. /\ m = IF v = Absent THEN default ELSE v
      /\ Effective = IF override = Absent THEN default ELSE override
      /\ Absent \notin Word
  BY AbsentWord DEF Effective, Merge, Given
<1>2. env # Absent => Runs(field, m, env) = env /\ Runs(field, Effective, env) = env
  BY DEF Runs
<1>3. (TextExcuse(b) => Excused(field, b)) /\ (TextDisturb => Disturbed)
  BY DEF TextExcuse, Excused, TextDisturb, Disturbed
<1> SUFFICES Read(field, Effective, env) \in InForm(field) /\ (Accepted(field, f) => Well(f, b, v, m))
  BY DEF Now, SavesWell
<1> HIDE DEF b, v, m
<1>4. CASE field = "timeout"
  <2>1. File(field) = Word \cup {Absent} /\ InForm(field) = Word /\ env \in {Absent}
    BY <1>4 DEF Held, Env, File, InFile, InForm, Numbers, Numerals, Durations, Flags
  <2>2. /\ b = f
        /\ v = Or(f, "5s")
        /\ Accepted(field, f) => f \in {"5s", "9s", ""}
        /\ ~Refused(field, b)
    BY <1>4 DEF v, b, Sent, Saved, RemovePasswordFields, Stored, StoredText, StoredNumber, Accepted,
       AcceptedText, Refused, RefusedBlocklists, Texts, Numbers, Numerals, Durations
  <2>3. /\ Read(field, m, env) = Or(m, "5s")
        /\ Read(field, Effective, env) = Or(Effective, "5s")
        /\ env = Absent => Runs(field, m, env) = Or(m, "5s")
        /\ env = Absent => Runs(field, Effective, env) = Or(Effective, "5s")
    BY <1>4 DEF Read, ReadText, Runs, Texts, Numbers
  <2>4. default \in Word \cup {Absent} /\ override \in Word \cup {Absent} /\ f \in Word
    BY <2>1 DEF Held
  <2> QED
    BY <1>4, <2>1, <2>2, <2>3, <2>4, <1>1, <1>2, <1>3, Words DEF Well, TextExcuse, TextDisturb, Or, Given
<1>5. CASE field = "interval"
  <2>1. File(field) = Word \cup {Absent} /\ InForm(field) = Word /\ env \in {Absent}
    BY <1>5 DEF Held, Env, File, InFile, InForm, Numbers, Numerals, Durations, Flags
  <2>2. /\ b = f
        /\ v = Or(f, override)
        /\ Accepted(field, f) => f \in {"5s", "9s", ""}
        /\ ~Refused(field, b)
    BY <1>5 DEF v, b, Sent, Saved, RemovePasswordFields, Stored, StoredText, StoredNumber, Accepted,
       AcceptedText, Refused, RefusedBlocklists, Texts, Numbers, Numerals, Durations
  <2>3. /\ Read(field, m, env) = Or(m, "5s")
        /\ Read(field, Effective, env) = Or(Effective, "5s")
        /\ env = Absent => Runs(field, m, env) = Or(m, "5s")
        /\ env = Absent => Runs(field, Effective, env) = Or(Effective, "5s")
    BY <1>5 DEF Read, ReadText, Runs, Texts, Numbers
  <2>4. default \in Word \cup {Absent} /\ override \in Word \cup {Absent} /\ f \in Word
    BY <2>1 DEF Held
  <2> QED
    BY <1>5, <2>1, <2>2, <2>3, <2>4, <1>1, <1>2, <1>3, Words DEF Well, TextExcuse, TextDisturb, Or, Given
<1>6. CASE field = "cap"
  <2>1. File(field) = {"5s", "9s", Absent} /\ InForm(field) = Word /\ env \in {Absent}
    BY <1>6 DEF Held, Env, File, InFile, InForm, Numbers, Numerals, Durations, Flags
  <2>2. /\ b = f
        /\ v = Or(f, Absent)
        /\ Accepted(field, f) => f \in {"5s", "9s", ""}
        /\ ~Refused(field, b)
    BY <1>6 DEF v, b, Sent, Saved, RemovePasswordFields, Stored, StoredText, StoredNumber, Accepted,
       AcceptedText, Refused, RefusedBlocklists, Texts, Numbers, Numerals, Durations
  <2>3. /\ Read(field, m, env) = Or(m, "")
        /\ Read(field, Effective, env) = Or(Effective, "")
        /\ env = Absent => Runs(field, m, env) = Or(m, "")
        /\ env = Absent => Runs(field, Effective, env) = Or(Effective, "")
    BY <1>6 DEF Read, ReadText, Runs, Texts, Numbers
  <2>4. default \in {"5s", "9s", Absent} /\ override \in {"5s", "9s", Absent} /\ f \in Word
    BY <2>1 DEF Held
  <2> QED
    BY <1>6, <2>1, <2>2, <2>3, <2>4, <1>1, <1>2, <1>3, Words DEF Well, TextExcuse, TextDisturb, Or, Given
<1>7. CASE field = "backoff"
  <2>1. File(field) = Word \cup {Absent} /\ InForm(field) = Word /\ env \in {Absent}
    BY <1>7 DEF Held, Env, File, InFile, InForm, Numbers, Numerals, Durations, Flags
  <2>2. /\ b = Or(f, "5s")
        /\ v = Or(f, "5s")
    BY <1>7 DEF v, b, Sent, Saved, RemovePasswordFields, Stored, StoredText, StoredNumber, Accepted,
       AcceptedText, Refused, RefusedBlocklists, Texts, Numbers, Numerals, Durations
  <2>3. /\ Read(field, m, env) = Or(m, "5s")
        /\ Read(field, Effective, env) = Or(Effective, "5s")
        /\ env = Absent => Runs(field, m, env) = Or(m, "5s")
        /\ env = Absent => Runs(field, Effective, env) = Or(Effective, "5s")
    BY <1>7 DEF Read, ReadText, Runs, Texts, Numbers
  <2>4. default \in Word \cup {Absent} /\ override \in Word \cup {Absent} /\ f \in Word
    BY <2>1 DEF Held
  <2> QED
    BY <1>7, <2>1, <2>2, <2>3, <2>4, <1>1, <1>2, <1>3, Words DEF Well, TextExcuse, TextDisturb, Or, Given
<1>8. CASE field = "listeners"
  <2>1. File(field) = {"0", "4", "10", "99", "64", Absent} /\ InForm(field) = Word /\ env \in {Absent}
    BY <1>8 DEF Held, Env, File, InFile, InForm, Numbers, Numerals, Durations, Flags
  <2>2. /\ b = f
        /\ v = IF f \in {"", "bad", "0"} THEN "10" ELSE IF f = "99" THEN "64" ELSE f
        /\ Accepted(field, f) => f \in {"", "4", "10"}
        /\ ~Refused(field, b)
    BY <1>8 DEF v, b, Sent, Saved, RemovePasswordFields, Stored, StoredText, StoredNumber, Accepted,
       AcceptedText, Refused, RefusedBlocklists, Texts, Numbers, Numerals, Durations
  <2>3. /\ Read(field, m, env) = Given(m, "10")
        /\ Read(field, Effective, env) = Given(Effective, "10")
        /\ env = Absent => Runs(field, m, env) = (IF m \in {Absent, "0"} THEN "auto" ELSE m)
        /\ env = Absent => Runs(field, Effective, env) = (IF Effective \in {Absent, "0"} THEN "auto" ELSE Effective)
    BY <1>8 DEF Read, ReadText, Runs, Texts, Numbers
  <2>4. default \in {"0", "4", "10", "99", "64", Absent} /\ override \in {"0", "4", "10", "99", "64", Absent} /\ f \in Word
    BY <2>1 DEF Held
  <2> QED
    BY <1>8, <2>1, <2>2, <2>3, <2>4, <1>1, <1>2, <1>3, Words DEF Well, TextExcuse, TextDisturb, Or, Given
<1>9. CASE field = "lru_size"
  <2>1. File(field) = {"0", "4", "10", "99", "64", Absent} /\ InForm(field) = Word /\ env \in {Absent}
    BY <1>9 DEF Held, Env, File, InFile, InForm, Numbers, Numerals, Durations, Flags
  <2>2. /\ b = f
        /\ v = IF f \in {"", "bad", "0"} THEN "10" ELSE f
        /\ Accepted(field, f) => f \in {"", "0", "4", "10", "99"}
        /\ ~Refused(field, b)
    BY <1>9 DEF v, b, Sent, Saved, RemovePasswordFields, Stored, StoredText, StoredNumber, Accepted,
       AcceptedText, Refused, RefusedBlocklists, Texts, Numbers, Numerals, Durations
  <2>3. /\ Read(field, m, env) = Given(m, "10")
        /\ Read(field, Effective, env) = Given(Effective, "10")
        /\ env = Absent => Runs(field, m, env) = (IF m \in {Absent, "0"} THEN "10" ELSE m)
        /\ env = Absent => Runs(field, Effective, env) = (IF Effective \in {Absent, "0"} THEN "10" ELSE Effective)
    BY <1>9 DEF Read, ReadText, Runs, Texts, Numbers
  <2>4. default \in {"0", "4", "10", "99", "64", Absent} /\ override \in {"0", "4", "10", "99", "64", Absent} /\ f \in Word
    BY <2>1 DEF Held
  <2> QED
    BY <1>9, <2>1, <2>2, <2>3, <2>4, <1>1, <1>2, <1>3, Words DEF Well, TextExcuse, TextDisturb, Or, Given
<1>10. CASE field = "max_keys"
  <2>1. File(field) = {"0", "4", "10", "99", "64", Absent} /\ InForm(field) = Word /\ env \in {Absent}
    BY <1>10 DEF Held, Env, File, InFile, InForm, Numbers, Numerals, Durations, Flags
  <2>2. /\ b = f
        /\ v = IF f = "" THEN Given(override, "10") ELSE IF f = "bad" THEN "10" ELSE f
        /\ Accepted(field, f) => f \in {"", "0", "4", "10", "99"}
        /\ ~Refused(field, b)
    BY <1>10 DEF v, b, Sent, Saved, RemovePasswordFields, Stored, StoredText, StoredNumber, Accepted,
       AcceptedText, Refused, RefusedBlocklists, Texts, Numbers, Numerals, Durations
  <2>3. /\ Read(field, m, env) = Given(m, "10")
        /\ Read(field, Effective, env) = Given(Effective, "10")
        /\ env = Absent => Runs(field, m, env) = (IF m \in {Absent, "0"} THEN "10" ELSE m)
        /\ env = Absent => Runs(field, Effective, env) = (IF Effective \in {Absent, "0"} THEN "10" ELSE Effective)
    BY <1>10 DEF Read, ReadText, Runs, Texts, Numbers
  <2>4. default \in {"0", "4", "10", "99", "64", Absent} /\ override \in {"0", "4", "10", "99", "64", Absent} /\ f \in Word
    BY <2>1 DEF Held
  <2> QED
    BY <1>10, <2>1, <2>2, <2>3, <2>4, <1>1, <1>2, <1>3, Words DEF Well, TextExcuse, TextDisturb, Or, Given
<1>11. CASE field = "max_inflight"
  <2>1. File(field) = {"0", "4", "10", "99", "64", Absent} /\ InForm(field) = Word /\ env \in {Absent}
    BY <1>11 DEF Held, Env, File, InFile, InForm, Numbers, Numerals, Durations, Flags
  <2>2. /\ b = f
        /\ v = IF f \in {"4", "10", "99"} THEN f ELSE override
        /\ Accepted(field, f) => f \in {"", "4", "10", "99"}
        /\ ~Refused(field, b)
    BY <1>11 DEF v, b, Sent, Saved, RemovePasswordFields, Stored, StoredText, StoredNumber, Accepted,
       AcceptedText, Refused, RefusedBlocklists, Texts, Numbers, Numerals, Durations
  <2>3. /\ Read(field, m, env) = Given(m, "10")
        /\ Read(field, Effective, env) = Given(Effective, "10")
        /\ env = Absent => Runs(field, m, env) = (IF m \in {Absent, "0"} THEN "10" ELSE m)
        /\ env = Absent => Runs(field, Effective, env) = (IF Effective \in {Absent, "0"} THEN "10" ELSE Effective)
    BY <1>11 DEF Read, ReadText, Runs, Texts, Numbers
  <2>4. default \in {"0", "4", "10", "99", "64", Absent} /\ override \in {"0", "4", "10", "99", "64", Absent} /\ f \in Word
    BY <2>1 DEF Held
  <2> QED
    BY <1>11, <2>1, <2>2, <2>3, <2>4, <1>1, <1>2, <1>3, Words DEF Well, TextExcuse, TextDisturb, Or, Given
<1>12. CASE field = "min_hits"
  <2>1. File(field) = {"0", "4", "10", "99", "64", Absent} /\ InForm(field) = Word /\ env \in {Absent}
    BY <1>12 DEF Held, Env, File, InFile, InForm, Numbers, Numerals, Durations, Flags
  <2>2. /\ b = f
        /\ v = IF f \in {"0", "4", "10", "99"} THEN f ELSE override
        /\ Accepted(field, f) => f \in {"", "0", "4", "10", "99"}
        /\ ~Refused(field, b)
    BY <1>12 DEF v, b, Sent, Saved, RemovePasswordFields, Stored, StoredText, StoredNumber, Accepted,
       AcceptedText, Refused, RefusedBlocklists, Texts, Numbers, Numerals, Durations
  <2>3. /\ Read(field, m, env) = Given(m, "10")
        /\ Read(field, Effective, env) = Given(Effective, "10")
        /\ env = Absent => Runs(field, m, env) = (IF m \in {Absent, "0"} THEN "10" ELSE m)
        /\ env = Absent => Runs(field, Effective, env) = (IF Effective \in {Absent, "0"} THEN "10" ELSE Effective)
    BY <1>12 DEF Read, ReadText, Runs, Texts, Numbers
  <2>4. default \in {"0", "4", "10", "99", "64", Absent} /\ override \in {"0", "4", "10", "99", "64", Absent} /\ f \in Word
    BY <2>1 DEF Held
  <2> QED
    BY <1>12, <2>1, <2>2, <2>3, <2>4, <1>1, <1>2, <1>3, Words DEF Well, TextExcuse, TextDisturb, Or, Given
<1>13. CASE field = "hot_rate"
  <2>1. File(field) = {"0", "4", "10", "99", "64", Absent} /\ InForm(field) = Word /\ env \in {Absent}
    BY <1>13 DEF Held, Env, File, InFile, InForm, Numbers, Numerals, Durations, Flags
  <2>2. /\ b = f
        /\ v = IF f \in {"0", "4", "10", "99"} THEN f ELSE override
        /\ Accepted(field, f) => f \in {"", "0", "4", "10", "99"}
        /\ ~Refused(field, b)
    BY <1>13 DEF v, b, Sent, Saved, RemovePasswordFields, Stored, StoredText, StoredNumber, Accepted,
       AcceptedText, Refused, RefusedBlocklists, Texts, Numbers, Numerals, Durations
  <2>3. /\ Read(field, m, env) = Given(m, "10")
        /\ Read(field, Effective, env) = Given(Effective, "10")
        /\ env = Absent => Runs(field, m, env) = (IF m \in {Absent, "0"} THEN "auto" ELSE m)
        /\ env = Absent => Runs(field, Effective, env) = (IF Effective \in {Absent, "0"} THEN "auto" ELSE Effective)
    BY <1>13 DEF Read, ReadText, Runs, Texts, Numbers
  <2>4. default \in {"0", "4", "10", "99", "64", Absent} /\ override \in {"0", "4", "10", "99", "64", Absent} /\ f \in Word
    BY <2>1 DEF Held
  <2> QED
    BY <1>13, <2>1, <2>2, <2>3, <2>4, <1>1, <1>2, <1>3, Words DEF Well, TextExcuse, TextDisturb, Or, Given
<1>14. CASE field = "disk"
  <2>1. File(field) = {"0", "4", "10", "99", "64", Absent} /\ InForm(field) = Word /\ env \in {Absent, "4"}
    BY <1>14 DEF Held, Env, File, InFile, InForm, Numbers, Numerals, Durations, Flags
  <2>2. /\ b = f
        /\ v = IF f \in {"4", "10", "99"} THEN f ELSE Absent
        /\ Accepted(field, f) => f \in {"", "0", "4", "10", "99"}
        /\ ~Refused(field, b)
    BY <1>14 DEF v, b, Sent, Saved, RemovePasswordFields, Stored, StoredText, StoredNumber, Accepted,
       AcceptedText, Refused, RefusedBlocklists, Texts, Numbers, Numerals, Durations
  <2>3. /\ Read(field, m, env) = Given(env, Given(m, ""))
        /\ Read(field, Effective, env) = Given(env, Given(Effective, ""))
        /\ env = Absent => Runs(field, m, env) = Given(m, "0")
        /\ env = Absent => Runs(field, Effective, env) = Given(Effective, "0")
    BY <1>14 DEF Read, ReadText, Runs, Texts, Numbers
  <2>4. default \in {"0", "4", "10", "99", "64", Absent} /\ override \in {"0", "4", "10", "99", "64", Absent} /\ f \in Word
    BY <2>1 DEF Held
  <2> QED
    BY <1>14, <2>1, <2>2, <2>3, <2>4, <1>1, <1>2, <1>3, Words DEF Well, TextExcuse, TextDisturb, Or, Given
<1>15. CASE field = "reuse_port"
  <2>1. File(field) = {"true", "false", Absent} /\ InForm(field) = {"true", "false"} /\ env \in {Absent}
    BY <1>15 DEF Held, Env, File, InFile, InForm, Numbers, Numerals, Durations, Flags
  <2>2. /\ b = f
        /\ v = f
        /\ ~Refused(field, b)
    BY <1>15 DEF v, b, Sent, Saved, RemovePasswordFields, Stored, StoredText, StoredNumber, Accepted,
       AcceptedText, Refused, RefusedBlocklists, Texts, Numbers, Numerals, Durations
  <2>3. /\ Read(field, m, env) = IF m = "true" THEN m ELSE "false"
        /\ Read(field, Effective, env) = IF Effective = "true" THEN Effective ELSE "false"
        /\ env = Absent => Runs(field, m, env) = Given(m, "true")
        /\ env = Absent => Runs(field, Effective, env) = Given(Effective, "true")
    BY <1>15 DEF Read, ReadText, Runs, Texts, Numbers
  <2>4. default \in {"true", "false", Absent} /\ override \in {"true", "false", Absent} /\ f \in {"true", "false"}
    BY <2>1 DEF Held
  <2> QED
    BY <1>15, <2>1, <2>2, <2>3, <2>4, <1>1, <1>2, <1>3, Words DEF Well, TextExcuse, TextDisturb, Or, Given
<1>16. CASE field = "serve_stale"
  <2>1. File(field) = {"true", "false", Absent} /\ InForm(field) = {"true", "false"} /\ env \in {Absent}
    BY <1>16 DEF Held, Env, File, InFile, InForm, Numbers, Numerals, Durations, Flags
  <2>2. /\ b = f
        /\ v = f
        /\ ~Refused(field, b)
    BY <1>16 DEF v, b, Sent, Saved, RemovePasswordFields, Stored, StoredText, StoredNumber, Accepted,
       AcceptedText, Refused, RefusedBlocklists, Texts, Numbers, Numerals, Durations
  <2>3. /\ Read(field, m, env) = IF m = "false" THEN m ELSE "true"
        /\ Read(field, Effective, env) = IF Effective = "false" THEN Effective ELSE "true"
        /\ env = Absent => Runs(field, m, env) = Given(m, "true")
        /\ env = Absent => Runs(field, Effective, env) = Given(Effective, "true")
    BY <1>16 DEF Read, ReadText, Runs, Texts, Numbers
  <2>4. default \in {"true", "false", Absent} /\ override \in {"true", "false", Absent} /\ f \in {"true", "false"}
    BY <2>1 DEF Held
  <2> QED
    BY <1>16, <2>1, <2>2, <2>3, <2>4, <1>1, <1>2, <1>3, Words DEF Well, TextExcuse, TextDisturb, Or, Given
<1>17. CASE field = "level"
  <2>1. File(field) = Word \cup {Absent} /\ InForm(field) = {"debug", "warning"} /\ env \in {Absent}
    BY <1>17 DEF Held, Env, File, InFile, InForm, Numbers, Numerals, Durations, Flags
  <2>2. /\ b = f
        /\ v = IF f \in {"debug", "warning"} THEN f ELSE Or(override, "warning")
        /\ ~Refused(field, b)
    BY <1>17 DEF v, b, Sent, Saved, RemovePasswordFields, Stored, StoredText, StoredNumber, Accepted,
       AcceptedText, Refused, RefusedBlocklists, Texts, Numbers, Numerals, Durations
  <2>3. /\ Read(field, m, env) = IF m \in {"debug", "warning"} THEN m ELSE "warning"
        /\ Read(field, Effective, env) = IF Effective \in {"debug", "warning"} THEN Effective ELSE "warning"
        /\ env = Absent => Runs(field, m, env) = (IF m = "debug" THEN m ELSE "warning")
        /\ env = Absent => Runs(field, Effective, env) = (IF Effective = "debug" THEN Effective ELSE "warning")
    BY <1>17 DEF Read, ReadText, Runs, Texts, Numbers
  <2>4. default \in Word \cup {Absent} /\ override \in Word \cup {Absent} /\ f \in {"debug", "warning"}
    BY <2>1 DEF Held
  <2> QED
    BY <1>17, <2>1, <2>2, <2>3, <2>4, <1>1, <1>2, <1>3, Words DEF Well, TextExcuse, TextDisturb, Or, Given
<1>18. CASE field = "hostname"
  <2>1. File(field) = Word \cup {Absent} /\ InForm(field) = Word /\ env \in {Absent}
    BY <1>18 DEF Held, Env, File, InFile, InForm, Numbers, Numerals, Durations, Flags
  <2>2. /\ b = f
        /\ v = f
        /\ ~Refused(field, b)
    BY <1>18 DEF v, b, Sent, Saved, RemovePasswordFields, Stored, StoredText, StoredNumber, Accepted,
       AcceptedText, Refused, RefusedBlocklists, Texts, Numbers, Numerals, Durations
  <2>3. /\ Read(field, m, env) = Or(m, "")
        /\ Read(field, Effective, env) = Or(Effective, "")
        /\ env = Absent => Runs(field, m, env) = Or(m, "")
        /\ env = Absent => Runs(field, Effective, env) = Or(Effective, "")
    BY <1>18 DEF Read, ReadText, Runs, Texts, Numbers
  <2>4. default \in Word \cup {Absent} /\ override \in Word \cup {Absent} /\ f \in Word
    BY <2>1 DEF Held
  <2> QED
    BY <1>18, <2>1, <2>2, <2>3, <2>4, <1>1, <1>2, <1>3, Words DEF Well, TextExcuse, TextDisturb, Or, Given
<1>19. CASE field = "address"
  <2>1. File(field) = Word \cup {Absent} /\ InForm(field) = Word /\ env \in {Absent, "r2"}
    BY <1>19 DEF Held, Env, File, InFile, InForm, Numbers, Numerals, Durations, Flags
  <2>2. /\ b = f
        /\ v = Or(f, "r1")
        /\ ~Refused(field, b)
    BY <1>19 DEF v, b, Sent, Saved, RemovePasswordFields, Stored, StoredText, StoredNumber, Accepted,
       AcceptedText, Refused, RefusedBlocklists, Texts, Numbers, Numerals, Durations
  <2>3. /\ Read(field, m, env) = Given(env, Or(m, "r1"))
        /\ Read(field, Effective, env) = Given(env, Or(Effective, "r1"))
        /\ env = Absent => Runs(field, m, env) = Or(m, "r1")
        /\ env = Absent => Runs(field, Effective, env) = Or(Effective, "r1")
    BY <1>19 DEF Read, ReadText, Runs, Texts, Numbers
  <2>4. default \in Word \cup {Absent} /\ override \in Word \cup {Absent} /\ f \in Word
    BY <2>1 DEF Held
  <2> QED
    BY <1>19, <2>1, <2>2, <2>3, <2>4, <1>1, <1>2, <1>3, Words DEF Well, TextExcuse, TextDisturb, Or, Given
<1>20. CASE field = "password"
  <2>1. File(field) = {"pw", "own", Absent} /\ InForm(field) = Word /\ env \in {Absent}
    BY <1>20 DEF Held, Env, File, InFile, InForm, Numbers, Numerals, Durations, Flags
  <2>2. /\ b = f
        /\ v = Absent
        /\ ~Refused(field, b)
    BY <1>20 DEF v, b, Sent, Saved, RemovePasswordFields, Stored, StoredText, StoredNumber, Accepted,
       AcceptedText, Refused, RefusedBlocklists, Texts, Numbers, Numerals, Durations
  <2>3. /\ Read(field, m, env) = IF Or(m, "") = "" THEN "" ELSE "***"
        /\ Read(field, Effective, env) = IF Or(Effective, "") = "" THEN "" ELSE "***"
        /\ env = Absent => Runs(field, m, env) = Or(m, "")
        /\ env = Absent => Runs(field, Effective, env) = Or(Effective, "")
    BY <1>20 DEF Read, ReadText, Runs, Texts, Numbers
  <2>4. default \in {"pw", "own", Absent} /\ override \in {"pw", "own", Absent} /\ f \in Word
    BY <2>1 DEF Held
  <2> QED
    BY <1>20, <2>1, <2>2, <2>3, <2>4, <1>1, <1>2, <1>3, Words DEF Well, TextExcuse, TextDisturb, Or, Given
<1>21. CASE field = "blocked"
  <2>1. File(field) = Word \cup {Absent} /\ InForm(field) = Word /\ env \in {Absent}
    BY <1>21 DEF Held, Env, File, InFile, InForm, Numbers, Numerals, Durations, Flags
  <2>2. /\ b = f
        /\ v = f
        /\ Accepted(field, f) => f # "bad"
        /\ Refused(field, b) => f = "bad"
    BY <1>21 DEF v, b, Sent, Saved, RemovePasswordFields, Stored, StoredText, StoredNumber, Accepted,
       AcceptedText, Refused, RefusedBlocklists, Texts, Numbers, Numerals, Durations
  <2>3. /\ Read(field, m, env) = Or(m, "nxdomain")
        /\ Read(field, Effective, env) = Or(Effective, "nxdomain")
        /\ env = Absent => Runs(field, m, env) = Or(m, "nxdomain")
        /\ env = Absent => Runs(field, Effective, env) = Or(Effective, "nxdomain")
    BY <1>21 DEF Read, ReadText, Runs, Texts, Numbers
  <2>4. default \in Word \cup {Absent} /\ override \in Word \cup {Absent} /\ f \in Word
    BY <2>1 DEF Held
  <2> QED
    BY <1>21, <2>1, <2>2, <2>3, <2>4, <1>1, <1>2, <1>3, Words DEF Well, TextExcuse, TextDisturb, Or, Given
<1> QED
  BY <1>4, <1>5, <1>6, <1>7, <1>8, <1>9, <1>10, <1>11, <1>12, <1>13, <1>14, <1>15, <1>16, <1>17, <1>18, <1>19, <1>20, <1>21 DEF Texts

LEMMA Merged ==
    ASSUME Held, field \notin {"disk", "address"}
    PROVE  /\ env = Absent /\ Absent \notin InFile(field)
           /\ Effective = IF override = Absent THEN default ELSE override
           /\ Effective \in File(field)
BY AbsentAssumption DEF Held, Env, Effective, Merge, Given, File

LEMMA WindowSaves ==
    ASSUME Held, field = "window", NEW f \in InForm(field)
    PROVE  Now \in InForm(field) /\ SavesWell(f)
<1> DEFINE b == Sent(field, f)
           v == Saved(field, f, override)
           m == Merge(default, v)
           off == {Absent, "", "0", "0s"}
<1>1. /\ env = Absent /\ Absent \notin Word
      /\ Effective = IF override = Absent THEN default ELSE override
      /\ Effective \in File(field)
      /\ m = IF v = Absent THEN default ELSE v
  BY Merged, AbsentWord DEF Merge, Given
<1>2. File(field) = Word \cup {Absent} /\ f \in [on : {"true", "false"}, window : Word]
      /\ InForm(field) = [on : {"true", "false"}, window : Word]
  BY DEF File, InFile, InForm, Numbers, Flags
<1>3. /\ b = f
      /\ v = IF f.on = "false" THEN "0" ELSE IF f.window \in {"", "0", "0s"} THEN override ELSE f.window
      /\ Accepted(field, f) => (f.on = "true" => f.window \in {"5s", "9s"})
      /\ ~Refused(field, b)
  BY DEF Sent, Saved, RemovePasswordFields, Stored, StoredWindow, Accepted, AcceptedWindow, Refused,
         RefusedBlocklists, Texts, Numbers, Durations
<1>4. /\ Read(field, m, env) = [on |-> IF m \in off THEN "false" ELSE "true", window |-> Given(m, "0")]
      /\ Read(field, Effective, env)
           = [on |-> IF Effective \in off THEN "false" ELSE "true", window |-> Given(Effective, "0")]
      /\ Runs(field, m, env) = (IF m \in off THEN "0" ELSE m)
      /\ Runs(field, Effective, env) = (IF Effective \in off THEN "0" ELSE Effective)
  BY <1>1 DEF Read, ReadWindow, Window, Runs, Texts, Numbers
<1>r. /\ Read(field, Effective, env).on = IF Effective \in off THEN "false" ELSE "true"
      /\ Read(field, Effective, env).window = Given(Effective, "0")
  BY DEF Read, ReadWindow, Window, Texts, Numbers
<1>5. f.on = "false" => Excused(field, b)
  BY <1>3 DEF Excused
<1>6. override \in File(field)
  BY DEF Held
<1> SUFFICES Read(field, Effective, env) \in InForm(field) /\ (Accepted(field, f) => Well(f, b, v, m))
  BY DEF Now, SavesWell
<1> HIDE DEF b, v, m
<1>7. Read(field, Effective, env) \in InForm(field)
  BY <1>1, <1>2, <1>4, Words DEF Given
<1>8. ASSUME Accepted(field, f) PROVE Well(f, b, v, m)
  <2>1. v \in File(field)
    BY <1>2, <1>3, <1>6, Words
  <2>2. CASE f.on = "true"
    <3>1. v = f.window /\ m = f.window /\ m \in {"5s", "9s"}
      BY <1>1, <1>3, <1>8, <2>2, Words
    <3>2. Read(field, m, env) = f
      BY <1>2, <1>4, <2>2, <3>1, <1>1, Words DEF Given
    <3>3. ASSUME f = Read(field, Effective, env) PROVE Runs(field, m, env) = Runs(field, Effective, env)
      <4>1. f.on = (IF Effective \in off THEN "false" ELSE "true") /\ f.window = Given(Effective, "0")
        BY <3>3, <1>r
      <4>2. Effective \notin off /\ f.window = Effective
        BY <4>1, <2>2 DEF Given
      <4> QED
        BY <4>2, <3>1, <1>4
    <3> QED
      BY <1>3, <2>1, <3>2, <3>3 DEF Well
  <2>3. CASE f.on = "false"
    <3>1. v = "0" /\ m = "0"
      BY <1>1, <1>3, <2>3, Words
    <3>2. ASSUME f = Read(field, Effective, env) PROVE Runs(field, m, env) = Runs(field, Effective, env)
      <4>1. f.on = (IF Effective \in off THEN "false" ELSE "true")
        BY <3>2, <1>r
      <4>2. Effective \in off
        BY <4>1, <2>3
      <4> QED
        BY <4>2, <3>1, <1>4
    <3> QED
      BY <1>3, <1>5, <2>1, <2>3, <3>2 DEF Well
  <2> QED
    BY <2>2, <2>3, <1>2
<1> QED
  BY <1>7, <1>8

LEMMA PauseRead ==
    ASSUME NEW x \in [on : Flags, start : Times, end : Times, days : {Absent} \cup SUBSET (0 .. 6)],
           x # Absent
    PROVE  /\ ReadPause(x) \in [on : Flags, start : Times, end : Times, days : SUBSET (0 .. 6)]
           /\ ReadPause(x).on = x.on
           /\ x.days # Absent => ReadPause(x) = x
<1>1. ReadPause(x) = [x EXCEPT !.days = IF @ = Absent THEN 1 .. 5 ELSE @]
  BY DEF ReadPause
<1>2. 1 .. 5 \in SUBSET (0 .. 6)
  OBVIOUS
<1>3. x = [on |-> x.on, start |-> x.start, end |-> x.end, days |-> x.days]
  OBVIOUS
<1> QED
  BY <1>1, <1>2, <1>3

LEMMA PauseSaves ==
    ASSUME Held, field = "pause", NEW f \in InForm(field)
    PROVE  Now \in InForm(field) /\ SavesWell(f)
<1> DEFINE b == Sent(field, f)
           v == Saved(field, f, override)
           m == Merge(default, v)
           Run(x) == IF x = Absent \/ x.on = "false" THEN NoPause
                     ELSE [x EXCEPT !.days = IF @ \in {Absent, {}} THEN 0 .. 6 ELSE @]
<1>1. /\ env = Absent /\ Absent \notin InFile(field)
      /\ Effective = IF override = Absent THEN default ELSE override
      /\ Effective \in File(field)
      /\ m = IF v = Absent THEN default ELSE v
  BY Merged DEF Merge, Given
<1>2. /\ InFile(field) = [on : {"true", "false"}, start : Times, end : Times,
                          days : {Absent} \cup SUBSET (0 .. 6)]
      /\ InForm(field) = [on : {"true", "false"}, start : Times, end : Times, days : SUBSET (0 .. 6)]
      /\ File(field) = {Absent} \cup InFile(field)
      /\ f \in [on : {"true", "false"}, start : Times, end : Times, days : SUBSET (0 .. 6)]
  BY DEF File, InFile, InForm, Numbers, Flags
<1>3. /\ b = IF f.on = "true" THEN f ELSE NoPause
      /\ Accepted(field, f) => (f.on = "true" => WellOrdered(f))
      /\ Refused(field, b) => b.on = "true" /\ ~WellOrdered(b)
  BY DEF Sent, Accepted, AcceptedPause, Refused, RefusedBlocklists, Texts
<1>4. v = IF b.on = "true" THEN b ELSE Pause("false", 9, 17, {})
  BY DEF Saved, RemovePasswordFields, Stored, StoredPause, Texts, Numbers
<1>5. /\ Read(field, m, env) = ReadPause(m)
      /\ Read(field, Effective, env) = ReadPause(Effective)
      /\ Runs(field, m, env) = Run(m)
      /\ Runs(field, Effective, env) = Run(Effective)
  BY <1>1 DEF Read, Runs, Texts, Numbers
<1>6. /\ b.on = "false" => Excused(field, b)
      /\ Effective # Absent /\ Effective.days = Absent => Disturbed
  BY DEF Excused, Disturbed
<1>7. Absent \notin SUBSET (0 .. 6)
  BY AbsentAssumption
<1> SUFFICES Read(field, Effective, env) \in InForm(field) /\ (Accepted(field, f) => Well(f, b, v, m))
  BY DEF Now, SavesWell
<1> HIDE DEF b, v, m, Run
<1>8. UsualPause \in InForm(field) /\ Pause("false", 9, 17, {}) \in InFile(field)
  <2>1. {9, 17} \subseteq Times /\ (1 .. 5) \in SUBSET (0 .. 6) /\ {} \in SUBSET (0 .. 6)
    BY DEF Times
  <2> QED
    BY <2>1, <1>2 DEF UsualPause, Pause
<1>9. Read(field, Effective, env) \in InForm(field)
  <2>1. CASE Effective = Absent
    BY <2>1, <1>5, <1>8 DEF ReadPause
  <2>2. CASE Effective # Absent
    BY <2>2, <1>1, <1>2, <1>5, PauseRead DEF Flags
  <2> QED
    BY <2>1, <2>2
<1>10. ASSUME Accepted(field, f) PROVE Well(f, b, v, m)
  <2>1. CASE f.on = "true"
    <3>1. b = f /\ v = f /\ f \in InFile(field) /\ m = f /\ ~Refused(field, b)
      BY <1>1, <1>2, <1>3, <1>4, <1>10, <2>1
    <3>2. Read(field, m, env) = f
      BY <1>1, <1>2, <1>5, <1>7, <3>1, PauseRead DEF Flags
    <3>3. ASSUME f = Read(field, Effective, env)
          PROVE  Disturbed \/ Runs(field, m, env) = Runs(field, Effective, env)
      <4>1. Effective # Absent
        BY <1>5, <2>1, <3>3 DEF ReadPause, UsualPause, Pause
      <4>2. CASE Effective.days # Absent
        <5>1. f = Effective
          BY <1>1, <1>2, <1>5, <3>3, <4>1, <4>2, PauseRead DEF Flags
        <5> QED
          BY <5>1, <3>1, <1>5
      <4> QED
        BY <4>1, <4>2, <1>6
    <3> QED
      BY <1>2, <3>1, <3>2, <3>3 DEF Well
  <2>2. CASE f.on = "false"
    <3>1. b = NoPause /\ b.on = "false" /\ v = Pause("false", 9, 17, {}) /\ ~Refused(field, b)
      BY <1>3, <1>4, <2>2 DEF NoPause, Pause
    <3>2. m = v /\ m # Absent /\ m.on = "false"
      BY <1>1, <1>8, <3>1 DEF Pause
    <3>3. ASSUME f = Read(field, Effective, env) PROVE Runs(field, m, env) = Runs(field, Effective, env)
      <4>1. Effective = Absent \/ Effective.on = "false"
        BY <1>1, <1>2, <1>5, <2>2, <3>3 DEF ReadPause
      <4> QED
        BY <4>1, <3>2, <1>5 DEF Run
    <3> QED
      BY <1>2, <1>6, <1>8, <3>1, <3>3 DEF Well
  <2> QED
    BY <2>1, <2>2, <1>2
<1> QED
  BY <1>9, <1>10

LEMMA FamilyRead ==
    ASSUME NEW x \in [on : Flags, start : Times, end : Times,
                      services : SUBSET Word, domains : SUBSET Word],
           x # Absent
    PROVE  /\ ReadFamily(x) \in [on : Flags, start : Times, end : Times,
                                  services : SUBSET Word, domains : {{}}]
           /\ ReadFamily(x).on = x.on
           /\ x.domains = {} => ReadFamily(x) = x
<1>1. ReadFamily(x) = [x EXCEPT !.domains = {}]
  BY DEF ReadFamily
<1>2. x = [on |-> x.on, start |-> x.start, end |-> x.end,
           services |-> x.services, domains |-> x.domains]
  OBVIOUS
<1> QED
  BY <1>1, <1>2

LEMMA FamilySaves ==
    ASSUME Held, field = "family", NEW f \in InForm(field)
    PROVE  Now \in InForm(field) /\ SavesWell(f)
<1> DEFINE b == Sent(field, f)
           v == Saved(field, f, override)
           m == Merge(default, v)
           Run(x) == IF x = Absent \/ x.on = "false" THEN NoFamily ELSE x
<1>1. /\ env = Absent /\ Absent \notin InFile(field)
      /\ Effective = IF override = Absent THEN default ELSE override
      /\ Effective \in File(field)
      /\ m = IF v = Absent THEN default ELSE v
  BY Merged DEF Merge, Given
<1>2. /\ \A x : x \in InFile(field) <=>
                x \in [on : Flags, start : Times, end : Times,
                       services : SUBSET Word, domains : SUBSET Word]
      /\ \A x : x \in InForm(field) <=>
                x \in [on : Flags, start : Times, end : Times,
                       services : SUBSET Word, domains : {{}}]
      /\ \A x : x \in File(field) <=> x = Absent \/ x \in InFile(field)
  BY DEF File, InFile, InForm, Numbers
<1>f. /\ f \in [on : Flags, start : Times, end : Times, services : SUBSET Word, domains : SUBSET Word]
      /\ f \in InFile(field) /\ f.domains = {} /\ f.on \in {"true", "false"}
  <2>1. f \in [on : Flags, start : Times, end : Times, services : SUBSET Word, domains : {{}}]
    BY <1>2
  <2>2. f \in [on : Flags, start : Times, end : Times, services : SUBSET Word, domains : SUBSET Word]
    BY <2>1
  <2> QED
    BY <2>1, <2>2, <1>2 DEF Flags
<1>3. /\ b = IF f.on = "true" THEN f ELSE NoFamily
      /\ Accepted(field, f) => (f.on = "true" => WellOrdered(f) /\ f.services # {})
      /\ Refused(field, b) => b.on = "true" /\ (~WellOrdered(b) \/ b.services = {})
  BY DEF Sent, Accepted, AcceptedFamily, Refused, RefusedBlocklists, Texts
<1>4. v = IF b.on = "true" THEN b ELSE UsualFamily
  BY DEF Saved, RemovePasswordFields, Stored, StoredFamily, Texts, Numbers
<1>5. /\ Read(field, m, env) = ReadFamily(m)
      /\ Read(field, Effective, env) = ReadFamily(Effective)
      /\ Runs(field, m, env) = Run(m)
      /\ Runs(field, Effective, env) = Run(Effective)
  BY <1>1 DEF Read, Runs, Texts, Numbers
<1>6. /\ b.on = "false" => Excused(field, b)
      /\ Effective # Absent /\ Effective.domains # {} => Disturbed
  BY DEF Excused, Disturbed
<1> SUFFICES Read(field, Effective, env) \in InForm(field) /\ (Accepted(field, f) => Well(f, b, v, m))
  BY DEF Now, SavesWell
<1> HIDE DEF b, v, m, Run
<1>7. UsualFamily \in InForm(field) /\ UsualFamily \in InFile(field) /\ UsualFamily.on = "false"
  <2>1. 9 \in Times /\ 17 \in Times /\ {} \in SUBSET Word /\ "false" \in Flags
    BY DEF Times, Flags
  <2>2. UsualFamily = [on |-> "false", start |-> 9, end |-> 17, services |-> {}, domains |-> {}]
    BY DEF UsualFamily, Family
  <2>3. /\ UsualFamily \in [on : Flags, start : Times, end : Times,
                             services : SUBSET Word, domains : SUBSET Word]
        /\ UsualFamily \in [on : Flags, start : Times, end : Times,
                             services : SUBSET Word, domains : {{}}]
    BY <2>1, <2>2
  <2> QED
    BY <2>2, <2>3, <1>2
<1>8. Read(field, Effective, env) \in InForm(field)
  <2>1. CASE Effective = Absent
    BY <2>1, <1>5, <1>7 DEF ReadFamily
  <2>2. CASE Effective # Absent
    BY <2>2, <1>1, <1>2, <1>5, FamilyRead
  <2> QED
    BY <2>1, <2>2
<1>9. ASSUME Accepted(field, f) PROVE Well(f, b, v, m)
  <2>1. CASE f.on = "true"
    <3>1. b = f /\ v = f /\ m = f /\ f # Absent /\ ~Refused(field, b)
      BY <1>1, <1>f, <1>3, <1>4, <1>9, <2>1
    <3>2. Read(field, m, env) = f
      BY <1>2, <1>f, <1>5, <3>1, FamilyRead DEF Flags
    <3>3. ASSUME f = Read(field, Effective, env)
          PROVE  Disturbed \/ Runs(field, m, env) = Runs(field, Effective, env)
      <4>1. Effective # Absent
        BY <1>5, <1>7, <2>1, <3>3 DEF ReadFamily
      <4>2. CASE Effective.domains = {}
        <5>1. f = Effective
          BY <1>1, <1>2, <1>5, <3>3, <4>1, <4>2, FamilyRead DEF Flags
        <5> QED
          BY <5>1, <3>1, <1>5
      <4> QED
        BY <4>1, <4>2, <1>6
    <3> QED
      BY <1>2, <1>f, <3>1, <3>2, <3>3 DEF Well
  <2>2. CASE f.on = "false"
    <3>1. b = NoFamily /\ b.on = "false" /\ v = UsualFamily /\ ~Refused(field, b)
      BY <1>3, <1>4, <2>2 DEF NoFamily, Family
    <3>2. m = v /\ m # Absent /\ m.on = "false"
      BY <1>1, <1>7, <3>1
    <3>3. ASSUME f = Read(field, Effective, env) PROVE Runs(field, m, env) = Runs(field, Effective, env)
      <4>1. Effective = Absent \/ Effective.on = "false"
        BY <1>1, <1>2, <1>5, <2>2, <3>3, FamilyRead DEF Flags
      <4> QED
        BY <4>1, <3>2, <1>5 DEF Run
    <3> QED
      BY <1>2, <1>6, <1>7, <3>1, <3>3 DEF Well
  <2> QED
    BY <2>1, <2>2, <1>f
<1> QED
  BY <1>8, <1>9

LEMMA UsageSaves ==
    ASSUME Held, field = "usage", NEW f \in InForm(field)
    PROVE  Now \in InForm(field) /\ SavesWell(f)
<1> DEFINE b == Sent(field, f)
           v == Saved(field, f, override)
           m == Merge(default, v)
           off == Usage("false", "", 9)
<1>1. /\ env = Absent /\ Absent \notin InFile(field)
      /\ Effective = IF override = Absent THEN default ELSE override
      /\ Effective \in File(field)
      /\ m = IF v = Absent THEN default ELSE v
  BY Merged DEF Merge, Given
<1>2. /\ \A x : x \in InFile(field) <=> x = off \/ x \in [on : {"true"}, url : Word, time : Times]
      /\ \A x : x \in InForm(field) <=> x \in [on : {"true", "false"}, url : Word, time : Times]
      /\ \A x : x \in File(field) <=> x = Absent \/ x \in InFile(field)
  BY DEF File, InFile, InForm, Numbers, Flags
<1>f. f \in [on : {"true", "false"}, url : Word, time : Times]
  BY <1>2
<1>3. b = f /\ v = IF f.on = "true" THEN f ELSE off
  BY DEF Sent, Saved, RemovePasswordFields, Stored, StoredUsage, Texts, Numbers
<1>4. /\ Read(field, m, env) = Given(m, off)
      /\ Read(field, Effective, env) = Given(Effective, off)
      /\ Runs(field, m, env) = Given(m, off)
      /\ Runs(field, Effective, env) = Given(Effective, off)
  BY <1>1 DEF Read, Runs, Texts, Numbers
<1>5. f.on = "false" => Excused(field, b)
  BY <1>3 DEF Excused
<1>6. off \in InForm(field) /\ off.on = "false"
  BY <1>2, Words DEF Usage, Times
<1> SUFFICES Read(field, Effective, env) \in InForm(field) /\ (Accepted(field, f) => Well(f, b, v, m))
  BY DEF Now, SavesWell
<1> HIDE DEF b, v, m, off
<1>7. v \in InFile(field) /\ m = v /\ m # Absent
  <2>1. v \in InFile(field)
    <3>1. CASE f.on = "true"
      <4>1. f = [on |-> f.on, url |-> f.url, time |-> f.time] /\ f.url \in Word /\ f.time \in Times
        BY <1>f
      <4>2. f \in [on : {"true"}, url : Word, time : Times]
        BY <3>1, <4>1
      <4> QED
        BY <1>2, <1>3, <3>1, <4>2
    <3>2. CASE f.on # "true"
      BY <1>2, <1>3, <3>2
    <3> QED
      BY <3>1, <3>2
  <2> QED
    BY <2>1, <1>1
<1>8. Read(field, Effective, env) \in InForm(field)
  BY <1>1, <1>2, <1>4, <1>6 DEF Given
<1>9. Read(field, m, env) = b \/ Excused(field, b)
  BY <1>f, <1>3, <1>4, <1>5, <1>7 DEF Given
<1>10. ASSUME f = Read(field, Effective, env) PROVE Runs(field, m, env) = Runs(field, Effective, env)
  <2>1. v = f
    <3>1. f \in InFile(field) \cup {off}
      BY <1>10, <1>1, <1>2, <1>4 DEF Given
    <3>2. f.on = "true" \/ f = off
      BY <3>1, <1>2
    <3> QED
      BY <3>2, <1>3, <1>6
  <2> QED
    BY <2>1, <1>4, <1>7, <1>10 DEF Given
<1> QED
  BY <1>2, <1>7, <1>8, <1>9, <1>10 DEF Well

LEMMA HookSaves ==
    ASSUME Held, field = "hook", NEW f \in InForm(field)
    PROVE  Now \in InForm(field) /\ SavesWell(f)
<1> DEFINE b == Sent(field, f)
           v == Saved(field, f, override)
           m == Merge(default, v)
           places == {i \in DOMAIN f.targets : f.targets[i] # ""}
<1>1. /\ env = Absent /\ Absent \notin InFile(field)
      /\ Effective = IF override = Absent THEN default ELSE override
      /\ Effective \in File(field)
      /\ m = IF v = Absent THEN default ELSE v
  BY Merged DEF Merge, Given
<1>2. /\ \A x : x \in InFile(field) <=> x \in [limit : Word, targets : Seq(Filled)]
      /\ \A x : x \in InForm(field) <=> x \in [limit : Word, targets : Seq(Word)]
      /\ \A x : x \in File(field) <=> x = Absent \/ x \in InFile(field)
  BY DEF File, InFile, InForm, Numbers
<1>3. /\ b = f /\ ~Refused(field, b)
      /\ v = [f EXCEPT !.targets = Keep(f.targets, places)]
  BY DEF Sent, Saved, RemovePasswordFields, Stored, StoredHook, Texts, Numbers, Refused, RefusedBlocklists
<1>4. /\ Read(field, m, env) = ReadHook(m)
      /\ Read(field, Effective, env) = ReadHook(Effective)
      /\ Runs(field, m, env) = ReadHook(m)
      /\ Runs(field, Effective, env) = ReadHook(Effective)
  BY <1>1 DEF Read, Runs, Texts, Numbers
<1>5. f.limit = "0" \/ "" \in ToSet(f.targets) => Excused(field, b)
  BY <1>3 DEF Excused
<1>6. f = [limit |-> f.limit, targets |-> f.targets] /\ f.limit \in Word /\ f.targets \in Seq(Word)
  <2>1. f \in [limit : Word, targets : Seq(Word)]
    BY <1>2
  <2> QED
    BY <2>1
<1> SUFFICES Read(field, Effective, env) \in InForm(field) /\ (Accepted(field, f) => Well(f, b, v, m))
  BY DEF Now, SavesWell
<1>7. Keep(f.targets, places) \in Seq(Filled)
  <2>1. \A i \in places \cap DOMAIN f.targets : f.targets[i] \in Filled
    BY <1>6, RowsOf DEF Filled
  <2> HIDE DEF places
  <2> QED
    BY <2>1, <1>6, KeepThose
<1>8. "" \notin ToSet(f.targets) => Keep(f.targets, places) = f.targets
  <2>1. "" \notin ToSet(f.targets) => DOMAIN f.targets \subseteq places
    BY DEF ToSet
  <2> HIDE DEF places
  <2> QED
    BY <2>1, <1>6, KeepRows
<1> HIDE DEF b, v, m, places
<1>9. v \in InFile(field) /\ m = v /\ m # Absent
  BY <1>1, <1>2, <1>3, <1>6, <1>7
<1>10. "" \notin ToSet(f.targets) => v = f
  BY <1>3, <1>6, <1>8
<1>11. f.limit # "0" /\ "" \notin ToSet(f.targets) => ReadHook(m) = f
  BY <1>6, <1>9, <1>10 DEF ReadHook
<1>12. /\ Read(field, Effective, env) \in InFile(field)
       /\ Read(field, Effective, env).limit # "0"
  <2>1. CASE Effective = Absent
    <3> DEFINE none == <<>>
    <3>1. none \in Seq(Filled) /\ "10" \in Word
      BY Words, NoRows
    <3>2. Read(field, Effective, env) = [limit |-> "10", targets |-> none]
      BY <2>1, <1>4 DEF ReadHook, Hook
    <3> HIDE DEF none
    <3>3. Read(field, Effective, env) \in [limit : Word, targets : Seq(Filled)]
      BY <3>1, <3>2
    <3>4. Read(field, Effective, env).limit = "10"
      BY <3>2
    <3> QED
      BY <3>3, <3>4, <1>2
  <2>2. CASE Effective # Absent
    <3>1. /\ Effective = [limit |-> Effective.limit, targets |-> Effective.targets]
          /\ Effective.limit \in Word /\ Effective.targets \in Seq(Filled)
      <4>1. Effective \in [limit : Word, targets : Seq(Filled)]
        BY <2>2, <1>1, <1>2
      <4> QED
        BY <4>1
    <3>2. ReadHook(Effective) = [limit |-> IF Effective.limit = "0" THEN "10" ELSE Effective.limit,
                                 targets |-> Effective.targets]
      BY <2>2, <3>1 DEF ReadHook
    <3> DEFINE l == IF Effective.limit = "0" THEN "10" ELSE Effective.limit
    <3>3. l \in Word /\ l # "0"
      BY <3>1, Words
    <3>4. Read(field, Effective, env) = [limit |-> l, targets |-> Effective.targets]
      BY <3>2, <1>4
    <3> HIDE DEF l
    <3>5. /\ Read(field, Effective, env) \in [limit : Word, targets : Seq(Filled)]
          /\ Read(field, Effective, env).limit = l
      BY <3>1, <3>3, <3>4
    <3> QED
      BY <3>3, <3>5, <1>2
  <2> QED
    BY <2>1, <2>2
<1>13. ASSUME NEW x \in InFile(field) PROVE x \in InForm(field) /\ "" \notin ToSet(x.targets)
  <2>1. x = [limit |-> x.limit, targets |-> x.targets] /\ x.limit \in Word /\ x.targets \in Seq(Filled)
    <3>1. x \in [limit : Word, targets : Seq(Filled)]
      BY <1>2
    <3> QED
      BY <3>1
  <2>2. \A i \in DOMAIN x.targets : x.targets[i] \in Filled
    BY <2>1, RowsOf
  <2>3. \A w \in Filled : w \in Word /\ w # ""
    BY DEF Filled
  <2>4. x.targets \in Seq(Word)
    BY <2>1, <2>3, MoreThan
  <2> QED
    BY <1>2, <2>1, <2>2, <2>3, <2>4 DEF ToSet
<1>14. Read(field, m, env) = b \/ Excused(field, b)
  BY <1>3, <1>4, <1>5, <1>11
<1>15. ASSUME f = Read(field, Effective, env) PROVE Runs(field, m, env) = Runs(field, Effective, env)
  BY <1>4, <1>11, <1>12, <1>13, <1>15
<1> QED
  BY <1>2, <1>3, <1>9, <1>12, <1>13, <1>14, <1>15 DEF Well

LEMMA ClientsSave ==
    ASSUME Held, field = "clients", NEW f \in InForm(field)
    PROVE  Now \in InForm(field) /\ SavesWell(f)
<1> DEFINE b == Sent(field, f)
           v == Saved(field, f, override)
           m == Merge(default, v)
           Row == [name : Filled, ip : Filled]
           Typing == [name : Word, ip : Word]
<1>1. /\ env = Absent /\ Absent \notin InFile(field)
      /\ Effective = IF override = Absent THEN default ELSE override
      /\ Effective \in File(field)
      /\ m = IF v = Absent THEN default ELSE v
  BY Merged DEF Merge, Given
<1>2. /\ \A x : x \in InFile(field) <=> x \in Seq(Row)
      /\ \A x : x \in InForm(field) <=> x \in Seq(Typing)
      /\ \A x : x \in File(field) <=> x = Absent \/ x \in InFile(field)
  BY DEF File, InFile, InForm, Numbers
<1>3. \A x \in Row : x \in Typing
  BY DEF Filled
<1>f. f \in Seq(Typing)
  BY <1>2
<1> DEFINE places == {i \in DOMAIN f : f[i].ip # "" /\ f[i].name # ""}
<1>r. \A i \in DOMAIN f : f[i] \in Typing /\ f[i] \in ToSet(f)
  <2> HIDE DEF Typing
  <2> QED
    BY <1>f, RowsOf, AllRows
<1>s. b = f /\ ~Refused(field, b) /\ v = Keep(f, places)
  BY DEF Sent, Saved, RemovePasswordFields, Stored, StoredClients, Texts, Numbers, Refused, RefusedBlocklists
<1>4. /\ Read(field, m, env) = Given(m, <<>>)
      /\ Read(field, Effective, env) = Given(Effective, <<>>)
      /\ Runs(field, m, env) = Given(m, <<>>)
      /\ Runs(field, Effective, env) = Given(Effective, <<>>)
  BY <1>1 DEF Read, Runs, Texts, Numbers
<1>5. (\E r \in ToSet(f) : "" \in {r.name, r.ip}) => Excused(field, b)
  BY <1>s DEF Excused
<1> SUFFICES Read(field, Effective, env) \in InForm(field) /\ (Accepted(field, f) => Well(f, b, v, m))
  BY DEF Now, SavesWell
<1>now. Read(field, Effective, env) \in Seq(Row) /\ Read(field, Effective, env) \in InForm(field)
  <2> HIDE DEF Row, Typing
  <2>1. Given(Effective, <<>>) \in Seq(Row)
    BY <1>1, <1>2, NoRows DEF Given
  <2>2. Given(Effective, <<>>) \in Seq(Typing)
    BY <2>1, <1>3, MoreThan
  <2> QED
    BY <2>1, <2>2, <1>2, <1>4
<1>6. v \in Seq(Row) /\ (DOMAIN f \subseteq places => v = f)
  <2>1. \A i \in places \cap DOMAIN f : f[i] \in Row
    BY <1>r DEF Filled
  <2> HIDE DEF Row, Typing, places
  <2> QED
    BY <2>1, <1>f, <1>s, KeepThose, KeepRows
<1>7. m = v /\ m # Absent
  <2> HIDE DEF Row, v, m
  <2> QED
    BY <1>1, <1>2, <1>6
<1>8. Read(field, m, env) = b \/ Excused(field, b)
  <2>1. CASE \E r \in ToSet(f) : "" \in {r.name, r.ip}
    BY <2>1, <1>5
  <2>2. CASE ~\E r \in ToSet(f) : "" \in {r.name, r.ip}
    <3>1. DOMAIN f \subseteq places
      BY <2>2, <1>r
    <3> HIDE DEF b, v, m, places
    <3> QED
      BY <3>1, <1>4, <1>6, <1>7, <1>s DEF Given
  <2> QED
    BY <2>1, <2>2
<1>9. ASSUME f = Read(field, Effective, env) PROVE Runs(field, m, env) = Runs(field, Effective, env)
  <2>1. \A i \in DOMAIN f : f[i] \in Row
    <3> HIDE DEF Row
    <3> QED
      BY <1>9, <1>now, RowsOf
  <2>2. DOMAIN f \subseteq places
    BY <2>1 DEF Filled
  <2> HIDE DEF b, v, m, places
  <2> QED
    BY <2>2, <1>4, <1>6, <1>7, <1>9 DEF Given
<1> HIDE DEF b, v, m, Row, Typing
<1> QED
  BY <1>2, <1>s, <1>6, <1>8, <1>9, <1>now DEF Well

LEMMA UpstreamsSave ==
    ASSUME Held, field = "upstreams", NEW f \in InForm(field)
    PROVE  Now \in InForm(field) /\ SavesWell(f)
<1> DEFINE b == Sent(field, f)
           v == Saved(field, f, override)
           m == Merge(default, v)
           Row == [address : Filled, protocol : Word]
           Typing == [address : Word, protocol : Word]
<1>1. /\ env = Absent /\ Absent \notin InFile(field)
      /\ Effective = IF override = Absent THEN default ELSE override
      /\ Effective \in File(field)
      /\ m = IF v = Absent THEN default ELSE v
  BY Merged DEF Merge, Given
<1>2. /\ \A x : x \in InFile(field) <=> x \in Seq(Row)
      /\ \A x : x \in InForm(field) <=> x \in Seq(Typing)
      /\ \A x : x \in File(field) <=> x = Absent \/ x \in InFile(field)
  BY DEF File, InFile, InForm, Numbers
<1>3. \A x \in Row : x \in Typing
  BY DEF Filled
<1>f. f \in Seq(Typing)
  BY <1>2
<1> DEFINE touched == {i \in DOMAIN f : \E x \in DOMAIN f[i] \ {"type", "protocol"} : f[i][x] # ""}
           places == {i \in DOMAIN b : b[i].address # ""}
<1>s. /\ b = Keep(f, touched)
      /\ v = Keep(b, places)
      /\ Accepted(field, f) => /\ b # <<>>
                               /\ \A r \in ToSet(b) : r.address \in {"host", "tls"}
      /\ Refused(field, b) => \/ \A r \in ToSet(b) : r.address = ""
                              \/ \E r \in ToSet(b) : r.address = "bad"
  BY DEF Sent, Saved, RemovePasswordFields, Stored, StoredUpstreams, Texts, Numbers, Refused,
         RefusedBlocklists, RefusedUpstreams, Accepted, AcceptedUpstreams, ValidAddress, Touched
<1>4. /\ Read(field, m, env) = Given(m, <<>>)
      /\ Read(field, Effective, env) = Given(Effective, <<>>)
      /\ Runs(field, m, env) = Given(m, <<>>)
      /\ Runs(field, Effective, env) = Given(Effective, <<>>)
  BY <1>1 DEF Read, Runs, Texts, Numbers
<1> SUFFICES Read(field, Effective, env) \in InForm(field) /\ (Accepted(field, f) => Well(f, b, v, m))
  BY DEF Now, SavesWell
<1>now. Read(field, Effective, env) \in Seq(Row) /\ Read(field, Effective, env) \in InForm(field)
  <2> HIDE DEF Row, Typing
  <2>1. Given(Effective, <<>>) \in Seq(Row)
    BY <1>1, <1>2, NoRows DEF Given
  <2>2. Given(Effective, <<>>) \in Seq(Typing)
    BY <2>1, <1>3, MoreThan
  <2> QED
    BY <2>1, <2>2, <1>2, <1>4
<1>5. b \in Seq(Typing)
  <2> HIDE DEF Typing, touched, b, v
  <2> QED
    BY <1>f, <1>s, KeepRows
<1>r. \A i \in DOMAIN b : b[i] \in Typing /\ b[i] \in ToSet(b)
  <2> HIDE DEF Typing, b
  <2> QED
    BY <1>5, RowsOf, AllRows
<1> SUFFICES ASSUME Accepted(field, f) PROVE Well(f, b, v, m)
  BY <1>now
<1> HIDE DEF b
<1>6. ~Refused(field, b)
  <2>1. \E r \in ToSet(b) : TRUE
    <3> HIDE DEF Typing
    <3> QED
      BY <1>5, <1>s, SomeRow
  <2> QED
    BY <2>1, <1>s
<1>7. DOMAIN b \subseteq places
  BY <1>r, <1>s
<1>8. v = b /\ v \in Seq(Row)
  <2>1. \A i \in places \cap DOMAIN b : b[i] \in Row
    BY <1>r DEF Filled
  <2> HIDE DEF Row, Typing, places, v
  <2> QED
    BY <2>1, <1>5, <1>7, <1>s, KeepThose, KeepRows
<1>9. m = v /\ m # Absent
  <2> HIDE DEF Row, v, m
  <2> QED
    BY <1>1, <1>2, <1>8
<1>10. ASSUME f = Read(field, Effective, env) PROVE Runs(field, m, env) = Runs(field, Effective, env)
  <2>1. \A i \in DOMAIN f : f[i] \in Row
    <3> HIDE DEF Row
    <3> QED
      BY <1>10, <1>now, RowsOf
  <2>2. DOMAIN f \subseteq touched
    BY <2>1 DEF Filled
  <2> HIDE DEF v, m, touched, Typing, Row
  <2>3. b = f
    BY <2>2, <1>f, <1>s, KeepRows
  <2> QED
    BY <2>3, <1>4, <1>8, <1>9, <1>10 DEF Given
<1> HIDE DEF v, m, Row, Typing
<1> QED
  BY <1>2, <1>4, <1>6, <1>8, <1>9, <1>10 DEF Well, Given

LEMMA SourcesSave ==
    ASSUME Held, field = "sources", NEW f \in InForm(field)
    PROVE  Now \in InForm(field) /\ SavesWell(f)
<1> DEFINE b == Sent(field, f)
           v == Saved(field, f, override)
           m == Merge(default, v)
           Row == [name : Word, url : Filled]
           Typing == [name : Word, url : Word]
<1>1. /\ env = Absent /\ Absent \notin InFile(field)
      /\ Effective = IF override = Absent THEN default ELSE override
      /\ Effective \in File(field)
      /\ m = IF v = Absent THEN default ELSE v
  BY Merged DEF Merge, Given
<1>2. /\ \A x : x \in InFile(field) <=> x \in Seq(Row)
      /\ \A x : x \in InForm(field) <=> x \in Seq(Typing)
      /\ \A x : x \in File(field) <=> x = Absent \/ x \in InFile(field)
  BY DEF File, InFile, InForm, Numbers
<1>3. \A x \in Row : x \in Typing
  BY DEF Filled
<1>f. f \in Seq(Typing)
  BY <1>2
<1> DEFINE touched == {i \in DOMAIN f : \E x \in DOMAIN f[i] \ {"type", "protocol"} : f[i][x] # ""}
           T == Keep(f, touched)
           places == {i \in DOMAIN b : b[i].url # ""}
           us == Keep(b, places)
           Urls(x) == {r.url : r \in ToSet(Given(x, <<>>))}
<1>s. /\ b = Named(T)
      /\ v = Named(Distinct(us, [i \in DOMAIN us |-> us[i].url]))
      /\ Accepted(field, f) => /\ T # <<>>
                               /\ \A r \in ToSet(T) : r.url \in {"u", "U"}
                               /\ NoTwo([i \in DOMAIN T |-> Lower(T[i].url)])
      /\ Refused(field, b) => \A r \in ToSet(b) : r.url = ""
  BY DEF Sent, Saved, RemovePasswordFields, Stored, StoredSources, Texts, Numbers, Refused,
         RefusedBlocklists, Accepted, AcceptedSources, Touched
<1>4. /\ Read(field, m, env) = Given(m, <<>>)
      /\ Read(field, Effective, env) = Given(Effective, <<>>)
      /\ Runs(field, m, env) = Urls(m)
      /\ Runs(field, Effective, env) = Urls(Effective)
  BY <1>1 DEF Read, Runs, Texts, Numbers
<1> SUFFICES Read(field, Effective, env) \in InForm(field) /\ (Accepted(field, f) => Well(f, b, v, m))
  BY DEF Now, SavesWell
<1>now. Read(field, Effective, env) \in Seq(Row) /\ Read(field, Effective, env) \in InForm(field)
  <2> HIDE DEF Row, Typing
  <2>1. Given(Effective, <<>>) \in Seq(Row)
    BY <1>1, <1>2, NoRows DEF Given
  <2>2. Given(Effective, <<>>) \in Seq(Typing)
    BY <2>1, <1>3, MoreThan
  <2> QED
    BY <2>1, <2>2, <1>2, <1>4
<1>5. T \in Seq(Typing)
  <2> HIDE DEF Typing, touched
  <2> QED
    BY <1>f, KeepRows
<1>r. \A i \in DOMAIN T : T[i] \in Typing /\ T[i] \in ToSet(T)
  <2> HIDE DEF Typing, T
  <2> QED
    BY <1>5, RowsOf, AllRows
<1> SUFFICES ASSUME Accepted(field, f) PROVE Well(f, b, v, m)
  BY <1>now
<1> HIDE DEF b, T
<1>6. T \in Seq(Row)
  <2>1. \A i \in DOMAIN T : T[i] \in Row
    <3>1. ASSUME NEW i \in DOMAIN T PROVE T[i] \in Row
      <4>1. T[i] \in Typing /\ T[i].url \in {"u", "U"}
        BY <1>r, <1>s
      <4>2. T[i].url \in Filled
        BY <4>1, Words DEF Filled
      <4> HIDE DEF T
      <4> QED
        BY <4>1, <4>2
    <3> QED
      BY <3>1
  <2> HIDE DEF Row, Typing
  <2>2. T \in [1 .. Len(T) -> Row] /\ Len(T) \in Nat
    BY <2>1, <1>5, RowsOf
  <2> QED
    BY <2>2, ListOf
<1>7. /\ b \in Seq(Row) /\ DOMAIN b = DOMAIN T /\ Named(b) = b
      /\ \A i \in DOMAIN T : b[i].url = T[i].url
  <2>1. Filled \in SUBSET Word
    BY DEF Filled
  <2> QED
    BY <2>1, <1>6, <1>s, NamedRows
<1>8. \A i \in DOMAIN b : b[i].url \in {"u", "U"} /\ b[i] \in ToSet(b)
  BY <1>7, <1>r, <1>s, AllRows
<1>9. ~Refused(field, b)
  <2>1. \E r \in ToSet(T) : TRUE
    <3> HIDE DEF Row
    <3> QED
      BY <1>6, <1>s, SomeRow
  <2>2. \E i \in DOMAIN b : TRUE
    BY <2>1, <1>7, AllRows
  <2> QED
    BY <2>2, <1>8, <1>s
<1>10. us = b
  <2>1. DOMAIN b \subseteq places
    BY <1>8
  <2> HIDE DEF Row, places
  <2> QED
    BY <2>1, <1>7, KeepRows
<1>11. v = b
  <2> DEFINE key == [i \in DOMAIN b |-> b[i].url]
  <2>1. NoTwo(key)
    <3> SUFFICES ASSUME NEW i \in DOMAIN b, NEW j \in DOMAIN b, b[i].url = b[j].url PROVE i = j
      BY DEF NoTwo
    <3>1. Lower(T[i].url) = Lower(T[j].url)
      BY <1>7
    <3> QED
      BY <3>1, <1>7, <1>s DEF NoTwo
  <2>2. DOMAIN key = DOMAIN b
    OBVIOUS
  <2>3. v = Named(Distinct(b, key))
    <3> HIDE DEF us, v
    <3> QED
      BY <1>10, <1>s
  <2> HIDE DEF key, v, Row
  <2>4. Distinct(b, key) = b
    BY <2>1, <2>2, <1>7, DistinctRows
  <2> QED
    BY <2>3, <2>4, <1>7
<1>12. m = v /\ m # Absent
  <2> HIDE DEF Row, v, m
  <2> QED
    BY <1>1, <1>2, <1>7, <1>11
<1>13. ASSUME f = Read(field, Effective, env) PROVE Runs(field, m, env) = Runs(field, Effective, env)
  <2>1. f \in Seq(Row)
    BY <1>13, <1>now
  <2>2. DOMAIN f \subseteq touched
    <3>1. \A i \in DOMAIN f : f[i] \in Row
      <4> HIDE DEF Row
      <4> QED
        BY <2>1, RowsOf
    <3> QED
      BY <3>1 DEF Filled
  <2>3. T = f
    <3> HIDE DEF touched, Typing
    <3> QED
      BY <2>2, <1>f, KeepRows DEF T
  <2>4. {r.url : r \in ToSet(b)} = {r.url : r \in ToSet(f)}
    <3>1. Filled \in SUBSET Word
      BY DEF Filled
    <3> QED
      BY <3>1, <2>1, <2>3, <1>s, NamedRows
  <2> HIDE DEF v, m
  <2> QED
    BY <2>4, <1>4, <1>11, <1>12, <1>13 DEF Given
<1> HIDE DEF v, m, Row, Typing
<1> QED
  BY <1>2, <1>4, <1>7, <1>9, <1>11, <1>12, <1>13 DEF Well, Given

LEMMA DomainsSave ==
    ASSUME Held, field = "domains", NEW f \in InForm(field)
    PROVE  Now \in InForm(field) /\ SavesWell(f)
<1> DEFINE b == Sent(field, f)
           v == Saved(field, f, override)
           m == Merge(default, v)
           Row == Filled
           Typing == Filled
<1>1. /\ env = Absent /\ Absent \notin InFile(field)
      /\ Effective = IF override = Absent THEN default ELSE override
      /\ Effective \in File(field)
      /\ m = IF v = Absent THEN default ELSE v
  BY Merged DEF Merge, Given
<1>2. /\ \A x : x \in InFile(field) <=> x \in Seq(Row)
      /\ \A x : x \in InForm(field) <=> x \in Seq(Typing)
      /\ \A x : x \in File(field) <=> x = Absent \/ x \in InFile(field)
  BY DEF File, InFile, InForm, Numbers
<1>3. \A x \in Row : x \in Typing
  BY DEF Filled
<1>f. f \in Seq(Typing)
  BY <1>2
<1> DEFINE ls == [i \in DOMAIN f |-> Lower(f[i])]
           places == {i \in DOMAIN ls : ls[i] # ""}
           ws == Keep(ls, places)
           Low(x) == {Lower(d) : d \in ToSet(Given(x, <<>>))}
<1>r. \A i \in DOMAIN f : f[i] \in Filled /\ f[i] \in ToSet(f)
  BY <1>f, RowsOf, AllRows
<1>s. b = f /\ ~Refused(field, b) /\ v = Distinct(ws, ws)
  BY DEF Sent, Saved, RemovePasswordFields, Stored, StoredDomains, Texts, Numbers, Refused, RefusedBlocklists
<1>4. /\ Read(field, m, env) = Given(m, <<>>)
      /\ Read(field, Effective, env) = Given(Effective, <<>>)
      /\ Runs(field, m, env) = Low(m)
      /\ Runs(field, Effective, env) = Low(Effective)
  BY <1>1 DEF Read, Runs, Texts, Numbers
<1>5. (\E d \in ToSet(f) : Lower(d) # d) \/ ~IsInjective(f) => Excused(field, b)
  BY <1>s DEF Excused
<1> SUFFICES Read(field, Effective, env) \in InForm(field) /\ (Accepted(field, f) => Well(f, b, v, m))
  BY DEF Now, SavesWell
<1>now. Read(field, Effective, env) \in Seq(Row) /\ Read(field, Effective, env) \in InForm(field)
  <2> HIDE DEF Row, Typing
  <2>1. Given(Effective, <<>>) \in Seq(Row)
    BY <1>1, <1>2, NoRows DEF Given
  <2>2. Given(Effective, <<>>) \in Seq(Typing)
    BY <2>1, <1>3, MoreThan
  <2> QED
    BY <2>1, <2>2, <1>2, <1>4
<1>6. ls \in Seq(Filled) /\ DOMAIN ls = DOMAIN f
  <2>1. \A i \in DOMAIN f : Lower(f[i]) \in Filled
    BY <1>r, LowerWords DEF Filled
  <2>2. ls \in [1 .. Len(f) -> Filled] /\ Len(f) \in Nat /\ DOMAIN f = 1 .. Len(f)
    BY <2>1, <1>f, RowsOf
  <2> HIDE DEF ls
  <2> QED
    BY <2>2, ListOf
<1>7. ws = ls
  <2> HIDE DEF ls
  <2>1. \A i \in DOMAIN ls : ls[i] \in Filled
    BY <1>6, RowsOf
  <2>2. DOMAIN ls \subseteq places
    BY <2>1 DEF Filled
  <2> HIDE DEF places
  <2> QED
    BY <2>2, <1>6, KeepRows
<1>8. v = Distinct(ls, ls)
  <2> HIDE DEF v, ws
  <2> QED
    BY <1>s, <1>7
<1>9. v \in Seq(Filled) /\ ToSet(v) = ToSet(ls)
  <2> HIDE DEF ls, v
  <2> QED
    BY <1>6, <1>8, DistinctRows, DistinctSame
<1>10. ToSet(ls) = {Lower(d) : d \in ToSet(f)}
  BY <1>6 DEF ToSet
<1>11. m = v /\ m # Absent
  <2> HIDE DEF v, m
  <2> QED
    BY <1>1, <1>2, <1>9
<1>12. Read(field, m, env) = b \/ Excused(field, b)
  <2> SUFFICES ASSUME \A d \in ToSet(f) : Lower(d) = d, IsInjective(f)
               PROVE  Read(field, m, env) = b
    BY <1>5
  <2>1. ls = f
    BY <1>r, <1>f
  <2>2. NoTwo(f)
    BY DEF NoTwo, IsInjective
  <2> HIDE DEF ls, b, v, m
  <2>3. Distinct(f, f) = f
    BY <2>2, <1>f, DistinctRows
  <2> QED
    BY <2>1, <2>3, <1>4, <1>8, <1>11, <1>s DEF Given
<1>13. ASSUME f = Read(field, Effective, env) PROVE Runs(field, m, env) = Runs(field, Effective, env)
  <2>1. \A d \in ToSet(f) : Lower(Lower(d)) = Lower(d)
    <3>1. \A d \in ToSet(f) : d \in Word
      BY <1>f, RowsOf DEF Filled
    <3> QED
      BY <3>1, LowerWords
  <2>2. {Lower(d) : d \in ToSet(v)} = {Lower(d) : d \in ToSet(f)}
    <3> HIDE DEF v, ls
    <3> QED
      BY <2>1, <1>9, <1>10
  <2> HIDE DEF v, m
  <2> QED
    BY <2>2, <1>4, <1>11, <1>13 DEF Given
<1> HIDE DEF b, v, m
<1> QED
  BY <1>2, <1>s, <1>9, <1>12, <1>13, <1>now DEF Well

LEMMA RecordsSave ==
    ASSUME Held, field = "records", NEW f \in InForm(field)
    PROVE  Now \in InForm(field) /\ SavesWell(f)
<1> DEFINE b == Sent(field, f)
           v == Saved(field, f, override)
           m == Merge(default, v)
           Row == [name : Filled, type : Word, value : Filled]
           Typing == [name : Word, type : Word, value : Word]
<1>1. /\ env = Absent /\ Absent \notin InFile(field)
      /\ Effective = IF override = Absent THEN default ELSE override
      /\ Effective \in File(field)
      /\ m = IF v = Absent THEN default ELSE v
  BY Merged DEF Merge, Given
<1>2. /\ \A x : x \in InFile(field) <=> x \in Seq(Row)
      /\ \A x : x \in InForm(field) <=> x \in Seq(Typing)
      /\ \A x : x \in File(field) <=> x = Absent \/ x \in InFile(field)
  BY DEF File, InFile, InForm, Numbers
<1>3. \A x \in Row : x \in Typing
  BY DEF Filled
<1>f. f \in Seq(Typing)
  BY <1>2
<1> DEFINE touched == {i \in DOMAIN f : \E x \in DOMAIN f[i] \ {"type", "protocol"} : f[i][x] # ""}
           T == Keep(f, touched)
           places == {i \in DOMAIN b : b[i].name # "" /\ b[i].value # ""}
           rs == Keep(b, places)
           low(r) == Record(Lower(r.name), r.type, r.value)
           Answered(x) == {low(r) : r \in ToSet(Given(x, <<>>))}
<1>s. /\ b = Lowered(T)
      /\ v = Lowered(Distinct(rs, [i \in DOMAIN rs |-> <<Lower(rs[i].name), rs[i].type>>]))
      /\ Accepted(field, f) => /\ \A r \in ToSet(T) : r.name # "" /\ r.value # ""
                               /\ NoTwo([i \in DOMAIN T |-> <<Lower(T[i].name), T[i].type>>])
      /\ ~Refused(field, b)
  BY DEF Sent, Saved, RemovePasswordFields, Stored, StoredRecords, Texts, Numbers, Refused,
         RefusedBlocklists, Accepted, AcceptedRecords, Touched
<1>4. /\ Read(field, m, env) = Given(m, <<>>)
      /\ Read(field, Effective, env) = Given(Effective, <<>>)
      /\ Runs(field, m, env) = Answered(m)
      /\ Runs(field, Effective, env) = Answered(Effective)
  BY <1>1 DEF Read, Runs, Texts, Numbers
<1> SUFFICES Read(field, Effective, env) \in InForm(field) /\ (Accepted(field, f) => Well(f, b, v, m))
  BY DEF Now, SavesWell
<1>now. Read(field, Effective, env) \in Seq(Row) /\ Read(field, Effective, env) \in InForm(field)
  <2> HIDE DEF Row, Typing
  <2>1. Given(Effective, <<>>) \in Seq(Row)
    BY <1>1, <1>2, NoRows DEF Given
  <2>2. Given(Effective, <<>>) \in Seq(Typing)
    BY <2>1, <1>3, MoreThan
  <2> QED
    BY <2>1, <2>2, <1>2, <1>4
<1>5. T \in Seq(Typing)
  <2> HIDE DEF Typing, touched
  <2> QED
    BY <1>f, KeepRows
<1>r. \A i \in DOMAIN T : T[i] \in Typing /\ T[i] \in ToSet(T)
  <2> HIDE DEF Typing, T
  <2> QED
    BY <1>5, RowsOf, AllRows
<1> SUFFICES ASSUME Accepted(field, f) PROVE Well(f, b, v, m)
  BY <1>now
<1> HIDE DEF b, T
<1>6. T \in Seq(Row)
  <2>1. ASSUME NEW i \in DOMAIN T PROVE T[i] \in Row
    <3>1. T[i] \in Typing /\ T[i].name # "" /\ T[i].value # ""
      BY <1>r, <1>s
    <3> QED
      BY <3>1 DEF Filled
  <2> HIDE DEF Row, Typing
  <2>2. T \in [1 .. Len(T) -> Row] /\ Len(T) \in Nat
    BY <2>1, <1>5, RowsOf
  <2> QED
    BY <2>2, ListOf
<1>7. /\ b \in Seq(Row) /\ DOMAIN b = DOMAIN T /\ Lowered(b) = b
      /\ \A i \in DOMAIN T : b[i] = low(T[i])
  BY <1>6, <1>s, LoweredRows
<1>10. rs = b
  <2>1. \A i \in DOMAIN b : b[i] \in Row
    <3> HIDE DEF Row
    <3> QED
      BY <1>7, RowsOf
  <2>2. DOMAIN b \subseteq places
    BY <2>1 DEF Filled
  <2> HIDE DEF Row, places
  <2> QED
    BY <2>2, <1>7, KeepRows
<1>11. v = b
  <2> DEFINE key == [i \in DOMAIN b |-> <<Lower(b[i].name), b[i].type>>]
  <2>1. NoTwo(key)
    <3> SUFFICES ASSUME NEW i \in DOMAIN b, NEW j \in DOMAIN b,
                        Lower(b[i].name) = Lower(b[j].name), b[i].type = b[j].type
                 PROVE  i = j
      BY DEF NoTwo
    <3>1. /\ b[i].name = Lower(T[i].name) /\ b[i].type = T[i].type
          /\ b[j].name = Lower(T[j].name) /\ b[j].type = T[j].type
      BY <1>7 DEF Record
    <3>2. T[i].name \in Word /\ T[j].name \in Word
      BY <1>7, <1>r
    <3>3. Lower(T[i].name) = Lower(T[j].name) /\ T[i].type = T[j].type
      BY <3>1, <3>2, LowerWords
    <3> QED
      BY <3>3, <1>7, <1>s DEF NoTwo
  <2>2. DOMAIN key = DOMAIN b
    OBVIOUS
  <2>3. v = Lowered(Distinct(b, key))
    <3> HIDE DEF rs, v
    <3> QED
      BY <1>10, <1>s
  <2> HIDE DEF key, v, Row
  <2>4. Distinct(b, key) = b
    BY <2>1, <2>2, <1>7, DistinctRows
  <2> QED
    BY <2>3, <2>4, <1>7
<1>12. m = v /\ m # Absent
  <2> HIDE DEF Row, v, m
  <2> QED
    BY <1>1, <1>2, <1>7, <1>11
<1>13. ASSUME f = Read(field, Effective, env) PROVE Runs(field, m, env) = Runs(field, Effective, env)
  <2>1. f \in Seq(Row)
    BY <1>13, <1>now
  <2>2. DOMAIN f \subseteq touched
    <3>1. \A i \in DOMAIN f : f[i] \in Row
      <4> HIDE DEF Row
      <4> QED
        BY <2>1, RowsOf
    <3> QED
      BY <3>1 DEF Filled
  <2>3. T = f
    <3> HIDE DEF touched, Typing
    <3> QED
      BY <2>2, <1>f, KeepRows DEF T
  <2>4. \A i \in DOMAIN f : low(b[i]) = low(f[i])
    <3> SUFFICES ASSUME NEW i \in DOMAIN f PROVE low(b[i]) = low(f[i])
      OBVIOUS
    <3>1. b[i] = low(f[i]) /\ f[i].name \in Word
      BY <1>7, <1>r, <2>3
    <3>2. /\ b[i].name = Lower(f[i].name) /\ b[i].type = f[i].type
          /\ b[i].value = f[i].value
      BY <3>1 DEF Record
    <3>3. Lower(b[i].name) = Lower(f[i].name)
      BY <3>1, <3>2, LowerWords
    <3> QED
      BY <3>2, <3>3
  <2>5. {low(r) : r \in ToSet(b)} = {low(r) : r \in ToSet(f)}
    <3> HIDE DEF low
    <3> QED
      BY <2>4, <2>3, <1>7 DEF ToSet
  <2> HIDE DEF v, m, low
  <2> QED
    BY <2>5, <1>4, <1>11, <1>12, <1>13 DEF Given
<1> HIDE DEF v, m, Row, Typing
<1> QED
  BY <1>2, <1>s, <1>4, <1>7, <1>11, <1>12, <1>13 DEF Well, Given

-----------------------------------------------------------------------------
(* Of every kind, the page shows a form, and a save does what it should.   *)
LEMMA EverySave ==
    ASSUME Held, NEW f \in InForm(field)
    PROVE  Now \in InForm(field) /\ SavesWell(f)
BY TextSaves, WindowSaves, PauseSaves, FamilySaves, UsageSaves, HookSaves, ClientsSave, UpstreamsSave,
   SourcesSave, DomainsSave, RecordsSave
   DEF Held, Kind, Lists

-----------------------------------------------------------------------------
(* What somebody types is a form, and what somebody writes by hand can be  *)
(* in a file.                                                              *)
LEMMA RowsTyped ==
    ASSUME NEW S, NEW T, \A x \in S : x \in T, NEW rows \in Rows(S)
    PROVE  rows \in Seq(T)
<1>1. PICK n \in 0 .. MaxRows : rows \in [1 .. n -> S]
  BY DEF Rows
<1>2. n \in Nat /\ rows \in [1 .. n -> T]
  BY <1>1, RowsAssumption
<1> QED
  BY <1>2, ListOf

LEMMA TextsTyped ==
    ASSUME NEW k \in Texts PROVE \A f \in Typed(k) : f \in InForm(k)
<1>1. CASE k \in {"timeout", "interval", "cap"}
  <2>1. Typed(k) = Durations \cup {"", "bad"} /\ InForm(k) = Word
    BY <1>1 DEF Typed, InForm, Numbers
  <2> QED
    BY <2>1, Words DEF Durations
<1>2. CASE k = "backoff"
  <2>1. Typed(k) = {"", "0", "5s", "9s", "bad"} /\ InForm(k) = Word
    BY <1>2 DEF Typed, InForm, Numbers
  <2> QED
    BY <2>1, Words
<1>3. CASE k \in Numbers \cup {"disk"}
  <2>1. Typed(k) = Numerals \cup {"", "bad"} /\ InForm(k) = Word
    BY <1>3 DEF Typed, InForm, Numbers
  <2> QED
    BY <2>1, Words DEF Numerals
<1>4. CASE k \in {"reuse_port", "serve_stale"}
  BY <1>4 DEF Typed, InForm, Numbers
<1>5. CASE k = "level"
  BY <1>5 DEF Typed, InForm, Numbers
<1>6. CASE k = "hostname"
  <2>1. Typed(k) = {"", "here"} /\ InForm(k) = Word
    BY <1>6 DEF Typed, InForm, Numbers
  <2> QED
    BY <2>1 DEF Word
<1>7. CASE k = "address"
  <2>1. Typed(k) = {"", "r1", "r2"} /\ InForm(k) = Word
    BY <1>7 DEF Typed, InForm, Numbers
  <2> QED
    BY <2>1, Words
<1>8. CASE k = "password"
  <2>1. Typed(k) = {"", "***", "pw"} /\ InForm(k) = Word
    BY <1>8 DEF Typed, InForm, Numbers
  <2> QED
    BY <2>1 DEF Word
<1>9. CASE k = "blocked"
  <2>1. Typed(k) = {"nxdomain", "ip", "bad"} /\ InForm(k) = Word
    BY <1>9 DEF Typed, InForm, Numbers
  <2> QED
    BY <2>1 DEF Word
<1> QED
  BY <1>1, <1>2, <1>3, <1>4, <1>5, <1>6, <1>7, <1>8, <1>9 DEF Texts, Numbers

LEMMA ListsTyped ==
    ASSUME NEW k \in Lists PROVE \A f \in Typed(k) : f \in InForm(k)
<1>w. /\ "" \in Word /\ "n" \in Word /\ "N" \in Word /\ "u" \in Word /\ "U" \in Word /\ "bad" \in Word
      /\ "host" \in Word /\ "tls" \in Word /\ "loose" \in Word /\ "udp" \in Word
      /\ "A" \in Word /\ "TXT" \in Word /\ "v" \in Word
  BY DEF Word
<1>1. CASE k = "clients"
  <2> DEFINE S == [name : {"", "n"}, ip : {"", "n"}]
  <2>1. Typed(k) = Rows(S) /\ InForm(k) = Seq([name : Word, ip : Word])
    BY <1>1 DEF Typed, InForm, Numbers
  <2>2. \A x \in S : x \in [name : Word, ip : Word]
    BY <1>w
  <2> HIDE DEF S
  <2> QED
    BY <2>1, <2>2, RowsTyped
<1>2. CASE k = "sources"
  <2> DEFINE S == [name : {"", "n"}, url : {"", "u", "U", "bad"}]
  <2>1. Typed(k) = Rows(S) /\ InForm(k) = Seq([name : Word, url : Word])
    BY <1>2 DEF Typed, InForm, Numbers
  <2>2. \A x \in S : x \in [name : Word, url : Word]
    BY <1>w
  <2> HIDE DEF S
  <2> QED
    BY <2>1, <2>2, RowsTyped
<1>3. CASE k = "upstreams"
  <2> DEFINE S == [address : {"", "host", "tls", "loose", "bad"}, protocol : {"udp", "tls"}]
  <2>1. Typed(k) = Rows(S) /\ InForm(k) = Seq([address : Word, protocol : Word])
    BY <1>3 DEF Typed, InForm, Numbers
  <2>2. \A x \in S : x \in [address : Word, protocol : Word]
    BY <1>w
  <2> HIDE DEF S
  <2> QED
    BY <2>1, <2>2, RowsTyped
<1>4. CASE k = "records"
  <2> DEFINE S == {Record("", "A", ""), Record("n", "A", "v"), Record("N", "A", "v"),
                   Record("n", "TXT", "v"), Record("n", "A", "bad"), Record("n", "A", "")}
  <2>1. Typed(k) = Rows(S) /\ InForm(k) = Seq([name : Word, type : Word, value : Word])
    BY <1>4 DEF Typed, InForm, Numbers
  <2>2. \A n, t, v \in Word : Record(n, t, v) \in [name : Word, type : Word, value : Word]
    BY DEF Record
  <2>3. \A x \in S : x \in [name : Word, type : Word, value : Word]
    <3>1. /\ Record("", "A", "") \in [name : Word, type : Word, value : Word]
          /\ Record("n", "A", "v") \in [name : Word, type : Word, value : Word]
          /\ Record("N", "A", "v") \in [name : Word, type : Word, value : Word]
          /\ Record("n", "TXT", "v") \in [name : Word, type : Word, value : Word]
          /\ Record("n", "A", "bad") \in [name : Word, type : Word, value : Word]
          /\ Record("n", "A", "") \in [name : Word, type : Word, value : Word]
      BY <1>w, <2>2
    <3> QED
      BY <3>1
  <2> HIDE DEF S
  <2> QED
    BY <2>1, <2>3, RowsTyped
<1>5. CASE k = "domains"
  <2> DEFINE S == {"d", "e"}
  <2>1. Typed(k) \subseteq Rows(S) /\ InForm(k) = Seq(Filled)
    BY <1>5 DEF Typed, InForm, Numbers
  <2>2. \A x \in S : x \in Filled
    BY DEF Filled, Word
  <2> HIDE DEF S
  <2> QED
    BY <2>1, <2>2, RowsTyped
<1> QED
  BY <1>1, <1>2, <1>3, <1>4, <1>5 DEF Lists

LEMMA TypedForm ==
    ASSUME NEW k \in Kind PROVE \A f \in Typed(k) : f \in InForm(k)
<1>1. CASE k = "window"
  <2>1. /\ \A f : f \in Typed(k) <=> f \in [on : Flags, window : {"", "0", "5s", "bad"}]
        /\ \A f : f \in InForm(k) <=> f \in [on : Flags, window : Word]
    BY <1>1 DEF Typed, InForm, Numbers
  <2>2. ASSUME NEW f \in Typed(k) PROVE f \in InForm(k)
    <3>0. f \in [on : Flags, window : {"", "0", "5s", "bad"}]
      BY <2>1
    <3>1. f = [on |-> f.on, window |-> f.window] /\ f.on \in Flags /\ f.window \in {"", "0", "5s", "bad"}
      BY <3>0
    <3>2. f.window \in Word
      BY <3>1, Words
    <3> QED
      BY <2>1, <3>1, <3>2
  <2> QED
    BY <2>2
<1>2. CASE k = "pause"
  <2>1. /\ \A f : f \in Typed(k) <=> f \in [on : Flags, start : Times, end : Times, days : {{}, {1}, 1 .. 5}]
        /\ \A f : f \in InForm(k) <=> f \in [on : Flags, start : Times, end : Times, days : SUBSET (0 .. 6)]
    BY <1>2 DEF Typed, InForm, Numbers
  <2>2. \A ds \in {{}, {1}, 1 .. 5} : ds \in SUBSET (0 .. 6)
    OBVIOUS
  <2> QED
    BY <2>1, <2>2
<1>3. CASE k = "family"
  <2>1. /\ \A f : f \in Typed(k) <=> f \in [on : Flags, start : {9, 17}, end : {9, 17},
                                            services : {{}, {"s"}}, domains : {{}}]
        /\ \A f : f \in InForm(k) <=> f \in [on : Flags, start : Times, end : Times,
                                            services : SUBSET Word, domains : {{}}]
    BY <1>3 DEF Typed, InForm, Numbers
  <2>2. \A ss \in {{}, {"s"}} : ss \in SUBSET Word
    BY DEF Word
  <2> QED
    BY <2>1, <2>2 DEF Times
<1>4. CASE k = "hook"
  <2>1. /\ \A f : f \in Typed(k) <=> f \in [limit : {"0", "10", "99"}, targets : Rows({"", "u"})]
        /\ \A f : f \in InForm(k) <=> f \in [limit : Word, targets : Seq(Word)]
    BY <1>4 DEF Typed, InForm, Numbers
  <2>2. \A ts \in Rows({"", "u"}) : ts \in Seq(Word)
    BY Words, RowsTyped
  <2>3. ASSUME NEW f \in Typed(k) PROVE f \in InForm(k)
    <3>0. f \in [limit : {"0", "10", "99"}, targets : Rows({"", "u"})]
      BY <2>1
    <3>1. /\ f = [limit |-> f.limit, targets |-> f.targets]
          /\ f.limit \in {"0", "10", "99"} /\ f.targets \in Rows({"", "u"})
      BY <3>0
    <3>2. f.limit \in Word /\ f.targets \in Seq(Word)
      BY <2>2, <3>1, Words
    <3> QED
      BY <2>1, <3>1, <3>2
  <2> QED
    BY <2>3
<1>5. CASE k = "usage"
  <2>1. /\ \A f : f \in Typed(k) <=> f \in [on : Flags, url : {"", "u", "bad"}, time : {0, 9}]
        /\ \A f : f \in InForm(k) <=> f \in [on : Flags, url : Word, time : Times]
    BY <1>5 DEF Typed, InForm, Numbers
  <2>2. ASSUME NEW f \in Typed(k) PROVE f \in InForm(k)
    <3>0. f \in [on : Flags, url : {"", "u", "bad"}, time : {0, 9}]
      BY <2>1
    <3>1. /\ f = [on |-> f.on, url |-> f.url, time |-> f.time]
          /\ f.on \in Flags /\ f.url \in {"", "u", "bad"} /\ f.time \in {0, 9}
      BY <3>0
    <3>2. f.url \in Word /\ f.time \in Times
      BY <3>1, Words DEF Times
    <3> QED
      BY <2>1, <3>1, <3>2
  <2> QED
    BY <2>2
<1> QED
  BY <1>1, <1>2, <1>3, <1>4, <1>5, TextsTyped, ListsTyped DEF Kind

(* There is a form of every kind, and so the page always shows one.        *)
LEMMA ShowsForm == ASSUME Held PROVE Now \in InForm(field)
<1>1. \E f : f \in InForm(field)
  <2>1. CASE field \in {"reuse_port", "serve_stale"}
    BY <2>1 DEF InForm, Flags
  <2>2. CASE field = "level"
    BY <2>2 DEF InForm
  <2>3. CASE field \in {"window", "pause", "family", "hook", "usage"}
    <3>1. \E f : f \in Typed(field)
      <4>1. {} \in SUBSET (0 .. 6)
        OBVIOUS
      <4>2. <<>> \in Rows({"", "u"})
        <5>1. 0 \in 0 .. MaxRows /\ <<>> \in [1 .. 0 -> {"", "u"}]
          BY RowsAssumption
        <5> QED
          BY <5>1 DEF Rows
      <4>3. /\ field = "window" => Window("true", "") \in Typed(field)
            /\ field = "pause" => Pause("true", 0, 0, {}) \in Typed(field)
            /\ field = "family" => Family("true", 9, 9, {}, {}) \in Typed(field)
            /\ field = "hook" => Hook("0", <<>>) \in Typed(field)
            /\ field = "usage" => Usage("true", "", 0) \in Typed(field)
        BY <4>2 DEF Typed, Numbers, Flags, Times, Window, Pause, Family, Hook, Usage
      <4> QED
        BY <2>3, <4>3
    <3> QED
      BY <3>1, TypedForm DEF Held
  <2>4. CASE field \in Lists
    BY <2>4, NoRows DEF InForm, Lists
  <2>5. CASE field \in Texts \ {"reuse_port", "serve_stale", "level"}
    BY <2>5, Words DEF InForm, Texts
  <2> QED
    BY <2>1, <2>2, <2>3, <2>4, <2>5 DEF Held, Kind
<1> QED
  BY <1>1, EverySave

LEMMA TextsWritten ==
    ASSUME NEW k \in Texts PROVE \A v \in ByHand(k) : v \in File(k)
<1>1. CASE k = "timeout"
  <2>1. ByHand(k) = {Absent, "", "5s", "9s"} /\ File(k) = {Absent} \cup Word
    BY <1>1 DEF ByHand, File, InFile, Numbers
  <2> QED
    BY <2>1, Words
<1>2. CASE k \in {"interval", "cap"}
  <2>1. /\ ByHand(k) = {Absent, "5s", "9s"}
        /\ File(k) = {Absent} \cup (IF k = "cap" THEN Durations ELSE Word)
    BY <1>2 DEF ByHand, File, InFile, Numbers
  <2> QED
    BY <2>1, Words DEF Durations
<1>3. CASE k = "backoff"
  <2>1. ByHand(k) = {Absent, "0", "9s"} /\ File(k) = {Absent} \cup Word
    BY <1>3 DEF ByHand, File, InFile, Numbers
  <2> QED
    BY <2>1, Words
<1>4. CASE k \in Numbers \cup {"disk"}
  BY <1>4 DEF ByHand, File, InFile, Numbers
<1>5. CASE k \in {"reuse_port", "serve_stale"}
  <2>1. ByHand(k) = {Absent} \cup Typed(k) /\ File(k) = {Absent} \cup Flags
    BY <1>5 DEF ByHand, File, InFile, Numbers
  <2>2. InForm(k) = Flags
    BY <1>5 DEF InForm
  <2> QED
    BY <2>1, <2>2, TextsTyped
<1>6. CASE k = "level"
  <2>1. ByHand(k) = {Absent, "debug", "odd"} /\ File(k) = {Absent} \cup Word
    BY <1>6 DEF ByHand, File, InFile, Numbers
  <2> QED
    BY <2>1 DEF Word
<1>7. CASE k = "hostname"
  <2>1. ByHand(k) = {Absent} \cup Typed(k) /\ File(k) = {Absent} \cup Word /\ InForm(k) = Word
    BY <1>7 DEF ByHand, File, InFile, InForm, Numbers
  <2> QED
    BY <2>1, TextsTyped
<1>8. CASE k = "address"
  <2>1. ByHand(k) = {Absent, "r1", "r2"} /\ File(k) = {Absent} \cup Word
    BY <1>8 DEF ByHand, File, InFile, Numbers
  <2> QED
    BY <2>1, Words
<1>9. CASE k = "password"
  BY <1>9 DEF ByHand, File, InFile, Numbers
<1>10. CASE k = "blocked"
  <2>1. ByHand(k) = {Absent, "nxdomain", "ip"} /\ File(k) = {Absent} \cup Word
    BY <1>10 DEF ByHand, File, InFile, Numbers
  <2> QED
    BY <2>1 DEF Word
<1> QED
  BY <1>1, <1>2, <1>3, <1>4, <1>5, <1>6, <1>7, <1>8, <1>9, <1>10 DEF Texts, Numbers

LEMMA OneRow == ASSUME NEW S, NEW r \in S PROVE <<r>> \in Seq(S) /\ <<r, r>> \in Seq(S)
OBVIOUS

LEMMA ListsWritten ==
    ASSUME NEW k \in Lists PROVE \A v \in ByHand(k) : v \in File(k)
<1>w. /\ "n" \in Filled /\ "N" \in Filled /\ "u" \in Filled /\ "host" \in Filled /\ "tls" \in Filled
      /\ "v" \in Filled /\ "d" \in Filled /\ "D" \in Filled
      /\ "" \in Word /\ "n" \in Word /\ "A" \in Word /\ "udp" \in Word /\ "tls" \in Word
  BY DEF Filled, Word
<1>1. CASE k = "clients"
  <2>1. /\ ByHand(k) = {Absent, <<>>, <<Client("n", "n")>>}
        /\ \A v : v \in File(k) <=> v = Absent \/ v \in Seq([name : Filled, ip : Filled])
    BY <1>1 DEF ByHand, File, InFile, Numbers
  <2>2. Client("n", "n") \in [name : Filled, ip : Filled]
    BY <1>w DEF Client
  <2> QED
    BY <2>1, <2>2, NoRows, OneRow
<1>2. CASE k = "sources"
  <2>1. /\ ByHand(k) = {Absent, <<Source("", "u")>>, <<Source("n", "u")>>}
        /\ \A v : v \in File(k) <=> v = Absent \/ v \in Seq([name : Word, url : Filled])
    BY <1>2 DEF ByHand, File, InFile, Numbers
  <2>2. Source("", "u") \in [name : Word, url : Filled] /\ Source("n", "u") \in [name : Word, url : Filled]
    BY <1>w DEF Source
  <2> QED
    BY <2>1, <2>2, OneRow
<1>3. CASE k = "upstreams"
  <2>1. /\ ByHand(k) = {Absent, <<Upstream("host", "udp")>>, <<Upstream("tls", "tls")>>}
        /\ \A v : v \in File(k) <=> v = Absent \/ v \in Seq([address : Filled, protocol : Word])
    BY <1>3 DEF ByHand, File, InFile, Numbers
  <2>2. /\ Upstream("host", "udp") \in [address : Filled, protocol : Word]
        /\ Upstream("tls", "tls") \in [address : Filled, protocol : Word]
    BY <1>w DEF Upstream
  <2> QED
    BY <2>1, <2>2, OneRow
<1>4. CASE k = "records"
  <2>1. /\ ByHand(k) = {Absent, <<>>, <<Record("N", "A", "v")>>}
        /\ \A v : v \in File(k) <=> v = Absent \/ v \in Seq([name : Filled, type : Word, value : Filled])
    BY <1>4 DEF ByHand, File, InFile, Numbers
  <2>2. Record("N", "A", "v") \in [name : Filled, type : Word, value : Filled]
    BY <1>w DEF Record
  <2> QED
    BY <2>1, <2>2, NoRows, OneRow
<1>5. CASE k = "domains"
  <2>1. /\ ByHand(k) = {Absent, <<>>, <<"d", "d">>, <<"D">>}
        /\ \A v : v \in File(k) <=> v = Absent \/ v \in Seq(Filled)
    BY <1>5 DEF ByHand, File, InFile, Numbers
  <2> QED
    BY <2>1, <1>w, NoRows, OneRow
<1> QED
  BY <1>1, <1>2, <1>3, <1>4, <1>5 DEF Lists

LEMMA WrittenFile ==
    ASSUME NEW k \in Kind PROVE \A v \in ByHand(k) : v \in File(k)
<1>1. CASE k = "window"
  <2>1. ByHand(k) = {Absent, "0", "0s", "9s"} /\ File(k) = {Absent} \cup Word
    BY <1>1 DEF ByHand, File, InFile, Numbers
  <2> QED
    BY <2>1 DEF Word, Numerals, Durations
<1>2. CASE k = "pause"
  <2> DEFINE P == [on : Flags, start : Times, end : Times, days : {Absent} \cup SUBSET (0 .. 6)]
  <2>1. /\ ByHand(k) = {Absent, Pause("true", 9, 17, {1}), Pause("true", 9, 17, Absent),
                        Pause("false", 17, 9, Absent)}
        /\ \A v : v \in File(k) <=> v = Absent \/ v \in P
    BY <1>2 DEF ByHand, File, InFile, Numbers
  <2>2. /\ "true" \in Flags /\ "false" \in Flags /\ 9 \in Times /\ 17 \in Times
        /\ {1} \in SUBSET (0 .. 6)
    BY DEF Flags, Times
  <2>3. /\ Pause("true", 9, 17, {1}) \in P /\ Pause("true", 9, 17, Absent) \in P
        /\ Pause("false", 17, 9, Absent) \in P
    BY <2>2 DEF Pause
  <2> HIDE DEF P
  <2> QED
    BY <2>1, <2>3
<1>3. CASE k = "family"
  <2> DEFINE H == [on : {"true"}, start : {9}, end : {17}, services : {{}, {"s"}}, domains : {{}, {"s"}}]
             F == [on : Flags, start : Times, end : Times, services : SUBSET Word, domains : SUBSET Word]
  <2>1. /\ \A v : v \in ByHand(k) => v = Absent \/ v \in H
        /\ \A v : v \in File(k) <=> v = Absent \/ v \in F
    BY <1>3 DEF ByHand, File, InFile, Numbers
  <2>2. /\ "true" \in Flags /\ 9 \in Times /\ 17 \in Times
        /\ \A ss \in {{}, {"s"}} : ss \in SUBSET Word
    BY DEF Flags, Times, Word
  <2>3. \A v \in H : v \in F
    BY <2>2
  <2> HIDE DEF F, H
  <2> QED
    BY <2>1, <2>3
<1>4. CASE k = "hook"
  <2> DEFINE H == [limit : {"0", "99"}, targets : {<<>>, <<"u">>}]
             F == [limit : Word, targets : Seq(Filled)]
  <2>1. /\ \A v : v \in ByHand(k) => v = Absent \/ v \in H
        /\ \A v : v \in File(k) <=> v = Absent \/ v \in F
    BY <1>4 DEF ByHand, File, InFile, Numbers
  <2>2. "u" \in Filled
    BY DEF Filled, Word
  <2>3. \A ts \in {<<>>, <<"u">>} : ts \in Seq(Filled)
    BY <2>2, NoRows, OneRow
  <2>4. ASSUME NEW v \in H PROVE v \in F
    <3>1. /\ v = [limit |-> v.limit, targets |-> v.targets]
          /\ v.limit \in {"0", "99"} /\ v.targets \in {<<>>, <<"u">>}
      OBVIOUS
    <3>2. v.limit \in Word /\ v.targets \in Seq(Filled)
      BY <2>3, <3>1, Words
    <3> QED
      BY <3>1, <3>2
  <2> HIDE DEF F, H
  <2> QED
    BY <2>1, <2>4
<1>5. CASE k = "usage"
  <2>1. /\ \A v : v \in ByHand(k) => v = Absent \/ v = Usage("true", "u", 9)
        /\ \A v : v \in [on : {"true"}, url : Word, time : Times] => v \in File(k)
        /\ Absent \in File(k)
    BY <1>5 DEF ByHand, File, InFile, Numbers
  <2>2. Usage("true", "u", 9) \in [on : {"true"}, url : Word, time : Times]
    BY Words DEF Usage, Times
  <2> QED
    BY <2>1, <2>2
<1> QED
  BY <1>1, <1>2, <1>3, <1>4, <1>5, TextsWritten, ListsWritten DEF Kind

-----------------------------------------------------------------------------
(* The inductive invariant: the files and the form hold what they can, a   *)
(* page that was just opened shows what the files say, an export is of     *)
(* some override, and the two properties themselves.                       *)
ExportKnown ==
    exported # Absent =>
        \E o \in File(field) :
           exported = [doc |-> RemoveInstanceDetails(field,
                                  RemovePasswordFields(field, Differences(default, o))),
                       runs |-> Runs(field, Merge(default, o), Absent)]

ValueInv == /\ Held
            /\ form \in InForm(field)
            /\ loaded => form = Now
            /\ ExportKnown
            /\ FormSound
            /\ SavedIsShown

LEMMA ValueInitInv == ValueInit => ValueInv
<1> SUFFICES ASSUME ValueInit PROVE ValueInv
  OBVIOUS
<1>1. Held
  <2>1. field \in Kind /\ default \in ByHand(field) /\ override \in ByHand(field) /\ env \in Env(field)
    BY DEF ValueInit, Env
  <2> QED
    BY <2>1, WrittenFile DEF Held
<1> QED
  BY <1>1, ShowsForm DEF ValueInit, ValueInv, ExportKnown, FormSound, SavedIsShown

(* What an import leaves in the override file.                             *)
LEMMA PasswordLess ==
    ASSUME NEW k, NEW v \in File(k) PROVE RemovePasswordFields(k, v) \in File(k)
BY DEF RemovePasswordFields, File

LEMMA ImportKeeps ==
    ASSUME ValueInv, NEW imported \in File(field), Import(imported)
    PROVE  ValueInv'
<1>1. Merge(override, imported) \in File(field)
  BY DEF ValueInv, Held, Merge, Given
<1>2. override' \in File(field)
  BY <1>1, PasswordLess DEF Import
<1>3. UNCHANGED <<field, default, env, form, refused, exported>> /\ ~loaded' /\ asked' = Absent
  BY DEF Import
<1> QED
  BY <1>2, <1>3 DEF ValueInv, Held, ExportKnown, FormSound, SavedIsShown

LEMMA MaskedImportKeeps ==
    ASSUME ValueInv, Import(Redacted(field, Effective))
    PROVE  ValueInv'
<1>1. Effective \in File(field)
  BY DEF ValueInv, Held, Effective, Merge, Given
<1>2. CASE field = "password" /\ Effective # Absent
  <2>1. override' = Absent /\ Absent \in File(field)
    BY <1>2 DEF Import, RemovePasswordFields, File
  <2>2. UNCHANGED <<field, default, env, form, refused, exported>> /\ ~loaded' /\ asked' = Absent
    BY DEF Import
  <2> QED
    BY <2>1, <2>2 DEF ValueInv, Held, ExportKnown, FormSound, SavedIsShown
<1>3. CASE ~(field = "password" /\ Effective # Absent)
  <2>1. Redacted(field, Effective) = Effective
    BY <1>3 DEF Redacted
  <2> QED
    BY <1>1, <2>1, ImportKeeps
<1> QED
  BY <1>2, <1>3

LEMMA ExportDoc ==
    ASSUME ValueInv, exported # Absent
    PROVE  exported.doc \in File(field)
<1>1. PICK o \in File(field) :
        exported.doc = RemoveInstanceDetails(field, RemovePasswordFields(field, Differences(default, o)))
  BY DEF ValueInv, ExportKnown
<1>2. Absent \in File(field)
  BY DEF File
<1> QED
  BY <1>1, <1>2 DEF RemoveInstanceDetails, RemovePasswordFields, Differences

(* A save that the server takes is shown as it was sent, and one that the  *)
(* server refuses was for it alone to check.                               *)
LEMMA SaveKeeps == ASSUME ValueInv, Save PROVE ValueInv'
<1> DEFINE b == Sent(field, form)
           v == Saved(field, form, override)
<1>1. UNCHANGED <<field, default, env, form, exported>> /\ Accepted(field, form)
  BY DEF Save
<1>2. Well(form, b, v, Merge(default, v))
  BY <1>1, EverySave DEF ValueInv, SavesWell
<1>3. CASE Refused(field, b)
  <2>1. refused' /\ UNCHANGED <<override, asked, loaded>>
    BY <1>3 DEF Save
  <2>2. field \in {"backoff", "usage"}
    BY <1>2, <1>3 DEF Well
  <2> HIDE DEF b, v
  <2>3. Now' = Now
    BY <1>1, <2>1 DEF Now, Effective
  <2>4. SavedIsShown'
    BY <1>1, <2>1, <2>3 DEF ValueInv, SavedIsShown, Excused
  <2> QED
    BY <1>1, <2>1, <2>2, <2>3, <2>4 DEF ValueInv, Held, ExportKnown, FormSound
<1>4. CASE ~Refused(field, b)
  <2>1. override' = v /\ asked' = b /\ ~loaded' /\ ~refused'
    BY <1>4 DEF Save, Saved
  <2>2. v \in File(field) /\ (Read(field, Merge(default, v), env) = b \/ Excused(field, b))
    BY <1>2, <1>4 DEF Well
  <2> HIDE DEF b, v
  <2>3. Now' = Read(field, Merge(default, v), env)
    BY <1>1, <2>1 DEF Now, Effective
  <2>4. Excused(field, b) => Excused(field, asked)'
    BY <1>1, <2>1 DEF Excused
  <2>5. SavedIsShown'
    BY <2>1, <2>2, <2>3, <2>4 DEF SavedIsShown
  <2> QED
    BY <1>1, <2>1, <2>2, <2>5 DEF ValueInv, Held, ExportKnown, FormSound
<1> QED
  BY <1>3, <1>4

LEMMA ValueInvStep == ValueInv /\ [ValueNext]_valueVars => ValueInv'
<1> SUFFICES ASSUME ValueInv, [ValueNext]_valueVars PROVE ValueInv'
  OBVIOUS
<1>1. CASE Load
  <2>1. /\ UNCHANGED <<field, default, override, env, asked, exported>>
        /\ form' = Now /\ ~refused'
    BY <1>1 DEF Load
  <2>2. Now' = Now
    BY <2>1 DEF Now, Effective
  <2>3. SavedIsShown'
    BY <2>1, <2>2 DEF ValueInv, SavedIsShown, Excused
  <2>4. Now \in InForm(field)
    BY ShowsForm DEF ValueInv
  <2> QED
    BY <2>1, <2>2, <2>3, <2>4 DEF ValueInv, Held, ExportKnown, FormSound
<1>2. ASSUME NEW v \in Typed(field), Edit(v) PROVE ValueInv'
  <2>1. /\ UNCHANGED <<field, default, override, env, asked, exported>>
        /\ form' = v /\ ~refused' /\ ~loaded'
    BY <1>2 DEF Edit
  <2>2. Now' = Now
    BY <2>1 DEF Now, Effective
  <2>3. SavedIsShown'
    BY <2>1, <2>2 DEF ValueInv, SavedIsShown, Excused
  <2>4. v \in InForm(field)
    BY TypedForm DEF ValueInv, Held
  <2> QED
    BY <2>1, <2>3, <2>4 DEF ValueInv, Held, ExportKnown, FormSound
<1>3. CASE Save
  BY <1>3, SaveKeeps
<1>4. CASE Export
  <2>1. /\ UNCHANGED <<field, default, override, env, form, asked, loaded, refused>>
        /\ exported' = [doc |-> RemoveInstanceDetails(field,
                                   RemovePasswordFields(field, Differences(default, override))),
                        runs |-> Runs(field, Merge(default, override), Absent)]
    BY <1>4 DEF Export, Effective
  <2>2. ExportKnown'
    BY <2>1 DEF ValueInv, Held, ExportKnown
  <2>3. Now' = Now
    BY <2>1 DEF Now, Effective
  <2>4. SavedIsShown'
    BY <2>1, <2>3 DEF ValueInv, SavedIsShown, Excused
  <2> QED
    BY <2>1, <2>2, <2>3, <2>4 DEF ValueInv, Held, FormSound
<1>5. CASE ImportExport
  BY <1>5, ExportDoc, ImportKeeps DEF ImportExport
<1>6. CASE Import(Redacted(field, Effective))
  BY <1>6, MaskedImportKeeps
<1>7. CASE NewInstance
  <2>1. /\ UNCHANGED <<field, default, env, form, refused, exported>>
        /\ override' = Absent /\ asked' = Absent /\ ~loaded'
    BY <1>7 DEF NewInstance
  <2>2. Absent \in File(field)
    BY DEF File
  <2> QED
    BY <2>1, <2>2 DEF ValueInv, Held, ExportKnown, FormSound, SavedIsShown
<1>8. CASE UNCHANGED valueVars
  <2>1. UNCHANGED <<field, default, override, env, form, asked, loaded, refused, exported>>
    BY <1>8 DEF valueVars
  <2>2. Now' = Now
    BY <2>1 DEF Now, Effective
  <2>3. SavedIsShown'
    BY <2>1, <2>2 DEF ValueInv, SavedIsShown, Excused
  <2> QED
    BY <2>1, <2>2, <2>3 DEF ValueInv, Held, ExportKnown, FormSound
<1> QED
  BY <1>1, <1>2, <1>3, <1>4, <1>5, <1>6, <1>7, <1>8 DEF ValueNext

LEMMA ValueInvariance == ValueSpec => []ValueInv
BY ValueInitInv, ValueInvStep, PTL DEF ValueSpec

(* What the form's own validation lets through the routes take, whatever   *)
(* the files and the environment hold, but for the backoff of the          *)
(* upstreams and the schedule of usage statistics, which no form checks.   *)
THEOREM FormsAreSound == ValueSpec => []FormSound
<1>1. ValueInv => FormSound
  BY DEF ValueInv
<1> QED
  BY <1>1, ValueInvariance, PTL

(* After a save that the server has answered 200 to, the GET route shows   *)
(* what the page had sent, for as long as nothing else is written; what    *)
(* Excused lists are the only exceptions.                                  *)
THEOREM SavesAreShown == ValueSpec => []SavedIsShown
<1>1. ValueInv => SavedIsShown
  BY DEF ValueInv
<1> QED
  BY <1>1, ValueInvariance, PTL

(* No series of saves, exports and imports, not even the import of what    *)
(* the viewer shows, makes the DNS service run with the mask "***" for a   *)
(* password.                                                               *)
THEOREM MaskStaysOut == ValueSpec => []MaskNeverRuns
<1>1. ValueInv => MaskNeverRuns
  <2> SUFFICES ASSUME ValueInv, field = "password" PROVE Effective # "***"
    BY DEF MaskNeverRuns
  <2>1. File(field) = {Absent, "pw", "own"}
    BY DEF File, InFile, Numbers
  <2>2. Absent # "***"
    BY AbsentWord, Words
  <2> QED
    BY <2>1, <2>2 DEF ValueInv, Held, Effective, Merge, Given
<1> QED
  BY <1>1, ValueInvariance, PTL

(* A page that was opened and saved as it is leaves the DNS service with   *)
(* what it ran with, but for what Disturbed lists.                         *)
THEOREM ResavesAreHarmless == ValueSpec => ResaveChangesNothing
<1>1. ValueInv /\ [ValueNext]_valueVars =>
        [Save /\ loaded /\ ~Disturbed => Runs(field, Effective, env)' = Runs(field, Effective, env)]_valueVars
  <2> SUFFICES ASSUME ValueInv, Save, loaded, ~Disturbed
               PROVE  Runs(field, Effective, env)' = Runs(field, Effective, env)
    OBVIOUS
  <2> DEFINE b == Sent(field, form)
             v == Saved(field, form, override)
  <2>1. UNCHANGED <<field, default, env>> /\ Accepted(field, form)
    BY DEF Save
  <2>2. form = Read(field, Effective, env) /\ Well(form, b, v, Merge(default, v))
    BY <2>1, EverySave DEF ValueInv, SavesWell, Now
  <2>3. CASE Refused(field, b)
    BY <2>1, <2>3 DEF Save, Effective
  <2>4. CASE ~Refused(field, b)
    <3>1. override' = v
      BY <2>4 DEF Save, Saved
    <3>2. Runs(field, Merge(default, v), env) = Runs(field, Effective, env)
      BY <2>2, <2>4 DEF Well
    <3> HIDE DEF b, v
    <3>3. Effective' = Merge(default, v)
      BY <2>1, <3>1 DEF Effective
    <3> QED
      BY <2>1, <3>2, <3>3
  <2> QED
    BY <2>3, <2>4
<1> QED
  BY <1>1, ValueInvariance, PTL DEF ValueSpec, ResaveChangesNothing

(* An export imported by an instance of the same release, whichever        *)
(* override was exported and whatever the importing instance had before,   *)
(* has it run what the exporting one did, but for passwords, the hostname  *)
(* and what the export leaves out because it equals the default.           *)
THEOREM ImportsRestore == ValueSpec => ImportRestores
<1>1. ValueInv /\ [ValueNext]_valueVars =>
        [ImportExport => \/ Runs(field, Effective, Absent)' = exported.runs
                         \/ field \in {"password", "hostname"}
                         \/ exported.doc = Absent /\ override # Absent]_valueVars
  <2> SUFFICES ASSUME ValueInv, ImportExport, field \notin {"password", "hostname"},
                      exported.doc # Absent \/ override = Absent
               PROVE  Runs(field, Effective, Absent)' = exported.runs
    OBVIOUS
  <2>1. /\ exported # Absent /\ UNCHANGED <<field, default>>
        /\ override' = Merge(override, exported.doc)
    BY DEF ImportExport, Import, RemovePasswordFields
  <2>2. PICK o \in File(field) : /\ exported.doc = Differences(default, o)
                                 /\ exported.runs = Runs(field, Merge(default, o), Absent)
    BY <2>1 DEF ValueInv, ExportKnown, RemoveInstanceDetails, RemovePasswordFields
  <2>3. Merge(default, override') = Merge(default, o)
    BY <2>1, <2>2 DEF Differences, Merge, Given
  <2>4. Effective' = Merge(default, o)
    BY <2>1, <2>3 DEF Effective
  <2> QED
    BY <2>1, <2>2, <2>4
<1> QED
  BY <1>1, ValueInvariance, PTL DEF ValueSpec, ImportRestores
=============================================================================
