----------------------------- MODULE AdminPage -----------------------------
(***************************************************************************)
(* A page of the web client on which something is configured: what it      *)
(* loads, what is typed, what its Save and Apply send, the dialogs that    *)
(* ask first, and the answers that come back while somebody goes on        *)
(* typing, leaves the page or opens it again.                              *)
(*                                                                         *)
(* kind says which page it is.  Its hook is a state machine of its own;    *)
(* they differ in what stands on the page before it has loaded, in what    *)
(* Save is let through with, in what an answer does to the form and in     *)
(* what follows a save.  A request is a flow: on its way to the server,    *)
(* and its answer on its way back.  The server keeps one section, and has  *)
(* the service load it; between the two it is OverrideFile and             *)
(* ConfigValues.  Other administrators save, too.                          *)
(***************************************************************************)
EXTENDS Naturals, FiniteSets

CONSTANTS
    Flow,       (* requests that can be under way                          *)
    Content,    (* sets of rows that can be typed, chosen or switched on   *)
    Source,     (* the rows among them that are sources of a blocklist     *)
    Nil         (* no form; no body                                        *)

ASSUME ContentAssumption == {} \in Content /\ Nil \notin Content

Lists == {"blocklists"}
Dns == {"upstreams", "local_records", "response", "safe_search"}
System == {"system", "clients"}
Kind == Lists \cup Dns \cup System \cup {"webhooks"}

VARIABLES
    kind,      (* the page                                                 *)
    open,      (* it is on the screen                                      *)
    form,      (* what is on it                                            *)
    loaded,    (* its load has been answered with what the server has      *)
    status,    (* what it says about the last save                         *)
    dialog,    (* the dialog over it                                       *)
    flow,      (* the requests under way                                   *)
    store,     (* the section at the server                                *)
    running,   (* the section in the DNS service                           *)
    edited,    (* changed since it was last saved (history)                *)
    typed,     (* the form as somebody has typed it, until an answer to    *)
               (* something asked before takes its place (history)         *)
    late,      (* flows under way when somebody typed or saved (history)   *)
    crossed,   (* one of them has changed the form since (history)         *)
    contested, (* another administrator has saved since the page was       *)
               (* opened, or two saves were under way at once (history)    *)
    read       (* the dialog that somebody is answering (history)          *)

page == <<open, form, loaded, status>>
server == <<store, running>>
history == <<edited, typed, late, crossed, contested, read>>
vars == <<kind, page, dialog, flow, server, history>>

None == [purpose |-> "none", step |-> "idle", body |-> Nil, own |-> FALSE]
NoDialog == [what |-> "none", body |-> Nil, own |-> FALSE]
Flying == {f \in Flow : flow[f].step # "idle"}
Saves == {f \in Flying : flow[f].purpose \in {"save", "apply", "switch"}}
Saving == \E f \in Saves : flow[f].own
Loading == \E f \in Flying : flow[f].own /\ flow[f].purpose = "load"

Init ==
    /\ kind \in Kind
    /\ open = FALSE
    /\ form = Nil
    /\ loaded = FALSE
    /\ status = ""
    /\ dialog = NoDialog
    /\ flow = [f \in Flow |-> None]
    /\ store \in Content
    /\ running = store
    /\ edited = FALSE
    /\ typed = Nil
    /\ late = {}
    /\ crossed = FALSE
    /\ contested = FALSE
    /\ read = "none"

-----------------------------------------------------------------------------
(* Opening and leaving.  The pages of blocklists and DNS have an empty     *)
(* form before they have loaded, the others none.                          *)
Begin(f, purpose, step, body, own) ==
    /\ flow[f].step = "idle"
    /\ flow' = [flow EXCEPT ![f] = [purpose |-> purpose, step |-> step,
                                    body |-> body, own |-> own]]

Opens(f, blank) ==
    /\ ~open
    /\ Begin(f, "load", "get", Nil, TRUE)
    /\ open' = TRUE
    /\ form' = blank
    /\ UNCHANGED <<kind, loaded, status, dialog, server, history>>

OpenBlocklists(f) == kind \in Lists /\ Opens(f, {})
OpenDns(f) == kind \in Dns \ {"local_records"} /\ Opens(f, {})
OpenLocalRecords(f) == kind = "local_records" /\ Opens(f, {})
OpenSettings(f) == kind = "system" /\ Opens(f, Nil)
OpenClients(f) == kind = "clients" /\ Opens(f, Nil)
OpenIntegrations(f) == kind = "webhooks" /\ Opens(f, Nil)

(* A load is aborted; a save goes on, and what is to follow it, but it     *)
(* sets nothing any more.  The dialogs are not part of a page.             *)
LeavePage ==
    /\ open
    /\ open' = FALSE
    /\ form' = Nil
    /\ loaded' = FALSE
    /\ status' = ""
    /\ flow' = [f \in Flow |-> IF flow[f].purpose = "load" THEN None
                               ELSE [flow[f] EXCEPT !.own = FALSE]]
    /\ dialog' = [dialog EXCEPT !.own = FALSE, !.body = IF dialog.what = "apply" THEN @ ELSE Nil]
    /\ edited' = FALSE
    /\ typed' = Nil
    /\ late' = {}
    /\ crossed' = FALSE
    /\ contested' = FALSE
    /\ UNCHANGED <<kind, server, read>>

-----------------------------------------------------------------------------
(* Typing: rows are added, changed and removed, days, services and         *)
(* switches are toggled, a suggestion is taken.  The DNS pages show no     *)
(* form before their load has been answered.                               *)
Shown == open /\ form # Nil /\ (kind \in Dns => ~Loading)

Types(c) ==
    /\ c # form
    /\ form' = c
    /\ typed' = c
    /\ late' = Flying
    /\ crossed' = FALSE

Edit(c) ==
    /\ Shown
    /\ dialog = NoDialog
    /\ Types(c)
    /\ edited' = TRUE
    /\ UNCHANGED <<kind, open, loaded, status, dialog, flow, server, contested, read>>

EditBlocklists(c) == kind \in Lists /\ Edit(c)
EditUpstreams(c) == kind = "upstreams" /\ Edit(c)
EditLocalRecords(c) == kind = "local_records" /\ Edit(c)
EditResponse(c) == kind \in {"response", "safe_search"} /\ Edit(c)
EditSettings(c) == kind = "system" /\ Edit(c)
EditClients(c) == kind = "clients" /\ Edit(c)
EditWebhooks(c) == kind = "webhooks" /\ Edit(c)
-----------------------------------------------------------------------------
(* Save, with the form as it is.  The buttons of most pages are disabled   *)
(* while a request of theirs is under way, and all by an open dialog.      *)
Enabled ==
    /\ Shown
    /\ dialog = NoDialog
    /\ kind = "webhooks" \/ ~Saving
    /\ kind \in Lists => ~Loading

(* Mutant of Valid: that there is an upstream is left to the server.       *)
ValidSources(c) == kind \in Lists => c \cap Source # {}

(* What the validation of a page asks for: a source, an upstream.          *)
Valid(c) ==
    /\ kind \in Lists => c \cap Source # {}
    /\ kind = "upstreams" => c # {}

Sends(f, purpose, body, own) ==
    /\ Begin(f, purpose, "put", body, own)
    /\ contested' = (contested \/ Saves # {})

SaveForm(f, purpose) ==
    /\ Enabled
    /\ Valid(form)
    /\ Sends(f, purpose, form, TRUE)
    /\ status' = ""
    /\ edited' = FALSE
    /\ late' = late \cup Flying
    /\ UNCHANGED <<kind, open, form, loaded, dialog, server, typed, crossed, read>>

(* The pages of the blocklists and of DNS: what is saved is not applied.   *)
SaveBlocklists(f) == kind \in Lists /\ SaveForm(f, "save")
SaveUpstreams(f) == kind = "upstreams" /\ SaveForm(f, "save")
SaveLocalRecords(f) == kind = "local_records" /\ SaveForm(f, "save")
SaveResponse(f) == kind = "response" /\ SaveForm(f, "save")
SaveSafeSearch(f) == kind = "safe_search" /\ SaveForm(f, "save")

(* The system settings and the clients: client identification is applied.  *)
SaveSystemConfig(f) == kind = "system" /\ SaveForm(f, "apply")
SaveClients(f) == kind = "clients" /\ SaveForm(f, "apply")
SaveWebhooks(f) == kind = "webhooks" /\ SaveForm(f, "save")

(* A service, or a domain of the query list, is blocked or unblocked: the  *)
(* page shows it at once, then it is saved and applied.  What is shown is  *)
(* not taken back when that fails.                                         *)
Switched(f, c, body) ==
    /\ c \cap Source = form \cap Source
    /\ Types(c)
    /\ IF Valid(c)
       THEN Sends(f, "switch", body, TRUE) /\ edited' = FALSE
       ELSE edited' = TRUE /\ UNCHANGED <<flow, contested>>
    /\ UNCHANGED <<kind, open, loaded, dialog, server, read>>

(* Mutant of SwitchList: what is saved is the list without the new entry.  *)
SwitchListStale(f, c) ==
    kind \in Lists /\ Enabled /\ status' = "" /\ Switched(f, c, form)

SwitchList(f, c) ==
    /\ kind \in Lists
    /\ Enabled
    /\ status' = ""
    /\ Switched(f, c, c)

(* In a group of clients, whatever else is under way.                      *)
SwitchGroup(f, c) ==
    /\ kind = "clients"
    /\ Shown /\ dialog = NoDialog
    /\ UNCHANGED status
    /\ Switched(f, c, c)
-----------------------------------------------------------------------------
(* The server, and a network that can lose a request or its answer.        *)
Answers(f, step, answer) == flow' = [flow EXCEPT ![f].step = step, ![f].body = answer]

ServeGet(f) ==
    /\ flow[f].step = "get"
    /\ Answers(f, "got", store) \/ Answers(f, "got", Nil)
    /\ UNCHANGED <<kind, page, dialog, server, history>>

ServePut(f) ==
    /\ flow[f].step = "put"
    /\ \/ Answers(f, "refused", Nil) /\ UNCHANGED store
       \/ /\ Answers(f, "stored", flow[f].body) \/ Answers(f, "refused", Nil)
          /\ store' = flow[f].body
    /\ UNCHANGED <<kind, page, dialog, running, history>>

ServeApply(f) ==
    /\ flow[f].step = "post"
    /\ flow[f].purpose # "restart"
    /\ \/ Answers(f, "not run", Nil) /\ UNCHANGED running
       \/ /\ Answers(f, "ran", Nil) \/ Answers(f, "not run", Nil)
          /\ running' = store
    /\ UNCHANGED <<kind, page, dialog, store, history>>

(* POST /api/restart ends what is under way at the server; the service     *)
(* starts with what is stored.                                             *)
Broken(fl) == CASE fl.step = "get" -> [fl EXCEPT !.step = "got", !.body = Nil]
                [] fl.step = "put" -> [fl EXCEPT !.step = "refused", !.body = Nil]
                [] fl.step = "post" -> [fl EXCEPT !.step = "not run"]
                [] OTHER -> fl

ServeRestart(f) ==
    /\ flow[f].step = "post"
    /\ flow[f].purpose = "restart"
    /\ \/ Answers(f, "not run", Nil) /\ UNCHANGED running
       \/ /\ flow' = [g \in Flow |-> IF g = f THEN [flow[g] EXCEPT !.step = "ran"]
                                     ELSE Broken(flow[g])]
          /\ running' = store
    /\ UNCHANGED <<kind, page, dialog, store, history>>

(* Another page, of the same or another administrator.                     *)
OthersSave(c) ==
    /\ c # store
    /\ store' = c
    /\ contested' = (contested \/ open)
    /\ UNCHANGED <<kind, page, dialog, flow, running, edited, typed, late, crossed, read>>
-----------------------------------------------------------------------------
(* Answers.  A load fills the form, and what was typed before is gone.     *)
Ends(f) == flow' = [flow EXCEPT ![f] = None] /\ late' = late \ {f}

Replaces(f, c) ==
    /\ form' = c
    /\ edited' = FALSE
    /\ crossed' = (crossed \/ f \in late)
    /\ typed' = IF f \in late THEN Nil ELSE typed

LoadLands(f) ==
    /\ flow[f].step = "got" /\ flow[f].purpose = "load"
    /\ flow[f].body # Nil
    /\ Ends(f)
    /\ Replaces(f, flow[f].body)
    /\ loaded' = TRUE
    /\ UNCHANGED <<kind, open, status, dialog, server, contested, read>>

(* Mutant of LoadFails: the page shows an empty form, not what was typed.  *)
LoadFailsBlank(f) ==
    /\ flow[f].step = "got" /\ flow[f].purpose = "load"
    /\ flow[f].body = Nil
    /\ Ends(f)
    /\ form' = {}
    /\ UNCHANGED <<kind, open, loaded, status, dialog, server, edited, typed, crossed,
                   contested, read>>

(* A failed one is shown as an error; the form stays as it is.             *)
LoadFails(f) ==
    /\ flow[f].step = "got" /\ flow[f].purpose = "load"
    /\ flow[f].body = Nil
    /\ Ends(f)
    /\ UNCHANGED <<kind, page, dialog, server, edited, typed, crossed, contested, read>>

(* A save is answered.  Three of the DNS pages then show what was sent.    *)
Quiet(f) == ~flow[f].own \/ (kind = "clients" /\ flow[f].purpose = "switch")

SaveLands(f) ==
    /\ flow[f].step = "stored"
    /\ IF flow[f].own /\ kind \in Dns \ {"safe_search"}
       THEN Replaces(f, flow[f].body)
       ELSE UNCHANGED <<form, edited, crossed, typed>>
    /\ status' = IF Quiet(f) THEN status ELSE "Saved"
    /\ UNCHANGED <<kind, open, loaded, server, contested, read>>

(* It is to be applied: the apply is sent, from any page.                  *)
ThenApply(f) ==
    /\ SaveLands(f)
    /\ flow[f].purpose # "save"
    /\ Answers(f, "post", Nil)
    /\ UNCHANGED <<dialog, late>>

Prompt(what) == dialog' = [what |-> what, body |-> Nil, own |-> open]

ThenDone(f) ==
    /\ SaveLands(f)
    /\ flow[f].purpose = "save"
    /\ Ends(f)
    /\ IF kind = "webhooks" THEN Prompt("restart") ELSE UNCHANGED dialog

SaveFails(f) ==
    /\ flow[f].step = "refused"
    /\ Ends(f)
    /\ edited' = (edited \/ flow[f].own)
    /\ status' = IF Quiet(f) THEN status ELSE "Error"
    /\ UNCHANGED <<kind, open, form, loaded, dialog, server, typed, crossed, contested, read>>

(* An apply is answered.  The system settings ask for a restart, whether   *)
(* client identification could be applied or not; that it could not, only  *)
(* the pages of blocklists and DNS say.                                    *)
ApplyLands(f) ==
    /\ flow[f].step \in {"ran", "not run"}
    /\ Ends(f)
    /\ status' = CASE Quiet(f) \/ flow[f].purpose = "restart" -> status
                   [] ~Quiet(f) /\ flow[f].purpose # "restart" /\ flow[f].step = "ran" -> "Applied"
                   [] OTHER -> IF kind \in System THEN status ELSE "Error"
    /\ IF kind = "system" /\ flow[f].purpose = "apply" THEN Prompt("restart") ELSE UNCHANGED dialog
    /\ UNCHANGED <<kind, open, form, loaded, server, edited, typed, crossed, contested, read>>
-----------------------------------------------------------------------------
(* Dialogs.  There is one: who asks again replaces what is asked.          *)
Ask(what, body) ==
    /\ dialog = NoDialog
    /\ dialog' = [what |-> what, body |-> body, own |-> TRUE]
    /\ read' = what
    /\ UNCHANGED <<kind, page, flow, server, edited, typed, late, crossed, contested>>

ConfirmApply ==
    /\ kind \in Lists \cup Dns
    /\ Enabled
    /\ Valid(form)
    /\ Ask("apply", form)

(* Mutant of ClearData: the dialog comes once the size of the data, say,   *)
(* has been asked for.                                                     *)
ClearDataLater ==
    kind = "system" /\ open /\ Prompt("clear") /\ UNCHANGED <<kind, page, flow, server, history>>

(* The Redis cache, or the query data.                                     *)
ClearData == kind = "system" /\ open /\ Ask("clear", Nil)

ConfirmRestart == kind = "system" /\ open /\ Ask("restart", Nil)

(* Resources are detected, then it is asked whether to fill them in.       *)
Detect(f) ==
    /\ kind = "system" /\ open /\ dialog = NoDialog
    /\ Begin(f, "detect", "get", Nil, TRUE)
    /\ UNCHANGED <<kind, page, dialog, server, history>>

DetectLands(f) ==
    /\ flow[f].step = "got" /\ flow[f].purpose = "detect"
    /\ Ends(f)
    /\ IF flow[f].body # Nil THEN Prompt("detect") ELSE UNCHANGED dialog
    /\ UNCHANGED <<kind, page, server, edited, typed, crossed, contested, read>>

(* Somebody reads what the dialog asks now ...                             *)
Reads ==
    /\ dialog # NoDialog
    /\ read' = dialog.what
    /\ UNCHANGED <<kind, page, dialog, flow, server, edited, typed, late, crossed, contested>>

Cancel ==
    /\ dialog # NoDialog
    /\ dialog' = NoDialog
    /\ read' = "none"
    /\ UNCHANGED <<kind, page, flow, server, edited, typed, late, crossed, contested>>

(* ... and answers it: what runs is what the dialog asks at that moment,   *)
(* with the form as it was when it was opened.                             *)
Confirms(what) ==
    /\ dialog.what = what
    /\ read # "none"
    /\ dialog' = NoDialog
    /\ read' = "none"
    /\ UNCHANGED <<kind, open, loaded, server>>

ConfirmedApply(f) ==
    /\ Confirms("apply")
    /\ Sends(f, "apply", dialog.body, dialog.own)
    /\ edited' = (edited /\ ~dialog.own)
    /\ status' = IF dialog.own THEN "" ELSE status
    /\ late' = late \cup Flying
    /\ UNCHANGED <<form, typed, crossed>>

ConfirmedRestart(f) ==
    /\ Confirms("restart")
    /\ Begin(f, "restart", "post", Nil, dialog.own)
    /\ UNCHANGED <<form, status, edited, typed, late, crossed, contested>>

ConfirmedClear ==
    /\ Confirms("clear")
    /\ UNCHANGED <<form, status, flow, edited, typed, late, crossed, contested>>

ConfirmedDetect ==
    /\ Confirms("detect")
    /\ IF dialog.own /\ form # Nil
       THEN (\E c \in Content : Types(c)) /\ edited' = TRUE
       ELSE UNCHANGED <<form, edited, typed, late, crossed>>
    /\ UNCHANGED <<status, flow, contested>>
-----------------------------------------------------------------------------
Opening(f) == \/ OpenBlocklists(f) \/ OpenDns(f) \/ OpenLocalRecords(f)
              \/ OpenSettings(f) \/ OpenClients(f) \/ OpenIntegrations(f)

Editing(c) == \/ EditBlocklists(c) \/ EditUpstreams(c) \/ EditLocalRecords(c)
              \/ EditResponse(c) \/ EditSettings(c) \/ EditClients(c) \/ EditWebhooks(c)

Storing(f) ==
    \/ SaveBlocklists(f) \/ SaveUpstreams(f) \/ SaveLocalRecords(f) \/ SaveResponse(f)
    \/ SaveSafeSearch(f) \/ SaveSystemConfig(f) \/ SaveClients(f) \/ SaveWebhooks(f)

Next ==
    \/ \E f \in Flow : Opening(f) \/ Storing(f)
    \/ \E c \in Content : Editing(c) \/ OthersSave(c)
    \/ \E f \in Flow, c \in Content : SwitchList(f, c) \/ SwitchGroup(f, c)
    \/ \E f \in Flow : ServeGet(f) \/ ServePut(f) \/ ServeApply(f) \/ ServeRestart(f)
    \/ \E f \in Flow : \/ LoadLands(f) \/ LoadFails(f) \/ ThenApply(f) \/ ThenDone(f)
                        \/ SaveFails(f) \/ ApplyLands(f)
    \/ ConfirmApply \/ ClearData \/ ConfirmRestart \/ Reads \/ Cancel \/ LeavePage
    \/ ConfirmedClear \/ ConfirmedDetect
    \/ \E f \in Flow : Detect(f) \/ DetectLands(f) \/ ConfirmedApply(f) \/ ConfirmedRestart(f)

Spec == Init /\ [][Next]_vars
-----------------------------------------------------------------------------
(* Types of the page, of the requests and of what the history records.     *)
Purpose == {"none", "load", "detect", "save", "apply", "switch", "restart"}
Step == {"idle", "get", "got", "put", "stored", "refused", "post", "ran", "not run"}
Request == [purpose : Purpose, step : Step, body : Content \cup {Nil}, own : BOOLEAN]
Question == {"none", "apply", "clear", "restart", "detect"}

TypeOK ==
    /\ kind \in Kind
    /\ open \in BOOLEAN /\ loaded \in BOOLEAN
    /\ form \in Content \cup {Nil}
    /\ status \in {"", "Saved", "Applied", "Error"}
    /\ dialog \in [what : Question, body : Content \cup {Nil}, own : BOOLEAN]
    /\ flow \in [Flow -> Request]
    /\ store \in Content /\ running \in Content
    /\ typed \in Content \cup {Nil}
    /\ edited \in BOOLEAN /\ crossed \in BOOLEAN /\ contested \in BOOLEAN
    /\ late \in SUBSET Flow
    /\ read \in Question

(* "Saved", "Applied": while a page says so and nothing has been changed   *)
(* on it since, the server has what it shows, and after an apply the       *)
(* service runs it.  Exceptions are saves by others, saves that overtook   *)
(* each other, and an answer to something asked before.  A group of        *)
(* clients that could not be applied is no longer said to be.              *)
ShownIsServed ==
    open /\ ~Saving /\ status \in {"Saved", "Applied"}
         /\ ~edited /\ ~contested /\ ~crossed
    => /\ store = form
       /\ status = "Applied" /\ kind # "clients" => running = form

(* What somebody has typed stays on the page until he leaves it or an      *)
(* answer comes to something that was under way when he typed.             *)
EditsKept == open /\ typed # Nil => form = typed

(* A page that could not load does not write its empty form over what is   *)
(* stored, unless somebody has filled it in.  The pages of the local       *)
(* records, the blocked responses and the safe search do.                  *)
NeverSavesDefaults ==
    [][\A f \in Flow :
          flow[f].step = "idle" /\ flow'[f].step = "put" /\ flow'[f].own
             /\ ~loaded /\ typed' = Nil /\ ~crossed
          => kind \in {"local_records", "response", "safe_search"}]_vars

(* Enter answers the dialog that has the focus: one that replaces another  *)
(* in that moment asks for a restart or for proposed values, never to      *)
(* clear data or to apply.                                                 *)
MeantWhatRan ==
    [][(\/ ConfirmedClear \/ ConfirmedDetect
        \/ \E f \in Flow : ConfirmedApply(f) \/ ConfirmedRestart(f))
       => dialog.what \in {read, "restart", "detect"}]_vars
=============================================================================
