----------------------------- MODULE DataViews -----------------------------
(***************************************************************************)
(* The parts of the web client that show what is going on: the list of the *)
(* queries with its filters and pages, the figures of the overview, the    *)
(* errors, the replicas, the pause, the configuration in force and the     *)
(* sync status.  Each is a hook that asks the web server when it appears,  *)
(* when something else is chosen, and at an interval whether the last      *)
(* request has been answered or not; the server asks ClickHouse, Redis or  *)
(* the control API of the DNS service, or reads the configuration.         *)
(*                                                                         *)
(* A request is a flight.  Those of an effect are bound to it: they are    *)
(* aborted when the effect ends, because the choice has changed or the     *)
(* view has gone.  Those after a click on Refresh, an import or a save are *)
(* not.                                                                    *)
(***************************************************************************)
EXTENDS Naturals, FiniteSets

CONSTANTS
    Flight,     (* requests that can be under way                          *)
    Text,       (* what can be typed as a filter, or chosen as a window    *)
    Data,       (* what there is to be shown                               *)
    Nil         (* nothing                                                 *)

ASSUME NilAssumption == Nil \notin Data

(* The views of the query store, of Redis, of the control API and of the   *)
(* configuration.                                                          *)
Store == {"recent", "options", "summary", "latency", "series", "upstreams", "discovery"}
Control == {"cache", "blocklists", "refresh", "errors", "traces", "replicas", "pause"}
View == Store \cup Control \cup {"redis", "config", "info", "sync"}

Windowed == {"redis", "summary", "latency", "series", "upstreams"}
Polled == View \ {"blocklists", "traces", "discovery"}
Everywhere == Windowed \cup {"cache", "info", "sync", "replicas"}
Page == {1, 2}

VARIABLES
    view,      (* the view                                                 *)
    open,      (* it is on the screen, or part of the frame of all pages   *)
    active,    (* the tab of the replicas is chosen, on a primary          *)
    visible,   (* the browser tab is not hidden                            *)
    timers,    (* timers of the poll that minds the browser tab            *)
    typed,     (* what stands in the fields of the filter                  *)
    asked,     (* what the effect asks for                                 *)
    shown,     (* what is shown, and what it was asked for as              *)
    error,     (* an error is shown with it                                *)
    flight,    (* the requests under way                                   *)
    source,    (* what the server would answer                             *)
    form,      (* on the page of sync: the settings of the replica         *)
    kept       (* what was typed there, until the status has changed or    *)
               (* could not be had (history)                               *)

screen == <<open, active, visible, timers>>
choice == <<typed, asked>>
shows == <<shown, error>>
settings == <<form, kept>>
vars == <<view, screen, choice, shows, flight, source, settings>>

None == [step |-> "idle", bound |-> FALSE, asked |-> Nil, data |-> Nil]
Bound == {f \in Flight : flight[f].bound}

Init ==
    /\ view \in View
    /\ open = FALSE
    /\ active = TRUE
    /\ visible = TRUE
    /\ timers = 0
    /\ typed \in Text
    /\ asked = [text |-> typed, page |-> 1]
    /\ shown = Nil
    /\ error = FALSE
    /\ flight = [f \in Flight |-> None]
    /\ source \in Data
    /\ form = Nil
    /\ kept = Nil
-----------------------------------------------------------------------------
(* Requests.                                                               *)
Free(f) == flight[f].step = "idle"
Aborted == [g \in Flight |-> IF flight[g].bound THEN None ELSE flight[g]]
Ask(what, bound) == [step |-> "asked", bound |-> bound, asked |-> what, data |-> Nil]

(* Mutant of Restarts: what it had asked for comes.                        *)
RestartsOnly(f, what) ==
    /\ Free(f)
    /\ asked' = what
    /\ flight' = [flight EXCEPT ![f] = Ask(what, TRUE)]

(* An effect starts over: what it had asked for is aborted, and it asks    *)
(* for what is chosen now.                                                 *)
Restarts(f, what) ==
    /\ Free(f) \/ flight[f].bound
    /\ asked' = what
    /\ flight' = [Aborted EXCEPT ![f] = Ask(what, TRUE)]

Appear(f) ==
    /\ ~open
    /\ open' = TRUE
    /\ Restarts(f, asked)
    /\ timers' = IF view = "info" /\ visible THEN 1 ELSE 0
    /\ UNCHANGED <<view, active, visible, typed, shows, source, settings>>

(* The page is left; its hook and all it has asked for is gone.            *)
Leave ==
    /\ open
    /\ view \notin Everywhere
    /\ open' = FALSE
    /\ flight' = [f \in Flight |-> None]
    /\ shown' = Nil
    /\ error' = FALSE
    /\ UNCHANGED <<view, active, visible, timers, choice, source, settings>>

(* Mutant of Interval: after an error it is not asked any more.            *)
IntervalUntilError(f) ==
    /\ open /\ view \in Polled /\ active
    /\ view = "info" => timers > 0
    /\ Free(f) /\ ~error
    /\ flight' = [flight EXCEPT ![f] = Ask(asked, TRUE)]
    /\ UNCHANGED <<view, screen, choice, shows, source, settings>>

(* Its interval has passed.                                                *)
Interval(f) ==
    /\ open /\ view \in Polled /\ active
    /\ view = "info" => timers > 0
    /\ Free(f)
    /\ flight' = [flight EXCEPT ![f] = Ask(asked, TRUE)]
    /\ UNCHANGED <<view, screen, choice, shows, source, settings>>

(* The replicas are asked for while their tab is chosen.                   *)
ChooseTab(f) ==
    /\ open /\ view = "replicas"
    /\ active' = ~active
    /\ IF active THEN flight' = Aborted /\ UNCHANGED asked ELSE Restarts(f, asked)
    /\ UNCHANGED <<view, open, visible, timers, typed, shows, source, settings>>

(* Mutant of Hide: the timer runs on.                                      *)
HideOnly ==
    /\ open /\ view = "info" /\ visible
    /\ visible' = FALSE
    /\ UNCHANGED <<view, open, active, timers, choice, shows, flight, source, settings>>

(* The browser tab is hidden: the poll of the server's own figures stops,  *)
(* and starts at once when it is shown again.                              *)
Hide ==
    /\ open /\ view = "info" /\ visible
    /\ visible' = FALSE
    /\ timers' = 0
    /\ UNCHANGED <<view, open, active, choice, shows, flight, source, settings>>

Unhide(f) ==
    /\ open /\ view = "info" /\ ~visible
    /\ visible' = TRUE
    /\ timers' = timers + 1
    /\ Free(f)
    /\ flight' = [flight EXCEPT ![f] = Ask(asked, TRUE)]
    /\ UNCHANGED <<view, open, active, choice, shows, source, settings>>
-----------------------------------------------------------------------------
(* Choosing.  A field of the filter is typed into: the page is the first   *)
(* at once, the text counts when nothing has been typed for 300 ms.        *)
TypeFilter(f, t) ==
    /\ open /\ view = "recent"
    /\ t # typed
    /\ typed' = t
    /\ IF asked.page = 1 THEN UNCHANGED <<asked, flight>>
       ELSE Restarts(f, [asked EXCEPT !.page = 1])
    /\ UNCHANGED <<view, screen, shows, source, settings>>

Settle(f) ==
    /\ open /\ view = "recent"
    /\ typed # asked.text
    /\ Restarts(f, [asked EXCEPT !.text = typed])
    /\ UNCHANGED <<view, screen, typed, shows, source, settings>>

(* Choices without delay: outcome, type, order, size of the page, presets  *)
(* and their removal, which turn to the first page; and the pages.         *)
Choose(f, t) ==
    /\ open /\ view = "recent"
    /\ <<t, 1>> # <<asked.text, asked.page>>
    /\ typed' = t
    /\ Restarts(f, [text |-> t, page |-> 1])
    /\ UNCHANGED <<view, screen, shows, source, settings>>

TurnPage(f, p) ==
    /\ open /\ view = "recent"
    /\ p # asked.page
    /\ Restarts(f, [asked EXCEPT !.page = p])
    /\ UNCHANGED <<view, screen, typed, shows, source, settings>>

ChooseWindow(f, t) ==
    /\ open /\ view \in Windowed
    /\ t # asked.text
    /\ typed' = t
    /\ Restarts(f, [asked EXCEPT !.text = t])
    /\ UNCHANGED <<view, screen, shows, source, settings>>

(* Requests that are bound to nothing: Refresh on the page of the errors,  *)
(* the configuration after an import, the statistics after an apply, the   *)
(* sync status after its settings have been saved.                         *)
Refresh(f) ==
    /\ open /\ view \in {"errors", "config", "blocklists", "sync"}
    /\ Free(f)
    /\ flight' = [flight EXCEPT ![f] = Ask(asked, FALSE)]
    /\ UNCHANGED <<view, screen, choice, shows, source, settings>>

(* Blocking is paused or resumed, by a request whose answer is shown.      *)
SetPause(f) ==
    /\ open /\ view = "pause"
    /\ Free(f)
    /\ \A g \in Flight : Free(g) \/ flight[g].bound
    /\ error' = FALSE
    /\ flight' = [flight EXCEPT ![f] = [Ask(asked, FALSE) EXCEPT !.step = "set"]]
    /\ UNCHANGED <<view, screen, choice, shown, source, settings>>

(* The page of sync is left and opened again: it starts from the status.   *)
ReopenSettings ==
    /\ open /\ view = "sync" /\ shown # Nil
    /\ form' = shown.data
    /\ kept' = Nil
    /\ UNCHANGED <<view, screen, choice, shows, flight, source>>

(* The settings of a replica are typed.                                    *)
TypeSettings(d) ==
    /\ open /\ view = "sync" /\ shown # Nil
    /\ d # form
    /\ form' = d
    /\ kept' = d
    /\ UNCHANGED <<view, screen, choice, shows, flight, source>>
-----------------------------------------------------------------------------
(* Answers of the server: what there is; that the query store is off; that *)
(* it failed, as a field of a good answer; or an error status, or none.    *)
Answer(f, d) == flight' = [flight EXCEPT ![f].step = "answered", ![f].data = d]
Asked(f, v) == flight[f].step = "asked" /\ view = v

ServeRecent(f) == Asked(f, "recent") /\ \E d \in {source, "off", "error"} : Answer(f, d)
ServeOptions(f) == Asked(f, "options") /\ \E d \in {source, "off", "error"} : Answer(f, d)
ServeSummary(f) == Asked(f, "summary") /\ \E d \in {source, "off", "error"} : Answer(f, d)
ServeLatency(f) == Asked(f, "latency") /\ \E d \in {source, "off", "error"} : Answer(f, d)
ServeSeries(f) == Asked(f, "series") /\ \E d \in {source, "off", "error"} : Answer(f, d)
ServeUpstreams(f) == Asked(f, "upstreams") /\ \E d \in {source, "off", "error"} : Answer(f, d)

(* A failed search for clients says that the query store is off.           *)
ServeDiscovery(f) == Asked(f, "discovery") /\ \E d \in {source, "off"} : Answer(f, d)

ServeRedis(f) == Asked(f, "redis") /\ Answer(f, source)
ServeCache(f) == Asked(f, "cache") /\ Answer(f, source)
ServeRefresh(f) == Asked(f, "refresh") /\ Answer(f, source)
ServeBlocklists(f) == Asked(f, "blocklists") /\ Answer(f, source)
ServeErrors(f) == Asked(f, "errors") /\ Answer(f, source)
ServeTraces(f) == Asked(f, "traces") /\ Answer(f, source)
ServePause(f) == Asked(f, "pause") /\ Answer(f, source)
ServeConfig(f) == Asked(f, "config") /\ Answer(f, source)
ServeInfo(f) == Asked(f, "info") /\ Answer(f, source)
ServeSync(f) == Asked(f, "sync") /\ Answer(f, source)

(* The figures of a replica that cannot be had are left out.               *)
ServeReplicas(f) == Asked(f, "replicas") /\ \E d \in {source, "none"} : Answer(f, d)

Serves(f) ==
    /\ \/ ServeRecent(f) \/ ServeOptions(f) \/ ServeSummary(f) \/ ServeLatency(f)
       \/ ServeSeries(f) \/ ServeUpstreams(f) \/ ServeDiscovery(f) \/ ServeRedis(f)
       \/ ServeCache(f) \/ ServeRefresh(f) \/ ServeBlocklists(f) \/ ServeErrors(f)
       \/ ServeTraces(f) \/ ServePause(f) \/ ServeConfig(f) \/ ServeInfo(f)
       \/ ServeSync(f) \/ ServeReplicas(f)
    /\ UNCHANGED <<view, screen, choice, shows, source, settings>>

ServeSet(f, d) ==
    /\ flight[f].step = "set"
    /\ Answer(f, d)
    /\ source' = d
    /\ UNCHANGED <<view, screen, choice, shows, settings>>

Unanswered(f) ==
    /\ flight[f].step \in {"asked", "set"}
    /\ Answer(f, "failed")
    /\ UNCHANGED <<view, screen, choice, shows, source, settings>>

(* Queries come in, a pause ends, others change something.                 *)
Change(d) ==
    /\ source' = d
    /\ d # source
    /\ UNCHANGED <<view, screen, choice, shows, flight, settings>>
-----------------------------------------------------------------------------
(* Answers are shown.                                                      *)
Lands(f, v) == flight[f].step = "answered" /\ view = v
Shows(f, d) == shown' = [asked |-> flight[f].asked, data |-> d] /\ error' = FALSE
Empties(f, wrong) == shown' = [asked |-> flight[f].asked, data |-> Nil] /\ error' = wrong
Keeps == error' = TRUE /\ UNCHANGED shown

(* From the query store: an error in the answer empties the view, a        *)
(* request that failed leaves it as it is, of what it was asked for        *)
(* before.  An error is shown with both.                                   *)
FromStore(f) ==
    CASE flight[f].data \in Data -> Shows(f, flight[f].data)
      [] flight[f].data = "off" -> Empties(f, FALSE)
      [] flight[f].data = "error" -> Empties(f, TRUE)
      [] OTHER -> Keeps

LandRecent(f) == Lands(f, "recent") /\ FromStore(f)
LandOptions(f) == Lands(f, "options") /\ FromStore(f)
LandSummary(f) == Lands(f, "summary") /\ FromStore(f)
LandLatency(f) == Lands(f, "latency") /\ FromStore(f)
LandSeries(f) == Lands(f, "series") /\ FromStore(f)
LandUpstreams(f) == Lands(f, "upstreams") /\ FromStore(f)

(* Others: a failed request leaves what is shown as it is ...              *)
OrKeeps(f) == IF flight[f].data = "failed" THEN Keeps ELSE Shows(f, flight[f].data)

LandRedis(f) == Lands(f, "redis") /\ OrKeeps(f)
LandCache(f) == Lands(f, "cache") /\ OrKeeps(f)
LandRefresh(f) == Lands(f, "refresh") /\ OrKeeps(f)
LandBlocklists(f) == Lands(f, "blocklists") /\ OrKeeps(f)
LandReplicas(f) == Lands(f, "replicas") /\ OrKeeps(f)
LandPause(f) == Lands(f, "pause") /\ OrKeeps(f)
LandConfig(f) == Lands(f, "config") /\ OrKeeps(f)
LandInfo(f) == Lands(f, "info") /\ OrKeeps(f)

(* ... or empties the view.                                                *)
LandErrors(f) == Lands(f, "errors") /\ IF flight[f].data = "failed" THEN Empties(f, TRUE)
                                       ELSE Shows(f, flight[f].data)
LandTraces(f) == Lands(f, "traces") /\ IF flight[f].data = "failed" THEN Empties(f, TRUE)
                                       ELSE Shows(f, flight[f].data)
LandDiscovery(f) == Lands(f, "discovery") /\ IF flight[f].data \in Data THEN Shows(f, flight[f].data)
                                             ELSE Empties(f, TRUE)

(* Mutant of LandSync: every answer fills the form.                        *)
LandSyncFills(f) ==
    /\ Lands(f, "sync")
    /\ IF flight[f].data = "failed"
       THEN shown' = Nil /\ error' = TRUE /\ UNCHANGED settings
       ELSE Shows(f, flight[f].data) /\ form' = flight[f].data /\ UNCHANGED kept

(* The sync status fills the form of the settings when it is not the one   *)
(* before, and there is none while it is not known.                        *)
LandSync(f) ==
    /\ Lands(f, "sync")
    /\ IF flight[f].data = "failed"
       THEN shown' = Nil /\ error' = TRUE /\ kept' = Nil /\ UNCHANGED form
       ELSE /\ Shows(f, flight[f].data)
            /\ IF shown # Nil /\ shown.data = flight[f].data THEN UNCHANGED settings
               ELSE form' = flight[f].data /\ kept' = Nil

Landing(f) ==
    /\ \/ LandSync(f)
       \/ /\ \/ LandRecent(f) \/ LandOptions(f) \/ LandSummary(f) \/ LandLatency(f)
             \/ LandSeries(f) \/ LandUpstreams(f) \/ LandDiscovery(f) \/ LandRedis(f)
             \/ LandCache(f) \/ LandRefresh(f) \/ LandBlocklists(f) \/ LandErrors(f)
             \/ LandTraces(f) \/ LandPause(f) \/ LandConfig(f) \/ LandInfo(f)
             \/ LandReplicas(f)
          /\ UNCHANGED settings
    /\ flight' = [flight EXCEPT ![f] = None]
    /\ UNCHANGED <<view, screen, choice, source>>
-----------------------------------------------------------------------------
Next ==
    \/ Leave \/ Hide \/ ReopenSettings
    \/ \E f \in Flight : \/ Appear(f) \/ Interval(f) \/ ChooseTab(f) \/ Unhide(f)
                          \/ Settle(f) \/ Refresh(f) \/ SetPause(f)
                          \/ Serves(f) \/ Unanswered(f) \/ Landing(f)
    \/ \E f \in Flight, t \in Text : TypeFilter(f, t) \/ Choose(f, t) \/ ChooseWindow(f, t)
    \/ \E f \in Flight, p \in Page : TurnPage(f, p)
    \/ \E f \in Flight, d \in Data : ServeSet(f, d)
    \/ \E d \in Data : TypeSettings(d) \/ Change(d)

Spec == Init /\ [][Next]_vars

(* The browser's timers go off, a request is answered or fails, and the    *)
(* server does answer one with what there is again and again.              *)
ServesWell(f) == Serves(f) /\ flight'[f].data = source
Fairness ==
    /\ WF_vars(\E f \in Flight : Interval(f))
    /\ \A f \in Flight : SF_vars(ServesWell(f)) /\ WF_vars(Landing(f))

FairSpec == Spec /\ Fairness
-----------------------------------------------------------------------------
(* Types of what is chosen, of the requests and of what they bring.        *)
Choice == [text : Text, page : Page]
Brought == Data \cup {Nil, "off", "error", "none", "failed"}
Request == [step : {"idle", "asked", "set", "answered"}, bound : BOOLEAN,
            asked : Choice \cup {Nil}, data : Brought]

TypeOK ==
    /\ view \in View
    /\ open \in BOOLEAN /\ active \in BOOLEAN /\ visible \in BOOLEAN
    /\ timers \in Nat
    /\ typed \in Text
    /\ asked \in Choice
    /\ shown \in [asked : Choice, data : Brought] \cup {Nil}
    /\ error \in BOOLEAN
    /\ flight \in [Flight -> Request]
    /\ source \in Data
    /\ form \in Brought /\ kept \in Data \cup {Nil}

(* What is shown without an error, with nothing on its way, is what is     *)
(* chosen: no answer to an earlier filter, page or window stands under a   *)
(* later one.                                                              *)
ShownIsChosen ==
    open /\ shown # Nil /\ ~error /\ Bound = {} /\ active => shown.asked = asked

(* What has been typed into the settings of a replica stays while the      *)
(* status that is polled is the same and can be had.                       *)
SettingsKept == kept # Nil => form = kept

(* The poll that minds the browser tab has one timer when it is shown and  *)
(* none when it is hidden, however often it is hidden and shown.           *)
OneTimer == timers = IF open /\ visible /\ view = "info" THEN 1 ELSE 0

(* A view that is left open and polls comes to show what there is, however *)
(* its requests overtook each other, once nothing is changed any more.     *)
CatchesUp ==
    \A d \in Data, t \in Text, p \in Page :
        <>[](/\ open /\ active /\ visible /\ view \in Polled
             /\ source = d /\ asked = [text |-> t, page |-> p])
        => []<>(shown = [asked |-> [text |-> t, page |-> p], data |-> d])
=============================================================================
