--------------------------- MODULE DataViewsProofs ---------------------------
(***************************************************************************)
(* Proofs about DataViews, for any number of requests under way and any    *)
(* filters, windows and data: what is shown is what is chosen, what is     *)
(* typed into the settings of a replica stays, and the poll that minds the *)
(* browser tab has one timer.                                              *)
(***************************************************************************)
EXTENDS DataViews, TLAPS

(* The views in which what is asked for can change, and those with         *)
(* requests that are bound to no effect: no view is both.                  *)
Choosing == Windowed \cup {"recent"}
Unbinding == {"errors", "config", "blocklists", "sync", "pause"}

(* A request under way asks for what is chosen, and one that is bound to   *)
(* nothing belongs to a view in which that cannot change.                  *)
FlightOK(f) ==
    /\ flight[f].step = "idle" => flight[f] = None
    /\ flight[f].step # "idle" => flight[f].asked = asked
    /\ flight[f].step # "idle" /\ ~flight[f].bound => view \in Unbinding
    /\ flight[f].step = "set" => view = "pause"
FlightsOK == \A f \in Flight : FlightOK(f)

(* What is shown of an earlier choice stands there with an error, or until *)
(* the answer that is on its way.                                          *)
Stale ==
    shown # Nil /\ shown.asked # asked =>
       /\ view \in Choosing
       /\ error \/ Bound # {}

IInv == TypeOK /\ FlightsOK /\ Stale /\ SettingsKept /\ OneTimer

-----------------------------------------------------------------------------
LEMMA ViewsApart == Choosing \cap Unbinding = {} /\ "replicas" \notin Choosing
  BY DEF Choosing, Unbinding, Windowed

LEMMA Requests ==
    /\ None \in Request /\ None.step = "idle" /\ ~None.bound
    /\ \A what \in Choice, b \in BOOLEAN :
          /\ Ask(what, b) \in Request
          /\ Ask(what, b).step = "asked" /\ Ask(what, b).asked = what
          /\ Ask(what, b).bound = b
  BY DEF None, Ask, Request, Brought

LEMMA BoundFacts ==
    ASSUME TypeOK, FlightsOK
    PROVE  /\ \A f \in Flight : flight[f].bound => flight[f].step # "idle"
           /\ \A f \in Flight : flight[f].bound => Bound # {}
  BY Requests DEF FlightsOK, FlightOK, Bound

LEMMA InitInv == Init => IInv
<1> SUFFICES ASSUME Init PROVE IInv
  OBVIOUS
<1>1. asked \in Choice
  BY DEF Init, Choice, Page
<1>2. TypeOK
  BY <1>1, Requests DEF Init, TypeOK, Brought
<1>3. FlightsOK
  BY Requests DEF Init, FlightsOK, FlightOK
<1>4. Stale /\ SettingsKept /\ OneTimer
  BY DEF Init, Stale, SettingsKept, OneTimer
<1>5. QED
  BY <1>2, <1>3, <1>4 DEF IInv

-----------------------------------------------------------------------------
(* Requests.  What is asked for changes only in a view in which none is    *)
(* left that asks for something else.                                      *)
LEMMA RestartsFacts ==
    ASSUME TypeOK, FlightsOK, NEW f \in Flight, NEW what \in Choice, Restarts(f, what),
           view' = view, what = asked \/ view \in Choosing
    PROVE  /\ flight' \in [Flight -> Request] /\ asked' = what /\ FlightsOK' /\ Bound' # {}
<1> DEFINE r == Ask(what, TRUE)
<1>1. /\ r \in Request /\ r.step = "asked" /\ r.asked = what /\ r.bound
  BY Requests
<1>2. flight' = [Aborted EXCEPT ![f] = r] /\ asked' = what
  BY DEF Restarts
<1> HIDE DEF r
<1>3. Aborted \in [Flight -> Request]
  BY Requests DEF TypeOK, Aborted
<1>4. /\ flight' \in [Flight -> Request] /\ flight'[f] = r
      /\ \A g \in Flight \ {f} : flight'[g] = Aborted[g]
  BY <1>1, <1>2, <1>3
<1>5. ASSUME NEW g \in Flight
      PROVE  FlightOK(g)'
  <2>1. CASE g = f
    BY <1>1, <1>2, <1>4, <2>1 DEF FlightOK
  <2>2. CASE g # f /\ flight[g].bound
    <3>1. flight'[g] = None
      BY <1>4, <2>2 DEF Aborted
    <3>2. QED
      BY <3>1, Requests DEF FlightOK
  <2>3. CASE g # f /\ ~flight[g].bound
    <3>1. flight'[g] = flight[g]
      BY <1>4, <2>3 DEF Aborted
    <3>2. flight[g].step # "idle" => what = asked
      BY <2>3, ViewsApart DEF FlightsOK, FlightOK
    <3>3. QED
      BY <1>2, <3>1, <3>2 DEF FlightsOK, FlightOK
  <2>4. QED
    BY <2>1, <2>2, <2>3
<1>6. flight'[f].bound
  BY <1>1, <1>4
<1>7. Bound' # {}
  BY <1>6 DEF Bound
<1>8. QED
  BY <1>2, <1>4, <1>5, <1>7 DEF FlightsOK

LEMMA RestartsKeeps ==
    ASSUME IInv, NEW f \in Flight, NEW what \in Choice, Restarts(f, what),
           what = asked \/ view \in Choosing,
           UNCHANGED <<view, visible, shows, source, settings>>,
           open' \in BOOLEAN, active' \in BOOLEAN, typed' \in Text, timers' \in Nat, OneTimer'
    PROVE  IInv'
<1>1. /\ flight' \in [Flight -> Request] /\ asked' = what /\ FlightsOK' /\ Bound' # {}
  BY RestartsFacts DEF IInv
<1>2. TypeOK'
  BY <1>1 DEF IInv, TypeOK, shows, settings
<1>3. Stale'
  BY <1>1 DEF IInv, Stale, shows
<1>4. SettingsKept'
  BY DEF IInv, SettingsKept, settings
<1>5. QED
  BY <1>1, <1>2, <1>3, <1>4 DEF IInv

(* A request more, and the others as they are.                             *)
LEMMA AsksKeeps ==
    ASSUME IInv, NEW f \in Flight, NEW b \in BOOLEAN, Free(f),
           flight' = [flight EXCEPT ![f] = Ask(asked, b)], b \/ view \in Unbinding,
           UNCHANGED <<view, open, active, choice, shows, source, settings>>,
           visible' \in BOOLEAN, timers' \in Nat, OneTimer'
    PROVE  IInv'
<1> DEFINE r == Ask(asked, b)
<1>1. /\ r \in Request /\ r.step = "asked" /\ r.asked = asked /\ r.bound = b
  BY Requests DEF IInv, TypeOK
<1>2. flight' = [flight EXCEPT ![f] = r]
  OBVIOUS
<1> HIDE DEF r
<1>3. /\ flight' \in [Flight -> Request] /\ flight'[f] = r
      /\ \A g \in Flight \ {f} : flight'[g] = flight[g]
  BY <1>1, <1>2 DEF IInv, TypeOK
<1>4. FlightsOK'
  <2>1. FlightOK(f)'
    BY <1>1, <1>3 DEF FlightOK, choice
  <2>2. \A g \in Flight \ {f} : FlightOK(g)'
    BY <1>3 DEF IInv, FlightsOK, FlightOK, choice
  <2>3. QED
    BY <2>1, <2>2 DEF FlightsOK
<1>5. Bound # {} => Bound' # {}
  <2>1. SUFFICES ASSUME NEW g \in Bound
                 PROVE  Bound' # {}
    OBVIOUS
  <2>2. g \in Flight /\ flight[g].bound /\ g # f
    BY BoundFacts DEF IInv, Bound, Free
  <2>3. flight'[g].bound
    BY <1>3, <2>2
  <2>4. QED
    BY <2>2, <2>3 DEF Bound
<1>6. TypeOK'
  BY <1>3 DEF IInv, TypeOK, choice, shows, settings
<1>7. Stale' /\ SettingsKept'
  BY <1>5 DEF IInv, Stale, SettingsKept, choice, shows, settings
<1>8. QED
  BY <1>4, <1>6, <1>7 DEF IInv

-----------------------------------------------------------------------------
(* Appearing, leaving, the tab of the browser.                             *)
LEMMA AppearKeeps ==
    ASSUME IInv, NEW f \in Flight, Appear(f)
    PROVE  IInv'
<1>1. /\ Restarts(f, asked) /\ open' = TRUE
      /\ timers' = IF view = "info" /\ visible THEN 1 ELSE 0
      /\ UNCHANGED <<view, active, visible, typed, shows, source, settings>>
  BY DEF Appear
<1>2. /\ asked \in Choice /\ open' \in BOOLEAN /\ active' \in BOOLEAN /\ typed' \in Text
      /\ timers' \in Nat
  BY <1>1 DEF IInv, TypeOK
<1>3. OneTimer'
  BY <1>1 DEF OneTimer
<1>4. QED
  BY <1>1, <1>2, <1>3, RestartsKeeps

LEMMA LeaveKeeps ==
    ASSUME IInv, Leave
    PROVE  IInv'
<1>1. /\ open' = FALSE /\ view \notin Everywhere /\ shown' = Nil /\ error' = FALSE
      /\ flight' = [f \in Flight |-> None]
      /\ UNCHANGED <<view, active, visible, timers, choice, source, settings>>
  BY DEF Leave
<1>2. flight' \in [Flight -> Request] /\ FlightsOK'
  BY <1>1, Requests DEF FlightsOK, FlightOK
<1>3. TypeOK'
  BY <1>1, <1>2 DEF IInv, TypeOK, choice, settings
<1>4. OneTimer'
  BY <1>1 DEF IInv, OneTimer, Everywhere
<1>5. Stale' /\ SettingsKept'
  BY <1>1 DEF IInv, Stale, SettingsKept, settings
<1>6. QED
  BY <1>2, <1>3, <1>4, <1>5 DEF IInv

LEMMA IntervalKeeps ==
    ASSUME IInv, NEW f \in Flight, Interval(f) \/ Refresh(f)
    PROVE  IInv'
<1>1. /\ Free(f) /\ UNCHANGED <<view, screen, choice, shows, source, settings>>
      /\ \E b \in BOOLEAN : /\ flight' = [flight EXCEPT ![f] = Ask(asked, b)]
                            /\ b \/ view \in Unbinding
  BY DEF Interval, Refresh, Unbinding
<1>2. visible' \in BOOLEAN /\ timers' \in Nat /\ OneTimer'
  BY <1>1 DEF IInv, TypeOK, OneTimer, screen
<1>3. UNCHANGED <<view, open, active, choice, shows, source, settings>>
  BY <1>1 DEF screen
<1>4. QED
  BY <1>1, <1>2, <1>3, AsksKeeps

LEMMA UnhideKeeps ==
    ASSUME IInv, NEW f \in Flight, Unhide(f)
    PROVE  IInv'
<1>1. /\ open /\ view = "info" /\ ~visible /\ visible' = TRUE /\ timers' = timers + 1
      /\ Free(f) /\ flight' = [flight EXCEPT ![f] = Ask(asked, TRUE)]
      /\ UNCHANGED <<view, open, active, choice, shows, source, settings>>
  BY DEF Unhide
<1>2. visible' \in BOOLEAN /\ timers' \in Nat /\ OneTimer'
  BY <1>1 DEF IInv, TypeOK, OneTimer
<1>3. QED
  BY <1>1, <1>2, AsksKeeps

LEMMA HideKeeps ==
    ASSUME IInv, Hide
    PROVE  IInv'
<1>1. /\ visible' = FALSE /\ timers' = 0
      /\ UNCHANGED <<view, open, active, choice, shows, flight, source, settings>>
  BY DEF Hide
<1>2. TypeOK'
  BY <1>1 DEF IInv, TypeOK, choice, shows, settings
<1>3. FlightsOK' /\ Stale'
  BY <1>1 DEF IInv, FlightsOK, FlightOK, Stale, Bound, choice, shows
<1>4. SettingsKept' /\ OneTimer'
  BY <1>1 DEF IInv, SettingsKept, OneTimer, settings
<1>5. QED
  BY <1>2, <1>3, <1>4 DEF IInv

LEMMA ChooseTabKeeps ==
    ASSUME IInv, NEW f \in Flight, ChooseTab(f)
    PROVE  IInv'
<1>1. /\ view = "replicas" /\ active' = ~active
      /\ UNCHANGED <<view, open, visible, timers, typed, shows, source, settings>>
      /\ (flight' = Aborted /\ asked' = asked) \/ Restarts(f, asked)
  BY DEF ChooseTab
<1>2. /\ open' \in BOOLEAN /\ active' \in BOOLEAN /\ typed' \in Text /\ timers' \in Nat
      /\ asked \in Choice
  BY <1>1 DEF IInv, TypeOK
<1>3. OneTimer'
  BY <1>1 DEF IInv, OneTimer
<1>4. CASE Restarts(f, asked)
  BY <1>1, <1>2, <1>3, <1>4, RestartsKeeps
<1>5. CASE flight' = Aborted /\ asked' = asked
  <2>1. flight' \in [Flight -> Request]
    BY <1>5, Requests DEF IInv, TypeOK, Aborted
  <2>2. \A g \in Flight : flight'[g] = None \/ flight'[g] = flight[g]
    BY <1>5 DEF Aborted
  <2>3. FlightsOK'
    BY <1>1, <1>5, <2>2, Requests DEF IInv, FlightsOK, FlightOK
  <2>4. TypeOK'
    BY <1>1, <1>2, <1>5, <2>1 DEF IInv, TypeOK, shows, settings
  <2>5. Stale' /\ SettingsKept'
    BY <1>1, <1>5, ViewsApart DEF IInv, Stale, SettingsKept, shows, settings
  <2>6. QED
    BY <1>3, <2>3, <2>4, <2>5 DEF IInv
<1>6. QED
  BY <1>1, <1>4, <1>5

-----------------------------------------------------------------------------
(* Choosing.                                                               *)
LEMMA TypeFilterKeeps ==
    ASSUME IInv, NEW f \in Flight, NEW t \in Text, TypeFilter(f, t)
    PROVE  IInv'
<1>1. /\ view = "recent" /\ typed' = t
      /\ UNCHANGED <<view, screen, shows, source, settings>>
      /\ UNCHANGED <<asked, flight>> \/ Restarts(f, [asked EXCEPT !.page = 1])
  BY DEF TypeFilter
<1>2. /\ open' \in BOOLEAN /\ active' \in BOOLEAN /\ typed' \in Text /\ timers' \in Nat
      /\ UNCHANGED <<view, visible, shows, source, settings>>
      /\ view \in Choosing /\ [asked EXCEPT !.page = 1] \in Choice
  BY <1>1 DEF IInv, TypeOK, screen, Choosing, Choice, Page
<1>3. OneTimer'
  BY <1>1 DEF IInv, OneTimer, screen
<1>4. CASE Restarts(f, [asked EXCEPT !.page = 1])
  BY <1>2, <1>3, <1>4, RestartsKeeps
<1>5. CASE UNCHANGED <<asked, flight>>
  <2>1. TypeOK'
    BY <1>1, <1>2, <1>5 DEF IInv, TypeOK, screen, shows, settings
  <2>2. FlightsOK' /\ Stale' /\ SettingsKept'
    BY <1>1, <1>5 DEF IInv, FlightsOK, FlightOK, Stale, Bound, SettingsKept, shows, settings
  <2>3. QED
    BY <1>3, <2>1, <2>2 DEF IInv
<1>6. QED
  BY <1>1, <1>4, <1>5

LEMMA ChoosingKeeps ==
    ASSUME IInv, NEW f \in Flight,
           \/ Settle(f)
           \/ \E t \in Text : Choose(f, t) \/ ChooseWindow(f, t)
           \/ \E p \in Page : TurnPage(f, p)
    PROVE  IInv'
<1>1. /\ view \in Choosing
      /\ UNCHANGED <<view, screen, shows, source, settings>> /\ typed' \in Text
      /\ \E what \in Choice : Restarts(f, what)
  BY DEF Settle, Choose, ChooseWindow, TurnPage, Choosing, Choice, Page, IInv, TypeOK
<1>2. /\ open' \in BOOLEAN /\ active' \in BOOLEAN /\ timers' \in Nat /\ OneTimer'
      /\ UNCHANGED <<view, visible, shows, source, settings>>
  BY <1>1 DEF IInv, TypeOK, OneTimer, screen
<1>3. QED
  BY <1>1, <1>2, RestartsKeeps

-----------------------------------------------------------------------------
(* The pause, and the settings of a replica.                               *)
LEMMA SetPauseKeeps ==
    ASSUME IInv, NEW f \in Flight, SetPause(f)
    PROVE  IInv'
<1> DEFINE r == [Ask(asked, FALSE) EXCEPT !.step = "set"]
<1>1. /\ view = "pause" /\ Free(f) /\ error' = FALSE
      /\ flight' = [flight EXCEPT ![f] = r]
      /\ UNCHANGED <<view, screen, choice, shown, source, settings>>
  BY DEF SetPause
<1>2. /\ r \in Request /\ r.step = "set" /\ r.asked = asked /\ ~r.bound
  <2>1. PICK x \in Request : x = Ask(asked, FALSE) /\ x.asked = asked /\ ~x.bound
    BY Requests DEF IInv, TypeOK
  <2>2. /\ [x EXCEPT !.step = "set"] \in Request
        /\ [x EXCEPT !.step = "set"].step = "set"
        /\ [x EXCEPT !.step = "set"].asked = x.asked
        /\ [x EXCEPT !.step = "set"].bound = x.bound
    BY DEF Request
  <2>3. r = [x EXCEPT !.step = "set"]
    BY <2>1
  <2>4. QED
    BY <2>1, <2>2, <2>3
<1> HIDE DEF r
<1>3. /\ flight' \in [Flight -> Request] /\ flight'[f] = r
      /\ \A g \in Flight \ {f} : flight'[g] = flight[g]
  BY <1>1, <1>2 DEF IInv, TypeOK
<1>4. FlightsOK'
  <2>1. FlightOK(f)'
    BY <1>1, <1>2, <1>3 DEF FlightOK, choice, Unbinding
  <2>2. \A g \in Flight \ {f} : FlightOK(g)'
    BY <1>1, <1>3 DEF IInv, FlightsOK, FlightOK, choice
  <2>3. QED
    BY <2>1, <2>2 DEF FlightsOK
<1>5. TypeOK'
  BY <1>1, <1>3 DEF IInv, TypeOK, screen, choice, settings
<1>6. Stale'
  BY <1>1 DEF IInv, Stale, Choosing, Windowed, choice
<1>7. SettingsKept' /\ OneTimer'
  BY <1>1 DEF IInv, SettingsKept, OneTimer, screen, settings
<1>8. QED
  BY <1>4, <1>5, <1>6, <1>7 DEF IInv

(* Only the settings, or what there is, changes.                           *)
LEMMA ElsewhereKeeps ==
    ASSUME IInv, UNCHANGED <<view, screen, choice, shows, flight>>,
           source' \in Data, form' \in Brought, kept' \in Data \cup {Nil}, SettingsKept'
    PROVE  IInv'
<1>1. TypeOK'
  BY DEF IInv, TypeOK, screen, choice, shows
<1>2. FlightsOK' /\ Stale'
  BY DEF IInv, FlightsOK, FlightOK, Stale, Bound, choice, shows
<1>3. OneTimer'
  BY DEF IInv, OneTimer, screen
<1>4. QED
  BY <1>1, <1>2, <1>3 DEF IInv

LEMMA SettingsKeeps ==
    ASSUME IInv, ReopenSettings \/ (\E d \in Data : TypeSettings(d) \/ Change(d))
    PROVE  IInv'
<1>1. CASE ReopenSettings
  <2>1. /\ form' = shown.data /\ kept' = Nil /\ shown # Nil
        /\ UNCHANGED <<view, screen, choice, shows, flight, source>>
    BY <1>1 DEF ReopenSettings
  <2>2. source' \in Data /\ form' \in Brought /\ SettingsKept'
    BY <2>1 DEF IInv, TypeOK, SettingsKept
  <2>3. QED
    BY <2>1, <2>2, ElsewhereKeeps
<1>2. ASSUME NEW d \in Data, TypeSettings(d)
      PROVE  IInv'
  <2>1. /\ form' = d /\ kept' = d
        /\ UNCHANGED <<view, screen, choice, shows, flight, source>>
    BY <1>2 DEF TypeSettings
  <2>2. source' \in Data /\ form' \in Brought /\ SettingsKept'
    BY <2>1 DEF IInv, TypeOK, SettingsKept, Brought
  <2>3. QED
    BY <2>1, <2>2, ElsewhereKeeps
<1>3. ASSUME NEW d \in Data, Change(d)
      PROVE  IInv'
  <2>1. source' = d /\ UNCHANGED <<view, screen, choice, shows, flight, settings>>
    BY <1>3 DEF Change
  <2>2. /\ source' \in Data /\ form' \in Brought /\ kept' \in Data \cup {Nil}
        /\ SettingsKept'
    BY <2>1 DEF IInv, TypeOK, SettingsKept, settings
  <2>3. QED
    BY <2>1, <2>2, ElsewhereKeeps
<1>4. QED
  BY <1>1, <1>2, <1>3

-----------------------------------------------------------------------------
(* Answers come, and are shown.                                            *)
LEMMA AnswerKeeps ==
    ASSUME IInv, NEW f \in Flight, NEW d \in Brought, Answer(f, d),
           flight[f].step \in {"asked", "set"},
           UNCHANGED <<view, screen, choice, shows, settings>>, source' \in Data
    PROVE  IInv'
<1>1. /\ flight' \in [Flight -> Request]
      /\ flight'[f].step = "answered" /\ flight'[f].asked = flight[f].asked
      /\ flight'[f].bound = flight[f].bound
      /\ \A g \in Flight \ {f} : flight'[g] = flight[g]
  <2>1. flight \in [Flight -> Request]
    BY DEF IInv, TypeOK
  <2>2. flight'[f] = [flight[f] EXCEPT !.step = "answered", !.data = d]
    BY <2>1 DEF Answer
  <2>3. flight'[f] \in Request
    BY <2>1, <2>2 DEF Request
  <2>4. flight' \in [Flight -> Request] /\ \A g \in Flight \ {f} : flight'[g] = flight[g]
    BY <2>1, <2>3 DEF Answer
  <2>5. QED
    BY <2>1, <2>2, <2>4 DEF Request
<1>2. FlightsOK'
  <2>1. FlightOK(f)'
    BY <1>1 DEF IInv, FlightsOK, FlightOK, choice
  <2>2. \A g \in Flight \ {f} : FlightOK(g)'
    BY <1>1 DEF IInv, FlightsOK, FlightOK, choice
  <2>3. QED
    BY <2>1, <2>2 DEF FlightsOK
<1>3. \A g \in Flight : flight'[g].bound = flight[g].bound
  BY <1>1
<1>4. Bound' = Bound
  BY <1>3 DEF Bound
<1>5. TypeOK'
  BY <1>1 DEF IInv, TypeOK, screen, choice, shows, settings
<1>6. Stale' /\ SettingsKept' /\ OneTimer'
  BY <1>4 DEF IInv, Stale, SettingsKept, OneTimer, screen, choice, shows, settings
<1>7. QED
  BY <1>2, <1>5, <1>6 DEF IInv

LEMMA ServesKeeps ==
    ASSUME IInv, NEW f \in Flight,
           Serves(f) \/ Unanswered(f) \/ \E d \in Data : ServeSet(f, d)
    PROVE  IInv'
<1>1. CASE Serves(f)
  <2>1. /\ flight[f].step = "asked"
        /\ \E d \in {source, "off", "error", "none"} : Answer(f, d)
        /\ UNCHANGED <<view, screen, choice, shows, source, settings>>
    BY <1>1 DEF Serves, Asked, ServeRecent, ServeOptions, ServeSummary, ServeLatency,
       ServeSeries, ServeUpstreams, ServeDiscovery, ServeRedis, ServeCache, ServeRefresh,
       ServeBlocklists, ServeErrors, ServeTraces, ServePause, ServeConfig, ServeInfo, ServeSync,
       ServeReplicas
  <2>2. source' \in Data /\ {source, "off", "error", "none"} \subseteq Brought
    BY <2>1 DEF IInv, TypeOK, Brought
  <2>3. QED
    BY <2>1, <2>2, AnswerKeeps
<1>2. CASE Unanswered(f)
  <2>1. /\ flight[f].step \in {"asked", "set"} /\ Answer(f, "failed")
        /\ UNCHANGED <<view, screen, choice, shows, source, settings>>
    BY <1>2 DEF Unanswered
  <2>2. source' \in Data /\ "failed" \in Brought
    BY <2>1 DEF IInv, TypeOK, Brought
  <2>3. QED
    BY <2>1, <2>2, AnswerKeeps
<1>3. ASSUME NEW d \in Data, ServeSet(f, d)
      PROVE  IInv'
  <2>1. /\ flight[f].step = "set" /\ Answer(f, d) /\ source' = d
        /\ UNCHANGED <<view, screen, choice, shows, settings>>
    BY <1>3 DEF ServeSet
  <2>2. d \in Brought
    BY DEF Brought
  <2>3. QED
    BY <2>1, <2>2, AnswerKeeps
<1>4. QED
  BY <1>1, <1>2, <1>3

(* However an answer is shown: it is shown as what it was asked for, or    *)
(* nothing is, or an error stands with what was shown.                     *)
Outcome(f) ==
    \/ \E d \in Brought : shown' = [asked |-> flight[f].asked, data |-> d] /\ error' \in BOOLEAN
    \/ shown' = Nil /\ error' = TRUE
    \/ shown' = shown /\ error' = TRUE

LEMMA ShowsOutcome ==
    ASSUME TypeOK, NEW f \in Flight,
           \/ Shows(f, flight[f].data) \/ Empties(f, TRUE) \/ Empties(f, FALSE) \/ Keeps
    PROVE  Outcome(f)
<1>1. flight[f].data \in Brought /\ Nil \in Brought
  BY DEF TypeOK, Request, Brought
<1>2. QED
  BY <1>1 DEF Shows, Empties, Keeps, Outcome

LEMMA LandingOutcome ==
    ASSUME TypeOK, NEW f \in Flight, Landing(f)
    PROVE  /\ flight[f].step = "answered" /\ flight' = [flight EXCEPT ![f] = None]
           /\ UNCHANGED <<view, screen, choice, source>>
           /\ Outcome(f)
           /\ \/ UNCHANGED settings
              \/ kept' = Nil /\ form' \in {form, flight[f].data}
<1>1. flight' = [flight EXCEPT ![f] = None] /\ UNCHANGED <<view, screen, choice, source>>
  BY DEF Landing
<1>2. CASE LandSync(f)
  <2>1. /\ \/ shown' = Nil /\ error' = TRUE
           \/ Shows(f, flight[f].data)
        /\ \/ UNCHANGED settings
           \/ kept' = Nil /\ form' \in {form, flight[f].data}
        /\ flight[f].step = "answered"
    BY <1>2 DEF LandSync, Lands
  <2>2. Outcome(f)
    <3>1. CASE shown' = Nil /\ error' = TRUE
      BY <3>1 DEF Outcome
    <3>2. CASE Shows(f, flight[f].data)
      BY <3>2, ShowsOutcome
    <3>3. QED
      BY <2>1, <3>1, <3>2
  <2>3. QED
    BY <1>1, <2>1, <2>2
<1>3. FromStore(f) => \/ Shows(f, flight[f].data) \/ Empties(f, TRUE) \/ Empties(f, FALSE)
                      \/ Keeps
  BY DEF FromStore
<1>4. OrKeeps(f) => Shows(f, flight[f].data) \/ Keeps
  BY DEF OrKeeps
<1>5. CASE ~LandSync(f)
  <2>1. UNCHANGED settings /\ flight[f].step = "answered"
    BY <1>5 DEF Landing, Lands, LandRecent, LandOptions, LandSummary, LandLatency, LandSeries,
       LandUpstreams, LandDiscovery, LandRedis, LandCache, LandRefresh, LandBlocklists,
       LandErrors, LandTraces, LandPause, LandConfig, LandInfo, LandReplicas
  <2>2. \/ Shows(f, flight[f].data) \/ Empties(f, TRUE) \/ Empties(f, FALSE) \/ Keeps
    BY <1>3, <1>4, <1>5 DEF Landing, LandRecent, LandOptions, LandSummary, LandLatency,
       LandSeries, LandUpstreams, LandDiscovery, LandRedis, LandCache, LandRefresh,
       LandBlocklists, LandErrors, LandTraces, LandPause, LandConfig, LandInfo, LandReplicas
  <2>3. QED
    BY <1>1, <2>1, <2>2, ShowsOutcome
<1>6. QED
  BY <1>2, <1>5

LEMMA LandingKeeps ==
    ASSUME IInv, NEW f \in Flight, Landing(f)
    PROVE  IInv'
<1>1. /\ flight[f].step = "answered" /\ flight' = [flight EXCEPT ![f] = None]
      /\ UNCHANGED <<view, screen, choice, source>>
      /\ Outcome(f)
      /\ \/ UNCHANGED settings
         \/ kept' = Nil /\ form' \in {form, flight[f].data}
  BY LandingOutcome DEF IInv
<1>2. /\ flight[f].asked = asked /\ asked' = asked /\ view' = view
      /\ asked \in Choice /\ flight[f].data \in Brought
  BY <1>1 DEF IInv, TypeOK, FlightsOK, FlightOK, choice, Request
<1>3. /\ flight' \in [Flight -> Request]
      /\ \A g \in Flight : flight'[g] = None \/ flight'[g] = flight[g]
  BY <1>1, Requests DEF IInv, TypeOK
<1>4. FlightsOK'
  BY <1>2, <1>3, Requests DEF IInv, FlightsOK, FlightOK
<1>5. shown' \in [asked : Choice, data : Brought] \cup {Nil} /\ error' \in BOOLEAN
  <2>1. ASSUME NEW d \in Brought, shown' = [asked |-> flight[f].asked, data |-> d]
        PROVE  shown' \in [asked : Choice, data : Brought]
    BY <1>2, <2>1
  <2>2. shown \in [asked : Choice, data : Brought] \cup {Nil}
    BY DEF IInv, TypeOK
  <2>3. QED
    BY <1>1, <2>1, <2>2 DEF Outcome
<1>6. Stale'
  <2>1. SUFFICES ASSUME shown' # Nil, shown'.asked # asked
                 PROVE  view \in Choosing /\ error'
    BY <1>2 DEF Stale
  <2>2. shown' = shown /\ error' = TRUE
    BY <1>1, <1>2, <2>1 DEF Outcome
  <2>3. QED
    BY <2>1, <2>2 DEF IInv, Stale
<1>7. form' \in Brought /\ kept' \in Data \cup {Nil} /\ SettingsKept'
  BY <1>1, <1>2 DEF IInv, TypeOK, SettingsKept, settings
<1>8. TypeOK'
  BY <1>1, <1>3, <1>5, <1>7 DEF IInv, TypeOK, screen, choice
<1>9. OneTimer'
  BY <1>1 DEF IInv, OneTimer, screen
<1>10. QED
  BY <1>4, <1>6, <1>7, <1>8, <1>9 DEF IInv

-----------------------------------------------------------------------------
LEMMA InvStep == IInv /\ [Next]_vars => IInv'
<1> SUFFICES ASSUME IInv, [Next]_vars
             PROVE  IInv'
  OBVIOUS
<1>1. ASSUME Leave \/ Hide \/ ReopenSettings
      PROVE  IInv'
  BY <1>1, LeaveKeeps, HideKeeps, SettingsKeeps
<1>2. ASSUME NEW f \in Flight, \/ Appear(f) \/ Interval(f) \/ ChooseTab(f) \/ Unhide(f)
                               \/ Settle(f) \/ Refresh(f) \/ SetPause(f)
                               \/ Serves(f) \/ Unanswered(f) \/ Landing(f)
      PROVE  IInv'
  BY <1>2, AppearKeeps, IntervalKeeps, ChooseTabKeeps, UnhideKeeps, ChoosingKeeps,
     SetPauseKeeps, ServesKeeps, LandingKeeps
<1>3. ASSUME NEW f \in Flight, NEW t \in Text,
             TypeFilter(f, t) \/ Choose(f, t) \/ ChooseWindow(f, t)
      PROVE  IInv'
  BY <1>3, TypeFilterKeeps, ChoosingKeeps
<1>4. ASSUME NEW f \in Flight, NEW p \in Page, TurnPage(f, p)
      PROVE  IInv'
  BY <1>4, ChoosingKeeps
<1>5. ASSUME NEW f \in Flight, NEW d \in Data, ServeSet(f, d)
      PROVE  IInv'
  BY <1>5, ServesKeeps
<1>6. ASSUME NEW d \in Data, TypeSettings(d) \/ Change(d)
      PROVE  IInv'
  BY <1>6, SettingsKeeps
<1>7. CASE UNCHANGED vars
  <2>1. UNCHANGED <<view, screen, choice, shows, flight, source, settings>>
    BY <1>7 DEF vars
  <2>2. /\ source' \in Data /\ form' \in Brought /\ kept' \in Data \cup {Nil}
        /\ SettingsKept'
    BY <2>1 DEF IInv, TypeOK, SettingsKept, settings
  <2>3. QED
    BY <2>1, <2>2, ElsewhereKeeps
<1>8. QED
  BY <1>1, <1>2, <1>3, <1>4, <1>5, <1>6, <1>7 DEF Next

LEMMA Invariance == Spec => []IInv
  BY InitInv, InvStep, PTL DEF Spec

(* The view, its requests and what they bring have their types.            *)
THEOREM TypeCorrect == Spec => []TypeOK
  BY Invariance, PTL DEF IInv

(* With no request of its effect under way and no error, a view shows what *)
(* is chosen in it: what it was asked for before it is never left standing *)
(* under a later filter, page or window.                                   *)
THEOREM ChosenIsShown == Spec => []ShownIsChosen
<1>1. IInv => ShownIsChosen
  BY DEF IInv, Stale, ShownIsChosen
<1>2. QED
  BY <1>1, Invariance, PTL

(* What is typed into the settings of a replica is overwritten only by a   *)
(* status that differs from the one before.                                *)
THEOREM TypedSettingsStay == Spec => []SettingsKept
  BY Invariance, PTL DEF IInv

(* Hiding and showing the browser tab, however often, leaves one timer     *)
(* when it is shown and none when it is hidden.                            *)
THEOREM TimerIsOne == Spec => []OneTimer
  BY Invariance, PTL DEF IInv
=============================================================================
