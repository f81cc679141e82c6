--------------------------- MODULE AdminPageProofs ---------------------------
(***************************************************************************)
(* Proofs about AdminPage, for any number of requests under way and any    *)
(* rows: what is typed stays, what a page says is saved is, a page that    *)
(* could not load does not write its empty form, and a dialog does what    *)
(* was read.                                                               *)
(***************************************************************************)
EXTENDS AdminPage, TLAPS

IsSave(f) == flow[f].purpose \in {"save", "apply", "switch"}
OwnSave(f) == IsSave(f) /\ flow[f].own
IsLoad(f) == flow[f].purpose = "load"

(* A request is at a step of its purpose, and what it carries to the       *)
(* server is a form.                                                       *)
RequestOK(fl) ==
    /\ fl.step = "idle" => fl = None
    /\ fl.step \in {"get", "got"} => fl.purpose \in {"load", "detect"}
    /\ fl.step \in {"put", "stored", "refused"} => fl.purpose \in {"save", "apply", "switch"}
    /\ fl.step \in {"post", "ran", "not run"} => fl.purpose \in {"apply", "switch", "restart"}
    /\ fl.step \in {"put", "stored"} => fl.body \in Content
    /\ fl.purpose = "load" => fl.own
FlowOK == \A f \in Flow : RequestOK(flow[f])

(* When the page is not open nothing is on it, and nothing is its own.     *)
Closed ==
    ~open => /\ form = Nil /\ typed = Nil /\ status = ""
             /\ ~loaded /\ ~edited /\ ~crossed
             /\ ~dialog.own
             /\ \A f \in Flow : ~flow[f].own

(* What is loading was asked for before anything was typed or saved.       *)
OwnSaving == \E g \in Flow : OwnSave(g)
LoadsLate ==
    typed # Nil \/ status # "" \/ OwnSaving => \A f \in Flow : IsLoad(f) => f \in late

(* A save under way carries what is typed, if nothing was typed since.     *)
SavesTyped ==
    \A f \in Flow : /\ OwnSave(f) /\ flow[f].step \in {"put", "stored"}
                    /\ f \notin late /\ typed # Nil
                    => flow[f].body = typed

(* The form of a page that has not loaded, as nobody has touched it.       *)
Untouched == ~loaded /\ typed = Nil /\ ~crossed
Blank == open /\ Untouched => form = IF kind \in Lists \cup Dns THEN {} ELSE Nil
SavesBlank ==
    \A f \in Flow : /\ OwnSave(f) /\ flow[f].step \in {"put", "stored"} /\ Untouched
                    => kind \in Dns /\ flow[f].body = {}

(* The dialogs.  One about the form stands over it as it is; one that the  *)
(* page before has left behind keeps this one from saving.                 *)
DialogRead == dialog.what \in {"apply", "clear"} => dialog.what = read
AskedApply ==
    dialog.what = "apply" /\ dialog.own =>
       /\ kind \in Lists \cup Dns
       /\ form # Nil /\ Valid(form) /\ dialog.body = form
       /\ ~OwnSaving /\ \A f \in Flow : ~IsLoad(f)
LeftApply ==
    dialog.what = "apply" =>
       /\ dialog.body # Nil
       /\ ~dialog.own => status = "" /\ ~OwnSaving

(* Without a contest, a save of this page is the only one under way, and   *)
(* none of an earlier visit is while it says what became of one.           *)
OneSave ==
    ~contested =>
       /\ \A f, g \in Flow : OwnSave(f) /\ IsSave(g) => f = g
       /\ status # "" => \A g \in Flow : IsSave(g) => flow[g].own

(* What a save under way has reached, and what is left when it is done.    *)
Reached ==
    ~contested =>
       \A f \in Flow : OwnSave(f) =>
          /\ flow[f].step = "stored" => store = flow[f].body
          /\ flow[f].step = "ran" => running = store
          /\ ~edited /\ ~crossed =>
                /\ flow[f].step \in {"put", "stored"} => form = flow[f].body
                /\ flow[f].step \in {"stored", "post", "ran", "not run"} => form = store
AppliedDone == ~contested /\ status = "Applied" /\ kind # "clients" => ~OwnSaving
Served ==
    open /\ ~OwnSaving /\ status \in {"Saved", "Applied"}
         /\ ~edited /\ ~contested /\ ~crossed
    => /\ store = form
       /\ status = "Applied" /\ kind # "clients" => running = form

IInv == /\ TypeOK /\ FlowOK /\ Closed
        /\ EditsKept /\ LoadsLate /\ SavesTyped
        /\ Blank /\ SavesBlank
        /\ DialogRead /\ AskedApply /\ LeftApply
        /\ OneSave /\ Reached /\ AppliedDone /\ Served

-----------------------------------------------------------------------------
(* What the constants promise, and what FlowOK says in the words of the    *)
(* actions.                                                                *)
LEMMA Blanks == {} \in Content /\ Nil \notin Content /\ {} # Nil
  BY ContentAssumption

LEMMA Requests == None \in Request /\ None.purpose = "none" /\ None.step = "idle" /\ ~None.own
  BY DEF None, Request, Purpose, Step

LEMMA FlowFacts ==
    ASSUME TypeOK, FlowOK
    PROVE  /\ \A f \in Flow : flow[f].step = "idle" =>
                 flow[f] = None /\ ~IsSave(f) /\ ~IsLoad(f) /\ ~flow[f].own
           /\ \A f \in Flow : f \in Flying <=> flow[f].step # "idle"
           /\ \A f \in Flow : f \in Saves <=> IsSave(f)
           /\ Saving <=> OwnSaving
           /\ Loading <=> \E f \in Flow : IsLoad(f)
<1>1. \A f \in Flow : flow[f].step = "idle" =>
         flow[f] = None /\ ~IsSave(f) /\ ~IsLoad(f) /\ ~flow[f].own
  BY Requests DEF FlowOK, RequestOK, IsSave, IsLoad
<1>2. \A f \in Flow : f \in Flying <=> flow[f].step # "idle"
  BY DEF Flying
<1>3. \A f \in Flow : f \in Saves <=> IsSave(f)
  BY <1>1, <1>2 DEF Saves, IsSave
<1>4. Saving <=> OwnSaving
  BY <1>3 DEF Saving, OwnSaving, OwnSave, Saves, Flying
<1>5. Loading <=> \E f \in Flow : IsLoad(f)
  BY <1>1, <1>2 DEF Loading, FlowOK, RequestOK, IsLoad, Flying
<1>6. QED
  BY <1>1, <1>2, <1>3, <1>4, <1>5

LEMMA BeginFlow ==
    ASSUME TypeOK, FlowOK, NEW f \in Flow, NEW p \in Purpose, NEW s \in Step,
           NEW b \in Content \cup {Nil}, NEW own \in BOOLEAN, Begin(f, p, s, b, own)
    PROVE  /\ flow[f] = None /\ f \notin Flying
           /\ flow' \in [Flow -> Request]
           /\ flow'[f] = [purpose |-> p, step |-> s, body |-> b, own |-> own]
           /\ \A g \in Flow \ {f} : flow'[g] = flow[g]
  BY FlowFacts DEF TypeOK, Begin, Request

LEMMA EndsFlow ==
    ASSUME TypeOK, NEW f \in Flow, Ends(f)
    PROVE  /\ flow' \in [Flow -> Request] /\ late' = late \ {f}
           /\ flow'[f] = None
           /\ \A g \in Flow \ {f} : flow'[g] = flow[g]
  BY Requests DEF TypeOK, Ends

LEMMA AnswersFlow ==
    ASSUME TypeOK, NEW f \in Flow, NEW s \in Step, NEW b \in Content \cup {Nil},
           Answers(f, s, b)
    PROVE  /\ flow' \in [Flow -> Request]
           /\ flow'[f].step = s /\ flow'[f].body = b
           /\ \A g \in Flow \ {f} : flow'[g] = flow[g]
           /\ \A g \in Flow : flow'[g].purpose = flow[g].purpose /\ flow'[g].own = flow[g].own
<1>1. /\ flow' \in [Flow -> Request]
      /\ flow'[f] = [purpose |-> flow[f].purpose, step |-> s, body |-> b, own |-> flow[f].own]
      /\ \A g \in Flow \ {f} : flow'[g] = flow[g]
  BY DEF TypeOK, Answers, Request
<1>2. flow'[f].purpose = flow[f].purpose /\ flow'[f].own = flow[f].own
  BY <1>1
<1>3. \A g \in Flow : flow'[g].purpose = flow[g].purpose /\ flow'[g].own = flow[g].own
  BY <1>1, <1>2
<1>4. QED
  BY <1>1, <1>3

LEMMA InitInv == Init => IInv
<1> SUFFICES ASSUME Init PROVE IInv
  OBVIOUS
<1>1. TypeOK
  BY Requests DEF Init, TypeOK, NoDialog, Question
<1>2. \A f \in Flow : flow[f] = None
  BY DEF Init
<1>3. \A f \in Flow : ~IsSave(f) /\ ~IsLoad(f) /\ ~OwnSave(f) /\ ~OwnSaving
  BY <1>2, Requests DEF IsSave, IsLoad, OwnSave, OwnSaving
<1>4. FlowOK /\ Closed
  BY <1>2, <1>3, Requests DEF Init, FlowOK, RequestOK, Closed, NoDialog, IsSave, IsLoad
<1>5. QED
  BY <1>1, <1>3, <1>4 DEF Init, IInv, EditsKept, LoadsLate, SavesTyped, Blank, SavesBlank,
     DialogRead, AskedApply, LeftApply, OneSave, Reached, AppliedDone, Served, NoDialog

-----------------------------------------------------------------------------
(* The server's steps change no request's purpose, and the page not.       *)
LEMMA SameSaves ==
    ASSUME \A g \in Flow : flow'[g].purpose = flow[g].purpose /\ flow'[g].own = flow[g].own
    PROVE  /\ \A g \in Flow : /\ (IsSave(g)' <=> IsSave(g)) /\ (IsLoad(g)' <=> IsLoad(g))
                              /\ (OwnSave(g)' <=> OwnSave(g))
           /\ OwnSaving' <=> OwnSaving
<1>1. \A g \in Flow : /\ (IsSave(g)' <=> IsSave(g)) /\ (IsLoad(g)' <=> IsLoad(g))
                      /\ (OwnSave(g)' <=> OwnSave(g))
  BY DEF IsSave, IsLoad, OwnSave
<1>2. QED
  BY <1>1 DEF OwnSaving

LEMMA ServerKeeps ==
    ASSUME IInv, UNCHANGED <<kind, page, dialog, history>>,
           flow' \in [Flow -> Request], store' \in Content, running' \in Content,
           \A g \in Flow : flow'[g].purpose = flow[g].purpose /\ flow'[g].own = flow[g].own,
           \A g \in Flow : flow'[g].step \in {"put", "stored"} =>
              flow[g].step \in {"put", "stored"} /\ flow'[g].body = flow[g].body,
           FlowOK', Reached', Served'
    PROVE  IInv'
<1>1. TypeOK'
  BY DEF IInv, TypeOK, page, history
<1>2. Closed'
  BY DEF IInv, Closed, page, history
<1>3. EditsKept' /\ Blank' /\ DialogRead'
  BY DEF IInv, EditsKept, Blank, Untouched, DialogRead, page, history
<1>4. LoadsLate' /\ AskedApply' /\ LeftApply' /\ AppliedDone'
  BY SameSaves DEF IInv, LoadsLate, AskedApply, LeftApply, AppliedDone, Valid, page, history
<1>5. SavesTyped' /\ SavesBlank'
  BY SameSaves DEF IInv, SavesTyped, SavesBlank, Untouched, page, history
<1>6. OneSave'
  BY SameSaves DEF IInv, OneSave, page, history
<1>7. QED
  BY <1>1, <1>2, <1>3, <1>4, <1>5, <1>6 DEF IInv

LEMMA ServeGetKeeps ==
    ASSUME IInv, NEW f \in Flow, ServeGet(f)
    PROVE  IInv'
<1>1. PICK b \in Content \cup {Nil} : Answers(f, "got", b)
  BY DEF IInv, TypeOK, ServeGet
<1>2. /\ flow' \in [Flow -> Request]
      /\ flow'[f].step = "got" /\ flow'[f].body = b
      /\ \A g \in Flow : flow'[g].purpose = flow[g].purpose /\ flow'[g].own = flow[g].own
      /\ \A g \in Flow \ {f} : flow'[g] = flow[g]
      /\ flow[f].step = "get"
      /\ UNCHANGED <<kind, page, dialog, server, history>>
  BY <1>1, AnswersFlow DEF IInv, ServeGet, Step
<1>4. flow[f].purpose \in {"load", "detect"} /\ ~IsSave(f) /\ ~OwnSave(f)
  BY <1>2 DEF IInv, FlowOK, RequestOK, IsSave, OwnSave
<1>5. FlowOK'
  <2>1. RequestOK(flow'[f])
    BY <1>2, <1>4 DEF IInv, FlowOK, RequestOK
  <2>2. QED
    BY <1>2, <2>1 DEF IInv, FlowOK
<1>6. Reached' /\ Served'
  BY <1>2, <1>4, SameSaves DEF IInv, Reached, Served, page, server, history
<1>7. QED
  BY <1>2, <1>5, <1>6, ServerKeeps DEF IInv, TypeOK, server

LEMMA ServePutKeeps ==
    ASSUME IInv, NEW f \in Flow, ServePut(f)
    PROVE  IInv'
<1>1. PICK s \in {"stored", "refused"}, b \in Content \cup {Nil} :
         /\ Answers(f, s, b)
         /\ s = "stored" => b = flow[f].body /\ store' = flow[f].body
  BY DEF IInv, TypeOK, ServePut, Request
<1>2. /\ flow' \in [Flow -> Request]
      /\ flow'[f].step = s /\ flow'[f].body = b
      /\ \A g \in Flow : flow'[g].purpose = flow[g].purpose /\ flow'[g].own = flow[g].own
      /\ \A g \in Flow \ {f} : flow'[g] = flow[g]
      /\ flow[f].step = "put"
      /\ store' = store \/ store' = flow[f].body
      /\ UNCHANGED <<kind, page, dialog, running, history>>
  BY <1>1, AnswersFlow DEF IInv, ServePut, Step
<1>4. IsSave(f) /\ flow[f].body \in Content
  BY <1>2 DEF IInv, FlowOK, RequestOK, IsSave
<1>5. FlowOK'
  <2>1. RequestOK(flow'[f])
    BY <1>1, <1>2, <1>4 DEF IInv, FlowOK, RequestOK, IsSave
  <2>2. QED
    BY <1>2, <2>1 DEF IInv, FlowOK
<1>6. Reached'
  <2>1. SUFFICES ASSUME ~contested, NEW g \in Flow, OwnSave(g)
                 PROVE  /\ flow'[g].step = "stored" => store' = flow'[g].body
                        /\ flow'[g].step = "ran" => running' = store'
                        /\ ~edited /\ ~crossed =>
                           /\ flow'[g].step \in {"put", "stored"} => form = flow'[g].body
                           /\ flow'[g].step \in {"stored", "post", "ran", "not run"} => form = store'
    BY <1>2, SameSaves DEF Reached, page, history
  <2>2. g = f
    BY <1>4, <2>1 DEF IInv, OneSave
  <2>3. QED
    BY <1>1, <1>2, <2>1, <2>2 DEF IInv, Reached
<1>7. Served'
  <2>1. ASSUME open, ~OwnSaving, status \in {"Saved", "Applied"}, ~contested
        PROVE  FALSE
    BY <1>4, <2>1 DEF IInv, OneSave, OwnSaving, OwnSave
  <2>2. QED
    BY <1>2, <2>1, SameSaves DEF Served, page, history
<1>8. QED
  BY <1>1, <1>2, <1>4, <1>5, <1>6, <1>7, ServerKeeps DEF IInv, TypeOK

LEMMA ServeApplyKeeps ==
    ASSUME IInv, NEW f \in Flow, ServeApply(f)
    PROVE  IInv'
<1>1. PICK s \in {"ran", "not run"} : Answers(f, s, Nil) /\ (s = "ran" => running' = store)
  BY DEF ServeApply
<1>2. /\ flow' \in [Flow -> Request]
      /\ flow'[f].step = s /\ flow'[f].body = Nil
      /\ \A g \in Flow : flow'[g].purpose = flow[g].purpose /\ flow'[g].own = flow[g].own
      /\ \A g \in Flow \ {f} : flow'[g] = flow[g]
      /\ flow[f].step = "post"
      /\ running' = running \/ running' = store
      /\ UNCHANGED <<kind, page, dialog, store, history>>
  BY <1>1, AnswersFlow DEF IInv, ServeApply, Step
<1>4. flow[f].purpose \in {"apply", "switch", "restart"}
  BY <1>2 DEF IInv, FlowOK, RequestOK, IsSave
<1>5. FlowOK'
  <2>1. RequestOK(flow'[f])
    BY <1>1, <1>2, <1>4 DEF IInv, FlowOK, RequestOK, IsSave
  <2>2. QED
    BY <1>2, <2>1 DEF IInv, FlowOK
<1>6. Reached'
  <2>1. SUFFICES ASSUME ~contested, NEW g \in Flow, OwnSave(g)
                 PROVE  /\ flow'[g].step = "stored" => store = flow'[g].body
                        /\ flow'[g].step = "ran" => running' = store
                        /\ ~edited /\ ~crossed =>
                           /\ flow'[g].step \in {"put", "stored"} => form = flow'[g].body
                           /\ flow'[g].step \in {"stored", "post", "ran", "not run"} => form = store
    BY <1>2, SameSaves DEF Reached, page, history
  <2>2. QED
    BY <1>1, <1>2, <2>1 DEF IInv, Reached
<1>7. Served'
  <2>1. SUFFICES ASSUME open, ~OwnSaving, status \in {"Saved", "Applied"}, ~edited, ~contested,
                        ~crossed
                 PROVE  store = form /\ (status = "Applied" /\ kind # "clients" => running' = form)
    BY <1>2, SameSaves DEF Served, page, history
  <2>2. QED
    BY <1>2, <2>1 DEF IInv, Served
<1>8. QED
  BY <1>1, <1>2, <1>5, <1>6, <1>7, ServerKeeps DEF IInv, TypeOK

LEMMA BrokenFlows ==
    ASSUME NEW fl \in Request
    PROVE  /\ Broken(fl) \in Request
           /\ Broken(fl).purpose = fl.purpose /\ Broken(fl).own = fl.own
           /\ fl.step = "get" => Broken(fl).step = "got"
           /\ fl.step = "put" => Broken(fl).step = "refused"
           /\ fl.step = "post" => Broken(fl).step = "not run"
           /\ fl.step \notin {"get", "put", "post"} => Broken(fl) = fl
  BY DEF Broken, Request, Step

LEMMA ServeRestartKeeps ==
    ASSUME IInv, NEW f \in Flow, ServeRestart(f)
    PROVE  IInv'
<1>1. /\ flow[f].step = "post" /\ flow[f].purpose = "restart"
      /\ UNCHANGED <<kind, page, dialog, store, history>>
  BY DEF ServeRestart
<1>2. /\ flow' \in [Flow -> Request]
      /\ \A g \in Flow : flow'[g].purpose = flow[g].purpose /\ flow'[g].own = flow[g].own
      /\ flow'[f].step \in {"ran", "not run"}
      /\ \A g \in Flow \ {f} : flow'[g] = flow[g] \/ flow'[g] = Broken(flow[g])
      /\ running' = running \/ running' = store
  <2>1. CASE Answers(f, "not run", Nil) /\ UNCHANGED running
    BY <2>1, AnswersFlow DEF IInv, Step
  <2>2. CASE flow' = [g \in Flow |-> IF g = f THEN [flow[g] EXCEPT !.step = "ran"]
                                     ELSE Broken(flow[g])] /\ running' = store
    <3>1. flow \in [Flow -> Request]
      BY DEF IInv, TypeOK
    <3>2. [flow[f] EXCEPT !.step = "ran"] \in Request
      BY <3>1 DEF Request, Step
    <3>3. \A g \in Flow \ {f} : Broken(flow[g]) \in Request
      BY <3>1, BrokenFlows
    <3>4. \A g \in Flow \ {f} : flow'[g] = Broken(flow[g])
      BY <2>2
    <3>5. flow'[f] = [flow[f] EXCEPT !.step = "ran"]
      BY <2>2
    <3>6. flow' \in [Flow -> Request]
      BY <2>2, <3>2, <3>3
    <3>7. flow'[f].step = "ran" /\ flow'[f].purpose = flow[f].purpose /\ flow'[f].own = flow[f].own
      BY <3>1, <3>5 DEF Request
    <3>8. ASSUME NEW g \in Flow \ {f}
          PROVE  flow'[g].purpose = flow[g].purpose /\ flow'[g].own = flow[g].own
      <4>1. flow[g] \in Request /\ flow'[g] = Broken(flow[g])
        BY <3>1, <3>4
      <4>2. QED
        BY <4>1 DEF Broken, Request
    <3>9. QED
      BY <2>2, <3>4, <3>6, <3>7, <3>8
  <2>3. QED
    BY <2>1, <2>2 DEF ServeRestart
<1>3. \A g \in Flow \ {f} :
         \/ flow'[g] = flow[g]
         \/ /\ flow[g].step = "get" => flow'[g].step = "got"
            /\ flow[g].step = "put" => flow'[g].step = "refused"
            /\ flow[g].step = "post" => flow'[g].step = "not run"
            /\ flow[g].step \in {"get", "put", "post"}
  <2>1. SUFFICES ASSUME NEW g \in Flow \ {f}, flow'[g] # flow[g]
                 PROVE  /\ flow[g].step = "get" => flow'[g].step = "got"
                        /\ flow[g].step = "put" => flow'[g].step = "refused"
                        /\ flow[g].step = "post" => flow'[g].step = "not run"
                        /\ flow[g].step \in {"get", "put", "post"}
    OBVIOUS
  <2>2. flow[g] \in Request /\ flow'[g] = Broken(flow[g])
    BY <1>2, <2>1 DEF IInv, TypeOK
  <2>3. QED
    BY <2>1, <2>2 DEF Broken, Request
<1>4. /\ flow'[f].step \notin {"put", "stored", "idle"} /\ ~OwnSave(f)
      /\ flow[f].purpose = "restart" /\ flow'[f].purpose = "restart"
  BY <1>1, <1>2 DEF OwnSave, IsSave
<1>5. FlowOK'
  <2>1. SUFFICES ASSUME NEW g \in Flow
                 PROVE  RequestOK(flow'[g])
    BY DEF FlowOK
  <2>2. CASE g = f
    BY <1>2, <1>4, <2>2 DEF RequestOK
  <2>3. CASE g # f /\ flow'[g] = flow[g]
    BY <2>3 DEF IInv, FlowOK
  <2>4. CASE g # f /\ flow'[g] # flow[g]
    <3>1. /\ flow[g].step = "get" => flow'[g].step = "got"
          /\ flow[g].step = "put" => flow'[g].step = "refused"
          /\ flow[g].step = "post" => flow'[g].step = "not run"
          /\ flow[g].step \in {"get", "put", "post"}
      BY <1>3, <2>4
    <3>2. RequestOK(flow[g]) /\ flow'[g].purpose = flow[g].purpose /\ flow'[g].own = flow[g].own
      BY <1>2 DEF IInv, FlowOK
    <3>3. QED
      BY <3>1, <3>2 DEF RequestOK
  <2>5. QED
    BY <2>2, <2>3, <2>4
<1>6. Reached'
  <2>1. SUFFICES ASSUME ~contested, NEW g \in Flow, OwnSave(g)
                 PROVE  /\ flow'[g].step = "stored" => store = flow'[g].body
                        /\ flow'[g].step = "ran" => running' = store
                        /\ ~edited /\ ~crossed =>
                           /\ flow'[g].step \in {"put", "stored"} => form = flow'[g].body
                           /\ flow'[g].step \in {"stored", "post", "ran", "not run"} => form = store
    BY <1>1, <1>2, SameSaves DEF Reached, page, history
  <2>2. g # f
    BY <1>4, <2>1
  <2>3. CASE flow'[g] = flow[g]
    BY <1>2, <2>1, <2>3 DEF IInv, Reached
  <2>4. CASE flow'[g] # flow[g]
    <3>1. /\ flow[g].step \in {"get", "put", "post"}
          /\ flow[g].step = "get" => flow'[g].step = "got"
          /\ flow[g].step = "put" => flow'[g].step = "refused"
          /\ flow[g].step = "post" => flow'[g].step = "not run"
      BY <1>3, <2>2, <2>4
    <3>2. QED
      BY <2>1, <3>1 DEF IInv, Reached
  <2>5. QED
    BY <2>3, <2>4
<1>7. Served'
  <2>1. SUFFICES ASSUME open, ~OwnSaving, status \in {"Saved", "Applied"}, ~edited, ~contested,
                        ~crossed
                 PROVE  store = form /\ (status = "Applied" /\ kind # "clients" => running' = form)
    BY <1>1, <1>2, SameSaves DEF Served, page, history
  <2>2. QED
    BY <1>2, <2>1 DEF IInv, Served
<1>8. \A g \in Flow : flow'[g].step \in {"put", "stored"} =>
         flow[g].step \in {"put", "stored"} /\ flow'[g].body = flow[g].body
  BY <1>3, <1>4
<1>9. QED
  BY <1>1, <1>2, <1>5, <1>6, <1>7, <1>8, ServerKeeps DEF IInv, TypeOK

-----------------------------------------------------------------------------
(* Answers.  A flow that has ended is nobody's save and no load.           *)
LEMMA EndFacts ==
    ASSUME TypeOK, FlowOK, NEW f \in Flow, Ends(f)
    PROVE  /\ flow' \in [Flow -> Request] /\ late' = late \ {f} /\ FlowOK'
           /\ \A g \in Flow \ {f} : flow'[g] = flow[g]
           /\ \A g \in Flow : /\ IsSave(g)' <=> IsSave(g) /\ g # f
                              /\ IsLoad(g)' <=> IsLoad(g) /\ g # f
                              /\ OwnSave(g)' <=> OwnSave(g) /\ g # f
                              /\ flow'[g].step \in {"put", "stored", "post", "ran", "not run"} =>
                                    g # f
                              /\ flow'[g].own => g # f
           /\ OwnSaving' => OwnSaving
<1>1. /\ flow' \in [Flow -> Request] /\ late' = late \ {f}
      /\ flow'[f] = None
      /\ \A g \in Flow \ {f} : flow'[g] = flow[g]
  BY EndsFlow
<1>2. RequestOK(flow'[f]) /\ FlowOK'
  BY <1>1, Requests DEF FlowOK, RequestOK
<1>3. \A g \in Flow : /\ IsSave(g)' <=> IsSave(g) /\ g # f
                      /\ IsLoad(g)' <=> IsLoad(g) /\ g # f
                      /\ OwnSave(g)' <=> OwnSave(g) /\ g # f
                      /\ flow'[g].step \in {"put", "stored", "post", "ran", "not run"} => g # f
                      /\ flow'[g].own => g # f
  BY <1>1, Requests DEF IsSave, IsLoad, OwnSave
<1>4. QED
  BY <1>1, <1>2, <1>3 DEF OwnSaving

Prompted ==
    \/ dialog' = dialog
    \/ \E w \in {"restart", "detect"} : dialog' = [what |-> w, body |-> Nil, own |-> open]

LEMMA PromptedType ==
    ASSUME TypeOK, Prompted
    PROVE  /\ dialog' \in [what : Question, body : Content \cup {Nil}, own : BOOLEAN]
           /\ dialog'.what \in {"apply", "clear"} => dialog' = dialog
           /\ dialog'.own => dialog.own \/ open
<1>1. CASE dialog' = dialog
  BY <1>1 DEF TypeOK
<1>2. CASE \E w \in {"restart", "detect"} : dialog' = [what |-> w, body |-> Nil, own |-> open]
  <2>1. PICK w \in {"restart", "detect"} : dialog' = [what |-> w, body |-> Nil, own |-> open]
    BY <1>2
  <2>2. open \in BOOLEAN /\ w \in Question
    BY DEF TypeOK, Question
  <2>3. dialog'.what = w /\ dialog'.own = open
    BY <2>1
  <2>4. dialog' \in [what : Question, body : Content \cup {Nil}, own : BOOLEAN]
    BY <2>1, <2>2
  <2>5. QED
    BY <2>3, <2>4
<1>3. QED
  BY <1>1, <1>2 DEF Prompted

(* An answer that leaves the form as it is; what the page says changes     *)
(* when it was asked for by this page.                                     *)
LEMMA EndKeeps ==
    ASSUME IInv, NEW f \in Flow, Ends(f), Prompted,
           UNCHANGED <<kind, open, form, loaded, server, typed, crossed, contested, read>>,
           edited' \in BOOLEAN, edited => edited',
           status' \in {"", "Saved", "Applied", "Error"},
           ~OwnSave(f) => edited' = edited /\ status' = status,
           Served'
    PROVE  IInv'
<1>1. /\ flow' \in [Flow -> Request] /\ late' = late \ {f} /\ FlowOK'
      /\ \A g \in Flow \ {f} : flow'[g] = flow[g]
      /\ \A g \in Flow : /\ IsSave(g)' <=> IsSave(g) /\ g # f
                         /\ IsLoad(g)' <=> IsLoad(g) /\ g # f
                         /\ OwnSave(g)' <=> OwnSave(g) /\ g # f
                         /\ flow'[g].step \in {"put", "stored", "post", "ran", "not run"} =>
                               g # f
                         /\ flow'[g].own => g # f
      /\ OwnSaving' => OwnSaving
  BY EndFacts DEF IInv
<1>2. /\ dialog' \in [what : Question, body : Content \cup {Nil}, own : BOOLEAN]
      /\ dialog'.what \in {"apply", "clear"} => dialog' = dialog
      /\ dialog'.own => dialog.own \/ open
  BY PromptedType DEF IInv
<1>3. TypeOK'
  BY <1>1, <1>2 DEF IInv, TypeOK, server
<1>4. OwnSave(f) => OwnSaving /\ flow[f].own
  BY DEF OwnSaving, OwnSave
<1>5. Closed'
  BY <1>1, <1>2, <1>4 DEF IInv, Closed
<1>6. EditsKept' /\ Blank'
  BY DEF IInv, EditsKept, Blank, Untouched
<1>7. LoadsLate' /\ SavesTyped' /\ SavesBlank'
  <2>1. LoadsLate'
    BY <1>1, <1>4 DEF IInv, LoadsLate
  <2>2. SavesTyped' /\ SavesBlank'
    BY <1>1 DEF IInv, SavesTyped, SavesBlank, Untouched
  <2>3. QED
    BY <2>1, <2>2
<1>8. DialogRead' /\ AskedApply' /\ LeftApply'
  <2>1. DialogRead' /\ LeftApply'
    BY <1>1, <1>2, <1>4 DEF IInv, DialogRead, LeftApply
  <2>2. AskedApply'
    BY <1>1, <1>2 DEF IInv, AskedApply, Valid
  <2>3. QED
    BY <2>1, <2>2
<1>9. OneSave'
  BY <1>1 DEF IInv, OneSave
<1>10. Reached'
  BY <1>1 DEF IInv, Reached, server
<1>11. AppliedDone'
  <2>1. CASE OwnSave(f)
    <3>1. ~contested => ~OwnSaving'
      BY <1>1, <2>1 DEF IInv, OneSave, OwnSaving, OwnSave
    <3>2. QED
      BY <3>1 DEF AppliedDone
  <2>2. CASE ~OwnSave(f)
    BY <1>1, <2>2 DEF IInv, AppliedDone
  <2>3. QED
    BY <2>1, <2>2
<1>12. QED
  BY <1>1, <1>3, <1>5, <1>6, <1>7, <1>8, <1>9, <1>10, <1>11 DEF IInv

(* Served stays when the ended flow was not this page's save.              *)
LEMMA ServedStays ==
    ASSUME IInv, NEW f \in Flow, Ends(f), ~OwnSave(f),
           UNCHANGED <<kind, open, form, server, status, edited, crossed, contested>>
    PROVE  Served'
<1>1. OwnSaving' <=> OwnSaving
  BY EndFacts DEF IInv, OwnSaving
<1>2. QED
  BY <1>1 DEF IInv, Served, server

LEMMA LoadFailsKeeps ==
    ASSUME IInv, NEW f \in Flow, LoadFails(f)
    PROVE  IInv'
<1>1. /\ Ends(f) /\ Prompted /\ ~OwnSave(f)
      /\ UNCHANGED <<kind, open, form, loaded, server, typed, crossed, contested, read>>
      /\ edited' = edited /\ status' = status
  BY DEF LoadFails, page, Prompted, OwnSave, IsSave
<1>2. edited' \in BOOLEAN /\ status' \in {"", "Saved", "Applied", "Error"}
  BY <1>1 DEF IInv, TypeOK
<1>3. QED
  BY <1>1, <1>2, ServedStays, EndKeeps

LEMMA DetectLandsKeeps ==
    ASSUME IInv, NEW f \in Flow, DetectLands(f)
    PROVE  IInv'
<1>1. /\ Ends(f) /\ Prompted /\ ~OwnSave(f)
      /\ UNCHANGED <<kind, open, form, loaded, server, typed, crossed, contested, read>>
      /\ edited' = edited /\ status' = status
  BY DEF DetectLands, page, Prompted, Prompt, OwnSave, IsSave
<1>2. edited' \in BOOLEAN /\ status' \in {"", "Saved", "Applied", "Error"}
  BY <1>1 DEF IInv, TypeOK
<1>3. QED
  BY <1>1, <1>2, ServedStays, EndKeeps

LEMMA SaveFailsKeeps ==
    ASSUME IInv, NEW f \in Flow, SaveFails(f)
    PROVE  IInv'
<1>1. /\ Ends(f) /\ Prompted
      /\ UNCHANGED <<kind, open, form, loaded, server, typed, crossed, contested, read>>
      /\ edited' = (edited \/ flow[f].own)
      /\ status' = status \/ (status' = "Error" /\ flow[f].own)
      /\ flow[f].step = "refused"
  BY DEF SaveFails, Prompted, Quiet
<1>2. OwnSave(f) <=> flow[f].own
  BY <1>1 DEF IInv, FlowOK, RequestOK, OwnSave, IsSave
<1>3. /\ edited' \in BOOLEAN /\ status' \in {"", "Saved", "Applied", "Error"}
      /\ edited => edited'
      /\ ~OwnSave(f) => edited' = edited /\ status' = status
  BY <1>1, <1>2 DEF IInv, TypeOK, Request
<1>4. Served'
  <2>1. CASE OwnSave(f)
    BY <1>1, <1>2, <2>1 DEF Served
  <2>2. CASE ~OwnSave(f)
    BY <1>1, <1>3, <2>2, ServedStays
  <2>3. QED
    BY <2>1, <2>2
<1>5. QED
  BY <1>1, <1>3, <1>4, EndKeeps

LEMMA ApplyLandsKeeps ==
    ASSUME IInv, NEW f \in Flow, ApplyLands(f)
    PROVE  IInv'
<1>1. /\ Ends(f) /\ Prompted
      /\ UNCHANGED <<kind, open, form, loaded, server, edited, typed, crossed, contested, read>>
      /\ flow[f].step \in {"ran", "not run"}
  BY DEF ApplyLands, Prompted, Prompt
<1>2. OwnSave(f) <=> flow[f].own /\ flow[f].purpose # "restart"
  BY <1>1 DEF IInv, FlowOK, RequestOK, OwnSave, IsSave
<1>3. /\ status' = status \/ (OwnSave(f) /\ status' \in {"Applied", "Error"})
      /\ status' = "Applied" => \/ status' = status /\ (~OwnSave(f) \/ kind \in System)
                                \/ OwnSave(f) /\ flow[f].step = "ran"
  BY <1>1, <1>2 DEF ApplyLands, Quiet, System
<1>4. edited' \in BOOLEAN /\ status' \in {"", "Saved", "Applied", "Error"}
  BY <1>1, <1>3 DEF IInv, TypeOK
<1>5. Served'
  <2>1. CASE OwnSave(f)
    <3>1. SUFFICES ASSUME ~edited, ~contested, ~crossed
                   PROVE  /\ store = form
                          /\ status' = "Applied" /\ kind # "clients" => running = form
      BY <1>1 DEF Served, server
    <3>2. store = form /\ (flow[f].step = "ran" => running = store)
      BY <1>1, <2>1, <3>1 DEF IInv, Reached
    <3>3. status = "Applied" /\ kind # "clients" => FALSE
      BY <2>1, <3>1 DEF IInv, AppliedDone, OwnSaving
    <3>4. QED
      BY <1>3, <2>1, <3>2, <3>3
  <2>2. CASE ~OwnSave(f)
    BY <1>1, <1>3, <2>2, ServedStays
  <2>3. QED
    BY <2>1, <2>2
<1>6. QED
  BY <1>1, <1>3, <1>4, <1>5, EndKeeps

LEMMA LoadLandsKeeps ==
    ASSUME IInv, NEW f \in Flow, LoadLands(f)
    PROVE  IInv'
<1>1. /\ flow' \in [Flow -> Request] /\ late' = late \ {f} /\ FlowOK'
      /\ \A g \in Flow \ {f} : flow'[g] = flow[g]
      /\ \A g \in Flow : /\ IsSave(g)' <=> IsSave(g) /\ g # f
                         /\ IsLoad(g)' <=> IsLoad(g) /\ g # f
                         /\ OwnSave(g)' <=> OwnSave(g) /\ g # f
                         /\ flow'[g].step \in {"put", "stored", "post", "ran", "not run"} =>
                               g # f
                         /\ flow'[g].own => g # f
      /\ OwnSaving' => OwnSaving
  BY EndFacts DEF IInv, LoadLands
<1>2. /\ IsLoad(f) /\ flow[f].own /\ open /\ flow[f].body \in Content
      /\ UNCHANGED <<kind, open, status, dialog, server, contested, read>>
      /\ form' = flow[f].body /\ edited' = FALSE /\ loaded' = TRUE
      /\ crossed' = (crossed \/ f \in late)
      /\ typed' = IF f \in late THEN Nil ELSE typed
  <2>1. IsLoad(f) /\ flow[f].own
    BY DEF IInv, FlowOK, RequestOK, LoadLands, IsLoad
  <2>2. open
    BY <2>1 DEF IInv, Closed
  <2>3. flow[f].body \in Content
    BY DEF IInv, TypeOK, Request, LoadLands
  <2>4. QED
    BY <2>1, <2>2, <2>3 DEF LoadLands, Replaces
<1>3. TypeOK'
  BY <1>1, <1>2 DEF IInv, TypeOK, server
<1>4. Closed' /\ Blank' /\ SavesBlank'
  BY <1>2 DEF Closed, Blank, SavesBlank, Untouched
<1>5. typed # Nil \/ status # "" \/ OwnSaving => f \in late
  BY <1>2 DEF IInv, LoadsLate
<1>6. EditsKept'
  BY <1>2, <1>5 DEF EditsKept
<1>7. LoadsLate' /\ SavesTyped'
  <2>1. LoadsLate'
    BY <1>1, <1>2 DEF IInv, LoadsLate
  <2>2. SavesTyped'
    BY <1>1, <1>2 DEF IInv, SavesTyped
  <2>3. QED
    BY <2>1, <2>2
<1>8. DialogRead' /\ AskedApply' /\ LeftApply'
  BY <1>1, <1>2 DEF IInv, DialogRead, AskedApply, LeftApply
<1>9. OneSave' /\ AppliedDone'
  BY <1>1, <1>2 DEF IInv, OneSave, AppliedDone
<1>10. OwnSaving => crossed'
  BY <1>2, <1>5
<1>11. Reached'
  BY <1>1, <1>2, <1>10 DEF IInv, Reached, OwnSaving, server
<1>12. Served'
  BY <1>2, <1>5 DEF Served
<1>13. QED
  BY <1>1, <1>3, <1>4, <1>6, <1>7, <1>8, <1>9, <1>11, <1>12 DEF IInv

(* A save is answered, and its flow ends or goes on to apply.              *)
LEMMA SaveLandsKeeps ==
    ASSUME IInv, NEW f \in Flow, SaveLands(f), Prompted,
           flow' \in [Flow -> Request], RequestOK(flow'[f]),
           flow'[f] = None \/ (/\ flow'[f].purpose = flow[f].purpose
                               /\ flow'[f].own = flow[f].own
                               /\ flow'[f].step = "post"),
           \A g \in Flow \ {f} : flow'[g] = flow[g],
           late' = late \/ (late' = late \ {f} /\ flow'[f] = None)
    PROVE  IInv'
<1> DEFINE shows == flow[f].own /\ kind \in Dns \ {"safe_search"}
<1>1. /\ flow[f].step = "stored" /\ IsSave(f) /\ flow[f].body \in Content
      /\ OwnSave(f) <=> flow[f].own
      /\ UNCHANGED <<kind, open, loaded, server, contested, read>>
      /\ status' = status \/ (flow[f].own /\ status' = "Saved")
      /\ kind # "clients" /\ flow[f].own => status' = "Saved"
      /\ shows => /\ form' = flow[f].body /\ edited' = FALSE
                  /\ crossed' = (crossed \/ f \in late)
                  /\ typed' = IF f \in late THEN Nil ELSE typed
      /\ ~shows => UNCHANGED <<form, edited, crossed, typed>>
  BY DEF IInv, FlowOK, RequestOK, SaveLands, Replaces, IsSave, OwnSave, Quiet
<1>2. /\ \A g \in Flow : /\ IsSave(g)' => IsSave(g)
                         /\ OwnSave(g)' => OwnSave(g)
                         /\ IsLoad(g)' => IsLoad(g) /\ g # f
                         /\ flow'[g].step \in {"put", "stored"} => g # f
                         /\ flow'[g].own => flow[g].own
                         /\ IsSave(g)' => flow'[g].own = flow[g].own
      /\ \A g \in Flow \ {f} : OwnSave(g)' <=> OwnSave(g)
      /\ OwnSaving' => OwnSaving
  <2>1. \A g \in Flow \ {f} : /\ (IsSave(g)' <=> IsSave(g)) /\ (OwnSave(g)' <=> OwnSave(g))
                              /\ (IsLoad(g)' <=> IsLoad(g))
    BY DEF IsSave, OwnSave, IsLoad
  <2>2. /\ ~IsLoad(f)' /\ flow'[f].step \notin {"put", "stored"}
        /\ flow'[f].own => flow[f].own
        /\ IsSave(f)' => flow'[f].own = flow[f].own
        /\ OwnSave(f)' => OwnSave(f)
    <3>1. CASE flow'[f] = None
      BY <3>1, Requests DEF IsSave, OwnSave, IsLoad
    <3>2. CASE /\ flow'[f].purpose = flow[f].purpose
               /\ flow'[f].own = flow[f].own
               /\ flow'[f].step = "post"
      BY <1>1, <3>2 DEF IsSave, OwnSave, IsLoad
    <3>3. QED
      BY <3>1, <3>2
  <2>3. \A g \in Flow : OwnSave(g)' => OwnSave(g)
    BY <2>1, <2>2
  <2>4. OwnSaving' => OwnSaving
    BY <2>3 DEF OwnSaving
  <2>5. QED
    BY <1>1, <2>1, <2>2, <2>3, <2>4
<1>3. /\ typed' # Nil => typed' = typed
      /\ Untouched' => Untouched
      /\ OwnSave(f) => OwnSaving
      /\ \A g \in Flow \ {f} : g \in late => g \in late'
      /\ late' \subseteq late
  <2>1. CASE shows
    BY <1>1, <2>1 DEF Untouched, OwnSaving
  <2>2. CASE ~shows
    BY <1>1, <2>2 DEF Untouched, OwnSaving
  <2>3. QED
    BY <2>1, <2>2
<1>4. TypeOK' /\ FlowOK'
  <2>1. TypeOK'
    BY <1>1, <1>3, PromptedType DEF IInv, TypeOK, server
  <2>2. FlowOK'
    BY DEF IInv, FlowOK
  <2>3. QED
    BY <2>1, <2>2
<1>5. Closed'
  BY <1>1, <1>2, PromptedType DEF IInv, Closed
<1>6. EditsKept'
  BY <1>1, <1>3 DEF IInv, EditsKept, SavesTyped
<1>7. LoadsLate'
  BY <1>1, <1>2, <1>3 DEF IInv, LoadsLate
<1>8. SavesTyped' /\ SavesBlank'
  <2>1. SavesTyped'
    BY <1>1, <1>2, <1>3 DEF IInv, SavesTyped
  <2>2. SavesBlank'
    BY <1>1, <1>2, <1>3 DEF IInv, SavesBlank
  <2>3. QED
    BY <2>1, <2>2
<1>9. Blank'
  <2>1. SUFFICES ASSUME open, Untouched'
                 PROVE  form' = IF kind \in Lists \cup Dns THEN {} ELSE Nil
    BY <1>1 DEF Blank
  <2>2. CASE shows
    BY <1>1, <1>3, <2>1, <2>2 DEF IInv, SavesBlank
  <2>3. CASE ~shows
    BY <1>1, <1>3, <2>1, <2>3 DEF IInv, Blank
  <2>4. QED
    BY <2>2, <2>3
<1>10. DialogRead' /\ LeftApply'
  BY <1>1, <1>2, <1>3, PromptedType DEF IInv, DialogRead, LeftApply
<1>11. AskedApply'
  <2>1. SUFFICES ASSUME dialog'.what = "apply", dialog'.own
                 PROVE  /\ kind \in Lists \cup Dns
                        /\ form' # Nil /\ Valid(form)' /\ dialog'.body = form'
                        /\ ~OwnSaving' /\ \A g \in Flow : ~IsLoad(g)'
    BY <1>1 DEF AskedApply
  <2>2. dialog' = dialog
    BY <2>1, PromptedType DEF IInv
  <2>3. ~OwnSave(f) /\ ~OwnSaving /\ \A g \in Flow : ~IsLoad(g)
    BY <1>3, <2>1, <2>2 DEF IInv, AskedApply
  <2>4. form' = form
    BY <1>1, <2>3
  <2>5. QED
    BY <1>1, <1>2, <2>1, <2>2, <2>3, <2>4 DEF IInv, AskedApply, Valid
<1>12. OneSave'
  BY <1>1, <1>2 DEF IInv, OneSave
<1>13. ~contested => \A g \in Flow : OwnSave(g) => g = f
  BY <1>1 DEF IInv, OneSave
<1>14. ~contested /\ OwnSave(f) /\ ~edited' /\ ~crossed' => form' = store
  <2>1. CASE shows
    BY <1>1, <2>1 DEF IInv, Reached
  <2>2. CASE ~shows
    <3>1. UNCHANGED <<form, edited, crossed>> /\ flow[f].step = "stored"
      BY <1>1, <2>2
    <3>2. QED
      BY <3>1 DEF IInv, Reached
  <2>3. QED
    BY <2>1, <2>2
<1>15. Reached'
  <2>1. SUFFICES ASSUME ~contested, NEW g \in Flow, OwnSave(g)'
                 PROVE  /\ flow'[g].step \notin {"put", "stored", "ran"}
                        /\ ~edited' /\ ~crossed' => form' = store
    BY <1>1 DEF Reached, server
  <2>2. g = f /\ OwnSave(f)
    BY <1>2, <1>13, <2>1
  <2>3. QED
    BY <1>14, <2>1, <2>2, Requests
<1>16. AppliedDone'
  BY <1>1, <1>2 DEF IInv, AppliedDone
<1>17. Served'
  <2>1. CASE OwnSave(f)
    BY <1>1, <1>14, <2>1 DEF Served, server
  <2>2. CASE ~OwnSave(f)
    <3>1. OwnSaving' <=> OwnSaving
      BY <1>2, <2>2 DEF OwnSaving
    <3>2. QED
      BY <1>1, <2>2, <3>1 DEF IInv, Served, server
  <2>3. QED
    BY <2>1, <2>2
<1>18. QED
  BY <1>4, <1>5, <1>6, <1>7, <1>8, <1>9, <1>10, <1>11, <1>12, <1>15, <1>16, <1>17 DEF IInv

LEMMA ThenApplyKeeps ==
    ASSUME IInv, NEW f \in Flow, ThenApply(f)
    PROVE  IInv'
<1>1. /\ flow' \in [Flow -> Request]
      /\ flow'[f].step = "post"
      /\ \A g \in Flow \ {f} : flow'[g] = flow[g]
      /\ \A g \in Flow : flow'[g].purpose = flow[g].purpose /\ flow'[g].own = flow[g].own
  BY AnswersFlow DEF IInv, ThenApply, Step
<1>2. SaveLands(f) /\ Prompted /\ late' = late /\ flow[f].purpose # "save"
  BY DEF ThenApply, Prompted
<1>3. flow[f].step = "stored" /\ flow[f].purpose \in {"apply", "switch"}
  BY <1>2 DEF IInv, FlowOK, RequestOK, SaveLands
<1>a. flow'[f].step = "post" /\ flow'[f].purpose \in {"apply", "switch"}
  BY <1>1, <1>3
<1>4. RequestOK(flow'[f])
  BY <1>a DEF RequestOK
<1>5. flow'[f].purpose = flow[f].purpose /\ flow'[f].own = flow[f].own
  BY <1>1
<1>6. /\ \/ flow'[f] = None
         \/ /\ flow'[f].purpose = flow[f].purpose
            /\ flow'[f].own = flow[f].own
            /\ flow'[f].step = "post"
      /\ late' = late \/ (late' = late \ {f} /\ flow'[f] = None)
  BY <1>1, <1>2, <1>5
<1>7. flow' \in [Flow -> Request] /\ \A g \in Flow \ {f} : flow'[g] = flow[g]
  BY <1>1
<1>8. SaveLands(f) /\ Prompted
  BY <1>2
<1>9. QED
  BY <1>4, <1>6, <1>7, <1>8, SaveLandsKeeps

LEMMA ThenDoneKeeps ==
    ASSUME IInv, NEW f \in Flow, ThenDone(f)
    PROVE  IInv'
<1>1. /\ flow' \in [Flow -> Request] /\ late' = late \ {f}
      /\ flow'[f] = None
      /\ \A g \in Flow \ {f} : flow'[g] = flow[g]
  BY EndsFlow DEF IInv, ThenDone
<1>2. RequestOK(flow'[f])
  BY <1>1, Requests DEF RequestOK
<1>3. SaveLands(f) /\ Prompted
  BY DEF ThenDone, Prompted, Prompt
<1>4. QED
  BY <1>1, <1>2, <1>3, SaveLandsKeeps

-----------------------------------------------------------------------------
(* Requests that are no saves: a load, a detection, a restart.             *)
LEMMA BeginOther ==
    ASSUME TypeOK, FlowOK, NEW f \in Flow, NEW p \in {"load", "detect", "restart"},
           NEW s \in {"get", "post"}, s = "post" <=> p = "restart",
           NEW own \in BOOLEAN, p = "load" => own, Begin(f, p, s, Nil, own)
    PROVE  /\ flow' \in [Flow -> Request] /\ FlowOK' /\ ~IsSave(f)
           /\ \A g \in Flow \ {f} : flow'[g] = flow[g]
           /\ \A g \in Flow : /\ IsSave(g)' <=> IsSave(g)
                              /\ OwnSave(g)' <=> OwnSave(g)
                              /\ IsLoad(g)' => IsLoad(g) \/ (p = "load" /\ g = f)
                              /\ flow'[g].own => flow[g].own \/ own
                              /\ IsSave(g)' => g # f
                              /\ flow'[g].step \in {"put", "stored", "ran"} => g # f
           /\ OwnSaving' <=> OwnSaving
<1>1. /\ flow[f] = None
      /\ flow' \in [Flow -> Request]
      /\ flow'[f] = [purpose |-> p, step |-> s, body |-> Nil, own |-> own]
      /\ \A g \in Flow \ {f} : flow'[g] = flow[g]
  <2>1. p \in Purpose /\ s \in Step
    BY DEF Purpose, Step
  <2>2. QED
    BY <2>1, BeginFlow
<1>2. flow'[f].purpose = p /\ flow'[f].step = s /\ flow'[f].own = own
  BY <1>1
<1>3. FlowOK'
  <2>1. RequestOK(flow'[f])
    BY <1>2 DEF RequestOK
  <2>2. QED
    BY <1>1, <2>1 DEF FlowOK
<1>4. ~IsSave(f) /\ ~OwnSave(f) /\ ~IsSave(f)' /\ ~OwnSave(f)' /\ (IsLoad(f)' => p = "load")
  BY <1>1, <1>2, Requests DEF IsSave, OwnSave, IsLoad
<1>5. \A g \in Flow \ {f} : /\ (IsSave(g)' <=> IsSave(g)) /\ (OwnSave(g)' <=> OwnSave(g))
                            /\ (IsLoad(g)' <=> IsLoad(g))
  BY <1>1 DEF IsSave, OwnSave, IsLoad
<1>6. \A g \in Flow : OwnSave(g)' <=> OwnSave(g)
  BY <1>4, <1>5
<1>7. OwnSaving' <=> OwnSaving
  BY <1>6 DEF OwnSaving
<1>8. QED
  BY <1>1, <1>2, <1>3, <1>4, <1>5, <1>6, <1>7

LEMMA OpeningOpens ==
    ASSUME NEW f \in Flow, Opening(f)
    PROVE  Opens(f, IF kind \in Lists \cup Dns THEN {} ELSE Nil)
  BY DEF Opening, OpenBlocklists, OpenDns, OpenLocalRecords, OpenSettings, OpenClients,
     OpenIntegrations, Lists, Dns

LEMMA OpeningKeeps ==
    ASSUME IInv, NEW f \in Flow, Opening(f)
    PROVE  IInv'
<1> DEFINE blank == IF kind \in Lists \cup Dns THEN {} ELSE Nil
<1>1. /\ ~open /\ open' = TRUE /\ form' = blank
      /\ UNCHANGED <<kind, loaded, status, dialog, server, history>>
      /\ Begin(f, "load", "get", Nil, TRUE)
  BY OpeningOpens DEF Opens
<1>2. /\ flow' \in [Flow -> Request] /\ FlowOK'
      /\ \A g \in Flow \ {f} : flow'[g] = flow[g]
      /\ \A g \in Flow : /\ IsSave(g)' <=> IsSave(g)
                         /\ OwnSave(g)' <=> OwnSave(g)
                         /\ IsSave(g)' => g # f
      /\ OwnSaving' <=> OwnSaving
  BY <1>1, BeginOther DEF IInv
<1>3. /\ form = Nil /\ typed = Nil /\ status = ""
      /\ ~dialog.own /\ ~OwnSaving' /\ \A g \in Flow : ~OwnSave(g)'
  BY <1>1, <1>2 DEF IInv, Closed, OwnSave, OwnSaving
<1>4. TypeOK'
  BY <1>1, <1>2, Blanks DEF IInv, TypeOK, server, history
<1>5. Closed' /\ EditsKept' /\ Blank'
  BY <1>1, <1>3 DEF Closed, EditsKept, Blank, history
<1>6. LoadsLate' /\ SavesTyped' /\ SavesBlank'
  BY <1>1, <1>3 DEF LoadsLate, SavesTyped, SavesBlank, history
<1>7. DialogRead' /\ AskedApply' /\ LeftApply'
  BY <1>1, <1>3 DEF IInv, DialogRead, AskedApply, LeftApply, history
<1>8. OneSave' /\ Reached' /\ AppliedDone' /\ Served'
  BY <1>1, <1>3 DEF OneSave, Reached, AppliedDone, Served
<1>9. QED
  BY <1>2, <1>4, <1>5, <1>6, <1>7, <1>8 DEF IInv

LEMMA DetectKeeps ==
    ASSUME IInv, NEW f \in Flow, Detect(f)
    PROVE  IInv'
<1>1. /\ open /\ dialog = NoDialog
      /\ UNCHANGED <<kind, page, dialog, server, history>>
      /\ Begin(f, "detect", "get", Nil, TRUE)
  BY DEF Detect
<1>2. /\ flow' \in [Flow -> Request] /\ FlowOK'
      /\ \A g \in Flow \ {f} : flow'[g] = flow[g]
      /\ \A g \in Flow : /\ IsSave(g)' <=> IsSave(g)
                         /\ OwnSave(g)' <=> OwnSave(g)
                         /\ IsLoad(g)' => IsLoad(g)
                         /\ IsSave(g)' => g # f
      /\ OwnSaving' <=> OwnSaving
  BY <1>1, BeginOther DEF IInv
<1>3. \A g \in Flow : OwnSave(g) => g # f
  BY <1>2 DEF OwnSave
<1>4. TypeOK'
  BY <1>1, <1>2 DEF IInv, TypeOK, page, server, history
<1>5. Closed' /\ EditsKept' /\ Blank'
  BY <1>1 DEF IInv, Closed, EditsKept, Blank, Untouched, page, history
<1>6. LoadsLate' /\ SavesTyped' /\ SavesBlank'
  BY <1>1, <1>2, <1>3 DEF IInv, LoadsLate, SavesTyped, SavesBlank, Untouched, page, history
<1>7. DialogRead' /\ AskedApply' /\ LeftApply'
  BY <1>1 DEF DialogRead, AskedApply, LeftApply, NoDialog
<1>8. OneSave' /\ Reached' /\ AppliedDone' /\ Served'
  <2>1. OneSave'
    BY <1>1, <1>2 DEF IInv, OneSave, page, history
  <2>2. Reached'
    BY <1>1, <1>2, <1>3 DEF IInv, Reached, page, server, history
  <2>3. AppliedDone' /\ Served'
    BY <1>1, <1>2 DEF IInv, AppliedDone, Served, page, server, history
  <2>4. QED
    BY <2>1, <2>2, <2>3
<1>9. QED
  BY <1>2, <1>4, <1>5, <1>6, <1>7, <1>8 DEF IInv

LEMMA ConfirmedRestartKeeps ==
    ASSUME IInv, NEW f \in Flow, ConfirmedRestart(f)
    PROVE  IInv'
<1>1. /\ dialog' = NoDialog /\ read' = "none"
      /\ UNCHANGED <<kind, open, loaded, server, form, status, edited, typed, late, crossed,
                     contested>>
      /\ Begin(f, "restart", "post", Nil, dialog.own)
  BY DEF ConfirmedRestart, Confirms
<1>2. /\ flow' \in [Flow -> Request] /\ FlowOK'
      /\ \A g \in Flow \ {f} : flow'[g] = flow[g]
      /\ \A g \in Flow : /\ IsSave(g)' <=> IsSave(g)
                         /\ OwnSave(g)' <=> OwnSave(g)
                         /\ IsLoad(g)' => IsLoad(g)
                         /\ flow'[g].own => flow[g].own \/ dialog.own
                         /\ IsSave(g)' => g # f
      /\ OwnSaving' <=> OwnSaving
  <2>1. dialog.own \in BOOLEAN
    BY DEF IInv, TypeOK
  <2>2. QED
    BY <1>1, <2>1, BeginOther DEF IInv
<1>3. \A g \in Flow : OwnSave(g) => g # f
  BY <1>2 DEF OwnSave
<1>4. TypeOK'
  BY <1>1, <1>2, Blanks DEF IInv, TypeOK, server, NoDialog, Question
<1>5. Closed' /\ EditsKept' /\ Blank'
  BY <1>1, <1>2 DEF IInv, Closed, EditsKept, Blank, Untouched, NoDialog
<1>6. LoadsLate' /\ SavesTyped' /\ SavesBlank'
  BY <1>1, <1>2, <1>3 DEF IInv, LoadsLate, SavesTyped, SavesBlank, Untouched
<1>7. DialogRead' /\ AskedApply' /\ LeftApply'
  BY <1>1 DEF DialogRead, AskedApply, LeftApply, NoDialog
<1>8. OneSave' /\ Reached' /\ AppliedDone' /\ Served'
  <2>1. OneSave'
    BY <1>1, <1>2 DEF IInv, OneSave
  <2>2. Reached'
    BY <1>1, <1>2, <1>3 DEF IInv, Reached, server
  <2>3. AppliedDone' /\ Served'
    BY <1>1, <1>2 DEF IInv, AppliedDone, Served, server
  <2>4. QED
    BY <2>1, <2>2, <2>3
<1>9. QED
  BY <1>2, <1>4, <1>5, <1>6, <1>7, <1>8 DEF IInv

-----------------------------------------------------------------------------
(* What is sent to be saved.  Without a contest nothing else is.           *)
SendsIt(f, r) ==
    /\ flow[f].step = "idle"
    /\ flow' = [flow EXCEPT ![f] = r]
    /\ contested' = (contested \/ Saves # {})

LEMMA SendFacts ==
    ASSUME TypeOK, FlowOK, NEW f \in Flow, NEW r \in Request,
           r.purpose \in {"save", "apply", "switch"}, r.step = "put", r.body \in Content,
           SendsIt(f, r)
    PROVE  /\ flow' \in [Flow -> Request] /\ FlowOK' /\ f \notin Flying
           /\ flow'[f] = r
           /\ \A g \in Flow \ {f} : /\ flow'[g] = flow[g]
                                    /\ (IsSave(g)' <=> IsSave(g))
                                    /\ (OwnSave(g)' <=> OwnSave(g))
           /\ \A g \in Flow : IsLoad(g)' => IsLoad(g) /\ g \in Flying
           /\ OwnSave(f)' <=> r.own
           /\ ~r.own => (OwnSaving' => OwnSaving)
           /\ contested' \in BOOLEAN /\ (contested => contested')
           /\ ~contested' => \A g \in Flow : IsSave(g)' => g = f
<1>1. /\ flow[f] = None /\ f \notin Flying
      /\ flow' \in [Flow -> Request]
      /\ flow'[f] = r
      /\ \A g \in Flow \ {f} : flow'[g] = flow[g]
  BY FlowFacts DEF TypeOK, SendsIt
<1>2. FlowOK'
  <2>1. RequestOK(flow'[f])
    BY <1>1 DEF RequestOK
  <2>2. QED
    BY <1>1, <2>1 DEF FlowOK
<1>3. \A g \in Flow \ {f} : /\ (IsSave(g)' <=> IsSave(g)) /\ (OwnSave(g)' <=> OwnSave(g))
                            /\ (IsLoad(g)' <=> IsLoad(g))
  BY <1>1 DEF IsSave, OwnSave, IsLoad
<1>4. (OwnSave(f)' <=> r.own) /\ ~IsLoad(f)'
  BY <1>1 DEF IsSave, OwnSave, IsLoad
<1>5. \A g \in Flow : IsLoad(g) => g \in Flying
  BY FlowFacts
<1>6. ~r.own => (OwnSaving' => OwnSaving)
  BY <1>3, <1>4 DEF OwnSaving
<1>7. /\ contested' \in BOOLEAN /\ (contested => contested')
      /\ ~contested' => \A g \in Flow : IsSave(g)' => g = f
  <2>1. contested' = (contested \/ Saves # {})
    BY DEF SendsIt
  <2>2. Saves = {} => \A g \in Flow : ~IsSave(g)
    BY FlowFacts
  <2>3. QED
    BY <1>3, <2>1, <2>2 DEF TypeOK
<1>8. QED
  BY <1>1, <1>2, <1>3, <1>4, <1>5, <1>6, <1>7

OwnSends(f, p, c) == Sends(f, p, c, TRUE)

LEMMA OwnSendFacts ==
    ASSUME TypeOK, FlowOK, NEW f \in Flow, NEW p \in {"save", "apply", "switch"},
           NEW c \in Content, OwnSends(f, p, c)
    PROVE  /\ flow' \in [Flow -> Request] /\ FlowOK' /\ f \notin Flying
           /\ flow'[f].step = "put" /\ flow'[f].body = c /\ flow'[f].own
           /\ \A g \in Flow \ {f} : /\ flow'[g] = flow[g]
                                    /\ (IsSave(g)' <=> IsSave(g))
                                    /\ (OwnSave(g)' <=> OwnSave(g))
           /\ \A g \in Flow : IsLoad(g)' => IsLoad(g) /\ g \in Flying
           /\ OwnSave(f)'
           /\ contested' \in BOOLEAN /\ (contested => contested')
           /\ ~contested' => \A g \in Flow : IsSave(g)' => g = f
<1> DEFINE r == [purpose |-> p, step |-> "put", body |-> c, own |-> TRUE]
<1>1. /\ r \in Request /\ r.purpose = p /\ r.step = "put" /\ r.body = c /\ r.own
  BY DEF Request, Purpose, Step
<1>2. SendsIt(f, r)
  BY DEF OwnSends, Sends, Begin, SendsIt
<1> HIDE DEF r
<1>3. QED
  BY <1>1, <1>2, SendFacts

(* The page no longer says anything about an earlier save.                 *)
Unsaid == status' = "" \/ (status' = status /\ kind = "clients")

LEMMA UnsaidType ==
    ASSUME TypeOK, Unsaid
    PROVE  /\ status' \in {"", "Saved", "Applied", "Error"}
           /\ status' = "Applied" => kind = "clients"
  BY DEF TypeOK, Unsaid

(* A save of this page, with the form as it then is.                       *)
LEMMA OwnSendKeeps ==
    ASSUME IInv, NEW f \in Flow, NEW p \in {"save", "apply", "switch"}, open,
           NEW c \in Content, form' = c, OwnSends(f, p, c),
           UNCHANGED <<kind, open, loaded, server>>,
           typed' \in Content \cup {Nil},
           Unsaid, dialog' = NoDialog, read' \in Question, edited' = FALSE, crossed' \in BOOLEAN,
           late' \in SUBSET Flow,
           \A g \in Flow \cap Flying : g \in late',
           typed' # Nil => form' = typed',
           \/ /\ form' = form /\ typed' = typed /\ crossed' = crossed /\ late \subseteq late'
              /\ Valid(form)
           \/ typed' # Nil /\ \A g \in Flow \ {f} : g \notin late' => g \notin Flying
    PROVE  IInv'
<1>1. /\ flow' \in [Flow -> Request] /\ FlowOK' /\ f \notin Flying
      /\ flow'[f].step = "put" /\ flow'[f].body = form' /\ flow'[f].own
      /\ \A g \in Flow \ {f} : /\ flow'[g] = flow[g]
                               /\ (IsSave(g)' <=> IsSave(g))
                               /\ (OwnSave(g)' <=> OwnSave(g))
      /\ \A g \in Flow : IsLoad(g)' => IsLoad(g) /\ g \in Flying
      /\ OwnSave(f)'
      /\ contested' \in BOOLEAN /\ (contested => contested')
      /\ ~contested' => \A g \in Flow : IsSave(g)' => g = f
  BY OwnSendFacts DEF IInv
<1>a. form' \in Content /\ form' # Nil
  BY Blanks
<1>2. OwnSaving' /\ \A g \in Flow : OwnSave(g) => g \in Flying
  <2>1. \A g \in Flow : OwnSave(g) => g \in Flying
    BY FlowFacts DEF IInv, OwnSave
  <2>2. QED
    BY <1>1, <2>1 DEF OwnSaving
<1>3. TypeOK'
  <2>1. dialog' \in [what : Question, body : Content \cup {Nil}, own : BOOLEAN]
    BY Blanks DEF NoDialog, Question
  <2>2. QED
    BY <1>1, <1>a, <2>1, UnsaidType DEF IInv, TypeOK, server
<1>4. Closed' /\ EditsKept' /\ DialogRead' /\ AskedApply' /\ LeftApply'
  BY DEF Closed, EditsKept, DialogRead, AskedApply, LeftApply, NoDialog
<1>5. LoadsLate'
  BY <1>1 DEF LoadsLate
<1>6. SavesTyped'
  <2>1. SUFFICES ASSUME NEW g \in Flow, OwnSave(g)', flow'[g].step \in {"put", "stored"},
                        g \notin late', typed' # Nil
                 PROVE  flow'[g].body = typed'
    BY DEF SavesTyped
  <2>2. CASE g = f
    BY <1>1, <2>1, <2>2
  <2>3. CASE g # f
    BY <1>1, <1>2, <2>1, <2>3
  <2>4. QED
    BY <2>2, <2>3
<1>7. Blank'
  <2>1. CASE typed' # Nil
    BY <2>1 DEF Blank, Untouched
  <2>2. CASE /\ form' = form /\ typed' = typed /\ crossed' = crossed
    BY <2>2 DEF IInv, Blank, Untouched
  <2>3. QED
    BY <2>1, <2>2
<1>8. SavesBlank'
  <2>1. SUFFICES ASSUME NEW g \in Flow, OwnSave(g)', flow'[g].step \in {"put", "stored"},
                        Untouched'
                 PROVE  kind \in Dns /\ flow'[g].body = {}
    BY DEF SavesBlank
  <2>a. typed' = Nil /\ loaded' = loaded
    BY <2>1 DEF Untouched
  <2>b. form' = form /\ typed' = typed /\ crossed' = crossed /\ Valid(form)
    BY <2>a
  <2>2. Untouched /\ form' = form /\ Valid(form)
    BY <2>1, <2>a, <2>b DEF Untouched
  <2>3. CASE g = f
    <3>1. form = IF kind \in Lists \cup Dns THEN {} ELSE Nil
      BY <2>2 DEF IInv, Blank
    <3>2. kind \in Lists \cup Dns /\ form = {}
      BY <1>a, <2>2, <3>1
    <3>3. kind \notin Lists
      BY <2>2, <3>2 DEF Valid
    <3>4. QED
      BY <1>1, <2>2, <2>3, <3>2, <3>3
  <2>4. CASE g # f
    BY <1>1, <2>1, <2>2, <2>4 DEF IInv, SavesBlank
  <2>5. QED
    BY <2>3, <2>4
<1>9. OneSave'
  BY <1>1 DEF OneSave, OwnSave
<1>10. Reached'
  BY <1>1 DEF Reached, OwnSave
<1>11. AppliedDone' /\ Served'
  BY <1>2, UnsaidType DEF IInv, AppliedDone, Served
<1>12. QED
  BY <1>1, <1>3, <1>4, <1>5, <1>6, <1>7, <1>8, <1>9, <1>10, <1>11 DEF IInv

LEMMA StoringSaves ==
    ASSUME NEW f \in Flow, Storing(f)
    PROVE  \E p \in {"save", "apply", "switch"} : SaveForm(f, p)
  BY DEF Storing, SaveBlocklists, SaveUpstreams, SaveLocalRecords, SaveResponse,
     SaveSafeSearch, SaveSystemConfig, SaveClients, SaveWebhooks

LEMMA StoringKeeps ==
    ASSUME IInv, NEW f \in Flow, Storing(f)
    PROVE  IInv'
<1>1. PICK p \in {"save", "apply", "switch"} : SaveForm(f, p)
  BY StoringSaves
<1>2. /\ open /\ form # Nil /\ dialog = NoDialog /\ Valid(form)
      /\ OwnSends(f, p, form) /\ Unsaid /\ edited' = FALSE
      /\ late' = late \cup Flying
      /\ UNCHANGED <<kind, open, form, loaded, dialog, server, typed, crossed, read>>
  BY <1>1 DEF SaveForm, Enabled, Shown, OwnSends, Unsaid
<1>3. /\ form \in Content /\ form' = form /\ typed' = typed /\ crossed' = crossed
      /\ typed' \in Content \cup {Nil} /\ crossed' \in BOOLEAN /\ read' \in Question
      /\ dialog' = NoDialog
      /\ typed' # Nil => form' = typed'
  BY <1>2 DEF IInv, TypeOK, EditsKept
<1>4. late' \in SUBSET Flow /\ late \subseteq late' /\ \A g \in Flow \cap Flying : g \in late'
  BY <1>2 DEF IInv, TypeOK, Flying
<1>5. QED
  BY <1>2, <1>3, <1>4, OwnSendKeeps

-----------------------------------------------------------------------------
(* Something is typed, or proposed values are taken: the form is edited,   *)
(* and no request is sent.                                                 *)
Typing(c) ==
    /\ open /\ Types(c)
    /\ dialog' = NoDialog
    /\ edited' = TRUE
    /\ UNCHANGED <<kind, open, loaded, flow, server, contested>>

LEMMA TypingKeeps ==
    ASSUME IInv, NEW c \in Content, Typing(c), read' \in Question,
           status' = status \/ Unsaid
    PROVE  IInv'
<1>1. /\ open /\ form' = c /\ typed' = c /\ late' = Flying /\ crossed' = FALSE
      /\ edited' = TRUE /\ dialog' = NoDialog /\ c # Nil
      /\ UNCHANGED <<kind, open, loaded, flow, server, contested>>
  BY Blanks DEF Typing, Types
<1>2. status' = status \/ Unsaid
  OBVIOUS
<1>3. status' \in {"", "Saved", "Applied", "Error"}
  BY <1>2, UnsaidType DEF IInv, TypeOK
<1>4. TypeOK'
  BY <1>1, <1>3, Blanks DEF IInv, TypeOK, server, NoDialog, Question, Flying
<1>5. \A g \in Flow : IsLoad(g) \/ OwnSave(g) => g \in Flying
  BY FlowFacts DEF IInv, OwnSave
<1>6. (OwnSaving' <=> OwnSaving) /\ \A g \in Flow : (IsLoad(g)' <=> IsLoad(g))
                                                  /\ (IsSave(g)' <=> IsSave(g))
                                                  /\ (OwnSave(g)' <=> OwnSave(g))
  BY <1>1 DEF OwnSaving, OwnSave, IsSave, IsLoad
<1>7. FlowOK' /\ Closed' /\ EditsKept' /\ Blank' /\ SavesBlank'
  BY <1>1 DEF IInv, FlowOK, Closed, EditsKept, Blank, SavesBlank, Untouched
<1>8. LoadsLate' /\ SavesTyped'
  BY <1>1, <1>5, <1>6 DEF LoadsLate, SavesTyped
<1>9. DialogRead' /\ AskedApply' /\ LeftApply'
  BY <1>1 DEF DialogRead, AskedApply, LeftApply, NoDialog
<1>10. OneSave' /\ AppliedDone'
  <2>1. CASE status' = status
    BY <1>1, <1>6, <2>1 DEF IInv, OneSave, AppliedDone
  <2>2. CASE Unsaid
    BY <1>1, <1>6, <2>2 DEF IInv, OneSave, AppliedDone, Unsaid
  <2>3. QED
    BY <1>2, <2>1, <2>2
<1>11. Reached' /\ Served'
  BY <1>1, <1>6 DEF IInv, Reached, Served, server
<1>12. QED
  BY <1>4, <1>7, <1>8, <1>9, <1>10, <1>11 DEF IInv

LEMMA EditingKeeps ==
    ASSUME IInv, NEW c \in Content, Editing(c)
    PROVE  IInv'
<1>1. Edit(c)
  BY DEF Editing, EditBlocklists, EditUpstreams, EditLocalRecords, EditResponse, EditSettings,
     EditClients, EditWebhooks
<1>2. Typing(c) /\ UNCHANGED <<status, read>>
  BY <1>1 DEF Edit, Shown, Typing
<1>3. read' \in Question
  BY <1>2 DEF IInv, TypeOK
<1>4. QED
  BY <1>2, <1>3, TypingKeeps

(* A switch sends what is typed when it is valid, or is only typed.        *)
LEMMA SwitchedKeeps ==
    ASSUME IInv, NEW f \in Flow, NEW c \in Content, open, dialog = NoDialog, Unsaid,
           Switched(f, c, c)
    PROVE  IInv'
<1>1. /\ Types(c) /\ dialog' = NoDialog /\ UNCHANGED <<kind, open, loaded, server, read>>
      /\ form' = c /\ typed' = c /\ late' = Flying /\ crossed' = FALSE /\ c # Nil
  BY Blanks DEF Switched, Types
<1>2. read' \in Question
  BY <1>1 DEF IInv, TypeOK
<1>3. CASE OwnSends(f, "switch", c) /\ edited' = FALSE
  <2>1. late' \in SUBSET Flow /\ \A g \in Flow : g \notin late' => g \notin Flying
    BY <1>1 DEF Flying
  <2>2. crossed' \in BOOLEAN /\ typed' \in Content \cup {Nil} /\ typed' # Nil
    BY <1>1
  <2>3. "switch" \in {"save", "apply", "switch"}
    OBVIOUS
  <2>4. QED
    BY <1>1, <1>2, <1>3, <2>1, <2>2, <2>3, OwnSendKeeps
<1>4. CASE edited' = TRUE /\ UNCHANGED <<flow, contested>>
  <2>1. Typing(c)
    BY <1>1, <1>4 DEF Typing
  <2>2. QED
    BY <1>2, <2>1, TypingKeeps
<1>5. QED
  BY <1>3, <1>4 DEF Switched, OwnSends

LEMMA SwitchKeeps ==
    ASSUME IInv, NEW f \in Flow, NEW c \in Content, SwitchList(f, c) \/ SwitchGroup(f, c)
    PROVE  IInv'
<1>1. open /\ dialog = NoDialog /\ Unsaid /\ Switched(f, c, c)
  BY DEF SwitchList, SwitchGroup, Enabled, Shown, Unsaid
<1>2. QED
  BY <1>1, SwitchedKeeps

-----------------------------------------------------------------------------
(* Others, and leaving.  What another administrator saves contests what    *)
(* this page says; a save that this page has left behind contests nothing  *)
(* as long as it is the only one.                                          *)
LEMMA OthersSaveKeeps ==
    ASSUME IInv, NEW c \in Content, OthersSave(c)
    PROVE  IInv'
<1>1. /\ store' = c /\ contested' = (contested \/ open)
      /\ UNCHANGED <<kind, page, dialog, flow, running, edited, typed, late, crossed, read>>
  BY DEF OthersSave
<1>2. contested' \in BOOLEAN /\ (open => contested') /\ (contested => contested')
  BY <1>1 DEF IInv, TypeOK
<1>3. (OwnSaving' <=> OwnSaving) /\ \A g \in Flow : (IsLoad(g)' <=> IsLoad(g))
                                                  /\ (IsSave(g)' <=> IsSave(g))
                                                  /\ (OwnSave(g)' <=> OwnSave(g))
  BY <1>1 DEF OwnSaving, OwnSave, IsSave, IsLoad
<1>4. TypeOK'
  BY <1>1, <1>2 DEF IInv, TypeOK, page
<1>5. FlowOK' /\ Closed' /\ EditsKept' /\ Blank'
  BY <1>1 DEF IInv, FlowOK, Closed, EditsKept, Blank, Untouched, page
<1>6. LoadsLate' /\ SavesTyped' /\ SavesBlank'
  BY <1>1, <1>3 DEF IInv, LoadsLate, SavesTyped, SavesBlank, Untouched, page
<1>7. DialogRead' /\ AskedApply' /\ LeftApply'
  BY <1>1, <1>3 DEF IInv, DialogRead, AskedApply, LeftApply, Valid, page
<1>8. ~open => \A g \in Flow : ~OwnSave(g)
  BY DEF IInv, Closed, OwnSave
<1>9. OneSave' /\ AppliedDone'
  BY <1>1, <1>2, <1>3 DEF IInv, OneSave, AppliedDone, page
<1>10. Reached' /\ Served'
  BY <1>1, <1>2, <1>3, <1>8 DEF Reached, Served, page
<1>11. QED
  BY <1>4, <1>5, <1>6, <1>7, <1>9, <1>10 DEF IInv

LEMMA LeavePageKeeps ==
    ASSUME IInv, LeavePage
    PROVE  IInv'
<1>1. /\ open' = FALSE /\ form' = Nil /\ loaded' = FALSE
      /\ edited' = FALSE /\ typed' = Nil /\ late' = {} /\ crossed' = FALSE
      /\ contested' = FALSE
      /\ UNCHANGED <<kind, server, read>>
  BY DEF LeavePage
<1>2. status' = ""
  BY DEF LeavePage
<1>3. ASSUME NEW g \in Flow
      PROVE  /\ flow'[g] \in Request /\ ~flow'[g].own
             /\ RequestOK(flow'[g]) /\ ~IsLoad(g)' /\ (IsSave(g)' => IsSave(g))
  <2>1. flow[g] \in Request /\ RequestOK(flow[g])
    BY DEF IInv, TypeOK, FlowOK
  <2>2. CASE flow[g].purpose = "load"
    <3>1. flow'[g] = None
      BY <2>2 DEF LeavePage
    <3>2. QED
      BY <3>1, Requests DEF RequestOK, IsLoad, IsSave
  <2>3. CASE flow[g].purpose # "load"
    <3>1. flow'[g] = [flow[g] EXCEPT !.own = FALSE]
      BY <2>3 DEF LeavePage
    <3>2. /\ flow'[g].purpose = flow[g].purpose /\ flow'[g].step = flow[g].step
          /\ flow'[g].body = flow[g].body /\ flow'[g].own = FALSE
          /\ flow'[g] \in Request
      BY <2>1, <3>1 DEF Request
    <3>3. flow[g].step = "idle" => flow'[g] = None
      <4>1. SUFFICES ASSUME flow[g].step = "idle"
                     PROVE  flow'[g] = None
        OBVIOUS
      <4>2. flow[g] = None
        BY <2>1, <4>1 DEF RequestOK
      <4>3. flow'[g] = [purpose |-> flow'[g].purpose, step |-> flow'[g].step,
                        body |-> flow'[g].body, own |-> flow'[g].own]
        BY <3>2 DEF Request
      <4>4. /\ flow'[g].purpose = "none" /\ flow'[g].step = "idle"
            /\ flow'[g].body = Nil /\ flow'[g].own = FALSE
        BY <3>2, <4>2 DEF None
      <4>5. QED
        BY <4>3, <4>4 DEF None
    <3>4. RequestOK(flow'[g])
      BY <2>1, <2>3, <3>2, <3>3 DEF RequestOK
    <3>5. QED
      BY <2>3, <3>2, <3>4 DEF IsLoad, IsSave
  <2>4. QED
    BY <2>2, <2>3
<1>4. flow' \in [Flow -> Request]
  <2>1. flow' = [g \in Flow |-> flow'[g]]
    BY DEF LeavePage
  <2>2. QED
    BY <1>3, <2>1
<1>5. /\ FlowOK' /\ ~OwnSaving'
      /\ \A g \in Flow : ~OwnSave(g)'
  BY <1>3 DEF FlowOK, OwnSaving, OwnSave
<1>6. /\ dialog' \in [what : Question, body : Content \cup {Nil}, own : BOOLEAN]
      /\ dialog'.what = dialog.what /\ ~dialog'.own
      /\ dialog.what = "apply" => dialog'.body = dialog.body
  <2>1. dialog \in [what : Question, body : Content \cup {Nil}, own : BOOLEAN]
    BY DEF IInv, TypeOK
  <2>2. dialog' = [dialog EXCEPT !.own = FALSE,
                                 !.body = IF dialog.what = "apply" THEN dialog.body ELSE Nil]
    BY DEF LeavePage
  <2>3. QED
    BY <2>1, <2>2
<1>7. TypeOK'
  BY <1>1, <1>2, <1>4, <1>6 DEF IInv, TypeOK, server
<1>8. Closed' /\ EditsKept' /\ Blank'
  BY <1>1, <1>2, <1>3, <1>6 DEF Closed, EditsKept, Blank
<1>9. LoadsLate' /\ SavesTyped' /\ SavesBlank'
  BY <1>1, <1>2, <1>3, <1>5 DEF LoadsLate, SavesTyped, SavesBlank
<1>10. DialogRead' /\ AskedApply' /\ LeftApply'
  BY <1>1, <1>2, <1>5, <1>6 DEF IInv, DialogRead, AskedApply, LeftApply
<1>11. OneSave' /\ Reached' /\ AppliedDone' /\ Served'
  BY <1>1, <1>2, <1>5 DEF OneSave, Reached, AppliedDone, Served
<1>12. QED
  BY <1>5, <1>7, <1>8, <1>9, <1>10, <1>11 DEF IInv

-----------------------------------------------------------------------------
(* Dialogs.  A step that changes only the dialog and what is read keeps    *)
(* the rest.                                                               *)
LEMMA OnlyDialogKeeps ==
    ASSUME IInv, UNCHANGED <<kind, page, flow, server, edited, typed, late, crossed, contested>>,
           dialog' \in [what : Question, body : Content \cup {Nil}, own : BOOLEAN],
           read' \in Question, dialog'.own => open \/ dialog.own,
           DialogRead', AskedApply', LeftApply'
    PROVE  IInv'
<1>1. (OwnSaving' <=> OwnSaving) /\ \A g \in Flow : (IsLoad(g)' <=> IsLoad(g))
                                                  /\ (IsSave(g)' <=> IsSave(g))
                                                  /\ (OwnSave(g)' <=> OwnSave(g))
  BY DEF OwnSaving, OwnSave, IsSave, IsLoad
<1>2. TypeOK'
  BY DEF IInv, TypeOK, page, server
<1>3. FlowOK' /\ Closed' /\ EditsKept' /\ Blank'
  BY DEF IInv, FlowOK, Closed, EditsKept, Blank, Untouched, page
<1>4. LoadsLate' /\ SavesTyped' /\ SavesBlank'
  BY <1>1 DEF IInv, LoadsLate, SavesTyped, SavesBlank, Untouched, page
<1>5. OneSave' /\ AppliedDone'
  BY <1>1 DEF IInv, OneSave, AppliedDone, page
<1>6. Reached' /\ Served'
  BY <1>1 DEF IInv, Reached, Served, page, server
<1>7. QED
  BY <1>2, <1>3, <1>4, <1>5, <1>6 DEF IInv

LEMMA NoDialogKeeps ==
    ASSUME IInv, UNCHANGED <<kind, page, flow, server, edited, typed, late, crossed, contested>>,
           dialog' = NoDialog, read' \in Question
    PROVE  IInv'
<1>1. /\ dialog' \in [what : Question, body : Content \cup {Nil}, own : BOOLEAN]
      /\ ~dialog'.own
  BY DEF NoDialog, Question
<1>2. DialogRead' /\ AskedApply' /\ LeftApply'
  BY DEF DialogRead, AskedApply, LeftApply, NoDialog
<1>3. QED
  BY <1>1, <1>2, OnlyDialogKeeps

LEMMA CancelKeeps ==
    ASSUME IInv, Cancel \/ ConfirmedClear
    PROVE  IInv'
<1>1. /\ UNCHANGED <<kind, page, flow, server, edited, typed, late, crossed, contested>>
      /\ dialog' = NoDialog /\ read' = "none"
  BY DEF Cancel, ConfirmedClear, Confirms, page
<1>2. read' \in Question
  BY <1>1 DEF Question
<1>3. QED
  BY <1>1, <1>2, NoDialogKeeps

LEMMA ReadsKeeps ==
    ASSUME IInv, Reads
    PROVE  IInv'
<1>1. /\ UNCHANGED <<kind, page, flow, server, edited, typed, late, crossed, contested>>
      /\ dialog' = dialog /\ read' = dialog.what
  BY DEF Reads
<1>2. /\ dialog' \in [what : Question, body : Content \cup {Nil}, own : BOOLEAN]
      /\ read' \in Question
  BY <1>1 DEF IInv, TypeOK
<1>3. (OwnSaving' <=> OwnSaving) /\ \A g \in Flow : IsLoad(g)' <=> IsLoad(g)
  BY <1>1 DEF OwnSaving, OwnSave, IsSave, IsLoad
<1>4. DialogRead' /\ AskedApply' /\ LeftApply'
  BY <1>1, <1>3 DEF IInv, DialogRead, AskedApply, LeftApply, Valid, page
<1>5. QED
  BY <1>1, <1>2, <1>4, OnlyDialogKeeps

LEMMA AskKeeps ==
    ASSUME IInv, NEW w \in {"clear", "restart"}, open, Ask(w, Nil)
    PROVE  IInv'
<1>1. /\ UNCHANGED <<kind, page, flow, server, edited, typed, late, crossed, contested>>
      /\ dialog'.what = w /\ read' = w
      /\ dialog' \in [what : Question, body : Content \cup {Nil}, own : BOOLEAN]
      /\ read' \in Question
  BY DEF Ask, Question
<1>2. DialogRead' /\ AskedApply' /\ LeftApply'
  BY <1>1 DEF DialogRead, AskedApply, LeftApply
<1>3. QED
  BY <1>1, <1>2, OnlyDialogKeeps

(* The question whether to apply is asked when nothing is loading or being *)
(* saved, and with a form that is valid.                                   *)
LEMMA ConfirmApplyKeeps ==
    ASSUME IInv, ConfirmApply
    PROVE  IInv'
<1>1. /\ UNCHANGED <<kind, page, flow, server, edited, typed, late, crossed, contested>>
      /\ dialog' = [what |-> "apply", body |-> form, own |-> TRUE] /\ read' = "apply"
      /\ kind \in Lists \cup Dns /\ Enabled /\ Valid(form)
  BY DEF ConfirmApply, Ask
<1>2. open /\ form # Nil /\ ~OwnSaving /\ \A g \in Flow : ~IsLoad(g)
  BY <1>1, FlowFacts DEF IInv, Enabled, Shown, Lists, Dns
<1>3. /\ dialog' \in [what : Question, body : Content \cup {Nil}, own : BOOLEAN]
      /\ dialog'.what = "apply" /\ dialog'.body = form /\ dialog'.own
      /\ read' \in Question
  BY <1>1 DEF IInv, TypeOK, Question
<1>4. form' = form /\ kind' = kind /\ flow' = flow
  BY <1>1 DEF page
<1>5. ~OwnSaving' /\ \A g \in Flow : ~IsLoad(g)'
  BY <1>2, <1>4 DEF OwnSaving, OwnSave, IsSave, IsLoad
<1>6. DialogRead' /\ LeftApply'
  BY <1>1, <1>2, <1>3 DEF DialogRead, LeftApply
<1>7. AskedApply'
  BY <1>1, <1>2, <1>3, <1>4, <1>5 DEF AskedApply, Valid
<1>8. QED
  BY <1>1, <1>2, <1>3, <1>6, <1>7, OnlyDialogKeeps

LEMMA ConfirmedDetectKeeps ==
    ASSUME IInv, ConfirmedDetect
    PROVE  IInv'
<1>1. /\ dialog' = NoDialog /\ read' = "none"
      /\ UNCHANGED <<kind, open, loaded, server, status, flow, contested>>
  BY DEF ConfirmedDetect, Confirms
<1>2. read' \in Question
  BY <1>1 DEF Question
<1>3. CASE UNCHANGED <<form, edited, typed, late, crossed>>
  <2>1. UNCHANGED <<kind, page, flow, server, edited, typed, late, crossed, contested>>
    BY <1>1, <1>3 DEF page
  <2>2. QED
    BY <1>1, <1>2, <2>1, NoDialogKeeps
<1>4. CASE dialog.own /\ (\E c \in Content : Types(c)) /\ edited' = TRUE
  <2>1. PICK c \in Content : Types(c)
    BY <1>4
  <2>2. open
    BY <1>4 DEF IInv, Closed
  <2>3. Typing(c) /\ status' = status
    BY <1>1, <1>4, <2>1, <2>2 DEF Typing
  <2>4. QED
    BY <1>2, <2>3, TypingKeeps
<1>5. QED
  BY <1>3, <1>4 DEF ConfirmedDetect

(* "Apply" is answered.  The dialog that this page asked sends what the    *)
(* form still is; the one that a page left behind sends what that page     *)
(* had, while this one says nothing and saves nothing.                     *)
LEMMA OwnApplyKeeps ==
    ASSUME IInv, NEW f \in Flow, ConfirmedApply(f), dialog.own
    PROVE  IInv'
<1>1. /\ dialog.what = "apply" /\ dialog' = NoDialog /\ read' = "none"
      /\ Sends(f, "apply", dialog.body, dialog.own)
      /\ edited' = (edited /\ ~dialog.own) /\ late' = late \cup Flying
      /\ UNCHANGED <<kind, open, form, loaded, server, typed, crossed>>
  BY DEF ConfirmedApply, Confirms
<1>2. Unsaid
  BY DEF ConfirmedApply, Unsaid
<1>3. open /\ form # Nil /\ form \in Content /\ Valid(form) /\ dialog.body = form
  BY <1>1 DEF IInv, TypeOK, Closed, AskedApply
<1>4. dialog.own = TRUE
  BY DEF IInv, TypeOK
<1>5. OwnSends(f, "apply", form) /\ edited' = FALSE
  BY <1>1, <1>3, <1>4 DEF OwnSends
<1>6. /\ form' = form /\ typed' = typed /\ crossed' = crossed
      /\ typed' \in Content \cup {Nil} /\ crossed' \in BOOLEAN /\ read' \in Question
      /\ typed' # Nil => form' = typed'
  BY <1>1, <1>3 DEF IInv, TypeOK, EditsKept, Question
<1>7. late' \in SUBSET Flow /\ late \subseteq late' /\ \A g \in Flow \cap Flying : g \in late'
  BY <1>1 DEF IInv, TypeOK, Flying
<1>8. "apply" \in {"save", "apply", "switch"}
  OBVIOUS
<1>9. UNCHANGED <<kind, open, loaded, server>> /\ dialog' = NoDialog
  BY <1>1
<1>10. QED
  BY <1>2, <1>3, <1>5, <1>6, <1>7, <1>8, <1>9, OwnSendKeeps

LEMMA LeftApplyKeeps ==
    ASSUME IInv, NEW f \in Flow, ConfirmedApply(f), ~dialog.own
    PROVE  IInv'
<1> DEFINE r == [purpose |-> "apply", step |-> "put", body |-> dialog.body, own |-> dialog.own]
<1>1. /\ dialog.what = "apply" /\ dialog' = NoDialog /\ read' = "none"
      /\ Sends(f, "apply", dialog.body, dialog.own)
      /\ edited' = (edited /\ ~dialog.own) /\ late' = late \cup Flying
      /\ UNCHANGED <<kind, open, form, loaded, server, status, typed, crossed>>
  BY DEF ConfirmedApply, Confirms
<1>2. dialog.own \in BOOLEAN /\ dialog.body \in Content /\ edited' = edited
  BY <1>1 DEF IInv, TypeOK, LeftApply
<1>3. /\ r \in Request /\ r.purpose = "apply" /\ r.step = "put" /\ r.body \in Content
      /\ ~r.own
  BY <1>2 DEF Request, Purpose, Step
<1>4. SendsIt(f, r)
  BY <1>1 DEF Sends, Begin, SendsIt
<1> HIDE DEF r
<1>5. /\ flow' \in [Flow -> Request] /\ FlowOK' /\ f \notin Flying
      /\ flow'[f] = r
      /\ \A g \in Flow \ {f} : /\ flow'[g] = flow[g]
                               /\ (IsSave(g)' <=> IsSave(g))
                               /\ (OwnSave(g)' <=> OwnSave(g))
      /\ \A g \in Flow : IsLoad(g)' => IsLoad(g) /\ g \in Flying
      /\ OwnSaving' => OwnSaving
      /\ contested' \in BOOLEAN /\ (contested => contested')
      /\ ~contested' => \A g \in Flow : IsSave(g)' => g = f
  BY <1>3, <1>4, SendFacts DEF IInv
<1>6. status = "" /\ ~OwnSaving
  BY <1>1 DEF IInv, LeftApply
<1>7. ~OwnSaving' /\ \A g \in Flow : ~OwnSave(g)'
  BY <1>5, <1>6 DEF OwnSaving
<1>8. TypeOK'
  <2>1. dialog' \in [what : Question, body : Content \cup {Nil}, own : BOOLEAN]
    BY <1>1, Blanks DEF NoDialog, Question
  <2>2. late' \in SUBSET Flow /\ read' \in Question
    BY <1>1 DEF IInv, TypeOK, Flying, Question
  <2>3. QED
    BY <1>1, <1>2, <1>5, <2>1, <2>2 DEF IInv, TypeOK, server
<1>9. Closed'
  <2>1. \A g \in Flow : flow'[g].own => flow[g].own
    BY <1>3, <1>5
  <2>2. QED
    BY <1>1, <1>2, <2>1 DEF IInv, Closed, NoDialog
<1>10. EditsKept' /\ Blank'
  BY <1>1 DEF IInv, EditsKept, Blank, Untouched
<1>11. LoadsLate' /\ SavesTyped' /\ SavesBlank'
  BY <1>1, <1>5, <1>7 DEF LoadsLate, SavesTyped, SavesBlank
<1>12. DialogRead' /\ AskedApply' /\ LeftApply'
  BY <1>1 DEF DialogRead, AskedApply, LeftApply, NoDialog
<1>13. OneSave' /\ Reached' /\ AppliedDone' /\ Served'
  BY <1>1, <1>6, <1>7 DEF OneSave, Reached, AppliedDone, Served
<1>14. QED
  BY <1>5, <1>8, <1>9, <1>10, <1>11, <1>12, <1>13 DEF IInv

-----------------------------------------------------------------------------
LEMMA StutterKeeps ==
    ASSUME IInv, UNCHANGED vars
    PROVE  IInv'
<1>1. /\ UNCHANGED <<kind, page, flow, server, edited, typed, late, crossed, contested>>
      /\ UNCHANGED <<dialog, read>>
  BY DEF vars, history
<1>2. /\ dialog' \in [what : Question, body : Content \cup {Nil}, own : BOOLEAN]
      /\ read' \in Question
  BY <1>1 DEF IInv, TypeOK
<1>3. (OwnSaving' <=> OwnSaving) /\ \A g \in Flow : IsLoad(g)' <=> IsLoad(g)
  BY <1>1 DEF OwnSaving, OwnSave, IsSave, IsLoad
<1>4. DialogRead' /\ AskedApply' /\ LeftApply'
  BY <1>1, <1>3 DEF IInv, DialogRead, AskedApply, LeftApply, Valid, page
<1>5. QED
  BY <1>1, <1>2, <1>4, OnlyDialogKeeps

LEMMA InvStep == IInv /\ [Next]_vars => IInv'
<1> SUFFICES ASSUME IInv, [Next]_vars
             PROVE  IInv'
  OBVIOUS
<1>1. ASSUME NEW f \in Flow, Opening(f) \/ Storing(f)
      PROVE  IInv'
  BY <1>1, OpeningKeeps, StoringKeeps
<1>2. ASSUME NEW c \in Content, Editing(c) \/ OthersSave(c)
      PROVE  IInv'
  BY <1>2, EditingKeeps, OthersSaveKeeps
<1>3. ASSUME NEW f \in Flow, NEW c \in Content, SwitchList(f, c) \/ SwitchGroup(f, c)
      PROVE  IInv'
  BY <1>3, SwitchKeeps
<1>4. ASSUME NEW f \in Flow, ServeGet(f) \/ ServePut(f) \/ ServeApply(f) \/ ServeRestart(f)
      PROVE  IInv'
  BY <1>4, ServeGetKeeps, ServePutKeeps, ServeApplyKeeps, ServeRestartKeeps
<1>5. ASSUME NEW f \in Flow, \/ LoadLands(f) \/ LoadFails(f) \/ ThenApply(f) \/ ThenDone(f)
                             \/ SaveFails(f) \/ ApplyLands(f)
      PROVE  IInv'
  BY <1>5, LoadLandsKeeps, LoadFailsKeeps, ThenApplyKeeps, ThenDoneKeeps, SaveFailsKeeps,
     ApplyLandsKeeps
<1>6. ASSUME ConfirmApply \/ ClearData \/ ConfirmRestart \/ Reads \/ Cancel \/ LeavePage
      PROVE  IInv'
  <2>1. CASE ClearData \/ ConfirmRestart
    BY <2>1, AskKeeps DEF ClearData, ConfirmRestart
  <2>2. QED
    BY <1>6, <2>1, ConfirmApplyKeeps, ReadsKeeps, CancelKeeps, LeavePageKeeps
<1>7. ASSUME ConfirmedClear \/ ConfirmedDetect
      PROVE  IInv'
  BY <1>7, CancelKeeps, ConfirmedDetectKeeps
<1>8. ASSUME NEW f \in Flow, Detect(f) \/ DetectLands(f) \/ ConfirmedApply(f)
                             \/ ConfirmedRestart(f)
      PROVE  IInv'
  BY <1>8, DetectKeeps, DetectLandsKeeps, OwnApplyKeeps, LeftApplyKeeps, ConfirmedRestartKeeps
<1>9. QED
  BY <1>1, <1>2, <1>3, <1>4, <1>5, <1>6, <1>7, <1>8, StutterKeeps DEF Next

LEMMA Invariance == Spec => []IInv
  BY InitInv, InvStep, PTL DEF Spec

-----------------------------------------------------------------------------
(* A save of this page begins when Save is pressed, something is switched, *)
(* or the question whether to apply is answered.                           *)
Begun(f) == flow[f].step = "idle" /\ flow'[f].step = "put" /\ flow'[f].own

LEMMA QuietSteps ==
    ASSUME IInv, NEW f \in Flow, NEW g \in Flow, flow[f].step = "idle",
           \/ Opening(g) \/ Detect(g) \/ ConfirmedRestart(g)
    PROVE  flow'[f].step # "put"
<1>1. \/ Begin(g, "load", "get", Nil, TRUE)
      \/ Begin(g, "detect", "get", Nil, TRUE)
      \/ Begin(g, "restart", "post", Nil, dialog.own)
  BY OpeningOpens DEF Opens, Detect, ConfirmedRestart
<1>2. \E r \in [purpose : {"load", "detect", "restart"}, step : {"get", "post"},
                body : {Nil}, own : {TRUE, dialog.own}] : flow' = [flow EXCEPT ![g] = r]
  BY <1>1 DEF Begin
<1>3. PICK r \in [purpose : {"load", "detect", "restart"}, step : {"get", "post"},
                  body : {Nil}, own : {TRUE, dialog.own}] : flow' = [flow EXCEPT ![g] = r]
  BY <1>2
<1>4. flow'[f] = flow[f] \/ flow'[f] = r
  BY <1>3 DEF IInv, TypeOK
<1>5. QED
  BY <1>3, <1>4

LEMMA AnsweringSteps ==
    ASSUME IInv, NEW f \in Flow, NEW g \in Flow, flow[f].step = "idle",
           NEW s \in {"got", "stored", "refused", "ran", "not run", "post"}, NEW b,
           Answers(g, s, b)
    PROVE  flow'[f].step # "put"
<1>1. flow \in [Flow -> Request]
  BY DEF IInv, TypeOK
<1>2. CASE f = g
  <2>1. flow'[f] = [flow[f] EXCEPT !.step = s, !.body = b]
    BY <1>1, <1>2 DEF Answers
  <2>2. flow'[f].step = s
    BY <1>1, <2>1 DEF Request
  <2>3. QED
    BY <2>2
<1>3. CASE f # g
  BY <1>1, <1>3 DEF Answers
<1>4. QED
  BY <1>2, <1>3

LEMMA PutSent ==
    ASSUME IInv, Next, NEW f \in Flow, Begun(f)
    PROVE  \/ Storing(f)
           \/ \E c \in Content : SwitchList(f, c) \/ SwitchGroup(f, c)
           \/ ConfirmedApply(f) /\ dialog.own
<1>1. /\ flow[f].step = "idle" /\ flow'[f].step = "put" /\ flow'[f].own
      /\ flow \in [Flow -> Request]
      /\ flow' # flow
  BY DEF Begun, IInv, TypeOK
<1>2. ASSUME NEW g \in Flow, NEW p \in {"save", "apply", "switch"}, NEW c \in Content,
             NEW own \in BOOLEAN, Sends(g, p, c, own)
      PROVE  g = f /\ own
  <2>1. flow' = [flow EXCEPT ![g] = [purpose |-> p, step |-> "put", body |-> c, own |-> own]]
    BY <1>2 DEF Sends, Begin
  <2>2. g = f
    BY <1>1, <2>1
  <2>3. flow'[f].own = own
    BY <1>1, <2>1, <2>2
  <2>4. QED
    BY <1>1, <2>2, <2>3
<1>3. ASSUME NEW g \in Flow, Opening(g) \/ Storing(g)
      PROVE  Storing(f)
  <2>1. Storing(g)
    BY <1>1, <1>3, QuietSteps
  <2>2. PICK p \in {"save", "apply", "switch"} : SaveForm(g, p)
    BY <2>1, StoringSaves
  <2>3. Sends(g, p, form, TRUE) /\ form \in Content
    BY <2>2 DEF SaveForm, Enabled, Shown, IInv, TypeOK
  <2>4. g = f
    BY <1>2, <2>3
  <2>5. QED
    BY <2>1, <2>4
<1>4. ASSUME NEW c \in Content, Editing(c) \/ OthersSave(c)
      PROVE  FALSE
  BY <1>1, <1>4 DEF Editing, EditBlocklists, EditUpstreams, EditLocalRecords, EditResponse,
     EditSettings, EditClients, EditWebhooks, Edit, OthersSave
<1>5. ASSUME NEW g \in Flow, NEW c \in Content, SwitchList(g, c) \/ SwitchGroup(g, c)
      PROVE  g = f
  <2>1. Switched(g, c, c)
    BY <1>5 DEF SwitchList, SwitchGroup
  <2>2. Sends(g, "switch", c, TRUE)
    BY <1>1, <2>1 DEF Switched
  <2>3. QED
    BY <1>2, <2>2
<1>6. ASSUME NEW g \in Flow, ServeGet(g) \/ ServePut(g) \/ ServeApply(g)
      PROVE  FALSE
  BY <1>1, <1>6, AnsweringSteps DEF ServeGet, ServePut, ServeApply
<1>7. ASSUME NEW g \in Flow, ServeRestart(g)
      PROVE  FALSE
  <2>1. CASE Answers(g, "not run", Nil)
    BY <1>1, <2>1, AnsweringSteps
  <2>2. CASE flow' = [h \in Flow |-> IF h = g THEN [flow[h] EXCEPT !.step = "ran"]
                                     ELSE Broken(flow[h])]
    <3>1. f # g
      BY <1>1, <1>7 DEF ServeRestart
    <3>2. flow'[f] = Broken(flow[f])
      BY <2>2, <3>1
    <3>3. Broken(flow[f]) = flow[f]
      BY <1>1 DEF Broken
    <3>4. QED
      BY <1>1, <3>2, <3>3
  <2>3. QED
    BY <1>7, <2>1, <2>2 DEF ServeRestart
<1>8. ASSUME NEW g \in Flow, Ends(g)
      PROVE  FALSE
  BY <1>1, <1>8, Requests DEF Ends
<1>9. ASSUME NEW g \in Flow, \/ LoadLands(g) \/ LoadFails(g) \/ ThenApply(g) \/ ThenDone(g)
                             \/ SaveFails(g) \/ ApplyLands(g) \/ DetectLands(g)
      PROVE  FALSE
  BY <1>1, <1>8, <1>9, AnsweringSteps DEF LoadLands, LoadFails, ThenApply, ThenDone, SaveFails,
     ApplyLands, DetectLands
<1>10. ASSUME ConfirmApply \/ ClearData \/ ConfirmRestart \/ Reads \/ Cancel
              \/ ConfirmedClear \/ ConfirmedDetect
       PROVE  FALSE
  BY <1>1, <1>10 DEF ConfirmApply, ClearData, ConfirmRestart, Ask, Reads, Cancel,
     ConfirmedClear, ConfirmedDetect
<1>11. ASSUME LeavePage
       PROVE  FALSE
  <2>1. flow'[f] = None \/ flow'[f] = [flow[f] EXCEPT !.own = FALSE]
    BY <1>11 DEF LeavePage
  <2>2. QED
    BY <1>1, <2>1, Requests DEF Request
<1>12. ASSUME NEW g \in Flow, Detect(g) \/ ConfirmedApply(g) \/ ConfirmedRestart(g)
       PROVE  ConfirmedApply(f) /\ dialog.own
  <2>1. ConfirmedApply(g)
    BY <1>1, <1>12, QuietSteps
  <2>2. Sends(g, "apply", dialog.body, dialog.own) /\ dialog.what = "apply"
    BY <2>1 DEF ConfirmedApply, Confirms
  <2>3. dialog.body \in Content /\ dialog.own \in BOOLEAN
    BY <2>2 DEF IInv, TypeOK, LeftApply
  <2>4. g = f /\ dialog.own
    BY <1>2, <2>2, <2>3
  <2>5. QED
    BY <2>1, <2>4
<1>13. QED
  BY <1>3, <1>4, <1>5, <1>6, <1>7, <1>9, <1>10, <1>11, <1>12 DEF Next

LEMMA BlankNotSaved ==
    ASSUME IInv, open, Untouched, form # Nil, Valid(form)
    PROVE  kind \in {"local_records", "response", "safe_search"}
<1>1. form = IF kind \in Lists \cup Dns THEN {} ELSE Nil
  BY DEF IInv, Blank
<1>2. kind \in Lists \cup Dns /\ form = {}
  BY <1>1
<1>3. kind \notin Lists /\ kind # "upstreams"
  BY <1>2 DEF Valid
<1>4. QED
  BY <1>2, <1>3 DEF Dns

LEMMA DefaultsStep ==
    ASSUME IInv, Next, NEW f \in Flow, Begun(f), ~loaded, typed' = Nil, ~crossed
    PROVE  kind \in {"local_records", "response", "safe_search"}
<1>1. CASE Storing(f)
  <2>1. PICK p \in {"save", "apply", "switch"} : SaveForm(f, p)
    BY <1>1, StoringSaves
  <2>2. open /\ form # Nil /\ Valid(form) /\ typed' = typed
    BY <2>1 DEF SaveForm, Enabled, Shown
  <2>3. QED
    BY <2>2, BlankNotSaved DEF Untouched
<1>2. CASE \E c \in Content : SwitchList(f, c) \/ SwitchGroup(f, c)
  BY <1>2, Blanks DEF SwitchList, SwitchGroup, Switched, Types
<1>3. CASE ConfirmedApply(f) /\ dialog.own
  <2>1. dialog.what = "apply" /\ typed' = typed
    BY <1>3 DEF ConfirmedApply, Confirms
  <2>2. open /\ form # Nil /\ Valid(form)
    BY <1>3, <2>1 DEF IInv, Closed, AskedApply
  <2>3. QED
    BY <2>1, <2>2, BlankNotSaved DEF Untouched
<1>4. QED
  BY <1>1, <1>2, <1>3, PutSent

-----------------------------------------------------------------------------
(* The page, the requests and the history have their types.                *)
THEOREM TypeCorrect == Spec => []TypeOK
  BY Invariance, PTL DEF IInv

(* What somebody has typed into a form of the web client stays on the page *)
(* until he leaves it or a request that was under way when he typed is     *)
(* answered: no answer asked for later takes its place.                    *)
THEOREM EditsStay == Spec => []EditsKept
  BY Invariance, PTL DEF IInv

(* While a page says "Saved" or "Applied", the server has what it shows,   *)
(* and after an apply the DNS service runs it: with the exceptions that    *)
(* ShownIsServed names, and no other.                                      *)
THEOREM SavedIsServed == Spec => []ShownIsServed
<1>1. IInv => ShownIsServed
  BY FlowFacts DEF IInv, Served, ShownIsServed
<1>2. QED
  BY <1>1, Invariance, PTL

(* A page that could not load what the server has does not overwrite it    *)
(* with its empty form, save for the three that do.                        *)
THEOREM NoDefaultsSaved == Spec => NeverSavesDefaults
<1>1. IInv /\ [Next]_vars =>
         [\A f \in Flow :
             flow[f].step = "idle" /\ flow'[f].step = "put" /\ flow'[f].own
                /\ ~loaded /\ typed' = Nil /\ ~crossed
             => kind \in {"local_records", "response", "safe_search"}]_vars
  BY DefaultsStep DEF Begun
<1>2. QED
  BY <1>1, Invariance, PTL DEF Spec, NeverSavesDefaults

(* A dialog that was replaced in the moment it was answered never clears   *)
(* data or applies: what runs is what was read, or one of the two          *)
(* questions that are asked unbidden.                                      *)
THEOREM DialogsMeant == Spec => MeantWhatRan
<1>1. IInv /\ [Next]_vars =>
         [(\/ ConfirmedClear \/ ConfirmedDetect
           \/ \E f \in Flow : ConfirmedApply(f) \/ ConfirmedRestart(f))
          => dialog.what \in {read, "restart", "detect"}]_vars
  BY DEF IInv, DialogRead, ConfirmedClear, ConfirmedDetect, ConfirmedApply, ConfirmedRestart,
     Confirms
<1>2. QED
  BY <1>1, Invariance, PTL DEF Spec, MeantWhatRan
=============================================================================
