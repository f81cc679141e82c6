----------------------------- MODULE WebServer -----------------------------
(***************************************************************************)
(* The process of the web server from its start to its end: the password   *)
(* it asks for and the sessions it opens, the certificate it finds or      *)
(* obtains from Let's Encrypt before it serves HTTPS, and the usage report *)
(* it sends once a day.  What the process holds is lost whenever it stops; *)
(* the password file, the certificate files and the sessions, which are in *)
(* Redis, stay.                                                            *)
(***************************************************************************)
EXTENDS Naturals, Sequences, FiniteSets

CONSTANTS
    Deployments,   (* the environments the process may be started with     *)
    Client,        (* browsers                                             *)
    Password,      (* passwords                                            *)
    Domain,        (* LETSENCRYPT_DOMAIN                                   *)
    Timer,         (* ticks of the report's timers that can overlap        *)
    Nil,           (* nothing                                              *)
    Empty,         (* a file that was cut off when it was to be written    *)
    MaxStarts,     (* bound: starts of the process                         *)
    MaxCert,       (* bound: certificates that are ordered                 *)
    MaxMinute      (* bound: the time                                      *)

ASSUME NothingAssumption == /\ Nil # Empty
                            /\ {Nil, Empty} \cap (Password \cup Nat) = {}
ASSUME DeploymentAssumption ==
    Deployments \subseteq [tls : {"off", "unset", "files", "http", "dns"}, secret : BOOLEAN,
                         password : Password \cup {Nil}, reports : BOOLEAN]
ASSUME BoundAssumption == MaxStarts \in Nat /\ MaxCert \in Nat /\ MaxMinute \in Nat

VARIABLES
    env,         (* the environment: UI_PASSWORD, SESSION_SECRET, the       *)
                 (* configuration of TLS, and whether there is a CONFIG_PATH *)
    phase,       (* of the process                                         *)
    starts,      (* the number of its starts                               *)
    password,    (* the file of the password                               *)
    storedHash,  (* the password the process has loaded                    *)
    envPassword, (* what is left of the password in process.env            *)
    fromEnv,     (* _envPasswordWasSet                                     *)
    promised,    (* the password reported as set that is to be in force    *)
                 (* now, and from the next start on (history)              *)
    live,        (* sessions in Redis that are authenticated               *)
    cookie,      (* for a browser, the start that signed its cookie, or 0  *)
    login,       (* logins under way                                       *)
    answered,    (* how the last login was answered, and when (history)    *)
    http,        (* the server listens on the HTTP port                    *)
    https,       (* the pair the HTTPS server uses, or Nil                 *)
    ready,       (* httpsReady                                             *)
    challenges,  (* challengeStore                                         *)
    asked,       (* domains the certificate authority still has to check   *)
    disk,        (* the files of the certificate                           *)
    aged,        (* certificates that expire within 14 days, or have       *)
    issued,      (* certificates ordered so far                            *)
    todo,        (* files of the new certificate that are not yet written  *)
    schedule,    (* the time of the report in the configuration, or Nil    *)
    now,         (* the minute                                             *)
    tick,        (* the ticks under way                                    *)
    lastSent,    (* lastSentMinute                                         *)
    sent,        (* reports sent by the timer, per minute (history)        *)
    ran          (* processes that have run in a minute (history)          *)

hash == <<storedHash, envPassword, fromEnv>>
session == <<live, cookie, login, answered>>
auth == <<password, hash, promised, session>>
cert == <<http, https, ready, challenges, asked, disk, aged, issued, todo>>
reports == <<schedule, now, tick, lastSent, sent, ran>>
vars == <<env, phase, starts, auth, cert, reports>>

MinutesPerDay == 2
Time(m) == m % MinutesPerDay
Idle == [step |-> "idle", saw |-> Nil]

Init ==
    /\ env \in Deployments
    /\ phase = "down"
    /\ starts = 0
    /\ password = Nil
    /\ storedHash = Nil
    /\ envPassword = Nil
    /\ fromEnv = FALSE
    /\ promised = [now |-> env.password, next |-> env.password]
    /\ live = {}
    /\ cookie = [c \in Client |-> 0]
    /\ login = {}
    /\ answered = [c \in Client |-> Nil]
    /\ http = FALSE
    /\ https = Nil
    /\ ready = FALSE
    /\ challenges = {}
    /\ asked = {}
    /\ disk = [key |-> Nil, fullchain |-> Nil, cert |-> Nil]
    /\ aged = {}
    /\ issued = 0
    /\ todo = <<>>
    /\ schedule = Nil
    /\ now = 0
    /\ tick = [t \in Timer |-> Idle]
    /\ lastSent = Nil
    /\ sent = [m \in 0..MaxMinute |-> 0]
    /\ ran = [m \in 0..MaxMinute |-> 0]

Listening == http \/ https # Nil
Up == phase \notin {"down", "boot"}

(***************************************************************************)
(* The process.  Nothing of what it had in memory is left at a start.      *)
(***************************************************************************)
(* Sessions are signed with SESSION_SECRET, or with bytes drawn at the     *)
(* start: cookies signed before are then worth nothing.                    *)
Honoured(c) == cookie[c] # 0 /\ (env.secret \/ cookie[c] = starts)

(* createApp, and the connection to Redis that is still to be made.        *)
StartServer ==
    /\ phase = "down"
    /\ starts < MaxStarts
    /\ starts' = starts + 1
    /\ phase' = "boot"
    /\ storedHash' = Nil
    /\ envPassword' = env.password
    /\ fromEnv' = FALSE
    /\ promised' = [promised EXCEPT !.now = promised.next]
    /\ login' = {}
    /\ http' = FALSE
    /\ https' = Nil
    /\ ready' = FALSE
    /\ challenges' = {}
    /\ asked' = {}
    /\ todo' = <<>>
    /\ tick' = [t \in Timer |-> Idle]
    /\ lastSent' = Nil
    /\ ran' = [ran EXCEPT ![now] = @ + 1]
    /\ UNCHANGED <<env, password, live, cookie, answered, disk, aged, issued,
                   schedule, now, sent>>

(* The process ends: killed, by an exception of startServer, or 100 ms     *)
(* after a restart was asked for.  The environment starts it again.        *)
Ends ==
    /\ phase' = "down"
    /\ login' = {}
    /\ http' = FALSE
    /\ https' = Nil
    /\ ready' = FALSE
    /\ challenges' = {}
    /\ asked' = {}
    /\ todo' = <<>>

Stop ==
    /\ phase # "down"
    /\ Ends
    /\ UNCHANGED <<env, starts, password, hash, promised, live, cookie, answered, disk,
                   aged, issued, reports>>

(***************************************************************************)
(* The password.  It is that of the environment, which is read once and    *)
(* deleted from there, or that of the file, which is read when there is    *)
(* none in memory.  An empty file is a password nobody can enter.          *)
(***************************************************************************)
LoadStoredHash ==
    IF storedHash \in Password THEN storedHash
    ELSE IF envPassword # Nil THEN envPassword
    ELSE password

IsAuthEnabled == LoadStoredHash # Nil
VerifyPassword(p) == LoadStoredHash = p

(* Mutant: no memory of a password of the environment.                     *)
CanEditPasswordByEnv == envPassword = Nil
(* A password of the environment stays one after it was deleted there.     *)
CanEditPassword == ~fromEnv /\ envPassword = Nil

(* Every request looks the password up.                                    *)
Load ==
    /\ storedHash' = LoadStoredHash
    /\ envPassword' = IF storedHash \in Password THEN envPassword ELSE Nil
    /\ fromEnv' = (fromEnv \/ (storedHash \notin Password /\ envPassword # Nil))

(* Redis is there, the timers of the report are started, and the password  *)
(* is looked up for a hint in the log.                                     *)
Booted ==
    /\ phase = "boot"
    /\ Load
    /\ phase' = IF env.tls \in {"http", "dns"} THEN "certificate" ELSE "serving"
    /\ http' = (env.tls \in {"off", "unset"})
    /\ https' = IF env.tls = "files" THEN [fullchain |-> 0, key |-> 0] ELSE Nil
    /\ UNCHANGED <<env, starts, password, promised, session, ready, challenges, asked, disk,
                   aged, issued, todo, reports>>

(* A page is fetched over HTTPS, or over HTTP where that is not redirected *)
(* to HTTPS, which is done only for the HTTP challenge of Let's Encrypt.   *)
Redirects == env.tls = "http" /\ ready
Transport ==
    {t \in {"tls", "plain"} : IF t = "tls" THEN https # Nil ELSE http /\ ~Redirects}

(* With HTTPS in the configuration the cookie is for HTTPS only: it is not *)
(* set in an answer over plain HTTP, and not sent in a request.            *)
TakesCookie(t) == t = "tls" \/ env.tls = "off"

Authenticated(c, t) == c \in live /\ Honoured(c) /\ TakesCookie(t)
AuthMiddleware(c, t) == ~IsAuthEnabled \/ Authenticated(c, t)

(* A login with the right password: the old session goes, and a new one    *)
(* is made in Redis while the server goes on with other requests.          *)
LoginVerified(c, t, p) ==
    /\ t \in Transport
    /\ \A w \in login : w.client # c
    /\ IsAuthEnabled
    /\ VerifyPassword(p)
    /\ Load
    /\ login' = login \cup {[client |-> c, over |-> t]}
    /\ live' = live \ {c}
    /\ cookie' = [cookie EXCEPT ![c] = 0]
    /\ answered' = [answered EXCEPT ![c] = Nil]
    /\ UNCHANGED <<env, phase, starts, password, promised, cert, reports>>

(* The new session is saved, and the browser is told.                      *)
(* Mutant: the session is marked before it is made anew.                   *)
NewSessionLost(w) == live

NewSession(w) == live \cup {w.client}
LoginSaved(w) ==
    /\ w \in login
    /\ login' = login \ {w}
    /\ live' = NewSession(w)
    /\ cookie' = IF TakesCookie(w.over) THEN [cookie EXCEPT ![w.client] = starts] ELSE cookie
    /\ answered' = [answered EXCEPT ![w.client] = [start |-> starts, over |-> w.over]]
    /\ UNCHANGED <<env, phase, starts, password, hash, promised, cert, reports>>

(* Redis refuses the new session.                                          *)
LoginFailed(w) ==
    /\ w \in login
    /\ login' = login \ {w}
    /\ UNCHANGED <<env, phase, starts, password, hash, promised, live, cookie, answered,
                   cert, reports>>

Logout(c, t) ==
    /\ t \in Transport
    /\ \A w \in login : w.client # c
    /\ AuthMiddleware(c, t)
    /\ Load
    /\ live' = live \ {c}
    /\ cookie' = [cookie EXCEPT ![c] = 0]
    /\ answered' = [answered EXCEPT ![c] = Nil]
    /\ UNCHANGED <<env, phase, starts, password, login, promised, cert, reports>>

(* A session ends after 24 hours, or with Redis.                           *)
SessionEnds(c) ==
    /\ c \in live
    /\ live' = live \ {c}
    /\ answered' = [answered EXCEPT ![c] = Nil]
    /\ UNCHANGED <<env, phase, starts, password, hash, promised, cookie, login, cert, reports>>

(* The first password needs none; another one needs a session and the      *)
(* password in force.  The file is emptied and written, and the new        *)
(* password is in force at once.                                           *)
MaySetPassword(c, t, current) ==
    /\ t \in Transport
    /\ AuthMiddleware(c, t)
    /\ IsAuthEnabled => VerifyPassword(current)
    /\ CanEditPassword

SetPassword(c, t, current, p) ==
    /\ MaySetPassword(c, t, current)
    /\ password' = p
    /\ storedHash' = p
    /\ promised' = [now |-> p, next |-> p]
    /\ UNCHANGED <<env, phase, starts, envPassword, fromEnv, session, cert, reports>>

(* The file can not be opened, or the disk is full once it is emptied; the *)
(* password in memory stays.                                               *)
SetPasswordFails(c, t, current) ==
    /\ MaySetPassword(c, t, current)
    /\ password' \in {password, Empty}
    /\ Load
    /\ UNCHANGED <<env, phase, starts, promised, session, cert, reports>>

(* The process ends between the two.                                       *)
SetPasswordCut(c, t, current) ==
    /\ MaySetPassword(c, t, current)
    /\ password' = Empty
    /\ Ends
    /\ UNCHANGED <<env, starts, hash, promised, live, cookie, answered, disk, aged, issued,
                   reports>>

(* The command set-admin-password writes the file behind the back of a     *)
(* process that may have the old password in memory; one of the            *)
(* environment comes before it.                                            *)
SetByCommand(p) ==
    /\ password' = p
    /\ promised' =
          IF env.password # Nil THEN promised
          ELSE [now |-> IF storedHash \in Password THEN promised.now ELSE p, next |-> p]
    /\ UNCHANGED <<env, phase, starts, hash, session, cert, reports>>

(***************************************************************************)
(* The certificate.  HTTPS starts with the pair on the disk when it is     *)
(* good for 14 more days; else with one that is obtained first, while the  *)
(* server listens on the HTTP port for the challenge, or waits for the     *)
(* records of the DNS challenge.  There is no renewal while it runs.       *)
(***************************************************************************)
HasValidCert ==
    /\ disk.fullchain \in 1..MaxCert
    /\ disk.key # Nil
    /\ disk.fullchain \notin aged

(* What is on the disk is good.                                            *)
LoadCert ==
    /\ phase = "certificate"
    /\ HasValidCert
    /\ phase' = "serving"
    /\ http' = TRUE
    /\ https' = [fullchain |-> disk.fullchain, key |-> disk.key]
    /\ UNCHANGED <<env, starts, auth, ready, challenges, asked, disk, aged, issued, todo, reports>>

(* Mutant: a challenge for the first domain only.                          *)
ChallengedFirst == {CHOOSE d \in Domain : TRUE}

Challenged == IF env.tls = "http" THEN Domain ELSE {}

(* An order, the challenges of its domains, and the request to check them. *)
CreateOrder ==
    /\ phase = "certificate"
    /\ ~HasValidCert
    /\ issued < MaxCert
    /\ issued' = issued + 1
    /\ phase' = "order"
    /\ http' = (env.tls = "http")
    /\ challenges' = Challenged
    /\ asked' = Domain
    /\ UNCHANGED <<env, starts, auth, https, ready, disk, aged, todo, reports>>

(* The authority fetches the answer for a domain and is content, or looks  *)
(* its record up.                                                          *)
Validated(d) ==
    /\ phase = "order"
    /\ d \in asked
    /\ asked' = asked \ {d}
    /\ UNCHANGED <<env, phase, starts, auth, http, https, ready, challenges, disk, aged,
                   issued, todo, reports>>

(* Mutant: the certificate before its key.                                 *)
StoreOrderChainFirst == <<"cert", "fullchain", "key">>

StoreOrder == <<"cert", "key", "fullchain">>

(* All are valid: the challenges are cleared and the certificate comes.    *)
OrderValid ==
    /\ phase = "order"
    /\ asked = {}
    /\ phase' = "store"
    /\ challenges' = {}
    /\ todo' = StoreOrder
    /\ UNCHANGED <<env, starts, auth, http, https, ready, asked, disk, aged, issued, reports>>

(* The authority or the network refuses, or a file can not be written: the *)
(* server goes on with HTTP only, or gives up if it waited for DNS.        *)
GivesUp ==
    IF env.tls = "dns" THEN Ends
    ELSE /\ phase' = "serving"
         /\ http' = TRUE
         /\ challenges' = {}
         /\ asked' = {}
         /\ todo' = <<>>
         /\ UNCHANGED <<login, https, ready>>

OrderFails ==
    /\ phase \in {"certificate", "order", "store"}
    /\ phase = "certificate" => ~HasValidCert
    /\ GivesUp
    /\ disk' \in IF phase = "store" THEN {disk, [disk EXCEPT ![Head(todo)] = Empty]} ELSE {disk}
    /\ UNCHANGED <<env, starts, password, hash, promised, live, cookie, answered, aged,
                   issued, reports>>

(* One file of the new certificate is written, or the process ends when    *)
(* it is empty.                                                            *)
StoreFile ==
    /\ phase = "store"
    /\ disk' = [disk EXCEPT ![Head(todo)] = issued]
    /\ todo' = Tail(todo)
    /\ IF Tail(todo) # <<>> THEN UNCHANGED <<phase, http, https>>
       ELSE /\ phase' = "serving"
            /\ http' = TRUE
            /\ https' = [fullchain |-> issued, key |-> issued]
    /\ UNCHANGED <<env, starts, auth, ready, challenges, asked, aged, issued, reports>>

StoreCut ==
    /\ phase = "store"
    /\ disk' = [disk EXCEPT ![Head(todo)] = Empty]
    /\ Ends
    /\ UNCHANGED <<env, starts, password, hash, promised, live, cookie, answered, aged,
                   issued, reports>>

(* The HTTPS server has its port, and HTTP is redirected to it.            *)
HttpsReady ==
    /\ phase = "serving"
    /\ env.tls \in {"http", "dns"}
    /\ https # Nil /\ ~ready
    /\ ready' = TRUE
    /\ UNCHANGED <<env, phase, starts, auth, http, https, challenges, asked, disk, aged,
                   issued, todo, reports>>

(* Time: a certificate comes within 14 days of its end.                    *)
Ages(i) ==
    /\ i \in 1..issued \ aged
    /\ aged' = aged \cup {i}
    /\ UNCHANGED <<env, phase, starts, auth, http, https, ready, challenges, asked, disk,
                   issued, todo, reports>>

(***************************************************************************)
(* The usage report: a timer fires every minute, another once ten seconds  *)
(* after the start.  A tick reads the configuration, and in one go takes   *)
(* the time, compares it, and marks the minute before it sends.  Sending   *)
(* may take longer than the next tick.                                     *)
(***************************************************************************)
TickReads(t) ==
    /\ Up /\ env.reports
    /\ tick[t].step = "idle"
    /\ schedule # Nil
    /\ tick' = [tick EXCEPT ![t] = [step |-> "read", saw |-> schedule]]
    /\ UNCHANGED <<env, phase, starts, auth, cert, schedule, now, lastSent, sent, ran>>

Due(t) == tick[t].saw = Time(now) /\ lastSent # now

(* Mutant: the minute is marked when the report has been sent.             *)
MarksLater(t) ==
    /\ lastSent' = lastSent

Marks(t) ==
    /\ lastSent' = IF Due(t) THEN now ELSE lastSent

TickSends(t) ==
    /\ Up
    /\ tick[t].step = "read"
    /\ Marks(t)
    /\ sent' = IF Due(t) THEN [sent EXCEPT ![now] = @ + 1] ELSE sent
    /\ tick' = [tick EXCEPT ![t] = IF Due(t) THEN [@ EXCEPT !.step = "sending"] ELSE Idle]
    /\ UNCHANGED <<env, phase, starts, auth, cert, schedule, now, ran>>

(* The report has been taken, refused or given up after 30 seconds; it is  *)
(* not sent again.                                                         *)
TickEnds(t) ==
    /\ Up
    /\ tick[t].step = "sending"
    /\ tick' = [tick EXCEPT ![t] = Idle]
    /\ UNCHANGED <<env, phase, starts, auth, cert, schedule, now, lastSent, sent, ran>>

(* The report is switched on, moved or switched off.                       *)
EditSchedule ==
    /\ env.reports
    /\ schedule' \in {Nil} \cup 0..(MinutesPerDay - 1)
    /\ UNCHANGED <<env, phase, starts, auth, cert, now, tick, lastSent, sent, ran>>

PassMinute ==
    /\ env.reports
    /\ now < MaxMinute
    /\ now' = now + 1
    /\ ran' = [ran EXCEPT ![now + 1] = IF phase = "down" THEN 0 ELSE 1]
    /\ UNCHANGED <<env, phase, starts, auth, cert, schedule, tick, lastSent, sent>>

Process == StartServer \/ Stop \/ Booted

Login ==
    \/ \E c \in Client, t \in Transport, p \in Password : LoginVerified(c, t, p)
    \/ \E w \in login : LoginSaved(w) \/ LoginFailed(w)
    \/ \E c \in Client, t \in Transport : Logout(c, t)
    \/ \E c \in Client : SessionEnds(c)

EditPassword ==
    \/ \E c \in Client, t \in Transport, current, p \in Password : SetPassword(c, t, current, p)
    \/ \E c \in Client, t \in Transport, current \in Password : SetPasswordFails(c, t, current)
    \/ \E c \in Client, t \in Transport, current \in Password : SetPasswordCut(c, t, current)
    \/ \E p \in Password : SetByCommand(p)

Certificate ==
    \/ LoadCert \/ CreateOrder \/ OrderValid \/ OrderFails \/ StoreFile \/ StoreCut \/ HttpsReady
    \/ \E d \in Domain : Validated(d)
    \/ \E i \in 1..issued : Ages(i)

Report ==
    \/ \E t \in Timer : TickReads(t) \/ TickSends(t) \/ TickEnds(t)
    \/ EditSchedule \/ PassMinute

Next == Process \/ Login \/ EditPassword \/ Certificate \/ Report

Spec == Init /\ [][Next]_vars

(***************************************************************************)
(* What is promised.                                                       *)
(***************************************************************************)
(* Types of the process, the passwords, the sessions, the certificate and  *)
(* the reports.                                                            *)
Over == {"tls", "plain"}
TypeOK ==
    /\ env \in Deployments
    /\ phase \in {"down", "boot", "certificate", "order", "store", "serving"}
    /\ starts \in 0..MaxStarts
    /\ {password, storedHash} \subseteq Password \cup {Nil, Empty}
    /\ envPassword \in Password \cup {Nil} /\ fromEnv \in BOOLEAN
    /\ promised \in [now : Password \cup {Nil}, next : Password \cup {Nil}]
    /\ live \subseteq Client
    /\ cookie \in [Client -> 0..MaxStarts]
    /\ login \subseteq [client : Client, over : Over]
    /\ answered \in [Client -> {Nil} \cup [start : 1..MaxStarts, over : Over]]
    /\ http \in BOOLEAN /\ ready \in BOOLEAN
    /\ https \in {Nil} \cup [fullchain : 0..MaxCert, key : (0..MaxCert) \cup {Empty}]
    /\ challenges \subseteq Domain /\ asked \subseteq Domain
    /\ disk \in [key : (1..MaxCert) \cup {Nil, Empty}, fullchain : (1..MaxCert) \cup {Nil, Empty},
                 cert : (1..MaxCert) \cup {Nil, Empty}]
    /\ issued \in 0..MaxCert /\ aged \subseteq 1..MaxCert
    /\ todo \in {<<>>, <<"fullchain">>, <<"key", "fullchain">>, StoreOrder}
    /\ schedule \in {Nil} \cup 0..(MinutesPerDay - 1)
    /\ now \in 0..MaxMinute /\ lastSent \in {Nil} \cup 0..MaxMinute
    /\ tick \in [Timer -> [step : {"idle", "read", "sending"},
                           saw : {Nil} \cup 0..(MinutesPerDay - 1)]]
    /\ sent \in [0..MaxMinute -> Nat] /\ ran \in [0..MaxMinute -> Nat]

(* The password that is asked for is the one last reported as set (by the  *)
(* environment, the page, or the command and a restart), whatever fails    *)
(* and wherever the process ends; a file left empty keeps everybody out,   *)
(* and lets nobody in.                                                     *)
PasswordKept ==
    Transport # {} =>
        \/ LoadStoredHash = promised.now
        \/ password = Empty /\ LoadStoredHash = Empty

(* A login that was answered as good is one: requests of the browser are   *)
(* let in until it logs out, the session ends, or the process is started   *)
(* again with another secret, unless the login was made over plain HTTP to *)
(* a server that only hands out cookies for HTTPS.                         *)
LoginHonoured ==
    \A c \in Client, t \in Transport :
        /\ answered[c] # Nil
        /\ env.secret \/ answered[c].start = starts
        /\ TakesCookie(answered[c].over) /\ TakesCookie(t)
        => AuthMiddleware(c, t)

(* A certificate that a start would accept belongs to the key beside it,   *)
(* at whatever point the process before ended; and no HTTPS server runs    *)
(* with another pair.                                                      *)
CertMatchesKey ==
    /\ HasValidCert => disk.key = disk.fullchain
    /\ https # Nil => https.key = https.fullchain

(* As long as the authority has a domain to check it finds the answer of   *)
(* the HTTP challenge there, and not a redirect to an HTTPS server that    *)
(* waits for the certificate.                                              *)
ChallengeAnswered ==
    phase = "order" /\ env.tls = "http" =>
        http /\ ~Redirects /\ asked \subseteq challenges

(* The timer sends one report a minute at most for each process that has   *)
(* run in it, however many ticks overlap.                                  *)
OneReport == \A m \in 0..MaxMinute : sent[m] <= ran[m]
=============================================================================
