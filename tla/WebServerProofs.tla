-------------------------- MODULE WebServerProofs --------------------------
(***************************************************************************)
(* Proofs about WebServer, for any environments, browsers, passwords,      *)
(* domains and bounds: the promises of the module hold, each by an         *)
(* invariant over the part of the process it is about.                     *)
(***************************************************************************)
EXTENDS WebServer, TLAPS

(* Nothing listens, and no login is under way, before the process is up.   *)
UpFirst == /\ phase # "down" => starts \in 1..MaxStarts
           /\ Listening \/ login # {} => Up

(* The password in force is the one that counts.  One of the environment   *)
(* is in memory or still in process.env; without one, the file has it.     *)
InForce == \/ LoadStoredHash = promised.now
           \/ password = Empty /\ LoadStoredHash = Empty
PasswordInv ==
    /\ phase # "down" => InForce
    /\ env.password # Nil =>
          /\ promised = [now |-> env.password, next |-> env.password]
          /\ phase # "down" => \/ envPassword = env.password /\ storedHash \notin Password
                               \/ storedHash = env.password /\ fromEnv
    /\ env.password = Nil =>
          /\ password \in {promised.next, Empty}
          /\ phase # "down" => envPassword = Nil

(* A browser that was answered has its session, and the cookie if the      *)
(* connection may carry one.                                               *)
SessionInv ==
    \A c \in Client : answered[c] # Nil /\ TakesCookie(answered[c].over) =>
       c \in live /\ cookie[c] = answered[c].start

(* The chain is the last file of a certificate: as long as the new one is  *)
(* not there, the old one is not accepted.                                 *)
ChainBad == disk.fullchain \notin 1..MaxCert \/ disk.fullchain \in aged
CertInv ==
    /\ disk.fullchain # Nil => disk.key # Nil
    /\ HasValidCert => disk.key = disk.fullchain
    /\ https # Nil => https.key = https.fullchain
    /\ phase \in {"order", "store"} => ChainBad
    /\ phase \in {"order", "store"} => issued \in 1..MaxCert
    /\ phase = "store" => todo # <<>>
    /\ phase = "store" /\ todo = <<"fullchain">> => disk.key = issued
    /\ phase \in {"boot", "certificate", "order", "store"} => ~ready
    /\ phase = "order" /\ env.tls = "http" => http /\ challenges = Domain

(* Until the process has marked the minute, a report less has been sent    *)
(* than processes have run in it.                                          *)
ReportInv ==
    /\ \A m \in 0..MaxMinute : sent[m] <= ran[m] /\ (m > now => sent[m] = 0)
    /\ lastSent = Nil \/ lastSent <= now
    /\ phase # "down" /\ lastSent # now => sent[now] < ran[now]

IInv == TypeOK /\ UpFirst /\ PasswordInv /\ SessionInv /\ CertInv /\ ReportInv

-----------------------------------------------------------------------------
LEMMA InitInv == Init => IInv
<1> SUFFICES ASSUME Init PROVE IInv
  OBVIOUS
<1>1. env.password \in Password \cup {Nil}
  BY DeploymentAssumption DEF Init
<1>2. TypeOK
  <2>1. /\ env \in Deployments
        /\ phase \in {"down", "boot", "certificate", "order", "store", "serving"}
        /\ {password, storedHash} \subseteq Password \cup {Nil, Empty}
        /\ envPassword \in Password \cup {Nil} /\ fromEnv \in BOOLEAN
    BY DEF Init
  <2>9. starts \in 0..MaxStarts
    BY BoundAssumption DEF Init
  <2>6. promised \in [now : Password \cup {Nil}, next : Password \cup {Nil}]
    BY <1>1 DEF Init
  <2>2. /\ live \subseteq Client
        /\ login \subseteq [client : Client, over : Over]
        /\ http \in BOOLEAN /\ ready \in BOOLEAN
        /\ https \in {Nil} \cup [fullchain : 0..MaxCert, key : (0..MaxCert) \cup {Empty}]
    BY BoundAssumption DEF Init
  <2>7. cookie \in [Client -> 0..MaxStarts]
    <3>1. 0 \in 0..MaxStarts
      BY BoundAssumption
    <3>2. QED
      BY <3>1 DEF Init
  <2>8. answered \in [Client -> {Nil} \cup [start : 1..MaxStarts, over : Over]]
    BY DEF Init
  <2>3. /\ challenges \subseteq Domain /\ asked \subseteq Domain
        /\ disk \in [key : (1..MaxCert) \cup {Nil, Empty}, cert : (1..MaxCert) \cup {Nil, Empty},
                     fullchain : (1..MaxCert) \cup {Nil, Empty}]
        /\ issued \in 0..MaxCert /\ aged \subseteq 1..MaxCert
        /\ todo \in {<<>>, <<"fullchain">>, <<"key", "fullchain">>, StoreOrder}
    BY BoundAssumption DEF Init
  <2>4. /\ schedule \in {Nil} \cup 0..(MinutesPerDay - 1)
        /\ now \in 0..MaxMinute /\ lastSent \in {Nil} \cup 0..MaxMinute
        /\ tick \in [Timer -> [step : {"idle", "read", "sending"},
                               saw : {Nil} \cup 0..(MinutesPerDay - 1)]]
        /\ sent \in [0..MaxMinute -> Nat] /\ ran \in [0..MaxMinute -> Nat]
    BY BoundAssumption DEF Init, Idle, MinutesPerDay
  <2>5. QED
    BY <2>1, <2>2, <2>3, <2>4, <2>6, <2>7, <2>8, <2>9 DEF TypeOK
<1>3. UpFirst /\ PasswordInv /\ SessionInv
  BY <1>1 DEF Init, UpFirst, Listening, PasswordInv, SessionInv
<1>4. CertInv /\ ReportInv
  BY NothingAssumption, BoundAssumption DEF Init, CertInv, HasValidCert, ReportInv
<1>5. QED
  BY <1>2, <1>3, <1>4 DEF IInv

(* What the rest leaves alone.                                             *)
LEMMA LoginFrame ==
    Login => UNCHANGED <<env, phase, starts, password, promised, cert, reports>>
  BY DEF Login, LoginVerified, LoginSaved, LoginFailed, Logout, SessionEnds

LEMMA EditFrame ==
    EditPassword => \/ UNCHANGED <<env, phase, starts, session, cert, reports>>
                    \/ \E c \in Client, t \in Transport, p \in Password : SetPasswordCut(c, t, p)
  BY DEF EditPassword, SetPassword, SetPasswordFails, SetByCommand

LEMMA CertFrame ==
    Certificate => /\ UNCHANGED <<env, starts, password, hash, promised, live, cookie,
                                  answered, reports>>
                   /\ UNCHANGED login \/ Ends
                   /\ phase = "down" => phase' = "down"
  BY DEF Certificate, LoadCert, CreateOrder, OrderValid, OrderFails, GivesUp, StoreFile,
     StoreCut, HttpsReady, Validated, Ages, auth, session

LEMMA ReportFrame ==
    Report => UNCHANGED <<env, phase, starts, auth, cert>>
  BY DEF Report, TickReads, TickSends, TickEnds, EditSchedule, PassMinute

-----------------------------------------------------------------------------
(* The certificate.                                                        *)
LEMMA CertStep ==
    ASSUME IInv, [Next]_vars
    PROVE  CertInv' /\ UpFirst'
<1> USE NothingAssumption, BoundAssumption DEF IInv
<1>1. CASE UNCHANGED <<env, phase, starts, login, cert>>
  BY <1>1 DEF cert, CertInv, UpFirst, HasValidCert, ChainBad, Listening, Up
<1>2. CASE StartServer
  BY <1>2 DEF StartServer, TypeOK, CertInv, UpFirst, HasValidCert, Listening
<1>3. CASE Ends /\ UNCHANGED <<env, starts, disk, aged, issued>>
  BY <1>3 DEF Ends, CertInv, UpFirst, HasValidCert, ChainBad, Listening
<1>4. CASE Booted
  BY <1>4 DEF Booted, session, TypeOK, CertInv, UpFirst, HasValidCert, ChainBad, Listening, Up
<1>5. CASE Login
  <2>1. UNCHANGED <<env, phase, starts, cert>>
    BY <1>5, LoginFrame
  <2>2. CertInv'
    BY <2>1 DEF cert, CertInv, HasValidCert, ChainBad
  <2>3. CASE \E c \in Client, t \in Transport, p \in Password :
               LoginVerified(c, t, p) \/ Logout(c, t)
    <3>1. Listening
      BY <2>3 DEF Transport, Listening
    <3>2. QED
      BY <2>1, <2>2, <3>1 DEF UpFirst, Up, Listening, cert
  <2>4. CASE \E w \in login : LoginSaved(w) \/ LoginFailed(w)
    BY <2>1, <2>2, <2>4 DEF UpFirst, Up, Listening, cert
  <2>5. CASE \E c \in Client : SessionEnds(c)
    BY <2>1, <2>2, <2>5 DEF SessionEnds, UpFirst, Up, Listening, cert
  <2>6. CASE \E c \in Client, t \in Transport : Logout(c, t)
    <3>1. Listening
      BY <2>6 DEF Transport, Listening
    <3>2. QED
      BY <2>1, <2>2, <3>1 DEF UpFirst, Up, Listening, cert
  <2>7. QED
    BY <1>5, <2>3, <2>4, <2>5, <2>6 DEF Login
<1>6. CASE LoadCert
  BY <1>6 DEF LoadCert, auth, session, CertInv, UpFirst, HasValidCert, ChainBad, Listening, Up
<1>7. CASE CreateOrder
  <2>1. ChainBad
    BY <1>7 DEF CreateOrder, CertInv, HasValidCert, ChainBad
  <2>2. issued' \in 1..MaxCert
    BY <1>7 DEF CreateOrder, TypeOK
  <2>3. QED
    BY <1>7, <2>1, <2>2 DEF CreateOrder, auth, session, CertInv, UpFirst, HasValidCert,
       ChainBad, Listening, Up, Challenged
<1>8. CASE OrderValid
  <2>1. todo' = StoreOrder /\ todo' # <<>> /\ todo' # <<"fullchain">>
    BY <1>8 DEF OrderValid, StoreOrder
  <2>2. QED
    BY <1>8, <2>1 DEF OrderValid, auth, session, CertInv, UpFirst, HasValidCert, ChainBad,
       Listening, Up
<1>9. CASE OrderFails
  BY <1>9 DEF OrderFails, GivesUp, Ends, TypeOK, CertInv, UpFirst, HasValidCert, ChainBad,
     Listening, Up, StoreOrder
<1>a. phase = "store" =>
         \/ todo = StoreOrder /\ Head(todo) = "cert" /\ Tail(todo) = <<"key", "fullchain">>
         \/ todo = <<"key", "fullchain">> /\ Head(todo) = "key" /\ Tail(todo) = <<"fullchain">>
         \/ todo = <<"fullchain">> /\ Head(todo) = "fullchain" /\ Tail(todo) = <<>>
  <2>1. /\ Head(StoreOrder) = "cert" /\ Tail(StoreOrder) = <<"key", "fullchain">>
        /\ Head(<<"key", "fullchain">>) = "key" /\ Tail(<<"key", "fullchain">>) = <<"fullchain">>
        /\ Head(<<"fullchain">>) = "fullchain" /\ Tail(<<"fullchain">>) = <<>>
    BY DEF StoreOrder
  <2>2. phase = "store" => \/ todo = StoreOrder \/ todo = <<"key", "fullchain">>
                           \/ todo = <<"fullchain">>
    BY Zenon DEF TypeOK, CertInv
  <2>3. QED
    BY <2>1, <2>2, Zenon
<1>b. <<"fullchain">> # <<>> /\ <<"key", "fullchain">> # <<>>
      /\ <<"key", "fullchain">> # <<"fullchain">>
  OBVIOUS
<1>10. CASE StoreFile
  <2>1. phase = "store" /\ issued \in 1..MaxCert /\ ChainBad /\ ~ready
    BY <1>10 DEF StoreFile, CertInv
  <2>7. issued # Nil
    BY <2>1
  <2>2. UNCHANGED <<env, starts, ready, challenges, asked, aged, issued, login>>
        /\ disk' = [disk EXCEPT ![Head(todo)] = issued] /\ todo' = Tail(todo)
    BY <1>10 DEF StoreFile, auth, session
  <2>3. CASE Head(todo) = "cert" /\ Tail(todo) = <<"key", "fullchain">>
    <3>1. /\ disk'.key = disk.key /\ disk'.fullchain = disk.fullchain
          /\ UNCHANGED <<phase, http, https>>
      BY <1>10, <1>b, <2>2, <2>3 DEF StoreFile, TypeOK
    <3>2. QED
      BY <1>b, <2>1, <2>2, <2>3, <3>1 DEF CertInv, UpFirst, HasValidCert, ChainBad, Listening, Up
  <2>4. CASE Head(todo) = "key" /\ Tail(todo) = <<"fullchain">>
    <3>1. /\ disk'.key = issued /\ disk'.fullchain = disk.fullchain
      BY <2>2, <2>4 DEF TypeOK
    <3>3. UNCHANGED <<phase, http, https>>
      BY <1>10, <1>b, <2>4 DEF StoreFile
    <3>4. ChainBad'
      BY <2>1, <2>2, <3>1 DEF ChainBad
    <3>5. ~HasValidCert'
      BY <3>4 DEF ChainBad, HasValidCert
    <3>6. https' # Nil => https'.key = https'.fullchain
      BY <3>3 DEF CertInv
    <3>7. CertInv'
      BY <1>b, <2>1, <2>2, <2>4, <2>7, <3>1, <3>3, <3>4, <3>5, <3>6 DEF CertInv
    <3>8. UpFirst'
      BY <2>1, <2>2, <3>3 DEF UpFirst, Listening, Up
    <3>2. QED
      BY <3>7, <3>8
  <2>5. CASE todo = <<"fullchain">> /\ Head(todo) = "fullchain" /\ Tail(todo) = <<>>
    <3>1. /\ disk'.key = issued /\ disk'.fullchain = issued
          /\ phase' = "serving" /\ https' = [fullchain |-> issued, key |-> issued]
      BY <1>10, <2>1, <2>2, <2>5 DEF StoreFile, TypeOK, CertInv
    <3>2. QED
      BY <2>1, <2>2, <2>5, <3>1 DEF CertInv, UpFirst, HasValidCert, ChainBad, Listening, Up
  <2>6. QED
    BY <1>a, <2>1, <2>3, <2>4, <2>5, Zenon
<1>11. CASE StoreCut
  <2>1. phase = "store" /\ ChainBad /\ disk' = [disk EXCEPT ![Head(todo)] = Empty]
        /\ Ends /\ UNCHANGED <<env, starts, aged, issued>>
    BY <1>11 DEF StoreCut, CertInv
  <2>4. disk.fullchain # Nil => disk.key # Nil
    BY DEF CertInv
  <2>5. \/ Head(todo) = "cert" \/ Head(todo) = "key"
        \/ Head(todo) = "fullchain" /\ disk.key = issued /\ issued # Nil
    <3>1. issued \in 1..MaxCert /\ (todo = <<"fullchain">> => disk.key = issued)
      BY <2>1 DEF CertInv
    <3>2. issued # Nil
      BY <3>1
    <3>3. QED
      BY <1>a, <2>1, <3>1, <3>2, Zenon
  <2>2. /\ disk'.fullchain \in {disk.fullchain, Empty}
        /\ disk'.fullchain # Nil => disk'.key # Nil
    BY <2>1, <2>4, <2>5 DEF TypeOK
  <2>3. QED
    BY <2>1, <2>2 DEF Ends, CertInv, UpFirst, HasValidCert, ChainBad, Listening
<1>12. CASE HttpsReady
  BY <1>12 DEF HttpsReady, auth, session, CertInv, UpFirst, HasValidCert, ChainBad, Listening, Up
<1>13. CASE \E d \in Domain : Validated(d)
  BY <1>13 DEF Validated, auth, session, CertInv, UpFirst, HasValidCert, ChainBad, Listening, Up
<1>14. CASE \E i \in 1..issued : Ages(i)
  BY <1>14 DEF Ages, auth, session, CertInv, UpFirst, HasValidCert, ChainBad, Listening, Up
<1>15. CASE Stop
  BY <1>3, <1>15 DEF Stop
<1>16. CASE EditPassword
  BY <1>1, <1>3, <1>16, EditFrame DEF SetPasswordCut, session
<1>17. CASE Report
  BY <1>1, <1>17, ReportFrame DEF auth, session
<1>18. CASE UNCHANGED vars
  BY <1>1, <1>18 DEF vars, auth, session
<1>19. QED
  BY <1>2, <1>4, <1>5, <1>6, <1>7, <1>8, <1>9, <1>10, <1>11, <1>12, <1>13, <1>14, <1>15,
     <1>16, <1>17, <1>18 DEF Next, Process, Certificate

-----------------------------------------------------------------------------
(* The password.                                                           *)
LEMMA EnvPassword == TypeOK => env.password \in Password \cup {Nil}
  BY DeploymentAssumption DEF TypeOK

(* What a request loads is what would have been loaded before it.          *)
LEMMA LoadKeeps ==
    ASSUME TypeOK, PasswordInv, phase # "down", Load, UNCHANGED <<env, password, promised>>
    PROVE  PasswordInv'
<1> USE NothingAssumption
<1>1. storedHash' = LoadStoredHash /\ LoadStoredHash \in Password \cup {Nil, Empty}
  BY DEF Load, LoadStoredHash, TypeOK
<1>2. CASE storedHash \in Password
  <2>1. UNCHANGED <<storedHash, envPassword, fromEnv>>
    BY <1>2 DEF Load, LoadStoredHash, TypeOK
  <2>2. QED
    BY <2>1 DEF PasswordInv, InForce, LoadStoredHash
<1>3. CASE storedHash \notin Password /\ envPassword # Nil
  <2>1. storedHash' = envPassword /\ envPassword \in Password /\ envPassword' = Nil /\ fromEnv'
    BY <1>3 DEF Load, LoadStoredHash, TypeOK
  <2>2. QED
    BY <1>3, <2>1 DEF PasswordInv, InForce, LoadStoredHash
<1>4. CASE storedHash \notin Password /\ envPassword = Nil
  <2>1. storedHash' = password /\ envPassword' = Nil
    BY <1>4 DEF Load, LoadStoredHash
  <2>2. env.password = Nil
    BY <1>4, EnvPassword DEF PasswordInv
  <2>3. QED
    BY <1>4, <2>1, <2>2 DEF PasswordInv, InForce, LoadStoredHash
<1>5. QED
  BY <1>2, <1>3, <1>4

LEMMA PasswordStep ==
    ASSUME IInv, [Next]_vars
    PROVE  PasswordInv'
<1> USE NothingAssumption DEF IInv
<1>1. CASE /\ UNCHANGED <<env, password, hash, promised>>
           /\ phase = "down" => phase' = "down"
  BY <1>1 DEF hash, PasswordInv, InForce, LoadStoredHash
<1>2. CASE Load /\ phase # "down" /\ UNCHANGED <<env, password, promised>>
  BY <1>2, LoadKeeps
<1>3. CASE StartServer
  <2>1. /\ storedHash' = Nil /\ envPassword' = env.password /\ UNCHANGED <<env, password>>
        /\ promised' = [promised EXCEPT !.now = promised.next] /\ Nil \notin Password
    BY <1>3 DEF StartServer
  <2>2. env.password \in Password \cup {Nil}
    BY EnvPassword
  <2>3. promised'.now = promised.next /\ promised'.next = promised.next
    BY <2>1 DEF TypeOK
  <2>4. CASE env.password # Nil
    <3>1. promised' = promised
      BY <2>1, <2>4 DEF PasswordInv
    <3>2. promised = [now |-> env.password, next |-> env.password]
      BY <2>4 DEF PasswordInv
    <3>3. QED
      BY <2>1, <2>2, <2>4, <3>1, <3>2 DEF PasswordInv, InForce, LoadStoredHash
  <2>5. CASE env.password = Nil
    <3>1. password \in {promised.next, Empty}
      BY <2>5 DEF PasswordInv
    <3>2. QED
      BY <2>1, <2>3, <2>5, <3>1 DEF PasswordInv, InForce, LoadStoredHash
  <2>6. QED
    BY <2>4, <2>5
<1>4. CASE Booted
  BY <1>2, <1>4 DEF Booted
<1>5. CASE Login
  <2>1. UNCHANGED <<env, phase, password, promised>>
    BY <1>5, LoginFrame
  <2>2. UNCHANGED hash \/ (Load /\ \E t \in Transport : TRUE)
    BY <1>5 DEF Login, LoginVerified, LoginSaved, LoginFailed, Logout, SessionEnds
  <2>3. QED
    BY <1>1, <1>2, <2>1, <2>2 DEF Transport, UpFirst, Listening, Up
<1>6. ASSUME NEW c \in Client, NEW t \in Transport, NEW q \in Password, MaySetPassword(c, t, q)
      PROVE  /\ phase # "down" /\ env.password = Nil /\ envPassword = Nil
             /\ password \in {promised.next, Empty} /\ InForce
  <2>1. phase # "down"
    BY DEF Transport, UpFirst, Listening, Up
  <2>2. QED
    BY <1>6, <2>1 DEF MaySetPassword, CanEditPassword, PasswordInv
<1>7. ASSUME NEW c \in Client, NEW t \in Transport, NEW q \in Password, NEW p \in Password,
             SetPassword(c, t, q, p)
      PROVE  PasswordInv'
  <2>1. env.password = Nil /\ envPassword = Nil
    BY <1>6, <1>7 DEF SetPassword
  <2>2. /\ password' = p /\ storedHash' = p /\ promised' = [now |-> p, next |-> p]
        /\ UNCHANGED <<env, envPassword>>
    BY <1>7 DEF SetPassword
  <2>3. QED
    BY <2>1, <2>2 DEF PasswordInv, InForce, LoadStoredHash
<1>8. ASSUME NEW c \in Client, NEW t \in Transport, NEW q \in Password, SetPasswordFails(c, t, q)
      PROVE  PasswordInv'
  <2>1. /\ env.password = Nil /\ envPassword = Nil /\ InForce
        /\ password \in {promised.next, Empty}
    BY <1>6, <1>8 DEF SetPasswordFails
  <2>2. Load /\ password' \in {password, Empty} /\ UNCHANGED <<env, promised>>
    BY <1>8 DEF SetPasswordFails
  <2>3. /\ storedHash' = IF storedHash \in Password THEN storedHash ELSE password
        /\ envPassword' = Nil
    BY <2>1, <2>2 DEF Load, LoadStoredHash
  <2>4. password \in Password \cup {Nil, Empty} /\ Empty \notin Password
    BY DEF TypeOK
  <2>5. InForce'
    BY <2>1, <2>2, <2>3, <2>4 DEF InForce, LoadStoredHash
  <2>6. QED
    BY <2>1, <2>2, <2>3, <2>5 DEF PasswordInv
<1>9. ASSUME NEW c \in Client, NEW t \in Transport, NEW q \in Password, SetPasswordCut(c, t, q)
      PROVE  PasswordInv'
  <2>1. env.password = Nil
    BY <1>6, <1>9 DEF SetPasswordCut
  <2>2. phase' = "down" /\ password' = Empty /\ UNCHANGED <<env, promised>>
    BY <1>9 DEF SetPasswordCut, Ends
  <2>3. QED
    BY <2>1, <2>2 DEF PasswordInv
<1>10. ASSUME NEW p \in Password, SetByCommand(p)
       PROVE  PasswordInv'
  <2>1. password' = p /\ UNCHANGED <<env, phase, storedHash, envPassword, fromEnv>>
    BY <1>10 DEF SetByCommand, hash
  <2>2. CASE env.password # Nil
    <3>1. promised' = promised
      BY <1>10, <2>2 DEF SetByCommand
    <3>2. QED
      BY <2>1, <2>2, <3>1, EnvPassword DEF PasswordInv, InForce, LoadStoredHash
  <2>3. CASE env.password = Nil
    <3>1. promised' = [now |-> IF storedHash \in Password THEN promised.now ELSE p, next |-> p]
      BY <1>10, <2>3 DEF SetByCommand
    <3>2. phase # "down" => envPassword = Nil /\ InForce
      BY <2>3 DEF PasswordInv
    <3>3. phase' # "down" => InForce'
      BY <2>1, <3>1, <3>2 DEF InForce, LoadStoredHash
    <3>4. QED
      BY <2>1, <2>3, <3>1, <3>2, <3>3 DEF PasswordInv
  <2>4. QED
    BY <2>2, <2>3
<1>11. CASE Certificate
  BY <1>1, <1>11, CertFrame
<1>12. CASE Report
  BY <1>1, <1>12, ReportFrame DEF auth
<1>13. CASE Stop
  BY <1>1, <1>13 DEF Stop, Ends
<1>14. CASE UNCHANGED vars
  BY <1>1, <1>14 DEF vars, auth
<1>15. QED
  BY <1>3, <1>4, <1>5, <1>7, <1>8, <1>9, <1>10, <1>11, <1>12, <1>13, <1>14
     DEF Next, Process, EditPassword

-----------------------------------------------------------------------------
(* The sessions.                                                           *)
LEMMA SessionStep ==
    ASSUME IInv, [Next]_vars
    PROVE  SessionInv'
<1> USE DEF IInv
<1>1. CASE UNCHANGED <<env, live, cookie, answered>>
  BY <1>1 DEF SessionInv, TakesCookie
<1>2. CASE Login
  <2>1. UNCHANGED env
    BY <1>2, LoginFrame
  <2>2. ASSUME NEW c \in Client, live' = live \ {c}, answered' = [answered EXCEPT ![c] = Nil],
               cookie' = cookie \/ cookie' = [cookie EXCEPT ![c] = 0]
        PROVE  SessionInv'
    BY <2>1, <2>2 DEF TypeOK, SessionInv, TakesCookie
  <2>3. ASSUME NEW w \in login, LoginSaved(w)
        PROVE  SessionInv'
    <3>1. w.client \in Client
      BY DEF TypeOK
    <3>2. /\ live' = live \cup {w.client}
          /\ answered' = [answered EXCEPT ![w.client] = [start |-> starts, over |-> w.over]]
          /\ cookie' = IF TakesCookie(w.over) THEN [cookie EXCEPT ![w.client] = starts] ELSE cookie
      BY <2>3 DEF LoginSaved, NewSession
    <3>3. ASSUME NEW c \in Client, answered'[c] # Nil, TakesCookie(answered'[c].over)
          PROVE  c \in live' /\ cookie'[c] = answered'[c].start
      <4>1. CASE c = w.client
        <5>1. answered'[c] = [start |-> starts, over |-> w.over]
          BY <3>1, <3>2, <4>1 DEF TypeOK
        <5>2. answered'[c].over = w.over /\ answered'[c].start = starts
          BY <5>1
        <5>3. cookie' = [cookie EXCEPT ![w.client] = starts]
          BY <3>2, <3>3, <5>2
        <5>4. cookie'[c] = starts
          BY <3>1, <4>1, <5>3 DEF TypeOK
        <5>5. QED
          BY <3>1, <3>2, <4>1, <5>2, <5>4
      <4>2. CASE c # w.client
        <5>1. answered'[c] = answered[c] /\ cookie'[c] = cookie[c]
          BY <3>1, <3>2, <4>2 DEF TypeOK
        <5>2. QED
          BY <2>1, <3>2, <3>3, <5>1 DEF SessionInv, TakesCookie
      <4>3. QED
        BY <4>1, <4>2
    <3>4. QED
      BY <2>1, <3>3 DEF SessionInv, TakesCookie
  <2>4. QED
    BY <1>1, <1>2, <2>1, <2>2, <2>3 DEF Login, LoginVerified, LoginFailed, Logout, SessionEnds
<1>3. CASE StartServer \/ Stop \/ Booted
  BY <1>1, <1>3 DEF StartServer, Stop, Booted, session
<1>4. CASE EditPassword
  BY <1>1, <1>4, EditFrame DEF SetPasswordCut, session
<1>5. CASE Certificate
  BY <1>1, <1>5, CertFrame
<1>6. CASE Report
  BY <1>1, <1>6, ReportFrame DEF auth, session
<1>7. CASE UNCHANGED vars
  BY <1>1, <1>7 DEF vars, auth, session
<1>8. QED
  BY <1>2, <1>3, <1>4, <1>5, <1>6, <1>7 DEF Next, Process

-----------------------------------------------------------------------------
(* The reports.                                                            *)
LEMMA ReportStep ==
    ASSUME IInv, [Next]_vars
    PROVE  ReportInv'
<1> USE NothingAssumption, BoundAssumption DEF IInv
<1>1. CASE UNCHANGED <<now, lastSent, sent, ran>> /\ (phase = "down" => phase' = "down")
  BY <1>1 DEF ReportInv
<1>2. CASE StartServer
  <2>1. /\ lastSent' = Nil /\ UNCHANGED <<now, sent>> /\ now \in 0..MaxMinute
        /\ ran' = [ran EXCEPT ![now] = @ + 1]
    BY <1>2 DEF StartServer, TypeOK
  <2>2. ran \in [0..MaxMinute -> Nat] /\ sent \in [0..MaxMinute -> Nat]
    BY DEF TypeOK
  <2>3. ran'[now] = ran[now] + 1 /\ \A m \in 0..MaxMinute : ran'[m] >= ran[m]
    BY <2>1, <2>2
  <2>4. QED
    BY <2>1, <2>2, <2>3 DEF ReportInv
<1>3. ASSUME NEW t \in Timer, TickSends(t)
      PROVE  ReportInv'
  <2>1. phase # "down" /\ UNCHANGED <<phase, now, ran>>
    BY <1>3 DEF TickSends, Up
  <2>2. CASE Due(t)
    <3>1. lastSent' = now /\ sent' = [sent EXCEPT ![now] = @ + 1] /\ lastSent # now
      BY <1>3, <2>2 DEF TickSends, Marks, Due
    <3>2. /\ ran \in [0..MaxMinute -> Nat] /\ sent \in [0..MaxMinute -> Nat]
          /\ now \in 0..MaxMinute
      BY DEF TypeOK
    <3>3. sent[now] < ran[now] /\ sent'[now] = sent[now] + 1
      BY <2>1, <3>1, <3>2 DEF ReportInv
    <3>4. \A m \in 0..MaxMinute : m # now => sent'[m] = sent[m]
      BY <3>1, <3>2
    <3>5. QED
      BY <2>1, <3>1, <3>2, <3>3, <3>4 DEF ReportInv
  <2>3. CASE ~Due(t)
    BY <1>1, <1>3, <2>1, <2>3 DEF TickSends, Marks
  <2>4. QED
    BY <2>2, <2>3
<1>4. CASE PassMinute
  <2>1. /\ now \in 0..MaxMinute /\ now' = now + 1 /\ now' \in 0..MaxMinute
        /\ ran' = [ran EXCEPT ![now + 1] = IF phase = "down" THEN 0 ELSE 1]
        /\ UNCHANGED <<phase, lastSent, sent>>
    BY <1>4 DEF PassMinute, TypeOK
  <2>2. ran \in [0..MaxMinute -> Nat] /\ sent \in [0..MaxMinute -> Nat]
    BY DEF TypeOK
  <2>3. sent[now'] = 0 /\ lastSent \in {Nil} \cup 0..MaxMinute
    BY <2>1 DEF ReportInv, TypeOK
  <2>4. /\ ran'[now'] = IF phase = "down" THEN 0 ELSE 1
        /\ \A m \in 0..MaxMinute : m # now' => ran'[m] = ran[m]
    BY <2>1, <2>2
  <2>5. \A m \in 0..MaxMinute : sent'[m] <= ran'[m] /\ (m > now' => sent'[m] = 0)
    BY <2>1, <2>2, <2>3, <2>4 DEF ReportInv
  <2>6. lastSent' = Nil \/ lastSent' <= now'
    BY <2>1, <2>3 DEF ReportInv
  <2>7. QED
    BY <2>1, <2>3, <2>4, <2>5, <2>6 DEF ReportInv
<1>5. CASE EditSchedule \/ \E t \in Timer : TickReads(t) \/ TickEnds(t)
  BY <1>1, <1>5 DEF EditSchedule, TickReads, TickEnds
<1>6. CASE Login
  BY <1>1, <1>6, LoginFrame DEF reports
<1>7. CASE EditPassword
  BY <1>1, <1>7, EditFrame DEF SetPasswordCut, Ends, reports
<1>8. CASE Certificate
  BY <1>1, <1>8, CertFrame DEF reports
<1>9. CASE Stop \/ Booted
  BY <1>1, <1>9 DEF Stop, Ends, Booted, reports
<1>10. CASE UNCHANGED vars
  BY <1>1, <1>10 DEF vars, reports
<1>11. QED
  BY <1>2, <1>3, <1>4, <1>5, <1>6, <1>7, <1>8, <1>9, <1>10 DEF Next, Process, Report

-----------------------------------------------------------------------------
(* The types, part by part.                                                *)
ProcessTypes ==
    /\ env \in Deployments
    /\ phase \in {"down", "boot", "certificate", "order", "store", "serving"}
    /\ starts \in 0..MaxStarts
PasswordTypes ==
    /\ {password, storedHash} \subseteq Password \cup {Nil, Empty}
    /\ envPassword \in Password \cup {Nil} /\ fromEnv \in BOOLEAN
    /\ promised \in [now : Password \cup {Nil}, next : Password \cup {Nil}]
SessionTypes ==
    /\ live \subseteq Client
    /\ cookie \in [Client -> 0..MaxStarts]
    /\ login \subseteq [client : Client, over : Over]
    /\ answered \in [Client -> {Nil} \cup [start : 1..MaxStarts, over : Over]]
CertTypes ==
    /\ http \in BOOLEAN /\ ready \in BOOLEAN
    /\ https \in {Nil} \cup [fullchain : 0..MaxCert, key : (0..MaxCert) \cup {Empty}]
    /\ challenges \subseteq Domain /\ asked \subseteq Domain
    /\ disk \in [key : (1..MaxCert) \cup {Nil, Empty}, fullchain : (1..MaxCert) \cup {Nil, Empty},
                 cert : (1..MaxCert) \cup {Nil, Empty}]
    /\ issued \in 0..MaxCert /\ aged \subseteq 1..MaxCert
    /\ todo \in {<<>>, <<"fullchain">>, <<"key", "fullchain">>, StoreOrder}
ReportTypes ==
    /\ schedule \in {Nil} \cup 0..(MinutesPerDay - 1)
    /\ now \in 0..MaxMinute /\ lastSent \in {Nil} \cup 0..MaxMinute
    /\ tick \in [Timer -> [step : {"idle", "read", "sending"},
                           saw : {Nil} \cup 0..(MinutesPerDay - 1)]]
    /\ sent \in [0..MaxMinute -> Nat] /\ ran \in [0..MaxMinute -> Nat]

LEMMA Types ==
    TypeOK <=> ProcessTypes /\ PasswordTypes /\ SessionTypes /\ CertTypes /\ ReportTypes
  BY DEF TypeOK, ProcessTypes, PasswordTypes, SessionTypes, CertTypes, ReportTypes

LEMMA TypesPrimed ==
    ProcessTypes' /\ PasswordTypes' /\ SessionTypes' /\ CertTypes' /\ ReportTypes' => TypeOK'
  BY DEF TypeOK, ProcessTypes, PasswordTypes, SessionTypes, CertTypes, ReportTypes

LEMMA KeptTypes ==
    ASSUME TypeOK
    PROVE  /\ UNCHANGED <<env, phase, starts>> => ProcessTypes'
           /\ UNCHANGED <<password, hash, promised>> => PasswordTypes'
           /\ UNCHANGED session => SessionTypes'
           /\ UNCHANGED cert => CertTypes'
           /\ UNCHANGED reports => ReportTypes'
<1>1. UNCHANGED <<env, phase, starts>> => ProcessTypes'
  BY Types DEF ProcessTypes
<1>2. UNCHANGED <<password, hash, promised>> => PasswordTypes'
  BY Types DEF PasswordTypes, hash
<1>3. UNCHANGED session => SessionTypes'
  BY Types DEF SessionTypes, session
<1>4. UNCHANGED cert => CertTypes'
  BY Types DEF CertTypes, cert
<1>5. UNCHANGED reports => ReportTypes'
  BY Types DEF ReportTypes, reports
<1>6. QED
  BY <1>1, <1>2, <1>3, <1>4, <1>5

(* An end of the process, with the disk as it is then.                     *)
LEMMA EndTypes ==
    ASSUME TypeOK, Ends, UNCHANGED <<env, starts, live, cookie, answered, aged, issued>>,
           disk' = disk \/ \E f \in {"key", "cert", "fullchain"} : disk' = [disk EXCEPT ![f] = Empty]
    PROVE  ProcessTypes' /\ SessionTypes' /\ CertTypes'
<1>1. ProcessTypes'
  BY Types DEF ProcessTypes, Ends
<1>2. SessionTypes'
  BY Types DEF SessionTypes, Ends
<1>3. disk' \in [key : (1..MaxCert) \cup {Nil, Empty}, cert : (1..MaxCert) \cup {Nil, Empty},
                 fullchain : (1..MaxCert) \cup {Nil, Empty}]
  BY DEF TypeOK
<1>4. CertTypes'
  BY <1>3, Types DEF CertTypes, Ends
<1>5. QED
  BY <1>1, <1>2, <1>4

LEMMA LoadTypes ==
    ASSUME TypeOK, Load, password' \in {password, Empty}, UNCHANGED promised
    PROVE  PasswordTypes'
<1>1. storedHash' \in Password \cup {Nil, Empty} /\ envPassword' \in Password \cup {Nil}
  BY DEF Load, LoadStoredHash, TypeOK
<1>2. fromEnv' \in BOOLEAN
  BY DEF Load, TypeOK
<1>3. QED
  BY <1>1, <1>2, Types DEF PasswordTypes

LEMMA ProcessTypeStep ==
    ASSUME IInv, Process
    PROVE  TypeOK'
<1> USE BoundAssumption DEF IInv
<1>1. CASE StartServer
  <2>1. ProcessTypes'
    BY <1>1, Types DEF StartServer, ProcessTypes
  <2>2. PasswordTypes'
    <3>1. promised' \in [now : Password \cup {Nil}, next : Password \cup {Nil}]
      BY <1>1 DEF StartServer, TypeOK
    <3>2. QED
      BY <1>1, <3>1, Types, EnvPassword DEF StartServer, PasswordTypes
  <2>3. SessionTypes'
    BY <1>1, Types DEF StartServer, SessionTypes
  <2>4. CertTypes'
    BY <1>1, Types DEF StartServer, CertTypes
  <2>5. ReportTypes'
    <3>1. tick' \in [Timer -> [step : {"idle", "read", "sending"},
                               saw : {Nil} \cup 0..(MinutesPerDay - 1)]]
      BY <1>1 DEF StartServer, Idle
    <3>2. ran' \in [0..MaxMinute -> Nat]
      BY <1>1 DEF StartServer, TypeOK
    <3>3. QED
      BY <1>1, <3>1, <3>2, Types DEF StartServer, ReportTypes
  <2>6. QED
    BY <2>1, <2>2, <2>3, <2>4, <2>5, TypesPrimed
<1>2. CASE Stop
  <2>1. /\ Ends
        /\ UNCHANGED <<env, starts, password, hash, promised, live, cookie, answered, disk,
                       aged, issued, reports>>
    BY <1>2 DEF Stop
  <2>2. ProcessTypes' /\ SessionTypes' /\ CertTypes'
    BY <2>1, EndTypes
  <2>3. QED
    BY <2>1, <2>2, KeptTypes, TypesPrimed
<1>3. CASE Booted
  <2>1. PasswordTypes'
    BY <1>3, LoadTypes DEF Booted
  <2>2. ProcessTypes'
    BY <1>3, Types DEF Booted, ProcessTypes
  <2>3. CertTypes'
    <3>1. https' \in {Nil} \cup [fullchain : 0..MaxCert, key : (0..MaxCert) \cup {Empty}]
      BY <1>3 DEF Booted
    <3>2. QED
      BY <1>3, <3>1, Types DEF Booted, CertTypes
  <2>4. QED
    BY <1>3, <2>1, <2>2, <2>3, KeptTypes, TypesPrimed DEF Booted
<1>4. QED
  BY <1>1, <1>2, <1>3 DEF Process

LEMMA LoginTypeStep ==
    ASSUME IInv, Login
    PROVE  TypeOK'
<1> USE DEF IInv
<1>1. UNCHANGED <<env, phase, starts, password, promised, cert, reports>>
  BY LoginFrame
<1>2. PasswordTypes'
  <2>1. UNCHANGED hash \/ Load
    BY DEF Login, LoginVerified, LoginSaved, LoginFailed, Logout, SessionEnds
  <2>2. QED
    BY <1>1, <2>1, LoadTypes, KeptTypes
<1>3. SessionTypes'
  <2>1. ASSUME NEW c \in Client, live' = live \ {c}, answered' = [answered EXCEPT ![c] = Nil],
               cookie' = cookie \/ cookie' = [cookie EXCEPT ![c] = 0],
               login' = login \/ \E t \in Over : login' = login \cup {[client |-> c, over |-> t]}
        PROVE  SessionTypes'
    <3>1. 0 \in 0..MaxStarts
      BY BoundAssumption
    <3>2. QED
      BY <2>1, <3>1, Types DEF SessionTypes
  <2>2. ASSUME NEW w \in login, LoginSaved(w)
        PROVE  SessionTypes'
    <3>1. w \in [client : Client, over : Over] /\ starts \in 1..MaxStarts
      BY DEF TypeOK, UpFirst, Up
    <3>2. starts \in 0..MaxStarts
      BY DEF TypeOK
    <3>3. answered' \in [Client -> {Nil} \cup [start : 1..MaxStarts, over : Over]]
      BY <2>2, <3>1 DEF LoginSaved, TypeOK
    <3>4. cookie' \in [Client -> 0..MaxStarts]
      BY <2>2, <3>1, <3>2 DEF LoginSaved, TypeOK
    <3>5. QED
      BY <2>2, <3>1, <3>3, <3>4, Types DEF LoginSaved, NewSession, SessionTypes
  <2>3. ASSUME NEW w \in login, LoginFailed(w)
        PROVE  SessionTypes'
    BY <2>3, Types DEF LoginFailed, SessionTypes
  <2>4. QED
    BY <2>1, <2>2, <2>3 DEF Login, LoginVerified, Logout, SessionEnds, Transport, Over
<1>4. QED
  BY <1>1, <1>2, <1>3, KeptTypes, TypesPrimed

LEMMA EditTypeStep ==
    ASSUME IInv, EditPassword
    PROVE  TypeOK'
<1> USE DEF IInv
<1>1. PasswordTypes'
  <2>1. ASSUME NEW c \in Client, NEW t \in Transport, NEW q \in Password, NEW p \in Password,
               SetPassword(c, t, q, p)
        PROVE  PasswordTypes'
    BY <2>1, Types DEF SetPassword, PasswordTypes
  <2>2. ASSUME NEW c \in Client, NEW t \in Transport, NEW q \in Password,
               SetPasswordFails(c, t, q)
        PROVE  PasswordTypes'
    BY <2>2, LoadTypes DEF SetPasswordFails
  <2>3. ASSUME NEW c \in Client, NEW t \in Transport, NEW q \in Password,
               SetPasswordCut(c, t, q)
        PROVE  PasswordTypes'
    BY <2>3, Types DEF SetPasswordCut, PasswordTypes, hash
  <2>4. ASSUME NEW p \in Password, SetByCommand(p)
        PROVE  PasswordTypes'
    <3>1. promised' \in [now : Password \cup {Nil}, next : Password \cup {Nil}]
      BY <2>4 DEF SetByCommand, TypeOK
    <3>2. QED
      BY <2>4, <3>1, Types DEF SetByCommand, PasswordTypes, hash
  <2>5. QED
    BY <2>1, <2>2, <2>3, <2>4 DEF EditPassword
<1>2. ProcessTypes' /\ SessionTypes' /\ CertTypes' /\ ReportTypes'
  <2>1. CASE UNCHANGED <<env, phase, starts, session, cert, reports>>
    BY <2>1, KeptTypes
  <2>2. CASE \E c \in Client, t \in Transport, p \in Password : SetPasswordCut(c, t, p)
    <3>1. /\ Ends
          /\ UNCHANGED <<env, starts, live, cookie, answered, disk, aged, issued, reports>>
      BY <2>2 DEF SetPasswordCut
    <3>2. QED
      BY <3>1, EndTypes, KeptTypes
  <2>3. QED
    BY <2>1, <2>2, EditFrame
<1>3. QED
  BY <1>1, <1>2, TypesPrimed

LEMMA CertTypeStep ==
    ASSUME IInv, Certificate
    PROVE  TypeOK'
<1> USE BoundAssumption DEF IInv
<1>1. PasswordTypes' /\ ReportTypes'
  BY CertFrame, KeptTypes
<1>2. CASE LoadCert
  <2>1. https' \in [fullchain : 0..MaxCert, key : (0..MaxCert) \cup {Empty}]
    <3>1. disk.fullchain \in 1..MaxCert /\ disk.key # Nil
      BY <1>2 DEF LoadCert, HasValidCert
    <3>2. disk.key \in (0..MaxCert) \cup {Empty} /\ disk.fullchain \in 0..MaxCert
      BY <3>1 DEF TypeOK
    <3>3. QED
      BY <1>2, <3>2 DEF LoadCert
  <2>2. CertTypes' /\ ProcessTypes'
    BY <1>2, <2>1, Types DEF LoadCert, CertTypes, ProcessTypes
  <2>3. QED
    BY <1>1, <1>2, <2>2, KeptTypes, TypesPrimed DEF LoadCert, auth
<1>3. CASE CreateOrder
  <2>1. CertTypes' /\ ProcessTypes'
    BY <1>3, Types DEF CreateOrder, Challenged, CertTypes, ProcessTypes
  <2>2. QED
    BY <1>1, <1>3, <2>1, KeptTypes, TypesPrimed DEF CreateOrder, auth
<1>4. CASE OrderValid
  <2>1. CertTypes' /\ ProcessTypes'
    BY <1>4, Types DEF OrderValid, CertTypes, ProcessTypes
  <2>2. QED
    BY <1>1, <1>4, <2>1, KeptTypes, TypesPrimed DEF OrderValid, auth
<1>5. phase = "store" => Head(todo) \in {"key", "cert", "fullchain"} /\ Tail(todo) \in
                            {<<>>, <<"fullchain">>, <<"key", "fullchain">>}
  <2>1. /\ Head(StoreOrder) = "cert" /\ Tail(StoreOrder) = <<"key", "fullchain">>
        /\ Head(<<"key", "fullchain">>) = "key" /\ Tail(<<"key", "fullchain">>) = <<"fullchain">>
        /\ Head(<<"fullchain">>) = "fullchain" /\ Tail(<<"fullchain">>) = <<>>
    BY DEF StoreOrder
  <2>2. phase = "store" => \/ todo = StoreOrder \/ todo = <<"key", "fullchain">>
                           \/ todo = <<"fullchain">>
    BY Zenon DEF TypeOK, CertInv
  <2>3. QED
    BY <2>1, <2>2, Zenon
<1>6. CASE OrderFails
  <2>1. disk' = disk \/ \E f \in {"key", "cert", "fullchain"} : disk' = [disk EXCEPT ![f] = Empty]
    BY <1>5, <1>6 DEF OrderFails
  <2>2. /\ GivesUp
        /\ UNCHANGED <<env, starts, password, hash, promised, live, cookie, answered, aged,
                       issued, reports>>
    BY <1>6 DEF OrderFails
  <2>3. CASE Ends
    <3>1. ProcessTypes' /\ SessionTypes' /\ CertTypes'
      BY <2>1, <2>2, <2>3, EndTypes
    <3>2. QED
      BY <1>1, <3>1, TypesPrimed
  <2>4. CASE ~Ends
    <3>1. /\ phase' = "serving" /\ http' = TRUE /\ challenges' = {} /\ asked' = {} /\ todo' = <<>>
          /\ UNCHANGED <<login, https, ready>>
      BY <2>2, <2>4 DEF GivesUp
    <3>2. disk' \in [key : (1..MaxCert) \cup {Nil, Empty}, cert : (1..MaxCert) \cup {Nil, Empty},
                     fullchain : (1..MaxCert) \cup {Nil, Empty}]
      BY <2>1 DEF TypeOK
    <3>3. ProcessTypes' /\ CertTypes' /\ SessionTypes'
      BY <2>2, <3>1, <3>2, Types DEF CertTypes, ProcessTypes, SessionTypes
    <3>4. QED
      BY <1>1, <3>3, TypesPrimed
  <2>5. QED
    BY <2>3, <2>4
<1>7. CASE StoreFile
  <2>1. /\ phase = "store" /\ issued \in 1..MaxCert /\ issued \in 0..MaxCert
        /\ Head(todo) \in {"key", "cert", "fullchain"}
        /\ disk' = [disk EXCEPT ![Head(todo)] = issued]
        /\ todo' \in {<<>>, <<"fullchain">>, <<"key", "fullchain">>}
    BY <1>5, <1>7 DEF StoreFile, CertInv
  <2>2. disk' \in [key : (1..MaxCert) \cup {Nil, Empty}, cert : (1..MaxCert) \cup {Nil, Empty},
                   fullchain : (1..MaxCert) \cup {Nil, Empty}]
    BY <2>1 DEF TypeOK
  <2>3. /\ http' \in BOOLEAN /\ phase' \in {"store", "serving"}
        /\ https' \in {Nil} \cup [fullchain : 0..MaxCert, key : (0..MaxCert) \cup {Empty}]
    <3>1. CASE UNCHANGED <<phase, http, https>>
      BY <2>1, <3>1 DEF TypeOK
    <3>2. CASE /\ phase' = "serving" /\ http' = TRUE
               /\ https' = [fullchain |-> issued, key |-> issued]
      BY <2>1, <3>2
    <3>3. QED
      BY <1>7, <3>1, <3>2 DEF StoreFile
  <2>4. CertTypes' /\ ProcessTypes'
    BY <1>7, <2>1, <2>2, <2>3, Types DEF StoreFile, CertTypes, ProcessTypes
  <2>5. QED
    BY <1>1, <1>7, <2>4, KeptTypes, TypesPrimed DEF StoreFile, auth
<1>8. CASE StoreCut
  <2>1. /\ Ends /\ UNCHANGED <<env, starts, live, cookie, answered, aged, issued>>
        /\ \E f \in {"key", "cert", "fullchain"} : disk' = [disk EXCEPT ![f] = Empty]
    BY <1>5, <1>8 DEF StoreCut
  <2>2. ProcessTypes' /\ SessionTypes' /\ CertTypes'
    BY <2>1, EndTypes
  <2>3. QED
    BY <1>1, <2>2, TypesPrimed
<1>9. CASE HttpsReady
  <2>1. CertTypes' /\ ProcessTypes'
    BY <1>9, Types DEF HttpsReady, CertTypes, ProcessTypes
  <2>2. QED
    BY <1>1, <1>9, <2>1, KeptTypes, TypesPrimed DEF HttpsReady, auth
<1>10. CASE \E d \in Domain : Validated(d)
  <2>1. CertTypes' /\ ProcessTypes'
    BY <1>10, Types DEF Validated, CertTypes, ProcessTypes
  <2>2. QED
    BY <1>1, <1>10, <2>1, KeptTypes, TypesPrimed DEF Validated, auth
<1>11. CASE \E i \in 1..issued : Ages(i)
  <2>1. aged' \subseteq 1..MaxCert
    BY <1>11 DEF Ages, TypeOK
  <2>2. CertTypes' /\ ProcessTypes'
    BY <1>11, <2>1, Types DEF Ages, CertTypes, ProcessTypes
  <2>3. QED
    BY <1>1, <1>11, <2>2, KeptTypes, TypesPrimed DEF Ages, auth
<1>12. QED
  BY <1>2, <1>3, <1>4, <1>6, <1>7, <1>8, <1>9, <1>10, <1>11 DEF Certificate

LEMMA ReportTypeStep ==
    ASSUME IInv, Report
    PROVE  TypeOK'
<1> USE BoundAssumption DEF IInv
<1>1. ProcessTypes' /\ PasswordTypes' /\ SessionTypes' /\ CertTypes'
  BY ReportFrame, KeptTypes DEF auth
<1>2. ASSUME NEW t \in Timer, TickReads(t)
      PROVE  ReportTypes'
  <2>1. tick' \in [Timer -> [step : {"idle", "read", "sending"},
                             saw : {Nil} \cup 0..(MinutesPerDay - 1)]]
    BY <1>2 DEF TickReads, TypeOK
  <2>2. QED
    BY <1>2, <2>1, Types DEF TickReads, ReportTypes
<1>3. ASSUME NEW t \in Timer, TickSends(t)
      PROVE  ReportTypes'
  <2>1. tick' \in [Timer -> [step : {"idle", "read", "sending"},
                             saw : {Nil} \cup 0..(MinutesPerDay - 1)]]
    BY <1>3 DEF TickSends, TypeOK, Idle
  <2>2. sent' \in [0..MaxMinute -> Nat] /\ lastSent' \in {Nil} \cup 0..MaxMinute
    BY <1>3 DEF TickSends, Marks, TypeOK
  <2>3. QED
    BY <1>3, <2>1, <2>2, Types DEF TickSends, ReportTypes
<1>4. ASSUME NEW t \in Timer, TickEnds(t)
      PROVE  ReportTypes'
  <2>1. tick' \in [Timer -> [step : {"idle", "read", "sending"},
                             saw : {Nil} \cup 0..(MinutesPerDay - 1)]]
    BY <1>4 DEF TickEnds, TypeOK, Idle
  <2>2. QED
    BY <1>4, <2>1, Types DEF TickEnds, ReportTypes
<1>5. ASSUME EditSchedule PROVE ReportTypes'
  BY <1>5, Types DEF EditSchedule, ReportTypes
<1>6. ASSUME PassMinute PROVE ReportTypes'
  <2>1. ran' \in [0..MaxMinute -> Nat] /\ now' \in 0..MaxMinute
    BY <1>6 DEF PassMinute, TypeOK
  <2>2. QED
    BY <1>6, <2>1, Types DEF PassMinute, ReportTypes
<1>7. ReportTypes'
  BY <1>2, <1>3, <1>4, <1>5, <1>6 DEF Report
<1>8. QED
  BY <1>1, <1>7, TypesPrimed

LEMMA TypeStep ==
    ASSUME IInv, [Next]_vars
    PROVE  TypeOK'
<1>1. CASE UNCHANGED vars
  BY <1>1, KeptTypes, TypesPrimed DEF IInv, vars, auth
<1>2. QED
  BY <1>1, ProcessTypeStep, LoginTypeStep, EditTypeStep, CertTypeStep, ReportTypeStep DEF Next

-----------------------------------------------------------------------------
(* The invariant holds in every state the process reaches.                 *)
LEMMA Invariance == Spec => []IInv
<1>1. IInv /\ [Next]_vars => IInv'
  BY TypeStep, CertStep, PasswordStep, SessionStep, ReportStep DEF IInv
<1>2. QED
  BY InitInv, <1>1, PTL DEF Spec

(* Every variable of the process has its type.                             *)
THEOREM TypeCorrect == Spec => []TypeOK
<1>1. IInv => TypeOK
  BY DEF IInv
<1>2. QED
  BY <1>1, Invariance, PTL

(* The password asked for is the one last reported as set, whatever fails  *)
(* when it is written and wherever the process ends.                       *)
THEOREM PasswordIsKept == Spec => []PasswordKept
<1>1. IInv => PasswordKept
  BY DEF IInv, PasswordInv, InForce, UpFirst, Up, Listening, PasswordKept, Transport
<1>2. QED
  BY <1>1, Invariance, PTL

(* A login that was answered as good lets the browser in, until it logs    *)
(* out, the session ends, or a start draws another secret.                 *)
THEOREM LoginIsHonoured == Spec => []LoginHonoured
<1>1. ASSUME IInv, NEW c \in Client, NEW t \in Transport, answered[c] # Nil,
             env.secret \/ answered[c].start = starts,
             TakesCookie(answered[c].over), TakesCookie(t)
      PROVE  AuthMiddleware(c, t)
  <2>1. c \in live /\ cookie[c] = answered[c].start
    BY <1>1 DEF IInv, SessionInv
  <2>2. answered[c].start \in 1..MaxStarts
    BY <1>1 DEF IInv, TypeOK
  <2>3. cookie[c] # 0
    BY <2>1, <2>2, BoundAssumption
  <2>4. QED
    BY <1>1, <2>1, <2>3 DEF AuthMiddleware, Authenticated, Honoured
<1>2. IInv => LoginHonoured
  BY <1>1 DEF LoginHonoured
<1>3. QED
  BY <1>2, Invariance, PTL

(* The pair HTTPS is served with belongs together, and so does the pair a  *)
(* start would accept, wherever the writing of the files was cut off.      *)
THEOREM CertMatches == Spec => []CertMatchesKey
<1>1. IInv => CertMatchesKey
  BY DEF IInv, CertInv, CertMatchesKey
<1>2. QED
  BY <1>1, Invariance, PTL

(* The authority finds the answer of the challenge as long as it has a     *)
(* domain to check.                                                        *)
THEOREM ChallengeIsAnswered == Spec => []ChallengeAnswered
<1>1. IInv => ChallengeAnswered
  BY DEF IInv, CertInv, TypeOK, ChallengeAnswered, Redirects
<1>2. QED
  BY <1>1, Invariance, PTL

(* Ticks that overlap send one report a minute for each process that runs. *)
THEOREM OneReportSent == Spec => []OneReport
<1>1. IInv => OneReport
  BY DEF IInv, ReportInv, OneReport
<1>2. QED
  BY <1>1, Invariance, PTL
=============================================================================
