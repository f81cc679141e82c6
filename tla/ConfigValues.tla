---------------------------- MODULE ConfigValues ----------------------------
(***************************************************************************)
(* What becomes of a value between the settings forms of the web client,   *)
(* the routes of the web server, the two configuration files and the DNS   *)
(* service: the form's validation, the routes that read and write the      *)
(* merged configuration, its export and import.                            *)
(*                                                                         *)
(* The fields of a configuration do not depend on each other, so there is  *)
(* one field here, of any of the kinds that the code treats differently.   *)
(* A number is a numeral, a duration or an address a name for a class of   *)
(* texts; "bad" is a text that means nothing to anybody and "loose" an     *)
(* address that only the form refuses.  Who may write when is in           *)
(* OverrideFile.                                                           *)
(***************************************************************************)
EXTENDS Naturals, Sequences, SequencesExt

CONSTANTS
    Absent,  (* a key that is not there                                    *)
    MaxRows  (* bound: the rows somebody types into a list                 *)

ASSUME RowsAssumption == MaxRows \in Nat

Flags == {"true", "false"}
Numerals == {"0", "4", "10", "99"}
Durations == {"5s", "9s"}

(* The texts, each for its class.                                          *)
Word == Flags \cup Numerals \cup Durations \cup
        {"", "64", "0s", "bad", "loose", "debug", "warning", "odd", "here", "r1", "r2", "***",
         "pw", "own", "nxdomain", "ip", "n", "N", "u", "U", "host", "tls", "udp", "A", "TXT",
         "v", "d", "D", "e", "s"}

Filled == Word \ {""}

(* Fields of one text ...                                                  *)
Texts == {"timeout", "interval", "cap", "backoff", "listeners", "lru_size",
          "max_keys", "max_inflight", "min_hits", "hot_rate", "disk",
          "reuse_port", "serve_stale", "level", "hostname", "address",
          "password", "blocked"}
(* ... and of more.                                                        *)
Lists == {"clients", "sources", "upstreams", "records", "domains"}
Kind == Texts \cup Lists \cup {"window", "pause", "family", "hook", "usage"}

Numbers == {"listeners", "lru_size", "max_keys", "max_inflight", "min_hits", "hot_rate"}

Source(n, u) == [name |-> n, url |-> u]
Client(n, i) == [name |-> n, ip |-> i]
Upstream(a, p) == [address |-> a, protocol |-> p]
Record(n, t, v) == [name |-> n, type |-> t, value |-> v]
Pause(on, s, e, ds) == [on |-> on, start |-> s, end |-> e, days |-> ds]
Family(on, s, e, ss, ds) == [on |-> on, start |-> s, end |-> e, services |-> ss, domains |-> ds]
Hook(l, ts) == [limit |-> l, targets |-> ts]
Usage(on, u, t) == [on |-> on, url |-> u, time |-> t]
Window(on, w) == [on |-> on, window |-> w]

(* Lists of such rows.                                                     *)
Rows(S) == UNION {[1 .. n -> S] : n \in 0 .. MaxRows}

(* A time is malformed (0), 9:00 or 17:00.                                 *)
Times == {0, 9, 17}

(* What a field can be in a form.                                          *)
Typed(k) ==
    CASE k \in {"timeout", "interval", "cap"} -> Durations \cup {"", "bad"}
      [] k = "backoff" -> {"", "0", "5s", "9s", "bad"}
      [] k \in Numbers \cup {"disk"} -> Numerals \cup {"", "bad"}
      [] k \in {"reuse_port", "serve_stale"} -> Flags
      [] k = "level" -> {"debug", "warning"}
      [] k = "hostname" -> {"", "here"}
      [] k = "address" -> {"", "r1", "r2"}
      [] k = "password" -> {"", "***", "pw"}
      [] k = "blocked" -> {"nxdomain", "ip", "bad"}
      [] k = "window" -> [on : Flags, window : {"", "0", "5s", "bad"}]
      [] k = "clients" -> Rows([name : {"", "n"}, ip : {"", "n"}])
      [] k = "sources" -> Rows([name : {"", "n"}, url : {"", "u", "U", "bad"}])
      [] k = "upstreams" -> Rows([address : {"", "host", "tls", "loose", "bad"},
                                     protocol : {"udp", "tls"}])
      [] k = "records" -> Rows({Record("", "A", ""), Record("n", "A", "v"), Record("N", "A", "v"),
                                Record("n", "TXT", "v"), Record("n", "A", "bad"), Record("n", "A", "")})
      [] k = "domains" -> {ds \in Rows({"d", "e"}) : IsInjective(ds)}
      [] k = "pause" -> [on : Flags, start : Times, end : Times, days : {{}, {1}, 1 .. 5}]
      [] k = "family" -> [on : Flags, start : {9, 17}, end : {9, 17},
                          services : {{}, {"s"}}, domains : {{}}]
      [] k = "hook" -> [limit : {"0", "10", "99"}, targets : Rows({"", "u"})]
      [] k = "usage" -> [on : Flags, url : {"", "u", "bad"}, time : {0, 9}]

(* What a field that is there can be in a configuration file.              *)
InFile(k) ==
    CASE k \in Numbers \cup {"disk"} -> Numerals \cup {"64"}
      [] k = "cap" -> Durations
      [] k \in {"reuse_port", "serve_stale"} -> Flags
      [] k = "password" -> {"pw", "own"}
      [] k = "clients" -> Seq([name : Filled, ip : Filled])
      [] k = "sources" -> Seq([name : Word, url : Filled])
      [] k = "upstreams" -> Seq([address : Filled, protocol : Word])
      [] k = "records" -> Seq([name : Filled, type : Word, value : Filled])
      [] k = "domains" -> Seq(Filled)
      [] k = "pause" -> [on : Flags, start : Times, end : Times, days : {Absent} \cup SUBSET (0 .. 6)]
      [] k = "family" -> [on : Flags, start : Times, end : Times,
                          services : SUBSET Word, domains : SUBSET Word]
      [] k = "hook" -> [limit : Word, targets : Seq(Filled)]
      [] k = "usage" -> [on : {"true"}, url : Word, time : Times] \cup {Usage("false", "", 9)}
      [] OTHER -> Word

ASSUME AbsentAssumption == /\ \A k \in Kind : Absent \notin InFile(k)
                           /\ \A ds \in SUBSET (0 .. 6) : ds # Absent

(* What somebody who edits a file by hand may have written there.          *)
ByHand(k) ==
    {Absent} \cup
    CASE k = "timeout" -> {"", "5s", "9s"}
      [] k \in {"interval", "cap"} -> {"5s", "9s"}
      [] k = "backoff" -> {"0", "9s"}
      [] k \in Numbers \cup {"disk"} -> Numerals
      [] k = "level" -> {"debug", "odd"}
      [] k = "address" -> {"r1", "r2"}
      [] k = "password" -> {"pw", "own"}
      [] k = "blocked" -> {"nxdomain", "ip"}
      [] k = "window" -> {"0", "0s", "9s"}
      [] k = "clients" -> {<<>>, <<Client("n", "n")>>}
      [] k = "sources" -> {<<Source("", "u")>>, <<Source("n", "u")>>}
      [] k = "upstreams" -> {<<Upstream("host", "udp")>>, <<Upstream("tls", "tls")>>}
      [] k = "records" -> {<<>>, <<Record("N", "A", "v")>>}
      [] k = "domains" -> {<<>>, <<"d", "d">>, <<"D">>}
      [] k = "pause" -> {Pause("true", 9, 17, {1}), Pause("true", 9, 17, Absent),
                         Pause("false", 17, 9, Absent)}
      [] k = "family" -> [on : {"true"}, start : {9}, end : {17},
                          services : {{}, {"s"}}, domains : {{}, {"s"}}]
      [] k = "hook" -> [limit : {"0", "99"}, targets : {<<>>, <<"u">>}]
      [] k = "usage" -> {Usage("true", "u", 9)}
      [] OTHER -> Typed(k)

VARIABLES
    field,    (* the kind of the field                                     *)
    default,  (* the field in the default configuration file               *)
    override, (* the field in the override file                            *)
    env,      (* what the environment says of it                           *)
    form,     (* the field on the page                                     *)
    asked,    (* what the last save that nothing followed has sent         *)
    loaded,   (* the page shows the field as the server reads it now       *)
    refused,  (* the server has refused what the form had let through      *)
    exported  (* an export: its text, and what the service ran             *)

valueVars == <<field, default, override, env, form, asked, loaded, refused, exported>>

Lower(t) == CASE t = "N" -> "n" [] t = "U" -> "u" [] t = "D" -> "d" [] OTHER -> t
Or(v, fallback) == IF v \in {Absent, ""} THEN fallback ELSE v
Given(v, fallback) == IF v = Absent THEN fallback ELSE v

(* The rows at those places, in their order.                               *)
Keep(rows, places) ==
    LET kept[n \in 0 .. Len(rows)] ==
          IF n = 0 THEN <<>>
          ELSE IF n \in places THEN Append(kept[n - 1], rows[n]) ELSE kept[n - 1]
    IN  kept[Len(rows)]

(* The first of those with the same key, and that there is one of each.    *)
Distinct(rows, key) == Keep(rows, {n \in DOMAIN rows : \A i \in 1 .. n - 1 : key[i] # key[n]})
NoTwo(key) == \A i, j \in DOMAIN key : key[i] = key[j] => i = j

(* Sources named after their URL, records in small letters.                *)
Named(rows) == [i \in DOMAIN rows |-> Source(Or(rows[i].name, rows[i].url), rows[i].url)]
Lowered(rows) ==
    [i \in DOMAIN rows |-> Record(Lower(rows[i].name), rows[i].type, rows[i].value)]

NoPause == Pause("false", Absent, Absent, Absent)
NoFamily == Family("false", Absent, Absent, Absent, Absent)
UsualPause == Pause("false", 9, 17, 1 .. 5)
UsualFamily == Family("false", 9, 17, {}, {})

-----------------------------------------------------------------------------
(* The forms: what their validation lets through, and what they then send. *)

(* validateSystemConfig, field by field.                                   *)
AcceptedText(k, t) ==
    CASE k \in {"timeout", "interval", "cap"} -> t \in Durations \cup {""}
      [] k = "listeners" -> t \in {"", "4", "10"}
      [] k = "max_inflight" -> t \in {"", "4", "10", "99"}
      [] k \in (Numbers \cup {"disk"}) \ {"listeners", "max_inflight"} -> t \in Numerals \cup {""}
      [] OTHER -> t # "bad" \/ k = "backoff"

AcceptedWindow(f) == f.on = "true" => f.window \in Durations

Touched(rows) ==
    Keep(rows, {i \in DOMAIN rows : \E x \in DOMAIN rows[i] \ {"type", "protocol"} : rows[i][x] # ""})

(* validateBlocklistForm                                                   *)
AcceptedSources(rows) ==
    LET ts == Touched(rows)
    IN  /\ ts # <<>>
        /\ \A r \in ToSet(ts) : r.url \in {"u", "U"}
        /\ NoTwo([i \in DOMAIN ts |-> Lower(ts[i].url)])

(* Mutant of AcceptedUpstreams: addresses are not looked at.               *)
AcceptedUpstreamsAny(rows) ==
    LET ts == Touched(rows)
    IN  ts # <<>> /\ NoTwo(ts)

(* validateUpstreamAddress                                                 *)
ValidAddress(a) == a \in {"host", "tls"}

(* validateUpstreamsForm: the protocol is the one that the address stands  *)
(* for.                                                                    *)
AcceptedUpstreams(rows) ==
    LET ts == Touched(rows)
    IN  /\ ts # <<>>
        /\ \A r \in ToSet(ts) : /\ ValidAddress(r.address)
                                /\ r.protocol = "tls" <=> r.address = "tls"
        /\ NoTwo(ts)

(* validateLocalRecordsForm: of the values only "v" is an address.         *)
AcceptedRecords(rows) ==
    LET ts == Touched(rows)
    IN  /\ \A r \in ToSet(ts) : /\ r.name # "" /\ r.value # ""
                                /\ r.type = "A" => r.value = "v"
        /\ NoTwo([i \in DOMAIN ts |-> <<Lower(ts[i].name), ts[i].type>>])

WellOrdered(f) == f.start # 0 /\ f.end # 0 /\ f.start < f.end

(* validateScheduledPauseForm                                              *)
AcceptedPause(f) == f.on = "true" => WellOrdered(f)

(* validateFamilyTimeForm                                                  *)
AcceptedFamily(f) == f.on = "true" => WellOrdered(f) /\ f.services # {}

Accepted(k, f) ==
    CASE k \in Texts -> AcceptedText(k, f)
      [] k = "window" -> AcceptedWindow(f)
      [] k = "sources" -> AcceptedSources(f)
      [] k = "upstreams" -> AcceptedUpstreams(f)
      [] k = "records" -> AcceptedRecords(f)
      [] k = "pause" -> AcceptedPause(f)
      [] k = "family" -> AcceptedFamily(f)
      [] OTHER -> TRUE

(* The body that saveBlocklists, saveUpstreams, saveLocalRecords,          *)
(* saveResponse, saveSystemConfig or the Integrations page put together.   *)
Sent(k, f) ==
    CASE k = "backoff" -> Or(f, "5s")
      [] k = "sources" -> Named(Touched(f))
      [] k = "upstreams" -> Touched(f)
      [] k = "records" -> Lowered(Touched(f))
      [] k = "pause" -> IF f.on = "true" THEN f ELSE NoPause
      [] k = "family" -> IF f.on = "true" THEN f ELSE NoFamily
      [] OTHER -> f
-----------------------------------------------------------------------------
(* The server: what the routes show of a configuration ...                 *)

ReadText(k, m, e) ==
    CASE k \in {"timeout", "interval", "backoff"} -> Or(m, "5s")
      [] k \in Numbers -> Given(m, "10")
      [] k \in {"cap", "hostname"} -> Or(m, "")
      [] k = "disk" -> Given(e, Given(m, ""))
      [] k = "address" -> Given(e, Or(m, "r1"))
      [] k = "reuse_port" -> IF m = "true" THEN m ELSE "false"
      [] k = "serve_stale" -> IF m = "false" THEN m ELSE "true"
      [] k = "level" -> IF m \in {"debug", "warning"} THEN m ELSE "warning"
      [] k = "password" -> IF Or(m, "") = "" THEN "" ELSE "***"
      [] k = "blocked" -> Or(m, "nxdomain")

ReadWindow(m) ==
    Window(IF m \in {Absent, "", "0", "0s"} THEN "false" ELSE "true", Given(m, "0"))

(* GET /api/blocklists, and the page's defaults.                           *)
ReadPause(m) ==
    IF m = Absent THEN UsualPause
    ELSE [m EXCEPT !.days = IF @ = Absent THEN 1 .. 5 ELSE @]

ReadFamily(m) == IF m = Absent THEN UsualFamily ELSE [m EXCEPT !.domains = {}]

(* GET /api/webhooks                                                       *)
ReadHook(m) ==
    IF m = Absent THEN Hook("10", <<>>)
    ELSE [m EXCEPT !.limit = IF @ = "0" THEN "10" ELSE @]

Read(k, m, e) ==
    CASE k \in Texts -> ReadText(k, m, e)
      [] k = "window" -> ReadWindow(m)
      [] k = "pause" -> ReadPause(m)
      [] k = "family" -> ReadFamily(m)
      [] k = "hook" -> ReadHook(m)
      [] k = "usage" -> Given(m, Usage("false", "", 9))
      [] OTHER -> Given(m, <<>>)

(* ... what they answer 400 to ...                                         *)
RefusedBlocklists(k, b) ==
    \/ k = "sources" /\ \A r \in ToSet(b) : r.url = ""
    \/ k \in {"pause", "family"} /\ b.on = "true" /\ ~WellOrdered(b)
    \/ k = "family" /\ b.on = "true" /\ b.services = {} /\ b.domains = {}

RefusedUpstreams(rows) ==
    (\A r \in ToSet(rows) : r.address = "") \/ \E r \in ToSet(rows) : r.address = "bad"

RefusedUsage(b) == b.on = "true" /\ (b.time = 0 \/ b.url \in {"", "bad"})

Refused(k, b) ==
    \/ RefusedBlocklists(k, b)
    \/ k = "upstreams" /\ RefusedUpstreams(b)
    \/ k \in {"backoff", "blocked"} /\ b = "bad"
    \/ k = "usage" /\ RefusedUsage(b)

(* ... and what they make of a body, over what the override file has.      *)

(* Mutant of StoredNumber: "|| old value", where zero is a value.          *)
StoredNumberTruthy(k, b, o) == IF b \in {"", "bad", "0"} THEN Given(o, "10") ELSE b

(* parseInt(...) || n, and the fields that only a valid number replaces.   *)
StoredNumber(k, b, o) ==
    CASE k = "listeners" -> IF b \in {"", "bad", "0"} THEN "10" ELSE IF b = "99" THEN "64" ELSE b
      [] k = "lru_size" -> IF b \in {"", "bad", "0"} THEN "10" ELSE b
      [] k = "max_keys" -> IF b = "" THEN Given(o, "10") ELSE IF b = "bad" THEN "10" ELSE b
      [] k = "max_inflight" -> IF b \in Numerals \ {"0"} THEN b ELSE o
      [] k \in {"min_hits", "hot_rate"} -> IF b \in Numerals THEN b ELSE o

StoredText(k, b, o) ==
    CASE k = "timeout" -> Or(b, "5s")
      [] k = "interval" -> Or(b, o)
      [] k = "cap" -> Or(b, Absent)
      [] k = "disk" -> IF b \in Numerals \ {"0"} THEN b ELSE Absent
      [] k = "address" -> Or(b, "r1")
      [] k = "level" -> IF b \in {"debug", "warning"} THEN b ELSE Or(o, "warning")
      [] OTHER -> b

StoredWindow(b, o) ==
    IF b.on = "false" THEN "0" ELSE IF b.window \in {"", "0", "0s"} THEN o ELSE b.window

(* client_identification: rows without an address or a name are dropped.   *)
StoredClients(rows) == Keep(rows, {i \in DOMAIN rows : rows[i].ip # "" /\ rows[i].name # ""})

StoredUpstreams(rows) == Keep(rows, {i \in DOMAIN rows : rows[i].address # ""})

(* normalizeSources                                                        *)
StoredSources(rows) ==
    LET us == Keep(rows, {i \in DOMAIN rows : rows[i].url # ""})
    IN  Named(Distinct(us, [i \in DOMAIN us |-> us[i].url]))

(* normalizeDomains                                                        *)
StoredDomains(ds) ==
    LET ls == [i \in DOMAIN ds |-> Lower(ds[i])]
        ws == Keep(ls, {i \in DOMAIN ls : ls[i] # ""})
    IN  Distinct(ws, ws)

(* normalizeLocalRecords                                                   *)
StoredRecords(rows) ==
    LET rs == Keep(rows, {i \in DOMAIN rows : rows[i].name # "" /\ rows[i].value # ""})
    IN  Lowered(Distinct(rs, [i \in DOMAIN rs |-> <<Lower(rs[i].name), rs[i].type>>]))

(* Mutant of StoredPause: the days are not stored.                         *)
StoredPauseWithoutDays(b) ==
    IF b.on = "true" THEN [b EXCEPT !.days = Absent] ELSE Pause("false", 9, 17, {})

(* normalizeScheduledPause                                                 *)
StoredPause(b) == IF b.on = "true" THEN b ELSE Pause("false", 9, 17, {})

(* normalizeFamilyTime: the pages send no domains.                         *)
StoredFamily(b) == IF b.on = "true" THEN b ELSE UsualFamily

(* PUT /api/webhooks                                                       *)
StoredHook(b) == [b EXCEPT !.targets = Keep(@, {i \in DOMAIN @ : @[i] # ""})]

(* normalizeUsageStatsSchedule                                             *)
StoredUsage(b) == IF b.on = "true" THEN b ELSE Usage("false", "", 9)

Stored(k, b, o) ==
    CASE k \in Numbers -> StoredNumber(k, b, o)
      [] k \in Texts \ Numbers -> StoredText(k, b, o)
      [] k = "window" -> StoredWindow(b, o)
      [] k = "clients" -> StoredClients(b)
      [] k = "sources" -> StoredSources(b)
      [] k = "upstreams" -> StoredUpstreams(b)
      [] k = "records" -> StoredRecords(b)
      [] k = "domains" -> StoredDomains(b)
      [] k = "pause" -> StoredPause(b)
      [] k = "family" -> StoredFamily(b)
      [] k = "hook" -> StoredHook(b)
      [] k = "usage" -> StoredUsage(b)
-----------------------------------------------------------------------------
(* The configuration as a whole.                                           *)

(* mergeDeep, at one field.                                                *)
Merge(base, over) == Given(over, base)

(* Mutant of RemovePasswordFields: a password is left.                     *)
RemovePasswordFieldsNot(k, v) == v

RemovePasswordFields(k, v) == IF k = "password" THEN Absent ELSE v

(* removeInstanceSpecificDetails                                           *)
RemoveInstanceDetails(k, v) == IF k = "hostname" THEN Absent ELSE v

(* redactConfig: what the configuration viewer shows.                      *)
Redacted(k, v) == IF k = "password" /\ v # Absent THEN "***" ELSE v

(* Mutant of Differences: what the default file has, too, is left out.     *)
DifferencesOfNew(base, over) == IF base = Absent THEN over ELSE Absent

(* getConfigDifferences                                                    *)
Differences(base, over) == IF over = base THEN Absent ELSE over

(* What the DNS service runs with: the environment, what it has loaded, or *)
(* its own default.  A pause without days is for every day.                *)
Runs(k, m, e) ==
    IF e # Absent THEN e ELSE
    CASE k \in {"timeout", "interval", "backoff"} -> Or(m, "5s")
      [] k \in {"listeners", "hot_rate"} -> IF m \in {Absent, "0"} THEN "auto" ELSE m
      [] k \in Numbers \ {"listeners", "hot_rate"} -> IF m \in {Absent, "0"} THEN "10" ELSE m
      [] k \in {"cap", "hostname", "password"} -> Or(m, "")
      [] k = "disk" -> Given(m, "0")
      [] k = "address" -> Or(m, "r1")
      [] k \in {"reuse_port", "serve_stale"} -> Given(m, "true")
      [] k = "level" -> IF m = "debug" THEN m ELSE "warning"
      [] k = "blocked" -> Or(m, "nxdomain")
      [] k = "window" -> IF m \in {Absent, "", "0", "0s"} THEN "0" ELSE m
      [] k = "sources" -> {r.url : r \in ToSet(Given(m, <<>>))}
      [] k = "domains" -> {Lower(d) : d \in ToSet(Given(m, <<>>))}
      [] k = "records" -> {Record(Lower(r.name), r.type, r.value) : r \in ToSet(Given(m, <<>>))}
      [] k \in {"clients", "upstreams"} -> Given(m, <<>>)
      [] k = "pause" -> IF m = Absent \/ m.on = "false" THEN NoPause
                        ELSE [m EXCEPT !.days = IF @ \in {Absent, {}} THEN 0 .. 6 ELSE @]
      [] k = "family" -> IF m = Absent \/ m.on = "false" THEN NoFamily ELSE m
      [] k = "hook" -> ReadHook(m)
      [] k = "usage" -> Given(m, Usage("false", "", 9))

Effective == Merge(default, override)
Now == Read(field, Effective, env)

ValueInit ==
    /\ field \in Kind
    /\ default \in ByHand(field)
    /\ override \in ByHand(field)
    /\ env \in {Absent} \cup (IF field = "disk" THEN {"4"} ELSE IF field = "address" THEN {"r2"} ELSE {})
    /\ form = Now
    /\ asked = Absent
    /\ loaded = TRUE
    /\ refused = FALSE
    /\ exported = Absent

(* The page is opened again.                                               *)
Load ==
    /\ form' = Now
    /\ loaded' = TRUE
    /\ refused' = FALSE
    /\ UNCHANGED <<field, default, override, env, asked, exported>>

Edit(v) ==
    /\ form' = v
    /\ loaded' = FALSE
    /\ refused' = FALSE
    /\ UNCHANGED <<field, default, override, env, asked, exported>>

(* Save: the form's validation, the body, the route.  The route writes the *)
(* whole file without its passwords.                                       *)
Save ==
    LET b == Sent(field, form)
    IN  /\ Accepted(field, form)
        /\ IF Refused(field, b)
           THEN refused' = TRUE /\ UNCHANGED <<override, asked, loaded>>
           ELSE /\ override' = RemovePasswordFields(field, Stored(field, b, override))
                /\ asked' = b
                /\ loaded' = FALSE
                /\ refused' = FALSE
        /\ UNCHANGED <<field, default, env, form, exported>>

(* GET /api/config/export                                                  *)
Export ==
    /\ exported' = [doc |-> RemoveInstanceDetails(field,
                               RemovePasswordFields(field, Differences(default, override))),
                    runs |-> Runs(field, Effective, Absent)]
    /\ UNCHANGED <<field, default, override, env, form, asked, loaded, refused>>

(* POST /api/config/import, of an export or of what the viewer shows.      *)
Import(doc) ==
    /\ override' = RemovePasswordFields(field, Merge(override, doc))
    /\ asked' = Absent
    /\ loaded' = FALSE
    /\ UNCHANGED <<field, default, env, form, refused, exported>>

(* Another instance, of the same release, with nothing configured yet.     *)
NewInstance ==
    /\ override' = Absent
    /\ asked' = Absent
    /\ loaded' = FALSE
    /\ UNCHANGED <<field, default, env, form, refused, exported>>

ImportExport == exported # Absent /\ Import(exported.doc)

ValueNext ==
    \/ Load
    \/ \E v \in Typed(field) : Edit(v)
    \/ Save
    \/ Export
    \/ ImportExport
    \/ Import(Redacted(field, Effective))
    \/ NewInstance

ValueSpec == ValueInit /\ [][ValueNext]_valueVars
-----------------------------------------------------------------------------
(* What the form lets through, the server takes: the two validations, of   *)
(* client/src/utils/validation.js and of the routes, were written apart.   *)
(* The form does not check the backoff of the upstreams, nor the schedule  *)
(* of usage statistics.                                                    *)
FormSound == refused => field \in {"backoff", "usage"}

(* What does not come back as it was sent: a secret, what the environment  *)
(* decides, an emptied field, which takes its default or keeps its value,  *)
(* an L0 size of zero, a disk limit of zero, rows that are not complete,   *)
(* domains twice or in capitals, and what is set beside a switch that is   *)
(* off.                                                                    *)
Excused(k, a) ==
    \/ k = "password" \/ env # Absent
    \/ k \in Texts /\ a = ""
    \/ k \in {"lru_size", "disk"} /\ a = "0"
    \/ k = "hook" /\ (a.limit = "0" \/ "" \in ToSet(a.targets))
    \/ k = "domains" /\ ((\E d \in ToSet(a) : Lower(d) # d) \/ ~IsInjective(a))
    \/ k = "clients" /\ \E r \in ToSet(a) : "" \in {r.name, r.ip}
    \/ k \in {"window", "pause", "family", "usage"} /\ a.on = "false"

(* "Saved": when the page is opened again it shows what was sent.          *)
SavedIsShown == asked # Absent => Now = asked \/ Excused(field, asked)

(* What a save of an untouched page changes all the same: what the page    *)
(* takes for the default is not the service's, for an absent reuse_port,   *)
(* reuse_port_listeners or hot_threshold_rate and for a pause without      *)
(* days; a disk limit of zero, a password or a family time's domains go    *)
(* from the override file.                                                 *)
Disturbed ==
    \/ field \in {"reuse_port", "listeners", "hot_rate"} /\ Effective = Absent
    \/ field = "pause" /\ Effective # Absent /\ Effective.days = Absent
    \/ field = "disk" /\ env = Absent /\ override = "0"
    \/ field = "password" /\ override # Absent
    \/ field = "family" /\ Effective # Absent /\ Effective.domains # {}

(* A page opened and saved as it is changes nothing of what the service    *)
(* runs with: a save writes every field of its page, loaded or not.        *)
ResaveChangesNothing ==
    [][Save /\ loaded /\ ~Disturbed => Runs(field, Effective, env)' = Runs(field, Effective, env)]_valueVars

(* "Secrets ... are never written": no way leads the mask of a password    *)
(* into the configuration in place of the password.                        *)
MaskNeverRuns == field = "password" => Effective # "***"

(* An instance that imports an export runs what the exporting one did, but *)
(* for secrets, its own name, and what the export leaves out as a default  *)
(* but the importing one has overridden.                                   *)
ImportRestores ==
    [][ImportExport => \/ Runs(field, Effective, Absent)' = exported.runs
                       \/ field \in {"password", "hostname"}
                       \/ exported.doc = Absent /\ override # Absent]_valueVars
=============================================================================
