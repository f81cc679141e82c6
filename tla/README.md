# A TLA+ model of beyond-ads-dns

beyond-ads-dns is a DNS resolver in Go that blocks by list, caches answers in
two tiers (an in-process L0 and a Redis shared by all replicas) and refreshes
cached answers before they run out. A web server (`web/server`, Node and Express)
and a React client (`web/client`) configure and watch it. This directory holds
TLA+ modules of the concurrent core of the resolver and of the web side, from the
pages down to the configuration file, the TLC instances that check them, and
TLAPS proofs of the safety properties. Every definition is translated from the
source; paths below are relative to `src/`, and `PROJECT.json` has the line range
behind each definition. In the sections on the resolver, paths without a
directory are in `internal/`.

Contents: 1 the system, 2 the modules, 3 the runs, 4 fairness, 5 the proofs,
6 where code and documents disagree, 7 what is not modelled, 8 the plan.

## 1. The system

A query enters through UDP, TCP, DoT or DoH and reaches `Resolver.ServeDNS`:
local records, safe search, blocklists of the client's group, then the cache,
then the SERVFAIL backoff and the upstreams. Beside the queries run a sweep
that refreshes or deletes cached entries, a goroutine per blocklist manager, the
hit batcher, the health monitor of Redis, a query store, and the handlers of the
control API. Replicas share Redis and pull their configuration from a primary.

The configuration is a default file, an override file over it, and the
environment. The routes of the web server read the override file, change a part
and write it back; the DNS service writes it too, when it pulls from a primary or
notes that a token was used. A page of the client loads its section, sends it back
changed, and has the DNS service load it again through the control API. Other views
poll the query store (ClickHouse), Redis and the control API. The web server also
keeps the password, the sessions, the certificate and the schedule of the usage
report.

| component | state | operations | meets others by | hard behaviour | what makes it correct |
|---|---|---|---|---|---|
| L0 cache, `cache/lru.go` | list, map, SIEVE hand per shard | Get, Set, evictOne, Delete, Clear, CleanExpired | calls of RedisCache | lock given up between the read and the removal of an expired entry; a hand left on a removed element | map and list agree, capacity, evictions end |
| two tiers, `cache/redis.go` | hashes, expiry index, degraded flag | GetWithTTL, SetWithIndex, DeleteCacheKey, ReconcileExpiryIndex, EvictToCap, ClearCache, health monitor | Redis commands of all replicas | several commands per operation, cluster slots, failures between commands | entries stay visible to the sweep, the cap is reached, a clear is complete |
| hit batcher, `cache/hit_batcher.go` | two pending maps | add, tick, Flush, stop | pipelines to Redis; the sweep reads the counts | four kinds of flushers at once | every hit is counted once or lost with a failed pipeline |
| background refresh, `dnsresolver/resolver.go`, `servfail_tracker.go` | semaphore, SERVFAIL maps, lock keys in Redis | scheduleRefresh, refreshCache, TryAcquireRefresh, ReleaseRefresh | lock keys; DeleteCacheKey also deletes them | replicas race; crashes, lost replies, degraded mode | one refresh per key, no slot leaks, retries stop, locks go away |
| connection pool, `dnsresolver/connpool.go` | channel of connections, drained flag | exchange, getConn, putConn, drain | map of pools replaced on reload | drain against queries that hold the pool; stale connections | one owner per connection, none lost, exchanges end |
| blocklist manager, `blocklist/manager.go` | current configuration, snapshot | Start, LoadOnce, ApplyConfig, IsBlocked, Pause | control API; queries read the snapshot | loads overlap and hold no lock | a snapshot is of one configuration, survives failures, catches up |
| override file, `web/server/src/utils/config.js`, `routes`; `sync`, `config/override.go` | one YAML file, what the service has loaded, its role | PUT of each section, import, tokens, sync settings, pull, touch, apply | HTTP requests, the file, the control API | read-change-write without a lock over awaits; a second process that writes in place | saves stay, tokens revoked are those meant, a replica keeps its primary's sections, what was applied runs |
| configuration values, `client/src/utils/validation.js`, `server/src/routes`, `config` | a field in form, default file, override, environment | load, save, export, import | the form and the route validate apart | zero against absent, defaults in three places, masks | what was saved is shown, a save of an untouched page changes nothing, an import restores |
| configuration pages, `client/src/hooks`, `pages`, `context` | form, status, dialog, requests under way | open, type, save, apply, switch, restart, clear, detect, leave | requests to the routes | late answers, failed loads, a dialog that is replaced | the page shows what is stored, typing stays, defaults are not written |
| data views, `client/src/hooks`, `server/src/routes` | choice, what is shown, requests, timers | poll, filter, turn page, choose window, hide, refresh, pause | requests to routes; these ask ClickHouse, Redis, the DNS service | answers out of order, overlapping polls | what is shown belongs to what is chosen; it catches up |
| web server process, `server/src/index.js`, `auth.js`, `routes/auth.js` | password file, hash, sessions, cookie secret | start, stop, login, logout, set password, command | Redis for sessions; browsers | file emptied before it is written; callbacks inside a login; restarts | the password asked for is the one set; a good login lets in |
| Let's Encrypt, `server/src/letsencrypt.js` | three files, challenges | order, challenge, store, load | the authority, over HTTP or DNS | files written one after the other | the pair matches; the challenge is answered |
| usage report, `server/src/services/usageStatsScheduler.js` | minute last sent | tick | configuration file, target URL | ticks overlap, restarts | at most one report a minute |
| query pipeline, upstream selection, groups and clients, query store, error log, webhooks, request log | see section 7 | | | | |

`PROJECT.json` lists all components with their status, and under `hazards` the
places in this code that are hard to test, each with the properties that cover
it.

## 2. The modules

Each module is one component with one action per operation or per step at which
others can intervene: in Go a critical section of a mutex, a command to Redis, an
operation on a channel, one network exchange; in JavaScript whatever runs between
two awaits, callbacks or answers. An action whose comment calls it a *mutant* of
another is not part of `Next`; it is a plausible bug kept beside the action it
replaces, used to see that a property can fail. A variable marked *history* records
what a property needs to know of the past and influences nothing. Modules that need
model values or symmetry have an `MC` module; proofs are in `...Proofs` modules,
which extend the modules they are about. **CacheKeys** declares what the three modules of
`cache/` have in common; since CacheProofs extends all three, the operators of SieveCache that
would clash begin with `L0`, those of HitBatcher with `Batcher`.

### The resolver

**SieveCache** (`cache/lru.go`). `ll`, `cache`, `hand` are the fields of
`LRUCache`; `ent` holds what an element carries, also after it has left the list,
because the hand may still point at it. `GetExpired`/`GetRemove` are the two lock
sections of a Get of an expired entry. A Set that goes over the capacity keeps
the write lock (`lock = "evict"`) and makes one `EvictStep` per turn of evictOne's
loop, so that termination is a property and not an assumption. `CleanStart`,
`CleanStep`, `CleanEnd` are CleanExpired's walk. Abstracted: time is the bit
`expired`, messages and TTLs have no content, shards are independent (a key has
one). The functions of `container/list` are external.

**RefreshCoordinator** (`dnsresolver/resolver.go` 784-1000, `servfail_tracker.go`,
lock commands of `cache/redis.go`). A *call* is one scheduleRefresh with its
goroutine; `pc` walks through threshold, backoff, semaphore, SETNX, exchange,
SERVFAIL handling, store, return of the slot, DEL. Several replicas share `entry`
and `lock`. The environment ages entries, ends backoffs and locks, deletes keys
(`DeleteCacheKey`), switches degraded mode, crashes replicas, and has Redis's
client repeat a DEL whose reply was lost (`ReleaseRetried`). The history variable
`disturbed` says that a lock has been lost to its holder, in one of the three
ways the code allows: its TTL ran out first, DeleteCacheKey took it along, or a
DEL was sent twice. Whether an entry is due is a choice. `max_inflight` is at
least 1, as the configuration's validation demands (`config/config.go:1572`); so is
the threshold (0 turns it off, which is not covered). The pruning of the tracker
at 10000 entries is not modelled.

**ConnPool** (`dnsresolver/connpool.go`, pool lookup of `upstream_exchange.go`,
`Resolver.ApplyUpstreamConfig`). Per query: look up or create the pool, receive
from its channel or dial, validate, exchange, retry once on a fresh connection,
and put back in two steps (flag, send). Against that: the peer closes, the
configuration drains (`DrainStart`, `DrainStep`, `DrainEnd`), the runtime
finalizes connections in a pool nothing refers to (`Collect`). The channel is a
set, since no property depends on which connection is received.

**TieredCache** (`cache/redis.go`, sweep of `dnsresolver/resolver.go`). Per
replica an L0, shared `l1` and `index`. A store is `SetL0`, `SetHash` and, in a
cluster, a separate `SetIndex`; outside a cluster HSET and ZADD are one
transaction. The sweep of a replica goes through reconcile (`SampleIndex`,
`CheckExists`, `RemoveFromIndex`), the cap (`EvictToCap`), the candidates
(`SweepCandidates`) and the deletions (`DeleteL0`, `DeleteFromIndex`,
`DeleteHash`). `ClearL0`, `ClearHash`, `ClearMeta` are ClearCache. A cell holds
the number of clears begun when its data was stored, which is what tells old data
from new; `revived` records the keys a lookup brought back into L0 from Redis
since the replica's last clear. While `failing` holds, commands fail, replicas
die, monitors see Redis down and caches are cleared; `FailuresEnd` ends that, at a moment
of its choice, for the liveness property (safety is not helped by it: the run explores all
of it before, too). Ages, hit counts and scores are choices. EvictToCap's rounds of 5000
and the reconcile sample are larger than any index modelled: one round is one
action over any subset of the right size. Legacy string keys (`getLegacy`, `Get`,
`Set`) and the cached key count are not modelled.

**HitBatcher** (`cache/hit_batcher.go`). Increments have identities, so that one
counted twice or dropped shows; `pending` with `kindOf` is the two maps, `stage` where
each thread is. Callers,
`Runner` (run) and `Sweeper` (the sweep) each take the maps in one critical
section and then execute two pipelines, of which any part may fail.
`owed` records what had been added when the sweep called Flush.

**BlocklistManager** (`blocklist/manager.go`, reload handler of
`control/server.go`, start order of `cmd/beyond-ads-dns/bootstrap.go`). Threads
are the manager's goroutine and the handlers. A load copies the configuration,
fetches each source in a step of its own in any order, and stores. Servers are
up, down, or answer without domains. The snapshot records the configuration of
its matchers, the sources that answered and those that had domains. Sources
without a URL, matching and pausing are not modelled.

### The web server and the client

**OverrideFile** (`web/server/src/utils/config.js`, `routes/*.js`,
`sync/client.go`, `sync/primary.go`, `config/override.go`). An operation is one HTTP
request or one write of the DNS service; `pc` walks through its awaits: the check
that this is no replica, the read, the preparation of the new content (`PutUpstreams`,
`ImportConfig`, `PostToken`, ... one action per route), the temporary file, the
rename, the reply, the apply. `Touch` and `Pull` are the DNS service's writers, which
truncate the file in place (`Truncate`, `Fill`), so that others can read it empty
(`torn`). The content is, per part, absent, as at the start, or the operation that
wrote it; what a route makes of a body's values is in ConfigValues. Writes fail and
both processes restart between any two steps. History: the token `shown` beside the
button, the parts changed since an operation read the file (`stale`), the parts
of a save that others have undone (`gone`), the tokens that have `left` the file, each with
who wrote it then, and whether somebody has read it emptied (`blind`) or died over it (`calm`).

**ConfigStore** is what OverrideFile promises, without its steps: operations open
the file, and a save replaces the parts it is about and can besides only take back
what others have changed since it opened the file. OverrideFile implements it
with `claim` mapped to the parts of the operations that have the file open; all
other variables are the same.

**ConfigValues** (`client/src/utils/validation.js` and the `settings` pages,
`server/src/routes/config.js`, `blocklists.js`, `dns.js`, `webhooks.js`, `utils/config.js`,
`config/config.go`). Fields do not depend on each other, so the state is one field,
of any of the 28 kinds that the code treats differently: `Read` is what a page
makes of the merged configuration, `Accepted` the form's validation, `Sent` the body,
`Refused` the route's validation, `Stored` what the route writes, `Merge` and `Runs`
what the DNS service makes of the two files, `Redacted`, `Differences` and
`RemoveInstanceDetails` the export. Numerals, durations, addresses and times are
classes of texts (`Word` has them all). `Typed` is what somebody can enter in a form, with lists of up to
`MaxRows` rows; `InFile` is what a file can come to hold, whose lists have any length. Lists
are filtered and deduplicated by `Keep` and `Distinct`, which are recursive functions.

**AdminPage** (`client/src/hooks/use*State.js`, `pages`, `context/ConfirmContext.jsx`).
One page of eight kinds; each kind has its own opening, typing, saving and
its own way to take an answer. A *flow* is a request: on its way to the server, and
its answer on its way back. Between the two the server keeps one section (`store`) and
the service runs one (`running`). Other administrators save too; `contested` says that one did, or
that two saves of this client overlapped. Confirmation dialogs
are one variable for the whole client, as in the code; `Reads` is the moment in
which somebody decides, so that a dialog that is replaced under the hand shows.

**DataViews** (`client/src/hooks`, `components`, `server/src/routes` of queries, caches,
replicas, errors, pause, sync). One of 18 views: what it asks for, what it shows and
as an answer to what, whether it says there was an error, and its requests (*flights*). Those
of an effect are aborted with it, those after a click are not. How a route answers
when what it asks fails (empty, an error, `enabled: false`) is per view. The poll that
minds the browser tab is the only one that has a timer worth counting.

**WebServer** (`server/src/index.js`, `auth.js`, `routes/auth.js`, `letsencrypt.js`,
`services/usageStatsScheduler.js`, the password command of `cmd/beyond-ads-dns/main.go`). One
process that is started, stops or is killed at any step, in a given environment.
`LoadStoredHash`, `VerifyPassword`, `CanEditPassword`, `AuthMiddleware`, `HasValidCert` are the
functions of those names. A login is verified and saved in two steps; setting a
password empties the file and then writes it; the certificate's three files are
written one after the other; a tick of the report's timers reads the configuration,
compares and marks, and sends. `MinutesPerDay` is 2, so that a day passes within the
bound on time.

How they compose: RedisCache contains L0 shards, so TieredCache treats L0 as a
map that may drop entries (`L0Drops`) and SieveCache says how; TieredCache's
DeleteCacheKey is the `DeleteCacheKey` of RefreshCoordinator, whose lock keys it
deletes; the sweep of TieredCache calls Flush, which is HitBatcher's `SweepFlush`.
A flow of AdminPage is one operation of OverrideFile, whose steps AdminPage sees as
one (a page cannot tell them apart); the values it carries are those of
ConfigValues; the apply is `Reload` of BlocklistManager for the blocklists section.
Every request of AdminPage and DataViews passes `AuthMiddleware` of WebServer.

## 3. The runs

Run a module with `tlc -config X.cfg M`. Sizes are distinct states.

| run | module, configuration | checks | instance | states |
|---|---|---|---|---|
| override_file | MCOverrideFile, MCOverrideFile.cfg | UpdatesKept, RevokesShown, AppliedRuns, ReplicaKeepsSynced, StoreSpec | 2 operations, 2 tokens | 710,043 |
| config_values | ConfigValues, MCConfigValues.cfg | FormSound, SavedIsShown, MaskNeverRuns, ResaveChangesNothing, ImportRestores | every kind of field, lists of up to two rows (`MaxRows`) | 128,000 |
| admin_page | MCAdminPage, MCAdminPage.cfg | ShownIsServed, EditsKept, NeverSavesDefaults, MeantWhatRan | every kind of page, 2 flows, contents of none, one and two rows | 1,214,641 |
| data_views | DataViews, MCDataViews.cfg | ShownIsChosen, SettingsKept, OneTimer, CatchesUp | every view, 2 flights, 2 texts, 2 pages, 2 data | 46,628 |
| web_server | MCWebServer, MCWebServer.cfg | PasswordKept, LoginHonoured, CertMatchesKey, ChallengeAnswered, OneReport | 7 deployments, 1 browser, 2 passwords, 2 domains, 2 ticks, 2 minutes | 839,310 |
| sieve_cache | MCSieveCache, MCSieveCache.cfg | MapPointsIntoList, CapacityRespected, EvictionTerminates | 3 keys, 4 elements, capacity 2 | 66,640 |
| refresh | MCRefreshCoordinator, MCRefreshCoordinator.cfg | TokensExact, OneRefreshWhileLockHolds, RetriesStop, NothingStuck | 2 replicas, 1 key, 2 calls, 1 slot, threshold 1 | 223,488 |
| conn_pool | ConnPool, ConnPool.cfg | ExclusiveUse, ConnsAccounted, ExchangesFinish | 3 connections, 2 queries, 2 pools of 1 | 89,420 |
| tiered_cache | MCTieredCache, MCTieredCache.cfg | IndexKept, ClearIsComplete, SweepsKeepUp | cluster, 1 replica, 2 keys, 1 call, cap 1, 1 clear, failures that may end | 715,519 |
| hit_batcher | HitBatcher, HitBatcher.cfg | HitsAccounted, PendingFlushed | 2 increments, 2 keys, 2 callers, batch of 1, failures | 163,782 |
| blocklist | MCBlocklistManager, MCBlocklistManager.cfg | SnapshotOfOneConfig, CatchesUp | configurations with 0, 1 and 2 sources, one handler and the manager's goroutine | 72,387 |
| sieve_set | MCSieveCache, MCSieveCacheSet.cfg | SetStoresKey, violated | as sieve_cache | |

What the runs show, why the instances are large enough, and what they bound:

- *override_file*. Two operations show every way in which one can come between the
  steps of another, which is what all the properties are about, and two tokens let one
  move into the place of the other. A third operation can matter to RevokesShown,
  where a late writer brings a token back while a third has it revoked: that is why the
  property is proved for any number of operations and tokens, and why it says *who* wrote
  the file without a token. With three operations the space is too large to keep as a run. Operations
  are symmetric; nothing bounds how many are made one after the other. StoreSpec is
  the refinement of ConfigStore.
- *config_values*. All combinations of form, default, override and environment of a
  field are initial states or one step away; save, reload, export and import follow.
  Two rows are what it takes for rows that are the same, or in an order. The
  exceptions that `Excused` and `Disturbed` name are found by TLC when they
  are removed; section 6 says what each is.
- *admin_page*. Two flows let a load overlap a save, a save a save, and a save a
  switch. Of the contents, `{}` is what a form starts with and is refused where a source or an
  upstream is needed, `{r1}` (a source) is accepted, and `{r1, r2}` is a second one, so that what is
  stored, typed and running can all differ. Flows are symmetric, and nothing bounds how many
  follow each other. The theorems hold for any contents and any number of flows.
- *data_views*. Two flights in any order are what an answer to an earlier choice needs;
  two texts, pages and data tell choices and answers apart.
- *web_server*. The deployments are the ones in which something differs: a password of
  the file, of the environment, of both; sessions with a secret that survives a
  start or not; HTTPS by files, by either challenge, or switched on without files;
  the report. `MaxStarts` = 3 is a process that fails, its successor and one
  that finds what both left; `MaxCert` = 2 a certificate that is replaced; `MaxMinute`
  = 2 a report and the next day's, a day being two minutes. Two ticks overlap. The run
  has CHECK_DEADLOCK FALSE because the process may be down with all its starts used.
- *sieve_cache*. The interesting cases need a full list, one more element being
  inserted, and a hand on an element that has left the list: capacity 2 with 4
  elements and 3 keys has all of them. `VIEW View` identifies states that differ
  only in which element identities are used; an element is its place in the list,
  the hand's element its place or its contents. No bound on the number of
  operations.
- *refresh*. Two replicas are what it takes to compete for a lock; two calls with one
  slot each on one key give all of: both past the SERVFAIL check, one refused by the semaphore, one
  refused by SETNX, one whose lock has gone. Keys are deleted, replies lost and
  replicas die at any point. The SERVFAIL counts stay finite because RetriesStop
  holds. No symmetry, since NothingStuck is a liveness property.
- *conn_pool*. Two pools let one be drained and still held while the other is in
  the map; two queries with a pool of one reach the full channel; the third
  connection lets both queries have one while the pool has one.
- *tiered_cache*. Two keys over a cap of one make the cap and the index work; one call
  at a time against the sweep and the clear of the same replica, command by
  command, is what leaves entries without index members, orphans, and old data in L0. One
  clear is enough for old and new data; `MaxClears` bounds it. More replicas add
  more such calls, and IndexCovered and ClearComplete are proved for any number.
- *hit_batcher*. With a batch of one key every add flushes, so that two callers,
  the ticker and the sweep can all be flushing at once. `Inc` bounds the number
  of hits ever added.
- *blocklist*. Two sources, one configuration with `fail_on_any`, one without,
  one without sources; the same properties also hold with two handlers
  (1,980,351 states), which takes four minutes and is not kept as a run.

Deadlock is checked in every run but web_server: no other component may stop.

Each property of a passing run has a mutant in `PROJECT.json`: an operator in the
component's module that changes one definition as a plausible bug would (a slot
not returned, a pool left in the map, a role not checked, a token taken by the place
after it, a chain written before its key, a poll that stops at an error) and makes the run
fail on that property.

## 4. Fairness

Weak fairness, except for one condition, and only for what the code schedules by
itself:

- the steps of a goroutine that has begun (`CallStep`, `ExchangeStep`, `SweepStep`,
  `LoadStep`, `TakePending`/`Exec` of run, `EvictStep` and the cleaning walk under the
  shard's lock): the Go scheduler runs them, and each network step has a deadline
  (upstream timeout, two seconds for a pipeline, fifteen for a fetch, the Redis
  client's timeouts), after which the failing alternative of the same action is
  taken. That is why fairness is on the disjunction and not on success. Where the subscript
  is less than `vars` (`pc`, `lock`, `sweepVars`), each of those steps changes it, so the
  condition is the same;
- tickers (`Tick`, the first stage of a sweep) and the browser's intervals
  (`Interval`): `time.Ticker` and `setInterval` fire;
- an answer that has come is handled (`Landing`): the browser runs its callbacks;
- the expiry of a lock: Redis removes keys whose TTL has run out.

The condition is `ServesWell` of DataViews: a request that is made again and again
is at some time answered with what there is (strong fairness, since requests are
aborted and fail in between). It is what CatchesUp of the views says "when the
server answers" with; no code can provide it, and nothing is said of a server
that never does.

Nothing is assumed of upstreams, peers, other clients, administrators, crashes,
configuration changes, source servers or the health monitor. SweepsKeepUp and the
two CatchesUp therefore say what happens *if* Redis stays usable, stores stop and the
entries are in the index (CapReached: EvictToCap looks nowhere else), configuration
and servers settle, or a view is left alone; the antecedent is part of the property.
For the blocklist manager's CatchesUp the ticker must have been started: a manager whose
start-up configuration has no sources starts none (`blocklist/manager.go:206-211`).

## 5. The proofs

`tlapm M.tla` checks each `...Proofs` module. The theorems are of the form
`Spec => []Inv` (NeverEmptiedCorrect, ReplicaKept, NoDefaultsSaved, DialogsMeant, ResavesAreHarmless,
ImportsRestore, EvictionAdvances and ExchangesAreBounded: an action property;
Implements: a specification), for every value of the constants that satisfies the assumptions
named in the component's module.

| module | theorems | inductive invariant, and what is added to the properties |
|---|---|---|
| ConfigProofs: override file | TypeCorrect, SavesKept, AppliedSavesRun, ReplicaKept, RevokesHit, Implements | what an operation has prepared is the file's content outside its own parts and what it has missed (`Prepared`), and its own where it is about (`OwnParts`); what it is about is one of the groups (`OpenParts`); who has not read has missed nothing (`ClosedMissNothing`). From these a rename is a save of ConfigStore, and every other step a read, an emptying, a close or a stutter. The writers in place need that at most one has the file emptied. RevokesHit has a second invariant on top, `TokenInv` |
| ConfigProofs: values | FormsAreSound, SavesAreShown, MaskStaysOut, ResavesAreHarmless, ImportsRestore | the files hold what `InFile` says and the form what `InForm` says (`Held`), so that a mask can get into neither; a page that was just opened shows what the files say; an export is the difference and the effect of some override of a file's type (`ExportKnown`). See below |
| WebServerProofs | TypeCorrect, PasswordIsKept, LoginIsHonoured, CertMatches, ChallengeIsAnswered, OneReportSent | one invariant per promise, since the parts of the process touch each other only at start and end: where the password in force is kept in each deployment (`PasswordInv`); an answered login is live, and its cookie of a start that still counts (`SessionInv`); the chain is the last of the three files, so that a pair which does not match has no chain that a start accepts (`CertInv`); a minute that has been marked is not marked again by the process that marked it (`ReportInv`) |
| AdminPageProofs | TypeCorrect, EditsStay, SavedIsServed, NoDefaultsSaved, DialogsMeant | 15 conjuncts in four groups, see below |
| DataViewsProofs | TypeCorrect, ChosenIsShown, TypedSettingsStay, TimerIsOne | a request under way asks for what is chosen, unless it has been aborted, and one that nothing aborts belongs to a view in which the choice cannot change (`FlightsOK`); what is shown of an earlier choice stands beside an error or waits for a request of its effect (`Stale`). ShownIsChosen alone says nothing of the requests that will land |
| CacheProofs: L0 cache | L0TypeCorrect, MapSound, CapacitySafe, EvictionIsBounded, EvictionAdvances | no element is linked twice (`NoDuplicates`), and during an eviction the list is over by exactly one (`OverByOne`). The dangling hand is why both are needed: removing an element that is gone must be shown to leave the list, and to delete a map entry only by a key. Lemmas on `RemoveAt` and `Unlink` carry the list argument. What an eviction has left to do is the number of visited elements in the list, and one more while the hand points out of it (`EvictionWork`) |
| CacheProofs: two tiers | TypeCorrect, IndexCovered, ClearComplete | a replica has at most one DeleteCacheKey between its commands (`OneDeletion`); for the clear, that what a call carries after it has read Redis is the only old data that can reach L0 |
| CacheProofs: hit batcher | BatcherTypeCorrect, EveryHitAccounted, BacklogStaysBounded, SweepMissesOnlyInHand | a thread that is not flushing has nothing in hand (`HandsInv`), nothing is anywhere before it was added (`AddedInv`), what the sweep owes has left the maps once its flush had its turn (`OwedInv`); BacklogBounded is inductive beside them |
| RefreshCoordinatorProofs | TypeCorrect, TokensCorrect, InflightCorrect, NoStampede, RetriesBounded | slots in use never exceed `max_inflight` (`SlotsBounded`); until a lock is lost to its holder every call between SETNX and DEL has its lock in Redis (`HoldersLocked`), which is what makes NoStampede inductive. `HolderJoins` and `HolderLeaves` count the set of slot holders. RetriesStop is inductive beside the types: a call joins those on their way only below the threshold, and counts only by leaving them |
| ConnPoolProofs | TypeCorrect, UseIsExclusive, NoConnLost, MapHoldsOpenPool, ExchangesAreBounded | the four properties are inductive together: exclusive use needs that an open connection is known to someone, so that a dial gets a new one. That every step of a query leaves it less to do needs that a connection it has dialled counts as fresh (`FreshIsFinal`), so that the retry is not repeated |
| BlocklistManagerProofs | TypeCorrect, SnapshotSound, NeverEmptiedCorrect | a load in progress has answers only of sources of the configuration it copied, all of those fetched so far when `fail_on_any` is set (`LoadInv`) |

*Values.* A save is the step that matters: of every kind of field, whatever form is sent
over whatever files, it is refused only where it may be, and otherwise stores what a file can hold,
is shown as it was sent, and changes nothing of what runs when the form was what the page had
shown (`SavesWell`; `EverySave` puts together a lemma for each kind). FormsAreSound, SavesAreShown
and ResavesAreHarmless are its three conjuncts, which is why the last, an action property, needs
the invariant's "`loaded => form = Now`". For the lists the form's filter, its validation, the route's filter and the
deduplication by key are composed, at any length: `KeepRows` says what filtering a list leaves, `DistinctRows` that a
list without two equal keys is left alone, `DistinctSame` that nothing is lost of one with. These are
facts about recursive functions, proved by taking the least place at which they fail (`Least`, `Places`)
and looking at the one before.

*Revocations.* The route deletes by a place in the list, so the proof carries a
cardinality: while a revocation is between the page's list and its read, its index is the
number of tokens in the file older than the one shown (`Aimed`), unless somebody has taken
out one of those or the token itself. What can break that is a token that comes *back*: a writer that
had read the file earlier puts in again what another has taken out. `DocsKnown` says that a token in such
a writer's hands is still in the file, or is known to have left it (so that the exception applies), or is
younger than everything else it holds (a token just made). `LeftByWriters` keeps an operation from being its own
excuse, and `Hit` is the promise from the read to the end. A form of the
property that does not say who wrote the file holds of every instance with two operations and fails with three,
which is why `left` records pairs, and why the theorem and not the run is what the claim rests on.

*Pages.* ShownIsServed relates the form, what is stored and what runs at a moment when nothing
is under way, so what is inductive is what each request on its way will do to it: a save
that was not overtaken carries the form, what it has stored is in the server and what it has applied runs
(`Reached`, `OneSave`, `AppliedDone`, `Served`). EditsKept needs that whatever may still fill the form was asked
for before the typing (`LoadsLate`) and that a save carries what was typed (`SavesTyped`). NeverSavesDefaults needs
that a page which has not loaded and that nobody has touched has the form it started with (`Blank`,
`SavesBlank`). MeantWhatRan needs that a dialog which is about the form was read as what it is,
since only the unbidden questions replace another (`DialogRead`, `AskedApply`, `LeftApply`); `FlowOK` and
`Closed` say at which steps which requests can be, and that a closed page leaves nothing of its own behind.

Assumptions on constants: positive capacities and limits, finite sets of calls,
keys, callers, tokens or connections where a cardinality is taken, tokens with an
order of creation, contents that include the empty one, deployments of the shape the environment can have, and names such
as `Nil` that are no value of the set they stand beside. The code gives all of them:
sizes have positive defaults and minima, goroutines and requests are finitely many.

Proved and not among the checked properties, because they serve the ones that
are: the type invariants, InflightBounded, CurrentPoolOpen, BacklogBounded,
FlushLeavesInHand, NeverEmptied, EvictionBounded, EvictionShrinks and ExchangesAdvance. TLC finds them
to hold on the instances above. The last three are the part of a liveness
property that needs no fairness: an eviction, during which nothing else runs, is over after at
most `MaxEntries + 3` turns of its loop, and a query over a pool after at most six steps of its own, for
every value of the constants. EvictionTerminates and ExchangesFinish add that the steps are taken.

Model-checked only:

- the liveness properties (EvictionTerminates, NothingStuck, ExchangesFinish,
  SweepsKeepUp, PendingFlushed, both CatchesUp), since the prover does not handle
  fairness and ENABLED;
- the counterexample of section 6.

The prover cannot instantiate the library's induction theorems, whose hypotheses are about an
operator. Where a recursive function had to be reasoned about (`Keep`), the proof uses the
well-foundedness of the natural numbers instead, which is about sets. Operators declared RECURSIVE
stay out of reach; no module with a theorem needs one. Every other property that a run checks, all safety and the
refinement, is stated by a theorem.

## 6. Where the code and the documents disagree

Shown by a run, with TLC's trace (`PROJECT.json`, `findings`):

- **sieve_set**: `cache/lru.go:99`, "Set adds or updates a DNS message in the cache".
  The SIEVE hand is not moved off an element that Delete, CleanExpired or an
  expired Get removes. A later Set of that element's key that evicts from the hand
  removes the gone element once more, by its key, and so deletes the map entry it
  has just made; the new element stays in the list and is never found.

Read in the code while modelling; a property of the modules names the exception where
one is in their reach.

The resolver (paths in `internal/` unless they begin with `docs/` or `web/`):

- `docs/performance.md:275`, "Only one instance refreshes each key", against
  DeleteCacheKey, which deletes the refresh lock of the key along with it
  (`cache/redis.go:814,825`), and a lock that runs out. OneRefreshWhileLockHolds
  holds up to the first such loss (`disturbed`);
- `cache/redis.go:1287-1288` and `docs/redis-key-schema.md:111` on the full cache
  reset: L0 is cleared before Redis (1297-1303), and a query in between copies an
  old entry back into L0. ClearIsComplete excuses exactly those (`revived`);
- `docs/errors.md:78`, "Click "Apply changes" [...] to trigger a reload": after a
  failed load the same configuration counts as applied and is skipped
  (`blocklist/manager.go:430-439`);
- `cache/lru.go:89` clamps the TTL of a stale entry to 0, so that the staleness
  bound of `dnsresolver/resolver.go:620` cannot tell old from very old;
- `cache/redis.go:571` writes `created_at` at each store, while
  CandidateCheckResult (702) calls it the time of the first;
- `cache/redis.go:786-794` removes from the index what EXISTS did not find, also
  when it was stored in between; IndexKept holds only up to the first such
  removal (`calm`). The next store of the key, by a refresh or a miss, adds it back;
- two replicas that sweep at the same time count the same excess over the cap and
  evict it twice, each with victims of its own (`cache/redis.go:867`);
- `dnsresolver/connpool.go:181` says that a connection is closed after a drain "to
  avoid leaking"; one whose flag was read before the drain is sent to the
  discarded channel and waits for the finalizer (`Collect`);
- in degraded mode nothing is refreshed, since TryAcquireRefresh answers false
  (`cache/redis.go:678`);
- Flush does not wait for a flush in progress (`cache/hit_batcher.go:78-82`), so the
  counts the sweep reads can miss hits; FlushLeavesInHand is what remains true;
- ClearCount is reached only by a refresh that succeeds, so a key whose count has
  reached the threshold is never refreshed in the background again until its
  count is pruned (`dnsresolver/servfail_tracker.go:81`, `resolver.go:944`);
- the comment at `dnsresolver/servfail_tracker.go:126` says that all its maps are
  bounded; counts of keys whose backoff is pruned are kept;
- Resume on a pause found expired can wipe out a new one (`blocklist/manager.go:660`);
- a group's manager refreshes only while the request that created it lasts
  (`dnsresolver/resolver.go:1607`): `ContextDone` of BlocklistManager;
- a replica keeps sections the primary has removed (`sync/client.go:378`);
- Record may send on a closed channel during shutdown (`querystore/clickhouse.go:187`).

The web server (paths in `web/server/src/` unless they begin otherwise):

- every route reads, changes and writes the whole override file without a lock: two
  saves that overlap lose one of them wholly or in part, and one that reads while
  the DNS service writes in place can write back an empty configuration
  (`utils/config.js:35`, `internal/config/override.go:46`). UpdatesKept and StoreSpec say how much can be lost;
- DELETE of a sync token goes by its place in the list (`routes/sync.js:93`), so
  after another revocation it can hit the neighbour of the token shown: RevokesShown;
- the session cookie is `secure` whenever HTTPS is enabled (`index.js:327-344`), also
  when the server runs on HTTP alone because the files are missing or Let's Encrypt
  has failed ("Continuing with HTTP only", `index.js:557`): a login is answered as good and the
  browser is back at the login. LoginHonoured excuses exactly this;
- setAdminPassword empties the file before it writes it: a full disk or a kill in between leaves an
  empty hash, with which isAuthEnabled is true (`auth.js:50-52`) and nobody can log in
  after a restart;
- set-admin-password (`cmd/beyond-ads-dns/main.go:69`) reports success, but a running server keeps
  the hash it has loaded, and with a password of the environment it never takes effect;
- `README.md:639`, "auto-renew on startup when expiring": a process that stays up
  renews nothing. A failed renewal by HTTP challenge falls back to HTTP although the old
  certificate may be good for days; by DNS challenge it ends the process;
- a usage report that fails is not sent again; a restart within the same minute sends it
  again (OneReport counts the processes); a timer that drifts over a minute
  skips the day's (`services/usageStatsScheduler.js:65`);
- POST /api/restart asks for the control token when one is set, which the page never
  sends (`routes/control.js`);
- 0 typed for `redis_lru_size` is stored as 10000 (`routes/config.js:238`) though the page says
  "0 disables"; a disk limit of 0 falls back to the default; emptying `client_ttl_cap`
  deletes only the override, so that a default below it returns; saving the settings
  untouched writes `reuse_port` off when it was absent, and 20 and 4 in the place of
  the service's own `hot_threshold_rate` and listeners; a pause without days ("every day",
  `internal/config/config.go:328`) becomes Monday to Friday; the domains of family time go with any save of its page;
  the windows of a disabled pause or family time are forgotten: `Excused` and `Disturbed`;
- the forms do not check the backoff of the upstreams nor the schedule of usage
  statistics, which the routes then refuse: FormSound;
- an export leaves out what equals a default, so importing it where the same key is
  overridden leaves that override: ImportRestores;
- the query list pages with LIMIT and OFFSET over an order with ties (`routes/queries.js:49`) and can
  repeat or skip rows; the export takes `limit` where the client sends `page_size`;
  discovery reports any error of ClickHouse as `enabled: false`.

The client (paths in `web/client/src/`):

- the pages of local records, blocked responses and safe search save their initial values
  when their load has failed (`hooks/useLocalRecordsState.js`, `hooks/useDnsState.js`):
  NeverSavesDefaults names them;
- there is one confirmation dialog for the client (`context/ConfirmContext.jsx:15`); an answer
  that asks for another one replaces it, with the focus on Confirm: MeantWhatRan says which;
- a switch in the list of denied domains is not taken back when its save fails; the groups
  of a client can be switched while a save is under way, and a failure leaves the status of before;
- an answer to a save sets the form of the DNS pages and undoes what was typed since it was
  sent: EditsKept excuses answers to what was under way;
- the settings of a replica lose what is typed when the polled status differs or cannot be had
  (`hooks/useSyncState.js:41`); a failed poll also makes the pages of a replica editable;
- polls at a fixed interval overlap and can land out of order, so that older data is shown
  until the next one; a page turned before the typed filter has settled can be out
  of range; the switches of trace events are changed by a read and a write in the browser;
- a failed request in AuthGate shows the application; `restartLoading` stays set after a
  restart that succeeded; the hook `useApiPolling` lets the reload of an earlier URL land, and is used nowhere.

## 7. What is not modelled

`PROJECT.json` gives each component with its reason. In short: the query pipeline
and TTL arithmetic, upstream selection, blocklist matching and pauses, client
groups and local records in the resolver, the query store, the error log and the
hit counter are within reach and are in the plan (section 8). Of the configuration, the
migration of old files and the parts of validation that no page reaches are
left out: they run once, in order. Logging, metrics, listeners, webhooks' delivery,
the request log, the load generator and the deployment files have no state that
interleaves with anything, or only a library's. Of the client, what renders and
formats (charts, tables, themes, toasts, navigation) is left out; of the data routes,
the SQL and the sums over replicas, whose result is a datum here. Sync between
primary and replica is modelled at the file; the HTTP exchange, its retries and the
push of statistics are not.

Within the modelled components, time is a choice of when something expires (in
WebServer, a count of minutes), never a clock; data is identity, except in ConfigValues; and
what picks a key (hotness, hit counts, scores, the shard's hash) is a choice. A property that depends on those
(a hot key is refreshed early, the least used key is evicted first) is not stated.

## 8. The plan

Done, in this order: SieveCache, RefreshCoordinator, ConnPool, TieredCache,
HitBatcher, BlocklistManager; then OverrideFile with ConfigStore and the refinement
between them, ConfigValues, AdminPage, DataViews and WebServer, with their runs, and
the proofs of section 5. What would follow, the most important first:

1. **QueryPipeline** (`dnsresolver/resolver.go` ServeDNS, maybeRefresh, cacheSet) and
   **CacheTTL** (the TTL functions, as operators against a reference definition):
   order of the stages, staleness bound, SERVFAIL backoff on misses.
2. **UpstreamManager** (`upstream_manager.go`, `upstream_exchange.go`): strategies,
   failover, backoff, hot reload during an exchange; composed with ConnPool.
3. **BlocklistMatching** (`blocklist/bloom.go`, `parser.go`, IsBlocked) as operators, with
   pauses and schedules as a module of their own; **GroupBlocklists** on top of
   BlocklistManager.
4. **QueryStore** and the order of shutdown; **ServfailTracker** with its pruning.
5. **ErrorLog**, **HitCounter**, local records, client identification.
6. Further refinements: a page of AdminPage as a client of ConfigStore; a cache promise
   (`what Get returns was Set for that key and not since deleted`) that SieveCache
   implements while nothing dangles; a counter that HitBatcher implements up to losses.
7. Proofs: an index invariant that holds after the removal of orphans, weaker than IndexKept;
   the refinements of 6.
