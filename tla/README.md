# DevGatewayDNS in TLA+

DevGatewayDNS is one Go process for developers' networks: a reverse proxy, a
forward proxy and a DNS server that all follow one table of *proxy rules*, a
certificate authority that makes the certificates both proxies show, and a REST
API with a web interface to edit it all.  This directory holds a TLA+ model of
its core, the TLC runs that check the model, and theorems proved with TLAPS.

Paths are relative to `src/`; `server.go` alone means `app/api/server.go`, and
「仕様」 is `Documents/システム仕様.md`.

## 1. Inventory

| component | code | state | operations | module |
|---|---|---|---|---|
| rules and their tables | `server.go` 199–398, 824–855; `proxy/*.go` rule maps; `dns/auto_records.go`; `main.go` 358–406 | `proxy_rules`; the rule maps of each proxy; `AutoRecordMap` | create, update, delete, toggle, sync of the auto records, loading at the start | `RuleSync` |
| certificate manager | `cert/manager.go` | `ca_certificate`, `host_certificates`; the CA and the cache in memory | start, `GetCertificate`, regenerate, renew what expired | `CertManager` |
| DNS queries | `dns/server.go`, `dns/upstream.go`; `server.go` 442–545 | `dns_records`, `AutoRecordMap`, upstream lists | look up, forward, log; edit records | `DnsServer` |
| query history | `dns/query_history.go` | circular buffer | `Add`, `Entries` | `RingBuffer` |
| proxied requests | `proxy/reverse_proxy.go` 184–317, `proxy/forward_proxy.go` 139–343 | a goroutine per connection, two per plain tunnel; `access_logs` | reverse and forward requests, intercepted and plain CONNECT | `Proxying` |
| access log | `modules/access_logger.go` | `access_logs` | insert, clean up | `Proxying`, `AccessLog` |
| settings | `modules/config.go`, `server.go` 549–568, 791–814, `main.go` 88–103, 338–357 | `settings`; `AppConfig` | load, override, save, `PUT /settings`, `PUT /dns/upstream` | `Settings` |
| life cycle | `main.go` 67–298; `Start` and `Stop` of the four components; `status.go` 111–159; `server.go` 725–787 | the main goroutine, two background goroutines, the sockets and their requests | start, health check, maintenance, edit, hijack, shut down, crash | `Lifecycle` |
| single health checks, command line, service registration, REST reads, P12 download, migrations, web interface | `app/status`, `app/cli`, `modules/service.go`, `modules/database.go`, `server.go`, `frontend/` | none that lasts | reads, formatting, calls of external libraries | not modelled |

How they interact:

* **Through the database.**  Every edit is a statement or a few, never a
  transaction; SQLite serialises the statements.
* **Through shared memory.**  A rule edit changes the row, then the reverse
  proxy's map, the forward proxy's map and the auto records, each under a lock of
  its own.  Requests and queries read these maps under the same locks.
* **Through calls.**  Both proxies call `GetCertificate` from a TLS handshake and
  `AccessLogger.Log` after a request; creating a rule asks for a certificate in
  the background; the maintenance goroutine calls `RenewExpiredCerts` and
  `Cleanup` at midnight.  `PUT /dns/upstream` assigns to the `AppConfig` that `main`
  and the REST API share.

What is hard here: `net/http` runs every REST request, proxied request and
handshake in its own goroutine and nothing orders them; four copies of the rules
are changed in sequence; the errors of several statements are dropped; a
certificate's way from look-up to cache takes several unlocked steps; tunnels
outlive the rule they were opened by; the process may die between any two steps
and rebuild its memory from the rows.  `PROJECT.json` lists each such hazard at
its line under "hazards".

What makes each component correct:

* rules: the three tables follow the rows; no edit interrupts an enabled rule;
  the two proxies serve alike; a disturbed state is repaired by the next edit;
* certificates: what a client gets names the host it asked for and, after a
  maintenance pass, has not expired; the CA in memory is the saved one;
* DNS: the answer is of the kind the documented order gives; every query ends;
* history: the newest entries, in order;
* settings: what the operator asked for is what runs and what is saved;
* life cycle: the shutdown ends, and takes neither a socket from a background task
  nor the database from a request that still has time;
* proxying: only an enabled rule sends a request anywhere; everything done for a
  connection ends when the connection does.

## 2. The modules

`Hostnames` – names as sequences of labels and the functions of `wildcard.go`.
`RoutingTable` – the exact-name map and the wildcard map that the two proxies and
the auto records each have, with look-up by exact name and then by the parent's
wildcard.  Used by the three modules that follow.

**`RuleSync`** has one action per database statement or critical section.
`Create`, `BeginUpdate`, `BeginDelete` and `BeginToggle` are the first statement of
a request, `Commit…` the second, `RpRemove` … `FpUpdate` the calls into the
proxies, `Sync…` the steps of `syncAutoRecords`.  `op[w]` holds the locals of
goroutine `w`.  `Faults` says which statements may fail: the `SELECT` of a row by a
handler (`"read"`), its `UPDATE` or `DELETE` (`"write"`), what a sync reads (`"sync"`) and
what a start reads (`"start"`); what the code does about the error (500, nothing, a zero
rule, a part of the rows taken for all of them) is what the action does.  `Select` is
such a `SELECT` of all rows.  `Restart` is a crash at any point followed by a start, which
reads the rows three times, once for each table; a failure is only a warning, and that
table lacks the rows it could not read.  `RuleSyncProps` states the properties and two
disciplines of clients: `SpecClaims` (no two requests edit one rule or host name at
once) and `SpecCareful` (in addition, no `PUT` to an id without a row).

**`CertManager`** models the start (`StartCA`), handshakes and regenerations
(`CacheHit`, `CacheMiss`, `LoadRow`, `LoadWildcard`, `Sign`, `SaveCert`, `Store`,
`Evict`, `DeleteRow`) and the maintenance pass (`CheckCA` … `Maintained`).  A
certificate is the name it was made for, its expiry and the CA that signed it; a
clock of a few ticks makes it expire.

**`DnsServer`** follows a query with a question through `LookupManual`, `LookupAuto`,
the upstream servers and the log, while records and rules are edited between its
look-ups.

**`RingBuffer`** is the buffer with `head` and `count`; **`BoundedLog`** is what it
promises, a log of the newest `Size` entries, and `DnsServer` logs through that
promise rather than through the buffer.

**`Proxying`** follows a connection.  After the look-up under the read lock a request
goes through `send` (its body is read from the client), `backend` (the answer is waited
for) and `answer` (which is written to the client), then into the log; one that no rule
matches takes the same way to the host outside, without a rule and without a log.  A
CONNECT with a rule gets a certificate and a handshake, and then its requests take that
way one after the other; one without a rule gets two goroutines that copy.  Each of them
reads or writes; in a `Write` it stays as long as the other end takes nothing, and does
not see that its own end has gone.  When its copying is over it closes its source and
then its target.  `Leave` is a client or target that closes, or stops sending.
`UpdateRule` and `RemoveRule` are the calls `RuleSync` makes, on either proxy at any
time.  A connection has one request at a time: a client that pipelines is not modelled.
A backend is what protocol, address and port say, "auto" being one of them; a Location
header stands for everything that is rewritten.

**`Settings`** is the table, the shared `AppConfig` and what the components were made
with.  `LoadSettings` is the start: read, let the options win, save.  `PutSettings`
and `PutUpstream` are the two requests; each leaves in `saving[w]` the keys goroutine
`w` has still to write, and `SaveKey` writes any of them, as the iteration over a Go
map does.  `SaveFails` gives up, as the first error does.  `Used` is what the components
get of a configuration: 0.0.0.0 in place of no listen addresses, which the `AppConfig`
keeps as they are.  `ServiceArgs` is the command line an installation registers.

**`Lifecycle`** extends it with the process.  `main.pc` is where `runServe` is and
`main.left` the components still to start or to stop; `main.todo` are the sockets of the
component whose `Stop` is running, `main.expired` whether its five seconds are over.
`options` is what the operator asked for, of `serve` or of `install`, and `Args` what of
it reaches the process: all, or what the installation passes on.  `op[t]` is a request
goroutine: `busy`, `saving` an edit, or `hijacked` (a tunnel or a live web socket, which
`Shutdown` does not wait for).  `bg[t]` is a background goroutine with the jobs left of
its run: the sockets a health check asks in order, or clean-up and renewal.  `End` is
the return of `main`, or a crash at any point.  `LifecycleProps` states the properties,
and with a history variable `wanted`, the settings the operator asked for, the one on
the saved rows.

**`AccessLog`** is the arithmetic of `Cleanup`: which entries a retention keeps.

`RuleSyncProps`, `CertProps`, `DnsProps`, `ProxyingProps` and `LifecycleProps` state
the properties and the inductive invariants behind them.  Some properties speak of what
happened before; a module of its own adds the history variable they need to the
specification, without touching the variables of the model:

* `RuleSyncHeal` – `alone`, the handler that has had the process to itself since it
  began its request or its sync, and was told by every `SELECT` what the rows hold (it was
  not `Misled`), if there is one;
* `CertWatched` – `failed`, whether a statement of the maintenance pass has failed;
* `DnsWatched` – `right` and `edited`, the kinds of answer that have been right since a
  query arrived and the tables edited between its two look-ups;
* `ProxyingWatched` – `seen`, the enabled rules that have matched since a request arrived.

`…Proofs` modules hold the theorems (section 4), `MC…` modules only give the constants
values.  Definitions marked "Deviation"
are not part of any specification: each is the definition below it with a
plausible mistake, kept to show that a property notices the mistake.

## 3. The runs

| run | question | bounds | distinct states |
|---|---|---|---|
| `RuleSyncCareful` | do both proxies follow the rows, without interruption, when clients do not edit one rule twice at once? | 2 requests, 2 ids, an exact name, its wildcard and an invalid name; writes and syncs fail; restarts | 80 thousand |
| `RuleSyncClaims` | do the proxies still agree with every statement of a request failing and `PUT`s to missing ids? | the same; a start reads what there is; syncs end early, which no route depends on | 400 thousand |
| `RuleSyncHeal` | does one undisturbed request repair what races and failed starts left? | 2 requests racing freely, one id, a name and its wildcard, an address that changes, starts whose reads fail | 560 thousand |
| `CertConcurrent` | does every certificate handed out name its host, is the CA the saved one? | 2 callers and maintenance, two of the three at once, every statement may fail, 3 moments | 750 thousand |
| `CertSerial` | does maintenance clear the cache of what expired and of what a replaced CA signed, does the cache equal the table? | one activity at a time, a clock of 6 moments | 320 thousand |
| `RingBuffer` | does the buffer implement the log? | 5 slots, 3 entries | all states |
| `DnsAnswers` | is an answer right at some moment of its query? | 1 query after another, 1 record, 2 rules, 2 upstreams, failing look-ups | 94 thousand |
| `Proxying` | see below | 1 connection after another, rules for a name and its wildcard with 2 backends, blocked writes, failing log | 200 thousand |
| `Lifecycle` | see below | a port, the listen addresses and the fallback servers with 2 values, 4 command lines given to `serve` or `install`, 5 sockets, 2 request goroutines, failing statements, crashes | 450 thousand |

The bounds are small and still have the interesting cases: two requests are enough
for every race of two goroutines, and the third would only see what a disturbed
table already is; a name and the wildcard above it are all that a look-up ever
compares; two ids let a name move from one row to another; the moments of the
clock cover valid, just expired and renewed.  One connection suffices in
`Proxying`, and one query in `DnsAnswers`, because connections and queries share
only tables they read and logs they append to.

`RuleSyncCareful` checks `RouteInv`, the invariant the proof uses, and with it
`RoutesFollowRows` (a host name nobody is publishing has in both proxies the rule of its
row) and `RoutesStay` (no step takes away the route of an enabled rule).  `RuleSyncHeal`
checks that a sync, an edit or a delete that has the process to itself leaves the right
records, with the addresses of the moment, and the right routes whatever was there
before, and that it never removes a record of an enabled rule on its way (`AutoStays`).
`CertSerial` shows `MaintenanceClears`: a pass whose statements succeed leaves nothing
expired in the cache, which nobody checks for expiry.  `Proxying` checks that only a
rule that was enabled and matched at some moment of the request sends it to a backend
(`BackendWasRight`) or into the log (`OnlyRulesLogged`), that the certificate of an
intercepted tunnel names the host asked for (`CertificateNamesHost`), and that a
connection one end of which has gone is wound up (`HandlersEnd`), unless a `Write` holds
it for ever: of a request's body, of an answer, or in one direction of a tunnel.
Without any one of these exceptions TLC finds `HandlersEnd` violated.

`CertSerial` also follows the CA.  A renewal, or a start that cannot read its row,
replaces the CA and leaves every host certificate signed by the old one in use.
`ReplacedCADies` bounds how long: none lives longer than `HostLife` after the
replacement.  `ReplacedCAGone` is what follows for the cache and the table: the first
pass of the maintenance after that, if its statements succeed, has left nothing signed
by another CA than the present one.  A CA lives longer than a host certificate in this
run, as in the code, and a start may replace it early.  In `CertConcurrent` both live
one tick so that three moments show every combination of expiries.

`Lifecycle` asks two questions at once, because settings are edited by requests the
shutdown has to wait for:

* *The settings.*  `OptionsWin`: whatever was saved, and however reading and saving
  went, the components are built with the options the operator gave, also those that say
  the default; only `install` drops these (`Dropped`).  `RunningIsInUse`: what the REST
  API shows as running is what the components have, but for the fallback servers and for
  an empty list of listen addresses, which they take for 0.0.0.0.  `SettingsKept`: with
  nobody saving, the rows are exactly what the edits and the options said, through any
  number of starts and crashes, unless a statement failed, a crash cut a save short, or
  two saves overlapped.
* *The shutdown.*  `BackgroundUndisturbed`: a health check never finds a socket that was
  closed before it, a clean-up or a renewal never a closed database.  `EditsFinish`:
  when the database closes, the only requests its servers still know of are those whose
  component had used up its five seconds.  An intercepted CONNECT that is still getting
  its certificate, and the goroutine the creation of a rule leaves behind to get one,
  are not among the requests anybody waits for (section 5).  `ShutdownEnds`: every wait
  ends, whatever is open.

Two sockets of one component share a deadline (`http` and `https`), one component is
not waited for (`udp`), one socket takes edits and has live web sockets (`admin`), one
has tunnels (`proxy`); one goroutine can be in `https` while another holds `admin`.  One
port stands for all settings the API saves together, the fallback servers are the one it
saves alone.  The service library and the DNS library are external: the `Shutdown` of a
DNS server may return before its queries have ended (`Waiting` names the sockets of
`net/http`).  `MCLifecycle` also evaluates `CleanupKeeps` over some days: the clean-up
keeps the entries of the last calendar days, as many as the retention says, and no others.

Three runs expect a violation of what a document says:

* `RuleSyncShadow` – `LoadRules` selects every row although its comment says
  "loads enabled proxy rules" (`reverse_proxy.go:55`).  After a restart a disabled
  exact rule hides the wildcard rule above it in the reverse proxy, which answers
  502, while the forward proxy serves the wildcard.
* `RuleSyncRace` – `syncAutoRecords` lists the enabled names and then changes the
  records without a lock over both; a delete and a create that overlap leave the
  record of a deleted rule, or none for a new one (仕様:149, 150).
* `ProxyHeaders` – an intercepted tunnel passes the rule's host name to the
  backend, `*.dev.lan` for a wildcard rule, and rewrites no answer (仕様:106, 110).

### Fairness

Safety runs assume none.  Liveness assumes weak fairness of each goroutine's own steps:
Go schedules every runnable goroutine, and every lock is held for one map access.  The
steps of one query share a deadline of five seconds, so they happen.  In `Proxying` a
backend and a TLS client have no deadline at all.  That the client has left breaks a
handshake off, and cancels a request's context once its body has been read: `net/http`
does not watch the connection before.  So `GiveUp` is fair in the handshake and in
`backend` only, and neither a `Write` nor the reading of a body is fair anywhere; a
`Write` that never returns is the exception of `HandlersEnd`.  `ReadEnds` and
`TunnelEnds` are strongly fair: what an end sent before it left is finite, so a
goroutine that comes back to read again and again finds the end some time.
`MaintenanceEnds` excepts a process restarted for ever.  In `Lifecycle` the main
goroutine, the deadline and the jobs of the background tasks are weakly fair; a request
is not fair at all, it may hang.  The tasks leave their `select` under strong fairness:
with a timer and the stop channel ready Go takes either at random, and the timers are an
hour and a day apart.

## 4. What is proved

| theorem | says |
|---|---|
| `RuleSyncProofs!TypeCorrect` | `RuleSync` is type correct |
| `RouteProofs!RowsCorrect` | under `Spec`, for every client and every fault, host names and ids identify rows |
| `RouteProofs!RouteInvariance`, `RoutesCorrect`, `RoutesNeverInterrupted` | under `SpecCareful`, if handlers and starts can read the rows, the routes follow the rows and no enabled route is interrupted |
| `RouteProofs!ProxiesAgreeCorrect` | under `SpecClaims`, if starts can read the rows, and whatever else fails, the two proxies have the same rule for every name nobody is publishing |
| `RouteProofs!SyncsHeal`, `EditsHeal`, `DeletesHeal`, `RecordsStay` | a handler that ran alone, and was told by its `SELECT`s what the rows hold, leaves the right records and routes whatever races, failures and failed starts left, and takes no enabled record away meanwhile |
| `RoutingTableProofs!EntryOfPut`, `EntryOfTableOf` | storing under a name changes its entry and no other; a start fills the table with what the rows say |
| `CertProofs!TypeCorrect`, `CertInvariance`, `ServedCoversTheName` | every certificate handed out names the host |
| `CertProofs!CAIsSaved`, `ReplacedCAIsBounded` | the CA in memory is the saved one; what a replaced CA signed lives no longer than `HostLife` from then |
| `CertProofs!CacheIsCoherent` | with one activity at a time the cached certificates are the saved ones |
| `CertProofs!PassesClear`, `ReplacedCAGoes` | a maintenance pass without a failed statement leaves nothing expired and, late enough, nothing a replaced CA signed |
| `RingBufferProofs!RingInvariance`, `Refinement` | the buffer implements the bounded log, for every size |
| `DnsProofs!TypeCorrect`, `AnswersWereRight` | the DNS server is type correct, its history bounded; an answer is of a kind that was right at some moment of its query, unless both tables were edited between its two look-ups or the record there was could not be read |
| `ProxyingProofs!TypeCorrect`, `ProxyInvariance`, `InterceptedCertificates` | the certificate of an intercepted tunnel names the host the client asked for |
| `ProxyingProofs!BackendsWereRight`, `LogsAreOfRules` | only a rule that was enabled and matched while a request was handled sends it to a backend, or logs it |
| `LifecycleProofs!TypeCorrect`, `TasksUndisturbed`, `EditsAreFinished` | no background task meets a closed socket or database; of the requests their servers know of, only those do that outlasted their five seconds |
| `LifecycleProofs!RunningIsShown`, `OptionsAreUsed`, `SettingsAreKept` | what the API shows as running is in use, but for the fallback servers and an empty list of listen addresses; the options given are used, but for what an installation drops because it says the default; what undisturbed edits and options said is saved |
| `LifecycleProofs!CleanupIsExact` | the clean-up keeps an entry exactly if it is of one of the last calendar days, as many as the retention says, for every moment and every retention |

They hold for any number of goroutines, names, rules and faults.  TLC found the inductive
invariants that the property modules state (`RowsInv`, `RouteInv`, `AgreeInv`, `HealInv`,
`CertInv`, `SerialInv`, `ClearInv`, `AllWatchedInv`, `ProxyInv`, `SeenInv`, `RingInv`)
true on the instances of the runs; put one of them in the `INVARIANTS` line of its
configuration to repeat that.

The theorems under `SpecCareful` suppose `"read" \notin Faults` and `"start" \notin
Faults`, `ProxiesAgreeCorrect` the latter alone.  Without them they are false: an update
whose first read fails does not learn the old host name and leaves its route in both
proxies (`server.go:326`); a start one of whose reads fails leaves one table empty,
while the others are filled (`main.go:162`).  The theorems about an undisturbed handler
suppose nothing of `Faults`: a handler that was itself misled by a failed `SELECT` is
not one, one that comes after such a failure is.  The other assumptions are the named
ones of the modules: names are sequences of labels and closed under cutting off the
first label, the value `Absent` is neither a rule nor an address list nor a certificate,
sizes are positive; the sockets of different components differ, and a health check asks
at least one.

*The rows.*  `RowsInv` needs of a handler only that it writes under the id it was asked
for and never an empty host name (`WritesOwnId`); the rest is the `UNIQUE` constraint and
the counter of ids.  So it needs no discipline.

*The routes.*  `RoutesFollowRows` is not inductive: between the row and the maps
the table is behind, and what a handler will do depends on the host name it read
earlier.  `RouteInv` adds what each handler knows at each step: before the
`UPDATE` the old name is still the row's; while removing, no row has the old name,
and the maps left behind have lost it; while publishing, the row is the handler's
rule.  These facts survive the steps of others because the claims of two handlers
are disjoint, which is the discipline `SpecCareful` states.  Without it the
property is false (section 5).  The proof goes by action, with one lemma for
handlers that did not move, and rests on wildcards having different bases
(`WildcardBaseInjective`), so that one entry changes at a time.

*The agreement.*  `AgreeInv` says nothing of the rows.  Two tables differ in a name only
while a handler is `Halfway`: it has changed the reverse proxy, and what it is about to do
to the forward proxy is what the reverse proxy now holds.  Each step therefore either
opens such a gap or closes it, and disjoint claims keep another handler from writing into
it.  No statement of a request has to succeed for this; a start, which fills both
tables, has to read the same rows twice.

*The repairs.*  `HealInv` supposes nothing of the tables an undisturbed handler `w` finds;
`Undisturbed(w)` says what it has established since: after each removal that the name is
gone, during a sync which records are already right (`set`) and that a record outside
`active` is still on the list of those to be removed (`prune`).  Nobody else moves, or
`alone` is no longer `w`; nor is it when a `SELECT` misled `w`, so that the host name, the
rule and the list of active names `w` keeps are those of the rows.

*The certificates.*  `CertInv` says that rows and cache entries are kept under the
name they were made for, and that what a look-up is about to store is of its own
name or of the wildcard above it.

*The replaced CA.*  `ReplacedCADies` needs the history of no certificate: `AgeInv` says
that none expires later than `HostLife` from now and no CA later than `CALife` from now.
A CA that is made now therefore finds none that could break the bound; a CA that is
loaded is the one already in memory (`CASaved`).  Four lemmas say where the rows, the
cache, the answers and the locals of a step come from.

*The cache.*  Under `SpecSerial` a row changes only while its name is out of the cache,
and what `Store` puts in is the row (`SerialInv`).  `OneAtATime` is needed: a look-up that
read its row before another goroutine's regeneration breaks it (section 5).

*The maintenance.*  `ClearInv` follows a pass in which no statement has failed: once
checked, the CA is good; the rows that have expired are those still in `todo`.  At the end
`todo` is empty, and by `SerialInv` the cache holds nothing but rows.  That nothing of a
replaced CA is left then follows from the ages (`AgeInv`): it would have expired.

*The answers.*  `WatchedInv` says what a query knows from the tables it has read.  Between
the two look-ups either the records are as they were, or they were edited, and then
the rules were not: in the one case what is about to be answered is right now, in the
other it was right when the records were read.  When both were, or when a record there was
could not be read, nothing is claimed: then a name may go to an upstream server that was
local all the time (section 5).  An edit before the first look-up or after the second is
no such case.

*The requests.*  `SeenInv`: what the table holds for the host now has been seen, and
so has the rule a goroutine took from it.  A goroutine keeps its rule, whatever becomes of
it in the table, for one request or, in an intercepted tunnel, for all.

*The life cycle.*  `LifeInv` is proved in parts.  `OpenInv` and `StopInv` say that a
component not yet started or stopped is still on `main`'s list, a socket not yet shut
down on one of two lists; so "all lists are empty" means all sockets are open, or all
are drained or given up.  `TasksInv` ties the tasks to the phase of `main`.  A socket that
is drained has no request and takes none.

*The settings.*  `SettingsKept` is about rows and nobody saving; its induction has to
say what a goroutine in the middle of its save owes: the rows overridden by what is
still to be written are what is wanted, and at most one goroutine is saving while
`wanted` is not `Torn`.  `OptionsWin` and `RunningIsInUse` need that the
configuration agrees with `Args(options)` until the components are built, and from then
on with `inUse` up to the two exceptions.

*The clean-up.*  `CleanupIsExact` is arithmetic: a moment is a whole number of days and a
rest smaller than a day, so that cutting off the rest of now and going back
`retention - 1` days is the first moment of the first day to keep.

*The buffer.*  The refinement needs `RingInv` (until the buffer is full the head is
the number of entries) and an argument on the remainders, by the two cases in which
the read position wraps around and does not.

*The tunnels.*  `ProxyInv` says that rules are found under their own names
(`Keyed`), so the rule a look-up finds covers the name looked up, and keeps doing so
in the goroutine whatever happens to the table.

Only model-checked: liveness (`CallersReturn`, `MaintenanceEnds`, `QueriesEnd`,
`HandlersEnd`, `ShutdownEnds`), which needs fairness and `ENABLED` and is beyond the
provers.  Every safety property of a passing run is a theorem.  The three runs that
expect a violation prove their point by the counterexample.

## 5. Known divergences

Besides those the three runs show, found while modelling and kept in the models as
the code has them:

* A `PUT` to an id without a row changes no row and publishes its rule in both proxies
  until the next start (`server.go:329`); `IdsExist` excludes it.
* A `PUT` or `DELETE` that cannot read the old host name drops the error and goes on, so
  the routes of that name stay until the next start (`server.go:326`, 356).
* A start that cannot read the rules for one of its tables only warns and goes on, with
  that table empty, or without the rows that could not be read: the reverse proxy
  without routes and the forward proxy with them, or the other way round, or no name
  resolved (`main.go:162`–164, 359–371, 386–392).  An edit of a rule repairs its own
  route and all the records; the other routes wait for an edit of theirs or the next
  start.
* A sync that reads only some of the enabled host names, because the query breaks off
  (`rows.Err` is not looked at), takes the records of the others away until the next
  edit (`server.go:840`–847).
* Two requests for one rule may publish in opposite orders and leave different rules in
  the two proxies (`server.go:347`); `ClaimsDisjoint` excludes it.
* Each edit resolves the listen addresses anew, while 仕様:155 says they are fixed at the
  start.
* Regenerating a name whose wildcard certificate is valid deletes the name's own
  certificate and issues none (`manager.go:133`, against the comment at 122).
* A cached wildcard certificate goes before the name's own (`manager.go:73`, against
  仕様:81).
* A look-up that read its row before a regeneration puts the old certificate back into
  the cache (`manager.go:307`); hence `CacheCoherent` is for one activity at a time.
* A query whose name has only a rule at its first look-up, and gets a manual record and
  then loses the rule before its second, finds neither and asks an upstream server for a
  name that was local all the time (`dns/server.go:105`).
* A query without a question is answered but not logged (`dns/server.go:91`).
* Upstream servers are chosen by the client's address instead of the interface's
  (`dns/server.go:368`, against 仕様:174).
* A response whose body breaks off is not logged, because the library panics through the
  handler (`reverse_proxy.go:241`).
* A tunnel stays for ever, with both its goroutines, if one of them is in a `Write` to
  an end that stays and does not read: there are no deadlines, and the goroutine does
  not see that its own end has gone (`forward_proxy.go:313`–317).  A request whose body
  is still being sent, and an answer its client does not take, are held in the same way:
  `net/http` cancels a request when the client leaves only once its body has been read.
* The shutdown does not wait for an intercepted CONNECT that has taken over its
  connection and is getting its certificate (`forward_proxy.go:262`–267), nor for the
  goroutine that gets one for a new rule (`server.go:277`): either may meet the closed
  database.
* A renewed CA, and one made because its row could not be read at a start, leaves host
  certificates clients cannot verify with it, for up to a year (`manager.go:145`).
* An option that says the default is not passed on by `install` (`main.go:307`), so a
  different value saved before stays in force, against 仕様 on `install`.  Given to
  `serve` itself it counts (`main.go:338`).
* Settings that cannot be read at the start are overwritten by the defaults
  (`main.go:90`, 97), although without options the saved ones should be used (仕様:296).
* `PUT /settings` decodes into an empty `AppConfig` and saves it all: a field missing in
  the body becomes zero (`server.go:801`).  A history size of zero panics at the first
  query after the next start, a negative one at the start; a retention of zero deletes
  all access logs; with no listen addresses the servers listen on 0.0.0.0, while
  `/settings/running` shows the empty list and the auto records get no address
  (`main.go:138`–141).
* Overlapping edits leave a mixture of both, key by key (`config.go:137`).
* The fallback servers set by `PUT /dns/upstream` are shown at once and used after the
  next start (`server.go:561`; 仕様:176); the retention, likewise, only then.
* The goroutine of a live web socket outlives its client until the API stops: the
  context of a hijacked request is never cancelled, and errors of writing are dropped
  (`server.go:741`, 759).
* The database is opened without a busy timeout, so a statement may fail because of
  another; this is what `DbFails` stands for, besides broken disks.
* `Program` in `service.go` has callbacks for a service manager that `serve` never uses.

## 6. Not modelled

Listening sockets, TLS records, packing of DNS messages, keys and signatures, JSON
and HTTP details; the names' letter case (the code compares host names byte by byte);
the `localhost` certificate made at the start; a socket that cannot be bound, which to
the models is one no request comes in on; the text of settings, which is parsed back to
what it was formatted from; the components of the last row of section 1, which keep no
state of their own.

## 7. Plan

Done: 1. `RuleSync`, 2. `CertManager` with the signing CA, 3. `RingBuffer`,
4. `DnsServer`, 5. `Proxying`, 6. `Settings`, 7. `Lifecycle`, 8. `AccessLog`, each with
its properties and theorems; 9. the theorems about the properties with a history.

Next, in this order:

10. A composition of `RuleSync` with `DnsServer` and `Proxying`, in which the edits of
   the tables are those of the handlers.
