# muxa in TLA+

A specification of [muxa](../src/README.md), a plugin-based framework for axum
applications: what its parts do when they run concurrently, fail or stop, model-checked
with TLC and, for the parts that matter most, proved with TLAPS. Paths below are relative
to `src/crates/`.

## 1. Inventory

An application is built by a chain of plugins (`AppBuilder::with_plugin`), each of which
reads its section of the configuration and registers routes, layers, background tasks and
telemetry layers in one `BuildCtx`. `App::run` then spawns the tasks, composes the router,
hands it to the serve function that the last plugin registered, and shuts everything down
when that function returns.

| Component | State | Operations | Interacts with | What is hard | What makes it correct |
|---|---|---|---|---|---|
| run and shutdown (`muxa-core/src/app.rs`, `ctx.rs`, `muxa-web/src/lib.rs`) | shutdown token, task registry and handles, serve function, `TaskOutcomes` | `run`, `spawn_all`, `serve_loop`, `join_tasks`, the ctrl-c bridge | every plugin's tasks, the requests in flight | tasks that end, panic or hang at any moment; one deadline awaited in turn; a failing bind | nothing left behind, truthful outcomes, one grace period, drained requests, run returns |
| OTLP shutdown (`muxa-otel`) | three SDK providers and their batches | `otel-shutdown` task, `Providers::shutdown` | token, requests' spans | the flush is triggered before the drain | what was buffered is exported before run returns |
| sign-in (`muxa-auth/src/routes.rs`, `plugin.rs`, `store.rs`) | session rows, cookies, the attempts in progress inside a session | `start`, `callback`, `sign_out`, `remember`, `take`, the sweeper | tower-sessions, axum-login, the providers, the application's resolver | overlapping requests of one session are unsynchronised read-modify-writes across awaits; expiry; store failures | attempts single-use, bounded and kept; no fixed session id; sign-out final |
| identity providers (`muxa-auth/src/provider.rs`) | the cached OpenID Connect client | `authorize`, `identify`, forced rediscovery | the routes, the network | two callbacks refresh at once; stale keys | a valid answer is accepted after a key rotation |
| migrations (`muxa-diesel/src/migrations.rs`) | the database, one transaction per run | `MigrationsRunner::run` | other replicas through an advisory lock | concurrent starts, snapshots, dying processes | all or nothing, once each, no replica stuck |
| query spans (`diesel-sentry`) | queue of open spans, connect span, transaction depth | `on_connection_event` | diesel-async's pipelining | finishes out of order, dropped futures, a full queue | a span is closed by its own query |
| plugin chain and router (`muxa-core/src/ctx.rs`, `app.rs`) | mounts, fallback, layers, serve function | `mount`, `fallback`, `layer`, `compose`, `with_plugin` | every plugin | registration order, duplicates | one fallback and one serve function; layers wrap in order |
| telemetry (`muxa-telemetry`) | process-wide slot of layers, their types, excluded targets; callsites' caches | `install`, `add_layer`, `exclude_targets` | otel and sentry plugins, every thread that emits | apps share the slot; two locks; answers of the filter that are stored late; what failed builds leave | list of types in step; hidden stays hidden once nobody holds an older answer; builds get on; a rebuilt app is traced |
| configuration and mode (`muxa-core/src/config.rs`, `mode.rs`) | none; read once per start | `load_figment`, `get_or_env`, `extract_section`, `RunMode::from_figment` | every plugin | four sources merged by different rules | the documented precedence; an unusable setting in force ends the start, one that is overridden does not |
| single-page app (`muxa-web/src/spa.rs`) | a build of files, embedded or on disk; the copies browsers keep | the fallback router, `client_route`, `cache_headers` | router, configuration, bundler, browsers | replicas of two builds during a rollout, copies that outlive a build | an import of a fingerprinted file or a call of the API never gets the page; nothing stale is kept for good |
| cross-origin guard (`muxa-auth/src/csrf.rs`) | the trusted origins | `TrustedOrigins`, `guard` | router, configuration, proxies | three headers, each of which may be missing or rewritten | own pages may write, others only if trusted |
| rate limit, banner (`muxa-web`) | tower_governor's buckets | a layer, a log line | router | the library's | - |
| host, errors (`muxa-core`); redirects, passwords, identity types, extractors (`muxa-auth`) | none | functions of one value | routes | parsing | - |
| sentry, sqlx, diesel pool, pgmq, OpenAPI, facade | built once | build | libraries | none of their own concurrency | - |

`PROJECT.json` lists each with its status, and under `hazards` each hard behaviour at its
line.

## 2. Modules

| Module | Models | Notes |
|---|---|---|
| `AppRun` | `App::run`, `spawn_all`, `join_tasks`, the serve loop | `phase` is where `run` stands; tasks, requests and the ctrl-c bridge are separate actors |
| `TaskJoin` | abstract: every task gets one truthful verdict | `AppRun` implements it (`JoinsEveryTask`): the refinement forgets the order, the clock and the deadline |
| `OtelShutdown` | the flush task, composed with `AppRun` | `EXTENDS AppRun`; `OtelNext` conjoins the steps of the lifecycle with those of the spans, and the flush task ends only by `OtelReturns` |
| `SignIn` | the routes over cookie sessions | a `slot` is a request in progress with its own copy of the session |
| `SignInHistory` | `SignIn` with what happened written down | `HistorySpec` is every behaviour; `SerialSpec` those where no browser overlaps with itself |
| `OidcClient` | the cached OpenID Connect client of one provider | a `call` is an `authorize` or `identify` in progress; the provider and the clock are actors |
| `Migrations` | `MigrationsRunner::run` of many replicas | one transaction per run, at statement granularity |
| `MigrateOnce` | abstract: a run happens in one step | `Migrations` implements it (`MigratesOnce`) |
| `QuerySpans` | the events of `SentryInstrumentation` on one connection | the query queue, the connect span, the transaction depth |
| `TelemetrySlot` | the slot of `muxa-telemetry`, at the granularity of its locks and of tracing's callsites | open: any caller, held to a protocol (`PathHidden`) |
| `BuildChain` | the plugin chain and router registry, with every plugin of muxa | `EXTENDS TelemetrySlot`, and implements it (`UsesTelemetry`): plugins keep to the protocol |
| `Config` | `load_figment`, the sections with their fallbacks, the mode | pure operators over what a process finds (`machine`) |
| `Startup` | what the web, SPA, auth and sentry plugins make of their sections | `EXTENDS Config`; ends in `Started`, what a process runs with, or that it did not start |
| `Csrf` | the guard's decision about one request | `EXTENDS Startup` |
| `Spa` | the fallback router of `SpaPlugin` | `EXTENDS Config`; a server is a section and a build |
| `WebEdge` | replicas, a bundler and a browser with a cache | composes `Startup`, `Spa` and `Csrf`: what a process started with decides what it answers |
| `AppRunProofs`, `SignInProofs`, `OidcProofs`, `MigrationsProofs`, `QueryProofs`, `TelemetryProofs`, `BuildProofs`, `WebProofs` | theorems | `BuildProofs` carries those of the slot over to the apps |
| `MC*` | small instances for TLC | |

### How state and actions correspond to the code

**AppRun.** `task[t]` is the `JoinHandle` at place `t` of the registry; names may repeat, so
the place is the identity. `RefuseToRun`/`StartRun` are the two ways out of taking the serve
function (app.rs:114); nothing suspends between it and `bind`'s first await, so `StartRun`
also spawns and composes. `Bind` and `BindFails` are serve_loop up to the bridge, `Accept`,
`StopAccepting` and `EndServing` are axum's graceful shutdown as serve asks for it, and
`BeginJoin`, `JoinFinished`, `JoinTimesOut`, `Return` are join_tasks. `timeout_at` polls the
handle first: hence a finished task is never timed out, however late. The clock is counted
from `BeginJoin`, the only place where it is read, and cannot pass the deadline while `run`
waits (a late poll after the deadline behaves as one at it, since nothing else reads the
clock).

**OtelShutdown.** One span per request, which the SDK takes when the request is answered and
the provider is open. The three signals share their shutdown, so one stands for them. An
export may be refused by the collector (`"refused"`), which no shutdown order can help.

**SignIn.** The session layer loads the row named by the cookie before the handler runs, the
handler reads and changes that copy, and the copy is written with the response if it changed:
each is an action, with the awaits between them. Handlers wait only for the provider, so
`ArriveStart` ... `Remember` and `ArriveCallback` ... `Login`/`RefuseCallback` are two steps
each. The answer to a refusal is data and is left out: `ArrivePage` stands for every request
that leaves the session alone. An attempt is the number under which it was issued, because
its contents never change and its state token is random; browsers may present any state token
that was issued, also another browser's. `Cycled` is axum-login's: the id changes on login if
nobody was signed in, the old row being deleted at once and the new created with the response.
What tower-sessions and axum-login do is modelled from how the routes use them, and marked
external in `PROJECT.json`.

A store failure is modelled where it changes something: in the middle of `login` (a branch of
`RefuseCallback`) and when the response is saved (`SaveFails`). One while loading or signing
out answers with an error and leaves everything as it was. `expires` is `OnInactivity`'s: set
whenever the row is saved, and only then.

**OidcClient.** What matters of a client is which keys it verifies with, so a client is the
range of keys published when its discovery was answered (`low` to `high`), with that time
(`seen`) and the one from which the code counts its age (`at`). `Begin` is the check under the
read lock, `Answer` and `Receive` the two ends of the request for the keys, and `Store` the
write lock. No lock is held across an await, and Rust evaluates the assigned pair, with
its `Instant::now()`, before it waits for the write lock: hence `Receive` dates the client and
`Store` may come much later. An answer takes one timeout at most (`Tick`), and the task that
waits for it is assumed to be polled when it arrives. A token that fails for a reason other
than its key (nonce, audience, expiry) is one that `NoKey` signs, and a mismatch of `at_hash`
is the failing branch of `Accept`. What `identify` does with a code, and what is in a claim,
are data.

**Migrations.** The four statements of the transaction and its commit are separate actions;
`snapshot` is what a REPEATABLE READ transaction would go on to see, and is there to say that
READ COMMITTED does not (`Visible`). A run that loses the session (its process dies or its
connection breaks) leaves the transaction to the database, which commits it if COMMIT had been
asked for, and otherwise rolls it back when it notices. Applications with different keys keep
separate migration sets (`MigrationsAssumption`), as `with_lock_key`'s documentation requires.

**QuerySpans.** The queue holds pairs of SQL and query, although the code only has the SQL
(hashed) and the span: the query's number is the span's identity. Different statements are assumed
to have different hashes. Whether anybody listens is asked of every query anew: `StartQuery` is
the one case, `StartUnheard` the other, which keeps nothing; its finish comes all the same, and
may take another query's span. Queries and transaction statements may come while the connection is
being established, as diesel-async's own set-up statements do. `StartEstablish` names the database
from the URL unless the application has. diesel-async counts the nesting (`depth`) and tells it
before it runs a transaction statement (`Begin`, `End`); `Done` and `Strays` are the two ways in
which the statement ends, of which no event says anything. Hence `tx_depth` may differ from the
nesting until the next transaction statement; `DepthTrue` says that it does no longer than that,
although the field's comment (diesel-sentry/src/lib.rs:79, "`0` means no transaction in progress")
makes no exception for a BEGIN that fails.

**TelemetrySlot.** `exclude_targets` is write, drop the guard, rebuild; `add_layer` is lock,
modify, push and unlock. `layers` and `kinds` are the two vectors, a layer being its type and
the builder that pushed it. `cached` is what callsites remember of the filter's answer: an
event whose callsite remembers that the layers want it reaches them without a look at the
filter, so a target is hidden only when it is excluded *and* not cached. The filter is
`muxa-telemetry`'s (`Ask` is `plugin_filter`, under the read lock), the callsites are tracing's
and external: a thread that comes to a callsite for the first time puts it in the list
(`Register`), and it and every rebuild (`AsksAll`, which both `exclude_targets` and `modify` end
in) ask about one callsite after the other and store each answer later (`Store`), with anything in
between. `answers` holds what is on its way. One target has one callsite, and `DropGuard` takes
the list of callsites in the step that gives the lock back: a callsite that comes into the list
after that asks a filter that is changed already.

So a yes may be stored after the rebuild that should have undone it. `overtaken` holds the
targets to which this may happen: those with a yes on its way when `Write` excluded them, until a
no has been stored and no yes is left. `ExcludedStaysHidden` and `NeverReexported` except them;
`ThenHidden` is the documentation's sentence without the exception, which `late_answer` refutes.
A poisoned lock, for which both
operations return, needs a panic under the lock and is left out. `PathHidden` is not in
`muxa-telemetry`: it is what its documentation asks of plugins, a guard of the open
specification `TelemetrySpec` and a consequence in `BuildChain`.

**BuildChain.** An app is its builder: `pc`, the chain so far and its `BuildCtx`. A plugin's build
is `BeginPlugin`, its calls on `ctx.telemetry` in the order of the source (`TelemetryCall`, each
of several steps of the slot), and `Built`; `PluginFails` and `Refused` drop the builder, and
leave in the slot what was pushed. muxa-otel and muxa-sentry register before they call the
telemetry, and nothing reads the `BuildCtx` in between. Handlers are left out: a router maps a
route to its middleware, innermost first, and a mount is a set of routes. `Overlap` is axum's
panic on merging the same route twice (two plugins that serve the docs, say), which ends that app.
`take_manual` is called by the application (`TakeManual`), which nests what it gets in its own
router: `hand` is what it holds, and only mounts with the prefix that it names are taken, each
leaving an empty place in the list (`Gone`). `alone` records that no other app has been in use
since this one was created, the case the documentation of the slot speaks of. The state is the
list of the plugins' names; of the trait bounds on it only pgmq's (a pool is there) says something
about the order, and the compiler checks it. Tasks are `AppRun`'s, which takes over where `Run`
leaves.

**Config and Startup.** A setting is a section and a key, and a section is its keys with their
defaults and fallbacks (`Defaults`, `Fallbacks`); the keys are those whose value decides something
in the modules here. `Bad` is a value that the type of its key refuses. `Merged` is the figment,
`Join` the fallbacks under it, `ExtractSection` the three outcomes (absent, read, refused). What
plugins do with the sections follows: `ParsesAsUrl` and `DsnParses` stand for the parsers,
`Normalize` for the origin of a URL. A URL is its origin, which may be opaque, and whether it
parses: `app.example:8080` parses and has no origin, so that the provider is on and trusts nobody.
A provider that cannot be used is off and does not end the start; an unusable DSN ends it.

Two sentences of the documentation hold only with a proviso. A `config.toml` that does not parse
makes `find_value` fail, so that every section is its default (config.rs:189-192), while
config.rs:151-154 promises that "a typo in a value fails the build": `SettingsHonoured` is about
files that parse. And `assets_prefix = ""` or `"/"` covers every path, HTML included, which would
be immutable in spite of "besides HTML (always `no-cache`)" (spa.rs:108): `ConfigAssumption`
excludes it.

**Spa, Csrf and WebEdge.** The operators of `Spa` and `Csrf` are the handlers, one each:
`ClientRoute` is `client_route`, `CacheHeaders` is `cache_headers`, `Allowed` is the guard's
condition. `WebEdge` gives them state: what each replica runs with, the bundler's output on disk
(debug builds read files from there, `None` being a path that the binary knows and the disk has no
longer), and a browser with the build of its page and its copies. A request is one step, since the
handlers keep nothing between awaits; what may interleave is requests with starts, stops, rebuilds
and each other's copies. What the page loads by name is `Import`: under the bundler's prefix it is
there or not found, but a file outside of it that the answering build lacks gets `index.html` like
any unknown path, and `ExcludedGetsNoPage` speaks of the first kind only. `last` holds what a step
returned to those who asked, as they saw it, and `Settle` forgets it before the next step:
properties relate an answer to the state of the whole system at that moment.

Not under src/, and modelled from how it is used: memory-serve answers files with what it says of
keeping them (`ServeFile`); a browser keeps only what it is explicitly told to, and a copy that it
asks about and that has not changed stays (`Kept`); a bundler gives a fingerprinted file a name
that changes with its content and puts it under its prefix (`BundlerAssumption`). Machines agree
with the bundler on that prefix and exclude the API's paths (`ConfigAssumption`).

## 3. Runs

| Run | Instance | Shows |
|---|---|---|
| `app_run` | 4 tasks (the flush third), 2 requests, grace 2 | the shutdown properties, the flush and `ShutdownCompletes`, with `TaskJoin` as a property |
| `sign_in` | 2 browsers, 2 requests at once, 2 attempts, `MAX_PENDING` 1, TTLs 1, clock to 2 | what stale copies cannot break |
| `sign_in_serial` | 2 browsers, 3 attempts, `MAX_PENDING` 2, clock to 1 | what a browser without overlapping requests is promised |
| `single_use` | 1 browser, 2 requests at once, 1 attempt | **violated**: overlapping callbacks use an attempt twice |
| `session_ttl` | 1 browser, 1 request at a time | **violated**: reading pages does not keep a session alive |
| `oidc_client` | 2 calls, 3 keys, TTL 2, timeout 1, clock to 3 | which keys a call may use and which tokens it may refuse |
| `migrations` | 4 runs: two of one version, one of the next, one with its own key | all or nothing, once each, everyone returns |
| `query_spans` | queue of 3, 5 queries, 2 statements, nesting of 2 | when spans are exact, and when their depth is |
| `late_finish` | queue of 2, 3 queries | **violated**: a finish after an eviction closes another statement's span |
| `late_answer` | 1 builder, 1 target | **violated**: an answer stored late shows a target again that was hidden |
| `build_chain` | 2 apps, chains of up to 3 and 1 of the plugins, 1 target, 3 kinds of layers | what the slot keeps whatever builds do, what every router wraps, that builds get on |
| `web_edge` | 2 replicas, 14 machines, 3 released builds and 2 on disk, one browser, 5 origins | which settings are in force, what imports and API calls get during a rollout, what a browser may keep, which pages may write |

The four violated properties are sentences of the documentation that the code does not keep;
`findings` in `PROJECT.json` quotes each.

**Bounds.** Four tasks allow one to be judged before, one at and one after the deadline, with a
panic in any of them and the flush in between, and a grace of two ticks tells "one deadline" from
"one each". Two requests are one drained and one not. The limits of sign-in are small enough that
the map fills, attempts expire between `start` and `callback`, and a session expires under a
request; two slots suffice for every conflict of two copies. `MaxIds` bounds the sessions ever
created: a `Save` that needs a new id when none is left does not happen, which `SaveFails` still
allows. `MaxAttempts` ends `Remember` in the same way and leaves that request unanswered; the
other actions go on. `MaxTime` stops the clock. Four runs of migrations are the smallest set with
a waiter that finds nothing to do, one that finds less to do, and one that shares no lock. Two
calls on one cached client are enough for each to replace what the other stored, three keys for a
client that misses both the oldest and the newest, and a clock to TTL + 1 for one that expires. A
queue of three is the smallest where a match can be first, middle or last; five queries fill it
and evict two, and a nesting of two tells the depth from a flag. Two apps are enough for a layer
that is replaced, for a lock that is waited for and for a rebuild after a failed start; a chain of
three has a plugin before, between and after any other, and the app with three plugins has
muxa-otel, the two layers of muxa-auth, a serve function and mounts of its own (two manual ones,
of which a call takes one), the other one of the rest (pgmq, which needs a pool before it,
registers what the pool does: nothing). One target, which every exporter uses, is enough for all
that its one callsite may go through, since nothing relates two targets. Two replicas are one of
each build during a rollout, or one up and one down. The five builds differ in each way that
matters: a page of their own, a file with the same name and another content outside the prefix, a
fingerprinted file that only one has, one that both have, a build without a page, and on disk a
path that comes or goes. A file outside of the prefix that one build lacks (`hero.png`) is
answered with the page. The fourteen machines are one per way in which sources meet (overridden,
another app's, empty, unusable in force or overridden, an unusable file, a file of another name, a
URL without an origin and one that does not parse). Mutating the code in each place a property is
about (`mutants`) breaks every property within these bounds.

**Symmetry** is used for slots, calls, statements and replicas, never in a run with liveness.

**Deadlock** is checked except in `migrations` (every run returns and the model stops) and
in `query_spans` and `late_finish` (the number of queries is bounded), and in `build_chain`
(both apps end).

**Fairness.** `AppRun`: the runtime polls what is ready, so each step of `run` is weakly fair,
and a request's handler ends eventually, which is the one assumption about the application
(the code puts no limit on the drain). Neither background tasks nor ctrl-c are fair, nor, in
`OtelFairSpec`, the flush and the collector: run returns without them.
`Migrations`: a live run makes its next statement, and the database notices a client that is
gone; no failure is fair, so that a waiter gets on only because the lock is given back.
`BuildChain`: a build that has begun gets on, since the runtime polls the task it is part of and
locks are handed over; that plugins are added, or that an app stops, is not assumed.
The other specifications state no fairness and check no liveness.

## 4. Proofs

For every value of the constants that satisfies the named assumptions:

- `AppRunProofs` (from `AppRunAssumption`): `TypeOK`, `NoTaskLeftBehind`, `OutcomesTruthful`,
  `WaitBounded`, `RequestsDrained`, and that `AppRun` implements
  `TaskJoin`. The invariant adds to the properties what ties the phases together: before
  `BeginJoin` the clock and the deadline are zero, from there on the token is cancelled and
  the deadline is `Grace`, and tasks are scheduled only before `StartRun`. Without it
  `OutcomesTruthful` is not inductive: an abandoned task could have been judged early. Of
  `OtelShutdown` (and from `OtelAssumption`): that it implements `AppRun`, which carries all of
  this over to an application with muxa-otel, and `BatchTailFlushed`: the flush has returned only
  if the providers are closed, and those have nothing left in a batch.
- `SignInProofs` (from `SignInAssumption`), in three parts.

  *Types and ids:* `TypeOK`, `PendingBounded`, `FixedIdUseless`. The hard one is the last, since
  stale copies may resurrect rows. Its strengthening, `IdsSettled`, says of every copy in progress
  that one which has a user and an id has an id that never was anonymous: a copy loaded from an
  anonymous row can only gain a user by `Login`, which takes its id away.

  *Owners:* `SignInEarned`, `LiveSessionsKept`. Both are about single steps. The first needs an
  invariant of its own, `Own` (theorem `Ownership`): no id is in the cookies or copies of two
  browsers, and rows and copies hold attempts of their browser. An attempt that a callback finds is therefore
  one that this browser started, although it may present any state token.

  *Histories:* `SignOutFinal`, `SingleUse`, `AttemptsKept`, which hold only of browsers that wait
  for an answer before the next request (`SerialSpec`; the run `single_use` shows why).
  `HistoryWatches` carries what holds of `SignIn` over. The three invariants follow a row and the
  copies of it: nothing in progress has the id of a session that was signed out of
  (`SignedOutGone`); no attempt that was used is in a row or a copy (`UsedOnce`); a copy names the
  session of its browser's cookie, and until it is saved it holds every attempt of that browser
  that has not ended (`AllHeld`). Why all three need serial browsers shows in `Save`: with one
  request in progress, the row that it overwrites is the one that was loaded. `AttemptsKept` is
  proved for `PendingTtl <= SessionTtl`, a hypothesis of the theorem: the code does not enforce it,
  and sets 10 minutes against a default of 30 days (provider.rs:34, config.rs:87).
- `OidcProofs` (from `OidcAssumption`): `TypeOK`, `RotationTolerated`, `KeysRecent`. The
  invariant says of every client, cached or in a call's hands, that its lowest key is at most
  the oldest published one (keys are withdrawn, never restored), and of a call that has
  rediscovered that its client reaches to the token's key: the discovery came after the
  exchange. Hence only a withdrawn key is missing from it.
- `MigrationsProofs` (from `MigrationsAssumption`, `VersionsFinite`): `TypeOK`,
  `NeverAppliedTwice`, and that `Migrations` implements `MigrateOnce`. The invariant: at most
  one run per key is past the lock, and what a run past it has to do and has written is,
  together with what is committed, all it embeds, with nothing in two places. The step that
  counts is the commit of another run: of another key, hence of disjoint migrations.
- `QueryProofs` (from `QuerySpansAssumption`): `TypeOK` (the bounded, ordered queue), `DepthTrue`,
  `SpansExact`, `RunningHaveSpans`. The invariant says of the queue that its spans are of different
  queries that have started, oldest first, and of a transaction statement in progress that
  `tx_depth` is the depth which it leads to. For `SpansExact` the span that a finish takes is its
  own since an older one with its SQL would be of a query that is still running, which would have
  been overtaken. For `RunningHaveSpans` sets of queries are counted: a finish takes one query from
  the open and one from the running, of the same statement, because a running query has at least
  one open span that the search can find.
- `WebProofs` (from `BundlerAssumption`, `ConfigAssumption`, `OriginAssumption`,
  `MachineAssumption`): `CopiesCurrent`, `ExcludedGetsNoPage`, `FoundOnceRolledOut`,
  `WritesFromOwnPages`, `SettingsHonoured`, for any builds, machines, replicas and origins. The
  invariant (`IInv`) says that a replica runs with the section of some machine and a build of its
  kind, and of every copy (`Sound`) that it is what a released build has under that path, not the
  page, and under the bundler's prefix if it is kept for good. What is proved of one answer of the
  fallback router then carries over to copies of it, whichever replica gave it and whatever has
  been rolled out since. `SettingsHonoured` compares two ways to the same value: the code merges
  whole trees and then reads a section of the result, the property looks one setting up, source by
  source. `SectionRead` shows that they agree for each section (`JoinedSets` is the merge at one
  setting), `ModeRead` for the mode, `StartHonours` for what the plugins make of them.
  `MachineAssumption` says that a variable's name has the three parts that `Config` gives it.
- `TelemetryProofs` (from `TelemetryAssumption`): of `TelemetrySpec`, `TelemetryTypeOK`,
  `KindsInStep`, `ExcludedStaysHidden`, `NeverReexported`. The invariant says who is past the
  mutex (its holder alone) and what it has left undone: between `Modify` and `Push` the list of
  types is one short of the stack exactly if the kind is new. Of a layer being added it says that
  its path is hidden already, and of an answer on its way (`AnswersDated`) that a yes about an
  excluded target was given before its exclusion, which `overtaken` remembers. Of a call that
  rebuilds the caches it says of each target (`Visited`) that it has still to be asked about, that
  the call holds its answer, or that its callsite is right or overtaken (`Quiet`): a target never
  leaves the third case, because only an older yes could put it back. When the rebuild is done only
  the third case is left.
- `BuildProofs` (and from `BuildAssumption`): that `BuildChain` implements `TelemetrySlot`
  (`UsesTelemetry`), hence the theorems of the slot for the apps. The invariant lists what may
  be left of a plugin's calls and says that what the next `add_layer` needs is hidden by the
  calls that have returned or the one in progress. This needs the slot to be decided before any
  plugin is built: a call on an undecided slot would be skipped.
  `RebuildTraced` follows from `AloneIInv`: while an app is alone no other is in use, calls are made
  only by builders at work, and each layer that the app has added is in the stack under its own
  name or about to be; a layer of an earlier app has the same type, and is replaced.
  `EveryRouteWrapped` follows from `ChainIInv` (theorem `ChainInvariance`): the layers are those of
  the chain so far in its order, every route that a plugin of the chain mounts by itself is
  still mounted (`BeginPlugin` only adds mounts, `TakeManual` empties only manual ones and keeps every place), and
  the router of a running app has the layers around each. It rests on how `FlattenSeq` grows with its
  last element (`FlattenGrows`): the function that the community module defines recursively exists
  and is the only one, each shown by a least counterexample among the naturals (`Least`).

Two definitions differ from what would be shorter because the prover has no theory of the operator:
`Over` of `Config` is `@@`, and `TakeManual` leaves an empty place where the code's `extract_if`
closes the gap; nothing in the code looks at a mount's place, only at the order.

**Only model-checked** are the three liveness properties (`ShutdownCompletes`, `EveryRunReturns`,
`CallsReturn`): a proof from fairness needs ENABLED, which is out of the prover's reach. Every
other property of the passing runs is a theorem. What TLC refutes in the runs that expect a
violation is of course not proved there; `SingleUse`, which `single_use` refutes for overlapping
requests, is a theorem of serial browsers.

## 5. Not modelled, and the plan

What is worth doing next:

1. The safety half of the liveness properties: that what one waits for is there (a run that waits
   for the lock has a holder that may go on, a builder that waits for the mutex too), and that each
   step of `run` lowers a measure.
2. For each documented sentence that a run refutes, the strongest statement that does hold,
   as a theorem (`SingleUse` and `ExcludedStaysHidden` are two of them): which finish of a query
   closes a span that is not its own, and which requests extend a session.

Not modelled, with the reason:

- the rate limit: its only state is in tower_governor, whose buckets src/ configures once;
- redirect targets (`safe_next`, `with_query`): functions of the characters of one path, without
  state, of which a model would be a transliteration;
- `host.rs` and `error.rs`: a number read from the machine, and types;
- the sampling of one transaction in muxa-sentry: a function of its name.

Left out for good: rendering (banner, OpenAPI page), builders of library pools and clients
(sqlx, diesel, pgmq, sentry), hashing of passwords, and HTTP itself. A panic of `compose` (axum
refuses overlapping routes, app.rs:128) is `RunFails` in `BuildChain` and no step of `AppRun`,
whose behaviours start with a router that composes.
