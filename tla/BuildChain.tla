----------------------------- MODULE BuildChain -----------------------------
(***************************************************************************)
(* The plugin chain of muxa-core, from App::with_figment to the router     *)
(* that run hands to the serve function, with what each of muxa's plugins  *)
(* registers. Several apps may be built in one process, one after another  *)
(* or at once: they share the telemetry slot and nothing else.             *)
(***************************************************************************)
EXTENDS TelemetrySlot, SequencesExt

CONSTANTS
  Offers,      \* Offers[a]: the plugins app a may add
  MaxPlugins   \* bound of the model: MaxPlugins[a] in the chain of a

Plugins ==
  {"otel", "sentry", "auth", "spa", "openapi", "web", "api", "pool", "pgmq", "own"}

ASSUME BuildAssumption ==
  /\ {"spans", "logs", "sentry"} \subseteq Kinds
  /\ \A a \in Builders : Offers[a] \subseteq Plugins

VARIABLE app   \* app[a]: where the builder of a stands, and its BuildCtx

vars == <<telemetryVars, app>>

-----------------------------------------------------------------------------
(* What the plugins register: `calls` are those on ctx.telemetry, in       *)
(* order. The tasks they schedule are AppRun's.                            *)

Exclude(targets) == [op |-> "exclude", targets |-> targets, kind |-> NoKind]
Add(kind) == [op |-> "add", targets |-> {}, kind |-> kind]

Nothing ==
  [mounts |-> <<>>, layers |-> <<>>, fallback |-> FALSE, serves |-> FALSE, calls |-> <<>>]

\* The routes of a mount are called by its prefix.
AutoMount(routes) == [routes |-> routes, mount |-> "auto"]
ManualMount(routes) == [routes |-> routes, mount |-> "manual"]

OtelPath == Path["spans"] \union Path["logs"]

\* Mutant: the layer is added before its export path is hidden.
OtelCallsLate == <<Add("spans"), Exclude(OtelPath), Add("logs")>>
OtelCalls == <<Exclude(OtelPath), Add("spans"), Add("logs")>>

\* The HTTP spans; and, with an endpoint, the export.
Otel ==
  LET spans == [Nothing EXCEPT !.layers = <<"trace">>]
  IN  {spans, [spans EXCEPT !.calls = OtelCalls]}

\* The scope is around what needs it.
SentryLayers == <<"sentry-http", "sentry-scope">>

SentryCalls == <<Exclude(Path["sentry"]), Add("sentry")>>

Sentry == {[Nothing EXCEPT !.layers = SentryLayers, !.calls = SentryCalls]}

Auth == {[Nothing EXCEPT !.mounts = <<AutoMount({"auth"})>>, !.layers = <<"session", "guard">>]}

\* Inert if it is disabled or has no build to serve.
Spa == {Nothing, [Nothing EXCEPT !.fallback = TRUE]}

OpenApi == {[Nothing EXCEPT !.mounts = <<AutoMount({"docs"})>>]}

Web == {[Nothing EXCEPT !.mounts = <<AutoMount({"app"})>>, !.serves = TRUE]}

Api == {[Nothing EXCEPT !.mounts = <<AutoMount({"app"}), AutoMount({"docs"})>>, !.serves = TRUE]}

\* A pool and the queues in it: nothing in the BuildCtx.
Pool == {Nothing}
Pgmq == {Nothing}

\* A plugin of the application's, with routes for it to nest where it likes.
Own ==
  {[Nothing EXCEPT !.mounts = <<ManualMount({"admin"}), AutoMount({"api"}), ManualMount({"ops"})>>]}

Builds(p) ==
  CASE p = "otel" -> Otel [] p = "sentry" -> Sentry [] p = "auth" -> Auth [] p = "spa" -> Spa
    [] p = "openapi" -> OpenApi [] p = "web" -> Web [] p = "api" -> Api [] p = "pool" -> Pool
    [] p = "pgmq" -> Pgmq [] p = "own" -> Own

\* The plugins that a plugin's bound on the state asks for.
Needs(p) == IF p = "pgmq" THEN {"pool"} ELSE {}

-----------------------------------------------------------------------------
(* The builder                                                             *)

\* `hand` is what take_manual has returned, `added` the layers of this app, and
\* `alone` whether no other app was in use since this one was created.
NoApp ==
  [pc |-> "none", state |-> <<>>, adding |-> "", mounts |-> <<>>, layers |-> <<>>,
   fallback |-> FALSE, serves |-> FALSE, todo |-> <<>>, hand |-> {},
   added |-> {}, alone |-> FALSE, router |-> <<>>]

Over == [NoApp EXCEPT !.pc = "over"]

Init ==
  /\ TelemetryInit
  /\ app = [a \in Builders |-> NoApp]

InUse(a) == app[a].pc \in {"ready", "building", "running"}

\* with_figment
Create(a) ==
  /\ app[a].pc = "none"
  /\ Install
  /\ app' = [b \in Builders |->
               IF b = a THEN [NoApp EXCEPT !.pc = "ready", !.alone = \A c \in Builders : ~InUse(c)]
               ELSE [app[b] EXCEPT !.alone = FALSE]]

Becomes(a, rec) == app' = [app EXCEPT ![a] = rec]

Clashes(a, build) ==
  (build.fallback /\ app[a].fallback) \/ (build.serves /\ app[a].serves)

\* The routers in hand go into the application's own.
Mounted(a, build) ==
  app[a].mounts \o [i \in DOMAIN build.mounts |->
    IF "app" \in build.mounts[i].routes
    THEN AutoMount(build.mounts[i].routes \union app[a].hand) ELSE build.mounts[i]]

\* with_plugin, up to the plugin's calls on ctx.telemetry.
BeginPlugin(a, p) ==
  /\ app[a].pc = "ready"
  /\ Len(app[a].state) < MaxPlugins[a]
  /\ p \in Offers[a]
  /\ Needs(p) \subseteq ToSet(app[a].state)
  /\ \E build \in Builds(p) :
       /\ ~Clashes(a, build)
       /\ Becomes(a, [app[a] EXCEPT
            !.pc = "building", !.adding = p, !.mounts = Mounted(a, build),
            !.layers = @ \o build.layers, !.fallback = @ \/ build.fallback,
            !.serves = @ \/ build.serves, !.todo = build.calls])
  /\ UNCHANGED telemetryVars

\* A second fallback or serve function: the builder is dropped with all it holds.
Refused(a, p) ==
  /\ app[a].pc = "ready"
  /\ p \in Offers[a]
  /\ \E build \in Builds(p) : Clashes(a, build)
  /\ Becomes(a, Over)
  /\ UNCHANGED telemetryVars

\* The configuration cannot be read, or the plugin fails before or between its
\* calls on ctx.telemetry: what these did remains.
PluginFails(a) ==
  /\ app[a].pc \in {"ready", "building"}
  /\ doing[a] = Idle
  /\ Becomes(a, Over)
  /\ UNCHANGED telemetryVars

TelemetryCall(a) ==
  /\ app[a].pc = "building"
  /\ app[a].todo # <<>>
  /\ LET call == Head(app[a].todo)
     IN  /\ \/ slot = "ours" /\ call.op = "exclude" /\ CallExclude(a, call.targets)
            \/ slot = "ours" /\ call.op = "add" /\ CallAdd(a, call.kind)
            \/ slot # "ours" /\ UNCHANGED telemetryVars
         /\ Becomes(a, [app[a] EXCEPT !.todo = Tail(@), !.added = @ \union ({call.kind} \ {NoKind})])

Built(a) ==
  /\ app[a].pc = "building"
  /\ app[a].todo = <<>>
  /\ doing[a] = Idle
  /\ Becomes(a, [app[a] EXCEPT !.pc = "ready", !.state = <<app[a].adding>> \o @, !.adding = ""])
  /\ UNCHANGED telemetryVars

\* The application takes the routers with this prefix that are not mounted by
\* themselves. What is taken keeps its place here, with nothing in it.
Gone == [routes |-> {}, mount |-> "taken"]

TakeManual(a, prefix) ==
  LET mounts == app[a].mounts
      taken == {i \in DOMAIN mounts : mounts[i].mount = "manual" /\ prefix \in mounts[i].routes}
  IN  /\ app[a].pc = "ready"
      /\ taken # {}
      /\ Becomes(a, [app[a] EXCEPT
           !.mounts = [i \in DOMAIN mounts |-> IF i \in taken THEN Gone ELSE mounts[i]],
           !.hand = @ \union UNION {mounts[i].routes : i \in taken}])
      /\ UNCHANGED telemetryVars

-----------------------------------------------------------------------------
(* compose and run                                                         *)

\* A router: the middleware around each route, innermost first.
Merged(mounts) ==
  [route \in UNION {mounts[i].routes : i \in {j \in DOMAIN mounts : mounts[j].mount = "auto"}}
     |-> <<>>]

\* Set, or axum's own 404.
WithFallback(router) ==
  [route \in DOMAIN router \union {"fallback"} |->
     IF route \in DOMAIN router THEN router[route] ELSE <<>>]

Layered(router, layerFns) ==
  [route \in DOMAIN router |-> router[route] \o layerFns]

\* Mutant: the fallback is set on the layered router.
FallbackLast(a) == WithFallback(Layered(Merged(app[a].mounts), app[a].layers))
Composed(a) == Layered(WithFallback(Merged(app[a].mounts)), app[a].layers)

\* axum refuses to merge two routers with the same route.
Overlap(a) ==
  \E i, j \in DOMAIN app[a].mounts :
    /\ i # j
    /\ app[a].mounts[i].mount = "auto" /\ app[a].mounts[j].mount = "auto"
    /\ app[a].mounts[i].routes \intersect app[a].mounts[j].routes # {}

Run(a) ==
  /\ app[a].pc = "ready"
  /\ app[a].serves
  /\ ~Overlap(a)
  /\ Becomes(a, [app[a] EXCEPT !.pc = "running", !.router = Composed(a)])
  /\ UNCHANGED telemetryVars

\* No serve function; or compose panics.
RunFails(a) ==
  /\ app[a].pc = "ready"
  /\ ~app[a].serves \/ Overlap(a)
  /\ Becomes(a, Over)
  /\ UNCHANGED telemetryVars

\* What happens until then is AppRun's.
Stop(a) ==
  /\ app[a].pc = "running"
  /\ Becomes(a, Over)
  /\ UNCHANGED telemetryVars

-----------------------------------------------------------------------------
BuildStep(a) == (TelemetryStep(a) /\ UNCHANGED app) \/ TelemetryCall(a) \/ Built(a)

Next ==
  \/ \E a \in Builders :
       \/ Create(a) \/ BuildStep(a) \/ PluginFails(a)
       \/ \E prefix \in {"admin", "ops"} : TakeManual(a, prefix)
       \/ \E p \in Offers[a] : BeginPlugin(a, p) \/ Refused(a, p)
       \/ Run(a) \/ RunFails(a) \/ Stop(a)
  \/ \E target \in Targets : Emit(target) /\ UNCHANGED app

\* A build that is under way gets on.
Spec == Init /\ [][Next]_vars /\ \A a \in Builders : WF_vars(BuildStep(a))

-----------------------------------------------------------------------------
(* Properties                                                              *)

\* The builds keep to the protocol of the slot: a plugin makes one call at a time,
\* and hides the export path of a layer before it adds it (muxa-otel lib.rs:175-208,
\* muxa-sentry lib.rs:290-295).
UsesTelemetry == TelemetrySpec

\* add_layer and exclude_targets return, whatever other builds and the emitting
\* threads do: "After the write guard is dropped - rebuilding calls the filter,
\* which takes the read lock" (muxa-telemetry lib.rs:229).
CallsReturn == \A a \in Builders : app[a].pc = "building" ~> app[a].pc # "building"

\* "Building a second app in the same process (tests, a rebuild after a failed
\* start) keeps working" (muxa-telemetry lib.rs:28): the layers of an app that had
\* the process to itself are its own, whatever the builds before it left behind.
RebuildTraced ==
  \A a \in Builders : app[a].pc = "running" /\ app[a].alone /\ slot = "ours" =>
    \A kind \in app[a].added : [kind |-> kind, owner |-> a] \in ToSet(layers)

\* "Middleware order follows plugin order" (ctx.rs:163), for every route that a
\* plugin has mounted before or after it and for the fallback: nothing is served
\* outside of the session layer and the origin guard of muxa-auth.
EveryRouteWrapped ==
  \A a \in Builders : app[a].pc = "running" =>
    LET chain == Reverse(app[a].state)
        builds == [i \in DOMAIN chain |-> CHOOSE build \in Builds(chain[i]) : TRUE]
        mounts == UNION {ToSet(builds[i].mounts) : i \in DOMAIN chain}
        served == UNION {entry.routes : entry \in {m \in mounts : m.mount = "auto"}}
    IN  \A route \in served \union {"fallback"} :
          /\ route \in DOMAIN app[a].router
          /\ app[a].router[route] = FlattenSeq([i \in DOMAIN chain |-> builds[i].layers])
=============================================================================
