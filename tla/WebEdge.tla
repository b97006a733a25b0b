------------------------------ MODULE WebEdge ------------------------------
(***************************************************************************)
(* The edge of a deployed application: its replicas start from their       *)
(* machines' configuration (Startup), answer a browser from their routes   *)
(* or the single-page app's build (Spa), and guard what changes state      *)
(* (Csrf). The browser holds one page of the application and the copies it *)
(* was allowed to keep. Builds are rolled out one replica at a time, so    *)
(* the page, the copies and the replicas may be of different builds.       *)
(*                                                                         *)
(* In a debug build the files are read from disk: the binary only knows    *)
(* their paths, and the bundler rewrites them under the running server.    *)
(***************************************************************************)
EXTENDS Spa, Csrf

CONSTANTS
  Replicas,
  Down,            \* a replica that does not run
  Builds,          \* the files of every build: build -> path -> content
  Released,        \* the builds that are embedded in a binary
  BundlerPrefix,   \* where the bundler puts the files that it fingerprints
  Machines,        \* the configurations that a process can find
  Routes,          \* the application's own routes
  ClientPaths,     \* what a visitor opens
  ApiPaths,        \* what a page asks the API for, some by mistake
  AppOrigin, Elsewhere,  \* the public origin of the application, and other pages'
  Upstream         \* the authority a proxy may put into Host

Unused == "-"   \* no page, nothing on disk

Paths == (UNION {DOMAIN Builds[b] : b \in DOMAIN Builds}) \union ClientPaths \union ApiPaths
Chunks(build) == {path \in DOMAIN Builds[build] : IsPrefix(BundlerPrefix, path)}

\* What the [spa] section of a machine can be.
SpaConfigs ==
  {SectionOf(machine, "spa").cfg : machine \in {m \in Machines : SectionOf(m, "spa").ok}}

\* The name of a fingerprinted file changes with its content, index.html is the
\* only page and says of which build it is, and no file is where the API is.
ASSUME BundlerAssumption ==
  /\ Released \subseteq DOMAIN Builds
  /\ Unused \notin DOMAIN Builds
  /\ \A path \in {Index, <<"">>} : ~IsPrefix(BundlerPrefix, path)
  /\ \A b, c \in Released :
       \A path \in Chunks(b) \cap Chunks(c) : Builds[b][path] = Builds[c][path]
  /\ \A b \in DOMAIN Builds : \A path \in DOMAIN Builds[b] :
       /\ Builds[b][path] # None
       /\ Builds[b][path].kind = "page" <=> path = Index
       /\ path = Index => Builds[b][path].of = b
       /\ path \notin ApiPaths
       /\ path \in Chunks(b) => path \notin Routes

\* A name has the three parts that Config gives it.
ASSUME MachineAssumption ==
  \A machine \in Machines : \A v \in DOMAIN machine.vars : v = <<v[1], v[2], v[3]>>

\* Every machine has that prefix as its assets_prefix and covers the API.
ASSUME ConfigAssumption ==
  /\ <<"">> \notin ApiPaths
  /\ \A spa \in SpaConfigs :
       /\ \A path \in Paths \union {Index, <<"">>} :
            Under(path, spa.assets_prefix) <=> IsPrefix(BundlerPrefix, path)
       /\ \A path \in ApiPaths : \E prefix \in spa.exclude_prefixes : Under(path, prefix)

\* The Origin header of a page.
Url(origin) == [origin |-> origin, parses |-> origin # Opaque]

ASSUME OriginAssumption ==
  /\ Opaque \notin Elsewhere \union {AppOrigin}
  /\ None \notin {"same-origin", "same-site", "cross-site"}
  /\ \A origin \in Elsewhere \union {AppOrigin, Opaque} : Url(origin) # None

VARIABLES
  embedded,   \* a release build, or a debug one
  disk,       \* the build on disk
  running,    \* what each replica runs with
  cache,      \* the copies that the browser may use without asking
  page,       \* the build of the page in the browser's tab
  last        \* what just happened, as those who took part in it saw it

vars == <<embedded, disk, running, cache, page, last>>

\* Every step below is atomic, and leaves its outcome in last until it is settled.
Quiet == [op |-> "none"]

-----------------------------------------------------------------------------
(* Replicas                                                                *)

Up == {r \in Replicas : running[r] # Down}

\* What the process serves: the files it embeds, or the paths it knows read from
\* disk.
Served(build) ==
  IF embedded THEN Builds[build]
  ELSE [path \in DOMAIN Builds[build] |->
          IF path \in DOMAIN Builds[disk] THEN Builds[disk][path] ELSE None]

Server(r) ==
  [spa |-> running[r].spa, files |-> Served(running[r].build), embedded |-> embedded]

Profile == IF embedded THEN "production" ELSE "development"

Start(r) ==
  /\ last = Quiet
  /\ running[r] = Down
  /\ \E machine \in Machines, build \in DOMAIN Builds :
       /\ embedded <=> build \in Released
       /\ LET outcome == Started(machine, Profile)
          IN  /\ running' = [running EXCEPT ![r] =
                   IF outcome.ok
                   THEN [build |-> build, spa |-> outcome.read.spa, trusted |-> outcome.trusted]
                   ELSE Down]
              /\ last' = [op |-> "start", machine |-> machine, outcome |-> outcome]
  /\ UNCHANGED <<embedded, disk, cache, page>>

Stop(r) ==
  /\ r \in Up
  /\ running' = [running EXCEPT ![r] = Down]
  /\ last = Quiet
  /\ UNCHANGED <<embedded, disk, cache, page, last>>

\* The bundler runs again while the debug server is up.
Rebuild ==
  /\ ~embedded
  /\ disk' \in (DOMAIN Builds \ Released) \ {disk}
  /\ last = Quiet
  /\ UNCHANGED <<embedded, running, cache, page, last>>

-----------------------------------------------------------------------------
(* Requests                                                                *)

Data == [kind |-> "data", of |-> "route"]
Forbidden == Answer(403, None, "unsaid")

\* The guard is the outermost layer, and the routes win over the fallback.
Dispatch(r, method, path) ==
  IF path \in Routes THEN Answer(200, Data, "unsaid") ELSE Fallback(Server(r), method, path)

Handle(r, request, path) ==
  IF Allowed(request, running[r].trusted) THEN Dispatch(r, request.method, path)
                                          ELSE Forbidden

\* A request of the application's own page that only reads.
Get == [method |-> "GET", site |-> "same-origin", origin |-> None, host |-> AppOrigin.authority]

\* A browser keeps what it is explicitly told to keep. A copy that it asked about
\* again and that has not changed stays as it was (304), or is replaced.
Kept(path, answer) ==
  {IF answer.keep \in {"week", "immutable"} THEN answer ELSE None}
    \union IF cache[path] # None /\ cache[path].body = answer.body THEN {cache[path]} ELSE {}

\* What a GET for a path gets: a copy, or the answer of any replica.
Fetch(path, answer) ==
  \/ /\ cache[path] # None
     /\ answer = cache[path]
     /\ UNCHANGED cache
  \/ \E r \in Up :
       /\ answer = Handle(r, Get, path)
       /\ \E kept \in Kept(path, answer) : cache' = [cache EXCEPT ![path] = kept]

Answers(path) ==
  {Handle(r, Get, path) : r \in Up} \union ({cache[path]} \ {None})

\* The visitor opens or reloads a page.
Navigate ==
  /\ last = Quiet
  /\ \E path \in ClientPaths : \E answer \in Answers(path) :
       /\ Fetch(path, answer)
       /\ page' = IF answer.body # None /\ answer.body.kind = "page"
                  THEN answer.body.of ELSE Unused
       /\ last' = [op |-> "navigate", path |-> path, answer |-> answer]
  /\ UNCHANGED <<embedded, disk, running>>

\* The page loads a file that its build has.
Import ==
  /\ last = Quiet
  /\ page # Unused
  /\ \E path \in DOMAIN Builds[page] \ {Index} : \E answer \in Answers(path) :
       /\ Fetch(path, answer)
       /\ last' = [op |-> "import", path |-> path, answer |-> answer]
  /\ UNCHANGED <<embedded, disk, running, page>>

\* The page asks the API.
Call ==
  /\ last = Quiet
  /\ page # Unused
  /\ \E path \in ApiPaths : \E answer \in Answers(path) :
       /\ Fetch(path, answer)
       /\ last' = [op |-> "call", path |-> path, answer |-> answer]
  /\ UNCHANGED <<embedded, disk, running, page>>

\* What a browser says of the page that a POST comes from: one that compares the
\* origins itself, or an older one. Host is what the browser sent or what a proxy
\* put in its place; HTTP/2 has none.
Site(origin) ==
  IF origin = AppOrigin THEN "same-origin"
  ELSE IF origin # Opaque /\ origin.site = AppOrigin.site THEN "same-site" ELSE "cross-site"

Submit ==
  /\ last = Quiet
  /\ \E r \in Up, from \in {AppOrigin, Opaque} \union Elsewhere, modern \in BOOLEAN,
        host \in {AppOrigin.authority, Upstream, None}, path \in Routes :
       LET request == [method |-> "POST", site |-> IF modern THEN Site(from) ELSE None,
                       origin |-> Url(from), host |-> host]
       IN  last' = [op |-> "submit", request |-> request, trusted |-> running[r].trusted,
                    answer |-> Handle(r, request, path)]
  /\ UNCHANGED <<embedded, disk, running, cache, page>>

\* A program that is no browser sends neither header.
Script ==
  /\ last = Quiet
  /\ \E r \in Up, path \in Routes :
       LET request == [method |-> "POST", site |-> None, origin |-> None, host |-> Upstream]
       IN  last' = [op |-> "submit", request |-> request, trusted |-> running[r].trusted,
                    answer |-> Handle(r, request, path)]
  /\ UNCHANGED <<embedded, disk, running, cache, page>>

Settle ==
  /\ last # Quiet
  /\ last' = Quiet
  /\ UNCHANGED <<embedded, disk, running, cache, page>>

-----------------------------------------------------------------------------
Init ==
  /\ embedded \in BOOLEAN
  /\ disk \in IF embedded THEN {Unused} ELSE DOMAIN Builds \ Released
  /\ running = [r \in Replicas |-> Down]
  /\ cache = [path \in Paths |-> None]
  /\ page = Unused
  /\ last = Quiet

Next ==
  \/ \E r \in Replicas : Start(r) \/ Stop(r)
  \/ Rebuild
  \/ Navigate \/ Import \/ Call
  \/ Submit \/ Script
  \/ Settle

Spec == Init /\ [][Next]_vars

-----------------------------------------------------------------------------
(* Properties                                                              *)

\* What is in force for a key on a machine whose file can be read: the app's own
\* variable before the file, the file before a platform's variable that is not
\* empty, and that before the default.
InForce(machine, section, key) ==
  LET setting == <<section, key>>
      tree == PickedFile(machine).tree
      fallback == Fallbacks[section]
  IN  IF <<App>> \o setting \in DOMAIN machine.vars THEN machine.vars[<<App>> \o setting]
      ELSE IF setting \in DOMAIN tree THEN tree[setting]
      ELSE IF key \in DOMAIN fallback /\ fallback[key] \in DOMAIN machine.platform
                /\ machine.platform[fallback[key]] # ""
           THEN machine.platform[fallback[key]]
      ELSE Defaults[section][key]

\* `env` works the same way, and one that names no mode leaves it to the profile.
InForceMode(machine) ==
  LET setting == <<"", "env">>
      tree == PickedFile(machine).tree
      env == IF <<App>> \o setting \in DOMAIN machine.vars THEN machine.vars[<<App>> \o setting]
             ELSE IF setting \in DOMAIN tree THEN tree[setting] ELSE ""
  IN  IF env \in DOMAIN ModeNamed THEN ModeNamed[env] ELSE Profile

\* load_figment, get_or_env and extract_section together: a process runs with the
\* first source that has a key, and does not start exactly if what is in force
\* somewhere cannot be used: what is overridden, another app's, or a provider's
\* does not stop it. Sentry's environment and sample rate are the mode's unless
\* they are set. base_url "is always a trusted origin" (muxa-auth config.rs:28) if it
\* is one, and a provider is on without a redirect_url only if it is set (but may be
\* on with a base_url that is a URL without an origin, and trusts nothing then).
SettingsHonoured ==
  last.op = "start" /\ PickedFile(last.machine).parses =>
    LET inForce(section) ==
          [key \in DOMAIN Defaults[section] |-> InForce(last.machine, section, key)]
    IN  IF last.outcome.ok
        THEN /\ \A section \in Sections : last.outcome.read[section] = inForce(section)
             /\ last.outcome.environment =
                  IF inForce("sentry").environment # None THEN inForce("sentry").environment
                  ELSE InForceMode(last.machine)
             /\ last.outcome.sampleRate =
                  IF inForce("sentry").traces_sample_rate # None
                  THEN inForce("sentry").traces_sample_rate
                  ELSE IF InForceMode(last.machine) = "production" THEN "0.1" ELSE "1.0"
             /\ inForce("auth").base_url # None =>
                  inForce("auth").base_url.origin \in last.outcome.trusted \union {Opaque}
             /\ last.outcome.providerOn /\ inForce("auth").redirect_url = None =>
                  inForce("auth").base_url # None
        ELSE \/ \E section \in Sections : \E key \in DOMAIN Defaults[section] :
                  inForce(section)[key] = Bad
             \/ inForce("sentry").dsn = "nonsense"

\* client_route's exclusions, with the copies a browser kept: a fingerprinted file
\* that the page loads is the one the page was built with, or is missing, and never
\* the page, whatever build answers; nor is what the page asks of the API: a route
\* answers for itself, and a path without one is not found. (Of a file outside the
\* bundler's prefix that the answering build lacks, the page is the answer.)
ExcludedGetsNoPage ==
  /\ last.op = "import" /\ IsPrefix(BundlerPrefix, last.path) /\ last.answer.body # None =>
       /\ last.answer.body.kind # "page"
       /\ embedded => last.answer.body = Builds[page][last.path]
  /\ last.op = "call" =>
       last.answer.body = IF last.path \in Routes THEN Data ELSE None

\* cache_headers, with memory-serve's: what the browser may use without asking is
\* never the page, nor read from disk, nor a file that every configuration lists;
\* and what it never asks about again is what every replica has by that name.
ListedByAll == {path \in Paths : \A spa \in SpaConfigs : path \in spa.no_cache}

CopiesCurrent ==
  \A path \in {p \in Paths : cache[p] # None} :
    LET copy == cache[path]
    IN  /\ embedded
        /\ copy.body = None \/ copy.body.kind # "page"
        /\ path \notin ListedByAll
        /\ copy.keep = "immutable" =>
             \A r \in Up : path \in DOMAIN Builds[running[r].build] =>
               copy.body = Builds[running[r].build][path]

\* cache_headers marks only what was found: a file that a page missed while
\* replicas of another build answered is found once all that are up serve the
\* page's build.
FoundOnceRolledOut ==
  last.op = "import" /\ embedded /\ IsPrefix(BundlerPrefix, last.path)
    /\ (\A r \in Up : running[r].build = page /\ running[r].spa.enabled) =>
       last.answer.status = 200

\* guard: a page of the application itself may change state as long as the server
\* is told its public origin by the browser, the Host or its settings; a page of
\* another host may only if its origin is trusted; a program always may.
WritesFromOwnPages ==
  last.op = "submit" =>
    LET request == last.request
        allowed == last.answer.status # 403
        knows == request.site # None \/ request.host = AppOrigin.authority \/ AppOrigin \in last.trusted
    IN  IF request.origin = None THEN allowed
        ELSE IF request.origin.origin = AppOrigin THEN allowed <=> knows
        ELSE IF request.origin.origin \in last.trusted THEN allowed
        ELSE allowed => /\ request.site = None
                        /\ request.origin.origin # Opaque
                        /\ request.origin.origin.authority = request.host
=============================================================================
