----------------------------- MODULE WebProofs -----------------------------
(***************************************************************************)
(* Proofs about WebEdge, for any replicas, builds, machines, routes and    *)
(* origins that meet its assumptions: what a browser keeps is current,     *)
(* page code and visitors get what they asked for while builds are rolled  *)
(* out, and a process runs with the settings in force on its machine.      *)
(***************************************************************************)
EXTENDS WebEdge, SequenceTheorems, TLAPS

-----------------------------------------------------------------------------
(* The fallback router                                                     *)

Usable(answer) == answer.keep \in {"week", "immutable"}

\* cache_headers is silent about what was not found.
LEMMA SilentIfMissing ==
  ASSUME NEW server, NEW path
  PROVE  CacheHeaders(server, path, NotFound) = NotFound
BY DEF CacheHeaders, NotFound, Answer, Success

\* What is not a file and may not be a client-side route is missing.
LEMMA MissingFile ==
  ASSUME NEW server, NEW path,
         path # <<"">>, path \notin DOMAIN server.files, Excluded(server, path)
  PROVE  Fallback(server, "GET", path) = NotFound
<1>1. FileNamed(path) = path
  BY DEF FileNamed
<1>2. ClientRoute(server, "GET", path) = NotFound
  BY DEF ClientRoute
<1>3. CASE Inert(server)
  BY <1>3 DEF Fallback
<1>4. CASE ~Inert(server)
  <2>1. Fallback(server, "GET", path) = CacheHeaders(server, path, NotFound)
    BY <1>1, <1>2, <1>4 DEF Fallback
  <2>2. QED
    BY <2>1, SilentIfMissing
<1>5. QED
  BY <1>3, <1>4

\* A file of the build is served as it is, if it is there.
ServedAsIs(file, answer) ==
  IF file = None THEN answer = NotFound ELSE answer.body = file /\ answer.status = 200

LEMMA PresentFile ==
  ASSUME NEW server, NEW path,
         path # <<"">>, path \in DOMAIN server.files, ~Inert(server)
  PROVE  ServedAsIs(server.files[path], Fallback(server, "GET", path))
<1>1. Fallback(server, "GET", path)
        = CacheHeaders(server, path, ServeFile(server, "GET", path))
  BY DEF Fallback, FileNamed
<1>2. CASE server.files[path] = None
  <2>1. ServeFile(server, "GET", path) = NotFound
    BY <1>2 DEF ServeFile
  <2>2. QED
    BY <1>1, <1>2, <2>1, SilentIfMissing DEF ServedAsIs
<1>3. CASE server.files[path] # None
  <2>1. PICK keep : ServeFile(server, "GET", path) = Answer(200, server.files[path], keep)
    BY <1>3 DEF ServeFile, Reads
  <2>2. Fallback(server, "GET", path)
          = CacheHeaders(server, path, Answer(200, server.files[path], keep))
    BY <1>1, <2>1
  <2>3. /\ CacheHeaders(server, path, Answer(200, server.files[path], keep)).status = 200
        /\ CacheHeaders(server, path, Answer(200, server.files[path], keep)).body
             = server.files[path]
    BY DEF CacheHeaders, Answer, Success, NeverKept
  <2>4. QED
    BY <1>3, <2>2, <2>3 DEF ServedAsIs
<1>4. QED
  BY <1>2, <1>3

\* The prefix of fingerprinted files is below the root, and index.html is a page.
WellConfigured(server) ==
  /\ ~Fingerprinted(server, <<"">>)
  /\ server.embedded /\ Index \in DOMAIN server.files => server.files[Index].kind = "page"

\* An answer is a file that is embedded in the binary, and says so about keeping it.
IsFile(server, path, answer) ==
  /\ path \in DOMAIN server.files /\ server.embedded
  /\ server.files[path] # None
  /\ answer.status = 200 /\ answer.body = server.files[path]
  /\ path \notin server.spa.no_cache
  /\ server.files[path].kind = "page" => Fingerprinted(server, path)
  /\ answer.keep = "immutable" => Fingerprinted(server, path)

\* Only a file that is embedded in the binary is kept, and never the page.
LEMMA KeptFile ==
  ASSUME NEW server, NEW path, WellConfigured(server),
         Usable(Fallback(server, "GET", path))
  PROVE  IsFile(server, path, Fallback(server, "GET", path))
<1> DEFINE served(file) == Answer(200, server.files[file],
                                  IF KeptAWeek(server, server.files[file]) THEN "week" ELSE "no-cache")
           answer == Fallback(server, "GET", path)
<1>1. NotFound.keep = "unsaid" /\ ~Usable(NotFound)
  BY DEF NotFound, Answer, Usable
<1>2. ~Inert(server) /\ Index \in DOMAIN server.files
  BY <1>1 DEF Fallback, Inert
<1>3. ASSUME NEW file, server.files[file] # None, answer = CacheHeaders(server, path, served(file))
      PROVE  /\ path \notin server.spa.no_cache
             /\ Fingerprinted(server, path) \/ KeptAWeek(server, server.files[file])
             /\ answer.keep = "immutable" => Fingerprinted(server, path)
  <2>1. served(file).status = 200
        /\ served(file).keep = IF KeptAWeek(server, server.files[file]) THEN "week" ELSE "no-cache"
    BY DEF Answer
  <2>2. CASE NeverKept(server, path)
    <3>1. answer = [served(file) EXCEPT !.keep = "no-cache"]
      BY <1>3, <2>1, <2>2 DEF CacheHeaders, Success
    <3>2. answer.keep = "no-cache"
      BY <3>1 DEF Answer
    <3>3. QED
      BY <3>2 DEF Usable
  <2>3. CASE ~NeverKept(server, path) /\ Fingerprinted(server, path)
    BY <2>3 DEF NeverKept
  <2>4. CASE ~NeverKept(server, path) /\ ~Fingerprinted(server, path)
    <3>1. answer = served(file)
      BY <1>3, <2>1, <2>4 DEF CacheHeaders, Success
    <3>2. QED
      BY <2>1, <2>4, <3>1 DEF NeverKept, Usable
  <2>5. QED
    BY <2>2, <2>3, <2>4
<1>4. ASSUME NEW file PROVE ServeFile(server, "GET", file) =
        IF server.files[file] = None THEN NotFound ELSE served(file)
  BY DEF ServeFile, Reads
<1>5. CASE FileNamed(path) \notin DOMAIN server.files
  <2>1. answer = CacheHeaders(server, path, ClientRoute(server, "GET", path))
    BY <1>2, <1>5 DEF Fallback
  <2>2. CASE Excluded(server, path)
    BY <1>1, <2>1, <2>2, SilentIfMissing DEF ClientRoute
  <2>3. CASE ~Excluded(server, path)
    <3>1. ClientRoute(server, "GET", path) = ServeFile(server, "GET", Index)
      BY <2>3 DEF ClientRoute, Reads
    <3>2. server.files[Index] # None
      BY <1>1, <1>4, <2>1, <3>1, SilentIfMissing
    <3>3. Fingerprinted(server, path) \/ KeptAWeek(server, server.files[Index])
      BY <1>3, <1>4, <2>1, <3>1, <3>2
    <3>4. ~KeptAWeek(server, server.files[Index])
      BY <1>2 DEF KeptAWeek, WellConfigured
    <3>5. ~Fingerprinted(server, path)
      BY <2>3 DEF Excluded, Fingerprinted
    <3>6. QED
      BY <3>3, <3>4, <3>5
  <2>4. QED
    BY <2>2, <2>3
<1>6. CASE FileNamed(path) \in DOMAIN server.files
  <2>1. answer = CacheHeaders(server, path, ServeFile(server, "GET", FileNamed(path)))
    BY <1>2, <1>6 DEF Fallback
  <2>2. server.files[FileNamed(path)] # None
    BY <1>1, <1>4, <2>1, SilentIfMissing
  <2>3. answer = CacheHeaders(server, path, served(FileNamed(path)))
    BY <1>4, <2>1, <2>2
  <2>4. /\ path \notin server.spa.no_cache
        /\ Fingerprinted(server, path) \/ KeptAWeek(server, server.files[FileNamed(path)])
        /\ answer.keep = "immutable" => Fingerprinted(server, path)
    BY <1>3, <2>2, <2>3
  <2>5. path # <<"">>
    <3>1. SUFFICES ASSUME path = <<"">> PROVE FALSE
      OBVIOUS
    <3>2. KeptAWeek(server, server.files[Index])
      BY <2>4, <3>1 DEF FileNamed, WellConfigured
    <3>3. ~Fingerprinted(server, path) /\ server.embedded
      BY <3>1, <3>2 DEF KeptAWeek, WellConfigured
    <3>4. QED
      BY <1>2, <3>2, <3>3 DEF KeptAWeek, WellConfigured
  <2>6. FileNamed(path) = path
    BY <2>5 DEF FileNamed
  <2>7. server.embedded /\ (server.files[path].kind = "page" => Fingerprinted(server, path))
    BY <2>4, <2>6 DEF KeptAWeek, Fingerprinted
  <2>8. answer.status = 200 /\ answer.body = server.files[path]
    <3>1. PICK body, keep : served(path) = Answer(200, body, keep) /\ body = server.files[path]
      OBVIOUS
    <3>2. /\ CacheHeaders(server, path, Answer(200, body, keep)).status = 200
          /\ CacheHeaders(server, path, Answer(200, body, keep)).body = body
      BY DEF CacheHeaders, Answer, Success, NeverKept
    <3>3. answer = CacheHeaders(server, path, Answer(200, body, keep))
      BY <2>3, <2>6, <3>1
    <3>4. QED
      BY <3>1, <3>2, <3>3
  <2>9. QED
    BY <1>6, <2>2, <2>4, <2>5, <2>6, <2>7, <2>8 DEF IsFile
<1>7. QED
  BY <1>5, <1>6

\* Whatever has a body is a file of the build.
LEMMA BodyIsFile ==
  ASSUME NEW server, NEW path, Fallback(server, "GET", path).body # None
  PROVE  \E file \in DOMAIN server.files : Fallback(server, "GET", path).body = server.files[file]
<1>1. NotFound.body = None
  BY DEF NotFound, Answer
<1>2. ~Inert(server) /\ Index \in DOMAIN server.files
  BY <1>1 DEF Fallback, Inert
<1>3. ASSUME NEW file \in DOMAIN server.files,
             Fallback(server, "GET", path) = CacheHeaders(server, path, ServeFile(server, "GET", file))
      PROVE  Fallback(server, "GET", path).body = server.files[file]
  <2>1. server.files[file] # None
    BY <1>1, <1>3, SilentIfMissing DEF ServeFile
  <2>2. PICK keep, body : /\ body = server.files[file]
                          /\ ServeFile(server, "GET", file) = Answer(200, body, keep)
    BY <2>1 DEF ServeFile, Reads
  <2>3. CacheHeaders(server, path, Answer(200, body, keep)).body = body
    BY DEF CacheHeaders, Answer, Success, NeverKept
  <2>4. Fallback(server, "GET", path) = CacheHeaders(server, path, Answer(200, body, keep))
    BY <1>3, <2>2
  <2>5. QED
    BY <2>2, <2>3, <2>4
<1>4. CASE FileNamed(path) \in DOMAIN server.files
  BY <1>2, <1>3, <1>4 DEF Fallback
<1>5. CASE FileNamed(path) \notin DOMAIN server.files
  <2>1. Fallback(server, "GET", path) = CacheHeaders(server, path, ClientRoute(server, "GET", path))
    BY <1>2, <1>5 DEF Fallback
  <2>2. ClientRoute(server, "GET", path) # NotFound
    BY <1>1, <2>1, SilentIfMissing
  <2>3. ClientRoute(server, "GET", path) = ServeFile(server, "GET", Index)
    BY <2>2 DEF ClientRoute
  <2>4. QED
    BY <1>2, <1>3, <2>1, <2>3
<1>6. QED
  BY <1>4, <1>5

-----------------------------------------------------------------------------
(* The inductive invariant                                                 *)

\* A copy is a file that some release has, and not the page.
Sound(path, copy) ==
  /\ embedded
  /\ copy.status = 200
  /\ path \notin ListedByAll
  /\ \E b \in Released : path \in DOMAIN Builds[b] /\ copy.body = Builds[b][path]
  /\ copy.body # None /\ copy.body.kind # "page"
  /\ copy.keep = "immutable" => IsPrefix(BundlerPrefix, path)

ReplicaOK(r) ==
  /\ running[r].build \in DOMAIN Builds
  /\ embedded <=> running[r].build \in Released
  /\ running[r].spa \in SpaConfigs
  /\ Opaque \notin running[r].trusted

IInv ==
  /\ embedded \in BOOLEAN
  /\ embedded \/ disk \in DOMAIN Builds
  /\ running = [r \in Replicas |-> running[r]]
  /\ \A r \in Up : ReplicaOK(r)
  /\ cache = [path \in Paths |-> cache[path]]
  /\ \A path \in Paths : cache[path] # None => Sound(path, cache[path])
  /\ page # Unused => /\ page \in DOMAIN Builds
                      /\ Index \in DOMAIN Builds[page]
                      /\ embedded => page \in Released

\* What the assumptions say of a replica's server.
LEMMA ServerFacts ==
  ASSUME IInv, NEW r \in Up
  PROVE  /\ Server(r).spa = running[r].spa
         /\ Server(r).embedded = embedded
         /\ DOMAIN Server(r).files = DOMAIN Builds[running[r].build]
         /\ running[r].build \in DOMAIN Builds
         /\ embedded => Server(r).files = Builds[running[r].build]
         /\ embedded => running[r].build \in Released
         /\ ~embedded => \A path \in DOMAIN Server(r).files :
              Server(r).files[path] = IF path \in DOMAIN Builds[disk] THEN Builds[disk][path] ELSE None
         /\ \A path \in Paths \union {Index, <<"">>} :
              Under(path, running[r].spa.assets_prefix) <=> IsPrefix(BundlerPrefix, path)
         /\ \A path \in Paths : IsPrefix(BundlerPrefix, path) \/ path \in ApiPaths =>
              Excluded(Server(r), path)
<1>1. ReplicaOK(r)
  BY DEF IInv
<1>2. Server(r).spa = running[r].spa /\ Server(r).embedded = embedded
        /\ Server(r).files = Served(running[r].build)
  BY DEF Server
<1>3. running[r].spa \in SpaConfigs /\ running[r].build \in DOMAIN Builds
        /\ (embedded <=> running[r].build \in Released)
  BY <1>1 DEF ReplicaOK
<1>4. /\ \A path \in Paths \union {Index, <<"">>} :
           Under(path, running[r].spa.assets_prefix) <=> IsPrefix(BundlerPrefix, path)
      /\ \A path \in ApiPaths : \E prefix \in running[r].spa.exclude_prefixes : Under(path, prefix)
  BY <1>3, ConfigAssumption
<1>5. \A path \in Paths : IsPrefix(BundlerPrefix, path) \/ path \in ApiPaths =>
        Excluded(Server(r), path)
  BY <1>2, <1>4 DEF Excluded
<1>6. CASE embedded
  BY <1>2, <1>3, <1>4, <1>5, <1>6 DEF Served
<1>7. CASE ~embedded
  BY <1>2, <1>3, <1>4, <1>5, <1>7 DEF Served
<1>8. QED
  BY <1>6, <1>7 DEF IInv

\* What a replica lets the browser keep is sound.
LEMMA AnswerSound ==
  ASSUME IInv, NEW r \in Up, NEW path \in Paths, Usable(Handle(r, Get, path))
  PROVE  Sound(path, Handle(r, Get, path))
<1> DEFINE answer == Handle(r, Get, path)
           server == Server(r)
           build == running[r].build
<1>1. answer = Dispatch(r, "GET", path)
  BY DEF Handle, Allowed, Get, SafeMethods
<1>2. path \notin Routes
  <2>1. SUFFICES ASSUME path \in Routes PROVE FALSE
    OBVIOUS
  <2>2. answer = Answer(200, Data, "unsaid")
    BY <1>1, <2>1 DEF Dispatch
  <2>3. QED
    BY <2>2 DEF Answer, Usable
<1>3. answer = Fallback(server, "GET", path)
  BY <1>1, <1>2 DEF Dispatch
<1>4. WellConfigured(server)
  <2>1. \A b \in DOMAIN Builds : Index \in DOMAIN Builds[b] => Builds[b][Index].kind = "page"
    BY BundlerAssumption
  <2>2. server.embedded /\ Index \in DOMAIN server.files => server.files[Index].kind = "page"
    BY <2>1, ServerFacts
  <2>3. ~Fingerprinted(server, <<"">>)
    BY ServerFacts, BundlerAssumption DEF Fingerprinted
  <2>4. QED
    BY <2>2, <2>3 DEF WellConfigured
<1>5. Usable(Fallback(server, "GET", path))
  BY <1>3
<1>6. IsFile(server, path, answer)
  BY <1>3, <1>4, <1>5, KeptFile
<1>7. /\ path \in DOMAIN server.files /\ server.embedded
      /\ answer.status = 200 /\ answer.body = server.files[path]
      /\ path \notin server.spa.no_cache
      /\ server.files[path].kind = "page" => Fingerprinted(server, path)
      /\ answer.keep = "immutable" => Fingerprinted(server, path)
  BY <1>6 DEF IsFile
<1>8. Fingerprinted(server, path) => IsPrefix(BundlerPrefix, path)
  BY ServerFacts DEF Fingerprinted
<1>9. /\ embedded /\ build \in Released /\ path \in DOMAIN Builds[build]
      /\ answer.body = Builds[build][path]
  BY <1>7, ServerFacts
<1>10. Builds[build][path] # None /\ Builds[build][path].kind # "page"
  <2>1. Builds[build][path] # None /\ (Builds[build][path].kind = "page" <=> path = Index)
    BY <1>9, BundlerAssumption
  <2>2. Builds[build][path].kind = "page" => IsPrefix(BundlerPrefix, path)
    BY <1>7, <1>8, <1>9
  <2>3. QED
    BY <2>1, <2>2, BundlerAssumption
<1>11. path \notin ListedByAll
  <2>1. running[r].spa \in SpaConfigs /\ path \notin running[r].spa.no_cache
    BY <1>7, ServerFacts DEF IInv, ReplicaOK
  <2>2. QED
    BY <2>1 DEF ListedByAll
<1>12. QED
  BY <1>7, <1>8, <1>9, <1>10, <1>11 DEF Sound

\* A GET leaves sound copies, and is answered by one or by a replica.
LEMMA FetchSound ==
  ASSUME IInv, NEW path \in Paths, NEW answer, Fetch(path, answer), UNCHANGED embedded
  PROVE  /\ cache' = [p \in Paths |-> cache'[p]]
         /\ (\A p \in Paths : cache[p] # None => Sound(p, cache[p]))'
         /\ \/ cache[path] # None /\ answer = cache[path] /\ Sound(path, answer)
            \/ \E r \in Up : answer = Handle(r, Get, path)
<1>1. \A p, copy : Sound(p, copy) => Sound(p, copy)'
  BY DEF Sound
<1>2. CASE cache[path] # None /\ answer = cache[path] /\ UNCHANGED cache
  <2>1. [p \in Paths |-> cache'[p]] = [p \in Paths |-> cache[p]]
    BY <1>2
  <2>2. cache' = [p \in Paths |-> cache'[p]]
    BY <1>2, <2>1 DEF IInv
  <2>3. \A p \in Paths : cache[p] # None => Sound(p, cache[p])
    BY DEF IInv
  <2>4. (\A p \in Paths : cache[p] # None => Sound(p, cache[p]))'
    BY <1>1, <1>2, <2>3
  <2>5. QED
    BY <1>2, <2>2, <2>3, <2>4
<1>3. ASSUME NEW r \in Up, answer = Handle(r, Get, path),
             NEW kept \in Kept(path, answer), cache' = [cache EXCEPT ![path] = kept]
      PROVE  /\ cache' = [p \in Paths |-> cache'[p]]
             /\ (\A p \in Paths : cache[p] # None => Sound(p, cache[p]))'
  <2>1. kept = None \/ Sound(path, kept)
    <3>1. kept = None \/ (kept = answer /\ Usable(answer)) \/ (kept = cache[path] /\ cache[path] # None)
      BY DEF Kept, Usable
    <3>2. QED
      BY <1>3, <3>1, AnswerSound DEF IInv
  <2>2. \A p \in Paths : cache'[p] = IF p = path THEN kept ELSE cache[p]
    BY <1>3 DEF IInv
  <2>3. cache' = [p \in Paths |-> cache'[p]]
    <3>1. cache' = [p \in Paths |-> IF p = path THEN kept ELSE cache[p]]
      BY <1>3 DEF IInv
    <3>2. [p \in Paths |-> cache'[p]] = [p \in Paths |-> IF p = path THEN kept ELSE cache[p]]
      BY <2>2
    <3>3. QED
      BY <3>1, <3>2
  <2>4. \A p \in Paths : cache'[p] # None => Sound(p, cache'[p])
    BY <2>1, <2>2 DEF IInv
  <2>5. QED
    BY <1>1, <2>3, <2>4
<1>4. QED
  BY <1>2, <1>3 DEF Fetch

-----------------------------------------------------------------------------
(* What the replicas answer                                                *)

\* A fingerprinted file is that of the answering replica's build, or missing.
IsAsset(r, path, answer) ==
  /\ answer.body # None =>
       /\ answer.body.kind # "page"
       /\ embedded => /\ path \in DOMAIN Builds[running[r].build]
                      /\ answer.body = Builds[running[r].build][path]
  /\ embedded /\ running[r].spa.enabled /\ Index \in DOMAIN Builds[running[r].build]
       /\ path \in DOMAIN Builds[running[r].build] => answer.status = 200

LEMMA AssetAnswered ==
  ASSUME IInv, NEW r \in Up, NEW path \in Paths, IsPrefix(BundlerPrefix, path), path \notin Routes
  PROVE  IsAsset(r, path, Handle(r, Get, path))
<1> DEFINE answer == Handle(r, Get, path)
           server == Server(r)
           build == running[r].build
<1>1. answer = Fallback(server, "GET", path)
  BY DEF Handle, Allowed, Get, SafeMethods, Dispatch
<1>2. path \notin {Index, <<"">>}
  BY BundlerAssumption
<1>3. NotFound.body = None
  BY DEF NotFound, Answer
<1>4. Inert(server) <=> ~running[r].spa.enabled \/ Index \notin DOMAIN Builds[build]
  BY ServerFacts DEF Inert
<1>5. CASE Inert(server)
  <2>1. answer = NotFound
    BY <1>1, <1>5 DEF Fallback
  <2>2. QED
    BY <1>3, <1>4, <1>5, <2>1 DEF IsAsset
<1>6. CASE path \notin DOMAIN server.files
  <2>1. Excluded(server, path)
    BY ServerFacts
  <2>2. answer = NotFound
    BY <1>1, <1>2, <1>6, <2>1, MissingFile
  <2>3. path \notin DOMAIN Builds[build]
    BY <1>6, ServerFacts
  <2>4. QED
    BY <1>3, <2>2, <2>3 DEF IsAsset
<1>7. CASE path \in DOMAIN server.files /\ ~Inert(server)
  <2>1. IF server.files[path] = None
        THEN answer = NotFound
        ELSE answer.body = server.files[path] /\ answer.status = 200
    <3>1. ServedAsIs(server.files[path], Fallback(server, "GET", path))
      BY <1>2, <1>7, PresentFile
    <3>2. QED
      BY <1>1, <3>1 DEF ServedAsIs
  <2>2. \A b \in DOMAIN Builds : path \in DOMAIN Builds[b] =>
          Builds[b][path] # None /\ Builds[b][path].kind # "page"
    BY <1>2, BundlerAssumption
  <2>3. CASE embedded
    <3>1. build \in DOMAIN Builds /\ path \in DOMAIN Builds[build]
            /\ server.files[path] = Builds[build][path]
      BY <1>7, <2>3, ServerFacts
    <3>2. QED
      BY <2>1, <2>2, <3>1 DEF IsAsset
  <2>4. CASE ~embedded
    <3>1. server.files[path] = IF path \in DOMAIN Builds[disk] THEN Builds[disk][path] ELSE None
      BY <1>7, <2>4, ServerFacts
    <3>2. disk \in DOMAIN Builds
      BY <2>4 DEF IInv
    <3>3. QED
      BY <1>3, <2>1, <2>2, <2>4, <3>1, <3>2 DEF IsAsset
  <2>5. QED
    BY <2>3, <2>4 DEF IInv
<1>8. QED
  BY <1>5, <1>6, <1>7

\* Under the API there are routes and nothing else.
LEMMA ApiAnswered ==
  ASSUME IInv, NEW r \in Up, NEW path \in ApiPaths
  PROVE  Handle(r, Get, path).body = IF path \in Routes THEN Data ELSE None
<1>1. Handle(r, Get, path)
        = IF path \in Routes THEN Answer(200, Data, "unsaid") ELSE Fallback(Server(r), "GET", path)
  BY DEF Handle, Allowed, Get, SafeMethods, Dispatch
<1>2. CASE path \in Routes
  BY <1>1, <1>2 DEF Answer
<1>3. CASE path \notin Routes
  <2>1. path \notin DOMAIN Server(r).files
    <3>1. \A b \in DOMAIN Builds : path \notin DOMAIN Builds[b]
      BY BundlerAssumption
    <3>2. QED
      BY <3>1, ServerFacts
  <2>2. Excluded(Server(r), path) /\ path # <<"">>
    <3>1. path \in Paths
      BY DEF Paths
    <3>2. path # <<"">>
      BY ConfigAssumption
    <3>3. QED
      BY <3>1, <3>2, ServerFacts
  <2>3. Fallback(Server(r), "GET", path) = NotFound
    BY <2>1, <2>2, MissingFile
  <2>4. QED
    BY <1>1, <1>3, <2>3 DEF NotFound, Answer
<1>4. QED
  BY <1>2, <1>3

\* The page says of which build it is.
LEMMA PageAnswered ==
  ASSUME IInv, NEW r \in Up, NEW path,
         Handle(r, Get, path).body # None, Handle(r, Get, path).body.kind = "page"
  PROVE  \E b \in DOMAIN Builds : /\ Index \in DOMAIN Builds[b]
                                  /\ embedded => b \in Released
                                  /\ Handle(r, Get, path).body.of = b
<1> DEFINE body == Handle(r, Get, path).body
<1>1. Handle(r, Get, path)
        = IF path \in Routes THEN Answer(200, Data, "unsaid") ELSE Fallback(Server(r), "GET", path)
  BY DEF Handle, Allowed, Get, SafeMethods, Dispatch
<1>2. path \notin Routes
  <2>1. Answer(200, Data, "unsaid").body.kind = "data"
    BY DEF Answer, Data
  <2>2. QED
    BY <1>1, <2>1
<1>3. PICK file \in DOMAIN Server(r).files : body = Server(r).files[file]
  BY <1>1, <1>2, BodyIsFile
<1>4. PICK b \in DOMAIN Builds : /\ file \in DOMAIN Builds[b] /\ body = Builds[b][file]
                                 /\ embedded => b \in Released
  <2>1. CASE embedded
    BY <1>3, <2>1, ServerFacts
  <2>2. CASE ~embedded
    <3>1. file \in DOMAIN Builds[disk] /\ body = Builds[disk][file]
      BY <1>3, <2>2, ServerFacts
    <3>2. QED
      BY <2>2, <3>1 DEF IInv
  <2>3. QED
    BY <2>1, <2>2
<1>5. file = Index
  <2>1. Builds[b][file].kind = "page" <=> file = Index
    BY <1>4, BundlerAssumption
  <2>2. QED
    BY <1>4, <2>1
<1>6. Builds[b][Index].of = b
  BY <1>4, <1>5, BundlerAssumption
<1>7. QED
  BY <1>4, <1>5, <1>6

-----------------------------------------------------------------------------
(* Every step keeps the invariant                                          *)

\* A process that starts has read a [spa] section, and trusts origins only.
LEMMA StartedSound ==
  ASSUME NEW machine \in Machines, NEW profile, Started(machine, profile).ok
  PROVE  /\ Started(machine, profile).read.spa \in SpaConfigs
         /\ Opaque \notin Started(machine, profile).trusted
<1> DEFINE read == [section \in Sections |-> SectionOf(machine, section)]
           mode == Mode(machine, profile)
           outcome == Started(machine, profile)
<1>1. ~Refused.ok
  BY DEF Refused
<1>2. "spa" \in Sections
  BY DEF Sections
<1>3. /\ outcome # Refused
      /\ \A section \in Sections : read[section].ok
  BY <1>1 DEF Started
<1>4. outcome = [ok |-> TRUE,
                 read |-> [section \in Sections |-> read[section].cfg],
                 environment |-> Environment(read.sentry.cfg, mode),
                 sampleRate |-> SampleRate(read.sentry.cfg, mode),
                 providerOn |-> ProviderOn(read.auth.cfg),
                 trusted |-> TrustedOrigins(read.auth.cfg)]
  BY <1>3 DEF Started
<1>5. outcome.read.spa = SectionOf(machine, "spa").cfg /\ SectionOf(machine, "spa").ok
  BY <1>2, <1>3, <1>4
<1>6. outcome.read.spa \in SpaConfigs
  BY <1>5 DEF SpaConfigs
<1>7. outcome.trusted = TrustedOrigins(read.auth.cfg)
  BY <1>4
<1>8. Opaque \notin outcome.trusted
  BY <1>7 DEF TrustedOrigins
<1>9. QED
  BY <1>6, <1>8

LEMMA StartKeeps ==
  ASSUME IInv, NEW r \in Replicas, Start(r)
  PROVE  IInv'
<1>1. PICK machine \in Machines, build \in DOMAIN Builds :
        /\ embedded <=> build \in Released
        /\ running' = [running EXCEPT ![r] =
             IF Started(machine, Profile).ok
             THEN [build |-> build, spa |-> Started(machine, Profile).read.spa,
                   trusted |-> Started(machine, Profile).trusted]
             ELSE Down]
        /\ UNCHANGED <<embedded, disk, cache, page>>
  BY DEF Start
<1>2. \A p, copy : Sound(p, copy) => Sound(p, copy)'
  BY <1>1 DEF Sound
<1>3. \A s \in Replicas \ {r} : running'[s] = running[s]
  BY <1>1 DEF IInv
<1>4. running'[r] = IF Started(machine, Profile).ok
                    THEN [build |-> build, spa |-> Started(machine, Profile).read.spa,
                          trusted |-> Started(machine, Profile).trusted]
                    ELSE Down
  BY <1>1 DEF IInv
<1>5. running' = [s \in Replicas |-> running'[s]]
  <2>1. DOMAIN running' = Replicas
    BY <1>1 DEF IInv
  <2>2. running' = [s \in DOMAIN running' |-> running'[s]]
    BY <1>1
  <2>3. QED
    BY <2>1, <2>2
<1>6. ASSUME NEW s \in Up' PROVE ReplicaOK(s)'
  <2>1. s \in Replicas /\ running'[s] # Down
    BY DEF Up
  <2>2. CASE s = r
    <3>1. Started(machine, Profile).ok
      BY <1>4, <2>1, <2>2
    <3>2. /\ running'[s].build = build
          /\ running'[s].spa = Started(machine, Profile).read.spa
          /\ running'[s].trusted = Started(machine, Profile).trusted
      BY <1>4, <2>2, <3>1
    <3>3. /\ Started(machine, Profile).read.spa \in SpaConfigs
          /\ Opaque \notin Started(machine, Profile).trusted
      BY <3>1, StartedSound
    <3>4. QED
      BY <1>1, <3>2, <3>3 DEF ReplicaOK
  <2>3. CASE s # r
    <3>1. s \in Up /\ running'[s] = running[s]
      BY <1>3, <2>1, <2>3 DEF Up
    <3>2. ReplicaOK(s)
      BY <3>1 DEF IInv
    <3>3. QED
      BY <1>1, <3>1, <3>2 DEF ReplicaOK
  <2>4. QED
    BY <2>2, <2>3
<1>7. cache' = [p \in Paths |-> cache'[p]]
      /\ (\A p \in Paths : cache[p] # None => Sound(p, cache[p]))'
  <2>1. \A p \in Paths : cache[p] # None => Sound(p, cache[p])
    BY DEF IInv
  <2>2. (\A p \in Paths : cache[p] # None => Sound(p, cache[p]))'
    BY <1>1, <1>2, <2>1
  <2>3. [p \in Paths |-> cache'[p]] = [p \in Paths |-> cache[p]]
    BY <1>1
  <2>4. QED
    BY <1>1, <2>2, <2>3 DEF IInv
<1>8. QED
  BY <1>1, <1>5, <1>6, <1>7 DEF IInv

\* What the invariant says of the page.
PageOK ==
  page # Unused => /\ page \in DOMAIN Builds
                   /\ Index \in DOMAIN Builds[page]
                   /\ embedded => page \in Released

\* A step of the browser changes its copies, its page and what last says.
LEMMA BrowserKeeps ==
  ASSUME IInv, UNCHANGED <<embedded, disk, running>>, PageOK',
         cache' = [p \in Paths |-> cache'[p]],
         (\A p \in Paths : cache[p] # None => Sound(p, cache[p]))'
  PROVE  IInv'
<1>1. ASSUME NEW r \in Up' PROVE ReplicaOK(r)'
  <2>1. r \in Up
    BY DEF Up
  <2>2. ReplicaOK(r)
    BY <2>1 DEF IInv
  <2>3. QED
    BY <2>2 DEF ReplicaOK
<1>2. running' = [r \in Replicas |-> running'[r]]
  <2>1. [r \in Replicas |-> running'[r]] = [r \in Replicas |-> running[r]]
    OBVIOUS
  <2>2. QED
    BY <2>1 DEF IInv
<1>3. QED
  BY <1>1, <1>2 DEF IInv, PageOK

\* So does one that leaves the copies as they are.
LEMMA StillSound ==
  ASSUME IInv, UNCHANGED <<embedded, cache>>
  PROVE  /\ cache' = [p \in Paths |-> cache'[p]]
         /\ (\A p \in Paths : cache[p] # None => Sound(p, cache[p]))'
<1>1. \A p, copy : Sound(p, copy) => Sound(p, copy)'
  BY DEF Sound
<1>2. \A p \in Paths : cache[p] # None => Sound(p, cache[p])
  BY DEF IInv
<1>3. (\A p \in Paths : cache[p] # None => Sound(p, cache[p]))'
  BY <1>1, <1>2
<1>4. [p \in Paths |-> cache'[p]] = [p \in Paths |-> cache[p]]
  OBVIOUS
<1>5. QED
  BY <1>3, <1>4 DEF IInv

LEMMA QuietKeeps ==
  ASSUME IInv, UNCHANGED <<embedded, disk, running, cache, page>>
  PROVE  IInv'
<1>1. PageOK'
  BY DEF IInv, PageOK
<1>2. QED
  BY <1>1, StillSound, BrowserKeeps

LEMMA StopKeeps ==
  ASSUME IInv, NEW r \in Replicas, Stop(r)
  PROVE  IInv'
<1>1. UNCHANGED <<embedded, disk, cache, page>> /\ running' = [running EXCEPT ![r] = Down]
  BY DEF Stop
<1>2. running' = [s \in Replicas |-> running'[s]]
  <2>1. DOMAIN running' = Replicas
    BY <1>1 DEF IInv
  <2>2. running' = [s \in DOMAIN running' |-> running'[s]]
    BY <1>1
  <2>3. QED
    BY <2>1, <2>2
<1>3. ASSUME NEW s \in Up' PROVE ReplicaOK(s)'
  <2>1. s \in Replicas /\ running'[s] # Down
    BY DEF Up
  <2>2. s \in Up /\ running'[s] = running[s]
    BY <1>1, <2>1 DEF IInv, Up
  <2>3. ReplicaOK(s)
    BY <2>2 DEF IInv
  <2>4. QED
    BY <1>1, <2>2, <2>3 DEF ReplicaOK
<1>4. QED
  BY <1>1, <1>2, <1>3, StillSound DEF IInv

LEMMA RebuildKeeps ==
  ASSUME IInv, Rebuild
  PROVE  IInv'
<1>1. UNCHANGED <<embedded, running, cache, page>> /\ disk' \in DOMAIN Builds
  BY DEF Rebuild
<1>2. ASSUME NEW r \in Up' PROVE ReplicaOK(r)'
  <2>1. r \in Up
    BY <1>1 DEF Up
  <2>2. ReplicaOK(r)
    BY <2>1 DEF IInv
  <2>3. QED
    BY <1>1, <2>2 DEF ReplicaOK
<1>3. running' = [r \in Replicas |-> running'[r]]
  <2>1. [r \in Replicas |-> running'[r]] = [r \in Replicas |-> running[r]]
    BY <1>1
  <2>2. QED
    BY <1>1, <2>1 DEF IInv
<1>4. QED
  BY <1>1, <1>2, <1>3, StillSound DEF IInv

LEMMA NavigateKeeps ==
  ASSUME IInv, Navigate
  PROVE  IInv'
<1>1. PICK path, answer :
        /\ path \in ClientPaths
        /\ Fetch(path, answer)
        /\ page' = IF answer.body # None /\ answer.body.kind = "page"
                   THEN answer.body.of ELSE Unused
        /\ UNCHANGED <<embedded, disk, running>>
  BY DEF Navigate
<1>2. path \in Paths
  BY <1>1 DEF Paths
<1>3. /\ cache' = [p \in Paths |-> cache'[p]]
      /\ (\A p \in Paths : cache[p] # None => Sound(p, cache[p]))'
      /\ Sound(path, answer) \/ \E r \in Up : answer = Handle(r, Get, path)
  BY <1>1, <1>2, FetchSound
<1>4. PageOK'
  <2>1. CASE Sound(path, answer)
    <3>1. page' = Unused
      BY <1>1, <2>1 DEF Sound
    <3>2. QED
      BY <3>1 DEF PageOK
  <2>2. ASSUME NEW r \in Up, answer = Handle(r, Get, path),
               answer.body # None, answer.body.kind = "page"
        PROVE  PageOK'
    <3>1. PICK b \in DOMAIN Builds : /\ Index \in DOMAIN Builds[b]
                                     /\ embedded => b \in Released
                                     /\ answer.body.of = b
      BY <2>2, PageAnswered
    <3>2. QED
      BY <1>1, <2>2, <3>1 DEF PageOK
  <2>3. CASE ~(answer.body # None /\ answer.body.kind = "page")
    BY <1>1, <2>3 DEF PageOK
  <2>4. QED
    BY <1>3, <2>1, <2>2, <2>3
<1>5. QED
  BY <1>1, <1>3, <1>4, BrowserKeeps

\* A file of the page's build is somewhere a fetch can be followed.
LEMMA ImportFetches ==
  ASSUME IInv, Import
  PROVE  \E path, answer :
           /\ path \in Paths
           /\ page \in DOMAIN Builds /\ Index \in DOMAIN Builds[page]
           /\ embedded => page \in Released
           /\ path \in DOMAIN Builds[page]
           /\ Fetch(path, answer)
           /\ last' = [op |-> "import", path |-> path, answer |-> answer]
           /\ UNCHANGED <<embedded, disk, running, page>>
<1>1. PICK path, answer :
        /\ path \in DOMAIN Builds[page]
        /\ Fetch(path, answer)
        /\ last' = [op |-> "import", path |-> path, answer |-> answer]
        /\ UNCHANGED <<embedded, disk, running, page>>
  BY DEF Import
<1>2. /\ page \in DOMAIN Builds /\ Index \in DOMAIN Builds[page]
      /\ embedded => page \in Released
  BY DEF IInv, Import
<1>3. path \in Paths
  BY <1>1, <1>2 DEF Paths
<1>4. QED
  BY <1>1, <1>2, <1>3

LEMMA ImportKeeps ==
  ASSUME IInv, Import
  PROVE  IInv'
<1>1. PICK path, answer :
        /\ path \in Paths
        /\ Fetch(path, answer) /\ UNCHANGED <<embedded, disk, running, page>>
  BY ImportFetches
<1>2. /\ cache' = [p \in Paths |-> cache'[p]]
      /\ (\A p \in Paths : cache[p] # None => Sound(p, cache[p]))'
  BY <1>1, FetchSound
<1>3. PageOK'
  BY <1>1 DEF IInv, PageOK
<1>4. QED
  BY <1>1, <1>2, <1>3, BrowserKeeps

LEMMA CallKeeps ==
  ASSUME IInv, Call
  PROVE  IInv'
<1>1. PICK path, answer :
        /\ path \in ApiPaths
        /\ Fetch(path, answer) /\ UNCHANGED <<embedded, disk, running, page>>
  BY DEF Call
<1>2. path \in Paths
  BY <1>1 DEF Paths
<1>3. /\ cache' = [p \in Paths |-> cache'[p]]
      /\ (\A p \in Paths : cache[p] # None => Sound(p, cache[p]))'
  BY <1>1, <1>2, FetchSound
<1>4. PageOK'
  BY <1>1 DEF IInv, PageOK
<1>5. QED
  BY <1>1, <1>3, <1>4, BrowserKeeps

LEMMA Initially == Init => IInv
<1> SUFFICES ASSUME Init PROVE IInv
  OBVIOUS
<1>1. embedded \/ disk \in DOMAIN Builds
  BY DEF Init
<1>2. \A r \in Replicas : running[r] = Down
  BY DEF Init
<1>3. Up = {}
  BY <1>2 DEF Up
<1>4. running = [r \in Replicas |-> running[r]]
  <2>1. [r \in Replicas |-> running[r]] = [r \in Replicas |-> Down]
    BY <1>2
  <2>2. QED
    BY <2>1 DEF Init
<1>5. \A p \in Paths : cache[p] = None
  BY DEF Init
<1>6. cache = [p \in Paths |-> cache[p]]
  <2>1. [p \in Paths |-> cache[p]] = [p \in Paths |-> None]
    BY <1>5
  <2>2. QED
    BY <2>1 DEF Init
<1>7. QED
  BY <1>1, <1>3, <1>4, <1>5, <1>6 DEF Init, IInv

LEMMA StepKeeps ==
  ASSUME IInv, [Next]_vars
  PROVE  IInv'
<1>1. CASE \E r \in Replicas : Start(r) \/ Stop(r)
  BY <1>1, StartKeeps, StopKeeps
<1>2. CASE Rebuild
  BY <1>2, RebuildKeeps
<1>3. CASE Navigate
  BY <1>3, NavigateKeeps
<1>4. CASE Import
  BY <1>4, ImportKeeps
<1>5. CASE Call
  BY <1>5, CallKeeps
<1>6. CASE Submit \/ Script \/ Settle
  BY <1>6, QuietKeeps DEF Submit, Script, Settle
<1>7. CASE UNCHANGED vars
  BY <1>7, QuietKeeps DEF vars
<1>8. QED
  BY <1>1, <1>2, <1>3, <1>4, <1>5, <1>6, <1>7 DEF Next

-----------------------------------------------------------------------------
(* What the copies are                                                     *)

\* A fingerprinted name stands for one content.
LEMMA SameContent ==
  ASSUME NEW b \in Released, NEW c \in Released, NEW path,
         path \in DOMAIN Builds[b], path \in DOMAIN Builds[c], IsPrefix(BundlerPrefix, path)
  PROVE  Builds[b][path] = Builds[c][path]
<1>1. path \in Chunks(b) \cap Chunks(c)
  BY DEF Chunks
<1>2. \A d \in Chunks(b) \cap Chunks(c) : Builds[b][d] = Builds[c][d]
  BY BundlerAssumption
<1>3. QED
  BY <1>1, <1>2

\* cache_headers and memory-serve together, on every schedule of starts, stops and
\* requests: a copy the browser may use without asking is no page, and one it never
\* asks about again is what every replica has by that name.
LEMMA CopiesFollow == IInv => CopiesCurrent
<1> SUFFICES ASSUME IInv, NEW path \in Paths, cache[path] # None
             PROVE  /\ embedded
                    /\ cache[path].body = None \/ cache[path].body.kind # "page"
                    /\ path \notin ListedByAll
                    /\ cache[path].keep = "immutable" =>
                         \A r \in Up : path \in DOMAIN Builds[running[r].build] =>
                           cache[path].body = Builds[running[r].build][path]
  BY DEF CopiesCurrent
<1>1. Sound(path, cache[path])
  BY DEF IInv
<1>2. ASSUME cache[path].keep = "immutable", NEW r \in Up,
             path \in DOMAIN Builds[running[r].build]
      PROVE  cache[path].body = Builds[running[r].build][path]
  <2>1. PICK b \in Released : path \in DOMAIN Builds[b] /\ cache[path].body = Builds[b][path]
    BY <1>1 DEF Sound
  <2>2. running[r].build \in Released
    BY <1>1, ServerFacts DEF Sound
  <2>3. IsPrefix(BundlerPrefix, path)
    BY <1>1, <1>2 DEF Sound
  <2>4. Builds[b][path] = Builds[running[r].build][path]
    BY <1>2, <2>1, <2>2, <2>3, SameContent
  <2>5. QED
    BY <2>1, <2>4
<1>3. QED
  BY <1>1, <1>2 DEF Sound

THEOREM CopiesAreCurrent == Spec => []CopiesCurrent
<1>1. Init => IInv
  BY Initially
<1>2. IInv /\ [Next]_vars => IInv'
  BY StepKeeps
<1>3. IInv => CopiesCurrent
  BY CopiesFollow
<1>4. QED
  BY <1>1, <1>2, <1>3, PTL DEF Spec

-----------------------------------------------------------------------------
(* What the last step shows                                                *)

\* While nothing happened, nothing is claimed.
LEMMA QuietClaimsNothing ==
  ASSUME last.op \notin {"import", "call", "submit"}
  PROVE  ExcludedGetsNoPage /\ FoundOnceRolledOut /\ WritesFromOwnPages
BY DEF ExcludedGetsNoPage, FoundOnceRolledOut, WritesFromOwnPages

\* What page code gets, from its copies or from a replica of whatever build.
LEMMA ImportAnswered ==
  ASSUME IInv, NEW path \in Paths, NEW answer, Fetch(path, answer), UNCHANGED embedded,
         page \in DOMAIN Builds, Index \in DOMAIN Builds[page],
         embedded => page \in Released,
         path \in DOMAIN Builds[page], IsPrefix(BundlerPrefix, path)
  PROVE  /\ answer.body # None => /\ answer.body.kind # "page"
                                  /\ embedded => answer.body = Builds[page][path]
         /\ embedded /\ (\A r \in Up : running[r].build = page /\ running[r].spa.enabled) =>
              answer.status = 200
<1>1. Sound(path, answer) \/ \E r \in Up : answer = Handle(r, Get, path)
  BY FetchSound
<1>2. CASE Sound(path, answer)
  <2>1. PICK b \in Released : path \in DOMAIN Builds[b] /\ answer.body = Builds[b][path]
    BY <1>2 DEF Sound
  <2>2. embedded /\ page \in Released
    BY <1>2 DEF Sound
  <2>3. Builds[b][path] = Builds[page][path]
    BY <2>1, <2>2, SameContent
  <2>4. QED
    BY <1>2, <2>1, <2>3 DEF Sound
<1>3. ASSUME NEW r \in Up, answer = Handle(r, Get, path)
      PROVE  /\ answer.body # None => /\ answer.body.kind # "page"
                                      /\ embedded => answer.body = Builds[page][path]
             /\ embedded /\ running[r].build = page /\ running[r].spa.enabled =>
                  answer.status = 200
  <2>1. path \notin Routes
    <3>1. path \in Chunks(page)
      BY DEF Chunks
    <3>2. path \in Chunks(page) => path \notin Routes
      BY BundlerAssumption
    <3>3. QED
      BY <3>1, <3>2
  <2>2. IsAsset(r, path, answer)
    BY <1>3, <2>1, AssetAnswered
  <2>3. ASSUME embedded, path \in DOMAIN Builds[running[r].build]
        PROVE  Builds[running[r].build][path] = Builds[page][path]
    <3>1. running[r].build \in Released /\ page \in Released
      BY <2>3, ServerFacts
    <3>2. QED
      BY <2>3, <3>1, SameContent
  <2>4. answer.body # None => /\ answer.body.kind # "page"
                              /\ embedded => answer.body = Builds[page][path]
    BY <2>2, <2>3 DEF IsAsset
  <2>5. embedded /\ running[r].build = page /\ running[r].spa.enabled => answer.status = 200
    BY <2>2 DEF IsAsset
  <2>6. QED
    BY <2>4, <2>5
<1>4. QED
  BY <1>1, <1>2, <1>3

LEMMA ImportShows ==
  ASSUME IInv, Import
  PROVE  ExcludedGetsNoPage' /\ FoundOnceRolledOut' /\ WritesFromOwnPages'
<1>1. PICK path, answer :
        /\ path \in Paths
        /\ page \in DOMAIN Builds /\ Index \in DOMAIN Builds[page]
        /\ embedded => page \in Released
        /\ path \in DOMAIN Builds[page]
        /\ Fetch(path, answer)
        /\ last' = [op |-> "import", path |-> path, answer |-> answer]
        /\ UNCHANGED <<embedded, disk, running, page>>
  BY ImportFetches
<1>2. last'.op = "import" /\ last'.path = path /\ last'.answer = answer
  BY <1>1
<1>3. IsPrefix(BundlerPrefix, path) =>
        /\ answer.body # None => /\ answer.body.kind # "page"
                                 /\ embedded => answer.body = Builds[page][path]
        /\ embedded /\ (\A r \in Up : running[r].build = page /\ running[r].spa.enabled) =>
             answer.status = 200
  BY <1>1, ImportAnswered
<1>4. ExcludedGetsNoPage'
  BY <1>1, <1>2, <1>3 DEF ExcludedGetsNoPage
<1>5. Up' = Up
  BY <1>1 DEF Up
<1>6. FoundOnceRolledOut'
  BY <1>1, <1>2, <1>3, <1>5 DEF FoundOnceRolledOut
<1>7. WritesFromOwnPages'
  BY <1>2 DEF WritesFromOwnPages
<1>8. QED
  BY <1>4, <1>6, <1>7

LEMMA CallShows ==
  ASSUME IInv, Call
  PROVE  ExcludedGetsNoPage' /\ FoundOnceRolledOut' /\ WritesFromOwnPages'
<1>1. PICK path, answer :
        /\ path \in ApiPaths
        /\ Fetch(path, answer)
        /\ last' = [op |-> "call", path |-> path, answer |-> answer]
        /\ UNCHANGED <<embedded, disk, running, page>>
  BY DEF Call
<1>2. path \in Paths
  BY <1>1 DEF Paths
<1>3. Sound(path, answer) \/ \E r \in Up : answer = Handle(r, Get, path)
  BY <1>1, <1>2, FetchSound
<1>4. ~Sound(path, answer)
  <2>1. \A b \in DOMAIN Builds : path \notin DOMAIN Builds[b]
    BY <1>1, BundlerAssumption
  <2>2. Released \subseteq DOMAIN Builds
    BY BundlerAssumption
  <2>3. QED
    BY <2>1, <2>2 DEF Sound
<1>5. answer.body = IF path \in Routes THEN Data ELSE None
  BY <1>1, <1>3, <1>4, ApiAnswered
<1>6. last'.op = "call" /\ last'.path = path /\ last'.answer = answer
  BY <1>1
<1>7. QED
  BY <1>5, <1>6 DEF ExcludedGetsNoPage, FoundOnceRolledOut, WritesFromOwnPages

\* A route answers unless the guard stands before it.
LEMMA GuardDecides ==
  ASSUME NEW r, NEW request, NEW path \in Routes
  PROVE  Handle(r, request, path).status # 403 <=> Allowed(request, running[r].trusted)
<1>1. Answer(200, Data, "unsaid").status = 200 /\ Forbidden.status = 403
  BY DEF Forbidden, Answer
<1>2. CASE Allowed(request, running[r].trusted)
  <2>1. Handle(r, request, path) = Answer(200, Data, "unsaid")
    BY <1>2 DEF Handle, Dispatch
  <2>2. QED
    BY <1>1, <1>2, <2>1
<1>3. CASE ~Allowed(request, running[r].trusted)
  <2>1. Handle(r, request, path) = Forbidden
    BY <1>3 DEF Handle
  <2>2. QED
    BY <1>1, <1>3, <2>1
<1>4. QED
  BY <1>2, <1>3

\* The guard's decision about a POST of a browser, on any page.
LEMMA PostAllowed ==
  ASSUME NEW from \in {AppOrigin, Opaque} \union Elsewhere, NEW modern \in BOOLEAN, NEW host,
         NEW trusted, Opaque \notin trusted, NEW request,
         request = [method |-> "POST", site |-> IF modern THEN Site(from) ELSE None,
                    origin |-> Url(from), host |-> host]
  PROVE  /\ request.origin # None /\ request.origin.origin = from
         /\ request.site = None <=> ~modern
         /\ Allowed(request, trusted) <=>
              \/ from \in trusted
              \/ modern /\ from = AppOrigin
              \/ ~modern /\ from # Opaque /\ from.authority = host
<1>1. /\ request.method = "POST" /\ request.origin = Url(from) /\ request.host = host
      /\ request.site = IF modern THEN Site(from) ELSE None
  OBVIOUS
<1>2. Url(from) # None /\ Url(from).origin = from
  BY OriginAssumption DEF Url
<1>3. Site(from) \in {"same-origin", "same-site", "cross-site"}
  BY DEF Site
<1>4. Site(from) # None
  BY <1>3, OriginAssumption
<1>5. Site(from) \in {"same-origin", "none"} <=> from = AppOrigin
  BY DEF Site
<1>6. IsTrusted(trusted, request.origin) <=> from \in trusted
  BY <1>1, <1>2 DEF IsTrusted, Normalize
<1>7. CASE modern
  <2>1. request.site # None /\ (SaysSame(request) <=> from = AppOrigin)
    BY <1>1, <1>4, <1>5, <1>7 DEF SaysSame
  <2>2. QED
    BY <1>1, <1>2, <1>6, <1>7, <2>1 DEF Allowed, SafeMethods
<1>8. CASE ~modern
  <2>1. request.site = None
    BY <1>1, <1>8
  <2>2. NamesNoneOrHost(request) <=> from # Opaque /\ from.authority = host
    BY <1>1, <1>2 DEF NamesNoneOrHost, NamesHost
  <2>3. QED
    BY <1>1, <1>2, <1>6, <1>8, <2>1, <2>2 DEF Allowed, SafeMethods
<1>9. QED
  BY <1>7, <1>8

LEMMA SubmitShows ==
  ASSUME IInv, Submit
  PROVE  ExcludedGetsNoPage' /\ FoundOnceRolledOut' /\ WritesFromOwnPages'
<1>1. PICK r, from, modern, host, path, request :
        /\ r \in Up /\ from \in {AppOrigin, Opaque} \union Elsewhere /\ modern \in BOOLEAN
        /\ host \in {AppOrigin.authority, Upstream, None} /\ path \in Routes
        /\ request = [method |-> "POST", site |-> IF modern THEN Site(from) ELSE None,
                      origin |-> Url(from), host |-> host]
        /\ last' = [op |-> "submit", request |-> request, trusted |-> running[r].trusted,
                    answer |-> Handle(r, request, path)]
  BY DEF Submit
<1> DEFINE trusted == running[r].trusted
<1>2. /\ last'.op = "submit" /\ last'.request = request /\ last'.trusted = trusted
      /\ last'.answer = Handle(r, request, path)
  BY <1>1
<1>3. Opaque \notin trusted
  BY <1>1 DEF IInv, ReplicaOK
<1>4. /\ request.origin # None /\ request.origin.origin = from
      /\ request.site = None <=> ~modern
      /\ Allowed(request, trusted) <=>
           \/ from \in trusted
           \/ modern /\ from = AppOrigin
           \/ ~modern /\ from # Opaque /\ from.authority = host
  <2>1. /\ from \in {AppOrigin, Opaque} \union Elsewhere /\ modern \in BOOLEAN
        /\ request = [method |-> "POST", site |-> IF modern THEN Site(from) ELSE None,
                      origin |-> Url(from), host |-> host]
    BY <1>1
  <2>. HIDE DEF trusted
  <2>. QED BY ONLY <1>3, <2>1, PostAllowed
<1>5. last'.answer.status # 403 <=> Allowed(request, trusted)
  BY <1>1, <1>2, GuardDecides
<1>6. request.host = host
  BY <1>1
<1>7. AppOrigin # Opaque
  BY OriginAssumption
<1>8. WritesFromOwnPages'
  <2>1. CASE from = AppOrigin
    <3>1. last'.answer.status # 403 <=>
            request.site # None \/ request.host = AppOrigin.authority \/ AppOrigin \in trusted
      BY <1>4, <1>5, <1>6, <1>7, <2>1
    <3>2. QED
      BY <1>2, <1>4, <2>1, <3>1 DEF WritesFromOwnPages
  <2>2. CASE from # AppOrigin /\ from \in trusted
    <3>1. last'.answer.status # 403
      BY <1>4, <1>5, <2>2
    <3>2. QED
      BY <1>2, <1>4, <2>2, <3>1 DEF WritesFromOwnPages
  <2>3. CASE from # AppOrigin /\ from \notin trusted
    <3>1. last'.answer.status # 403 =>
            request.site = None /\ from # Opaque /\ from.authority = request.host
      BY <1>4, <1>5, <1>6, <2>3
    <3>2. QED
      BY <1>2, <1>4, <2>3, <3>1 DEF WritesFromOwnPages
  <2>4. QED
    BY <2>1, <2>2, <2>3
<1>9. QED
  BY <1>2, <1>8 DEF ExcludedGetsNoPage, FoundOnceRolledOut

LEMMA ScriptShows ==
  ASSUME Script
  PROVE  ExcludedGetsNoPage' /\ FoundOnceRolledOut' /\ WritesFromOwnPages'
<1>1. PICK r, path, request :
        /\ r \in Up /\ path \in Routes
        /\ request = [method |-> "POST", site |-> None, origin |-> None, host |-> Upstream]
        /\ last' = [op |-> "submit", request |-> request, trusted |-> running[r].trusted,
                    answer |-> Handle(r, request, path)]
  BY DEF Script
<1>2. /\ last'.op = "submit" /\ last'.request = request
      /\ last'.answer = Handle(r, request, path)
  BY <1>1
<1>3. request.origin = None /\ request.site = None
  BY <1>1
<1>4. Allowed(request, running[r].trusted)
  BY <1>3 DEF Allowed, NamesNoneOrHost
<1>5. last'.answer.status # 403
  BY <1>1, <1>2, <1>4, GuardDecides
<1>6. WritesFromOwnPages'
  BY <1>2, <1>3, <1>5 DEF WritesFromOwnPages
<1>7. QED
  BY <1>2, <1>6 DEF ExcludedGetsNoPage, FoundOnceRolledOut

Shown == IInv /\ ExcludedGetsNoPage /\ FoundOnceRolledOut /\ WritesFromOwnPages

LEMMA ShownInitially == Init => Shown
BY Initially, QuietClaimsNothing DEF Init, Quiet, Shown

LEMMA ShownAgain ==
  ASSUME Shown, [Next]_vars
  PROVE  Shown'
<1>1. IInv /\ IInv'
  BY StepKeeps DEF Shown
<1>2. ASSUME last'.op \notin {"import", "call", "submit"}
      PROVE  ExcludedGetsNoPage' /\ FoundOnceRolledOut' /\ WritesFromOwnPages'
  BY <1>2 DEF ExcludedGetsNoPage, FoundOnceRolledOut, WritesFromOwnPages
<1>3. CASE Import
  BY <1>1, <1>3, ImportShows DEF Shown
<1>4. CASE Call
  BY <1>1, <1>4, CallShows DEF Shown
<1>5. CASE Submit
  BY <1>1, <1>5, SubmitShows DEF Shown
<1>6. CASE Script
  BY <1>1, <1>6, ScriptShows DEF Shown
<1>7. CASE (\E r \in Replicas : Start(r) \/ Stop(r)) \/ Rebuild \/ Navigate \/ Settle
  <2>1. last'.op \in {"start", "none", "navigate"}
    BY <1>7 DEF Start, Stop, Rebuild, Navigate, Settle, Quiet
  <2>2. QED
    BY <1>1, <1>2, <2>1 DEF Shown
<1>8. CASE UNCHANGED vars
  <2>1. UNCHANGED <<embedded, running, page, last>> /\ Up' = Up
    BY <1>8 DEF vars, Up
  <2>2. ExcludedGetsNoPage' /\ FoundOnceRolledOut' /\ WritesFromOwnPages'
    BY <2>1 DEF Shown, ExcludedGetsNoPage, FoundOnceRolledOut, WritesFromOwnPages
  <2>3. QED
    BY <1>1, <2>2 DEF Shown
<1>9. QED
  BY <1>3, <1>4, <1>5, <1>6, <1>7, <1>8 DEF Next

\* client_route's exclusions hold whatever builds the replicas, the page and the
\* copies are of: what the page asks for under the bundler's prefix or of the API is
\* never answered with the page, nor with another version of a fingerprinted file.
THEOREM ExcludedNeverGetsThePage == Spec => []ExcludedGetsNoPage
<1>1. Init => Shown
  BY ShownInitially
<1>2. Shown /\ [Next]_vars => Shown'
  BY ShownAgain
<1>3. Shown => ExcludedGetsNoPage
  BY DEF Shown
<1>4. QED
  BY <1>1, <1>2, <1>3, PTL DEF Spec

\* No answer that cache_headers lets a browser keep hides a file from it: once
\* the replicas that are up serve the page's build, its files are found.
THEOREM FilesAreFound == Spec => []FoundOnceRolledOut
<1>1. Init => Shown
  BY ShownInitially
<1>2. Shown /\ [Next]_vars => Shown'
  BY ShownAgain
<1>3. Shown => FoundOnceRolledOut
  BY DEF Shown
<1>4. QED
  BY <1>1, <1>2, <1>3, PTL DEF Spec

\* The guard of muxa-auth: which pages may change state, for any origins, hosts
\* and settings.
THEOREM OwnPagesWrite == Spec => []WritesFromOwnPages
<1>1. Init => Shown
  BY ShownInitially
<1>2. Shown /\ [Next]_vars => Shown'
  BY ShownAgain
<1>3. Shown => WritesFromOwnPages
  BY DEF Shown
<1>4. QED
  BY <1>1, <1>2, <1>3, PTL DEF Spec

-----------------------------------------------------------------------------
(* The configuration                                                       *)

LEMMA Named ==
  ASSUME NEW a, NEW b, NEW c
  PROVE  <<a>> \o <<b, c>> = <<a, b, c>> /\ Tail(<<a, b, c>>) = <<b, c>>
<1> DEFINE S == {a, b, c}
           x == <<a>>
           y == <<b, c>>
           z == <<a, b, c>>
<1>1. x \in Seq(S) /\ y \in Seq(S) /\ z \in Seq(S)
  OBVIOUS
<1>2. Len(x) = 1 /\ x[1] = a /\ Len(y) = 2 /\ y[1] = b /\ y[2] = c
  OBVIOUS
<1>3. Len(z) = 3 /\ z[1] = a /\ z[2] = b /\ z[3] = c
  OBVIOUS
<1> HIDE DEF S, x, y, z
<1>4. /\ x \o y \in Seq(S) /\ Len(x \o y) = 3
      /\ (x \o y)[1] = a /\ (x \o y)[2] = b /\ (x \o y)[3] = c
  <2>1. /\ x \o y \in Seq(S) /\ Len(x \o y) = Len(x) + Len(y)
        /\ \A i \in 1..Len(x) + Len(y) : (x \o y)[i] = IF i <= Len(x) THEN x[i] ELSE y[i - Len(x)]
    BY ONLY <1>1, ConcatProperties
  <2>2. QED
    BY <1>2, <2>1
<1>5. \A i \in 1..3 : (x \o y)[i] = z[i]
  BY <1>3, <1>4
<1>6. x \o y = z
  BY <1>1, <1>3, <1>4, <1>5, SeqEqual
<1>7. Tail(z) = y
  <2>1. /\ Tail(z) \in Seq(S) /\ Len(Tail(z)) = 2
        /\ Tail(z)[1] = b /\ Tail(z)[2] = c
    <3>1. z # <<>>
      BY <1>3
    <3>2. /\ Tail(z) \in Seq(S) /\ Len(Tail(z)) = Len(z) - 1
          /\ \A i \in 1..Len(Tail(z)) : Tail(z)[i] = z[i + 1]
      BY ONLY <1>1, <3>1, HeadTailProperties
    <3>3. PICK t : t = Tail(z)
      OBVIOUS
    <3>4. t \in Seq(S) /\ Len(t) = 2 /\ \A i \in 1..2 : t[i] = z[i + 1]
      BY ONLY <1>3, <3>2, <3>3
    <3>5. t[1] = b /\ t[2] = c
      BY ONLY <1>3, <3>4
    <3>6. QED
      BY ONLY <3>3, <3>4, <3>5
  <2>2. \A i \in 1..2 : Tail(z)[i] = y[i]
    BY <1>2, <2>1
  <2>3. QED
    BY <1>1, <1>2, <2>1, <2>2, SeqEqual
<1>8. QED
  BY <1>6, <1>7 DEF x, y, z

\* The app's own variables are those that are named for it, without CONFIG.
LEMMA OwnSets ==
  ASSUME NEW machine \in Machines, NEW section, NEW key, <<section, key>> # ConfigVar
  PROVE  LET own == Own(machine.vars)
         IN  /\ <<section, key>> \in DOMAIN own <=> <<App, section, key>> \in DOMAIN machine.vars
             /\ <<section, key>> \in DOMAIN own =>
                  own[<<section, key>>] = machine.vars[<<App, section, key>>]
<1> DEFINE names == {v \in DOMAIN machine.vars : v[1] = App} \ {<<App>> \o ConfigVar}
           own == Own(machine.vars)
<1>1. own = [setting \in {Tail(v) : v \in names} |-> machine.vars[<<App>> \o setting]]
  BY DEF Own
<1>2. \A v \in names : v = <<v[1], v[2], v[3]>> /\ v[1] = App /\ v \in DOMAIN machine.vars
  BY MachineAssumption
<1>3. ASSUME NEW v \in names PROVE Tail(v) = <<v[2], v[3]>>
  <2>1. PICK a, b, c : a = v[1] /\ b = v[2] /\ c = v[3]
    OBVIOUS
  <2>2. v = <<a, b, c>>
    BY <1>2, <2>1
  <2>3. QED
    BY <2>1, <2>2, Named
<1>4. <<App>> \o <<section, key>> = <<App, section, key>> /\ <<App>> \o ConfigVar = <<App, "", "config">>
  BY Named DEF ConfigVar
<1>5. <<App, section, key>> # <<App, "", "config">>
  BY DEF ConfigVar
<1>6. <<App, section, key>>[1] = App
  OBVIOUS
<1>7. <<App, section, key>> \in DOMAIN machine.vars <=> <<App, section, key>> \in names
  BY <1>4, <1>5, <1>6
<1> HIDE DEF names
<1>8. <<App, section, key>> \in names => <<section, key>> \in {Tail(v) : v \in names}
  BY Named
<1>9. ASSUME <<section, key>> \in {Tail(v) : v \in names}
      PROVE  <<App, section, key>> \in names
  <2>1. PICK v \in names : Tail(v) = <<section, key>>
    BY <1>9
  <2>2. <<v[2], v[3]>> = <<section, key>>
    BY <1>3, <2>1
  <2>3. v[2] = section /\ v[3] = key
    BY <2>2
  <2>4. v = <<App, section, key>>
    BY <1>2, <2>3
  <2>5. QED
    BY <2>4
<1>10. DOMAIN own = {Tail(v) : v \in names}
  BY <1>1
<1>11. <<section, key>> \in DOMAIN own =>
         own[<<section, key>>] = machine.vars[<<App, section, key>>]
  BY <1>1, <1>4
<1> HIDE DEF own
<1>12. QED
  BY <1>7, <1>8, <1>9, <1>10, <1>11 DEF own

\* The joined tree of a section has what is set for a key, at its value in force.
LEMMA JoinedSets ==
  ASSUME NEW machine \in Machines, NEW section \in Sections, NEW key
  PROVE  LET tree == Join(Loaded(machine).tree,
                          FallbackTree(section, Fallbacks[section], machine.platform))
         IN  InForce(machine, section, key) =
               IF <<section, key>> \in DOMAIN tree THEN tree[<<section, key>>]
               ELSE Defaults[section][key]
<1> DEFINE setting == <<section, key>>
           name == <<App, section, key>>
           own == Own(machine.vars)
           file == PickedFile(machine).tree
           fallbacks == Fallbacks[section]
           platform == machine.platform
           low == FallbackTree(section, fallbacks, platform)
           set == {k \in DOMAIN fallbacks : ReadNonEmpty(fallbacks[k], platform)}
           tree == Join(Loaded(machine).tree, low)
<1>1. /\ setting \in DOMAIN own <=> name \in DOMAIN machine.vars
      /\ setting \in DOMAIN own => own[setting] = machine.vars[name]
  <2>1. setting # ConfigVar
    BY DEF Sections, ConfigVar
  <2>2. QED
    BY <2>1, OwnSets
<1>2. /\ setting \in DOMAIN low <=> key \in set
      /\ key \in set => low[setting] = platform[fallbacks[key]]
  <2>1. low = [s \in {section} \X set |-> platform[fallbacks[s[2]]]]
    BY DEF FallbackTree
  <2> HIDE DEF set, low, fallbacks, platform
  <2>2. setting \in {section} \X set <=> key \in set
    OBVIOUS
  <2>3. setting[2] = key
    OBVIOUS
  <2>4. QED
    BY <2>1, <2>2, <2>3
<1>3. tree = Over(Over(own, file), low)
  BY DEF Join, Loaded, Merged
<1>4. key \in set <=> /\ key \in DOMAIN fallbacks /\ fallbacks[key] \in DOMAIN platform
                      /\ platform[fallbacks[key]] # ""
  BY DEF ReadNonEmpty
<1>5. InForce(machine, section, key) =
        IF name \in DOMAIN machine.vars THEN machine.vars[name]
        ELSE IF setting \in DOMAIN file THEN file[setting]
        ELSE IF key \in set THEN platform[fallbacks[key]]
        ELSE Defaults[section][key]
  <2>1. <<App>> \o setting = name
    BY Named
  <2> HIDE DEF name
  <2>2. QED
    BY <1>4, <2>1 DEF InForce
<1> HIDE DEF name, own, file, low, set, fallbacks, platform
<1>6. /\ setting \in DOMAIN tree <=> \/ setting \in DOMAIN own \/ setting \in DOMAIN file
                                     \/ setting \in DOMAIN low
      /\ setting \in DOMAIN tree =>
           tree[setting] = IF setting \in DOMAIN own THEN own[setting]
                           ELSE IF setting \in DOMAIN file THEN file[setting] ELSE low[setting]
  <2> HIDE DEF tree, setting
  <2>1. QED
    BY <1>3 DEF Over
<1>7. InForce(machine, section, key) =
        IF setting \in DOMAIN tree THEN tree[setting] ELSE Defaults[section][key]
  <2> HIDE DEF tree, setting
  <2>1. QED
    BY <1>1, <1>2, <1>5, <1>6
<1>8. QED
  BY <1>7 DEF tree, low, fallbacks, platform

\* What get_or_env makes of a section whose file can be read.
LEMMA SectionRead ==
  ASSUME NEW machine \in Machines, NEW section \in Sections, PickedFile(machine).parses
  PROVE  LET inForce == [key \in DOMAIN Defaults[section] |-> InForce(machine, section, key)]
             outcome == SectionOf(machine, section)
         IN  IF outcome.ok THEN outcome.cfg = inForce
             ELSE \E key \in DOMAIN Defaults[section] : inForce[key] = Bad
<1> DEFINE defaults == Defaults[section]
           tree == Join(Loaded(machine).tree,
                        FallbackTree(section, Fallbacks[section], machine.platform))
           figment == [Loaded(machine) EXCEPT !.tree = tree]
           known == {k \in DOMAIN defaults : <<section, k>> \in DOMAIN figment.tree}
           given == [k \in known |-> figment.tree[<<section, k>>]]
           inForce == [key \in DOMAIN defaults |-> InForce(machine, section, key)]
           outcome == SectionOf(machine, section)
<1>1. /\ section # ""
      /\ ~Refused.ok /\ \A cfg : Read(cfg).ok /\ Read(cfg).cfg = cfg
  BY DEF Sections, Refused, Read
<1>2. outcome = ExtractSection(figment, section, defaults)
  BY <1>1 DEF SectionOf, GetOrEnv
<1>3. figment.parses = PickedFile(machine).parses /\ figment.tree = tree
  BY DEF Loaded
<1> HIDE DEF figment
<1>4. \A key \in DOMAIN defaults :
        inForce[key] = IF key \in known THEN given[key] ELSE defaults[key]
  BY <1>3, JoinedSets
<1> HIDE DEF tree
<1>5. outcome = IF \E s \in DOMAIN figment.tree : s[1] = section THEN Extract(given, defaults) ELSE Read(defaults)
  BY <1>2, <1>3 DEF ExtractSection
<1>6. (~ \E s \in DOMAIN figment.tree : s[1] = section) => known = {}
  <2>1. \A k : <<section, k>>[1] = section
    OBVIOUS
  <2>2. QED
    BY <2>1
<1>7. DOMAIN given = known /\ known \subseteq DOMAIN defaults
  OBVIOUS
<1>8. DOMAIN inForce = DOMAIN defaults
  OBVIOUS
<1>9. inForce = [key \in DOMAIN defaults |-> inForce[key]]
  OBVIOUS
<1>10. defaults = [key \in DOMAIN defaults |-> defaults[key]]
  <2>1. /\ WebDefaults = [key \in DOMAIN WebDefaults |-> WebDefaults[key]]
        /\ SpaDefaults = [key \in DOMAIN SpaDefaults |-> SpaDefaults[key]]
        /\ SentryDefaults = [key \in DOMAIN SentryDefaults |-> SentryDefaults[key]]
    BY DEF WebDefaults, SpaDefaults, SentryDefaults
  <2>2. AuthDefaults = [key \in DOMAIN AuthDefaults |-> AuthDefaults[key]]
    BY DEF AuthDefaults, Over
  <2>3. defaults \in {WebDefaults, SpaDefaults, AuthDefaults, SentryDefaults}
    BY DEF Defaults, Sections
  <2>4. QED
    BY <2>1, <2>2, <2>3
<1> HIDE DEF given, known, defaults, inForce, outcome
<1>11. Over(given, defaults) = inForce
  BY <1>4, <1>7, <1>9 DEF Over
<1>12. known = {} => defaults = inForce
  BY <1>4, <1>9, <1>10
<1>13. CASE \E s \in DOMAIN figment.tree : s[1] = section
  <2>1. CASE \E k \in DOMAIN given : given[k] = Bad
    <3>1. PICK k \in known : given[k] = Bad
      BY <1>7, <2>1
    <3>2. k \in DOMAIN defaults /\ inForce[k] = Bad
      BY <1>4, <1>7, <3>1
    <3>3. ~outcome.ok
      BY <1>1, <1>5, <1>13, <2>1 DEF Extract
    <3>4. QED
      BY <3>2, <3>3 DEF outcome, inForce, defaults
  <2>2. CASE ~ \E k \in DOMAIN given : given[k] = Bad
    <3>1. outcome = Read(inForce)
      BY <1>5, <1>11, <1>13, <2>2 DEF Extract
    <3>2. outcome.ok /\ outcome.cfg = inForce
      BY <1>1, <3>1
    <3>3. QED
      BY <3>2 DEF outcome, inForce, defaults
  <2>3. QED
    BY <2>1, <2>2
<1>14. CASE ~ \E s \in DOMAIN figment.tree : s[1] = section
  <2>1. outcome = Read(inForce)
    BY <1>5, <1>6, <1>12, <1>14
  <2>2. outcome.ok /\ outcome.cfg = inForce
    BY <1>1, <2>1
  <2>3. QED
    BY <2>2 DEF outcome, inForce, defaults
<1>15. QED
  BY <1>13, <1>14

LEMMA ModeRead ==
  ASSUME NEW machine \in Machines, PickedFile(machine).parses
  PROVE  Mode(machine, Profile) = InForceMode(machine)
<1> DEFINE env == <<"", "env">>
           name == <<App, "", "env">>
           own == Own(machine.vars)
           file == PickedFile(machine).tree
           tree == Loaded(machine).tree
           given == IF name \in DOMAIN machine.vars THEN machine.vars[name]
                    ELSE IF env \in DOMAIN file THEN file[env] ELSE ""
<1>1. /\ env \in DOMAIN own <=> name \in DOMAIN machine.vars
      /\ env \in DOMAIN own => own[env] = machine.vars[name]
  <2>1. env # ConfigVar
    BY DEF ConfigVar
  <2>2. QED
    BY <2>1, OwnSets
<1>2. tree = Over(own, file) /\ Loaded(machine).parses = PickedFile(machine).parses
  BY DEF Loaded, Merged
<1>3. "" \notin DOMAIN ModeNamed
  BY DEF ModeNamed, Over
<1>4. InForceMode(machine) = IF given \in DOMAIN ModeNamed THEN ModeNamed[given] ELSE Profile
  <2>1. <<App>> \o env = name
    BY Named
  <2> HIDE DEF name
  <2>2. QED
    BY <2>1 DEF InForceMode
<1>5. Mode(machine, Profile) =
        IF env \in DOMAIN tree /\ tree[env] \in DOMAIN ModeNamed THEN ModeNamed[tree[env]] ELSE Profile
  BY <1>2 DEF Mode
<1> HIDE DEF own, file, tree, name, env
<1>6. /\ env \in DOMAIN tree <=> env \in DOMAIN own \/ env \in DOMAIN file
      /\ env \in DOMAIN tree => tree[env] = IF env \in DOMAIN own THEN own[env] ELSE file[env]
  BY <1>2 DEF Over
<1>7. IF env \in DOMAIN tree THEN tree[env] = given ELSE given = ""
  BY <1>1, <1>6
<1> HIDE DEF given
<1>8. QED
  BY <1>3, <1>4, <1>5, <1>7

\* What a process whose file can be read starts with, or does not start for.
LEMMA StartHonours ==
  ASSUME NEW machine \in Machines, PickedFile(machine).parses
  PROVE  LET outcome == Started(machine, Profile)
             inForce(section) == [key \in DOMAIN Defaults[section] |-> InForce(machine, section, key)]
         IN  IF outcome.ok
             THEN /\ \A section \in Sections : outcome.read[section] = inForce(section)
                  /\ outcome.environment =
                       IF inForce("sentry").environment # None THEN inForce("sentry").environment
                       ELSE InForceMode(machine)
                  /\ outcome.sampleRate =
                       IF inForce("sentry").traces_sample_rate # None
                       THEN inForce("sentry").traces_sample_rate
                       ELSE IF InForceMode(machine) = "production" THEN "0.1" ELSE "1.0"
                  /\ inForce("auth").base_url # None =>
                       inForce("auth").base_url.origin \in outcome.trusted \union {Opaque}
                  /\ outcome.providerOn /\ inForce("auth").redirect_url = None =>
                       inForce("auth").base_url # None
             ELSE \/ \E section \in Sections : \E key \in DOMAIN Defaults[section] :
                       inForce(section)[key] = Bad
                  \/ inForce("sentry").dsn = "nonsense"
<1> DEFINE inForce(section) == [key \in DOMAIN Defaults[section] |-> InForce(machine, section, key)]
           read == [section \in Sections |-> SectionOf(machine, section)]
           mode == Mode(machine, Profile)
           outcome == Started(machine, Profile)
           auth == inForce("auth")
           sentry == inForce("sentry")
<1>1. "auth" \in Sections /\ "sentry" \in Sections
  BY DEF Sections
<1>2. ASSUME NEW section \in Sections
      PROVE  IF read[section].ok THEN read[section].cfg = inForce(section)
             ELSE \E key \in DOMAIN Defaults[section] : inForce(section)[key] = Bad
  BY SectionRead
<1>3. mode = InForceMode(machine)
  BY ModeRead
<1>4. ~Refused.ok
  BY DEF Refused
<1> HIDE DEF inForce, mode
<1>5. outcome = IF \E section \in Sections : ~read[section].ok THEN Refused
                ELSE IF ~DsnParses(read.sentry.cfg) THEN Refused
                ELSE [ok |-> TRUE,
                      read |-> [section \in Sections |-> read[section].cfg],
                      environment |-> Environment(read.sentry.cfg, mode),
                      sampleRate |-> SampleRate(read.sentry.cfg, mode),
                      providerOn |-> ProviderOn(read.auth.cfg),
                      trusted |-> TrustedOrigins(read.auth.cfg)]
  BY DEF Started, mode
<1> HIDE DEF read, outcome
<1>6. CASE \E section \in Sections : ~read[section].ok
  <2>1. ~outcome.ok
    BY <1>4, <1>5, <1>6
  <2>2. \E section \in Sections : \E key \in DOMAIN Defaults[section] : inForce(section)[key] = Bad
    BY <1>2, <1>6
  <2>3. QED
    BY <2>1, <2>2 DEF outcome, inForce
<1>7. CASE \A section \in Sections : read[section].ok
  <2>1. /\ \A section \in Sections : read[section].cfg = inForce(section)
        /\ read.sentry.cfg = sentry /\ read.auth.cfg = auth
    BY <1>1, <1>2, <1>7
  <2>2. CASE ~DsnParses(sentry)
    <3>1. ~outcome.ok
      BY <1>4, <1>5, <1>7, <2>1, <2>2
    <3>2. sentry.dsn = "nonsense"
      BY <2>2 DEF DsnParses
    <3>3. QED
      BY <3>1, <3>2 DEF outcome, inForce
  <2>3. CASE DsnParses(sentry)
    <3>1. outcome = [ok |-> TRUE,
                     read |-> [section \in Sections |-> read[section].cfg],
                     environment |-> Environment(sentry, mode),
                     sampleRate |-> SampleRate(sentry, mode),
                     providerOn |-> ProviderOn(auth),
                     trusted |-> TrustedOrigins(auth)]
      BY <1>5, <1>7, <2>1, <2>3
    <3>2. /\ outcome.ok /\ \A section \in Sections : outcome.read[section] = inForce(section)
          /\ outcome.environment = Environment(sentry, mode)
          /\ outcome.sampleRate = SampleRate(sentry, mode)
          /\ outcome.providerOn = ProviderOn(auth) /\ outcome.trusted = TrustedOrigins(auth)
      BY <2>1, <3>1
    <3> HIDE DEF auth, sentry
    <3>3. Environment(sentry, mode) = IF sentry.environment # None THEN sentry.environment
                                      ELSE InForceMode(machine)
      BY <1>3 DEF Environment
    <3>4. SampleRate(sentry, mode) =
            IF sentry.traces_sample_rate # None THEN sentry.traces_sample_rate
            ELSE IF InForceMode(machine) = "production" THEN "0.1" ELSE "1.0"
      BY <1>3 DEF SampleRate, DefaultSampleRate
    <3>5. /\ auth.base_url # None => auth.base_url.origin \in TrustedOrigins(auth) \union {Opaque}
          /\ ProviderOn(auth) /\ auth.redirect_url = None => auth.base_url # None
      BY DEF ProviderOn, ComesBack, TrustedOrigins, Normalize
    <3>6. QED
      BY <3>2, <3>3, <3>4, <3>5 DEF outcome, inForce, auth, sentry
  <2>4. QED
    BY <2>2, <2>3
<1>8. QED
  BY <1>6, <1>7

\* What a replica has just started with is what its machine's configuration says.
StartSeen ==
  last.op = "start" => last.machine \in Machines /\ last.outcome = Started(last.machine, Profile)

\* A process runs with what is in force on its machine, whatever is overridden there
\* or meant for another app, and does not start exactly if it cannot: load_figment,
\* get_or_env and extract_section together (config.rs), for any machines.
THEOREM SettingsAreHonoured == Spec => []SettingsHonoured
<1>1. Init => StartSeen
  BY DEF Init, Quiet, StartSeen
<1>2. StartSeen /\ [Next]_vars => StartSeen'
  <2> SUFFICES ASSUME StartSeen, [Next]_vars PROVE StartSeen'
    OBVIOUS
  <2>1. ASSUME NEW r \in Replicas, Start(r) PROVE StartSeen'
    <3>1. PICK machine \in Machines :
            last' = [op |-> "start", machine |-> machine, outcome |-> Started(machine, Profile)]
      BY <2>1 DEF Start
    <3>2. Profile' = Profile
      BY <2>1 DEF Start, Profile
    <3>3. last'.machine = machine /\ last'.outcome = Started(machine, Profile)
      BY <3>1
    <3>4. Started(last'.machine, Profile') = Started(machine, Profile)
      BY <3>2, <3>3
    <3>5. QED
      BY <3>3, <3>4 DEF StartSeen
  <2>2. CASE (\E r \in Replicas : Stop(r)) \/ Rebuild \/ Navigate \/ Import \/ Call
             \/ Submit \/ Script \/ Settle
    <3>1. CASE (\E r \in Replicas : Stop(r)) \/ Rebuild \/ Settle
      <4>1. last' = Quiet
        BY <3>1 DEF Stop, Rebuild, Settle
      <4>2. QED
        BY <4>1 DEF Quiet, StartSeen
    <3>2. CASE Navigate \/ Import \/ Call
      <4>1. last'.op \in {"navigate", "import", "call"}
        BY <3>2 DEF Navigate, Import, Call
      <4>2. QED
        BY <4>1 DEF StartSeen
    <3>3. CASE Submit \/ Script
      <4>1. \E request, trusted, answer :
              last' = [op |-> "submit", request |-> request, trusted |-> trusted, answer |-> answer]
        <5>1. CASE Submit
          BY <5>1, Zenon DEF Submit
        <5>2. CASE Script
          BY <5>2, Zenon DEF Script
        <5>3. QED
          BY <3>3, <5>1, <5>2
      <4>2. QED
        BY <4>1 DEF StartSeen
    <3>4. QED
      BY <2>2, <3>1, <3>2, <3>3
  <2>3. CASE UNCHANGED vars
    BY <2>3 DEF vars, StartSeen, Profile
  <2>4. QED
    BY <2>1, <2>2, <2>3 DEF Next
<1>3. StartSeen => SettingsHonoured
  <2> SUFFICES ASSUME StartSeen, last.op = "start", PickedFile(last.machine).parses
               PROVE  SettingsHonoured
    BY DEF SettingsHonoured
  <2>1. PICK machine : machine = last.machine /\ machine \in Machines
    BY DEF StartSeen
  <2>2. last.outcome = Started(machine, Profile) /\ PickedFile(machine).parses
    BY <2>1 DEF StartSeen
  <2>3. QED
    BY <2>1, <2>2, StartHonours DEF SettingsHonoured
<1>4. QED
  BY <1>1, <1>2, <1>3, PTL DEF Spec
=============================================================================
