-------------------------------- MODULE Spa --------------------------------
(***************************************************************************)
(* The fallback router of SpaPlugin: which file of the build, if any,      *)
(* answers a request that no route of the application matched, and what    *)
(* the browser is told about keeping it.                                   *)
(*                                                                         *)
(* A path is the sequence of its segments; a trailing slash is a last      *)
(* segment "". A build is a function from the paths of its files to what   *)
(* is in them. A server is the [spa] section, the build it serves, and     *)
(* whether that is embedded in the binary or read from disk.               *)
(***************************************************************************)
EXTENDS Config, SequencesExt

Index == <<"index.html">>
Reads == {"GET", "HEAD"}

Answer(status, body, keep) == [status |-> status, body |-> body, keep |-> keep]
NotFound == Answer(404, None, "unsaid")

-----------------------------------------------------------------------------
\* under, with the prefix's trailing slashes trimmed: whole segments are compared.
Trimmed(prefix) ==
  SubSeq(prefix, 1, Max({0} \union {i \in DOMAIN prefix : prefix[i] # ""}))

Under(path, prefix) == IsPrefix(Trimmed(prefix), path)

\* A build without the page, or an empty one, is not served.
Inert(server) == ~server.spa.enabled \/ Index \notin DOMAIN server.files

\* memory-serve answers for "/" with the index. It tells browsers to ask every
\* time about HTML and about what is read from disk, and to keep the rest for a
\* week. A file that has gone from the disk (None) is not found.
FileNamed(path) == IF path = <<"">> THEN Index ELSE path

KeptAWeek(server, body) == server.embedded /\ body.kind # "page"

ServeFile(server, method, path) ==
  LET body == server.files[path]
  IN  IF body = None THEN NotFound
      ELSE IF method \in Reads
      THEN Answer(200, body, IF KeptAWeek(server, body) THEN "week" ELSE "no-cache")
      ELSE Answer(405, None, "unsaid")

\* Mutant: missing fingerprinted files get the page.
ApiExcluded(server, path) == \E prefix \in server.spa.exclude_prefixes : Under(path, prefix)
Excluded(server, path) ==
  \E prefix \in server.spa.exclude_prefixes \union {server.spa.assets_prefix} :
    Under(path, prefix)

\* client_route
ClientRoute(server, method, path) ==
  IF Excluded(server, path) \/ method \notin Reads
  THEN NotFound
  ELSE ServeFile(server, method, Index)

\* Mutant: also what is not there is immutable.
AnyStatus(answer) == TRUE
Success(answer) == answer.status = 200

\* Mutant: files on disk are immutable too.
UnderAssets(server, path) == Under(path, server.spa.assets_prefix)
Fingerprinted(server, path) == server.embedded /\ Under(path, server.spa.assets_prefix)

NeverKept(server, path) == path \in server.spa.no_cache

\* cache_headers
CacheHeaders(server, path, answer) ==
  IF ~Success(answer) THEN answer
  ELSE IF NeverKept(server, path) THEN [answer EXCEPT !.keep = "no-cache"]
  ELSE IF Fingerprinted(server, path) THEN [answer EXCEPT !.keep = "immutable"]
  ELSE answer

Fallback(server, method, path) ==
  IF Inert(server) THEN NotFound
  ELSE CacheHeaders(server, path,
         IF FileNamed(path) \in DOMAIN server.files
         THEN ServeFile(server, method, FileNamed(path))
         ELSE ClientRoute(server, method, path))
=============================================================================
