-------------------------------- MODULE Csrf --------------------------------
(***************************************************************************)
(* The cross-origin guard of muxa-auth: the decision about one request, by *)
(* what its headers say of the page it comes from.                         *)
(*                                                                         *)
(* A request has a method, the Sec-Fetch-Site header, the Origin header (a *)
(* URL as it is written) and the Host header. An origin is its scheme and  *)
(* its authority, the host with the port unless that is the scheme's own;  *)
(* Host holds an authority.                                                *)
(***************************************************************************)
EXTENDS Startup

SafeMethods == {"GET", "HEAD", "OPTIONS"}

\* TrustedOrigins::contains: the header is normalised like the settings were.
IsTrusted(trusted, url) == url # None /\ Normalize(url) \in trusted \ {Opaque}

\* Mutant: a page of a sibling site counts as the app's own.
SaysSameSite(request) == request.site \in {"same-origin", "same-site", "none"}

\* With Sec-Fetch-Site the browser has compared the origins itself.
SaysSame(request) == request.site \in {"same-origin", "none"}

\* Without it: a request that names no origin passes, one that does has to name
\* the host it is sent to. Host has no scheme to compare with.
NamesHost(request) == request.origin # None /\ request.origin.origin # Opaque
                        /\ request.origin.origin.authority = request.host
NamesNoneOrHost(request) == request.origin = None \/ NamesHost(request)

\* A request that only reads, one from a trusted origin, or one whose headers say
\* that it is the app's own.
Allowed(request, trusted) ==
  \/ request.method \in SafeMethods
  \/ IsTrusted(trusted, request.origin)
  \/ IF request.site # None THEN SaysSame(request) ELSE NamesNoneOrHost(request)
=============================================================================
