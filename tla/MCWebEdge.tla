----------------------------- MODULE MCWebEdge -----------------------------
(***************************************************************************)
(* WebEdge with two replicas, three release builds (one without a page)    *)
(* and two that are on disk, and a machine for every way in which settings *)
(* meet: overridden, another app's, empty, invalid in force or out of it,  *)
(* in a file that does not parse, a URL without an origin or none at all.  *)
(***************************************************************************)
EXTENDS WebEdge

CONSTANTS r1, r2

MCReplicas == {r1, r2}
Symmetry == Permutations(MCReplicas)

MCAppOrigin == [scheme |-> "https", authority |-> "app.example", site |-> "example"]
Partner == [scheme |-> "https", authority |-> "partner.test", site |-> "test"]
MCElsewhere == {
  Partner,
  [scheme |-> "https", authority |-> "blog.example", site |-> "example"],
  [scheme |-> "https", authority |-> "app.example:8443", site |-> "example"]}

-----------------------------------------------------------------------------
Page(build) == [kind |-> "page", of |-> build]
Code(name) == [kind |-> "script", of |-> name]
Image(name) == [kind |-> "image", of |-> name]

Sw == <<"sw.js">>
Logo == <<"logo.png">>
Hero == <<"hero.png">>
A1 == <<"assets", "a1.js">>
A2 == <<"assets", "a2.js">>
Shared == <<"assets", "shared.js">>
Main == <<"assets", "main.js">>
Extra == <<"assets", "extra.js">>

MCBuilds == [
  b1 |-> Index :> Page("b1") @@ Sw :> Code("sw1") @@ Logo :> Image("l1") @@ Hero :> Image("h1")
           @@ A1 :> Code("a1") @@ Shared :> Code("shared"),
  b2 |-> Index :> Page("b2") @@ Sw :> Code("sw2") @@ Logo :> Image("l2")
           @@ A2 :> Code("a2") @@ Shared :> Code("shared"),
  b3 |-> A2 :> Code("a2"),
  d1 |-> Index :> Page("d1") @@ Sw :> Code("sw1") @@ Main :> Code("main1")
           @@ A1 :> Code("a1"),
  d2 |-> Index :> Page("d2") @@ Sw :> Code("sw2") @@ Main :> Code("main2")
           @@ Extra :> Code("extra")]
MCReleased == {"b1", "b2", "b3"}
MCBundlerPrefix == <<"assets">>

MCRoutes == {<<"api", "items">>}
MCClientPaths == {<<"">>, <<"orders">>}
MCApiPaths == {<<"api", "items">>, <<"api", "itmes">>, <<"docs">>}

-----------------------------------------------------------------------------
Machine(file, own, platform) ==
  [files |-> DefaultPath :> file, vars |-> own, platform |-> platform]
File(tree) == [parses |-> TRUE, tree |-> tree]
NoFile == File(<<>>)
InApp(section, key, value) == <<App, section, key>> :> value

Configured ==
  File(<<"web", "port">> :> "4000"
    @@ <<"spa", "no_cache">> :> {Sw, A1}
    @@ <<"auth", "trusted_origins">> :> {Url(Partner), Url(Opaque)}
    @@ <<"sentry", "environment">> :> "staging"
    @@ <<"sentry", "traces_sample_rate">> :> "0")

Proxied ==
  File(<<"spa", "assets_prefix">> :> <<"assets", "">>
    @@ <<"auth", "base_url">> :> Url(MCAppOrigin)
    @@ <<"auth", "client_id">> :> "client"
    @@ <<"auth", "issuer">> :> "nonsense")

\* "app.example:8080" is a URL, and its scheme is app.example.
NoScheme ==
  File(<<"auth", "base_url">> :> [origin |-> Opaque, parses |-> TRUE]
    @@ <<"auth", "client_id">> :> "client"
    @@ <<"auth", "issuer">> :> "https://id.test")

MCMachines == {
  Machine(NoScheme, <<>>, <<>>),
  Machine(NoScheme, InApp("auth", "base_url", Url(Opaque)), <<>>),
  Machine(NoFile, <<>>, <<>>),
  Machine(Configured, <<>>, "PORT" :> "6000" @@ "SENTRY_ENVIRONMENT" :> "edge"),
  Machine(Configured, InApp("web", "port", "5000"), "PORT" :> Bad),
  Machine(Proxied, <<"OTHER_", "web", "port">> :> Bad,
          "PORT" :> "" @@ "SENTRY_DSN" :> "" @@ "SENTRY_ENVIRONMENT" :> "edge"),
  Machine(File(<<"spa", "enabled">> :> TRUE), InApp("spa", "enabled", FALSE), <<>>),
  Machine(File(<<"spa", "enabled">> :> Bad), InApp("spa", "enabled", TRUE), <<>>),
  Machine(NoFile, InApp("spa", "enabled", Bad), <<>>),
  Machine(NoFile, <<>>, "PORT" :> Bad),
  Machine(NoFile, <<>>, "SENTRY_DSN" :> "nonsense"),
  Machine([parses |-> FALSE, tree |-> <<>>], InApp("web", "port", "5000"), <<>>),
  [Machine(File(<<"web", "port">> :> Bad), <<App>> \o ConfigVar :> "other.toml", <<>>)
     EXCEPT !.files = @ @@ "other.toml" :> File(<<"", "env">> :> "dev")],
  Machine(File(<<"", "env">> :> "production"
            @@ <<"auth", "base_url">> :> Url(MCAppOrigin)
            @@ <<"auth", "client_id">> :> "client"),
          <<App, "", "env">> :> "staging" @@ InApp("auth", "issuer", "https://id.test"),
          "PORT" :> "6000")}
=============================================================================
