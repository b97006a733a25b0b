------------------------------ MODULE Startup ------------------------------
(***************************************************************************)
(* What an application's plugins make of the configuration when a process  *)
(* starts: the web plugin, the SPA, the sign-in providers and trusted      *)
(* origins of muxa-auth, and Sentry. The first section or setting that is  *)
(* invalid ends the start.                                                 *)
(*                                                                         *)
(* A path is the sequence of its segments, and ends in "" if it is written *)
(* with a slash at its end. A URL as it is written has an origin, which is *)
(* Opaque if it is none to compare with ("null", a word, the URL           *)
(* "app.example:8080" whose scheme is app.example), and parses or does not *)
(* (base_url with the callback's path behind it).                          *)
(***************************************************************************)
EXTENDS Config, Integers, FiniteSets, FiniteSetsExt

CONSTANT Opaque

-----------------------------------------------------------------------------
(* The sections: their keys with the defaults, and their fallbacks.        *)

Sections == {"web", "spa", "auth", "sentry"}

WebDefaults == [port |-> "3000"]

SpaDefaults == [
  enabled |-> TRUE,
  exclude_prefixes |-> {<<"api">>, <<"health">>, <<"openapi.json">>, <<"docs">>},
  assets_prefix |-> <<"assets">>,
  no_cache |-> {<<"sw.js">>}]

\* One provider stands for the table of them.
ProviderDefaults == [client_id |-> "", redirect_url |-> None, issuer |-> ""]
\* A base_url that is empty but for slashes counts as not set.
AuthDefaults == Over([base_url |-> None, trusted_origins |-> {}], ProviderDefaults)

SentryDefaults == [dsn |-> "", environment |-> None, traces_sample_rate |-> None]

Defaults ==
  [web |-> WebDefaults, spa |-> SpaDefaults, auth |-> AuthDefaults, sentry |-> SentryDefaults]

WebFallbacks == [port |-> "PORT"]
SentryFallbacks == [dsn |-> "SENTRY_DSN", environment |-> "SENTRY_ENVIRONMENT"]

Fallbacks ==
  [web |-> WebFallbacks, spa |-> NoFallbacks, auth |-> NoFallbacks, sentry |-> SentryFallbacks]

SectionOf(machine, section) ==
  GetOrEnv(machine, section, Fallbacks[section], Defaults[section])

-----------------------------------------------------------------------------
(* muxa-sentry                                                             *)

\* No DSN turns Sentry off, one that does not parse ends the start.
DsnParses(cfg) == cfg.dsn # "nonsense"

Environment(cfg, mode) == IF cfg.environment = None THEN mode ELSE cfg.environment

DefaultSampleRate(mode) == IF mode = "production" THEN "0.1" ELSE "1.0"

SampleRate(cfg, mode) ==
  IF cfg.traces_sample_rate # None THEN cfg.traces_sample_rate ELSE DefaultSampleRate(mode)

-----------------------------------------------------------------------------
(* muxa-auth                                                               *)

\* normalize: the origin however it is written, if it is one.
Normalize(url) == url.origin

TrustedOrigins(cfg) ==
  LET urls == cfg.trusted_origins \union ({cfg.base_url} \ {None})
  IN  {Normalize(url) : url \in urls} \ {Opaque}

ParsesAsUrl(setting) == setting \notin {"", "nonsense"}

\* Where the provider sends the visitor back to: any URL, with an origin or not.
ComesBack(cfg) ==
  IF cfg.redirect_url # None THEN ParsesAsUrl(cfg.redirect_url)
  ELSE cfg.base_url # None /\ cfg.base_url.parses

\* A provider that cannot be used is off, and does not end the start.
ProviderOn(cfg) == cfg.client_id # "" /\ ComesBack(cfg) /\ ParsesAsUrl(cfg.issuer)

-----------------------------------------------------------------------------
\* What the process runs with, or that it did not start.
Started(machine, profile) ==
  LET read == [section \in Sections |-> SectionOf(machine, section)]
      mode == Mode(machine, profile)
  IN  IF \E section \in Sections : ~read[section].ok THEN Refused
      ELSE IF ~DsnParses(read.sentry.cfg) THEN Refused
      ELSE [ok |-> TRUE,
            read |-> [section \in Sections |-> read[section].cfg],
            environment |-> Environment(read.sentry.cfg, mode),
            sampleRate |-> SampleRate(read.sentry.cfg, mode),
            providerOn |-> ProviderOn(read.auth.cfg),
            trusted |-> TrustedOrigins(read.auth.cfg)]
=============================================================================
