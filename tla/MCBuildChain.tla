---------------------------- MODULE MCBuildChain ----------------------------
(* BuildChain with two apps, and one crate that every kind of exporter uses. *)
EXTENDS BuildChain

CONSTANTS a1, a2

MCBuilders == {a1, a2}
MCKinds == {"spans", "logs", "sentry"}
MCTargets == {"hyper"}
MCPath == [k \in MCKinds |-> {"hyper"}]

\* The chain of one app, and a second that gets as far as one plugin.
MCOffers == (a1 :> {"otel", "auth", "web", "own"})
         @@ (a2 :> {"otel", "sentry", "spa", "openapi", "api", "pool"})
MCMaxPlugins == (a1 :> 3) @@ (a2 :> 1)
=============================================================================
