--------------------------- MODULE MCTelemetrySlot ---------------------------
(* TelemetrySlot with one builder and one target, for what exclude_targets leaves. *)
EXTENDS TelemetrySlot

CONSTANTS b1

MCBuilders == {b1}
MCKinds == {"spans"}
MCTargets == {"hyper"}
MCPath == [k \in MCKinds |-> {"hyper"}]
=============================================================================
