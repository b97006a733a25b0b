---------------------------- MODULE OtelShutdown ----------------------------
(***************************************************************************)
(* The "otel-shutdown" task of muxa-otel inside AppRun: it waits for the   *)
(* shutdown token, then shuts the OTLP providers down, which flushes the   *)
(* spans they hold. Each request is traced: its span reaches the provider  *)
(* when the request is answered.                                           *)
(***************************************************************************)
EXTENDS AppRun

CONSTANT OtelTask      \* the place of "otel-shutdown" in the task registry

ASSUME OtelAssumption == OtelTask \in Tasks

VARIABLES
  providers,  \* "open", "closing" (shut down, flushing) or "closed"
  span        \* span[r]: "none", "buffered", "exported", "refused" or "late"

otelVars == <<providers, span>>

OtelInit ==
  /\ Init
  /\ providers = "open"
  /\ span = [r \in Requests |-> "none"]

\* The SDK ignores a span that ends after its provider was shut down.
EndSpan(r) ==
  span' = [span EXCEPT ![r] = IF providers = "open" THEN "buffered" ELSE "late"]

\* An export empties the batch; a collector that refuses it loses it.
Export ==
  \E outcome \in {"exported", "refused"} :
    span' = [r \in Requests |-> IF span[r] = "buffered" THEN outcome ELSE span[r]]

\* The SDK's own timer exports a batch now and then.
ExportBatch ==
  /\ providers = "open"
  /\ Export
  /\ UNCHANGED <<vars, providers>>

OtelFinish(r) == Finish(r) /\ EndSpan(r) /\ UNCHANGED providers

BeginFlush ==
  /\ task[OtelTask] = "running"
  /\ providers = "open"
  /\ token
  /\ providers' = "closing"
  /\ UNCHANGED <<vars, span>>

\* The blocking shutdown drains the batch, or gives up on the collector.
EndFlush ==
  /\ providers = "closing"
  /\ providers' = "closed"
  /\ Export
  /\ UNCHANGED vars

\* Mutant: the handles of the blocking shutdowns are not awaited.
FlushStarted == providers # "open"
FlushAwaited == providers = "closed"

OtelReturns ==
  /\ FlushAwaited
  /\ TaskReturns(OtelTask)
  /\ UNCHANGED otelVars

\* Every other step of the lifecycle leaves the providers alone.
Elsewhere ==
  /\ \/ RefuseToRun \/ StartRun
     \/ BindFails \/ Bind \/ CtrlC \/ CancelShutdown \/ StopAccepting \/ EndServing
     \/ \E r \in Requests : Accept(r)
     \/ \E t \in Tasks \ {OtelTask} : TaskReturns(t) \/ TaskPanics(t)
     \/ BeginJoin
     \/ \E t \in Tasks : JoinFinished(t) \/ JoinTimesOut(t) \/ Tick(t)
     \/ Return
     \/ Stopped
  /\ UNCHANGED otelVars

OtelNext ==
  \/ \E r \in Requests : OtelFinish(r)
  \/ ExportBatch \/ BeginFlush \/ EndFlush \/ OtelReturns
  \/ Elsewhere

OtelSpec == OtelInit /\ [][OtelNext]_<<vars, otelVars>>

\* What is fair of the lifecycle stays so. Neither the flush nor the collector
\* is: run has to return without them.
OtelFairSpec == OtelSpec /\ Fairness

-----------------------------------------------------------------------------
(* Properties                                                              *)

\* When run returns and the flush was not abandoned, no span is left in a
\* batch: the task returns only after the providers have drained
\* (muxa-otel lib.rs:140-155 and 259-263).
BatchTailFlushed ==
  phase = "returned" /\ result # "no_serve" /\ OtelTask \notin abandoned =>
    \A r \in Requests : span[r] # "buffered"
=============================================================================
