--------------------------- MODULE MCOtelShutdown ---------------------------
(***************************************************************************)
(* OtelShutdown, and with it AppRun, with two requests. The cfg gives four *)
(* tasks, the flush among them, so that one can be judged before, one at   *)
(* and one after the deadline in one behaviour, with the flush in between, *)
(* and a grace period of two ticks.                                        *)
(***************************************************************************)
EXTENDS OtelShutdown

CONSTANTS r1, r2

MCRequests == {r1, r2}
=============================================================================
