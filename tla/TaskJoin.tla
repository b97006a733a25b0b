------------------------------ MODULE TaskJoin ------------------------------
(***************************************************************************)
(* What the shutdown of the background tasks promises, with no order and   *)
(* no clock: once shutdown is announced every task gets one verdict, and   *)
(* the verdict is the truth about that task at the moment it is given.     *)
(* AppRun, which waits for the tasks one after the other under one         *)
(* deadline, implements this.                                              *)
(***************************************************************************)

CONSTANT Tasks     \* the tasks that were spawned

VARIABLES
  task,            \* task[t]: "scheduled", "running", "returned" or "panicked"
  announced,       \* the shutdown token is cancelled and the wait has begun
  graceOver,       \* the grace period has run out
  verdict          \* verdict[t]: "none", "fine", "failed" or "abandoned"

vars == <<task, announced, graceOver, verdict>>

Init ==
  /\ task = [t \in Tasks |-> "scheduled"]
  /\ announced = FALSE
  /\ graceOver = FALSE
  /\ verdict = [t \in Tasks |-> "none"]

Spawn ==
  /\ \A t \in Tasks : task[t] = "scheduled"
  /\ task' = [t \in Tasks |-> "running"]
  /\ UNCHANGED <<announced, graceOver, verdict>>

Finish(t) ==
  /\ task[t] = "running"
  /\ \E how \in {"returned", "panicked"} : task' = [task EXCEPT ![t] = how]
  /\ UNCHANGED <<announced, graceOver, verdict>>

Announce ==
  /\ announced' = TRUE
  /\ UNCHANGED <<task, graceOver, verdict>>

GraceRunsOut ==
  /\ announced
  /\ graceOver' = TRUE
  /\ UNCHANGED <<task, announced, verdict>>

\* A verdict is given once, after the announcement: what a finished task did,
\* or that it is still running although the grace period is over.
Judge(t) ==
  /\ announced
  /\ verdict[t] = "none"
  /\ \/ task[t] = "returned" /\ verdict' = [verdict EXCEPT ![t] = "fine"]
     \/ task[t] = "panicked" /\ verdict' = [verdict EXCEPT ![t] = "failed"]
     \/ /\ task[t] = "running"
        /\ graceOver
        /\ verdict' = [verdict EXCEPT ![t] = "abandoned"]
  /\ UNCHANGED <<task, announced, graceOver>>

Next ==
  \/ Spawn \/ Announce \/ GraceRunsOut
  \/ \E t \in Tasks : Finish(t) \/ Judge(t)

Spec == Init /\ [][Next]_vars
=============================================================================
