------------------------------- MODULE AppRun -------------------------------
(***************************************************************************)
(* AppBuilder::run of muxa-core with the serve loop of muxa-web: spawn the *)
(* background tasks, bind, serve until the shutdown token is cancelled,    *)
(* drain, cancel the token, wait for the tasks under one deadline, return. *)
(* The tasks, the requests in flight and the ctrl-c bridge run beside it.  *)
(*                                                                         *)
(* A tick of the clock only matters while run waits for a task, so time is *)
(* counted from the start of the wait (join_tasks).                        *)
(***************************************************************************)
EXTENDS Integers

CONSTANTS
  N,          \* how many tasks the plugins registered
  Requests,   \* the requests clients may send
  Grace       \* TASK_SHUTDOWN_GRACE, in clock ticks

ASSUME AppRunAssumption ==
  /\ N \in Nat
  /\ Grace \in Nat \ {0}

Tasks == 1..N    \* a task is its place in the registry: names may repeat

VARIABLES
  phase,      \* where run is; see Phases
  serveFn,    \* a plugin registered a serve function
  token,      \* the root shutdown token is cancelled
  bridge,     \* the task that turns ctrl-c into a cancellation
  request,    \* request[r]: "idle", "inflight" or "done"
  task,       \* task[t]: "scheduled", "running", "returned" or "panicked"
  served,     \* what the serve function returned
  next,       \* the place of the handle join_tasks is waiting on
  waited,     \* ticks since join_tasks took its deadline
  deadline,   \* the instant that deadline stands for
  failed,     \* TaskOutcomes.failed
  abandoned,  \* TaskOutcomes.abandoned
  result      \* what run returned

serveVars == <<serveFn, bridge, request>>
joinVars == <<next, waited, deadline, failed, abandoned>>
vars == <<phase, serveVars, token, task, served, joinVars, result>>

Phases == {"built", "binding", "serving", "draining", "ended", "joining", "returned"}

Init ==
  /\ phase = "built"
  /\ serveFn \in BOOLEAN
  /\ token = FALSE
  /\ bridge = "absent"
  /\ request = [r \in Requests |-> "idle"]
  /\ task = [t \in Tasks |-> "scheduled"]
  /\ served = "none"
  /\ next = 1
  /\ waited = 0
  /\ deadline = 0
  /\ failed = {}
  /\ abandoned = {}
  /\ result = "none"

-----------------------------------------------------------------------------
(* run, up to the serve function                                           *)

\* No serve function: an error, before anything is spawned.
RefuseToRun ==
  /\ phase = "built"
  /\ ~serveFn
  /\ phase' = "returned"
  /\ result' = "no_serve"
  /\ UNCHANGED <<serveVars, token, task, served, joinVars>>

\* spawn_all, compose, and the first poll of the serve function.
StartRun ==
  /\ phase = "built"
  /\ serveFn
  /\ serveFn' = FALSE              \* taken out of the context
  /\ task' = [t \in Tasks |-> "running"]
  /\ phase' = "binding"
  /\ UNCHANGED <<bridge, request, token, served, joinVars, result>>

-----------------------------------------------------------------------------
(* serve_loop                                                              *)

\* Mutant: run propagates serve's error with `?`, skipping the shutdown.
BindFailsEarly ==
  /\ phase = "binding"
  /\ phase' = "returned"
  /\ served' = "err"
  /\ result' = "err"
  /\ UNCHANGED <<serveVars, token, task, joinVars>>

BindFails ==
  /\ phase = "binding"
  /\ phase' = "ended"
  /\ served' = "err"
  /\ UNCHANGED <<serveVars, token, task, joinVars, result>>

Bind ==
  /\ phase = "binding"
  /\ phase' = "serving"
  /\ bridge' = "armed"
  /\ UNCHANGED <<serveFn, request, token, task, served, joinVars, result>>

\* The accept loop has not seen a cancellation yet: a connection that arrives
\* after it may still be taken.
Accept(r) ==
  /\ phase = "serving"
  /\ request[r] = "idle"
  /\ request' = [request EXCEPT ![r] = "inflight"]
  /\ UNCHANGED <<phase, serveFn, bridge, token, task, served, joinVars, result>>

Finish(r) ==
  /\ request[r] = "inflight"
  /\ request' = [request EXCEPT ![r] = "done"]
  /\ UNCHANGED <<phase, serveFn, bridge, token, task, served, joinVars, result>>

\* The first ctrl-c cancels the token. The bridge waits for one only.
CtrlC ==
  /\ bridge = "armed"
  /\ bridge' = "fired"
  /\ token' = TRUE
  /\ UNCHANGED <<phase, serveFn, request, task, served, joinVars, result>>

\* Whoever holds a clone of the context's token may cancel it too, even
\* before run is called.
CancelShutdown ==
  /\ phase # "returned"
  /\ token' = TRUE
  /\ UNCHANGED <<phase, serveVars, task, served, joinVars, result>>

StopAccepting ==
  /\ phase = "serving"
  /\ token
  /\ phase' = "draining"
  /\ UNCHANGED <<serveVars, token, task, served, joinVars, result>>

\* Mutant: the connections are dropped at the signal.
NothingToDrain == TRUE
Drained == \A r \in Requests : request[r] # "inflight"

\* serve returns once the last request in flight is answered, however long
\* that takes.
EndServing ==
  /\ phase = "draining"
  /\ Drained
  /\ phase' = "ended"
  /\ served' = "ok"
  /\ UNCHANGED <<serveVars, token, task, joinVars, result>>

-----------------------------------------------------------------------------
(* Background tasks: each may return or panic whenever it likes, and may   *)
(* ignore the token.                                                       *)

TaskReturns(t) ==
  /\ task[t] = "running"
  /\ task' = [task EXCEPT ![t] = "returned"]
  /\ UNCHANGED <<phase, serveVars, token, served, joinVars, result>>

TaskPanics(t) ==
  /\ task[t] = "running"
  /\ task' = [task EXCEPT ![t] = "panicked"]
  /\ UNCHANGED <<phase, serveVars, token, served, joinVars, result>>

-----------------------------------------------------------------------------
(* run, after the serve function, and join_tasks                           *)

\* Mutant: the grace period is subtracted.
TakeDeadlineBackwards == waited - Grace
TakeDeadline == waited + Grace

\* Whatever serve returned, the token is cancelled; one deadline for all.
BeginJoin ==
  /\ phase = "ended"
  /\ token' = TRUE
  /\ deadline' = TakeDeadline
  /\ phase' = "joining"
  /\ UNCHANGED <<serveVars, task, served, next, waited, failed, abandoned, result>>

\* Mutants: the timer fires a tick early; no timeout at all; a task's panic is
\* swallowed.
ElapsedEarly == waited >= deadline - 1
NeverElapses == FALSE
Elapsed == waited >= deadline
PanicSwallowed(t) == FALSE
Panicked(t) == task[t] = "panicked"

Awaiting(t) == phase = "joining" /\ next = t

\* Mutant: each handle gets a timeout of its own.
AwaitNextAfresh == next' = next + 1 /\ deadline' = waited + Grace
AwaitNext == next' = next + 1 /\ UNCHANGED deadline

\* The handle is polled before the timer: a finished task yields its result
\* even past the deadline.
JoinFinished(t) ==
  /\ Awaiting(t)
  /\ task[t] \in {"returned", "panicked"}
  /\ failed' = failed \union {u \in {t} : Panicked(u)}
  /\ AwaitNext
  /\ UNCHANGED <<phase, serveVars, token, task, served, waited, abandoned, result>>

JoinTimesOut(t) ==
  /\ Awaiting(t)
  /\ task[t] = "running"
  /\ Elapsed
  /\ abandoned' = abandoned \union {t}
  /\ AwaitNext
  /\ UNCHANGED <<phase, serveVars, token, task, served, waited, failed, result>>

Tick(t) ==
  /\ Awaiting(t)
  /\ task[t] = "running"
  /\ waited < deadline
  /\ waited' = waited + 1
  /\ UNCHANGED <<phase, serveVars, token, task, served, next, deadline, failed, abandoned, result>>

Return ==
  /\ phase = "joining"
  /\ next > N
  /\ phase' = "returned"
  /\ result' = served
  /\ UNCHANGED <<serveVars, token, task, served, joinVars>>

\* Not a step of the program: run has returned and everything has stopped.
Stopped ==
  /\ phase = "returned"
  /\ UNCHANGED vars

-----------------------------------------------------------------------------
Next ==
  \/ RefuseToRun \/ StartRun
  \/ BindFails \/ Bind \/ CtrlC \/ CancelShutdown \/ StopAccepting \/ EndServing
  \/ \E r \in Requests : Accept(r) \/ Finish(r)
  \/ \E t \in Tasks : TaskReturns(t) \/ TaskPanics(t)
  \/ BeginJoin
  \/ \E t \in Tasks : JoinFinished(t) \/ JoinTimesOut(t) \/ Tick(t)
  \/ Return
  \/ Stopped

Spec == Init /\ [][Next]_vars

\* The runtime keeps polling run, and a handler it polls comes to an end. No
\* fairness for the tasks: run must return whatever they do.
Fairness ==
  /\ WF_vars(RefuseToRun \/ StartRun)
  /\ WF_vars(Bind \/ BindFails)
  /\ WF_vars(StopAccepting)
  /\ WF_vars(EndServing)
  /\ \A r \in Requests : WF_vars(Finish(r))
  /\ WF_vars(BeginJoin)
  /\ WF_vars(\E t \in Tasks : JoinFinished(t) \/ JoinTimesOut(t) \/ Tick(t))
  /\ WF_vars(Return)

FairSpec == Spec /\ Fairness

-----------------------------------------------------------------------------
(* Properties                                                              *)

TypeOK ==
  /\ phase \in Phases
  /\ serveFn \in BOOLEAN
  /\ token \in BOOLEAN
  /\ bridge \in {"absent", "armed", "fired"}
  /\ request \in [Requests -> {"idle", "inflight", "done"}]
  /\ task \in [Tasks -> {"scheduled", "running", "returned", "panicked"}]
  /\ served \in {"none", "ok", "err"}
  /\ next \in 1..(N + 1)
  /\ waited \in Nat
  /\ deadline \in Nat
  /\ failed \subseteq Tasks
  /\ abandoned \subseteq Tasks
  /\ result \in {"none", "ok", "err", "no_serve"}

\* run never leaves a task behind untold: when it returns, with a value or
\* with an error, either no task was ever spawned or the token is cancelled
\* and every task was waited for (app.rs:114-136: the serve function is taken
\* before anything is spawned, and serve's error is returned only at the end).
NoTaskLeftBehind ==
  phase = "returned" =>
    \A t \in Tasks : task[t] = "scheduled" \/ (token /\ t < next)

\* What TaskOutcomes says of a task whose turn has passed is true: a failed
\* task panicked, one not listed returned, and an abandoned one is listed only
\* when the whole grace period had gone by (app.rs:159-170).
OutcomesTruthful ==
  /\ failed \intersect abandoned = {}
  /\ \A t \in Tasks : t < next =>
        /\ t \in failed => task[t] = "panicked"
        /\ t \notin failed \union abandoned => task[t] = "returned"
        /\ t \in abandoned => waited = Grace
  /\ \A t \in Tasks : t >= next => t \notin failed \union abandoned

\* Waiting for the tasks in turn takes at most one grace period in all, not
\* one per task (app.rs:153-154).
WaitBounded == waited <= Grace

\* Shutdown is graceful: when the serve function has returned, and so before
\* run waits for the tasks, no accepted request is unanswered, whoever
\* cancelled the token and whenever (muxa-web lib.rs:315-338).
RequestsDrained ==
  phase \in {"ended", "joining", "returned"} =>
    \A r \in Requests : request[r] # "inflight"

\* A cancelled token ends the program, whatever the background tasks do
\* (app.rs:106-112: "run waits up to ten seconds").
ShutdownCompletes == token ~> phase = "returned"

\* The wait implements the unordered TaskJoin.
Verdict(t) ==
  IF t \in failed THEN "failed"
  ELSE IF t \in abandoned THEN "abandoned"
  ELSE IF t < next THEN "fine" ELSE "none"

Join == INSTANCE TaskJoin WITH
  Tasks <- Tasks,
  task <- task,
  announced <- phase \in {"joining", "returned"} /\ result # "no_serve",
  graceOver <- deadline > 0 /\ waited >= deadline,
  verdict <- [t \in Tasks |-> Verdict(t)]

\* join_tasks, in registration order and under one deadline, gives each task
\* the verdict the unordered specification allows (app.rs:152-177).
JoinsEveryTask == Join!Spec
=============================================================================
