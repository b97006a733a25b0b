---------------------------- MODULE AppRunProofs ----------------------------
(***************************************************************************)
(* Proofs about AppRun, for any number of tasks and requests and any       *)
(* grace period: the type invariant, the safety invariants the run checks, *)
(* and the refinement of TaskJoin; and that OtelShutdown implements AppRun *)
(* and flushes what reached it in time.                                    *)
(***************************************************************************)
EXTENDS OtelShutdown, TLAPS

\* Nothing has been waited for yet.
Untouched ==
  next = 1 /\ waited = 0 /\ deadline = 0 /\ failed = {} /\ abandoned = {}

\* What each phase of run says of the rest of the state.
PhaseInv ==
  /\ phase # "returned" => result = "none"
  /\ phase = "returned" => result # "none"
  /\ phase \notin {"joining", "returned"} => Untouched
  /\ phase \in {"ended", "joining"} => served # "none"
  /\ phase = "built" => \A t \in Tasks : task[t] = "scheduled"
  /\ phase \notin {"built", "returned"} => \A t \in Tasks : task[t] # "scheduled"
  /\ phase \in {"built", "binding"} => \A r \in Requests : request[r] = "idle"
  /\ result = "no_serve" =>
        Untouched /\ \A t \in Tasks : task[t] = "scheduled"
  /\ phase \in {"joining", "returned"} /\ result # "no_serve" =>
        token /\ deadline = Grace
  /\ phase = "returned" /\ result # "no_serve" => next = N + 1

\* The inductive invariant. A verdict can only be truthful, and the wait only
\* bounded, because nothing is judged before the deadline is taken and the
\* deadline is taken once: PhaseInv carries that through every phase.
IInv == TypeOK /\ PhaseInv /\ RequestsDrained /\ WaitBounded /\ OutcomesTruthful

-----------------------------------------------------------------------------
LEMMA InitIInv == Init => IInv
<1> SUFFICES ASSUME Init PROVE IInv
  OBVIOUS
<1>1. TypeOK
  <2>1. next \in 1..(N + 1) /\ waited \in Nat /\ deadline \in Nat
    BY AppRunAssumption DEF Init
  <2>2. /\ request \in [Requests -> {"idle", "inflight", "done"}]
        /\ task \in [Tasks -> {"scheduled", "running", "returned", "panicked"}]
    BY DEF Init
  <2>3. QED
    BY <2>1, <2>2 DEF Init, TypeOK, Phases
<1>2. PhaseInv
  BY DEF Init, PhaseInv, Untouched
<1>3. RequestsDrained /\ WaitBounded /\ OutcomesTruthful
  BY AppRunAssumption DEF Init, RequestsDrained, WaitBounded, OutcomesTruthful, Tasks
<1>4. QED
  BY <1>1, <1>2, <1>3 DEF IInv

\* Steps before the wait: they leave the outcomes alone.
Serving ==
  \/ RefuseToRun \/ StartRun \/ BindFails \/ Bind \/ CtrlC \/ CancelShutdown
  \/ StopAccepting \/ EndServing
  \/ \E r \in Requests : Accept(r) \/ Finish(r)

LEMMA ServingKeepsIInv == IInv /\ Serving => IInv'
<1> SUFFICES ASSUME IInv, Serving PROVE IInv'
  OBVIOUS
<1> USE AppRunAssumption
      DEF IInv, TypeOK, PhaseInv, Untouched, RequestsDrained, WaitBounded,
          OutcomesTruthful, Phases, Tasks, serveVars, joinVars
<1>1. CASE RefuseToRun
  BY <1>1 DEF RefuseToRun
<1>2. CASE StartRun
  BY <1>2 DEF StartRun
<1>3. CASE BindFails
  BY <1>3 DEF BindFails
<1>4. CASE Bind
  BY <1>4 DEF Bind
<1>5. CASE CtrlC
  BY <1>5 DEF CtrlC
<1>6. CASE CancelShutdown
  BY <1>6 DEF CancelShutdown
<1>7. CASE StopAccepting
  BY <1>7 DEF StopAccepting
<1>8. CASE EndServing
  BY <1>8 DEF EndServing, Drained
<1>9. ASSUME NEW r \in Requests, Accept(r) PROVE IInv'
  BY <1>9 DEF Accept
<1>10. ASSUME NEW r \in Requests, Finish(r) PROVE IInv'
  BY <1>10 DEF Finish
<1>11. QED
  BY <1>1, <1>2, <1>3, <1>4, <1>5, <1>6, <1>7, <1>8, <1>9, <1>10 DEF Serving

LEMMA BeginJoinKeepsIInv == IInv /\ BeginJoin => IInv'
  BY AppRunAssumption
  DEF IInv, TypeOK, PhaseInv, Untouched, RequestsDrained, WaitBounded,
      OutcomesTruthful, Phases, Tasks, serveVars, BeginJoin, TakeDeadline

LEMMA TaskStepKeepsIInv ==
  ASSUME IInv, NEW t \in Tasks, TaskReturns(t) \/ TaskPanics(t)
  PROVE  IInv'
<1>. USE AppRunAssumption
     DEF IInv, TypeOK, PhaseInv, Untouched, RequestsDrained, WaitBounded,
         OutcomesTruthful, Phases, Tasks, serveVars, joinVars
<1>1. CASE TaskReturns(t)
  BY <1>1 DEF TaskReturns
<1>2. CASE TaskPanics(t)
  BY <1>2 DEF TaskPanics
<1>. QED BY <1>1, <1>2

LEMMA JoinStepKeepsIInv ==
  ASSUME IInv, NEW t \in Tasks, JoinFinished(t) \/ JoinTimesOut(t) \/ Tick(t)
  PROVE  IInv'
<1> USE AppRunAssumption
      DEF IInv, TypeOK, PhaseInv, Untouched, RequestsDrained, WaitBounded,
          OutcomesTruthful, Phases, Tasks, serveVars, Awaiting, AwaitNext
<1>1. CASE JoinFinished(t)
  <2>1. failed' \subseteq failed \union {t} /\ abandoned' = abandoned
    BY <1>1 DEF JoinFinished
  <2>2. t \in failed' <=> task[t] = "panicked"
    BY <1>1 DEF JoinFinished, Panicked
  <2>3. \A u \in Tasks : u # t => (u \in failed' <=> u \in failed)
    BY <1>1 DEF JoinFinished
  <2>4. t \notin abandoned
    BY <1>1 DEF JoinFinished
  <2>5. failed' \subseteq Tasks
    <3>1. failed \subseteq Tasks
      OBVIOUS
    <3>2. QED
      BY <2>1, <3>1, Zenon
  <2>6. OutcomesTruthful'
    BY <1>1, <2>1, <2>2, <2>3, <2>4, <2>5 DEF JoinFinished
  <2>7. QED
    BY <1>1, <2>5, <2>6 DEF JoinFinished
<1>2. CASE JoinTimesOut(t)
  BY <1>2 DEF JoinTimesOut, Elapsed
<1>3. CASE Tick(t)
  BY <1>3 DEF Tick
<1>4. QED
  BY <1>1, <1>2, <1>3

LEMMA ReturnKeepsIInv == IInv /\ Return => IInv'
  BY AppRunAssumption
  DEF IInv, TypeOK, PhaseInv, Untouched, RequestsDrained, WaitBounded,
      OutcomesTruthful, Phases, Tasks, serveVars, joinVars, Return

LEMMA StutterKeepsIInv == IInv /\ UNCHANGED vars => IInv'
  BY DEF IInv, TypeOK, PhaseInv, Untouched, RequestsDrained, WaitBounded,
         OutcomesTruthful, vars, serveVars, joinVars

LEMMA NextKeepsIInv == IInv /\ [Next]_vars => IInv'
  BY ServingKeepsIInv, BeginJoinKeepsIInv, TaskStepKeepsIInv, JoinStepKeepsIInv,
     ReturnKeepsIInv, StutterKeepsIInv
  DEF Next, Serving, Stopped

\* Every state run can reach satisfies the inductive invariant.
THEOREM Invariance == Spec => []IInv
  BY InitIInv, NextKeepsIInv, PTL DEF Spec

\* Type correctness of the lifecycle (app.rs, ctx.rs, muxa-web lib.rs).
THEOREM TypeCorrect == Spec => []TypeOK
<1>1. IInv => TypeOK
  BY DEF IInv
<1>2. QED
  BY Invariance, <1>1, PTL

\* run never returns with a task it has neither told nor waited for.
THEOREM NoTaskLeftBehindHolds == Spec => []NoTaskLeftBehind
<1>1. IInv => NoTaskLeftBehind
  BY AppRunAssumption DEF IInv, TypeOK, PhaseInv, NoTaskLeftBehind, Tasks
<1>2. QED
  BY Invariance, <1>1, PTL

\* The outcomes join_tasks reports are the truth about each task, and an
\* abandoned task had the whole grace period.
THEOREM OutcomesTruthfulHolds == Spec => []OutcomesTruthful
<1>1. IInv => OutcomesTruthful
  BY DEF IInv
<1>2. QED
  BY Invariance, <1>1, PTL

\* However many tasks there are, waiting for them takes one grace period.
THEOREM WaitBoundedHolds == Spec => []WaitBounded
<1>1. IInv => WaitBounded
  BY DEF IInv
<1>2. QED
  BY Invariance, <1>1, PTL

\* Serving never ends with an accepted request unanswered.
THEOREM RequestsDrainedHolds == Spec => []RequestsDrained
<1>1. IInv => RequestsDrained
  BY DEF IInv
<1>2. QED
  BY Invariance, <1>1, PTL

-----------------------------------------------------------------------------
(* The refinement of TaskJoin. graceOver and the verdicts only move while  *)
(* run waits; every other step is a task's own or a stutter.               *)

LEMMA InitJoin == Init => Join!Init
  BY AppRunAssumption DEF Init, Join!Init, Verdict, Tasks

\* A step that changes nothing TaskJoin sees.
Unseen ==
  /\ UNCHANGED <<task, next, waited, deadline, failed, abandoned>>
  /\ (phase' \in {"joining", "returned"} /\ result' # "no_serve")
       = (phase \in {"joining", "returned"} /\ result # "no_serve")

LEMMA UnseenStutters == Unseen => UNCHANGED Join!vars
  BY DEF Unseen, Join!vars, Verdict

LEMMA ServingImplementsJoin == IInv /\ Serving => [Join!Next]_(Join!vars)
<1> SUFFICES ASSUME IInv, Serving PROVE Join!Spawn \/ Unseen
  BY UnseenStutters DEF Join!Next
<1> USE DEF Unseen, serveVars, joinVars, IInv, PhaseInv
<1>1. CASE StartRun
  BY <1>1 DEF StartRun, Join!Spawn, Verdict
<1>2. CASE RefuseToRun \/ BindFails \/ Bind \/ CtrlC \/ CancelShutdown
  BY <1>2 DEF RefuseToRun, BindFails, Bind, CtrlC, CancelShutdown
<1>3. CASE StopAccepting \/ EndServing
  BY <1>3 DEF StopAccepting, EndServing
<1>4. ASSUME NEW r \in Requests, Accept(r) \/ Finish(r) PROVE Unseen
  BY <1>4 DEF Accept, Finish
<1>5. QED
  BY <1>1, <1>2, <1>3, <1>4 DEF Serving

LEMMA BeginJoinImplementsJoin == IInv /\ BeginJoin => Join!Announce
<1> SUFFICES ASSUME IInv, BeginJoin PROVE Join!Announce
  OBVIOUS
<1>1. UNCHANGED <<task, next, waited, failed, abandoned, result>>
  BY DEF BeginJoin
<1>2. phase' = "joining" /\ result = "none" /\ deadline' = Grace /\ waited = 0
      /\ deadline = 0
  BY AppRunAssumption
  DEF BeginJoin, IInv, PhaseInv, Untouched, TakeDeadline
<1>3. ~(deadline' > 0 /\ waited' >= deadline') /\ ~(deadline > 0 /\ waited >= deadline)
  BY AppRunAssumption, <1>1, <1>2
<1>4. QED
  BY <1>1, <1>2, <1>3 DEF Join!Announce, Verdict

LEMMA TaskStepImplementsJoin ==
  ASSUME IInv, NEW t \in Tasks, TaskReturns(t) \/ TaskPanics(t)
  PROVE  Join!Finish(t)
  BY DEF TaskReturns, TaskPanics, Join!Finish, Verdict, serveVars, joinVars

LEMMA JoinStepImplementsJoin ==
  ASSUME IInv, NEW t \in Tasks, JoinFinished(t) \/ JoinTimesOut(t) \/ Tick(t)
  PROVE  Join!Judge(t) \/ Join!GraceRunsOut \/ UNCHANGED Join!vars
<1> DEFINE Announced == phase \in {"joining", "returned"} /\ result # "no_serve"
           Over == deadline > 0 /\ waited >= deadline
<1>1. phase = "joining" /\ next = t /\ result = "none" /\ deadline = Grace
      /\ next \in Int /\ waited \in Nat
  BY AppRunAssumption
  DEF IInv, TypeOK, PhaseInv, JoinFinished, JoinTimesOut, Tick, Awaiting, Tasks
<1>2. t \notin failed /\ t \notin abandoned
  BY <1>1 DEF IInv, OutcomesTruthful
<1>3. Verdict(t) = "none"
  BY <1>1, <1>2 DEF Verdict
<1>4. ASSUME JoinFinished(t) \/ JoinTimesOut(t)
      PROVE  \A u \in Tasks : u # t => Verdict(u)' = Verdict(u)
  <2> SUFFICES ASSUME NEW u \in Tasks, u # t PROVE Verdict(u)' = Verdict(u)
    OBVIOUS
  <2>1. (u < next') = (u < next)
    BY <1>1, <1>4, AppRunAssumption DEF JoinFinished, JoinTimesOut, AwaitNext, Tasks
  <2>2. (u \in failed') = (u \in failed)
    BY <1>4 DEF JoinFinished, JoinTimesOut
  <2>3. (u \in abandoned') = (u \in abandoned)
    BY <1>4 DEF JoinFinished, JoinTimesOut
  <2>4. QED
    BY <2>1, <2>2, <2>3, Zenon DEF Verdict
<1>5. CASE JoinFinished(t)
  <2>1. t < next'
    BY <1>1, <1>5 DEF JoinFinished, AwaitNext
  <2>2. Verdict(t)' = IF task[t] = "panicked" THEN "failed" ELSE "fine"
    BY <2>1, <1>2, <1>5 DEF JoinFinished, Panicked, Verdict
  <2>3. [u \in Tasks |-> Verdict(u)'] =
          [[u \in Tasks |-> Verdict(u)] EXCEPT ![t] = Verdict(t)']
    BY <1>4, <1>5
  <2>4. QED
    BY <1>1, <1>3, <1>5, <2>2, <2>3 DEF JoinFinished, AwaitNext, Join!Judge
<1>6. CASE JoinTimesOut(t)
  <2>1. Verdict(t)' = "abandoned"
    BY <1>2, <1>6 DEF JoinTimesOut, Verdict
  <2>2. [u \in Tasks |-> Verdict(u)'] =
          [[u \in Tasks |-> Verdict(u)] EXCEPT ![t] = "abandoned"]
    BY <1>4, <1>6, <2>1
  <2>3. Over
    BY <1>1, <1>6, AppRunAssumption DEF JoinTimesOut, Elapsed
  <2>4. QED
    BY <1>1, <1>3, <1>6, <2>2, <2>3
    DEF JoinTimesOut, AwaitNext, Join!Judge
<1>7. CASE Tick(t)
  <2>1. UNCHANGED <<phase, task, next, deadline, failed, abandoned, result>>
    BY <1>7 DEF Tick
  <2>2. [u \in Tasks |-> Verdict(u)'] = [u \in Tasks |-> Verdict(u)]
    BY <2>1 DEF Verdict
  <2>3. CASE Over'
    BY <1>1, <2>1, <2>2, <2>3 DEF Join!GraceRunsOut
  <2>4. CASE ~Over'
    <3>1. ~Over
      BY <1>1, <1>7, AppRunAssumption DEF Tick
    <3>2. QED
      BY <2>1, <2>2, <2>4, <3>1 DEF Join!vars
  <2>5. QED
    BY <2>3, <2>4
<1>8. QED
  BY <1>5, <1>6, <1>7

LEMMA NextImplementsJoin == IInv /\ [Next]_vars => [Join!Next]_(Join!vars)
<1> SUFFICES ASSUME IInv, [Next]_vars PROVE [Join!Next]_(Join!vars)
  OBVIOUS
<1>1. CASE Serving
  BY <1>1, ServingImplementsJoin
<1>2. CASE BeginJoin
  BY <1>2, BeginJoinImplementsJoin DEF Join!Next
<1>3. ASSUME NEW t \in Tasks, TaskReturns(t) \/ TaskPanics(t)
      PROVE  Join!Next
  BY <1>3, TaskStepImplementsJoin DEF Join!Next
<1>4. ASSUME NEW t \in Tasks, JoinFinished(t) \/ JoinTimesOut(t) \/ Tick(t)
      PROVE  [Join!Next]_(Join!vars)
  BY <1>4, JoinStepImplementsJoin DEF Join!Next
<1>5. CASE Return
  <2>1. Unseen
    BY <1>5 DEF Return, Unseen, serveVars, joinVars, IInv, TypeOK, PhaseInv
  <2>2. QED
    BY <2>1, UnseenStutters
<1>6. CASE UNCHANGED vars
  <2>1. Unseen
    BY <1>6 DEF vars, Unseen, serveVars, joinVars
  <2>2. QED
    BY <2>1, UnseenStutters
<1>7. QED
  BY <1>1, <1>2, <1>3, <1>4, <1>5, <1>6 DEF Next, Serving, Stopped

\* join_tasks implements the unordered TaskJoin: whatever the order of
\* registration and however late a task's turn comes, its verdict is one that
\* judging the tasks independently would give.
THEOREM JoinsEveryTaskHolds == Spec => JoinsEveryTask
  BY Invariance, InitJoin, NextImplementsJoin, PTL
  DEF Spec, JoinsEveryTask, Join!Spec

-----------------------------------------------------------------------------
(* The flush of muxa-otel                                                  *)

\* Each step of OtelShutdown is a step of the lifecycle, or leaves it alone.
LEMMA OtelStep == [OtelNext]_<<vars, otelVars>> => [Next]_vars
<1> SUFFICES ASSUME [OtelNext]_<<vars, otelVars>> PROVE [Next]_vars
  OBVIOUS
<1>1. ASSUME NEW r \in Requests, OtelFinish(r) PROVE Next
  BY <1>1 DEF OtelFinish, Next
<1>2. CASE ExportBatch \/ BeginFlush \/ EndFlush
  BY <1>2 DEF ExportBatch, BeginFlush, EndFlush
<1>3. CASE OtelReturns
  BY <1>3, OtelAssumption DEF OtelReturns, Next
<1>4. CASE Elsewhere
  BY <1>4 DEF Elsewhere, Next
<1>5. QED
  BY <1>1, <1>2, <1>3, <1>4 DEF OtelNext

\* The application with the flush task is an application: whatever holds of the
\* lifecycle holds with muxa-otel in it.
THEOREM OtelImplementsLifecycle == OtelSpec => Spec
<1>1. OtelInit => Init
  BY DEF OtelInit
<1>2. QED
  BY <1>1, OtelStep, PTL DEF OtelSpec, Spec

\* The flush ends only when the providers are closed, and closed providers have
\* nothing left in a batch.
FlushInv ==
  /\ providers \in {"open", "closing", "closed"}
  /\ span = [r \in Requests |-> span[r]]
  /\ task[OtelTask] # "panicked"
  /\ task[OtelTask] = "returned" => providers = "closed"
  /\ providers = "closed" => \A r \in Requests : span[r] # "buffered"

LEMMA InitFlushInv == OtelInit => FlushInv
  BY OtelAssumption DEF OtelInit, Init, FlushInv

LEMMA FlushInvStep == IInv /\ FlushInv /\ [OtelNext]_<<vars, otelVars>> => FlushInv'
<1> SUFFICES ASSUME IInv, FlushInv, [OtelNext]_<<vars, otelVars>> PROVE FlushInv'
  OBVIOUS
<1> USE OtelAssumption DEF FlushInv
<1>1. ASSUME NEW r \in Requests, OtelFinish(r) PROVE FlushInv'
  BY <1>1 DEF OtelFinish, Finish, EndSpan
<1>2. CASE ExportBatch
  BY <1>2 DEF ExportBatch, Export, vars
<1>3. CASE BeginFlush
  BY <1>3 DEF BeginFlush, vars
<1>4. CASE EndFlush
  BY <1>4 DEF EndFlush, Export, vars
<1>5. CASE OtelReturns
  <2>1. task' = [task EXCEPT ![OtelTask] = "returned"] /\ OtelTask \in DOMAIN task
    BY <1>5 DEF OtelReturns, TaskReturns, IInv, TypeOK
  <2>2. task'[OtelTask] = "returned" /\ providers = "closed" /\ UNCHANGED otelVars
    BY <1>5, <2>1 DEF OtelReturns, FlushAwaited
  <2>3. QED
    BY <2>2 DEF otelVars
<1>6. CASE Elsewhere
  <2>1. UNCHANGED otelVars
    BY <1>6 DEF Elsewhere
  <2>2. CASE UNCHANGED task
    BY <2>1, <2>2 DEF otelVars
  <2>3. CASE StartRun
    BY <2>1, <2>3 DEF StartRun, otelVars
  <2>4. ASSUME NEW t \in Tasks \ {OtelTask}, TaskReturns(t) \/ TaskPanics(t)
        PROVE  FlushInv'
    <3>1. task'[OtelTask] = task[OtelTask]
      BY <2>4 DEF TaskReturns, TaskPanics, IInv, TypeOK
    <3>2. QED
      BY <2>1, <3>1 DEF otelVars
  <2>5. QED
    BY <1>6, <2>2, <2>3, <2>4
    DEF Elsewhere, RefuseToRun, BindFails, Bind, CtrlC, CancelShutdown, StopAccepting,
        EndServing, Accept, BeginJoin, JoinFinished, JoinTimesOut, Tick, Return, Stopped, vars
<1>7. CASE UNCHANGED <<vars, otelVars>>
  BY <1>7 DEF vars, otelVars
<1>8. QED
  BY <1>1, <1>2, <1>3, <1>4, <1>5, <1>6, <1>7 DEF OtelNext

\* When run returns and the flush was not abandoned, no span is left in a batch,
\* for any number of tasks and requests and any place of the flush among them.
THEOREM BatchTailFlushedHolds == OtelSpec => []BatchTailFlushed
<1>1. IInv /\ FlushInv => BatchTailFlushed
  <2>1. SUFFICES ASSUME IInv, FlushInv, phase = "returned", result # "no_serve",
                        OtelTask \notin abandoned
                 PROVE  \A r \in Requests : span[r] # "buffered"
    BY DEF BatchTailFlushed
  <2>2. OtelTask < next /\ OtelTask \in Tasks
    BY <2>1, AppRunAssumption, OtelAssumption DEF IInv, PhaseInv, Tasks
  <2>3. task[OtelTask] = "returned"
    BY <2>1, <2>2 DEF IInv, OutcomesTruthful, FlushInv
  <2>4. QED
    BY <2>1, <2>3 DEF FlushInv
<1>2. OtelSpec => []IInv
  BY OtelImplementsLifecycle, Invariance, PTL
<1>3. OtelSpec => []FlushInv
  BY InitFlushInv, FlushInvStep, <1>2, PTL DEF OtelSpec
<1>4. QED
  BY <1>1, <1>2, <1>3, PTL
=============================================================================
