--------------------------- MODULE TelemetrySlot ---------------------------
(***************************************************************************)
(* The plugin-layer slot of muxa-telemetry: one per process, shared by the *)
(* builds of all its apps, which push layers and hide targets from them    *)
(* while other threads emit events.                                        *)
(*                                                                         *)
(* An event reaches the layers without a look at the filter if its         *)
(* callsite has cached that they want it. A callsite is asked about by the *)
(* thread of its first event, and by every rebuild of the caches; each of  *)
(* them asks the filter first and stores the answer later, and nothing     *)
(* keeps two of them apart. A target has one callsite here.                *)
(***************************************************************************)
EXTENDS Sequences, Naturals

CONSTANTS
  Builders,   \* the threads that build an app
  Kinds,      \* the types of layers
  Targets,    \* the crates that emit events
  Path,       \* Path[k]: the crates on the export path of a layer of kind k
  NoKind,     \* in a call that adds no layer
  Free        \* the holder of a lock that nobody holds

ASSUME TelemetryAssumption ==
  /\ Path \in [Kinds -> SUBSET Targets] /\ NoKind \notin Kinds
  /\ Free \notin Builders /\ Builders \intersect Targets = {}

VARIABLES
  slot,       \* SLOT: "undecided", "ours" or, if the app has a subscriber, "detached"
  layers,     \* the stack, each layer with the builder that pushed it
  kinds,      \* Slot.kinds
  lock,       \* who holds kinds' mutex
  excluded,   \* Slot.excluded
  writing,    \* who holds its write guard
  callsites,  \* the targets whose callsites are in tracing's list of them
  cached,     \* those whose callsites have cached that the layers want them
  left,       \* left[w]: the callsites that w has still to ask about
  answers,    \* what the filter has answered and is not stored yet
  doing,      \* doing[b]: the call b is in
  hid,        \* hid[b]: the targets of the exclude_targets that have returned to b
  overtaken   \* the targets that were excluded while a yes to them was on its way,
              \* until a no has been stored after it

slotVars == <<slot, layers, kinds, lock, excluded, writing>>
cacheVars == <<callsites, cached, left, answers>>
telemetryVars == <<slotVars, cacheVars, doing, hid, overtaken>>

\* Who asks: a builder whose call rebuilds the caches, and, of the threads that
\* emit, the first to reach the callsite of a target, called by that target.
Askers == Builders \union Targets

Idle == [at |-> "idle", targets |-> {}, kind |-> NoKind]

TelemetryInit ==
  /\ slot = "undecided"
  /\ layers = <<>>
  /\ kinds = <<>>
  /\ lock = Free
  /\ excluded = {}
  /\ writing = Free
  /\ callsites = {}
  /\ cached = {}
  /\ left = [w \in Askers |-> {}]
  /\ answers = {}
  /\ doing = [b \in Builders |-> Idle]
  /\ hid = [b \in Builders |-> {}]
  /\ overtaken = {}

-----------------------------------------------------------------------------
\* install: the first call decides, and try_init fails if the app was faster.
Install ==
  /\ slot' \in IF slot = "undecided" THEN {"ours", "detached"} ELSE {slot}
  /\ UNCHANGED <<layers, kinds, lock, excluded, writing, cacheVars, doing, hid, overtaken>>

Goes(b, at) == doing' = [doing EXCEPT ![b].at = at]
Returns(b) == doing' = [doing EXCEPT ![b] = Idle]

-----------------------------------------------------------------------------
(* The caches of the callsites, which are tracing's.                       *)

\* The first event of a target: its callsite goes into the list.
Register(target) ==
  /\ slot = "ours"
  /\ target \notin callsites
  /\ callsites' = callsites \union {target}
  /\ left' = [left EXCEPT ![target] = {target}]
  /\ UNCHANGED <<slotVars, cached, answers, doing, hid, overtaken>>

\* rebuild_interest_cache takes the list as it stands. (A callsite that comes into it
\* between the change of the filter and this may as well be there before the change:
\* the two are one step.) Mutant: the caches are not rebuilt.
NotAsked(b) == left' = left
AsksAll(b) == left' = [left EXCEPT ![b] = callsites]
HasAsked(b) == left[b] = {} /\ \A x \in answers : x.by # b

\* plugin_filter, which takes the read lock.
Ask(w, target) ==
  /\ target \in left[w]
  /\ \A x \in answers : x.by # w
  /\ writing = Free
  /\ left' = [left EXCEPT ![w] = @ \ {target}]
  /\ answers' = answers \union {[by |-> w, target |-> target, yes |-> target \notin excluded]}
  /\ UNCHANGED <<slotVars, callsites, cached, doing, hid, overtaken>>

\* The targets among these that somebody is about to store a yes for.
OnTheWay(targets) == {x.target : x \in {y \in answers : y.yes}} \intersect targets

Store(answer) ==
  /\ cached' = IF answer.yes THEN cached \union {answer.target} ELSE cached \ {answer.target}
  /\ answers' = answers \ {answer}
  /\ overtaken' = IF answer.yes THEN overtaken
                  ELSE overtaken \ ({answer.target} \ OnTheWay({answer.target}))
  /\ UNCHANGED <<slotVars, callsites, left, doing, hid>>

-----------------------------------------------------------------------------
(* exclude_targets                                                         *)

CallExclude(b, targets) ==
  /\ slot = "ours"
  /\ doing[b] = Idle
  /\ doing' = [doing EXCEPT ![b] = [Idle EXCEPT !.at = "write", !.targets = targets]]
  /\ UNCHANGED <<slotVars, cacheVars, hid, overtaken>>

Write(b) ==
  /\ doing[b].at = "write"
  /\ writing = Free
  /\ writing' = b
  /\ excluded' = excluded \union doing[b].targets
  /\ overtaken' = overtaken \union OnTheWay(doing[b].targets)
  /\ Goes(b, "drop")
  /\ UNCHANGED <<slot, layers, kinds, lock, cacheVars, hid>>

\* Mutant: the guard lives until the end of the function.
GuardKept == writing
GuardDropped == Free

DropGuard(b) ==
  /\ doing[b].at = "drop"
  /\ writing' = GuardDropped
  /\ AsksAll(b)
  /\ Goes(b, "rebuild")
  /\ UNCHANGED <<slot, layers, kinds, lock, excluded, callsites, cached, answers, hid, overtaken>>

Rebuilt(b) ==
  /\ doing[b].at = "rebuild"
  /\ HasAsked(b)
  /\ hid' = [hid EXCEPT ![b] = @ \union doing[b].targets]
  /\ Returns(b)
  /\ UNCHANGED <<slotVars, cacheVars, overtaken>>

-----------------------------------------------------------------------------
(* add_layer                                                               *)

CallAdd(b, kind) ==
  /\ slot = "ours"
  /\ doing[b] = Idle
  /\ doing' = [doing EXCEPT ![b] = [Idle EXCEPT !.at = "lock", !.kind = kind]]
  /\ UNCHANGED <<slotVars, cacheVars, hid, overtaken>>

\* Mutant: kinds is read before it is locked.
AnyTime == TRUE
Unlocked == lock = Free

Lock(b) ==
  /\ doing[b].at = "lock"
  /\ Unlocked
  /\ lock' = b
  /\ Goes(b, "modify")
  /\ UNCHANGED <<slot, layers, kinds, excluded, writing, cacheVars, hid, overtaken>>

Known(kind) == \E i \in 1..Len(kinds) : kinds[i] = kind

\* Mutant: the layer that is there stays.
Stays(new) ==
  IF Known(new.kind) THEN layers ELSE Append(layers, new)
Attached(new) ==
  IF Known(new.kind)
  THEN [i \in 1..Len(layers) |-> IF kinds[i] = new.kind THEN new ELSE layers[i]]
  ELSE Append(layers, new)

\* modify: the stack changes, then the caches are rebuilt.
Modify(b) ==
  /\ doing[b].at = "modify"
  /\ layers' = Attached([kind |-> doing[b].kind, owner |-> b])
  /\ AsksAll(b)
  /\ Goes(b, "push")
  /\ UNCHANGED <<slot, kinds, lock, excluded, writing, callsites, cached, answers, hid, overtaken>>

\* And the mutex is released.
Push(b) ==
  /\ doing[b].at = "push"
  /\ HasAsked(b)
  /\ kinds' = IF Known(doing[b].kind) THEN kinds ELSE Append(kinds, doing[b].kind)
  /\ lock' = Free
  /\ Returns(b)
  /\ UNCHANGED <<slot, layers, excluded, writing, cacheVars, hid, overtaken>>

-----------------------------------------------------------------------------
\* A thread on its way through the callsites.
Asking(w) ==
  \/ \E target \in left[w] : Ask(w, target)
  \/ \E answer \in answers : answer.by = w /\ Store(answer)

TelemetryStep(b) ==
  \/ Write(b) \/ DropGuard(b) \/ Rebuilt(b)
  \/ Lock(b) \/ Modify(b) \/ Push(b)
  \/ Asking(b)

Emit(target) == Register(target) \/ Asking(target)

\* What the slot relies on: a plugin hides the export path of a layer before it
\* adds the layer.
PathHidden(b, kind) == Path[kind] \subseteq hid[b]

TelemetryNext ==
  \/ Install
  \/ \E b \in Builders :
       \/ \E targets \in SUBSET Targets : CallExclude(b, targets)
       \/ \E kind \in Kinds : PathHidden(b, kind) /\ CallAdd(b, kind)
       \/ TelemetryStep(b)
  \/ \E target \in Targets : Emit(target)

TelemetrySpec == TelemetryInit /\ [][TelemetryNext]_telemetryVars

-----------------------------------------------------------------------------
(* Properties                                                              *)

Layer == [kind : Kinds, owner : Builders]

\* Every variable holds what the code may put there. A kind has one layer: "The
\* slot holds one layer per type" (lib.rs:29).
TelemetryTypeOK ==
  /\ slot \in {"undecided", "ours", "detached"}
  /\ layers \in Seq(Layer)
  /\ \A i, j \in 1..Len(layers) : layers[i].kind = layers[j].kind => i = j
  /\ kinds \in Seq(Kinds)
  /\ lock \in Builders \union {Free}
  /\ excluded \subseteq Targets
  /\ writing \in Builders \union {Free}
  /\ callsites \subseteq Targets
  /\ cached \subseteq callsites
  /\ left \in [Askers -> SUBSET callsites]
  /\ answers \subseteq [by : Askers, target : callsites, yes : BOOLEAN]
  /\ doing \in [Builders ->
                  [at : {"idle", "write", "drop", "rebuild", "lock", "modify", "push"},
                   targets : SUBSET Targets, kind : Kinds \union {NoKind}]]
  /\ hid \in [Builders -> SUBSET Targets]
  /\ overtaken \subseteq excluded

\* "The type of the layer at each index of the stack - kept in step with it, both
\* only ever changed under this lock" (lib.rs:69), whoever adds layers at once.
KindsInStep ==
  lock = Free => kinds = [i \in 1..Len(layers) |-> layers[i].kind]

\* Once exclude_targets has returned, no event of its targets reaches a layer, whatever
\* callsites had cached and other builds do meanwhile ("make them ask again",
\* lib.rs:230) - except those of a target that some thread had been told yes about,
\* and had not stored it, at the moment when the list of targets was changed, and
\* those no longer once the callsite has been asked again.
ExcludedStaysHidden ==
  \A b \in Builders : hid[b] \subseteq excluded /\ hid[b] \intersect cached \subseteq overtaken

\* "An exporter [is kept] out of its own way" (lib.rs:33): no layer is ever given
\* an event of a crate on its own export path, with the same exception.
NeverReexported ==
  \A i \in 1..Len(layers) :
    \A target \in Path[layers[i].kind] :
      target \in excluded /\ (target \in cached => target \in overtaken)

\* "Those targets are then hidden from every plugin layer" (lib.rs:38), without the
\* exception.
ThenHidden == \A b \in Builders : hid[b] \intersect cached = {}
=============================================================================
