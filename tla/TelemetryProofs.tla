-------------------------- MODULE TelemetryProofs --------------------------
(***************************************************************************)
(* Proofs about TelemetrySlot, for any number of builders, layers and      *)
(* targets: the stack and its list of types are kept in step, and what is  *)
(* hidden stays hidden, provided that builders keep to PathHidden.         *)
(***************************************************************************)
EXTENDS TelemetrySlot, TLAPS

Ats == {"idle", "write", "drop", "rebuild", "lock", "modify", "push"}
Call == [at : Ats, targets : SUBSET Targets, kind : Kinds \union {NoKind}]

Adding == {"lock", "modify", "push"}

Prefix == \A i \in 1..Len(kinds) : layers[i].kind = kinds[i]
Mirrors == Len(layers) = Len(kinds) /\ Prefix

\* Between the change of the stack and that of the list.
OneAhead(kind) ==
  /\ ~Known(kind)
  /\ Len(layers) = Len(kinds) + 1
  /\ Prefix
  /\ layers[Len(layers)].kind = kind

\* Only the holder of the lock is past it, and what it has left undone.
InStep ==
  /\ \A b \in Builders : doing[b].at \in {"modify", "push"} <=> lock = b
  /\ (\A b \in Builders : doing[b].at # "push") => Mirrors
  /\ \A b \in Builders : doing[b].at = "push" =>
       IF Known(doing[b].kind) THEN Mirrors ELSE OneAhead(doing[b].kind)

\* A callsite wants its events only because of a yes that came too late.
Quiet(target) == target \in cached => target \in overtaken

\* b has still to ask about the target, or to store what it was told, or has done so.
Visited(b, target) ==
  target \in left[b] \/ (\E x \in answers : x.by = b /\ x.target = target) \/ Quiet(target)

\* What a call has still to hide, or has hidden for its layer.
CallsInOrder ==
  \A b \in Builders :
    /\ doing[b].at \in {"drop", "rebuild"} => doing[b].targets \subseteq excluded
    /\ doing[b].at = "rebuild" => \A target \in doing[b].targets : Visited(b, target)
    /\ doing[b].at \in Adding => doing[b].kind \in Kinds /\ Path[doing[b].kind] \subseteq hid[b]

\* A yes about an excluded target was given before its exclusion.
AnswersDated ==
  \A x \in answers : x.yes /\ x.target \in excluded => x.target \in overtaken

IInv ==
  TelemetryTypeOK /\ InStep /\ CallsInOrder /\ AnswersDated /\ ExcludedStaysHidden /\ NeverReexported

-----------------------------------------------------------------------------
LEMMA TypeOKUnfolded ==
  TelemetryTypeOK <=>
    /\ slot \in {"undecided", "ours", "detached"}
    /\ layers \in Seq(Layer)
    /\ \A i, j \in 1..Len(layers) : layers[i].kind = layers[j].kind => i = j
    /\ kinds \in Seq(Kinds)
    /\ lock \in Builders \union {Free}
    /\ excluded \subseteq Targets
    /\ writing \in Builders \union {Free}
    /\ callsites \subseteq Targets
    /\ cached \subseteq callsites
    /\ left \in [Askers -> SUBSET callsites]
    /\ answers \subseteq [by : Askers, target : callsites, yes : BOOLEAN]
    /\ doing \in [Builders -> Call]
    /\ hid \in [Builders -> SUBSET Targets]
    /\ overtaken \subseteq excluded
BY DEF TelemetryTypeOK, Call, Ats

LEMMA IdleCall ==
  Idle \in Call /\ Idle.at = "idle" /\ Idle.targets = {} /\ Idle.kind = NoKind
BY DEF Idle, Call, Ats

LEMMA InitIInv == TelemetryInit => IInv
<1>. SUFFICES ASSUME TelemetryInit PROVE IInv
  OBVIOUS
<1>. USE DEF TelemetryInit
<1>1. /\ layers = <<>> /\ kinds = <<>> /\ Len(layers) = 0 /\ Len(kinds) = 0
      /\ layers \in Seq(Layer) /\ kinds \in Seq(Kinds)
  OBVIOUS
<1>2. TelemetryTypeOK
  BY <1>1, IdleCall, TypeOKUnfolded
<1>3. \A b \in Builders : doing[b].at = "idle" /\ lock # b /\ hid[b] = {}
  BY IdleCall, TelemetryAssumption
<1>4. Mirrors
  BY <1>1 DEF Mirrors, Prefix
<1>5. InStep
  BY <1>3, <1>4 DEF InStep
<1>6. CallsInOrder /\ AnswersDated /\ ExcludedStaysHidden /\ NeverReexported
  BY <1>1, <1>3 DEF CallsInOrder, Adding, AnswersDated, ExcludedStaysHidden, NeverReexported
<1>. QED BY <1>2, <1>5, <1>6 DEF IInv

-----------------------------------------------------------------------------
\* A step of a call that touches neither the stack nor the lock keeps them in step.
LEMMA MovesKeepInStep ==
  ASSUME IInv, NEW b \in Builders, NEW rec \in Call,
         doing' = [doing EXCEPT ![b] = rec],
         doing[b].at \notin {"modify", "push"}, rec.at \notin {"modify", "push"},
         UNCHANGED <<layers, kinds, lock>>
  PROVE  InStep'
<1>1. doing \in [Builders -> Call]
  BY TypeOKUnfolded DEF IInv
<1>2. \A c \in Builders : doing'[c] = IF c = b THEN rec ELSE doing[c]
  BY <1>1
<1>3. Mirrors' = Mirrors /\ \A k : Known(k)' = Known(k) /\ OneAhead(k)' = OneAhead(k)
  BY DEF Mirrors, Prefix, Known, OneAhead
<1>4. \A c \in Builders : doing'[c].at \in {"modify", "push"} <=> lock' = c
  BY <1>2 DEF IInv, InStep
<1>5. \A c \in Builders : doing'[c].at = "push" => c # b /\ doing'[c] = doing[c]
  BY <1>2
<1>6. (\A c \in Builders : doing'[c].at # "push") => Mirrors'
  BY <1>2, <1>3 DEF IInv, InStep
<1>7. ASSUME NEW c \in Builders, doing'[c].at = "push"
      PROVE  IF Known(doing[c].kind)' THEN Mirrors' ELSE OneAhead(doing[c].kind)'
  <2>1. doing'[c] = doing[c] /\ doing[c].at = "push"
    BY <1>5, <1>7
  <2>2. IF Known(doing[c].kind) THEN Mirrors ELSE OneAhead(doing[c].kind)
    BY <2>1 DEF IInv, InStep
  <2>. QED BY <2>1, <2>2 DEF Mirrors, Prefix, Known, OneAhead
<1>. QED BY <1>4, <1>6, <1>7 DEF InStep

LEMMA InstallKeepsIInv == ASSUME IInv, Install PROVE IInv'
<1>1. slot' \in {"undecided", "ours", "detached"}
  BY TypeOKUnfolded DEF IInv, Install
<1>2. UNCHANGED <<layers, kinds, lock, excluded, writing, callsites, cached, left, answers,
                  doing, hid, overtaken>>
  BY DEF Install, cacheVars
<1>3. TelemetryTypeOK'
  BY <1>1, <1>2 DEF IInv, TelemetryTypeOK
<1>4. InStep' /\ CallsInOrder' /\ AnswersDated' /\ ExcludedStaysHidden' /\ NeverReexported'
  BY <1>2 DEF IInv, InStep, Mirrors, Prefix, OneAhead, Known, CallsInOrder, Visited, Quiet,
     AnswersDated, ExcludedStaysHidden, NeverReexported
<1>. QED BY <1>3, <1>4 DEF IInv

-----------------------------------------------------------------------------
(* The callsites                                                           *)

\* The stack and the calls are not concerned.
LEMMA CachesKeepInStep ==
  ASSUME IInv, UNCHANGED <<slotVars, doing, hid>>
  PROVE  InStep'
BY DEF IInv, slotVars, InStep, Mirrors, Prefix, OneAhead, Known

\* What is hidden is as long as no excluded target comes to want its events but for
\* an answer that was overtaken.
LEMMA CachesKeepHidden ==
  ASSUME IInv, UNCHANGED <<slotVars, doing, hid>>,
         \A target \in excluded : Quiet(target) => Quiet(target)'
  PROVE  ExcludedStaysHidden' /\ NeverReexported'
<1>1. UNCHANGED <<layers, excluded>>
  BY DEF slotVars
<1>2. ExcludedStaysHidden'
  BY <1>1 DEF IInv, ExcludedStaysHidden, Quiet
<1>3. NeverReexported'
  BY <1>1 DEF IInv, NeverReexported, Quiet
<1>. QED BY <1>2, <1>3

LEMMA CachesKeepCalls ==
  ASSUME IInv, UNCHANGED <<slotVars, doing, hid>>,
         \A b \in Builders : \A target \in excluded : Visited(b, target) => Visited(b, target)'
  PROVE  CallsInOrder'
BY DEF IInv, slotVars, CallsInOrder

LEMMA RegisterKeepsIInv ==
  ASSUME IInv, NEW target \in Targets, Register(target)
  PROVE  IInv'
<1>1. /\ callsites' = callsites \union {target} /\ left' = [left EXCEPT ![target] = {target}]
      /\ UNCHANGED <<slotVars, cached, answers, doing, hid, overtaken>>
  BY DEF Register
<1>2. /\ left \in [Askers -> SUBSET callsites] /\ callsites \subseteq Targets
      /\ \A b \in Builders : b \in Askers /\ b # target
  BY TypeOKUnfolded, TelemetryAssumption DEF IInv, Askers
<1>3. left' \in [Askers -> SUBSET callsites'] /\ \A b \in Builders : left'[b] = left[b]
  BY <1>1, <1>2
<1>4. TelemetryTypeOK'
  BY <1>1, <1>3 DEF IInv, TelemetryTypeOK, slotVars
<1>5. InStep'
  BY <1>1, CachesKeepInStep
<1>6. CallsInOrder'
  BY <1>1, <1>3, CachesKeepCalls DEF Visited, Quiet
<1>7. AnswersDated'
  BY <1>1 DEF IInv, AnswersDated, slotVars
<1>8. ExcludedStaysHidden' /\ NeverReexported'
  BY <1>1, CachesKeepHidden DEF Quiet
<1>. QED BY <1>4, <1>5, <1>6, <1>7, <1>8 DEF IInv

LEMMA AskKeepsIInv ==
  ASSUME IInv, NEW w \in Askers, NEW target \in left[w], Ask(w, target)
  PROVE  IInv'
<1>. DEFINE answer == [by |-> w, target |-> target, yes |-> target \notin excluded]
<1>1. /\ left' = [left EXCEPT ![w] = left[w] \ {target}]
      /\ answers' = answers \union {answer}
      /\ UNCHANGED <<slotVars, callsites, cached, doing, hid, overtaken>>
  BY DEF Ask
<1>2. /\ left \in [Askers -> SUBSET callsites] /\ target \in callsites
      /\ answers \subseteq [by : Askers, target : callsites, yes : BOOLEAN]
  BY TypeOKUnfolded DEF IInv
<1>. HIDE DEF answer
<1>3. /\ answer \in [by : Askers, target : callsites, yes : BOOLEAN]
      /\ answer.by = w /\ answer.target = target /\ (answer.yes => target \notin excluded)
  BY <1>2 DEF answer
<1>4. /\ left' \in [Askers -> SUBSET callsites]
      /\ answers' \subseteq [by : Askers, target : callsites, yes : BOOLEAN]
  BY <1>1, <1>2, <1>3
<1>5. TelemetryTypeOK'
  BY <1>1, <1>4 DEF IInv, TelemetryTypeOK, slotVars
<1>6. InStep'
  BY <1>1, CachesKeepInStep
<1>7. \A b \in Builders : \A t \in excluded : Visited(b, t) => Visited(b, t)'
  <2>. SUFFICES ASSUME NEW b \in Builders, NEW t \in excluded, Visited(b, t) PROVE Visited(b, t)'
    OBVIOUS
  <2>1. CASE t \in left[b]
    <3>1. b \in Askers
      BY DEF Askers
    <3>2. CASE b = w /\ t = target
      BY <1>1, <1>3, <3>2 DEF Visited
    <3>3. CASE b # w \/ t # target
      <4>1. t \in left'[b]
        BY <1>1, <1>2, <2>1, <3>1, <3>3
      <4>. QED BY <4>1 DEF Visited
    <3>. QED BY <3>2, <3>3
  <2>2. CASE t \notin left[b]
    BY <1>1, <2>2 DEF Visited, Quiet
  <2>. QED BY <2>1, <2>2
<1>8. CallsInOrder'
  BY <1>1, <1>7, CachesKeepCalls
<1>9. AnswersDated'
  BY <1>1, <1>3 DEF IInv, AnswersDated, slotVars
<1>10. ExcludedStaysHidden' /\ NeverReexported'
  BY <1>1, CachesKeepHidden DEF Quiet
<1>. QED BY <1>5, <1>6, <1>8, <1>9, <1>10 DEF IInv

LEMMA StoreKeepsIInv ==
  ASSUME IInv, NEW answer \in answers, Store(answer)
  PROVE  IInv'
<1>1. /\ cached' = IF answer.yes THEN cached \union {answer.target} ELSE cached \ {answer.target}
      /\ answers' = answers \ {answer}
      /\ UNCHANGED <<slotVars, callsites, left, doing, hid>>
  BY DEF Store
<1>0. /\ overtaken' \subseteq overtaken
      /\ \A t \in overtaken \ overtaken' : ~answer.yes /\ t = answer.target /\ t \notin OnTheWay({t})
  <2>1. overtaken' = IF answer.yes THEN overtaken
                     ELSE overtaken \ ({answer.target} \ OnTheWay({answer.target}))
    BY DEF Store
  <2>. QED BY <2>1
<1>2. answer.target \in callsites
  BY TypeOKUnfolded DEF IInv
<1>3. TelemetryTypeOK'
  BY <1>0, <1>1, <1>2 DEF IInv, TelemetryTypeOK, slotVars
<1>4. InStep'
  BY <1>1, CachesKeepInStep
<1>5. answer.target \in excluded => Quiet(answer.target)'
  BY <1>0, <1>1 DEF IInv, AnswersDated, Quiet
<1>6. \A t \in excluded : Quiet(t) => Quiet(t)'
  BY <1>0, <1>1, <1>5 DEF Quiet
<1>7. \A b \in Builders : \A t \in excluded : Visited(b, t) => Visited(b, t)'
  BY <1>0, <1>1, <1>5, <1>6 DEF Visited
<1>8. CallsInOrder'
  BY <1>1, <1>7, CachesKeepCalls
<1>9. AnswersDated'
  <2>1. \A x \in answers : x.yes => x.target \in OnTheWay({x.target})
    BY DEF OnTheWay
  <2>. QED BY <1>0, <1>1, <2>1 DEF IInv, AnswersDated, slotVars
<1>10. ExcludedStaysHidden' /\ NeverReexported'
  BY <1>1, <1>6, CachesKeepHidden
<1>. QED BY <1>3, <1>4, <1>8, <1>9, <1>10 DEF IInv

LEMMA AskingKeepsIInv == ASSUME IInv, NEW w \in Askers, Asking(w) PROVE IInv'
BY AskKeepsIInv, StoreKeepsIInv DEF Asking

-----------------------------------------------------------------------------
(* The steps of a call                                                     *)

LEMMA CallExcludeKeepsIInv ==
  ASSUME IInv, NEW b \in Builders, NEW targets \in SUBSET Targets, CallExclude(b, targets)
  PROVE  IInv'
<1>. DEFINE rec == [Idle EXCEPT !.at = "write", !.targets = targets]
<1>1. rec \in Call /\ rec.at = "write"
  BY DEF Idle, Call, Ats
<1>. HIDE DEF rec
<1>2. /\ doing' = [doing EXCEPT ![b] = rec] /\ doing[b].at = "idle"
      /\ UNCHANGED <<slot, layers, kinds, lock, excluded, writing, callsites, cached, left, answers,
                     hid, overtaken>>
  BY IdleCall DEF CallExclude, rec, slotVars, cacheVars
<1>3. TelemetryTypeOK'
  BY <1>1, <1>2, TypeOKUnfolded DEF IInv, TelemetryTypeOK, Call, Ats
<1>4. InStep'
  BY <1>1, <1>2, MovesKeepInStep
<1>5. CallsInOrder'
  BY <1>1, <1>2, TypeOKUnfolded DEF IInv, CallsInOrder, Visited, Quiet, Adding
<1>. QED BY <1>2, <1>3, <1>4, <1>5 DEF IInv, AnswersDated, ExcludedStaysHidden, NeverReexported

LEMMA CallAddKeepsIInv ==
  ASSUME IInv, NEW b \in Builders, NEW kind \in Kinds, PathHidden(b, kind), CallAdd(b, kind)
  PROVE  IInv'
<1>. DEFINE rec == [Idle EXCEPT !.at = "lock", !.kind = kind]
<1>1. rec \in Call /\ rec.at = "lock" /\ rec.kind = kind
  BY DEF Idle, Call, Ats
<1>. HIDE DEF rec
<1>2. /\ doing' = [doing EXCEPT ![b] = rec] /\ doing[b].at = "idle"
      /\ UNCHANGED <<slot, layers, kinds, lock, excluded, writing, callsites, cached, left, answers,
                     hid, overtaken>>
  BY IdleCall DEF CallAdd, rec, slotVars, cacheVars
<1>3. TelemetryTypeOK'
  BY <1>1, <1>2, TypeOKUnfolded DEF IInv, TelemetryTypeOK, Call, Ats
<1>4. InStep'
  BY <1>1, <1>2, MovesKeepInStep
<1>5. CallsInOrder'
  BY <1>1, <1>2, TypeOKUnfolded DEF IInv, CallsInOrder, Visited, Quiet, Adding, PathHidden
<1>. QED BY <1>2, <1>3, <1>4, <1>5 DEF IInv, AnswersDated, ExcludedStaysHidden, NeverReexported

\* Advancing a call keeps what it is about.
LEMMA AtOf ==
  ASSUME IInv, NEW b \in Builders, NEW at \in Ats, Goes(b, at)
  PROVE  /\ [doing[b] EXCEPT !.at = at] \in Call
         /\ doing' = [doing EXCEPT ![b] = [doing[b] EXCEPT !.at = at]]
         /\ doing' \in [Builders -> Call]
         /\ doing'[b].at = at /\ doing'[b].targets = doing[b].targets
         /\ doing'[b].kind = doing[b].kind
         /\ \A c \in Builders : c # b => doing'[c] = doing[c]
<1>1. doing \in [Builders -> Call]
  BY TypeOKUnfolded DEF IInv
<1>2. [doing[b] EXCEPT !.at = at] \in Call
  BY <1>1 DEF Call
<1>3. doing' = [doing EXCEPT ![b] = [doing[b] EXCEPT !.at = at]]
  BY DEF Goes
<1>. QED BY <1>1, <1>2, <1>3 DEF Call

LEMMA WriteKeepsIInv ==
  ASSUME IInv, NEW b \in Builders, Write(b)
  PROVE  IInv'
<1>1. /\ doing[b].at = "write" /\ Goes(b, "drop") /\ writing' = b
      /\ excluded' = excluded \union doing[b].targets
      /\ overtaken' = overtaken \union OnTheWay(doing[b].targets)
      /\ UNCHANGED <<slot, layers, kinds, lock, callsites, cached, left, answers, hid>>
  BY DEF Write, cacheVars
<1>2. /\ [doing[b] EXCEPT !.at = "drop"] \in Call
      /\ doing' = [doing EXCEPT ![b] = [doing[b] EXCEPT !.at = "drop"]]
      /\ doing' \in [Builders -> Call]
      /\ doing'[b].at = "drop" /\ doing'[b].targets = doing[b].targets
      /\ \A c \in Builders : c # b => doing'[c] = doing[c]
  BY <1>1, AtOf DEF Ats
<1>3. doing[b].targets \subseteq Targets
  BY TypeOKUnfolded DEF IInv, Call
<1>4. TelemetryTypeOK'
  <2>1. overtaken' \subseteq excluded'
    BY <1>1, TypeOKUnfolded DEF IInv, OnTheWay
  <2>. QED BY <1>1, <1>2, <1>3, <2>1, TypeOKUnfolded DEF IInv, TelemetryTypeOK, Call, Ats
<1>5. InStep'
  <2>1. [doing[b] EXCEPT !.at = "drop"].at = "drop"
    BY TypeOKUnfolded DEF IInv, Call
  <2>. QED BY <1>1, <1>2, <2>1, MovesKeepInStep
<1>6. CallsInOrder'
  <2>1. \A c \in Builders : \A t : Visited(c, t) => Visited(c, t)'
    BY <1>1 DEF Visited, Quiet
  <2>. QED BY <1>1, <1>2, <2>1 DEF IInv, CallsInOrder, Adding
<1>7. ExcludedStaysHidden' /\ NeverReexported'
  BY <1>1 DEF IInv, ExcludedStaysHidden, NeverReexported
<1>8. AnswersDated'
  BY <1>1 DEF IInv, AnswersDated, OnTheWay
<1>. QED BY <1>4, <1>5, <1>6, <1>7, <1>8 DEF IInv

LEMMA DropGuardKeepsIInv ==
  ASSUME IInv, NEW b \in Builders, DropGuard(b)
  PROVE  IInv'
<1>1. /\ doing[b].at = "drop" /\ Goes(b, "rebuild") /\ writing' = Free
      /\ left' = [left EXCEPT ![b] = callsites]
      /\ UNCHANGED <<slot, layers, kinds, lock, excluded, callsites, cached, answers, hid, overtaken>>
  BY DEF DropGuard, GuardDropped, AsksAll
<1>2. /\ [doing[b] EXCEPT !.at = "rebuild"] \in Call
      /\ doing' = [doing EXCEPT ![b] = [doing[b] EXCEPT !.at = "rebuild"]]
      /\ doing' \in [Builders -> Call]
      /\ doing'[b].at = "rebuild" /\ doing'[b].targets = doing[b].targets
      /\ \A c \in Builders : c # b => doing'[c] = doing[c]
  BY <1>1, AtOf DEF Ats
<1>3. TelemetryTypeOK' /\ left'[b] = callsites /\ \A c \in Builders : c # b => left'[c] = left[c]
  <2>1. b \in Askers /\ left \in [Askers -> SUBSET callsites] /\ \A c \in Builders : c \in Askers
    BY TypeOKUnfolded DEF IInv, Askers
  <2>2. /\ left' \in [Askers -> SUBSET callsites] /\ left'[b] = callsites
        /\ \A c \in Builders : c # b => left'[c] = left[c]
    BY <1>1, <2>1
  <2>. QED BY <1>1, <1>2, <2>2, TypeOKUnfolded DEF IInv, TelemetryTypeOK, Call, Ats
<1>4. InStep'
  <2>1. [doing[b] EXCEPT !.at = "rebuild"].at = "rebuild"
    BY TypeOKUnfolded DEF IInv, Call
  <2>. QED BY <1>1, <1>2, <2>1, MovesKeepInStep
<1>5. CallsInOrder'
  <2>1. \A t \in Targets : Visited(b, t)'
    BY <1>1, <1>3, TypeOKUnfolded DEF IInv, Visited, Quiet
  <2>2. \A c \in Builders : c # b => \A t : Visited(c, t) => Visited(c, t)'
    BY <1>1, <1>3 DEF Visited, Quiet
  <2>3. doing[b].targets \subseteq Targets
    BY TypeOKUnfolded DEF IInv, Call
  <2>. QED BY <1>1, <1>2, <2>1, <2>2, <2>3 DEF IInv, CallsInOrder, Adding
<1>. QED BY <1>1, <1>3, <1>4, <1>5 DEF IInv, AnswersDated, ExcludedStaysHidden, NeverReexported

LEMMA RebuiltKeepsIInv ==
  ASSUME IInv, NEW b \in Builders, Rebuilt(b)
  PROVE  IInv'
<1>1. /\ doing[b].at = "rebuild" /\ doing' = [doing EXCEPT ![b] = Idle] /\ HasAsked(b)
      /\ hid' = [hid EXCEPT ![b] = hid[b] \union doing[b].targets]
      /\ UNCHANGED <<slot, layers, kinds, lock, excluded, writing, callsites, cached, left, answers,
                     overtaken>>
  BY DEF Rebuilt, Returns, slotVars, cacheVars
<1>2. doing \in [Builders -> Call] /\ hid \in [Builders -> SUBSET Targets]
  BY TypeOKUnfolded DEF IInv
<1>3. doing[b].targets \subseteq Targets /\ doing[b].targets \subseteq excluded
  BY <1>1, <1>2 DEF IInv, CallsInOrder, Call
<1>4. TelemetryTypeOK'
  <2>1. doing' \in [Builders -> Call] /\ hid' \in [Builders -> SUBSET Targets]
    BY <1>1, <1>2, <1>3, IdleCall
  <2>. QED BY <1>1, <2>1, TypeOKUnfolded DEF IInv, TelemetryTypeOK, Call, Ats
<1>5. InStep'
  BY <1>1, IdleCall, MovesKeepInStep
<1>6. CallsInOrder'
  BY <1>1, <1>2, IdleCall DEF IInv, CallsInOrder, Visited, Quiet, Adding
<1>7. ExcludedStaysHidden'
  <2>1. \A t \in doing[b].targets : Quiet(t)
    BY <1>1 DEF IInv, CallsInOrder, Visited, HasAsked
  <2>. QED BY <1>1, <1>2, <1>3, <2>1 DEF IInv, ExcludedStaysHidden, Quiet
<1>8. NeverReexported' /\ AnswersDated'
  BY <1>1 DEF IInv, NeverReexported, AnswersDated
<1>. QED BY <1>4, <1>5, <1>6, <1>7, <1>8 DEF IInv

LEMMA LockKeepsIInv ==
  ASSUME IInv, NEW b \in Builders, Lock(b)
  PROVE  IInv'
<1>1. /\ doing[b].at = "lock" /\ Goes(b, "modify") /\ lock = Free /\ lock' = b
      /\ UNCHANGED <<slot, layers, kinds, excluded, writing, callsites, cached, left, answers, hid,
                     overtaken>>
  BY DEF Lock, Unlocked, cacheVars
<1>2. /\ doing' \in [Builders -> Call]
      /\ doing'[b].at = "modify" /\ doing'[b].kind = doing[b].kind
      /\ \A c \in Builders : c # b => doing'[c] = doing[c]
  BY <1>1, AtOf DEF Ats
<1>3. TelemetryTypeOK'
  BY <1>1, <1>2, TypeOKUnfolded DEF IInv, TelemetryTypeOK, Call, Ats
<1>4. \A c \in Builders : doing[c].at \notin {"modify", "push"}
  BY <1>1, TelemetryAssumption DEF IInv, InStep
<1>5. Mirrors
  BY <1>4 DEF IInv, InStep
<1>6. InStep'
  BY <1>1, <1>2, <1>4, <1>5 DEF InStep, Mirrors, Prefix
<1>7. CallsInOrder'
  BY <1>1, <1>2 DEF IInv, CallsInOrder, Visited, Quiet, Adding
<1>. QED BY <1>1, <1>3, <1>6, <1>7 DEF IInv, AnswersDated, ExcludedStaysHidden, NeverReexported

\* The layer replaces the one of its kind, or goes on top.
LEMMA ModifyKeepsIInv ==
  ASSUME IInv, NEW b \in Builders, Modify(b)
  PROVE  IInv'
<1>. DEFINE kind == doing[b].kind
            new == [kind |-> kind, owner |-> b]
<1>1. /\ doing[b].at = "modify" /\ Goes(b, "push")
      /\ layers' = Attached(new) /\ left' = [left EXCEPT ![b] = callsites]
      /\ UNCHANGED <<slot, kinds, lock, excluded, writing, callsites, cached, answers, hid, overtaken>>
  BY DEF Modify, AsksAll
<1>2. /\ doing' \in [Builders -> Call]
      /\ doing'[b].at = "push" /\ doing'[b].kind = kind
      /\ \A c \in Builders : c # b => doing'[c] = doing[c]
  BY <1>1, AtOf DEF Ats
<1>3. /\ lock = b
      /\ \A c \in Builders : c # b => doing[c].at \notin {"modify", "push"}
  BY <1>1 DEF IInv, InStep
<1>4. Mirrors
  BY <1>1, <1>3 DEF IInv, InStep
<1>5. kind \in Kinds /\ Path[kind] \subseteq hid[b]
  BY <1>1 DEF IInv, CallsInOrder, Adding
<1>6. new \in Layer /\ new.kind = kind
  BY <1>5 DEF Layer
<1>7. layers \in Seq(Layer) /\ kinds \in Seq(Kinds)
  BY TypeOKUnfolded DEF IInv
<1>8. \A i, j \in 1..Len(layers) : layers[i].kind = layers[j].kind => i = j
  BY TypeOKUnfolded DEF IInv
<1>. HIDE DEF new
<1>9. /\ layers' \in Seq(Layer)
      /\ \A i, j \in 1..Len(layers') : layers'[i].kind = layers'[j].kind => i = j
      /\ IF Known(kind)' THEN Mirrors' ELSE OneAhead(kind)'
      /\ \A i \in 1..Len(layers') :
           layers'[i].kind = kind \/ \E j \in 1..Len(layers) : layers'[i] = layers[j]
  <2>1. CASE Known(kind)
    <3>1. layers' = [i \in 1..Len(layers) |-> IF kinds[i] = kind THEN new ELSE layers[i]]
      BY <1>1, <1>6, <2>1 DEF Attached
    <3>2. layers' \in Seq(Layer) /\ Len(layers') = Len(layers)
      BY <1>6, <1>7, <3>1
    <3>3. \A i \in 1..Len(layers) : layers'[i].kind = layers[i].kind
      BY <1>4, <1>6, <3>1 DEF Mirrors, Prefix
    <3>4. Mirrors' /\ Known(kind)'
      <4>1. kinds' = kinds
        BY <1>1
      <4>2. Len(layers') = Len(kinds') /\ \A i \in 1..Len(kinds') : layers'[i].kind = kinds'[i]
        BY <1>4, <3>2, <3>3, <4>1 DEF Mirrors, Prefix
      <4>3. Known(kind)'
        BY <1>1, <1>2, <2>1, <4>1 DEF Known
      <4>. QED BY <4>2, <4>3 DEF Mirrors, Prefix
    <3>5. \A i \in 1..Len(layers') :
            layers'[i].kind = kind \/ \E j \in 1..Len(layers) : layers'[i] = layers[j]
      BY <1>6, <3>1, <3>2
    <3>. QED BY <1>8, <3>2, <3>3, <3>4, <3>5
  <2>2. CASE ~Known(kind)
    <3>1. layers' = Append(layers, new)
      BY <1>1, <1>6, <2>2 DEF Attached
    <3>2. /\ layers' \in Seq(Layer) /\ Len(layers') = Len(layers) + 1
          /\ layers'[Len(layers) + 1] = new
          /\ \A i \in 1..Len(layers) : layers'[i] = layers[i]
      BY <1>6, <1>7, <3>1
    <3>3. \A i \in 1..Len(layers) : layers[i].kind # kind
      BY <1>4, <2>2 DEF Mirrors, Prefix, Known
    <3>4. OneAhead(kind)' /\ ~Known(kind)'
      <4>1. kinds' = kinds /\ doing'[b].kind = kind /\ Len(layers) = Len(kinds)
        BY <1>1, <1>2, <1>4 DEF Mirrors
      <4>2. ~Known(kind)'
        BY <2>2, <4>1 DEF Known
      <4>3. Len(layers') = Len(kinds') + 1 /\ layers'[Len(layers')].kind = kind
        BY <1>6, <3>2, <4>1
      <4>4. \A i \in 1..Len(kinds') : layers'[i].kind = kinds'[i]
        BY <1>4, <3>2, <4>1 DEF Mirrors, Prefix
      <4>. QED BY <4>1, <4>2, <4>3, <4>4 DEF OneAhead, Prefix
    <3>5. \A i, j \in 1..Len(layers') : layers'[i].kind = layers'[j].kind => i = j
      BY <1>6, <1>7, <1>8, <3>2, <3>3
    <3>6. \A i \in 1..Len(layers') :
            layers'[i].kind = kind \/ \E j \in 1..Len(layers) : layers'[i] = layers[j]
      BY <1>6, <1>7, <3>2
    <3>. QED BY <3>2, <3>4, <3>5, <3>6
  <2>. QED BY <2>1, <2>2
<1>10. TelemetryTypeOK'
  <2>1. left' \in [Askers -> SUBSET callsites']
    BY <1>1 DEF IInv, TelemetryTypeOK
  <2>. QED BY <1>1, <1>2, <1>9, <2>1, TypeOKUnfolded DEF IInv, TelemetryTypeOK, Call, Ats
<1>11. InStep'
  <2>1. \A c \in Builders : doing'[c].at \in {"modify", "push"} <=> lock' = c
    BY <1>1, <1>2, <1>3
  <2>2. \A c \in Builders : doing'[c].at = "push" => c = b
    BY <1>2, <1>3
  <2>. QED BY <1>2, <1>9, <2>1, <2>2 DEF InStep
<1>12. CallsInOrder'
  <2>1. left \in [Askers -> SUBSET callsites] /\ \A c \in Builders : c \in Askers
    BY TypeOKUnfolded DEF IInv, Askers
  <2>2. \A c \in Builders : c # b => left'[c] = left[c]
    BY <1>1, <2>1
  <2>3. \A c \in Builders : c # b => \A t : Visited(c, t) => Visited(c, t)'
    BY <1>1, <2>2 DEF Visited, Quiet
  <2>. QED BY <1>1, <1>2, <1>5, <2>3 DEF IInv, CallsInOrder, Adding
<1>13. ExcludedStaysHidden' /\ AnswersDated'
  BY <1>1 DEF IInv, ExcludedStaysHidden, AnswersDated
<1>14. NeverReexported'
  <2>1. \A target \in Path[kind] :
          target \in excluded' /\ (target \in cached' => target \in overtaken')
    BY <1>1, <1>5 DEF IInv, ExcludedStaysHidden
  <2>. QED BY <1>1, <1>9, <2>1 DEF IInv, NeverReexported
<1>. QED BY <1>10, <1>11, <1>12, <1>13, <1>14 DEF IInv

\* The list of types catches up.
LEMMA PushKeepsIInv ==
  ASSUME IInv, NEW b \in Builders, Push(b)
  PROVE  IInv'
<1>. DEFINE kind == doing[b].kind
<1>1. /\ doing[b].at = "push" /\ doing' = [doing EXCEPT ![b] = Idle] /\ lock' = Free
      /\ kinds' = IF Known(kind) THEN kinds ELSE Append(kinds, kind)
      /\ UNCHANGED <<slot, layers, excluded, writing, callsites, cached, left, answers, hid, overtaken>>
  BY DEF Push, Returns, cacheVars
<1>2. /\ lock = b
      /\ \A c \in Builders : c # b => doing[c].at \notin {"modify", "push"}
      /\ IF Known(kind) THEN Mirrors ELSE OneAhead(kind)
  BY <1>1 DEF IInv, InStep
<1>3. doing \in [Builders -> Call] /\ layers \in Seq(Layer) /\ kinds \in Seq(Kinds)
  BY TypeOKUnfolded DEF IInv
<1>4. doing' \in [Builders -> Call] /\ doing'[b] = Idle
      /\ \A c \in Builders : c # b => doing'[c] = doing[c]
  BY <1>1, <1>3, IdleCall
<1>5. kind \in Kinds
  BY <1>1 DEF IInv, CallsInOrder, Adding
<1>6. kinds' \in Seq(Kinds) /\ Mirrors'
  <2>1. CASE Known(kind)
    BY <1>1, <1>2, <1>3, <2>1 DEF Mirrors, Prefix
  <2>2. CASE ~Known(kind)
    <3>1. /\ Len(layers) = Len(kinds) + 1
          /\ Prefix /\ layers[Len(layers)].kind = kind
      BY <1>2, <2>2 DEF OneAhead
    <3>2. /\ kinds' \in Seq(Kinds) /\ Len(kinds') = Len(kinds) + 1
          /\ kinds'[Len(kinds) + 1] = kind
          /\ \A i \in 1..Len(kinds) : kinds'[i] = kinds[i]
      BY <1>1, <1>3, <1>5, <2>2
    <3>. QED BY <1>1, <1>3, <3>1, <3>2 DEF Mirrors, Prefix
  <2>. QED BY <2>1, <2>2
<1>7. TelemetryTypeOK'
  BY <1>1, <1>4, <1>6, TypeOKUnfolded DEF IInv, TelemetryTypeOK, Call, Ats
<1>8. \A c \in Builders : doing'[c].at \notin {"modify", "push"} /\ lock' # c
  BY <1>1, <1>2, <1>4, IdleCall, TelemetryAssumption
<1>9. InStep'
  BY <1>6, <1>8 DEF InStep
<1>10. CallsInOrder'
  BY <1>1, <1>4, IdleCall DEF IInv, CallsInOrder, Visited, Quiet, Adding
<1>. QED BY <1>1, <1>7, <1>9, <1>10 DEF IInv, AnswersDated, ExcludedStaysHidden, NeverReexported

-----------------------------------------------------------------------------
LEMMA NextKeepsIInv == IInv /\ [TelemetryNext]_telemetryVars => IInv'
<1>. SUFFICES ASSUME IInv, [TelemetryNext]_telemetryVars PROVE IInv'
  OBVIOUS
<1>1. CASE Install
  BY <1>1, InstallKeepsIInv
<1>2. ASSUME NEW b \in Builders, NEW targets \in SUBSET Targets, CallExclude(b, targets)
      PROVE  IInv'
  BY <1>2, CallExcludeKeepsIInv
<1>3. ASSUME NEW b \in Builders, NEW kind \in Kinds, PathHidden(b, kind), CallAdd(b, kind)
      PROVE  IInv'
  BY <1>3, CallAddKeepsIInv
<1>4. ASSUME NEW b \in Builders, TelemetryStep(b) PROVE IInv'
  BY <1>4, WriteKeepsIInv, DropGuardKeepsIInv, RebuiltKeepsIInv, LockKeepsIInv,
     ModifyKeepsIInv, PushKeepsIInv, AskingKeepsIInv DEF TelemetryStep, Askers
<1>5. ASSUME NEW target \in Targets, Emit(target) PROVE IInv'
  BY <1>5, RegisterKeepsIInv, AskingKeepsIInv DEF Emit, Askers
<1>6. CASE UNCHANGED telemetryVars
  BY <1>6 DEF telemetryVars, slotVars, cacheVars, IInv, TelemetryTypeOK, InStep, Mirrors, Prefix,
     OneAhead, Known, CallsInOrder, Visited, Quiet, AnswersDated, ExcludedStaysHidden,
     NeverReexported
<1>. QED BY <1>1, <1>2, <1>3, <1>4, <1>5, <1>6 DEF TelemetryNext

\* The inductive invariant holds as long as builders keep to the protocol.
THEOREM Invariance == TelemetrySpec => []IInv
<1>. QED BY InitIInv, NextKeepsIInv, PTL DEF TelemetrySpec

\* Every variable has its type, and a kind has one layer (lib.rs:29).
THEOREM TypeCorrect == TelemetrySpec => []TelemetryTypeOK
<1>1. IInv => TelemetryTypeOK
  BY DEF IInv
<1>. QED BY <1>1, Invariance, PTL

\* The list of types is that of the stack whenever the lock is free (lib.rs:69).
THEOREM KindsInStepHolds == TelemetrySpec => []KindsInStep
<1>1. IInv => KindsInStep
  <2>. SUFFICES ASSUME IInv, lock = Free PROVE kinds = [i \in 1..Len(layers) |-> layers[i].kind]
    BY DEF KindsInStep
  <2>1. Mirrors
    BY TelemetryAssumption DEF IInv, InStep
  <2>2. kinds \in Seq(Kinds)
    BY TypeOKUnfolded DEF IInv
  <2>3. kinds = [i \in 1..Len(kinds) |-> kinds[i]]
    BY <2>2
  <2>. QED BY <2>1, <2>3 DEF Mirrors, Prefix
<1>. QED BY <1>1, Invariance, PTL

\* What exclude_targets has hidden stays hidden, but for a yes of the filter that was
\* on its way when the list of targets changed, until the callsite is asked again
\* (lib.rs:229-231).
THEOREM ExcludedStaysHiddenHolds == TelemetrySpec => []ExcludedStaysHidden
<1>1. IInv => ExcludedStaysHidden
  BY DEF IInv
<1>. QED BY <1>1, Invariance, PTL

\* No layer is given an event of its own export path (lib.rs:33), with that exception.
THEOREM NeverReexportedHolds == TelemetrySpec => []NeverReexported
<1>1. IInv => NeverReexported
  BY DEF IInv
<1>. QED BY <1>1, Invariance, PTL
=============================================================================
