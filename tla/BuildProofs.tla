---------------------------- MODULE BuildProofs ----------------------------
(***************************************************************************)
(* Proofs about BuildChain, for any number of apps with any plugins.       *)
(* - The builds keep to the protocol of TelemetrySlot: what                *)
(*   TelemetryProofs proves of the slot holds of the apps that share it.   *)
(* - The layers of an app that has the process to itself are its own.      *)
(* - Every route of a running app is inside of all the layers of its       *)
(*   chain, in its order.                                                  *)
(***************************************************************************)
EXTENDS BuildChain, TelemetryProofs, SequenceTheorems, FiniteSetTheorems,
        WellFoundedInduction

Fields == {"pc", "state", "adding", "mounts", "layers", "fallback", "serves", "todo", "hand",
           "added", "alone", "router"}

\* What may be left of a plugin's calls on ctx.telemetry.
Exporting == {<<Add("spans"), Add("logs")>>, <<Add("logs")>>}
Todos == {<<>>, OtelCalls, SentryCalls, <<Add("sentry")>>} \union Exporting

\* The path of the layers in todo is hidden once the call in progress returns.
Prepared(todo, hidden) ==
  /\ todo \in Exporting => OtelPath \subseteq hidden
  /\ todo = <<Add("sentry")>> => Path["sentry"] \subseteq hidden

Hides(a) == hid[a] \union doing[a].targets

Fine(a) ==
  /\ app[a].todo \in Todos
  /\ app[a].pc \in {"ready", "building"} => slot # "undecided"
  /\ app[a].pc # "building" => app[a].todo = <<>>
  /\ slot = "ours" => Prepared(app[a].todo, Hides(a))

BuildIInv ==
  /\ DOMAIN app = Builders /\ \A a \in Builders : DOMAIN app[a] = Fields
  /\ doing \in [Builders -> Call]
  /\ hid \in [Builders -> SUBSET Targets]
  /\ \A a \in Builders :
       doing[a].at \in {"idle", "lock", "modify", "push"} => doing[a].targets = {}
  /\ \A a \in Builders : Fine(a)

-----------------------------------------------------------------------------
LEMMA Paths ==
  /\ {"spans", "logs", "sentry"} \subseteq Kinds
  /\ OtelPath \subseteq Targets /\ Path["sentry"] \subseteq Targets
  /\ Path["spans"] \subseteq OtelPath /\ Path["logs"] \subseteq OtelPath
<1>1. /\ "spans" \in Kinds /\ "logs" \in Kinds /\ "sentry" \in Kinds
  BY BuildAssumption
<1>2. /\ Path["spans"] \subseteq Targets /\ Path["logs"] \subseteq Targets
      /\ Path["sentry"] \subseteq Targets
  BY <1>1, TelemetryAssumption
<1>. QED BY <1>1, <1>2 DEF OtelPath

LEMMA Ops ==
  /\ \A targets : Exclude(targets).op = "exclude" /\ Exclude(targets).targets = targets
  /\ \A kind : Add(kind).op = "add" /\ Add(kind).kind = kind
BY DEF Exclude, Add

\* The call that a todo makes next, and what it leaves.
LEMMA TodoSteps ==
  /\ Head(OtelCalls) = Exclude(OtelPath) /\ Tail(OtelCalls) = <<Add("spans"), Add("logs")>>
  /\ Head(SentryCalls) = Exclude(Path["sentry"]) /\ Tail(SentryCalls) = <<Add("sentry")>>
  /\ Head(<<Add("spans"), Add("logs")>>) = Add("spans")
  /\ Tail(<<Add("spans"), Add("logs")>>) = <<Add("logs")>>
  /\ Head(<<Add("logs")>>) = Add("logs") /\ Tail(<<Add("logs")>>) = <<>>
  /\ Head(<<Add("sentry")>>) = Add("sentry") /\ Tail(<<Add("sentry")>>) = <<>>
<1>1. \A x, y, z : Head(<<x, y, z>>) = x /\ Tail(<<x, y, z>>) = <<y, z>>
  OBVIOUS
<1>2. \A x, y : Head(<<x, y>>) = x /\ Tail(<<x, y>>) = <<y>>
  OBVIOUS
<1>3. \A x : Head(<<x>>) = x /\ Tail(<<x>>) = <<>>
  OBVIOUS
<1>. QED BY <1>1, <1>2, <1>3 DEF OtelCalls, SentryCalls

LEMMA BuildsCalls ==
  ASSUME NEW a \in Builders, NEW p \in Offers[a], NEW build \in Builds(p)
  PROVE  build.calls \in {<<>>, OtelCalls, SentryCalls}
<1>1. p \in Plugins
  BY BuildAssumption
<1>2. Nothing.calls = <<>> /\ \A f \in {"mounts", "layers", "fallback", "serves", "calls"} : f \in DOMAIN Nothing
  BY DEF Nothing
<1>3. \A b \in Sentry : b.calls = SentryCalls
  BY <1>2 DEF Sentry
<1>4. \A b \in Otel : b.calls \in {<<>>, OtelCalls}
  BY <1>2 DEF Otel
<1>5. /\ \A b \in Auth : b.calls = <<>>
      /\ \A b \in Spa : b.calls = <<>>
      /\ \A b \in OpenApi : b.calls = <<>>
      /\ \A b \in Web : b.calls = <<>>
      /\ \A b \in Api : b.calls = <<>>
      /\ \A b \in Own : b.calls = <<>>
      /\ \A b \in Pool \union Pgmq : b.calls = <<>>
  BY <1>2 DEF Auth, Spa, OpenApi, Web, Api, Own, Pool, Pgmq
<1>. QED
  BY <1>1, <1>3, <1>4, <1>5 DEF Plugins, Builds

LEMMA Apart ==
  /\ \A hidden : Prepared(<<>>, hidden) /\ Prepared(OtelCalls, hidden) /\ Prepared(SentryCalls, hidden)
  /\ \A hidden : OtelPath \subseteq hidden =>
       Prepared(<<Add("spans"), Add("logs")>>, hidden) /\ Prepared(<<Add("logs")>>, hidden)
  /\ \A hidden : Path["sentry"] \subseteq hidden => Prepared(<<Add("sentry")>>, hidden)
<1>1. Exclude(Path["sentry"]) # Add("spans") /\ Add("sentry") # Add("logs")
  BY Ops
<1>2. /\ <<>> \notin Exporting /\ OtelCalls \notin Exporting /\ SentryCalls \notin Exporting
      /\ <<Add("sentry")>> \notin Exporting
  BY <1>1 DEF Exporting, OtelCalls, SentryCalls
<1>3. /\ <<>> # <<Add("sentry")>> /\ OtelCalls # <<Add("sentry")>>
      /\ SentryCalls # <<Add("sentry")>>
      /\ <<Add("spans"), Add("logs")>> # <<Add("sentry")>> /\ <<Add("logs")>> # <<Add("sentry")>>
  BY <1>1 DEF OtelCalls, SentryCalls
<1>. QED BY <1>2, <1>3 DEF Prepared

LEMMA PreparedGrows ==
  ASSUME NEW todo, NEW hidden, NEW more, Prepared(todo, hidden), hidden \subseteq more
  PROVE  Prepared(todo, more)
BY DEF Prepared

LEMMA InitBuildIInv == Init => BuildIInv
<1>. SUFFICES ASSUME Init PROVE BuildIInv
  OBVIOUS
<1>1. DOMAIN NoApp = Fields /\ NoApp.pc = "none" /\ NoApp.todo = <<>>
  BY DEF NoApp, Fields
<1>2. \A a \in Builders : app[a] = NoApp /\ doing[a] = Idle /\ hid[a] = {}
  BY DEF Init, TelemetryInit
<1>3. \A a \in Builders : Fine(a)
  BY <1>1, <1>2, Apart DEF Fine, Todos
<1>. QED BY <1>1, <1>2, <1>3, IdleCall DEF Init, TelemetryInit, BuildIInv

-----------------------------------------------------------------------------
\* A step of the builder that makes no call.
LEMMA BuilderMoves ==
  ASSUME BuildIInv, NEW a \in Builders, NEW rec, Becomes(a, rec), UNCHANGED telemetryVars,
         DOMAIN rec = Fields, rec.todo \in {<<>>, OtelCalls, SentryCalls},
         rec.pc # "building" => rec.todo = <<>>,
         rec.pc \in {"ready", "building"} => app[a].pc \in {"ready", "building"}
  PROVE  BuildIInv'
<1>1. /\ DOMAIN app' = Builders /\ app'[a] = rec
      /\ \A b \in Builders \ {a} : app'[b] = app[b]
  BY DEF Becomes, BuildIInv
<1>2. UNCHANGED <<slot, doing, hid>>
  BY DEF telemetryVars, slotVars
<1>3. \A b \in Builders \ {a} : Fine(b)'
  BY <1>1, <1>2 DEF BuildIInv, Fine, Prepared, Hides
<1>4. Fine(a)'
  <2>1. Prepared(rec.todo, Hides(a)')
    BY Apart
  <2>. QED BY <1>1, <1>2, <2>1 DEF BuildIInv, Fine, Todos
<1>. QED BY <1>1, <1>2, <1>3, <1>4 DEF BuildIInv

LEMMA OverMoves ==
  ASSUME BuildIInv, NEW a \in Builders, Becomes(a, Over), UNCHANGED telemetryVars
  PROVE  BuildIInv'
<1>1. DOMAIN Over = Fields /\ Over.pc = "over" /\ Over.todo = <<>>
  BY DEF Over, NoApp, Fields
<1>. QED BY <1>1, BuilderMoves

LEMMA BeginMoves ==
  ASSUME BuildIInv, NEW a \in Builders, NEW p \in Offers[a], BeginPlugin(a, p)
  PROVE  BuildIInv'
<1>. PICK build \in Builds(p) :
       Becomes(a, [app[a] EXCEPT
            !.pc = "building", !.adding = p, !.mounts = Mounted(a, build),
            !.layers = @ \o build.layers, !.fallback = @ \/ build.fallback,
            !.serves = @ \/ build.serves, !.todo = build.calls])
  BY DEF BeginPlugin
<1>. DEFINE rec == [app[a] EXCEPT
            !.pc = "building", !.adding = p, !.mounts = Mounted(a, build),
            !.layers = @ \o build.layers, !.fallback = @ \/ build.fallback,
            !.serves = @ \/ build.serves, !.todo = build.calls]
<1>1. DOMAIN rec = Fields /\ rec.pc = "building" /\ rec.todo = build.calls
  BY DEF BuildIInv, Fields
<1>2. Becomes(a, rec) /\ app[a].pc = "ready" /\ UNCHANGED telemetryVars
  BY DEF BeginPlugin
<1>. HIDE DEF rec
<1>. QED BY <1>1, <1>2, BuildsCalls, BuilderMoves

LEMMA BuiltMoves == ASSUME BuildIInv, NEW a \in Builders, Built(a) PROVE BuildIInv'
<1>. DEFINE rec == [app[a] EXCEPT !.pc = "ready", !.state = <<app[a].adding>> \o @, !.adding = ""]
<1>1. DOMAIN rec = Fields /\ rec.pc = "ready" /\ rec.todo = app[a].todo
  BY DEF BuildIInv, Fields
<1>2. Becomes(a, rec) /\ app[a].pc = "building" /\ app[a].todo = <<>> /\ UNCHANGED telemetryVars
  BY DEF Built
<1>. HIDE DEF rec
<1>. QED BY <1>1, <1>2, BuilderMoves

LEMMA TakeManualMoves ==
  ASSUME BuildIInv, NEW a \in Builders, NEW prefix, TakeManual(a, prefix)
  PROVE  BuildIInv'
<1>1. PICK mounts, hand : Becomes(a, [app[a] EXCEPT !.mounts = mounts, !.hand = hand])
  BY DEF TakeManual
<1>. DEFINE rec == [app[a] EXCEPT !.mounts = mounts, !.hand = hand]
<1>2. DOMAIN rec = Fields /\ rec.pc = app[a].pc /\ rec.todo = app[a].todo
  BY DEF BuildIInv, Fields
<1>3. Becomes(a, rec) /\ app[a].pc = "ready" /\ UNCHANGED telemetryVars
  BY <1>1 DEF TakeManual
<1>. HIDE DEF rec
<1>. QED BY <1>2, <1>3, BuilderMoves DEF BuildIInv, Fine

LEMMA RunMoves == ASSUME BuildIInv, NEW a \in Builders, Run(a) PROVE BuildIInv'
<1>. DEFINE rec == [app[a] EXCEPT !.pc = "running", !.router = Composed(a)]
<1>1. DOMAIN rec = Fields /\ rec.pc = "running" /\ rec.todo = app[a].todo
  BY DEF BuildIInv, Fields
<1>2. Becomes(a, rec) /\ app[a].pc = "ready" /\ UNCHANGED telemetryVars
  BY DEF Run
<1>. HIDE DEF rec
<1>. QED BY <1>1, <1>2, BuilderMoves DEF BuildIInv, Fine

-----------------------------------------------------------------------------
(* The steps of the slot                                                   *)

\* What the calls in progress keep hidden does not shrink.
LEMMA SlotMoves ==
  ASSUME BuildIInv, UNCHANGED <<slot, app>>,
         doing' \in [Builders -> Call], hid' \in [Builders -> SUBSET Targets],
         \A a \in Builders :
           /\ doing'[a].at \in {"idle", "lock", "modify", "push"} => doing'[a].targets = {}
           /\ Hides(a) \subseteq Hides(a)'
  PROVE  BuildIInv'
<1>1. \A a \in Builders : Fine(a)'
  BY PreparedGrows DEF BuildIInv, Fine
<1>. QED BY <1>1 DEF BuildIInv

\* The callsites that are asked about are none of the builders' business.
LEMMA AskingChanges ==
  ASSUME NEW w, Asking(w)
  PROVE  UNCHANGED <<slot, layers, doing, hid>>
BY DEF Asking, Ask, Store, slotVars

LEMMA AskingMoves ==
  ASSUME BuildIInv, NEW w, Asking(w), UNCHANGED app
  PROVE  BuildIInv'
<1>1. UNCHANGED <<slot, doing, hid>> /\ \A a \in Builders : Hides(a)' = Hides(a)
  BY AskingChanges DEF Hides
<1>. QED BY <1>1, SlotMoves DEF BuildIInv

LEMMA StepMoves ==
  ASSUME BuildIInv, NEW a \in Builders, TelemetryStep(a), UNCHANGED app
  PROVE  BuildIInv'
<1>1. ASSUME NEW at \in Ats, Goes(a, at), UNCHANGED <<slot, hid>>,
             at \in {"modify", "push"} => doing[a].at \in {"lock", "modify"}, at # "idle", at # "lock"
      PROVE  BuildIInv'
  <2>. DEFINE rec == [doing[a] EXCEPT !.at = at]
  <2>1. rec \in Call /\ rec.at = at /\ rec.targets = doing[a].targets
    BY DEF BuildIInv, Call
  <2>2. doing' = [doing EXCEPT ![a] = rec]
    BY <1>1 DEF Goes
  <2>. HIDE DEF rec
  <2>3. /\ doing' \in [Builders -> Call] /\ doing'[a] = rec
        /\ \A b \in Builders \ {a} : doing'[b] = doing[b]
    BY <2>1, <2>2 DEF BuildIInv
  <2>4. \A b \in Builders :
           /\ doing'[b].at \in {"idle", "lock", "modify", "push"} => doing'[b].targets = {}
           /\ Hides(b) \subseteq Hides(b)'
    BY <1>1, <2>1, <2>3 DEF BuildIInv, Hides
  <2>. QED BY <1>1, <2>3, <2>4, SlotMoves DEF BuildIInv
<1>2. CASE Write(a)
  BY <1>1, <1>2 DEF Write, Ats
<1>3. CASE DropGuard(a)
  BY <1>1, <1>3 DEF DropGuard, Ats
<1>4. CASE Lock(a)
  BY <1>1, <1>4 DEF Lock, Ats
<1>5. CASE Modify(a)
  BY <1>1, <1>5 DEF Modify, Ats
<1>6. CASE Rebuilt(a) \/ Push(a)
  <2>1. /\ doing' = [doing EXCEPT ![a] = Idle] /\ UNCHANGED slot
        /\ \/ hid' = [hid EXCEPT ![a] = hid[a] \union doing[a].targets]
           \/ hid' = hid /\ doing[a].at = "push"
    BY <1>6 DEF Rebuilt, Push, Returns, slotVars
  <2>2. /\ doing' \in [Builders -> Call] /\ doing'[a] = Idle
        /\ \A b \in Builders \ {a} : doing'[b] = doing[b]
    BY <2>1, IdleCall DEF BuildIInv
  <2>3. doing[a].targets \subseteq Targets
    BY DEF BuildIInv, Call
  <2>4. /\ hid' \in [Builders -> SUBSET Targets] /\ Hides(a) \subseteq hid'[a]
        /\ \A b \in Builders \ {a} : hid'[b] = hid[b]
    BY <2>1, <2>3 DEF BuildIInv, Hides
  <2>5. \A b \in Builders :
           /\ doing'[b].at \in {"idle", "lock", "modify", "push"} => doing'[b].targets = {}
           /\ Hides(b) \subseteq Hides(b)'
    BY <2>2, <2>4, IdleCall DEF BuildIInv, Hides
  <2>. QED BY <2>1, <2>2, <2>4, <2>5, SlotMoves
<1>7. CASE Asking(a)
  BY <1>7, AskingMoves
<1>. QED BY <1>2, <1>3, <1>4, <1>5, <1>6, <1>7 DEF TelemetryStep

\* The apps whose builder stands before the installation have made no call.
LEMMA CreateMoves == ASSUME BuildIInv, NEW a \in Builders, Create(a) PROVE BuildIInv'
<1>. DEFINE rec == [NoApp EXCEPT !.pc = "ready", !.alone = \A c \in Builders : ~InUse(c)]
<1>1. DOMAIN rec = Fields /\ rec.pc = "ready" /\ rec.todo = <<>>
  BY DEF NoApp, Fields
<1>2. /\ app' = [b \in Builders |-> IF b = a THEN rec ELSE [app[b] EXCEPT !.alone = FALSE]]
      /\ slot' # "undecided" /\ UNCHANGED <<doing, hid>>
      /\ slot # "undecided" => slot' = slot
  BY DEF Create, Install
<1>. HIDE DEF rec
<1>3. \A b \in Builders \ {a} :
        /\ DOMAIN app'[b] = Fields /\ app'[b].pc = app[b].pc /\ app'[b].todo = app[b].todo
  BY <1>2 DEF BuildIInv, Fields
<1>4. DOMAIN app' = Builders /\ app'[a] = rec
  BY <1>2
<1>5. ASSUME NEW b \in Builders PROVE Fine(b)'
  <2>1. CASE b = a
    BY <1>1, <1>2, <1>4, <2>1, Apart DEF Fine, Todos
  <2>2. CASE b # a
    <3>1. slot = "undecided" => app[b].todo = <<>>
      BY DEF BuildIInv, Fine
    <3>2. Hides(b)' = Hides(b) /\ app'[b].pc = app[b].pc /\ app'[b].todo = app[b].todo
      BY <1>2, <1>3, <2>2 DEF Hides
    <3>3. slot' = "ours" => Prepared(app[b].todo, Hides(b))
      BY <1>2, <3>1, Apart DEF BuildIInv, Fine
    <3>. QED BY <1>2, <3>2, <3>3 DEF BuildIInv, Fine
  <2>. QED BY <2>1, <2>2
<1>. QED BY <1>1, <1>2, <1>3, <1>4, <1>5 DEF BuildIInv

\* The calls that may come next.
LEMMA NextCall ==
  ASSUME NEW todo \in Todos, todo # <<>>
  PROVE  \/ todo = OtelCalls /\ Head(todo) = Exclude(OtelPath)
            /\ Tail(todo) = <<Add("spans"), Add("logs")>>
         \/ todo = SentryCalls /\ Head(todo) = Exclude(Path["sentry"])
            /\ Tail(todo) = <<Add("sentry")>>
         \/ todo = <<Add("spans"), Add("logs")>> /\ Head(todo) = Add("spans")
            /\ Tail(todo) = <<Add("logs")>>
         \/ todo = <<Add("logs")>> /\ Head(todo) = Add("logs") /\ Tail(todo) = <<>>
         \/ todo = <<Add("sentry")>> /\ Head(todo) = Add("sentry") /\ Tail(todo) = <<>>
BY TodoSteps DEF Todos, Exporting

\* A call: the layers of what it leaves are those whose path it hides, or which was
\* hidden when it was made.
LEMMA CallMoves ==
  ASSUME BuildIInv, NEW a \in Builders, TelemetryCall(a)
  PROVE  BuildIInv' /\ [TelemetryNext]_telemetryVars
<1>. DEFINE todo == app[a].todo
            call == Head(todo)
            rec == [app[a] EXCEPT !.todo = Tail(@), !.added = @ \union ({call.kind} \ {NoKind})]
<1>1. /\ Becomes(a, rec) /\ app[a].pc = "building" /\ todo # <<>> /\ todo \in Todos
      /\ \/ slot = "ours" /\ call.op = "exclude" /\ CallExclude(a, call.targets)
         \/ slot = "ours" /\ call.op = "add" /\ CallAdd(a, call.kind)
         \/ slot # "ours" /\ UNCHANGED telemetryVars
  BY DEF TelemetryCall, BuildIInv, Fine
<1>2. DOMAIN rec = Fields /\ rec.pc = app[a].pc /\ rec.todo = Tail(todo)
  BY DEF BuildIInv, Fields
<1>. HIDE DEF rec
<1>3. /\ DOMAIN app' = Builders /\ app'[a] = rec
      /\ \A b \in Builders \ {a} : app'[b] = app[b]
  BY <1>1 DEF Becomes, BuildIInv
<1>4. rec.todo \in Todos
  BY <1>1, <1>2, NextCall DEF Todos, Exporting
<1>5. slot # "undecided"
  BY <1>1 DEF BuildIInv, Fine
<1>6. CASE slot # "ours"
  <2>1. UNCHANGED <<slot, doing, hid>>
    BY <1>1, <1>6 DEF telemetryVars, slotVars
  <2>2. \A b \in Builders : Fine(b)'
    BY <1>1, <1>2, <1>3, <1>4, <1>5, <1>6, <2>1 DEF BuildIInv, Fine
  <2>. QED BY <1>1, <1>2, <1>3, <1>6, <2>1, <2>2 DEF BuildIInv
<1>7. ASSUME slot = "ours", call.op = "exclude", CallExclude(a, call.targets)
      PROVE  BuildIInv' /\ [TelemetryNext]_telemetryVars
  <2>1. /\ call.targets \subseteq Targets
        /\ Prepared(Tail(todo), call.targets)
    <3>1. \/ call = Exclude(OtelPath) /\ Tail(todo) = <<Add("spans"), Add("logs")>>
          \/ call = Exclude(Path["sentry"]) /\ Tail(todo) = <<Add("sentry")>>
      BY <1>1, <1>7, NextCall, Ops
    <3>. HIDE DEF call
    <3>2. \/ call.targets = OtelPath /\ Tail(todo) = <<Add("spans"), Add("logs")>>
          \/ call.targets = Path["sentry"] /\ Tail(todo) = <<Add("sentry")>>
      BY <3>1, Ops
    <3>. QED BY <3>2, Paths, Apart
  <2>. DEFINE new == [Idle EXCEPT !.at = "write", !.targets = call.targets]
  <2>2. new \in Call /\ new.at = "write" /\ new.targets = call.targets
    BY <2>1 DEF Idle, Call, Ats
  <2>3. /\ doing' = [doing EXCEPT ![a] = new] /\ UNCHANGED <<slot, hid>> /\ doing[a].targets = {}
    BY <1>7, IdleCall DEF CallExclude, slotVars
  <2>. HIDE DEF new, call
  <2>4. /\ doing' \in [Builders -> Call] /\ doing'[a] = new
        /\ \A b \in Builders \ {a} : doing'[b] = doing[b]
    BY <2>2, <2>3 DEF BuildIInv
  <2>5. Prepared(Tail(todo), Hides(a)')
    BY <2>1, <2>2, <2>4, PreparedGrows DEF Hides
  <2>6. \A b \in Builders : Fine(b)'
    <3>1. Fine(a)'
      BY <1>1, <1>2, <1>3, <1>4, <1>5, <2>3, <2>5 DEF Fine
    <3>2. \A b \in Builders \ {a} : Fine(b)'
      BY <1>1, <1>2, <1>3, <2>3, <2>4 DEF BuildIInv, Fine, Hides
    <3>. QED BY <3>1, <3>2
  <2>7. TelemetryNext
    BY <1>7, <2>1 DEF TelemetryNext
  <2>. QED BY <1>2, <1>3, <2>2, <2>3, <2>4, <2>6, <2>7 DEF BuildIInv
<1>8. ASSUME slot = "ours", call.op = "add", CallAdd(a, call.kind)
      PROVE  BuildIInv' /\ [TelemetryNext]_telemetryVars
  <2>1. doing[a].targets = {} /\ Hides(a) = hid[a] /\ hid[a] \subseteq Targets
    BY <1>8, IdleCall DEF CallAdd, BuildIInv, Hides
  <2>2. Prepared(todo, hid[a])
    BY <1>8, <2>1 DEF BuildIInv, Fine
  <2>3. call.kind \in Kinds /\ PathHidden(a, call.kind) /\ Prepared(Tail(todo), hid[a])
    <3>1. \/ todo = <<Add("spans"), Add("logs")>> /\ call = Add("spans")
             /\ Tail(todo) = <<Add("logs")>>
          \/ todo = <<Add("logs")>> /\ call = Add("logs") /\ Tail(todo) = <<>>
          \/ todo = <<Add("sentry")>> /\ call = Add("sentry") /\ Tail(todo) = <<>>
      BY <1>1, <1>8, NextCall, Ops
    <3>. HIDE DEF call
    <3>2. CASE call = Add("sentry") /\ todo = <<Add("sentry")>> /\ Tail(todo) = <<>>
      <4>1. call.kind = "sentry" /\ Path["sentry"] \subseteq hid[a]
        BY <2>2, <3>2, Ops DEF Prepared
      <4>. QED BY <3>2, <4>1, Paths, Apart DEF PathHidden
    <3>3. CASE /\ todo \in Exporting /\ call \in {Add("spans"), Add("logs")}
               /\ Tail(todo) \in {<<Add("logs")>>, <<>>}
      <4>1. call.kind \in {"spans", "logs"} /\ OtelPath \subseteq hid[a]
        BY <2>2, <3>3, Ops DEF Prepared
      <4>2. Prepared(Tail(todo), hid[a])
        BY <3>3, <4>1, Apart
      <4>. QED BY <4>1, <4>2, Paths DEF PathHidden
    <3>. QED BY <3>1, <3>2, <3>3 DEF Exporting
  <2>. DEFINE new == [Idle EXCEPT !.at = "lock", !.kind = call.kind]
  <2>4. new \in Call /\ new.at = "lock" /\ new.targets = {}
    BY <2>3 DEF Idle, Call, Ats
  <2>5. doing' = [doing EXCEPT ![a] = new] /\ UNCHANGED <<slot, hid>>
    BY <1>8 DEF CallAdd, slotVars
  <2>. HIDE DEF new, call
  <2>6. /\ doing' \in [Builders -> Call] /\ doing'[a] = new
        /\ \A b \in Builders \ {a} : doing'[b] = doing[b]
    BY <2>4, <2>5 DEF BuildIInv
  <2>7. Prepared(Tail(todo), Hides(a)')
    BY <2>3, <2>5, PreparedGrows DEF Hides
  <2>8. \A b \in Builders : Fine(b)'
    <3>1. Fine(a)'
      BY <1>1, <1>2, <1>3, <1>4, <1>5, <2>5, <2>7 DEF Fine
    <3>2. \A b \in Builders \ {a} : Fine(b)'
      BY <1>1, <1>2, <1>3, <2>5, <2>6 DEF BuildIInv, Fine, Hides
    <3>. QED BY <3>1, <3>2
  <2>9. TelemetryNext
    BY <1>8, <2>3 DEF TelemetryNext
  <2>. QED BY <1>2, <1>3, <2>4, <2>5, <2>6, <2>8, <2>9 DEF BuildIInv
<1>. QED BY <1>1, <1>6, <1>7, <1>8

-----------------------------------------------------------------------------
\* Every step of the builders is one that the slot allows for, or none of its.
LEMMA NextKeepsProtocol ==
  BuildIInv /\ [Next]_vars => BuildIInv' /\ [TelemetryNext]_telemetryVars
<1>. SUFFICES ASSUME BuildIInv, [Next]_vars PROVE BuildIInv' /\ [TelemetryNext]_telemetryVars
  OBVIOUS
<1>1. ASSUME NEW a \in Builders, Create(a) PROVE BuildIInv' /\ [TelemetryNext]_telemetryVars
  BY <1>1, CreateMoves DEF Create, TelemetryNext
<1>2. ASSUME NEW a \in Builders, BuildStep(a) PROVE BuildIInv' /\ [TelemetryNext]_telemetryVars
  <2>1. CASE TelemetryStep(a) /\ UNCHANGED app
    BY <2>1, StepMoves DEF TelemetryNext
  <2>2. CASE TelemetryCall(a)
    BY <2>2, CallMoves
  <2>3. CASE Built(a)
    BY <2>3, BuiltMoves DEF Built
  <2>. QED BY <1>2, <2>1, <2>2, <2>3 DEF BuildStep
<1>3. ASSUME NEW a \in Builders, PluginFails(a) \/ RunFails(a) \/ Stop(a)
      PROVE  BuildIInv' /\ [TelemetryNext]_telemetryVars
  <2>1. Becomes(a, Over) /\ UNCHANGED telemetryVars
    BY <1>3 DEF PluginFails, RunFails, Stop
  <2>. QED BY <2>1, OverMoves
<1>4. ASSUME NEW a \in Builders, (\E prefix : TakeManual(a, prefix)) \/ Run(a)
      PROVE  BuildIInv' /\ [TelemetryNext]_telemetryVars
  BY <1>4, TakeManualMoves, RunMoves DEF TakeManual, Run
<1>5. ASSUME NEW a \in Builders, NEW p \in Offers[a], BeginPlugin(a, p) \/ Refused(a, p)
      PROVE  BuildIInv' /\ [TelemetryNext]_telemetryVars
  BY <1>5, BeginMoves, OverMoves DEF BeginPlugin, Refused
<1>6. ASSUME NEW target \in Targets, Emit(target), UNCHANGED app
      PROVE  BuildIInv' /\ [TelemetryNext]_telemetryVars
  <2>1. CASE Register(target)
    <3>1. UNCHANGED <<slot, doing, hid>> /\ \A a \in Builders : Hides(a)' = Hides(a)
      BY <2>1 DEF Register, slotVars, Hides
    <3>. QED BY <1>6, <3>1, SlotMoves DEF BuildIInv, TelemetryNext
  <2>2. CASE Asking(target)
    BY <1>6, <2>2, AskingMoves DEF TelemetryNext
  <2>. QED BY <1>6, <2>1, <2>2 DEF Emit
<1>7. CASE UNCHANGED vars
  BY <1>7 DEF vars, telemetryVars, slotVars, BuildIInv, Fine, Prepared, Hides
<1>. QED BY <1>1, <1>2, <1>3, <1>4, <1>5, <1>6, <1>7 DEF Next

\* The builds keep to the protocol of the slot (muxa-otel lib.rs:175, muxa-sentry
\* lib.rs:290): BuildChain implements TelemetrySlot.
THEOREM UsesTelemetryHolds == Spec => UsesTelemetry
<1>1. Init => TelemetryInit
  BY DEF Init
<1>. QED BY <1>1, InitBuildIInv, NextKeepsProtocol, PTL DEF Spec, UsesTelemetry, TelemetrySpec

\* So no layer of any app is given an event of its own export path (muxa-telemetry
\* lib.rs:33), whatever plugins the apps have and however their builds interleave,
\* but for a yes that was on its way when the crate was excluded, until the callsite
\* is asked again.
THEOREM AppsNeverReexport == Spec => []NeverReexported
BY UsesTelemetryHolds, NeverReexportedHolds, PTL DEF UsesTelemetry

\* The list of types is that of the stack, whichever apps are being built (lib.rs:69).
THEOREM AppsKeepKindsInStep == Spec => []KindsInStep
BY UsesTelemetryHolds, KindsInStepHolds, PTL DEF UsesTelemetry

\* What a plugin of any app has hidden stays hidden (lib.rs:38, 229-231), with the
\* same exception.
THEOREM AppsKeepHidden == Spec => []ExcludedStaysHidden
BY UsesTelemetryHolds, ExcludedStaysHiddenHolds, PTL DEF UsesTelemetry

-----------------------------------------------------------------------------
(* The layers of an app that has the process to itself                     *)

Alone(a) == app[a].alone /\ InUse(a)
Held(a, kind) == [kind |-> kind, owner |-> a] \in ToSet(layers)
Underway(a, kind) == doing[a].at \in {"lock", "modify"} /\ doing[a].kind = kind

\* Calls are made by the builders at work, an app that is alone is the only one in
\* use, and what it has added is in the stack or about to be.
AloneIInv ==
  /\ \A a \in Builders : app[a].pc # "building" => doing[a] = Idle
  /\ \A a \in Builders : Alone(a) => \A b \in Builders \ {a} : ~InUse(b)
  /\ \A a \in Builders : Alone(a) /\ slot = "ours" =>
       \A kind \in app[a].added : Held(a, kind) \/ Underway(a, kind)

LEMMA InitAloneIInv == Init => AloneIInv
<1>. SUFFICES ASSUME Init PROVE AloneIInv
  OBVIOUS
<1>1. \A a \in Builders : app[a].pc = "none" /\ doing[a] = Idle
  BY DEF Init, TelemetryInit, NoApp
<1>. QED BY <1>1 DEF AloneIInv, Alone, InUse

\* A step that neither adds a layer nor puts an app to use.
LEMMA AloneStays ==
  ASSUME AloneIInv, UNCHANGED <<slot, layers, doing>>,
         \A a \in Builders :
           /\ InUse(a)' => InUse(a)
           /\ Alone(a)' => Alone(a) /\ app'[a].added = app[a].added
           /\ app'[a].pc # "building" => doing[a] = Idle
  PROVE  AloneIInv'
<1>1. \A a \in Builders : Alone(a)' => \A b \in Builders \ {a} : ~InUse(b)'
  BY DEF AloneIInv
<1>2. ASSUME NEW a \in Builders, Alone(a)', slot' = "ours", NEW kind \in app'[a].added
      PROVE  Held(a, kind)' \/ Underway(a, kind)'
  <2>1. Held(a, kind) \/ Underway(a, kind)
    BY <1>2 DEF AloneIInv
  <2>. QED BY <2>1 DEF Held, Underway
<1>. QED BY <1>1, <1>2 DEF AloneIInv

LEMMA AloneBuilderMoves ==
  ASSUME BuildIInv, AloneIInv, NEW a \in Builders, NEW rec, Becomes(a, rec), UNCHANGED telemetryVars,
         rec.pc \in {"ready", "building", "running"} =>
           InUse(a) /\ rec.alone = app[a].alone /\ rec.added = app[a].added,
         rec.pc # "building" => doing[a] = Idle
  PROVE  AloneIInv'
<1>1. app'[a] = rec /\ \A b \in Builders \ {a} : app'[b] = app[b]
  BY DEF Becomes, BuildIInv
<1>2. UNCHANGED <<slot, layers, doing>>
  BY DEF telemetryVars, slotVars
<1>3. \A b \in Builders \ {a} :
        /\ InUse(b)' => InUse(b)
        /\ Alone(b)' => Alone(b) /\ app'[b].added = app[b].added
        /\ app'[b].pc # "building" => doing[b] = Idle
  BY <1>1 DEF AloneIInv, Alone, InUse
<1>4. /\ InUse(a)' => InUse(a)
      /\ Alone(a)' => Alone(a) /\ app'[a].added = app[a].added
      /\ app'[a].pc # "building" => doing[a] = Idle
  BY <1>1 DEF Alone, InUse
<1>. QED BY <1>2, <1>3, <1>4, AloneStays

LEMMA BuilderKeepsAlone ==
  ASSUME BuildIInv, AloneIInv, NEW a \in Builders,
         \/ Built(a) \/ PluginFails(a) \/ (\E prefix : TakeManual(a, prefix)) \/ Run(a) \/ RunFails(a)
         \/ Stop(a)
         \/ \E p \in Offers[a] : BeginPlugin(a, p) \/ Refused(a, p)
  PROVE  AloneIInv'
<1>1. app[a].pc # "building" => doing[a] = Idle
  BY DEF AloneIInv
<1>2. DOMAIN app[a] = Fields
  BY DEF BuildIInv
<1>3. ASSUME Becomes(a, Over), UNCHANGED telemetryVars, doing[a] = Idle PROVE AloneIInv'
  <2>1. Over.pc = "over"
    BY DEF Over, NoApp
  <2>. QED BY <1>3, <2>1, AloneBuilderMoves
<1>4. CASE Built(a)
  <2>. DEFINE rec == [app[a] EXCEPT !.pc = "ready", !.state = <<app[a].adding>> \o @, !.adding = ""]
  <2>1. rec.pc = "ready" /\ rec.alone = app[a].alone /\ rec.added = app[a].added
    BY <1>2 DEF Fields
  <2>2. Becomes(a, rec) /\ UNCHANGED telemetryVars /\ doing[a] = Idle /\ InUse(a)
    BY <1>4 DEF Built, InUse
  <2>. HIDE DEF rec
  <2>. QED BY <2>1, <2>2, AloneBuilderMoves
<1>5. CASE PluginFails(a) \/ RunFails(a) \/ Stop(a)
  BY <1>1, <1>3, <1>5 DEF PluginFails, RunFails, Stop
<1>6. ASSUME NEW prefix, TakeManual(a, prefix) PROVE AloneIInv'
  <2>1. PICK mounts, hand : Becomes(a, [app[a] EXCEPT !.mounts = mounts, !.hand = hand])
    BY <1>6 DEF TakeManual
  <2>. DEFINE rec == [app[a] EXCEPT !.mounts = mounts, !.hand = hand]
  <2>2. rec.pc = app[a].pc /\ rec.alone = app[a].alone /\ rec.added = app[a].added
    BY <1>2 DEF Fields
  <2>3. Becomes(a, rec) /\ UNCHANGED telemetryVars /\ app[a].pc = "ready"
    BY <1>6, <2>1 DEF TakeManual
  <2>. HIDE DEF rec
  <2>. QED BY <1>1, <2>2, <2>3, AloneBuilderMoves DEF InUse
<1>7. CASE Run(a)
  <2>. DEFINE rec == [app[a] EXCEPT !.pc = "running", !.router = Composed(a)]
  <2>1. rec.pc = "running" /\ rec.alone = app[a].alone /\ rec.added = app[a].added
    BY <1>2 DEF Fields
  <2>2. Becomes(a, rec) /\ UNCHANGED telemetryVars /\ app[a].pc = "ready"
    BY <1>7 DEF Run
  <2>. HIDE DEF rec
  <2>. QED BY <1>1, <2>1, <2>2, AloneBuilderMoves DEF InUse
<1>8. ASSUME NEW p \in Offers[a], Refused(a, p) PROVE AloneIInv'
  BY <1>1, <1>3, <1>8 DEF Refused
<1>9. ASSUME NEW p \in Offers[a], BeginPlugin(a, p) PROVE AloneIInv'
  <2>. PICK build \in Builds(p) :
         Becomes(a, [app[a] EXCEPT
            !.pc = "building", !.adding = p, !.mounts = Mounted(a, build),
            !.layers = @ \o build.layers, !.fallback = @ \/ build.fallback,
            !.serves = @ \/ build.serves, !.todo = build.calls])
    BY <1>9 DEF BeginPlugin
  <2>. DEFINE rec == [app[a] EXCEPT
            !.pc = "building", !.adding = p, !.mounts = Mounted(a, build),
            !.layers = @ \o build.layers, !.fallback = @ \/ build.fallback,
            !.serves = @ \/ build.serves, !.todo = build.calls]
  <2>1. rec.pc = "building" /\ rec.alone = app[a].alone /\ rec.added = app[a].added
    BY <1>2 DEF Fields
  <2>2. Becomes(a, rec) /\ UNCHANGED telemetryVars /\ app[a].pc = "ready"
    BY <1>9 DEF BeginPlugin
  <2>. HIDE DEF rec
  <2>. QED BY <2>1, <2>2, AloneBuilderMoves DEF InUse
<1>. QED BY <1>4, <1>5, <1>6, <1>7, <1>8, <1>9

\* The app that is created has added nothing, and the others are no longer alone.
LEMMA CreateKeepsAlone ==
  ASSUME BuildIInv, AloneIInv, NEW a \in Builders, Create(a)
  PROVE  AloneIInv'
<1>. DEFINE rec == [NoApp EXCEPT !.pc = "ready", !.alone = \A c \in Builders : ~InUse(c)]
<1>1. /\ rec.pc = "ready" /\ rec.added = {}
      /\ rec.alone <=> \A c \in Builders : ~InUse(c)
  BY DEF NoApp
<1>2. /\ app' = [b \in Builders |-> IF b = a THEN rec ELSE [app[b] EXCEPT !.alone = FALSE]]
      /\ app[a].pc = "none" /\ UNCHANGED doing
  BY DEF Create, Install
<1>. HIDE DEF rec
<1>3. \A b \in Builders \ {a} : app'[b].pc = app[b].pc /\ ~app'[b].alone
  BY <1>2 DEF BuildIInv, Fields
<1>4. app'[a] = rec
  BY <1>2
<1>5. doing[a] = Idle
  BY <1>2 DEF AloneIInv
<1>6. \A b \in Builders : app'[b].pc # "building" => doing'[b] = Idle
  BY <1>2, <1>3, <1>5 DEF AloneIInv
<1>7. \A b \in Builders \ {a} : ~Alone(b)'
  BY <1>3 DEF Alone
<1>8. Alone(a)' => \A b \in Builders \ {a} : ~InUse(b)'
  BY <1>1, <1>3, <1>4 DEF Alone, InUse
<1>. QED BY <1>1, <1>4, <1>6, <1>7, <1>8 DEF AloneIInv

\* A step of an app's own call: only its layers are to be looked at.
LEMMA OwnCall ==
  ASSUME AloneIInv, NEW a \in Builders, app[a].pc = "building", app'[a].pc = "building",
         \A b \in Builders \ {a} : app'[b] = app[b] /\ doing'[b] = doing[b],
         app'[a].alone = app[a].alone,
         Alone(a) /\ slot' = "ours" =>
           \A kind \in app'[a].added : Held(a, kind)' \/ Underway(a, kind)'
  PROVE  AloneIInv'
<1>1. \A b \in Builders : InUse(b)' = InUse(b) /\ Alone(b)' = Alone(b)
  BY DEF InUse, Alone
<1>2. \A b \in Builders \ {a} : ~Alone(b)
  BY DEF AloneIInv, InUse
<1>3. \A b \in Builders : app'[b].pc # "building" => doing'[b] = Idle
  BY DEF AloneIInv
<1>. QED BY <1>1, <1>2, <1>3 DEF AloneIInv

\* The new layer takes the place of the one of its kind, and no other's.
LEMMA AttachedHolds ==
  ASSUME Mirrors, layers \in Seq(Layer), kinds \in Seq(Kinds), NEW b \in Builders, NEW kind \in Kinds,
         layers' = Attached([kind |-> kind, owner |-> b])
  PROVE  /\ Held(b, kind)'
         /\ \A k : Held(b, k) => Held(b, k)'
<1>. DEFINE new == [kind |-> kind, owner |-> b]
<1>1. Len(layers) \in Nat /\ Len(layers) = Len(kinds) /\ DOMAIN layers = 1..Len(layers)
  BY DEF Mirrors
<1>2. CASE Known(kind)
  <2>1. layers' = [i \in 1..Len(layers) |-> IF kinds[i] = kind THEN new ELSE layers[i]]
    BY <1>2 DEF Attached
  <2>2. DOMAIN layers' = 1..Len(layers)
    BY <2>1
  <2>3. PICK i \in 1..Len(layers) : kinds[i] = kind
    BY <1>1, <1>2 DEF Known
  <2>4. layers'[i] = new
    BY <2>1, <2>3
  <2>5. ASSUME NEW k, Held(b, k) PROVE Held(b, k)'
    <3>1. PICK j \in 1..Len(layers) : layers[j] = [kind |-> k, owner |-> b]
      BY <1>1, <2>5 DEF Held, ToSet
    <3>2. kinds[j] = k
      BY <1>1, <3>1 DEF Mirrors, Prefix
    <3>3. layers'[j] = [kind |-> k, owner |-> b]
      BY <2>1, <3>1, <3>2
    <3>. QED BY <2>2, <3>3 DEF Held, ToSet
  <2>. QED BY <2>2, <2>4, <2>5 DEF Held, ToSet
<1>3. CASE ~Known(kind)
  <2>1. layers' = Append(layers, new)
    BY <1>3 DEF Attached
  <2>2. /\ DOMAIN layers' = 1..(Len(layers) + 1)
        /\ layers'[Len(layers) + 1] = new
        /\ \A i \in 1..Len(layers) : layers'[i] = layers[i]
    BY <1>1, <2>1
  <2>3. Held(b, kind)'
    BY <1>1, <2>2 DEF Held, ToSet
  <2>4. ASSUME NEW k, Held(b, k) PROVE Held(b, k)'
    <3>1. PICK j \in 1..Len(layers) : layers[j] = [kind |-> k, owner |-> b]
      BY <1>1, <2>4 DEF Held, ToSet
    <3>. QED BY <1>1, <2>2, <3>1 DEF Held, ToSet
  <2>. QED BY <2>3, <2>4
<1>. QED BY <1>2, <1>3

LEMMA StepKeepsAlone ==
  ASSUME IInv, AloneIInv, NEW a \in Builders, TelemetryStep(a), UNCHANGED app
  PROVE  AloneIInv'
<1>1. doing \in [Builders -> Call]
  BY TypeOKUnfolded DEF IInv
<1>2. ASSUME Asking(a) PROVE AloneIInv'
  BY <1>2, AskingChanges, AloneStays DEF AloneIInv, Alone, InUse
<1>3. SUFFICES ASSUME ~Asking(a) PROVE AloneIInv'
  BY <1>2
<1>4. /\ doing[a].at # "idle" /\ slot' = slot
      /\ \A b \in Builders \ {a} : doing'[b] = doing[b]
  <2>1. \/ Write(a) \/ DropGuard(a) \/ Rebuilt(a) \/ Lock(a) \/ Modify(a) \/ Push(a)
    BY <1>3 DEF TelemetryStep
  <2>. QED BY <1>1, <2>1
       DEF Write, DropGuard, Rebuilt, Lock, Modify, Push, Goes, Returns, slotVars
<1>5. app[a].pc = "building"
  BY <1>4, IdleCall DEF AloneIInv
<1>6. ASSUME Alone(a), slot = "ours", NEW kind \in app[a].added
      PROVE  Held(a, kind)' \/ Underway(a, kind)'
  <2>1. Held(a, kind) \/ Underway(a, kind)
    BY <1>6 DEF AloneIInv
  <2>2. CASE Write(a) \/ DropGuard(a) \/ Rebuilt(a) \/ Push(a)
    <3>1. doing[a].at \notin {"lock", "modify"} /\ UNCHANGED layers
      BY <2>2 DEF Write, DropGuard, Rebuilt, Push, slotVars
    <3>. QED BY <2>1, <3>1 DEF Held, Underway
  <2>3. CASE Lock(a)
    <3>1. /\ doing'[a].at = "modify" /\ doing'[a].kind = doing[a].kind
      BY <1>1, <2>3, AtOf DEF Lock, Ats
    <3>2. UNCHANGED layers
      BY <2>3 DEF Lock
    <3>. QED BY <2>1, <3>1, <3>2 DEF Held, Underway
  <2>4. CASE Modify(a)
    <3>. PICK added : added = doing[a].kind
      OBVIOUS
    <3>1. /\ doing[a].at = "modify" /\ layers' = Attached([kind |-> added, owner |-> a])
      BY <2>4 DEF Modify
    <3>2. added \in Kinds
      BY <3>1 DEF IInv, CallsInOrder, Adding
    <3>3. Mirrors
      <4>1. lock = a
        BY <3>1 DEF IInv, InStep
      <4>2. \A b \in Builders : doing[b].at # "push"
        BY <3>1, <4>1 DEF IInv, InStep
      <4>. QED BY <4>2 DEF IInv, InStep
    <3>4. layers \in Seq(Layer) /\ kinds \in Seq(Kinds)
      BY TypeOKUnfolded DEF IInv
    <3>5. Held(a, added)' /\ \A k : Held(a, k) => Held(a, k)'
      BY <3>1, <3>2, <3>3, <3>4, AttachedHolds
    <3>. QED BY <2>1, <3>5 DEF Underway
  <2>. QED BY <1>3, <2>2, <2>3, <2>4 DEF TelemetryStep
<1>. QED BY <1>4, <1>5, <1>6, OwnCall

LEMMA CallKeepsAlone ==
  ASSUME BuildIInv, AloneIInv, NEW a \in Builders, TelemetryCall(a)
  PROVE  AloneIInv'
<1>. DEFINE todo == app[a].todo
            call == Head(todo)
            rec == [app[a] EXCEPT !.todo = Tail(@), !.added = @ \union ({call.kind} \ {NoKind})]
<1>1. /\ Becomes(a, rec) /\ app[a].pc = "building" /\ todo # <<>> /\ todo \in Todos
      /\ \/ slot = "ours" /\ call.op = "exclude" /\ CallExclude(a, call.targets)
         \/ slot = "ours" /\ call.op = "add" /\ CallAdd(a, call.kind)
         \/ slot # "ours" /\ UNCHANGED telemetryVars
  BY DEF TelemetryCall, BuildIInv, Fine
<1>2. /\ rec.pc = app[a].pc /\ rec.alone = app[a].alone
      /\ rec.added = app[a].added \union ({call.kind} \ {NoKind})
  BY DEF BuildIInv, Fields
<1>3. app'[a] = rec /\ \A b \in Builders \ {a} : app'[b] = app[b]
  BY <1>1 DEF Becomes, BuildIInv
<1>. HIDE DEF rec, call
<1>4. CASE slot # "ours"
  <2>1. UNCHANGED <<slot, doing>>
    BY <1>1, <1>4 DEF telemetryVars, slotVars
  <2>. QED BY <1>1, <1>2, <1>3, <1>4, <2>1, OwnCall
<1>5. ASSUME slot = "ours", call.op = "exclude", CallExclude(a, call.targets)
      PROVE  AloneIInv'
  <2>1. call.kind = NoKind
    <3>1. call = Exclude(OtelPath) \/ call = Exclude(Path["sentry"])
      BY <1>1, <1>5, NextCall, Ops DEF call
    <3>. QED BY <3>1 DEF Exclude
  <2>2. /\ doing[a] = Idle /\ UNCHANGED layers /\ rec.added = app[a].added
        /\ \A b \in Builders \ {a} : doing'[b] = doing[b]
    BY <1>2, <1>5, <2>1 DEF CallExclude, slotVars, BuildIInv
  <2>3. ASSUME Alone(a), NEW kind \in rec.added PROVE Held(a, kind)'
    <3>1. Held(a, kind)
      BY <1>5, <2>2, <2>3, IdleCall DEF AloneIInv, Underway
    <3>. QED BY <2>2, <3>1 DEF Held
  <2>. QED BY <1>1, <1>2, <1>3, <2>2, <2>3, OwnCall
<1>6. ASSUME slot = "ours", call.op = "add", CallAdd(a, call.kind)
      PROVE  AloneIInv'
  <2>. DEFINE new == [Idle EXCEPT !.at = "lock", !.kind = call.kind]
  <2>1. new.at = "lock" /\ new.kind = call.kind
    BY DEF Idle
  <2>2. doing' = [doing EXCEPT ![a] = new] /\ doing[a] = Idle /\ UNCHANGED layers
    BY <1>6 DEF CallAdd, slotVars
  <2>. HIDE DEF new
  <2>3. doing'[a] = new /\ \A b \in Builders \ {a} : doing'[b] = doing[b]
    BY <2>2 DEF BuildIInv
  <2>4. ASSUME Alone(a), NEW kind \in rec.added PROVE Held(a, kind)' \/ Underway(a, kind)'
    <3>1. CASE kind \in app[a].added
      <4>1. Held(a, kind)
        BY <1>6, <2>2, <2>4, <3>1, IdleCall DEF AloneIInv, Underway
      <4>. QED BY <2>2, <4>1 DEF Held
    <3>2. CASE kind = call.kind
      BY <2>1, <2>3, <3>2 DEF Underway
    <3>. QED BY <1>2, <3>1, <3>2
  <2>. QED BY <1>1, <1>2, <1>3, <2>3, <2>4, OwnCall
<1>. QED BY <1>1, <1>4, <1>5, <1>6

LEMMA NextKeepsAlone == BuildIInv /\ IInv /\ AloneIInv /\ [Next]_vars => AloneIInv'
<1>. SUFFICES ASSUME BuildIInv, IInv, AloneIInv, [Next]_vars PROVE AloneIInv'
  OBVIOUS
<1>1. ASSUME NEW a \in Builders, BuildStep(a) PROVE AloneIInv'
  BY <1>1, StepKeepsAlone, CallKeepsAlone, BuilderKeepsAlone DEF BuildStep
<1>2. ASSUME UNCHANGED <<slot, layers, doing, app>> PROVE AloneIInv'
  BY <1>2, AloneStays DEF AloneIInv, Alone, InUse
<1>3. ASSUME NEW target \in Targets, Emit(target), UNCHANGED app PROVE AloneIInv'
  BY <1>2, <1>3, AskingChanges DEF Emit, Register, slotVars
<1>4. CASE UNCHANGED vars
  BY <1>2, <1>4 DEF vars, telemetryVars, slotVars
<1>. QED BY <1>1, <1>3, <1>4, CreateKeepsAlone, BuilderKeepsAlone DEF Next

\* A second app built in the process is traced as well as the first (lib.rs:28): the
\* layers of an app that has it to itself are its own, whichever apps ran or failed
\* before it and whatever they left in the slot.
THEOREM RebuildTracedHolds == Spec => []RebuildTraced
<1>1. AloneIInv => RebuildTraced
  <2>1. \A a \in Builders : AloneIInv /\ app[a].pc = "running" => InUse(a) /\ doing[a].at = "idle"
    BY IdleCall DEF AloneIInv, InUse
  <2>. QED BY <2>1 DEF AloneIInv, RebuildTraced, Alone, Held, Underway
<1>2. Spec => [](BuildIInv /\ IInv)
  BY InitBuildIInv, NextKeepsProtocol, UsesTelemetryHolds, Invariance, PTL DEF Spec, UsesTelemetry
<1>. QED BY <1>1, <1>2, InitAloneIInv, NextKeepsAlone, PTL DEF Spec

-----------------------------------------------------------------------------
(* The concatenation of a sequence of sequences                            *)

LEMMA Least ==
  ASSUME NEW T \in SUBSET Nat, T # {}
  PROVE  \E x \in T : \A y \in T : x <= y
<1>. DEFINE R == {ss \in Nat \X Nat : ss[1] < ss[2]}
<1>1. IsWellFoundedOn(R, Nat)
  BY NatLessThanWellFounded DEF OpToRel
<1>. HIDE DEF R
<1>2. \E x \in T : \A y \in T : <<y, x>> \notin R
  BY <1>1, WFMin
<1>3. \A x, y \in Nat : <<y, x>> \notin R => x <= y
  BY DEF R
<1>. QED
  BY <1>2, <1>3

\* f[i] is the concatenation of the first i sequences of seqs.
Concats(f, seqs, n) ==
  f = [i \in 1..n |-> IF i = 1 THEN seqs[i] ELSE f[i - 1] \o seqs[i]]

LEMMA ConcatsExist == ASSUME NEW seqs, NEW n \in Nat PROVE \E f : Concats(f, seqs, n)
<1>. DEFINE T == {m \in Nat : ~ \E f : Concats(f, seqs, m)}
<1>1. SUFFICES T = {}
  OBVIOUS
<1>2. SUFFICES ASSUME T # {} PROVE FALSE
  OBVIOUS
<1>3. PICK m \in T : \A k \in T : m <= k
  <2>1. T \in SUBSET Nat
    OBVIOUS
  <2>. HIDE DEF T
  <2>. QED BY <1>2, <2>1, Least
<1>4. CASE m = 0
  <2>1. Concats([i \in {} |-> {}], seqs, 0)
    BY DEF Concats
  <2>. QED BY <1>3, <1>4, <2>1
<1>5. CASE m # 0
  <2>. PICK k \in Nat : m = k + 1
    BY <1>3, <1>5
  <2>1. PICK f : Concats(f, seqs, k)
    BY <1>3
  <2>. DEFINE g == [i \in 1..m |-> IF i \in 1..k THEN f[i]
                                   ELSE IF i = 1 THEN seqs[i] ELSE f[i-1] \o seqs[i]]
  <2>2. Concats(g, seqs, m)
    <3>2. ASSUME NEW i \in 1..m PROVE g[i] = IF i = 1 THEN seqs[i] ELSE g[i-1] \o seqs[i]
      <4>1. i # 1 => i-1 \in 1..k /\ i-1 \in 1..m
        OBVIOUS
      <4>2. i # 1 => g[i-1] = f[i-1]
        BY <4>1
      <4>3. g[i] = IF i = 1 THEN seqs[i] ELSE f[i-1] \o seqs[i]
        BY <2>1 DEF Concats
      <4>. HIDE DEF g
      <4>. QED BY <4>2, <4>3
    <3>3. g = [i \in 1..m |-> g[i]]
      OBVIOUS
    <3>. HIDE DEF g
    <3>. QED BY <3>2, <3>3 DEF Concats
  <2>. QED BY <1>3, <2>2
<1>. QED BY <1>4, <1>5

LEMMA ConcatsAgree ==
  ASSUME NEW f, NEW g, NEW seqs, NEW more, NEW n \in Nat, NEW m \in Nat, n <= m,
         Concats(f, seqs, n), Concats(g, more, m), \A i \in 1..n : seqs[i] = more[i]
  PROVE  \A i \in 1..n : f[i] = g[i]
<1>. DEFINE T == {i \in 1..n : f[i] # g[i]}
<1>2. SUFFICES ASSUME T # {} PROVE FALSE
  OBVIOUS
<1>3. PICK k \in T : \A i \in T : k <= i
  <2>1. T \in SUBSET Nat
    OBVIOUS
  <2>. HIDE DEF T
  <2>. QED BY <1>2, <2>1, Least
<1>4. k # 1 => f[k-1] = g[k-1]
  BY <1>3
<1>5. /\ f[k] = IF k = 1 THEN seqs[k] ELSE f[k-1] \o seqs[k]
      /\ g[k] = IF k = 1 THEN more[k] ELSE g[k-1] \o more[k]
  <2>1. k \in 1..n /\ k \in 1..m
    BY <1>3
  <2>. QED BY <2>1 DEF Concats
<1>. QED BY <1>3, <1>4, <1>5

LEMMA FlattenIs ==
  ASSUME NEW seqs, Len(seqs) \in Nat \ {0}
  PROVE  \E f : Concats(f, seqs, Len(seqs)) /\ FlattenSeq(seqs) = f[Len(seqs)]
<1>. PICK n \in Nat : n = Len(seqs) /\ n # 0
  OBVIOUS
<1>. DEFINE P(f) == f = [i \in 1..n |-> IF i = 1 THEN seqs[i] ELSE f[i-1] \o seqs[i]]
<1>1. PICK f : Concats(f, seqs, n)
  BY ConcatsExist
<1>2. \A h : P(h) => Concats(h, seqs, n)
  BY DEF Concats
<1>3. FlattenSeq(seqs) = (CHOOSE h : P(h))[n]
  BY DEF FlattenSeq
<1>4. P(f)
  BY <1>1 DEF Concats
<1>. HIDE DEF P
<1>5. P(CHOOSE h : P(h))
  BY <1>4
<1>. QED BY <1>2, <1>3, <1>5

\* What FlattenSeq makes of one sequence more.
LEMMA FlattenGrows ==
  ASSUME NEW seqs, NEW more, NEW n \in Nat, Len(seqs) = n, Len(more) = n + 1,
         \A i \in 1..n : more[i] = seqs[i]
  PROVE  FlattenSeq(more) = IF n = 0 THEN more[1] ELSE FlattenSeq(seqs) \o more[n + 1]
<1>1. PICK g : Concats(g, more, n + 1) /\ FlattenSeq(more) = g[n + 1]
  <2>1. Len(more) \in Nat \ {0}
    OBVIOUS
  <2>. QED BY <2>1, FlattenIs
<1>2. g[n + 1] = IF n + 1 = 1 THEN more[n + 1] ELSE g[n] \o more[n + 1]
  <2>1. n + 1 \in 1..(n + 1) /\ (n + 1) - 1 = n
    OBVIOUS
  <2>. QED BY <1>1, <2>1 DEF Concats
<1>3. ASSUME n # 0 PROVE g[n] = FlattenSeq(seqs)
  <2>1. PICK f : Concats(f, seqs, n) /\ FlattenSeq(seqs) = f[n]
    BY <1>3, FlattenIs
  <2>2. \A i \in 1..n : f[i] = g[i]
    <3>1. n + 1 \in Nat /\ n <= n + 1
      OBVIOUS
    <3>. QED BY <1>1, <2>1, <3>1, ConcatsAgree
  <2>. QED BY <1>3, <2>1, <2>2
<1>. QED BY <1>1, <1>2, <1>3

-----------------------------------------------------------------------------
(* What the plugins of a chain have registered                             *)

Routes == {"auth", "docs", "app", "api", "admin", "ops"}
Entry == [routes : SUBSET Routes, mount : {"auto", "manual", "taken"}]
LayerFns == {"trace", "sentry-http", "sentry-scope", "session", "guard"}

LayersOf(p) == (CHOOSE build \in Builds(p) : TRUE).layers
MountsOf(p) == (CHOOSE build \in Builds(p) : TRUE).mounts

LayersAlong(chain) == FlattenSeq([i \in DOMAIN chain |-> LayersOf(chain[i])])

\* The builds of a plugin differ in what they do besides.
LEMMA BuildsAgree ==
  ASSUME NEW p \in Plugins
  PROVE  /\ \A build \in Builds(p) : build.layers = LayersOf(p) /\ build.mounts = MountsOf(p)
         /\ LayersOf(p) \in Seq(LayerFns) /\ MountsOf(p) \in Seq(Entry)
<1>1. PICK layersOf, mountsOf :
        /\ layersOf \in Seq(LayerFns) /\ mountsOf \in Seq(Entry)
        /\ \A build \in Builds(p) : build.layers = layersOf /\ build.mounts = mountsOf
  <2>1. /\ Nothing.layers = <<>> /\ Nothing.mounts = <<>> /\ <<>> \in Seq(LayerFns) /\ <<>> \in Seq(Entry)
        /\ \A f \in {"mounts", "layers", "fallback", "serves", "calls"} : f \in DOMAIN Nothing
    BY DEF Nothing
  <2>2. \A routes \in SUBSET Routes : AutoMount(routes) \in Entry /\ ManualMount(routes) \in Entry
    BY DEF AutoMount, ManualMount, Entry
  <2>. USE DEF LayerFns, Routes
  <2>3. \A x \in Entry : <<x>> \in Seq(Entry)
    OBVIOUS
  <2>4. \A x, y \in Entry : <<x, y>> \in Seq(Entry)
    OBVIOUS
  <2>5. CASE p \in {"pool", "pgmq", "spa"}
    <3>1. \A build \in Builds(p) : build.layers = <<>> /\ build.mounts = <<>>
      BY <2>1, <2>5 DEF Builds, Pool, Pgmq, Spa
    <3>. QED BY <2>1, <3>1
  <2>6. CASE p = "otel"
    <3>1. \A build \in Otel : build.layers = <<"trace">> /\ build.mounts = <<>>
      BY <2>1 DEF Otel
    <3>2. \A build \in Builds(p) : build.layers = <<"trace">> /\ build.mounts = <<>>
      BY <2>6, <3>1 DEF Builds
    <3>3. <<"trace">> \in Seq(LayerFns)
      OBVIOUS
    <3>. QED BY <2>1, <3>2, <3>3
  <2>7. CASE p = "sentry"
    <3>1. \A build \in Builds(p) : build.layers = SentryLayers /\ build.mounts = <<>>
      BY <2>1, <2>7 DEF Builds, Sentry
    <3>2. SentryLayers \in Seq(LayerFns)
      BY DEF SentryLayers
    <3>. QED BY <2>1, <3>1, <3>2
  <2>8. CASE p = "auth"
    <3>1. \A build \in Builds(p) :
            build.layers = <<"session", "guard">> /\ build.mounts = <<AutoMount({"auth"})>>
      BY <2>1, <2>8 DEF Builds, Auth
    <3>2. <<"session", "guard">> \in Seq(LayerFns) /\ <<AutoMount({"auth"})>> \in Seq(Entry)
      BY <2>2, <2>3
    <3>. QED BY <3>1, <3>2
  <2>9. CASE p \in {"openapi", "web"}
    <3>. DEFINE routes == IF p = "web" THEN {"app"} ELSE {"docs"}
    <3>1. \A build \in Builds(p) : build.layers = <<>> /\ build.mounts = <<AutoMount(routes)>>
      BY <2>1, <2>9 DEF Builds, OpenApi, Web
    <3>2. routes \in SUBSET Routes
      OBVIOUS
    <3>. HIDE DEF routes
    <3>. QED BY <2>1, <2>2, <2>3, <3>1, <3>2
  <2>10. CASE p = "api"
    <3>1. \A build \in Builds(p) :
            build.layers = <<>> /\ build.mounts = <<AutoMount({"app"}), AutoMount({"docs"})>>
      BY <2>1, <2>10 DEF Builds, Api
    <3>2. AutoMount({"app"}) \in Entry /\ AutoMount({"docs"}) \in Entry
      BY <2>2
    <3>. QED BY <2>1, <2>4, <3>1, <3>2
  <2>11. CASE p = "own"
    <3>1. \A build \in Builds(p) :
            build.layers = <<>>
            /\ build.mounts = <<ManualMount({"admin"}), AutoMount({"api"}), ManualMount({"ops"})>>
      BY <2>1, <2>11 DEF Builds, Own
    <3>2. /\ ManualMount({"admin"}) \in Entry /\ AutoMount({"api"}) \in Entry
          /\ ManualMount({"ops"}) \in Entry
      BY <2>2
    <3>3. \A x, y, z \in Entry : <<x, y, z>> \in Seq(Entry)
      OBVIOUS
    <3>. QED BY <2>1, <3>1, <3>2, <3>3
  <2>. QED BY <2>5, <2>6, <2>7, <2>8, <2>9, <2>10, <2>11 DEF Plugins
<1>2. Builds(p) # {}
  BY DEF Plugins, Builds, Otel, Sentry, Auth, Spa, OpenApi, Web, Api, Pool, Pgmq, Own
<1>3. (CHOOSE build \in Builds(p) : TRUE) \in Builds(p)
  BY <1>2
<1>. QED BY <1>1, <1>3 DEF LayersOf, MountsOf

-----------------------------------------------------------------------------
(* The chain of each app                                                   *)

\* In the order of the calls of with_plugin.
ChainOf(rec) ==
  IF rec.pc = "building" THEN Append(Reverse(rec.state), rec.adding) ELSE Reverse(rec.state)

AutoRoute(mounts, route) ==
  \E i \in DOMAIN mounts : mounts[i].mount = "auto" /\ route \in mounts[i].routes

\* Every route that p mounts by itself is there.
MountedAll(mounts, p) ==
  \A route \in Routes : AutoRoute(MountsOf(p), route) => AutoRoute(mounts, route)

ChainFine(rec) ==
  rec.pc \in {"ready", "building", "running"} =>
    /\ rec.state \in Seq(Plugins) /\ ChainOf(rec) \in Seq(Plugins)
    /\ rec.mounts \in Seq(Entry) /\ rec.hand \subseteq Routes
    /\ rec.layers \in Seq(LayerFns) /\ rec.layers = LayersAlong(ChainOf(rec))
    /\ \A i \in DOMAIN ChainOf(rec) : MountedAll(rec.mounts, ChainOf(rec)[i])

RouterFine(rec) ==
  rec.pc = "running" =>
    \A route \in Routes \union {"fallback"} :
      route = "fallback" \/ AutoRoute(rec.mounts, route) =>
        route \in DOMAIN rec.router /\ rec.router[route] = rec.layers

\* The layers are those of the chain in its order, no route that a plugin mounts by
\* itself is lost, and the router has the layers around each of them.
ChainIInv == \A a \in Builders : ChainFine(app[a]) /\ RouterFine(app[a])

LEMMA ReverseIs ==
  ASSUME NEW s \in Seq(Plugins)
  PROVE  /\ Reverse(s) \in Seq(Plugins) /\ Len(Reverse(s)) = Len(s)
         /\ \A p \in Plugins : <<p>> \o s \in Seq(Plugins) /\ Reverse(<<p>> \o s) = Append(Reverse(s), p)
<1>1. /\ Len(s) \in Nat /\ DOMAIN s = 1..Len(s)
      /\ \A i \in 1..Len(s) : s[i] \in Plugins /\ (Len(s) - i) + 1 \in 1..Len(s)
  OBVIOUS
<1>2. Reverse(s) \in Seq(Plugins) /\ Len(Reverse(s)) = Len(s)
  BY <1>1 DEF Reverse
<1>3. ASSUME NEW p \in Plugins
      PROVE  <<p>> \o s \in Seq(Plugins) /\ Reverse(<<p>> \o s) = Append(Reverse(s), p)
  <2>. DEFINE t == <<p>> \o s
  <2>1. /\ t \in Seq(Plugins) /\ Len(t) = Len(s) + 1 /\ t[1] = p
        /\ \A i \in 1..Len(s) : t[i + 1] = s[i]
    OBVIOUS
  <2>. HIDE DEF t
  <2>2. Reverse(t) = [i \in 1..(Len(s) + 1) |-> t[((Len(s) + 1) - i) + 1]]
    BY <2>1 DEF Reverse
  <2>3. Append(Reverse(s), p) =
          [i \in 1..(Len(s) + 1) |-> IF i = Len(s) + 1 THEN p ELSE s[(Len(s) - i) + 1]]
    BY <1>1, <1>2 DEF Reverse
  <2>4. ASSUME NEW i \in 1..(Len(s) + 1)
        PROVE  t[((Len(s) + 1) - i) + 1] = IF i = Len(s) + 1 THEN p ELSE s[(Len(s) - i) + 1]
    <3>1. CASE i = Len(s) + 1
      BY <1>1, <2>1, <3>1
    <3>2. CASE i # Len(s) + 1
      <4>1. (Len(s) - i) + 1 \in 1..Len(s) /\ ((Len(s) + 1) - i) + 1 = ((Len(s) - i) + 1) + 1
        BY <1>1, <3>2
      <4>. QED BY <2>1, <3>2, <4>1
    <3>. QED BY <3>1, <3>2
  <2>5. Reverse(t) = Append(Reverse(s), p)
    BY <2>2, <2>3, <2>4
  <2>. QED BY <2>1, <2>5 DEF t
<1>. QED BY <1>2, <1>3

\* A chain with one plugin more has its layers outermost.
LEMMA LayersGrow ==
  ASSUME NEW chain \in Seq(Plugins), NEW p \in Plugins, LayersAlong(chain) \in Seq(LayerFns)
  PROVE  /\ LayersAlong(Append(chain, p)) = LayersAlong(chain) \o LayersOf(p)
         /\ LayersAlong(chain) \o LayersOf(p) \in Seq(LayerFns)
<1>. DEFINE n == Len(chain)
            seqs == [i \in DOMAIN chain |-> LayersOf(chain[i])]
            next == Append(chain, p)
            more == [i \in DOMAIN next |-> LayersOf(next[i])]
<1>1. /\ n \in Nat /\ DOMAIN chain = 1..n /\ next \in Seq(Plugins) /\ DOMAIN next = 1..(n + 1)
      /\ next[n + 1] = p /\ \A i \in 1..n : next[i] = chain[i]
  OBVIOUS
<1>. HIDE DEF n, next
<1>2. /\ Len(seqs) = n /\ Len(more) = n + 1 /\ more[n + 1] = LayersOf(p)
      /\ \A i \in 1..n : more[i] = seqs[i]
  BY <1>1
<1>3. LayersAlong(chain) = FlattenSeq(seqs) /\ LayersAlong(next) = FlattenSeq(more)
  BY DEF LayersAlong
<1>4. n = 0 => FlattenSeq(seqs) = <<>>
  <2>. HAVE n = 0
  <2>1. seqs = <<>> /\ Len(seqs) = 0
    BY <1>1
  <2>. HIDE DEF seqs
  <2>. QED BY <2>1 DEF FlattenSeq
<1>. HIDE DEF seqs, more
<1>5. FlattenSeq(more) = IF n = 0 THEN more[1] ELSE FlattenSeq(seqs) \o more[n + 1]
  <2>1. n \in Nat
    BY <1>1
  <2>. QED BY ONLY <1>2, <2>1, FlattenGrows
<1>6. LayersOf(p) \in Seq(LayerFns)
  BY BuildsAgree
<1>7. <<>> \o LayersOf(p) = LayersOf(p)
  BY <1>6
<1>8. FlattenSeq(more) = FlattenSeq(seqs) \o LayersOf(p)
  <2>1. CASE n = 0
    <3>1. n + 1 = 1
      BY ONLY <2>1
    <3>2. FlattenSeq(more) = LayersOf(p) /\ FlattenSeq(seqs) = <<>>
      BY ONLY <1>2, <1>4, <1>5, <2>1, <3>1, Zenon
    <3>. QED BY ONLY <1>7, <3>2, Zenon
  <2>2. CASE n # 0
    BY ONLY <1>2, <1>5, <2>2
  <2>. QED BY <2>1, <2>2
<1>. QED BY <1>3, <1>6, <1>8 DEF next

LEMMA ChainMoves ==
  ASSUME BuildIInv, ChainIInv, NEW a \in Builders, NEW rec, Becomes(a, rec),
         ChainFine(rec), RouterFine(rec)
  PROVE  ChainIInv'
<1>1. app'[a] = rec /\ \A b \in Builders \ {a} : app'[b] = app[b]
  BY DEF Becomes, BuildIInv
<1>. QED BY <1>1 DEF ChainIInv

\* Where only the telemetry, or who else is in use, has changed.
LEMMA SameChain ==
  ASSUME NEW old, NEW rec, ChainFine(old), RouterFine(old),
         rec.pc = old.pc, rec.state = old.state, rec.adding = old.adding, rec.mounts = old.mounts,
         rec.hand = old.hand, rec.layers = old.layers, rec.router = old.router
  PROVE  ChainFine(rec) /\ RouterFine(rec)
<1>1. ChainOf(rec) = ChainOf(old)
  BY DEF ChainOf
<1>. QED BY <1>1 DEF ChainFine, RouterFine

LEMMA CreateKeepsChain ==
  ASSUME BuildIInv, ChainIInv, NEW a \in Builders, Create(a)
  PROVE  ChainIInv'
<1>. DEFINE rec == [NoApp EXCEPT !.pc = "ready", !.alone = \A c \in Builders : ~InUse(c)]
<1>1. /\ rec.pc = "ready" /\ rec.state = <<>> /\ rec.mounts = <<>> /\ rec.layers = <<>>
      /\ rec.hand = {}
  BY DEF NoApp
<1>2. app' = [b \in Builders |-> IF b = a THEN rec ELSE [app[b] EXCEPT !.alone = FALSE]]
  BY DEF Create
<1>. HIDE DEF rec
<1>3. ChainOf(rec) = <<>>
  BY <1>1 DEF ChainOf, Reverse
<1>4. LayersAlong(<<>>) = <<>>
  <2>. DEFINE seqs == [i \in DOMAIN <<>> |-> LayersOf(<<>>[i])]
  <2>1. seqs = <<>> /\ Len(seqs) = 0
    OBVIOUS
  <2>2. FlattenSeq(<<>>) = <<>>
    BY DEF FlattenSeq
  <2>. HIDE DEF seqs
  <2>. QED BY <2>1, <2>2 DEF LayersAlong, seqs
<1>5. ChainFine(rec) /\ RouterFine(rec)
  <2>1. <<>> \in Seq(Plugins) /\ <<>> \in Seq(Entry) /\ <<>> \in Seq(LayerFns) /\ DOMAIN <<>> = {}
    OBVIOUS
  <2>. QED BY <1>1, <1>3, <1>4, <2>1 DEF ChainFine, RouterFine
<1>6. ASSUME NEW b \in Builders \ {a} PROVE ChainFine(app'[b]) /\ RouterFine(app'[b])
  <2>1. /\ app'[b].pc = app[b].pc /\ app'[b].state = app[b].state /\ app'[b].adding = app[b].adding
        /\ app'[b].mounts = app[b].mounts /\ app'[b].hand = app[b].hand
        /\ app'[b].layers = app[b].layers /\ app'[b].router = app[b].router
    BY <1>2 DEF BuildIInv, Fields
  <2>. QED BY <2>1, SameChain DEF ChainIInv
<1>7. app'[a] = rec
  BY <1>2
<1>. QED BY <1>5, <1>6, <1>7 DEF ChainIInv

LEMMA CallKeepsChain ==
  ASSUME BuildIInv, ChainIInv, NEW a \in Builders, TelemetryCall(a)
  PROVE  ChainIInv'
<1>1. PICK todo, added : Becomes(a, [app[a] EXCEPT !.todo = todo, !.added = added])
  BY DEF TelemetryCall
<1>. DEFINE rec == [app[a] EXCEPT !.todo = todo, !.added = added]
<1>2. /\ rec.pc = app[a].pc /\ rec.state = app[a].state /\ rec.adding = app[a].adding
      /\ rec.mounts = app[a].mounts /\ rec.hand = app[a].hand
      /\ rec.layers = app[a].layers /\ rec.router = app[a].router
  BY DEF BuildIInv, Fields
<1>3. Becomes(a, rec)
  BY <1>1
<1>. HIDE DEF rec
<1>4. ChainFine(rec) /\ RouterFine(rec)
  BY <1>2, SameChain DEF ChainIInv
<1>. QED BY <1>3, <1>4, ChainMoves

\* Where the entries of two lists of mounts are in the one that joins them.
LEMMA Laid ==
  ASSUME NEW above \in Seq(Entry), NEW below \in Seq(Entry)
  PROVE  /\ above \o below \in Seq(Entry)
         /\ \A i \in DOMAIN above :
              i \in DOMAIN (above \o below) /\ (above \o below)[i] = above[i]
         /\ \A i \in DOMAIN below :
              /\ Len(above) + i \in DOMAIN (above \o below)
              /\ (above \o below)[Len(above) + i] = below[i]
<1>. PICK joined : joined = above \o below
  OBVIOUS
<1>1. /\ joined \in Seq(Entry) /\ Len(joined) = Len(above) + Len(below)
      /\ \A i \in 1..Len(above) + Len(below) :
           joined[i] = IF i <= Len(above) THEN above[i] ELSE below[i - Len(above)]
  BY ConcatProperties, Zenon
<1>2. /\ Len(above) \in Nat /\ Len(below) \in Nat
      /\ DOMAIN above = 1..Len(above) /\ DOMAIN below = 1..Len(below)
      /\ DOMAIN joined = 1..Len(above) + Len(below)
  <2>1. Len(above) \in Nat /\ DOMAIN above = 1..Len(above)
    OBVIOUS
  <2>2. Len(below) \in Nat /\ DOMAIN below = 1..Len(below)
    OBVIOUS
  <2>. QED BY <1>1, <2>1, <2>2
<1>3. \A i \in 1..Len(above) : i \in 1..Len(above) + Len(below) /\ i <= Len(above)
  BY <1>2
<1>4. \A i \in 1..Len(below) : /\ Len(above) + i \in 1..Len(above) + Len(below)
                               /\ ~(Len(above) + i <= Len(above))
                               /\ (Len(above) + i) - Len(above) = i
  BY <1>2
<1>5. ASSUME NEW i \in DOMAIN above PROVE i \in DOMAIN joined /\ joined[i] = above[i]
  BY <1>1, <1>2, <1>3, Zenon
<1>6. ASSUME NEW i \in DOMAIN below
      PROVE  Len(above) + i \in DOMAIN joined /\ joined[Len(above) + i] = below[i]
  BY <1>1, <1>2, <1>4, Zenon
<1>. QED BY <1>1, <1>5, <1>6, Zenon

\* What the plugin mounts comes after what is there, the routers in hand in its own.
LEMMA MountedKeeps ==
  ASSUME NEW a \in Builders, NEW p \in Plugins, NEW build \in Builds(p),
         app[a].mounts \in Seq(Entry), app[a].hand \subseteq Routes
  PROVE  /\ Mounted(a, build) \in Seq(Entry)
         /\ MountedAll(Mounted(a, build), p)
         /\ \A route : AutoRoute(app[a].mounts, route) => AutoRoute(Mounted(a, build), route)
<1>. PICK mounts, hand, new : mounts = app[a].mounts /\ hand = app[a].hand /\ new = build.mounts
  OBVIOUS
<1>. DEFINE into == [i \in DOMAIN new |->
                       IF "app" \in new[i].routes THEN AutoMount(new[i].routes \union hand) ELSE new[i]]
<1>1. mounts \in Seq(Entry) /\ new \in Seq(Entry) /\ new = MountsOf(p) /\ hand \subseteq Routes
  BY BuildsAgree
<1>2. Mounted(a, build) = mounts \o into
  BY DEF Mounted
<1>3. \A i \in DOMAIN new : into[i] \in Entry /\ new[i].routes \subseteq into[i].routes
                            /\ (new[i].mount = "auto" => into[i].mount = "auto")
  <2>1. \A routes \in SUBSET Routes :
          AutoMount(routes) \in Entry /\ AutoMount(routes).routes = routes
          /\ AutoMount(routes).mount = "auto"
    BY DEF AutoMount, Entry
  <2>2. \A i \in DOMAIN new : new[i] \in Entry /\ new[i].routes \in SUBSET Routes
    <3>1. \A i \in DOMAIN new : new[i] \in Entry
      BY <1>1
    <3>2. \A entry \in Entry : entry.routes \in SUBSET Routes
      BY DEF Entry
    <3>. QED BY <3>1, <3>2
  <2>3. ASSUME NEW i \in DOMAIN new
        PROVE  into[i] \in Entry /\ new[i].routes \subseteq into[i].routes
               /\ (new[i].mount = "auto" => into[i].mount = "auto")
    <3>1. CASE "app" \in new[i].routes
      <4>1. into[i] = AutoMount(new[i].routes \union hand)
        BY <3>1
      <4>2. new[i].routes \union hand \in SUBSET Routes
        BY <1>1, <2>2
      <4>. QED BY <2>1, <4>1, <4>2
    <3>2. CASE "app" \notin new[i].routes
      BY <2>2, <3>2
    <3>. QED BY <3>1, <3>2
  <2>. QED BY <2>3
<1>4. into \in Seq(Entry) /\ DOMAIN into = DOMAIN new /\ Len(into) = Len(new)
  <2>1. Len(new) \in Nat /\ DOMAIN new = 1..Len(new)
    BY <1>1
  <2>2. into = [i \in 1..Len(new) |-> into[i]]
    BY <2>1
  <2>. HIDE DEF into
  <2>. QED BY <1>3, <2>1, <2>2
<1>. HIDE DEF into
<1>5. /\ mounts \o into \in Seq(Entry)
      /\ \A i \in DOMAIN mounts : i \in DOMAIN (mounts \o into) /\ (mounts \o into)[i] = mounts[i]
      /\ \A i \in DOMAIN into : /\ Len(mounts) + i \in DOMAIN (mounts \o into)
                                /\ (mounts \o into)[Len(mounts) + i] = into[i]
  BY <1>1, <1>4, Laid
<1>6. ASSUME NEW route, AutoRoute(mounts, route) PROVE AutoRoute(mounts \o into, route)
  BY <1>5, <1>6 DEF AutoRoute
<1>7. ASSUME NEW route, AutoRoute(new, route) PROVE AutoRoute(mounts \o into, route)
  <2>1. PICK i \in DOMAIN new : new[i].mount = "auto" /\ route \in new[i].routes
    BY <1>7 DEF AutoRoute
  <2>2. into[i].mount = "auto" /\ route \in into[i].routes /\ i \in DOMAIN into
    BY <1>3, <1>4, <2>1
  <2>. QED BY <1>5, <2>2 DEF AutoRoute
<1>. QED BY <1>1, <1>2, <1>5, <1>6, <1>7 DEF MountedAll

LEMMA BeginKeepsChain ==
  ASSUME BuildIInv, ChainIInv, NEW a \in Builders, NEW p \in Offers[a], BeginPlugin(a, p)
  PROVE  ChainIInv'
<1>. PICK build \in Builds(p) :
       Becomes(a, [app[a] EXCEPT
            !.pc = "building", !.adding = p, !.mounts = Mounted(a, build),
            !.layers = @ \o build.layers, !.fallback = @ \/ build.fallback,
            !.serves = @ \/ build.serves, !.todo = build.calls])
  BY DEF BeginPlugin
<1>. DEFINE rec == [app[a] EXCEPT
            !.pc = "building", !.adding = p, !.mounts = Mounted(a, build),
            !.layers = @ \o build.layers, !.fallback = @ \/ build.fallback,
            !.serves = @ \/ build.serves, !.todo = build.calls]
<1>1. /\ rec.pc = "building" /\ rec.state = app[a].state /\ rec.adding = p
      /\ rec.mounts = Mounted(a, build) /\ rec.hand = app[a].hand
      /\ rec.layers = app[a].layers \o build.layers
  BY DEF BuildIInv, Fields
<1>2. Becomes(a, rec) /\ app[a].pc = "ready"
  BY DEF BeginPlugin
<1>. HIDE DEF rec
<1>3. p \in Plugins
  BY BuildAssumption
<1>. PICK chain : chain = ChainOf(app[a])
  OBVIOUS
<1>4. /\ app[a].state \in Seq(Plugins) /\ chain \in Seq(Plugins) /\ chain = Reverse(app[a].state)
      /\ app[a].mounts \in Seq(Entry) /\ app[a].hand \subseteq Routes
      /\ app[a].layers \in Seq(LayerFns) /\ app[a].layers = LayersAlong(chain)
      /\ \A i \in DOMAIN chain : MountedAll(app[a].mounts, chain[i])
  BY <1>2 DEF ChainIInv, ChainFine, ChainOf
<1>5. ChainOf(rec) = Append(chain, p) /\ Append(chain, p) \in Seq(Plugins)
  BY <1>1, <1>3, <1>4 DEF ChainOf
<1>6. rec.layers = LayersAlong(Append(chain, p)) /\ rec.layers \in Seq(LayerFns)
  BY <1>1, <1>3, <1>4, BuildsAgree, LayersGrow
<1>7. /\ rec.mounts \in Seq(Entry) /\ MountedAll(rec.mounts, p)
      /\ \A route : AutoRoute(app[a].mounts, route) => AutoRoute(rec.mounts, route)
  BY <1>1, <1>3, <1>4, MountedKeeps
<1>8. \A i \in DOMAIN Append(chain, p) : MountedAll(rec.mounts, Append(chain, p)[i])
  <2>1. \A i \in DOMAIN Append(chain, p) : IF i \in DOMAIN chain THEN Append(chain, p)[i] = chain[i]
                                          ELSE Append(chain, p)[i] = p
    BY <1>3, <1>4
  <2>2. \A i \in DOMAIN chain : MountedAll(rec.mounts, chain[i])
    BY <1>4, <1>7 DEF MountedAll
  <2>. QED BY <1>7, <2>1, <2>2
<1>9. ChainFine(rec) /\ RouterFine(rec)
  BY <1>1, <1>4, <1>5, <1>6, <1>7, <1>8 DEF ChainFine, RouterFine
<1>. QED BY <1>2, <1>9, ChainMoves

LEMMA BuiltKeepsChain ==
  ASSUME BuildIInv, ChainIInv, NEW a \in Builders, Built(a)
  PROVE  ChainIInv'
<1>. DEFINE rec == [app[a] EXCEPT !.pc = "ready", !.state = <<app[a].adding>> \o @, !.adding = ""]
<1>1. /\ rec.pc = "ready" /\ rec.state = <<app[a].adding>> \o app[a].state
      /\ rec.mounts = app[a].mounts /\ rec.hand = app[a].hand /\ rec.layers = app[a].layers
  BY DEF BuildIInv, Fields
<1>2. Becomes(a, rec) /\ app[a].pc = "building"
  BY DEF Built
<1>. HIDE DEF rec
<1>. PICK p, state, chain : p = app[a].adding /\ state = app[a].state /\ chain = ChainOf(app[a])
  OBVIOUS
<1>3. /\ state \in Seq(Plugins) /\ chain \in Seq(Plugins) /\ chain = Append(Reverse(state), p)
      /\ app[a].mounts \in Seq(Entry) /\ app[a].hand \subseteq Routes
      /\ app[a].layers \in Seq(LayerFns) /\ app[a].layers = LayersAlong(chain)
      /\ \A i \in DOMAIN chain : MountedAll(app[a].mounts, chain[i])
  BY <1>2 DEF ChainIInv, ChainFine, ChainOf
<1>4. p \in Plugins
  <2>. PICK s : s = Reverse(state)
    OBVIOUS
  <2>1. s \in Seq(Plugins) /\ chain = Append(s, p)
    BY <1>3, ReverseIs
  <2>2. Len(s) + 1 \in DOMAIN chain /\ chain[Len(s) + 1] = p
    BY <2>1
  <2>. QED BY <1>3, <2>2
<1>5. rec.state \in Seq(Plugins) /\ ChainOf(rec) = chain
  BY <1>1, <1>3, <1>4, ReverseIs DEF ChainOf
<1>6. ChainFine(rec) /\ RouterFine(rec)
  BY <1>1, <1>3, <1>5 DEF ChainFine, RouterFine
<1>. QED BY <1>2, <1>6, ChainMoves

\* The routers that are taken are not among those that are mounted by themselves.
LEMMA TakeManualKeepsChain ==
  ASSUME BuildIInv, ChainIInv, NEW a \in Builders, NEW prefix, TakeManual(a, prefix)
  PROVE  ChainIInv'
<1>. DEFINE mounts == app[a].mounts
            taken == {i \in DOMAIN mounts : mounts[i].mount = "manual" /\ prefix \in mounts[i].routes}
            kept == [i \in DOMAIN mounts |-> IF i \in taken THEN Gone ELSE mounts[i]]
            hand == app[a].hand \union UNION {mounts[i].routes : i \in taken}
            rec == [app[a] EXCEPT !.mounts = kept, !.hand = hand]
<1>1. Becomes(a, rec) /\ app[a].pc = "ready"
  BY DEF TakeManual
<1>2. /\ rec.pc = app[a].pc /\ rec.state = app[a].state /\ rec.adding = app[a].adding
      /\ rec.mounts = kept /\ rec.hand = hand
      /\ rec.layers = app[a].layers /\ rec.router = app[a].router
  BY DEF BuildIInv, Fields
<1>. HIDE DEF rec
<1>. PICK chain : chain = ChainOf(app[a])
  OBVIOUS
<1>3. /\ app[a].state \in Seq(Plugins) /\ chain \in Seq(Plugins)
      /\ mounts \in Seq(Entry) /\ app[a].hand \subseteq Routes
      /\ app[a].layers \in Seq(LayerFns) /\ app[a].layers = LayersAlong(chain)
      /\ \A i \in DOMAIN chain : MountedAll(mounts, chain[i])
  BY <1>1 DEF ChainIInv, ChainFine
<1>4. \A i \in DOMAIN mounts : mounts[i] \in Entry /\ mounts[i].routes \subseteq Routes
  <2>1. \A i \in DOMAIN mounts : mounts[i] \in Entry
    BY <1>3
  <2>2. \A entry \in Entry : entry.routes \subseteq Routes
    BY DEF Entry
  <2>. QED BY <2>1, <2>2
<1>5. hand \subseteq Routes
  BY <1>3, <1>4
<1>6. kept \in Seq(Entry)
  <2>1. Gone \in Entry
    BY DEF Gone, Entry
  <2>2. DOMAIN mounts = 1..Len(mounts) /\ Len(mounts) \in Nat
    BY <1>3
  <2>3. \A i \in 1..Len(mounts) : (IF i \in taken THEN Gone ELSE mounts[i]) \in Entry
    BY <1>4, <2>1, <2>2
  <2>. HIDE DEF taken
  <2>. QED BY <2>2, <2>3
<1>7. ASSUME NEW route, AutoRoute(mounts, route) PROVE AutoRoute(kept, route)
  <2>1. PICK i \in DOMAIN mounts : mounts[i].mount = "auto" /\ route \in mounts[i].routes
    BY <1>7 DEF AutoRoute
  <2>2. kept[i] = mounts[i]
    BY <2>1
  <2>. HIDE DEF taken
  <2>. QED BY <2>1, <2>2 DEF AutoRoute
<1>. HIDE DEF kept, hand
<1>8. ChainOf(rec) = chain
  BY <1>2 DEF ChainOf
<1>9. \A i \in DOMAIN chain : MountedAll(kept, chain[i])
  BY <1>3, <1>7 DEF MountedAll
<1>10. ChainFine(rec) /\ RouterFine(rec)
  BY <1>1, <1>2, <1>3, <1>5, <1>6, <1>8, <1>9 DEF ChainFine, RouterFine
<1>. QED BY <1>1, <1>10, ChainMoves

\* The layers are put around the routes and the fallback at once.
LEMMA RunKeepsChain ==
  ASSUME BuildIInv, ChainIInv, NEW a \in Builders, Run(a)
  PROVE  ChainIInv'
<1>. DEFINE rec == [app[a] EXCEPT !.pc = "running", !.router = Composed(a)]
            mounts == app[a].mounts
            routes == UNION {mounts[i].routes : i \in {j \in DOMAIN mounts : mounts[j].mount = "auto"}}
            bare == [route \in routes \union {"fallback"} |-> <<>>]
<1>1. /\ rec.pc = "running" /\ rec.state = app[a].state
      /\ rec.mounts = app[a].mounts /\ rec.hand = app[a].hand /\ rec.layers = app[a].layers
      /\ rec.router = Composed(a)
  BY DEF BuildIInv, Fields
<1>2. Becomes(a, rec) /\ app[a].pc = "ready"
  BY DEF Run
<1>. HIDE DEF rec
<1>3. ChainOf(rec) = ChainOf(app[a])
  BY <1>1, <1>2 DEF ChainOf
<1>4. ChainFine(rec)
  BY <1>1, <1>2, <1>3 DEF ChainIInv, ChainFine
<1>5. WithFallback(Merged(mounts)) = bare
  BY DEF WithFallback, Merged
<1>6. \A route : AutoRoute(mounts, route) => route \in routes
  BY DEF AutoRoute
<1>7. app[a].layers \in Seq(LayerFns)
  BY <1>2 DEF ChainIInv, ChainFine
<1>8. <<>> \o app[a].layers = app[a].layers
  BY <1>7
<1>9. Composed(a) = [route \in routes \union {"fallback"} |-> app[a].layers]
  <2>1. Composed(a) = [route \in DOMAIN bare |-> bare[route] \o app[a].layers]
    BY <1>5 DEF Composed, Layered
  <2>2. \A route \in DOMAIN bare : bare[route] = <<>>
    OBVIOUS
  <2>3. DOMAIN bare = routes \union {"fallback"}
    OBVIOUS
  <2>. HIDE DEF bare, routes
  <2>. QED BY <1>8, <2>1, <2>2, <2>3
<1>. HIDE DEF routes
<1>10. RouterFine(rec)
  BY <1>1, <1>6, <1>9 DEF RouterFine
<1>. QED BY <1>2, <1>4, <1>10, ChainMoves

LEMMA NextKeepsChain == BuildIInv /\ ChainIInv /\ [Next]_vars => ChainIInv'
<1>. SUFFICES ASSUME BuildIInv, ChainIInv, [Next]_vars PROVE ChainIInv'
  OBVIOUS
<1>1. ASSUME UNCHANGED app PROVE ChainIInv'
  BY <1>1 DEF ChainIInv
<1>2. ASSUME NEW a \in Builders, Becomes(a, Over) PROVE ChainIInv'
  <2>1. Over.pc = "over"
    BY DEF Over, NoApp
  <2>2. ChainFine(Over) /\ RouterFine(Over)
    BY <2>1 DEF ChainFine, RouterFine
  <2>. QED BY <1>2, <2>2, ChainMoves
<1>3. ASSUME NEW a \in Builders, BuildStep(a) PROVE ChainIInv'
  BY <1>1, <1>3, CallKeepsChain, BuiltKeepsChain DEF BuildStep
<1>4. ASSUME NEW a \in Builders, PluginFails(a) \/ RunFails(a) \/ Stop(a) PROVE ChainIInv'
  BY <1>2, <1>4 DEF PluginFails, RunFails, Stop
<1>5. ASSUME NEW a \in Builders, NEW p \in Offers[a], BeginPlugin(a, p) \/ Refused(a, p)
      PROVE  ChainIInv'
  BY <1>2, <1>5, BeginKeepsChain DEF Refused
<1>. QED BY <1>1, <1>3, <1>4, <1>5, CreateKeepsChain, TakeManualKeepsChain, RunKeepsChain
         DEF Next, vars

THEOREM ChainInvariance == Spec => []ChainIInv
<1>1. Init => ChainIInv
  <2>1. NoApp.pc = "none"
    BY DEF NoApp
  <2>. QED BY <2>1 DEF Init, ChainIInv, ChainFine, RouterFine
<1>. QED BY <1>1, InitBuildIInv, NextKeepsProtocol, NextKeepsChain, PTL DEF Spec

\* Every route that a plugin of the chain mounts by itself, and the fallback, is inside
\* of the layers of the whole chain, in its order (ctx.rs:163): none is served outside
\* of the session layer and the guard, wherever muxa-auth stands in it.
THEOREM EveryRouteWrappedHolds == Spec => []EveryRouteWrapped
<1>1. ASSUME ChainIInv, NEW a \in Builders, app[a].pc = "running"
      PROVE  LET chain == Reverse(app[a].state)
                 builds == [i \in DOMAIN chain |-> CHOOSE build \in Builds(chain[i]) : TRUE]
                 mounts == UNION {ToSet(builds[i].mounts) : i \in DOMAIN chain}
                 served == UNION {entry.routes : entry \in {m \in mounts : m.mount = "auto"}}
             IN  \A route \in served \union {"fallback"} :
                   /\ route \in DOMAIN app[a].router
                   /\ app[a].router[route] = FlattenSeq([i \in DOMAIN chain |-> builds[i].layers])
  <2>. DEFINE chain == Reverse(app[a].state)
              builds == [i \in DOMAIN chain |-> CHOOSE build \in Builds(chain[i]) : TRUE]
              mounts == UNION {ToSet(builds[i].mounts) : i \in DOMAIN chain}
              served == UNION {entry.routes : entry \in {m \in mounts : m.mount = "auto"}}
  <2>1. /\ chain = ChainOf(app[a]) /\ chain \in Seq(Plugins)
        /\ app[a].layers = LayersAlong(chain)
        /\ \A i \in DOMAIN chain : MountedAll(app[a].mounts, chain[i])
    BY <1>1 DEF ChainIInv, ChainFine, ChainOf
  <2>. HIDE DEF chain
  <2>2. \A i \in DOMAIN chain : /\ chain[i] \in Plugins
                                /\ builds[i].layers = LayersOf(chain[i])
                                /\ builds[i].mounts = MountsOf(chain[i])
    BY <2>1 DEF LayersOf, MountsOf
  <2>. HIDE DEF builds
  <2>3. FlattenSeq([i \in DOMAIN chain |-> builds[i].layers]) = app[a].layers
    <3>1. [i \in DOMAIN chain |-> builds[i].layers] = [i \in DOMAIN chain |-> LayersOf(chain[i])]
      BY <2>2
    <3>. QED BY <2>1, <3>1 DEF LayersAlong
  <2>4. "fallback" \in DOMAIN app[a].router /\ app[a].router["fallback"] = app[a].layers
    BY <1>1 DEF ChainIInv, RouterFine
  <2>5. ASSUME NEW route \in served
        PROVE  route \in DOMAIN app[a].router /\ app[a].router[route] = app[a].layers
    <3>1. PICK entry \in mounts : entry.mount = "auto" /\ route \in entry.routes
      OBVIOUS
    <3>2. PICK i \in DOMAIN chain : entry \in ToSet(MountsOf(chain[i]))
      BY <2>2
    <3>3. AutoRoute(MountsOf(chain[i]), route)
      BY <3>1, <3>2 DEF AutoRoute, ToSet
    <3>4. route \in Routes
      <4>1. MountsOf(chain[i]) \in Seq(Entry)
        BY <2>2, <3>2, BuildsAgree
      <4>2. entry \in Entry
        BY <3>2, <4>1 DEF ToSet
      <4>. QED BY <3>1, <4>2 DEF Entry
    <3>5. AutoRoute(app[a].mounts, route)
      BY <2>1, <3>2, <3>3, <3>4 DEF MountedAll
    <3>. QED BY <1>1, <3>4, <3>5 DEF ChainIInv, RouterFine
  <2>. HIDE DEF served
  <2>6. \A route \in served \union {"fallback"} :
          /\ route \in DOMAIN app[a].router
          /\ app[a].router[route] = FlattenSeq([i \in DOMAIN chain |-> builds[i].layers])
    BY <2>3, <2>4, <2>5
  <2>. QED BY <2>6 DEF chain, builds, mounts, served
<1>2. ChainIInv => EveryRouteWrapped
  BY <1>1 DEF EveryRouteWrapped
<1>. QED BY <1>2, ChainInvariance, PTL
=============================================================================
