----------------------------- MODULE OidcProofs -----------------------------
(***************************************************************************)
(* Proofs about OidcClient, for any number of calls, keys and ticks. What  *)
(* makes a rotation harmless is that a call that rediscovers goes on with  *)
(* the answer to its own request: that answer is younger than the token,   *)
(* so the token's key is in it or has been withdrawn.                      *)
(***************************************************************************)
EXTENDS OidcClient, TLAPS

Pcs == Over \union {"discovering", "answered", "storing", "exchanging", "checking", "rechecking"}

Record == [pc : Pcs, does : {"authorize", "identify"}, force : BOOLEAN,
           client : Client \union {NoClient}, key : Keys \union {NoKey}]

Holding == {"answered", "storing", "rechecking"}

\* An answer on its way is not older than the timeout.
InTime(rec) ==
  rec.pc \in {"answered", "storing"} =>
    rec.client \in Client /\ (rec.pc = "answered" => now <= rec.client.seen + Timeout)

\* Keys only ever appear at the top and disappear at the bottom, and what was
\* rediscovered is not older than the token.
Younger(rec) ==
  /\ rec.client.low <= oldest
  /\ rec.key <= newest
  /\ rec.pc = "rechecking" => rec.force
  /\ rec.force /\ rec.pc \in Holding => rec.key <= rec.client.high

Tolerated(rec) == rec.pc = "refused" => rec.key = NoKey \/ rec.key < oldest

Good(rec) == Dated(rec.client) /\ InTime(rec) /\ Younger(rec) /\ Tolerated(rec)

IInv ==
  /\ TypeOK
  /\ cache.low <= oldest
  /\ \A c \in Calls : Good(call[c])

-----------------------------------------------------------------------------
LEMMA TypeOKUnfolded ==
  TypeOK <=> /\ now \in 0..MaxTime
             /\ oldest \in Keys /\ newest \in Keys /\ oldest <= newest
             /\ cache \in Client \union {NoClient}
             /\ call \in [Calls -> Record]
             /\ Dated(cache) /\ \A c \in Calls : Dated(call[c].client)
BY DEF TypeOK, Record, Pcs

LEMMA InitIInv == Init => IInv
<1>. SUFFICES ASSUME Init PROVE IInv
  OBVIOUS
<1>1. TypeOK
  BY OidcAssumption, TypeOKUnfolded
  DEF Init, Keys, NoKey, NoClient, Client, Over, Pcs, Record, Dated
<1>2. NoClient \notin Client /\ NoClient.low = 1 /\ NoKey = 0
  BY DEF NoClient, Client, Keys, NoKey
<1>3. ASSUME NEW c \in Calls PROVE Good(call[c])
  <2>1. /\ call[c].client = NoClient /\ call[c].pc = "ready" /\ call[c].key = NoKey
        /\ call[c].force = FALSE
    BY DEF Init
  <2>2. oldest = 1 /\ newest = 1
    BY DEF Init
  <2>3. call[c].client.low <= oldest /\ call[c].key <= newest
    BY <1>2, <2>1, <2>2
  <2>4. InTime(call[c]) /\ Younger(call[c]) /\ Tolerated(call[c])
    BY <2>1, <2>3 DEF InTime, Younger, Tolerated
  <2>5. Dated(call[c].client)
    BY <1>2, <2>1 DEF Dated
  <2>. QED BY <2>4, <2>5 DEF Good
<1>4. cache.low <= oldest
  BY <1>2 DEF Init
<1>. QED BY <1>1, <1>3, <1>4 DEF IInv

\* The provider only adds keys at the top and drops them at the bottom.
LEMMA ProviderKeepsIInv ==
  ASSUME IInv, Rotate \/ Withdraw
  PROVE  IInv'
<1>. USE OidcAssumption DEF IInv, Rotate, Withdraw, Keys, NoKey
<1>1. TypeOK'
  BY DEF TypeOK, Dated
<1>2. oldest \in Int /\ newest \in Int /\ oldest' \in Int /\ newest' \in Int
      /\ oldest <= oldest' /\ newest <= newest'
  BY DEF TypeOK
<1>3. cache'.low <= oldest'
  BY <1>2 DEF TypeOK, Client, NoClient
<1>4. ASSUME NEW c \in Calls PROVE Good(call[c])'
  <2>1. call[c] \in Record /\ Good(call[c])
    BY TypeOKUnfolded
  <2>. QED BY <1>2, <2>1 DEF Good, Dated, InTime, Younger, Tolerated, Holding, Record, Client, NoClient
<1>. QED BY <1>1, <1>3, <1>4

LEMMA TickKeepsIInv ==
  ASSUME IInv, Tick
  PROVE  IInv'
<1>. USE OidcAssumption DEF IInv, Tick
<1>1. ASSUME NEW c \in Calls PROVE Good(call[c])'
  <2>1. call[c] \in Record /\ Good(call[c])
    BY TypeOKUnfolded
  <2>2. Dated(call[c].client)'
    BY <2>1 DEF Good, Dated, Client, TypeOK
  <2>3. InTime(call[c])'
    BY <2>1 DEF Good, InTime, Client, TypeOK
  <2>. QED BY <2>1, <2>2, <2>3 DEF Good, Younger, Tolerated
<1>2. Dated(cache)'
  BY DEF Dated, Client, TypeOK
<1>3. TypeOK'
  BY <1>1, <1>2 DEF TypeOK, Good
<1>. QED BY <1>1, <1>3

\* A step of one call keeps the invariant if what becomes of that call, and of
\* the cache, is good.
LEMMA CallKeepsIInv ==
  ASSUME IInv, NEW c \in Calls, NEW rec \in Record, Becomes(c, rec), Good(rec),
         cache' = cache \/ cache' = call[c].client
  PROVE  IInv'
<1>. USE DEF IInv, Becomes
<1>1. call[c] \in Record /\ Good(call[c])
  BY TypeOKUnfolded
<1>2. cache' \in Client \union {NoClient} /\ Dated(cache') /\ cache'.low <= oldest
  BY <1>1 DEF Good, Younger, Record, TypeOK
<1>3. call' \in [Calls -> Record] /\ \A d \in Calls : call'[d] = IF d = c THEN rec ELSE call[d]
  BY TypeOKUnfolded
<1>4. \A d \in Calls : Good(call'[d])
  BY <1>3
<1>5. \A d \in Calls : Good(call[d])'
  BY <1>4 DEF Good, Dated, InTime, Younger, Tolerated
<1>6. TypeOK'
  BY <1>2, <1>3, <1>4 DEF TypeOK, Record, Pcs, Good, Dated
<1>. QED BY <1>2, <1>5, <1>6

\* A client that was taken from the cache, or from the call itself, can be kept.
LEMMA EquippedIsGood ==
  ASSUME IInv, NEW rec \in Record, NEW client \in Client, Dated(client),
         client.low <= oldest, rec.key <= newest, ~rec.force
  PROVE  Equipped(rec, client) \in Record /\ Good(Equipped(rec, client))
<1>1. Equipped(rec, client) \in Record
  BY DEF Equipped, Record, Pcs, Over
<1>2. NoClient \notin Client /\ NoClient.low = 1
  BY DEF NoClient, Client, Keys, NoKey
<1>3. oldest >= 1
  BY DEF IInv, TypeOK, Keys
<1>. QED BY <1>1, <1>2, <1>3
         DEF Equipped, Record, Good, Dated, InTime, Younger, Tolerated, Holding

\* How a call ends without being refused.
LEMMA EndsKeepsIInv ==
  ASSUME IInv, NEW c \in Calls, NEW how \in Over, Ends(c, how),
         how = "refused" => call[c].key = NoKey \/ call[c].key < oldest
  PROVE  IInv'
<1>. DEFINE rec == [call[c] EXCEPT !.pc = how, !.force = FALSE, !.client = NoClient]
<1>1. call[c] \in Record /\ Good(call[c])
  BY TypeOKUnfolded DEF IInv
<1>2. NoClient \notin Client /\ NoClient.low = 1
  BY DEF NoClient, Client, Keys, NoKey
<1>3. oldest >= 1
  BY DEF IInv, TypeOK, Keys
<1>4. rec \in Record
  BY <1>1 DEF Record, Pcs
<1>5. /\ rec.pc = how /\ rec.force = FALSE /\ rec.client = NoClient /\ rec.key = call[c].key
  BY <1>1 DEF Record
<1>6. how \notin {"answered", "storing", "rechecking"}
  BY DEF Over
<1>7. Good(rec)
  BY <1>1, <1>2, <1>3, <1>5, <1>6 DEF Good, Dated, InTime, Younger, Tolerated
<1>. HIDE DEF rec
<1>. QED BY <1>4, <1>7, CallKeepsIInv DEF Ends, rec

-----------------------------------------------------------------------------
(* The steps of a call                                                     *)

LEMMA BeginKeepsIInv ==
  ASSUME IInv, NEW c \in Calls, Begin(c)
  PROVE  IInv'
<1>1. PICK does \in {"authorize", "identify"} :
        Becomes(c, IF cache # NoClient /\ Fresh
                   THEN Equipped([pc |-> "discovering", does |-> does, force |-> FALSE,
                                  client |-> NoClient, key |-> NoKey], cache)
                   ELSE [pc |-> "discovering", does |-> does, force |-> FALSE,
                         client |-> NoClient, key |-> NoKey])
  BY DEF Begin
<1>. DEFINE rec == [pc |-> "discovering", does |-> does, force |-> FALSE,
                    client |-> NoClient, key |-> NoKey]
<1>2. cache' = cache
  BY DEF Begin
<1>3. NoClient \notin Client /\ NoClient.low = 1 /\ NoKey = 0
  BY DEF NoClient, Client, Keys, NoKey
<1>4. oldest \in Int /\ newest \in Int /\ 1 <= oldest /\ 1 <= newest
  BY DEF IInv, TypeOK, Keys
<1>5. rec \in Record
  BY DEF Record, Pcs
<1>6. /\ rec.pc = "discovering" /\ rec.force = FALSE /\ rec.client = NoClient
      /\ rec.key = NoKey
  OBVIOUS
<1>. HIDE DEF rec
<1>7. Good(rec) /\ rec.key <= newest /\ ~rec.force
  <2>1. rec.client.low <= oldest /\ rec.key <= newest
    BY <1>3, <1>4, <1>6
  <2>2. InTime(rec) /\ Younger(rec) /\ Tolerated(rec)
    BY <1>6, <2>1 DEF InTime, Younger, Tolerated
  <2>3. Dated(rec.client)
    BY <1>3, <1>6 DEF Dated
  <2>. QED BY <1>6, <2>1, <2>2, <2>3 DEF Good
<1>8. CASE cache # NoClient /\ Fresh
  <2>1. cache \in Client /\ Dated(cache) /\ cache.low <= oldest
    BY <1>8 DEF IInv, TypeOK
  <2>2. Equipped(rec, cache) \in Record /\ Good(Equipped(rec, cache))
    BY <1>5, <1>7, <2>1, EquippedIsGood
  <2>. QED BY <1>1, <1>2, <1>8, <2>2, CallKeepsIInv DEF rec
<1>9. CASE ~(cache # NoClient /\ Fresh)
  BY <1>1, <1>2, <1>5, <1>7, <1>9, CallKeepsIInv DEF rec
<1>. QED BY <1>8, <1>9

LEMMA AnswerKeepsIInv ==
  ASSUME IInv, NEW c \in Calls, Answer(c)
  PROVE  IInv'
<1>. DEFINE client == [low |-> oldest, high |-> newest, seen |-> now, at |-> now]
            rec == [call[c] EXCEPT !.pc = "answered", !.client = client]
<1>1. call[c] \in Record /\ Good(call[c])
  BY TypeOKUnfolded DEF IInv
<1>2. client \in Client /\ now \in Nat /\ oldest \in Nat /\ newest \in Nat
  BY OidcAssumption DEF IInv, TypeOK, Client, Keys
<1>3. client.low = oldest /\ client.high = newest /\ client.seen = now /\ client.at = now
  OBVIOUS
<1>. HIDE DEF client
<1>4. rec \in Record
  BY <1>1, <1>2 DEF Record, Pcs
<1>5. /\ rec.pc = "answered" /\ rec.client = client /\ rec.key = call[c].key
      /\ rec.force = call[c].force
  BY <1>1 DEF Record
<1>. HIDE DEF rec
<1>6. Dated(rec.client) /\ InTime(rec)
  BY <1>2, <1>3, <1>5, OidcAssumption DEF Dated, InTime
<1>7. Younger(rec) /\ Tolerated(rec)
  BY <1>1, <1>2, <1>3, <1>5 DEF Good, Younger, Tolerated
<1>. QED BY <1>4, <1>6, <1>7, CallKeepsIInv DEF Answer, Good, rec, client

LEMMA ReceiveKeepsIInv ==
  ASSUME IInv, NEW c \in Calls, Receive(c)
  PROVE  IInv'
<1>. DEFINE client == [call[c].client EXCEPT !.at = now]
            rec == [call[c] EXCEPT !.pc = "storing", !.client = client]
<1>1. call[c] \in Record /\ Good(call[c]) /\ call[c].pc = "answered"
  BY TypeOKUnfolded DEF IInv, Receive
<1>2. call[c].client \in Client /\ now <= call[c].client.seen + Timeout
  BY <1>1 DEF Good, InTime
<1>3. client \in Client
  BY <1>2 DEF IInv, TypeOK, Client
<1>4. /\ client.low = call[c].client.low /\ client.high = call[c].client.high
      /\ client.seen = call[c].client.seen /\ client.at = now
  BY <1>2 DEF Client
<1>5. client.seen <= now
  BY <1>1, <1>2, <1>4 DEF Good, Dated, Client, IInv, TypeOK
<1>. HIDE DEF client
<1>6. rec \in Record
  BY <1>1, <1>3 DEF Record, Pcs
<1>7. /\ rec.pc = "storing" /\ rec.client = client /\ rec.key = call[c].key
      /\ rec.force = call[c].force
  BY <1>1 DEF Record
<1>8. [call[c] EXCEPT !.pc = "storing", !.client.at = BuiltAt] = rec
  BY <1>1 DEF BuiltAt, client, Record
<1>. HIDE DEF rec
<1>9. Dated(rec.client) /\ InTime(rec)
  <2>1. client.at <= client.seen + Timeout /\ client.at <= now
    BY <1>2, <1>4 DEF IInv, TypeOK
  <2>. QED BY <1>3, <1>4, <1>5, <1>7, <2>1 DEF Dated, InTime
<1>10. Younger(rec) /\ Tolerated(rec)
  BY <1>1, <1>4, <1>7 DEF Good, Younger, Tolerated, Holding
<1>. QED BY <1>6, <1>8, <1>9, <1>10, CallKeepsIInv DEF Good, Receive

LEMMA StoreKeepsIInv ==
  ASSUME IInv, NEW c \in Calls, Store(c)
  PROVE  IInv'
<1>1. call[c] \in Record /\ Good(call[c]) /\ call[c].pc = "storing"
  BY TypeOKUnfolded DEF IInv, Store
<1>2. call[c].client \in Client
  BY <1>1 DEF Good, InTime
<1>3. CASE call[c].force
  <2>. DEFINE rec == [call[c] EXCEPT !.pc = "rechecking"]
  <2>1. rec \in Record
    BY <1>1 DEF Record, Pcs
  <2>2. /\ rec.pc = "rechecking" /\ rec.client = call[c].client /\ rec.key = call[c].key
        /\ rec.force = call[c].force
    BY <1>1 DEF Record
  <2>. HIDE DEF rec
  <2>3. Good(rec)
    BY <1>1, <1>3, <2>2 DEF Good, InTime, Younger, Tolerated, Holding
  <2>. QED BY <1>3, <2>1, <2>3, CallKeepsIInv DEF Store, rec
<1>4. CASE ~call[c].force
  <2>. DEFINE rec == Equipped(call[c], call[c].client)
  <2>1. rec \in Record /\ Good(rec)
    BY <1>1, <1>2, <1>4, EquippedIsGood DEF Good, Younger
  <2>. HIDE DEF rec
  <2>. QED BY <1>4, <2>1, CallKeepsIInv DEF Store, rec
<1>. QED BY <1>3, <1>4

LEMMA ExchangeKeepsIInv ==
  ASSUME IInv, NEW c \in Calls, Exchange(c)
  PROVE  IInv'
<1>1. call[c] \in Record /\ Good(call[c]) /\ call[c].pc = "exchanging"
  BY TypeOKUnfolded DEF IInv, Exchange
<1>2. PICK key \in {newest, NoKey} : Becomes(c, [call[c] EXCEPT !.pc = "checking", !.key = key])
  BY DEF Exchange
<1>. DEFINE rec == [call[c] EXCEPT !.pc = "checking", !.key = key]
<1>3. key \in Keys \union {NoKey} /\ key <= newest
  BY DEF IInv, TypeOK, Keys, NoKey
<1>4. rec \in Record
  BY <1>1, <1>3 DEF Record, Pcs
<1>5. /\ rec.pc = "checking" /\ rec.client = call[c].client /\ rec.key = key
      /\ rec.force = call[c].force
  BY <1>1 DEF Record
<1>. HIDE DEF rec
<1>6. Good(rec)
  BY <1>1, <1>3, <1>5 DEF Good, InTime, Younger, Tolerated, Holding
<1>. QED BY <1>2, <1>4, <1>6, CallKeepsIInv DEF Exchange, rec

LEMMA RediscoverKeepsIInv ==
  ASSUME IInv, NEW c \in Calls, Rediscover(c)
  PROVE  IInv'
<1>. DEFINE rec == [call[c] EXCEPT !.pc = "discovering", !.force = TRUE]
<1>1. call[c] \in Record /\ Good(call[c]) /\ call[c].pc = "checking"
  BY TypeOKUnfolded DEF IInv, Rediscover
<1>2. rec \in Record
  BY <1>1 DEF Record, Pcs
<1>3. rec.pc = "discovering" /\ rec.client = call[c].client /\ rec.key = call[c].key
  BY <1>1 DEF Record
<1>. HIDE DEF rec
<1>4. Good(rec)
  BY <1>1, <1>3 DEF Good, InTime, Younger, Tolerated, Holding
<1>. QED BY <1>2, <1>4, CallKeepsIInv DEF Rediscover, rec

\* A token the rediscovered client does not verify was signed with a key below
\* those it has: it cannot be above them.
LEMMA RefuseKeepsIInv ==
  ASSUME IInv, NEW c \in Calls, Refuse(c)
  PROVE  IInv'
<1>1. call[c] \in Record /\ Good(call[c]) /\ call[c].pc = "rechecking" /\ ~Verifies(c)
  BY TypeOKUnfolded DEF IInv, Refuse
<1>2. call[c].key <= call[c].client.high /\ call[c].client.low <= oldest
  BY <1>1 DEF Good, Younger, Holding
<1>3. /\ call[c].key \in Int /\ oldest \in Int
      /\ call[c].client.low \in Int /\ call[c].client.high \in Int
  BY <1>1 DEF Record, Client, NoClient, Keys, NoKey, IInv, TypeOK
<1>4. call[c].key < oldest
  BY <1>1, <1>2, <1>3 DEF Verifies, Own
<1>. QED BY <1>4, EndsKeepsIInv DEF Refuse, Over

LEMMA NextKeepsIInv == IInv /\ [Next]_vars => IInv'
<1>. SUFFICES ASSUME IInv, [Next]_vars PROVE IInv'
  OBVIOUS
<1>1. CASE Rotate \/ Withdraw
  BY <1>1, ProviderKeepsIInv
<1>2. CASE Tick
  BY <1>2, TickKeepsIInv
<1>3. ASSUME NEW c \in Calls, DiscoveryFails(c) \/ ExchangeFails(c) \/ Accept(c)
      PROVE  IInv'
  BY <1>3, EndsKeepsIInv DEF DiscoveryFails, ExchangeFails, Accept, Over
<1>4. CASE UNCHANGED vars
  BY <1>4 DEF vars, IInv, TypeOK, Good, Dated, InTime, Younger, Tolerated
<1>. QED BY <1>1, <1>2, <1>3, <1>4, BeginKeepsIInv, AnswerKeepsIInv, ReceiveKeepsIInv,
            StoreKeepsIInv, ExchangeKeepsIInv, RediscoverKeepsIInv, RefuseKeepsIInv DEF Next

-----------------------------------------------------------------------------
\* The strengthened invariant holds throughout (provider.rs:327-453).
THEOREM Invariance == Spec => []IInv
<1>1. Init => IInv
  BY InitIInv
<1>2. IInv /\ [Next]_vars => IInv'
  BY NextKeepsIInv
<1>. QED BY <1>1, <1>2, PTL DEF Spec

\* Clients are dated as TypeOK says (provider.rs:327-350).
THEOREM TypeCorrect == Spec => []TypeOK
<1>1. IInv => TypeOK
  BY DEF IInv
<1>. QED BY <1>1, Invariance, PTL

\* A key that is still published is never a reason to refuse a token, whatever
\* other calls discover and store (provider.rs:404-421).
THEOREM RotationToleratedHolds == Spec => []RotationTolerated
<1>1. IInv => RotationTolerated
  BY DEF IInv, Good, Tolerated, RotationTolerated
<1>. QED BY <1>1, Invariance, PTL

\* What is taken out of the cache is at most metadata_ttl_secs and a request old
\* (provider.rs:332-349).
THEOREM KeysRecentHolds == Spec => KeysRecent
<1>. DEFINE A == \A c \in Calls :
                  call[c].pc \in Over /\ call'[c].pc = "exchanging" =>
                    now - call'[c].client.seen < Ttl + Timeout
<1>1. IInv /\ [Next]_vars => [A]_vars
  <2>. SUFFICES ASSUME IInv, Next, NEW c \in Calls,
                       call[c].pc \in Over, call'[c].pc = "exchanging"
                PROVE  now - call'[c].client.seen < Ttl + Timeout
    BY DEF A
  <2>1. Begin(c)
    <3>1. call \in [Calls -> Record]
      BY TypeOKUnfolded DEF IInv
    <3>2. call'[c] # call[c]
      BY DEF Over
    <3>3. PICK d \in Calls : \/ Begin(d) \/ Answer(d) \/ Receive(d) \/ DiscoveryFails(d) \/ Store(d)
                             \/ Exchange(d) \/ ExchangeFails(d) \/ Accept(d) \/ Rediscover(d)
                             \/ Refuse(d)
      BY <3>2 DEF Next, Rotate, Withdraw, Tick
    <3>4. c = d
      BY <3>1, <3>2, <3>3 DEF Begin, Answer, Receive, DiscoveryFails, Store, Exchange,
         ExchangeFails, Accept, Rediscover, Refuse, Ends, Becomes
    <3>. QED BY <3>3, <3>4 DEF Over, Answer, Receive, DiscoveryFails, Store, Exchange,
                ExchangeFails, Accept, Rediscover, Refuse
  <2>2. call \in [Calls -> Record]
    BY TypeOKUnfolded DEF IInv
  <2>3. cache # NoClient /\ Fresh /\ call'[c].client = cache
    BY <2>1, <2>2 DEF Begin, Becomes, Equipped
  <2>4. cache \in Client /\ cache.at <= cache.seen + Timeout
    BY <2>3 DEF IInv, TypeOK, Dated
  <2>. QED BY <2>3, <2>4, OidcAssumption DEF Fresh, Client, IInv, TypeOK
<1>2. IInv /\ [Next]_vars => [A]_vars
  BY <1>1
<1>. QED BY <1>1, Invariance, PTL DEF Spec, KeysRecent
=============================================================================
