----------------------------- MODULE OidcClient -----------------------------
(***************************************************************************)
(* The cached OpenID Connect client of one provider in muxa-auth: the      *)
(* start and callback requests use it, rediscover it when it is too old,   *)
(* and once more when an ID token does not verify, while the provider      *)
(* rotates its signing keys.                                               *)
(*                                                                         *)
(* Keys are numbered in the order the provider makes them. It signs with   *)
(* the newest and publishes those from `oldest` on. A client is what a     *)
(* discovery brought back: the keys published when it was answered.        *)
(***************************************************************************)
EXTENDS Integers

CONSTANTS
  Calls,      \* the calls of authorize and identify in progress at once
  Ttl,        \* metadata_ttl_secs, in ticks
  Timeout,    \* of an HTTP request, in ticks
  MaxKeys, MaxTime     \* bounds of the model

ASSUME OidcAssumption ==
  {Ttl, Timeout, MaxTime} \subseteq Nat /\ MaxKeys \in Nat \ {0}

VARIABLES
  now,        \* the clock
  oldest,     \* the oldest key the provider publishes
  newest,     \* the key it signs with
  cache,      \* OidcProvider.client
  call        \* call[c]: the call in progress

vars == <<now, oldest, newest, cache, call>>

Keys == 1..MaxKeys
NoKey == 0      \* the signer of a token that no key verifies

\* `seen` is when the provider answered, `at` when the client was built.
NoClient == [low |-> 1, high |-> NoKey, seen |-> 0, at |-> 0]

Over == {"ready", "accepted", "refused", "failed"}

Init ==
  /\ now = 0
  /\ oldest = 1
  /\ newest = 1
  /\ cache = NoClient
  /\ call = [c \in Calls |-> [pc |-> "ready", does |-> "authorize", force |-> FALSE,
                             client |-> NoClient, key |-> NoKey]]

-----------------------------------------------------------------------------
(* The provider and the clock                                              *)

Rotate ==
  /\ newest < MaxKeys
  /\ newest' = newest + 1
  /\ UNCHANGED <<now, oldest, cache, call>>

Withdraw ==
  /\ oldest < newest
  /\ oldest' = oldest + 1
  /\ UNCHANGED <<now, newest, cache, call>>

\* An answer that is on its way for longer than the timeout does not arrive.
Tick ==
  /\ now < MaxTime
  /\ \A c \in Calls : call[c].pc = "answered" => now - call[c].client.seen < Timeout
  /\ now' = now + 1
  /\ UNCHANGED <<oldest, newest, cache, call>>

-----------------------------------------------------------------------------
(* client                                                                  *)

Becomes(c, rec) ==
  /\ call' = [call EXCEPT ![c] = rec]
  /\ UNCHANGED <<now, oldest, newest>>

Ends(c, how) ==
  Becomes(c, [call[c] EXCEPT !.pc = how, !.force = FALSE, !.client = NoClient]) /\ UNCHANGED cache

\* With its client, authorize is done; identify goes on to exchange the code.
Equipped(rec, client) ==
  IF rec.does = "authorize" THEN [rec EXCEPT !.pc = "ready", !.client = NoClient]
  ELSE [rec EXCEPT !.pc = "exchanging", !.client = client]

\* Mutant: a client exactly as old as the limit is still used.
FreshOrAsOld == now - cache.at <= Ttl
Fresh == now - cache.at < Ttl

\* client(force: false): the cached one, or a discovery.
Begin(c) ==
  /\ call[c].pc \in Over
  /\ \E does \in {"authorize", "identify"} :
       LET rec == [pc |-> "discovering", does |-> does, force |-> FALSE,
                   client |-> NoClient, key |-> NoKey]
       IN  Becomes(c, IF cache # NoClient /\ Fresh THEN Equipped(rec, cache) ELSE rec)
  /\ UNCHANGED cache

\* The provider answers with the keys it publishes.
Answer(c) ==
  /\ call[c].pc = "discovering"
  /\ Becomes(c, [call[c] EXCEPT !.pc = "answered",
                                !.client = [low |-> oldest, high |-> newest,
                                            seen |-> now, at |-> now]])
  /\ UNCHANGED cache

\* Mutant: the instant it expires.
BuiltUntil == now + Ttl
BuiltAt == now

\* The answer arrives and the client is built. Its age counts from now, and not
\* from when the lock is granted.
Receive(c) ==
  /\ call[c].pc = "answered"
  /\ Becomes(c, [call[c] EXCEPT !.pc = "storing", !.client.at = BuiltAt])
  /\ UNCHANGED cache

DiscoveryFails(c) ==
  /\ call[c].pc \in {"discovering", "answered"}
  /\ Ends(c, "failed")

\* The client replaces whatever another call has stored meanwhile.
Store(c) ==
  /\ call[c].pc = "storing"
  /\ cache' = call[c].client
  /\ Becomes(c, IF call[c].force THEN [call[c] EXCEPT !.pc = "rechecking"]
                ELSE Equipped(call[c], call[c].client))

-----------------------------------------------------------------------------
(* identify                                                                *)

\* The code is exchanged for a token, signed with the provider's newest key. It
\* may be one that does not verify for another reason.
Exchange(c) ==
  /\ call[c].pc = "exchanging"
  /\ \E key \in {newest, NoKey} : Becomes(c, [call[c] EXCEPT !.pc = "checking", !.key = key])
  /\ UNCHANGED cache

ExchangeFails(c) ==
  /\ call[c].pc = "exchanging"
  /\ Ends(c, "failed")

\* Mutant: the token is checked with the client that is cached by now.
Shared(c) == cache
Own(c) == call[c].client

Verifies(c) == Own(c).low <= call[c].key /\ call[c].key <= Own(c).high

\* The token verifies, the first time or the second. Its at_hash may still not
\* match the access token.
Accept(c) ==
  /\ call[c].pc \in {"checking", "rechecking"}
  /\ Verifies(c)
  /\ \E how \in {"accepted", "failed"} : Ends(c, how)

\* It does not: a key may have been rotated. client(force: true)
Rediscover(c) ==
  /\ call[c].pc = "checking"
  /\ ~Verifies(c)
  /\ Becomes(c, [call[c] EXCEPT !.pc = "discovering", !.force = TRUE])
  /\ UNCHANGED cache

Refuse(c) ==
  /\ call[c].pc = "rechecking"
  /\ ~Verifies(c)
  /\ Ends(c, "refused")

-----------------------------------------------------------------------------
Next ==
  \/ Rotate \/ Withdraw \/ Tick
  \/ \E c \in Calls :
       \/ Begin(c) \/ Answer(c) \/ Receive(c) \/ DiscoveryFails(c) \/ Store(c)
       \/ Exchange(c) \/ ExchangeFails(c) \/ Accept(c) \/ Rediscover(c) \/ Refuse(c)

Spec == Init /\ [][Next]_vars

-----------------------------------------------------------------------------
(* Properties                                                              *)

Client == [low : Keys, high : Keys, seen : 0..MaxTime, at : 0..MaxTime]

Dated(client) ==
  client \in Client => client.seen <= client.at /\ client.at <= client.seen + Timeout
                         /\ client.at <= now

\* Every variable holds what the code may put there, and a client is dated after
\* its discovery was answered, by one HTTP request at most (provider.rs:338-348).
TypeOK ==
  /\ now \in 0..MaxTime
  /\ oldest \in Keys /\ newest \in Keys /\ oldest <= newest
  /\ cache \in Client \union {NoClient}
  /\ call \in [Calls -> [pc : Over \union {"discovering", "answered", "storing", "exchanging",
                                           "checking", "rechecking"},
                         does : {"authorize", "identify"}, force : BOOLEAN,
                         client : Client \union {NoClient}, key : Keys \union {NoKey}]]
  /\ Dated(cache) /\ \A c \in Calls : Dated(call[c].client)

\* "Re-read the discovery document (and so the signing keys) after this many
\* seconds" (config.rs:189): the keys a call takes out of the cache were
\* published at most metadata_ttl_secs and one request ago, although an older
\* answer may replace a newer one (provider.rs:332-349).
KeysRecent ==
  [][\A c \in Calls :
       call[c].pc \in Over /\ call'[c].pc = "exchanging" =>
         now - call'[c].client.seen < Ttl + Timeout]_vars

\* A rotation is picked up whatever other calls store (provider.rs:404-421): a
\* token is refused only if no key verifies it, or the provider has withdrawn the
\* key it was signed with.
RotationTolerated ==
  \A c \in Calls : call[c].pc = "refused" => call[c].key = NoKey \/ call[c].key < oldest
=============================================================================
