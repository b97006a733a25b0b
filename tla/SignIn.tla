------------------------------- MODULE SignIn -------------------------------
(***************************************************************************)
(* The sign-in routes of muxa-auth over the cookie sessions of             *)
(* tower-sessions and axum-login, with DieselSessionStore underneath.      *)
(*                                                                         *)
(* A request loads the session's record when it arrives, its handler works *)
(* on that copy, and the whole copy is written back with the response: two *)
(* requests of one session overlap like two unsynchronised read-modify-    *)
(* writes. A slot is a request in progress.                                *)
(*                                                                         *)
(* The data of an attempt never changes and its state token is unique, so  *)
(* an attempt is a number into `attempts`, and its token that number. What *)
(* a handler does to its copy without waiting is one step with the load or *)
(* the wait before it: nobody else can see the copy.                       *)
(***************************************************************************)
EXTENDS Integers, Sequences, FiniteSets

CONSTANTS
  Browsers,     \* each with its own cookie jar
  Slots,        \* requests the server works on at once
  Providers,    \* the providers that are on
  Users,        \* the users the resolver may answer with
  NoUser,
  MaxPending,   \* MAX_PENDING
  PendingTtl,   \* PENDING_TTL_SECS, in ticks
  SessionTtl,   \* [auth.cookie] ttl_secs, in ticks
  MaxAttempts, MaxIds, MaxTime     \* bounds of the model

ASSUME SignInAssumption ==
  /\ NoUser \notin Users
  /\ {MaxPending, PendingTtl, SessionTtl} \subseteq Nat \ {0}
  /\ {MaxAttempts, MaxIds, MaxTime} \subseteq Nat

VARIABLES
  now,        \* the wall clock
  attempts,   \* every PendingLogin issued: provider, link, createdAt, and the
              \* browser that started it
  store,      \* store[id]: the auth_sessions row with that id
  cookie,     \* cookie[b]: the session id browser b sends, NoId if none
  slot,       \* slot[s]: the request in progress
  nextId,     \* the next session id to be drawn
  anonymous   \* history: ids some row had while nobody was signed in on it

vars == <<now, attempts, store, cookie, slot, nextId, anonymous>>

Ids == 1..MaxIds
NoId == 0
Anyone == Users \union {NoUser}

\* A deleted row is one no load finds and no sweep cares about.
NoRow == [user |-> NoUser, pending |-> {}, expires |-> -1]

Idle == [pc |-> "idle"]

Init ==
  /\ now = 0
  /\ attempts = <<>>
  /\ store = [id \in Ids |-> NoRow]
  /\ cookie = [b \in Browsers |-> NoId]
  /\ slot = [s \in Slots |-> Idle]
  /\ nextId = 1
  /\ anonymous = {}

-----------------------------------------------------------------------------
(* The session store                                                       *)

\* load: the row, unless it has expired.
Live(id) == id \in Ids /\ store[id].expires > now

\* Mutant: the sweep compares the wrong way round.
NotExpiredRow(row) == row.expires > now
ExpiredRow(row) == row.expires < now

\* delete_expired, from the sweeper's timer.
Sweep ==
  /\ store' = [id \in Ids |-> IF ExpiredRow(store[id]) THEN NoRow ELSE store[id]]
  /\ UNCHANGED <<now, attempts, cookie, slot, nextId, anonymous>>

Tick ==
  /\ now < MaxTime
  /\ now' = now + 1
  /\ UNCHANGED <<attempts, store, cookie, slot, nextId, anonymous>>

-----------------------------------------------------------------------------
(* A request arrives: the session layer loads the record its cookie names. *)

Session(id) == IF Live(id) THEN store[id] ELSE NoRow

\* sid is the id the copy will be saved under, NoId if it is to get a new one;
\* attempt the one the request is about, 0 if it is about none. A request is
\* answered unless its handler has something to wait for.
Loaded(b) ==
  [pc |-> "answered", browser |-> b, sent |-> cookie[b] # NoId,
   sid |-> IF Live(cookie[b]) THEN cookie[b] ELSE NoId,
   user |-> Session(cookie[b]).user, pending |-> Session(cookie[b]).pending,
   modified |-> FALSE, attempt |-> 0]

Becomes(s, rec, pc) == slot' = [slot EXCEPT ![s] = [rec EXCEPT !.pc = pc]]

\* A request that leaves its copy alone: a page of the application's own, or a
\* start that is refused (an unknown provider, a link with nobody signed in, a
\* provider that cannot be asked).
ArrivePage(s, b) ==
  /\ slot[s].pc = "idle"
  /\ slot' = [slot EXCEPT ![s] = Loaded(b)]
  /\ UNCHANGED <<now, attempts, store, cookie, nextId, anonymous>>

-----------------------------------------------------------------------------
(* start                                                                   *)

\* The provider is asked where to send the browser; an OpenID Connect one may
\* take a discovery to answer.
ArriveStart(s, b) ==
  /\ slot[s].pc = "idle"
  /\ Becomes(s, Loaded(b), "starting")
  /\ UNCHANGED <<now, attempts, store, cookie, nextId, anonymous>>

\* Mutants: an attempt as old as the limit still counts; the map is full one
\* too late.
FreshOrAsOld(a) == now - attempts[a].createdAt <= PendingTtl
Fresh(a) == now - attempts[a].createdAt < PendingTtl
RoomForAll == MaxPending
RoomForOthers == MaxPending - 1

\* remember keeps what is fresh, and drops the oldest until there is room.
\* Attempts of the same second are dropped in the map's own order.
Kept(pending, kept) ==
  LET fresh == {a \in pending : Fresh(a)}
  IN  /\ kept \subseteq fresh
      /\ Cardinality(kept) <= RoomForOthers
      /\ kept # fresh => Cardinality(kept) = RoomForOthers
      /\ \A k \in kept, e \in fresh \ kept :
           attempts[e].createdAt <= attempts[k].createdAt

Remember(s) ==
  LET rec == slot[s]
  IN  /\ rec.pc = "starting"
      /\ Len(attempts) < MaxAttempts
      /\ \E p \in Providers, link \in BOOLEAN :
           /\ link => rec.user # NoUser
           /\ attempts' = Append(attempts, [provider |-> p, link |-> link,
                                            createdAt |-> now, owner |-> rec.browser])
      /\ \E kept \in SUBSET rec.pending :
           /\ Kept(rec.pending, kept)
           /\ Becomes(s, [rec EXCEPT !.pending = kept \union {Len(attempts')},
                                     !.modified = TRUE], "answered")
      /\ UNCHANGED <<now, store, cookie, nextId, anonymous>>

-----------------------------------------------------------------------------
(* callback                                                                *)

\* Mutants: the attempt is left in the map; the whole map is dropped with it.
Matching(rec, state) == rec.pending \intersect {state}
NotTaken(rec, found) == rec.pending
AllTaken(rec, found) == {}
Untaken(rec, found) == rec.pending \ found
Usable(a, p) == Fresh(a) /\ attempts[a].provider = p

\* take: the attempt is out of the copy whatever becomes of it. The state token
\* is one that was issued, to this browser or another, or an unknown one.
ArriveCallback(s, b) ==
  \E p \in Providers, state \in 0..Len(attempts) :
    LET rec == Loaded(b)
        found == Matching(rec, state)
        taken == [rec EXCEPT !.pending = Untaken(rec, found), !.modified = found # {}]
    IN  /\ slot[s].pc = "idle"
        /\ \/ \E a \in found :
                /\ Usable(a, p)
                /\ Becomes(s, [taken EXCEPT !.attempt = a], "identifying")
           \/ Becomes(s, taken, "answered")
        /\ UNCHANGED <<now, attempts, store, cookie, nextId, anonymous>>

Deleted(id) == [store EXCEPT ![id] = NoRow]

\* Mutants: the session keeps its id; the new id is set before it is created.
NoCycle(rec) == rec.sid
EarlyId(rec) == IF rec.user = NoUser THEN nextId ELSE rec.sid
Cycled(rec) == IF rec.user = NoUser THEN NoId ELSE rec.sid

\* The provider identified the visitor, and the resolver answered with user u.
\* login: unless someone is signed in already the session id is cycled, which
\* deletes the old row now and creates the new one with the response.
Login(s, u) ==
  LET rec == slot[s]
  IN  /\ rec.pc = "identifying"
      /\ attempts[rec.attempt].link => rec.user # NoUser
      /\ store' = IF Cycled(rec) # rec.sid THEN Deleted(rec.sid) ELSE store
      /\ Becomes(s, [rec EXCEPT !.user = u, !.sid = Cycled(rec), !.modified = TRUE],
                 "answered")
      /\ UNCHANGED <<now, attempts, cookie, nextId, anonymous>>

\* The provider reports an error or does not identify the visitor, the resolver
\* refuses, or the link finds nobody signed in. Or the store fails while the old
\* row is deleted: nobody is signed in, but the copy has lost its id.
RefuseCallback(s) ==
  LET rec == [slot[s] EXCEPT !.attempt = 0]
  IN  /\ slot[s].pc = "identifying"
      /\ \/ Becomes(s, rec, "answered")
         \/ Becomes(s, [rec EXCEPT !.sid = Cycled(rec)], "answered")
      /\ UNCHANGED <<now, attempts, store, cookie, nextId, anonymous>>

-----------------------------------------------------------------------------
(* sign_out                                                                *)

\* Mutant: only the copy is cleared, the row stays.
RowStays(rec) == store
SessionDeleted(rec) == IF rec.sid # NoId THEN Deleted(rec.sid) ELSE store

\* logout clears the copy, deletes the row and forgets its id. When the delete
\* fails the answer is a server error, which saves nothing and keeps the cookie:
\* no more than a page does.
ArriveSignOut(s, b) ==
  LET rec == Loaded(b)
  IN  /\ slot[s].pc = "idle"
      /\ store' = SessionDeleted(rec)
      /\ Becomes(s, [rec EXCEPT !.user = NoUser, !.pending = {}, !.sid = NoId], "answered")
      /\ UNCHANGED <<now, attempts, cookie, nextId, anonymous>>

-----------------------------------------------------------------------------
(* The response leaves: the session layer writes the copy back.            *)

Empty(rec) == rec.sid = NoId /\ rec.user = NoUser /\ rec.pending = {}

Done(s) == slot' = [slot EXCEPT ![s] = Idle]

\* There is no session: a cookie that was sent is removed, nothing is saved.
DropCookie(s) ==
  LET rec == slot[s]
  IN  /\ rec.pc = "answered"
      /\ Empty(rec)
      /\ cookie' = IF rec.sent THEN [cookie EXCEPT ![rec.browser] = NoId] ELSE cookie
      /\ Done(s)
      /\ UNCHANGED <<now, attempts, store, nextId, anonymous>>

Saving(s) == slot[s].pc = "answered" /\ ~Empty(slot[s]) /\ slot[s].modified

NotModified(s) ==
  /\ slot[s].pc = "answered"
  /\ ~Empty(slot[s])
  /\ ~slot[s].modified
  /\ Done(s)
  /\ UNCHANGED <<now, attempts, store, cookie, nextId, anonymous>>

\* The whole record, under its id or, if it has none, a new one. It overwrites
\* what another request stored since the copy was loaded, and brings back a row
\* that was deleted since.
SavedAs(s) == IF slot[s].sid = NoId THEN nextId ELSE slot[s].sid

Save(s) ==
  LET rec == slot[s]
      id == SavedAs(s)
  IN  /\ Saving(s)
      /\ id \in Ids
      /\ store' = [store EXCEPT ![id] = [user |-> rec.user, pending |-> rec.pending,
                                         expires |-> now + SessionTtl]]
      /\ cookie' = [cookie EXCEPT ![rec.browser] = id]
      /\ nextId' = IF rec.sid = NoId THEN nextId + 1 ELSE nextId
      /\ anonymous' = IF rec.user = NoUser THEN anonymous \union {id} ELSE anonymous
      /\ Done(s)
      /\ UNCHANGED <<now, attempts>>

\* The store fails: the response turns into an error and sets no cookie.
SaveFails(s) ==
  /\ Saving(s)
  /\ Done(s)
  /\ UNCHANGED <<now, attempts, store, cookie, nextId, anonymous>>

-----------------------------------------------------------------------------
Next ==
  \/ Tick \/ Sweep
  \/ \E s \in Slots, b \in Browsers :
       ArrivePage(s, b) \/ ArriveStart(s, b) \/ ArriveCallback(s, b) \/ ArriveSignOut(s, b)
  \/ \E s \in Slots :
       Remember(s) \/ RefuseCallback(s) \/ DropCookie(s) \/ NotModified(s)
         \/ Save(s) \/ SaveFails(s)
  \/ \E s \in Slots, u \in Users : Login(s, u)

Spec == Init /\ [][Next]_vars

-----------------------------------------------------------------------------
(* Properties                                                              *)

Row == [user : Anyone, pending : SUBSET (1..Len(attempts)), expires : Int]

Request == [pc : {"starting", "identifying", "answered"}, browser : Browsers,
            sent : BOOLEAN, sid : Ids \union {NoId}, user : Anyone,
            pending : SUBSET (1..Len(attempts)), modified : BOOLEAN,
            attempt : 0..Len(attempts)]

Attempt == [provider : Providers, link : BOOLEAN, createdAt : 0..MaxTime, owner : Browsers]

\* Every variable holds what the code may put there: sessions are named by ids
\* that were drawn, for the row that was created under them, and attempts are
\* among those that were issued (routes.rs:230-271, store.rs:78-123).
TypeOK ==
  /\ now \in 0..MaxTime
  /\ attempts \in Seq(Attempt) /\ Len(attempts) <= MaxAttempts
  /\ store \in [Ids -> Row]
  /\ cookie \in [Browsers -> Ids \union {NoId}]
  /\ slot \in [Slots -> {Idle} \union Request]
  /\ nextId \in 1..(MaxIds + 1)
  /\ anonymous \subseteq 1..(nextId - 1)
  /\ \A b \in Browsers : cookie[b] < nextId
  /\ \A s \in Slots : slot[s].pc # "idle" => slot[s].sid < nextId

\* A session never holds more than MAX_PENDING sign-ins in progress, however
\* many tabs start one and whatever they overwrite (routes.rs:230-249).
PendingBounded ==
  /\ \A id \in Ids : Cardinality(store[id].pending) <= MaxPending
  /\ \A s \in Slots :
       slot[s].pc # "idle" => Cardinality(slot[s].pending) <= MaxPending

\* "a session fixed before sign-in is useless after it" (routes.rs:207): an id
\* that ever named a session with nobody signed in never names one with a user,
\* even when a stale copy brings the row back.
FixedIdUseless == \A id \in anonymous : store[id].user = NoUser

\* A callback goes on to sign in only with an attempt of this very browser,
\* less than the limit old (routes.rs:150-161, 253-271), which the row that the
\* browser's cookie names holds and the request's own copy no longer does. Not that
\* no other request took the attempt before: a stale copy may have brought it back.
SignInEarned ==
  [][\A s \in Slots :
       slot[s].pc = "idle" /\ slot'[s].pc = "identifying" =>
         LET rec == slot'[s]
         IN  /\ attempts[rec.attempt].owner = rec.browser
             /\ now - attempts[rec.attempt].createdAt < PendingTtl
             /\ rec.attempt \in store[cookie[rec.browser]].pending \ rec.pending]_vars

\* A session somebody may still use ends before its time only by a sign-out of
\* its own browser, or to be cycled by its own sign-in: never by the sweep
\* (store.rs:125-171).
LiveSessionsKept ==
  [][\A id \in Ids :
       Live(id) /\ store'[id] = NoRow =>
         \E s \in Slots :
           \/ slot[s].pc = "identifying" /\ slot[s].sid = id /\ slot'[s].sid # id
           \/ slot[s].pc = "idle" /\ slot'[s].pc = "answered"
                /\ cookie[slot'[s].browser] = id]_vars

\* "Sign-out after this many seconds without a request" (config.rs:77): when a
\* request of somebody signed in is answered, the session has the full ttl_secs
\* ahead of it. Only a request that changes the session extends it.
RequestsExtendSession ==
  [][\A s \in Slots :
       slot[s].pc = "answered" /\ slot'[s].pc = "idle"
         /\ slot[s].user # NoUser /\ ~slot[s].modified =>
         store'[slot[s].sid].expires = now + SessionTtl]_vars
=============================================================================
