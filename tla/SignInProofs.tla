---------------------------- MODULE SignInProofs ----------------------------
(***************************************************************************)
(* Theorems about SignIn and SignInHistory. First its types, the bound on  *)
(* the attempts a session holds, and that an id of an anonymous session    *)
(* never becomes one of somebody signed in: for the last the copies of the *)
(* requests in progress count as much as the rows. Then that ids and       *)
(* attempts stay with their browser, and what follows for a single step.   *)
(* At last what holds of browsers that send one request at a time.         *)
(***************************************************************************)
EXTENDS SignInHistory, FiniteSetTheorems, TLAPS

Busy(s) == slot[s].pc # "idle"

\* A row or a copy with nobody signed in is of an id that is known to have been
\* anonymous, and the other way round.
IdsSettled ==
  /\ \A id \in Ids :
       store[id].expires > -1 /\ store[id].user = NoUser => id \in anonymous
  /\ \A s \in Slots :
       Busy(s) /\ slot[s].sid # NoId => (slot[s].user = NoUser <=> slot[s].sid \in anonymous)

IInv == TypeOK /\ FixedIdUseless /\ IdsSettled /\ PendingBounded

-----------------------------------------------------------------------------
(* Records                                                                 *)

LEMMA BusyIsRequest ==
  ASSUME TypeOK, NEW s \in Slots, Busy(s)
  PROVE  slot[s] \in Request
BY DEF TypeOK, Busy, Idle

LEMMA RequestIsBusy ==
  ASSUME NEW rec \in Request
  PROVE  rec.pc # "idle"
BY DEF Request

LEMMA SessionTyped ==
  ASSUME TypeOK, NEW id
  PROVE  Session(id) \in Row
<1>1. NoRow \in Row
  BY DEF NoRow, Row, Anyone
<1>. QED BY <1>1 DEF Session, Live, TypeOK

LEMMA LoadedTyped ==
  ASSUME TypeOK, NEW b \in Browsers
  PROVE  Loaded(b) \in Request /\ Loaded(b).sid < nextId
<1>1. Session(cookie[b]) \in Row
  BY SessionTyped
<1>2. cookie[b] \in Ids \union {NoId} /\ cookie[b] < nextId /\ nextId \in Nat \ {0}
  BY SignInAssumption DEF TypeOK
<1>3. (IF Live(cookie[b]) THEN cookie[b] ELSE NoId) \in Ids \union {NoId}
  BY <1>2
<1>4. Loaded(b).sid < nextId
  BY <1>2 DEF Loaded, NoId
<1>5. 0 \in 0..Len(attempts)
  BY DEF TypeOK
<1>6. /\ Session(cookie[b]).user \in Anyone
      /\ Session(cookie[b]).pending \in SUBSET (1..Len(attempts))
  BY <1>1 DEF Row
<1>7. (cookie[b] # NoId) \in BOOLEAN /\ FALSE \in BOOLEAN
  OBVIOUS
<1>8. Loaded(b) \in Request
  BY <1>3, <1>5, <1>6, <1>7 DEF Loaded, Request
<1>. QED BY <1>4, <1>8

\* Attempts are never taken back.
LEMMA RequestGrows ==
  ASSUME TypeOK, TypeOK', Len(attempts) <= Len(attempts')
  PROVE  Request \subseteq Request'
BY DEF Request, TypeOK

LEMMA PendingFinite ==
  ASSUME TypeOK, NEW S, S \subseteq 1..Len(attempts)
  PROVE  IsFiniteSet(S)
<1>1. IsFiniteSet(1..Len(attempts))
  BY FS_Interval DEF TypeOK
<1>. QED BY <1>1, FS_Subset

LEMMA PendingShrinks ==
  ASSUME TypeOK, NEW S, S \subseteq 1..Len(attempts), NEW T, T \subseteq S,
         Cardinality(S) <= MaxPending
  PROVE  Cardinality(T) <= MaxPending
<1>1. IsFiniteSet(S)
  BY PendingFinite
<1>2. Cardinality(T) <= Cardinality(S) /\ Cardinality(S) \in Nat /\ Cardinality(T) \in Nat
  BY <1>1, FS_Subset, FS_CardinalityType
<1>. QED BY <1>2, SignInAssumption

-----------------------------------------------------------------------------
(* What a copy has to be for the invariant                                 *)

Settled(rec) == rec.sid # NoId => (rec.user = NoUser <=> rec.sid \in anonymous)

CopyOK(rec) ==
  /\ rec \in Request
  /\ rec.sid < nextId
  /\ Settled(rec)
  /\ Cardinality(rec.pending) <= MaxPending

LEMMA SlotsAreOK ==
  ASSUME IInv, NEW s \in Slots, Busy(s)
  PROVE  CopyOK(slot[s])
BY BusyIsRequest DEF IInv, CopyOK, Settled, IdsSettled, PendingBounded, TypeOK, Busy

LEMMA NothingPending == Cardinality({}) <= MaxPending
BY FS_EmptySet, SignInAssumption

LEMMA LoadedOK ==
  ASSUME IInv, NEW b \in Browsers
  PROVE  CopyOK(Loaded(b))
<1>1. TypeOK
  BY DEF IInv
<1>2. Loaded(b) \in Request /\ Loaded(b).sid < nextId
  BY <1>1, LoadedTyped
<1>3. CASE Live(cookie[b])
  <2>1. /\ Loaded(b).sid = cookie[b] /\ cookie[b] \in Ids /\ store[cookie[b]].expires > now
        /\ Loaded(b).user = store[cookie[b]].user
        /\ Loaded(b).pending = store[cookie[b]].pending
    BY <1>3 DEF Loaded, Live, Session
  <2>2. store[cookie[b]].expires > -1
    <3>1. now \in 0..MaxTime /\ store[cookie[b]].expires \in Int
      BY <1>1, <2>1 DEF TypeOK, Row
    <3>. QED BY <2>1, <3>1, SignInAssumption
  <2>3. Settled(Loaded(b))
    BY <2>1, <2>2 DEF IInv, Settled, IdsSettled, FixedIdUseless
  <2>. QED BY <1>2, <2>1, <2>3 DEF CopyOK, IInv, PendingBounded
<1>4. CASE ~Live(cookie[b])
  <2>1. Loaded(b).sid = NoId /\ Loaded(b).pending = {}
    BY <1>4 DEF Loaded, Session, NoRow
  <2>. QED BY <1>2, <2>1, NothingPending DEF CopyOK, Settled
<1>. QED BY <1>3, <1>4

LEMMA AnonymousDrawn ==
  ASSUME TypeOK
  PROVE  anonymous \subseteq Ids /\ nextId \notin anonymous
BY SignInAssumption DEF TypeOK, Ids

\* A step that replaces one copy by another as good, and at most empties a row
\* and a cookie, keeps the invariant.
RowsKept == store' = store \/ \E id \in Ids : store' = Deleted(id)
CookiesKept == cookie' = cookie \/ \E b \in Browsers : cookie' = [cookie EXCEPT ![b] = NoId]

LEMMA CopyKeepsIInv ==
  ASSUME IInv, NEW s \in Slots, NEW rec, rec = Idle \/ CopyOK(rec),
         slot' = [slot EXCEPT ![s] = rec],
         RowsKept, CookiesKept, UNCHANGED <<now, attempts, nextId, anonymous>>
  PROVE  IInv'
<1>. TypeOK
  BY DEF IInv
<1>1. \A o \in Slots : slot'[o] = IF o = s THEN rec ELSE slot[o]
  BY DEF TypeOK
<1>2. NoRow \in Row
  BY DEF NoRow, Row, Anyone
<1>3. store' \in [Ids -> Row] /\ \A id \in Ids : store'[id] = store[id] \/ store'[id] = NoRow
  BY <1>2 DEF RowsKept, Deleted, TypeOK
<1>4. /\ cookie' \in [Browsers -> Ids \union {NoId}]
      /\ \A b \in Browsers : cookie'[b] < nextId
  BY DEF CookiesKept, TypeOK, NoId
<1>5. Request' = Request /\ Row' = Row /\ Attempt' = Attempt
  BY DEF Request, Row, Attempt
<1>6. slot' \in [Slots -> {Idle} \union Request]
  BY DEF TypeOK, CopyOK
<1>7. \A o \in Slots : slot'[o].pc # "idle" => CopyOK(slot'[o])
  BY <1>1, SlotsAreOK DEF Busy, Idle
<1>8. TypeOK'
  BY <1>3, <1>4, <1>5, <1>6, <1>7 DEF TypeOK, CopyOK
<1>9. FixedIdUseless'
  BY <1>3, AnonymousDrawn DEF IInv, FixedIdUseless, NoRow
<1>10. IdsSettled'
  BY <1>3, <1>7 DEF IInv, IdsSettled, NoRow, CopyOK, Settled, Busy
<1>11. PendingBounded'
  <2>1. \A id \in Ids : store[id].pending = store'[id].pending \/ store'[id].pending = {}
    BY <1>3 DEF NoRow
  <2>2. \A id \in Ids : Cardinality(store'[id].pending) <= MaxPending
    BY <2>1, NothingPending DEF IInv, PendingBounded
  <2>. QED BY <2>2, <1>7 DEF PendingBounded, CopyOK
<1>. QED BY <1>8, <1>9, <1>10, <1>11 DEF IInv

-----------------------------------------------------------------------------
(* The actions                                                             *)

LEMMA InitIInv == Init => IInv
<1>. SUFFICES ASSUME Init PROVE IInv
  OBVIOUS
<1>1. attempts = <<>> /\ attempts \in Seq(Attempt) /\ Len(attempts) = 0
  BY DEF Init
<1>2. NoRow \in Row
  BY DEF NoRow, Row, Anyone
<1>3. TypeOK
  BY <1>1, <1>2, SignInAssumption DEF Init, TypeOK, NoId, Idle
<1>4. FixedIdUseless /\ IdsSettled
  BY DEF Init, FixedIdUseless, IdsSettled, Busy, Idle, NoRow
<1>5. PendingBounded
  BY NothingPending DEF Init, PendingBounded, Idle, NoRow
<1>. QED BY <1>3, <1>4, <1>5 DEF IInv

LEMMA ArrivalsKeepIInv ==
  ASSUME IInv, NEW s \in Slots, NEW b \in Browsers,
         ArrivePage(s, b) \/ ArriveStart(s, b) \/ ArriveSignOut(s, b)
  PROVE  IInv'
<1>1. CopyOK(Loaded(b))
  BY LoadedOK
<1>2. CASE ArrivePage(s, b)
  BY <1>1, <1>2, CopyKeepsIInv DEF ArrivePage, RowsKept, CookiesKept
<1>3. CASE ArriveStart(s, b)
  <2>. DEFINE rec == [Loaded(b) EXCEPT !.pc = "starting"]
  <2>1. CopyOK(rec)
    BY <1>1 DEF CopyOK, Settled, Request
  <2>2. slot' = [slot EXCEPT ![s] = rec]
    BY <1>3 DEF ArriveStart, Becomes
  <2>. QED BY <1>3, <2>1, <2>2, CopyKeepsIInv DEF ArriveStart, RowsKept, CookiesKept
<1>4. CASE ArriveSignOut(s, b)
  <2>. DEFINE rec == [[Loaded(b) EXCEPT !.user = NoUser, !.pending = {}, !.sid = NoId]
                        EXCEPT !.pc = "answered"]
  <2>1. IInv => 0 < nextId
    BY SignInAssumption DEF IInv, TypeOK
  <2>2. CopyOK(rec)
    BY <1>1, <2>1, NothingPending DEF CopyOK, Settled, Request, NoId, Anyone
  <2>3. slot' = [slot EXCEPT ![s] = rec]
    BY <1>4 DEF ArriveSignOut, Becomes
  <2>4. RowsKept
    BY <1>1, <1>4 DEF ArriveSignOut, SessionDeleted, RowsKept, CopyOK, Request
  <2>. QED BY <1>4, <2>2, <2>3, <2>4, CopyKeepsIInv DEF ArriveSignOut, CookiesKept
<1>. QED BY <1>2, <1>3, <1>4

LEMMA CallbackKeepsIInv ==
  ASSUME IInv, NEW s \in Slots, NEW b \in Browsers, ArriveCallback(s, b)
  PROVE  IInv'
<1>. TypeOK
  BY DEF IInv
<1>1. CopyOK(Loaded(b))
  BY LoadedOK
<1>2. PICK p \in Providers, state \in 0..Len(attempts) :
        LET found == Matching(Loaded(b), state)
            taken == [Loaded(b) EXCEPT !.pending = Untaken(Loaded(b), found),
                                       !.modified = found # {}]
        IN  /\ \/ \E a \in found : /\ Usable(a, p)
                                   /\ Becomes(s, [taken EXCEPT !.attempt = a], "identifying")
               \/ Becomes(s, taken, "answered")
            /\ UNCHANGED <<now, attempts, store, cookie, nextId, anonymous>>
  BY DEF ArriveCallback
<1>. DEFINE found == Matching(Loaded(b), state)
            taken == [Loaded(b) EXCEPT !.pending = Untaken(Loaded(b), found),
                                       !.modified = found # {}]
<1>3. CopyOK(taken)
  <2>1. Untaken(Loaded(b), found) \subseteq Loaded(b).pending
    BY DEF Untaken
  <2>2. Loaded(b).pending \subseteq 1..Len(attempts)
    BY <1>1 DEF CopyOK, Request
  <2>3. Cardinality(Untaken(Loaded(b), found)) <= MaxPending
    BY <1>1, <2>1, <2>2, PendingShrinks DEF CopyOK
  <2>. HIDE DEF found
  <2>4. (found # {}) \in BOOLEAN
    OBVIOUS
  <2>5. taken \in Request
    BY <1>1, <2>1, <2>4 DEF CopyOK, Request
  <2>. QED BY <1>1, <2>3, <2>5 DEF CopyOK, Settled, Request
<1>4. found \subseteq 0..Len(attempts)
  BY DEF Matching
<1>. HIDE DEF taken, found
<1>5. \A a \in found : CopyOK([[taken EXCEPT !.attempt = a] EXCEPT !.pc = "identifying"])
  BY <1>3, <1>4 DEF CopyOK, Settled, Request
<1>6. CopyOK([taken EXCEPT !.pc = "answered"])
  BY <1>3 DEF CopyOK, Settled, Request
<1>7. \E rec : CopyOK(rec) /\ slot' = [slot EXCEPT ![s] = rec]
  BY <1>2, <1>5, <1>6 DEF Becomes, taken, found
<1>8. UNCHANGED <<now, attempts, store, cookie, nextId, anonymous>>
  BY <1>2
<1>. QED BY <1>7, <1>8, CopyKeepsIInv DEF RowsKept, CookiesKept

LEMMA LoginKeepsIInv ==
  ASSUME IInv, NEW s \in Slots, NEW u \in Users, Login(s, u)
  PROVE  IInv'
<1>. DEFINE old == slot[s]
            rec == [[old EXCEPT !.user = u, !.sid = Cycled(old), !.modified = TRUE]
                      EXCEPT !.pc = "answered"]
<1>1. CopyOK(old) /\ old.sid \in Ids \union {NoId}
  BY SlotsAreOK DEF Login, Busy, CopyOK, Request
<1>2. u # NoUser /\ u \in Anyone
  BY SignInAssumption DEF Anyone
<1>3. 0 < nextId
  BY SignInAssumption DEF IInv, TypeOK
<1>. HIDE DEF old
<1>4. CopyOK(rec)
  BY <1>1, <1>2, <1>3 DEF CopyOK, Settled, Request, Cycled, NoId
<1>5. slot' = [slot EXCEPT ![s] = rec]
  BY DEF Login, Becomes, old
<1>6. RowsKept
  BY <1>1 DEF Login, RowsKept, Cycled, old, NoId
<1>. QED BY <1>4, <1>5, <1>6, CopyKeepsIInv DEF Login, CookiesKept

LEMMA RefuseCallbackKeepsIInv ==
  ASSUME IInv, NEW s \in Slots, RefuseCallback(s)
  PROVE  IInv'
<1>. DEFINE old == slot[s]
            rec == [old EXCEPT !.attempt = 0]
<1>1. CopyOK(old)
  BY SlotsAreOK DEF RefuseCallback, Busy
<1>2. 0 < nextId /\ 0 \in 0..Len(attempts)
  BY SignInAssumption DEF IInv, TypeOK
<1>. HIDE DEF old
<1>3. CopyOK(rec)
  BY <1>1, <1>2 DEF CopyOK, Settled, Request
<1>. HIDE DEF rec
<1>4. CopyOK([rec EXCEPT !.pc = "answered"])
  BY <1>3 DEF CopyOK, Settled, Request
<1>5. CopyOK([[rec EXCEPT !.sid = Cycled(rec)] EXCEPT !.pc = "answered"])
  BY <1>2, <1>3 DEF CopyOK, Settled, Request, Cycled, NoId
<1>6. \E new : CopyOK(new) /\ slot' = [slot EXCEPT ![s] = new]
  BY <1>4, <1>5 DEF RefuseCallback, Becomes, rec, old
<1>. QED BY <1>6, CopyKeepsIInv DEF RefuseCallback, RowsKept, CookiesKept

\* A response that stores nothing.
LEMMA UnsavedKeepsIInv ==
  ASSUME IInv, NEW s \in Slots, DropCookie(s) \/ NotModified(s) \/ SaveFails(s)
  PROVE  IInv'
<1>1. slot' = [slot EXCEPT ![s] = Idle]
  BY DEF DropCookie, NotModified, SaveFails, Done
<1>2. CookiesKept
  <2>1. CASE DropCookie(s)
    <3>1. slot[s].browser \in Browsers
      BY <2>1, SlotsAreOK DEF DropCookie, Busy, CopyOK, Request
    <3>. QED BY <2>1, <3>1 DEF DropCookie, CookiesKept
  <2>2. CASE ~DropCookie(s)
    BY <2>2 DEF NotModified, SaveFails, CookiesKept
  <2>. QED BY <2>1, <2>2
<1>. QED BY <1>1, <1>2, CopyKeepsIInv
         DEF DropCookie, NotModified, SaveFails, RowsKept

\* A row that is written as the copy has it. Only a new id, or one that was
\* anonymous before, becomes anonymous.
LEMMA SaveKeepsIInv ==
  ASSUME IInv, NEW s \in Slots, Save(s)
  PROVE  IInv'
<1>. TypeOK
  BY DEF IInv
<1>. DEFINE rec == slot[s]
            id == SavedAs(s)
            row == [user |-> rec.user, pending |-> rec.pending, expires |-> now + SessionTtl]
<1>1. CopyOK(rec) /\ id \in Ids
  BY SlotsAreOK DEF Save, Saving, Busy
<1>2. /\ slot' = [slot EXCEPT ![s] = Idle]
      /\ store' = [store EXCEPT ![id] = row]
      /\ cookie' = [cookie EXCEPT ![rec.browser] = id]
      /\ nextId' = IF rec.sid = NoId THEN nextId + 1 ELSE nextId
      /\ anonymous' = IF rec.user = NoUser THEN anonymous \union {id} ELSE anonymous
      /\ now' = now /\ attempts' = attempts
  BY DEF Save, Done
<1>3. /\ rec.sid \in Ids \union {NoId} /\ rec.browser \in Browsers
      /\ id = IF rec.sid = NoId THEN nextId ELSE rec.sid
  BY <1>1 DEF SavedAs, CopyOK, Request
<1>4. row \in Row
  BY <1>1, SignInAssumption DEF CopyOK, Request, Row, TypeOK
<1>5. nextId \in 1..(MaxIds + 1) /\ nextId' \in 1..(MaxIds + 1) /\ id < nextId' /\ nextId <= nextId'
  BY <1>1, <1>2, <1>3, SignInAssumption DEF TypeOK, Ids, NoId, CopyOK
<1>. HIDE DEF rec, id, row
<1>6. Request' = Request /\ Row' = Row /\ Attempt' = Attempt
  BY <1>2 DEF Request, Row, Attempt
<1>7. \A o \in Slots : slot'[o] = IF o = s THEN Idle ELSE slot[o]
  BY <1>2 DEF TypeOK
<1>8. /\ slot' \in [Slots -> {Idle} \union Request]
      /\ \A o \in Slots : slot'[o].pc # "idle" => slot'[o].sid < nextId'
  <2>1. slot' \in [Slots -> {Idle} \union Request]
    BY <1>2 DEF TypeOK
  <2>2. ASSUME NEW o \in Slots, slot'[o].pc # "idle"
        PROVE  slot'[o].sid < nextId'
    <3>1. slot'[o] = slot[o] /\ CopyOK(slot[o])
      BY <1>7, <2>2, SlotsAreOK DEF Busy, Idle
    <3>2. slot[o].sid \in Int /\ slot[o].sid < nextId
      BY <3>1 DEF CopyOK, Request, Ids, NoId
    <3>. QED BY <1>5, <3>1, <3>2
  <2>. QED BY <2>1, <2>2
<1>9. /\ cookie' \in [Browsers -> Ids \union {NoId}]
      /\ \A b \in Browsers : cookie'[b] < nextId'
  <2>1. cookie' \in [Browsers -> Ids \union {NoId}]
    BY <1>1, <1>2, <1>3 DEF TypeOK
  <2>2. ASSUME NEW b \in Browsers PROVE cookie'[b] < nextId'
    <3>1. CASE b = rec.browser
      BY <1>2, <1>5, <3>1 DEF TypeOK
    <3>2. CASE b # rec.browser
      BY <1>2, <1>5, <3>2 DEF TypeOK, Ids, NoId
    <3>. QED BY <3>1, <3>2
  <2>. QED BY <2>1, <2>2
<1>10. anonymous' \subseteq 1..(nextId' - 1)
  BY <1>1, <1>2, <1>5 DEF TypeOK, Ids
<1>11. store' \in [Ids -> Row] /\ \A i \in Ids : store'[i] = IF i = id THEN row ELSE store[i]
  BY <1>2, <1>4 DEF TypeOK
<1>12. TypeOK'
  BY <1>2, <1>5, <1>6, <1>8, <1>9, <1>10, <1>11 DEF TypeOK
<1>13. id \in anonymous => row.user = NoUser
  BY <1>1, <1>3, AnonymousDrawn DEF CopyOK, Settled, row
<1>14. \A i \in anonymous' : i \in anonymous \/ (i = id /\ row.user = NoUser)
  BY <1>2 DEF row
<1>15. FixedIdUseless'
  BY <1>11, <1>13, <1>14, AnonymousDrawn, <1>1 DEF IInv, FixedIdUseless
<1>16. \A i \in Ids \ {nextId} : i \in anonymous' <=> i \in anonymous
  BY <1>1, <1>2, <1>3 DEF CopyOK, Settled, rec
<1>17. \A i \in anonymous : i \in anonymous'
  BY <1>2
<1>18. IdsSettled'
  <2>1. ASSUME NEW i \in Ids, store'[i].expires > -1, store'[i].user = NoUser
        PROVE  i \in anonymous'
    <3>1. CASE i = id
      BY <1>2, <1>11, <2>1, <3>1 DEF row
    <3>2. CASE i # id
      BY <1>11, <1>17, <2>1, <3>2 DEF IInv, IdsSettled
    <3>. QED BY <3>1, <3>2
  <2>2. ASSUME NEW o \in Slots, slot'[o].pc # "idle", slot'[o].sid # NoId
        PROVE  slot'[o].user = NoUser <=> slot'[o].sid \in anonymous'
    <3>1. slot'[o] = slot[o] /\ CopyOK(slot[o])
      BY <1>7, <2>2, SlotsAreOK DEF Busy, Idle
    <3>2. slot[o].sid \in Ids \ {nextId}
      BY <2>2, <3>1, <1>5 DEF CopyOK, Request, Ids
    <3>. QED BY <1>16, <2>2, <3>1, <3>2 DEF CopyOK, Settled
  <2>. QED BY <2>1, <2>2 DEF IdsSettled, Busy
<1>19. PendingBounded'
  <2>1. Cardinality(row.pending) <= MaxPending
    BY <1>1 DEF CopyOK, row
  <2>2. \A i \in Ids : Cardinality(store'[i].pending) <= MaxPending
    BY <1>11, <2>1 DEF IInv, PendingBounded
  <2>3. \A o \in Slots : slot'[o].pc # "idle" => Cardinality(slot'[o].pending) <= MaxPending
    BY <1>7 DEF IInv, PendingBounded, Idle
  <2>. QED BY <2>2, <2>3 DEF PendingBounded
<1>. QED BY <1>12, <1>15, <1>18, <1>19 DEF IInv

\* A start: one more attempt, in a copy that made room for it.
LEMMA RememberKeepsIInv ==
  ASSUME IInv, NEW s \in Slots, Remember(s)
  PROVE  IInv'
<1>. TypeOK
  BY DEF IInv
<1>. DEFINE rec == slot[s]
            n == Len(attempts) + 1
<1>1. CopyOK(rec) /\ rec.pc = "starting"
  BY SlotsAreOK DEF Remember, Busy
<1>2. PICK p \in Providers, link \in BOOLEAN :
        attempts' = Append(attempts, [provider |-> p, link |-> link,
                                      createdAt |-> now, owner |-> rec.browser])
  BY DEF Remember
<1>3. rec.browser \in Browsers /\ rec.pending \subseteq 1..Len(attempts)
  BY <1>1 DEF CopyOK, Request
<1>4. [provider |-> p, link |-> link, createdAt |-> now, owner |-> rec.browser] \in Attempt
  BY <1>3 DEF Attempt, TypeOK
<1>5. attempts' \in Seq(Attempt) /\ Len(attempts') = n /\ n <= MaxAttempts
  <2>1. Len(attempts) < MaxAttempts /\ MaxAttempts \in Nat /\ attempts \in Seq(Attempt)
    BY SignInAssumption DEF Remember, TypeOK
  <2>. QED BY <1>2, <1>4, <2>1
<1>6. PICK kept \in SUBSET rec.pending :
        /\ Kept(rec.pending, kept)
        /\ Becomes(s, [rec EXCEPT !.pending = kept \union {Len(attempts')},
                                  !.modified = TRUE], "answered")
  BY DEF Remember
<1>. DEFINE new == [[rec EXCEPT !.pending = kept \union {n}, !.modified = TRUE]
                      EXCEPT !.pc = "answered"]
<1>7. slot' = [slot EXCEPT ![s] = new]
  BY <1>5, <1>6 DEF Becomes
<1>8. UNCHANGED <<now, store, cookie, nextId, anonymous>>
  BY DEF Remember
<1>. HIDE DEF rec
<1>9. Cardinality(kept \union {n}) <= MaxPending
  <2>1. IsFiniteSet(kept)
    BY <1>3, PendingFinite
  <2>2. Cardinality(kept) \in Nat /\ Cardinality(kept) <= MaxPending - 1
    BY <1>6, <2>1, FS_CardinalityType DEF Kept, RoomForOthers
  <2>3. Cardinality(kept \union {n}) = Cardinality(kept)
          \/ Cardinality(kept \union {n}) = Cardinality(kept) + 1
    <3>. HIDE DEF n
    <3>. QED BY <2>1, FS_AddElement
  <2>4. Cardinality(kept \union {n}) \in Nat
    BY <2>1, FS_AddElement, FS_CardinalityType
  <2>. QED BY <2>2, <2>3, <2>4, SignInAssumption
<1>10. Len(attempts) \in Nat /\ 1..Len(attempts) \subseteq 1..n /\ 0..Len(attempts) \subseteq 0..n
  BY DEF TypeOK
<1>11. kept \union {n} \in SUBSET (1..n)
  BY <1>3, <1>10
<1>12. Request \subseteq Request' /\ Row \subseteq Row' /\ Attempt' = Attempt
  BY <1>5, <1>10 DEF Request, Row, Attempt
<1>13. new \in Request'
  <2>1. rec \in Request'
    BY <1>1, <1>12 DEF CopyOK
  <2>. HIDE DEF n
  <2>. QED BY <1>5, <1>11, <2>1 DEF Request
<1>14. \A o \in Slots : slot'[o] = IF o = s THEN new ELSE slot[o]
  BY <1>7 DEF TypeOK
<1>15. /\ new.sid = rec.sid /\ new.user = rec.user
       /\ new.pending = kept \union {n} /\ new.pc = "answered"
  BY <1>1 DEF CopyOK, Request
<1>. HIDE DEF new
<1>16. \A o \in Slots : slot'[o].pc # "idle" =>
          /\ slot'[o].sid < nextId
          /\ Settled(slot'[o])
          /\ Cardinality(slot'[o].pending) <= MaxPending
  BY <1>1, <1>9, <1>14, <1>15, SlotsAreOK DEF Busy, CopyOK, Settled
<1>17. TypeOK'
  <2>1. slot' \in [Slots -> {Idle} \union Request']
    BY <1>7, <1>12, <1>13 DEF TypeOK
  <2>2. store' \in [Ids -> Row']
    BY <1>8, <1>12 DEF TypeOK
  <2>. QED BY <1>5, <1>8, <1>12, <1>16, <2>1, <2>2 DEF TypeOK
<1>18. FixedIdUseless' /\ IdsSettled'
  BY <1>8, <1>16 DEF IInv, FixedIdUseless, IdsSettled, Settled, Busy
<1>19. PendingBounded'
  BY <1>8, <1>16 DEF IInv, PendingBounded
<1>. QED BY <1>17, <1>18, <1>19 DEF IInv

\* Neither the clock nor the sweep gives an id a user.
LEMMA TimeKeepsIInv ==
  ASSUME IInv, Tick \/ Sweep
  PROVE  IInv'
<1>. TypeOK
  BY DEF IInv
<1>1. Request' = Request /\ Row' = Row /\ Attempt' = Attempt
  BY DEF Tick, Sweep, Request, Row, Attempt
<1>2. CASE Tick
  <2>1. now' \in 0..MaxTime
    BY <1>2, SignInAssumption DEF Tick, TypeOK
  <2>2. TypeOK'
    BY <1>1, <1>2, <2>1 DEF Tick, TypeOK
  <2>. QED BY <1>2, <2>2 DEF Tick, IInv, FixedIdUseless, IdsSettled, PendingBounded, Busy
<1>3. CASE Sweep
  <2>1. NoRow \in Row
    BY DEF NoRow, Row, Anyone
  <2>2. store' \in [Ids -> Row] /\ \A id \in Ids : store'[id] = store[id] \/ store'[id] = NoRow
    BY <1>3, <2>1 DEF Sweep, TypeOK
  <2>3. TypeOK'
    BY <1>1, <1>3, <2>2 DEF Sweep, TypeOK
  <2>4. FixedIdUseless'
    BY <1>3, <2>2, AnonymousDrawn DEF Sweep, IInv, FixedIdUseless, NoRow
  <2>5. IdsSettled'
    BY <1>3, <2>2 DEF Sweep, IInv, IdsSettled, NoRow, Busy
  <2>6. PendingBounded'
    <3>1. \A id \in Ids : store[id].pending = store'[id].pending \/ store'[id].pending = {}
      BY <2>2 DEF NoRow
    <3>. QED BY <1>3, <3>1, NothingPending DEF Sweep, IInv, PendingBounded
  <2>. QED BY <2>3, <2>4, <2>5, <2>6 DEF IInv
<1>. QED BY <1>2, <1>3

LEMMA NextKeepsIInv == IInv /\ [Next]_vars => IInv'
<1>. SUFFICES ASSUME IInv, [Next]_vars PROVE IInv'
  OBVIOUS
<1>1. CASE Tick \/ Sweep
  BY <1>1, TimeKeepsIInv
<1>2. ASSUME NEW s \in Slots, NEW b \in Browsers,
             ArrivePage(s, b) \/ ArriveStart(s, b) \/ ArriveCallback(s, b) \/ ArriveSignOut(s, b)
      PROVE  IInv'
  BY <1>2, ArrivalsKeepIInv, CallbackKeepsIInv
<1>3. ASSUME NEW s \in Slots,
             Remember(s) \/ RefuseCallback(s) \/ DropCookie(s) \/ NotModified(s)
               \/ Save(s) \/ SaveFails(s)
      PROVE  IInv'
  BY <1>3, RememberKeepsIInv, RefuseCallbackKeepsIInv, UnsavedKeepsIInv, SaveKeepsIInv
<1>4. ASSUME NEW s \in Slots, NEW u \in Users, Login(s, u)
      PROVE  IInv'
  BY <1>4, LoginKeepsIInv
<1>5. CASE UNCHANGED vars
  BY <1>5 DEF vars, IInv, TypeOK, Request, Row, Attempt, FixedIdUseless, IdsSettled,
              PendingBounded, Busy
<1>. QED BY <1>1, <1>2, <1>3, <1>4, <1>5 DEF Next

-----------------------------------------------------------------------------
\* The strengthened invariant holds throughout (routes.rs, store.rs).
THEOREM Invariance == Spec => []IInv
<1>1. Init => IInv
  BY InitIInv
<1>2. IInv /\ [Next]_vars => IInv'
  BY NextKeepsIInv
<1>. QED BY <1>1, <1>2, PTL DEF Spec

\* Sessions are named by ids that were drawn, and attempts are among those that
\* were issued (routes.rs:230-271, store.rs:78-123).
THEOREM TypeCorrect == Spec => []TypeOK
<1>1. IInv => TypeOK
  BY DEF IInv
<1>. QED BY <1>1, Invariance, PTL

\* A session never holds more than MAX_PENDING attempts (routes.rs:230-249).
THEOREM PendingBoundedHolds == Spec => []PendingBounded
<1>1. IInv => PendingBounded
  BY DEF IInv
<1>. QED BY <1>1, Invariance, PTL

\* A session fixed before sign-in is useless after it (routes.rs:207).
THEOREM FixedIdUselessHolds == Spec => []FixedIdUseless
<1>1. IInv => FixedIdUseless
  BY DEF IInv
<1>. QED BY <1>1, Invariance, PTL

-----------------------------------------------------------------------------
(* Ids and attempts belong to a browser. An id is named by the cookie and   *)
(* the copies of one browser only, and its row and these copies hold        *)
(* attempts of that browser: what SignInEarned rests on.                    *)

Mine(b, id) ==
  id # NoId =>
    /\ \A c \in Browsers : cookie[c] = id => c = b
    /\ \A t \in Slots : Busy(t) /\ slot[t].sid = id => slot[t].browser = b

OwnCopy(rec) ==
  /\ rec.browser \in Browsers
  /\ Mine(rec.browser, rec.sid)
  /\ \A a \in rec.pending : attempts[a].owner = rec.browser
  /\ rec.attempt # 0 => attempts[rec.attempt].owner = rec.browser

Own ==
  /\ \A b \in Browsers :
       /\ Mine(b, cookie[b])
       /\ cookie[b] # NoId => \A a \in store[cookie[b]].pending : attempts[a].owner = b
  /\ \A s \in Slots : Busy(s) => OwnCopy(slot[s])

\* What is loaded is what the cookie names, if that is still alive.
LEMMA LoadedFrom ==
  ASSUME NEW b \in Browsers
  PROVE  /\ Loaded(b).browser = b /\ Loaded(b).attempt = 0 /\ ~Loaded(b).modified
         /\ Loaded(b).pc = "answered"
         /\ Loaded(b).sid # NoId => Loaded(b).sid = cookie[b] /\ Live(cookie[b])
         /\ Loaded(b).pending = Session(cookie[b]).pending
         /\ \A a \in Loaded(b).pending : Live(cookie[b]) /\ a \in store[cookie[b]].pending
<1>1. \A a \in Session(cookie[b]).pending : Live(cookie[b]) /\ a \in store[cookie[b]].pending
  BY DEF Session, NoRow
<1>. QED BY <1>1 DEF Loaded

LEMMA LiveIsId == \A id : Live(id) => id \in Ids /\ id # NoId
BY DEF Live, Ids, NoId

LEMMA LoadedOwn ==
  ASSUME Own, NEW b \in Browsers
  PROVE  OwnCopy(Loaded(b))
<1>1. Mine(b, cookie[b]) /\ Mine(b, NoId)
  BY DEF Own, Mine
<1>2. \A a \in Loaded(b).pending : attempts[a].owner = b
  BY LoadedFrom, LiveIsId DEF Own
<1>3. Mine(b, Loaded(b).sid)
  BY <1>1, LoadedFrom
<1>. QED BY <1>2, <1>3, LoadedFrom DEF OwnCopy

\* A step that replaces one copy by another of the same browser's, and at most
\* empties a row and a cookie.
LEMMA CopyKeepsOwn ==
  ASSUME TypeOK, Own, NEW s \in Slots, NEW rec, rec = Idle \/ (rec.pc # "idle" /\ OwnCopy(rec)),
         slot' = [slot EXCEPT ![s] = rec], RowsKept, CookiesKept, attempts' = attempts
  PROVE  Own'
<1>1. \A t \in Slots : slot'[t] = IF t = s THEN rec ELSE slot[t]
  BY DEF TypeOK
<1>2. \A b \in Browsers : cookie'[b] = cookie[b] \/ cookie'[b] = NoId
  BY DEF CookiesKept, TypeOK
<1>3. \A id \in Ids : store'[id] = store[id] \/ store'[id].pending = {}
  BY DEF RowsKept, Deleted, TypeOK, NoRow
<1>4. ASSUME NEW b \in Browsers, NEW id, Mine(b, id),
             rec # Idle /\ rec.sid = id /\ id # NoId => rec.browser = b
      PROVE  Mine(b, id)'
  <2>1. ASSUME NEW t \in Slots, slot'[t].pc # "idle", slot'[t].sid = id, id # NoId
        PROVE  slot'[t].browser = b
    BY <1>1, <1>4, <2>1 DEF Mine, Busy, Idle
  <2>2. ASSUME NEW c \in Browsers, cookie'[c] = id, id # NoId
        PROVE  c = b
    BY <1>2, <1>4, <2>2 DEF Mine
  <2>. QED BY <2>1, <2>2 DEF Mine, Busy
<1>5. ASSUME NEW b \in Browsers
      PROVE  /\ Mine(b, cookie[b])'
             /\ cookie'[b] # NoId => \A a \in store'[cookie'[b]].pending : attempts'[a].owner = b
  <2>1. CASE cookie'[b] = NoId
    BY <2>1 DEF Mine
  <2>2. CASE cookie'[b] = cookie[b] /\ cookie[b] # NoId
    <3>1. cookie[b] \in Ids
      BY <2>2 DEF TypeOK
    <3>2. Mine(b, cookie[b])
      BY DEF Own
    <3>3. rec # Idle /\ rec.sid = cookie[b] => rec.browser = b
      BY <2>2 DEF OwnCopy, Mine
    <3>4. Mine(b, cookie[b])'
      <4>1. PICK id : id = cookie[b]
        OBVIOUS
      <4>2. Mine(b, id)'
        BY <1>4, <3>2, <3>3, <4>1
      <4>. QED BY <2>2, <4>1, <4>2 DEF Mine, Busy
    <3>5. \A a \in store'[cookie[b]].pending : attempts[a].owner = b
      BY <1>3, <2>2, <3>1 DEF Own
    <3>. QED BY <2>2, <3>4, <3>5
  <2>. QED BY <1>2, <2>1, <2>2
<1>6. ASSUME NEW t \in Slots, slot'[t].pc # "idle"
      PROVE  OwnCopy(slot[t])'
  <2>1. OwnCopy(slot'[t]) /\ slot'[t] = IF t = s THEN rec ELSE slot[t]
    BY <1>1, <1>6 DEF Own, Busy, Idle
  <2>2. rec # Idle /\ rec.sid = slot'[t].sid /\ rec.sid # NoId => rec.browser = slot'[t].browser
    BY <1>1, <1>6, <2>1 DEF OwnCopy, Mine, Busy
  <2>3. Mine(slot[t].browser, slot[t].sid)'
    <3>1. PICK b, id : b \in Browsers /\ b = slot'[t].browser /\ id = slot'[t].sid
      BY <2>1 DEF OwnCopy
    <3>2. Mine(b, id)'
      BY <1>4, <2>1, <2>2, <3>1 DEF OwnCopy
    <3>. QED BY <3>1, <3>2 DEF Mine, Busy
  <2>. QED BY <2>1, <2>3 DEF OwnCopy
<1>. QED BY <1>5, <1>6 DEF Own, Busy

-----------------------------------------------------------------------------
(* What the steps do to the copies                                         *)

\* A request that arrives has a copy of what its cookie names, or of less; a
\* sign-out deletes the row.
Arrived(s, b, rec) ==
  /\ slot[s].pc = "idle"
  /\ slot' = [slot EXCEPT ![s] = rec]
  /\ rec.pc # "idle" /\ rec.browser = b
  /\ rec.sid # NoId => rec.sid = cookie[b] /\ Live(cookie[b])
  /\ rec.pending \subseteq Loaded(b).pending
  /\ rec.attempt # 0 => rec.attempt \in Loaded(b).pending \ rec.pending
  /\ rec.pc = "identifying" => rec.modified /\ rec.attempt # 0 /\ Fresh(rec.attempt)
  /\ \/ store' = store
     \/ store' = Deleted(cookie[b]) /\ Live(cookie[b])
          /\ rec.pc = "answered" /\ rec.sid = NoId /\ rec.pending = {}
  /\ UNCHANGED <<now, attempts, cookie, nextId, anonymous>>

LEMMA ArrivalLoads ==
  ASSUME TypeOK, NEW s \in Slots, NEW b \in Browsers,
         ArrivePage(s, b) \/ ArriveStart(s, b) \/ ArriveCallback(s, b) \/ ArriveSignOut(s, b)
  PROVE  \E rec : Arrived(s, b, rec)
<1>. DEFINE from == Loaded(b)
<1>1. /\ from \in Request /\ from.pc = "answered" /\ from.browser = b /\ from.attempt = 0
      /\ from.sid # NoId => from.sid = cookie[b] /\ Live(cookie[b])
  BY LoadedTyped, LoadedFrom
<1>2. CASE ArrivePage(s, b)
  <2>1. Arrived(s, b, from)
    BY <1>1, <1>2 DEF ArrivePage, Arrived
  <2>. QED BY <2>1
<1>3. CASE ArriveStart(s, b)
  <2>. DEFINE rec == [from EXCEPT !.pc = "starting"]
  <2>1. slot[s].pc = "idle" /\ slot' = [slot EXCEPT ![s] = rec]
        /\ UNCHANGED <<now, attempts, store, cookie, nextId, anonymous>>
    BY <1>3 DEF ArriveStart, Becomes
  <2>. HIDE DEF from
  <2>2. /\ rec.pc = "starting" /\ rec.browser = b /\ rec.sid = from.sid
        /\ rec.pending = from.pending /\ rec.attempt = 0
    BY <1>1 DEF Request
  <2>. HIDE DEF rec
  <2>3. Arrived(s, b, rec)
    BY <1>1, <2>1, <2>2 DEF Arrived, from
  <2>. QED BY <2>3
<1>4. CASE ArriveSignOut(s, b)
  <2>. DEFINE rec == [[from EXCEPT !.user = NoUser, !.pending = {}, !.sid = NoId]
                        EXCEPT !.pc = "answered"]
  <2>1. /\ slot[s].pc = "idle" /\ slot' = [slot EXCEPT ![s] = rec]
        /\ store' = IF from.sid # NoId THEN Deleted(from.sid) ELSE store
        /\ UNCHANGED <<now, attempts, cookie, nextId, anonymous>>
    BY <1>4 DEF ArriveSignOut, Becomes, SessionDeleted
  <2>. HIDE DEF from
  <2>2. /\ rec.pc = "answered" /\ rec.browser = b /\ rec.sid = NoId
        /\ rec.pending = {} /\ rec.attempt = 0
    BY <1>1 DEF Request
  <2>. HIDE DEF rec
  <2>3. store' = store \/ (store' = Deleted(cookie[b]) /\ Live(cookie[b]))
    BY <1>1, <2>1
  <2>4. Arrived(s, b, rec)
    BY <2>1, <2>2, <2>3 DEF Arrived
  <2>. QED BY <2>4
<1>5. CASE ArriveCallback(s, b)
  <2>1. PICK p \in Providers, state \in 0..Len(attempts) :
          LET found == Matching(from, state)
              taken == [from EXCEPT !.pending = Untaken(from, found), !.modified = found # {}]
          IN  \/ \E a \in found : /\ Usable(a, p)
                                  /\ Becomes(s, [taken EXCEPT !.attempt = a], "identifying")
              \/ Becomes(s, taken, "answered")
    BY <1>5 DEF ArriveCallback
  <2>. DEFINE found == Matching(from, state)
              taken == [from EXCEPT !.pending = Untaken(from, found), !.modified = found # {}]
  <2>2. slot[s].pc = "idle" /\ UNCHANGED <<now, attempts, store, cookie, nextId, anonymous>>
    BY <1>5 DEF ArriveCallback
  <2>3. found \subseteq from.pending /\ Untaken(from, found) = from.pending \ found
    BY DEF Matching, Untaken
  <2>. HIDE DEF from, found
  <2>4. /\ taken.pending = from.pending \ found /\ taken.modified = (found # {})
        /\ taken.browser = b /\ taken.sid = from.sid /\ taken.attempt = 0
        /\ DOMAIN taken = DOMAIN from
    BY <1>1, <2>3 DEF Request
  <2>. HIDE DEF taken
  <2>5. ASSUME NEW a \in found, Fresh(a), Becomes(s, [taken EXCEPT !.attempt = a], "identifying")
        PROVE  \E rec : Arrived(s, b, rec)
    <3>. DEFINE rec == [[taken EXCEPT !.attempt = a] EXCEPT !.pc = "identifying"]
    <3>1. /\ rec.pc = "identifying" /\ rec.browser = b /\ rec.sid = from.sid
          /\ rec.pending = from.pending \ found /\ rec.attempt = a /\ rec.modified
      BY <1>1, <2>4, <2>5 DEF Request
    <3>2. slot' = [slot EXCEPT ![s] = rec]
      BY <2>5 DEF Becomes
    <3>. HIDE DEF rec
    <3>3. a # 0
      BY <1>1, <2>3 DEF Request
    <3>4. Arrived(s, b, rec)
      BY <1>1, <2>2, <2>3, <2>5, <3>1, <3>2, <3>3 DEF Arrived, from
    <3>. QED BY <3>4
  <2>6. ASSUME Becomes(s, taken, "answered")
        PROVE  \E rec : Arrived(s, b, rec)
    <3>. DEFINE rec == [taken EXCEPT !.pc = "answered"]
    <3>1. /\ rec.pc = "answered" /\ rec.browser = b /\ rec.sid = from.sid
          /\ rec.pending = from.pending \ found /\ rec.attempt = 0
      BY <1>1, <2>4 DEF Request
    <3>2. slot' = [slot EXCEPT ![s] = rec]
      BY <2>6 DEF Becomes
    <3>. HIDE DEF rec
    <3>3. Arrived(s, b, rec)
      BY <1>1, <2>2, <2>3, <3>1, <3>2 DEF Arrived, from
    <3>. QED BY <3>3
  <2>. QED BY <2>1, <2>5, <2>6 DEF found, taken, Usable
<1>. QED BY <1>2, <1>3, <1>4, <1>5

\* A callback that the provider has answered keeps the copy, for somebody else
\* perhaps; a session that gets a new id loses its row.
Handled(s, rec) ==
  /\ slot[s].pc = "identifying"
  /\ slot' = [slot EXCEPT ![s] = rec]
  /\ rec.pc = "answered" /\ rec.browser = slot[s].browser
  /\ rec.pending = slot[s].pending /\ rec.attempt \in {slot[s].attempt, 0}
  /\ slot[s].modified => rec.modified
  /\ rec.sid \in {slot[s].sid, NoId}
  /\ \/ store' = store
     \/ slot[s].sid # NoId /\ store' = Deleted(slot[s].sid) /\ rec.sid = NoId
  /\ UNCHANGED <<now, attempts, cookie, nextId, anonymous>>

LEMMA AnswerKeepsCopy ==
  ASSUME TypeOK, NEW s \in Slots,
         RefuseCallback(s) \/ (\E u \in Users : Login(s, u))
  PROVE  \E rec : Handled(s, rec)
<1>. DEFINE old == slot[s]
<1>1. old \in Request /\ old.pc = "identifying"
  BY BusyIsRequest DEF RefuseCallback, Login, Busy
<1>2. Cycled(old) \in {old.sid, NoId}
  BY DEF Cycled
<1>3. ASSUME NEW u \in Users, Login(s, u)
      PROVE  \E rec : Handled(s, rec)
  <2>. DEFINE rec == [[old EXCEPT !.user = u, !.sid = Cycled(old), !.modified = TRUE]
                        EXCEPT !.pc = "answered"]
  <2>1. /\ slot' = [slot EXCEPT ![s] = rec]
        /\ store' = IF Cycled(old) # old.sid THEN Deleted(old.sid) ELSE store
        /\ UNCHANGED <<now, attempts, cookie, nextId, anonymous>>
    BY <1>3 DEF Login, Becomes
  <2>. HIDE DEF old
  <2>2. /\ rec.pc = "answered" /\ rec.browser = old.browser /\ rec.pending = old.pending
        /\ rec.attempt = old.attempt /\ rec.modified /\ rec.sid = Cycled(old)
    BY <1>1 DEF Request
  <2>. HIDE DEF rec
  <2>3. store' = store \/ (old.sid # NoId /\ store' = Deleted(old.sid) /\ rec.sid = NoId)
    BY <1>2, <2>1, <2>2
  <2>4. Handled(s, rec)
    BY <1>1, <1>2, <2>1, <2>2, <2>3 DEF Handled, old
  <2>. QED BY <2>4
<1>4. CASE RefuseCallback(s)
  <2>1. UNCHANGED <<now, attempts, store, cookie, nextId, anonymous>>
    BY <1>4 DEF RefuseCallback
  <2>. DEFINE rec == [[old EXCEPT !.attempt = 0] EXCEPT !.pc = "answered"]
              new == [[[old EXCEPT !.attempt = 0] EXCEPT !.sid = Cycled([old EXCEPT !.attempt = 0])]
                        EXCEPT !.pc = "answered"]
  <2>2. slot' = [slot EXCEPT ![s] = rec] \/ slot' = [slot EXCEPT ![s] = new]
    BY <1>4 DEF RefuseCallback, Becomes
  <2>. HIDE DEF old
  <2>3. /\ rec.pc = "answered" /\ rec.browser = old.browser /\ rec.pending = old.pending
        /\ rec.attempt = 0 /\ rec.modified = old.modified /\ rec.sid = old.sid
    BY <1>1 DEF Request
  <2>4. /\ new.pc = "answered" /\ new.browser = old.browser /\ new.pending = old.pending
        /\ new.attempt = 0 /\ new.modified = old.modified /\ new.sid \in {old.sid, NoId}
    BY <1>1 DEF Request, Cycled
  <2>. HIDE DEF rec, new
  <2>. QED BY <1>1, <2>1, <2>2, <2>3, <2>4 DEF Handled, old
<1>. QED BY <1>3, <1>4

\* A start: the copy keeps some of its attempts and gets the new one.
Remembered(s, kept, rec) ==
  /\ slot[s].pc = "starting"
  /\ slot' = [slot EXCEPT ![s] = rec]
  /\ rec.pc = "answered" /\ rec.browser = slot[s].browser /\ rec.sid = slot[s].sid
  /\ rec.attempt = slot[s].attempt /\ rec.modified
  /\ kept \subseteq slot[s].pending /\ Kept(slot[s].pending, kept)
  /\ rec.pending = kept \union {Len(attempts) + 1}
  /\ Len(attempts') = Len(attempts) + 1
  /\ \A a \in 1..Len(attempts) : attempts'[a] = attempts[a]
  /\ attempts'[Len(attempts) + 1].owner = slot[s].browser
  /\ attempts'[Len(attempts) + 1].createdAt = now
  /\ UNCHANGED <<now, store, cookie, nextId, anonymous>>

LEMMA StartRemembers ==
  ASSUME TypeOK, NEW s \in Slots, Remember(s)
  PROVE  \E kept, rec : Remembered(s, kept, rec)
<1>. DEFINE old == slot[s]
            n == Len(attempts) + 1
<1>1. old \in Request /\ old.pc = "starting"
  BY BusyIsRequest DEF Remember, Busy
<1>2. PICK p \in Providers, link \in BOOLEAN :
        attempts' = Append(attempts, [provider |-> p, link |-> link,
                                      createdAt |-> now, owner |-> old.browser])
  BY DEF Remember
<1>. DEFINE attempt == [provider |-> p, link |-> link, createdAt |-> now, owner |-> old.browser]
<1>3. attempt.owner = old.browser /\ attempt.createdAt = now /\ attempts' = Append(attempts, attempt)
  BY <1>2
<1>4. attempts \in Seq(Attempt) /\ attempt \in Attempt
  BY <1>1 DEF TypeOK, Attempt, Request
<1>. HIDE DEF attempt
<1>5. /\ Len(attempts') = n
      /\ \A a \in 1..Len(attempts) : attempts'[a] = attempts[a]
      /\ attempts'[n] = attempt
  BY <1>3, <1>4
<1>6. PICK kept \in SUBSET old.pending :
        /\ Kept(old.pending, kept)
        /\ Becomes(s, [old EXCEPT !.pending = kept \union {Len(attempts')},
                                  !.modified = TRUE], "answered")
  BY DEF Remember
<1>. DEFINE rec == [[old EXCEPT !.pending = kept \union {n}, !.modified = TRUE]
                      EXCEPT !.pc = "answered"]
<1>7. slot' = [slot EXCEPT ![s] = rec]
  BY <1>5, <1>6 DEF Becomes
<1>8. UNCHANGED <<now, store, cookie, nextId, anonymous>>
  BY DEF Remember
<1>. HIDE DEF old, n
<1>9. /\ rec.pc = "answered" /\ rec.browser = old.browser /\ rec.sid = old.sid
      /\ rec.attempt = old.attempt /\ rec.modified /\ rec.pending = kept \union {n}
  BY <1>1 DEF Request
<1>. HIDE DEF rec
<1>10. Remembered(s, kept, rec)
  BY <1>1, <1>3, <1>5, <1>6, <1>7, <1>8, <1>9 DEF Remembered, old, n
<1>. QED BY <1>10

-----------------------------------------------------------------------------
(* Every step keeps ids and attempts with their browser                    *)

LEMMA ArrivalKeepsOwn ==
  ASSUME TypeOK, Own, NEW s \in Slots, NEW b \in Browsers, NEW rec, Arrived(s, b, rec)
  PROVE  Own'
<1>1. /\ OwnCopy(Loaded(b)) /\ Loaded(b).browser = b
      /\ \A a \in Loaded(b).pending : attempts[a].owner = b
  BY LoadedOwn, LoadedFrom DEF OwnCopy
<1>2. Mine(b, rec.sid)
  BY DEF Arrived, Own, Mine
<1>3. OwnCopy(rec)
  BY <1>1, <1>2 DEF Arrived, OwnCopy
<1>4. RowsKept /\ CookiesKept
  BY LiveIsId DEF Arrived, RowsKept, CookiesKept
<1>. QED BY <1>3, <1>4, CopyKeepsOwn DEF Arrived

LEMMA AnswerKeepsOwn ==
  ASSUME TypeOK, Own, NEW s \in Slots, NEW rec, Handled(s, rec)
  PROVE  Own'
<1>1. OwnCopy(slot[s]) /\ slot[s].sid \in Ids \union {NoId}
  BY BusyIsRequest DEF Handled, Own, Busy, Request
<1>2. Mine(rec.browser, rec.sid)
  BY <1>1 DEF Handled, OwnCopy, Mine
<1>3. OwnCopy(rec)
  BY <1>1, <1>2 DEF Handled, OwnCopy
<1>4. RowsKept /\ CookiesKept
  BY <1>1 DEF Handled, RowsKept, CookiesKept
<1>. QED BY <1>3, <1>4, CopyKeepsOwn DEF Handled

LEMMA UnsavedKeepsOwn ==
  ASSUME TypeOK, Own, NEW s \in Slots, DropCookie(s) \/ NotModified(s) \/ SaveFails(s)
  PROVE  Own'
<1>1. Busy(s)
  BY DEF DropCookie, NotModified, SaveFails, Saving, Busy
<1>2. slot[s].browser \in Browsers
  BY <1>1 DEF Own, OwnCopy
<1>3. slot' = [slot EXCEPT ![s] = Idle] /\ store' = store /\ attempts' = attempts
  BY DEF DropCookie, NotModified, SaveFails, Done
<1>4. cookie' = cookie \/ cookie' = [cookie EXCEPT ![slot[s].browser] = NoId]
  BY DEF DropCookie, NotModified, SaveFails
<1>. QED BY <1>2, <1>3, <1>4, CopyKeepsOwn DEF RowsKept, CookiesKept

\* An id that is drawn is nobody's yet.
LEMMA SavedAsMine ==
  ASSUME TypeOK, Own, NEW s \in Slots, Busy(s)
  PROVE  Mine(slot[s].browser, SavedAs(s))
<1>1. CASE slot[s].sid = NoId
  <2>1. SavedAs(s) = nextId /\ nextId \in Int
    BY <1>1 DEF SavedAs, TypeOK
  <2>2. \A c \in Browsers : cookie[c] \in Int /\ cookie[c] # nextId
    BY <2>1 DEF TypeOK, Ids, NoId
  <2>3. \A t \in Slots : Busy(t) => slot[t].sid # nextId
    <3>1. ASSUME NEW t \in Slots, Busy(t) PROVE slot[t].sid # nextId
      <4>1. slot[t].sid \in Int /\ slot[t].sid < nextId
        BY <3>1, BusyIsRequest DEF TypeOK, Busy, Request, Ids, NoId
      <4>. QED BY <2>1, <4>1
    <3>. QED BY <3>1
  <2>. QED BY <2>1, <2>2, <2>3 DEF Mine
<1>2. CASE slot[s].sid # NoId
  BY <1>2 DEF SavedAs, Own, OwnCopy
<1>. QED BY <1>1, <1>2

LEMMA SaveKeepsOwn ==
  ASSUME TypeOK, Own, NEW s \in Slots, Save(s)
  PROVE  Own'
<1>. DEFINE b == slot[s].browser
            id == SavedAs(s)
<1>1. Busy(s) /\ id \in Ids /\ OwnCopy(slot[s]) /\ b \in Browsers
  BY DEF Save, Saving, Busy, Own, OwnCopy
<1>2. Mine(b, id) /\ id # NoId
  BY <1>1, SavedAsMine DEF Ids, NoId
<1>3. /\ \A t \in Slots : slot'[t] = IF t = s THEN Idle ELSE slot[t]
      /\ \A c \in Browsers : cookie'[c] = IF c = b THEN id ELSE cookie[c]
      /\ \A i \in Ids : i # id => store'[i] = store[i]
      /\ store'[id].pending = slot[s].pending
      /\ attempts' = attempts
  BY <1>1 DEF Save, Done, TypeOK
<1>. HIDE DEF id
<1>4. \A c, i : c \in Browsers /\ Mine(c, i) /\ (i = id => c = b) => Mine(c, i)'
  BY <1>2, <1>3 DEF Mine, Busy, Idle
<1>5. ASSUME NEW c \in Browsers
      PROVE  /\ Mine(c, cookie[c])'
             /\ cookie'[c] # NoId => \A a \in store'[cookie'[c]].pending : attempts'[a].owner = c
  <2>1. PICK i : i = cookie'[c]
    OBVIOUS
  <2>2. CASE c = b
    <3>1. Mine(c, i)'
      BY <1>2, <1>3, <1>4, <2>1, <2>2
    <3>2. Mine(c, cookie[c])'
      BY <2>1, <3>1 DEF Mine, Busy
    <3>. QED BY <1>1, <1>3, <2>2, <3>2 DEF OwnCopy
  <2>3. CASE c # b
    <3>1. i = cookie[c] /\ Mine(c, i) /\ (i # NoId => i # id)
      BY <1>2, <1>3, <2>1, <2>3 DEF Own, Mine
    <3>2. Mine(c, i)'
      BY <1>2, <1>4, <3>1
    <3>3. Mine(c, cookie[c])'
      BY <2>1, <3>2 DEF Mine, Busy
    <3>4. cookie[c] # NoId => cookie[c] \in Ids /\ store'[cookie[c]] = store[cookie[c]]
      BY <1>3, <3>1 DEF TypeOK
    <3>. QED BY <1>3, <2>3, <3>3, <3>4 DEF Own
  <2>. QED BY <2>2, <2>3
<1>6. ASSUME NEW t \in Slots, slot'[t].pc # "idle"
      PROVE  OwnCopy(slot[t])'
  <2>1. slot'[t] = slot[t] /\ OwnCopy(slot[t]) /\ Busy(t)
    BY <1>3, <1>6 DEF Own, Busy, Idle
  <2>2. PICK c, i : c \in Browsers /\ c = slot[t].browser /\ i = slot[t].sid
    BY <2>1 DEF OwnCopy
  <2>3. Mine(c, i)'
    <3>1. Mine(c, i)
      BY <2>1, <2>2 DEF OwnCopy
    <3>2. i = id => c = b
      BY <1>2, <2>1, <2>2 DEF Mine
    <3>. QED BY <1>4, <2>2, <3>1, <3>2
  <2>4. Mine(slot[t].browser, slot[t].sid)'
    BY <2>1, <2>2, <2>3 DEF Mine, Busy
  <2>. QED BY <1>3, <2>1, <2>4 DEF OwnCopy
<1>. QED BY <1>5, <1>6 DEF Own, Busy

LEMMA RememberKeepsOwn ==
  ASSUME TypeOK, Own, NEW s \in Slots, NEW kept, NEW rec, Remembered(s, kept, rec)
  PROVE  Own'
<1>. DEFINE n == Len(attempts) + 1
<1>1. \A t \in Slots : slot'[t] = IF t = s THEN rec ELSE slot[t]
  BY DEF Remembered, TypeOK
<1>2. /\ rec.browser = slot[s].browser /\ rec.sid = slot[s].sid /\ rec.attempt = slot[s].attempt
      /\ \A a \in rec.pending : a \in slot[s].pending \/ a = n
      /\ Busy(s) /\ OwnCopy(slot[s])
      /\ cookie' = cookie /\ store' = store
  BY DEF Remembered, Busy, Own
<1>3. /\ \A a \in 1..Len(attempts) : attempts'[a].owner = attempts[a].owner
      /\ attempts'[n].owner = slot[s].browser
  BY DEF Remembered
<1>4. \A t \in Slots : Busy(t) => /\ slot[t].pending \subseteq 1..Len(attempts)
                                  /\ slot[t].attempt # 0 => slot[t].attempt \in 1..Len(attempts)
  BY BusyIsRequest DEF Request
<1>. HIDE DEF n
<1>5. \A b, id : b \in Browsers /\ Mine(b, id) => Mine(b, id)'
  BY <1>1, <1>2 DEF Mine, Busy
<1>6. ASSUME NEW b \in Browsers
      PROVE  /\ Mine(b, cookie[b])'
             /\ cookie'[b] # NoId => \A a \in store'[cookie'[b]].pending : attempts'[a].owner = b
  <2>1. PICK id : id = cookie[b]
    OBVIOUS
  <2>2. Mine(b, id)'
    BY <1>5, <2>1 DEF Own
  <2>3. Mine(b, cookie[b])'
    BY <1>2, <2>1, <2>2 DEF Mine, Busy
  <2>4. cookie[b] # NoId => store[cookie[b]].pending \subseteq 1..Len(attempts)
    BY DEF TypeOK, Row
  <2>. QED BY <1>2, <1>3, <2>3, <2>4 DEF Own
<1>7. ASSUME NEW t \in Slots, slot'[t].pc # "idle"
      PROVE  OwnCopy(slot[t])'
  <2>1. /\ OwnCopy(slot[t]) /\ Busy(t) /\ slot'[t].browser = slot[t].browser
        /\ slot'[t].sid = slot[t].sid /\ slot'[t].attempt = slot[t].attempt
    BY <1>1, <1>2, <1>7 DEF Own, Busy
  <2>2. PICK c, i : c \in Browsers /\ c = slot[t].browser /\ i = slot[t].sid
    BY <2>1 DEF OwnCopy
  <2>3. Mine(c, i)'
    BY <1>5, <2>1, <2>2 DEF OwnCopy
  <2>4. Mine(slot[t].browser, slot[t].sid)'
    BY <2>1, <2>2, <2>3 DEF Mine, Busy
  <2>5. \A a \in slot'[t].pending : attempts'[a].owner = slot'[t].browser
    BY <1>1, <1>2, <1>3, <1>4, <2>1 DEF OwnCopy
  <2>6. slot'[t].attempt # 0 => attempts'[slot'[t].attempt].owner = slot'[t].browser
    BY <1>3, <1>4, <2>1 DEF OwnCopy
  <2>. QED BY <2>1, <2>4, <2>5, <2>6 DEF OwnCopy
<1>. QED BY <1>6, <1>7 DEF Own, Busy

LEMMA TimeKeepsOwn ==
  ASSUME TypeOK, Own, Tick \/ Sweep
  PROVE  Own'
<1>1. UNCHANGED <<attempts, cookie, slot>>
  BY DEF Tick, Sweep
<1>2. \A id \in Ids : store'[id] = store[id] \/ store'[id].pending = {}
  BY DEF Tick, Sweep, NoRow, TypeOK
<1>. QED BY <1>1, <1>2 DEF Own, OwnCopy, Mine, Busy, TypeOK

LEMMA InitOwn == Init => Own
BY DEF Init, Own, Mine, Busy, Idle

\* The steps of Next, as the lemmas above describe them.
Unsaved(s) == DropCookie(s) \/ NotModified(s) \/ SaveFails(s)

LEMMA StepKinds ==
  ASSUME TypeOK, Next
  PROVE  \/ Tick \/ Sweep
         \/ \E s \in Slots, b \in Browsers : \E rec : Arrived(s, b, rec)
         \/ \E s \in Slots : \E rec : Handled(s, rec)
         \/ \E s \in Slots : \E kept, rec : Remembered(s, kept, rec)
         \/ \E s \in Slots : Unsaved(s)
         \/ \E s \in Slots : Save(s)
<1>1. ASSUME NEW s \in Slots, NEW b \in Browsers,
             ArrivePage(s, b) \/ ArriveStart(s, b) \/ ArriveCallback(s, b) \/ ArriveSignOut(s, b)
      PROVE  \E rec : Arrived(s, b, rec)
  BY <1>1, ArrivalLoads
<1>2. ASSUME NEW s \in Slots, RefuseCallback(s) \/ (\E u \in Users : Login(s, u))
      PROVE  \E rec : Handled(s, rec)
  BY <1>2, AnswerKeepsCopy
<1>3. ASSUME NEW s \in Slots, Remember(s)
      PROVE  \E kept, rec : Remembered(s, kept, rec)
  BY <1>3, StartRemembers
<1>. QED BY <1>1, <1>2, <1>3 DEF Next, Unsaved

LEMMA NextKeepsOwn == IInv /\ Own /\ [Next]_vars => Own'
<1>. SUFFICES ASSUME TypeOK, Own, [Next]_vars PROVE Own'
  BY DEF IInv
<1>1. CASE UNCHANGED vars
  BY <1>1 DEF vars, Own, OwnCopy, Mine, Busy
<1>2. CASE Next
  BY <1>2, StepKinds, TimeKeepsOwn, ArrivalKeepsOwn, AnswerKeepsOwn, RememberKeepsOwn,
     UnsavedKeepsOwn, SaveKeepsOwn DEF Unsaved
<1>. QED BY <1>1, <1>2

-----------------------------------------------------------------------------
(* What a step may do                                                      *)

\* Only a callback goes on to identify somebody, with an attempt its browser's
\* row names.
LEMMA StepEarns ==
  ASSUME IInv, Own, Next, NEW s \in Slots, slot[s].pc = "idle", slot'[s].pc = "identifying"
  PROVE  LET rec == slot'[s]
         IN  /\ attempts[rec.attempt].owner = rec.browser
             /\ now - attempts[rec.attempt].createdAt < PendingTtl
             /\ rec.attempt \in store[cookie[rec.browser]].pending \ rec.pending
<1>. TypeOK
  BY DEF IInv
<1>1. \A t \in Slots : \A rec : slot' = [slot EXCEPT ![t] = rec] => slot'[s] = IF t = s THEN rec ELSE slot[s]
  BY DEF TypeOK
<1>2. ~Tick /\ ~Sweep
  BY DEF Tick, Sweep
<1>3. \A t \in Slots : ~Unsaved(t) /\ ~Save(t)
  BY <1>1 DEF Unsaved, DropCookie, NotModified, SaveFails, Save, Done, Idle
<1>4. \A t \in Slots : \A rec, kept : ~Handled(t, rec) /\ ~Remembered(t, kept, rec)
  BY <1>1 DEF Handled, Remembered
<1>5. PICK b \in Browsers : Arrived(s, b, slot'[s])
  <2>1. PICK t \in Slots, b \in Browsers : \E rec : Arrived(t, b, rec)
    BY <1>2, <1>3, <1>4, StepKinds
  <2>2. PICK rec : Arrived(t, b, rec)
    BY <2>1
  <2>3. t = s /\ slot'[s] = rec
    BY <1>1, <2>2 DEF Arrived
  <2>. QED BY <2>2, <2>3
<1>6. /\ slot'[s].attempt \in Loaded(b).pending \ slot'[s].pending
      /\ Fresh(slot'[s].attempt) /\ slot'[s].browser = b
  BY <1>5 DEF Arrived
<1>7. Live(cookie[b]) /\ slot'[s].attempt \in store[cookie[b]].pending
  BY <1>6, LoadedFrom
<1>. QED BY <1>6, <1>7, LiveIsId DEF Own, Fresh

\* A row that somebody may still load is not overwritten by nothing.
LEMMA StepEnds ==
  ASSUME IInv, Next, NEW id \in Ids, Live(id), store'[id] = NoRow
  PROVE  \E s \in Slots :
           \/ slot[s].pc = "identifying" /\ slot[s].sid = id /\ slot'[s].sid # id
           \/ slot[s].pc = "idle" /\ slot'[s].pc = "answered" /\ cookie[slot'[s].browser] = id
<1>. TypeOK
  BY DEF IInv
<1>1. now \in 0..MaxTime /\ store[id].expires \in Int /\ store[id].expires > now
  BY DEF TypeOK, Row, Live
<1>2. store[id] # NoRow /\ store'[id] # store[id]
  BY <1>1, SignInAssumption DEF NoRow
<1>3. \A i : store' = Deleted(i) => i = id
  BY <1>2 DEF Deleted, TypeOK
<1>4. ~Tick /\ ~Sweep
  BY <1>1, <1>2 DEF Tick, Sweep, ExpiredRow, TypeOK
<1>5. \A s \in Slots : ~Unsaved(s)
  BY <1>2 DEF Unsaved, DropCookie, NotModified, SaveFails
<1>6. \A s \in Slots : ~Save(s)
  <2>1. ASSUME NEW s \in Slots, Save(s) PROVE FALSE
    <3>1. store'[id].expires = now + SessionTtl
      BY <1>2, <2>1 DEF Save, TypeOK
    <3>. QED BY <1>1, <3>1, SignInAssumption DEF NoRow
  <2>. QED BY <2>1
<1>7. ASSUME NEW s \in Slots, NEW b \in Browsers, NEW rec, Arrived(s, b, rec)
      PROVE  slot[s].pc = "idle" /\ slot'[s].pc = "answered" /\ cookie[slot'[s].browser] = id
  <2>1. slot'[s] = rec
    BY <1>7 DEF Arrived, TypeOK
  <2>. QED BY <1>2, <1>3, <1>7, <2>1 DEF Arrived
<1>8. ASSUME NEW s \in Slots, NEW rec, Handled(s, rec)
      PROVE  slot[s].pc = "identifying" /\ slot[s].sid = id /\ slot'[s].sid # id
  <2>1. slot'[s] = rec
    BY <1>8 DEF Handled, TypeOK
  <2>. QED BY <1>2, <1>3, <1>8, <2>1 DEF Handled
<1>9. \A s \in Slots : \A kept, rec : ~Remembered(s, kept, rec)
  BY <1>2 DEF Remembered
<1>. QED BY <1>4, <1>5, <1>6, <1>7, <1>8, <1>9, StepKinds

\* An id names the session of one browser, whose row and copies hold attempts
\* of that browser only (routes.rs:150-161, 230-249; store.rs:78-123).
THEOREM Ownership == Spec => []Own
<1>1. Init => Own
  BY InitOwn
<1>. QED BY <1>1, NextKeepsOwn, Invariance, PTL DEF Spec

\* A callback goes on to sign in only with an attempt of this very browser, less
\* than the limit old, that the row names still (routes.rs:150-161, 253-271).
THEOREM SignInEarnedHolds == Spec => SignInEarned
<1>1. IInv /\ Own /\ [Next]_vars =>
        [\A s \in Slots :
           slot[s].pc = "idle" /\ slot'[s].pc = "identifying" =>
             LET rec == slot'[s]
             IN  /\ attempts[rec.attempt].owner = rec.browser
                 /\ now - attempts[rec.attempt].createdAt < PendingTtl
                 /\ rec.attempt \in store[cookie[rec.browser]].pending \ rec.pending]_vars
  BY StepEarns
<1>. QED BY <1>1, Ownership, Invariance, PTL DEF Spec, SignInEarned

\* A session somebody may still use ends before its time only by a sign-out of
\* its own browser, or to be cycled by its own sign-in (store.rs:125-171).
THEOREM LiveSessionsKeptHolds == Spec => LiveSessionsKept
<1>1. IInv /\ [Next]_vars =>
        [\A id \in Ids :
           Live(id) /\ store'[id] = NoRow =>
             \E s \in Slots :
               \/ slot[s].pc = "identifying" /\ slot[s].sid = id /\ slot'[s].sid # id
               \/ slot[s].pc = "idle" /\ slot'[s].pc = "answered"
                    /\ cookie[slot'[s].browser] = id]_vars
  BY StepEnds
<1>. QED BY <1>1, Invariance, PTL DEF Spec, LiveSessionsKept

-----------------------------------------------------------------------------
(* With the history. The variables of SignInHistory only watch, so all of   *)
(* the above holds of them too. SignOutFinal, SingleUse and AttemptsKept    *)
(* need more: that no browser has two requests in progress.                 *)

\* Writing down what happens adds no behaviour: what holds of SignIn holds here.
THEOREM HistoryWatches == HistorySpec => Spec
<1>1. HistoryInit => Init
  BY DEF HistoryInit
<1>2. [HistoryNext]_<<vars, history>> => [Next]_vars
  BY DEF HistoryNext, Next
<1>. QED BY <1>1, <1>2, PTL DEF HistorySpec, Spec

\* Neither does a browser that waits for an answer before its next request.
THEOREM SerialIsHistory == SerialSpec => HistorySpec
<1>1. [HistoryNext /\ OneAtATime']_<<vars, history>> => [HistoryNext]_<<vars, history>>
  OBVIOUS
<1>. QED BY <1>1, PTL DEF SerialSpec, HistorySpec

\* All of the above, of browsers with one request in progress at most.
THEOREM SerialInvariance == SerialSpec => [](IInv /\ Own /\ OneAtATime)
<1>1. HistoryInit => OneAtATime
  BY DEF HistoryInit, Init, OneAtATime, Idle
<1>2. OneAtATime /\ [HistoryNext /\ OneAtATime']_<<vars, history>> => OneAtATime'
  BY DEF vars, OneAtATime
<1>3. SerialSpec => []OneAtATime
  BY <1>1, <1>2, PTL DEF SerialSpec
<1>. QED BY <1>3, SerialIsHistory, HistoryWatches, Invariance, Ownership, PTL

\* What is recorded of a request that arrives.
Recorded(s, b) ==
  /\ uses' = uses
  /\ gone \subseteq gone' /\ Loaded(b).pending \ slot'[s].pending \subseteq gone'
  /\ \/ signedOut' = signedOut
     \/ signedOut' = signedOut \union {cookie[b]} /\ Live(cookie[b])
          /\ store' = Deleted(cookie[b]) /\ slot'[s].sid = NoId

LEMMA ArrivalRecords ==
  ASSUME TypeOK, NEW s \in Slots, NEW b \in Browsers,
         \/ (ArrivePage(s, b) \/ ArriveStart(s, b)) /\ UNCHANGED history
         \/ ArriveCallback(s, b) /\ RecordTaken(s, b)
         \/ ArriveSignOut(s, b) /\ RecordSignOut(b)
  PROVE  Recorded(s, b)
<1>. DEFINE from == Loaded(b)
<1>1. /\ from \in Request /\ from.pending = Session(cookie[b]).pending
      /\ from.sid = IF Live(cookie[b]) THEN cookie[b] ELSE NoId
  BY LoadedTyped, LoadedFrom DEF Loaded
<1>2. \A rec : slot' = [slot EXCEPT ![s] = rec] => slot'[s] = rec
  BY DEF TypeOK
<1>3. CASE (ArrivePage(s, b) \/ ArriveStart(s, b)) /\ UNCHANGED history
  <2>1. slot'[s] = from \/ slot'[s] = [from EXCEPT !.pc = "starting"]
    BY <1>2, <1>3 DEF ArrivePage, ArriveStart, Becomes
  <2>. HIDE DEF from
  <2>2. slot'[s].pending = from.pending
    BY <1>1, <2>1 DEF Request
  <2>. QED BY <1>3, <2>2 DEF Recorded, history, from
<1>4. CASE ArriveCallback(s, b) /\ RecordTaken(s, b)
  <2>1. PICK p \in Providers, state \in 0..Len(attempts) :
          LET found == Matching(from, state)
              taken == [from EXCEPT !.pending = Untaken(from, found), !.modified = found # {}]
          IN  \/ \E a \in found : /\ Usable(a, p)
                                  /\ Becomes(s, [taken EXCEPT !.attempt = a], "identifying")
              \/ Becomes(s, taken, "answered")
    BY <1>4 DEF ArriveCallback
  <2>. DEFINE found == from.pending \intersect {state}
              taken == [from EXCEPT !.pending = from.pending \ found, !.modified = found # {}]
              lost == from.pending \ slot'[s].pending
  <2>2. \/ \E a \in found : slot'[s] = [[taken EXCEPT !.attempt = a] EXCEPT !.pc = "identifying"]
        \/ slot'[s] = [taken EXCEPT !.pc = "answered"]
    BY <1>2, <2>1 DEF Becomes, Matching, Untaken
  <2>3. slot'[s].pending = from.pending \ found
    <3>. HIDE DEF from, found
    <3>1. taken.pending = from.pending \ found
      BY <1>1 DEF Request
    <3>2. DOMAIN taken = DOMAIN from
      OBVIOUS
    <3>. HIDE DEF taken
    <3>. QED BY <1>1, <2>2, <3>1, <3>2 DEF Request
  <2>. HIDE DEF from
  <2>4. lost = {} \/ lost = {state}
    BY <2>3
  <2>. HIDE DEF lost
  <2>5. lost = {state} => Cardinality(lost) = 1
    BY FS_Singleton
  <2>6. gone' = (IF Cardinality(lost) = 1 THEN gone \union lost ELSE gone)
        /\ UNCHANGED <<uses, signedOut>>
    BY <1>1, <1>4 DEF RecordTaken, lost, from
  <2>7. gone \subseteq gone' /\ lost \subseteq gone'
    BY <2>4, <2>5, <2>6
  <2>. QED BY <2>6, <2>7 DEF Recorded, lost, from
<1>5. CASE ArriveSignOut(s, b) /\ RecordSignOut(b)
  <2>1. /\ slot'[s] = [[from EXCEPT !.user = NoUser, !.pending = {}, !.sid = NoId]
                         EXCEPT !.pc = "answered"]
        /\ store' = IF from.sid # NoId THEN Deleted(from.sid) ELSE store
    BY <1>2, <1>5 DEF ArriveSignOut, Becomes, SessionDeleted
  <2>2. /\ signedOut' = signedOut \union (IF Live(cookie[b]) THEN {cookie[b]} ELSE {})
        /\ gone' = gone \union from.pending /\ uses' = uses
    BY <1>1, <1>5 DEF RecordSignOut
  <2>. HIDE DEF from
  <2>3. slot'[s].sid = NoId
    BY <1>1, <2>1 DEF Request
  <2>4. CASE Live(cookie[b])
    BY <1>1, <2>1, <2>2, <2>3, <2>4, LiveIsId DEF Recorded, from
  <2>5. CASE ~Live(cookie[b])
    BY <2>2, <2>5 DEF Recorded, from
  <2>. QED BY <2>4, <2>5
<1>. QED BY <1>3, <1>4, <1>5

LEMMA HistoryKinds ==
  ASSUME TypeOK, HistoryNext
  PROVE  \/ (Tick \/ Sweep) /\ UNCHANGED history
         \/ \E s \in Slots, b \in Browsers : \E rec : Arrived(s, b, rec) /\ Recorded(s, b)
         \/ \E s \in Slots : \E rec : Handled(s, rec) /\ UNCHANGED history
         \/ \E s \in Slots : \E kept, rec : Remembered(s, kept, rec) /\ RecordDropped(s)
         \/ \E s \in Slots : (DropCookie(s) \/ NotModified(s)) /\ UNCHANGED history
         \/ \E s \in Slots : SaveFails(s) /\ RecordLost(s)
         \/ \E s \in Slots : Save(s) /\ RecordUse(s)
<1>1. ASSUME NEW s \in Slots, NEW b \in Browsers,
             \/ (ArrivePage(s, b) \/ ArriveStart(s, b)) /\ UNCHANGED history
             \/ ArriveCallback(s, b) /\ RecordTaken(s, b)
             \/ ArriveSignOut(s, b) /\ RecordSignOut(b)
      PROVE  \E rec : Arrived(s, b, rec) /\ Recorded(s, b)
  BY <1>1, ArrivalLoads, ArrivalRecords
<1>2. ASSUME NEW s \in Slots, RefuseCallback(s) \/ (\E u \in Users : Login(s, u))
      PROVE  \E rec : Handled(s, rec)
  BY <1>2, AnswerKeepsCopy
<1>3. ASSUME NEW s \in Slots, Remember(s)
      PROVE  \E kept, rec : Remembered(s, kept, rec)
  BY <1>3, StartRemembers
<1>. QED BY <1>1, <1>2, <1>3 DEF HistoryNext

-----------------------------------------------------------------------------
(* SignOutFinal: no copy can bring the row back either.                    *)

SignedOutGone ==
  \A id \in signedOut :
    /\ id \in Ids /\ id < nextId /\ store[id] = NoRow
    /\ \A s \in Slots : Busy(s) => slot[s].sid # id

LEMMA DeletedIsNoRow ==
  ASSUME TypeOK, NEW id, NEW i \in Ids, store' = Deleted(id)
  PROVE  store'[i] = NoRow \/ store'[i] = store[i]
BY DEF Deleted, TypeOK

\* The other requests in progress are of other browsers, before and after.
LEMMA OthersElsewhere ==
  ASSUME TypeOK, OneAtATime', NEW s \in Slots, NEW rec, rec.pc # "idle",
         slot' = [slot EXCEPT ![s] = rec]
  PROVE  /\ slot'[s] = rec
         /\ \A t \in Slots \ {s} : slot'[t] = slot[t] /\ (Busy(t) => slot[t].browser # rec.browser)
<1>1. slot'[s] = rec /\ \A t \in Slots \ {s} : slot'[t] = slot[t]
  BY DEF TypeOK
<1>. QED BY <1>1 DEF OneAtATime, Busy

LEMMA ArrivalKeepsSignedOut ==
  ASSUME TypeOK, Own, SignedOutGone, OneAtATime', NEW s \in Slots, NEW b \in Browsers, NEW rec,
         Arrived(s, b, rec), Recorded(s, b)
  PROVE  SignedOutGone'
<1>1. /\ slot'[s] = rec
      /\ \A t \in Slots \ {s} : slot'[t] = slot[t] /\ (Busy(t) => slot[t].browser # b)
  BY OthersElsewhere DEF Arrived
<1>2. now \in Int /\ now >= 0
  BY SignInAssumption DEF TypeOK
<1>3. \A id \in signedOut : ~Live(id)
  BY <1>2 DEF SignedOutGone, Live, NoRow
<1>4. \A id \in signedOut : rec.sid # id
  BY <1>3 DEF Arrived, SignedOutGone, Ids, NoId
<1>5. nextId' = nextId
  BY DEF Arrived
<1>6. ASSUME NEW id \in signedOut
      PROVE  /\ id \in Ids /\ id < nextId /\ store'[id] = NoRow
             /\ \A t \in Slots : slot'[t].pc # "idle" => slot'[t].sid # id
  <2>1. store'[id] = NoRow
    BY DeletedIsNoRow DEF Arrived, SignedOutGone
  <2>. QED BY <1>1, <1>4, <2>1 DEF SignedOutGone, Busy
<1>7. ASSUME NEW id, id = cookie[b], Live(id), store' = Deleted(id), slot'[s].sid = NoId
      PROVE  /\ id \in Ids /\ id < nextId /\ store'[id] = NoRow
             /\ \A t \in Slots : slot'[t].pc # "idle" => slot'[t].sid # id
  <2>1. id \in Ids /\ id # NoId /\ id < nextId
    BY <1>7, LiveIsId DEF TypeOK
  <2>2. store'[id] = NoRow
    BY <1>7, <2>1 DEF Deleted, TypeOK
  <2>3. \A t \in Slots \ {s} : Busy(t) => slot[t].sid # id
    BY <1>1, <1>7, <2>1 DEF Own, Mine
  <2>. QED BY <1>1, <1>7, <2>1, <2>2, <2>3 DEF Busy
<1>8. \A id \in signedOut' : id \in signedOut \/
         (id = cookie[b] /\ Live(id) /\ store' = Deleted(id) /\ slot'[s].sid = NoId)
  BY DEF Recorded
<1>. QED BY <1>5, <1>6, <1>7, <1>8 DEF SignedOutGone, Busy

LEMMA SaveKeepsSignedOut ==
  ASSUME TypeOK, TypeOK', SignedOutGone, NEW s \in Slots, Save(s), signedOut' = signedOut
  PROVE  SignedOutGone'
<1>1. \A t \in Slots : slot'[t] = IF t = s THEN Idle ELSE slot[t]
  BY DEF Save, Done, TypeOK
<1>2. nextId \in Nat /\ nextId' \in Nat /\ nextId <= nextId'
  BY SignInAssumption DEF Save, TypeOK
<1>3. \A id \in signedOut : id # SavedAs(s)
  BY <1>2 DEF SignedOutGone, SavedAs, Save, Saving, Busy
<1>4. \A id \in Ids : id # SavedAs(s) => store'[id] = store[id]
  BY DEF Save, TypeOK
<1>5. \A id \in signedOut : id \in Int /\ id < nextId'
  BY <1>2 DEF SignedOutGone, Ids
<1>. QED BY <1>1, <1>3, <1>4, <1>5 DEF SignedOutGone, Busy, Idle

LEMMA NextKeepsSignedOut ==
  ASSUME TypeOK, TypeOK', Own, SignedOutGone, HistoryNext, OneAtATime'
  PROVE  SignedOutGone'
<1>1. CASE (Tick \/ Sweep) /\ UNCHANGED history
  <2>1. signedOut' = signedOut /\ slot' = slot /\ nextId' = nextId
    BY <1>1 DEF Tick, Sweep, history
  <2>2. \A id \in Ids : store'[id] = store[id] \/ store'[id] = NoRow
    BY <1>1 DEF Tick, Sweep, TypeOK
  <2>. QED BY <2>1, <2>2 DEF SignedOutGone, Busy
<1>2. ASSUME NEW s \in Slots, NEW b \in Browsers, NEW rec, Arrived(s, b, rec), Recorded(s, b)
      PROVE  SignedOutGone'
  BY <1>2, ArrivalKeepsSignedOut
<1>3. ASSUME NEW s \in Slots, NEW rec, Handled(s, rec), UNCHANGED history
      PROVE  SignedOutGone'
  <2>1. \A t \in Slots : slot'[t] = IF t = s THEN rec ELSE slot[t]
    BY <1>3 DEF Handled, TypeOK
  <2>2. \A id \in Ids : store'[id] = store[id] \/ store'[id] = NoRow
    BY <1>3, DeletedIsNoRow DEF Handled
  <2>3. \A id \in signedOut : rec.sid # id
    BY <1>3 DEF Handled, SignedOutGone, Busy, Ids, NoId
  <2>. QED BY <1>3, <2>1, <2>2, <2>3 DEF Handled, history, SignedOutGone, Busy
<1>4. ASSUME NEW s \in Slots, NEW kept, NEW rec, Remembered(s, kept, rec), RecordDropped(s)
      PROVE  SignedOutGone'
  <2>1. \A t \in Slots : slot'[t] = IF t = s THEN rec ELSE slot[t]
    BY <1>4 DEF Remembered, TypeOK
  <2>2. rec.sid = slot[s].sid /\ Busy(s) /\ UNCHANGED <<store, nextId, signedOut>>
    BY <1>4 DEF Remembered, RecordDropped, Busy
  <2>. QED BY <2>1, <2>2 DEF SignedOutGone, Busy
<1>5. ASSUME NEW s \in Slots, Unsaved(s), signedOut' = signedOut
      PROVE  SignedOutGone'
  <2>1. \A t \in Slots : slot'[t] = IF t = s THEN Idle ELSE slot[t]
    BY <1>5 DEF Unsaved, DropCookie, NotModified, SaveFails, Done, TypeOK
  <2>2. UNCHANGED <<store, nextId>>
    BY <1>5 DEF Unsaved, DropCookie, NotModified, SaveFails
  <2>. QED BY <1>5, <2>1, <2>2 DEF SignedOutGone, Busy, Idle
<1>6. ASSUME NEW s \in Slots, Save(s), RecordUse(s)
      PROVE  SignedOutGone'
  BY <1>6, SaveKeepsSignedOut DEF RecordUse
<1>7. ASSUME NEW s \in Slots,
             \/ (DropCookie(s) \/ NotModified(s)) /\ UNCHANGED history
             \/ SaveFails(s) /\ RecordLost(s)
      PROVE  SignedOutGone'
  BY <1>5, <1>7 DEF Unsaved, history, RecordLost
<1>. QED BY <1>1, <1>2, <1>3, <1>4, <1>6, <1>7, HistoryKinds

\* A session signed out of stays gone, in every behaviour in which a browser
\* sends one request at a time (routes.rs:215-226).
THEOREM SignOutFinalHolds == SerialSpec => []SignOutFinal
<1>1. HistoryInit => SignedOutGone
  BY DEF HistoryInit, SignedOutGone
<1>2. /\ IInv /\ Own /\ OneAtATime /\ (IInv /\ Own /\ OneAtATime)' /\ SignedOutGone
      /\ [HistoryNext /\ OneAtATime']_<<vars, history>>
      => SignedOutGone'
  <2>. SUFFICES ASSUME IInv, Own, IInv', SignedOutGone,
                       [HistoryNext /\ OneAtATime']_<<vars, history>>
                PROVE  SignedOutGone'
    OBVIOUS
  <2>1. TypeOK /\ TypeOK'
    BY DEF IInv
  <2>2. CASE UNCHANGED <<vars, history>>
    BY <2>2 DEF vars, history, SignedOutGone, Busy
  <2>. QED BY <2>1, <2>2, NextKeepsSignedOut
<1>3. SignedOutGone => SignOutFinal
  BY DEF SignedOutGone, SignOutFinal
<1>. QED BY <1>1, <1>2, <1>3, SerialInvariance, PTL DEF SerialSpec

-----------------------------------------------------------------------------
(* SingleUse: an attempt that was used is in no row or copy a browser may  *)
(* still use.                                                              *)

Unspent(rec) ==
  /\ \A a \in rec.pending : uses[a] = 0
  /\ rec.attempt # 0 => uses[rec.attempt] = 0 /\ rec.attempt \notin rec.pending

UsedOnce ==
  /\ uses \in [1..MaxAttempts -> {0, 1}]
  /\ \A a \in 1..MaxAttempts : uses[a] = 1 => a <= Len(attempts)
  /\ \A b \in Browsers : cookie[b] # NoId => \A a \in store[cookie[b]].pending : uses[a] = 0
  /\ \A s \in Slots : Busy(s) => Unspent(slot[s])

\* A step that replaces a copy and at most empties a row and a cookie.
LEMMA CopyKeepsUsedOnce ==
  ASSUME TypeOK, UsedOnce, NEW s \in Slots, NEW rec, rec = Idle \/ Unspent(rec),
         slot' = [slot EXCEPT ![s] = rec], RowsKept, CookiesKept,
         attempts' = attempts, uses' = uses
  PROVE  UsedOnce'
<1>1. \A t \in Slots : slot'[t] = IF t = s THEN rec ELSE slot[t]
  BY DEF TypeOK
<1>2. \A b \in Browsers : cookie'[b] = cookie[b] \/ cookie'[b] = NoId
  BY DEF CookiesKept, TypeOK
<1>3. \A id \in Ids : store'[id] = store[id] \/ store'[id].pending = {}
  BY DEF RowsKept, Deleted, TypeOK, NoRow
<1>4. \A b \in Browsers : cookie'[b] # NoId => \A a \in store'[cookie'[b]].pending : uses'[a] = 0
  BY <1>2, <1>3 DEF UsedOnce, TypeOK
<1>5. \A t \in Slots : slot'[t].pc # "idle" => Unspent(slot'[t])
  BY <1>1 DEF UsedOnce, Busy, Idle
<1>. QED BY <1>4, <1>5 DEF UsedOnce, Unspent, Busy

\* What was loaded was not used; the attempt a callback takes leaves the copy.
LEMMA ArrivalKeepsUsedOnce ==
  ASSUME TypeOK, UsedOnce, NEW s \in Slots, NEW b \in Browsers, NEW rec,
         Arrived(s, b, rec), uses' = uses
  PROVE  UsedOnce'
<1>1. \A a \in Loaded(b).pending : uses[a] = 0
  BY LoadedFrom, LiveIsId DEF UsedOnce
<1>2. Unspent(rec)
  BY <1>1 DEF Arrived, Unspent
<1>3. RowsKept /\ CookiesKept
  BY LiveIsId DEF Arrived, RowsKept, CookiesKept
<1>. QED BY <1>2, <1>3, CopyKeepsUsedOnce DEF Arrived

LEMMA AnswerKeepsUsedOnce ==
  ASSUME TypeOK, UsedOnce, NEW s \in Slots, NEW rec, Handled(s, rec), uses' = uses
  PROVE  UsedOnce'
<1>1. Unspent(slot[s]) /\ slot[s].sid \in Ids \union {NoId}
  BY BusyIsRequest DEF Handled, UsedOnce, Busy, Request
<1>2. Unspent(rec)
  BY <1>1 DEF Handled, Unspent
<1>3. RowsKept /\ CookiesKept
  BY <1>1 DEF Handled, RowsKept, CookiesKept
<1>. QED BY <1>2, <1>3, CopyKeepsUsedOnce DEF Handled

LEMMA UnsavedKeepsUsedOnce ==
  ASSUME TypeOK, UsedOnce, NEW s \in Slots, Unsaved(s), uses' = uses
  PROVE  UsedOnce'
<1>1. Busy(s)
  BY DEF Unsaved, DropCookie, NotModified, SaveFails, Saving, Busy
<1>2. slot[s].browser \in Browsers
  BY <1>1, BusyIsRequest DEF Request
<1>3. slot' = [slot EXCEPT ![s] = Idle] /\ store' = store /\ attempts' = attempts
  BY DEF Unsaved, DropCookie, NotModified, SaveFails, Done
<1>4. cookie' = cookie \/ cookie' = [cookie EXCEPT ![slot[s].browser] = NoId]
  BY DEF Unsaved, DropCookie, NotModified, SaveFails
<1>. QED BY <1>2, <1>3, <1>4, CopyKeepsUsedOnce DEF RowsKept, CookiesKept

\* An attempt that is issued was never used.
LEMMA RememberKeepsUsedOnce ==
  ASSUME TypeOK, TypeOK', UsedOnce, NEW s \in Slots, NEW kept, NEW rec,
         Remembered(s, kept, rec), uses' = uses
  PROVE  UsedOnce'
<1>. DEFINE n == Len(attempts) + 1
<1>1. /\ \A t \in Slots : slot'[t] = IF t = s THEN rec ELSE slot[t]
      /\ rec.attempt = slot[s].attempt
      /\ \A a \in rec.pending : a \in slot[s].pending \/ a = n
      /\ Busy(s) /\ Unspent(slot[s]) /\ slot[s] \in Request
      /\ cookie' = cookie /\ store' = store
  BY BusyIsRequest DEF Remembered, TypeOK, Busy, UsedOnce
<1>2. Len(attempts) \in Nat /\ Len(attempts') = n /\ n \in 1..MaxAttempts
  BY SignInAssumption DEF Remembered, TypeOK
<1>3. uses[n] = 0
  BY <1>2 DEF UsedOnce
<1>4. slot[s].attempt # n
  BY <1>1, <1>2 DEF Request
<1>5. Unspent(rec)
  BY <1>1, <1>3, <1>4 DEF Unspent
<1>6. \A a \in 1..MaxAttempts : uses'[a] = 1 => a <= Len(attempts')
  BY <1>2 DEF UsedOnce
<1>7. \A t \in Slots : slot'[t].pc # "idle" => Unspent(slot'[t])
  BY <1>1, <1>5 DEF UsedOnce, Busy
<1>8. \A t \in Slots : slot'[t].pc # "idle" => Unspent(slot[t])'
  BY <1>7 DEF Unspent
<1>. QED BY <1>1, <1>6, <1>8 DEF UsedOnce, Busy

\* A sign-in completes: its attempt is in no other copy or row of the browser,
\* and no other browser has it.
LEMMA SaveKeepsUsedOnce ==
  ASSUME TypeOK, Own, Own', OneAtATime, UsedOnce, NEW s \in Slots, Save(s), RecordUse(s)
  PROVE  UsedOnce'
<1>. DEFINE b == slot[s].browser
            x == slot[s].attempt
<1>1. /\ Busy(s) /\ slot[s] \in Request /\ Unspent(slot[s])
      /\ b \in Browsers /\ x \in 0..Len(attempts) /\ SavedAs(s) \in Ids
  BY BusyIsRequest DEF Save, Saving, Busy, Request, UsedOnce
<1>2. x # 0 => attempts[x].owner = b
  BY <1>1 DEF Own, OwnCopy
<1>3. /\ \A t \in Slots : slot'[t] = IF t = s THEN Idle ELSE slot[t]
      /\ \A c \in Browsers : cookie'[c] = IF c = b THEN SavedAs(s) ELSE cookie[c]
      /\ \A i \in Ids : i # SavedAs(s) => store'[i] = store[i]
      /\ store'[SavedAs(s)].pending = slot[s].pending
      /\ attempts' = attempts
  BY <1>1 DEF Save, Done, TypeOK
<1>4. Len(attempts) \in Nat /\ 1..Len(attempts) \subseteq 1..MaxAttempts
  BY SignInAssumption DEF TypeOK
<1>5. /\ uses' \in [1..MaxAttempts -> {0, 1}]
      /\ \A a \in 1..MaxAttempts : a # x => uses'[a] = uses[a]
      /\ \A a \in 1..MaxAttempts : uses'[a] = 1 => a <= Len(attempts)
  <2>1. CASE x = 0
    BY <2>1 DEF RecordUse, UsedOnce
  <2>2. CASE x # 0
    <3>1. x \in 1..MaxAttempts /\ uses[x] = 0 /\ x <= Len(attempts)
      BY <1>1, <1>4, <2>2 DEF Unspent
    <3>2. uses' = [uses EXCEPT ![x] = 1]
      BY <2>2, <3>1 DEF RecordUse
    <3>. HIDE DEF x
    <3>. QED BY <3>1, <3>2 DEF UsedOnce
  <2>. QED BY <2>1, <2>2
<1>. HIDE DEF x
<1>6. ASSUME NEW c \in Browsers, cookie'[c] # NoId, NEW a \in store'[cookie'[c]].pending
      PROVE  uses'[a] = 0
  <2>1. CASE c = b
    <3>1. a \in slot[s].pending /\ uses[a] = 0 /\ a \in 1..MaxAttempts
      BY <1>1, <1>3, <1>4, <1>6, <2>1 DEF Unspent, Request
    <3>2. a # x
      BY <1>1, <3>1 DEF Unspent, x, Request
    <3>. QED BY <1>5, <3>1, <3>2
  <2>2. CASE c # b
    <3>1. attempts[a].owner = c
      BY <1>3, <1>6 DEF Own
    <3>2. cookie[c] # SavedAs(s)
      BY <1>1, <1>3, <1>6, <2>2, SavedAsMine DEF Mine
    <3>3. cookie[c] \in Ids /\ a \in store[cookie[c]].pending
      BY <1>3, <1>6, <2>2, <3>2 DEF TypeOK
    <3>4. a \in 1..MaxAttempts /\ uses[a] = 0
      BY <1>4, <3>3 DEF TypeOK, Row, UsedOnce, Ids, NoId
    <3>5. a # x
      BY <1>2, <1>4, <2>2, <3>1, <3>4
    <3>. QED BY <1>5, <3>4, <3>5
  <2>. QED BY <2>1, <2>2
<1>7. ASSUME NEW t \in Slots, slot'[t].pc # "idle"
      PROVE  Unspent(slot[t])'
  <2>1. /\ slot'[t] = slot[t] /\ t # s /\ Busy(t) /\ Unspent(slot[t]) /\ slot[t] \in Request
        /\ OwnCopy(slot[t])
    BY <1>3, <1>7, BusyIsRequest DEF UsedOnce, Busy, Idle, Own
  <2>2. slot[t].browser # b
    BY <1>1, <2>1 DEF OneAtATime, Busy
  <2>3. \A a \in slot[t].pending : a \in 1..MaxAttempts /\ uses[a] = 0 /\ a # x
    BY <1>2, <1>4, <2>1, <2>2 DEF OwnCopy, Unspent, Request
  <2>4. slot[t].attempt # 0 => /\ slot[t].attempt \in 1..MaxAttempts
                               /\ uses[slot[t].attempt] = 0 /\ slot[t].attempt # x
    BY <1>2, <1>4, <2>1, <2>2 DEF OwnCopy, Unspent, Request
  <2>. QED BY <1>5, <2>1, <2>3, <2>4 DEF Unspent
<1>. QED BY <1>3, <1>5, <1>6, <1>7 DEF UsedOnce, Busy

LEMMA NextKeepsUsedOnce ==
  ASSUME TypeOK, TypeOK', Own, Own', UsedOnce, HistoryNext, OneAtATime
  PROVE  UsedOnce'
<1>1. CASE (Tick \/ Sweep) /\ UNCHANGED history
  <2>1. UNCHANGED <<slot, cookie, attempts, uses>>
    BY <1>1 DEF Tick, Sweep, history
  <2>2. \A id \in Ids : store'[id] = store[id] \/ store'[id].pending = {}
    BY <1>1 DEF Tick, Sweep, NoRow, TypeOK
  <2>. QED BY <2>1, <2>2 DEF UsedOnce, Unspent, Busy, TypeOK
<1>2. ASSUME NEW s \in Slots, NEW b \in Browsers, NEW rec, Arrived(s, b, rec), Recorded(s, b)
      PROVE  UsedOnce'
  BY <1>2, ArrivalKeepsUsedOnce DEF Recorded
<1>3. ASSUME NEW s \in Slots, NEW rec, Handled(s, rec), UNCHANGED history
      PROVE  UsedOnce'
  BY <1>3, AnswerKeepsUsedOnce DEF history
<1>4. ASSUME NEW s \in Slots, NEW kept, NEW rec, Remembered(s, kept, rec), RecordDropped(s)
      PROVE  UsedOnce'
  BY <1>4, RememberKeepsUsedOnce DEF RecordDropped
<1>5. ASSUME NEW s \in Slots,
             \/ (DropCookie(s) \/ NotModified(s)) /\ UNCHANGED history
             \/ SaveFails(s) /\ RecordLost(s)
      PROVE  UsedOnce'
  BY <1>5, UnsavedKeepsUsedOnce DEF Unsaved, history, RecordLost
<1>6. ASSUME NEW s \in Slots, Save(s), RecordUse(s)
      PROVE  UsedOnce'
  BY <1>6, SaveKeepsUsedOnce
<1>. QED BY <1>1, <1>2, <1>3, <1>4, <1>5, <1>6, HistoryKinds

\* No attempt completes two sign-ins, in every behaviour in which a browser
\* sends one request at a time (routes.rs:252).
THEOREM SingleUseHolds == SerialSpec => []SingleUse
<1>1. HistoryInit => UsedOnce
  BY DEF HistoryInit, Init, UsedOnce, Busy, Idle
<1>2. /\ IInv /\ Own /\ OneAtATime /\ (IInv /\ Own /\ OneAtATime)' /\ UsedOnce
      /\ [HistoryNext /\ OneAtATime']_<<vars, history>>
      => UsedOnce'
  <2>. SUFFICES ASSUME IInv, Own, OneAtATime, IInv', Own', UsedOnce,
                       [HistoryNext /\ OneAtATime']_<<vars, history>>
                PROVE  UsedOnce'
    OBVIOUS
  <2>1. TypeOK /\ TypeOK'
    BY DEF IInv
  <2>2. CASE UNCHANGED <<vars, history>>
    BY <2>2 DEF vars, history, UsedOnce, Unspent, Busy
  <2>. QED BY <2>1, <2>2, NextKeepsUsedOnce
<1>3. UsedOnce => SingleUse
  BY DEF UsedOnce, SingleUse
<1>. QED BY <1>1, <1>2, <1>3, SerialInvariance, PTL DEF SerialSpec

-----------------------------------------------------------------------------
(* AttemptsKept. A row outlives the attempts in it, the copy of a request  *)
(* names the session its browser has, and until it is saved it holds every *)
(* attempt that has not ended.                                             *)

Dated ==
  /\ \A a \in 1..Len(attempts) : attempts[a].createdAt <= now
  /\ \A id \in Ids : \A a \in store[id].pending :
       attempts[a].createdAt + SessionTtl <= store[id].expires

\* Attempt a is in the row of browser b.
InRow(b, a) == cookie[b] # NoId /\ a \in store[cookie[b]].pending

CurrentCopy(rec) ==
  /\ rec.sid # NoId => rec.sid = cookie[rec.browser]
  /\ rec.pc = "identifying" => rec.modified
  /\ ~rec.modified => \A a \in rec.pending : Fresh(a) => InRow(rec.browser, a)

Waiting(b) == \A s \in Slots : Busy(s) => slot[s].browser # b

Held(a) ==
  LET b == attempts[a].owner
  IN  \/ \E s \in Slots : Busy(s) /\ slot[s].browser = b /\ a \in slot[s].pending
      \/ Waiting(b) /\ InRow(b, a)

AllHeld ==
  /\ \A s \in Slots : Busy(s) => CurrentCopy(slot[s])
  /\ \A a \in 1..Len(attempts) \ gone : Fresh(a) => Held(a)

LEMMA AttemptTyped ==
  ASSUME TypeOK, NEW a \in 1..Len(attempts)
  PROVE  attempts[a] \in Attempt /\ attempts[a].createdAt \in Int /\ attempts[a].owner \in Browsers
<1>1. attempts[a] \in Attempt
  BY DEF TypeOK
<1>. QED BY <1>1 DEF Attempt

LEMMA NumbersTyped ==
  ASSUME TypeOK
  PROVE  /\ now \in Int /\ SessionTtl \in Int /\ PendingTtl \in Int /\ 0 < SessionTtl
         /\ Len(attempts) \in Nat
         /\ \A id \in Ids : store[id].expires \in Int /\ store[id].pending \subseteq 1..Len(attempts)
BY SignInAssumption DEF TypeOK, Row

\* A row with a fresh attempt in it is alive, the sweep leaves it.
LEMMA FreshRowLives ==
  ASSUME TypeOK, Dated, PendingTtl <= SessionTtl, NEW id \in Ids, NEW a \in store[id].pending, Fresh(a)
  PROVE  store[id].expires > now
<1>1. /\ attempts[a].createdAt \in Int /\ now \in Int /\ store[id].expires \in Int
      /\ SessionTtl \in Int /\ PendingTtl \in Int
  BY AttemptTyped, NumbersTyped
<1>. QED BY <1>1 DEF Dated, Fresh

LEMMA NextKeepsDated ==
  ASSUME TypeOK, Dated, Next
  PROVE  Dated'
<1>. USE NumbersTyped
<1>1. ASSUME now <= now', now' \in Int, attempts' = attempts,
             \A id \in Ids : store'[id] = store[id] \/ store'[id].pending = {}
      PROVE  Dated'
  <2>1. ASSUME NEW a \in 1..Len(attempts) PROVE attempts[a].createdAt <= now'
    BY <1>1, AttemptTyped DEF Dated
  <2>. QED BY <1>1, <2>1 DEF Dated
<1>2. CASE Tick
  BY <1>1, <1>2 DEF Tick
<1>3. CASE Sweep
  <2>1. \A id \in Ids : store'[id] = store[id] \/ store'[id].pending = {}
    BY <1>3 DEF Sweep, NoRow, TypeOK
  <2>. QED BY <1>1, <1>3, <2>1 DEF Sweep
<1>4. ASSUME NEW s \in Slots, NEW b \in Browsers, NEW rec, Arrived(s, b, rec)
      PROVE  Dated'
  <2>1. \A id \in Ids : store'[id] = store[id] \/ store'[id].pending = {}
    BY <1>4, DeletedIsNoRow DEF Arrived, NoRow
  <2>. QED BY <1>1, <1>4, <2>1 DEF Arrived
<1>5. ASSUME NEW s \in Slots, NEW rec, Handled(s, rec)
      PROVE  Dated'
  <2>1. \A id \in Ids : store'[id] = store[id] \/ store'[id].pending = {}
    BY <1>5, DeletedIsNoRow DEF Handled, NoRow
  <2>. QED BY <1>1, <1>5, <2>1 DEF Handled
<1>6. ASSUME NEW s \in Slots, Unsaved(s)
      PROVE  Dated'
  <2>1. store' = store /\ now' = now /\ attempts' = attempts
    BY <1>6 DEF Unsaved, DropCookie, NotModified, SaveFails
  <2>. QED BY <1>1, <2>1
<1>7. ASSUME NEW s \in Slots, NEW kept, NEW rec, Remembered(s, kept, rec)
      PROVE  Dated'
  <2>1. /\ Len(attempts') = Len(attempts) + 1 /\ store' = store /\ now' = now
        /\ \A a \in 1..Len(attempts) : attempts'[a] = attempts[a]
        /\ attempts'[Len(attempts) + 1].createdAt = now
    BY <1>7 DEF Remembered
  <2>2. ASSUME NEW a \in 1..Len(attempts') PROVE attempts'[a].createdAt <= now'
    <3>1. a \in 1..Len(attempts) \/ a = Len(attempts) + 1
      BY <2>1
    <3>. QED BY <2>1, <3>1 DEF Dated
  <2>3. ASSUME NEW id \in Ids, NEW a \in store[id].pending
        PROVE  attempts'[a].createdAt + SessionTtl <= store[id].expires
    BY <2>1 DEF Dated
  <2>. QED BY <2>1, <2>2, <2>3 DEF Dated
<1>8. ASSUME NEW s \in Slots, Save(s)
      PROVE  Dated'
  <2>1. /\ now' = now /\ attempts' = attempts
        /\ \A id \in Ids :
             \/ store'[id] = store[id]
             \/ store'[id].pending = slot[s].pending /\ store'[id].expires = now + SessionTtl
    BY <1>8 DEF Save, TypeOK
  <2>2. slot[s].pending \subseteq 1..Len(attempts)
    BY <1>8, BusyIsRequest DEF Save, Saving, Busy, Request
  <2>3. \A a \in slot[s].pending : attempts[a].createdAt + SessionTtl <= now + SessionTtl
    BY <2>2, AttemptTyped DEF Dated
  <2>. QED BY <2>1, <2>3 DEF Dated
<1>. QED BY <1>2, <1>3, <1>4, <1>5, <1>6, <1>7, <1>8, StepKinds

\* A step of a request of browser b leaves the sessions of the others alone.
Untouched(b) ==
  \A c \in Browsers \ {b} :
    /\ cookie'[c] = cookie[c]
    /\ cookie[c] # NoId => store'[cookie[c]] = store[cookie[c]]

Older == /\ gone \subseteq gone' /\ now' = now
         /\ Len(attempts) <= Len(attempts')
         /\ \A a \in 1..Len(attempts) : attempts'[a] = attempts[a]

\* So it is enough to know what the step does to the attempts of b.
LEMMA StepKeepsHeld ==
  ASSUME TypeOK, TypeOK', AllHeld, NEW s \in Slots, NEW b \in Browsers, NEW rec,
         slot' = [slot EXCEPT ![s] = rec], Untouched(b), Older,
         Busy(s) => slot[s].browser = b,
         rec = Idle \/ (rec.pc # "idle" /\ rec.browser = b /\ CurrentCopy(slot[s])'),
         \A t \in Slots \ {s} : Busy(t) => slot[t].browser # b,
         \A a \in 1..Len(attempts') : a \in 1..Len(attempts) \/ attempts'[a].owner = b,
         \A a \in 1..Len(attempts') \ gone' :
           attempts'[a].owner = b /\ Fresh(a)' =>
             (rec # Idle /\ a \in rec.pending) \/ (rec = Idle /\ InRow(b, a)')
  PROVE  AllHeld'
<1>1. slot'[s] = rec /\ \A t \in Slots \ {s} : slot'[t] = slot[t]
  BY DEF TypeOK
<1>2. \A a \in 1..Len(attempts) : Fresh(a)' <=> Fresh(a)
  BY DEF Fresh, Older
<1>3. \A c \in Browsers \ {b}, a \in 1..Len(attempts) : InRow(c, a) => InRow(c, a)'
  BY DEF InRow, Untouched
<1>4. ASSUME NEW t \in Slots, slot'[t].pc # "idle"
      PROVE  CurrentCopy(slot[t])'
  <2>1. CASE t = s
    BY <1>1, <1>4, <2>1 DEF Idle
  <2>2. CASE t # s
    <3>1. /\ slot'[t] = slot[t] /\ Busy(t) /\ CurrentCopy(slot[t]) /\ slot[t] \in Request
          /\ slot[t].browser \in Browsers \ {b} /\ slot[t].pending \subseteq 1..Len(attempts)
      BY <1>1, <1>4, <2>2, BusyIsRequest DEF AllHeld, Busy, Request
    <3>2. cookie'[slot[t].browser] = cookie[slot[t].browser]
      BY <3>1 DEF Untouched
    <3>3. \A a \in slot[t].pending : InRow(slot[t].browser, a) => InRow(slot[t].browser, a)'
      <4>1. PICK c : c = slot[t].browser
        OBVIOUS
      <4>2. \A a \in slot[t].pending : InRow(c, a) => InRow(c, a)'
        BY <1>3, <3>1, <4>1
      <4>. QED BY <3>1, <4>1, <4>2 DEF InRow
    <3>4. \A a \in slot[t].pending : Fresh(a)' => Fresh(a)
      BY <1>2, <3>1
    <3>. QED BY <3>1, <3>2, <3>3, <3>4 DEF CurrentCopy
  <2>. QED BY <2>1, <2>2
<1>5. ASSUME NEW a \in 1..Len(attempts') \ gone', Fresh(a)'
      PROVE  Held(a)'
  <2>1. CASE attempts'[a].owner = b
    <3>1. CASE rec # Idle
      BY <1>1, <1>5, <2>1, <3>1 DEF Held, Busy
    <3>2. CASE rec = Idle
      <4>1. Waiting(b)'
        BY <1>1, <3>2 DEF Waiting, Busy, Idle
      <4>2. InRow(b, a)'
        BY <1>5, <2>1, <3>2
      <4>. QED BY <2>1, <4>1, <4>2 DEF Held, Waiting, InRow
    <3>. QED BY <3>1, <3>2
  <2>2. CASE attempts'[a].owner # b
    <3>1. a \in 1..Len(attempts) \ gone /\ attempts'[a] = attempts[a] /\ Fresh(a)
      BY <1>2, <1>5, <2>2 DEF Older
    <3>2. Held(a) /\ attempts[a].owner \in Browsers
      BY <3>1, AttemptTyped DEF AllHeld
    <3>3. PICK c \in Browsers : c = attempts[a].owner /\ c # b
      BY <2>2, <3>1, <3>2
    <3>4. CASE \E t \in Slots : Busy(t) /\ slot[t].browser = c /\ a \in slot[t].pending
      BY <1>1, <3>1, <3>3, <3>4 DEF Held, Busy
    <3>5. CASE Waiting(c) /\ InRow(c, a)
      <4>1. Waiting(c)'
        BY <1>1, <3>3, <3>5 DEF Waiting, Busy, Idle
      <4>2. InRow(c, a)'
        BY <1>3, <3>1, <3>3, <3>5
      <4>. QED BY <3>1, <3>3, <4>1, <4>2 DEF Held, Waiting, InRow
    <3>. QED BY <3>2, <3>3, <3>4, <3>5 DEF Held
  <2>. QED BY <2>1, <2>2
<1>. QED BY <1>4, <1>5 DEF AllHeld, Busy

\* While its browser waits for an answer an attempt is in the copy.
LEMMA HeldByCopy ==
  ASSUME AllHeld, OneAtATime, NEW s \in Slots, Busy(s), NEW a \in 1..Len(attempts) \ gone,
         Fresh(a), attempts[a].owner = slot[s].browser
  PROVE  a \in slot[s].pending
<1>1. Held(a)
  BY DEF AllHeld
<1>2. \A t \in Slots : Busy(t) /\ slot[t].browser = slot[s].browser => t = s
  BY DEF OneAtATime, Busy
<1>. QED BY <1>1, <1>2 DEF Held, Waiting

LEMMA ArrivalKeepsHeld ==
  ASSUME TypeOK, TypeOK', Own, Dated, AllHeld, OneAtATime', PendingTtl <= SessionTtl,
         NEW s \in Slots, NEW b \in Browsers, NEW rec, Arrived(s, b, rec), Recorded(s, b)
  PROVE  AllHeld'
<1>1. /\ slot'[s] = rec
      /\ \A t \in Slots \ {s} : slot'[t] = slot[t] /\ (Busy(t) => slot[t].browser # b)
  BY OthersElsewhere DEF Arrived
<1>2. Untouched(b)
  <2>1. \A c \in Browsers \ {b} : cookie[c] # NoId => cookie[c] # cookie[b] /\ cookie[c] \in Ids
    BY DEF Own, Mine, TypeOK
  <2>. QED BY <2>1 DEF Untouched, Arrived, Deleted, TypeOK
<1>3. Older /\ attempts' = attempts
  BY NumbersTyped DEF Older, Arrived, Recorded
<1>4. CurrentCopy(slot[s])'
  <2>1. \A a \in rec.pending : InRow(b, a)'
    <3>1. \A a \in rec.pending : cookie[b] # NoId /\ a \in store[cookie[b]].pending
      BY LoadedFrom, LiveIsId DEF Arrived
    <3>2. rec.pending = {} \/ store' = store
      BY DEF Arrived
    <3>. QED BY <3>1, <3>2 DEF Arrived, InRow
  <2>. QED BY <1>1, <2>1 DEF CurrentCopy, Arrived
<1>5. ASSUME NEW a \in 1..Len(attempts') \ gone', attempts'[a].owner = b, Fresh(a)'
      PROVE  rec # Idle /\ a \in rec.pending
  <2>1. a \in 1..Len(attempts) \ gone /\ attempts[a].owner = b /\ Fresh(a)
    BY <1>3, <1>5 DEF Older, Fresh
  <2>2. InRow(b, a)
    BY <1>1, <2>1 DEF AllHeld, Held, Arrived, Busy
  <2>3. cookie[b] \in Ids /\ a \in store[cookie[b]].pending
    BY <2>2 DEF InRow, TypeOK
  <2>4. Live(cookie[b])
    BY <2>1, <2>3, FreshRowLives DEF Live
  <2>5. a \in Loaded(b).pending
    BY <2>3, <2>4 DEF Loaded, Session
  <2>. QED BY <1>1, <1>5, <2>5 DEF Recorded, Arrived, Idle
<1>6. \A a \in 1..Len(attempts') : a \in 1..Len(attempts)
  BY <1>3
<1>. QED BY <1>1, <1>2, <1>3, <1>4, <1>5, <1>6, StepKeepsHeld DEF Arrived, Busy

LEMMA AnswerKeepsHeld ==
  ASSUME TypeOK, TypeOK', Own, AllHeld, OneAtATime,
         NEW s \in Slots, NEW rec, Handled(s, rec), UNCHANGED history
  PROVE  AllHeld'
<1>. DEFINE b == slot[s].browser
<1>1. /\ Busy(s) /\ b \in Browsers /\ OwnCopy(slot[s]) /\ CurrentCopy(slot[s])
      /\ \A t \in Slots \ {s} : Busy(t) => slot[t].browser # b
  BY BusyIsRequest DEF Handled, Busy, Request, Own, AllHeld, OneAtATime
<1>2. Untouched(b)
  <2>1. \A c \in Browsers \ {b} : cookie[c] # NoId => cookie[c] # slot[s].sid /\ cookie[c] \in Ids
    BY <1>1 DEF OwnCopy, Mine, TypeOK
  <2>. QED BY <2>1 DEF Untouched, Handled, Deleted, TypeOK
<1>3. Older /\ attempts' = attempts /\ gone' = gone
  BY NumbersTyped DEF Older, Handled, history
<1>4. slot'[s] = rec
  BY DEF Handled, TypeOK
<1>5. CurrentCopy(slot[s])'
  BY <1>1, <1>4 DEF CurrentCopy, Handled
<1>6. ASSUME NEW a \in 1..Len(attempts') \ gone', attempts'[a].owner = b, Fresh(a)'
      PROVE  rec # Idle /\ a \in rec.pending
  <2>1. a \in 1..Len(attempts) \ gone /\ attempts[a].owner = b /\ Fresh(a)
    BY <1>3, <1>6 DEF Older, Fresh
  <2>2. a \in slot[s].pending
    BY <1>1, <2>1, HeldByCopy
  <2>. QED BY <2>2 DEF Handled, Idle
<1>7. \A a \in 1..Len(attempts') : a \in 1..Len(attempts)
  BY <1>3
<1>8. rec.pc # "idle" /\ rec.browser = b /\ slot' = [slot EXCEPT ![s] = rec]
  BY DEF Handled
<1>. HIDE DEF b
<1>9. Busy(s) => slot[s].browser = b
  BY DEF b
<1>. QED BY <1>1, <1>2, <1>3, <1>5, <1>6, <1>7, <1>8, <1>9, StepKeepsHeld

\* A start that makes room drops old attempts only, or some that are recorded.
LEMMA KeptOrGone ==
  ASSUME TypeOK, NEW S, S \subseteq 1..Len(attempts), Cardinality(S) < MaxPending,
         NEW kept, Kept(S, kept)
  PROVE  kept = {a \in S : Fresh(a)}
<1>. DEFINE fresh == {a \in S : Fresh(a)}
<1>1. IsFiniteSet(S)
  BY PendingFinite
<1>2. IsFiniteSet(fresh) /\ Cardinality(fresh) <= Cardinality(S)
  BY <1>1, FS_Subset
<1>3. /\ kept \subseteq fresh
      /\ kept # fresh => Cardinality(kept) = MaxPending - 1
  BY DEF Kept, RoomForOthers
<1>. HIDE DEF fresh
<1>4. /\ IsFiniteSet(kept) /\ Cardinality(kept) <= Cardinality(fresh)
      /\ Cardinality(fresh) = Cardinality(kept) => fresh = kept
  BY <1>2, <1>3, FS_Subset
<1>5. Cardinality(S) \in Nat /\ Cardinality(fresh) \in Nat /\ Cardinality(kept) \in Nat
  BY <1>1, <1>2, <1>4, FS_CardinalityType
<1>6. kept = fresh
  BY <1>2, <1>3, <1>4, <1>5, SignInAssumption
<1>. QED BY <1>6 DEF fresh

LEMMA RememberKeepsHeld ==
  ASSUME TypeOK, TypeOK', AllHeld, OneAtATime,
         NEW s \in Slots, NEW kept, NEW rec, Remembered(s, kept, rec), RecordDropped(s)
  PROVE  AllHeld'
<1>. DEFINE b == slot[s].browser
            n == Len(attempts) + 1
<1>1. /\ Busy(s) /\ b \in Browsers /\ CurrentCopy(slot[s])
      /\ slot[s].pending \subseteq 1..Len(attempts)
      /\ \A t \in Slots \ {s} : Busy(t) => slot[t].browser # b
  BY BusyIsRequest DEF Remembered, Busy, Request, AllHeld, OneAtATime
<1>2. Untouched(b)
  BY DEF Untouched, Remembered
<1>3. slot'[s] = rec
  BY DEF Remembered, TypeOK
<1>4. gone' = IF Cardinality(slot[s].pending) >= MaxPending
              THEN gone \union (slot[s].pending \ rec.pending) ELSE gone
  BY <1>3 DEF RecordDropped
<1>5. Older
  BY <1>4, NumbersTyped DEF Older, Remembered
<1>6. CurrentCopy(slot[s])'
  BY <1>1, <1>3 DEF CurrentCopy, Remembered
<1>7. \A a \in 1..Len(attempts') : a \in 1..Len(attempts) \/ a = n
  BY NumbersTyped DEF Remembered
<1>8. ASSUME NEW a \in 1..Len(attempts') \ gone', attempts'[a].owner = b, Fresh(a)'
      PROVE  rec # Idle /\ a \in rec.pending
  <2>1. rec # Idle
    BY DEF Remembered, Idle
  <2>2. CASE a = n
    BY <2>1, <2>2 DEF Remembered
  <2>3. CASE a \in 1..Len(attempts)
    <3>1. a \notin gone /\ attempts[a].owner = b /\ Fresh(a)
      BY <1>5, <1>8, <2>3 DEF Older, Fresh
    <3>2. a \in slot[s].pending
      BY <1>1, <2>3, <3>1, HeldByCopy
    <3>3. CASE Cardinality(slot[s].pending) >= MaxPending
      BY <1>4, <1>8, <2>1, <3>2, <3>3
    <3>4. CASE ~(Cardinality(slot[s].pending) >= MaxPending)
      <4>1. Cardinality(slot[s].pending) \in Nat
        BY <1>1, PendingFinite, FS_CardinalityType
      <4>2. kept = {x \in slot[s].pending : Fresh(x)}
        BY <1>1, <3>4, <4>1, KeptOrGone, SignInAssumption DEF Remembered
      <4>. QED BY <2>1, <3>1, <3>2, <4>2 DEF Remembered
    <3>. QED BY <3>3, <3>4
  <2>. QED BY <1>7, <2>2, <2>3
<1>9. \A a \in 1..Len(attempts') : a \in 1..Len(attempts) \/ attempts'[a].owner = b
  BY <1>7 DEF Remembered
<1>10. rec.pc # "idle" /\ rec.browser = b /\ slot' = [slot EXCEPT ![s] = rec]
  BY DEF Remembered
<1>. HIDE DEF b
<1>11. Busy(s) => slot[s].browser = b
  BY DEF b
<1>. QED BY <1>1, <1>2, <1>5, <1>6, <1>8, <1>9, <1>10, <1>11, StepKeepsHeld

LEMMA UnsavedKeepsHeld ==
  ASSUME TypeOK, TypeOK', AllHeld, OneAtATime, NEW s \in Slots,
         \/ (DropCookie(s) \/ NotModified(s)) /\ UNCHANGED history
         \/ SaveFails(s) /\ RecordLost(s)
  PROVE  AllHeld'
<1>0. PICK b : b = slot[s].browser
  OBVIOUS
<1>1. Busy(s)
  BY DEF DropCookie, NotModified, SaveFails, Saving, Busy
<1>2. /\ b \in Browsers /\ CurrentCopy(slot[s]) /\ slot[s].sid \in Ids \union {NoId}
      /\ \A t \in Slots \ {s} : Busy(t) => slot[t].browser # b
  BY <1>0, <1>1, BusyIsRequest DEF Busy, Request, AllHeld, OneAtATime
<1>3. slot' = [slot EXCEPT ![s] = Idle] /\ UNCHANGED <<now, attempts, store>>
  BY DEF DropCookie, NotModified, SaveFails, Done
<1>4. gone \subseteq gone'
  BY DEF history, RecordLost
<1>5. Older
  BY <1>3, <1>4, NumbersTyped DEF Older
<1>6. Untouched(b)
  BY <1>0 DEF DropCookie, NotModified, SaveFails, Untouched, TypeOK
<1>7. ASSUME NEW a \in 1..Len(attempts') \ gone', attempts'[a].owner = b, Fresh(a)'
      PROVE  InRow(b, a)'
  <2>1. a \in 1..Len(attempts) \ gone /\ attempts[a].owner = b /\ Fresh(a)
    BY <1>3, <1>5, <1>7 DEF Older, Fresh
  <2>2. a \in slot[s].pending
    BY <1>0, <1>1, <2>1, HeldByCopy
  <2>3. CASE DropCookie(s)
    BY <2>2, <2>3 DEF DropCookie, Empty
  <2>4. CASE NotModified(s)
    <3>1. InRow(b, a)
      BY <1>0, <1>2, <2>1, <2>2, <2>4 DEF NotModified, CurrentCopy
    <3>. QED BY <2>4, <3>1 DEF NotModified, InRow
  <2>5. CASE SaveFails(s) /\ RecordLost(s)
    <3>1. a \in Session(slot[s].sid).pending
      BY <1>7, <2>2, <2>5 DEF RecordLost
    <3>2. Live(slot[s].sid) /\ a \in store[slot[s].sid].pending
      BY <3>1 DEF Session, NoRow
    <3>3. InRow(b, a)
      BY <1>0, <1>2, <3>2, LiveIsId DEF CurrentCopy, InRow
    <3>. QED BY <2>5, <3>3 DEF SaveFails, InRow
  <2>. QED BY <2>3, <2>4, <2>5
<1>8. \A a \in 1..Len(attempts') : a \in 1..Len(attempts)
  BY <1>3
<1>. QED BY <1>0, <1>2, <1>3, <1>5, <1>6, <1>7, <1>8, StepKeepsHeld

LEMMA SaveKeepsHeld ==
  ASSUME TypeOK, TypeOK', Own, AllHeld, OneAtATime, NEW s \in Slots, Save(s), RecordUse(s)
  PROVE  AllHeld'
<1>. DEFINE id == SavedAs(s)
<1>0. PICK b : b = slot[s].browser
  OBVIOUS
<1>1. Busy(s) /\ id \in Ids /\ id # NoId
  BY DEF Save, Saving, Busy, Ids, NoId
<1>2. /\ b \in Browsers /\ Mine(b, id)
      /\ \A t \in Slots \ {s} : Busy(t) => slot[t].browser # b
  BY <1>0, <1>1, BusyIsRequest, SavedAsMine DEF Busy, Request, OneAtATime
<1>3. /\ slot' = [slot EXCEPT ![s] = Idle] /\ UNCHANGED <<now, attempts, gone>>
      /\ \A c \in Browsers : cookie'[c] = IF c = b THEN id ELSE cookie[c]
      /\ \A i \in Ids : i # id => store'[i] = store[i]
      /\ store'[id].pending = slot[s].pending
  BY <1>0, <1>1 DEF Save, Done, RecordUse, TypeOK
<1>4. Older
  BY <1>3, NumbersTyped DEF Older
<1>. HIDE DEF id
<1>5. Untouched(b)
  BY <1>1, <1>2, <1>3 DEF Untouched, Mine, TypeOK
<1>6. ASSUME NEW a \in 1..Len(attempts') \ gone', attempts'[a].owner = b, Fresh(a)'
      PROVE  InRow(b, a)'
  <2>1. a \in 1..Len(attempts) \ gone /\ attempts[a].owner = b /\ Fresh(a)
    BY <1>3, <1>6 DEF Fresh
  <2>2. a \in slot[s].pending
    BY <1>0, <1>1, <2>1, HeldByCopy
  <2>3. cookie'[b] = id /\ a \in store'[id].pending
    BY <1>2, <1>3, <2>2
  <2>. QED BY <1>1, <2>3 DEF InRow
<1>7. \A a \in 1..Len(attempts') : a \in 1..Len(attempts)
  BY <1>3
<1>. QED BY <1>0, <1>2, <1>3, <1>4, <1>5, <1>6, <1>7, StepKeepsHeld

\* An attempt that stays fresh keeps its row from the sweep.
LEMMA TimeKeepsHeld ==
  ASSUME TypeOK, Dated, AllHeld, PendingTtl <= SessionTtl, Tick \/ Sweep, UNCHANGED history
  PROVE  AllHeld'
<1>1. UNCHANGED <<slot, cookie, attempts, gone>>
  BY DEF Tick, Sweep, history
<1>2. now' = now \/ now' = now + 1
  BY DEF Tick, Sweep
<1>3. \A a \in 1..Len(attempts) : Fresh(a)' => Fresh(a)
  BY <1>1, <1>2, NumbersTyped, AttemptTyped DEF Fresh
<1>4. \A id \in Ids : store'[id] = store[id] \/ store[id].expires < now
  BY NumbersTyped DEF Tick, Sweep, ExpiredRow, TypeOK
<1>5. ASSUME NEW b \in Browsers, NEW a, InRow(b, a), Fresh(a)
      PROVE  InRow(b, a)'
  <2>1. cookie[b] \in Ids /\ a \in store[cookie[b]].pending
    BY <1>5 DEF InRow, TypeOK
  <2>2. store[cookie[b]].expires > now
    BY <1>5, <2>1, FreshRowLives
  <2>3. store'[cookie[b]] = store[cookie[b]]
    BY <1>4, <2>1, <2>2, NumbersTyped
  <2>. QED BY <1>1, <1>5, <2>3 DEF InRow
<1>6. ASSUME NEW t \in Slots, Busy(t)
      PROVE  CurrentCopy(slot[t])'
  <2>1. slot[t].browser \in Browsers /\ slot[t].pending \subseteq 1..Len(attempts)
        /\ CurrentCopy(slot[t])
    BY <1>6, BusyIsRequest DEF Request, AllHeld
  <2>2. PICK b \in Browsers : b = slot[t].browser
    BY <2>1
  <2>3. \A a \in slot[t].pending : ~slot[t].modified /\ Fresh(a)' => InRow(b, a)'
    BY <1>3, <1>5, <2>1, <2>2 DEF CurrentCopy
  <2>. QED BY <1>1, <2>1, <2>2, <2>3 DEF CurrentCopy, InRow
<1>7. ASSUME NEW a \in 1..Len(attempts) \ gone, Fresh(a)'
      PROVE  Held(a)'
  <2>1. Fresh(a) /\ Held(a) /\ attempts[a].owner \in Browsers
    BY <1>3, <1>7, AttemptTyped DEF AllHeld
  <2>2. PICK b \in Browsers : b = attempts[a].owner
    BY <2>1
  <2>3. InRow(b, a) => InRow(b, a)'
    BY <1>5, <2>1
  <2>. QED BY <1>1, <2>1, <2>2, <2>3 DEF Held, InRow, Waiting, Busy
<1>. QED BY <1>1, <1>6, <1>7 DEF AllHeld, Busy

LEMMA NextKeepsHeld ==
  ASSUME TypeOK, TypeOK', Own, Dated, AllHeld, OneAtATime, OneAtATime',
         PendingTtl <= SessionTtl, HistoryNext
  PROVE  AllHeld'
<1>1. CASE (Tick \/ Sweep) /\ UNCHANGED history
  BY <1>1, TimeKeepsHeld
<1>2. ASSUME NEW s \in Slots, NEW b \in Browsers, NEW rec, Arrived(s, b, rec), Recorded(s, b)
      PROVE  AllHeld'
  BY <1>2, ArrivalKeepsHeld
<1>3. ASSUME NEW s \in Slots, NEW rec, Handled(s, rec), UNCHANGED history
      PROVE  AllHeld'
  BY <1>3, AnswerKeepsHeld
<1>4. ASSUME NEW s \in Slots, NEW kept, NEW rec, Remembered(s, kept, rec), RecordDropped(s)
      PROVE  AllHeld'
  BY <1>4, RememberKeepsHeld
<1>5. ASSUME NEW s \in Slots,
             \/ (DropCookie(s) \/ NotModified(s)) /\ UNCHANGED history
             \/ SaveFails(s) /\ RecordLost(s)
      PROVE  AllHeld'
  BY <1>5, UnsavedKeepsHeld
<1>6. ASSUME NEW s \in Slots, Save(s), RecordUse(s)
      PROVE  AllHeld'
  BY <1>6, SaveKeepsHeld
<1>. QED BY <1>1, <1>2, <1>3, <1>4, <1>5, <1>6, HistoryKinds

LEMMA HeldIsKept ==
  ASSUME TypeOK, Dated, AllHeld, PendingTtl <= SessionTtl
  PROVE  AttemptsKept
<1>. SUFFICES ASSUME NEW a \in 1..Len(attempts) \ gone, NEW b, b = attempts[a].owner, Fresh(a),
                     \A s \in Slots : slot[s].pc # "idle" => slot[s].browser # b
              PROVE  Live(cookie[b]) /\ a \in store[cookie[b]].pending
  BY DEF AttemptsKept
<1>1. b \in Browsers
  BY AttemptTyped
<1>2. InRow(b, a)
  BY DEF AllHeld, Held, Busy
<1>3. cookie[b] \in Ids /\ a \in store[cookie[b]].pending
  BY <1>1, <1>2 DEF InRow, TypeOK
<1>. QED BY <1>3, FreshRowLives DEF Live

\* Rows are written after the attempts in them, for the session's whole time.
LEMMA DatedHolds == Spec => []Dated
<1>1. Init => Dated
  BY DEF Init, Dated, NoRow
<1>2. IInv /\ Dated /\ [Next]_vars => Dated'
  <2>. SUFFICES ASSUME TypeOK, Dated, [Next]_vars PROVE Dated'
    BY DEF IInv
  <2>1. CASE UNCHANGED vars
    BY <2>1 DEF vars, Dated
  <2>. QED BY <2>1, NextKeepsDated
<1>. QED BY <1>1, <1>2, Invariance, PTL DEF Spec

\* A sign-in in progress survives what the browser's other tabs do, in every
\* behaviour in which a browser sends one request at a time, if a session lasts
\* as long as an attempt (routes.rs:24-26, 230-271).
THEOREM AttemptsKeptHolds ==
  ASSUME PendingTtl <= SessionTtl
  PROVE  SerialSpec => []AttemptsKept
<1>1. HistoryInit => AllHeld
  BY DEF HistoryInit, Init, AllHeld, Busy, Idle
<1>2. /\ IInv /\ Own /\ OneAtATime /\ (IInv /\ Own /\ OneAtATime)' /\ Dated /\ AllHeld
      /\ [HistoryNext /\ OneAtATime']_<<vars, history>>
      => AllHeld'
  <2>. SUFFICES ASSUME IInv, Own, OneAtATime, IInv', OneAtATime', Dated, AllHeld,
                       [HistoryNext /\ OneAtATime']_<<vars, history>>
                PROVE  AllHeld'
    OBVIOUS
  <2>1. TypeOK /\ TypeOK'
    BY DEF IInv
  <2>2. CASE UNCHANGED <<vars, history>>
    BY <2>2 DEF vars, history, AllHeld, CurrentCopy, Held, Waiting, InRow, Fresh, Busy
  <2>. QED BY <2>1, <2>2, NextKeepsHeld
<1>3. SerialSpec => []Dated
  BY DatedHolds, SerialIsHistory, HistoryWatches, PTL
<1>4. IInv /\ Dated /\ AllHeld => AttemptsKept
  BY HeldIsKept DEF IInv
<1>. QED BY <1>1, <1>2, <1>3, <1>4, SerialInvariance, PTL DEF SerialSpec
=============================================================================
