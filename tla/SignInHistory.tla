--------------------------- MODULE SignInHistory ---------------------------
(***************************************************************************)
(* SignIn with what has happened written down, to ask what the routes      *)
(* promise a visitor: of every behaviour (HistorySpec), and of those in    *)
(* which each browser waits for an answer before its next request          *)
(* (SerialSpec).                                                           *)
(***************************************************************************)
EXTENDS SignIn

VARIABLES
  uses,       \* uses[a]: the sign-ins completed with attempt a, counted to two
  signedOut,  \* ids whose sign-out was answered with success
  gone        \* attempts that ended: taken, dropped, signed out of or lost

history == <<uses, signedOut, gone>>

HistoryInit ==
  /\ Init
  /\ uses = [a \in 1..MaxAttempts |-> 0]
  /\ signedOut = {}
  /\ gone = {}

\* A callback may end one attempt, the one it names.
RecordTaken(s, b) ==
  LET lost == Session(cookie[b]).pending \ slot'[s].pending
  IN  /\ gone' = IF Cardinality(lost) = 1 THEN gone \union lost ELSE gone
      /\ UNCHANGED <<uses, signedOut>>

\* A start may drop attempts when the map is full. Those too old need no record.
RecordDropped(s) ==
  /\ gone' = IF Cardinality(slot[s].pending) >= MaxPending
             THEN gone \union (slot[s].pending \ slot'[s].pending) ELSE gone
  /\ UNCHANGED <<uses, signedOut>>

RecordSignOut(b) ==
  /\ signedOut' = signedOut \union (IF Live(cookie[b]) THEN {cookie[b]} ELSE {})
  /\ gone' = gone \union Session(cookie[b]).pending
  /\ UNCHANGED uses

\* A sign-in is complete when the session that holds its user is stored.
RecordUse(s) ==
  LET a == slot[s].attempt
  IN  /\ uses' = IF a # 0 /\ uses[a] < 2 THEN [uses EXCEPT ![a] = @ + 1] ELSE uses
      /\ UNCHANGED <<signedOut, gone>>

\* What was only in the copy is lost with it.
RecordLost(s) ==
  /\ gone' = gone \union (slot[s].pending \ Session(slot[s].sid).pending)
  /\ UNCHANGED <<uses, signedOut>>

HistoryNext ==
  \/ (Tick \/ Sweep) /\ UNCHANGED history
  \/ \E s \in Slots, b \in Browsers :
       \/ (ArrivePage(s, b) \/ ArriveStart(s, b)) /\ UNCHANGED history
       \/ ArriveCallback(s, b) /\ RecordTaken(s, b)
       \/ ArriveSignOut(s, b) /\ RecordSignOut(b)
  \/ \E s \in Slots :
       \/ Remember(s) /\ RecordDropped(s)
       \/ (RefuseCallback(s) \/ DropCookie(s) \/ NotModified(s)) /\ UNCHANGED history
       \/ Save(s) /\ RecordUse(s)
       \/ SaveFails(s) /\ RecordLost(s)
  \/ \E s \in Slots, u \in Users : Login(s, u) /\ UNCHANGED history

HistorySpec == HistoryInit /\ [][HistoryNext]_<<vars, history>>

\* No browser has two requests in progress.
OneAtATime ==
  \A s, t \in Slots :
    s # t /\ slot[s].pc # "idle" /\ slot[t].pc # "idle" => slot[s].browser # slot[t].browser

SerialSpec == HistoryInit /\ [][HistoryNext /\ OneAtATime']_<<vars, history>>

-----------------------------------------------------------------------------
(* Properties                                                              *)

\* "Single use: a replayed callback finds nothing" (routes.rs:252): no attempt
\* completes two sign-ins. True of a browser that sends one request at a time.
SingleUse == \A a \in 1..MaxAttempts : uses[a] < 2

\* A session signed out of stays gone (routes.rs:215-226). True of a browser
\* that sends one request at a time.
SignOutFinal == \A id \in signedOut : store[id] = NoRow

\* A sign-in in progress survives what the browser's other tabs start, finish
\* and fail, until it is used, dropped or too old (routes.rs:24-26, 230-271).
\* True of a browser that sends one request at a time, with sessions that
\* outlive the attempts.
AttemptsKept ==
  \A a \in 1..Len(attempts) \ gone :
    LET b == attempts[a].owner
    IN  Fresh(a) /\ (\A s \in Slots : slot[s].pc # "idle" => slot[s].browser # b)
          => Live(cookie[b]) /\ a \in store[cookie[b]].pending
=============================================================================
