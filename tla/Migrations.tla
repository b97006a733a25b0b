----------------------------- MODULE Migrations -----------------------------
(***************************************************************************)
(* MigrationsRunner::run of muxa-diesel, called by several replicas of one *)
(* or more applications that share a database. Each call is one session of *)
(* the database with one transaction in it: isolation level, advisory      *)
(* lock, the list of what is applied, one migration after the other,       *)
(* commit. A replica that starts again is another run.                     *)
(*                                                                         *)
(* The database is Postgres and the list and the migrations are diesel's   *)
(* harness: both are modelled from how run uses them. A version that       *)
(* another open transaction has written makes the writer wait (the primary *)
(* key of diesel's table), one that is committed makes it fail.            *)
(***************************************************************************)
EXTENDS Integers, FiniteSets

CONSTANTS
  Runs,        \* the calls of run against one database
  Versions,    \* the versions migrations may have, numbers
  Embedded,    \* Embedded[r]: the migrations compiled into the program of run r
  LockKey      \* LockKey[r]: its advisory-lock key

\* Applications that choose different keys keep separate migration sets
\* (migrations.rs:60-63).
ASSUME MigrationsAssumption ==
  /\ Versions \subseteq Int
  /\ Embedded \in [Runs -> SUBSET Versions]
  /\ \A r, o \in Runs : LockKey[r] # LockKey[o] => Embedded[r] \intersect Embedded[o] = {}

ASSUME VersionsFinite == IsFiniteSet(Versions)

VARIABLES
  applied,     \* the committed rows of diesel's table of applied versions
  txn,         \* txn[r]: where the transaction of run r is; see Stages
  snapshot,    \* snapshot[r]: what was committed when its first query began
  todo,        \* todo[r]: the migrations it has still to apply
  written,     \* written[r]: those it applied and has not committed
  answer       \* answer[r]: what run returned, as in MigrateOnce

session == <<txn, snapshot, todo, written>>
vars == <<applied, session, answer>>

Stages == {"none", "begun", "waiting", "locked", "applying", "over"}

Running == [kind |-> "running", count |-> 0]
Failed == [kind |-> "failed", count |-> 0]
Lost == [kind |-> "lost", count |-> 0]
Ok(n) == [kind |-> "ok", count |-> n]

Init ==
  /\ applied = {}
  /\ txn = [r \in Runs |-> "none"]
  /\ snapshot = [r \in Runs |-> {}]
  /\ todo = [r \in Runs |-> {}]
  /\ written = [r \in Runs |-> {}]
  /\ answer = [r \in Runs |-> Running]

Moves(r, from, to) ==
  /\ txn[r] = from
  /\ txn' = [txn EXCEPT ![r] = to]

\* Mutant: what a transaction has written outlives it.
Untouched(f, r) == f
Emptied(f, r) == [f EXCEPT ![r] = {}]

\* The transaction ends without a trace, and gives its lock back.
Rollback(r) ==
  /\ txn' = [txn EXCEPT ![r] = "over"]
  /\ todo' = Emptied(todo, r)
  /\ written' = Emptied(written, r)
  /\ UNCHANGED <<applied, snapshot>>

-----------------------------------------------------------------------------
(* run                                                                     *)

\* No connection, no transaction.
ConnectFails(r) ==
  /\ answer[r] = Running
  /\ txn[r] = "none"
  /\ txn' = [txn EXCEPT ![r] = "over"]
  /\ answer' = [answer EXCEPT ![r] = Failed]
  /\ UNCHANGED <<applied, snapshot, todo, written>>

\* Connected, BEGIN and SET TRANSACTION ISOLATION LEVEL.
Begin(r) ==
  /\ answer[r] = Running
  /\ Moves(r, "none", "begun")
  /\ UNCHANGED <<applied, snapshot, todo, written, answer>>

\* SELECT pg_advisory_xact_lock: the first query of the transaction.
AskForLock(r) ==
  /\ answer[r] = Running
  /\ Moves(r, "begun", "waiting")
  /\ snapshot' = [snapshot EXCEPT ![r] = applied]
  /\ UNCHANGED <<applied, todo, written, answer>>

\* Mutant: the lock is the session's, and outlives the transaction.
OutlivesTransaction(key) ==
  \A o \in Runs : LockKey[o] = key => txn[o] \notin {"locked", "applying", "over"}
Unlocked(key) == \A o \in Runs : LockKey[o] = key => txn[o] \notin {"locked", "applying"}

TakeLock(r) ==
  /\ Moves(r, "waiting", "locked")
  /\ Unlocked(LockKey[r])
  /\ UNCHANGED <<applied, snapshot, todo, written, answer>>

\* Mutant: under REPEATABLE READ every statement sees the first one's snapshot.
FirstSnapshot(r) == snapshot[r]
Visible(r) == applied

\* The harness asks which migrations are applied: the others are pending.
ListPending(r) ==
  /\ answer[r] = Running
  /\ Moves(r, "locked", "applying")
  /\ todo' = [todo EXCEPT ![r] = Embedded[r] \ Visible(r)]
  /\ UNCHANGED <<applied, snapshot, written, answer>>

\* Mutant: each migration is committed by itself.
AtOnce(v) == {v}
Committed(v) == {}

\* The pending migrations are applied in the order of their versions.
Apply(r) ==
  /\ answer[r] = Running
  /\ txn[r] = "applying"
  /\ \E v \in todo[r] :
       /\ \A w \in todo[r] : v <= w
       /\ v \notin applied
       /\ \A o \in Runs : v \notin written[o]
       /\ todo' = [todo EXCEPT ![r] = @ \ {v}]
       /\ written' = [written EXCEPT ![r] = @ \union {v}]
       /\ applied' = applied \union Committed(v)
  /\ UNCHANGED <<txn, snapshot, answer>>

\* A statement fails: a migration of itself or because its version is there
\* already, the wait for the lock, the COMMIT. The database rolls back.
StatementFails(r) ==
  /\ answer[r] = Running
  /\ txn[r] \in {"begun", "waiting", "locked", "applying"}
  /\ Rollback(r)
  /\ answer' = [answer EXCEPT ![r] = Failed]

\* Nothing is left to apply: COMMIT. Who loses the session while it waits for
\* the answer does not learn of it.
Commit(r) ==
  /\ answer[r] \in {Running, Lost}
  /\ Moves(r, "applying", "over")
  /\ todo[r] = {}
  /\ applied' = applied \union written[r]
  /\ written' = Emptied(written, r)
  /\ answer' = IF answer[r] = Lost THEN answer
               ELSE [answer EXCEPT ![r] = Ok(Cardinality(written[r]))]
  /\ UNCHANGED <<snapshot, todo>>

\* The replica's process dies, or its connection breaks and run returns an
\* error: the session is left to the database.
LoseSession(r) ==
  /\ answer[r] = Running
  /\ answer' = [answer EXCEPT ![r] = Lost]
  /\ UNCHANGED <<applied, session>>

\* The database finds the client gone.
SessionDropped(r) ==
  /\ answer[r] = Lost
  /\ txn[r] # "over"
  /\ Rollback(r)
  /\ UNCHANGED answer

-----------------------------------------------------------------------------
Step(r) ==
  Begin(r) \/ AskForLock(r) \/ TakeLock(r) \/ ListPending(r) \/ Apply(r) \/ Commit(r)

Next ==
  \E r \in Runs :
    Step(r) \/ ConnectFails(r) \/ StatementFails(r) \/ LoseSession(r) \/ SessionDropped(r)

Spec == Init /\ [][Next]_vars

\* A live run goes on, and the database notices a client that is gone. Nothing
\* has to fail: what ends a wait is the lock.
Fairness == \A r \in Runs : WF_vars(Step(r)) /\ WF_vars(SessionDropped(r))

FairSpec == Spec /\ Fairness

-----------------------------------------------------------------------------
(* Properties                                                              *)

\* A run holds what run may hold at its stage, and nothing before it listed
\* the pending migrations or after its transaction ended (migrations.rs:99-131).
TypeOK ==
  /\ applied \subseteq Versions
  /\ txn \in [Runs -> Stages]
  /\ snapshot \in [Runs -> SUBSET Versions]
  /\ todo \in [Runs -> SUBSET Versions]
  /\ written \in [Runs -> SUBSET Versions]
  /\ answer \in [Runs -> [kind : {"running", "failed", "lost", "ok"}, count : Nat]]
  /\ \A r \in Runs : txn[r] # "applying" => todo[r] = {} /\ written[r] = {}

\* "The other runners wait on the lock, then find nothing pending"
\* (migrations.rs:54-56): no run ever sets out to apply what another has
\* applied, which the database would answer with an error.
NeverAppliedTwice == \A r \in Runs : todo[r] \intersect applied = {}

\* "all pending migrations are applied inside one transaction: either every
\* pending migration applies or none do" (migrations.rs:8-12), and the count a
\* run returns is what that one step applied.
Once == INSTANCE MigrateOnce

MigratesOnce == Once!Spec

\* "The lock is released when the transaction commits or rolls back, including
\* when the process dies" (migrations.rs:56-58): whatever becomes of the
\* others, a run returns or its process dies.
EveryRunReturns == \A r \in Runs : <>(answer[r] # Running)
=============================================================================
