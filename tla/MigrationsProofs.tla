-------------------------- MODULE MigrationsProofs --------------------------
(***************************************************************************)
(* Migrations runs every pending migration exactly once, for any number of *)
(* runs, applications and migrations. The invariant behind it: one run per *)
(* key is past the lock, and what it has to do and has done together with  *)
(* what is committed is all it embeds, with nothing in two places.         *)
(***************************************************************************)
EXTENDS Migrations, FiniteSetTheorems, TLAPS

PastLock(r) == txn[r] \in {"locked", "applying"}

OnePerKey ==
  \A r, o \in Runs : PastLock(r) /\ PastLock(o) /\ LockKey[r] = LockKey[o] => r = o

PendingExact ==
  \A r \in Runs :
    txn[r] = "applying" =>
      /\ Embedded[r] \subseteq todo[r] \union written[r] \union applied
      /\ todo[r] \union written[r] \subseteq Embedded[r]
      /\ (todo[r] \union written[r]) \intersect applied = {}

IInv == TypeOK /\ OnePerKey /\ PendingExact

-----------------------------------------------------------------------------
\* Migrations written by a run are finitely many, so that they can be counted.
LEMMA Countable ==
  ASSUME NEW S, S \subseteq Versions
  PROVE  Cardinality(S) \in Nat
BY VersionsFinite, FS_Subset, FS_CardinalityType

LEMMA InitIInv == Init => IInv
BY MigrationsAssumption DEF Init, IInv, TypeOK, OnePerKey, PendingExact, PastLock, Stages, Running

\* A run that has not reached the lock, or has left it, moves no migration.
LEMMA OutsideKeepsIInv ==
  ASSUME IInv, NEW r \in Runs,
         ConnectFails(r) \/ Begin(r) \/ AskForLock(r) \/ LoseSession(r)
  PROVE  IInv'
<1>. USE MigrationsAssumption DEF IInv
<1>1. CASE ConnectFails(r)
  BY <1>1 DEF ConnectFails, TypeOK, OnePerKey, PendingExact, PastLock, Stages, Failed
<1>2. CASE Begin(r)
  BY <1>2 DEF Begin, Moves, TypeOK, OnePerKey, PendingExact, PastLock, Stages
<1>3. CASE AskForLock(r)
  BY <1>3 DEF AskForLock, Moves, TypeOK, OnePerKey, PendingExact, PastLock, Stages
<1>4. CASE LoseSession(r)
  BY <1>4 DEF LoseSession, session, TypeOK, OnePerKey, PendingExact, PastLock, Stages, Lost
<1>. QED BY <1>1, <1>2, <1>3, <1>4

LEMMA TakeLockKeepsIInv ==
  ASSUME IInv, NEW r \in Runs, TakeLock(r)
  PROVE  IInv'
<1>. USE DEF IInv, TakeLock, Moves
<1>1. TypeOK'
  BY DEF TypeOK, Stages
<1>2. OnePerKey'
  BY DEF TypeOK, OnePerKey, PastLock, Unlocked
<1>3. PendingExact'
  BY DEF TypeOK, PendingExact
<1>. QED BY <1>1, <1>2, <1>3

LEMMA ListPendingKeepsIInv ==
  ASSUME IInv, NEW r \in Runs, ListPending(r)
  PROVE  IInv'
<1>. USE MigrationsAssumption DEF IInv, ListPending, Moves, Visible
<1>1. TypeOK'
  BY DEF TypeOK, Stages
<1>2. OnePerKey'
  BY DEF TypeOK, OnePerKey, PastLock
<1>3. PendingExact'
  BY DEF TypeOK, PendingExact
<1>. QED BY <1>1, <1>2, <1>3

LEMMA ApplyKeepsIInv ==
  ASSUME IInv, NEW r \in Runs, Apply(r)
  PROVE  IInv'
<1>. USE MigrationsAssumption DEF IInv, Apply, Committed
<1>1. TypeOK'
  BY DEF TypeOK, Stages
<1>2. OnePerKey'
  BY DEF TypeOK, OnePerKey, PastLock
<1>3. PendingExact'
  <2>1. applied' = applied
    OBVIOUS
  <2>2. PICK v \in todo[r] : /\ todo' = [todo EXCEPT ![r] = @ \ {v}]
                             /\ written' = [written EXCEPT ![r] = @ \union {v}]
    OBVIOUS
  <2>3. todo'[r] \union written'[r] = todo[r] \union written[r]
    BY <2>2 DEF TypeOK
  <2>4. \A o \in Runs \ {r} : todo'[o] = todo[o] /\ written'[o] = written[o]
    BY <2>2 DEF TypeOK
  <2>5. txn' = txn
    OBVIOUS
  <2>. QED BY <2>1, <2>3, <2>4, <2>5 DEF PendingExact
<1>. QED BY <1>1, <1>2, <1>3

LEMMA RollbackKeepsIInv ==
  ASSUME IInv, NEW r \in Runs, StatementFails(r) \/ SessionDropped(r)
  PROVE  IInv'
<1>. USE DEF IInv, StatementFails, SessionDropped, Rollback, Emptied
<1>1. TypeOK'
  <2>1. /\ applied' = applied /\ snapshot' = snapshot
        /\ txn' = [txn EXCEPT ![r] = "over"]
        /\ todo' = [todo EXCEPT ![r] = {}] /\ written' = [written EXCEPT ![r] = {}]
        /\ answer' = answer \/ answer' = [answer EXCEPT ![r] = Failed]
    OBVIOUS
  <2>. QED BY <2>1 DEF TypeOK, Stages, Failed
<1>2. OnePerKey'
  BY DEF TypeOK, OnePerKey, PastLock
<1>3. PendingExact'
  BY DEF TypeOK, PendingExact
<1>. QED BY <1>1, <1>2, <1>3

\* What a run has written when nothing is left to do is all that was missing.
LEMMA WrittenIsMissing ==
  ASSUME IInv, NEW r \in Runs, txn[r] = "applying", todo[r] = {}
  PROVE  written[r] = Embedded[r] \ applied
BY DEF IInv, PendingExact

\* The one step that changes what is committed: the runs of other applications
\* embed nothing of it, those of this one are not past the lock.
LEMMA CommitKeepsIInv ==
  ASSUME IInv, NEW r \in Runs, Commit(r)
  PROVE  IInv'
<1>. USE MigrationsAssumption DEF IInv, Commit, Moves, Emptied
<1>1. TypeOK'
  <2>1. Cardinality(written[r]) \in Nat
    BY Countable DEF TypeOK
  <2>. QED BY <2>1 DEF TypeOK, Stages, Ok
<1>2. OnePerKey'
  BY DEF TypeOK, OnePerKey, PastLock
<1>3. PendingExact'
  <2>. SUFFICES ASSUME NEW o \in Runs, txn'[o] = "applying"
                PROVE  /\ Embedded[o] \subseteq todo'[o] \union written'[o] \union applied'
                       /\ todo'[o] \union written'[o] \subseteq Embedded[o]
                       /\ (todo'[o] \union written'[o]) \intersect applied' = {}
    BY DEF PendingExact
  <2>1. o # r /\ txn[o] = "applying"
    BY DEF TypeOK
  <2>2. LockKey[o] # LockKey[r]
    BY <2>1 DEF OnePerKey, PastLock
  <2>3. Embedded[o] \intersect Embedded[r] = {}
    BY <2>2
  <2>4. todo'[o] = todo[o] /\ written'[o] = written[o]
    BY <2>1 DEF TypeOK
  <2>5. written[r] \subseteq Embedded[r]
    BY DEF PendingExact
  <2>. QED BY <2>1, <2>3, <2>4, <2>5 DEF PendingExact
<1>. QED BY <1>1, <1>2, <1>3

LEMMA NextKeepsIInv == IInv /\ [Next]_vars => IInv'
<1>. SUFFICES ASSUME IInv, [Next]_vars PROVE IInv'
  OBVIOUS
<1>1. ASSUME NEW r \in Runs,
             Step(r) \/ ConnectFails(r) \/ StatementFails(r) \/ LoseSession(r)
               \/ SessionDropped(r)
      PROVE  IInv'
  BY <1>1, OutsideKeepsIInv, TakeLockKeepsIInv, ListPendingKeepsIInv, ApplyKeepsIInv,
     RollbackKeepsIInv, CommitKeepsIInv DEF Step
<1>2. CASE UNCHANGED vars
  BY <1>2 DEF vars, session, IInv, TypeOK, OnePerKey, PendingExact, PastLock
<1>. QED BY <1>1, <1>2 DEF Next

\* The strengthened invariant holds throughout (migrations.rs:99-131).
THEOREM Invariance == Spec => []IInv
<1>1. Init => IInv
  BY InitIInv
<1>2. IInv /\ [Next]_vars => IInv'
  BY NextKeepsIInv
<1>. QED BY <1>1, <1>2, PTL DEF Spec

\* A run holds what it may hold at its stage (migrations.rs:99-131).
THEOREM TypeCorrect == Spec => []TypeOK
<1>1. IInv => TypeOK
  BY DEF IInv
<1>. QED BY <1>1, Invariance, PTL

\* No run sets out to apply what another has applied (migrations.rs:54-56).
THEOREM NeverAppliedTwiceHolds == Spec => []NeverAppliedTwice
<1>1. IInv => NeverAppliedTwice
  BY DEF IInv, TypeOK, PendingExact, NeverAppliedTwice
<1>. QED BY <1>1, Invariance, PTL

-----------------------------------------------------------------------------
LEMMA InitMapsToInit == Init => Once!Init
BY DEF Init, Once!Init, Running, Once!Running

\* Every step of a run is one of the abstract specification's, or none.
LEMMA StepMapsToStep ==
  ASSUME IInv, [Next]_vars
  PROVE  [Once!Next]_Once!vars
<1>. USE DEF Once!Next, Once!vars
<1>1. ASSUME NEW r \in Runs, ConnectFails(r) \/ StatementFails(r) \/ LoseSession(r)
      PROVE  Once!GiveUp(r)
  BY <1>1 DEF ConnectFails, StatementFails, Rollback, LoseSession, Once!GiveUp, Once!Running,
              Once!Failed, Once!Lost, Running, Failed, Lost
<1>2. ASSUME NEW r \in Runs, Commit(r)
      PROVE  Once!Migrate(r)
  <2>1. written[r] = Embedded[r] \ applied
    BY <1>2, WrittenIsMissing DEF Commit, Moves
  <2>2. applied' = applied \union Embedded[r]
    BY <1>2, <2>1 DEF Commit
  <2>3. CASE answer[r] = Lost
    BY <1>2, <2>2, <2>3 DEF Commit, Once!Migrate, Once!Lost, Lost
  <2>4. CASE answer[r] # Lost
    <3>1. Once!Cardinality(written[r]) = Cardinality(written[r])
      BY DEF Once!Cardinality, Cardinality
    <3>. QED BY <1>2, <2>1, <2>2, <2>4, <3>1 DEF Commit, Once!Migrate, Once!Running, Running, Once!Ok, Ok
  <2>. QED BY <2>3, <2>4
<1>3. ASSUME NEW r \in Runs,
             Begin(r) \/ AskForLock(r) \/ TakeLock(r) \/ ListPending(r) \/ Apply(r)
               \/ SessionDropped(r)
      PROVE  UNCHANGED <<applied, answer>>
  BY <1>3 DEF Begin, AskForLock, TakeLock, ListPending, Apply, Committed, SessionDropped, Rollback
<1>4. CASE UNCHANGED vars
  BY <1>4 DEF vars
<1>. QED BY <1>1, <1>2, <1>3, <1>4 DEF Next, Step

\* Runs that overlap, fail and die have the effect of runs that each happen at
\* once, and return what those would (migrations.rs:8-15, 51-63).
THEOREM MigratesOnceHolds == Spec => MigratesOnce
<1>1. Init => Once!Init
  BY InitMapsToInit
<1>2. IInv /\ [Next]_vars => [Once!Next]_Once!vars
  BY StepMapsToStep
<1>. QED BY <1>1, <1>2, Invariance, PTL DEF Spec, MigratesOnce, Once!Spec
=============================================================================
