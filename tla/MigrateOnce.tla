---------------------------- MODULE MigrateOnce ----------------------------
(***************************************************************************)
(* What MigrationsRunner::run promises the replicas that start at once: a  *)
(* run takes effect as a whole and in one step, whatever the others do,    *)
(* and tells how many migrations that step applied. Migrations, with its   *)
(* transactions and its lock, implements this.                             *)
(***************************************************************************)
EXTENDS FiniteSets

CONSTANTS
  Runs,        \* the calls of run against one database
  Embedded     \* Embedded[r]: the migrations compiled into the program of run r

VARIABLES
  applied,     \* the migrations in the database
  answer       \* answer[r]: what run r returned

vars == <<applied, answer>>

Running == [kind |-> "running", count |-> 0]
Failed == [kind |-> "failed", count |-> 0]
Lost == [kind |-> "lost", count |-> 0]
Ok(n) == [kind |-> "ok", count |-> n]

Init ==
  /\ applied = {}
  /\ answer = [r \in Runs |-> Running]

\* Everything that is missing is applied. A run that lost the database on the
\* way does not hear of it.
Migrate(r) ==
  /\ applied' = applied \union Embedded[r]
  /\ \/ /\ answer[r] = Running
        /\ answer' = [answer EXCEPT ![r] = Ok(Cardinality(Embedded[r] \ applied))]
     \/ /\ answer[r] = Lost
        /\ UNCHANGED answer

GiveUp(r) ==
  /\ answer[r] = Running
  /\ \E a \in {Failed, Lost} : answer' = [answer EXCEPT ![r] = a]
  /\ UNCHANGED applied

Next == \E r \in Runs : Migrate(r) \/ GiveUp(r)

Spec == Init /\ [][Next]_vars
=============================================================================
