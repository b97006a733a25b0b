---------------------------- MODULE MCMigrations ----------------------------
(* Two replicas of an application, one of its next version, and one of     *)
(* another application that shares the database.                           *)
EXTENDS Migrations

MCRuns == {"old", "twin", "new", "other"}
MCVersions == 1..4
MCEmbedded ==
  [r \in MCRuns |-> CASE r \in {"old", "twin"} -> {1, 2}
                      [] r = "new" -> {1, 2, 3}
                      [] r = "other" -> {4}]
MCLockKey == [r \in MCRuns |-> IF r = "other" THEN "own" ELSE "default"]
=============================================================================
