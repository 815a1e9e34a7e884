----------------------------- MODULE Migrations -----------------------------
(***************************************************************************)
(* app/db.py migrate(), run by ExecStartPre (app/migrate.py) before every  *)
(* start of the service, on a process that may die between any two         *)
(* statements.                                                             *)
(*                                                                         *)
(* executescript() runs a script in autocommit mode: every statement is    *)
(* durable by itself.  The row that records the version is inserted and    *)
(* committed afterwards.  A script is what its statements create, in       *)
(* order; creating what exists is an error.  002 also empties the table.   *)
(***************************************************************************)
EXTENDS Integers, Sequences, FiniteSets

CONSTANTS
  MaxCrashes    \* bound: how often the process dies

ASSUME MaxCrashesAssumption == MaxCrashes \in Nat

VARIABLES
  shipped,   \* the scripts in migrations/ are 001 to this one
  objects,   \* tables, indexes and columns in the file
  recorded,  \* versions in schema_migrations
  secrets,   \* does the table hold secrets?
  at,        \* where migrate() is; "down" before it, "up" when the app runs
  applied,   \* its local applied
  version,   \* the script the loop is at
  stmt,      \* the next statement of that script
  crashes

vars == <<shipped, objects, recorded, secrets, at, applied, version, stmt,
          crashes>>

\* migrations/001_init.sql and 002_passphrase_gate.sql.
Empty  == "DELETE FROM secrets"
Script ==
  << <<"secrets", "idx_secrets_expires_at">>,
     <<Empty, "verifier_hash", "failed_attempts", "locked_until">> >>

Versions   == 1..Len(Script)
Creates(v) == {Script[v][i] : i \in 1..Len(Script[v])} \ {Empty}
AllObjects == UNION {Creates(v) : v \in Versions}
----------------------------------------------------------------------------
\* Mutant: what is below the last version counts as applied, < for <=.
ReadAllButLast ==
  /\ at = "down"
  /\ applied' = {v \in recorded : v + 1 \in recorded}
  /\ version' = 1
  /\ at' = "scan"
  /\ UNCHANGED <<shipped, objects, recorded, secrets, stmt, crashes>>

\* CREATE TABLE IF NOT EXISTS schema_migrations, then the SELECT.
ReadApplied ==
  /\ at = "down"
  /\ applied' = recorded
  /\ version' = 1
  /\ at' = "scan"
  /\ UNCHANGED <<shipped, objects, recorded, secrets, stmt, crashes>>

\* The loop over the sorted scripts: skip what is applied; at the end the
\* application starts.
Scan ==
  /\ at = "scan"
  /\ \/ /\ version > shipped
        /\ at' = "up"
        /\ UNCHANGED <<version, stmt>>
     \/ /\ version <= shipped /\ version \in applied
        /\ version' = version + 1
        /\ UNCHANGED <<at, stmt>>
     \/ /\ version <= shipped /\ version \notin applied
        /\ at' = "script"
        /\ stmt' = 1
        /\ UNCHANGED version
  /\ UNCHANGED <<shipped, objects, recorded, secrets, applied, crashes>>

\* One statement of executescript(), durable at once, or its error.
Execute ==
  LET s == Script[version][stmt] IN
  /\ at = "script"
  /\ \/ /\ s = Empty
        /\ secrets' = FALSE
        /\ UNCHANGED objects
     \/ /\ s \notin objects \cup {Empty}
        /\ objects' = objects \cup {s}
        /\ UNCHANGED secrets
  /\ stmt' = stmt + 1
  /\ at' = IF stmt = Len(Script[version]) THEN "record" ELSE "script"
  /\ UNCHANGED <<shipped, recorded, applied, version, crashes>>

\* Mutant: the script is skipped when its first statement fails.
ExecuteFailsQuietly ==
  /\ at = "script"
  /\ Script[version][stmt] \in objects
  /\ at' = "record"
  /\ UNCHANGED <<shipped, objects, recorded, secrets, applied, version, stmt,
                 crashes>>

ExecuteFails ==
  /\ at = "script"
  /\ Script[version][stmt] \in objects
  /\ at' = "failed"
  /\ UNCHANGED <<shipped, objects, recorded, secrets, applied, version, stmt,
                 crashes>>

\* INSERT INTO schema_migrations opens a transaction: nothing durable yet.
Record ==
  /\ at = "record"
  /\ at' = "commit"
  /\ UNCHANGED <<shipped, objects, recorded, secrets, applied, version, stmt,
                 crashes>>

\* Mutant: the scripts are numbered from 0.
CommitVersionBefore ==
  /\ at = "commit"
  /\ recorded' = recorded \cup {version - 1}
  /\ version' = version + 1
  /\ at' = "scan"
  /\ UNCHANGED <<shipped, objects, secrets, applied, stmt, crashes>>

\* Mutant: the commit is left out; whatever comes next, a restart forgets it.
CommitVersionForgotten ==
  /\ at = "commit"
  /\ version' = version + 1
  /\ at' = "scan"
  /\ UNCHANGED <<shipped, objects, recorded, secrets, applied, stmt, crashes>>

CommitVersion ==
  /\ at = "commit"
  /\ recorded' = recorded \cup {version}
  /\ version' = version + 1
  /\ at' = "scan"
  /\ UNCHANGED <<shipped, objects, secrets, applied, stmt, crashes>>

\* systemd tries again (Restart=on-failure).
Retry ==
  /\ at = "failed"
  /\ at' = "down"
  /\ UNCHANGED <<shipped, objects, recorded, secrets, applied, version, stmt,
                 crashes>>
----------------------------------------------------------------------------
(* The environment.                                                        *)

Crash ==
  /\ crashes < MaxCrashes
  /\ at # "down"
  /\ crashes' = crashes + 1
  /\ at' = "down"
  /\ UNCHANGED <<shipped, objects, recorded, secrets, applied, version, stmt>>

\* The application stores a secret.
Serve ==
  /\ at = "up"
  /\ secrets' = TRUE
  /\ UNCHANGED <<shipped, objects, recorded, at, applied, version, stmt, crashes>>

\* git pull and a restart bring the next script.
Upgrade ==
  /\ at = "up"
  /\ shipped < Len(Script)
  /\ shipped' = shipped + 1
  /\ at' = "down"
  /\ UNCHANGED <<objects, recorded, secrets, applied, version, stmt, crashes>>

Init ==
  /\ shipped \in Versions
  /\ objects = {}
  /\ recorded = {}
  /\ secrets = FALSE
  /\ at = "down"
  /\ applied = {}
  /\ version = 1
  /\ stmt = 1
  /\ crashes = 0

Migrate ==
  ReadApplied \/ Scan \/ Execute \/ ExecuteFails \/ Record \/ CommitVersion \/ Retry

Next == Migrate \/ Crash \/ Serve \/ Upgrade

Spec == Init /\ [][Next]_vars

\* The service manager and the process make progress; the rest need not.
FairSpec == Spec /\ WF_vars(Migrate)
----------------------------------------------------------------------------
(* Properties.                                                             *)

TypeOK ==
  /\ shipped \in Versions
  /\ objects \subseteq AllObjects
  /\ recorded \subseteq Versions
  /\ secrets \in BOOLEAN
  /\ at \in {"down", "scan", "script", "record", "commit", "failed", "up"}
  /\ applied \subseteq Versions
  /\ version \in 1..Len(Script) + 1
  /\ stmt \in Nat
  /\ crashes \in Nat

\* A version that is recorded is there completely, whatever died when, and
\* the application only runs on a schema that has all shipped versions.
SchemaComplete ==
  /\ \A v \in recorded : Creates(v) \subseteq objects
  /\ at = "up" => \A v \in 1..shipped : v \in recorded

\* An earlier migrate() died inside a script, or between a script and the commit
\* of its version.
Halfway == crashes > 0 /\ \E v \in Versions \ recorded : Creates(v) \cap objects # {}

\* migrate() fails only there.
FailsOnlyHalfway == at = "failed" => Halfway

\* Secrets are deleted by a migration only before it is recorded: no restart
\* of a migrated service empties the table.
SecretsKept ==
  [][secrets /\ ~secrets' => Cardinality(recorded) < shipped]_vars

\* README.md:146, "DB migrations run automatically in ExecStartPre on every
\* (re)start": the service comes up after every crash and upgrade, but where a
\* crash came between the statements of a script or before its version was
\* committed; from then on every start fails at what exists already.
ComesUp == []<>(at = "up") \/ <>[]Halfway
============================================================================
