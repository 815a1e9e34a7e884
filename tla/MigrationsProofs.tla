-------------------------- MODULE MigrationsProofs --------------------------
(***************************************************************************)
(* Migrations, for any number of crashes.  Of the scripts the proofs use   *)
(* only that they are sequences of statements, none of them empty.         *)
(***************************************************************************)
EXTENDS Migrations, FiniteSetTheorems, TLAPS

LEMMA ScriptLengths ==
  /\ Len(Script) \in Nat
  /\ \A v \in Versions : Len(Script[v]) \in Nat \ {0}
<1>1. Len(Script) = 2
  BY DEF Script
<1>2. Len(Script[1]) = 2 /\ Len(Script[2]) = 4
  BY DEF Script
<1>3. \A v \in Versions : v = 1 \/ v = 2
  BY <1>1 DEF Versions
<1> QED
  BY <1>1, <1>2, <1>3

Running == {"scan", "script", "record", "commit"}

Types ==
  /\ shipped \in Versions
  /\ recorded \subseteq 1..shipped
  /\ applied \subseteq Versions
  /\ secrets \in BOOLEAN
  /\ at \in Running \cup {"down", "failed", "up"}
  /\ version \in 1..Len(Script) + 1

\* What the loop knows: all versions below the one it is at are recorded, and
\* besides those nothing is but what it found applied.
LoopKnows ==
  at \in Running =>
    /\ applied \subseteq recorded
    /\ \A v \in 1..version - 1 : v \in recorded \/ v > shipped
    /\ \A v \in recorded : v \in applied \/ v < version

\* What the current script has done so far.
ScriptDone ==
  /\ at = "script" =>
       /\ stmt \in 1..Len(Script[version])
       /\ \A j \in 1..stmt - 1 : Script[version][j] \in objects \cup {Empty}
  /\ at \in {"record", "commit"} => Creates(version) \subseteq objects
  /\ at \in {"script", "record", "commit"} => version <= shipped /\ version \notin recorded

SchemaInv == Types /\ LoopKnows /\ ScriptDone /\ SchemaComplete

LEMMA SchemaInit == Init => SchemaInv
<1> SUFFICES ASSUME Init PROVE SchemaInv
  OBVIOUS
<1>1. Types
  <2>1. shipped \in Versions /\ recorded = {} /\ applied = {} /\ secrets = FALSE
    BY DEF Init
  <2>2. at \in Running \cup {"down", "failed", "up"}
    BY DEF Init
  <2>3. version \in 1..Len(Script) + 1
    BY ScriptLengths DEF Init
  <2> QED
    BY <2>1, <2>2, <2>3 DEF Types
<1> QED
  BY <1>1 DEF Init, SchemaInv, LoopKnows, ScriptDone, SchemaComplete, Running

LEMMA SchemaNext == SchemaInv /\ [Next]_vars => SchemaInv'
<1> SUFFICES ASSUME SchemaInv, [Next]_vars PROVE SchemaInv'
  OBVIOUS
<1> USE ScriptLengths DEF Running
<1>0. /\ Types /\ LoopKnows /\ ScriptDone /\ SchemaComplete
      /\ shipped \in Nat /\ version \in Nat /\ shipped <= Len(Script)
  BY DEF SchemaInv, Types, Versions
<1>1. CASE UNCHANGED vars
  BY <1>1 DEF vars, SchemaInv, Types, LoopKnows, ScriptDone, SchemaComplete
<1>2. CASE ReadApplied
  BY <1>0, <1>2 DEF ReadApplied, SchemaInv, Types, LoopKnows, ScriptDone,
                    SchemaComplete, Versions
<1>3. CASE Scan
  <2>1. CASE version > shipped /\ at' = "up" /\ UNCHANGED <<version, stmt>>
    BY <1>0, <1>3, <2>1 DEF Scan, SchemaInv, Types, LoopKnows, ScriptDone, SchemaComplete
  <2>2. CASE version <= shipped /\ version \in applied /\ version' = version + 1
             /\ UNCHANGED <<at, stmt>>
    BY <1>0, <1>3, <2>2 DEF Scan, SchemaInv, Types, LoopKnows, ScriptDone,
                            SchemaComplete
  <2>3. CASE version <= shipped /\ version \notin applied /\ at' = "script"
             /\ stmt' = 1 /\ UNCHANGED version
    <3>1. version \in Versions /\ version \notin recorded
      BY <1>0, <1>3, <2>3 DEF Scan, LoopKnows, Versions, Types
    <3> QED
      BY <1>0, <1>3, <2>3, <3>1 DEF Scan, SchemaInv, Types, LoopKnows, ScriptDone,
                                    SchemaComplete
  <2> QED
    BY <1>3, <2>1, <2>2, <2>3 DEF Scan
<1>4. CASE Execute
  <2>1. /\ at = "script" /\ version \in Versions /\ Len(Script[version]) \in Nat
        /\ stmt \in 1..Len(Script[version])
    BY <1>0, <1>4 DEF Execute, ScriptDone, Versions, Types
  <2>2. objects \subseteq objects'
    BY <1>4 DEF Execute
  <2>3. Script[version][stmt] \in objects' \cup {Empty}
    BY <1>4 DEF Execute
  <2>4. \A j \in 1..stmt : Script[version][j] \in objects' \cup {Empty}
    BY <1>0, <2>1, <2>2, <2>3 DEF ScriptDone
  <2>5. stmt = Len(Script[version]) => Creates(version) \subseteq objects'
    BY <2>1, <2>4 DEF Creates
  <2>6. /\ stmt' = stmt + 1
        /\ at' = IF stmt = Len(Script[version]) THEN "record" ELSE "script"
        /\ UNCHANGED <<shipped, recorded, applied, version, crashes>>
        /\ secrets' \in BOOLEAN
    BY <1>0, <1>4 DEF Execute, Types
  <2>7. Types' /\ LoopKnows'
    BY <1>0, <2>1, <2>6 DEF Types, LoopKnows
  <2>8. ScriptDone'
    BY <1>0, <2>1, <2>4, <2>5, <2>6 DEF ScriptDone, Creates
  <2>9. SchemaComplete'
    BY <1>0, <2>1, <2>2, <2>6 DEF SchemaComplete, Creates
  <2> QED
    BY <2>7, <2>8, <2>9 DEF SchemaInv
<1>5. CASE ExecuteFails
  BY <1>0, <1>5 DEF ExecuteFails, SchemaInv, Types, LoopKnows, ScriptDone, SchemaComplete
<1>6. CASE Record
  BY <1>0, <1>6 DEF Record, SchemaInv, Types, LoopKnows, ScriptDone, SchemaComplete
<1>7. CASE CommitVersion
  BY <1>0, <1>7 DEF CommitVersion, SchemaInv, Types, LoopKnows, ScriptDone,
                    SchemaComplete
<1>8. CASE Retry
  BY <1>0, <1>8 DEF Retry, SchemaInv, Types, LoopKnows, ScriptDone, SchemaComplete
<1>9. CASE Crash
  BY <1>0, <1>9 DEF Crash, SchemaInv, Types, LoopKnows, ScriptDone, SchemaComplete
<1>10. CASE Serve
  BY <1>0, <1>10 DEF Serve, SchemaInv, Types, LoopKnows, ScriptDone, SchemaComplete
<1>11. CASE Upgrade
  BY <1>0, <1>11 DEF Upgrade, SchemaInv, Types, LoopKnows, ScriptDone,
                     SchemaComplete, Versions
<1> QED
  BY <1>1, <1>2, <1>3, <1>4, <1>5, <1>6, <1>7, <1>8, <1>9, <1>10, <1>11
  DEF Next, Migrate

LEMMA SchemaAlways == Spec => []SchemaInv
BY SchemaInit, SchemaNext, PTL DEF Spec

\* However often the process dies, what is recorded as applied is in the file
\* completely, and the application runs only on all shipped versions.
THEOREM SchemaIsComplete == Spec => []SchemaComplete
<1>1. SchemaInv => SchemaComplete
  BY DEF SchemaInv
<1> QED
  BY <1>1, SchemaAlways, PTL

LEMMA EmptiesOnlyUnrecorded ==
  SchemaInv /\ [Next]_vars =>
    (secrets /\ ~secrets' => Cardinality(recorded) < shipped)
<1> SUFFICES ASSUME SchemaInv, [Next]_vars, secrets, ~secrets'
             PROVE  Cardinality(recorded) < shipped
  OBVIOUS
<1>1. Execute
  BY DEF Next, Migrate, ReadApplied, Scan, Execute, ExecuteFails, Record,
         CommitVersion, Retry, Crash, Serve, Upgrade, vars
<1>2. /\ shipped \in Nat /\ version \in 1..shipped
      /\ version \notin recorded /\ recorded \subseteq 1..shipped
  BY <1>1, ScriptLengths DEF Execute, SchemaInv, ScriptDone, Types, Versions
<1>3. IsFiniteSet(1..shipped) /\ Cardinality(1..shipped) = shipped
  BY <1>2, FS_Interval
<1>4. recorded \subseteq 1..shipped /\ recorded # 1..shipped
  BY <1>2
<1>5. /\ IsFiniteSet(recorded)
      /\ Cardinality(recorded) <= shipped
      /\ Cardinality(recorded) # shipped
  BY <1>3, <1>4, FS_Subset
<1>6. Cardinality(recorded) \in Nat
  BY <1>5, FS_CardinalityType
<1> QED
  BY <1>2, <1>5, <1>6

\* No migration that is recorded empties the table again.
THEOREM MigrationsKeepSecrets == Spec => SecretsKept
<1>1. SchemaInv /\ [Next]_vars =>
        [secrets /\ ~secrets' => Cardinality(recorded) < shipped]_vars
  BY EmptiesOnlyUnrecorded
<1> QED
  BY <1>1, SchemaAlways, PTL DEF Spec, SecretsKept
----------------------------------------------------------------------------
(* Why a start fails only after a crash: what a script is still to create  *)
(* is not there, unless an earlier start died in it.                       *)

\* No two statements create the same, in one script or in two.
LEMMA ScriptApart ==
  \A u, v \in Versions : \A j \in 1..Len(Script[u]), k \in 1..Len(Script[v]) :
    Script[u][j] = Script[v][k] => u = v /\ j = k
<1>1. Len(Script) = 2 /\ Len(Script[1]) = 2 /\ Len(Script[2]) = 4
  BY DEF Script
<1>2. /\ Script[1][1] = "secrets" /\ Script[1][2] = "idx_secrets_expires_at"
      /\ Script[2][1] = "DELETE FROM secrets" /\ Script[2][2] = "verifier_hash"
      /\ Script[2][3] = "failed_attempts" /\ Script[2][4] = "locked_until"
  BY DEF Script, Empty
<1>3. \A v \in Versions : v = 1 \/ v = 2
  BY <1>1 DEF Versions
<1>4. \A j \in 1..2 : j = 1 \/ j = 2
  OBVIOUS
<1>5. \A j \in 1..4 : j = 1 \/ j = 2 \/ j = 3 \/ j = 4
  OBVIOUS
<1> QED
  BY <1>1, <1>2, <1>3, <1>4, <1>5

\* The rest of TypeOK.
Shapes ==
  /\ objects \subseteq AllObjects
  /\ stmt \in Nat
  /\ crashes \in Nat

\* Until the first crash.
Ahead ==
  crashes = 0 =>
    /\ at # "failed"
    /\ \A u \in Versions \ recorded :
         \/ u = version /\ at \in {"script", "record", "commit"}
         \/ Creates(u) \cap objects = {}
    /\ at = "script" =>
         \A j \in stmt..Len(Script[version]) : Script[version][j] \notin objects

FailInv == SchemaInv /\ Shapes /\ Ahead /\ FailsOnlyHalfway

LEMMA NoEmpty == Shapes => Empty \notin objects
BY DEF Shapes, AllObjects, Creates

LEMMA FailInit == Init => FailInv
<1> SUFFICES ASSUME Init PROVE FailInv
  OBVIOUS
<1>1. SchemaInv
  BY SchemaInit
<1>2. Shapes /\ Ahead /\ FailsOnlyHalfway
  BY DEF Init, Shapes, Ahead, FailsOnlyHalfway
<1> QED
  BY <1>1, <1>2 DEF FailInv

LEMMA FailNext == FailInv /\ [Next]_vars => FailInv'
<1> SUFFICES ASSUME FailInv, [Next]_vars PROVE FailInv'
  OBVIOUS
<1>0. /\ SchemaInv /\ Shapes /\ Ahead /\ FailsOnlyHalfway /\ SchemaInv'
      /\ Types /\ ScriptDone /\ Empty \notin objects
  BY SchemaNext, NoEmpty DEF FailInv, SchemaInv
<1>1. CASE UNCHANGED vars
  BY <1>0, <1>1 DEF vars, FailInv, Shapes, Ahead, FailsOnlyHalfway, Halfway
<1>2. CASE ReadApplied
  BY <1>0, <1>2 DEF ReadApplied, FailInv, Shapes, Ahead, FailsOnlyHalfway, Halfway
<1>3. CASE Scan
  <2>1. CASE at' = "script" /\ stmt' = 1 /\ version <= shipped
             /\ version \notin applied /\ UNCHANGED version
    <3>1. version \in Versions \ recorded
      BY <1>0, <1>3, <2>1, ScriptLengths
      DEF Scan, SchemaInv, ScriptDone, Types, Versions
    <3>2. crashes = 0 => Creates(version) \cap objects = {}
      BY <1>0, <1>3, <3>1 DEF Scan, Ahead
    <3>3. crashes = 0 =>
            \A j \in 1..Len(Script[version]) : Script[version][j] \notin objects
      BY <1>0, <3>1, <3>2 DEF Creates
    <3> QED
      BY <1>0, <1>3, <2>1, <3>1, <3>3 DEF Scan, FailInv, Shapes, Ahead, FailsOnlyHalfway
  <2>2. CASE at' # "script"
    BY <1>0, <1>3, <2>2 DEF Scan, FailInv, Shapes, Ahead, FailsOnlyHalfway
  <2> QED
    BY <1>3, <2>1, <2>2 DEF Scan
<1>4. CASE Execute
  <2>0. /\ at = "script" /\ version \in Versions /\ stmt \in 1..Len(Script[version])
        /\ Len(Script[version]) \in Nat
    BY <1>0, <1>4, ScriptLengths DEF Execute, ScriptDone, Types, Versions
  <2> DEFINE s == Script[version][stmt]
  <2>1. objects' = objects \cup ({s} \ {Empty})
    BY <1>4 DEF Execute
  <2>2. s \in Creates(version) \cup {Empty}
    BY <2>0 DEF Creates
  <2>3. Shapes'
    BY <1>0, <1>4, <2>0, <2>1, <2>2 DEF Execute, Shapes, AllObjects
  <2>4. ASSUME crashes = 0, NEW u \in Versions \ recorded, u # version
        PROVE  Creates(u) \cap objects' = {}
    <3>1. Creates(u) \cap objects = {}
      BY <1>0, <2>4 DEF Ahead
    <3>2. s \notin Creates(u)
      BY <2>0, <2>4, ScriptApart DEF Creates
    <3> QED
      BY <2>1, <3>1, <3>2
  <2>5. ASSUME crashes = 0, NEW j \in stmt + 1..Len(Script[version])
        PROVE  Script[version][j] \notin objects'
    <3>1. j \in stmt..Len(Script[version]) /\ j \in 1..Len(Script[version]) /\ j # stmt
      BY <2>0
    <3>2. Script[version][j] \notin objects /\ Script[version][j] # s
      BY <1>0, <2>0, <2>5, <3>1, ScriptApart DEF Ahead
    <3> QED
      BY <2>1, <3>2
  <2>6. /\ stmt' = stmt + 1 /\ at' \in {"script", "record"}
        /\ UNCHANGED <<shipped, recorded, applied, version, crashes>>
    BY <1>4 DEF Execute
  <2>7. Ahead'
    BY <2>4, <2>5, <2>6 DEF Ahead
  <2>8. FailsOnlyHalfway'
    BY <2>6 DEF FailsOnlyHalfway
  <2> QED
    BY <1>0, <2>3, <2>7, <2>8 DEF FailInv
<1>5. CASE ExecuteFails
  <2>1. /\ at = "script" /\ version \in Versions \ recorded
        /\ stmt \in 1..Len(Script[version]) /\ Script[version][stmt] \in objects
    BY <1>0, <1>5, ScriptLengths DEF ExecuteFails, ScriptDone, Types, Versions
  <2>2. crashes # 0
    BY <1>0, <2>1 DEF Ahead
  <2>3. Script[version][stmt] \in Creates(version) \cap objects
    BY <1>0, <2>1 DEF Creates
  <2>4. Halfway
    BY <1>0, <2>1, <2>2, <2>3 DEF Halfway, Shapes
  <2> QED
    BY <1>0, <1>5, <2>2, <2>4 DEF ExecuteFails, FailInv, Shapes, Ahead,
                                  FailsOnlyHalfway, Halfway
<1>6. CASE Record
  BY <1>0, <1>6 DEF Record, FailInv, Shapes, Ahead, FailsOnlyHalfway
<1>7. CASE CommitVersion
  BY <1>0, <1>7 DEF CommitVersion, FailInv, Shapes, Ahead, FailsOnlyHalfway
<1>8. CASE Retry
  BY <1>0, <1>8 DEF Retry, FailInv, Shapes, Ahead, FailsOnlyHalfway
<1>9. CASE Crash
  BY <1>0, <1>9 DEF Crash, FailInv, Shapes, Ahead, FailsOnlyHalfway
<1>10. CASE Serve
  BY <1>0, <1>10 DEF Serve, FailInv, Shapes, Ahead, FailsOnlyHalfway
<1>11. CASE Upgrade
  BY <1>0, <1>11 DEF Upgrade, FailInv, Shapes, Ahead, FailsOnlyHalfway
<1> QED
  BY <1>1, <1>2, <1>3, <1>4, <1>5, <1>6, <1>7, <1>8, <1>9, <1>10, <1>11
  DEF Next, Migrate

LEMMA FailAlways == Spec => []FailInv
BY FailInit, FailNext, PTL DEF Spec

\* Every variable of migrate() keeps its type, however often it is run.
THEOREM MigrationsTyped == Spec => []TypeOK
<1>1. FailInv => TypeOK
  BY ScriptLengths DEF FailInv, SchemaInv, Types, Shapes, TypeOK, Versions, Running
<1> QED
  BY <1>1, FailAlways, PTL

\* A start that fails comes after one that died between the statements of a
\* script or before its version was committed: a first start, and an upgrade of
\* a service that never crashed, cannot fail.
THEOREM FailureIsHalfway == Spec => []FailsOnlyHalfway
<1>1. FailInv => FailsOnlyHalfway
  BY DEF FailInv
<1> QED
  BY <1>1, FailAlways, PTL
=============================================================================
