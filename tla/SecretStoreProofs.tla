------------------------- MODULE SecretStoreProofs -------------------------
(***************************************************************************)
(* Theorems about SecretStore, for every number of threads, slugs, blobs   *)
(* and verifiers and every bound on time and failures.                     *)
(***************************************************************************)
EXTENDS SecretStore, TLAPS

USE MaxAttemptsAssumption, LockTimeAssumption, LifetimesAssumption,
    EndOfTimeAssumption, NullAssumption
  DEF MaxAttemptsAssumption, LockTimeAssumption, LifetimesAssumption,
      EndOfTimeAssumption, NullAssumption
----------------------------------------------------------------------------
(* Type correctness.  The types alone are not inductive: a handler that is  *)
(* about to insert, acknowledge, judge or burn a row must hold one.        *)

LocalsOK ==
  \A w \in Workers :
    /\ req[w].at # "idle" => req[w].slug \in Slugs
    /\ req[w].at \in {"insert", "create_commit", "gate", "burn_delete"}
         => req[w].row \in Row

TypeInv == TypeOK /\ LocalsOK

\* A step that answers the request of w or moves it on leaves req well typed.
LEMMA AnswerTypes ==
  ASSUME TypeInv, NEW w \in Workers, Answer(w)
  PROVE  req' \in [Workers -> Request] /\ LocalsOK'
BY DEF TypeInv, TypeOK, LocalsOK, Answer, Idle, Request, Points, Proofs,
       Writes, Commits

LEMMA GotoTypes ==
  ASSUME TypeInv, NEW w \in Workers, req[w].slug \in Slugs,
         NEW point \in Points, NEW row \in Row \cup {Null}, Goto(w, point, row),
         point \in {"insert", "create_commit", "gate", "burn_delete"} => row \in Row
  PROVE  req' \in [Workers -> Request] /\ LocalsOK'
<1>1. req \in [Workers -> Request]
  BY DEF TypeInv, TypeOK
<1>2. [req[w] EXCEPT !.at = point, !.row = row, !.decided = FALSE] \in Request
  BY <1>1 DEF Request
<1>3. req' \in [Workers -> Request]
  BY <1>1, <1>2 DEF Goto
<1>4. \A u \in Workers \ {w} : req'[u] = req[u]
  BY <1>1 DEF Goto
<1>5. req'[w].at = point /\ req'[w].row = row /\ req'[w].slug = req[w].slug
  BY <1>1 DEF Goto, Request
<1>6. LocalsOK'
  BY <1>4, <1>5 DEF TypeInv, LocalsOK
<1> QED BY <1>3, <1>6

LEMMA IdleType == Idle \in Request
BY DEF Idle, Request, Points, Proofs, Writes, Commits

LEMMA SweepTypes == \A point \in SweepPoints : At(point) \in Task
BY DEF At, Task

LEMMA InitTypes == Init => TypeInv
<1> SUFFICES ASSUME Init PROVE TypeInv
  OBVIOUS
<1>1. req \in [Workers -> Request] /\ LocalsOK
  BY IdleType DEF Init, LocalsOK, Idle
<1>2. sweep \in Task
  BY SweepTypes DEF Init, SweepPoints
<1> QED
  BY <1>1, <1>2 DEF Init, TypeInv, TypeOK, Table

\* What the updates of a row and of the table keep.
LEMMA RowTypes ==
  ASSUME TypeOK, NEW row \in Row
  PROVE  CountFailure(row) \in Row /\ LockRow(row) \in Row
<1>1. row.fails + 1 \in Nat /\ now + LockTime \in Nat
  BY DEF TypeOK, Row
<1>2. \A n \in Nat : [row EXCEPT !.fails = n] \in Row
  BY DEF Row
<1>3. \A n \in Nat : [row EXCEPT !.fails = 0, !.locked = n] \in Row
  BY DEF Row
<1> QED
  BY <1>1, <1>2, <1>3 DEF CountFailure, LockRow

LEMMA PurgedType == ASSUME db \in Table PROVE Purged(db) \in Table
BY DEF Purged, Table

LEMMA CommitTypes ==
  ASSUME TypeOK, NEW t, Commit(t) \/ CommitFails(t)
  PROVE  disk' \in Table /\ inTx' \in BOOLEAN
BY DEF TypeOK, Commit, CommitFails

LEMMA StepTypes ==
  ASSUME TypeInv, [Next]_vars
  PROVE  TypeInv'
<1> USE DEF TypeInv
<1>a. TypeOK /\ LocalsOK /\ req \in [Workers -> Request]
  BY DEF TypeOK
<1>p. ASSUME NEW w \in Workers
      PROVE  /\ req[w].row \in Row \cup {Null} /\ req[w].decided \in BOOLEAN
             /\ req[w].at \in {"insert", "create_commit", "gate", "burn_delete"}
                  => req[w].row \in Row
             /\ req[w].at # "idle" => req[w].slug \in Slugs
             /\ req[w].at # "idle" => db[req[w].slug] \in Row \cup {Null}
  BY <1>a DEF Request, LocalsOK, TypeOK, Table
<1>1. ASSUME NEW w \in Workers, PostSecret(w)
      PROVE  TypeInv'
  <2>1. PICK b \in Blobs, s \in Slugs, g \in Gates, t \in Lifetimes :
          /\ posted' = [posted EXCEPT ![b] =
                          [slug |-> s, gate |-> g, expires |-> now + t]]
          /\ req' = [req EXCEPT ![w] =
               [at |-> "insert", slug |-> s, proof |-> Null,
                row |-> [blob |-> b, gate |-> g, expires |-> now + t,
                         fails |-> 0, locked |-> 0],
                decided |-> FALSE]]
    BY <1>1 DEF PostSecret
  <2>2. now + t \in Nat
    BY DEF TypeOK
  <2>3. posted' \in [Blobs -> Posting \cup {Null}]
    BY <2>1, <2>2 DEF TypeOK, Posting
  <2>4. [blob |-> b, gate |-> g, expires |-> now + t, fails |-> 0,
         locked |-> 0] \in Row
    BY <2>2 DEF Row
  <2>5. req' \in [Workers -> Request] /\ LocalsOK'
    BY <1>a, <2>1, <2>4 DEF LocalsOK, Request, Points, Proofs, Writes, Commits
  <2> QED
    BY <1>1, <2>3, <2>5 DEF PostSecret, TypeOK, conn
<1>2. ASSUME NEW w \in Workers, SelectMeta(w)
      PROVE  TypeInv'
  <2>1. PICK s \in Slugs :
          req' = [req EXCEPT ![w] = [at |-> "meta_fetch", slug |-> s,
                    proof |-> Null, row |-> db[s], decided |-> FALSE]]
    BY <1>2 DEF SelectMeta, Idle
  <2>2. db[s] \in Row \cup {Null}
    BY DEF TypeOK, Table
  <2>3. req' \in [Workers -> Request] /\ LocalsOK'
    BY <1>a, <2>1, <2>2 DEF LocalsOK, Request, Points, Proofs
  <2> QED
    BY <1>2, <2>3 DEF SelectMeta, TypeOK, conn, history
<1>3. ASSUME NEW w \in Workers, SelectAuth(w)
      PROVE  TypeInv'
  <2>1. PICK s \in Slugs, p \in Proofs :
          req' = [req EXCEPT ![w] = [at |-> "auth_fetch", slug |-> s,
                    proof |-> p, row |-> db[s], decided |-> FALSE]]
    BY <1>3 DEF SelectAuth
  <2>2. db[s] \in Row \cup {Null}
    BY DEF TypeOK, Table
  <2>3. req' \in [Workers -> Request] /\ LocalsOK'
    BY <1>a, <2>1, <2>2 DEF LocalsOK, Request, Points
  <2> QED
    BY <1>3, <2>3 DEF SelectAuth, TypeOK, conn, history
<1>4. ASSUME NEW w \in Workers, Look(w)
      PROVE  TypeInv'
  <2>1. req' \in [Workers -> Request] /\ LocalsOK'
    BY <1>4, <1>a DEF Look, LocalsOK, Request
  <2> QED
    BY <1>4, <2>1 DEF Look, TypeOK, conn, history
<1>5. ASSUME NEW w \in Workers, Insert(w)
      PROVE  TypeInv'
  <2>1. req' \in [Workers -> Request] /\ LocalsOK'
    BY <1>5, <1>p, AnswerTypes, GotoTypes DEF Insert, Points, Writes, Commits
  <2>2. db' \in Table
    BY <1>5, <1>p DEF Insert, BeginFails, TypeOK, Table
  <2> QED
    BY <1>5, <2>1, <2>2 DEF Insert, Runs, BeginFails, TypeOK, history
<1>6. ASSUME NEW w \in Workers, CommitCreate(w)
      PROVE  TypeInv'
  <2>1. acked' \subseteq Blobs
    BY <1>6, <1>p DEF CommitCreate, Row, TypeOK
  <2> QED
    BY <1>6, <2>1, CommitTypes, AnswerTypes DEF CommitCreate, TypeOK
<1>7. ASSUME NEW w \in Workers, FetchMeta(w)
      PROVE  TypeInv'
  BY <1>7, AnswerTypes DEF FetchMeta, TypeOK, conn, history
<1>8. ASSUME NEW w \in Workers, FetchAuth(w)
      PROVE  TypeInv'
  <2>1. req' \in [Workers -> Request] /\ LocalsOK'
    BY <1>8, <1>p, AnswerTypes, GotoTypes DEF FetchAuth, Points
  <2> QED
    BY <1>8, <2>1 DEF FetchAuth, TypeOK, conn, history
<1>9. ASSUME NEW w \in Workers, Gate(w)
      PROVE  TypeInv'
  <2>1. req' \in [Workers -> Request] /\ LocalsOK'
    BY <1>9, <1>p, AnswerTypes, GotoTypes DEF Gate, Points, Writes
  <2> QED
    BY <1>9, <2>1 DEF Gate, TypeOK, conn, history
<1>10. ASSUME NEW w \in Workers, UpdateFailure(w)
       PROVE  TypeInv'
  <2>1. db[req[w].slug] # Null => CountFailure(db[req[w].slug]) \in Row
    BY <1>10, <1>p, RowTypes DEF UpdateFailure
  <2>2. req' \in [Workers -> Request] /\ LocalsOK'
    BY <1>10, <1>p, <2>1, AnswerTypes, GotoTypes DEF UpdateFailure, Points
  <2>3. db' \in Table
    BY <1>10, <1>p, <2>1 DEF UpdateFailure, BeginFails, TypeOK, Table
  <2> QED
    BY <1>10, <2>2, <2>3 DEF UpdateFailure, Runs, BeginFails, TypeOK, history
<1>11. ASSUME NEW w \in Workers, FetchFailure(w)
       PROVE  TypeInv'
  <2>1. req' \in [Workers -> Request] /\ LocalsOK'
    BY <1>11, <1>p, GotoTypes DEF FetchFailure, Points, Writes, Commits
  <2> QED
    BY <1>11, <2>1 DEF FetchFailure, TypeOK, conn, history
<1>12. ASSUME NEW w \in Workers, UpdateLock(w)
       PROVE  TypeInv'
  <2>1. req' \in [Workers -> Request] /\ LocalsOK'
    BY <1>12, <1>p, AnswerTypes, GotoTypes DEF UpdateLock, Points, Commits
  <2>2. db[req[w].slug] # Null => LockRow(db[req[w].slug]) \in Row
    BY <1>12, <1>p, RowTypes DEF UpdateLock
  <2>3. db' \in Table
    BY <1>12, <1>p, <2>2 DEF UpdateLock, BeginFails, TypeOK, Table
  <2> QED
    BY <1>12, <2>1, <2>3 DEF UpdateLock, Runs, BeginFails, TypeOK, history
<1>13. ASSUME NEW w \in Workers, CommitFailure(w)
       PROVE  TypeInv'
  BY <1>13, CommitTypes, AnswerTypes DEF CommitFailure, TypeOK, history
<1>14. ASSUME NEW w \in Workers, Burn(w)
       PROVE  TypeInv'
  <2>1. req' \in [Workers -> Request] /\ LocalsOK'
    BY <1>14, <1>p, AnswerTypes, GotoTypes DEF Burn, Points
  <2>2. db' \in Table /\ taken' \subseteq Blobs
    BY <1>14, <1>p DEF Burn, BeginFails, TypeOK, Table, Row
  <2> QED
    BY <1>14, <2>1, <2>2 DEF Burn, Runs, BeginFails, TypeOK
<1>15. ASSUME NEW w \in Workers, FetchBurned(w)
       PROVE  TypeInv'
  <2>1. req' \in [Workers -> Request] /\ LocalsOK'
    BY <1>15, <1>p, GotoTypes DEF FetchBurned, Points, Commits
  <2> QED
    BY <1>15, <2>1 DEF FetchBurned, TypeOK, conn, history
<1>16. ASSUME NEW w \in Workers, CommitBurn(w)
       PROVE  TypeInv'
  <2>1. req' \in [Workers -> Request] /\ LocalsOK'
    BY <1>16, <1>p, AnswerTypes, GotoTypes DEF CommitBurn, Points
  <2> QED
    BY <1>16, <2>1, CommitTypes DEF CommitBurn, TypeOK, history
<1>17. ASSUME NEW w \in Workers, Serve(w)
       PROVE  TypeInv'
  <2>1. served' \in [Blobs -> Nat]
    BY <1>17, <1>p DEF Serve, TypeOK, Row
  <2> QED
    BY <1>17, <2>1, AnswerTypes DEF Serve, TypeOK, conn
<1>18. CASE Sweeper
  <2>1. sweep' \in Task
    BY <1>18, <1>a, SweepTypes DEF Sweeper, LookSweep, Purge, CommitPurge,
       Checkpoint, Vacuum, Wake, SweepPoints, Task, TypeOK
  <2>2. req' = req /\ now' = now /\ UNCHANGED history
    BY <1>18 DEF Sweeper, LookSweep, Purge, CommitPurge, Checkpoint, Vacuum, Wake
  <2>3. db' \in Table /\ disk' \in Table /\ inTx' \in BOOLEAN
    BY <1>18, <1>a, PurgedType, CommitTypes DEF Sweeper, LookSweep, Purge, Runs,
       BeginFails, CommitPurge, Checkpoint, Vacuum, Wake, TypeOK, conn
  <2> QED
    BY <2>1, <2>2, <2>3 DEF TypeOK, LocalsOK, history
<1>19. CASE Tick
  BY <1>19 DEF Tick, TypeOK, LocalsOK, conn, history
<1>20. CASE Crash
  BY <1>20, IdleType, SweepTypes DEF Crash, TypeOK, LocalsOK, SweepPoints, Idle,
     history
<1>21. CASE UNCHANGED vars
  BY <1>21 DEF vars, TypeOK, LocalsOK
<1> QED
  BY <1>1, <1>2, <1>3, <1>4, <1>5, <1>6, <1>7, <1>8, <1>9, <1>10, <1>11, <1>12,
     <1>13, <1>14, <1>15, <1>16, <1>17, <1>18, <1>19, <1>20, <1>21
     DEF Next, Receive, Progress

\* Every reachable state has the types TypeOK states.
THEOREM TypeCorrect == Spec => []TypeOK
<1>1. Init => TypeInv
  BY InitTypes
<1>2. TypeInv /\ [Next]_vars => TypeInv'
  BY StepTypes
<1>3. TypeInv => TypeOK
  BY DEF TypeInv
<1> QED
  BY <1>1, <1>2, <1>3, PTL DEF Spec
----------------------------------------------------------------------------
(* Read once.                                                              *)

Inv == TypeInv /\ Custody /\ ReadOnce

LEMMA StoredIff ==
  ASSUME NEW table, NEW b
  PROVE  b \in Stored(table)
           <=> \E s \in Slugs : table[s] # Null /\ table[s].blob = b
BY DEF Stored

\* Removing rows, or changing all of a row but its blob, stores nothing new.
LEMMA ShrinkKeeps ==
  ASSUME NEW old, NEW new, BlobsApart(old),
         \A s \in Slugs : new[s] # Null =>
           old[s] # Null /\ new[s].blob = old[s].blob
  PROVE  BlobsApart(new) /\ Stored(new) \subseteq Stored(old)
BY StoredIff DEF BlobsApart

\* A step that answers nothing, stores nothing new and puts no blob into a
\* thread's hands keeps custody.
LEMMA CustodyFrame ==
  ASSUME Inv, UNCHANGED <<posted, served>>,
         ~inTx' => db' = disk',
         BlobsApart(db'), BlobsApart(disk'),
         Stored(db') \subseteq Stored(db),
         Stored(disk') \subseteq Stored(db) \cup Stored(disk),
         \A w \in Workers, b \in Blobs : Carries(w, b)' =>
           /\ Carries(w, b)
           /\ req'[w].at \in {"insert", "burn_check"} =>
                b \notin Stored(disk')
  PROVE  Custody' /\ ReadOnce'
BY DEF Inv, Custody, ReadOnce

\* commit(), done or refused, keeps custody when it puts no blob into a
\* thread's hands and lets no thread judge a blob before a commit is done.
LEMMA CommitFrame ==
  ASSUME Inv, NEW t, Commit(t) \/ CommitFails(t), UNCHANGED <<db, posted, served>>,
         \A w \in Workers, b \in Blobs : Carries(w, b)' =>
           /\ Carries(w, b)
           /\ \/ req'[w].at = req[w].at
              \/ req'[w].at = "burn_commit"
              \/ Commit(t)
  PROVE  Custody' /\ ReadOnce'
<1>1. /\ ~inTx => db = disk
      /\ BlobsApart(db)
      /\ BlobsApart(disk)
      /\ \A w \in Workers, b \in Blobs : Carries(w, b) =>
           /\ b \notin Stored(db)
           /\ req[w].at \in {"insert", "burn_check"} => b \notin Stored(disk)
  BY DEF Inv, Custody
<1>2. disk' = db \/ disk' = disk
  BY <1>1 DEF Commit, CommitFails
<1>3. ~inTx' => db' = disk'
  BY <1>1 DEF Commit, CommitFails
<1>4. Commit(t) => disk' = db
  BY <1>1 DEF Commit
<1>5. BlobsApart(db') /\ BlobsApart(disk')
  BY <1>1, <1>2
<1>6. /\ Stored(db') \subseteq Stored(db)
      /\ Stored(disk') \subseteq Stored(db) \cup Stored(disk)
  <2>1. db' = db
    OBVIOUS
  <2>2. Stored(db') = Stored(db)
    BY <2>1
  <2>3. Stored(disk') = Stored(db) \/ Stored(disk') = Stored(disk)
    BY <1>2
  <2> QED
    BY <2>2, <2>3
<1>7. ASSUME NEW w \in Workers, NEW b \in Blobs, Carries(w, b)'
      PROVE  /\ Carries(w, b)
             /\ req'[w].at \in {"insert", "burn_check"} => b \notin Stored(disk')
  <2>1. Carries(w, b) /\ b \notin Stored(db)
    BY <1>1, <1>7
  <2>2. CASE disk' = db
    BY <2>1, <2>2
  <2>3. CASE disk' # db
    <3>1. disk' = disk /\ ~Commit(t)
      BY <2>3, <1>2, <1>4
    <3>2. req'[w].at = req[w].at \/ req'[w].at = "burn_commit"
      BY <3>1, <1>7
    <3> QED
      BY <2>1, <3>1, <3>2, <1>1
  <2> QED
    BY <2>2, <2>3
<1> QED
  BY <1>3, <1>5, <1>6, <1>7, CustodyFrame

\* After an answer the thread carries nothing; a move to another point keeps
\* what it held.
LEMMA AnswerCarries ==
  ASSUME Inv, NEW w \in Workers, Answer(w), NEW u \in Workers, NEW b \in Blobs,
         Carries(u, b)'
  PROVE  u # w /\ Carries(u, b) /\ req'[u] = req[u]
BY DEF Inv, TypeInv, TypeOK, Answer, Idle, Carries, Holds

LEMMA GotoCarries ==
  ASSUME Inv, NEW w \in Workers, NEW point, NEW row, Goto(w, point, row),
         NEW u \in Workers, NEW b \in Blobs, Carries(u, b)'
  PROVE  \/ u # w /\ Carries(u, b) /\ req'[u] = req[u]
         \/ /\ u = w /\ req'[w].at = point
            /\ row # Null \/ point = "insert"
            /\ row.blob = b
            /\ point \in {"insert", "burn_fetch", "burn_commit", "burn_check"}
<1>1. req \in [Workers -> Request]
  BY DEF Inv, TypeInv, TypeOK
<1>2. u # w => req'[u] = req[u]
  BY <1>1 DEF Goto
<1>3. req'[w].at = point /\ req'[w].row = row
  BY <1>1 DEF Goto, Request
<1> QED
  BY <1>2, <1>3 DEF Carries, Holds

LEMMA StepCustody ==
  ASSUME Inv, [Next]_vars
  PROVE  Custody' /\ ReadOnce'
<1>a. /\ req \in [Workers -> Request] /\ db \in Table /\ disk \in Table
      /\ posted \in [Blobs -> Posting \cup {Null}] /\ served \in [Blobs -> Nat]
      /\ inTx \in BOOLEAN
  BY DEF Inv, TypeInv, TypeOK
<1>p. ASSUME NEW w \in Workers
      PROVE  /\ req[w].row \in Row \cup {Null}
             /\ req[w].at \in {"insert", "create_commit", "gate", "burn_delete"}
                  => req[w].row \in Row
             /\ req[w].at # "idle" => req[w].slug \in Slugs
  BY DEF Inv, TypeInv, TypeOK, LocalsOK, Request
<1>c. Custody /\ ReadOnce
  BY DEF Inv
<1>d. ~inTx => db = disk
  BY <1>c DEF Custody
<1>e. BlobsApart(db) /\ BlobsApart(disk)
  BY <1>c DEF Custody
<1>f. ASSUME NEW w \in Workers, NEW b \in Blobs, Carries(w, b)
      PROVE  /\ posted[b] # Null /\ served[b] = 0 /\ b \notin Stored(db)
             /\ req[w].at \in {"insert", "burn_check"} => b \notin Stored(disk)
             /\ \A u \in Workers : Carries(u, b) => u = w
  BY <1>c, <1>f DEF Custody
\* A step that leaves the connection alone and ends or moves one request.
<1>q. ASSUME UNCHANGED <<conn, posted, served>>,
             \A w \in Workers, b \in Blobs : Carries(w, b)' =>
               Carries(w, b) /\ (req'[w].at \in {"insert", "burn_check"} =>
                                   req[w].at \in {"insert", "burn_check"})
      PROVE  Custody' /\ ReadOnce'
  BY <1>q, <1>d, <1>e, <1>f, CustodyFrame DEF conn
<1>7. ASSUME NEW w \in Workers, FetchMeta(w)
      PROVE  Custody' /\ ReadOnce'
  BY <1>7, <1>q, AnswerCarries DEF FetchMeta, history
<1>8. ASSUME NEW w \in Workers, FetchAuth(w)
      PROVE  Custody' /\ ReadOnce'
  BY <1>8, <1>q, AnswerCarries, GotoCarries DEF FetchAuth, history
<1>9. ASSUME NEW w \in Workers, Gate(w)
      PROVE  Custody' /\ ReadOnce'
  BY <1>9, <1>q, AnswerCarries, GotoCarries DEF Gate, history
<1>11. ASSUME NEW w \in Workers, FetchFailure(w)
       PROVE  Custody' /\ ReadOnce'
  BY <1>11, <1>q, GotoCarries DEF FetchFailure, history
<1>15. ASSUME NEW w \in Workers, FetchBurned(w)
       PROVE  Custody' /\ ReadOnce'
  <2>1. ASSUME NEW b \in Blobs, Carries(w, b)'
        PROVE  Carries(w, b) /\ req'[w].at = "burn_commit"
    BY <1>15, <2>1, GotoCarries DEF FetchBurned, Carries, Holds
  <2> QED
    BY <1>15, <2>1, <1>q, GotoCarries DEF FetchBurned, history
<1>19. CASE Tick
  BY <1>19, <1>q DEF Tick, history, Carries, Holds
<1>21. CASE UNCHANGED vars
  BY <1>21, <1>q DEF vars, conn, Carries, Holds
<1>4. ASSUME NEW w \in Workers, Look(w)
      PROVE  Custody' /\ ReadOnce'
  <2>1. /\ req'[w].at = req[w].at /\ req'[w].row = req[w].row
        /\ \A u \in Workers : u # w => req'[u] = req[u]
    BY <1>4, <1>a DEF Look, Request
  <2>2. \A u \in Workers : req'[u].at = req[u].at /\ req'[u].row = req[u].row
    BY <2>1
  <2> QED
    BY <1>4, <2>2, <1>q DEF Look, history, Carries, Holds
<1>2. ASSUME NEW w \in Workers, SelectMeta(w)
      PROVE  Custody' /\ ReadOnce'
  <2>1. /\ req'[w].at = "meta_fetch"
        /\ \A u \in Workers : u # w => req'[u] = req[u]
    BY <1>2, <1>a DEF SelectMeta, Idle
  <2> QED
    BY <1>2, <2>1, <1>q DEF SelectMeta, history, Carries, Holds
<1>3. ASSUME NEW w \in Workers, SelectAuth(w)
      PROVE  Custody' /\ ReadOnce'
  <2>1. /\ req'[w].at = "auth_fetch"
        /\ \A u \in Workers : u # w => req'[u] = req[u]
    BY <1>3, <1>a DEF SelectAuth
  <2> QED
    BY <1>3, <2>1, <1>q DEF SelectAuth, history, Carries, Holds
<1>1. ASSUME NEW w \in Workers, PostSecret(w)
      PROVE  Custody' /\ ReadOnce'
  <2>1. PICK b \in Blobs, s \in Slugs, g \in Gates, t \in Lifetimes :
          /\ posted[b] = Null
          /\ posted' = [posted EXCEPT ![b] =
                          [slug |-> s, gate |-> g, expires |-> now + t]]
          /\ req' = [req EXCEPT ![w] =
               [at |-> "insert", slug |-> s, proof |-> Null,
                row |-> [blob |-> b, gate |-> g, expires |-> now + t,
                         fails |-> 0, locked |-> 0],
                decided |-> FALSE]]
    BY <1>1 DEF PostSecret
  <2>2. UNCHANGED <<db, disk, inTx, served>>
    BY <1>1 DEF PostSecret, conn
  <2>3. [slug |-> s, gate |-> g, expires |-> now + t] \in Posting
    BY <1>1 DEF Inv, TypeInv, TypeOK, Posting
  <2>4. posted'[b] # Null /\ \A c \in Blobs : c # b => posted'[c] = posted[c]
    BY <2>1, <2>3, <1>a
  <2>5. ASSUME NEW u \in Workers, NEW c \in Blobs, Carries(u, c)'
        PROVE  \/ u = w /\ c = b /\ req'[u].at = "insert"
               \/ u # w /\ c # b /\ Carries(u, c) /\ req'[u] = req[u]
    <3>1. CASE u = w
      BY <3>1, <2>1, <2>5, <1>a DEF Carries, Holds
    <3>2. CASE u # w
      <4>1. req'[u] = req[u]
        BY <3>2, <2>1, <1>a
      <4>2. Carries(u, c)
        BY <4>1, <2>5 DEF Carries, Holds
      <4> QED
        BY <3>2, <4>1, <4>2, <1>f, <2>1
    <3> QED
      BY <3>1, <3>2
  <2>6. b \notin Stored(db) \cup Stored(disk) /\ served[b] = 0
    BY <2>1, <1>c DEF Custody
  <2> QED
    BY <1>c, <2>2, <2>4, <2>5, <2>6 DEF Custody, ReadOnce
<1>5. ASSUME NEW w \in Workers, Insert(w)
      PROVE  Custody' /\ ReadOnce'
  <2> DEFINE b == req[w].row.blob
             s == req[w].slug
  <2>1. b \in Blobs /\ s \in Slugs /\ Carries(w, b)
    BY <1>5, <1>p DEF Insert, Carries, Row
  <2>2. UNCHANGED <<disk, posted, served>>
    BY <1>5 DEF Insert, history
  <2>3. CASE db' = db
    <3>1. inTx' = TRUE \/ inTx' = inTx
      BY <1>5 DEF Insert, Runs, BeginFails
    <3>2. ASSUME NEW u \in Workers, NEW c \in Blobs, Carries(u, c)'
          PROVE  Carries(u, c) /\ req'[u] = req[u]
      BY <1>5, <2>3, <3>2, <1>a, <1>p, AnswerCarries, GotoCarries DEF Insert
    <3> QED
      BY <2>2, <2>3, <3>1, <3>2, <1>d, <1>e, <1>f, CustodyFrame
  <2>4. CASE /\ db[s] = Null /\ db' = [db EXCEPT ![s] = req[w].row]
             /\ Goto(w, "create_commit", req[w].row) /\ inTx'
    <3>1. ASSUME NEW c, c \in Stored(db')
          PROVE  c \in Stored(db) \/ c = b
      <4>1. PICK t \in Slugs : db'[t] # Null /\ db'[t].blob = c
        BY <3>1, StoredIff
      <4>2. t = s => c = b
        BY <4>1, <2>4, <2>1, <1>a DEF Table
      <4>3. t # s => c \in Stored(db)
        BY <4>1, <2>4, <2>1, <1>a, StoredIff DEF Table
      <4> QED
        BY <4>2, <4>3
    <3>2. b \notin Stored(db) /\ b \notin Stored(disk) /\ served[b] = 0
          /\ posted[b] # Null
      BY <1>5, <2>1, <1>f DEF Insert
    <3>3. \A t \in Slugs : db[t] # Null => db[t].blob # b
      BY <3>2, StoredIff
    <3>4. BlobsApart(db')
      BY <2>4, <2>1, <3>3, <1>e, <1>a DEF BlobsApart, Table
    <3>5. ASSUME NEW u \in Workers, NEW c \in Blobs, Carries(u, c)'
          PROVE  u # w /\ Carries(u, c) /\ req'[u] = req[u] /\ c # b
      BY <2>4, <3>5, <2>1, <1>f, GotoCarries
    <3> QED
      <4>1. /\ inTx' /\ UNCHANGED <<posted, served>>
            /\ BlobsApart(disk') /\ Stored(disk') = Stored(disk)
        BY <2>2, <2>4, <1>e
      <4>2. ASSUME NEW c \in Blobs, served[c] > 0 \/ posted[c] = Null
            PROVE  c \notin Stored(db') \cup Stored(disk')
        <5>1. c \notin Stored(db) \cup Stored(disk)
          BY <4>2, <1>c DEF Custody
        <5>2. c # b
          BY <4>2, <3>2
        <5> QED
          BY <5>1, <5>2, <3>1, <4>1
      <4>3. ASSUME NEW u \in Workers, NEW c \in Blobs, Carries(u, c)'
            PROVE  /\ posted[c] # Null /\ served[c] = 0
                   /\ c \notin Stored(db')
                   /\ req'[u].at \in {"insert", "burn_check"}
                        => c \notin Stored(disk')
                   /\ \A v \in Workers : Carries(v, c)' => v = u
        BY <4>3, <3>1, <3>5, <1>f, <4>1
      <4> QED
        BY <4>1, <4>2, <4>3, <3>4, <1>c DEF Custody, ReadOnce
  <2> QED
    BY <1>5, <2>3, <2>4 DEF Insert, Runs, BeginFails
<1>6. ASSUME NEW w \in Workers, CommitCreate(w)
      PROVE  Custody' /\ ReadOnce'
  <2>1. /\ UNCHANGED <<db, posted, served>>
        /\ Commit(req[w]) \/ CommitFails(req[w])
    BY <1>6 DEF CommitCreate
  <2>2. ASSUME NEW u \in Workers, NEW b \in Blobs, Carries(u, b)'
        PROVE  Carries(u, b) /\ req'[u].at = req[u].at
    BY <1>6, <2>2, AnswerCarries DEF CommitCreate
  <2> QED
    BY <2>1, <2>2, CommitFrame
<1>13. ASSUME NEW w \in Workers, CommitFailure(w)
       PROVE  Custody' /\ ReadOnce'
  <2>1. /\ UNCHANGED <<db, posted, served>>
        /\ Commit(req[w]) \/ CommitFails(req[w])
    BY <1>13 DEF CommitFailure, history
  <2>2. ASSUME NEW u \in Workers, NEW b \in Blobs, Carries(u, b)'
        PROVE  Carries(u, b) /\ req'[u].at = req[u].at
    BY <1>13, <2>2, AnswerCarries DEF CommitFailure
  <2> QED
    BY <2>1, <2>2, CommitFrame
<1>10. ASSUME NEW w \in Workers, UpdateFailure(w)
       PROVE  Custody' /\ ReadOnce'
  <2>1. UNCHANGED <<disk, posted, served>>
    BY <1>10 DEF UpdateFailure, history
  <2>2. inTx' = TRUE \/ (inTx' = inTx /\ db' = db)
    BY <1>10 DEF UpdateFailure, Runs, BeginFails
  <2>3. \A s \in Slugs : db'[s] # Null => db[s] # Null /\ db'[s].blob = db[s].blob
    BY <1>10, <1>p, <1>a DEF UpdateFailure, BeginFails, CountFailure, Table, Row
  <2>4. BlobsApart(db') /\ Stored(db') \subseteq Stored(db)
    BY <2>3, <1>e, ShrinkKeeps
  <2>5. ASSUME NEW u \in Workers, NEW c \in Blobs, Carries(u, c)'
        PROVE  Carries(u, c) /\ req'[u] = req[u]
    BY <1>10, <2>5, AnswerCarries, GotoCarries DEF UpdateFailure
  <2> QED
    BY <2>1, <2>2, <2>4, <2>5, <1>d, <1>e, <1>f, CustodyFrame
<1>12. ASSUME NEW w \in Workers, UpdateLock(w)
       PROVE  Custody' /\ ReadOnce'
  <2>1. UNCHANGED <<disk, posted, served>>
    BY <1>12 DEF UpdateLock, history
  <2>2. inTx' = TRUE \/ (inTx' = inTx /\ db' = db)
    BY <1>12 DEF UpdateLock, Runs, BeginFails
  <2>3. \A s \in Slugs : db'[s] # Null => db[s] # Null /\ db'[s].blob = db[s].blob
    <3>1. \A row \in Row : LockRow(row).blob = row.blob
      BY DEF LockRow, Row
    <3> QED
      BY <1>12, <1>p, <1>a, <3>1 DEF UpdateLock, BeginFails, Table
  <2>4. BlobsApart(db') /\ Stored(db') \subseteq Stored(db)
    BY <2>3, <1>e, ShrinkKeeps
  <2>5. ASSUME NEW u \in Workers, NEW c \in Blobs, Carries(u, c)'
        PROVE  Carries(u, c) /\ req'[u] = req[u]
    BY <1>12, <2>5, AnswerCarries, GotoCarries DEF UpdateLock
  <2> QED
    BY <2>1, <2>2, <2>4, <2>5, <1>d, <1>e, <1>f, CustodyFrame
<1>14. ASSUME NEW w \in Workers, Burn(w)
       PROVE  Custody' /\ ReadOnce'
  <2> DEFINE s == req[w].slug
  <2>1. s \in Slugs /\ UNCHANGED <<disk, posted, served>>
    BY <1>14, <1>p DEF Burn
  <2>2. CASE db' = db /\ inTx' = inTx /\ Answer(w)
    BY <2>1, <2>2, <1>d, <1>e, <1>f, CustodyFrame, AnswerCarries
  <2>3. CASE /\ db' = [db EXCEPT ![s] = Null] /\ inTx'
             /\ Goto(w, "burn_fetch", db[s])
    <3>1. \A t \in Slugs : db'[t] # Null => db[t] # Null /\ db'[t] = db[t] /\ t # s
      BY <2>1, <2>3, <1>a DEF Table
    <3>2. BlobsApart(db') /\ Stored(db') \subseteq Stored(db)
      BY <3>1, <1>e, ShrinkKeeps
    <3>3. db[s] # Null =>
            db[s].blob \in Stored(db) /\ db[s].blob \notin Stored(db')
      BY <2>1, <3>1, <1>e, StoredIff DEF BlobsApart
    <3>4. ASSUME NEW u \in Workers, NEW c \in Blobs, Carries(u, c)'
          PROVE  \/ u # w /\ Carries(u, c) /\ req'[u] = req[u]
                    /\ c \notin Stored(db)
                 \/ u = w /\ req'[u].at = "burn_fetch" /\ db[s] # Null
                    /\ c = db[s].blob
      BY <2>3, <3>4, <1>f, GotoCarries
    <3>5. db[s] # Null => \A c \in Blobs : c = db[s].blob =>
            posted[c] # Null /\ served[c] = 0
      BY <3>3, <1>c, <1>a DEF Custody
    <3> QED
      <4>1. /\ inTx' /\ UNCHANGED <<posted, served>>
            /\ BlobsApart(disk') /\ Stored(disk') = Stored(disk)
        BY <2>1, <2>3, <1>e
      <4>2. ASSUME NEW c \in Blobs, served[c] > 0 \/ posted[c] = Null
            PROVE  c \notin Stored(db') \cup Stored(disk')
        BY <4>2, <4>1, <3>2, <1>c DEF Custody
      <4>3. ASSUME NEW u \in Workers, NEW c \in Blobs, Carries(u, c)'
            PROVE  /\ posted[c] # Null /\ served[c] = 0
                   /\ c \notin Stored(db')
                   /\ req'[u].at \in {"insert", "burn_check"}
                        => c \notin Stored(disk')
                   /\ \A v \in Workers : Carries(v, c)' => v = u
        <5>1. CASE u # w
          BY <5>1, <4>3, <3>2, <3>3, <3>4, <1>f, <4>1
        <5>2. CASE u = w
          BY <5>2, <4>3, <3>3, <3>4, <3>5
        <5> QED
          BY <5>1, <5>2
      <4> QED
        BY <4>1, <4>2, <4>3, <3>2, <1>c DEF Custody, ReadOnce
  <2> QED
    BY <1>14, <2>2, <2>3 DEF Burn, Runs, BeginFails
<1>16. ASSUME NEW w \in Workers, CommitBurn(w)
       PROVE  Custody' /\ ReadOnce'
  <2>1. /\ UNCHANGED <<db, posted, served>>
        /\ Commit(req[w]) \/ CommitFails(req[w])
    BY <1>16 DEF CommitBurn, history
  <2>2. ASSUME NEW u \in Workers, NEW b \in Blobs, Carries(u, b)'
        PROVE  Carries(u, b) /\ (req'[u].at = req[u].at \/ Commit(req[w]))
    <3>1. CASE CommitFails(req[w]) /\ Answer(w)
      BY <2>2, <3>1, AnswerCarries
    <3>2. CASE Commit(req[w]) /\ Goto(w, "burn_check", req[w].row)
      BY <1>16, <2>2, <3>2, GotoCarries DEF CommitBurn, Carries, Holds
    <3> QED
      BY <1>16, <3>1, <3>2 DEF CommitBurn
  <2> QED
    BY <2>1, <2>2, CommitFrame
<1>17. ASSUME NEW w \in Workers, Serve(w)
       PROVE  Custody' /\ ReadOnce'
  <2>1. Answer(w) /\ UNCHANGED <<db, disk, inTx, posted>>
    BY <1>17 DEF Serve, conn
  <2>2. CASE served' = served
    BY <2>1, <2>2, <1>q, AnswerCarries DEF conn
  <2>3. CASE /\ req[w].row # Null
             /\ served' = [served EXCEPT ![req[w].row.blob] = @ + 1]
    <3> DEFINE b == req[w].row.blob
    <3>1. b \in Blobs /\ Carries(w, b) /\ req[w].at = "burn_check"
      BY <1>17, <2>3, <1>p DEF Serve, Carries, Holds, Row
    <3>2. /\ posted[b] # Null /\ served[b] = 0
          /\ b \notin Stored(db) /\ b \notin Stored(disk)
      BY <3>1, <1>f
    <3>3. served'[b] = 1 /\ \A c \in Blobs : c # b => served'[c] = served[c]
      BY <2>3, <3>1, <3>2, <1>a
    <3>4. ASSUME NEW u \in Workers, NEW c \in Blobs, Carries(u, c)'
          PROVE  u # w /\ Carries(u, c) /\ req'[u] = req[u] /\ c # b
      BY <2>1, <3>1, <3>4, <1>f, AnswerCarries
    <3> QED
      BY <1>c, <2>1, <3>2, <3>3, <3>4 DEF Custody, ReadOnce
  <2> QED
    BY <1>17, <2>2, <2>3 DEF Serve
<1>18. CASE Sweeper
  <2>1. UNCHANGED <<req, posted, served>>
    BY <1>18 DEF Sweeper, LookSweep, Purge, CommitPurge, Checkpoint, Vacuum, Wake,
       history
  <2>2. \A w \in Workers, b \in Blobs : Carries(w, b)' => Carries(w, b)
    BY <2>1 DEF Carries, Holds
  <2>3. CASE UNCHANGED conn
    BY <2>1, <2>2, <2>3, <1>q
  <2>4. CASE CommitPurge
    <3>1. db' = db /\ (Commit(sweep) \/ CommitFails(sweep))
      BY <2>4 DEF CommitPurge
    <3>2. \A w \in Workers : req'[w].at = req[w].at
      BY <2>1
    <3> QED
      BY <2>1, <2>2, <3>1, <3>2, CommitFrame
  <2>5. CASE Purge
    <3>1. disk' = disk /\ (inTx' = TRUE \/ (inTx' = inTx /\ db' = db))
      BY <2>5 DEF Purge, Runs, BeginFails
    <3>2. \A s \in Slugs : db'[s] # Null => db[s] # Null /\ db'[s].blob = db[s].blob
      BY <2>5 DEF Purge, BeginFails, Purged
    <3>3. BlobsApart(db') /\ Stored(db') \subseteq Stored(db)
      BY <3>2, <1>e, ShrinkKeeps
    <3> QED
      BY <2>1, <2>2, <3>1, <3>3, <1>d, <1>e, <1>f, CustodyFrame
  <2> QED
    BY <1>18, <2>3, <2>4, <2>5 DEF Sweeper, LookSweep, Checkpoint, Vacuum, Wake
<1>20. CASE Crash
  <2>1. /\ db' = disk /\ disk' = disk /\ UNCHANGED <<posted, served>>
        /\ \A w \in Workers, b \in Blobs : ~Carries(w, b)'
    BY <1>20 DEF Crash, history, Carries, Holds, Idle
  <2> QED
    BY <2>1, <1>c DEF Custody, ReadOnce
<1> QED
  BY <1>1, <1>2, <1>3, <1>4, <1>5, <1>6, <1>7, <1>8, <1>9, <1>10, <1>11, <1>12,
     <1>13, <1>14, <1>15, <1>16, <1>17, <1>18, <1>19, <1>20, <1>21
     DEF Next, Receive, Progress

LEMMA InitCustody == Init => Custody /\ ReadOnce
<1> SUFFICES ASSUME Init PROVE Custody /\ ReadOnce
  OBVIOUS
<1>1. Stored(db) = {} /\ Stored(disk) = {} /\ BlobsApart(db) /\ BlobsApart(disk)
  BY DEF Init, Stored, BlobsApart
<1>2. \A w \in Workers, b \in Blobs : ~Carries(w, b)
  BY DEF Init, Idle, Carries, Holds
<1>3. db = disk /\ \A b \in Blobs : served[b] = 0
  BY DEF Init
<1> QED
  BY <1>1, <1>2, <1>3 DEF Custody, ReadOnce

LEMMA Invariance == Spec => []Inv
<1>1. Init => Inv
  BY InitTypes, InitCustody DEF Inv
<1>2. Inv /\ [Next]_vars => Inv'
  BY StepTypes, StepCustody DEF Inv
<1> QED
  BY <1>1, <1>2, PTL DEF Spec

\* The inductive invariant that the run ReadOnceCrash checks.
THEOREM CustodyKept == Spec => []Custody
<1>1. Inv => Custody
  BY DEF Inv
<1> QED
  BY <1>1, Invariance, PTL

\* No blob leaves the server twice, whatever the threads, the sweeper and
\* restarts do.
THEOREM ReadAtMostOnce == Spec => []ReadOnce
<1>1. Inv => ReadOnce
  BY DEF Inv
<1> QED
  BY <1>1, Invariance, PTL

\* Once handed out, a blob is in no table and in no thread's hands.
THEOREM NothingResurrects == Spec => []NoResurrection
<1>1. Inv => NoResurrection
  BY DEF Inv, Custody, Carries, NoResurrection
<1> QED
  BY <1>1, Invariance, PTL
============================================================================
