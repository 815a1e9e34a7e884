------------------------ MODULE SecretStoreRowProofs ------------------------
(***************************************************************************)
(* More theorems about SecretStore, which rest on what a row and a copy of *)
(* it in a handler's locals have to do with the create they come from:     *)
(* a 201 is durable, a protected row wants its verifier, a failure that    *)
(* was answered is counted, and SecretStore implements OneTimeSecret.      *)
(***************************************************************************)
EXTENDS SecretStoreProofs, SecretStoreRefinement

USE MaxAttemptsAssumption, LockTimeAssumption, LifetimesAssumption,
    EndOfTimeAssumption, NullAssumption
  DEF MaxAttemptsAssumption, LockTimeAssumption, LifetimesAssumption,
      EndOfTimeAssumption, NullAssumption

\* The row is that of the create of its blob, under slug s.
Matches(row, s) ==
  /\ row.blob \in Blobs
  /\ posted[row.blob] # Null
  /\ posted[row.blob].slug = s
  /\ posted[row.blob].gate = row.gate
  /\ posted[row.blob].expires = row.expires

RowsMatch ==
  /\ \A s \in Slugs : db[s] # Null => Matches(db[s], s)
  /\ \A s \in Slugs : disk[s] # Null => Matches(disk[s], s)
  /\ \A w \in Workers : req[w].row # Null => Matches(req[w].row, req[w].slug)
----------------------------------------------------------------------------
(* What the steps do to the locals and to the history.                     *)

LEMMA AnswerEffect ==
  ASSUME TypeInv, NEW w \in Workers, Answer(w)
  PROVE  /\ req'[w] = Idle
         /\ \A u \in Workers \ {w} : req'[u] = req[u]
BY DEF TypeInv, TypeOK, Answer

LEMMA GotoEffect ==
  ASSUME TypeInv, NEW w \in Workers, NEW point, NEW row, Goto(w, point, row)
  PROVE  /\ req'[w].at = point /\ req'[w].row = row
         /\ req'[w].slug = req[w].slug /\ req'[w].proof = req[w].proof
         /\ \A u \in Workers \ {w} : req'[u] = req[u]
BY DEF TypeInv, TypeOK, Goto, Request

LEMMA LookEffect ==
  ASSUME TypeInv, NEW w \in Workers, Look(w)
  PROVE  \A u \in Workers : /\ req'[u].at = req[u].at /\ req'[u].row = req[u].row
                            /\ req'[u].slug = req[u].slug /\ req'[u].proof = req[u].proof
BY DEF TypeInv, TypeOK, Look, Request

LEMMA SelectEffect ==
  ASSUME TypeInv, NEW w \in Workers, SelectMeta(w) \/ SelectAuth(w)
  PROVE  /\ req'[w].at \in {"meta_fetch", "auth_fetch"}
         /\ req'[w].slug \in Slugs /\ req'[w].row = db[req'[w].slug]
         /\ \A u \in Workers \ {w} : req'[u] = req[u]
         /\ UNCHANGED <<now, db, disk, inTx, sweep, posted, served, taken, acked>>
<1>1. req \in [Workers -> Request]
  BY DEF TypeInv, TypeOK
<1>2. UNCHANGED <<now, db, disk, inTx, sweep, posted, served, taken, acked>>
  BY DEF SelectMeta, SelectAuth, conn, history
<1>3. CASE SelectMeta(w)
  <2>1. PICK s \in Slugs :
          req' = [req EXCEPT ![w] = [at |-> "meta_fetch", slug |-> s,
                    proof |-> Null, row |-> db[s], decided |-> FALSE]]
    BY <1>3 DEF SelectMeta, Idle
  <2> QED
    BY <1>1, <1>2, <2>1
<1>4. CASE SelectAuth(w)
  BY <1>1, <1>2, <1>4 DEF SelectAuth
<1> QED
  BY <1>3, <1>4

\* A new secret: nothing is stored of it yet.
LEMMA PostEffect ==
  ASSUME TypeInv, NEW w \in Workers, PostSecret(w)
  PROVE  \E b \in Blobs, t \in Lifetimes :
           /\ posted[b] = Null
           /\ posted'[b] \in Posting /\ posted'[b].expires = now + t
           /\ \A c \in Blobs \ {b} : posted'[c] = posted[c]
           /\ req'[w].at = "insert" /\ req'[w].row \in Row
           /\ req'[w].row.blob = b /\ req'[w].row.locked = 0
           /\ req'[w].slug = posted'[b].slug
           /\ req'[w].row.gate = posted'[b].gate
           /\ req'[w].row.expires = posted'[b].expires
           /\ \A u \in Workers \ {w} : req'[u] = req[u]
           /\ UNCHANGED <<now, db, disk, inTx, sweep, served, taken, acked>>
<1>1. req \in [Workers -> Request] /\ posted \in [Blobs -> Posting \cup {Null}]
  BY DEF TypeInv, TypeOK
<1>2. PICK b \in Blobs, s \in Slugs, g \in Gates, t \in Lifetimes :
        /\ posted[b] = Null
        /\ posted' = [posted EXCEPT ![b] =
                        [slug |-> s, gate |-> g, expires |-> now + t]]
        /\ req' = [req EXCEPT ![w] =
             [at |-> "insert", slug |-> s, proof |-> Null,
              row |-> [blob |-> b, gate |-> g, expires |-> now + t,
                       fails |-> 0, locked |-> 0],
              decided |-> FALSE]]
  BY DEF PostSecret
<1>3. now + t \in Nat
  BY DEF TypeInv, TypeOK
<1>4. posted'[b] = [slug |-> s, gate |-> g, expires |-> now + t]
  BY <1>1, <1>2
<1>5. req'[w] = [at |-> "insert", slug |-> s, proof |-> Null,
                 row |-> [blob |-> b, gate |-> g, expires |-> now + t,
                          fails |-> 0, locked |-> 0],
                 decided |-> FALSE]
  BY <1>1, <1>2
<1>6. /\ posted'[b] \in Posting /\ posted'[b].expires = now + t
      /\ req'[w].row \in Row
  BY <1>3, <1>4, <1>5 DEF Posting, Row
<1>7. /\ \A c \in Blobs \ {b} : posted'[c] = posted[c]
      /\ \A u \in Workers \ {w} : req'[u] = req[u]
  BY <1>1, <1>2
<1>8. UNCHANGED <<now, db, disk, inTx, sweep, served, taken, acked>>
  BY DEF PostSecret, conn
<1>9. /\ req'[w].at = "insert" /\ req'[w].row.blob = b /\ req'[w].row.locked = 0
      /\ req'[w].slug = posted'[b].slug
      /\ req'[w].row.gate = posted'[b].gate
      /\ req'[w].row.expires = posted'[b].expires
  BY <1>4, <1>5
<1> QED
  BY <1>2, <1>6, <1>7, <1>8, <1>9
----------------------------------------------------------------------------
(* Rows match their creates.                                               *)

LEMMA MatchesIsRow ==
  ASSUME NEW s, NEW row \in Row, Matches(row, s)
  PROVE  Matches(CountFailure(row), s) /\ Matches(LockRow(row), s)
<1>1. /\ CountFailure(row).blob = row.blob /\ CountFailure(row).gate = row.gate
      /\ CountFailure(row).expires = row.expires
  BY DEF CountFailure, Row
<1>2. /\ LockRow(row).blob = row.blob /\ LockRow(row).gate = row.gate
      /\ LockRow(row).expires = row.expires
  BY DEF LockRow, Row
<1> QED
  BY <1>1, <1>2 DEF Matches

LEMMA RowsFrame ==
  ASSUME RowsMatch, UNCHANGED posted,
         \A s \in Slugs : db'[s] # Null => Matches(db'[s], s),
         disk' = disk \/ disk' = db,
         \A w \in Workers : req'[w].row # Null => Matches(req'[w].row, req'[w].slug)
  PROVE  RowsMatch'
BY DEF RowsMatch, Matches

\* An answer drops a row; Look changes none.
LEMMA RowsAnswer ==
  ASSUME TypeInv, RowsMatch, NEW w \in Workers, Answer(w),
         NEW u \in Workers, req'[u].row # Null
  PROVE  Matches(req'[u].row, req'[u].slug)
BY AnswerEffect DEF RowsMatch, Idle

LEMMA RowsGoto ==
  ASSUME TypeInv, RowsMatch, NEW w \in Workers, NEW point, NEW row,
         Goto(w, point, row), row # Null => Matches(row, req[w].slug),
         NEW u \in Workers, req'[u].row # Null
  PROVE  Matches(req'[u].row, req'[u].slug)
BY GotoEffect DEF RowsMatch

LEMMA CommitTable ==
  ASSUME NEW t, Commit(t) \/ CommitFails(t)
  PROVE  disk' = disk \/ disk' = db
BY DEF Commit, CommitFails

LEMMA RowsNext ==
  ASSUME TypeInv, RowsMatch, [Next]_vars
  PROVE  RowsMatch'
<1>a. /\ req \in [Workers -> Request]
      /\ db \in [Slugs -> Row \cup {Null}]
  BY DEF TypeInv, TypeOK, Table
<1>r. /\ \A s \in Slugs : db[s] # Null => Matches(db[s], s) /\ db[s] \in Row
      /\ \A w \in Workers : req[w].row # Null => Matches(req[w].row, req[w].slug)
      /\ \A w \in Workers : req[w].at # "idle" => req[w].slug \in Slugs
  BY <1>a DEF RowsMatch, TypeInv, LocalsOK
<1>1. ASSUME NEW w \in Workers, PostSecret(w)
      PROVE  RowsMatch'
  <2>1. PICK b \in Blobs :
           /\ posted[b] = Null
           /\ posted'[b] \in Posting
           /\ \A c \in Blobs \ {b} : posted'[c] = posted[c]
           /\ req'[w].row.blob = b
           /\ req'[w].slug = posted'[b].slug
           /\ req'[w].row.gate = posted'[b].gate
           /\ req'[w].row.expires = posted'[b].expires
           /\ \A u \in Workers \ {w} : req'[u] = req[u]
           /\ UNCHANGED <<db, disk>>
    BY <1>1, PostEffect
  <2>2. \A row, s : Matches(row, s) => Matches(row, s)'
    BY <2>1 DEF Matches
  <2>3. Matches(req[w].row, req[w].slug)'
    BY <2>1 DEF Matches
  <2>4. \A s \in Slugs : db'[s] # Null => Matches(db[s], s)'
    BY <1>r, <2>1, <2>2
  <2>5. \A s \in Slugs : disk'[s] # Null => Matches(disk[s], s)'
    BY <2>1, <2>2 DEF RowsMatch
  <2>6. \A u \in Workers \ {w} : req'[u].row # Null => Matches(req[u].row, req[u].slug)'
    BY <1>r, <2>1, <2>2
  <2> QED
    BY <2>3, <2>4, <2>5, <2>6 DEF RowsMatch
<1>2. ASSUME NEW w \in Workers, SelectMeta(w) \/ SelectAuth(w)
      PROVE  RowsMatch'
  BY <1>2, <1>r, SelectEffect, RowsFrame
<1>4. ASSUME NEW w \in Workers, Look(w)
      PROVE  RowsMatch'
  <2>1. UNCHANGED <<posted, db, disk>>
    BY <1>4 DEF Look, conn, history
  <2>2. \A u \in Workers : req'[u].row = req[u].row /\ req'[u].slug = req[u].slug
    BY <1>4, LookEffect
  <2>3. \A u \in Workers : req'[u].row # Null => Matches(req'[u].row, req'[u].slug)
    BY <1>r, <2>2
  <2> QED
    BY <1>r, <2>1, <2>3, RowsFrame
<1>5. ASSUME NEW w \in Workers, Insert(w)
      PROVE  RowsMatch'
  <2>1. UNCHANGED <<disk, posted>>
    BY <1>5 DEF Insert, history
  <2>2. req[w].row \in Row /\ req[w].row # Null /\ req[w].slug \in Slugs
    BY <1>5, <1>r DEF Insert, TypeInv, LocalsOK
  <2>3. \A s \in Slugs : db'[s] # Null => Matches(db'[s], s)
    BY <1>5, <1>a, <1>r, <2>2 DEF Insert, BeginFails
  <2>4. \A u \in Workers : req'[u].row # Null => Matches(req'[u].row, req'[u].slug)
    BY <1>5, <1>r, <2>2, RowsAnswer, RowsGoto DEF Insert
  <2> QED
    BY <2>1, <2>3, <2>4, RowsFrame
<1>6. ASSUME NEW w \in Workers, CommitCreate(w) \/ CommitFailure(w)
      PROVE  RowsMatch'
  <2>1. UNCHANGED <<db, posted>> /\ Answer(w) /\ (disk' = disk \/ disk' = db)
    BY <1>6, CommitTable DEF CommitCreate, CommitFailure, history
  <2> QED
    BY <1>r, <2>1, RowsAnswer, RowsFrame
<1>7. ASSUME NEW w \in Workers, FetchMeta(w)
      PROVE  RowsMatch'
  <2>1. UNCHANGED <<db, disk, posted>> /\ Answer(w)
    BY <1>7 DEF FetchMeta, conn, history
  <2> QED
    BY <1>r, <2>1, RowsAnswer, RowsFrame
<1>8. ASSUME NEW w \in Workers, FetchAuth(w) \/ FetchFailure(w) \/ FetchBurned(w)
      PROVE  RowsMatch'
  <2>1. UNCHANGED <<db, disk, posted>>
    BY <1>8 DEF FetchAuth, FetchFailure, FetchBurned, conn, history
  <2>2. Answer(w) \/ \E point : Goto(w, point, req[w].row)
    BY <1>8 DEF FetchAuth, FetchFailure, FetchBurned
  <2>3. \A u \in Workers : req'[u].row # Null => Matches(req'[u].row, req'[u].slug)
    BY <1>r, <2>2, RowsAnswer, RowsGoto
  <2> QED
    BY <1>r, <2>1, <2>3, RowsFrame
<1>9. ASSUME NEW w \in Workers, Gate(w)
      PROVE  RowsMatch'
  <2>1. UNCHANGED <<db, disk, posted>>
    BY <1>9 DEF Gate, conn, history
  <2>2. Answer(w) \/ \E point : Goto(w, point, Null) \/ Goto(w, point, req[w].row)
    BY <1>9 DEF Gate
  <2>3. \A u \in Workers : req'[u].row # Null => Matches(req'[u].row, req'[u].slug)
    BY <1>r, <2>2, RowsAnswer, RowsGoto
  <2> QED
    BY <1>r, <2>1, <2>3, RowsFrame
<1>10. ASSUME NEW w \in Workers, UpdateFailure(w)
       PROVE  RowsMatch'
  <2> DEFINE s == req[w].slug
  <2>1. s \in Slugs /\ UNCHANGED <<disk, posted>>
    BY <1>10, <1>r DEF UpdateFailure, history
  <2>2. db[s] # Null => Matches(CountFailure(db[s]), s)
    BY <1>r, <2>1, MatchesIsRow
  <2>3. \A t \in Slugs : db'[t] # Null => Matches(db'[t], t)
    BY <1>10, <1>a, <1>r, <2>1, <2>2 DEF UpdateFailure, BeginFails
  <2>4. Answer(w) \/ \E row : Goto(w, "fail_fetch", row) /\ (row # Null => Matches(row, s))
    BY <1>10, <2>2 DEF UpdateFailure
  <2>5. \A u \in Workers : req'[u].row # Null => Matches(req'[u].row, req'[u].slug)
    BY <2>4, RowsAnswer, RowsGoto
  <2> QED
    BY <2>1, <2>3, <2>5, RowsFrame
<1>12. ASSUME NEW w \in Workers, UpdateLock(w)
       PROVE  RowsMatch'
  <2> DEFINE s == req[w].slug
  <2>1. s \in Slugs /\ UNCHANGED <<disk, posted>>
    BY <1>12, <1>r DEF UpdateLock, history
  <2>2. db[s] # Null => Matches(LockRow(db[s]), s)
    BY <1>r, <2>1, MatchesIsRow
  <2>3. \A t \in Slugs : db'[t] # Null => Matches(db'[t], t)
    BY <1>12, <1>a, <1>r, <2>1, <2>2 DEF UpdateLock, BeginFails
  <2>4. Answer(w) \/ Goto(w, "fail_commit", req[w].row)
    BY <1>12 DEF UpdateLock
  <2>5. \A u \in Workers : req'[u].row # Null => Matches(req'[u].row, req'[u].slug)
    BY <1>r, <2>4, RowsAnswer, RowsGoto
  <2> QED
    BY <2>1, <2>3, <2>5, RowsFrame
<1>14. ASSUME NEW w \in Workers, Burn(w)
       PROVE  RowsMatch'
  <2>1. req[w].slug \in Slugs /\ UNCHANGED <<disk, posted>>
    BY <1>14, <1>r DEF Burn
  <2>2. \A t \in Slugs : db'[t] # Null => Matches(db'[t], t)
    BY <1>14, <1>a, <1>r, <2>1 DEF Burn, BeginFails
  <2>3. Answer(w) \/ Goto(w, "burn_fetch", db[req[w].slug])
    BY <1>14 DEF Burn
  <2>4. \A u \in Workers : req'[u].row # Null => Matches(req'[u].row, req'[u].slug)
    BY <1>r, <2>1, <2>3, RowsAnswer, RowsGoto
  <2> QED
    BY <2>1, <2>2, <2>4, RowsFrame
<1>16. ASSUME NEW w \in Workers, CommitBurn(w)
       PROVE  RowsMatch'
  <2>1. UNCHANGED <<db, posted>> /\ (disk' = disk \/ disk' = db)
    BY <1>16, CommitTable DEF CommitBurn, history
  <2>2. Answer(w) \/ Goto(w, "burn_check", req[w].row)
    BY <1>16 DEF CommitBurn
  <2>3. \A u \in Workers : req'[u].row # Null => Matches(req'[u].row, req'[u].slug)
    BY <1>r, <2>2, RowsAnswer, RowsGoto
  <2> QED
    BY <1>r, <2>1, <2>3, RowsFrame
<1>17. ASSUME NEW w \in Workers, Serve(w)
       PROVE  RowsMatch'
  <2>1. UNCHANGED <<db, disk, posted>> /\ Answer(w)
    BY <1>17 DEF Serve, conn
  <2> QED
    BY <1>r, <2>1, RowsAnswer, RowsFrame
<1>18. CASE Sweeper
  <2>1. UNCHANGED <<req, posted>>
    BY <1>18 DEF Sweeper, LookSweep, Purge, CommitPurge, Checkpoint, Vacuum, Wake,
       history
  <2>2. disk' = disk \/ disk' = db
    BY <1>18, CommitTable DEF Sweeper, LookSweep, Purge, CommitPurge, Checkpoint,
       Vacuum, Wake, conn
  <2>3. \A s \in Slugs : db'[s] = db[s] \/ db'[s] = Null
    BY <1>18 DEF Sweeper, LookSweep, Purge, BeginFails, Purged, CommitPurge,
       Checkpoint, Vacuum, Wake, conn
  <2>4. \A s \in Slugs : db'[s] # Null => Matches(db'[s], s)
    BY <1>r, <2>3
  <2>5. \A u \in Workers : req'[u].row # Null => Matches(req'[u].row, req'[u].slug)
    BY <1>r, <2>1
  <2> QED
    BY <2>1, <2>2, <2>4, <2>5, RowsFrame
<1>19. CASE Tick \/ UNCHANGED vars
  <2>1. UNCHANGED <<db, disk, req, posted>>
    BY <1>19 DEF Tick, vars, conn, history
  <2> QED
    BY <1>r, <2>1, RowsFrame
<1>20. CASE Crash
  <2>1. /\ db' = disk /\ disk' = disk /\ posted' = posted
        /\ \A w \in Workers : req'[w].row = Null
    BY <1>20 DEF Crash, history, Idle
  <2>2. \A s \in Slugs : db'[s] # Null => Matches(db'[s], s)
    BY <2>1 DEF RowsMatch
  <2> QED
    BY <2>1, <2>2, RowsFrame
<1> QED
  BY <1>1, <1>2, <1>4, <1>5, <1>6, <1>7, <1>8, <1>9, <1>10, <1>12, <1>14, <1>16,
     <1>17, <1>18, <1>19, <1>20
     DEF Next, Receive, Progress

LEMMA RowsAlways == Spec => [](Inv /\ RowsMatch)
<1>1. Init => RowsMatch
  BY DEF Init, RowsMatch, Idle
<1>2. Inv /\ RowsMatch /\ [Next]_vars => RowsMatch'
  BY RowsNext DEF Inv
<1> QED
  BY <1>1, <1>2, Invariance, PTL DEF Spec
----------------------------------------------------------------------------
(* A 201 is durable.                                                       *)

Landed(b) == b \in taken \/ posted[b].expires <= now \/ b \in Stored(db)

AckInv ==
  /\ \A w \in Workers : req[w].at = "create_commit" => Landed(req[w].row.blob)
  /\ \A b \in acked : posted[b] # Null /\ Landed(b)
  /\ AckedSurvives

\* Time goes on and no history is forgotten.
LEMMA HistoryEffect ==
  ASSUME TypeInv, [Next]_vars
  PROVE  /\ now <= now' /\ taken \subseteq taken'
         /\ \A b \in Blobs : posted[b] # Null => posted'[b] = posted[b]
<1>1. now \in Nat /\ now <= now
  BY DEF TypeInv, TypeOK
<1>2. ASSUME NEW w \in Workers, PostSecret(w)
      PROVE  /\ now <= now' /\ taken \subseteq taken'
             /\ \A b \in Blobs : posted[b] # Null => posted'[b] = posted[b]
  BY <1>1, <1>2, PostEffect
<1>3. ASSUME NEW w \in Workers, SelectMeta(w) \/ SelectAuth(w)
      PROVE  UNCHANGED <<now, posted, taken>>
  BY <1>3, SelectEffect
<1>4. ASSUME NEW w \in Workers, Progress(w)
      PROVE  now' = now /\ posted' = posted /\ taken \subseteq taken'
  BY <1>4 DEF Progress, Look, Insert, CommitCreate, FetchMeta, FetchAuth, Gate,
     UpdateFailure, FetchFailure, UpdateLock, CommitFailure, Burn, FetchBurned,
     CommitBurn, Serve, history
<1>5. CASE Sweeper
  BY <1>1, <1>5 DEF Sweeper, LookSweep, Purge, CommitPurge, Checkpoint, Vacuum,
     Wake, history
<1>6. CASE Tick
  BY <1>1, <1>6 DEF Tick, history
<1>7. CASE Crash \/ UNCHANGED vars
  BY <1>1, <1>7 DEF Crash, vars, history
<1> QED
  BY <1>1, <1>2, <1>3, <1>4, <1>5, <1>6, <1>7 DEF Next, Receive

\* A row leaves the table only with a consume that takes it, or expired.
LEMMA TableEffect ==
  ASSUME TypeInv, RowsMatch, [Next]_vars, ~Crash,
         NEW s \in Slugs, db[s] # Null
  PROVE  \/ db'[s] # Null /\ db'[s].blob = db[s].blob
         \/ db[s].blob \in taken'
         \/ posted[db[s].blob].expires <= now
<1>a. db \in [Slugs -> Row \cup {Null}] /\ db[s] \in Row
  BY DEF TypeInv, TypeOK, Table
<1>b. \A w \in Workers : req[w].at # "idle" => req[w].slug \in Slugs
  BY DEF TypeInv, LocalsOK
<1>1. ASSUME NEW w \in Workers, Receive(w)
      PROVE  db' = db
  BY <1>1, PostEffect, SelectEffect DEF Receive
<1>2. ASSUME NEW w \in Workers, Insert(w)
      PROVE  db'[s] = db[s]
  BY <1>a, <1>b, <1>2 DEF Insert, BeginFails
<1>3. ASSUME NEW w \in Workers, UpdateFailure(w)
      PROVE  db'[s] # Null /\ db'[s].blob = db[s].blob
  <2>1. CountFailure(db[s]) \in Row /\ CountFailure(db[s]).blob = db[s].blob
    BY <1>a, RowTypes DEF TypeInv, CountFailure, Row
  <2> QED
    BY <1>a, <1>b, <1>3, <2>1 DEF UpdateFailure, BeginFails
<1>4. ASSUME NEW w \in Workers, UpdateLock(w)
      PROVE  db'[s] # Null /\ db'[s].blob = db[s].blob
  <2>1. LockRow(db[s]) \in Row
    BY <1>a, RowTypes DEF TypeInv
  <2>2. LockRow(db[s]).blob = db[s].blob
    BY <1>a DEF LockRow, Row
  <2> QED
    BY <1>a, <1>b, <1>4, <2>1, <2>2 DEF UpdateLock, BeginFails
<1>5. ASSUME NEW w \in Workers, Burn(w)
      PROVE  db'[s] = db[s] \/ db[s].blob \in taken'
  BY <1>a, <1>b, <1>5 DEF Burn, BeginFails
<1>6. ASSUME NEW w \in Workers,
             \/ Look(w) \/ CommitCreate(w) \/ FetchMeta(w) \/ FetchAuth(w)
             \/ Gate(w) \/ FetchFailure(w) \/ CommitFailure(w) \/ FetchBurned(w)
             \/ CommitBurn(w) \/ Serve(w)
      PROVE  db' = db
  BY <1>6 DEF Look, CommitCreate, FetchMeta, FetchAuth, Gate, FetchFailure,
     CommitFailure, FetchBurned, CommitBurn, Serve, conn
<1>7. CASE Purge
  <2>1. posted[db[s].blob].expires = db[s].expires
    BY DEF RowsMatch, Matches
  <2> QED
    BY <1>7, <2>1 DEF Purge, BeginFails, Purged, Expired
<1>8. CASE Sweeper /\ ~Purge
  BY <1>8 DEF Sweeper, LookSweep, CommitPurge, Checkpoint, Vacuum, Wake, conn
<1>9. CASE Tick \/ UNCHANGED vars
  BY <1>9 DEF Tick, vars, conn
<1> QED
  BY <1>1, <1>2, <1>3, <1>4, <1>5, <1>6, <1>7, <1>8, <1>9
  DEF Next, Progress

LEMMA LandedKept ==
  ASSUME TypeInv, RowsMatch, [Next]_vars, ~Crash,
         NEW b \in Blobs, posted[b] # Null, Landed(b)
  PROVE  Landed(b)'
<1>1. /\ now <= now' /\ taken \subseteq taken' /\ posted'[b] = posted[b]
      /\ now \in Nat
  BY HistoryEffect DEF TypeInv, TypeOK
<1>2. now' \in Nat /\ posted[b].expires \in Nat
  BY StepTypes DEF TypeInv, TypeOK, Posting
<1>3. CASE b \in taken
  BY <1>1, <1>3 DEF Landed
<1>4. CASE posted[b].expires <= now
  BY <1>1, <1>2, <1>4 DEF Landed
<1>5. CASE b \in Stored(db)
  <2>1. PICK s \in Slugs : db[s] # Null /\ db[s].blob = b
    BY <1>5, StoredIff
  <2>2. CASE db'[s] # Null /\ db'[s].blob = b
    BY <2>2, StoredIff DEF Landed
  <2>3. CASE b \in taken' \/ posted[b].expires <= now
    BY <1>1, <1>2, <2>3 DEF Landed
  <2> QED
    BY <2>1, <2>2, <2>3, TableEffect
<1> QED
  BY <1>3, <1>4, <1>5 DEF Landed

\* A thread's step leaves the locals of the others alone.
LEMMA OthersKept ==
  ASSUME TypeInv, NEW w \in Workers, Receive(w) \/ Progress(w)
  PROVE  \A u \in Workers \ {w} : req'[u] = req[u]
<1>1. req \in [Workers -> Request]
  BY DEF TypeInv, TypeOK
<1>2. CASE Receive(w)
  BY <1>1, <1>2 DEF Receive, PostSecret, SelectMeta, SelectAuth
<1>3. CASE Progress(w)
  BY <1>1, <1>3 DEF Progress, Look, Insert, CommitCreate, FetchMeta, FetchAuth,
     Gate, UpdateFailure, FetchFailure, UpdateLock, CommitFailure, Burn,
     FetchBurned, CommitBurn, Serve, Answer, Goto
<1> QED
  BY <1>2, <1>3

LEMMA LocalsStep ==
  ASSUME TypeInv, [Next]_vars, ~Crash, NEW w \in Workers
  PROVE  req'[w] = req[w] \/ Receive(w) \/ Progress(w)
<1>1. ASSUME NEW u \in Workers, Receive(u) \/ Progress(u)
      PROVE  req'[w] = req[w] \/ Receive(w) \/ Progress(w)
  BY <1>1, OthersKept
<1>2. CASE Sweeper \/ Tick \/ UNCHANGED vars
  BY <1>2 DEF Sweeper, LookSweep, Purge, CommitPurge, Checkpoint, Vacuum, Wake,
     Tick, vars
<1> QED
  BY <1>1, <1>2 DEF Next

\* A thread comes to the commit of a create by its INSERT.
LEMMA CreatorEffect ==
  ASSUME TypeInv, NEW w \in Workers, Receive(w) \/ Progress(w),
         req'[w].at = "create_commit"
  PROVE  \/ req[w].at = "create_commit" /\ req'[w].row = req[w].row
         \/ \E s \in Slugs : db'[s] # Null /\ db'[s] = req'[w].row
<1>1. ~Receive(w)
  BY PostEffect, SelectEffect DEF Receive
<1>2. CASE Look(w)
  BY <1>2, LookEffect
<1>3. CASE Insert(w)
  <2>1. Goto(w, "create_commit", req[w].row) \/ Answer(w)
    BY <1>3 DEF Insert
  <2>2. Goto(w, "create_commit", req[w].row)
    BY <2>1, AnswerEffect DEF Idle
  <2>3. db' = [db EXCEPT ![req[w].slug] = req[w].row]
    BY <1>3, <2>2, GotoEffect, AnswerEffect DEF Insert, Idle
  <2>4. req[w].slug \in Slugs /\ req[w].row \in Row
    BY <1>3 DEF Insert, TypeInv, LocalsOK
  <2> QED
    BY <2>2, <2>3, <2>4, GotoEffect DEF TypeInv, TypeOK, Table
<1>4. CASE Answer(w)
  BY <1>4, AnswerEffect DEF Idle
<1>5. CASE \E point \in Points \ {"create_commit"} : \E row : Goto(w, point, row)
  BY <1>5, GotoEffect
<1> QED
  BY <1>1, <1>2, <1>3, <1>4, <1>5 DEF Progress, CommitCreate, FetchMeta, FetchAuth,
     Gate, UpdateFailure, FetchFailure, UpdateLock, CommitFailure, Burn,
     FetchBurned, CommitBurn, Serve, Points, Writes, Commits

\* A step that acknowledges leaves nothing uncommitted, and so does one that
\* changes the file.
LEMMA AckEffect ==
  ASSUME Inv, [Next]_vars, ~Crash
  PROVE  /\ disk' = disk \/ disk' = db'
         /\ \A b \in acked' : b \notin acked =>
              /\ disk' = db'
              /\ \E w \in Workers : /\ req[w].at = "create_commit"
                                    /\ req[w].row.blob = b
<1>1. ~inTx => db = disk
  BY DEF Inv, Custody
<1>2. ASSUME NEW t, Commit(t), db' = db
      PROVE  disk' = db'
  BY <1>1, <1>2 DEF Commit
<1>3. ASSUME NEW w \in Workers, CommitCreate(w)
      PROVE  /\ \/ disk' = disk /\ acked' = acked
                \/ disk' = db' /\ acked' = acked \cup {req[w].row.blob}
             /\ req[w].at = "create_commit"
  <2>1. CASE Commit(req[w]) /\ acked' = acked \cup {req[w].row.blob}
    BY <1>2, <1>3, <2>1 DEF CommitCreate
  <2>2. CASE CommitFails(req[w]) /\ UNCHANGED acked
    BY <1>3, <2>2 DEF CommitCreate, CommitFails
  <2> QED
    BY <1>3, <2>1, <2>2 DEF CommitCreate
<1>4. ASSUME NEW w \in Workers, CommitFailure(w) \/ CommitBurn(w)
      PROVE  acked' = acked /\ (disk' = disk \/ disk' = db')
  BY <1>2, <1>4 DEF CommitFailure, CommitBurn, CommitFails, history
<1>5. CASE Sweeper
  BY <1>2, <1>5 DEF Sweeper, LookSweep, Purge, CommitPurge, CommitFails,
     Checkpoint, Vacuum, Wake, conn, history
<1>6. ASSUME NEW w \in Workers, Receive(w)
      PROVE  acked' = acked /\ disk' = disk
  BY <1>6, PostEffect, SelectEffect DEF Receive, Inv
<1>7. ASSUME NEW w \in Workers,
             \/ Look(w) \/ Insert(w) \/ FetchMeta(w) \/ FetchAuth(w) \/ Gate(w)
             \/ UpdateFailure(w) \/ FetchFailure(w) \/ UpdateLock(w)
             \/ Burn(w) \/ FetchBurned(w) \/ Serve(w)
      PROVE  acked' = acked /\ disk' = disk
  BY <1>7 DEF Look, Insert, FetchMeta, FetchAuth, Gate, UpdateFailure,
     FetchFailure, UpdateLock, Burn, FetchBurned, Serve, conn, history
<1>8. CASE Tick \/ UNCHANGED vars
  BY <1>8 DEF Tick, vars, conn, history
<1> QED
  BY <1>3, <1>4, <1>5, <1>6, <1>7, <1>8 DEF Next, Progress

LEMMA AckNext ==
  ASSUME Inv, RowsMatch, AckInv, [Next]_vars
  PROVE  AckInv'
<1>t. TypeInv
  BY DEF Inv
<1>1. CASE Crash
  <2>1. /\ UNCHANGED <<now, disk, posted, taken, acked>>
        /\ db' = disk /\ \A w \in Workers : req'[w].at = "idle"
    BY <1>1 DEF Crash, history, Idle
  <2>2. AckedSurvives'
    BY <2>1 DEF AckInv, AckedSurvives, Stored
  <2>3. \A b \in acked' : posted'[b] # Null /\ Landed(b)'
    BY <2>1 DEF AckInv, AckedSurvives, Landed, Stored
  <2> QED
    BY <2>1, <2>2, <2>3 DEF AckInv
<1>2. CASE ~Crash
  <2>1. ASSUME NEW w \in Workers, req[w].at = "create_commit"
        PROVE  \E b \in Blobs : /\ b = req[w].row.blob
                                /\ posted[b] # Null /\ Landed(b) /\ Landed(b)'
    <3>1. req[w].row \in Row
      BY <1>t, <2>1 DEF TypeInv, LocalsOK
    <3>2. PICK b \in Blobs : b = req[w].row.blob /\ posted[b] # Null
      BY <3>1 DEF RowsMatch, Matches
    <3>3. Landed(b)
      BY <2>1, <3>2 DEF AckInv
    <3> QED
      BY <1>t, <1>2, <3>2, <3>3, LandedKept
  <2>2. ASSUME NEW w \in Workers, req'[w].at = "create_commit"
        PROVE  Landed(req[w].row.blob)'
    <3>1. CASE req[w].at = "create_commit" /\ req'[w].row = req[w].row
      BY <2>1, <3>1 DEF Landed
    <3>2. CASE \E s \in Slugs : db'[s] # Null /\ db'[s] = req'[w].row
      BY <3>2 DEF Landed, Stored
    <3> QED
      BY <1>t, <1>2, <2>2, <3>1, <3>2, LocalsStep, CreatorEffect
  <2>3. ASSUME NEW b \in acked'
        PROVE  b \in Blobs /\ posted'[b] # Null /\ Landed(b)'
    <3>1. b \in Blobs
      BY StepTypes, <1>t DEF TypeInv, TypeOK
    <3>2. posted[b] # Null /\ Landed(b)
      BY <1>2, <2>1, AckEffect DEF AckInv
    <3> QED
      BY <1>t, <1>2, <3>1, <3>2, LandedKept, HistoryEffect
  <2>4. ASSUME NEW b \in acked'
        PROVE  b \in taken' \/ posted'[b].expires <= now' \/ b \in Stored(disk')
    <3>1. CASE disk' = db'
      BY <2>3, <3>1 DEF Landed, Stored
    <3>2. CASE disk' = disk /\ b \in acked
      <4>1. b \in taken \/ posted[b].expires <= now \/ b \in Stored(disk)
        BY <3>2 DEF AckInv, AckedSurvives
      <4>2. /\ now <= now' /\ taken \subseteq taken' /\ posted'[b] = posted[b]
        BY <1>t, <2>3, <3>2, HistoryEffect DEF AckInv
      <4>3. now \in Nat /\ now' \in Nat /\ posted[b].expires \in Nat
        BY <1>t, <2>3, <4>2, StepTypes DEF TypeInv, TypeOK, Posting
      <4>4. Stored(disk') = Stored(disk)
        BY <3>2
      <4> QED
        BY <4>1, <4>2, <4>3, <4>4
    <3> QED
      BY <1>2, <3>1, <3>2, AckEffect
  <2> QED
    BY <2>2, <2>3, <2>4 DEF AckInv, AckedSurvives
<1> QED
  BY <1>1, <1>2

\* A create answered 201 is in the file until a consume takes it or it
\* expires, whichever threads' commits and failures ended its transaction.
THEOREM AcknowledgedIsDurable == Spec => []AckedSurvives
<1>1. Init => AckInv
  BY DEF Init, AckInv, AckedSurvives, Idle
<1>2. Inv /\ RowsMatch /\ AckInv /\ [Next]_vars => AckInv'
  BY AckNext
<1>3. AckInv => AckedSurvives
  BY DEF AckInv
<1> QED
  BY <1>1, <1>2, <1>3, RowsAlways, PTL DEF Spec
----------------------------------------------------------------------------
(* A protected row wants its verifier.                                     *)

\* Where a handler holds the row that it judges, or has judged.
Judging == {"auth_fetch", "gate", "burn_delete"}

\* A row that was read has landed: it is in the table, or gone.  Who is about to
\* burn has shown what the row that was read wants.
GateInv ==
  \A w \in Workers :
    /\ req[w].at \in Judging /\ req[w].row # Null => Landed(req[w].row.blob)
    /\ req[w].at = "burn_delete" => req[w].row.gate \in {Null, req[w].proof}

\* A thread holds a row to judge because it read it from the table, and comes to
\* the DELETE by the gate.
LEMMA JudgeEffect ==
  ASSUME TypeInv, NEW w \in Workers, Receive(w) \/ Progress(w),
         req'[w].at \in Judging, req'[w].row # Null
  PROVE  /\ \/ req[w].at \in Judging /\ req'[w].row = req[w].row
            \/ \E s \in Slugs : db'[s] # Null /\ db'[s] = req'[w].row
         /\ req'[w].at = "burn_delete" =>
              /\ req'[w].row = req[w].row /\ req'[w].proof = req[w].proof
              /\ \/ req[w].at = "burn_delete"
                 \/ req[w].row.gate \in {Null, req[w].proof}
<1>1. CASE PostSecret(w)
  BY <1>1, PostEffect DEF Judging
<1>2. CASE SelectMeta(w) \/ SelectAuth(w)
  BY <1>2, SelectEffect
<1>3. CASE Look(w)
  BY <1>3, LookEffect
<1>4. CASE FetchAuth(w)
  BY <1>4, GotoEffect, AnswerEffect DEF FetchAuth, Judging, Idle
<1>5. CASE Gate(w)
  <2>1. \/ Answer(w) \/ Goto(w, "fail_update", Null)
        \/ /\ Goto(w, "burn_delete", req[w].row)
           /\ req[w].row.gate \in {Null, req[w].proof}
    BY <1>5 DEF Gate
  <2>2. req[w].at = "gate"
    BY <1>5 DEF Gate
  <2> QED
    BY <2>1, <2>2, GotoEffect, AnswerEffect DEF Judging, Idle
<1>6. CASE Answer(w)
  BY <1>6, AnswerEffect DEF Judging, Idle
<1>7. CASE \E point \in Points \ Judging : \E row : Goto(w, point, row)
  BY <1>7, GotoEffect
<1> QED
  BY <1>1, <1>2, <1>3, <1>4, <1>5, <1>6, <1>7 DEF Receive, Progress, Insert,
     CommitCreate, FetchMeta, UpdateFailure, FetchFailure, UpdateLock,
     CommitFailure, Burn, FetchBurned, CommitBurn, Serve, Judging, Points, Writes,
     Commits

LEMMA GateNext ==
  ASSUME TypeInv, RowsMatch, GateInv, [Next]_vars
  PROVE  GateInv'
<1>1. CASE Crash
  BY <1>1 DEF Crash, GateInv, Judging, Idle
<1>2. ASSUME ~Crash, NEW w \in Workers, req'[w].at \in Judging, req'[w].row # Null
      PROVE  Landed(req[w].row.blob)'
  <2>1. CASE req[w].at \in Judging /\ req'[w].row = req[w].row
    <3>1. PICK b \in Blobs : b = req[w].row.blob /\ posted[b] # Null /\ Landed(b)
      BY <1>2, <2>1 DEF RowsMatch, Matches, GateInv
    <3>2. Landed(b)'
      BY <1>2, <3>1, LandedKept
    <3> QED
      BY <2>1, <3>1, <3>2 DEF Landed
  <2>2. CASE \E s \in Slugs : db'[s] # Null /\ db'[s] = req'[w].row
    BY <2>2 DEF Landed, Stored
  <2>3. CASE req'[w] = req[w]
    BY <1>2, <2>1, <2>3
  <2> QED
    BY <1>2, <2>1, <2>2, <2>3, LocalsStep, JudgeEffect
<1>3. ASSUME ~Crash, NEW w \in Workers, req'[w].at = "burn_delete"
      PROVE  req'[w].row.gate \in {Null, req'[w].proof}
  <2>1. req'[w].row # Null
    <3>1. req'[w].row \in Row
      BY <1>3, StepTypes DEF TypeInv, LocalsOK
    <3> QED
      BY <3>1
  <2>2. CASE req'[w] = req[w]
    BY <1>3, <2>2 DEF GateInv
  <2>3. CASE Receive(w) \/ Progress(w)
    BY <1>3, <2>1, <2>3, JudgeEffect DEF GateInv, Judging
  <2> QED
    BY <1>3, <2>2, <2>3, LocalsStep
<1> QED
  BY <1>1, <1>2, <1>3 DEF GateInv

\* The DELETE finds the row that was judged, or that one is gone: while it is in
\* the table it is the one under its slug.
LEMMA BurnJudged ==
  ASSUME TypeInv, RowsMatch, GateInv, NEW w \in Workers, Burn(w),
         db[req[w].slug] # Null, db[req[w].slug].gate # Null
  PROVE  LET judged == req[w].row
             row    == db[req[w].slug] IN
         \/ req[w].proof = row.gate
         \/ /\ judged.blob # row.blob
            /\ judged.gate \in {Null, req[w].proof}
            /\ Gone(judged.blob)
<1> DEFINE judged == req[w].row
           row    == db[req[w].slug]
<1>1. req[w].at = "burn_delete" /\ req[w].slug \in Slugs /\ judged \in Row
  BY DEF Burn, TypeInv, LocalsOK
<1>2. judged # Null
  BY <1>1
<1>3. Matches(judged, req[w].slug) /\ Matches(row, req[w].slug)
  BY <1>1, <1>2 DEF RowsMatch
<1>4. judged.gate \in {Null, req[w].proof} /\ Landed(judged.blob)
  BY <1>1, <1>2 DEF GateInv, Judging
<1>5. CASE judged.blob = row.blob
  BY <1>3, <1>4, <1>5 DEF Matches
<1>6. CASE judged.blob # row.blob
  <2>1. ASSUME judged.blob \in Stored(db)
        PROVE  FALSE
    <3>1. PICK t \in Slugs : db[t] # Null /\ db[t].blob = judged.blob
      BY <2>1, StoredIff
    <3>2. Matches(db[t], t)
      BY <3>1 DEF RowsMatch
    <3>3. t = req[w].slug
      BY <1>3, <3>1, <3>2 DEF Matches
    <3> QED
      BY <1>6, <3>1, <3>3
  <2> QED
    BY <1>4, <1>6, <2>1 DEF Landed, Gone
<1> QED
  BY <1>5, <1>6

\* A protected row is burned only by someone who showed its verifier, or who was
\* let in by a row of the same slug that is gone: for every number of threads and
\* of secrets posted under a slug, one after the other.
THEOREM GateIsHonoured == Spec => GateHonoured
<1>1. Init => GateInv
  <2>1. ASSUME Init, NEW w \in Workers
        PROVE  req[w].at = "idle"
    BY <2>1 DEF Init, Idle
  <2> QED
    BY <2>1 DEF GateInv, Judging
<1>2. Inv /\ RowsMatch /\ GateInv /\ [Next]_vars => GateInv'
  BY GateNext DEF Inv
<1>3. Inv /\ RowsMatch /\ GateInv /\ [Next]_vars =>
        [\A w \in Workers :
           LET judged == req[w].row
               row    == db[req[w].slug] IN
           Burn(w) /\ row # Null /\ db'[req[w].slug] = Null /\ row.gate # Null
           => \/ req[w].proof = row.gate
              \/ /\ judged.blob # row.blob
                 /\ judged.gate \in {Null, req[w].proof}
                 /\ Gone(judged.blob)]_vars
  BY BurnJudged DEF Inv
<1> QED
  BY <1>1, <1>2, <1>3, RowsAlways, PTL DEF Spec, GateHonoured
----------------------------------------------------------------------------
(* An answered failure is counted.                                         *)

FailPoints == {"fail_fetch", "fail_lock", "fail_commit"}

\* What the table has of a secret is no less than the failure in row.
Remembers(kept, row) ==
  \/ kept.fails >= row.fails
  \/ kept.locked > 0 /\ kept.locked >= row.locked

\* No lock reaches further than one set now.
LocksBounded ==
  /\ \A s \in Slugs : db[s] # Null => db[s].locked <= now + LockTime
  /\ \A s \in Slugs : disk[s] # Null => disk[s].locked <= now + LockTime
  /\ \A w \in Workers : req[w].row # Null => req[w].row.locked <= now + LockTime

\* Nobody has read a row that is yet to be inserted.
Unread ==
  \A u, w \in Workers :
    /\ req[u].at = "insert" /\ u # w
    /\ req[w].row # Null
    => req[w].row.blob # req[u].row.blob

FailuresKept ==
  \A w \in Workers :
    LET row  == req[w].row
        kept == db[req[w].slug] IN
    req[w].at \in FailPoints /\ row # Null =>
      \/ kept = Null
      \/ kept.blob # row.blob
      \/ /\ Remembers(kept, row)
         /\ req[w].at = "fail_commit" /\ row.fails >= MaxAttempts
              => kept.locked > 0

FailInv == LocksBounded /\ Unread /\ FailuresKept

\* Where a row in a thread's locals comes from.
LEMMA RowEffect ==
  ASSUME TypeInv, NEW w \in Workers, Receive(w) \/ Progress(w), ~PostSecret(w),
         req'[w].row # Null
  PROVE  /\ req'[w].at = "insert" =>
              req[w].at = "insert" /\ req'[w].row = req[w].row
         /\ \E old \in Row :
              /\ req'[w].row.blob = old.blob /\ req'[w].row.locked = old.locked
              /\ \/ old = req[w].row
                 \/ \E s \in Slugs : old = db[s]
<1>a. /\ req[w].row \in Row \cup {Null} /\ db \in [Slugs -> Row \cup {Null}]
      /\ req[w].at # "idle" => req[w].slug \in Slugs
  BY DEF TypeInv, TypeOK, Table, LocalsOK, Request
<1>1. CASE Receive(w)
  BY <1>1, <1>a, SelectEffect DEF Receive
<1>2. CASE Look(w)
  BY <1>2, <1>a, LookEffect
<1>3. CASE UpdateFailure(w)
  <2>1. CASE Answer(w)
    BY <2>1, AnswerEffect DEF Idle
  <2>2. CASE Goto(w, "fail_fetch", Null)
    BY <2>2, GotoEffect
  <2>3. CASE /\ db[req[w].slug] # Null
             /\ Goto(w, "fail_fetch", CountFailure(db[req[w].slug]))
    <3>1. req[w].slug \in Slugs /\ db[req[w].slug] \in Row
      BY <1>3, <1>a, <2>3 DEF UpdateFailure
    <3>2. /\ CountFailure(db[req[w].slug]).blob = db[req[w].slug].blob
          /\ CountFailure(db[req[w].slug]).locked = db[req[w].slug].locked
      BY <3>1 DEF CountFailure, Row
    <3> QED
      BY <2>3, <3>1, <3>2, GotoEffect
  <2> QED
    BY <1>3, <2>1, <2>2, <2>3 DEF UpdateFailure
<1>4. CASE Burn(w)
  BY <1>4, <1>a, GotoEffect, AnswerEffect DEF Burn, Idle
<1>5. CASE Answer(w)
  BY <1>5, AnswerEffect DEF Idle
<1>6. CASE \E point \in Points \ {"insert"} :
             Goto(w, point, req[w].row) \/ Goto(w, point, Null)
  BY <1>6, <1>a, GotoEffect
<1> QED
  BY <1>1, <1>2, <1>3, <1>4, <1>5, <1>6 DEF Progress, Insert, CommitCreate,
     FetchMeta, FetchAuth, Gate, FetchFailure, UpdateLock, CommitFailure,
     FetchBurned, CommitBurn, Serve, Points, Writes, Commits

\* How a row gets into the table.
Inserts(w) ==
  /\ req[w].at = "insert"
  /\ db[req[w].slug] = Null
  /\ db' = [db EXCEPT ![req[w].slug] = req[w].row]
  /\ Goto(w, "create_commit", req[w].row)
  /\ UNCHANGED <<now, disk, posted, served>>

\* What a step does to a row of the table.
LEMMA ColumnEffect ==
  ASSUME TypeInv, [Next]_vars, ~Crash, NEW s \in Slugs, db'[s] # Null
  PROVE  \/ /\ db[s] # Null /\ db'[s].blob = db[s].blob
            /\ \/ db'[s].fails >= db[s].fails /\ db'[s].locked = db[s].locked
               \/ db'[s].locked = now + LockTime /\ now' = now
         \/ \E u \in Workers : /\ req[u].at = "insert" /\ req[u].slug = s
                               /\ db'[s] = req[u].row
                               /\ Inserts(u)
<1>a. /\ db \in [Slugs -> Row \cup {Null}]
      /\ \A w \in Workers : req[w].at # "idle" => req[w].slug \in Slugs
      /\ now \in Nat
  BY DEF TypeInv, TypeOK, Table, LocalsOK
<1>0. db'[s] = db[s] => db[s].fails >= db[s].fails
  BY <1>a DEF Row
<1>1. ASSUME NEW w \in Workers, Insert(w)
      PROVE  \/ db'[s] = db[s]
             \/ /\ req[w].at = "insert" /\ req[w].slug = s
                /\ db'[s] = req[w].row
                /\ Inserts(w)
  BY <1>1, <1>a DEF Insert, BeginFails, Inserts, history
<1>2. ASSUME NEW w \in Workers, UpdateFailure(w)
      PROVE  /\ db[s] # Null /\ db'[s].blob = db[s].blob
             /\ db'[s].fails >= db[s].fails /\ db'[s].locked = db[s].locked
  <2>1. CASE db'[s] = db[s]
    BY <1>0, <2>1
  <2>2. CASE db[s] # Null /\ db'[s] = CountFailure(db[s])
    <3>1. db[s] \in Row
      BY <1>a, <2>2
    <3>2. /\ CountFailure(db[s]).blob = db[s].blob
          /\ CountFailure(db[s]).locked = db[s].locked
          /\ CountFailure(db[s]).fails >= db[s].fails
      BY <3>1 DEF CountFailure, Row
    <3> QED
      BY <2>2, <3>2
  <2> QED
    BY <1>2, <1>a, <2>1, <2>2 DEF UpdateFailure, BeginFails
<1>3. ASSUME NEW w \in Workers, UpdateLock(w)
      PROVE  /\ db[s] # Null /\ db'[s].blob = db[s].blob
             /\ \/ db'[s].fails >= db[s].fails /\ db'[s].locked = db[s].locked
                \/ db'[s].locked = now + LockTime /\ now' = now
  <2>1. CASE db'[s] = db[s]
    BY <1>0, <2>1
  <2>2. CASE db[s] # Null /\ db'[s] = LockRow(db[s])
    <3>1. db[s] \in Row
      BY <1>a, <2>2
    <3>2. LockRow(db[s]).blob = db[s].blob /\ LockRow(db[s]).locked = now + LockTime
      BY <3>1 DEF LockRow, Row
    <3> QED
      BY <1>3, <2>2, <3>2 DEF UpdateLock
  <2> QED
    BY <1>3, <1>a, <2>1, <2>2 DEF UpdateLock, BeginFails
<1>4. ASSUME NEW w \in Workers, Burn(w)
      PROVE  db'[s] = db[s]
  BY <1>4, <1>a DEF Burn, BeginFails
<1>5. ASSUME NEW w \in Workers, Receive(w)
      PROVE  db' = db
  BY <1>5, PostEffect, SelectEffect DEF Receive
<1>6. ASSUME NEW w \in Workers,
             \/ Look(w) \/ CommitCreate(w) \/ FetchMeta(w) \/ FetchAuth(w)
             \/ Gate(w) \/ FetchFailure(w) \/ CommitFailure(w) \/ FetchBurned(w)
             \/ CommitBurn(w) \/ Serve(w)
      PROVE  db' = db
  BY <1>6 DEF Look, CommitCreate, FetchMeta, FetchAuth, Gate, FetchFailure,
     CommitFailure, FetchBurned, CommitBurn, Serve, conn
<1>7. ASSUME Sweeper \/ Tick \/ UNCHANGED vars
      PROVE  db'[s] = db[s]
  BY <1>7 DEF Sweeper, LookSweep, Purge, BeginFails, Purged, CommitPurge,
     Checkpoint, Vacuum, Wake, Tick, vars, conn
<1> QED
  BY <1>0, <1>1, <1>2, <1>3, <1>4, <1>5, <1>6, <1>7 DEF Next, Progress

\* How a thread moves through register_failure.
LEMMA FailerEffect ==
  ASSUME TypeInv, NEW w \in Workers, Receive(w) \/ Progress(w),
         req'[w].at \in FailPoints, req'[w].row # Null
  PROVE  /\ req'[w].slug = req[w].slug
         /\ \/ req'[w].at = "fail_fetch" /\ db'[req[w].slug] = req'[w].row
            \/ /\ req[w].at \in FailPoints /\ req'[w].row = req[w].row
               /\ db' = db
               /\ req'[w].at = "fail_commit" /\ req[w].row.fails >= MaxAttempts
                    => req[w].at = "fail_commit"
            \/ /\ req'[w].row = req[w].row
               /\ now' = now
               /\ \/ db'[req[w].slug] = Null
                  \/ db'[req[w].slug].locked = now + LockTime
<1> USE DEF FailPoints
<1>a. /\ db \in [Slugs -> Row \cup {Null}] /\ req[w].row \in Row \cup {Null}
      /\ req[w].at # "idle" => req[w].slug \in Slugs
  BY DEF TypeInv, TypeOK, Table, LocalsOK, Request
<1>1. ~Receive(w) /\ ~Answer(w)
  BY PostEffect, SelectEffect, AnswerEffect DEF Receive, Idle
<1>2. CASE Look(w)
  BY <1>2, LookEffect DEF Look, conn
<1>3. CASE UpdateFailure(w)
  <2>1. PICK row : Goto(w, "fail_fetch", row)
                   /\ (row = Null \/ db' = [db EXCEPT ![req[w].slug] = row])
    BY <1>1, <1>3 DEF UpdateFailure
  <2> QED
    BY <1>3, <1>a, <2>1, GotoEffect DEF UpdateFailure
<1>4. CASE FetchFailure(w)
  <2>1. req[w].at = "fail_fetch" /\ db' = db
    BY <1>4 DEF FetchFailure, conn
  <2>2. CASE req[w].row # Null /\ req[w].row.fails >= MaxAttempts
    BY <1>4, <2>1, <2>2, GotoEffect DEF FetchFailure
  <2>3. CASE ~(req[w].row # Null /\ req[w].row.fails >= MaxAttempts)
    BY <1>4, <2>1, <2>3, GotoEffect DEF FetchFailure
  <2> QED
    BY <2>2, <2>3
<1>5. CASE UpdateLock(w)
  <2> DEFINE s == req[w].slug
  <2>1. /\ Goto(w, "fail_commit", req[w].row) /\ s \in Slugs
        /\ now' = now
        /\ db' = IF db[s] = Null THEN db ELSE [db EXCEPT ![s] = LockRow(db[s])]
    BY <1>1, <1>5, <1>a DEF UpdateLock
  <2>2. db[s] # Null => LockRow(db[s]).locked = now + LockTime
    BY <1>a, <2>1 DEF LockRow, Row
  <2>3. db'[s] = Null \/ db'[s].locked = now + LockTime
    BY <1>a, <2>1, <2>2
  <2> QED
    BY <2>1, <2>3, GotoEffect
<1>6. CASE \E point \in Points \ FailPoints : \E row : Goto(w, point, row)
  BY <1>6, GotoEffect
<1> QED
  BY <1>1, <1>2, <1>3, <1>4, <1>5, <1>6 DEF Progress, Insert, CommitCreate,
     FetchMeta, FetchAuth, Gate, CommitFailure, Burn, FetchBurned, CommitBurn,
     Serve, Points, Writes, Commits

LEMMA LocksNext ==
  ASSUME Inv, LocksBounded, [Next]_vars, ~Crash
  PROVE  LocksBounded'
<1>t. TypeInv
  BY DEF Inv
<1>n. now \in Nat /\ now' \in Nat /\ now <= now'
  BY <1>t, HistoryEffect, StepTypes DEF TypeInv, TypeOK
<1>a. /\ db \in [Slugs -> Row \cup {Null}] /\ disk \in [Slugs -> Row \cup {Null}]
      /\ \A w \in Workers : req[w].row \in Row \cup {Null}
  BY <1>t DEF TypeInv, TypeOK, Table, Request
<1>b. /\ now + LockTime <= now' + LockTime
      /\ \A row \in Row :
           row.locked <= now + LockTime => row.locked <= now' + LockTime
  <2>1. \A m, n \in Nat : m <= n =>
          /\ m + LockTime <= n + LockTime
          /\ \A row \in Row : row.locked <= m + LockTime => row.locked <= n + LockTime
    BY DEF Row
  <2> QED
    BY <1>n, <2>1
<1>1. ASSUME NEW s \in Slugs, db'[s] # Null
      PROVE  db'[s].locked <= now' + LockTime
  <2>1. CASE db[s] # Null /\ db'[s].locked = db[s].locked
    <3>1. db[s] \in Row /\ db[s].locked <= now + LockTime
      BY <2>1, <1>a DEF LocksBounded
    <3>2. db[s].locked <= now' + LockTime
      BY <3>1, <1>b
    <3> QED
      BY <2>1, <3>2
  <2>2. CASE db'[s].locked = now + LockTime
    BY <2>2, <1>b
  <2>3. CASE \E u \in Workers : req[u].at = "insert" /\ db'[s] = req[u].row
    BY <1>1, <2>3, <1>a, <1>b DEF LocksBounded
  <2> QED
    BY <1>t, <1>1, <2>1, <2>2, <2>3, ColumnEffect
<1>2. ASSUME NEW s \in Slugs, disk'[s] # Null
      PROVE  disk'[s].locked <= now' + LockTime
  <2>1. CASE disk' = disk
    BY <1>2, <2>1, <1>a, <1>b DEF LocksBounded
  <2> QED
    BY <1>1, <1>2, <2>1, AckEffect
<1>3. ASSUME NEW w \in Workers, req'[w].row # Null
      PROVE  req'[w].row.locked <= now' + LockTime
  <2>1. CASE req'[w] = req[w]
    BY <1>3, <2>1, <1>a, <1>b DEF LocksBounded
  <2>2. CASE PostSecret(w)
    BY <1>t, <2>2, <1>n, PostEffect
  <2>3. CASE (Receive(w) \/ Progress(w)) /\ ~PostSecret(w)
    <3>1. PICK old \in Row : /\ req'[w].row.locked = old.locked
                             /\ \/ old = req[w].row
                                \/ \E s \in Slugs : old = db[s]
      BY <1>t, <1>3, <2>3, RowEffect
    <3> QED
      BY <3>1, <1>b DEF LocksBounded
  <2> QED
    BY <1>t, <2>1, <2>2, <2>3, LocalsStep
<1> QED
  BY <1>1, <1>2, <1>3 DEF LocksBounded

LEMMA UnreadNext ==
  ASSUME Inv, RowsMatch, Unread, [Next]_vars, ~Crash
  PROVE  Unread'
<1>t. TypeInv
  BY DEF Inv
<1> SUFFICES ASSUME NEW u \in Workers, NEW w \in Workers,
                    req'[u].at = "insert", u # w, req'[w].row # Null
             PROVE  req'[w].row.blob # req'[u].row.blob
  BY DEF Unread
<1>1. \A v \in Workers : req[v].row # Null => posted[req[v].row.blob] # Null
  BY DEF RowsMatch, Matches
<1>2. \A v \in Workers : req[v].at = "insert" => req[v].row \in Row
  BY <1>t DEF TypeInv, LocalsOK
<1>3. CASE PostSecret(u)
  <2>1. req'[w] = req[w] /\ posted[req'[u].row.blob] = Null
    BY <1>t, <1>3, PostEffect
  <2> QED
    BY <1>1, <2>1
<1>4. ASSUME ~PostSecret(u)
      PROVE  req[u].at = "insert" /\ req'[u].row = req[u].row
  <2>1. req'[u].row # Null
    BY <1>t, StepTypes DEF TypeInv, LocalsOK
  <2> QED
    BY <1>t, <1>4, <2>1, LocalsStep, RowEffect
<1>5. CASE PostSecret(w) /\ ~PostSecret(u)
  <2>1. posted[req'[w].row.blob] = Null
    BY <1>t, <1>5, PostEffect
  <2> QED
    BY <1>1, <1>2, <1>4, <1>5, <2>1
<1>6. CASE ~PostSecret(w) /\ ~PostSecret(u)
  <2>1. CASE req'[w] = req[w]
    BY <1>4, <1>6, <2>1 DEF Unread
  <2>2. CASE Receive(w) \/ Progress(w)
    <3>1. PICK old \in Row : /\ req'[w].row.blob = old.blob
                             /\ \/ old = req[w].row
                                \/ \E s \in Slugs : old = db[s]
      BY <1>t, <1>6, <2>2, RowEffect
    <3>2. CASE old = req[w].row
      BY <1>4, <1>6, <3>1, <3>2 DEF Unread
    <3>3. CASE \E s \in Slugs : old = db[s]
      <4>1. old.blob \in Stored(db)
        BY <3>1, <3>3 DEF Stored
      <4>2. req[u].row.blob \in Blobs /\ Carries(u, req[u].row.blob)
        BY <1>2, <1>4, <1>6 DEF Row, Carries
      <4>3. req[u].row.blob \notin Stored(db)
        BY <4>2 DEF Inv, Custody
      <4> QED
        BY <1>4, <1>6, <3>1, <4>1, <4>3
    <3> QED
      BY <3>1, <3>2, <3>3
  <2> QED
    BY <1>t, <2>1, <2>2, LocalsStep
<1> QED
  BY <1>3, <1>5, <1>6

LEMMA FailuresNext ==
  ASSUME Inv, FailInv, [Next]_vars, ~Crash
  PROVE  FailuresKept'
<1>t. TypeInv /\ TypeInv'
  BY StepTypes DEF Inv
<1> SUFFICES ASSUME NEW w \in Workers,
                    req'[w].at \in FailPoints, req'[w].row # Null,
                    db'[req'[w].slug] # Null,
                    db'[req'[w].slug].blob = req'[w].row.blob
             PROVE  /\ Remembers(db'[req'[w].slug], req'[w].row)
                    /\ req'[w].at = "fail_commit" /\ req'[w].row.fails >= MaxAttempts
                         => db'[req'[w].slug].locked > 0
  BY DEF FailuresKept, Remembers
<1> DEFINE s == req'[w].slug
           row == req'[w].row
<1>a. /\ s \in Slugs /\ db'[s] \in Row /\ row \in Row
      /\ row.fails \in Nat /\ db'[s].fails \in Nat
      /\ row.locked \in Nat /\ db'[s].locked \in Nat
      /\ now \in Nat /\ LockTime > 0
  BY <1>t DEF TypeInv, TypeOK, LocalsOK, Table, Request, Row, FailPoints
<1>b. ASSUME now' = now, db'[s].locked = now + LockTime
      PROVE  Remembers(db'[s], row) /\ db'[s].locked > 0
  <2>1. row.locked <= now' + LockTime
    BY LocksNext DEF FailInv, LocksBounded
  <2> QED
    BY <1>a, <1>b, <2>1 DEF Remembers
<1>1. CASE db'[s] = row /\ req'[w].at = "fail_fetch"
  BY <1>a, <1>1 DEF Remembers
<1>2. CASE now' = now /\ db'[s].locked = now + LockTime
  BY <1>b, <1>2
<1>3. ASSUME /\ req[w].at \in FailPoints /\ req[w].row = row /\ req[w].slug = s
             /\ req'[w].at = "fail_commit" /\ row.fails >= MaxAttempts
                  => req[w].at = "fail_commit",
             ~(now' = now /\ db'[s].locked = now + LockTime)
      PROVE  /\ Remembers(db'[s], row)
             /\ req'[w].at = "fail_commit" /\ row.fails >= MaxAttempts
                  => db'[s].locked > 0
  <2>1. \A u \in Workers : req[u].at = "insert" => db'[s] # req[u].row
    BY <1>3 DEF FailInv, Unread, FailPoints
  <2>2. /\ db[s] # Null /\ db'[s].blob = db[s].blob
        /\ db'[s].fails >= db[s].fails /\ db'[s].locked = db[s].locked
    BY <1>t, <1>a, <1>3, <2>1, ColumnEffect
  <2>3. db[s].fails \in Nat
    BY <1>t, <1>a, <2>2 DEF TypeInv, TypeOK, Table, Row
  <2>4. /\ Remembers(db[s], row)
        /\ req[w].at = "fail_commit" /\ row.fails >= MaxAttempts => db[s].locked > 0
    BY <1>3, <2>2 DEF FailInv, FailuresKept
  <2> QED
    BY <1>a, <1>3, <2>2, <2>3, <2>4 DEF Remembers
<1>4. CASE req'[w] = req[w]
  BY <1>2, <1>3, <1>4
<1>5. CASE Receive(w) \/ Progress(w)
  BY <1>t, <1>1, <1>2, <1>3, <1>5, FailerEffect
<1> QED
  BY <1>t, <1>4, <1>5, LocalsStep

LEMMA FailNext ==
  ASSUME Inv, RowsMatch, FailInv, [Next]_vars
  PROVE  FailInv'
<1>1. CASE Crash
  <2>1. /\ now' = now /\ db' = disk /\ disk' = disk
        /\ \A w \in Workers : req'[w] = Idle
    BY <1>1 DEF Crash
  <2> QED
    BY <2>1 DEF FailInv, LocksBounded, Unread, FailuresKept, FailPoints, Idle
<1> QED
  BY <1>1, LocksNext, UnreadNext, FailuresNext DEF FailInv

\* The commit that ends a transaction carries every failure counted in it.
LEMMA CommitKeeps ==
  ASSUME Inv, FailInv, NEW w \in Workers,
         CommitFailure(w), ~inTx', req[w].row # Null
  PROVE  LET row  == req[w].row
             kept == disk'[req[w].slug] IN
         kept = Null \/ kept.blob # row.blob \/ Counted(row, kept)
<1>1. disk' = db
  BY DEF CommitFailure, Commit, CommitFails, Inv, Custody
<1>2. req[w].at = "fail_commit"
  BY DEF CommitFailure
<1> QED
  BY <1>1, <1>2 DEF FailInv, FailuresKept, FailPoints, Remembers, Counted

\* Every failure that was answered 403 or 429 is in the file, or the secret is
\* gone, whichever threads counted, locked and committed in between.
THEOREM FailuresAreDurable == Spec => FailureDurable
<1>1. Init => FailInv
  BY DEF Init, FailInv, LocksBounded, Unread, FailuresKept, FailPoints, Idle
<1>2. Inv /\ RowsMatch /\ FailInv /\ [Next]_vars => FailInv'
  BY FailNext
<1>3. Inv /\ FailInv /\ [Next]_vars =>
        [\A w \in Workers :
           LET row == req[w].row
               kept == disk'[req[w].slug] IN
           CommitFailure(w) /\ ~inTx' /\ row # Null
           => kept = Null \/ kept.blob # row.blob \/ Counted(row, kept)]_vars
  BY CommitKeeps
<1> QED
  BY <1>1, <1>2, <1>3, RowsAlways, PTL DEF Spec, FailureDurable
----------------------------------------------------------------------------
(* SecretStore implements OneTimeSecret.                                   *)

\* A step that takes no time and neither offers, seals nor releases may only
\* lose secrets.
LEMMA LoseFrame ==
  ASSUME Inv, UNCHANGED <<now, posted, served>>,
         \A b \in Blobs : (Pending(b)' => Pending(b)) /\ (Alive(b)' => Alive(b))
  PROVE  Abstract!Next
<1> DEFINE B == {b \in Blobs : Phase(b)' # Phase(b)}
<1>1. \A b \in Blobs : Pending(b) => ~Alive(b)
  BY DEF Inv, Custody, Carries, Holds, Pending, Alive
<1>0. \A b \in Blobs : served[b] > 0 => ~Alive(b)
  BY DEF Inv, Custody, Carries, Holds, Alive
<1>2. \A b \in B : Phase(b) \in {"offered", "sealed"} /\ Phase(b)' = "gone"
  BY <1>0, <1>1 DEF Phase
<1>3. [b \in Blobs |-> Phase(b)]' =
        [b \in Blobs |-> IF b \in B THEN "gone" ELSE Phase(b)]
  BY <1>2
<1>4. Abstract!Lose(B)
  BY <1>2, <1>3 DEF Abstract!Lose
<1> QED
  BY <1>4 DEF Abstract!Next

\* How it leaves the server.
Releases(w) == Serve(w) /\ req[w].row # Null /\ ~Expired(req[w].row)

LEMMA SealStep ==
  ASSUME Inv, NEW w \in Workers, Inserts(w)
  PROVE  Abstract!Next
<1>a. /\ req \in [Workers -> Request] /\ db \in [Slugs -> Row \cup {Null}]
      /\ req[w].slug \in Slugs /\ req[w].row # Null /\ req[w].row.blob \in Blobs
  <2>1. req[w].slug \in Slugs /\ req[w].row \in Row
    BY DEF Inv, TypeInv, LocalsOK, Inserts
  <2>2. req[w].row.blob \in Blobs
    BY <2>1 DEF Row
  <2>3. req[w].row # Null
    BY <2>1
  <2> QED
    BY <2>1, <2>2, <2>3 DEF Inv, TypeInv, TypeOK, Table
<1>b. PICK b \in Blobs, s \in Slugs : b = req[w].row.blob /\ s = req[w].slug
  BY <1>a
<1>1. /\ req'[w].at = "create_commit"
      /\ \A u \in Workers \ {w} : req'[u] = req[u]
  BY GotoEffect DEF Inserts, Inv
<1>2. /\ posted[b] # Null /\ served[b] = 0 /\ Pending(b) /\ ~Alive(b)
      /\ \A u \in Workers \ {w} : ~Carries(u, b)
  BY <1>b DEF Inv, Custody, Carries, Holds, Pending, Alive, Inserts
<1>3. /\ db'[s] = req[w].row /\ \A t \in Slugs \ {s} : db'[t] = db[t]
      /\ db[s] = Null /\ disk' = disk
  BY <1>a, <1>b DEF Inserts
<1>4. \A c \in Blobs : c \in Stored(db') <=> c = b \/ c \in Stored(db)
  BY <1>a, <1>b, <1>3, StoredIff
<1>5. \A c \in Blobs : \A u \in Workers : Holds(u, c)' <=> Holds(u, c)
  BY <1>1 DEF Holds, Inserts
<1>6. \A c \in Blobs \ {b} : Pending(c)' <=> Pending(c)
  BY <1>1, <1>b DEF Pending, Inserts
<1>7. ~Pending(b)' /\ Alive(b)'
  <2>1. ~Pending(b)'
    BY <1>1, <1>2 DEF Pending, Carries
  <2> QED
    BY <2>1, <1>4 DEF Alive
<1>8. \A c \in Blobs \ {b} : Alive(c)' <=> Alive(c)
  BY <1>3, <1>4, <1>5 DEF Alive
<1>9. UNCHANGED <<now, posted, served>>
  BY DEF Inserts
<1>10. Phase(b) = "offered" /\ Phase(b)' = "sealed"
  BY <1>2, <1>7, <1>9 DEF Phase
<1>11. \A c \in Blobs \ {b} : Phase(c)' = Phase(c)
  BY <1>6, <1>8, <1>9 DEF Phase
<1>12. Abstract!Seal(b)
  BY <1>9, <1>10, <1>11 DEF Abstract!Seal
<1> QED
  BY <1>12 DEF Abstract!Next

LEMMA ReleaseStep ==
  ASSUME Inv, RowsMatch, NEW w \in Workers, Releases(w)
  PROVE  Abstract!Next
<1>a. /\ req \in [Workers -> Request] /\ served \in [Blobs -> Nat]
      /\ req[w].row \in Row /\ req[w].row.blob \in Blobs
      /\ now \in Nat /\ req[w].row.expires \in Nat
  BY DEF Inv, TypeInv, TypeOK, Releases, Serve, Request, Row
<1>b. PICK b \in Blobs : b = req[w].row.blob
  BY <1>a
<1>1. Answer(w) /\ UNCHANGED <<now, db, disk, posted>> /\ Holds(w, b)
  BY <1>b DEF Releases, Serve, conn, Holds
<1>2. req'[w].at = "idle" /\ \A u \in Workers \ {w} : req'[u] = req[u]
  BY <1>1, AnswerEffect DEF Inv, Idle
<1>3. /\ posted[b] # Null /\ served[b] = 0 /\ Alive(b) /\ ~Pending(b)
      /\ req[w].at # "insert"
  BY <1>1 DEF Inv, Custody, Carries, Holds, Pending, Alive
<1>4. served'[b] = 1 /\ \A c \in Blobs \ {b} : served'[c] = served[c]
  BY <1>a, <1>b, <1>3 DEF Releases, Serve
<1>5. \A c \in Blobs \ {b} : \A u \in Workers : Holds(u, c)' <=> Holds(u, c)
  BY <1>2, <1>b DEF Holds
<1>6. \A c \in Blobs \ {b} : (Pending(c)' <=> Pending(c)) /\ (Alive(c)' <=> Alive(c))
  BY <1>1, <1>2, <1>3, <1>5 DEF Pending, Alive, Stored
<1>7. \A c \in Blobs \ {b} : Phase(c)' = Phase(c)
  BY <1>1, <1>4, <1>6 DEF Phase
<1>8. Phase(b) = "sealed" /\ Phase(b)' = "released"
  <2>1. Phase(b) = "sealed"
    BY <1>3 DEF Phase
  <2>2. posted'[b] # Null /\ served'[b] > 0
    BY <1>1, <1>3, <1>4
  <2>3. ~Alive(b)'
    <3>1. b \notin Stored(db) \cup Stored(disk)
      BY <1>1 DEF Inv, Custody, Carries, Holds, Releases, Serve
    <3>2. \A u \in Workers : ~Holds(u, b)'
      BY <1>1, <1>2 DEF Inv, Custody, Carries, Holds
    <3> QED
      BY <1>1, <3>1, <3>2 DEF Alive, Stored
  <2> QED
    BY <2>1, <2>2, <2>3 DEF Phase
<1>9. now < posted[b].expires
  BY <1>a, <1>b DEF Releases, Expired, RowsMatch, Matches
<1>10. Abstract!Release(b)
  BY <1>1, <1>3, <1>7, <1>8, <1>9 DEF Abstract!Release
<1> QED
  BY <1>10 DEF Abstract!Next

LEMMA OfferStep ==
  ASSUME Inv, NEW w \in Workers, PostSecret(w)
  PROVE  Abstract!Next
<1>b. PICK b \in Blobs, t \in Lifetimes :
        /\ posted[b] = Null
        /\ posted'[b] # Null /\ posted'[b].expires = now + t
        /\ \A c \in Blobs \ {b} : posted'[c] = posted[c]
        /\ req'[w].at = "insert" /\ req'[w].row.blob = b
        /\ \A u \in Workers \ {w} : req'[u] = req[u]
        /\ UNCHANGED <<now, db, disk, served>>
  BY PostEffect DEF Inv
<1>c. req[w].at = "idle"
  BY DEF PostSecret
<1>1. served[b] = 0
  BY <1>b DEF Inv, Custody
<1>2. \A c \in Blobs : \A u \in Workers : Holds(u, c)' <=> Holds(u, c)
  BY <1>b, <1>c DEF Holds
<1>3. \A c \in Blobs \ {b} : (Pending(c)' <=> Pending(c)) /\ (Alive(c)' <=> Alive(c))
  BY <1>b, <1>c, <1>2 DEF Pending, Alive, Stored
<1>4. Pending(b)'
  BY <1>b DEF Pending
<1>5. Phase(b) = "unborn" /\ Phase(b)' = "offered"
  <2>1. Phase(b) = "unborn"
    BY <1>b DEF Phase
  <2>2. posted'[b] # Null /\ served'[b] = 0
    BY <1>b, <1>1
  <2> QED
    BY <2>1, <2>2, <1>4 DEF Phase
<1>6. \A c \in Blobs \ {b} : Phase(c)' = Phase(c)
  BY <1>b, <1>3 DEF Phase
<1>7. Abstract!Offer(b, t)
  BY <1>b, <1>5, <1>6 DEF Abstract!Offer
<1> QED
  BY <1>7 DEF Abstract!Next

LEMMA TickStep ==
  ASSUME Tick
  PROVE  Abstract!Next
<1>1. now' = now + 1 /\ UNCHANGED <<db, disk, req, posted, served>>
  BY DEF Tick, conn, history
<1>2. \A b \in Blobs : (Pending(b)' <=> Pending(b)) /\ (Alive(b)' <=> Alive(b))
  BY <1>1 DEF Pending, Alive, Holds, Stored
<1>3. \A b \in Blobs : Phase(b)' = Phase(b)
  BY <1>1, <1>2 DEF Phase
<1>4. Abstract!Tick
  BY <1>1, <1>3 DEF Abstract!Tick
<1> QED
  BY <1>4 DEF Abstract!Next

\* A thread comes to hold a row by the DELETE.
LEMMA HolderEffect ==
  ASSUME TypeInv, NEW w \in Workers, Receive(w) \/ Progress(w),
         NEW b \in Blobs, Holds(w, b)'
  PROVE  /\ req'[w].slug = req[w].slug /\ req'[w].proof = req[w].proof
         /\ \/ Holds(w, b)
            \/ /\ req[w].at = "burn_delete"
               /\ db[req[w].slug] # Null
               /\ db[req[w].slug].blob = b
<1>1. ~Receive(w)
  BY PostEffect, SelectEffect DEF Receive, Holds
<1>2. CASE Look(w)
  BY <1>2, LookEffect DEF Holds
<1>3. CASE Burn(w)
  BY <1>3, GotoEffect, AnswerEffect DEF Burn, Idle, Holds
<1>4. CASE Answer(w)
  BY <1>4, AnswerEffect DEF Idle, Holds
<1>5. CASE FetchBurned(w) \/ CommitBurn(w)
  BY <1>4, <1>5, GotoEffect DEF FetchBurned, CommitBurn, Holds
<1>6. CASE \E point \in Points \ {"burn_fetch", "burn_commit", "burn_check"} :
             \E row : Goto(w, point, row)
  BY <1>6, GotoEffect DEF Holds
<1> QED
  BY <1>1, <1>2, <1>3, <1>4, <1>5, <1>6 DEF Progress, Insert, CommitCreate, FetchMeta,
     FetchAuth, Gate, UpdateFailure, FetchFailure, UpdateLock, CommitFailure, Serve,
     Points, Writes, Commits

\* Every other step only loses secrets, or copies of them.
LEMMA QuietStep ==
  ASSUME Inv, [Next]_vars, ~Tick,
         \A w \in Workers : ~PostSecret(w) /\ ~Inserts(w) /\ ~Releases(w)
  PROVE  /\ UNCHANGED <<now, posted, served>>
         /\ \A b \in Blobs : (Pending(b)' => Pending(b)) /\ (Alive(b)' => Alive(b))
<1>t. TypeInv /\ TypeInv'
  BY StepTypes DEF Inv
<1>1. UNCHANGED <<now, posted, served>>
  <2>1. ASSUME NEW w \in Workers, SelectMeta(w) \/ SelectAuth(w)
        PROVE  UNCHANGED <<now, posted, served>>
    BY <1>t, <2>1, SelectEffect
  <2>2. ASSUME NEW w \in Workers, Serve(w)
        PROVE  UNCHANGED <<now, posted, served>>
    BY <2>2 DEF Serve, Releases
  <2>3. ASSUME NEW w \in Workers, Progress(w), ~Serve(w)
        PROVE  UNCHANGED <<now, posted, served>>
    BY <2>3 DEF Progress, Look, Insert, CommitCreate, FetchMeta, FetchAuth, Gate,
       UpdateFailure, FetchFailure, UpdateLock, CommitFailure, Burn, FetchBurned,
       CommitBurn, history
  <2>4. CASE Sweeper \/ Crash \/ UNCHANGED vars
    BY <2>4 DEF Sweeper, LookSweep, Purge, CommitPurge, Checkpoint, Vacuum, Wake,
       Crash, vars, history
  <2> QED
    BY <2>1, <2>2, <2>3, <2>4 DEF Next, Receive
<1>2. CASE Crash
  <2>1. db' = disk /\ disk' = disk /\ \A w \in Workers : req'[w] = Idle
    BY <1>2 DEF Crash
  <2>2. \A b \in Blobs : ~Pending(b)' /\ \A w \in Workers : ~Holds(w, b)'
    BY <2>1 DEF Pending, Holds, Idle
  <2> QED
    BY <1>1, <2>1, <2>2 DEF Alive, Stored
<1>3. ASSUME ~Crash, NEW b \in Blobs
      PROVE  (Pending(b)' => Pending(b)) /\ (Alive(b)' => Alive(b))
  <2>1. ASSUME NEW s \in Slugs, db'[s] # Null
        PROVE  db[s] # Null /\ db'[s].blob = db[s].blob
    BY <1>t, <1>3, <2>1, ColumnEffect
  <2>2. b \in Stored(db') => b \in Stored(db)
    BY <2>1, StoredIff
  <2>3. disk' = disk \/ disk' = db'
    BY <1>3, AckEffect
  <2>4. ASSUME NEW w \in Workers, Holds(w, b)'
        PROVE  Holds(w, b) \/ b \in Stored(db)
    <3>1. CASE req'[w] = req[w]
      BY <2>4, <3>1 DEF Holds
    <3>2. CASE Receive(w) \/ Progress(w)
      <4>1. req[w].at = "burn_delete" => req[w].slug \in Slugs
        BY <1>t DEF TypeInv, LocalsOK
      <4> QED
        BY <1>t, <2>4, <3>2, <4>1, HolderEffect, StoredIff
    <3> QED
      BY <1>t, <1>3, <3>1, <3>2, LocalsStep
  <2>5. ASSUME NEW w \in Workers, req'[w].at = "insert", req'[w].row.blob = b
        PROVE  Pending(b)
    <3>1. req'[w].row # Null
      <4>1. req'[w].row \in Row
        BY <1>t, <2>5 DEF TypeInv, LocalsOK
      <4> QED
        BY <4>1
    <3>2. req[w].at = "insert" /\ req[w].row.blob = b
      BY <1>t, <1>3, <2>5, <3>1, LocalsStep, RowEffect
    <3> QED
      BY <3>2 DEF Pending
  <2>6. Pending(b)' => Pending(b)
    BY <2>5 DEF Pending
  <2>7. b \in Stored(disk') => b \in Stored(db) \cup Stored(disk)
    BY <2>2, <2>3
  <2>8. Alive(b)' => Alive(b)
    BY <2>2, <2>4, <2>7 DEF Alive
  <2> QED
    BY <2>6, <2>8
<1> QED
  BY <1>1, <1>2, <1>3

LEMMA RefinesNext ==
  ASSUME Inv, RowsMatch, [Next]_vars
  PROVE  Abstract!Next
BY TickStep, OfferStep, SealStep, ReleaseStep, QuietStep, LoseFrame

LEMMA RefinesInit == Init => Abstract!Init
<1> SUFFICES ASSUME Init PROVE Abstract!Init
  OBVIOUS
<1>1. now = 0 /\ \A b \in Blobs : posted[b] = Null
  BY DEF Init
<1>2. [b \in Blobs |-> Phase(b)] = [b \in Blobs |-> "unborn"]
  BY <1>1 DEF Phase
<1> QED
  BY <1>1, <1>2 DEF Abstract!Init

\* SecretStore implements OneTimeSecret: whatever the threads, the sweeper and
\* restarts do to the one connection, a secret is answered at most once, before
\* its deadline, and what was answered or lost never comes back.
THEOREM ImplementsOneTimeSecret == Spec => RefinesOneTimeSecret
<1>1. Init => Abstract!Init
  BY RefinesInit
<1>2. Inv /\ RowsMatch /\ [Next]_vars => [Abstract!Next]_(Abstract!vars)
  BY RefinesNext
<1> QED
  BY <1>1, <1>2, RowsAlways, PTL DEF Spec, RefinesOneTimeSecret
=============================================================================
