---------------------------- MODULE SecretStore ----------------------------
(***************************************************************************)
(* The server side of secret.cynderlab.com: the secrets table, the one     *)
(* SQLite connection every thread shares, the API handlers that run on a   *)
(* thread pool and the sweeper that purges expired rows.                   *)
(*                                                                         *)
(* app/main.py opens a single connection (check_same_thread=False) and     *)
(* FastAPI runs the plain "def" handlers of app/api.py on worker threads,  *)
(* so the handlers interleave between any two calls they make on that      *)
(* connection.  A step of this module is one such call: an execute, a      *)
(* fetchone, a commit, or the code between two of them.  The threads share *)
(* ONE transaction: the first INSERT, UPDATE or DELETE opens it, whoever   *)
(* made it, and the next successful commit closes it for everybody.        *)
(* Python's sqlite3 first looks whether a transaction is open and then     *)
(* sends BEGIN or COMMIT, releasing the GIL in between: these are two      *)
(* steps.                                                                  *)
(*                                                                         *)
(* Abstracted: a blob stands for a ciphertext with its nonce, a verifier   *)
(* for its sha256, a time is a whole number of ticks (the code compares    *)
(* ISO strings with one-second resolution).  Requests refused before they  *)
(* reach the database (validation, rate limit) change no state here.       *)
(***************************************************************************)
EXTENDS Integers

CONSTANTS
  Workers,        \* threads of the pool that run the handlers
  Slugs,          \* primary keys of the table
  Blobs,          \* encrypted secrets clients may post, each posted once
  Verifiers,      \* proofs of passphrase
  Null,           \* SQL NULL, JSON null, None
  Malformed,      \* a verifier that is not valid base64url
  MaxAttempts,    \* store.MAX_ATTEMPTS
  LockTime,       \* store.LOCK_MINUTES, in ticks
  Lifetimes,      \* ticks a client may ask a secret to live
  EndOfTime,      \* bound: the clock stops here
  FailBound,      \* bound: nobody tries a slug that has counted so many
  MayCrash        \* may the process crash and be restarted?

ASSUME MaxAttemptsAssumption == MaxAttempts \in Nat \ {0}
ASSUME LockTimeAssumption    == LockTime \in Nat \ {0}
ASSUME LifetimesAssumption   == Lifetimes \subseteq Nat \ {0}
ASSUME EndOfTimeAssumption   == EndOfTime \in Nat
ASSUME FailBoundAssumption   == FailBound \in Nat
ASSUME ProofsAssumption      == /\ Null \notin Verifiers
                                /\ Malformed \notin Verifiers \cup {Null}

VARIABLES
  now,      \* utcnow()
  db,       \* the secrets table as the shared connection sees it
  disk,     \* the table as last committed: what a restart finds
  inTx,     \* is the connection inside a transaction?
  req,      \* req[w]: where worker w is in its handler, and its locals
  sweep,    \* where the sweeper task is, and what it has decided
  \* history variables, read by no action's guard except to keep blobs apart
  posted,   \* posted[b]: what the client asked for when it posted b
  served,   \* served[b]: how many responses carried b
  taken,    \* blobs some consume has deleted from db, committed or not
  acked     \* blobs whose create was answered 201

conn    == <<db, disk, inTx>>
history == <<posted, served, taken, acked>>
vars    == <<now, db, disk, inTx, req, sweep, posted, served, taken, acked>>
----------------------------------------------------------------------------
(* Types.                                                                  *)

Gates  == Verifiers \cup {Null}
Proofs == Verifiers \cup {Null, Malformed}

\* A row of table secrets.  has_passphrase is gate # Null; a locked_until
\* that is NULL is 0, which is in the past at every time.
Row   == [blob : Blobs, gate : Gates, expires : Nat, fails : Nat, locked : Nat]
Table == [Slugs -> Row \cup {Null}]

\* The program points of the handlers, named for the call that comes next.
Writes  == {"insert", "fail_update", "fail_lock", "burn_delete", "purge"}
Commits == {"create_commit", "fail_commit", "burn_commit", "commit"}
Points  == (Writes \ {"purge"}) \cup (Commits \ {"commit"}) \cup
  {"idle", "meta_fetch", "auth_fetch", "gate", "fail_fetch", "burn_fetch",
   "burn_check"}

\* decided: the driver has looked at the transaction and is about to send
\* BEGIN (before a write) or COMMIT.
Request == [at : Points, slug : Slugs \cup {Null}, proof : Proofs,
            row : Row \cup {Null}, decided : BOOLEAN]
Idle    == [at |-> "idle", slug |-> Null, proof |-> Null, row |-> Null,
            decided |-> FALSE]

SweepPoints == {"purge", "commit", "checkpoint", "vacuum", "sleep", "dead"}
Task        == [at : SweepPoints, decided : BOOLEAN]

Posting == [slug : Slugs, gate : Gates, expires : Nat]

ASSUME NullAssumption == Null \notin Slugs \cup Row \cup Posting
----------------------------------------------------------------------------
(* The shared connection.                                                  *)

Stored(table) == {table[s].blob : s \in {t \in Slugs : table[t] # Null}}

\* Between execute and fetchone a statement that produced a row is active.
OpenRead(w)  == req[w].at \in {"meta_fetch", "auth_fetch"} /\ req[w].row # Null
OpenWrite(w) == req[w].at \in {"fail_fetch", "burn_fetch"} /\ req[w].row # Null

\* The driver looks: with no transaction open it will BEGIN one before the
\* write, with one open commit() will send COMMIT.
LooksAt(point) ==
  (point \in Writes /\ ~inTx) \/ (point \in Commits /\ inTx)

\* The write of a thread t runs (and the transaction is open after it), or its
\* BEGIN raises because another thread's BEGIN came first.
Runs(t)       == t.decided # inTx /\ inTx' = TRUE
BeginFails(t) == t.decided /\ inTx /\ UNCHANGED <<db, inTx>>

\* commit() outside a transaction does nothing.
Commit(t) ==
  \/ /\ t.decided /\ inTx
     /\ \A w \in Workers : ~OpenWrite(w)
     /\ disk' = db
     /\ inTx' = FALSE
  \/ /\ ~t.decided /\ ~inTx
     /\ UNCHANGED <<disk, inTx>>

\* COMMIT raises while a statement that writes is active, and when another
\* thread's COMMIT came first.
CommitFails(t) ==
  /\ t.decided
  /\ inTx => \E w \in Workers : OpenWrite(w)
  /\ UNCHANGED <<disk, inTx>>

\* The handler returns or raises: the response goes out and the thread is free.
Answer(w) == req' = [req EXCEPT ![w] = Idle]

Goto(w, point, row) ==
  req' = [req EXCEPT ![w] = [@ EXCEPT !.at = point, !.row = row,
                                      !.decided = FALSE]]

Look(w) ==
  /\ LooksAt(req[w].at) /\ ~req[w].decided
  /\ req' = [req EXCEPT ![w].decided = TRUE]
  /\ UNCHANGED <<now, conn, sweep, history>>

Expired(row) == row.expires <= now
----------------------------------------------------------------------------
(* POST /api/secrets/encrypted                                             *)

\* The body is valid, the expiry lies in the future; the INSERT comes next.
\* The client names the slug, and any slug without a row is as good as new.
PostSecret(w) ==
  /\ req[w].at = "idle"
  /\ \E b \in Blobs, s \in Slugs, g \in Gates, t \in Lifetimes :
       /\ posted[b] = Null
       /\ posted' = [posted EXCEPT ![b] =
                       [slug |-> s, gate |-> g, expires |-> now + t]]
       /\ req' = [req EXCEPT ![w] =
            [at |-> "insert", slug |-> s, proof |-> Null,
             row |-> [blob |-> b, gate |-> g, expires |-> now + t,
                      fails |-> 0, locked |-> 0],
             decided |-> FALSE]]
  /\ UNCHANGED <<now, conn, sweep, served, taken, acked>>

\* A duplicate slug raises IntegrityError (409) after BEGIN was sent: nobody
\* rolls back, the transaction stays open.
Insert(w) ==
  LET s == req[w].slug IN
  /\ req[w].at = "insert"
  /\ \/ /\ Runs(req[w])
        /\ db[s] = Null
        /\ db' = [db EXCEPT ![s] = req[w].row]
        /\ Goto(w, "create_commit", req[w].row)
     \/ /\ Runs(req[w])
        /\ db[s] # Null
        /\ UNCHANGED db
        /\ Answer(w)
     \/ BeginFails(req[w]) /\ Answer(w)
  /\ UNCHANGED <<now, disk, sweep, history>>

\* Mutant: 201 although the commit raised.
CommitCreateUnchecked(w) ==
  /\ req[w].at = "create_commit"
  /\ Commit(req[w]) \/ CommitFails(req[w])
  /\ acked' = acked \cup {req[w].row.blob}
  /\ Answer(w)
  /\ UNCHANGED <<now, db, sweep, posted, served, taken>>

CommitCreate(w) ==
  /\ req[w].at = "create_commit"
  /\ \/ Commit(req[w]) /\ acked' = acked \cup {req[w].row.blob}
     \/ CommitFails(req[w]) /\ UNCHANGED acked
  /\ Answer(w)
  /\ UNCHANGED <<now, db, sweep, posted, served, taken>>
----------------------------------------------------------------------------
(* GET /api/secrets/{slug} and the page GET /s/{slug}: store.get_meta.     *)

SelectMeta(w) ==
  /\ req[w].at = "idle"
  /\ \E s \in Slugs :
       req' = [req EXCEPT ![w] = [Idle EXCEPT !.at = "meta_fetch", !.slug = s,
                                              !.row = db[s]]]
  /\ UNCHANGED <<now, conn, sweep, history>>

FetchMeta(w) ==
  /\ req[w].at = "meta_fetch"
  /\ Answer(w)
  /\ UNCHANGED <<now, conn, sweep, history>>
----------------------------------------------------------------------------
(* POST /api/secrets/{slug}/consume                                        *)

SelectAuth(w) ==
  /\ req[w].at = "idle"
  /\ \E s \in Slugs, p \in Proofs :
       /\ db[s] # Null => db[s].fails < FailBound
       /\ req' = [req EXCEPT ![w] =
            [at |-> "auth_fetch", slug |-> s, proof |-> p, row |-> db[s],
             decided |-> FALSE]]
  /\ UNCHANGED <<now, conn, sweep, history>>

\* No row, or an expired one: 404.
FetchAuth(w) ==
  /\ req[w].at = "auth_fetch"
  /\ IF req[w].row = Null \/ Expired(req[w].row)
       THEN Answer(w)
       ELSE Goto(w, "gate", req[w].row)
  /\ UNCHANGED <<now, conn, sweep, history>>

\* Mutant: only a verifier that was supplied is compared.
GateUnproven(w) ==
  LET row == req[w].row IN
  /\ req[w].at = "gate"
  /\ \/ row.locked > now /\ Answer(w)
     \/ /\ row.locked <= now
        /\ \/ /\ req[w].proof \notin {Null, row.gate}
              /\ Goto(w, "fail_update", Null)
           \/ req[w].proof \in {Null, row.gate} /\ Goto(w, "burn_delete", row)
  /\ UNCHANGED <<now, conn, sweep, history>>

\* The decision, taken on the row as it was read: 429 while locked, 422 on a
\* verifier that does not decode, otherwise count a failure or burn.  The row
\* stays in the handler's locals, but nothing looks at it again.
Gate(w) ==
  LET row == req[w].row IN
  /\ req[w].at = "gate"
  /\ \/ row.locked > now /\ Answer(w)
     \/ /\ row.locked <= now
        /\ \/ row.gate = Null /\ Goto(w, "burn_delete", row)
           \/ /\ row.gate # Null
              /\ \/ req[w].proof = Malformed /\ Answer(w)
                 \/ /\ req[w].proof \notin {Malformed, row.gate}
                    /\ Goto(w, "fail_update", Null)
                 \/ /\ req[w].proof = row.gate
                    /\ Goto(w, "burn_delete", row)
  /\ UNCHANGED <<now, conn, sweep, history>>
----------------------------------------------------------------------------
(* store.register_failure                                                  *)

\* Mutant: the column counts down.
CountDown(row) == [row EXCEPT !.fails = @ - 1]

CountFailure(row) == [row EXCEPT !.fails = @ + 1]
LockRow(row)      == [row EXCEPT !.fails = 0, !.locked = now + LockTime]

\* UPDATE ... SET failed_attempts = failed_attempts + 1 ... RETURNING
UpdateFailure(w) ==
  LET s == req[w].slug IN
  /\ req[w].at = "fail_update"
  /\ \/ /\ Runs(req[w])
        /\ db[s] # Null
        /\ db' = [db EXCEPT ![s] = CountFailure(db[s])]
        /\ Goto(w, "fail_fetch", CountFailure(db[s]))
     \/ /\ Runs(req[w])
        /\ db[s] = Null
        /\ UNCHANGED db
        /\ Goto(w, "fail_fetch", Null)
     \/ BeginFails(req[w]) /\ Answer(w)
  /\ UNCHANGED <<now, disk, sweep, history>>

\* Mutant: "more than" for "at least".
FetchFailureOneMore(w) ==
  LET row == req[w].row IN
  /\ req[w].at = "fail_fetch"
  /\ IF row # Null /\ row.fails > MaxAttempts
       THEN Goto(w, "fail_lock", row)
       ELSE Goto(w, "fail_commit", row)
  /\ UNCHANGED <<now, conn, sweep, history>>

FetchFailure(w) ==
  LET row == req[w].row IN
  /\ req[w].at = "fail_fetch"
  /\ IF row # Null /\ row.fails >= MaxAttempts
       THEN Goto(w, "fail_lock", row)
       ELSE Goto(w, "fail_commit", row)
  /\ UNCHANGED <<now, conn, sweep, history>>

\* UPDATE ... SET failed_attempts = 0, locked_until = now + lock
UpdateLock(w) ==
  LET s == req[w].slug IN
  /\ req[w].at = "fail_lock"
  /\ \/ /\ Runs(req[w])
        /\ db' = IF db[s] = Null THEN db ELSE [db EXCEPT ![s] = LockRow(db[s])]
        /\ Goto(w, "fail_commit", req[w].row)
     \/ BeginFails(req[w]) /\ Answer(w)
  /\ UNCHANGED <<now, disk, sweep, history>>

\* 403 with the attempts left, 429 when this failure set the lock, 500 when
\* the commit raises.
CommitFailure(w) ==
  /\ req[w].at = "fail_commit"
  /\ Commit(req[w]) \/ CommitFails(req[w])
  /\ Answer(w)
  /\ UNCHANGED <<now, db, sweep, history>>
----------------------------------------------------------------------------
(* store.consume_secret                                                    *)

\* DELETE FROM secrets WHERE slug = ? RETURNING ...
Burn(w) ==
  LET s == req[w].slug IN
  /\ req[w].at = "burn_delete"
  /\ \/ /\ Runs(req[w])
        /\ db' = [db EXCEPT ![s] = Null]
        /\ taken' = IF db[s] = Null THEN taken ELSE taken \cup {db[s].blob}
        /\ Goto(w, "burn_fetch", db[s])
     \/ BeginFails(req[w]) /\ Answer(w) /\ UNCHANGED taken
  /\ UNCHANGED <<now, disk, sweep, posted, served, acked>>

FetchBurned(w) ==
  /\ req[w].at = "burn_fetch"
  /\ Goto(w, "burn_commit", req[w].row)
  /\ UNCHANGED <<now, conn, sweep, history>>

\* Mutant: the blob is handed on without a commit.
CommitBurnForgotten(w) ==
  /\ req[w].at = "burn_commit"
  /\ Goto(w, "burn_check", req[w].row)
  /\ UNCHANGED <<now, conn, sweep, history>>

\* Mutant: a commit that raises is ignored.
CommitBurnIgnored(w) ==
  /\ req[w].at = "burn_commit"
  /\ Commit(req[w]) \/ CommitFails(req[w])
  /\ Goto(w, "burn_check", req[w].row)
  /\ UNCHANGED <<now, db, sweep, history>>

CommitBurn(w) ==
  /\ req[w].at = "burn_commit"
  /\ \/ Commit(req[w]) /\ Goto(w, "burn_check", req[w].row)
     \/ CommitFails(req[w]) /\ Answer(w)
  /\ UNCHANGED <<now, db, sweep, history>>

\* Mutant: the expiry is not looked at again.
ServeLate(w) ==
  LET row == req[w].row IN
  /\ req[w].at = "burn_check"
  /\ served' = IF row = Null THEN served ELSE [served EXCEPT ![row.blob] = @ + 1]
  /\ Answer(w)
  /\ UNCHANGED <<now, conn, sweep, posted, taken, acked>>

\* The blob leaves the server unless the row is missing or has expired.
Serve(w) ==
  LET row == req[w].row IN
  /\ req[w].at = "burn_check"
  /\ served' = IF row = Null \/ Expired(row)
                 THEN served ELSE [served EXCEPT ![row.blob] = @ + 1]
  /\ Answer(w)
  /\ UNCHANGED <<now, conn, sweep, posted, taken, acked>>
----------------------------------------------------------------------------
(* The sweeper: cleanup.run in a thread, once at startup and then hourly.  *)
(* An exception in it ends the task: nothing catches it.                   *)

\* Mutant: "<" for "<=" in this query alone, so that the others refuse a row
\* that it keeps.
PurgedLate(table) ==
  [s \in Slugs |-> IF table[s] # Null /\ table[s].expires < now THEN Null
                                                                ELSE table[s]]

Purged(table) ==
  [s \in Slugs |-> IF table[s] # Null /\ Expired(table[s]) THEN Null
                                                           ELSE table[s]]

At(point) == [at |-> point, decided |-> FALSE]

LookSweep ==
  /\ LooksAt(sweep.at) /\ ~sweep.decided
  /\ sweep' = [sweep EXCEPT !.decided = TRUE]
  /\ UNCHANGED <<now, conn, req, history>>

Purge ==
  /\ sweep.at = "purge"
  /\ \/ Runs(sweep) /\ db' = Purged(db) /\ sweep' = At("commit")
     \/ BeginFails(sweep) /\ sweep' = At("dead")
  /\ UNCHANGED <<now, disk, req, history>>

CommitPurge ==
  /\ sweep.at = "commit"
  /\ \/ Commit(sweep) /\ sweep' = At("checkpoint")
     \/ CommitFails(sweep) /\ sweep' = At("dead")
  /\ UNCHANGED <<now, db, req, history>>

\* Both the checkpoint and VACUUM raise inside a transaction and while any
\* statement of the connection is active.
Busy == inTx \/ \E w \in Workers : OpenRead(w) \/ OpenWrite(w)

Checkpoint ==
  /\ sweep.at = "checkpoint"
  /\ sweep' = At(IF Busy THEN "dead" ELSE "vacuum")
  /\ UNCHANGED <<now, conn, req, history>>

Vacuum ==
  /\ sweep.at = "vacuum"
  /\ sweep' = At(IF Busy THEN "dead" ELSE "sleep")
  /\ UNCHANGED <<now, conn, req, history>>

Wake ==
  /\ sweep.at = "sleep"
  /\ sweep' = At("purge")
  /\ UNCHANGED <<now, conn, req, history>>
----------------------------------------------------------------------------
(* The environment.                                                        *)

Tick ==
  /\ now < EndOfTime
  /\ now' = now + 1
  /\ UNCHANGED <<conn, req, sweep, history>>

\* The process dies and systemd restarts it: what was not committed is gone,
\* requests in flight are never answered, the lifespan starts a new sweeper.
Crash ==
  /\ MayCrash
  /\ db' = disk
  /\ inTx' = FALSE
  /\ req' = [w \in Workers |-> Idle]
  /\ sweep' = At("purge")
  /\ UNCHANGED <<now, disk, history>>
----------------------------------------------------------------------------
Init ==
  /\ now = 0
  /\ db = [s \in Slugs |-> Null]
  /\ disk = [s \in Slugs |-> Null]
  /\ inTx = FALSE
  /\ req = [w \in Workers |-> Idle]
  /\ sweep = At("purge")
  /\ posted = [b \in Blobs |-> Null]
  /\ served = [b \in Blobs |-> 0]
  /\ taken = {}
  /\ acked = {}

\* What a thread does once a request is in it, up to its response.
Progress(w) ==
  \/ Look(w)
  \/ Insert(w) \/ CommitCreate(w)
  \/ FetchMeta(w)
  \/ FetchAuth(w) \/ Gate(w)
  \/ UpdateFailure(w) \/ FetchFailure(w) \/ UpdateLock(w) \/ CommitFailure(w)
  \/ Burn(w) \/ FetchBurned(w) \/ CommitBurn(w) \/ Serve(w)

Receive(w) == PostSecret(w) \/ SelectMeta(w) \/ SelectAuth(w)

Sweeper == LookSweep \/ Purge \/ CommitPurge \/ Checkpoint \/ Vacuum \/ Wake

Next ==
  \/ \E w \in Workers : Receive(w) \/ Progress(w)
  \/ Sweeper
  \/ Tick
  \/ Crash

Spec == Init /\ [][Next]_vars

\* A thread with a request runs on, and so does the sweeper task; clients,
\* the clock's bound and crashes promise nothing.
Fairness == (\A w \in Workers : WF_vars(Progress(w))) /\ WF_vars(Sweeper)

FairSpec == Spec /\ Fairness
----------------------------------------------------------------------------
(* Properties.                                                             *)

\* Every variable has its type (the columns and locals of the handlers).
TypeOK ==
  /\ now \in Nat
  /\ db \in Table
  /\ disk \in Table
  /\ inTx \in BOOLEAN
  /\ req \in [Workers -> Request]
  /\ sweep \in Task
  /\ posted \in [Blobs -> Posting \cup {Null}]
  /\ served \in [Blobs -> Nat]
  /\ taken \subseteq Blobs
  /\ acked \subseteq Blobs

\* Worker w has deleted b's row and may yet answer with it.
Holds(w, b) ==
  /\ req[w].at \in {"burn_fetch", "burn_commit", "burn_check"}
  /\ req[w].row # Null
  /\ req[w].row.blob = b

\* Worker w is about to insert b's row, or holds it.
Carries(w, b) ==
  \/ Holds(w, b)
  \/ req[w].at = "insert" /\ req[w].row.blob = b

\* No ciphertext leaves the server twice, however consumes, purges, failed
\* commits and restarts interleave (DELETE ... RETURNING, then commit, then
\* the response).
ReadOnce == \A b \in Blobs : served[b] <= 1

\* A secret that was handed out is in no copy of the table that a restart or
\* another request could read, and in no other request's hands: the commit
\* comes before the response.
NoResurrection ==
  \A b \in Blobs : served[b] > 0 =>
    /\ b \notin Stored(db) \cup Stored(disk)
    /\ \A w \in Workers : ~Holds(w, b)

\* What makes both of these inductive: outside a transaction nothing is
\* uncommitted; a blob is in one row at most; a blob in a thread's hands is in
\* the hands of that thread alone, out of the table and not served, and from
\* the commit of its deletion on out of the file as well.
BlobsApart(table) ==
  \A s, t \in Slugs :
    table[s] # Null /\ table[t] # Null /\ table[s].blob = table[t].blob => s = t

Custody ==
  /\ ~inTx => db = disk
  /\ BlobsApart(db) /\ BlobsApart(disk)
  /\ \A b \in Blobs : served[b] > 0 \/ posted[b] = Null =>
       b \notin Stored(db) \cup Stored(disk)
  /\ \A w \in Workers, b \in Blobs : Carries(w, b) =>
       /\ posted[b] # Null /\ served[b] = 0
       /\ b \notin Stored(db)
       /\ req[w].at \in {"insert", "burn_check"} => b \notin Stored(disk)
       /\ \A u \in Workers : Carries(u, b) => u = w
  /\ \A b \in Blobs : posted[b] = Null => served[b] = 0

\* A 201 means durable: the row stays in the committed table until a consume
\* takes it or it expires, although any other thread's commit or failure may
\* have ended the transaction it was inserted in.
AckedSurvives ==
  \A b \in acked :
    b \in taken \/ posted[b].expires <= now \/ b \in Stored(disk)

Gone(b) == b \in taken \/ posted[b].expires <= now

\* Whoever burns a row protected by a passphrase showed its verifier, although
\* the DELETE repeats no check and may find another row than the one that was
\* judged.  It finds another one only if that one is gone, taken by a consume or
\* expired, and its slug was posted again; then what was shown opened the first.
GateHonoured ==
  [][\A w \in Workers :
       LET judged == req[w].row
           row    == db[req[w].slug] IN
       Burn(w) /\ row # Null /\ db'[req[w].slug] = Null /\ row.gate # Null
       => \/ req[w].proof = row.gate
          \/ /\ judged.blob # row.blob
             /\ judged.gate \in {Null, req[w].proof}
             /\ Gone(judged.blob)]_vars

\* An expired secret leaves the live table and the file, unless the sweeper
\* has died.
ExpiredIsPurged ==
  \A b \in Blobs :
    /\ b \in Stored(db) \cup Stored(disk)
    /\ posted[b].expires <= now
    ~> b \notin Stored(db) \cup Stored(disk) \/ sweep.at = "dead"

\* A failure that was answered (403 or 429) is in the file, where a restart
\* finds it, whichever thread's commit carried it there: its count, or a lock
\* set since, and the lock it was itself to set.  Unless the secret is gone.
\* (When COMMIT raises the answer is a 500.)
Counted(row, kept) ==
  /\ \/ kept.fails >= row.fails
     \/ kept.locked > 0 /\ kept.locked >= row.locked
  /\ row.fails >= MaxAttempts => kept.locked > 0

FailureDurable ==
  [][\A w \in Workers :
       LET row == req[w].row
           kept == disk'[req[w].slug] IN
       CommitFailure(w) /\ ~inTx' /\ row # Null
       => kept = Null \/ kept.blob # row.blob \/ Counted(row, kept)]_vars
============================================================================
