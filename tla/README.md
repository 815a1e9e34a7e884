# Formal models of secret.cynderlab.com

TLA+ modules, TLC configurations and TLAPS proofs for the one-time secret
service in `src/`. Every definition is translated from the code; where the code
and its documentation disagree, see *Findings*.

## The system

A client encrypts a secret in the browser and posts the ciphertext under a slug
it has drawn itself. The server keeps one row per secret in SQLite and gives it
out once. The parts:

| Component | State | Operations | Talks to |
|---|---|---|---|
| Secret store and API (`app/api.py`, `app/store.py`, `app/db.py`) | table `secrets`; one `sqlite3.Connection` with its open transaction | create, meta, consume (gate, failure counter, lock, burn) | every handler thread uses the same connection |
| Sweeper (`app/main.py` lifespan, `app/cleanup.py`) | an asyncio task | purge, commit, WAL checkpoint, VACUUM, sleep an hour | the same connection, from a thread of its own |
| Rate limiter (`app/ratelimit.py`) | a deque of clock readings per address, a lock | `client_ip`, `check` | called first by every create; nginx hands on `CF-Connecting-IP` as `X-Real-IP` |
| Expiry (`api.parse_expiry`, date field of `create.js`) | none | parse, bound | create page → API |
| Payload limits (`api.py`, `main.py` body guard, `web.py` `max_kb`, `create.js`) | none | five size checks | create page → API |
| Create page (`static/js/create.js`) | form, full link | submit with up to 3 attempts on 409 | API |
| Reveal page (`static/js/reveal.js`) | page state, needs-passphrase flag | init (meta), reveal (consume, decrypt) | API |
| Cryptography (`crypto.js`, its mirror `app/crypto.py`) | none | derive, encrypt, decrypt | the pages; the server only decodes base64url and hashes the verifier |
| Migrations (`app/db.py` `migrate`, `migrations/`) | schema, table of versions | apply missing scripts | `ExecStartPre` and every start |
| Shell (`app/main.py`) | none | size guard, headers, error pages | wraps every request; its answers may be kept by caches |
| Pages and languages (`app/web.py`, `app/i18n.py`, `templates/`) | none | render, negotiate | `GET /s/{slug}` reads the store |
| SBOM script (`scripts/gen_sbom.py`) | list of packages to look at | resolve the runtime scope | `uv.lock`, in CI |
| Configuration, deployment, other scripts, vendored QR code | – | – | – |

What is hard in it:

* **One connection for all threads.** FastAPI runs the plain `def` handlers on a
  thread pool and `db.connect` opens the connection with
  `check_same_thread=False`. Handlers interleave between any two of their calls,
  and they share one transaction: whoever commits commits everybody's writes,
  and a commit, a BEGIN, a checkpoint or a VACUUM can raise because of what
  another thread is doing. No handler rolls back.
* **Check, then act.** Lock, verifier and expiry are judged on a row read
  earlier; the DELETE names only the slug.
* **Failure.** Restarts lose the open transaction; an exception ends the sweeper.
* **Time.** Expiry, lock end, sliding window and Retry-After all have boundaries;
  the limiter reads the clock before it takes its lock.

What makes each component correct: the store answers a ciphertext at most once,
before its expiry, to someone who has shown the verifier, never again after a
restart, and keeps what it acknowledged; the sweeper removes what has expired;
the limiter admits no more than its limit per window, and a client that waits as
long as it is told gets in; the pages lose no secret that they could have shown;
migrations can be interrupted and run again; the two sides of every size and
date limit agree; no cache keeps what was answered for a secret, and every reader
gets pages in their own language. `PROJECT.json` lists the hazards by line.

## Modules

| Module | What it is |
|---|---|
| `SecretStore` | the shared connection, the three API handlers and the sweeper, one action per call |
| `OneTimeSecret` | the promise without the machinery: unborn → offered → sealed → released or gone |
| `SecretStoreRefinement` | the mapping under which `SecretStore` implements `OneTimeSecret` |
| `MCSecretStore` | symmetry, and what the documentation says of the program |
| `SecretStoreProofs`, `SecretStoreRowProofs` | theorems about `SecretStore`: who has a blob; what a row remembers; the refinement |
| `RateLimiter`, `MCRateLimiter`, `RateLimiterProofs` | `client_ip` and `RateLimiter.check` with threads; theorems |
| `Migrations`, `MigrationsProofs` | `migrate()` statement by statement, with crashes, retries and upgrades; theorems |
| `Crypto` | what keys, verifiers and ciphertexts depend on, symbolically |
| `Service` | the server as the pages see it, with atomic handlers, and the network |
| `CreatePage`, `RevealPage` | the two pages' scripts, over `Service` |
| `Exchange`, `MCExchange`, `ExchangeProofs` | senders, readers, server and network together; their properties; theorems |
| `ExchangeRefinement` | the mapping under which `Exchange` implements `OneTimeSecret` |
| `Expiry`, `MCExpiry`, `ExpiryProofs` | the date field against `parse_expiry`; theorems |
| `Payload` | the size checks a create passes |
| `Language` | `negotiate()` |
| `Shell`, `ShellProofs` | one request through the middlewares and back, over `Payload` and `Language`; theorems about all three |
| `Sbom`, `MCSbom`, `SbomProofs` | `runtime_closure()` of the SBOM script; theorems |

### SecretStore

`req[w]` is the handler that thread `w` is running: `at` is the call that comes
next, `slug`, `proof` and `row` are its locals. `db` is the table as the
connection sees it, `disk` the table as last committed, `inTx` whether a
transaction is open. A step is one call:

* create: `PostSecret` (all checks up to the INSERT), `Insert`, `CommitCreate`;
* meta: `SelectMeta`, `FetchMeta`;
* consume: `SelectAuth`, `FetchAuth`, `Gate` (lock, verifier), then either
  `UpdateFailure`, `FetchFailure`, perhaps `UpdateLock`, `CommitFailure`, or
  `Burn`, `FetchBurned`, `CommitBurn`, `Serve`;
* sweeper: `Purge`, `CommitPurge`, `Checkpoint`, `Vacuum`, `Wake`;
* `Tick`, and `Crash`: the process dies and systemd starts it again.

What the driver and SQLite do is modelled from how the code uses them, for
CPython's `sqlite3` in its default mode, and marked external in the map:

* before a write the driver looks whether a transaction is open and if not sends
  BEGIN; `commit()` looks likewise and if one is open sends COMMIT. The GIL is
  released in between, so looking (`Look`, `LookSweep`) is a step of its own.
  A BEGIN or COMMIT that another thread's made pointless raises.
* COMMIT raises while a `RETURNING` statement that produced a row has not been
  fetched; a checkpoint or VACUUM raises in a transaction and while any
  statement is active.
* an INSERT that violates the key leaves the transaction it began open.
* BEGIN and the statement that follows it are one step, and so are a look that
  finds a transaction and the statement after it.

These were observed with Python 3.11 and SQLite 3.40. Not modelled: several
threads stepping one cached statement object, and failures of the disk.

A blob stands for a ciphertext with its nonce, a verifier for its hash. Requests
refused by validation or by the limiter change nothing here and are left out.
`posted`, `served`, `taken` and `acked` are history variables.

### RateLimiter

`ReadClock` is `enforce_create_limit` up to line 20 of `ratelimit.py`, outside the
lock. `Requests` says how a request can arrive: through nginx, which sends as
`X-Real-IP` what it finds in `CF-Connecting-IP` (`deploy/nginx-….conf:24`; the file
does not restrict who connects, so it may say anything, and without it all are counted as
127.0.0.1); directly, with any header; or without a peer. `ClientIp` is the key under
which it is counted, `from` whose it really is. `sent` and `named` are history: which
readings are a client's own, and which clients the host named in another's request.
`Admit`, `Refuse` and
`Fail` (no entry to take a Retry-After from, when the limit is 0) are the critical
section, atomic under the lock. Clock readings are ticks of a fraction of a
second, because Retry-After truncates to whole seconds.

### OneTimeSecret and the refinement

`Phase` in `SecretStoreRefinement` maps a blob to its phase. It is *sealed* while any
copy of its row could still be answered: in `db`, in `disk`, or in the hands of a
consume. The refinement says that a release comes from a sealed blob, before its
deadline, once, and that nothing comes back from *gone*. Losing a secret is
allowed at any time: the code does lose secrets (see *Findings*), and a
stronger promise is not kept. A blob that was answered while a copy of it could be
answered again has the phase *copied*, which `OneTimeSecret` does not know.

`ExchangeRefinement` maps `Exchange` to the same promise, from the form to the screen.
A secret is a draw of the create page. It is *offered* while a create that carries it
is under way, its page waiting for it or not; *sealed* while it is in the table or in an
answer that a reader will get; and released when it is shown, not when it is sent. There
is no clock: a secret may expire at any time, which loses it, and the deadlines are
constants that are never reached.

### Migrations

`at` is where `migrate()` is, `objects` what the file has, `recorded` the table
of versions. `ReadApplied`, `Scan`, `Execute` (one statement, durable at once,
because `executescript` runs in autocommit mode), `ExecuteFails`, `Record` and
`CommitVersion` are the lines of `db.py`; `Retry` is systemd's
`Restart=on-failure`; `Upgrade` brings the next script, `Serve` is the
application, which stores secrets. The application calls `migrate()` once more
when it starts; that pass finds nothing left to do and is left out.

### Exchange: Service, CreatePage, RevealPage

`Service` has the table and, for each page, the request it waits for (`asked`)
and its answer (`answer`). `Post`, `Meta`, `Refuse`, `Fail` and `Burn` say what
the handlers do with a request and what they answer. Unlike in `SecretStore`
they are atomic; what `SecretStore` shows of failing commits comes back as a 500
that may have had its effect or not. `Break` ends a connection before the
request arrives, while it is under way (it may be handled all the same,
`ServeLate`), or before the answer is back.

`form[p]` is the create page: `Submit`, `TryAgain` on 409, `ShowLink`,
`FailSubmit` (every other answer, and the `catch`), `NewSecret`. `tab[t]` is the
reveal page: `Open` (the server's page and the start of `init()`), `MetaArrives`,
`Reveal`, `Refused`, `Decrypt`, and `Unhandled`, which is what happens to a
rejected `fetch`: nothing. `astray`, `burned`, `expired`, `read` and `shared` are
history variables.

Slugs are 128 random bits. Draw number *n* has slug *n*, so a freed slug does
not come back, or slug 0, a stranger's, which is how a 409 comes about.
`Damaged` lets links arrive without their key or with another one.

### Expiry, Payload, Language

`Expiry`: time in ticks, a page is opened at some time and sent at any later one;
API clients send any date, instant or nothing. `Shifts` is what a change of the
clock adds to a local time some days ahead. The lifetimes are any integers, since
`load_settings` checks none. `Payload` follows one create through
the checks, with the real numbers; a client that is no page may declare no
length. `Language` is the loop of `negotiate()`.

### Shell

One request: `Inward` takes it through `reject_oversized_bodies` (a create through
all of `Payload`), `Outcome` is what the routes answer or raise, or an exception
nobody expected, `Negotiate` the language of an HTML answer, `Respond` the way
back through `add_security_headers`. `Stack` is the order in which Starlette puts
the middlewares around the router: those registered last are outside, the handler
of `HTTPException` is inside of them and the one of `Exception` outside. A
middleware sees only what is answered further in. `Cacheable` is what RFC 9111 lets
a cache do with the answer; `Reusable` says whether the cache may show it to
somebody with another Accept-Language.

### Sbom

`queue` is the list of `runtime_closure()`, as a set: the order in which pairs come
out is any, and one that stands in the list twice is skipped or repeated to no
effect. `Skip` and `Visit` are the two ways through the loop, `Write` is the scope
of each component in `main()`. The project's own package is the `root` of the lock
and no member of `Names`. `Reached` is the reference: the least set of pairs that
has the project's dependencies and, with each pair, what it requires.

## Runs

All runs pass or fail as stated; the bounds are in the `.cfg` files.

| Run | Instance | Checks |
|---|---|---|
| `ReadOnceCrash` | 2 threads, 1 slug posted for 2 blobs, no passphrase, 1 tick, restarts | `ReadOnce`, `NoResurrection`, `AckedSurvives`, `Custody`, `RefinesOneTimeSecret` |
| `Passphrase` | 2 threads, 1 slug posted for 2 blobs, each with or without a gate, right, missing and malformed proofs (a wrong one takes the branch of a missing one), 2 failures to a lock, a lock that ends, restarts | `TypeOK`, `FailureDurable`, `GateHonoured` |
| `Sweeping` | 2 threads, fairness, no restarts | `ExpiredIsPurged` |
| `Limiter` | 2 threads, 2 clients directly and through nginx, a header that names one of them, limits 0 and 2, window of 2 half seconds, 3 ticks | `TypeOK`, `WindowLimit`, `OwnBudget`, `RetrySuffices` |
| `Migrating` | both scripts, started with one or two, up to 3 crashes | `TypeOK`, `SchemaComplete`, `FailsOnlyHalfway`, `SecretsKept`, `ComesUp` |
| `Creating` | 1 sender with repeated submits, 2 tries each, 3 draws, 1 reader with links good and damaged, 1 broken connection | `TypeOK`, `LinkStored`, `NoOrphans`, `TypoIsSafe` |
| `Reading` | 1 submit, 2 readers with reloads, good links, 1 broken connection, fairness | `NotWasted`, `OneReader`, `RefinesOneTimeSecret`, `SubmitEnds`, `RevealEnds` |
| `Dates` | days of 4 ticks, 3 of them, maximum of 3 days, clock changes | `HardMaximum`, `OfferKept` |
| `Serving` | every kind of URL, GET and POST; 256 KB, lengths around every boundary; headers of up to 3 parts with 3 weights, 2 languages supported and one not | `PageAgrees`, `StoredFits`, `Hardened`, `PicksBest`, `OwnLanguage` |
| `Bom` | lock files of 3 packages (one may be missing) and an extra, with circles | `TypeOK`, `ScopeRight`, `EndsUnlessCircle` |
| `ClaimSweep`, `ClaimExactlyOneRead` | as small as shows it | a sentence of the documentation, violated |

Why the bounds suffice. A race on the connection involves the thread that is
surprised and one that surprises it, so two threads and the sweeper show every
pair; a third adds no call that the two do not make. One slug with two blobs
covers the reuse of a slug; a second slug only separates threads that interfere
through the transaction anyway. One tick is before and after the expiry; in
`Passphrase` it is before and after the end of a lock, while the secrets outlive it
and a row is freed only by a consume. `FailBound` stops clients from trying a slug
that has counted so many failures. In `Passphrase` it is 1: two threads that have both
looked before either has counted reach `MaxAttempts` 2 and the lock, and go on after
it, as the lock resets the count. The second of two failures in a row, which is no
race, is left to the theorems. The limiter's 3 ticks are one window and one tick, enough
for a reading that is late by a window: a thread prunes with a newer one and the late
thread gets in behind it. Both clients send, and `Headers` names one of them: the
other directly under its own address, or through nginx under the first one's.
Headers of three parts have one before and one
after the best, and the smallest lock files with a package that comes up first
without and then with its extra, or with an extra that comes back to itself, have
two packages; the third is what is found behind them. Three crashes reach every pair of places in two scripts, with one to spare.
In `Creating` the draws leave room for a second submit after a first that went
astray; `Submit` leaves room for its own retries, so that with one sender, as in both
runs, the bound cuts off none. Readers
only multiply what `Reading` is about, so each of the two runs has few of what
the other has many of; neither uses a damaged link and a second reader at once. Three days and a maximum of three cover a page sent on
its day and two days later. Symmetry is used in safety runs only, on sets whose members no definition
tells apart.

`NotWasted` is checked with `Damaged = FALSE`. With `TRUE` it fails, by design: the
server cannot tell a wrong link key before it burns.

The runs with `CHECK_DEADLOCK FALSE` describe what really ends: a request that is
answered, or a bound on draws or readings used up.

**Fairness.** `FairSpec` gives weak fairness to each thread that has a request
(the pool runs it to its end; no step waits for another thread) and to the
sweeper (the event loop resumes it). Clients, the clock and crashes get none.
In `Exchange` the server answers and the pages' handlers run; nobody need press a
button. In `Migrations` the process and the service manager make progress, and crashes are
finitely many. In `Sbom` the loop runs: nothing else goes on in the script.
`Sweeping` has no restarts, because a process that is restarted before every
sweep never finishes one.

## Findings

* `ClaimSweep` – README.md:18-19: "the process itself sweeps them hourly". The
  sweeper has no `try`; a race for the connection raises in it and ends it. In
  ordinary traffic it is enough that a handler is between an execute and its
  fetch, or between a write and its commit, when the checkpoint or the VACUUM
  comes.
* `ClaimExactlyOneRead` – README.md:11: "every secret allows exactly one read".
  `commit()` in `consume_secret` can raise after the DELETE; the reader gets a 500
  and the next commit makes the deletion durable.

Other divergences have no run of their own; properties that hold say how far the
code is from the sentence:

* README.md:146, "DB migrations run automatically in `ExecStartPre` on every
  (re)start": a crash after a statement of a script and before the commit of its
  version makes every later start fail at `CREATE TABLE` or `ADD COLUMN`, until
  someone repairs the file by hand. `ComesUp` has that as its exception, and
  `FailsOnlyHalfway` says that there is no other.
* README.md:26, "Strict CSP, `no-store` on sensitive paths": an unexpected exception
  is answered outside the middlewares, so the page or JSON of a 500 has neither.
  `Hardened` excepts it from the headers; that no cache keeps it follows from its
  status.
* app/main.py:65, "URLs carry a content hash (?v=), so caches may hold them forever":
  the header is set by path, so a 404 under `/static/` is immutable for a year as
  well. `OwnLanguage` holds for it, since its page says Vary.
* scripts/gen_sbom.py:69: a pair with extras is never skipped, so the script would
  not end on packages whose extras ask for each other in a circle. `EndsUnlessCircle`
  has both halves; the lock file in the repository has no circle.
* README.md:24, "20 secret creations/hour/IP": `check()` reads the clock before it
  takes its lock, and a thread with an older reading can find the deque pruned
  with a newer one. `WindowLimit` has the excess: one for each other thread.
* static/js/reveal.js:11-12, "Anything broken … lands on the branded 404 page": a
  rejected `fetch` is not caught, the page stays with its button disabled. That is
  the exception in `RevealEnds`.
* README.md:20-22, "The server verifies a derived proof … **before** releasing or burning
  anything": it does, but against the row that was read. When another consume frees the
  slug and it is posted again, which the server accepts, the DELETE takes a row whose
  verifier nobody has shown. A client that draws its slugs as the pages do (128 random
  bits) never repeats one. `GateHonoured` says that there is no other way.
* README.md:22-23, "5 failed attempts lock that secret": several threads may count
  before one locks, and the BEGIN of the UPDATE that locks can raise after another
  thread has committed the count. The guess then gets a 500, the count stands at the
  limit, and there is no lock until the next failure. `FailureDurable` is about failures
  that were answered.
* README.md:107, `SECRET_MAX_TTL_DAYS` is a "Hard expiry ceiling, enforced server-side":
  `SECRET_DEFAULT_TTL_DAYS` is not held against it, neither in `load_settings` nor in
  `parse_expiry`. `HardMaximum` has that as its exception.
* README.md:16-17, "lets senders pick any date up to a 30-day hard maximum": the last
  date of the calendar means the end of that day, which is after the maximum, and is
  refused. `OfferKept` promises the others.
* README.md:105, `SECRET_MAX_BYTES`, "Max plaintext size": from 269985 bytes on, the fixed
  field length 360000 refuses what the page accepts. `PageAndServerAgree` goes up to 269984.

And one race that no property here forbids: the lock is judged on the row
`get_auth` read, so a consume with the right passphrase that read it before
another thread set the lock burns the secret while it is locked
(tests/test_api_reveal.py:71 tests it with one client). `FailureDurable` says what
counts and locks do hold against: other threads' commits and restarts.

## Proofs

`SecretStoreProofs` proves for every set of threads, slugs, blobs and verifiers
and every bound:

* `TypeCorrect`: `Spec => []TypeOK`. The types alone are not inductive: a handler
  that inserts, acknowledges, judges or burns must hold a row (`LocalsOK`).
* `CustodyKept`, `ReadAtMostOnce`, `NothingResurrects`: `Custody`, `ReadOnce` and
  `NoResurrection`. At most one answer does not follow from the DELETE being
  atomic: after a failed commit and a restart the row is back. The invariant
  `Custody` says where a blob may be: in one row at most; in the hands of one
  thread at most, and then not in the table and not answered; and, once that
  thread's commit is done, not in the file either. It needs that outside a
  transaction nothing is uncommitted, because `commit()` does nothing there and
  yet the handler goes on to answer. `CustodyFrame` covers the steps that store
  nothing new and hand out nothing, `CommitFrame` every commit; the steps that
  move a blob (post, insert, burn, answer, restart) are argued one by one.

`SecretStoreRowProofs` goes on from there. `RowsMatch` ties every row, in the table,
in the file or in a thread's locals, to the create that its blob comes from:

* `AcknowledgedIsDurable` (`AckedSurvives`): between the INSERT and its commit another
  thread's commit may have stored the row and a third may have burned it, so the
  invariant `AckInv` says that an inserted blob is in the table, handed out or
  expired (`Landed`), and that what is acknowledged is so in the file.
* `GateIsHonoured` (`GateHonoured`): the proof was judged on a row that may be gone
  when the DELETE comes. `GateInv` says that a row that is being judged has `Landed`: it
  is in the table or it is taken or expired; and that who is about to burn has shown
  what that row wants. So if the DELETE finds another row, the one that was judged is
  not in the table any more, because the table has one row to a slug.
* `FailuresAreDurable` (`FailureDurable`): several threads count and lock the same
  row between this thread's UPDATE and its commit. `FailuresKept` says that the table
  remembers the count or a lock no shorter; it needs that no lock reaches further
  than one set now (`LocksBounded`) and that nobody has read a row before it was
  inserted (`Unread`).
* `ImplementsOneTimeSecret` (`RefinesOneTimeSecret`): a post is an *Offer*, the INSERT
  a *Seal*, an answer with a blob a *Release*, a tick a *Tick*; every other step, a
  restart included, makes no copy where there was none and so is a *Lose*, of no
  secret when it changes no phase (`QuietStep`, `LoseFrame`). `Custody` gives the phases,
  `RowsMatch` the deadline: the expiry in a thread's locals is the one posted. That no
  blob is ever *copied* is part of it.

`MigrationsProofs`, for any number of crashes: `SchemaIsComplete` and
`MigrationsKeepSecrets`, which of the scripts use only that none is empty, and
`MigrationsTyped` and `FailureIsHalfway`, which use what they contain. The invariant
adds what the loop knows (what is below the version it is at is recorded, and nothing
else is but what it found) and how far the current script has come; without it
`SchemaComplete` says nothing of the moment before the version is recorded.
`FailureIsHalfway` follows because no object belongs to two scripts.

`RateLimiterProofs`, for any threads, clients, window and limits: `LimiterTyped`,
`BudgetIsOwn`, `WaitingSuffices` and `WindowHolds`. The deque may be out of order, so
pruning leaves its end from the first fresh entry on (`PrunedIs`, by the least number
principle `Least`), stale entries behind it included. `Bounded` says that no
deque outgrows the limit: when the head that Retry-After was computed from leaves,
there is room. `Named` says that a request counted as a client's is that
client's, or that the host named the client in another's; without the exception, which is
nginx's header, `OwnBudget` does not hold.

`WindowHolds` (`WindowLimit`) says how far late readings can exceed the limit: by one
for each *other* thread. The deque is the end of all that was admitted (`Ending`).
`WindowInv` says of every window that either the deque still has all that was
admitted in it (`Kept`), and then `Bounded` gives the limit (`KeptFew`); or that it is
over and what was admitted in it, together with the threads whose reading lies before its
end (`Late`), is at most the limit and the other threads (`Passed`). The deque stops
having it all when a thread prunes with a reading after the window's end, which makes
that thread none of the late ones (`Overtaken`). From then on an admission into the
window costs a late thread, since its next reading is newer. It assumes that the threads
are finitely many (`ThreadsAssumption`), as in the pool.

`ExpiryProofs`, for any length of a day, lifetimes and changes of the clock:
`MaximumHolds` and `OfferHolds`. The lifetimes are any integers: a default that is no
number of days from 1 to the maximum is the exception that `HardMaximum` names. The arithmetic of days is in lemmas: an instant is in one day only
(`DayUnique`), and so many days ahead is so many days later (`DaysAhead`, `EndAhead`).

`SbomProofs`, for any lock file, finite or not: `SbomTyped` and `ScopesAreRight`. The
loop's invariant has a witness: the pairs that were worked off (`WorkedOff`).
With an empty list they are closed, so that they contain what is needed; and only
what is needed ever gets into the list. That the loop ends is TLC's.

`ShellProofs`, with the real numbers of `Payload`: `PageAndServerAgree` for every
`MaxBytes` from 1024 to 269984 (both ends are sharp: above, the field length is too
short, and below 1024 the page falls back to 256 KB) and `StoredAlwaysFits` for every
`MaxBytes`. They rest on `Arithmetic`: decoding inverts the growth by base64, and how
much it is. `AlwaysPicksBest`, for headers of any length: `PicksBest` with its types is
the loop's invariant. `AlwaysHardened` and `EverybodysLanguage`, for every kind of URL
and headers of any length, those of the readers of a cached page included.

`ExchangeProofs`, for any number of senders, readers, draws, broken connections and
failures to a lock: `WellTyped` (`TypeOK`), `TyposAreSafe` (`TypoIsSafe`),
`LinksAreStored` (`LinkStored`), `NothingOrphaned` (`NoOrphans`), `OneReaderOnly`
(`OneReader`) and `NothingWasted` (`NotWasted`). Their inductive invariant
`ExchangeInv` has layers; each needs those before it:

* `Base`: the types, and who asks for what: a waiting sender has posted for the slug
  of its form, a tab asks for a slug whose link was shown, every row and every
  request is `Sealed` for its slug. `TypoIsSafe` needs no more, because the verifier
  that the server compares was sealed with the ciphertext.
* `Owned`: a slug belongs to its sender until the link is shown. As long as the page
  has no 201, 500 or loss, nothing is stored or still on its way under the slug, so a
  409 can only be a stranger's; and when the link is shown no late create is
  left that could bring the secret back after it was read.
* `Told`: a 201 means stored, or already burned or expired; a 500 or a loss is
  recorded as astray. With `Owned` it gives `LinkStored`.
* `NoOrphans` itself, with a case for each way in which a create ends.
* `OnlyCopy`: an answer that carries a ciphertext is the only copy of it: no row, no
  other answer and no tab has it. So what a tab is about to show was not shown before,
  which is `OneReader`, whatever is reloaded or handled late.
* `Gates`: what a tab knows of the passphrase gate is so, which decides whether it
  decrypts with a passphrase or without.
* `Fitting` and `NotWasted`, with links undamaged only: the ciphertext that a tab
  gets is the one that its key and its passphrase open (`SamePassphrase`), so that
  `Decrypt` shows it instead of throwing. With damaged links both are false, by
  design (see *Runs*), hence the hypothesis `~Damaged`.

`ExchangeImplementsOneTimeSecret` (`RefinesOneTimeSecret`) needs one layer more:
`Single`. A secret is in one of its `Places` at most: in a create that a page waits for, in
one that its page gave up, in the table, in an answer, on a screen. Every
step leaves it there (`Keeps`), moves it (`Moves`) or draws it (`Makes`), and none
copies it: what a POST stores is no longer asked, what a consume answers is no longer
stored, and a page that shows a secret had it from the only answer (`OnlyCopy`). A page
that draws is an *Offer* of the draw (`OfferStep`), a request that stores one a *Seal*
(`SealStep`), a tab that shows one a *Release* (`ReleaseStep`); every other step
is a *Lose*, of no secret when none changes its phase (`LoseStep`).

What the server does with a request is summed up in four outcomes, `Nothing`,
`Stores`, `Counts` and `Burns` (`Outcomes`), so that each layer argues about four
cases for `ServeRequest` and `ServeLate` alike.

Assumptions: the named ASSUMEs of the modules (bounds are naturals, lifetimes of the
store's secrets positive, as with a default of a day or more, threads finite, `Null` is none of the values it stands beside, the host's
address is no client's, the default is one of the
supported languages, an envelope of at most 1024 characters), and those in the
statements.

Only model-checked: liveness (`ExpiredIsPurged`, `SubmitEnds`, `RevealEnds`, `ComesUp`,
`EndsUnlessCircle`), which needs fairness and ENABLED and is out of the prover's reach.
## Plan

In order, with the abstract specifications and theorems worth stating:

1. *done* `SecretStore`, `OneTimeSecret`, `SecretStoreProofs`, `RateLimiter`.
2. *done* `Migrations`, `Exchange` with its pages, `Expiry`, `Payload`, `Language`.
3. *done* `client_ip` and a limit of 0, `Shell`, `Sbom`; theorems about the store's
   rows, the limiter, `Expiry` and `Sbom`; the refinement of `OneTimeSecret` proved.
4. *done* Theorems: `WindowLimit`; the invariants and action properties of `Exchange`;
   `Hardened` and `OwnLanguage` of `Shell`; `Exchange` implements `OneTimeSecret`.
5. Observers over `SecretStore`: how many guesses are judged between two locks, with
   several threads and a lock that may fail; refusals that contradict the table.
6. `Exchange` over a server whose handlers are not atomic: `Service` shown to be
   what `SecretStore` implements, its 500s included.

## Not modelled

* Power loss. With `synchronous=NORMAL` the machine, not the process, may forget the
  last commits; the code has nothing that handles it.
* The checks of slug, nonce and base64 (functions of one request that change
  nothing), the texts and their rendering, the mathematics of the cryptography.
* `scripts/gen_og.py` draws an image. `gate_e2e.py` is a test: what it asserts of
  locks and burns is what `GateHonoured` and `FailureDurable` say of every order of
  threads. nginx (but for its header), the CI workflow and the vendored QR code are no code of the program.
* The memory of the limiter, which never forgets an address, and the cached hashes
  of static files, which never change while the process runs.
