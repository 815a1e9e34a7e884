------------------------------ MODULE Service -------------------------------
(***************************************************************************)
(* What the pages see of the server and the network.                       *)
(*                                                                         *)
(* A page has at most one fetch under way: asked[p] until the server has   *)
(* handled it, then answer[p] until the page has.  A connection may break  *)
(* at either point; a request that was on its way may still be handled.    *)
(*                                                                         *)
(* The handlers of app/api.py are taken as atomic here; SecretStore has    *)
(* them call by call.  Its commits may fail: a 500 may leave the work done *)
(* or not.                                                                 *)
(***************************************************************************)
EXTENDS Crypto, Integers

CONSTANTS
  Pages,         \* browser tabs, of senders and of readers
  Passphrases,
  MaxDraws,      \* bound: link keys drawn by all pages
  MaxFailures,   \* MAX_ATTEMPTS, store.py
  MaxBroken      \* bound: connections that break

ASSUME BoundsAssumption ==
  MaxDraws \in Nat /\ MaxFailures \in Nat \ {0} /\ MaxBroken \in Nat

VARIABLES
  rows,     \* the table secrets, by slug
  asked,    \* the request a page waits for, before it is handled
  answer,   \* and its answer
  late,     \* requests whose page has given up
  broken,   \* how many connections broke
  burned,   \* history: ciphertexts consumed
  expired,  \* history: ciphertexts that expired
  astray    \* history: requests of which the page did not learn the outcome

network == <<asked, answer, late, broken>>
service == <<rows, network, burned, expired, astray>>

\* Draw number n has link key n, and slug n unless it collides with 0, the
\* slug of a stranger's secret.  128 random bits repeat no slug that was freed.
Slugs    == 0..MaxDraws
LinkKeys == 1..MaxDraws

Ciphertexts == {EncryptSecret(k, s, p) :
                  k \in LinkKeys, s \in Slugs, p \in Passphrases \cup {Null}}
Verifiers   == {DeriveVerifier(p, s) : p \in Passphrases, s \in Slugs} \cup {Null}

\* An answer with what it carries: a ciphertext, has_passphrase.
Delivery(status, ciphertext, gated) ==
  [status |-> status, ciphertext |-> ciphertext, gated |-> gated]

Answer(status) == Delivery(status, Null, FALSE)

\* One status for 413, 422 and the limiter's 429, which the page treats alike:
\* it shows a message, and nothing was stored.
Lost     == "lost"
Statuses == {"200", "201", "403", "404", "409", "429", "500", "refused", Lost}

\* A row as the INSERT makes it.
Row(q) == [ciphertext |-> q.ciphertext, verifier |-> q.verifier,
           failures |-> 0, locked |-> FALSE]

\* The stranger's secret is never asked for.
Stranger == [ciphertext |-> Null, verifier |-> Null, failures |-> 0, locked |-> FALSE]

Rows == [ciphertext : Ciphertexts, verifier : Verifiers,
         failures : 0..MaxFailures - 1, locked : BOOLEAN]

Answers == [status : Statuses, ciphertext : Ciphertexts \cup {Null},
            gated : BOOLEAN]

Requests ==
  [kind : {"post", "meta", "consume"}, slug : Slugs,
   ciphertext : Ciphertexts \cup {Null}, verifier : Verifiers]

\* null is none of them.
ASSUME NullAssumption ==
  /\ Null \notin Passphrases
  /\ Null \notin Ciphertexts
  /\ \A p \in Passphrases, s \in Slugs :
       DeriveVerifier(p, s) # Null /\ <<p, s>> # Null
  /\ Null \notin Rows \cup {Stranger}
  /\ Null \notin Answers
  /\ Null \notin Requests
----------------------------------------------------------------------------
(* The handlers: what they do with a request and answer a.                 *)

Free == {s \in Slugs : rows[s] = Null}

Untouched == UNCHANGED <<rows, burned, expired>>

Post(q, a) ==
  \/ a = Answer("refused") /\ Untouched
  \/ a = Answer("500") /\ Untouched
  \/ rows[q.slug] # Null /\ a = Answer("409") /\ Untouched
  \/ /\ rows[q.slug] = Null
     /\ a \in {Answer("201"), Answer("500")}
     /\ rows' = [rows EXCEPT ![q.slug] = Row(q)]
     /\ UNCHANGED <<burned, expired>>

\* GET /s/{slug} and GET /api/secrets/{slug} both find the row or do not.
Meta(q, a) ==
  /\ a = IF rows[q.slug] = Null
           THEN Answer("404")
           ELSE Delivery("200", Null, rows[q.slug].verifier # Null)
  /\ Untouched

\* Mutant: a proof is wanted, but not compared.
WrongProofAbsent(q) == rows[q.slug].verifier # Null /\ q.verifier = Null

WrongProof(q) == rows[q.slug].verifier \notin {Null, q.verifier}

Refuse(q, a) ==
  \/ rows[q.slug] = Null /\ a = Answer("404") /\ Untouched
  \/ /\ rows[q.slug] # Null
     /\ rows[q.slug].locked
     /\ a = Answer("429")
     /\ Untouched
  \/ rows[q.slug] # Null /\ a = Answer("500") /\ Untouched

\* Mutant: the lock does not reset the counter.
FailWithoutReset(q, a) ==
  LET row == rows[q.slug]
      last == row.failures + 1 >= MaxFailures IN
  /\ row # Null
  /\ ~row.locked
  /\ WrongProof(q)
  /\ a \in {Answer(IF last THEN "429" ELSE "403"), Answer("500")}
  /\ rows' = [rows EXCEPT ![q.slug].failures = @ + 1,
                          ![q.slug].locked = last]
  /\ UNCHANGED <<burned, expired>>

Fail(q, a) ==
  LET row == rows[q.slug]
      last == row.failures + 1 >= MaxFailures IN
  /\ row # Null
  /\ ~row.locked
  /\ WrongProof(q)
  /\ a \in {Answer(IF last THEN "429" ELSE "403"), Answer("500")}
  /\ rows' = [rows EXCEPT ![q.slug].failures = IF last THEN 0 ELSE @ + 1,
                          ![q.slug].locked = last]
  /\ UNCHANGED <<burned, expired>>

\* Mutant: a read does not delete.
BurnKept(q, a) ==
  LET row == rows[q.slug] IN
  /\ row # Null
  /\ ~row.locked
  /\ ~WrongProof(q)
  /\ a \in {Delivery("200", row.ciphertext, row.verifier # Null), Answer("500")}
  /\ UNCHANGED rows
  /\ burned' = burned \cup {row.ciphertext}
  /\ UNCHANGED expired

Burn(q, a) ==
  LET row == rows[q.slug] IN
  /\ row # Null
  /\ ~row.locked
  /\ ~WrongProof(q)
  /\ a \in {Delivery("200", row.ciphertext, row.verifier # Null), Answer("500")}
  /\ rows' = [rows EXCEPT ![q.slug] = Null]
  /\ burned' = burned \cup {row.ciphertext}
  /\ UNCHANGED expired

Handle(q, a) ==
  \/ q.kind = "post" /\ Post(q, a)
  \/ q.kind = "meta" /\ Meta(q, a)
  \/ q.kind = "consume" /\ (Refuse(q, a) \/ Fail(q, a) \/ Burn(q, a))

\* What Handle(q, a) may answer with.
Replies(q) ==
  {Answer(st) : st \in Statuses \ {Lost}} \cup
  {Delivery("200", c, g) :
     c \in {Null} \cup {rows[s].ciphertext : s \in {q.slug} \ Free}, g \in BOOLEAN}

\* Requests that change something: only their loss matters.
Effective(q) == {q} \ [kind : {"meta"}, slug : Slugs, ciphertext : {Null},
                      verifier : {Null}]

\* The server handles the request of page p; a 500 does not tell what became
\* of it.
ServeRequest(p) ==
  /\ asked[p] # Null
  /\ answer[p] = Null
  /\ \E a \in Replies(asked[p]) :
       /\ Handle(asked[p], a)
       /\ answer' = [answer EXCEPT ![p] = a]
       /\ astray' = IF a.status = "500" THEN astray \cup Effective(asked[p])
                                       ELSE astray
  /\ UNCHANGED <<asked, late, broken>>

\* The connection breaks before the request arrives, while it is under way, or
\* before the answer is back.
Break(p) ==
  /\ broken < MaxBroken
  /\ asked[p] # Null
  /\ answer[p] # Answer(Lost)
  /\ broken' = broken + 1
  /\ answer' = [answer EXCEPT ![p] = Answer(Lost)]
  /\ astray' = astray \cup Effective(asked[p])
  /\ \/ late' = late
     \/ answer[p] = Null /\ late' = late \cup Effective(asked[p])
  /\ UNCHANGED <<rows, asked, burned, expired>>

\* A request is handled after its page has given up.
ServeLate ==
  /\ \E q \in late :
       /\ \E a \in Replies(q) : Handle(q, a)
       /\ late' = late \ {q}
  /\ UNCHANGED <<asked, answer, broken, astray>>

\* Expiry and the sweep.  A stranger's secret stays.
Expire(s) ==
  /\ s # 0
  /\ rows[s] # Null
  /\ rows' = [rows EXCEPT ![s] = Null]
  /\ expired' = expired \cup {rows[s].ciphertext}
  /\ UNCHANGED <<network, burned, astray>>

\* LOCK_MINUTES pass.
Unlock(s) ==
  /\ rows[s] # Null
  /\ rows[s].locked
  /\ rows' = [rows EXCEPT ![s].locked = FALSE]
  /\ UNCHANGED <<network, burned, expired, astray>>

ServiceInit ==
  /\ rows = [s \in Slugs |-> IF s = 0 THEN Stranger ELSE Null]
  /\ asked = [p \in Pages |-> Null]
  /\ answer = [p \in Pages |-> Null]
  /\ late = {}
  /\ broken = 0
  /\ burned = {}
  /\ expired = {}
  /\ astray = {}
=============================================================================
